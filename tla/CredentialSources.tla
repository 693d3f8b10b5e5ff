-------------------------- MODULE CredentialSources --------------------------
(***************************************************************************)
(* From the selectors of a command to the identity its requests are signed  *)
(* with (app/runtime/selectors.go and providers.go, cli/context.go): the    *)
(* selectors are checked against each other, a secrets file is loaded into  *)
(* the environment, the profile is resolved and the client is built.        *)
(*                                                                         *)
(* A value is modelled by where it comes from; Nowhere is an empty value.   *)
(* region stands for the region and the endpoint, which are resolved alike. *)
(***************************************************************************)
CONSTANTS
  Profiles,   \* names of profiles
  Nowhere,    \* no selector, or an empty value
  Assigned,   \* sets of variables that an environment or a file may assign
  Inline      \* sets of credential fields that a profile may have inline

Variables == {"ak", "sk", "token", "region"}

ASSUME CredentialAssumption ==
  /\ Assigned \subseteq SUBSET Variables
  /\ Inline \subseteq SUBSET {"ak", "sk", "token"}
  /\ Nowhere \notin Profiles
  /\ Nowhere \notin {"global", "context", "env", "file", "profile", "cred",
                     "cli", "default"}

VARIABLES
  ask,   \* the command: where it is and its selectors
  env,   \* the process environment: variable -> where its value is from
  static, \* Context.forceStaticAuth
  client \* the client: how it signs, and where each part is from

sourceVars == <<ask, env, static, client>>

NoClient ==
  [signs |-> "none", mode |-> "none",
   parts |-> [v \in Variables |-> Nowhere]]

Selections ==
  [pc : {"select"}, exec : BOOLEAN,
   profile : Profiles \cup {Nowhere}, secrets : {Nowhere, "global"},
   contextProfile : Profiles \cup {Nowhere},
   contextSecrets : {Nowhere, "context"},
   used : {Nowhere}, file : {Nowhere}]

\* Only tool exec and workflow exec have a context.
SourceInit ==
  /\ \E a \in Selections :
       /\ ~a.exec => a.contextProfile = Nowhere /\ a.contextSecrets = Nowhere
       /\ ask = a
  /\ \E set \in Assigned :
       env = [v \in Variables |-> IF v \in set THEN "env" ELSE Nowhere]
  /\ static = FALSE
  /\ client = NoClient

SourceIdle ==
  /\ ask = [pc |-> "done", exec |-> FALSE, profile |-> Nowhere,
            secrets |-> Nowhere, contextProfile |-> Nowhere,
            contextSecrets |-> Nowhere, used |-> Nowhere, file |-> Nowhere]
  /\ env = [v \in Variables |-> Nowhere]
  /\ static = FALSE
  /\ client = NoClient

-----------------------------------------------------------------------------
(* Selectors                                                                *)

Conflict ==
  \/ ask.profile # Nowhere /\ ask.secrets # Nowhere
  \/ ask.contextProfile # Nowhere /\ ask.contextSecrets # Nowhere
  \/ ask.profile # Nowhere /\ ask.contextSecrets # Nowhere
  \/ ask.contextProfile # Nowhere /\ ask.secrets # Nowhere
  \/ ask.secrets # Nowhere /\ ask.contextSecrets # Nowhere
  \/ /\ ask.profile # Nowhere /\ ask.contextProfile # Nowhere
     /\ ask.profile # ask.contextProfile

Or(value, other) == IF value # Nowhere THEN value ELSE other

Stops == ask' = [ask EXCEPT !.pc = "failed"]

\* preflightGlobalSecretsFile, or applyToolExecContext for a tool or workflow.
SelectSource ==
  /\ ask.pc = "select"
  /\ IF Conflict THEN Stops
     ELSE ask' = [ask EXCEPT
            !.used = Or(ask.contextProfile, ask.profile),
            !.file = Or(ask.contextSecrets, ask.secrets),
            !.pc = IF Or(ask.contextSecrets, ask.secrets) = Nowhere
                   THEN "resolve" ELSE "load"]
  /\ UNCHANGED <<env, static, client>>

\* Assignments go to the environment, the rest of which stays as it was; a
\* file without one is an error.  From then on the identity is static.
LoadSecrets ==
  /\ ask.pc = "load"
  /\ \/ /\ Stops /\ UNCHANGED <<env, static>>
     \/ \E set \in Assigned \ {{}} :
          /\ env' = [v \in Variables |-> IF v \in set THEN "file" ELSE env[v]]
          /\ ask' = [ask EXCEPT !.pc = "resolve"]
          /\ static' = TRUE
  /\ UNCHANGED client

-----------------------------------------------------------------------------
(* Resolution                                                               *)

\* A profile as the configuration has it: absent, or with a mode, inline
\* credentials, a reference to a credential, and a region or none.
StoredProfiles ==
  [mode : {"absent", "ak", "sso", "ramrole", "unknown"}, inline : Inline,
   cred : {"none", "missing", "pair", "half"}, region : BOOLEAN]

CompleteEnv == env["ak"] # Nowhere /\ env["sk"] # Nowhere

Has(p, field) == IF field \in p.inline THEN "profile" ELSE Nowhere

\* An inline field counts before the one of the credential.
MergedField(p, field) ==
  IF Has(p, field) # Nowhere THEN "profile"
  ELSE IF p.cred = "pair" \/ (p.cred = "half" /\ field = "ak") THEN "cred"
  ELSE Nowhere

ProfileRegion(p) == IF p.region THEN "profile" ELSE Nowhere

\* A complete pair of the environment replaces the profile.  layer is the
\* --region option, or the default of the context or the project.
EnvIdentity(p, layer) ==
  [ak |-> env["ak"], sk |-> env["sk"], token |-> env["token"],
   region |-> IF layer = "cli" THEN "cli" ELSE Or(env["region"], layer)]

ProfileIdentity(p, layer) ==
  [ak |-> MergedField(p, "ak"), sk |-> MergedField(p, "sk"),
   token |-> Has(p, "token"),
   region |-> IF layer = "cli" THEN "cli" ELSE Or(ProfileRegion(p), layer)]

\* The profile of a provider; the environment counts for its region alone.
DynamicIdentity(p, layer) ==
  [ProfileIdentity(p, layer) EXCEPT
     !.region = IF layer = "cli" THEN "cli"
                ELSE Or(env["region"], Or(ProfileRegion(p), layer))]

\* Mutant of Dynamic: a complete environment makes every profile static.
DynamicUnlessEnv(p) ==
  p.mode \in {"sso", "ramrole"} /\ ~static /\ ~CompleteEnv

Dynamic(p) == p.mode \in {"sso", "ramrole"} /\ ~static

Signs(how, mode, parts) ==
  /\ client' = [signs |-> how, mode |-> mode, parts |-> parts]
  /\ ask' = [ask EXCEPT !.pc = "done"]

Unusable == Stops /\ UNCHANGED client

\* resolveSigningCredentials: a key that the identity lacks is taken from the
\* environment, and then the token if it is empty.
SigningParts(parts) ==
  IF parts.ak # Nowhere /\ parts.sk # Nowhere THEN parts
  ELSE [parts EXCEPT !.ak = Or(@, env["ak"]), !.sk = Or(@, env["sk"]),
                     !.token = Or(@, env["token"])]

\* tlsapi.New: both keys are needed.
StaticClient(parts, mode) ==
  LET signing == SigningParts(parts)
  IN  IF \/ parts.region = Nowhere
         \/ signing.ak = Nowhere \/ signing.sk = Nowhere
      THEN Unusable
      ELSE Signs("static", mode, signing)

\* The factories: a RAM role needs the keys of its source.
ProviderClient(p, parts) ==
  IF \/ parts.region = Nowhere
     \/ p.mode = "ramrole" /\ (p.cred = "missing" \/ parts.ak = Nowhere
                                                  \/ parts.sk = Nowhere)
  THEN Unusable
  ELSE Signs("provider", p.mode, parts)

ResolveAs(p, layer) ==
  CASE p.mode = "absent" /\ ~CompleteEnv -> Unusable
    [] p.mode = "unknown" /\ ~static -> Unusable
    [] Dynamic(p) -> ProviderClient(p, DynamicIdentity(p, layer))
    [] OTHER ->
         IF CompleteEnv THEN StaticClient(EnvIdentity(p, layer), p.mode)
         ELSE IF p.cred = "missing" THEN Unusable
         ELSE StaticClient(ProfileIdentity(p, layer), p.mode)

Resolve ==
  /\ ask.pc = "resolve"
  /\ \E p \in StoredProfiles, layer \in {"cli", "default", Nowhere} :
       ResolveAs(p, layer)
  /\ UNCHANGED <<env, static>>

SourceNext == SelectSource \/ LoadSecrets \/ Resolve

-----------------------------------------------------------------------------
(* Properties                                                               *)

Origins == {"env", "file", "profile", "cred", "cli", "default", Nowhere}

SourceTypeOK ==
  /\ ask.pc \in {"select", "load", "resolve", "failed", "done"}
  /\ ask.used \in Profiles \cup {Nowhere} /\ static \in BOOLEAN
  /\ env \in [Variables -> {"env", "file", Nowhere}]
  /\ client.parts \in [Variables -> Origins]

Part(v) == client.parts[v]

Environment == {"env", "file", Nowhere}
Profile == {"profile", "cred", Nowhere}

(***************************************************************************)
(* The token, and with the keys of the environment the region, too, is from *)
(* the side that both keys are from: the environment, which a secrets file  *)
(* may have set, or the profile and its credential (selectors.go:207,       *)
(* client.go:284).                                                          *)
(***************************************************************************)
TokenFollowsKeys ==
  client.signs = "static" =>
    /\ {Part("ak"), Part("sk")} \subseteq Environment =>
         Part("token") \in Environment /\ Part("region") # "profile"
    /\ {Part("ak"), Part("sk")} \subseteq Profile =>
         Part("token") \in Profile

(***************************************************************************)
(* docs/3-Configuration.md:146 says that without a complete pair of the     *)
(* environment the selected profile is used; the client completes half a    *)
(* pair of the profile with the other half out of the environment.          *)
(***************************************************************************)
IdentityIsOneSide ==
  client.signs = "static" =>
    \/ {Part("ak"), Part("sk"), Part("token")} \subseteq Environment
    \/ {Part("ak"), Part("sk"), Part("token")} \subseteq Profile

(***************************************************************************)
(* A command that was given a secrets file has no other selector, and       *)
(* signs with static keys whatever mode the current profile has             *)
(* (selectors.go:34, run_preflight.go:73, tool_context.go:87).              *)
(***************************************************************************)
SecretsFileDecides ==
  client.signs # "none" /\ Or(ask.secrets, ask.contextSecrets) # Nowhere
    => /\ client.signs = "static"
       /\ ask.profile = Nowhere /\ ask.contextProfile = Nowhere
       /\ ask.secrets = Nowhere \/ ask.contextSecrets = Nowhere

(***************************************************************************)
(* Keys in the environment never change who a dynamic profile signs as, not *)
(* even as the source of a RAM role (selectors.go:205, providers.go:178).   *)
(***************************************************************************)
DynamicIgnoresKeys ==
  /\ client.mode \in {"sso", "ramrole"} /\ ask.file = Nowhere =>
       client.signs \in {"none", "provider"}
  /\ client.signs = "provider" =>
       {Part("ak"), Part("sk"), Part("token")} \cap {"env", "file"} = {}

(***************************************************************************)
(* A request is signed as the selectors of its command say: beside a        *)
(* secrets file there is no other selector and the signature is static, a   *)
(* dynamic profile is not changed by keys in the environment, and if both   *)
(* keys are from one side the token is, too (selectors.go:34, :205;         *)
(* providers.go:178).  What the file lacks may be from the environment: see *)
(* SecretsFileIsAlone.                                                      *)
(***************************************************************************)
IdentityIsAsAsked ==
  SourceTypeOK /\ TokenFollowsKeys /\ SecretsFileDecides /\ DynamicIgnoresKeys

(***************************************************************************)
(* docs/6-Advanced.md:126 names a complete secrets file as the way to fix   *)
(* the identity: its keys are then used alone.  The token of the            *)
(* environment, which the file does not have, is sent with them.            *)
(***************************************************************************)
SecretsFileIsAlone ==
  client.signs = "static" /\ Part("ak") = "file" /\ Part("sk") = "file" =>
    Part("token") \in {"file", Nowhere}
=============================================================================
