----------------------------- MODULE ProfileStore -----------------------------
(***************************************************************************)
(* The profiles and shared credentials of config.json under sequences of    *)
(* `configure set` in its three forms, use, delete and cred delete          *)
(* (cli/configure_profile.go, configure_delete.go, configure_output.go),    *)
(* with the logins that bind a profile of their own in between.             *)
(*                                                                         *)
(* Each command is one config.Update, whose reading and writing of the file *)
(* SecureStoreFile models: a command that is refused changes nothing.       *)
(* Region, endpoint, timeout and the security token are left out.           *)
(***************************************************************************)
EXTENDS Naturals, FiniteSets, Functions

CONSTANTS
  ProfileNames,  \* numbers, in the order of the names
  DefaultName,   \* the profile called "default"
  CredNames,     \* names of shared credentials
  KeyIds,        \* access keys and their secrets
  NoKey,         \* an empty key, name of a profile or of a credential
  Omitted,       \* a flag that is not given
  KeyFlags,      \* what --ak and --sk may be given as
  IdFlags,       \* what the other identity flags may be given as
  MaxSettings    \* bound on the commands

\* A RAM role has an account and a role, OIDC a token file and a role TRN,
\* ECS and SSO share the role, and SSO the account, with the RAM role.
Ids == {"account", "role", "oidc"}
Keys == KeyIds \cup {NoKey}

ASSUME ProfileStoreAssumption ==
  /\ ProfileNames \subseteq Nat /\ DefaultName \in ProfileNames
  /\ NoKey \notin ProfileNames /\ NoKey \notin CredNames \cup KeyIds
  /\ Omitted \notin CredNames \cup KeyIds \cup {NoKey}
  /\ KeyFlags \subseteq [ak : Keys \cup {Omitted}, sk : Keys \cup {Omitted}]
  /\ IdFlags \subseteq [Ids -> BOOLEAN \cup {Omitted}]
  /\ MaxSettings \in Nat

VARIABLES
  conf,     \* config.json: profiles, creds and current_profile
  settings  \* number of commands so far

confVars == <<conf, settings>>

BlankProfile == [mode |-> "ak", ak |-> NoKey, sk |-> NoKey, ref |-> NoKey,
                 ids |-> {}]
EmptyConf == [profiles |-> <<>>, creds |-> <<>>, current |-> NoKey]

ConfInit == conf = EmptyConf /\ settings = 0
ConfIdle == conf = EmptyConf /\ settings = MaxSettings

-----------------------------------------------------------------------------
ProfilesOf(c) == DOMAIN c.profiles
ProfileOf(n) == IF n \in ProfilesOf(conf) THEN conf.profiles[n] ELSE BlankProfile

Putting(f, key, value) ==
  [k \in DOMAIN f \cup {key} |-> IF k = key THEN value ELSE f[k]]

\* The end of a command that sets a profile: the first one becomes current.
Saves(n, p, creds) ==
  conf' = [profiles |-> Putting(conf.profiles, n, p), creds |-> creds,
           current |-> IF conf.current = NoKey THEN n ELSE conf.current]

IsPair(keys) == keys.ak \in KeyIds /\ keys.sk \in KeyIds

ValueOf(flag, old) == IF flag = Omitted THEN old ELSE flag

-----------------------------------------------------------------------------
(* configure set                                                            *)

\* Without --mode: an omitted flag is an empty one.  A complete pair together
\* with a credential's name is stored as that credential.
SetLegacy(n, flags, ref) ==
  LET keys == [ak |-> ValueOf(flags.ak, NoKey), sk |-> ValueOf(flags.sk, NoKey)]
      creds == IF ref # NoKey /\ IsPair(keys)
               THEN Putting(conf.creds, ref, keys) ELSE conf.creds
      inline == IF ref = NoKey THEN keys ELSE [ak |-> NoKey, sk |-> NoKey]
  IN  /\ IF ref = NoKey THEN IsPair(keys) ELSE ref \in DOMAIN creds
      /\ Saves(n, [ProfileOf(n) EXCEPT !.mode = "ak", !.ak = inline.ak,
                                     !.sk = inline.sk, !.ref = ref], creds)

\* Only region, endpoint or timeout: of a profile that there is.
SetRuntime(n) == n \in ProfilesOf(conf) /\ UNCHANGED conf

\* What the flags of an explicit --mode make of a profile.
Patched(p, mode, flags, ref, ids) ==
  [p EXCEPT !.mode = mode, !.ak = ValueOf(flags.ak, @), !.sk = ValueOf(flags.sk, @),
            !.ref = ValueOf(ref, @),
            !.ids = {i \in Ids : IF ids[i] = Omitted THEN i \in @ ELSE ids[i]}]

UsesKeys(mode) == mode \in {"ak", "ramrolearn"}

\* validateWorkloadProfile.
HasSource(p) == p.ref # NoKey \/ IsPair(p)
Valid(p) ==
  CASE p.mode = "ak" -> HasSource(p)
    [] p.mode = "ramrolearn" -> HasSource(p) /\ {"account", "role"} \subseteq p.ids
    [] p.mode = "oidc" -> "oidc" \in p.ids
    [] p.mode = "ecsrole" -> "role" \in p.ids

\* With --mode: only what is given changes.  Where the mode signs with keys,
\* keys that are given go into the credential the profile refers to, which
\* they complete or replace; in the other modes they are dormant.
SetMode(n, mode, flags, ref, ids) ==
  LET p == Patched(ProfileOf(n), mode, flags, ref, ids)
      refers == UsesKeys(mode) /\ p.ref # NoKey
      stored == IF p.ref \in DOMAIN conf.creds THEN conf.creds[p.ref]
                ELSE [ak |-> NoKey, sk |-> NoKey]
      merged == [ak |-> ValueOf(flags.ak, stored.ak),
                 sk |-> ValueOf(flags.sk, stored.sk)]
  IN  IF refers
      THEN /\ IsPair(merged)
           /\ Valid(p)
           /\ Saves(n, [p EXCEPT !.ak = NoKey, !.sk = NoKey],
                    Putting(conf.creds, p.ref, merged))
      ELSE Valid(p) /\ Saves(n, p, conf.creds)

-----------------------------------------------------------------------------
(* configure use, delete and cred delete                                    *)

UseProfile(n) ==
  n \in ProfilesOf(conf) /\ conf' = [conf EXCEPT !.current = n]

\* The default profile, or the first one.
Adjusted(c) ==
  IF c.current \in ProfilesOf(c) THEN c
  ELSE [c EXCEPT !.current =
          CASE DefaultName \in ProfilesOf(c) -> DefaultName
            [] ProfilesOf(c) = {} -> NoKey
            [] OTHER -> CHOOSE n \in ProfilesOf(c) : \A m \in ProfilesOf(c) : n <= m]

\* One profile, or those whose names have a prefix.
DeleteProfiles(named) ==
  /\ named \cap ProfilesOf(conf) # {}
  /\ conf' = Adjusted([conf EXCEPT !.profiles =
                         Restrict(@, ProfilesOf(conf) \ named)])

\* Mutant of InUse: only profiles that sign with the credential count.
InUseAsKeys(c) ==
  \E n \in ProfilesOf(conf) :
    conf.profiles[n].ref = c /\ conf.profiles[n].mode = "ak"

InUse(c) == \E n \in ProfilesOf(conf) : conf.profiles[n].ref = c

DeleteCred(c) ==
  /\ c \in DOMAIN conf.creds /\ ~InUse(c)
  /\ conf' = [conf EXCEPT !.creds = Restrict(@, DOMAIN @ \ {c})]

\* configure sso and login bind a profile, which they may create, and leave
\* current_profile and every field of another mode as they are.
LoginBinds(n, mode) ==
  conf' = [conf EXCEPT !.profiles =
    Putting(@, n, [ProfileOf(n) EXCEPT !.mode = mode,
      !.ids = IF mode = "sso" THEN @ \cup {"account", "role"} ELSE @])]

SettableModes == {"ak", "ramrolearn", "oidc", "ecsrole"}

ConfNext ==
  /\ settings < MaxSettings
  /\ settings' = settings + 1
  /\ \/ \E n \in ProfileNames, flags \in KeyFlags,
           ref \in CredNames \cup {NoKey} : SetLegacy(n, flags, ref)
     \/ \E n \in ProfileNames, mode \in SettableModes, flags \in KeyFlags,
           ref \in CredNames \cup {NoKey, Omitted}, ids \in IdFlags :
          SetMode(n, mode, flags, ref, ids)
     \/ \E n \in ProfileNames : SetRuntime(n) \/ UseProfile(n)
     \/ \E named \in SUBSET ProfileNames : DeleteProfiles(named)
     \/ \E c \in CredNames : DeleteCred(c)
     \/ \E n \in ProfileNames, mode \in {"sso", "console-login"} :
          LoginBinds(n, mode)

ConfSpec == ConfInit /\ [][ConfNext]_confVars

-----------------------------------------------------------------------------
(* Properties                                                               *)

ConfTypeOK ==
  /\ ProfilesOf(conf) \subseteq ProfileNames /\ DOMAIN conf.creds \subseteq CredNames
  /\ conf.current \in ProfileNames \cup {NoKey}
  /\ settings \in 0..MaxSettings

\* A profile that signs with keys has them: its own complete pair, or a
\* credential that is there, is complete, and is not hidden by a key of its
\* own, so that a new pair of the credential reaches everyone who uses it.
KeysAreThere ==
  \A n \in ProfilesOf(conf) :
    LET p == conf.profiles[n]
    IN  UsesKeys(p.mode) =>
          IF p.ref = NoKey THEN IsPair(p)
          ELSE /\ p.ref \in DOMAIN conf.creds /\ IsPair(conf.creds[p.ref])
               /\ p.ak = NoKey /\ p.sk = NoKey

\* A profile has what its mode needs, however often modes were switched and
\* fields of other modes cleared.
ModeHasIdentity ==
  \A n \in ProfilesOf(conf) :
    LET p == conf.profiles[n]
    IN  CASE p.mode \in {"sso", "ramrolearn"} ->
               {"account", "role"} \subseteq p.ids
          [] p.mode = "oidc" -> "oidc" \in p.ids
          [] p.mode = "ecsrole" -> "role" \in p.ids
          [] OTHER -> TRUE

CurrentExists == conf.current # NoKey => conf.current \in ProfilesOf(conf)

(***************************************************************************)
(* Whatever profiles and credentials were set, switched, shared, bound and  *)
(* deleted before, every profile that is there has what its mode signs      *)
(* with, and the current profile is there (configure_profile.go:493,        *)
(* configure_delete.go:126, :158).                                          *)
(***************************************************************************)
ProfilesAreUsable ==
  ConfTypeOK /\ KeysAreThere /\ ModeHasIdentity /\ CurrentExists
=============================================================================
