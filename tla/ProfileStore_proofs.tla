------------------------- MODULE ProfileStore_proofs -------------------------
(***************************************************************************)
(* Theorems about ProfileStore for any names, credentials, keys and flags,  *)
(* and any number of commands.                                              *)
(***************************************************************************)
EXTENDS ProfileStore, WellFoundedInduction, TLAPS

-----------------------------------------------------------------------------
(* The inductive invariant                                                  *)

LoginModes == {"sso", "console-login"}

ProfileSet ==
  [mode : SettableModes \cup LoginModes, ak : Keys, sk : Keys,
   ref : CredNames \cup {NoKey}, ids : SUBSET Ids]

\* The credentials: every one of them is complete.
CredsOK(creds) ==
  /\ DOMAIN creds \subseteq CredNames
  /\ creds \in [DOMAIN creds -> [ak : KeyIds, sk : KeyIds]]

\* A profile has the keys its mode signs with, given the credentials c, ...
HasKeys(p, c) ==
  UsesKeys(p.mode) =>
    IF p.ref = NoKey THEN p.ak \in KeyIds /\ p.sk \in KeyIds
    ELSE p.ref \in c /\ p.ak = NoKey /\ p.sk = NoKey

\* ... and the other fields of its mode.
HasIds(p) ==
  /\ p.mode \in {"sso", "ramrolearn"} => {"account", "role"} \subseteq p.ids
  /\ p.mode = "oidc" => "oidc" \in p.ids
  /\ p.mode = "ecsrole" => "role" \in p.ids

ProfileOK(p, c) == p \in ProfileSet /\ HasKeys(p, c) /\ HasIds(p)

ProfilesOK(profiles, c) ==
  /\ DOMAIN profiles \subseteq ProfileNames
  /\ profiles \in [DOMAIN profiles -> ProfileSet]
  /\ \A n \in DOMAIN profiles : ProfileOK(profiles[n], c)

ConfOK(c) ==
  /\ c = [profiles |-> c.profiles, creds |-> c.creds, current |-> c.current]
  /\ CredsOK(c.creds)
  /\ ProfilesOK(c.profiles, DOMAIN c.creds)
  /\ c.current \in ProfileNames \cup {NoKey}
  /\ c.current # NoKey => c.current \in DOMAIN c.profiles

IInv == ConfOK(conf) /\ settings \in 0..MaxSettings

-----------------------------------------------------------------------------
(* What the commands are built from                                         *)

\* Putting a value under a key leaves the other keys alone.
LEMMA PuttingKeeps ==
  ASSUME NEW f, NEW key, NEW value
  PROVE  /\ DOMAIN Putting(f, key, value) = DOMAIN f \cup {key}
         /\ Putting(f, key, value)[key] = value
         /\ \A k \in DOMAIN f \ {key} : Putting(f, key, value)[k] = f[k]
         /\ Putting(f, key, value) =
              [k \in DOMAIN f \cup {key} |-> Putting(f, key, value)[k]]
BY DEF Putting

\* Credentials stay complete when a complete pair is added.
LEMMA PuttingCred ==
  ASSUME NEW creds, CredsOK(creds), NEW c \in CredNames,
         NEW keys \in [ak : KeyIds, sk : KeyIds]
  PROVE  /\ CredsOK(Putting(creds, c, keys))
         /\ DOMAIN Putting(creds, c, keys) = DOMAIN creds \cup {c}
<1>. DEFINE new == Putting(creds, c, keys)
<1>1. DOMAIN new = DOMAIN creds \cup {c}
  BY PuttingKeeps
<1>2. \A k \in DOMAIN new : new[k] \in [ak : KeyIds, sk : KeyIds]
  BY DEF Putting, CredsOK
<1>3. new = [k \in DOMAIN new |-> new[k]]
  BY DEF Putting
<1>. QED  BY <1>1, <1>2, <1>3 DEF CredsOK

\* Profiles that are in order stay so when there are more credentials.
LEMMA MoreCreds ==
  ASSUME NEW profiles, NEW c, NEW d, c \subseteq d, ProfilesOK(profiles, c)
  PROVE  ProfilesOK(profiles, d)
BY DEF ProfilesOK, ProfileOK, HasKeys

\* Profiles stay in order when one in order is put among them.
LEMMA PuttingProfile ==
  ASSUME NEW profiles, NEW c, ProfilesOK(profiles, c),
         NEW n \in ProfileNames, NEW p, ProfileOK(p, c)
  PROVE  /\ ProfilesOK(Putting(profiles, n, p), c)
         /\ DOMAIN Putting(profiles, n, p) = DOMAIN profiles \cup {n}
<1>. DEFINE new == Putting(profiles, n, p)
<1>1. DOMAIN new = DOMAIN profiles \cup {n}
  BY PuttingKeeps
<1>2. new[n] = p /\ \A m \in DOMAIN profiles \ {n} : new[m] = profiles[m]
  BY DEF Putting
<1>3. \A m \in DOMAIN new : ProfileOK(new[m], c)
  BY <1>1, <1>2 DEF ProfilesOK
<1>4. \A m \in DOMAIN new : new[m] \in ProfileSet
  BY <1>3 DEF ProfileOK
<1>5. new = [k \in DOMAIN new |-> new[k]]
  BY DEF Putting
<1>. QED  BY <1>1, <1>3, <1>4, <1>5 DEF ProfilesOK

\* The profile a command starts from is well formed, there or not.
LEMMA ProfileOfTyped ==
  ASSUME ConfOK(conf), NEW n
  PROVE  ProfileOf(n) \in ProfileSet
<1>1. BlankProfile \in ProfileSet
  BY DEF BlankProfile, ProfileSet, SettableModes, Keys
<1>. QED  BY <1>1 DEF ProfileOf, ProfilesOf, ConfOK, ProfilesOK

\* Whoever saves a profile that is in order leaves everything in order.
LEMMA SavesOK ==
  ASSUME ConfOK(conf), NEW n \in ProfileNames, NEW p, NEW creds,
         CredsOK(creds), DOMAIN conf.creds \subseteq DOMAIN creds,
         ProfileOK(p, DOMAIN creds), Saves(n, p, creds)
  PROVE  ConfOK(conf')
<1>. DEFINE new == Putting(conf.profiles, n, p)
<1>1. ProfilesOK(new, DOMAIN creds) /\ DOMAIN new = DOMAIN conf.profiles \cup {n}
  <2>1. ProfilesOK(conf.profiles, DOMAIN creds)
    BY MoreCreds DEF ConfOK
  <2>. QED  BY <2>1, PuttingProfile
<1>2. /\ conf' = [profiles |-> conf'.profiles, creds |-> conf'.creds,
                  current |-> conf'.current]
      /\ conf'.profiles = new /\ conf'.creds = creds
      /\ conf'.current = IF conf.current = NoKey THEN n ELSE conf.current
  BY DEF Saves
<1>3. /\ conf'.current \in ProfileNames \cup {NoKey}
      /\ conf'.current # NoKey => conf'.current \in DOMAIN new
  BY <1>1, <1>2 DEF ConfOK
<1>. QED  BY <1>1, <1>2, <1>3 DEF ConfOK

-----------------------------------------------------------------------------
(* configure set                                                            *)

\* A flag is a key or is not given.
LEMMA FlagTyped ==
  ASSUME NEW flag \in Keys \cup {Omitted}, NEW old \in Keys
  PROVE  ValueOf(flag, old) \in Keys
BY DEF ValueOf

\* No name is the empty one.
LEMMA NoNames ==
  /\ NoKey \in Keys /\ NoKey \notin CredNames /\ NoKey \notin KeyIds
  /\ NoKey \notin ProfileNames
  /\ NoKey # Omitted /\ Omitted \notin CredNames /\ Omitted \notin KeyIds
BY ProfileStoreAssumption DEF ProfileStoreAssumption, Keys

LEMMA SetLegacyOK ==
  ASSUME ConfOK(conf), NEW n \in ProfileNames, NEW flags \in KeyFlags,
         NEW ref \in CredNames \cup {NoKey}, SetLegacy(n, flags, ref)
  PROVE  ConfOK(conf')
<1>. DEFINE keys == [ak |-> ValueOf(flags.ak, NoKey), sk |-> ValueOf(flags.sk, NoKey)]
            creds == IF ref # NoKey /\ IsPair(keys)
                     THEN Putting(conf.creds, ref, keys) ELSE conf.creds
            inline == IF ref = NoKey THEN keys ELSE [ak |-> NoKey, sk |-> NoKey]
            p == [ProfileOf(n) EXCEPT !.mode = "ak", !.ak = inline.ak,
                                      !.sk = inline.sk, !.ref = ref]
<1>1. flags \in [ak : Keys \cup {Omitted}, sk : Keys \cup {Omitted}]
  BY ProfileStoreAssumption DEF ProfileStoreAssumption
<1>2. keys.ak \in Keys /\ keys.sk \in Keys
  BY <1>1, FlagTyped, NoNames
<1>3. CredsOK(creds) /\ DOMAIN conf.creds \subseteq DOMAIN creds
  <2>1. CASE ref # NoKey /\ IsPair(keys)
    <3>1. ref \in CredNames /\ keys \in [ak : KeyIds, sk : KeyIds]
      BY <2>1 DEF IsPair
    <3>2. CredsOK(conf.creds)
      BY DEF ConfOK
    <3>3. CredsOK(Putting(conf.creds, ref, keys))
          /\ DOMAIN Putting(conf.creds, ref, keys) = DOMAIN conf.creds \cup {ref}
      <4>. HIDE DEF keys
      <4>. QED  BY <3>1, <3>2, PuttingCred
    <3>. QED  BY <2>1, <3>3
  <2>2. CASE ~(ref # NoKey /\ IsPair(keys))
    BY <2>2 DEF ConfOK
  <2>. QED  BY <2>1, <2>2
<1>4. /\ IF ref = NoKey THEN IsPair(keys) ELSE ref \in DOMAIN creds
      /\ Saves(n, p, creds)
  BY DEF SetLegacy
<1>5. ProfileOf(n) \in ProfileSet
  BY ProfileOfTyped
<1>6. /\ p.mode = "ak" /\ p.ref = ref /\ p.ids = ProfileOf(n).ids
      /\ p.ak = inline.ak /\ p.sk = inline.sk /\ p \in ProfileSet
  BY <1>2, <1>5, NoNames DEF ProfileSet, SettableModes
<1>7. HasKeys(p, DOMAIN creds)
  BY <1>4, <1>6 DEF HasKeys, IsPair
<1>8. HasIds(p)
  BY <1>6 DEF HasIds
<1>. QED  BY <1>3, <1>4, <1>6, <1>7, <1>8, SavesOK DEF ProfileOK

\* What a valid profile has, apart from keys.
LEMMA ValidHasIds ==
  ASSUME NEW p, p.mode \in SettableModes, Valid(p)
  PROVE  HasIds(p)
BY DEF Valid, HasIds, SettableModes

LEMMA SetModeOK ==
  ASSUME ConfOK(conf), NEW n \in ProfileNames, NEW mode \in SettableModes,
         NEW flags \in KeyFlags, NEW ref \in CredNames \cup {NoKey, Omitted},
         NEW ids \in IdFlags, SetMode(n, mode, flags, ref, ids)
  PROVE  ConfOK(conf')
<1>. DEFINE p == Patched(ProfileOf(n), mode, flags, ref, ids)
            stored == IF p.ref \in DOMAIN conf.creds THEN conf.creds[p.ref]
                      ELSE [ak |-> NoKey, sk |-> NoKey]
            merged == [ak |-> ValueOf(flags.ak, stored.ak),
                       sk |-> ValueOf(flags.sk, stored.sk)]
            stripped == [p EXCEPT !.ak = NoKey, !.sk = NoKey]
<1>1. flags.ak \in Keys \cup {Omitted} /\ flags.sk \in Keys \cup {Omitted}
  BY ProfileStoreAssumption DEF ProfileStoreAssumption
<1>2. ProfileOf(n) \in ProfileSet
  BY ProfileOfTyped
<1>3. p \in ProfileSet /\ p.mode = mode
  <2>1. ValueOf(flags.ak, ProfileOf(n).ak) \in Keys
    BY <1>1, <1>2, FlagTyped DEF ProfileSet
  <2>2. ValueOf(flags.sk, ProfileOf(n).sk) \in Keys
    BY <1>1, <1>2, FlagTyped DEF ProfileSet
  <2>3. ValueOf(ref, ProfileOf(n).ref) \in CredNames \cup {NoKey}
    BY <1>2 DEF ProfileSet, ValueOf
  <2>. DEFINE I == {i \in Ids : IF ids[i] = Omitted THEN i \in ProfileOf(n).ids
                                ELSE ids[i]}
  <2>4. I \in SUBSET Ids
    OBVIOUS
  <2>5. p = [ProfileOf(n) EXCEPT !.mode = mode,
               !.ak = ValueOf(flags.ak, ProfileOf(n).ak),
               !.sk = ValueOf(flags.sk, ProfileOf(n).sk),
               !.ref = ValueOf(ref, ProfileOf(n).ref), !.ids = I]
    BY <1>2 DEF Patched, ProfileSet
  <2>. HIDE DEF I, p
  <2>. QED  BY <1>2, <2>1, <2>2, <2>3, <2>4, <2>5 DEF ProfileSet
<1>4. CASE UsesKeys(mode) /\ p.ref # NoKey
  <2>1. IsPair(merged) /\ Valid(p)
        /\ Saves(n, stripped, Putting(conf.creds, p.ref, merged))
    BY <1>4 DEF SetMode
  <2>. HIDE DEF p
  <2>2. p.ref \in CredNames /\ merged \in [ak : KeyIds, sk : KeyIds]
    BY <1>3, <1>4, <2>1 DEF ProfileSet, IsPair
  <2>. DEFINE creds == Putting(conf.creds, p.ref, merged)
  <2>3. CredsOK(creds) /\ DOMAIN creds = DOMAIN conf.creds \cup {p.ref}
    <3>. HIDE DEF merged
    <3>. QED  BY <2>2, PuttingCred DEF ConfOK
  <2>4. /\ stripped.mode = mode /\ stripped.ref = p.ref
        /\ stripped.ids = p.ids
        /\ stripped.ak = NoKey /\ stripped.sk = NoKey
        /\ stripped \in ProfileSet
    BY <1>3, NoNames DEF ProfileSet
  <2>5. HasKeys(stripped, DOMAIN creds)
    BY <1>4, <2>3, <2>4 DEF HasKeys
  <2>6. HasIds(stripped)
    BY <1>3, <2>1, <2>4, ValidHasIds DEF HasIds
  <2>. HIDE DEF stripped, creds
  <2>7. ProfileOK(stripped, DOMAIN creds) /\ Saves(n, stripped, creds)
    BY <2>1, <2>4, <2>5, <2>6 DEF ProfileOK, creds
  <2>. QED  BY <2>3, <2>7, SavesOK
<1>5. CASE ~(UsesKeys(mode) /\ p.ref # NoKey)
  <2>1. Valid(p) /\ Saves(n, p, conf.creds)
    BY <1>5 DEF SetMode
  <2>. HIDE DEF p
  <2>2. HasKeys(p, DOMAIN conf.creds)
    BY <1>3, <1>5, <2>1 DEF HasKeys, Valid, HasSource, IsPair, UsesKeys
  <2>3. HasIds(p)
    BY <1>3, <2>1, ValidHasIds
  <2>. QED  BY <1>3, <2>1, <2>2, <2>3, SavesOK DEF ProfileOK, ConfOK
<1>. QED  BY <1>4, <1>5

-----------------------------------------------------------------------------
(* The other commands                                                       *)

\* A nonempty set of names has a first one.
LEMMA FirstName ==
  ASSUME NEW T, T \subseteq Nat, T # {}
  PROVE  \E x \in T : \A y \in T : x <= y
<1>1. PICK x \in T : \A y \in T : ~ (<<y, x>> \in OpToRel(<, Nat))
  BY NatLessThanWellFounded, WFMin, Zenon
<1>2. ASSUME NEW y \in T PROVE x <= y
  <2>1. x \in Nat /\ y \in Nat /\ ~(y < x)
    BY <1>1 DEF OpToRel
  <2>. QED  BY <2>1
<1>. QED  BY <1>2

LEMMA AdjustedOK ==
  ASSUME NEW c,
         c = [profiles |-> c.profiles, creds |-> c.creds, current |-> c.current],
         CredsOK(c.creds), ProfilesOK(c.profiles, DOMAIN c.creds),
         c.current \in ProfileNames \cup {NoKey}
  PROVE  ConfOK(Adjusted(c))
<1>1. CASE c.current \in ProfilesOf(c)
  BY <1>1 DEF Adjusted, ConfOK, ProfilesOf
<1>2. CASE c.current \notin ProfilesOf(c)
  <2>. DEFINE first ==
         CASE DefaultName \in ProfilesOf(c) -> DefaultName
           [] ProfilesOf(c) = {} -> NoKey
           [] OTHER -> CHOOSE n \in ProfilesOf(c) :
                         \A m \in ProfilesOf(c) : n <= m
  <2>1. first = NoKey \/ first \in ProfilesOf(c)
    <3>1. CASE DefaultName \in ProfilesOf(c)
      BY <3>1
    <3>2. CASE DefaultName \notin ProfilesOf(c) /\ ProfilesOf(c) = {}
      BY <3>2
    <3>3. CASE DefaultName \notin ProfilesOf(c) /\ ProfilesOf(c) # {}
      <4>1. ProfilesOf(c) \subseteq Nat
        BY ProfileStoreAssumption
        DEF ProfileStoreAssumption, ProfilesOf, ProfilesOK
      <4>2. \E n \in ProfilesOf(c) : \A m \in ProfilesOf(c) : n <= m
        BY <3>3, <4>1, FirstName
      <4>. QED  BY <3>3, <4>2
    <3>. QED  BY <3>1, <3>2, <3>3
  <2>2. Adjusted(c) = [c EXCEPT !.current = first]
    BY <1>2 DEF Adjusted
  <2>. HIDE DEF first
  <2>3. Adjusted(c) = [profiles |-> c.profiles, creds |-> c.creds,
                       current |-> first]
    BY <2>2
  <2>4. first \in ProfileNames \cup {NoKey}
    BY <2>1 DEF ProfilesOf, ProfilesOK
  <2>. QED  BY <2>1, <2>3, <2>4 DEF ConfOK, ProfilesOf
<1>. QED  BY <1>1, <1>2

LEMMA DeleteProfilesOK ==
  ASSUME ConfOK(conf), NEW named, DeleteProfiles(named)
  PROVE  ConfOK(conf')
<1>. DEFINE left == Restrict(conf.profiles, ProfilesOf(conf) \ named)
            c == [conf EXCEPT !.profiles = left]
<1>1. conf' = Adjusted(c)
  BY DEF DeleteProfiles, ConfOK
<1>2. /\ DOMAIN left = ProfilesOf(conf) \ named
      /\ \A n \in DOMAIN left : left[n] = conf.profiles[n]
      /\ left = [n \in DOMAIN left |-> left[n]]
  BY DEF Restrict
<1>. HIDE DEF left
<1>3. ProfilesOK(left, DOMAIN conf.creds)
  BY <1>2 DEF ProfilesOK, ProfilesOf, ConfOK
<1>4. c = [profiles |-> left, creds |-> conf.creds, current |-> conf.current]
  BY DEF ConfOK
<1>. HIDE DEF c
<1>5. ConfOK(Adjusted(c))
  BY <1>3, <1>4, AdjustedOK DEF ConfOK
<1>. QED  BY <1>1, <1>5

LEMMA DeleteCredOK ==
  ASSUME ConfOK(conf), NEW c \in CredNames, DeleteCred(c)
  PROVE  ConfOK(conf')
<1>. DEFINE left == Restrict(conf.creds, DOMAIN conf.creds \ {c})
<1>1. /\ conf' = [conf EXCEPT !.creds = left]
      /\ \A n \in DOMAIN conf.profiles : conf.profiles[n].ref # c
  BY DEF DeleteCred, InUse, ProfilesOf, ConfOK
<1>2. /\ DOMAIN left = DOMAIN conf.creds \ {c}
      /\ \A k \in DOMAIN left : left[k] = conf.creds[k]
      /\ left = [k \in DOMAIN left |-> left[k]]
  BY DEF Restrict
<1>. HIDE DEF left
<1>3. CredsOK(left)
  BY <1>2 DEF CredsOK, ConfOK
<1>4. ProfilesOK(conf.profiles, DOMAIN left)
  <2>1. ASSUME NEW n \in DOMAIN conf.profiles
        PROVE  ProfileOK(conf.profiles[n], DOMAIN left)
    <3>1. ProfileOK(conf.profiles[n], DOMAIN conf.creds)
      BY DEF ConfOK, ProfilesOK
    <3>. QED  BY <1>1, <1>2, <3>1 DEF ProfileOK, HasKeys
  <2>. QED  BY <2>1 DEF ConfOK, ProfilesOK
<1>5. conf' = [profiles |-> conf.profiles, creds |-> left,
               current |-> conf.current]
  BY <1>1 DEF ConfOK
<1>. QED  BY <1>3, <1>4, <1>5 DEF ConfOK

LEMMA UseProfileOK ==
  ASSUME ConfOK(conf), NEW n \in ProfileNames, UseProfile(n)
  PROVE  ConfOK(conf')
<1>1. /\ n \in DOMAIN conf.profiles
      /\ conf' = [profiles |-> conf.profiles, creds |-> conf.creds, current |-> n]
  BY DEF UseProfile, ProfilesOf, ConfOK
<1>. QED  BY <1>1 DEF ConfOK

LEMMA LoginBindsOK ==
  ASSUME ConfOK(conf), NEW n \in ProfileNames, NEW mode \in LoginModes,
         LoginBinds(n, mode)
  PROVE  ConfOK(conf')
<1>. DEFINE p == [ProfileOf(n) EXCEPT !.mode = mode,
                    !.ids = IF mode = "sso"
                            THEN ProfileOf(n).ids \cup {"account", "role"}
                            ELSE ProfileOf(n).ids]
            new == Putting(conf.profiles, n, p)
<1>1. ProfileOf(n) \in ProfileSet
  BY ProfileOfTyped
<1>2. /\ p.mode = mode /\ p \in ProfileSet
      /\ mode = "sso" => {"account", "role"} \subseteq p.ids
  BY <1>1 DEF ProfileSet, Ids
<1>3. conf' = [profiles |-> new, creds |-> conf.creds, current |-> conf.current]
  <2>1. conf' = [conf EXCEPT !.profiles = new]
    BY <1>1 DEF LoginBinds, ConfOK, ProfileSet
  <2>. HIDE DEF new
  <2>. QED  BY <2>1 DEF ConfOK
<1>. HIDE DEF p
<1>4. ProfileOK(p, DOMAIN conf.creds)
  BY <1>2 DEF ProfileOK, HasKeys, HasIds, UsesKeys, LoginModes
<1>5. /\ ProfilesOK(new, DOMAIN conf.creds)
      /\ DOMAIN new = DOMAIN conf.profiles \cup {n}
  <2>1. ProfilesOK(conf.profiles, DOMAIN conf.creds)
    BY DEF ConfOK
  <2>. QED  BY <1>4, <2>1, PuttingProfile
<1>. HIDE DEF new
<1>. QED  BY <1>3, <1>5 DEF ConfOK

-----------------------------------------------------------------------------
(* The theorem                                                              *)

LEMMA InitOK == ASSUME ConfInit PROVE IInv
<1>1. conf = [profiles |-> <<>>, creds |-> <<>>, current |-> NoKey]
  BY DEF ConfInit, EmptyConf
<1>2. DOMAIN conf.profiles = {} /\ DOMAIN conf.creds = {}
      /\ conf.profiles = [x \in {} |-> x] /\ conf.creds = [x \in {} |-> x]
  BY <1>1
<1>3. ConfOK(conf)
  BY <1>1, <1>2 DEF ConfOK, CredsOK, ProfilesOK
<1>. QED  BY <1>3, ProfileStoreAssumption DEF ConfInit, IInv, ProfileStoreAssumption

LEMMA NextOK == ASSUME IInv, [ConfNext]_confVars PROVE IInv'
<1>1. CASE UNCHANGED confVars
  BY <1>1 DEF IInv, confVars
<1>2. CASE ConfNext
  <2>. USE DEF IInv
  <2>1. settings' \in 0..MaxSettings
    BY <1>2, ProfileStoreAssumption DEF ConfNext, ProfileStoreAssumption
  <2>2. ConfOK(conf')
    <3>1. CASE \E n \in ProfileNames, flags \in KeyFlags,
                  ref \in CredNames \cup {NoKey} : SetLegacy(n, flags, ref)
      BY <3>1, SetLegacyOK
    <3>2. CASE \E n \in ProfileNames, mode \in SettableModes, flags \in KeyFlags,
                  ref \in CredNames \cup {NoKey, Omitted}, ids \in IdFlags :
                 SetMode(n, mode, flags, ref, ids)
      BY <3>2, SetModeOK
    <3>3. CASE \E n \in ProfileNames : SetRuntime(n) \/ UseProfile(n)
      BY <3>3, UseProfileOK DEF SetRuntime
    <3>4. CASE \E named \in SUBSET ProfileNames : DeleteProfiles(named)
      BY <3>4, DeleteProfilesOK
    <3>5. CASE \E c \in CredNames : DeleteCred(c)
      BY <3>5, DeleteCredOK
    <3>6. CASE \E n \in ProfileNames, mode \in {"sso", "console-login"} :
                 LoginBinds(n, mode)
      BY <3>6, LoginBindsOK DEF LoginModes
    <3>. QED  BY <1>2, <3>1, <3>2, <3>3, <3>4, <3>5, <3>6 DEF ConfNext
  <2>. QED  BY <2>1, <2>2
<1>. QED  BY <1>1, <1>2

\* What the invariant means for the profiles.
LEMMA InvUsable == ASSUME IInv PROVE ProfilesAreUsable
<1>1. ConfTypeOK /\ CurrentExists
  BY DEF IInv, ConfOK, ConfTypeOK, CurrentExists, ProfilesOf, CredsOK, ProfilesOK
<1>2. ASSUME NEW n \in ProfilesOf(conf)
      PROVE  /\ ProfileOK(conf.profiles[n], DOMAIN conf.creds)
             /\ \A c \in DOMAIN conf.creds : IsPair(conf.creds[c])
  BY <1>2 DEF IInv, ConfOK, ProfilesOf, ProfilesOK, CredsOK, IsPair
<1>3. KeysAreThere
  BY <1>2 DEF KeysAreThere, ProfileOK, HasKeys, IsPair
<1>4. ModeHasIdentity
  <2>. SUFFICES ASSUME NEW n \in ProfilesOf(conf)
                PROVE  LET p == conf.profiles[n] IN
                       CASE p.mode \in {"sso", "ramrolearn"} ->
                              {"account", "role"} \subseteq p.ids
                         [] p.mode = "oidc" -> "oidc" \in p.ids
                         [] p.mode = "ecsrole" -> "role" \in p.ids
                         [] OTHER -> TRUE
    BY DEF ModeHasIdentity
  <2>1. HasIds(conf.profiles[n])
    BY <1>2 DEF ProfileOK
  <2>. QED  BY <2>1 DEF HasIds
<1>. QED  BY <1>1, <1>3, <1>4 DEF ProfilesAreUsable

(***************************************************************************)
(* Whatever profiles and credentials were set, switched, shared, bound and  *)
(* deleted, every profile has what its mode signs with and the current      *)
(* profile is there: for any names, keys and flags and any number of        *)
(* commands.                                                                *)
(***************************************************************************)
THEOREM ProfilesUsable == ConfSpec => []ProfilesAreUsable
<1>1. ConfInit => IInv
  BY InitOK
<1>2. IInv /\ [ConfNext]_confVars => IInv'
  BY NextOK
<1>3. IInv => ProfilesAreUsable
  BY InvUsable
<1>. QED  BY <1>1, <1>2, <1>3, PTL DEF ConfSpec
=============================================================================
