----------------------------- MODULE MCSsoSystem -----------------------------
(* Constants of SsoSystem for TLC, named for the instance they belong to.    *)
EXTENDS SsoSystem, TLC

\* Any order will do for digests; this one puts "s1" before "s2".
Rank(x) == CASE x \in {"u1", "s1", "r1"} -> 0 [] OTHER -> 1
MCDigest == [k \in TokenKeys \cup StsKeys |-> 2 * Rank(k[1]) + Rank(k[2])]

HomeU1 == [s \in Sessions |-> "u1"]
BoundF1 == "f1" :> <<"s1", "r1">>
BoundF1F2 == BoundF1 @@ ("f2" :> <<"s1", "r1">>)
BoundAcross == BoundF1 @@ ("f2" :> <<"s2", "r1">>)

\* Everybody may run everything.
AnyCommand == [p \in Procs |-> Commands]
\* One process binds and logs out, the others use and renew the login.
OneConfigures == [p \in Procs |->
  IF p = "p1" THEN {"configure", "logout"} ELSE {"retrieve", "login"}]
\* One process may run everything while the other binds and binds again.
SecondBinds == [p \in Procs |->
  IF p = "p1" THEN Commands ELSE {"configure"}]
OnlyRetrieve == [p \in Procs |-> {"retrieve"}]
=============================================================================
