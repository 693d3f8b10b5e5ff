------------------------------ MODULE PathLock ------------------------------
(***************************************************************************)
(* What internal/securestore promises its callers: one advisory lock per    *)
(* path, owned by at most one caller anywhere on the machine, and free      *)
(* again once the owner returned from its callback or its process died.     *)
(* SecureStoreLock implements it; SsoStore takes it for granted, with one   *)
(* instance per token cache and per STS cache.                              *)
(***************************************************************************)
CONSTANTS Threads,  \* everything that may call WithLock on the path
          NoThread  \* the lock's owner when it is free

VARIABLE holder

Init == holder = NoThread

Acquire(t) == holder = NoThread /\ holder' = t

Release(t) == holder = t /\ holder' = NoThread

Next == \E t \in Threads : Acquire(t) \/ Release(t)

Spec == Init /\ [][Next]_holder
=============================================================================
