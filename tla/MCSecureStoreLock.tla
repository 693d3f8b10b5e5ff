------------------------- MODULE MCSecureStoreLock -------------------------
(* Constants of SecureStoreLock for TLC: two processes, the first of which   *)
(* runs two goroutines (or both do), and as many heap objects as threads.    *)
EXTENDS SecureStoreLock

MCProcessOf == [t \in Threads |-> IF t \in {"a1", "a2"} THEN "A" ELSE "B"]
=============================================================================
