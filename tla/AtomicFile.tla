----------------------------- MODULE AtomicFile -----------------------------
(***************************************************************************)
(* What internal/securestore promises about the content of one file: it     *)
(* changes as a whole, an update starts from what the file holds at that    *)
(* moment, and the machine losing power takes the file back to a content it  *)
(* had, though not to one from before it was last made durable.             *)
(* SecureStoreFile implements it.                                           *)
(***************************************************************************)
EXTENDS Integers, Sequences, SequencesExt

CONSTANT Ids  \* the changes that are made to the file

VARIABLES
  kind,     \* "config" is updated, "cache" is replaced and removed
  versions  \* contents, from the durable one to the one readers see; a
            \* content is the set of changes in it, {} if there is no file

Init == kind \in {"config", "cache"} /\ versions = <<{}>>

Change(content) ==
  /\ versions' = Append(versions, content)
  /\ UNCHANGED kind

\* config.Update: the change of a caller is added to those of the others.
Update(u) == kind = "config" /\ Change(Last(versions) \cup {u})

\* A cache is written anew, or removed.
Replace(u) == kind = "cache" /\ Change({u})
Delete == kind = "cache" /\ Change({})

\* Older contents are forgotten, now or as the kernel writes back.
Persist ==
  /\ \E n \in 1..Len(versions) :
       versions' = SubSeq(versions, n, Len(versions))
  /\ UNCHANGED kind

PowerLoss ==
  /\ \E n \in 1..Len(versions) : versions' = <<versions[n]>>
  /\ UNCHANGED kind

Next ==
  \/ \E u \in Ids : Update(u) \/ Replace(u)
  \/ Delete \/ Persist \/ PowerLoss

Spec == Init /\ [][Next]_<<kind, versions>>
=============================================================================
