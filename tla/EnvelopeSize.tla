----------------------------- MODULE EnvelopeSize -----------------------------
(***************************************************************************)
(* The sizes an envelope announces (cli/envelope.go and cli/artifacts.go).  *)
(* An envelope has its own length in summary.totalBytes and, when it is     *)
(* delivered in a file, in artifacts[0].sizeBytes, too: both numbers are    *)
(* part of what they measure and are found by repeated encoding.            *)
(***************************************************************************)
EXTENDS Naturals

CONSTANTS
  Bodies,    \* lengths of an envelope without the digits of its numbers
  Label      \* length of the sizeBytes member without its digits

ASSUME EnvelopeSizeAssumption == Bodies \subseteq Nat /\ Label \in Nat

Rounds == 8  \* encodings before materializeEnvelopeFile gives up
Passes == 3  \* encodings of one updateEnvelopeTotalBytes

Unsized == 0 \* sizeBytes is absent, and no size is known yet

VARIABLE sizing

\* pc; the body; totalBytes and sizeBytes; the size of the pass before; how
\* often was encoded; the length of what was written.
EnvelopeOf(body, file) ==
  [pc |-> "count", file |-> file, body |-> body, total |-> 0,
   announced |-> Unsized, prev |-> Unsized, pass |-> 0, round |-> 0,
   written |-> 0]

SizeInit == \E body \in Bodies, file \in BOOLEAN : sizing = EnvelopeOf(body, file)

SizeIdle == sizing = [EnvelopeOf(0, FALSE) EXCEPT !.pc = "done"]

-----------------------------------------------------------------------------
\* The number of decimal digits of n.
DigitCount[n \in Nat] == IF n < 10 THEN 1 ELSE 1 + DigitCount[n \div 10]
Digits(n) == DigitCount[n]

\* The length of the encoding.
Length(s) ==
  s.body + Digits(s.total)
         + IF s.announced = Unsized THEN 0 ELSE Label + Digits(s.announced)

\* Mutant of LastPass: the sum is corrected only once.
LastPassOfTwo(size) == size = sizing.prev \/ sizing.pass + 1 = 2

LastPass(size) == size = sizing.prev \/ sizing.pass + 1 = Passes

\* One pass of updateEnvelopeTotalBytes.
CountBytes ==
  /\ sizing.pc = "count"
  /\ LET size == Length(sizing)
         next == [sizing EXCEPT !.total = size, !.prev = size, !.pass = @ + 1]
     IN  sizing' = IF ~LastPass(size) THEN next
                   ELSE IF sizing.file THEN [next EXCEPT !.pc = "encode"]
                   ELSE [next EXCEPT !.pc = "done", !.written = Length(next)]

Settled(size) == size = sizing.announced

\* A round of materializeEnvelopeFile: written if the size is the announced
\* one, announced otherwise; after the last round it is an error.
EncodeFile ==
  /\ sizing.pc = "encode"
  /\ LET size == Length(sizing)
     IN  sizing' = IF Settled(size)
                   THEN [sizing EXCEPT !.pc = "done", !.written = size]
                   ELSE [sizing EXCEPT !.announced = size, !.round = @ + 1,
                           !.prev = Unsized, !.pass = 0,
                           !.pc = IF sizing.round + 1 = Rounds THEN "failed"
                                  ELSE "count"]

SizeNext == CountBytes \/ EncodeFile

-----------------------------------------------------------------------------
SizeTypeOK ==
  /\ sizing.pc \in {"count", "encode", "done", "failed"}
  /\ sizing.pass \in 0..Passes /\ sizing.round \in 0..Rounds

(***************************************************************************)
(* An envelope says how long it is: the totalBytes of what was written, and *)
(* the sizeBytes of what was written to a file, are its length, also where  *)
(* another digit makes it longer (artifacts.go:201, envelope.go:100).       *)
(***************************************************************************)
AnnouncedIsActual ==
  sizing.written # 0 =>
    /\ sizing.total = sizing.written
    /\ sizing.file => sizing.announced = sizing.written

(***************************************************************************)
(* The sizes settle: no result is lost to "failed to stabilize envelope     *)
(* file size" (artifacts.go:223).                                           *)
(***************************************************************************)
SizeSettles == sizing.pc # "failed"

(***************************************************************************)
(* An envelope announces its own length, and finding it always ends         *)
(* (artifacts.go:195, envelope.go:90).                                      *)
(***************************************************************************)
SizesAreTrue ==
  SizeTypeOK /\ AnnouncedIsActual /\ SizeSettles
=============================================================================
