--------------------------- MODULE AttemptLedger ---------------------------
(***************************************************************************)
(* What a run's manifest promises about its execution attempts, seen by    *)
(* anyone who reads manifest.json: attempts are numbered without gaps; the *)
(* manifest shows the latest one only; a verdict is given once, to an      *)
(* attempt that is running, and stays until the next attempt is opened.    *)
(* An attempt that is never closed is superseded by the next.              *)
(*                                                                         *)
(* RunExecution implements this module; Diagnosis extends it, as the       *)
(* behaviour of the attempts that it is about.                             *)
(***************************************************************************)
EXTENDS Naturals

CONSTANT MaxGeneration   \* 999_999_999_999 in workspace.py

ASSUME MaxGenerationAssumption == MaxGeneration \in Nat

VARIABLES latest,    \* the generation of the latest attempt, 0 before any
          verdict    \* the manifest's status

Verdicts == {"ran", "failed", "verified"}

TypeOK ==
  /\ latest \in 0..MaxGeneration
  /\ verdict \in {"initialized", "running"} \cup Verdicts

Init == latest = 0 /\ verdict = "initialized"

Open ==
  /\ latest < MaxGeneration
  /\ latest' = latest + 1
  /\ verdict' = "running"

Close(v) ==
  /\ verdict = "running"
  /\ verdict' = v
  /\ UNCHANGED latest

Next == Open \/ \E v \in Verdicts : Close(v)

Spec == Init /\ [][Next]_<<latest, verdict>>
=============================================================================
