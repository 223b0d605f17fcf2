----------------------------- MODULE Diagnosis -----------------------------
(***************************************************************************)
(* What is observed during the attempts of a run, and the diagnosis made   *)
(* of it (network.py, protection.py, protection_run.py, workspace.py).     *)
(*                                                                         *)
(*   network/observations.jsonl   rows of `task network`, by any process   *)
(*   protection/signals.jsonl     rows of `task protection`, likewise      *)
(*   protection/diagnosis.json    what `task protection diagnose` made of  *)
(*                                the rows of the current attempt          *)
(*                                                                         *)
(* A row is tagged with the attempt that is current when its recorder      *)
(* starts; a child of an attempt, which has its id in the environment, may *)
(* record in that attempt only.  Recorders take no lock.  Begin, diagnose  *)
(* and show hold the manifest lock, which excludes (RunLock).  A row is a  *)
(* name here, and a diagnosis the set of the rows that it was made of: the *)
(* code compares digests of what it aggregates.                            *)
(***************************************************************************)
EXTENDS AttemptLedger, FiniteSets

CONSTANTS Procs, NoProc,
          Rows, NoRow,
          NoDiagnosis,
          Limit        \* the rows a log may hold: its largest size in bytes

ASSUME DiagnosisAssumption ==
  /\ NoProc \notin Procs
  /\ NoRow \notin Rows
  /\ Limit \in Nat \ {0}

VARIABLES
  log,         \* the rows of both logs, with the attempts they are tagged with
  torn,        \* the logs that a write which failed halfway left unreadable
  diagnosis,   \* diagnosis.json
  locker,      \* of the manifest lock
  pc,
  job,         \* what each recorder is about to append, and where
  seen,        \* the rows each diagnose or show has aggregated
  payload      \* the diagnosis each show has read

\* History: nothing in the code reads these.
VARIABLES
  origin,      \* the attempt whose child observed a row, 0 if nobody's child
  recorded,    \* the rows whose recorder has returned
  due          \* those of the attempt that were recorded before a show began

logs == <<log, torn>>
commands == <<job, seen, payload, due>>
dvars == <<latest, verdict, logs, diagnosis, locker, pc, commands, origin, recorded>>

Logs == {"observations", "signals"}
NoJob == [log |-> "none", row |-> NoRow, attempt |-> 0]
Diagnoses == [marker : 0..MaxGeneration, rows : SUBSET Rows]

DiagnosisTypeOK ==
  /\ TypeOK
  /\ log \in [Logs -> SUBSET [row : Rows, attempt : 0..MaxGeneration]]
  /\ torn \subseteq Logs
  /\ diagnosis \in Diagnoses \cup {NoDiagnosis}
  /\ locker \in Procs \cup {NoProc}
  /\ pc \in [Procs -> {"idle", "measure", "append", "invalidate", "begun",
                       "diagnose", "diagnose-signals", "diagnosed",
                       "show", "show-signals", "shown", "served"}]
  /\ job \in [Procs -> {NoJob} \cup
                [log : Logs, row : Rows, attempt : 0..MaxGeneration]]
  /\ seen \in [Procs -> SUBSET Rows]
  /\ payload \in [Procs -> Diagnoses \cup {NoDiagnosis}]
  /\ origin \in [Rows -> 0..MaxGeneration]
  /\ recorded \subseteq Rows
  /\ due \in [Procs -> SUBSET Rows]

DiagnosisInit ==
  /\ Init
  /\ log = [l \in Logs |-> {}]
  /\ torn = {}
  /\ diagnosis = NoDiagnosis
  /\ locker = NoProc
  /\ pc = [p \in Procs |-> "idle"]
  /\ job = [p \in Procs |-> NoJob]
  /\ seen = [p \in Procs |-> {}]
  /\ payload = [p \in Procs |-> NoDiagnosis]
  /\ origin = [r \in Rows |-> 0]
  /\ recorded = {}
  /\ due = [p \in Procs |-> {}]

-----------------------------------------------------------------------------
Goto(p, stage) == pc' = [pc EXCEPT ![p] = stage]

\* The command returns, raises or dies; the manifest lock is free again.
Leave(p) ==
  /\ Goto(p, "idle")
  /\ job' = [job EXCEPT ![p] = NoJob]
  /\ seen' = [seen EXCEPT ![p] = {}]
  /\ payload' = [payload EXCEPT ![p] = NoDiagnosis]
  /\ due' = [due EXCEPT ![p] = {}]
  /\ locker' = IF locker = p THEN NoProc ELSE locker

\* The rows of log l that are tagged with attempt a.
RowsOf(l, a) == {e.row : e \in {e \in log[l] : e.attempt = a}}

\* load_observations and load_page_signals reject a file that is too large or
\* has a line they cannot parse.
Readable(l) == l \notin torn /\ Cardinality(log[l]) <= Limit

-----------------------------------------------------------------------------
(* record_observation and record_page_signals.                             *)

\* Mutant: the attempt in the environment is not compared.
MayRecordAnyChild(child) == TRUE

\* bound_attempt_id.
MayRecord(child) == child \in {0, latest}

\* A row that no log has and nobody is recording.
Fresh(r) ==
  /\ \A l \in Logs : \A e \in log[l] : e.row # r
  /\ \A p \in Procs : job[p].row # r

Record(p) ==
  /\ pc[p] = "idle"
  /\ \E l \in Logs, r \in Rows, child \in 0..latest :
       /\ Fresh(r)
       /\ MayRecord(child)
       /\ job' = [job EXCEPT ![p] = [log |-> l, row |-> r, attempt |-> latest]]
       /\ origin' = [origin EXCEPT ![r] = child]
  /\ Goto(p, "measure")
  /\ UNCHANGED <<latest, verdict, logs, diagnosis, locker, seen, payload, due, recorded>>

\* The size of the log, before the row is appended.
Measure(p) ==
  /\ pc[p] = "measure"
  /\ \/ /\ Cardinality(log[job[p].log]) < Limit
        /\ Goto(p, "append")
        /\ UNCHANGED <<commands, locker>>
     \/ /\ Cardinality(log[job[p].log]) >= Limit
        /\ Leave(p)
  /\ UNCHANGED <<latest, verdict, logs, diagnosis, origin, recorded>>

Append(p) ==
  /\ pc[p] = "append"
  /\ log' = [log EXCEPT ![job[p].log] =
               @ \cup {[row |-> job[p].row, attempt |-> job[p].attempt]}]
  /\ Goto(p, "invalidate")
  /\ UNCHANGED <<latest, verdict, torn, diagnosis, locker, commands, origin, recorded>>

\* A short write, or a crash in it: half a line stays.
AppendFails(p) ==
  /\ pc[p] = "append"
  /\ torn' = torn \cup {job[p].log}
  /\ Leave(p)
  /\ UNCHANGED <<latest, verdict, log, diagnosis, origin, recorded>>

\* invalidate_protection_diagnosis, whosever diagnosis it is.
Invalidate(p) ==
  /\ pc[p] = "invalidate"
  /\ diagnosis' = NoDiagnosis
  /\ recorded' = recorded \cup {job[p].row}
  /\ Leave(p)
  /\ UNCHANGED <<latest, verdict, logs, origin>>

-----------------------------------------------------------------------------
(* The attempts.                                                           *)

\* Mutant: an attempt begins without the manifest lock.
BeginUnlocked(p) ==
  /\ pc[p] = "idle"
  /\ Open
  /\ Goto(p, "begun")
  /\ UNCHANGED <<logs, diagnosis, locker, commands, origin, recorded>>

\* begin_execution_attempt: first the manifest, then the diagnosis.
Begin(p) ==
  /\ pc[p] = "idle"
  /\ locker = NoProc
  /\ Open
  /\ locker' = p
  /\ Goto(p, "begun")
  /\ UNCHANGED <<logs, diagnosis, commands, origin, recorded>>

InvalidateBegun(p) ==
  /\ pc[p] = "begun"
  /\ diagnosis' = NoDiagnosis
  /\ Leave(p)
  /\ UNCHANGED <<latest, verdict, logs, origin, recorded>>

\* update_execution_attempt.
End ==
  /\ locker = NoProc
  /\ \E v \in Verdicts : Close(v)
  /\ UNCHANGED <<logs, diagnosis, locker, pc, commands, origin, recorded>>

-----------------------------------------------------------------------------
(* diagnose_run and load_protection_diagnosis.                             *)

\* Both refuse while an attempt runs, without a trace.
Diagnose(p) ==
  /\ pc[p] = "idle"
  /\ locker = NoProc
  /\ verdict # "running"
  /\ locker' = p
  /\ Goto(p, "diagnose")
  /\ UNCHANGED <<latest, verdict, logs, diagnosis, commands, origin, recorded>>

\* Without a file there is nothing to show.
Show(p) ==
  /\ pc[p] = "idle"
  /\ locker = NoProc
  /\ diagnosis # NoDiagnosis
  /\ verdict # "running"
  /\ locker' = p
  /\ payload' = [payload EXCEPT ![p] = diagnosis]
  /\ due' = [due EXCEPT ![p] =
               recorded \cap UNION {RowsOf(l, latest) : l \in Logs}]
  /\ Goto(p, "show")
  /\ UNCHANGED <<latest, verdict, logs, diagnosis, job, seen, origin, recorded>>

\* aggregate_run_signals reads one log after the other; rows of other
\* attempts do not count.
Aggregate(p, l, stage) ==
  /\ \/ /\ Readable(l)
        /\ seen' = [seen EXCEPT ![p] = @ \cup RowsOf(l, latest)]
        /\ Goto(p, stage)
        /\ UNCHANGED <<job, payload, due, locker>>
     \/ /\ ~Readable(l)
        /\ Leave(p)
  /\ UNCHANGED <<latest, verdict, logs, diagnosis, origin, recorded>>

ReadObservations(p) ==
  \/ pc[p] = "diagnose" /\ Aggregate(p, "observations", "diagnose-signals")
  \/ pc[p] = "show" /\ Aggregate(p, "observations", "show-signals")

ReadSignals(p) ==
  \/ pc[p] = "diagnose-signals" /\ Aggregate(p, "signals", "diagnosed")
  \/ pc[p] = "show-signals" /\ Aggregate(p, "signals", "shown")

\* What diagnose writes and show compares.
Current(p) == [marker |-> latest, rows |-> seen[p]]

Publish(p) ==
  /\ pc[p] = "diagnosed"
  /\ diagnosis' = Current(p)
  /\ Leave(p)
  /\ UNCHANGED <<latest, verdict, logs, origin, recorded>>

\* Mutant: show believes the file.
CompareTrusting(p) ==
  /\ pc[p] = "shown"
  /\ Goto(p, "served")
  /\ UNCHANGED <<latest, verdict, logs, diagnosis, locker, commands, origin, recorded>>

\* stale_or_untrusted_protection_diagnosis, or the payload is returned.
Compare(p) ==
  /\ pc[p] = "shown"
  /\ \/ /\ payload[p] = Current(p)
        /\ Goto(p, "served")
        /\ UNCHANGED <<commands, locker>>
     \/ /\ payload[p] # Current(p)
        /\ Leave(p)
  /\ UNCHANGED <<latest, verdict, logs, diagnosis, origin, recorded>>

Return(p) ==
  /\ pc[p] = "served"
  /\ Leave(p)
  /\ UNCHANGED <<latest, verdict, logs, diagnosis, origin, recorded>>

\* A process is killed.
Crash(p) ==
  /\ pc[p] # "idle"
  /\ Leave(p)
  /\ UNCHANGED <<latest, verdict, logs, diagnosis, origin, recorded>>

-----------------------------------------------------------------------------
DiagnosisNext ==
  \/ \E p \in Procs :
       \/ Record(p) \/ Measure(p) \/ Append(p) \/ AppendFails(p) \/ Invalidate(p)
       \/ Begin(p) \/ InvalidateBegun(p)
       \/ Diagnose(p) \/ Show(p) \/ ReadObservations(p) \/ ReadSignals(p)
       \/ Publish(p) \/ Compare(p) \/ Return(p) \/ Crash(p)
  \/ End

DiagnosisSpec == DiagnosisInit /\ [][DiagnosisNext]_dvars

-----------------------------------------------------------------------------
\* "Protection diagnosis uses only observations tagged with the current
\* attempt ID", and "child signal writes must match CHIP_RELAY_ATTEMPT_ID"
\* (README.md:218): a diagnosis is never made of what a child of another
\* attempt saw, though such a child may outlive its attempt and record at any
\* time (workspace.py:671-680, protection_run.py:75-98, 140-142).
OwnRows ==
  diagnosis # NoDiagnosis =>
    \A r \in diagnosis.rows : origin[r] \in {0, diagnosis.marker}

\* The diagnosis that is shown is about the latest attempt, which has ended:
\* the file of an earlier attempt may survive a crash between the two writes
\* of begin_execution_attempt, but is not served (protection_run.py:277-284,
\* 382-402).
ServedCurrent ==
  \A p \in Procs : pc[p] = "served" =>
    payload[p].marker = latest /\ verdict # "running"

\* It misses no row whose recorder returned before it was asked for, though a
\* diagnosis written by a diagnose that read the logs earlier may come after
\* the row and its invalidation (network.py:338-341, protection.py:518-562,
\* protection_run.py:341-346).
ServedComplete ==
  \A p \in Procs : pc[p] = "served" => due[p] \subseteq payload[p].rows
=============================================================================
