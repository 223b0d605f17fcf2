---------------------------- MODULE RunExecution ----------------------------
(***************************************************************************)
(* One run workspace and the processes that execute it: `task verify`      *)
(* (verifier.py), `task run` (playwright_runner.py) and `task loop`        *)
(* (agent_loop.py), and the final.py processes they start.                 *)
(*                                                                         *)
(* Every change of manifest.json is a reload, an update and an atomic      *)
(* rename under the manifest lock, so that it is one step here; what       *)
(* happens between two of them is not.  The execution lock is held from    *)
(* before an attempt begins to after its last manifest update.  RunLock    *)
(* shows when it excludes: always on Linux, elsewhere until the lock file  *)
(* is replaced.                                                            *)
(***************************************************************************)
EXTENDS Naturals

CONSTANTS Procs,          \* command-line processes that use the run
          MaxGeneration,  \* 999_999_999_999 in workspace.py
          MaxTries,       \* --max-attempts of `task loop`
          Commands,       \* the commands they may be given
          Linux           \* sys.platform.startswith("linux")

ASSUME RunExecutionAssumption ==
  /\ MaxGeneration \in Nat
  /\ MaxTries \in Nat \ {0}
  /\ Commands \subseteq {"verify", "task-run", "loop"}
  /\ Linux \in BOOLEAN

VARIABLES
  manifest,   \* manifest.json
  result,     \* results/result.json or a screenshot: who wrote it last, and
              \* for which processes it is newer than their verify_started_at
  report,     \* verification/verify-result.json
  holders,    \* the processes inside execution_run_lock
  replaced,   \* .execution.lock was replaced on a platform without sockets
  pc, op,     \* where each process is, and in which command
  attempt,    \* the generation each process allocated
  outcome,    \* the verdict each process has reached for it
  tries,      \* the attempt counter of run_agent_loop
  live,       \* the attempts that have a final.py process alive
  stuck       \* those of them whose final.py waits for the execution lock,
              \* in a command that it called (captcha.py, captcha_visual.py)

\* History: nothing in the code reads these.  The first three are about the
\* latest attempt, and about earlier ones only while they overlap with it.
VARIABLES
  passed,     \* attempts whose final.py exited 0
  borrowed,   \* attempts judged by evidence another attempt wrote
  cut,        \* attempts whose process died or raised before its last step
  outlived    \* some final.py process outlived its attempt

procs == <<pc, op, attempt, outcome, tries>>
history == <<passed, borrowed, cut, outlived>>
children == <<live, stuck>>
vars == <<manifest, result, report, holders, replaced, procs, children, history>>

Attempts == 1..MaxGeneration

Stages == {"idle", "agent", "waiting", "locked", "begun", "script", "judge",
           "close", "publish", "index", "leave", "record"}

\* The stages of a process that has an attempt open and is to close it.
Attending == {"begun", "script", "judge", "close"}

\* With those of one that has a verdict to publish.
InAttempt == Attending \cup {"publish", "index"}

Manifests ==
  [generation : 0..MaxGeneration,
   phase      : {"initialized", "running", "completed", "failed"},
   source     : {"init", "verify", "task-run"},
   status     : {"initialized", "running", "ran", "failed", "verified"},
   last       : {"not-run", "failed", "verified"}]  \* verification.last_result

TypeOK ==
  /\ manifest \in Manifests
  /\ result \in [by : 0..MaxGeneration, freshFor : SUBSET Procs]
  /\ report \in [status : {"none", "failed", "verified"}, by : 0..MaxGeneration]
  /\ holders \subseteq Procs
  /\ replaced \in BOOLEAN
  /\ pc \in [Procs -> Stages]
  /\ op \in [Procs -> Commands \cup {"none"}]
  /\ attempt \in [Procs -> 0..MaxGeneration]
  /\ outcome \in [Procs -> {"none", "ran", "failed", "verified", "error"}]
  /\ tries \in [Procs -> 0..MaxTries]
  /\ live \subseteq Attempts
  /\ stuck \subseteq Attempts
  /\ passed \subseteq Attempts
  /\ borrowed \subseteq Attempts
  /\ cut \subseteq Attempts
  /\ outlived \in BOOLEAN

\* init_run and default_manifest.
Init ==
  /\ manifest = [generation |-> 0, phase |-> "initialized", source |-> "init",
                 status |-> "initialized", last |-> "not-run"]
  /\ result = [by |-> 0, freshFor |-> {}]
  /\ report = [status |-> "none", by |-> 0]
  /\ holders = {}
  /\ replaced = FALSE
  /\ pc = [p \in Procs |-> "idle"]
  /\ op = [p \in Procs |-> "none"]
  /\ attempt = [p \in Procs |-> 0]
  /\ outcome = [p \in Procs |-> "none"]
  /\ tries = [p \in Procs |-> 0]
  /\ live = {}
  /\ stuck = {}
  /\ passed = {}
  /\ borrowed = {}
  /\ cut = {}
  /\ outlived = FALSE

-----------------------------------------------------------------------------
(* Shorthands.                                                             *)

Goto(p, stage) == pc' = [pc EXCEPT ![p] = stage]

\* RunLock's theorem: the execution lock excludes on Linux, and elsewhere
\* while its file stays in place.
Excludes == Linux \/ ~replaced

\* `task verify`, alone or called by `task loop`.
Verifying(p) == op[p] \in {"verify", "loop"}

Source(p) == IF Verifying(p) THEN "verify" ELSE "task-run"

\* update_execution_attempt accepts a process only while the manifest still
\* shows the attempt it began.
Owns(p) == attempt[p] = manifest.generation

\* The process is gone, or back at the shell's prompt.
Forget(p) ==
  /\ pc' = [pc EXCEPT ![p] = "idle"]
  /\ op' = [op EXCEPT ![p] = "none"]
  /\ attempt' = [attempt EXCEPT ![p] = 0]
  /\ outcome' = [outcome EXCEPT ![p] = "none"]
  /\ tries' = [tries EXCEPT ![p] = 0]

\* The attempt of p gets no further step of p.
CutShort(p) == cut' = cut \cup ({attempt[p]} \cap Attempts)

\* The final.py process of p's attempt is dead, or (orphaned, or a child of
\* it that detached) goes on.  An orphan that waits is like one that is slow.
MayOutlive(p) ==
  /\ stuck' = stuck \ {attempt[p]}
  /\ \/ /\ live' = live \ {attempt[p]}
        /\ UNCHANGED outlived
     \/ /\ attempt[p] \in live
        /\ outlived' = TRUE
        /\ UNCHANGED live

-----------------------------------------------------------------------------
(* Commands and the external agent.                                        *)

Start(p, c) ==
  /\ pc[p] = "idle"
  /\ c \in Commands \ {"loop"}
  /\ op' = [op EXCEPT ![p] = c]
  /\ Goto(p, "waiting")
  /\ UNCHANGED <<manifest, result, report, holders, replaced, attempt, outcome, tries,
                 children, history>>

\* run_agent_loop: without an agent command, or with max_attempts < 1, only
\* the failure is recorded.
StartLoop(p) ==
  /\ pc[p] = "idle"
  /\ "loop" \in Commands
  /\ op' = [op EXCEPT ![p] = "loop"]
  /\ \/ /\ Goto(p, "agent")
        /\ tries' = [tries EXCEPT ![p] = 1]
        /\ UNCHANGED outcome
     \/ /\ Goto(p, "record")
        /\ outcome' = [outcome EXCEPT ![p] = "failed"]
        /\ UNCHANGED tries
  /\ UNCHANGED <<manifest, result, report, holders, replaced, attempt, children, history>>

\* Mutant: the loop starts over after the last iteration.
NextTryAnew(p) ==
  /\ Goto(p, "agent")
  /\ tries' = [tries EXCEPT ![p] = IF @ < MaxTries THEN @ + 1 ELSE 1]
  /\ outcome' = [outcome EXCEPT ![p] = "none"]

\* The next iteration of `for attempt in range(1, max_attempts + 1)`, or the
\* failure after the last one.
NextTry(p) ==
  \/ /\ tries[p] < MaxTries
     /\ Goto(p, "agent")
     /\ tries' = [tries EXCEPT ![p] = @ + 1]
     /\ outcome' = [outcome EXCEPT ![p] = "none"]
  \/ /\ tries[p] = MaxTries
     /\ Goto(p, "record")
     /\ outcome' = [outcome EXCEPT ![p] = "failed"]
     /\ UNCHANGED tries

\* The agent command ends: by exit code 0 (verify follows), by another code
\* (the next iteration), or it is not found, not executable or timed out.
AgentEnds(p) ==
  /\ pc[p] = "agent"
  /\ \/ Goto(p, "waiting") /\ UNCHANGED <<outcome, tries>>
     \/ NextTry(p)
     \/ /\ Goto(p, "record")
        /\ outcome' = [outcome EXCEPT ![p] = "failed"]
        /\ UNCHANGED tries
  /\ UNCHANGED <<manifest, result, report, holders, replaced, op, attempt, children, history>>

-----------------------------------------------------------------------------
(* The attempt, under the execution lock.                                  *)

ReplaceLockFile ==
  /\ ~Linux
  /\ ~replaced
  /\ replaced' = TRUE
  /\ UNCHANGED <<manifest, result, report, holders, procs, children, history>>

\* Entering, leaving and dying without what they do to the lock: LockedRun
\* joins these with the steps of RunLock.
Entered(p) ==
  /\ pc[p] = "waiting"
  /\ Goto(p, "locked")
  /\ UNCHANGED <<manifest, result, report, op, attempt, outcome, tries, children, history>>

EnterLock(p) ==
  /\ holders = {} \/ ~Excludes
  /\ holders' = holders \cup {p}
  /\ Entered(p)
  /\ UNCHANGED replaced

\* The manifest of begin_execution_attempt.  verification.last_result and
\* artifacts are those of the attempts before.
Begun(m, source) ==
  [m EXCEPT !.generation = @ + 1, !.phase = "running", !.source = source,
            !.status = "running"]

\* Mutant: the bound is compared with the old generation instead of the new.
BeginPastBound(p) ==
  /\ pc[p] = "locked"
  /\ manifest.generation <= MaxGeneration
  /\ manifest' = Begun(manifest, Source(p))
  /\ attempt' = [attempt EXCEPT ![p] = manifest.generation + 1]
  /\ Goto(p, "begun")
  /\ passed' = {} /\ borrowed' = {} /\ cut' = {}
  /\ UNCHANGED <<outcome, result, report, holders, replaced, op, tries, children, outlived>>

\* begin_execution_attempt; past the last generation it raises.
Begin(p) ==
  /\ pc[p] = "locked"
  /\ \/ /\ manifest.generation < MaxGeneration
        /\ manifest' = Begun(manifest, Source(p))
        /\ attempt' = [attempt EXCEPT ![p] = manifest.generation + 1]
        /\ Goto(p, "begun")
        /\ passed' = {} /\ borrowed' = {} /\ cut' = {}
        /\ UNCHANGED outcome
     \/ /\ manifest.generation = MaxGeneration
        /\ outcome' = [outcome EXCEPT ![p] = "error"]
        /\ Goto(p, "leave")
        /\ UNCHANGED <<manifest, attempt, passed, borrowed, cut>>
  /\ UNCHANGED <<result, report, holders, replaced, op, tries, children, outlived>>

\* Mutant: verify_started_at is left as the first attempt set it.
FreshnessKept(p) == UNCHANGED result

\* verify_started_at: what was written before is stale for p from now on.
ResetFreshness(p) ==
  result' = IF Verifying(p) THEN [result EXCEPT !.freshFor = @ \ {p}] ELSE result

\* Mutant: a gate returns its failure without the update of the manifest.
PreflightSilent(p) ==
  /\ pc[p] = "begun"
  /\ \/ /\ outcome' = [outcome EXCEPT ![p] = "failed"]
        /\ Goto(p, "leave")
        /\ UNCHANGED <<result, live>>
     \/ /\ ResetFreshness(p)
        /\ live' = live \cup {attempt[p]}
        /\ Goto(p, "script")
        /\ UNCHANGED outcome
  /\ UNCHANGED <<manifest, report, holders, replaced, op, attempt, tries, stuck, history>>

\* The gates before final.py starts (strength, missing script, compile error;
\* proxy authentication for task-run), and its start.
Preflight(p) ==
  /\ pc[p] = "begun"
  /\ \/ /\ outcome' = [outcome EXCEPT ![p] = "failed"]
        /\ Goto(p, "close")
        /\ UNCHANGED <<result, live>>
     \/ /\ ResetFreshness(p)
        /\ live' = live \cup {attempt[p]}
        /\ Goto(p, "script")
        /\ UNCHANGED outcome
  /\ UNCHANGED <<manifest, report, holders, replaced, op, attempt, tries, stuck, history>>

\* Mutant: the exit code is not looked at.
ScriptEndsUnchecked(p) ==
  /\ pc[p] = "script"
  /\ IF Verifying(p)
       THEN Goto(p, "judge") /\ UNCHANGED outcome
       ELSE Goto(p, "close") /\ outcome' = [outcome EXCEPT ![p] = "ran"]
  /\ passed' \in {passed, passed \cup {attempt[p]}}
  /\ MayOutlive(p)
  /\ UNCHANGED <<manifest, result, report, holders, replaced, op, attempt, tries,
                 borrowed, cut>>

\* Mutant: subprocess.run has no timeout.
ScriptEndsUntimed(p) ==
  /\ pc[p] = "script"
  /\ attempt[p] \notin stuck
  /\ \/ /\ passed' = passed \cup {attempt[p]}
        /\ IF Verifying(p)
             THEN Goto(p, "judge") /\ UNCHANGED outcome
             ELSE Goto(p, "close") /\ outcome' = [outcome EXCEPT ![p] = "ran"]
     \/ /\ outcome' = [outcome EXCEPT ![p] = "failed"]
        /\ Goto(p, "close")
        /\ UNCHANGED passed
  /\ MayOutlive(p)
  /\ UNCHANGED <<manifest, result, report, holders, replaced, op, attempt, tries,
                 borrowed, cut>>

\* subprocess.run returns: final.py, unless it is stuck, exited 0 or otherwise;
\* stuck or not, it was killed at the timeout; for task-run the proxy session
\* may fail too.
ScriptEnds(p) ==
  /\ pc[p] = "script"
  /\ \/ /\ attempt[p] \notin stuck
        /\ passed' = passed \cup {attempt[p]}
        /\ IF Verifying(p)
             THEN Goto(p, "judge") /\ UNCHANGED outcome
             ELSE Goto(p, "close") /\ outcome' = [outcome EXCEPT ![p] = "ran"]
     \/ /\ outcome' = [outcome EXCEPT ![p] = "failed"]
        /\ Goto(p, "close")
        /\ UNCHANGED passed
  /\ MayOutlive(p)
  /\ UNCHANGED <<manifest, result, report, holders, replaced, op, attempt, tries,
                 borrowed, cut>>

\* Mutant: verify-result.json is written with the verdict, before the manifest.
JudgeReports(p) ==
  /\ pc[p] = "judge"
  /\ \/ /\ p \in result.freshFor
        /\ outcome' = [outcome EXCEPT ![p] = "verified"]
        /\ borrowed' = IF result.by = attempt[p] THEN borrowed
                                                ELSE borrowed \cup {attempt[p]}
     \/ /\ outcome' = [outcome EXCEPT ![p] = "failed"]
        /\ UNCHANGED borrowed
  /\ report' = [status |-> outcome'[p], by |-> attempt[p]]
  /\ Goto(p, "close")
  /\ UNCHANGED <<manifest, result, holders, replaced, op, attempt, tries, children,
                 passed, cut, outlived>>

\* The gates after final.py: a result or screenshot not older than
\* verify_started_at; a log; the hygiene scan.
Judge(p) ==
  /\ pc[p] = "judge"
  /\ \/ /\ p \in result.freshFor
        /\ outcome' = [outcome EXCEPT ![p] = "verified"]
        /\ borrowed' = IF result.by = attempt[p] THEN borrowed
                                                ELSE borrowed \cup {attempt[p]}
     \/ /\ outcome' = [outcome EXCEPT ![p] = "failed"]
        /\ UNCHANGED borrowed
  /\ Goto(p, "close")
  /\ UNCHANGED <<manifest, result, report, holders, replaced, op, attempt, tries, children,
                 passed, cut, outlived>>

\* Mutant: the verdict is written whatever attempt the manifest shows.
MayCloseAny(p) == TRUE

\* The guards of update_execution_attempt(..., phase=...).
MayClose(p) == Owns(p) /\ manifest.phase = "running"

\* Mutant: a verified attempt is written as merely completed.
VerdictStatusLost(p) == IF outcome[p] = "verified" THEN "ran" ELSE outcome[p]

VerdictStatus(p) == outcome[p]

\* apply_success, the updater of fail, and _update_run_manifest.
Close(p) ==
  /\ pc[p] = "close"
  /\ MayClose(p)
  /\ manifest' =
       [manifest EXCEPT
          !.phase = IF outcome[p] = "failed" THEN "failed" ELSE "completed",
          !.status = VerdictStatus(p),
          !.last = IF Verifying(p) THEN outcome[p] ELSE @]
  /\ Goto(p, IF Verifying(p) THEN "publish" ELSE "leave")
  /\ UNCHANGED <<result, report, holders, replaced, op, attempt, outcome, tries,
                 children, history>>

\* Mutant: verify-result.json is not written for a failed attempt.
PublishVerifiedOnly(p) ==
  /\ pc[p] = "publish"
  /\ report' = IF outcome[p] = "verified"
                 THEN [status |-> outcome[p], by |-> attempt[p]]
                 ELSE report
  /\ Goto(p, "index")
  /\ UNCHANGED <<manifest, result, holders, replaced, op, attempt, outcome, tries,
                 children, history>>

\* verify-result.json is written after the manifest.
Publish(p) ==
  /\ pc[p] = "publish"
  /\ report' = [status |-> outcome[p], by |-> attempt[p]]
  /\ Goto(p, "index")
  /\ UNCHANGED <<manifest, result, holders, replaced, op, attempt, outcome, tries,
                 children, history>>

\* The second update_execution_attempt, without a phase, changes only the
\* index of artifacts (BrowserFetch models it).
Index(p) ==
  /\ pc[p] = "index"
  /\ Owns(p)
  /\ Goto(p, "leave")
  /\ UNCHANGED <<manifest, result, report, holders, replaced, op, attempt, outcome,
                 tries, children, history>>

\* update_execution_attempt raises stale_execution_attempt or
\* execution_attempt_not_running: the command ends without a further write.
Refused(p) ==
  /\ \/ pc[p] = "close" /\ ~MayClose(p)
     \/ pc[p] = "index" /\ ~Owns(p)
  /\ outcome' = [outcome EXCEPT ![p] = "error"]
  /\ Goto(p, "leave")
  /\ CutShort(p)
  /\ UNCHANGED <<manifest, result, report, holders, replaced, op, attempt, tries, children,
                 passed, borrowed, outlived>>

\* An exception nobody catches (a log that cannot be written, a full disk):
\* the locks are released on the way out, the attempt stays as it is.
Raise(p) ==
  /\ pc[p] \in InAttempt
  /\ outcome' = [outcome EXCEPT ![p] = "error"]
  /\ Goto(p, "leave")
  /\ CutShort(p)
  /\ IF pc[p] = "script" THEN MayOutlive(p) ELSE UNCHANGED <<children, outlived>>
  /\ UNCHANGED <<manifest, result, report, holders, replaced, op, attempt, tries,
                 passed, borrowed>>

\* After the lock a loop decides what comes next.
Left(p) ==
  /\ pc[p] = "leave"
  /\ \/ /\ op[p] = "loop" /\ outcome[p] = "verified"
        /\ Goto(p, "record")
        /\ attempt' = [attempt EXCEPT ![p] = 0]
        /\ UNCHANGED <<op, outcome, tries>>
     \/ /\ op[p] = "loop" /\ outcome[p] = "failed"
        /\ NextTry(p)
        /\ attempt' = [attempt EXCEPT ![p] = 0]
        /\ UNCHANGED op
     \/ /\ op[p] # "loop" \/ outcome[p] = "error"
        /\ Forget(p)
  /\ UNCHANGED <<manifest, result, report, children, history>>

\* The execution lock is released.
Leave(p) ==
  /\ holders' = holders \ {p}
  /\ Left(p)
  /\ UNCHANGED replaced

\* _update_manifest of agent_loop.py, after the lock was given up: it writes
\* agent_loop, which no other field depends on.
RecordLoop(p) ==
  /\ pc[p] = "record"
  /\ Forget(p)
  /\ UNCHANGED <<manifest, result, report, holders, replaced, children, history>>

\* The command is killed; its final.py, if it has one, is an orphan.
Died(p) ==
  /\ pc[p] # "idle"
  /\ IF pc[p] \in InAttempt
       THEN CutShort(p)
       ELSE UNCHANGED cut
  /\ outlived' = (outlived \/ (pc[p] = "script" /\ attempt[p] \in live))
  /\ stuck' = stuck \ {attempt[p]}
  /\ Forget(p)
  /\ UNCHANGED <<manifest, result, report, live, passed, borrowed>>

\* The kernel frees its locks.
Crash(p) ==
  /\ holders' = holders \ {p}
  /\ Died(p)
  /\ UNCHANGED replaced

-----------------------------------------------------------------------------
(* final.py, also after its attempt.                                       *)

WriteResult(g) ==
  /\ g \in live \ stuck
  /\ result' = [by |-> g, freshFor |-> Procs]
  /\ UNCHANGED <<manifest, report, holders, replaced, procs, children, history>>

\* final.py calls a command that takes the execution lock, which its own
\* parent holds: it goes no further while its attempt is in progress.  (In a
\* lock file that was put in place later the command does not meet its parent.)
WaitForParent(p) ==
  /\ pc[p] = "script" /\ p \in holders
  /\ attempt[p] \in live
  /\ Excludes
  /\ stuck' = stuck \cup {attempt[p]}
  /\ UNCHANGED <<manifest, result, report, holders, replaced, procs, live, history>>

\* An orphan ends by itself.
OrphanEnds(g) ==
  /\ g \in live
  /\ \A p \in Procs : ~(pc[p] = "script" /\ attempt[p] = g)
  /\ live' = live \ {g}
  /\ UNCHANGED <<manifest, result, report, holders, replaced, procs, stuck, history>>

-----------------------------------------------------------------------------
\* What a process does by itself, once started and not disturbed.
Advance(p) ==
  \/ AgentEnds(p) \/ Begin(p) \/ Preflight(p) \/ ScriptEnds(p) \/ Judge(p)
  \/ Close(p) \/ Publish(p) \/ Index(p) \/ Refused(p) \/ Leave(p)
  \/ RecordLoop(p)

Child(g) == WriteResult(g) \/ OrphanEnds(g)

Next ==
  \/ \E p \in Procs :
       \/ \E c \in Commands : Start(p, c)
       \/ StartLoop(p) \/ EnterLock(p) \/ Advance(p) \/ WaitForParent(p)
       \/ Raise(p) \/ Crash(p)
  \/ \E g \in Attempts : Child(g)
  \/ ReplaceLockFile

Spec == Init /\ [][Next]_vars

(***************************************************************************)
(* A command that was started goes on: each wait for a child ends at the   *)
(* latest at its timeout (120 s for verify and the agent, 180 s for run).  *)
(* The kernel serves the waiters of the lock in turn.  Nothing makes       *)
(* anybody start a command, edit, crash, or write from an orphan.          *)
(***************************************************************************)
Fairness ==
  \A p \in Procs : WF_vars(Advance(p)) /\ SF_vars(EnterLock(p))

FairSpec == Spec /\ Fairness

-----------------------------------------------------------------------------
(* Properties.                                                             *)

\* The fields of the manifest that three functions write tell one story:
\* status, execution.phase and verification.last_result never contradict each
\* other for the current attempt (workspace.py:693-704, 734-741,
\* verifier.py:99-106 and 206-213, playwright_runner.py:182-191).
VerdictCoherent ==
  /\ manifest.phase = "running" <=> manifest.status = "running"
  /\ manifest.phase = "completed" => manifest.status \in {"ran", "verified"}
  /\ manifest.phase = "failed" => manifest.status = "failed"
  /\ manifest.source = "verify" /\ manifest.phase \in {"completed", "failed"} =>
       manifest.last = manifest.status

\* A manifest that says "running" has a process that will close it, unless
\* that process died or raised: no early return forgets to report
\* (verifier.py:139-196, playwright_runner.py:105-176).
RunningIsAttended ==
  manifest.phase = "running" =>
    \/ manifest.generation \in cut
    \/ \E p \in Procs : attempt[p] = manifest.generation /\ pc[p] \in Attending

\* "Completion is accepted only for that attempt ID" (README.md:218): also
\* when two attempts overlap, only the process that began an attempt closes
\* it (workspace.py:724-730).
ClosedByOwner ==
  [][\A g \in Attempts :
       /\ manifest.generation = g /\ manifest.phase = "running"
       /\ manifest'.generation = g /\ manifest'.phase # "running"
       => \E p \in Procs : /\ attempt[p] = g /\ pc[p] = "close"
                           /\ manifest'.status = outcome[p]
                           /\ pc'[p] # "close"]_vars

\* The manifest gives verdicts as AttemptLedger promises, whatever overlaps,
\* dies or raises.
Ledger == INSTANCE AttemptLedger
            WITH latest <- manifest.generation, verdict <- manifest.status

ImplementsLedger == Ledger!Spec

\* "verified" is never shown for an attempt whose own final.py did not exit
\* 0: not through a stale verdict, another command, or an overlap
\* (verifier.py:177-213).
VerifiedPassed ==
  manifest.status = "verified" => manifest.generation \in passed

\* "requires fresh final logs/results or screenshots from that attempt"
\* (README.md:218): the evidence was written by final.py of the attempt
\* itself, as long as the lock excludes and no final.py outlives its attempt.
EvidenceOfAttempt ==
  manifest.status = "verified" /\ Excludes /\ ~outlived =>
    manifest.generation \notin borrowed

\* Once the lock is free, verify-result.json shows the verdict of the
\* manifest, unless the last verify was cut short between the two writes
\* (verifier.py:213-222).
ReportAgrees ==
  /\ Excludes /\ holders = {}
  /\ manifest.source = "verify" /\ manifest.phase # "running"
  /\ manifest.generation \notin cut
  => report = [status |-> manifest.status, by |-> manifest.generation]

\* Also when the lock does not exclude: no two processes have the same attempt
\* (workspace.py:693-704), and verify-result.json never gives the attempt that
\* the manifest shows another verdict than the manifest does, "running"
\* included (verifier.py:206-222).
AttemptsDistinct ==
  \A p, q \in Procs : attempt[p] = attempt[q] /\ attempt[p] # 0 => p = q

ReportNotAhead ==
  report.by = manifest.generation /\ report.status # "none" =>
    report.status = manifest.status

\* What is left of a command: at most ten steps of a process for each call of
\* the agent that it may still make.
StepsLeft == [idle |-> 0, record |-> 0, leave |-> 1, index |-> 2, publish |-> 3,
              close |-> 4, judge |-> 5, script |-> 6, begun |-> 7, locked |-> 8,
              waiting |-> 9, agent |-> 10]

Rank(p) == 11 * (MaxTries - tries[p]) + StepsLeft[pc[p]]

\* The safety part of AttemptSettles and LoopEnds: no step, of this process or
\* of another, takes a command back, so that nothing but a process that stands
\* still keeps it from its end (agent_loop.py:106-172, verifier.py:128-223).
NeverBack ==
  [][\A p \in Procs : pc[p] # "idle" =>
       \/ UNCHANGED <<pc[p], op[p], attempt[p], outcome[p], tries[p]>>
       \/ pc'[p] = "idle"
       \/ Rank(p)' < Rank(p)]_vars

\* Every attempt gets its verdict, or is superseded, or its process was cut
\* short: no wait in verify and run is without a timeout.  A final.py that
\* waits for the lock its own parent holds (captcha.py:430-431) ends too.
AttemptSettles ==
  \A g \in Attempts :
    manifest.generation = g /\ manifest.phase = "running"
      ~> manifest.phase # "running" \/ manifest.generation # g \/ g \in cut

\* `task loop` ends: it calls the agent at most MaxTries times
\* (agent_loop.py:106-172).
LoopEnds == \A p \in Procs : op[p] = "loop" ~> op[p] # "loop"

-----------------------------------------------------------------------------
(* What the documentation says, and the code does not do.                  *)

\* EvidenceOfAttempt without its second condition: an orphan of an earlier
\* attempt may write the result that a later attempt is verified with.
VerifiedOnOwnEvidence ==
  manifest.status = "verified" /\ Excludes =>
    manifest.generation \notin borrowed
=============================================================================
