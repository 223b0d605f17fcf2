----------------------------- MODULE LockedRun -----------------------------
(***************************************************************************)
(* The commands of RunExecution with the lock they really take: the flock  *)
(* on .execution.lock and the socket beside it (RunLock).  RunExecution    *)
(* has a set of holders and is told when it excludes; here nothing is said *)
(* about exclusion.  A command enters when its bind succeeds, and is in    *)
(* the set while it is in the body of the context manager.                 *)
(*                                                                         *)
(* stage is where a process is in the context manager, pc where it is in   *)
(* its command.                                                            *)
(***************************************************************************)
EXTENDS RunLock, Naturals

CONSTANTS MaxGeneration, MaxTries, Commands   \* as in RunExecution

VARIABLES manifest, result, report, pc, op, attempt, outcome, tries, live, stuck,
          passed, borrowed, cut, outlived

runs == <<manifest, result, report, pc, op, attempt, outcome, tries, live, stuck,
          passed, borrowed, cut, outlived>>
allvars == <<vars, runs>>

\* The processes in the body of the lock.
Inside == {p \in Procs : stage[p] = "critical"}

\* On Linux it is of no consequence that the file is replaced.
Run == INSTANCE RunExecution
         WITH holders <- Inside, replaced <- unlinked /\ ~Linux

LockedInit == Init /\ Run!Init

-----------------------------------------------------------------------------
\* open and flock, before the body.
Approach(p) ==
  /\ pc[p] = "waiting"
  /\ OpenLockFile(p) \/ TakeFlock(p)
  /\ UNCHANGED runs

\* `with execution_run_lock(run_dir)` runs its body.
Enter(p) == BindGuard(p) /\ Run!Entered(p)

\* Or raises, which ends the command.
EnterFails(p) == BindFails(p) /\ Run!Died(p)

\* The body is over: the socket is closed first, and the flock given up next.
Leave(p) == CloseGuard(p) /\ Run!Left(p)

Release(p) == Unlock(p) /\ UNCHANGED runs

\* What a command does outside of the context manager.
Outside(p) ==
  /\ stage[p] = "idle"
  /\ UNCHANGED vars
  /\ \/ \E c \in Commands : Run!Start(p, c)
     \/ Run!StartLoop(p) \/ Run!AgentEnds(p) \/ Run!RecordLoop(p)

\* What it does in the body.
Work(p) ==
  /\ UNCHANGED vars
  /\ \/ Run!Begin(p) \/ Run!Preflight(p) \/ Run!WaitForParent(p) \/ Run!ScriptEnds(p)
     \/ Run!Judge(p) \/ Run!Close(p) \/ Run!Publish(p) \/ Run!Index(p)
     \/ Run!Refused(p) \/ Run!Raise(p)

\* The process dies, in its command or while it gives the lock back.
Die(p) ==
  \/ Crash(p) /\ (Run!Died(p) \/ (pc[p] = "idle" /\ UNCHANGED runs))
  \/ stage[p] = "idle" /\ UNCHANGED vars /\ Run!Died(p)

LockedNext ==
  \/ \E p \in Procs :
       \/ Approach(p) \/ Enter(p) \/ EnterFails(p) \/ Leave(p) \/ Release(p)
       \/ Outside(p) \/ Work(p) \/ Die(p)
  \/ UNCHANGED vars /\ \E g \in Run!Attempts : Run!Child(g)
  \/ Unlink /\ UNCHANGED runs

LockedSpec == LockedInit /\ [][LockedNext]_allvars

-----------------------------------------------------------------------------
\* What RunExecution assumes of the lock is so: with its holders read off
\* the lock file and the socket, every behaviour is one of its own.
ImplementsRun == Run!Spec

\* At most one process has an attempt open or a verdict to publish, on Linux
\* whatever becomes of the lock file, elsewhere until it is replaced
\* (verifier.py:128-129, playwright_runner.py:94-95).
OneAttemptAtATime ==
  Linux \/ ~unlinked =>
    \A p, q \in Procs :
      pc[p] \in Run!InAttempt /\ pc[q] \in Run!InAttempt => p = q

\* The lock is held, by flock and by socket, for as long as an attempt of the
\* process is open.
AttemptIsLocked ==
  \A p \in Procs : pc[p] \in Run!InAttempt =>
    /\ \E i \in Inodes : fd[p] = i /\ flock[i] = p
    /\ Linux => address = p
=============================================================================
