--------------------------- MODULE RunLockProofs ---------------------------
(***************************************************************************)
(* Proofs about RunLock, and about LockedRun, which puts it under the      *)
(* commands of RunExecution, for any processes, any inodes, on Linux and   *)
(* on other platforms.                                                     *)
(***************************************************************************)
EXTENDS LockedRun, TLAPS

(***************************************************************************)
(* The inductive invariant.  Owned says that a flock and a socket name     *)
(* belong to a process that is in the part of the context manager where it *)
(* has them; Excluded says which of the two keeps the body exclusive: the  *)
(* socket name on Linux, and elsewhere the flock of the one inode that     *)
(* everybody opened while the file was in place.                           *)
(***************************************************************************)
Owned ==
  /\ NoOrphanedLock
  /\ \A p \in Procs :
       stage[p] \in {"flocked", "critical", "unguarded"} =>
         fd[p] \in Inodes /\ flock[fd[p]] = p
  /\ \A p \in Procs : stage[p] = "opened" => fd[p] \in Inodes
  /\ \A p \in Procs : stage[p] = "idle" <=> fd[p] = NoInode

Excluded ==
  /\ Linux => \A p \in Procs : stage[p] = "critical" => address = p
  /\ ~unlinked => \A p \in Procs : fd[p] # NoInode => fd[p] = path

Inv == TypeOK /\ Owned /\ Excluded

\* No lock is held, and no file exists, at the start.
LEMMA InvInit == Init => Inv
  BY RunLockAssumption
  DEF Init, Inv, TypeOK, Owned, Excluded, NoOrphanedLock, Stages

\* Every step of a process, its death and the removal of the file keep Inv.
LEMMA InvNext == Inv /\ [Next]_vars => Inv'
  <1> SUFFICES ASSUME Inv, [Next]_vars
               PROVE  Inv'
    OBVIOUS
  <1> USE RunLockAssumption
      DEF Inv, TypeOK, Owned, Excluded, NoOrphanedLock, Stages
  <1>1. ASSUME NEW p \in Procs, OpenLockFile(p)
        PROVE  Inv'
    <2> PICK i \in Inodes :
          /\ IF path = NoInode THEN FreeInode(i) ELSE i = path
          /\ path' = i
          /\ fd' = [fd EXCEPT ![p] = i]
      BY <1>1 DEF OpenLockFile
    <2>1. TypeOK'
      BY <1>1 DEF OpenLockFile
    <2>2. Owned'
      BY <1>1 DEF OpenLockFile
    <2>3. Excluded'
      BY <1>1 DEF OpenLockFile, FreeInode
    <2> QED BY <2>1, <2>2, <2>3
  <1>2. ASSUME NEW p \in Procs, TakeFlock(p)
        PROVE  Inv'
    BY <1>2 DEF TakeFlock
  <1>3. ASSUME NEW p \in Procs, BindGuard(p)
        PROVE  Inv'
    BY <1>3 DEF BindGuard
  <1>4. ASSUME NEW p \in Procs, BindFails(p)
        PROVE  Inv'
    BY <1>4 DEF BindFails
  <1>5. ASSUME NEW p \in Procs, CloseGuard(p)
        PROVE  Inv'
    BY <1>5 DEF CloseGuard
  <1>6. ASSUME NEW p \in Procs, Unlock(p)
        PROVE  Inv'
    BY <1>6 DEF Unlock
  <1>7. ASSUME NEW p \in Procs, Crash(p)
        PROVE  Inv'
    <2>1. TypeOK'
      BY <1>7 DEF Crash
    <2>2. Owned'
      BY <1>7 DEF Crash
    <2>3. Excluded'
      BY <1>7 DEF Crash
    <2> QED BY <2>1, <2>2, <2>3
  <1>8. CASE Unlink
    BY <1>8 DEF Unlink
  <1>9. CASE UNCHANGED vars
    BY <1>9 DEF vars
  <1> QED
    BY <1>1, <1>2, <1>3, <1>4, <1>5, <1>6, <1>7, <1>8, <1>9 DEF Next, Step

\* Inv holds for ever: whatever is proved of Inv is proved of every state.
LEMMA InvAlways == Spec => []Inv
  BY InvInit, InvNext, PTL DEF Spec

\* The variables keep their types.
THEOREM TypeCorrect == Spec => []TypeOK
  BY InvAlways, PTL DEF Inv

\* No flock and no socket name outlives the process that took it.
THEOREM NothingOrphaned == Spec => []NoOrphanedLock
  BY InvAlways, PTL DEF Inv, Owned

\* Two processes inside would own one socket name, or the flock of one file.
LEMMA InvExcludes == Inv => MutualExclusion
  <1> SUFFICES ASSUME Inv, Linux \/ ~unlinked,
                      NEW p \in Procs, NEW q \in Procs,
                      stage[p] = "critical", stage[q] = "critical"
               PROVE  p = q
    BY DEF MutualExclusion
  <1>1. CASE Linux
    BY <1>1 DEF Inv, Excluded
  <1>2. CASE ~unlinked
    <2>1. fd[p] = fd[q] /\ flock[fd[p]] = p /\ flock[fd[q]] = q
      BY <1>2, RunLockAssumption DEF Inv, Excluded, Owned, TypeOK
    <2> QED BY <2>1
  <1> QED BY <1>1, <1>2

\* The body of the lock is exclusive, on Linux whatever happens to the lock
\* file, elsewhere until the file is replaced.
THEOREM Exclusive == Spec => []MutualExclusion
  BY InvAlways, InvExcludes, PTL

-----------------------------------------------------------------------------
(***************************************************************************)
(* On Linux the lock implements Mutex under the mapping Holder.            *)
(***************************************************************************)

HolderIs ==
  /\ \A p \in Procs : stage[p] = "critical" => Holder = p
  /\ (\A p \in Procs : stage[p] # "critical") => Holder = NoProc

\* With at most one process inside, Holder is that process or nobody.
LEMMA HolderUnique == Inv /\ Linux => HolderIs
  <1> SUFFICES ASSUME Inv, Linux
               PROVE  HolderIs
    OBVIOUS
  <1>1. MutualExclusion
    BY InvExcludes
  <1>2. ASSUME NEW p \in Procs, stage[p] = "critical"
        PROVE  Holder = p
    BY <1>1, <1>2 DEF MutualExclusion, Holder
  <1> QED BY <1>2 DEF Holder, HolderIs

\* The same about the state after a step.
LEMMA HolderUniqueNext == (Inv /\ Linux => HolderIs)'
  BY HolderUnique, PTL

\* Only three steps touch the set of processes inside the body: the bind adds
\* one to the empty set, closing the guard and the death of the holder empty
\* it again.
LEMMA HolderStep ==
  ASSUME Linux, Inv, Inv', [Next]_vars
  PROVE  [Lock!Next]_Holder
  <1> USE DEF HolderIs
  <1>1. HolderIs /\ HolderIs'
    BY HolderUnique, HolderUniqueNext
  <1>2. ASSUME NEW p \in Procs, BindGuard(p)
        PROVE  Lock!Acquire(p)
    <2>1. address = NoProc /\ stage'[p] = "critical"
      BY <1>2 DEF BindGuard, Inv, TypeOK
    <2>2. \A q \in Procs : stage[q] # "critical"
      BY <2>1, RunLockAssumption DEF Inv, Excluded
    <2> QED BY <1>1, <2>1, <2>2 DEF Lock!Acquire
  <1>3. ASSUME NEW p \in Procs, stage[p] = "critical",
               \A q \in Procs : stage'[q] = "critical" <=> stage[q] = "critical" /\ q # p
        PROVE  Lock!Release(p)
    BY <1>1, <1>3, InvExcludes DEF MutualExclusion, Lock!Release
  <1>4. ASSUME \A q \in Procs : stage'[q] = "critical" <=> stage[q] = "critical"
        PROVE  UNCHANGED Holder
    BY <1>1, <1>4
  <1>5. ASSUME NEW p \in Procs, CloseGuard(p) \/ Crash(p)
        PROVE  [Lock!Next]_Holder
    <2>1. CASE stage[p] = "critical"
      BY <1>3, <1>5, <2>1 DEF CloseGuard, Crash, Inv, TypeOK, Lock!Next
    <2>2. CASE stage[p] # "critical"
      BY <1>4, <1>5, <2>2 DEF CloseGuard, Crash, Inv, TypeOK
    <2> QED BY <2>1, <2>2
  <1>6. ASSUME NEW p \in Procs,
               OpenLockFile(p) \/ TakeFlock(p) \/ BindFails(p) \/ Unlock(p)
        PROVE  UNCHANGED Holder
    BY <1>4, <1>6
    DEF OpenLockFile, TakeFlock, BindFails, Unlock, Inv, TypeOK
  <1>7. CASE Unlink \/ UNCHANGED vars
    BY <1>4, <1>7 DEF Unlink, vars
  <1> QED
    BY <1>2, <1>5, <1>6, <1>7 DEF Next, Step, Lock!Next

\* On Linux the lock implements Mutex: it changes hands only through "free".
THEOREM Refinement == Linux => (Spec => ImplementsMutex)
  <1> SUFFICES ASSUME Linux
               PROVE  Spec => ImplementsMutex
    OBVIOUS
  <1>1. Init => Lock!Init
    BY DEF Init, Lock!Init, Holder
  <1>2. Inv /\ Inv' /\ [Next]_vars => [Lock!Next]_Holder
    BY HolderStep
  <1> QED BY <1>1, <1>2, InvAlways, PTL DEF Spec, Lock!Spec, ImplementsMutex
-----------------------------------------------------------------------------
(***************************************************************************)
(* LockedRun implements RunExecution: what RunExecution takes for granted  *)
(* of its lock follows from what RunLock does.                             *)
(***************************************************************************)

\* As far as the lock is concerned, the commands are processes of RunLock.
THEOREM LockImplemented == LockedSpec => Spec
  <1>1. LockedInit => Init
    BY DEF LockedInit
  <1>2. [LockedNext]_allvars => [Next]_vars
    BY DEF LockedNext, Approach, Enter, EnterFails, Leave, Release, Outside, Work, Die,
           Next, Step, allvars
  <1> QED BY <1>1, <1>2, PTL DEF LockedSpec, Spec

\* Therefore the invariant of RunLock holds of them.
LEMMA LockInvAlways == LockedSpec => []Inv
  BY LockImplemented, InvAlways, PTL

\* A process that binds the socket finds nobody inside, if the lock excludes.
LEMMA BindEntersAlone ==
  ASSUME Inv, NEW p \in Procs, BindGuard(p)
  PROVE  /\ Inside = {} \/ ~Run!Excludes
         /\ Inside' = Inside \cup {p}
         /\ UNCHANGED unlinked
  <1>1. stage[p] = "flocked" /\ stage' = [stage EXCEPT ![p] = "critical"]
    BY DEF BindGuard
  <1>2. Inside' = Inside \cup {p}
    BY <1>1 DEF Inside, Inv, TypeOK
  <1>3. ASSUME Run!Excludes, NEW q \in Procs, stage[q] = "critical"
        PROVE  FALSE
    <2>1. CASE Linux
      BY <1>3, <2>1, RunLockAssumption DEF BindGuard, Inv, Excluded
    <2>2. CASE ~Linux
      <3>1. ~unlinked
        BY <1>3, <2>2 DEF Run!Excludes
      <3>2. fd[p] = fd[q] /\ flock[fd[p]] = p /\ flock[fd[q]] = q
        BY <1>1, <1>3, <3>1, RunLockAssumption DEF Inv, Excluded, Owned, TypeOK
      <3> QED BY <1>1, <1>3, <3>2
    <2> QED BY <2>1, <2>2
  <1> QED BY <1>2, <1>3 DEF Inside, BindGuard

\* The other steps of the context manager: who is inside leaves by closing the
\* socket or by dying, and nobody else does.
LEMMA InsideAfter ==
  ASSUME Inv, NEW p \in Procs
  PROVE  /\ OpenLockFile(p) \/ TakeFlock(p) \/ Unlock(p)
              => UNCHANGED <<Inside, unlinked>>
         /\ BindFails(p) \/ CloseGuard(p) \/ Crash(p)
              => Inside' = Inside \ {p} /\ UNCHANGED unlinked
  <1> USE DEF Inv, TypeOK, Inside
  <1>1. OpenLockFile(p) \/ TakeFlock(p) \/ Unlock(p) => UNCHANGED <<Inside, unlinked>>
    BY DEF OpenLockFile, TakeFlock, Unlock
  <1>2. BindFails(p) \/ CloseGuard(p) \/ Crash(p)
          => Inside' = Inside \ {p} /\ UNCHANGED unlinked
    BY DEF BindFails, CloseGuard, Crash
  <1> QED BY <1>1, <1>2

\* What a process does in its command goes with where it is in the context
\* manager: the steps under the lock are those of its body.
InBody == Run!InAttempt \cup {"locked", "leave"}

InStep ==
  /\ pc \in [Procs -> Run!Stages]
  /\ \A p \in Procs :
       /\ pc[p] \in InBody <=> stage[p] = "critical"
       /\ stage[p] \in {"opened", "flocked"} => pc[p] = "waiting"

\* The two advance together, also when the bind fails or the process dies.
LEMMA InStepNext ==
  ASSUME Inv, InStep, [LockedNext]_allvars
  PROVE  InStep'
  <1> USE DEF Inv, TypeOK, Stages, InStep, InBody, Run!InAttempt, Run!Attending,
              Run!Stages, Run!Goto
  <1>1. ASSUME NEW p \in Procs, Approach(p) \/ Release(p)
        PROVE  InStep'
    BY <1>1 DEF Approach, Release, OpenLockFile, TakeFlock, Unlock, runs
  <1>2. ASSUME NEW p \in Procs, Enter(p)
        PROVE  InStep'
    BY <1>2 DEF Enter, BindGuard, Run!Entered
  <1>3. ASSUME NEW p \in Procs, EnterFails(p)
        PROVE  InStep'
    BY <1>3 DEF EnterFails, BindFails, Run!Died, Run!Forget
  <1>4. ASSUME NEW p \in Procs, Leave(p)
        PROVE  InStep'
    BY <1>4 DEF Leave, CloseGuard, Run!Left, Run!NextTry, Run!Forget
  <1>5. ASSUME NEW p \in Procs, Outside(p)
        PROVE  InStep'
    <2>1. stage[p] = "idle" /\ UNCHANGED stage
      BY <1>5 DEF Outside, vars
    <2>2. \E s \in {"idle", "agent", "waiting", "record"} : pc' = [pc EXCEPT ![p] = s]
      BY <1>5 DEF Outside, Run!Start, Run!StartLoop, Run!AgentEnds, Run!NextTry,
                  Run!RecordLoop, Run!Forget
    <2> QED BY <2>1, <2>2
  <1>6. ASSUME NEW p \in Procs, Work(p)
        PROVE  InStep'
    <2>1. UNCHANGED stage
      BY <1>6 DEF Work, vars
    <2>2. pc[p] \in InBody /\ \E s \in InBody : pc' = [pc EXCEPT ![p] = s]
      <3>1. CASE Run!Begin(p) \/ Run!Preflight(p) \/ Run!ScriptEnds(p)
        BY <3>1 DEF Run!Begin, Run!Preflight, Run!ScriptEnds
      <3>2. CASE Run!Judge(p) \/ Run!Close(p) \/ Run!Publish(p) \/ Run!Index(p)
        BY <3>2 DEF Run!Judge, Run!Close, Run!Publish, Run!Index
      <3>3. CASE Run!Refused(p) \/ Run!Raise(p)
        BY <3>3 DEF Run!Refused, Run!Raise
      <3>4. CASE Run!WaitForParent(p)
        BY <3>4 DEF Run!WaitForParent, Run!procs
      <3> QED BY <1>6, <3>1, <3>2, <3>3, <3>4 DEF Work
    <2> QED BY <2>1, <2>2
  <1>7. ASSUME NEW p \in Procs, Die(p)
        PROVE  InStep'
    BY <1>7 DEF Die, Crash, Run!Died, Run!Forget, runs, vars
  <1>8. ASSUME UNCHANGED vars, NEW g \in Run!Attempts, Run!Child(g)
        PROVE  InStep'
    BY <1>8 DEF Run!Child, Run!WriteResult, Run!OrphanEnds, Run!procs, vars
  <1>9. CASE (Unlink /\ UNCHANGED runs) \/ UNCHANGED allvars
    BY <1>9 DEF Unlink, runs, vars, allvars
  <1> HIDE DEF InStep
  <1> QED
    BY <1>1, <1>2, <1>3, <1>4, <1>5, <1>6, <1>7, <1>8, <1>9 DEF LockedNext

\* Both invariants hold throughout.
LEMMA InStepAlways == LockedSpec => [](Inv /\ InStep)
  <1>1. LockedInit => InStep
    BY DEF LockedInit, Init, Run!Init, InStep, InBody, Run!InAttempt, Run!Attending,
           Run!Stages
  <1> QED BY <1>1, InStepNext, LockInvAlways, PTL DEF LockedSpec

\* The variables of RunExecution, of which two are read off those of RunLock.
LEMMA RunVarsKept ==
  UNCHANGED <<runs, Inside>> /\ (UNCHANGED unlinked \/ Linux) => UNCHANGED Run!vars
  BY DEF runs, Run!vars, Run!procs, Run!children, Run!history

\* Every step of LockedRun is a step of RunExecution or changes nothing of it.
LEMMA RunStep ==
  ASSUME Inv, InStep, [LockedNext]_allvars
  PROVE  [Run!Next]_Run!vars
  <1> DEFINE Shown == [Run!Next]_Run!vars
  <1>1. ASSUME UNCHANGED vars
        PROVE  UNCHANGED <<Inside, unlinked>>
    BY <1>1 DEF vars, Inside
  <1>2. ASSUME NEW p \in Procs, Approach(p) \/ Release(p)
        PROVE  Shown
    BY <1>2, InsideAfter, RunVarsKept DEF Approach, Release
  <1>3. ASSUME NEW p \in Procs, Enter(p)
        PROVE  Shown
    <2>1. Run!EnterLock(p)
      BY <1>3, BindEntersAlone DEF Enter, Run!EnterLock
    <2> QED BY <2>1 DEF Run!Next
  <1>4. ASSUME NEW p \in Procs, EnterFails(p)
        PROVE  Shown
    <2>1. Run!Crash(p)
      BY <1>4, InsideAfter DEF EnterFails, Run!Crash
    <2> QED BY <2>1 DEF Run!Next
  <1>5. ASSUME NEW p \in Procs, Leave(p)
        PROVE  Shown
    <2>1. Run!Leave(p)
      BY <1>5, InsideAfter DEF Leave, Run!Leave
    <2> QED BY <2>1 DEF Run!Next, Run!Advance
  <1>6. ASSUME NEW p \in Procs, Outside(p)
        PROVE  Shown
    BY <1>6 DEF Outside, Run!Next, Run!Advance
  <1>7. ASSUME NEW p \in Procs, Work(p)
        PROVE  Shown
    BY <1>7 DEF Work, Run!Next, Run!Advance
  <1>8. ASSUME NEW p \in Procs, Die(p)
        PROVE  Shown
    <2>1. ASSUME Run!Died(p), Inside' = Inside \ {p}, UNCHANGED unlinked
          PROVE  Shown
      <3>1. Run!Crash(p)
        BY <2>1 DEF Run!Crash
      <3> QED BY <3>1 DEF Run!Next
    <2>2. CASE Crash(p) /\ Run!Died(p)
      BY <2>1, <2>2, InsideAfter
    <2>3. CASE Crash(p) /\ pc[p] = "idle" /\ UNCHANGED runs
      <3>1. p \notin Inside
        BY <2>3 DEF Inside, InStep, InBody, Run!InAttempt, Run!Attending
      <3> QED BY <2>3, <3>1, InsideAfter, RunVarsKept
    <2>4. CASE stage[p] = "idle" /\ UNCHANGED vars /\ Run!Died(p)
      <3>1. Inside' = Inside \ {p}
        BY <1>1, <2>4 DEF Inside
      <3> QED BY <1>1, <2>1, <2>4, <3>1
    <2> QED BY <1>8, <2>2, <2>3, <2>4 DEF Die
  <1>9. ASSUME UNCHANGED vars, NEW g \in Run!Attempts, Run!Child(g)
        PROVE  Shown
    BY <1>9 DEF Run!Next
  <1>10. ASSUME Unlink, UNCHANGED runs
         PROVE  Shown
    <2>1. UNCHANGED Inside
      BY <1>10 DEF Unlink, Inside
    <2>2. CASE Linux \/ unlinked
      BY <1>10, <2>1, <2>2, RunVarsKept DEF Unlink
    <2>3. CASE ~Linux /\ ~unlinked
      <3>1. Run!ReplaceLockFile
        BY <1>10, <2>1, <2>3
        DEF Unlink, Run!ReplaceLockFile, runs, Run!procs, Run!children, Run!history
      <3> QED BY <3>1 DEF Run!Next
    <2> QED BY <2>2, <2>3
  <1>11. ASSUME UNCHANGED allvars
         PROVE  Shown
    BY <1>1, <1>11, RunVarsKept DEF allvars
  <1> HIDE DEF Shown
  <1>12. Shown
    BY <1>2, <1>3, <1>4, <1>5, <1>6, <1>7, <1>8, <1>9, <1>10, <1>11 DEF LockedNext
  <1> QED BY <1>12 DEF Shown

\* Every behaviour of the commands under their real lock is one of
\* RunExecution: what it takes for granted of the lock is so.
THEOREM RunImplemented == LockedSpec => ImplementsRun
  <1>1. LockedInit => Run!Init
    BY DEF LockedInit
  <1> QED BY <1>1, RunStep, InStepAlways, PTL DEF LockedSpec, ImplementsRun, Run!Spec

-----------------------------------------------------------------------------
(***************************************************************************)
(* Therefore what RunExecutionProofs shows holds of the commands under     *)
(* their real lock.  First what needs only the lock.                       *)
(***************************************************************************)

\* Two processes never have an attempt open or a verdict to publish at the
\* same time, on Linux whatever becomes of the lock file.
THEOREM OneAttempt == LockedSpec => []OneAttemptAtATime
  <1>1. InStep /\ MutualExclusion => OneAttemptAtATime
    BY DEF InStep, InBody, MutualExclusion, OneAttemptAtATime
  <1> QED BY <1>1, InStepAlways, LockImplemented, Exclusive, PTL

\* An attempt is open only under the flock of the file that its process opened
\* and, on Linux, under the socket: neither is given up early.
THEOREM AttemptLocked == LockedSpec => []AttemptIsLocked
  <1>1. Inv /\ InStep => AttemptIsLocked
    BY DEF Inv, Owned, Excluded, InStep, InBody, AttemptIsLocked
  <1> QED BY <1>1, InStepAlways, PTL

\* RunExecutionAssumption, of the constants of LockedRun.
CommandsAssumption ==
  /\ MaxGeneration \in Nat
  /\ MaxTries \in Nat \ {0}
  /\ Commands \subseteq {"verify", "task-run", "loop"}

Proved == INSTANCE RunExecutionProofs
            WITH holders <- Inside, replaced <- unlinked /\ ~Linux

\* Run and Proved are instances of one module under one substitution: their
\* definitions are the same, and it suffices to expand them.
LEMMA SameRun == Run!Spec => Proved!Spec
  <1>1. Run!Init => Proved!Init
    BY DEF Run!Init, Proved!Init
  <1>2. [Run!Next]_Run!vars => [Proved!Next]_Proved!vars
    BY Zenon
    DEF Run!Start, Proved!Start, Run!StartLoop, Proved!StartLoop, Run!EnterLock,
        Proved!EnterLock, Run!AgentEnds, Proved!AgentEnds, Run!Begin, Proved!Begin,
        Run!Preflight, Proved!Preflight, Run!ScriptEnds, Proved!ScriptEnds, Run!Judge,
        Proved!Judge, Run!Close, Proved!Close, Run!Publish, Proved!Publish, Run!Index,
        Proved!Index, Run!Refused, Proved!Refused, Run!Leave, Proved!Leave,
        Run!RecordLoop, Proved!RecordLoop, Run!Raise, Proved!Raise, Run!Crash,
        Proved!Crash, Run!WaitForParent, Proved!WaitForParent, Run!Child, Proved!Child,
        Run!ReplaceLockFile, Proved!ReplaceLockFile, Run!NextTry, Proved!NextTry,
        Run!Entered, Proved!Entered, Run!Left, Proved!Left, Run!Died, Proved!Died,
        Run!Forget, Proved!Forget, Run!Begun, Proved!Begun, Run!Source, Proved!Source,
        Run!Verifying, Proved!Verifying, Run!Owns, Proved!Owns, Run!Excludes,
        Proved!Excludes, Run!Goto, Proved!Goto, Run!CutShort, Proved!CutShort,
        Run!MayOutlive, Proved!MayOutlive, Run!ResetFreshness, Proved!ResetFreshness,
        Run!MayClose, Proved!MayClose, Run!VerdictStatus, Proved!VerdictStatus,
        Run!WriteResult, Proved!WriteResult, Run!OrphanEnds, Proved!OrphanEnds,
        Run!Attempts, Proved!Attempts, Run!Attending, Proved!Attending, Run!InAttempt,
        Proved!InAttempt, Run!procs, Proved!procs, Run!history, Proved!history,
        Run!children, Proved!children, Run!vars, Proved!vars, Run!Advance,
        Proved!Advance, Run!Next, Proved!Next
  <1> QED BY <1>1, <1>2, PTL DEF Run!Spec, Proved!Spec

\* Under their real lock the commands give coherent verdicts, on evidence of
\* their own, attended while they are open, and report them as the manifest
\* does: with nothing assumed of the lock.
THEOREM LockedVerdicts ==
  ASSUME CommandsAssumption
  PROVE  LockedSpec => [](/\ Run!VerdictCoherent
                          /\ Run!RunningIsAttended
                          /\ Run!VerifiedPassed
                          /\ Run!EvidenceOfAttempt
                          /\ Run!ReportAgrees)
  <1> USE RunLockAssumption DEF CommandsAssumption
  <1>1. LockedSpec => Proved!Spec
    BY RunImplemented, SameRun, PTL DEF ImplementsRun
  <1>2. /\ Proved!VerdictCoherent => Run!VerdictCoherent
        /\ Proved!RunningIsAttended => Run!RunningIsAttended
        /\ Proved!VerifiedPassed => Run!VerifiedPassed
        /\ Proved!EvidenceOfAttempt => Run!EvidenceOfAttempt
        /\ Proved!ReportAgrees => Run!ReportAgrees
    BY Zenon
    DEF Run!VerdictCoherent, Proved!VerdictCoherent, Run!RunningIsAttended,
        Proved!RunningIsAttended, Run!Attending, Proved!Attending,
        Run!VerifiedPassed, Proved!VerifiedPassed, Run!EvidenceOfAttempt,
        Proved!EvidenceOfAttempt, Run!Excludes, Proved!Excludes,
        Run!ReportAgrees, Proved!ReportAgrees
  <1>3. Proved!Spec => /\ []Proved!VerdictCoherent /\ []Proved!RunningIsAttended
                       /\ []Proved!VerifiedPassed /\ []Proved!EvidenceOfAttempt
                       /\ []Proved!ReportAgrees
    BY Proved!Coherent, Proved!Attended, Proved!VerifiedOnlyIfPassed,
       Proved!EvidenceIsOwn, Proved!ReportIsVerdict
  <1> QED BY <1>1, <1>2, <1>3, PTL

\* And as seen in the manifest, they give each attempt one verdict, by its
\* owner, as AttemptLedger promises.
THEOREM LockedLedger ==
  ASSUME CommandsAssumption
  PROVE  LockedSpec => Run!ClosedByOwner /\ Run!ImplementsLedger
  <1> USE RunLockAssumption DEF CommandsAssumption
  <1>1. LockedSpec => Proved!Spec
    BY RunImplemented, SameRun, PTL DEF ImplementsRun
  <1>2. Proved!Spec => Proved!ClosedByOwner
    BY Proved!OwnerCloses
  <1>3. Proved!Spec => Proved!ImplementsLedger
    BY Proved!LedgerImplemented
  <1>4. Proved!ClosedByOwner => Run!ClosedByOwner
    BY DEF Run!ClosedByOwner, Proved!ClosedByOwner, Run!Attempts, Proved!Attempts,
       Run!vars, Proved!vars, Run!procs, Proved!procs, Run!children, Proved!children,
       Run!history, Proved!history
  <1>5. Proved!ImplementsLedger => Run!ImplementsLedger
    BY DEF Run!ImplementsLedger, Proved!ImplementsLedger,
       Run!Ledger!Spec, Proved!Ledger!Spec, Run!Ledger!Init, Proved!Ledger!Init,
       Run!Ledger!Next, Proved!Ledger!Next, Run!Ledger!Open, Proved!Ledger!Open,
       Run!Ledger!Close, Proved!Ledger!Close,
       Run!Ledger!Verdicts, Proved!Ledger!Verdicts
  <1> QED BY <1>1, <1>2, <1>3, <1>4, <1>5
=============================================================================
