------------------------- MODULE RunExecutionProofs -------------------------
(***************************************************************************)
(* Proofs about RunExecution, for any processes, commands, number of       *)
(* generations and tries, with and without a lock that excludes.           *)
(***************************************************************************)
EXTENDS RunExecution, TLAPS

(***************************************************************************)
(* The inductive invariant.  StageFacts says what a process has decided    *)
(* when it is about to write it down; OwnerFacts says what the attempt     *)
(* number of a process stands for: while the manifest still shows it, the  *)
(* manifest's source is the process's own, and a positive verdict has a    *)
(* final.py behind it.                                                     *)
(***************************************************************************)
StageFacts ==
  \A p \in Procs :
    /\ pc[p] \in {"judge", "publish", "index"} => Verifying(p)
    /\ pc[p] = "close" =>
         outcome[p] \in {"failed", IF Verifying(p) THEN "verified" ELSE "ran"}
    /\ pc[p] \in {"publish", "index"} => outcome[p] \in {"failed", "verified"}
    /\ pc[p] \in InAttempt => attempt[p] # 0
    /\ pc[p] = "idle" => attempt[p] = 0

OwnerFacts ==
  \A p \in Procs :
    /\ attempt[p] <= manifest.generation
    /\ attempt[p] # 0 /\ Owns(p) => manifest.source = Source(p)
    /\ Owns(p) /\ (pc[p] = "judge" \/ (pc[p] = "close" /\ outcome[p] = "verified"))
         => attempt[p] \in passed

Inv == /\ TypeOK
       /\ StageFacts
       /\ OwnerFacts
       /\ VerdictCoherent
       /\ RunningIsAttended
       /\ VerifiedPassed

-----------------------------------------------------------------------------

\* begin_execution_attempt: the next generation, running, and nothing else of
\* what the properties tell apart.
LEMMA BegunFields ==
  ASSUME NEW m \in Manifests, m.generation < MaxGeneration,
         NEW source \in {"verify", "task-run"}
  PROVE  /\ Begun(m, source) \in Manifests
         /\ Begun(m, source).generation = m.generation + 1
         /\ Begun(m, source).phase = "running"
         /\ Begun(m, source).source = source
         /\ Begun(m, source).status = "running"
         /\ Begun(m, source).last = m.last
  <1>1. m.generation \in 0..MaxGeneration /\ m.generation + 1 \in 0..MaxGeneration
    BY RunExecutionAssumption DEF Manifests
  <1>2. Begun(m, source) = [m EXCEPT !.generation = m.generation + 1,
                                    !.phase = "running", !.source = source,
                                    !.status = "running"]
    BY DEF Begun
  <1> QED BY <1>1, <1>2 DEF Manifests

\* A new run is coherent and has no attempt.
LEMMA InvInit == Init => Inv
  <1> SUFFICES ASSUME Init
               PROVE  Inv
    OBVIOUS
  <1> USE RunExecutionAssumption DEF Init
  <1>1. manifest \in Manifests
    BY DEF Manifests
  <1>2. /\ result \in [by : 0..MaxGeneration, freshFor : SUBSET Procs]
        /\ report \in [status : {"none", "failed", "verified"}, by : 0..MaxGeneration]
    OBVIOUS
  <1>3. TypeOK
    <2>1. /\ pc \in [Procs -> Stages]
          /\ op \in [Procs -> Commands \cup {"none"}]
          /\ attempt \in [Procs -> 0..MaxGeneration]
          /\ outcome \in [Procs -> {"none", "ran", "failed", "verified", "error"}]
          /\ tries \in [Procs -> 0..MaxTries]
      BY DEF Stages
    <2> QED BY <1>1, <1>2, <2>1 DEF TypeOK
  <1>4. StageFacts /\ OwnerFacts
    BY DEF StageFacts, OwnerFacts, Attending, InAttempt, Owns
  <1>5. VerdictCoherent /\ RunningIsAttended /\ VerifiedPassed
    BY DEF VerdictCoherent, RunningIsAttended, VerifiedPassed
  <1> QED BY <1>3, <1>4, <1>5 DEF Inv

\* Every step of a process or of a final.py keeps Inv.
LEMMA InvNext == Inv /\ [Next]_vars => Inv'
  <1> SUFFICES ASSUME Inv, [Next]_vars
               PROVE  Inv'
    OBVIOUS
  <1> USE RunExecutionAssumption
      DEF Inv, TypeOK, Manifests, Stages, Attempts, history, procs, children, Goto
  <1>1. ASSUME NEW p \in Procs, NEW c \in Commands, Start(p, c)
        PROVE  Inv'
    <2>1. TypeOK'
      BY <1>1 DEF Start
    <2>2. StageFacts'
      BY <1>1 DEF Start, StageFacts, Attending, InAttempt, Verifying
    <2>3. OwnerFacts'
      BY <1>1 DEF Start, OwnerFacts, StageFacts, Owns, Source, Verifying, Attending, InAttempt
    <2>4. VerdictCoherent'
      BY <1>1 DEF Start, VerdictCoherent
    <2>5. RunningIsAttended'
      BY <1>1 DEF Start, RunningIsAttended, StageFacts, Attending, InAttempt
    <2>6. VerifiedPassed'
      BY <1>1 DEF Start, VerifiedPassed
    <2> QED BY <2>1, <2>2, <2>3, <2>4, <2>5, <2>6
  <1>2. ASSUME NEW p \in Procs, StartLoop(p)
        PROVE  Inv'
    <2>1. TypeOK'
      BY <1>2 DEF StartLoop
    <2>2. StageFacts'
      BY <1>2 DEF StartLoop, StageFacts, Attending, InAttempt, Verifying
    <2>3. OwnerFacts'
      BY <1>2 DEF StartLoop, OwnerFacts, StageFacts, Owns, Source, Verifying, Attending, InAttempt
    <2>4. VerdictCoherent'
      BY <1>2 DEF StartLoop, VerdictCoherent
    <2>5. RunningIsAttended'
      BY <1>2 DEF StartLoop, RunningIsAttended, StageFacts, Attending, InAttempt
    <2>6. VerifiedPassed'
      BY <1>2 DEF StartLoop, VerifiedPassed
    <2> QED BY <2>1, <2>2, <2>3, <2>4, <2>5, <2>6
  <1>3. ASSUME NEW p \in Procs, EnterLock(p)
        PROVE  Inv'
    <2>1. TypeOK'
      BY <1>3 DEF EnterLock, Entered
    <2>2. StageFacts'
      BY <1>3 DEF EnterLock, Entered, StageFacts, Attending, InAttempt, Verifying
    <2>3. OwnerFacts'
      BY <1>3 DEF EnterLock, Entered, OwnerFacts, StageFacts, Owns, Source, Verifying, Attending, InAttempt
    <2>4. VerdictCoherent'
      BY <1>3 DEF EnterLock, Entered, VerdictCoherent
    <2>5. RunningIsAttended'
      BY <1>3 DEF EnterLock, Entered, RunningIsAttended, StageFacts, Attending, InAttempt
    <2>6. VerifiedPassed'
      BY <1>3 DEF EnterLock, Entered, VerifiedPassed
    <2> QED BY <2>1, <2>2, <2>3, <2>4, <2>5, <2>6
  <1>4. ASSUME NEW p \in Procs, AgentEnds(p)
        PROVE  Inv'
    <2>1. TypeOK'
      BY <1>4 DEF AgentEnds, NextTry
    <2>2. StageFacts'
      BY <1>4 DEF AgentEnds, NextTry, StageFacts, Attending, InAttempt, Verifying
    <2>3. OwnerFacts'
      BY <1>4 DEF AgentEnds, NextTry, OwnerFacts, StageFacts, Owns, Source, Verifying, Attending, InAttempt
    <2>4. VerdictCoherent'
      BY <1>4 DEF AgentEnds, NextTry, VerdictCoherent
    <2>5. RunningIsAttended'
      BY <1>4 DEF AgentEnds, NextTry, RunningIsAttended, StageFacts, Attending, InAttempt
    <2>6. VerifiedPassed'
      BY <1>4 DEF AgentEnds, NextTry, VerifiedPassed
    <2> QED BY <2>1, <2>2, <2>3, <2>4, <2>5, <2>6
  <1>5. ASSUME NEW p \in Procs, Begin(p)
        PROVE  Inv'
    <2>1. CASE manifest.generation = MaxGeneration
      <3>1. UNCHANGED <<manifest, result, report, attempt, op, live, stuck, passed, cut,
                        borrowed, outlived, holders, replaced, tries>>
        BY <1>5, <2>1 DEF Begin
      <3>2. /\ pc[p] = "locked"
            /\ pc' = [pc EXCEPT ![p] = "leave"]
            /\ outcome' = [outcome EXCEPT ![p] = "error"]
        BY <1>5, <2>1 DEF Begin
      <3>3. TypeOK'
        BY <3>1, <3>2
      <3>4. StageFacts' /\ OwnerFacts'
        BY <3>1, <3>2 DEF StageFacts, OwnerFacts, Owns, Source, Verifying, Attending, InAttempt
      <3>5. VerdictCoherent' /\ VerifiedPassed'
        BY <3>1, <3>2 DEF VerdictCoherent, VerifiedPassed
      <3>6. RunningIsAttended'
        BY <3>1, <3>2 DEF RunningIsAttended, Attending, InAttempt
      <3> QED BY <3>3, <3>4, <3>5, <3>6
    <2>2. CASE manifest.generation < MaxGeneration
      <3>1. /\ pc[p] = "locked"
            /\ manifest' = Begun(manifest, Source(p))
            /\ attempt' = [attempt EXCEPT ![p] = manifest.generation + 1]
            /\ pc' = [pc EXCEPT ![p] = "begun"]
            /\ passed' = {} /\ borrowed' = {} /\ cut' = {}
            /\ UNCHANGED <<result, report, holders, replaced, op, outcome, tries,
                           live, stuck, outlived>>
        BY <1>5, <2>2 DEF Begin
      <3>2. /\ manifest' \in Manifests
            /\ manifest'.generation = manifest.generation + 1
            /\ manifest'.phase = "running"
            /\ manifest'.source = Source(p)
            /\ manifest'.status = "running"
        BY <2>2, <3>1, BegunFields DEF Source
      <3>3. manifest.generation \in 0..MaxGeneration
        OBVIOUS
      <3>4. TypeOK'
        BY <3>1, <3>2, <3>3, <2>2
      <3>5. StageFacts'
        BY <3>1, <3>3 DEF StageFacts, Verifying, Attending, InAttempt
      <3>6. OwnerFacts'
        BY <3>1, <3>2, <3>3 DEF OwnerFacts, Owns, Source, Verifying
      <3>7. VerdictCoherent' /\ VerifiedPassed'
        BY <3>2 DEF VerdictCoherent, VerifiedPassed
      <3>8. RunningIsAttended'
        BY <3>1, <3>2 DEF RunningIsAttended, Attending, InAttempt
      <3> QED BY <3>4, <3>5, <3>6, <3>7, <3>8
    <2> QED BY <1>5, <2>1, <2>2 DEF Begin
  <1>6. ASSUME NEW p \in Procs, Preflight(p)
        PROVE  Inv'
    <2>1. TypeOK'
      <3>1. attempt[p] \in Attempts
        BY <1>6 DEF Preflight, StageFacts, Attending, InAttempt
      <3>2. live' \in {live, live \cup {attempt[p]}}
        BY <1>6, Zenon DEF Preflight
      <3>4. live' \subseteq Attempts
        BY <3>1, <3>2
      <3>3. result' \in [by : 0..MaxGeneration, freshFor : SUBSET Procs]
        BY <1>6 DEF Preflight, ResetFreshness
      <3> QED BY <1>6, <3>4, <3>3 DEF Preflight
    <2>2. StageFacts'
      BY <1>6 DEF Preflight, ResetFreshness, StageFacts, Attending, InAttempt, Verifying
    <2>3. OwnerFacts'
      BY <1>6 DEF Preflight, ResetFreshness, OwnerFacts, StageFacts, Owns, Source, Verifying, Attending, InAttempt
    <2>4. VerdictCoherent'
      BY <1>6 DEF Preflight, ResetFreshness, VerdictCoherent
    <2>5. RunningIsAttended'
      BY <1>6 DEF Preflight, ResetFreshness, RunningIsAttended, StageFacts, Attending, InAttempt
    <2>6. VerifiedPassed'
      BY <1>6 DEF Preflight, ResetFreshness, VerifiedPassed
    <2> QED BY <2>1, <2>2, <2>3, <2>4, <2>5, <2>6
  <1>7. ASSUME NEW p \in Procs, ScriptEnds(p)
        PROVE  Inv'
    <2>1. TypeOK'
      <3>1. attempt[p] \in Attempts
        BY <1>7 DEF ScriptEnds, StageFacts, Attending, InAttempt
      <3>2. passed' \in {passed, passed \cup {attempt[p]}}
        BY <1>7, Zenon DEF ScriptEnds
      <3>4. passed' \subseteq Attempts
        BY <3>1, <3>2
      <3>3. live' \subseteq Attempts /\ stuck' \subseteq Attempts /\ outlived' \in BOOLEAN
        BY <1>7 DEF ScriptEnds, MayOutlive
      <3> QED BY <1>7, <3>4, <3>3 DEF ScriptEnds
    <2>2. StageFacts'
      BY <1>7 DEF ScriptEnds, MayOutlive, StageFacts, Attending, InAttempt, Verifying
    <2>3. OwnerFacts'
      BY <1>7 DEF ScriptEnds, MayOutlive, OwnerFacts, StageFacts, Owns, Source, Verifying, Attending, InAttempt
    <2>4. VerdictCoherent'
      BY <1>7 DEF ScriptEnds, MayOutlive, VerdictCoherent
    <2>5. RunningIsAttended'
      BY <1>7 DEF ScriptEnds, MayOutlive, RunningIsAttended, StageFacts, Attending, InAttempt
    <2>6. VerifiedPassed'
      BY <1>7 DEF ScriptEnds, MayOutlive, VerifiedPassed
    <2> QED BY <2>1, <2>2, <2>3, <2>4, <2>5, <2>6
  <1>8. ASSUME NEW p \in Procs, Judge(p)
        PROVE  Inv'
    <2>1. TypeOK'
      <3>1. attempt[p] \in Attempts
        BY <1>8 DEF Judge, StageFacts, Attending, InAttempt
      <3>2. borrowed' \in {borrowed, borrowed \cup {attempt[p]}}
        BY <1>8, Zenon DEF Judge
      <3>3. borrowed' \subseteq Attempts
        BY <3>1, <3>2
      <3> QED BY <1>8, <3>3 DEF Judge
    <2>2. StageFacts'
      BY <1>8 DEF Judge, StageFacts, Attending, InAttempt, Verifying
    <2>3. OwnerFacts'
      BY <1>8 DEF Judge, OwnerFacts, StageFacts, Owns, Source, Verifying, Attending, InAttempt
    <2>4. VerdictCoherent'
      BY <1>8 DEF Judge, VerdictCoherent
    <2>5. RunningIsAttended'
      BY <1>8 DEF Judge, RunningIsAttended, StageFacts, Attending, InAttempt
    <2>6. VerifiedPassed'
      BY <1>8 DEF Judge, VerifiedPassed
    <2> QED BY <2>1, <2>2, <2>3, <2>4, <2>5, <2>6
  <1>9. ASSUME NEW p \in Procs, Close(p)
        PROVE  Inv'
    <2> DEFINE phase == IF outcome[p] = "failed" THEN "failed" ELSE "completed"
               last == IF Verifying(p) THEN outcome[p] ELSE manifest.last
               next == IF Verifying(p) THEN "publish" ELSE "leave"
    <2>1. /\ pc[p] = "close"
          /\ attempt[p] = manifest.generation
          /\ manifest.phase = "running"
          /\ manifest' = [manifest EXCEPT !.phase = phase, !.status = outcome[p],
                                          !.last = last]
          /\ pc' = [pc EXCEPT ![p] = next]
          /\ UNCHANGED <<result, report, holders, replaced, op, attempt, outcome,
                         tries, live, stuck, passed, borrowed, cut, outlived>>
      BY <1>9 DEF Close, MayClose, Owns, VerdictStatus
    <2>2. outcome[p] \in {"failed", IF Verifying(p) THEN "verified" ELSE "ran"}
      BY <2>1 DEF StageFacts
    <2>3. manifest.last \in {"not-run", "failed", "verified"}
      OBVIOUS
    <2>4. /\ phase \in {"completed", "failed"}
          /\ outcome[p] \in {"ran", "failed", "verified"}
          /\ last \in {"not-run", "failed", "verified"}
      BY <2>2, <2>3
    <2>5. /\ manifest' \in Manifests
          /\ manifest'.generation = manifest.generation
          /\ manifest'.phase = phase
          /\ manifest'.source = manifest.source
          /\ manifest'.status = outcome[p]
          /\ manifest'.last = last
      <3> DEFINE status == outcome[p]
                 n == [manifest EXCEPT !.phase = phase, !.status = status, !.last = last]
      <3>1. manifest \in Manifests
        OBVIOUS
      <3>2. manifest' = n
        BY <2>1
      <3>3. status \in {"ran", "failed", "verified"}
        BY <2>4
      <3> HIDE DEF phase, last, status, Manifests
      <3>4. /\ n \in Manifests
            /\ n.generation = manifest.generation
            /\ n.phase = phase
            /\ n.source = manifest.source
            /\ n.status = status
            /\ n.last = last
        BY <2>4, <3>1, <3>3 DEF Manifests
      <3> HIDE DEF n
      <3> QED BY <3>2, <3>4 DEF status
    <2>6. attempt[p] # 0 /\ manifest.source = Source(p)
      BY <2>1 DEF StageFacts, OwnerFacts, Attending, InAttempt, Owns
    <2>7. TypeOK'
      BY <2>1, <2>5
    <2>8. StageFacts'
      BY <2>1, <2>2, <2>6 DEF StageFacts, Verifying, Attending, InAttempt
    <2>9. OwnerFacts'
      BY <2>1, <2>5 DEF OwnerFacts, Owns, Source, Verifying
    <2>10. VerdictCoherent'
      BY <2>2, <2>5, <2>6 DEF VerdictCoherent, Source
    <2>11. RunningIsAttended'
      BY <2>5 DEF RunningIsAttended
    <2>12. VerifiedPassed'
      BY <2>1, <2>5, <2>2 DEF VerifiedPassed, OwnerFacts, Owns
    <2> QED BY <2>7, <2>8, <2>9, <2>10, <2>11, <2>12
  <1>10. ASSUME NEW p \in Procs, Publish(p)
        PROVE  Inv'
    <2>1. TypeOK'
      <3>1. outcome[p] \in {"failed", "verified"} /\ attempt[p] \in 0..MaxGeneration
        BY <1>10 DEF Publish, StageFacts
      <3>2. report' \in [status : {"none", "failed", "verified"}, by : 0..MaxGeneration]
        BY <1>10, <3>1 DEF Publish
      <3> QED BY <1>10, <3>2 DEF Publish
    <2>2. StageFacts'
      BY <1>10 DEF Publish, StageFacts, Attending, InAttempt, Verifying
    <2>3. OwnerFacts'
      BY <1>10 DEF Publish, OwnerFacts, StageFacts, Owns, Source, Verifying, Attending, InAttempt
    <2>4. VerdictCoherent'
      BY <1>10 DEF Publish, VerdictCoherent
    <2>5. RunningIsAttended'
      BY <1>10 DEF Publish, RunningIsAttended, StageFacts, Attending, InAttempt
    <2>6. VerifiedPassed'
      BY <1>10 DEF Publish, VerifiedPassed
    <2> QED BY <2>1, <2>2, <2>3, <2>4, <2>5, <2>6
  <1>11. ASSUME NEW p \in Procs, Index(p)
        PROVE  Inv'
    <2>1. TypeOK'
      BY <1>11 DEF Index
    <2>2. StageFacts'
      BY <1>11 DEF Index, StageFacts, Attending, InAttempt, Verifying
    <2>3. OwnerFacts'
      BY <1>11 DEF Index, OwnerFacts, StageFacts, Owns, Source, Verifying, Attending, InAttempt
    <2>4. VerdictCoherent'
      BY <1>11 DEF Index, VerdictCoherent
    <2>5. RunningIsAttended'
      BY <1>11 DEF Index, RunningIsAttended, StageFacts, Attending, InAttempt
    <2>6. VerifiedPassed'
      BY <1>11 DEF Index, VerifiedPassed
    <2> QED BY <2>1, <2>2, <2>3, <2>4, <2>5, <2>6
  <1>12. ASSUME NEW p \in Procs, Refused(p)
        PROVE  Inv'
    <2>1. TypeOK'
      <3>1. outcome' = [outcome EXCEPT ![p] = "error"] /\ pc' = [pc EXCEPT ![p] = "leave"]
        BY <1>12 DEF Refused
      <3>2. cut' \subseteq 1..MaxGeneration
        BY <1>12 DEF Refused, CutShort
      <3>3. UNCHANGED <<manifest, result, report, holders, replaced, op, attempt, tries,
                        live, stuck, passed, borrowed, outlived>>
        BY <1>12 DEF Refused
      <3> QED BY <3>1, <3>2, <3>3
    <2>2. StageFacts'
      BY <1>12 DEF Refused, CutShort, MayClose, Owns, StageFacts, Attending, InAttempt, Verifying
    <2>3. OwnerFacts'
      BY <1>12 DEF Refused, CutShort, MayClose, Owns, OwnerFacts, StageFacts, Source, Verifying, Attending, InAttempt
    <2>4. VerdictCoherent'
      BY <1>12 DEF Refused, CutShort, MayClose, Owns, VerdictCoherent
    <2>5. RunningIsAttended'
      BY <1>12 DEF Refused, CutShort, MayClose, Owns, RunningIsAttended, StageFacts, Attending, InAttempt
    <2>6. VerifiedPassed'
      BY <1>12 DEF Refused, CutShort, MayClose, Owns, VerifiedPassed
    <2> QED BY <2>1, <2>2, <2>3, <2>4, <2>5, <2>6
  <1>13. ASSUME NEW p \in Procs, Leave(p)
        PROVE  Inv'
    <2>1. TypeOK'
      BY <1>13 DEF Leave, Left, NextTry, Forget
    <2>2. StageFacts'
      BY <1>13 DEF Leave, Left, NextTry, Forget, StageFacts, Attending, InAttempt, Verifying
    <2>3. OwnerFacts'
      BY <1>13 DEF Leave, Left, NextTry, Forget, OwnerFacts, StageFacts, Owns, Source, Verifying, Attending, InAttempt
    <2>4. VerdictCoherent'
      BY <1>13 DEF Leave, Left, NextTry, Forget, VerdictCoherent
    <2>5. RunningIsAttended'
      BY <1>13 DEF Leave, Left, NextTry, Forget, RunningIsAttended, StageFacts, Attending, InAttempt
    <2>6. VerifiedPassed'
      BY <1>13 DEF Leave, Left, NextTry, Forget, VerifiedPassed
    <2> QED BY <2>1, <2>2, <2>3, <2>4, <2>5, <2>6
  <1>14. ASSUME NEW p \in Procs, RecordLoop(p)
        PROVE  Inv'
    <2>1. TypeOK'
      BY <1>14 DEF RecordLoop, Forget
    <2>2. StageFacts'
      BY <1>14 DEF RecordLoop, Forget, StageFacts, Attending, InAttempt, Verifying
    <2>3. OwnerFacts'
      BY <1>14 DEF RecordLoop, Forget, OwnerFacts, StageFacts, Owns, Source, Verifying, Attending, InAttempt
    <2>4. VerdictCoherent'
      BY <1>14 DEF RecordLoop, Forget, VerdictCoherent
    <2>5. RunningIsAttended'
      BY <1>14 DEF RecordLoop, Forget, RunningIsAttended, StageFacts, Attending, InAttempt
    <2>6. VerifiedPassed'
      BY <1>14 DEF RecordLoop, Forget, VerifiedPassed
    <2> QED BY <2>1, <2>2, <2>3, <2>4, <2>5, <2>6
  <1>15. ASSUME NEW p \in Procs, Raise(p)
        PROVE  Inv'
    <2>1. TypeOK'
      <3>1. outlived' \in BOOLEAN /\ live' \subseteq Attempts /\ stuck' \subseteq Attempts
        BY <1>15 DEF Raise, MayOutlive
      <3>2. cut' \subseteq Attempts
        BY <1>15 DEF Raise, CutShort
      <3> QED BY <1>15, <3>1, <3>2 DEF Raise
    <2>2. StageFacts'
      BY <1>15 DEF Raise, CutShort, MayOutlive, StageFacts, Attending, InAttempt, Verifying
    <2>3. OwnerFacts'
      BY <1>15 DEF Raise, CutShort, MayOutlive, OwnerFacts, StageFacts, Owns, Source, Verifying, Attending, InAttempt
    <2>4. VerdictCoherent'
      BY <1>15 DEF Raise, CutShort, MayOutlive, VerdictCoherent
    <2>5. RunningIsAttended'
      BY <1>15 DEF Raise, CutShort, MayOutlive, RunningIsAttended, StageFacts, Attending, InAttempt
    <2>6. VerifiedPassed'
      BY <1>15 DEF Raise, CutShort, MayOutlive, VerifiedPassed
    <2> QED BY <2>1, <2>2, <2>3, <2>4, <2>5, <2>6
  <1>16. ASSUME NEW p \in Procs, Crash(p)
        PROVE  Inv'
    <2>1. TypeOK'
      <3>1. outlived' \in BOOLEAN
        BY <1>16, Zenon DEF Crash, Died
      <3>2. cut' \subseteq Attempts
        BY <1>16 DEF Crash, Died, CutShort
      <3>3. stuck' \subseteq Attempts
        BY <1>16 DEF Crash, Died
      <3>4. /\ holders' \subseteq Procs
            /\ UNCHANGED <<manifest, result, report, replaced, live, passed, borrowed>>
        BY <1>16 DEF Crash, Died
      <3>5. Forget(p)
        BY <1>16 DEF Crash, Died
      <3> QED BY <3>1, <3>2, <3>3, <3>4, <3>5 DEF Forget
    <2>2. StageFacts'
      BY <1>16 DEF Crash, Died, CutShort, Forget, StageFacts, Attending, InAttempt, Verifying
    <2>3. OwnerFacts'
      BY <1>16 DEF Crash, Died, CutShort, Forget, OwnerFacts, StageFacts, Owns, Source, Verifying, Attending, InAttempt
    <2>4. VerdictCoherent'
      BY <1>16 DEF Crash, Died, CutShort, Forget, VerdictCoherent
    <2>5. RunningIsAttended'
      BY <1>16 DEF Crash, Died, CutShort, Forget, RunningIsAttended, StageFacts, Attending, InAttempt
    <2>6. VerifiedPassed'
      BY <1>16 DEF Crash, Died, CutShort, Forget, VerifiedPassed
    <2> QED BY <2>1, <2>2, <2>3, <2>4, <2>5, <2>6
  <1>17. ASSUME NEW g \in Attempts, Child(g)
         PROVE  Inv'
    <2>1. UNCHANGED <<manifest, report, holders, replaced, procs, history>>
      BY <1>17 DEF Child, WriteResult, OrphanEnds
    <2>2. /\ result' \in [by : 0..MaxGeneration, freshFor : SUBSET Procs]
          /\ live' \subseteq Attempts
          /\ UNCHANGED stuck
      <3>1. CASE WriteResult(g)
        <4>1. result' = [by |-> g, freshFor |-> Procs] /\ UNCHANGED <<live, stuck>>
          BY <3>1 DEF WriteResult
        <4>2. g \in 0..MaxGeneration
          OBVIOUS
        <4> QED BY <4>1, <4>2
      <3>2. CASE OrphanEnds(g)
        BY <3>2 DEF OrphanEnds
      <3> QED BY <1>17, <3>1, <3>2 DEF Child
    <2>3. TypeOK'
      BY <2>1, <2>2
    <2>4. StageFacts' /\ OwnerFacts'
      BY <2>1 DEF StageFacts, OwnerFacts, Owns, Source, Verifying
    <2>5. VerdictCoherent' /\ VerifiedPassed'
      BY <2>1 DEF VerdictCoherent, VerifiedPassed
    <2>6. RunningIsAttended'
      BY <2>1 DEF RunningIsAttended
    <2> QED BY <2>3, <2>4, <2>5, <2>6
  <1>18. CASE ReplaceLockFile \/ UNCHANGED vars
    <2>1. /\ UNCHANGED <<manifest, result, report, holders, procs, children, history>>
          /\ replaced' \in BOOLEAN
      BY <1>18 DEF ReplaceLockFile, vars
    <2>2. TypeOK'
      BY <2>1
    <2>3. StageFacts' /\ OwnerFacts'
      BY <2>1 DEF StageFacts, OwnerFacts, Owns, Source, Verifying
    <2>4. VerdictCoherent' /\ VerifiedPassed'
      BY <2>1 DEF VerdictCoherent, VerifiedPassed
    <2>5. RunningIsAttended'
      BY <2>1 DEF RunningIsAttended
    <2> QED BY <2>2, <2>3, <2>4, <2>5
  <1>19. ASSUME NEW p \in Procs, WaitForParent(p)
         PROVE  Inv'
    <2>1. UNCHANGED <<manifest, result, report, holders, replaced, procs, live, history>>
      BY <1>19 DEF WaitForParent
    <2>2. stuck' \subseteq Attempts
      BY <1>19 DEF WaitForParent
    <2>3. TypeOK'
      BY <2>1, <2>2
    <2>4. StageFacts' /\ OwnerFacts'
      BY <2>1 DEF StageFacts, OwnerFacts, Owns, Source, Verifying
    <2>5. VerdictCoherent' /\ VerifiedPassed'
      BY <2>1 DEF VerdictCoherent, VerifiedPassed
    <2>6. RunningIsAttended'
      BY <2>1 DEF RunningIsAttended
    <2> QED BY <2>3, <2>4, <2>5, <2>6
  <1> QED
    BY <1>1, <1>2, <1>3, <1>4, <1>5, <1>6, <1>7, <1>8, <1>9, <1>10,
       <1>11, <1>12, <1>13, <1>14, <1>15, <1>16, <1>17, <1>18, <1>19
    DEF Next, Advance

\* Inv holds in every state of every behaviour.
LEMMA InvAlways == Spec => []Inv
  BY InvInit, InvNext, PTL DEF Spec

\* The variables keep their types.
THEOREM TypeCorrect == Spec => []TypeOK
  BY InvAlways, PTL DEF Inv

\* Status, phase and last result never contradict each other, also when two
\* attempts overlap because the lock does not exclude.
THEOREM Coherent == Spec => []VerdictCoherent
  BY InvAlways, PTL DEF Inv

\* No early return of verify or task-run leaves "running" behind: only a
\* process that died or raised does.
THEOREM Attended == Spec => []RunningIsAttended
  BY InvAlways, PTL DEF Inv

\* No interleaving of commands shows "verified" for an attempt whose final.py
\* did not exit 0.
THEOREM VerifiedOnlyIfPassed == Spec => []VerifiedPassed
  BY InvAlways, PTL DEF Inv

-----------------------------------------------------------------------------
(***************************************************************************)
(* The manifest changes in two actions only.                               *)
(***************************************************************************)

\* Only the beginning and the closing of an attempt write the fields of the
\* manifest that the model keeps.
LEMMA ManifestWriters ==
  ASSUME [Next]_vars
  PROVE  \/ UNCHANGED manifest
         \/ \E p \in Procs : Begin(p) \/ Close(p)
  BY DEF Next, Advance, Child, vars, Start, StartLoop, EnterLock, Entered, AgentEnds,
         Preflight, ScriptEnds, Judge, Publish, Index, Refused, Leave, Left, RecordLoop,
         WaitForParent, Raise, Crash, Died, WriteResult, OrphanEnds, ReplaceLockFile

\* What a beginning does to the two fields of the ledger.
LEMMA BeginOpens ==
  ASSUME Inv, NEW p \in Procs, Begin(p)
  PROVE  \/ UNCHANGED manifest
         \/ /\ manifest.generation < MaxGeneration
            /\ manifest'.generation = manifest.generation + 1
            /\ manifest'.status = "running"
  <1>1. manifest \in Manifests
    BY DEF Inv, TypeOK
  <1>2. Source(p) \in {"verify", "task-run"}
    BY DEF Source
  <1>3. \/ UNCHANGED manifest
        \/ manifest.generation < MaxGeneration /\ manifest' = Begun(manifest, Source(p))
    BY DEF Begin
  <1> QED BY <1>1, <1>2, <1>3, BegunFields

\* What a closing does to them, and who does it.
LEMMA CloseCloses ==
  ASSUME Inv, NEW p \in Procs, Close(p)
  PROVE  /\ manifest.status = "running"
         /\ manifest'.generation = manifest.generation
         /\ manifest'.status = outcome[p]
         /\ outcome[p] \in {"ran", "failed", "verified"}
         /\ attempt[p] = manifest.generation
         /\ pc[p] = "close"
         /\ pc'[p] # "close"
  <1>1. manifest \in Manifests /\ pc \in [Procs -> Stages]
    BY DEF Inv, TypeOK
  <1>2. manifest.phase = "running" /\ attempt[p] = manifest.generation /\ pc[p] = "close"
    BY DEF Close, MayClose, Owns
  <1>3. manifest.status = "running"
    BY <1>2 DEF Inv, VerdictCoherent
  <1>4. outcome[p] \in {"ran", "failed", "verified"}
    BY <1>2 DEF Inv, StageFacts
  <1>5. manifest'.generation = manifest.generation /\ manifest'.status = outcome[p]
    BY <1>1 DEF Close, VerdictStatus, Manifests
  <1>6. pc'[p] # "close"
    BY <1>1 DEF Close, Goto
  <1> QED BY <1>2, <1>3, <1>4, <1>5, <1>6

\* An attempt is closed by the process that began it, with the verdict that
\* process reached, whether or not the lock excludes.
THEOREM OwnerCloses == Spec => ClosedByOwner
  <1>1. ASSUME Inv, [Next]_vars,
               NEW g \in Attempts,
               manifest.generation = g, manifest.phase = "running",
               manifest'.generation = g, manifest'.phase # "running"
        PROVE  \E p \in Procs : /\ attempt[p] = g /\ pc[p] = "close"
                                /\ manifest'.status = outcome[p]
                                /\ pc'[p] # "close"
    <2>1. PICK p \in Procs : Begin(p) \/ Close(p)
      BY <1>1, ManifestWriters
    <2>2. CASE Begin(p)
      BY <1>1, <2>2, BeginOpens DEF Inv, TypeOK, Manifests
    <2>3. CASE Close(p)
      BY <1>1, <2>3, CloseCloses
    <2> QED BY <2>1, <2>2, <2>3
  <1>2. Inv /\ [Next]_vars =>
          [\A g \in Attempts :
             /\ manifest.generation = g /\ manifest.phase = "running"
             /\ manifest'.generation = g /\ manifest'.phase # "running"
             => \E p \in Procs : /\ attempt[p] = g /\ pc[p] = "close"
                                 /\ manifest'.status = outcome[p]
                                 /\ pc'[p] # "close"]_vars
    BY <1>1
  <1> QED BY <1>2, InvAlways, PTL DEF Spec, ClosedByOwner

\* The manifest is an AttemptLedger: generations without gaps, one verdict per
\* attempt, and never one for an attempt that was superseded.
THEOREM LedgerImplemented == Spec => ImplementsLedger
  <1>1. Init => Ledger!Init
    BY DEF Init, Ledger!Init
  <1>2. ASSUME Inv, [Next]_vars
        PROVE  [Ledger!Next]_<<manifest.generation, manifest.status>>
    <2>1. CASE UNCHANGED manifest
      BY <2>1
    <2>2. ASSUME NEW p \in Procs, Begin(p)
          PROVE  [Ledger!Next]_<<manifest.generation, manifest.status>>
      BY <1>2, <2>2, BeginOpens DEF Ledger!Next, Ledger!Open
    <2>3. ASSUME NEW p \in Procs, Close(p)
          PROVE  [Ledger!Next]_<<manifest.generation, manifest.status>>
      BY <1>2, <2>3, CloseCloses DEF Ledger!Next, Ledger!Close, Ledger!Verdicts
    <2> QED BY <1>2, <2>1, <2>2, <2>3, ManifestWriters
  <1> QED BY <1>1, <1>2, InvAlways, PTL DEF Spec, ImplementsLedger, Ledger!Spec

-----------------------------------------------------------------------------
(***************************************************************************)
(* The report and the manifest, when attempts overlap too.  A process that *)
(* is about to publish and still owns its attempt has given the manifest   *)
(* its verdict, and nobody else can have: attempts are never shared.       *)
(***************************************************************************)
Ahead ==
  /\ AttemptsDistinct
  /\ report.by <= manifest.generation
  /\ \A p \in Procs : pc[p] = "publish" /\ Owns(p) => outcome[p] = manifest.status
  /\ ReportNotAhead

\* No step but three writes the manifest or the report, hands out an attempt,
\* or brings a process to its report.
LEMMA OtherSteps ==
  ASSUME Inv, [Next]_vars
  PROVE  \/ \E p \in Procs : Begin(p) \/ Close(p) \/ Publish(p)
         \/ /\ UNCHANGED <<manifest, report>>
            /\ \A q \in Procs :
                 /\ attempt'[q] \in {attempt[q], 0}
                 /\ pc'[q] = "publish" =>
                      pc[q] = "publish" /\ UNCHANGED <<attempt[q], outcome[q]>>
  <1> DEFINE Same ==
        /\ UNCHANGED <<manifest, report>>
        /\ \A q \in Procs :
             /\ attempt'[q] \in {attempt[q], 0}
             /\ pc'[q] = "publish" =>
                  pc[q] = "publish" /\ UNCHANGED <<attempt[q], outcome[q]>>
  <1> USE DEF Inv, TypeOK, Stages, Goto, procs
  <1>1. ASSUME NEW p \in Procs, (\E c \in Commands : Start(p, c)) \/ StartLoop(p)
               \/ EnterLock(p) \/ AgentEnds(p)
        PROVE  Same
    BY <1>1 DEF Start, StartLoop, EnterLock, Entered, AgentEnds, NextTry
  <1>2. ASSUME NEW p \in Procs, Preflight(p) \/ ScriptEnds(p) \/ Judge(p)
        PROVE  Same
    BY <1>2 DEF Preflight, ScriptEnds, Judge
  <1>3. ASSUME NEW p \in Procs, Index(p) \/ Refused(p) \/ WaitForParent(p) \/ Raise(p)
        PROVE  Same
    BY <1>3 DEF Index, Refused, WaitForParent, Raise
  <1>4. ASSUME NEW p \in Procs, Leave(p) \/ RecordLoop(p) \/ Crash(p)
        PROVE  Same
    BY <1>4 DEF Leave, Left, NextTry, RecordLoop, Crash, Died, Forget
  <1>5. ASSUME ReplaceLockFile \/ UNCHANGED vars \/ \E g \in Attempts : Child(g)
        PROVE  Same
    BY <1>5 DEF ReplaceLockFile, vars, Child, WriteResult, OrphanEnds
  <1> HIDE DEF Same, Inv
  <1>6. Same \/ \E p \in Procs : Begin(p) \/ Close(p) \/ Publish(p)
    BY <1>1, <1>2, <1>3, <1>4, <1>5 DEF Next, Advance
  <1> QED BY <1>6 DEF Same

\* Overlapping attempts keep out of each other's report.
LEMMA AheadNext ==
  ASSUME Inv, Ahead, [Next]_vars
  PROVE  Ahead'
  <1> USE DEF Ahead, AttemptsDistinct, ReportNotAhead, Owns
  <1>0. /\ manifest \in Manifests /\ manifest.generation \in Nat
        /\ report.status \in {"none", "failed", "verified"} /\ report.by \in Nat
        /\ pc \in [Procs -> Stages]
        /\ outcome \in [Procs -> {"none", "ran", "failed", "verified", "error"}]
        /\ attempt \in [Procs -> Nat]
        /\ \A q \in Procs : attempt[q] <= manifest.generation
    BY RunExecutionAssumption DEF Inv, TypeOK, Manifests, OwnerFacts
  <1>1. ASSUME NEW p \in Procs, Begin(p)
        PROVE  Ahead'
    <2>1. CASE UNCHANGED <<manifest, attempt>>
      BY <1>0, <1>1, <2>1 DEF Begin, Goto
    <2>2. CASE ~UNCHANGED <<manifest, attempt>>
      <3>1. /\ manifest.generation < MaxGeneration
            /\ manifest' = Begun(manifest, Source(p))
            /\ attempt' = [attempt EXCEPT ![p] = manifest.generation + 1]
            /\ pc' = [pc EXCEPT ![p] = "begun"]
            /\ UNCHANGED report
        BY <1>1, <2>2 DEF Begin, Goto
      <3>2. manifest'.generation = manifest.generation + 1
        BY <1>0, <3>1, BegunFields DEF Source
      <3> QED BY <1>0, <3>1, <3>2
    <2> QED BY <2>1, <2>2
  <1>2. ASSUME NEW p \in Procs, Close(p)
        PROVE  Ahead'
    <2>1. UNCHANGED <<report, attempt, outcome>> /\ pc' \in [Procs -> Stages]
          /\ \A q \in Procs : q # p => pc'[q] = pc[q]
      BY <1>0, <1>2 DEF Close, Goto, Stages
    <2>2. \A q \in Procs : pc[q] = "publish" => outcome[q] # "running"
      BY <1>0
    <2> QED BY <1>0, <1>2, <2>1, <2>2, CloseCloses
  <1>3. ASSUME NEW p \in Procs, Publish(p)
        PROVE  Ahead'
    BY <1>0, <1>3 DEF Publish, Goto
  <1>4. ASSUME UNCHANGED <<manifest, report>>,
               \A q \in Procs :
                 /\ attempt'[q] \in {attempt[q], 0}
                 /\ pc'[q] = "publish" =>
                      pc[q] = "publish" /\ UNCHANGED <<attempt[q], outcome[q]>>
        PROVE  Ahead'
    BY <1>0, <1>4
  <1> HIDE DEF Ahead
  <1> QED BY <1>1, <1>2, <1>3, <1>4, OtherSteps

\* Ahead holds throughout.
LEMMA AheadAlways == Spec => []Ahead
  <1>1. Init => Ahead
    BY DEF Init, Ahead, AttemptsDistinct, ReportNotAhead, Owns
  <1> QED BY <1>1, AheadNext, InvAlways, PTL DEF Spec

\* Attempt numbers are never shared, whatever the lock does.
THEOREM AttemptsAreDistinct == Spec => []AttemptsDistinct
  <1>1. Ahead => AttemptsDistinct
    BY DEF Ahead
  <1> QED BY <1>1, AheadAlways, PTL

\* verify-result.json never contradicts the manifest about the latest attempt,
\* whatever the lock does.
THEOREM ReportIsNotAhead == Spec => []ReportNotAhead
  <1>1. Ahead => ReportNotAhead
    BY DEF Ahead
  <1> QED BY <1>1, AheadAlways, PTL

-----------------------------------------------------------------------------
(***************************************************************************)
(* A command only moves towards its end.                                   *)
(***************************************************************************)

\* The rank of a process that has typed variables is a natural number.
LEMMA RankIsNat ==
  ASSUME TypeOK, NEW p \in Procs
  PROVE  Rank(p) \in Nat /\ Rank(p) <= 11 * MaxTries + 10
  BY RunExecutionAssumption DEF TypeOK, Rank, StepsLeft, Stages

\* Every step that a process takes by itself lowers its rank, or is its last.
LEMMA AdvanceLowers ==
  ASSUME TypeOK, NEW p \in Procs, Advance(p) \/ EnterLock(p)
  PROVE  pc'[p] = "idle" \/ Rank(p)' < Rank(p)
  <1> DEFINE Lower == pc'[p] = "idle" \/ Rank(p)' < Rank(p)
  <1> USE RunExecutionAssumption DEF TypeOK, Rank, StepsLeft, Stages, Goto
  <1>1. CASE AgentEnds(p)
    BY <1>1 DEF AgentEnds, NextTry
  <1>2. CASE EnterLock(p)
    BY <1>2 DEF EnterLock, Entered
  <1>3. CASE Begin(p)
    BY <1>3 DEF Begin
  <1>4. CASE Preflight(p)
    BY <1>4 DEF Preflight
  <1>5. CASE ScriptEnds(p)
    BY <1>5 DEF ScriptEnds
  <1>6. CASE Judge(p)
    BY <1>6 DEF Judge
  <1>7. CASE Close(p)
    BY <1>7 DEF Close
  <1>8. CASE Publish(p) \/ Index(p)
    BY <1>8 DEF Publish, Index
  <1>9. CASE Refused(p)
    BY <1>9 DEF Refused
  <1>10. CASE Leave(p)
    BY <1>10 DEF Leave, Left, NextTry, Forget
  <1>11. CASE RecordLoop(p)
    BY <1>11 DEF RecordLoop, Forget
  <1> QED
    BY <1>1, <1>2, <1>3, <1>4, <1>5, <1>6, <1>7, <1>8, <1>9, <1>10, <1>11 DEF Advance

\* Nobody else moves a process, and neither does a final.py.
LEMMA OthersStay ==
  ASSUME TypeOK, NEW p \in Procs, NEW q \in Procs, q # p,
         (\E c \in Commands : Start(p, c)) \/ StartLoop(p) \/ EnterLock(p) \/ Advance(p)
         \/ WaitForParent(p) \/ Raise(p) \/ Crash(p)
  PROVE  UNCHANGED <<pc[q], op[q], attempt[q], outcome[q], tries[q]>>
  <1> USE DEF TypeOK, Goto, Forget, NextTry, procs
  <1>1. CASE (\E c \in Commands : Start(p, c)) \/ StartLoop(p) \/ EnterLock(p)
             \/ WaitForParent(p) \/ Raise(p) \/ Crash(p)
    BY <1>1 DEF Start, StartLoop, EnterLock, Entered, WaitForParent, Raise, Crash, Died
  <1>2. CASE AgentEnds(p) \/ Begin(p) \/ Preflight(p) \/ ScriptEnds(p) \/ Judge(p)
    BY <1>2 DEF AgentEnds, Begin, Preflight, ScriptEnds, Judge
  <1>3. CASE Close(p) \/ Publish(p) \/ Index(p) \/ Refused(p) \/ Leave(p) \/ RecordLoop(p)
    BY <1>3 DEF Close, Publish, Index, Refused, Leave, Left, RecordLoop
  <1> QED BY <1>1, <1>2, <1>3 DEF Advance

\* No step takes a command back: it ends after at most 11 * MaxTries + 10 steps
\* of its own, if its process goes on.
THEOREM NeverBackwards == Spec => NeverBack
  <1> DEFINE Forward(p) ==
        \/ UNCHANGED <<pc[p], op[p], attempt[p], outcome[p], tries[p]>>
        \/ pc'[p] = "idle"
        \/ Rank(p)' < Rank(p)
  <1>1. ASSUME TypeOK, NEW p \in Procs, pc[p] # "idle",
               (\E c \in Commands : Start(p, c)) \/ StartLoop(p) \/ EnterLock(p)
               \/ Advance(p) \/ WaitForParent(p) \/ Raise(p) \/ Crash(p)
        PROVE  Forward(p)
    <2>1. CASE EnterLock(p) \/ Advance(p)
      BY <1>1, <2>1, AdvanceLowers
    <2>2. CASE Raise(p)
      BY <1>1, <2>2, RunExecutionAssumption
      DEF Raise, InAttempt, Attending, Goto, Rank, StepsLeft, TypeOK, Stages
    <2>3. CASE Crash(p)
      BY <1>1, <2>3 DEF Crash, Died, Forget, TypeOK
    <2>4. CASE WaitForParent(p)
      BY <2>4 DEF WaitForParent, procs
    <2>5. CASE (\E c \in Commands : Start(p, c)) \/ StartLoop(p)
      BY <1>1, <2>5 DEF Start, StartLoop
    <2> QED BY <1>1, <2>1, <2>2, <2>3, <2>4, <2>5
  <1>2. ASSUME TypeOK, [Next]_vars, NEW p \in Procs, pc[p] # "idle"
        PROVE  Forward(p)
    <2>1. CASE ReplaceLockFile \/ UNCHANGED vars \/ \E g \in Attempts : Child(g)
      BY <2>1 DEF ReplaceLockFile, vars, procs, Child, WriteResult, OrphanEnds
    <2>2. ASSUME NEW q \in Procs,
                 (\E c \in Commands : Start(q, c)) \/ StartLoop(q) \/ EnterLock(q)
                 \/ Advance(q) \/ WaitForParent(q) \/ Raise(q) \/ Crash(q)
          PROVE  Forward(p)
      BY <1>1, <1>2, <2>2, OthersStay
    <2> HIDE DEF Forward
    <2> QED BY <1>2, <2>1, <2>2 DEF Next
  <1>3. TypeOK /\ [Next]_vars => [\A p \in Procs : pc[p] # "idle" => Forward(p)]_vars
    BY <1>2
  <1> QED BY <1>3, TypeCorrect, PTL DEF Spec, NeverBack

-----------------------------------------------------------------------------
(***************************************************************************)
(* What the lock adds.  While it excludes, one process at a time has an    *)
(* attempt, and the attempt it has is the one the manifest shows.          *)
(***************************************************************************)
InLock == {"locked", "begun", "script", "judge", "close", "publish", "index", "leave"}

\* One process at a time, and its attempt is the current one.
Alone ==
  /\ \A p \in Procs : pc[p] \in InLock => p \in holders
  /\ \A p \in Procs : pc[p] \notin InLock => attempt[p] = 0
  /\ Excludes => \A p, q \in holders : p = q
  /\ Excludes => \A p \in Procs : attempt[p] # 0 => Owns(p)

\* Only the final.py of the attempt in progress is alive, so that the evidence
\* its process finds fresh is its own.
OwnEvidence ==
  Excludes /\ ~outlived =>
    /\ \A g \in live : \E p \in Procs : pc[p] = "script" /\ attempt[p] = g
    /\ \A p \in Procs :
         pc[p] \in {"script", "judge"} /\ p \in result.freshFor /\ Verifying(p)
           => result.by = attempt[p]
    /\ borrowed = {}

\* verify-result.json is right, or is about to be.
Reported ==
  Excludes =>
    /\ \A p \in Procs : pc[p] = "publish" => outcome[p] = manifest.status
    /\ /\ manifest.source = "verify" /\ manifest.phase # "running"
       /\ manifest.generation \notin cut
       => \/ report = [status |-> manifest.status, by |-> manifest.generation]
          \/ \E p \in Procs : pc[p] = "publish" /\ attempt[p] = manifest.generation

\* A new run is idle.
LEMMA AloneInit == Init => Alone /\ OwnEvidence /\ Reported
  BY DEF Init, Alone, OwnEvidence, Reported, Excludes, InLock

\* The lock hands the run from one process to the next, and an attempt begins
\* and ends inside.
LEMMA AloneNext ==
  ASSUME Inv, Alone, [Next]_vars
  PROVE  Alone'
  <1> USE RunExecutionAssumption
      DEF Alone, Inv, TypeOK, Stages, InLock, Owns, Excludes, history, procs, children, Goto
  <1>1. ASSUME NEW p \in Procs, NEW c \in Commands, Start(p, c)
        PROVE  Alone'
    BY <1>1 DEF Start
  <1>2. ASSUME NEW p \in Procs, StartLoop(p)
        PROVE  Alone'
    BY <1>2 DEF StartLoop
  <1>3. ASSUME NEW p \in Procs, EnterLock(p)
        PROVE  Alone'
    BY <1>3 DEF EnterLock, Entered
  <1>4. ASSUME NEW p \in Procs, AgentEnds(p)
        PROVE  Alone'
    BY <1>4 DEF AgentEnds, NextTry
  <1>5. ASSUME NEW p \in Procs, Begin(p)
        PROVE  Alone'
    <2>1. /\ pc[p] = "locked" /\ p \in holders
          /\ UNCHANGED <<holders, replaced>>
          /\ pc' \in {[pc EXCEPT ![p] = "begun"], [pc EXCEPT ![p] = "leave"]}
      BY <1>5 DEF Begin
    <2>2. \/ UNCHANGED <<manifest, attempt>>
          \/ /\ manifest' = Begun(manifest, Source(p))
             /\ attempt' = [attempt EXCEPT ![p] = manifest.generation + 1]
             /\ manifest.generation < MaxGeneration
      BY <1>5 DEF Begin
    <2>3. \/ UNCHANGED <<manifest, attempt>>
          \/ /\ manifest'.generation = manifest.generation + 1
             /\ attempt' = [attempt EXCEPT ![p] = manifest.generation + 1]
      BY <2>2, BegunFields DEF Source
    <2>4. Excludes => \A q \in Procs : q # p => attempt[q] = 0
      BY <2>1
    <2> QED BY <2>1, <2>3, <2>4
  <1>6. ASSUME NEW p \in Procs, Preflight(p)
        PROVE  Alone'
    BY <1>6 DEF Preflight, ResetFreshness
  <1>7. ASSUME NEW p \in Procs, ScriptEnds(p)
        PROVE  Alone'
    BY <1>7 DEF ScriptEnds, MayOutlive
  <1>8. ASSUME NEW p \in Procs, Judge(p)
        PROVE  Alone'
    BY <1>8 DEF Judge
  <1>9. ASSUME NEW p \in Procs, Close(p)
        PROVE  Alone'
    BY <1>9 DEF Close
  <1>10. ASSUME NEW p \in Procs, Publish(p)
        PROVE  Alone'
    BY <1>10 DEF Publish
  <1>11. ASSUME NEW p \in Procs, Index(p)
        PROVE  Alone'
    BY <1>11 DEF Index
  <1>12. ASSUME NEW p \in Procs, Refused(p)
        PROVE  Alone'
    BY <1>12 DEF Refused, CutShort
  <1>13. ASSUME NEW p \in Procs, Leave(p)
        PROVE  Alone'
    BY <1>13 DEF Leave, Left, NextTry, Forget
  <1>14. ASSUME NEW p \in Procs, RecordLoop(p)
        PROVE  Alone'
    BY <1>14 DEF RecordLoop, Forget
  <1>15. ASSUME NEW p \in Procs, Raise(p)
        PROVE  Alone'
    BY <1>15 DEF Raise, Attending, InAttempt
  <1>16. ASSUME NEW p \in Procs, Crash(p)
        PROVE  Alone'
    BY <1>16 DEF Crash, Died, CutShort, Forget
  <1>17. ASSUME NEW g \in Attempts, Child(g)
         PROVE  Alone'
    BY <1>17 DEF Child, WriteResult, OrphanEnds
  <1>18. CASE ReplaceLockFile
    BY <1>18 DEF ReplaceLockFile
  <1>19. CASE UNCHANGED vars
    BY <1>19 DEF vars
  <1>20. ASSUME NEW p \in Procs, WaitForParent(p)
         PROVE  Alone'
    BY <1>20 DEF WaitForParent
  <1> QED
    BY <1>1, <1>2, <1>3, <1>4, <1>5, <1>6, <1>7, <1>8, <1>9, <1>10,
       <1>11, <1>12, <1>13, <1>14, <1>15, <1>16, <1>17, <1>18, <1>19, <1>20
    DEF Next, Advance

\* What a process finds fresh was written by its own final.py.
LEMMA EvidenceNext ==
  ASSUME Inv, Alone, OwnEvidence, [Next]_vars
  PROVE  OwnEvidence'
  <1> USE RunExecutionAssumption
      DEF OwnEvidence, Inv, TypeOK, Stages, InLock, Excludes, Verifying, history, procs, children, Goto
  <1>1. ASSUME NEW p \in Procs, NEW c \in Commands, Start(p, c)
        PROVE  OwnEvidence'
    BY <1>1 DEF Start
  <1>2. ASSUME NEW p \in Procs, StartLoop(p)
        PROVE  OwnEvidence'
    BY <1>2 DEF StartLoop
  <1>3. ASSUME NEW p \in Procs, EnterLock(p)
        PROVE  OwnEvidence'
    BY <1>3 DEF EnterLock, Entered
  <1>4. ASSUME NEW p \in Procs, AgentEnds(p)
        PROVE  OwnEvidence'
    BY <1>4 DEF AgentEnds, NextTry
  <1>5. ASSUME NEW p \in Procs, Begin(p)
        PROVE  OwnEvidence'
    BY <1>5 DEF Begin
  <1>6. ASSUME NEW p \in Procs, Preflight(p)
        PROVE  OwnEvidence'
    BY <1>6 DEF Preflight, ResetFreshness
  <1>7. ASSUME NEW p \in Procs, ScriptEnds(p)
        PROVE  OwnEvidence'
    BY <1>7 DEF ScriptEnds, MayOutlive
  <1>8. ASSUME NEW p \in Procs, Judge(p)
        PROVE  OwnEvidence'
    BY <1>8 DEF Judge, StageFacts, Alone
  <1>9. ASSUME NEW p \in Procs, Close(p)
        PROVE  OwnEvidence'
    BY <1>9 DEF Close
  <1>10. ASSUME NEW p \in Procs, Publish(p)
        PROVE  OwnEvidence'
    BY <1>10 DEF Publish
  <1>11. ASSUME NEW p \in Procs, Index(p)
        PROVE  OwnEvidence'
    BY <1>11 DEF Index
  <1>12. ASSUME NEW p \in Procs, Refused(p)
        PROVE  OwnEvidence'
    BY <1>12 DEF Refused, CutShort
  <1>13. ASSUME NEW p \in Procs, Leave(p)
        PROVE  OwnEvidence'
    BY <1>13 DEF Leave, Left, NextTry, Forget
  <1>14. ASSUME NEW p \in Procs, RecordLoop(p)
        PROVE  OwnEvidence'
    BY <1>14 DEF RecordLoop, Forget
  <1>15. ASSUME NEW p \in Procs, Raise(p)
        PROVE  OwnEvidence'
    BY <1>15 DEF Raise, MayOutlive, Attending, InAttempt
  <1>16. ASSUME NEW p \in Procs, Crash(p)
        PROVE  OwnEvidence'
    <2>1. ~outlived' => ~outlived /\ ~(pc[p] = "script" /\ attempt[p] \in live)
      BY <1>16, Zenon DEF Crash, Died
    <2>2. /\ pc' = [pc EXCEPT ![p] = "idle"]
          /\ UNCHANGED <<manifest, result, replaced, live, borrowed>>
      BY <1>16 DEF Crash, Died, Forget
    <2>3. \A q \in Procs : q # p => UNCHANGED <<op[q], attempt[q]>>
      BY <1>16 DEF Crash, Died, Forget
    <2> QED BY <2>1, <2>2, <2>3
  <1>17. ASSUME NEW g \in Attempts, Child(g)
         PROVE  OwnEvidence'
    BY <1>17 DEF Child, WriteResult, OrphanEnds, Alone
  <1>18. CASE ReplaceLockFile
    BY <1>18 DEF ReplaceLockFile
  <1>19. CASE UNCHANGED vars
    BY <1>19 DEF vars
  <1>20. ASSUME NEW p \in Procs, WaitForParent(p)
         PROVE  OwnEvidence'
    BY <1>20 DEF WaitForParent
  <1> QED
    BY <1>1, <1>2, <1>3, <1>4, <1>5, <1>6, <1>7, <1>8, <1>9, <1>10,
       <1>11, <1>12, <1>13, <1>14, <1>15, <1>16, <1>17, <1>18, <1>19, <1>20
    DEF Next, Advance

\* verify-result.json follows the verdict before the lock is given up.
LEMMA ReportedNext ==
  ASSUME Inv, Inv', Alone, Alone', Reported, [Next]_vars
  PROVE  Reported'
  <1> USE RunExecutionAssumption
      DEF Reported, Inv, TypeOK, Stages, InLock, Excludes, Verifying, Attempts, history, procs, children, Goto
  <1>1. ASSUME NEW p \in Procs, NEW c \in Commands, Start(p, c)
        PROVE  Reported'
    BY <1>1 DEF Start
  <1>2. ASSUME NEW p \in Procs, StartLoop(p)
        PROVE  Reported'
    BY <1>2 DEF StartLoop
  <1>3. ASSUME NEW p \in Procs, EnterLock(p)
        PROVE  Reported'
    BY <1>3 DEF EnterLock, Entered
  <1>4. ASSUME NEW p \in Procs, AgentEnds(p)
        PROVE  Reported'
    BY <1>4 DEF AgentEnds, NextTry
  <1>5. ASSUME NEW p \in Procs, Begin(p)
        PROVE  Reported'
    <2>1. /\ pc[p] = "locked" /\ p \in holders
          /\ pc' \in {[pc EXCEPT ![p] = "begun"], [pc EXCEPT ![p] = "leave"]}
          /\ UNCHANGED <<report, replaced>>
      BY <1>5 DEF Begin, Alone
    <2>2. Excludes => \A q \in Procs : pc'[q] # "publish"
      BY <2>1 DEF Alone
    <2>3. \/ UNCHANGED <<manifest, cut>>
          \/ manifest' = Begun(manifest, Source(p)) /\ manifest.generation < MaxGeneration
      BY <1>5 DEF Begin
    <2>4. UNCHANGED <<manifest, cut>> \/ manifest'.phase = "running"
      BY <2>3, BegunFields DEF Source
    <2> QED BY <2>1, <2>2, <2>4
  <1>6. ASSUME NEW p \in Procs, Preflight(p)
        PROVE  Reported'
    BY <1>6 DEF Preflight, ResetFreshness
  <1>7. ASSUME NEW p \in Procs, ScriptEnds(p)
        PROVE  Reported'
    BY <1>7 DEF ScriptEnds
  <1>8. ASSUME NEW p \in Procs, Judge(p)
        PROVE  Reported'
    BY <1>8 DEF Judge
  <1>9. ASSUME NEW p \in Procs, Close(p)
        PROVE  Reported'
    <2>1. /\ manifest'.generation = manifest.generation
          /\ manifest'.status = outcome[p]
          /\ attempt[p] = manifest.generation
      BY <1>9, CloseCloses
    <2>2. manifest'.source = Source(p)
      BY <1>9 DEF Close, Manifests, OwnerFacts, StageFacts, Attending, InAttempt, MayClose, Owns
    <2>3. /\ pc[p] = "close" /\ p \in holders
          /\ pc' = [pc EXCEPT ![p] = IF Verifying(p) THEN "publish" ELSE "leave"]
          /\ UNCHANGED <<report, replaced, attempt, outcome, op, cut>>
      BY <1>9 DEF Close, Alone
    <2>4. Excludes => \A q \in Procs : q # p => pc'[q] # "publish"
      BY <2>3 DEF Alone
    <2>5. CASE Verifying(p)
      BY <2>1, <2>3, <2>4, <2>5
    <2>6. CASE ~Verifying(p)
      BY <2>1, <2>2, <2>3, <2>4, <2>6 DEF Source
    <2> QED BY <2>5, <2>6
  <1>10. ASSUME NEW p \in Procs, Publish(p)
        PROVE  Reported'
    <2>1. /\ pc[p] = "publish" /\ p \in holders
          /\ report' = [status |-> outcome[p], by |-> attempt[p]]
          /\ pc' = [pc EXCEPT ![p] = "index"]
          /\ UNCHANGED <<manifest, replaced, attempt, outcome, cut>>
      BY <1>10 DEF Publish, Alone
    <2>2. Excludes => /\ outcome[p] = manifest.status
                      /\ attempt[p] = manifest.generation
      BY <2>1 DEF Alone, Owns, StageFacts, InAttempt
    <2>3. Excludes => \A q \in Procs : pc'[q] # "publish"
      BY <2>1 DEF Alone
    <2> QED BY <2>1, <2>2, <2>3
  <1>11. ASSUME NEW p \in Procs, Index(p)
        PROVE  Reported'
    BY <1>11 DEF Index
  <1>12. ASSUME NEW p \in Procs, Refused(p)
        PROVE  Reported'
    BY <1>12 DEF Refused, CutShort
  <1>13. ASSUME NEW p \in Procs, Leave(p)
        PROVE  Reported'
    BY <1>13 DEF Leave, Left, NextTry, Forget
  <1>14. ASSUME NEW p \in Procs, RecordLoop(p)
        PROVE  Reported'
    BY <1>14 DEF RecordLoop, Forget
  <1>15. ASSUME NEW p \in Procs, Raise(p)
        PROVE  Reported'
    BY <1>15 DEF Raise, CutShort, StageFacts, Attending, InAttempt
  <1>16. ASSUME NEW p \in Procs, Crash(p)
        PROVE  Reported'
    BY <1>16 DEF Crash, Died, Forget, CutShort, StageFacts, Attending, InAttempt
  <1>17. ASSUME NEW g \in Attempts, Child(g)
         PROVE  Reported'
    BY <1>17 DEF Child, WriteResult, OrphanEnds
  <1>18. CASE ReplaceLockFile
    BY <1>18 DEF ReplaceLockFile
  <1>19. CASE UNCHANGED vars
    BY <1>19 DEF vars
  <1>20. ASSUME NEW p \in Procs, WaitForParent(p)
         PROVE  Reported'
    BY <1>20 DEF WaitForParent
  <1> QED
    BY <1>1, <1>2, <1>3, <1>4, <1>5, <1>6, <1>7, <1>8, <1>9, <1>10,
       <1>11, <1>12, <1>13, <1>14, <1>15, <1>16, <1>17, <1>18, <1>19, <1>20
    DEF Next, Advance

\* All of it holds in every state of every behaviour.
LEMMA ExclusiveAlways == Spec => [](Inv /\ Alone /\ OwnEvidence /\ Reported)
  <1>1. Inv /\ Alone /\ OwnEvidence /\ Reported /\ [Next]_vars
          => (Inv /\ Alone /\ OwnEvidence /\ Reported)'
    BY InvNext, AloneNext, EvidenceNext, ReportedNext
  <1> QED BY <1>1, InvInit, AloneInit, PTL DEF Spec

\* While the lock excludes and no final.py outlives its attempt, "verified" is
\* given on evidence that the attempt itself wrote.
THEOREM EvidenceIsOwn == Spec => []EvidenceOfAttempt
  <1>1. OwnEvidence => EvidenceOfAttempt
    BY DEF OwnEvidence, EvidenceOfAttempt
  <1> QED BY <1>1, ExclusiveAlways, PTL

\* While the lock excludes, verify-result.json and the manifest give the same
\* verdict as soon as the lock is free, unless the last verify was cut short.
THEOREM ReportIsVerdict == Spec => []ReportAgrees
  <1>1. Alone /\ Reported => ReportAgrees
    BY DEF Alone, Reported, ReportAgrees, InLock
  <1> QED BY <1>1, ExclusiveAlways, PTL
=============================================================================
