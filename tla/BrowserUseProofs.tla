-------------------------- MODULE BrowserUseProofs --------------------------
(***************************************************************************)
(* Proofs about BrowserUse, for any pids, and any number of executions and *)
(* of processes that start.                                                *)
(***************************************************************************)
EXTENDS BrowserUse, TLAPS

Working == {"running", "import", "attest", "token", "shutdown", "settle",
            "terminate", "await"}

(***************************************************************************)
(* The inductive invariant.  A process that is remembered has started      *)
(* (Young), so that one that is gone is gone for good, whoever takes its   *)
(* pid.  What is attested is the daemon, or the daemon was dead before     *)
(* (Attesting).  A daemon counts as closed once the attested process is    *)
(* gone, and keeps its directories until then (Closing); a result that     *)
(* says so is published after both (Reported).                             *)
(***************************************************************************)
Young ==
  /\ \A p \in Pids : process[p] <= starts
  /\ \A i \in Executions : ident[i].start <= starts
  /\ attestation.start <= starts
  /\ \A i \in Executions : ident[i] = NoProcess <=> daemon[i] = "none"

Attesting ==
  /\ pc # "idle" => execution > 0
  /\ pc \in {"running", "import", "attest", "token"} => ~Attested
  /\ pc = "token" =>
       ident[execution] # NoProcess /\ heard = ident[execution].pid
  /\ Attested =>
       /\ execution > 0 /\ ident[execution] # NoProcess
       /\ \/ attestation = ident[execution]
          \/ attestation \in mistaken /\ ~Alive(ident[execution])
  /\ \A i \in attested : i <= execution /\ ident[i] # NoProcess
  /\ execution \in attested => attestation = ident[execution]

Closing ==
  /\ closed => ~Alive(attestation)
  /\ pc \in Working => ~closed
  /\ pc # "idle" /\ ~closed => dirs[execution]
  /\ pc = "publish" /\ closed => ~dirs[execution] /\ ~endpoint[execution]
  /\ pc \in {"settle", "terminate", "await"} => Attested

Reported ==
  last # NoResult =>
    /\ last.by = execution
    /\ Loads(last)
    /\ last.daemon = "attested-and-closed" =>
         ident[last.by] # NoProcess /\ ~dirs[last.by]

Inv == /\ TypeOK
       /\ Young
       /\ Attesting
       /\ Closing
       /\ Reported
       /\ NoProcess \notin signalled
       /\ ClosedAsReported
       /\ OthersSpared
       /\ IsolationKept

-----------------------------------------------------------------------------
(* The CLI, the daemons and other processes.                               *)

\* Processes end, and later ones start.
Ages ==
  /\ starts' >= starts
  /\ \A p \in Pids : /\ process'[p] <= starts'
                     /\ \/ process'[p] \in {process[p], 0}
                        \/ process'[p] > starts

\* No step brings a process back.
LEMMA DeadForGood ==
  ASSUME TypeOK, Ages, NEW x \in Processes, x.start <= starts, ~Alive(x)
  PROVE  x = NoProcess \/ process'[x.pid] # x.start
  BY BrowserUseAssumption DEF TypeOK, Ages, Processes, NoProcess, Alive

\* What happens around Relay touches nothing it relies on: a daemon gets its
\* process once, and a socket appears in a directory only.
LEMMA OutsideKeeps ==
  ASSUME Inv, TypeOK', Ages,
         UNCHANGED <<execution, pc, progress, last, dirs, history>>,
         \A i \in Executions :
           /\ ident'[i] = ident[i] \/ (ident[i] = NoProcess /\ ident'[i].start <= starts')
           /\ ident'[i] = NoProcess <=> daemon'[i] = "none"
           /\ endpoint'[i] => endpoint[i] \/ dirs[i]
  PROVE  Inv'
  <1>1. /\ UNCHANGED <<runner, cli, heard, attestation, closed, cleaned, again>>
        /\ UNCHANGED <<attested, mistaken, signalled>>
    BY DEF progress, history
  <1>2. /\ starts \in Nat /\ starts' \in Nat /\ starts' >= starts
        /\ execution \in Nat /\ (execution > 0 => execution \in Executions)
        /\ attested \subseteq Executions
    BY BrowserUseAssumption DEF Inv, TypeOK, Ages, Executions
  <1>3. \A i \in Executions : ident[i].start \in Nat
    BY BrowserUseAssumption DEF Inv, TypeOK, Processes, NoProcess
  <1>4. Young'
    <2>1. \A p \in Pids : process'[p] <= starts'
      BY DEF Ages
    <2>2. attestation.start <= starts'
      BY <1>2, BrowserUseAssumption DEF Inv, Young, TypeOK, Processes, NoProcess
    <2>3. ASSUME NEW i \in Executions PROVE ident'[i].start <= starts'
      <3>1. CASE ident'[i] = ident[i]
        BY <1>2, <1>3, <3>1 DEF Inv, Young
      <3>2. CASE ident'[i].start <= starts'
        BY <3>2
      <3> QED BY <3>1, <3>2
    <2> QED BY <1>1, <2>1, <2>2, <2>3 DEF Young
  <1>5. \A i \in Executions :
          ident[i] # NoProcess /\ ~Alive(ident[i]) => ident'[i] = ident[i] /\ ~Alive(ident[i])'
    <2>1. SUFFICES ASSUME NEW i \in Executions, ident[i] # NoProcess, ~Alive(ident[i])
                   PROVE  ident'[i] = ident[i] /\ ~Alive(ident[i])'
      OBVIOUS
    <2>2. ident[i] \in Processes /\ ident[i].start <= starts
      BY DEF Inv, TypeOK, Young
    <2>3. process'[ident[i].pid] # ident[i].start
      BY <2>1, <2>2, DeadForGood DEF Inv
    <2>4. ident'[i] = ident[i]
      BY <2>1
    <2> QED BY <2>3, <2>4 DEF Alive
  <1>6. Attesting'
    BY <1>1, <1>2, <1>5 DEF Inv, Attesting, Attested
  <1>7. Closing'
    <2>1. ~Alive(attestation) => ~Alive(attestation)'
      <3>1. attestation \in Processes /\ attestation.start <= starts
        BY DEF Inv, TypeOK, Young
      <3> QED BY <1>1, <3>1, DeadForGood DEF Inv, Alive
    <2>2. pc = "publish" => execution \in Executions
      BY <1>2 DEF Inv, Attesting
    <2> QED BY <1>1, <2>1, <2>2 DEF Inv, Closing, Attested
  <1>8. last # NoResult => last.by \in Executions
    BY DEF Inv, TypeOK, Results
  <1>9. Reported'
    BY <1>1, <1>8 DEF Inv, Reported, Loads
  <1>10. ClosedAsReported'
    BY <1>1, <1>5, <1>8 DEF Inv, Reported, ClosedAsReported
  <1>11. OthersSpared'
    <2>1. SUFFICES ASSUME NEW x \in signalled
                   PROVE  x \in {ident'[i] : i \in Executions} \cup mistaken
      BY <1>1 DEF OthersSpared
    <2>2. CASE x \in mistaken
      BY <2>2
    <2>3. CASE x \in {ident[i] : i \in Executions}
      <3>1. PICK i \in Executions : x = ident[i]
        BY <2>3
      <3>2. ident'[i] = x
        BY <2>1, <3>1 DEF Inv
      <3> QED BY <3>2
    <2> QED BY <2>2, <2>3 DEF Inv, OthersSpared
  <1>12. IsolationKept'
    BY <1>1, <1>2, <1>5 DEF Inv, Attesting, IsolationKept
  <1>13. (NoProcess \notin signalled)'
    BY <1>1 DEF Inv
  <1> QED BY <1>4, <1>6, <1>7, <1>9, <1>10, <1>11, <1>12, <1>13 DEF Inv

\* The next process takes a pid that is free.
LEMMA NextProcess ==
  ASSUME Inv, starts < MaxStarts, NEW p \in Pids,
         process' = [process EXCEPT ![p] = starts + 1], starts' = starts + 1
  PROVE  /\ process' \in [Pids -> 0..MaxStarts] /\ starts' \in 0..MaxStarts
         /\ Ages
         /\ [pid |-> p, start |-> starts + 1] \in Processes \ {NoProcess}
  <1>1. starts \in Nat /\ MaxStarts \in Nat
    BY BrowserUseAssumption DEF Inv, TypeOK
  <1>2. process' \in [Pids -> 0..MaxStarts] /\ starts' \in 0..MaxStarts
    BY <1>1 DEF Inv, TypeOK
  <1>3. Ages
    BY <1>1 DEF Inv, TypeOK, Young, Ages
  <1>4. [pid |-> p, start |-> starts + 1] \in Processes \ {NoProcess}
    BY <1>1 DEF Processes, NoProcess
  <1> QED BY <1>2, <1>3, <1>4

LEMMA DaemonStartsKeeps ==
  ASSUME Inv, NEW i \in Executions, DaemonStarts(i)
  PROVE  Inv'
  <1>1. PICK p \in Pids :
          /\ process' = [process EXCEPT ![p] = starts + 1]
          /\ ident' = [ident EXCEPT ![i] = [pid |-> p, start |-> starts + 1]]
    BY DEF DaemonStarts
  <1>2. /\ starts < MaxStarts /\ starts' = starts + 1 /\ daemon[i] = "none"
        /\ daemon' = [daemon EXCEPT ![i] = "starting"]
        /\ UNCHANGED <<execution, pc, progress, last, clis, endpoint, dirs, history>>
    BY DEF DaemonStarts
  <1> DEFINE new == [pid |-> p, start |-> starts + 1]
  <1>3. /\ process' \in [Pids -> 0..MaxStarts] /\ starts' \in 0..MaxStarts
        /\ Ages /\ new \in Processes \ {NoProcess} /\ new.start = starts'
    BY <1>1, <1>2, NextProcess
  <1> HIDE DEF new
  <1>4. ident' = [ident EXCEPT ![i] = new]
    BY <1>1 DEF new
  <1>5. TypeOK'
    BY <1>2, <1>3, <1>4 DEF Inv, TypeOK, progress, history
  <1>6. \A j \in Executions :
          /\ ident'[j] = IF j = i THEN new ELSE ident[j]
          /\ daemon'[j] = IF j = i THEN "starting" ELSE daemon[j]
    BY <1>2, <1>4 DEF Inv, TypeOK
  <1>7. ident[i] = NoProcess
    BY <1>2 DEF Inv, Young
  <1>8. starts' <= starts'
    BY <1>3, BrowserUseAssumption
  <1> QED BY <1>2, <1>3, <1>5, <1>6, <1>7, <1>8, OutsideKeeps DEF Inv, Young

LEMMA DaemonMovesKeeps ==
  ASSUME Inv, NEW i \in Executions,
         DaemonBinds(i) \/ DaemonHangs(i) \/ DaemonLeaves(i)
  PROVE  Inv'
  <1>1. PICK s \in {"serving", "hung", "leaving"} : daemon' = [daemon EXCEPT ![i] = s]
    BY DEF DaemonBinds, DaemonHangs, DaemonLeaves
  <1>2. /\ UNCHANGED <<execution, pc, progress, last, clis, ident, dirs, system, history>>
        /\ daemon[i] # "none"
        /\ \/ endpoint' = [endpoint EXCEPT ![i] = TRUE] /\ dirs[i]
           \/ endpoint' = [endpoint EXCEPT ![i] = FALSE]
           \/ endpoint' = endpoint
    BY DEF DaemonBinds, DaemonHangs, DaemonLeaves
  <1>3. TypeOK'
    <2>1. endpoint' \in [Executions -> BOOLEAN]
      BY <1>2 DEF Inv, TypeOK
    <2> QED BY <1>1, <1>2, <2>1 DEF Inv, TypeOK, progress, system, history
  <1>4. Ages
    BY <1>2, BrowserUseAssumption DEF Inv, TypeOK, Young, Ages, system
  <1>5. \A j \in Executions : /\ ident'[j] = ident[j]
                              /\ daemon'[j] = IF j = i THEN s ELSE daemon[j]
                              /\ endpoint'[j] => endpoint[j] \/ dirs[j]
    BY <1>1, <1>2 DEF Inv, TypeOK
  <1> QED BY <1>2, <1>3, <1>4, <1>5, OutsideKeeps DEF Inv, Young

\* The end of a process, its own or by a signal.
LEMMA DiesType ==
  ASSUME Inv, NEW x \in Processes \ {NoProcess}, Dies(x)
  PROVE  /\ process' \in [Pids -> 0..MaxStarts]
         /\ daemon' \in [Executions -> {"none", "starting", "serving", "hung", "leaving",
                                       "gone"}]
         /\ \A p \in Pids : process'[p] = IF p = x.pid THEN 0 ELSE process[p]
         /\ \A i \in Executions : ident[i] = NoProcess <=> daemon'[i] = "none"
  <1>1. process' \in [Pids -> 0..MaxStarts]
        /\ \A p \in Pids : process'[p] = IF p = x.pid THEN 0 ELSE process[p]
    <2>1. x.pid \in Pids /\ MaxStarts \in Nat
      BY BrowserUseAssumption DEF Processes
    <2> QED BY <2>1 DEF Inv, TypeOK, Dies
  <1>2. daemon' \in [Executions -> {"none", "starting", "serving", "hung", "leaving",
                                   "gone"}]
    BY DEF Inv, TypeOK, Dies
  <1>3. \A i \in Executions : ident[i] = NoProcess <=> daemon'[i] = "none"
    BY DEF Inv, Young, Dies
  <1> QED BY <1>1, <1>2, <1>3

LEMMA DiesAges ==
  ASSUME Inv, NEW x \in Processes \ {NoProcess}, Dies(x), starts' = starts
  PROVE  Ages
  <1>1. \A p \in Pids : process'[p] = IF p = x.pid THEN 0 ELSE process[p]
    BY DiesType
  <1> QED BY <1>1, BrowserUseAssumption DEF Inv, TypeOK, Young, Ages

LEMMA ProcessDiesKeeps ==
  ASSUME Inv, ProcessDies
  PROVE  Inv'
  <1>1. PICK p \in Pids : process[p] # 0 /\ Dies([pid |-> p, start |-> process[p]])
    BY DEF ProcessDies
  <1> DEFINE x == [pid |-> p, start |-> process[p]]
  <1>2. x \in Processes \ {NoProcess} /\ Dies(x)
    BY <1>1, BrowserUseAssumption DEF Inv, TypeOK, Processes, NoProcess
  <1> HIDE DEF x
  <1>3. UNCHANGED <<execution, pc, progress, last, clis, ident, endpoint, dirs, starts,
                    history>>
    BY DEF ProcessDies
  <1>4. TypeOK'
    BY <1>2, <1>3, DiesType DEF Inv, TypeOK, progress, history
  <1> QED BY <1>2, <1>3, <1>4, DiesType, DiesAges, OutsideKeeps

LEMMA OtherStartsKeeps ==
  ASSUME Inv, OtherStarts
  PROVE  Inv'
  <1>1. PICK p \in Pids : process' = [process EXCEPT ![p] = starts + 1]
    BY DEF OtherStarts
  <1>2. /\ starts < MaxStarts /\ starts' = starts + 1
        /\ UNCHANGED <<execution, pc, progress, last, daemons, endpoint, dirs, history>>
    BY DEF OtherStarts
  <1>3. /\ process' \in [Pids -> 0..MaxStarts] /\ starts' \in 0..MaxStarts /\ Ages
    BY <1>1, <1>2, NextProcess
  <1>4. TypeOK'
    BY <1>2, <1>3 DEF Inv, TypeOK, progress, daemons, history
  <1> QED BY <1>2, <1>3, <1>4, OutsideKeeps DEF Inv, Young, daemons

-----------------------------------------------------------------------------
(* execute_browser_use.                                                    *)

\* A step of Relay that leaves the attestation alone and removes no directory.
\* It may signal what is attested, and kill it.
LEMMA MoveKeeps ==
  ASSUME Inv, TypeOK', Ages, pc # "idle",
         UNCHANGED <<execution, attestation, ident, dirs, endpoint, last, starts,
                     attested, mistaken>>,
         \A i \in Executions : ident[i] = NoProcess <=> daemon'[i] = "none",
         signalled' \in {signalled, signalled \cup {attestation}} ,
         signalled' # signalled => Attested,
         pc' \in {"running", "import", "attest", "token"} => ~Attested,
         pc' = "token" => ident[execution] # NoProcess /\ heard' = ident[execution].pid,
         closed' => closed \/ ~Alive(attestation)',
         pc' \in Working => ~closed',
         ~closed' => ~closed,
         pc' = "publish" => ~closed',
         pc' \in {"settle", "terminate", "await"} => Attested
  PROVE  Inv'
  <1>1. \A x \in Processes : x.start <= starts /\ ~Alive(x) =>
          x = NoProcess \/ process'[x.pid] # x.start
    BY DeadForGood DEF Inv
  <1>2. ~Alive(attestation) => ~Alive(attestation)'
    <2>1. attestation \in Processes /\ attestation.start <= starts
      BY DEF Inv, TypeOK, Young
    <2> QED BY <1>1, <2>1 DEF Alive
  <1>3. \A i \in Executions : ~Alive(ident[i]) => ~Alive(ident[i])'
    <2>1. \A i \in Executions : ident[i] \in Processes /\ ident[i].start <= starts
      BY DEF Inv, TypeOK, Young
    <2> QED BY <1>1, <2>1 DEF Alive
  <1>4. execution \in Executions
    BY BrowserUseAssumption DEF Inv, Attesting, TypeOK, Executions
  <1>5. Young'
    BY DEF Inv, Young, Ages
  <1>6. Attesting'
    BY <1>3, <1>4 DEF Inv, Attesting, Attested
  <1>7. Closing'
    BY <1>2 DEF Inv, Closing, Attested
  <1>8. last # NoResult => last.by \in Executions
    BY DEF Inv, TypeOK, Results
  <1>9. Reported'
    BY <1>8 DEF Inv, Reported, Loads
  <1>10. ClosedAsReported'
    BY <1>3, <1>8 DEF Inv, ClosedAsReported
  <1>11. OthersSpared' /\ (NoProcess \notin signalled)'
    <2>1. Attested => attestation \in {ident[i] : i \in Executions} \cup mistaken
      BY <1>4 DEF Inv, Attesting
    <2> QED BY <2>1 DEF Inv, OthersSpared, Attested
  <1>12. IsolationKept'
    BY <1>3 DEF Inv, IsolationKept, TypeOK
  <1> QED BY <1>5, <1>6, <1>7, <1>9, <1>10, <1>11, <1>12 DEF Inv

\* One that also leaves the processes alone.
LEMMA StepKeeps ==
  ASSUME Inv, TypeOK', pc # "idle",
         UNCHANGED <<execution, attestation, daemon, ident, dirs, endpoint, last, system,
                     attested, mistaken>>,
         signalled' \in {signalled, signalled \cup {attestation}},
         signalled' # signalled => Attested,
         pc' \in {"running", "import", "attest", "token"} => ~Attested,
         pc' = "token" => ident[execution] # NoProcess /\ heard' = ident[execution].pid,
         closed' => closed \/ ~Alive(attestation),
         pc' \in Working => ~closed',
         ~closed' => ~closed,
         pc' = "publish" => ~closed',
         pc' \in {"settle", "terminate", "await"} => Attested
  PROVE  Inv'
  <1>1. Ages /\ starts' = starts
    BY BrowserUseAssumption DEF Inv, TypeOK, Young, Ages, system
  <1>2. Alive(attestation)' = Alive(attestation)
    BY DEF Alive, system
  <1>3. \A i \in Executions : ident[i] = NoProcess <=> daemon'[i] = "none"
    BY DEF Inv, Young
  <1> QED BY <1>1, <1>2, <1>3, MoveKeeps

LEMMA BeginKeeps ==
  ASSUME Inv, Begin
  PROVE  Inv'
  <1>1. /\ execution' = execution + 1 /\ execution < MaxExecutions /\ last' = NoResult
        /\ closed' = FALSE /\ attestation' = NoProcess
        /\ UNCHANGED <<daemon, ident, endpoint, system, history>>
    BY DEF Begin, Invalidate
  <1>2. execution' \in Executions /\ execution' > 0 /\ execution \in Nat
    BY <1>1, BrowserUseAssumption DEF Inv, TypeOK, Executions
  <1>3. /\ process' = process /\ starts' = starts
        /\ attested' = attested /\ mistaken' = mistaken /\ signalled' = signalled
    BY <1>1 DEF system, history
  <1>4. /\ dirs' \in {dirs, [dirs EXCEPT ![execution + 1] = TRUE]}
        /\ pc' \in {"idle", "running"}
        /\ pc' = "running" => dirs' = [dirs EXCEPT ![execution + 1] = TRUE]
    BY DEF Begin, CreateIsolation, CreateIsolationFails, Goto
  <1>5. clis' \subseteq Executions
    BY <1>1, <1>2 DEF Begin, Inv, TypeOK
  <1>6. TypeOK'
    <2>1. /\ runner' \in {"browser-use", "configured"} /\ cli' = "ok" /\ heard' = NoPid
          /\ cleaned' = FALSE /\ again' = FALSE
      BY DEF Begin, Command
    <2>2. execution' \in 0..MaxExecutions
      BY <1>2, BrowserUseAssumption DEF Executions
    <2>4. dirs' \in [Executions -> BOOLEAN]
      BY <1>4 DEF Inv, TypeOK
    <2>3. NoProcess \in Processes
      BY DEF Processes
    <2> QED BY <1>1, <1>3, <1>4, <1>5, <2>1, <2>2, <2>3, <2>4 DEF Inv, TypeOK
  <1>7. Young'
    BY <1>1, <1>3, BrowserUseAssumption DEF Inv, Young, TypeOK, NoProcess
  <1>8. Attesting'
    BY <1>1, <1>2, <1>3, <1>4 DEF Inv, Attesting, Attested, TypeOK, Executions
  <1>9. dirs'[execution'] = TRUE \/ pc' = "idle"
    BY <1>1, <1>2, <1>4 DEF Inv, TypeOK
  <1>10. Closing'
    BY <1>1, <1>4, <1>9 DEF Closing, Working
  <1>11. Reported' /\ ClosedAsReported'
    BY <1>1 DEF Reported, ClosedAsReported
  <1>12. OthersSpared' /\ (NoProcess \notin signalled)'
    BY <1>1, <1>3 DEF Inv, OthersSpared
  <1>13. IsolationKept'
    BY <1>1, <1>3, <1>4 DEF Inv, IsolationKept, TypeOK, Alive
  <1> QED BY <1>6, <1>7, <1>8, <1>10, <1>11, <1>12, <1>13 DEF Inv

LEMMA CliEndsKeeps ==
  ASSUME Inv, CliEnds
  PROVE  Inv'
  <1>1. TypeOK'
    BY DEF CliEnds, Inv, TypeOK, Goto, system, history
  <1>2. /\ pc = "running" /\ pc' \in {"import", "recover"} /\ ~closed /\ ~Attested
        /\ UNCHANGED <<execution, attestation, closed, last, daemon, ident, endpoint, dirs,
                       system, attested, mistaken, signalled>>
    BY DEF CliEnds, Goto, Inv, Attesting, Closing, Working, history
  <1> QED BY <1>1, <1>2, StepKeeps

LEMMA ImportKeeps ==
  ASSUME Inv, Import
  PROVE  Inv'
  <1>1. TypeOK'
    BY DEF Import, Inv, TypeOK, Goto, progress, daemons, system, history
  <1>2. /\ pc = "import" /\ pc' \in {"attest", "recover"} /\ ~closed /\ ~Attested
        /\ UNCHANGED <<execution, attestation, closed, last, daemon, ident, endpoint, dirs,
                       system, attested, mistaken, signalled>>
    BY DEF Import, Goto, Inv, Attesting, Closing, Working, history, progress, daemons
  <1> QED BY <1>1, <1>2, StepKeeps

LEMMA PingKeeps ==
  ASSUME Inv, Ping
  PROVE  Inv'
  <1>1. execution \in Executions
    BY BrowserUseAssumption DEF Ping, Inv, Attesting, TypeOK, Executions
  <1>2. /\ pc = "attest" /\ pc' \in {"token", "shutdown"} /\ ~closed /\ ~Attested
        /\ UNCHANGED <<execution, attestation, closed, last, daemon, ident, endpoint, dirs,
                       system, attested, mistaken, signalled>>
    BY DEF Ping, Goto, Inv, Attesting, Closing, Working, history, daemons
  <1>3. pc' = "token" => ident[execution] # NoProcess /\ heard' = ident[execution].pid
    BY <1>1 DEF Ping, Goto, Answers, Inv, Young
  <1>4. heard' \in Pids \cup {NoPid}
    BY <1>1 DEF Ping, Inv, TypeOK, Processes, NoProcess
  <1>5. TypeOK'
    BY <1>2, <1>4 DEF Ping, Inv, TypeOK, system, history, daemons
  <1> QED BY <1>2, <1>3, <1>5, StepKeeps

\* The daemon is attested, or was dead when another process was.
LEMMA TokenKeeps ==
  ASSUME Inv, Token
  PROVE  Inv'
  <1>1. /\ pc = "token" /\ pc' = "shutdown" /\ ~closed
        /\ attestation' = Started(heard)
        /\ UNCHANGED <<execution, runner, cli, heard, closed, cleaned, again, last, clis,
                       daemon, ident, endpoint, dirs, process, starts, signalled>>
    BY DEF Token, Goto, Inv, Attesting, Closing, Working, daemons, system
  <1>2. /\ attested' = IF attestation' = ident[execution] THEN attested \cup {execution}
                                                         ELSE attested
        /\ mistaken' = IF attestation' \in {ident[execution], NoProcess} THEN mistaken
                                             ELSE mistaken \cup {attestation'}
    BY DEF Token
  <1>3. /\ execution \in Executions /\ execution > 0 /\ dirs[execution]
        /\ ident[execution] \in Processes \ {NoProcess} /\ heard = ident[execution].pid
    BY <1>1, BrowserUseAssumption DEF Inv, Attesting, Closing, TypeOK, Executions
  <1>4. heard \in Pids /\ ident[execution].start # 0
    BY <1>3 DEF Processes
  <1>5. /\ attestation' \in Processes
        /\ attestation' # NoProcess =>
             /\ attestation' = [pid |-> heard, start |-> process[heard]]
             /\ process[heard] # 0
    BY <1>1, <1>4, BrowserUseAssumption DEF Started, Inv, TypeOK, Processes
  <1>6. attestation'.start <= starts
    BY <1>4, <1>5, BrowserUseAssumption DEF Inv, Young, TypeOK, NoProcess
  <1>7. Alive(ident[execution]) => attestation' = ident[execution]
    <2>1. SUFFICES ASSUME Alive(ident[execution])
                   PROVE  attestation' = ident[execution]
      OBVIOUS
    <2>2. process[heard] = ident[execution].start
      BY <1>3, <2>1 DEF Alive
    <2>3. attestation' = [pid |-> heard, start |-> process[heard]]
      BY <1>1, <1>4, <2>2 DEF Started
    <2> QED BY <1>3, <2>2, <2>3 DEF Processes
  <1>8. \A i \in Executions : Alive(ident[i])' = Alive(ident[i])
    BY <1>1 DEF Alive
  <1>9. TypeOK'
    BY <1>1, <1>2, <1>3, <1>5 DEF Inv, TypeOK
  <1>10. Young'
    BY <1>1, <1>6 DEF Inv, Young
  <1>11. Attesting'
    <2>1. ASSUME attestation' # NoProcess, attestation' # ident[execution]
          PROVE  attestation' \in mistaken' /\ ~Alive(ident[execution])
      <3>1. mistaken' = mistaken \cup {attestation'}
        BY <1>2, <2>1
      <3> QED BY <1>7, <2>1, <3>1
    <2>2. execution \in attested' => attestation' = ident[execution]
      <3>1. SUFFICES ASSUME execution \in attested, ident[execution] # attestation'
                     PROVE  FALSE
        BY <1>2
      <3>2. attestation = ident[execution] /\ Attested
        BY <1>3, <3>1 DEF Inv, Attesting, Attested
      <3> QED BY <1>1, <3>2 DEF Inv, Attesting
    <2>3. \A i \in attested' : i <= execution /\ ident[i] # NoProcess
      BY <1>2, <1>3 DEF Inv, Attesting, TypeOK, Executions
    <2> QED BY <1>1, <1>3, <1>8, <2>1, <2>2, <2>3 DEF Attesting, Attested
  <1>12. Closing'
    BY <1>1, <1>3 DEF Closing
  <1>13. last # NoResult => last.by \in Executions
    BY DEF Inv, TypeOK, Results
  <1>14. Reported' /\ ClosedAsReported'
    BY <1>1, <1>8, <1>13 DEF Inv, Reported, ClosedAsReported, Loads
  <1>15. OthersSpared' /\ (NoProcess \notin signalled)'
    BY <1>1, <1>2 DEF Inv, OthersSpared
  <1>16. IsolationKept'
    BY <1>1, <1>2, <1>3, <1>8 DEF Inv, IsolationKept, TypeOK
  <1> QED BY <1>9, <1>10, <1>11, <1>12, <1>14, <1>15, <1>16 DEF Inv

-----------------------------------------------------------------------------
(* _shutdown_daemon.                                                       *)

LEMMA ShutdownKeeps ==
  ASSUME Inv, Shutdown
  PROVE  Inv'
  <1>1. /\ pc = "shutdown" /\ ~closed
        /\ UNCHANGED <<execution, runner, cli, heard, attestation, cleaned, again, last,
                       clis, daemon, ident, endpoint, dirs, system, attested, mistaken,
                       signalled>>
    BY DEF Shutdown, Inv, Closing, Working, daemons, history
  <1>2. \/ Attested /\ pc' = "settle" /\ closed' = closed
        \/ /\ ~Attested /\ pc' \in {"finish", "conclude"} /\ closed' \in BOOLEAN
           /\ ~Alive(attestation)
    BY <1>1 DEF Shutdown, ShutdownEnds, Goto, Socket, Attested, Alive, Inv, TypeOK
  <1>3. TypeOK'
    BY <1>1, <1>2 DEF Inv, TypeOK, system
  <1> QED BY <1>1, <1>2, <1>3, StepKeeps DEF Working

LEMMA SettleKeeps ==
  ASSUME Inv, Settle
  PROVE  Inv'
  <1>1. /\ pc = "settle" /\ ~closed /\ Attested
        /\ UNCHANGED <<execution, runner, cli, heard, attestation, cleaned, again, last,
                       clis, daemon, ident, endpoint, dirs, system, attested, mistaken,
                       signalled>>
    BY DEF Settle, Inv, Closing, Working, daemons, history
  <1>2. \/ pc' = "terminate" /\ closed' = closed
        \/ pc' \in {"finish", "conclude"} /\ closed' = FALSE
        \/ pc' \in {"finish", "conclude"} /\ closed' = TRUE /\ ~Alive(attestation)
    BY <1>1 DEF Settle, ShutdownEnds, Goto, Gone, SameProcess
  <1>3. TypeOK'
    BY <1>1, <1>2 DEF Inv, TypeOK, system
  <1> QED BY <1>1, <1>2, <1>3, StepKeeps DEF Working

\* Only what is alive and attested is signalled.
LEMMA SignalType ==
  ASSUME Inv, SameProcess
  PROVE  /\ Started(attestation.pid) = attestation
         /\ attestation \in Processes \ {NoProcess}
  <1>1. /\ attestation \in Processes \ {NoProcess}
        /\ process[attestation.pid] = attestation.start
    BY DEF SameProcess, Attested, Alive, Inv, TypeOK
  <1> QED BY <1>1 DEF Started, Processes

LEMMA TerminateKeeps ==
  ASSUME Inv, Terminate
  PROVE  Inv'
  <1>1. /\ pc = "terminate" /\ ~closed /\ Attested
        /\ UNCHANGED <<execution, runner, cli, heard, attestation, cleaned, again, last,
                       clis, daemon, ident, endpoint, dirs, system, attested, mistaken>>
    BY DEF Terminate, Inv, Closing, Working, daemons
  <1>2. \/ /\ SameProcess /\ pc' = "await" /\ closed' = closed
           /\ signalled' = signalled \cup {attestation}
        \/ /\ pc' \in {"finish", "conclude"} /\ closed' \in BOOLEAN
           /\ ~Alive(attestation) /\ signalled' = signalled
    BY <1>1, SignalType
       DEF Terminate, ShutdownEnds, Goto, SameProcess, Socket, Signal, Inv, TypeOK
  <1>3. signalled' \subseteq Processes
    BY <1>2 DEF Inv, TypeOK
  <1>4. TypeOK'
    BY <1>1, <1>2, <1>3 DEF Inv, TypeOK, system
  <1> QED BY <1>1, <1>2, <1>4, StepKeeps DEF Working

LEMMA AwaitKeeps ==
  ASSUME Inv, Await
  PROVE  Inv'
  <1>1. /\ pc = "await" /\ ~closed /\ Attested
        /\ pc' \in {"finish", "conclude"} /\ closed' \in BOOLEAN
        /\ UNCHANGED <<execution, runner, cli, heard, attestation, cleaned, again, last,
                       clis, ident, endpoint, dirs, starts, attested, mistaken>>
    BY DEF Await, Inv, Closing, Working, ShutdownEnds, Goto, Socket, TypeOK
  <1>2. CASE SameProcess /\ Signal /\ Dies(Started(attestation.pid))
    <2>1. /\ attestation \in Processes \ {NoProcess} /\ Dies(attestation)
          /\ signalled' = signalled \cup {attestation}
      BY <1>2, SignalType DEF Signal
    <2>2. /\ process' \in [Pids -> 0..MaxStarts]
          /\ daemon' \in [Executions -> {"none", "starting", "serving", "hung", "leaving",
                                        "gone"}]
          /\ \A p \in Pids : process'[p] = IF p = attestation.pid THEN 0 ELSE process[p]
          /\ \A i \in Executions : ident[i] = NoProcess <=> daemon'[i] = "none"
      BY <2>1, DiesType
    <2>3. ~Alive(attestation)'
      BY <1>1, <2>1, <2>2 DEF Alive, Processes
    <2>4. signalled' \subseteq Processes
      BY <2>1 DEF Inv, TypeOK
    <2>5. TypeOK'
      BY <1>1, <2>2, <2>4 DEF Inv, TypeOK
    <2> QED BY <1>1, <2>1, <2>2, <2>3, <2>5, DiesAges, MoveKeeps DEF Working
  <1>3. CASE ~SameProcess /\ UNCHANGED <<signalled, process, daemon>>
    <2>1. TypeOK'
      BY <1>1, <1>3 DEF Inv, TypeOK
    <2>2. ~Alive(attestation)
      BY <1>1, <1>3 DEF SameProcess
    <2> QED BY <1>1, <1>3, <2>1, <2>2, StepKeeps DEF Working, system
  <1> QED BY <1>2, <1>3 DEF Await

-----------------------------------------------------------------------------
(* The result.                                                             *)

\* What is gone needs no directory: it is the daemon that was attested.
LEMMA CleanupKeeps ==
  ASSUME Inv, closed, pc # "idle", Cleanup, pc' \in {"publish", "idle"},
         UNCHANGED <<execution, runner, cli, heard, attestation, closed, again, last,
                     daemons, system, history>>
  PROVE  Inv'
  <1>1. execution \in Executions /\ execution > 0
    BY BrowserUseAssumption DEF Inv, Attesting, TypeOK, Executions
  <1>2. /\ dirs' \in [Executions -> BOOLEAN] /\ endpoint' \in [Executions -> BOOLEAN]
        /\ cleaned' = TRUE
        /\ \A i \in Executions : /\ dirs'[i] = (dirs[i] /\ i # execution)
                                 /\ endpoint'[i] = (endpoint[i] /\ i # execution)
    BY DEF Cleanup, Inv, TypeOK
  <1>3. /\ UNCHANGED <<clis, daemon, ident, process, starts>>
        /\ UNCHANGED <<attested, mistaken, signalled>>
    BY DEF daemons, system, history
  <1>4. TypeOK'
    BY <1>2, <1>3 DEF Inv, TypeOK
  <1>5. Alive(attestation)' = Alive(attestation)
        /\ \A i \in Executions : Alive(ident[i])' = Alive(ident[i])
    BY <1>3 DEF Alive
  <1>6. Young' /\ (NoProcess \notin signalled)' /\ OthersSpared'
    BY <1>3 DEF Inv, Young, OthersSpared
  <1>7. Attesting'
    BY <1>1, <1>3, <1>5 DEF Inv, Attesting, Attested
  <1>8. Closing'
    BY <1>1, <1>2, <1>5 DEF Inv, Closing, Working
  <1>9. last # NoResult => last.by \in Executions
    BY DEF Inv, TypeOK, Results
  <1>10. Reported' /\ ClosedAsReported'
    BY <1>2, <1>3, <1>5, <1>9 DEF Inv, Reported, ClosedAsReported, Loads
  <1>11. IsolationKept'
    <2>1. execution \in attested => ~Alive(ident[execution])
      BY DEF Inv, Attesting, Closing
    <2> QED BY <1>2, <1>3, <1>5, <2>1 DEF Inv, IsolationKept, TypeOK
  <1> QED BY <1>4, <1>6, <1>7, <1>8, <1>10, <1>11 DEF Inv

LEMMA ConcludeKeeps ==
  ASSUME Inv, Conclude
  PROVE  Inv'
  <1>1. /\ pc = "conclude"
        /\ UNCHANGED <<execution, runner, cli, heard, attestation, closed, again, last,
                       daemons, system, history>>
    BY DEF Conclude
  <1>2. CASE closed /\ Cleanup /\ Goto("publish")
    BY <1>1, <1>2, CleanupKeeps DEF Goto
  <1>3. CASE /\ UNCHANGED <<dirs, endpoint, cleaned>>
             /\ (closed /\ Goto("recover")) \/ (~closed /\ Goto("publish"))
    <2>1. TypeOK'
      BY <1>1, <1>3 DEF Inv, TypeOK, Goto, daemons, system, history
    <2> QED BY <1>1, <1>3, <2>1, StepKeeps DEF Goto, Working, daemons, history
  <1> QED
    <2>1. \/ closed /\ Cleanup /\ Goto("publish")
          \/ closed /\ Goto("recover") /\ UNCHANGED <<dirs, endpoint, cleaned>>
          \/ ~closed /\ Goto("publish") /\ UNCHANGED <<dirs, endpoint, cleaned>>
      BY DEF Conclude
    <2> QED BY <1>2, <1>3, <2>1

\* No way through the function makes a result that contradicts itself.
LEMMA ResultFacts ==
  ASSUME TypeOK, execution \in Executions
  PROVE  /\ Result \in Results /\ Result.by = execution
         /\ Loads(Result)
         /\ Result.daemon = "attested-and-closed" => closed /\ Attested
         /\ Result.status = "succeeded" /\ Result.runner = "browser-use" =>
              Result.daemon = "attested-and-closed"
  <1>1. /\ closed \in BOOLEAN /\ cli \in {"ok", "exit", "stopped"}
        /\ runner \in {"browser-use", "configured"} /\ Attested \in BOOLEAN
    BY DEF TypeOK, Attested
  <1>2. /\ Failure \in {"none", "stopped", "exit", "attestation", "cleanup"}
        /\ Failure = "cleanup" <=> ~closed
        /\ Failure = "none" => closed /\ cli = "ok" /\ (runner = "browser-use" => Attested)
    BY <1>1 DEF Failure
  <1> DEFINE how == CASE ~closed -> "cleanup-failed"
                      [] closed /\ Attested -> "attested-and-closed"
                      [] closed /\ ~Attested -> "not-attested"
             what == IF cli = "ok" /\ Failure = "none" THEN "succeeded" ELSE "failed"
             way == IF Attested THEN "isolated-daemon-cdp"
                                ELSE "configured-command-unattested"
  <1>3. /\ how \in {"attested-and-closed", "not-attested", "cleanup-failed"}
        /\ how = "cleanup-failed" <=> ~closed
        /\ how = "attested-and-closed" <=> closed /\ Attested
        /\ how = "not-attested" <=> closed /\ ~Attested
    BY <1>1
  <1>4. what \in {"succeeded", "failed"} /\ (what = "succeeded" <=> Failure = "none")
    BY <1>2
  <1>5. /\ way \in {"isolated-daemon-cdp", "configured-command-unattested"}
        /\ way = "isolated-daemon-cdp" <=> Attested
        /\ way = "configured-command-unattested" <=> ~Attested
    BY <1>1
  <1>6. Result = [by |-> execution, runner |-> runner, failure |-> Failure,
                  status |-> what, cdp |-> way, daemon |-> how]
    BY DEF Result
  <1> HIDE DEF how, what, way
  <1>7. Result \in Results
    BY <1>1, <1>2, <1>3, <1>4, <1>5, <1>6 DEF Results
  <1>8. /\ Result.by = execution /\ Result.runner = runner /\ Result.failure = Failure
        /\ Result.status = what /\ Result.cdp = way /\ Result.daemon = how
    BY <1>6
  <1> QED BY <1>1, <1>2, <1>3, <1>4, <1>5, <1>7, <1>8 DEF Loads

LEMMA PublishKeeps ==
  ASSUME Inv, Publish
  PROVE  Inv'
  <1>1. /\ pc = "publish" /\ pc' = "recover" /\ last' \in {last, Result}
        /\ UNCHANGED <<execution, progress, daemons, endpoint, dirs, system, history>>
    BY DEF Publish, Write, Goto
  <1>2. execution \in Executions /\ execution > 0
    BY <1>1, BrowserUseAssumption DEF Inv, Attesting, TypeOK, Executions
  <1>3. /\ UNCHANGED <<runner, cli, heard, attestation, closed, cleaned, again>>
        /\ UNCHANGED <<clis, daemon, ident, process, starts>>
        /\ UNCHANGED <<attested, mistaken, signalled>>
    BY <1>1 DEF progress, daemons, system, history
  <1>4. Result \in Results
    BY <1>2, ResultFacts DEF Inv
  <1>5. TypeOK'
    BY <1>1, <1>3, <1>4 DEF Inv, TypeOK
  <1>6. Alive(attestation)' = Alive(attestation)
        /\ \A i \in Executions : Alive(ident[i])' = Alive(ident[i])
    BY <1>3 DEF Alive
  <1>7. Young' /\ (NoProcess \notin signalled)' /\ OthersSpared' /\ Attesting' /\ Closing'
    BY <1>1, <1>2, <1>3, <1>6
       DEF Inv, Young, OthersSpared, Attesting, Attested, Closing, Working
  <1>8. IsolationKept'
    BY <1>1, <1>3, <1>6 DEF Inv, IsolationKept, TypeOK
  <1>9. Reported' /\ ClosedAsReported'
    <2>1. CASE last' = last
      <3>1. last # NoResult => last.by \in Executions
        BY DEF Inv, TypeOK, Results
      <3> QED BY <1>1, <1>3, <1>6, <2>1, <3>1
          DEF Inv, Reported, ClosedAsReported, Loads
    <2>2. CASE last' = Result
      <3>1. /\ last'.by = execution /\ Loads(last)'
            /\ last'.daemon = "attested-and-closed" => closed /\ Attested
            /\ last'.status = "succeeded" /\ last'.runner = "browser-use" =>
                 last'.daemon = "attested-and-closed"
        BY <1>2, <2>2, ResultFacts DEF Inv, Loads
      <3>2. closed /\ Attested =>
              /\ ident[execution] # NoProcess /\ ~Alive(ident[execution])
              /\ ~dirs[execution] /\ ~endpoint[execution]
        BY <1>1 DEF Inv, Attesting, Closing
      <3>3. Reported'
        BY <1>1, <1>3, <3>1, <3>2 DEF Reported
      <3>4. ClosedAsReported'
        BY <1>1, <1>2, <1>3, <1>6, <3>1, <3>2 DEF ClosedAsReported
      <3> QED BY <3>3, <3>4
    <2> QED BY <1>1, <2>1, <2>2
  <1> QED BY <1>5, <1>7, <1>8, <1>9 DEF Inv

LEMMA RecoverKeeps ==
  ASSUME Inv, Recover
  PROVE  Inv'
  <1>1. /\ pc = "recover" /\ again' = TRUE
        /\ UNCHANGED <<execution, runner, cli, heard, attestation, closed, cleaned, last,
                       clis, daemon, ident, endpoint, dirs, system, attested, mistaken,
                       signalled>>
    BY DEF Recover, daemons, history
  <1>2. closed \in BOOLEAN /\ Attested \in BOOLEAN
    BY DEF Inv, TypeOK, Attested
  <1>3. \/ closed /\ pc' = "finish"
        \/ ~closed /\ Attested /\ pc' = "shutdown"
        \/ ~closed /\ ~Attested /\ pc' = "attest"
    BY <1>2 DEF Recover, Goto
  <1>4. TypeOK'
    BY <1>1, <1>3 DEF Inv, TypeOK, system
  <1> QED BY <1>1, <1>3, <1>4, StepKeeps DEF Working

LEMMA FinishKeeps ==
  ASSUME Inv, Finish
  PROVE  Inv'
  <1>1. /\ pc = "finish" /\ pc' = "idle"
        /\ UNCHANGED <<execution, runner, cli, heard, attestation, closed, again, last,
                       daemons, system, history>>
    BY DEF Finish, Goto
  <1>2. CASE closed /\ Cleanup
    BY <1>1, <1>2, CleanupKeeps
  <1>3. CASE UNCHANGED <<dirs, endpoint, cleaned>>
    <2>1. TypeOK'
      BY <1>1, <1>3 DEF Inv, TypeOK, daemons, system, history
    <2> QED BY <1>1, <1>3, <2>1, StepKeeps DEF Working, daemons, history
  <1> QED BY <1>2, <1>3 DEF Finish

LEMMA CrashKeeps ==
  ASSUME Inv, Crash
  PROVE  Inv'
  <1>1. /\ pc # "idle" /\ pc' = "idle"
        /\ UNCHANGED <<execution, progress, last, daemons, endpoint, dirs, system, history>>
    BY DEF Crash, Goto
  <1>2. TypeOK'
    BY <1>1 DEF Inv, TypeOK, progress, daemons, system, history
  <1> QED BY <1>1, <1>2, StepKeeps DEF Working, progress, daemons, history

-----------------------------------------------------------------------------
LEMMA InvInit == Init => Inv
  <1> SUFFICES ASSUME Init PROVE Inv
    OBVIOUS
  <1>1. TypeOK
    <2>1. MaxExecutions \in Nat /\ MaxStarts \in Nat
      BY BrowserUseAssumption
    <2>2. /\ execution \in 0..MaxExecutions /\ starts \in 0..MaxStarts
          /\ process \in [Pids -> 0..MaxStarts]
      BY <2>1 DEF Init
    <2>3. {closed, cleaned, again} \subseteq BOOLEAN
      BY DEF Init
    <2>4. {mistaken, signalled} \subseteq SUBSET Processes
          /\ clis \subseteq Executions /\ attested \subseteq Executions
      BY Zenon DEF Init
    <2>5. NoProcess \in Processes
      BY DEF Processes
    <2> QED BY <2>2, <2>3, <2>4, <2>5 DEF Init, TypeOK
  <1>2. Young
    BY DEF Init, Young, NoProcess
  <1>3. Attesting /\ Closing
    BY DEF Init, Attesting, Attested, Closing, Working
  <1>4. Reported /\ ClosedAsReported /\ OthersSpared /\ IsolationKept
        /\ NoProcess \notin signalled
    BY DEF Init, Reported, ClosedAsReported, OthersSpared, IsolationKept
  <1> QED BY <1>1, <1>2, <1>3, <1>4 DEF Inv

LEMMA InvNext == Inv /\ [Next]_vars => Inv'
  <1> SUFFICES ASSUME Inv, [Next]_vars PROVE Inv'
    OBVIOUS
  <1>1. CASE Execute
    BY <1>1, BeginKeeps, CliEndsKeeps, ImportKeeps, PingKeeps, TokenKeeps, ShutdownKeeps,
       SettleKeeps, TerminateKeeps, AwaitKeeps, ConcludeKeeps, PublishKeeps, RecoverKeeps,
       FinishKeeps, CrashKeeps DEF Execute
  <1>2. CASE Environment
    BY <1>2, DaemonStartsKeeps, DaemonMovesKeeps, ProcessDiesKeeps, OtherStartsKeeps
       DEF Environment
  <1>3. CASE UNCHANGED vars
    <2>1. /\ UNCHANGED <<execution, pc, progress, last, dirs, history, clis, daemon, ident,
                         endpoint, process, starts>>
      BY <1>3 DEF vars, daemons, system
    <2>2. Ages
      BY <2>1, BrowserUseAssumption DEF Inv, TypeOK, Young, Ages
    <2>3. TypeOK'
      BY <2>1 DEF Inv, TypeOK, progress, history
    <2> QED BY <2>1, <2>2, <2>3, OutsideKeeps DEF Inv, Young
  <1> QED BY <1>1, <1>2, <1>3 DEF Next

LEMMA InvAlways == Spec => []Inv
  BY InvInit, InvNext, PTL DEF Spec

-----------------------------------------------------------------------------
\* Executions, daemons, processes and the result have their types.
THEOREM TypeCorrect == Spec => []TypeOK
  <1>1. Inv => TypeOK
    BY DEF Inv
  <1> QED BY <1>1, InvAlways, PTL

\* A result that says that the daemon is closed is true, and a success of the
\* installed runner says so (browser_use.py:819-845, 898-934).
THEOREM ReportsAreTrue == Spec => []ClosedAsReported
  <1>1. Inv => ClosedAsReported
    BY DEF Inv
  <1> QED BY <1>1, InvAlways, PTL

\* What is published can be loaded (browser_use.py:899-934, 1020-1083).
THEOREM ReportsLoad == Spec => []ResultLoads
  <1>1. Inv => ResultLoads
    BY DEF Inv, Reported, ResultLoads
  <1> QED BY <1>1, InvAlways, PTL

\* No process is signalled but a daemon, or one that was mistaken for it
\* before it was attested (browser_use.py:751-773, 784-816).
THEOREM OnlyDaemonsSignalled == Spec => []OthersSpared
  <1>1. Inv => OthersSpared
    BY DEF Inv
  <1> QED BY <1>1, InvAlways, PTL

\* An attested daemon keeps its directories as long as it lives
\* (browser_use.py:898-941).
THEOREM DirectoriesKept == Spec => []IsolationKept
  <1>1. Inv => IsolationKept
    BY DEF Inv
  <1> QED BY <1>1, InvAlways, PTL

\* The result on disk is of the latest execution (browser_use.py:848-856,
\* 874-876).
THEOREM LatestOnly == Spec => []ResultOfLatest
  <1>1. Inv => ResultOfLatest
    BY DEF Inv, Reported, ResultOfLatest
  <1> QED BY <1>1, InvAlways, PTL
=============================================================================
