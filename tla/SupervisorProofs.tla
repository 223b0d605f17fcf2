-------------------------- MODULE SupervisorProofs --------------------------
(***************************************************************************)
(* Proofs about Supervisor, for any commands, profiles, pids, number of    *)
(* backends and number of processes that start.                            *)
(***************************************************************************)
EXTENDS Supervisor, TLAPS

(***************************************************************************)
(* The inductive invariant.  World is what holds of processes and files,   *)
(* Local(c) what holds of a command and its memory, whatever the others    *)
(* do: for it is stable under Ages, which is all that anybody does to the  *)
(* processes.  The heart is Known: a start that was written down or read   *)
(* is one that had happened, and only the pid noted beside it can have it. *)
(***************************************************************************)
Known(f) ==
  /\ f.start <= starts
  /\ f.start # 0 => \A i \in Pids : process[i].start = f.start => i = f.pid
  /\ f.pid = NoPid => f.start = 0
  /\ f.status = "stopped" => f.pid = NoPid

World ==
  /\ \A i \in Pids : process[i].start <= starts
  /\ \A i, j \in Pids :
       process[i].start # 0 /\ process[i].start = process[j].start => i = j
  /\ \A a \in Areas : Known(file[a])

\* What each stage has, and has no more.
StageFacts(c) ==
  /\ draft[c].status = "stopped" => pc[c] \in Writing \cup {"remove"}
  /\ pc[c] \in {"idle", "teardown", "match"} \cup Launching => victim[c] = Nobody
  /\ pc[c] \in {"idle", "teardown"} \cup Launching => read[c] = NoFile
  /\ pc[c] \in Writing /\ draft[c].status # "stopped" => read[c] = NoFile
  /\ pc[c] \in Writing /\ draft[c].status = "launching" => victim[c] = Nobody
  /\ pc[c] = "gone" => victim[c] # Nobody

Remembered(c) ==
  /\ Known(draft[c])
  /\ Known(read[c])
  /\ victim[c].start <= starts
  /\ pc[c] = "gone" =>
       \A i \in Pids : process[i].start = victim[c].start => i = target[c]

\* The three properties, of one command.
Own(c) ==
  victim[c] # Nobody =>
    /\ victim[c].profile = as[c] /\ victim[c].leader
    /\ read[c].start \in {0, victim[c].start}

Stopped(c) ==
  draft[c].status = "stopped" => Dead(victim[c].start) /\ Dead(read[c].start)

Spared(c) == pc[c] = "remove" => Dead(read[c].start)

Local(c) == StageFacts(c) /\ Remembered(c) /\ Own(c) /\ Stopped(c) /\ Spared(c)

Inv == TypeOK /\ World /\ \A c \in Commands : Local(c)

\* Processes end, and later ones start.
Ages ==
  /\ starts' >= starts
  /\ \A i \in Pids : \/ process'[i] = process[i]
                     \/ process'[i].start = 0
                     \/ process'[i].start > starts

\* Command c has not moved.
Rests(c) ==
  /\ pc'[c] = pc[c] /\ as'[c] = as[c] /\ left'[c] = left[c] /\ draft'[c] = draft[c]
  /\ target'[c] = target[c] /\ read'[c] = read[c] /\ victim'[c] = victim[c]

-----------------------------------------------------------------------------
LEMMA FileType ==
  ASSUME NEW status \in {"none", "torn", "launching", "up", "backend-error",
                         "launch-error", "stopped"},
         NEW x \in Profiles \cup {NoProfile}, NEW i \in Pids \cup {NoPid}
  PROVE  File(status, x, i) \in Files
  BY SupervisorAssumption DEF File, Files

\* A pid is free, or has a process that started.
LEMMA ProcessType ==
  ASSUME TypeOK, NEW i \in Pids
  PROVE  /\ process[i] = Nobody <=> process[i].start = 0
         /\ process[i].start \in 0..MaxStarts
         /\ process[i].profile \in Profiles \cup {NoProfile}
  BY SupervisorAssumption DEF TypeOK, Processes, Starts, Nobody

\* What was written down stays true while processes come and go.
LEMMA KnownStays ==
  ASSUME NEW f \in Files, Known(f), Ages, starts \in Nat, starts' \in Nat,
         TypeOK, TypeOK'
  PROVE  Known(f)'
  <1>1. f.start \in Nat
    BY DEF Files
  <1>2. \A i \in Pids : process'[i].start \in Nat /\ process[i].start \in Nat
    BY SupervisorAssumption DEF TypeOK, Processes, Starts, Nobody
  <1> QED BY <1>1, <1>2 DEF Known, Ages

\* Who is dead stays dead: no start comes twice.
LEMMA DeadStays ==
  ASSUME NEW s \in Nat, s <= starts, Dead(s), Ages, TypeOK, TypeOK'
  PROVE  Dead(s)'
  <1>1. \A i \in Pids : process'[i].start \in Nat /\ process[i].start \in Nat
    BY SupervisorAssumption DEF TypeOK, Processes, Starts, Nobody
  <1> QED BY <1>1 DEF Dead, Ages, TypeOK

\* What holds of a command that rests goes on to hold.
LEMMA LocalStays ==
  ASSUME TypeOK, TypeOK', Ages, NEW c \in Commands, Local(c), Rests(c)
  PROVE  Local(c)'
  <1>1. /\ starts \in Nat /\ starts' \in Nat
        /\ draft[c] \in Files /\ read[c] \in Files
        /\ read[c].start \in Nat /\ victim[c].start \in Nat
    BY SupervisorAssumption DEF TypeOK, Files, Processes, Starts, Nobody
  <1>2. \A i \in Pids : process'[i].start \in Nat /\ process[i].start \in Nat
    BY SupervisorAssumption DEF TypeOK, Processes, Starts, Nobody
  <1>3. victim[c] = Nobody <=> victim[c].start = 0
    BY SupervisorAssumption DEF TypeOK, Processes, Starts, Nobody
  <1>4. Remembered(c)'
    <2>1. Known(draft[c])' /\ Known(read[c])'
      BY <1>1, KnownStays DEF Local, Remembered, Rests, Known
    <2> QED BY <1>1, <1>2, <1>3, <2>1 DEF Local, Remembered, StageFacts, Rests, Ages
  <1>5. Stopped(c)' /\ Spared(c)'
    <2>1. read[c].start <= starts /\ victim[c].start <= starts
      BY DEF Local, Remembered, Known
    <2>2. Dead(read[c].start) => Dead(read[c].start)'
      BY <1>1, <2>1, DeadStays DEF Rests, Dead
    <2>3. Dead(victim[c].start) => Dead(victim[c].start)'
      BY <1>1, <2>1, DeadStays DEF Rests, Dead
    <2> QED BY <2>2, <2>3 DEF Local, Stopped, Spared, Rests
  <1>6. StageFacts(c)' /\ Own(c)'
    BY DEF Local, StageFacts, Own, Rests
  <1> QED BY <1>4, <1>5, <1>6 DEF Local

LEMMA WorldStays ==
  ASSUME TypeOK, TypeOK', World, Ages, file' = file,
         \A i, j \in Pids :
           process'[i].start # 0 /\ process'[i].start = process'[j].start => i = j,
         \A i \in Pids : process'[i].start <= starts'
  PROVE  World'
  <1>1. \A a \in Areas : file[a] \in Files /\ Known(file[a])
    BY DEF TypeOK, World
  <1>2. starts \in Nat /\ starts' \in Nat
    BY DEF TypeOK
  <1>3. \A a \in Areas : Known(file[a])'
    BY <1>1, <1>2, KnownStays DEF Known
  <1> QED BY <1>3 DEF World

\* One command moves, and the processes are left alone.
LEMMA StepKeeps ==
  ASSUME Inv, TypeOK', World', Ages, NEW c \in Commands, Local(c)',
         \A d \in Commands \ {c} : Rests(d)
  PROVE  Inv'
  BY LocalStays DEF Inv

\* Writing a file about a process that is known.
LEMMA WorldWrites ==
  ASSUME TypeOK, World, UNCHANGED system, NEW a \in Areas, NEW f \in Files, Known(f),
         file' = [file EXCEPT ![a] = f]
  PROVE  World'
  <1>1. \A b \in Areas : file'[b] = f \/ file'[b] = file[b]
    BY DEF TypeOK
  <1>2. \A b \in Areas : Known(file[b])'
    <2> TAKE b \in Areas
    <2>1. CASE file'[b] = f
      BY <2>1 DEF Known, system
    <2>2. CASE file'[b] = file[b]
      BY <2>2 DEF Known, system, World
    <2> QED BY <1>1, <2>1, <2>2
  <1> QED BY <1>2 DEF World, system

LEMMA WorldCalm == ASSUME World, UNCHANGED <<system, file>> PROVE World'
  BY DEF World, Known, system

LEMMA SystemCalm == ASSUME TypeOK, UNCHANGED system PROVE Ages
  BY DEF TypeOK, Ages, system

\* No command is in the way of what another remembers.
LEMMA RememberedCalm ==
  ASSUME UNCHANGED system, NEW c \in Commands, Known(draft'[c]), Known(read'[c]),
         victim'[c].start <= starts, pc'[c] # "gone"
  PROVE  Remembered(c)'
  BY DEF Remembered, Known, system

LEMMA NoFileFacts ==
  /\ NoFile \in Files
  /\ NoFile.start = 0 /\ NoFile.pid = NoPid /\ NoFile.status = "none"
  /\ Nobody.start = 0
  /\ starts \in Nat => Known(NoFile)
  /\ Dead(0)
  <1>1. NoFile.start = 0 /\ NoFile.pid = NoPid /\ NoFile.status = "none"
    BY DEF NoFile, File
  <1> QED BY <1>1, FileType DEF Known, NoFile, Nobody, Dead

\* What a command says before it writes.
LEMMA Says ==
  ASSUME TypeOK, NEW c \in Commands, NEW i \in Pids \cup {NoPid},
         NEW status \in {"none", "torn", "launching", "up", "backend-error",
                         "launch-error", "stopped"},
         WillWrite(c, status, i), status = "stopped" => i = NoPid
  PROVE  /\ draft' \in [Commands -> Files] /\ pc' \in [Commands -> Stages]
         /\ pc'[c] = "write" /\ draft'[c].status = status
         /\ draft'[c].pid = i /\ draft'[c].start = 0
         /\ Known(draft'[c])
         /\ \A d \in Commands \ {c} : draft'[d] = draft[d] /\ pc'[d] = pc[d]
  <1>1. File(status, as[c], i) \in Files
    BY FileType DEF TypeOK
  <1>2. draft' = [draft EXCEPT ![c] = File(status, as[c], i)]
    BY DEF WillWrite
  <1>3. pc' = [pc EXCEPT ![c] = "write"]
    BY DEF WillWrite, Goto
  <1>4. draft'[c] = File(status, as[c], i)
    BY <1>2 DEF TypeOK
  <1>5. Known(File(status, as[c], i))
    BY DEF Known, File, TypeOK
  <1> QED BY <1>1, <1>2, <1>3, <1>4, <1>5 DEF TypeOK, File, Stages, Writing

\* A command that ends remembers nothing.
LEMMA LeaveClears ==
  ASSUME TypeOK, NEW c \in Commands, Leave(c)
  PROVE  /\ pc' \in [Commands -> Stages]
         /\ as' \in [Commands -> Profiles \cup {NoProfile}]
         /\ left' \in [Commands -> 1..MaxBackends]
         /\ draft' \in [Commands -> Files]
         /\ target' \in [Commands -> Pids \cup {NoPid}]
         /\ read' \in [Commands -> Files]
         /\ victim' \in [Commands -> Processes \cup {Nobody}]
         /\ \A d \in Commands \ {c} : Rests(d)
         /\ pc'[c] = "idle" /\ draft'[c] = NoFile /\ read'[c] = NoFile
         /\ victim'[c] = Nobody
  <1>1. NoFile \in Files /\ 1 \in 1..MaxBackends
    BY SupervisorAssumption, FileType DEF NoFile
  <1> QED BY <1>1 DEF TypeOK, Leave, Goto, Stages, Rests

LEMMA LeaveLocal ==
  ASSUME TypeOK', NEW c \in Commands, pc'[c] = "idle",
         draft'[c] = NoFile, read'[c] = NoFile, victim'[c] = Nobody
  PROVE  Local(c)'
  <1>1. /\ NoFile.start = 0 /\ NoFile.pid = NoPid /\ NoFile.status = "none"
        /\ Nobody.start = 0
    BY DEF NoFile, File, Nobody
  <1>2. starts' \in Nat
    BY DEF TypeOK
  <1>3. Remembered(c)'
    BY <1>1, <1>2 DEF Remembered, Known
  <1> QED BY <1>1, <1>3
    DEF Local, StageFacts, Own, Stopped, Spared, Dead, Launching, Writing

LEMMA AbandonKeeps ==
  ASSUME Inv, NEW c \in Commands, Abandon(c), UNCHANGED system
  PROVE  Inv'
  <1>1. NoFile \in Files /\ Known(NoFile) /\ "bench" \in Areas
    <2>1. NoFile.start = 0 /\ NoFile.pid = NoPid /\ NoFile.status = "none"
      BY DEF NoFile, File
    <2>2. NoFile \in Files
      BY FileType DEF NoFile
    <2> QED BY <2>1, <2>2 DEF Known, Areas, Inv, TypeOK
  <1>2. \/ UNCHANGED file
        \/ file' = [file EXCEPT !["bench"] = NoFile]
    BY DEF Abandon
  <1>3. TypeOK'
    <2>1. file' \in [Areas -> Files]
      BY <1>1, <1>2 DEF Inv, TypeOK
    <2> QED BY <2>1, LeaveClears DEF Inv, TypeOK, Abandon, system
  <1>4. World'
    BY <1>1, <1>2, WorldCalm, WorldWrites DEF Inv
  <1>5. Local(c)'
    BY <1>3, LeaveClears, LeaveLocal DEF Inv, Abandon
  <1> QED BY <1>3, <1>4, <1>5, LeaveClears, SystemCalm, StepKeeps DEF Inv, Abandon

\* A process starts: a new one, with a pid that was free.
LEMMA StartAges ==
  ASSUME TypeOK, World, NEW i \in Pids, NEW x \in Profiles \cup {NoProfile},
         NEW leader \in BOOLEAN, Start(i, x, leader)
  PROVE  /\ process' \in [Pids -> Processes \cup {Nobody}]
         /\ starts' \in 0..MaxStarts
         /\ Ages
         /\ \A j, k \in Pids :
              process'[j].start # 0 /\ process'[j].start = process'[k].start => j = k
         /\ \A j \in Pids : process'[j].start <= starts'
  <1> DEFINE new == [start |-> starts + 1, profile |-> x, leader |-> leader]
  <1>1. /\ starts \in Nat /\ starts' = starts + 1 /\ starts' \in 1..MaxStarts
        /\ process' = [process EXCEPT ![i] = new]
    BY SupervisorAssumption DEF Start, TypeOK
  <1>2. new \in Processes /\ new.start = starts + 1
    BY <1>1 DEF Processes, Starts
  <1>3. \A j \in Pids : process'[j] = IF j = i THEN new ELSE process[j]
    BY <1>1 DEF TypeOK
  <1>4. \A j \in Pids : process[j].start \in Nat /\ process[j].start <= starts
    BY SupervisorAssumption, ProcessType DEF World
  <1>5. process' \in [Pids -> Processes \cup {Nobody}]
    BY <1>1, <1>2 DEF TypeOK
  <1> HIDE DEF new
  <1> QED BY <1>1, <1>2, <1>3, <1>4, <1>5 DEF World, Ages

LEMMA LaunchKeeps ==
  ASSUME Inv, NEW c \in Commands, Launch(c)
  PROVE  Inv'
  <1> USE SupervisorAssumption DEF Goto
  <1>1. UNCHANGED <<system, file>>
    BY DEF Launch
  <1>2. TypeOK'
    <2>1. PICK x \in Profiles, stage \in {"adopt", "backend"} :
            /\ as' = [as EXCEPT ![c] = x]
            /\ left' = [left EXCEPT ![c] = MaxBackends]
            /\ pc' = [pc EXCEPT ![c] = stage]
      BY DEF Launch
    <2>2. pc' \in [Commands -> Stages]
      BY <2>1 DEF Inv, TypeOK, Stages, Launching
    <2>3. left' \in [Commands -> 1..MaxBackends]
      BY <2>1 DEF Inv, TypeOK
    <2>4. as' \in [Commands -> Profiles \cup {NoProfile}]
      BY <2>1 DEF Inv, TypeOK
    <2> QED BY <1>1, <2>2, <2>3, <2>4 DEF Inv, TypeOK, Launch, system
  <1>3. /\ pc'[c] \in {"adopt", "backend"}
        /\ draft'[c] = draft[c] /\ read'[c] = read[c] /\ victim'[c] = victim[c]
        /\ \A d \in Commands \ {c} : Rests(d)
    BY DEF Inv, TypeOK, Launch, Rests
  <1>4. Local(c)'
    <2>1. StageFacts(c) /\ Remembered(c) /\ pc[c] \notin {"remove", "gone"}
      BY DEF Inv, Local, Launch, Launching, Writing
    <2>2. StageFacts(c)' /\ victim'[c] = Nobody /\ read'[c] = NoFile
          /\ draft'[c].status # "stopped"
      BY <1>3, <2>1, NoFileFacts DEF StageFacts, Launch, Launching, Writing
    <2>3. Remembered(c)'
      BY <1>1, <1>3, <2>1, <2>2, NoFileFacts, RememberedCalm DEF Remembered, Inv, TypeOK
    <2> QED BY <1>3, <2>2, <2>3 DEF Local, Own, Stopped, Spared
  <1> QED BY <1>1, <1>2, <1>3, <1>4, WorldCalm, SystemCalm, StepKeeps DEF Inv

LEMMA AnsweredKeeps ==
  ASSUME Inv, NEW c \in Commands, Answered(c)
  PROVE  Inv'
  <1> USE SupervisorAssumption DEF Goto
  <1>1. UNCHANGED <<system, file>>
    BY DEF Answered
  <1>2. TypeOK'
    BY <1>1, NoFileFacts
    DEF Inv, TypeOK, Answered, system, memory, Stages, Launching, memory
  <1>3. /\ pc'[c] = "owner"
        /\ draft'[c] = draft[c] /\ read'[c] = read[c] /\ victim'[c] = victim[c]
        /\ \A d \in Commands \ {c} : Rests(d)
    BY DEF Inv, TypeOK, Answered, Rests, memory
  <1>4. Local(c)'
    <2>1. StageFacts(c) /\ Remembered(c) /\ pc[c] \notin {"remove", "gone"}
      BY DEF Inv, Local, Answered, Launching, Writing
    <2>2. StageFacts(c)' /\ victim'[c] = Nobody /\ read'[c] = NoFile
          /\ draft'[c].status # "stopped"
      BY <1>3, <2>1, NoFileFacts DEF StageFacts, Answered, Launching, Writing
    <2>3. Remembered(c)'
      BY <1>1, <1>3, <2>1, <2>2, NoFileFacts, RememberedCalm DEF Remembered, Inv, TypeOK
    <2> QED BY <1>3, <2>2, <2>3 DEF Local, Own, Stopped, Spared
  <1> QED BY <1>1, <1>2, <1>3, <1>4, WorldCalm, SystemCalm, StepKeeps DEF Inv

LEMMA UnansweredKeeps ==
  ASSUME Inv, NEW c \in Commands, Unanswered(c)
  PROVE  Inv'
  <1> USE SupervisorAssumption DEF Goto
  <1>1. UNCHANGED <<system, file>>
    BY DEF Unanswered
  <1>2. TypeOK'
    BY <1>1, NoFileFacts
    DEF Inv, TypeOK, Unanswered, system, memory, Stages, Launching, memory
  <1>3. /\ pc'[c] = "overdue"
        /\ draft'[c] = draft[c] /\ read'[c] = read[c] /\ victim'[c] = victim[c]
        /\ \A d \in Commands \ {c} : Rests(d)
    BY DEF Inv, TypeOK, Unanswered, Rests, memory
  <1>4. Local(c)'
    <2>1. StageFacts(c) /\ Remembered(c) /\ pc[c] \notin {"remove", "gone"}
      BY DEF Inv, Local, Unanswered, Launching, Writing
    <2>2. StageFacts(c)' /\ victim'[c] = Nobody /\ read'[c] = NoFile
          /\ draft'[c].status # "stopped"
      BY <1>3, <2>1, NoFileFacts DEF StageFacts, Unanswered, Launching, Writing
    <2>3. Remembered(c)'
      BY <1>1, <1>3, <2>1, <2>2, NoFileFacts, RememberedCalm DEF Remembered, Inv, TypeOK
    <2> QED BY <1>3, <2>2, <2>3 DEF Local, Own, Stopped, Spared
  <1> QED BY <1>1, <1>2, <1>3, <1>4, WorldCalm, SystemCalm, StepKeeps DEF Inv

LEMMA BenchmarkKeeps ==
  ASSUME Inv, NEW c \in Commands, Benchmark(c)
  PROVE  Inv'
  <1> USE SupervisorAssumption DEF Goto
  <1>1. UNCHANGED <<system, file>>
    BY DEF Benchmark
  <1>2. TypeOK'
    BY <1>1, NoFileFacts
    DEF Inv, TypeOK, Benchmark, system, memory, Stages, Launching
  <1>3. /\ pc'[c] = "backend"
        /\ draft'[c] = draft[c] /\ read'[c] = read[c] /\ victim'[c] = victim[c]
        /\ \A d \in Commands \ {c} : Rests(d)
    BY DEF Inv, TypeOK, Benchmark, Rests
  <1>4. Local(c)'
    <2>1. StageFacts(c) /\ Remembered(c) /\ pc[c] \notin {"remove", "gone"}
      BY DEF Inv, Local, Benchmark, Launching, Writing
    <2>2. StageFacts(c)' /\ victim'[c] = Nobody /\ read'[c] = NoFile
          /\ draft'[c].status # "stopped"
      BY <1>3, <2>1, NoFileFacts DEF StageFacts, Benchmark, Launching, Writing
    <2>3. Remembered(c)'
      BY <1>1, <1>3, <2>1, <2>2, NoFileFacts, RememberedCalm DEF Remembered, Inv, TypeOK
    <2> QED BY <1>3, <2>2, <2>3 DEF Local, Own, Stopped, Spared
  <1> QED BY <1>1, <1>2, <1>3, <1>4, WorldCalm, SystemCalm, StepKeeps DEF Inv

LEMMA LaunchExpiresKeeps ==
  ASSUME Inv, NEW c \in Commands, LaunchExpires(c)
  PROVE  Inv'
  <1> USE SupervisorAssumption DEF Goto
  <1>1. UNCHANGED <<system, file>>
    BY DEF LaunchExpires
  <1>2. TypeOK'
    <2>1. /\ pc' \in [Commands -> Stages] /\ left' \in [Commands -> 1..MaxBackends]
          /\ draft' \in [Commands -> Files]
          /\ victim' \in [Commands -> Processes \cup {Nobody}]
      BY NoFileFacts DEF Inv, TypeOK, LaunchExpires, EndLaunch, Stages
    <2> QED BY <1>1, <2>1 DEF Inv, TypeOK, LaunchExpires, EndLaunch, system
  <1>3. /\ pc'[c] = "teardown"
        /\ draft'[c] = NoFile /\ read'[c] = read[c] /\ victim'[c] = Nobody
        /\ \A d \in Commands \ {c} : Rests(d)
    BY DEF Inv, TypeOK, LaunchExpires, Rests, EndLaunch
  <1>4. Local(c)'
    <2>1. StageFacts(c) /\ Remembered(c) /\ pc[c] \notin {"remove", "gone"}
      BY DEF Inv, Local, LaunchExpires, Launching, Writing
    <2>2. StageFacts(c)' /\ victim'[c] = Nobody /\ read'[c] = NoFile
          /\ draft'[c].status # "stopped"
      BY <1>3, <2>1, NoFileFacts DEF StageFacts, LaunchExpires, Launching, Writing
    <2>3. Remembered(c)'
      BY <1>1, <1>3, <2>1, <2>2, NoFileFacts, RememberedCalm DEF Remembered, Inv, TypeOK
    <2> QED BY <1>3, <2>2, <2>3 DEF Local, Own, Stopped, Spared
  <1> QED BY <1>1, <1>2, <1>3, <1>4, WorldCalm, SystemCalm, StepKeeps DEF Inv

\* A command makes up its mind what to write, and may have signalled somebody.
LEMMA SaysKeeps ==
  ASSUME Inv, NEW c \in Commands, NEW i \in Pids \cup {NoPid},
         NEW status \in {"none", "torn", "launching", "up", "backend-error",
                         "launch-error", "stopped"},
         WillWrite(c, status, i), status = "stopped" => i = NoPid,
         UNCHANGED <<system, file, as, left, target, read>>,
         victim' \in [Commands -> Processes \cup {Nobody}],
         \A d \in Commands \ {c} : victim'[d] = victim[d],
         victim'[c].start <= starts,
         victim'[c] # Nobody =>
           /\ victim'[c].profile = as[c] /\ victim'[c].leader
           /\ read[c].start \in {0, victim'[c].start},
         status = "stopped" => Dead(victim'[c].start) /\ Dead(read[c].start),
         status # "stopped" => read[c] = NoFile,
         status = "launching" => victim'[c] = Nobody
  PROVE  Inv'
  <1> DEFINE said == /\ draft' \in [Commands -> Files] /\ pc' \in [Commands -> Stages]
                     /\ pc'[c] = "write" /\ draft'[c].status = status
                     /\ Known(draft'[c])
                     /\ \A d \in Commands \ {c} : draft'[d] = draft[d] /\ pc'[d] = pc[d]
  <1>1. said
    BY Says DEF Inv
  <1>2. TypeOK'
    BY <1>1 DEF Inv, TypeOK, system
  <1>3. \A d \in Commands \ {c} : Rests(d)
    BY <1>1 DEF Rests
  <1>4. Local(c)'
    <2>1. Remembered(c)'
      <3>1. Known(read'[c])
        BY DEF Inv, Local, Remembered
      <3> QED BY <1>1, <3>1, RememberedCalm
    <2>2. StageFacts(c)'
      BY <1>1 DEF StageFacts, Launching, Writing
    <2>3. Own(c)'
      BY DEF Own
    <2>4. Stopped(c)' /\ Spared(c)'
      BY <1>1 DEF Stopped, Spared, Dead, system
    <2> QED BY <2>1, <2>2, <2>3, <2>4 DEF Local
  <1> QED BY <1>2, <1>3, <1>4, WorldCalm, SystemCalm, StepKeeps DEF Inv

\* Before the browser is asked for, nothing was read and nobody signalled.
LEMMA LaunchingFacts ==
  ASSUME Inv, NEW c \in Commands, pc[c] \in Launching
  PROVE  /\ read[c] = NoFile /\ victim[c] = Nobody
         /\ NoFile.start = 0 /\ Nobody.start = 0 /\ starts \in Nat
  BY NoFileFacts DEF Inv, TypeOK, Local, StageFacts

LEMMA SaysCalmly ==
  ASSUME Inv, NEW c \in Commands, pc[c] \in Launching, NEW i \in Pids \cup {NoPid},
         NEW status \in {"launching", "up", "backend-error", "launch-error"},
         WillWrite(c, status, i),
         UNCHANGED <<system, file, as, left, target, read, victim>>
  PROVE  Inv'
  <1>1. victim \in [Commands -> Processes \cup {Nobody}]
    BY DEF Inv, TypeOK
  <1>2. victim' = victim /\ victim[c] = Nobody /\ victim[c].start <= starts
    BY LaunchingFacts
  <1>3. read[c] = NoFile
    BY LaunchingFacts
  <1> QED BY <1>1, <1>2, <1>3, SaysKeeps

LEMMA AdoptKeeps ==
  ASSUME Inv, NEW c \in Commands, Adopt(c)
  PROVE  Inv'
  BY SaysCalmly DEF Adopt, Launching

LEMMA IdentifyKeeps ==
  ASSUME Inv, NEW c \in Commands, Identify(c)
  PROVE  Inv'
  BY SaysCalmly DEF Identify, Launching

LEMMA NextBackendKeeps ==
  ASSUME Inv, NEW c \in Commands, NextBackend(c), read[c] = NoFile,
         victim' = [victim EXCEPT ![c] = Nobody],
         UNCHANGED <<system, as, target, read>>, World', file' \in [Areas -> Files]
  PROVE  Inv'
  <1>1. /\ pc'[c] = "backend" /\ draft'[c] = NoFile /\ victim'[c] = Nobody
        /\ \A d \in Commands \ {c} : Rests(d)
    BY DEF NextBackend, Goto, Inv, TypeOK, Rests
  <1>2. TypeOK'
    <2>1. /\ pc' \in [Commands -> Stages] /\ draft' \in [Commands -> Files]
          /\ victim' \in [Commands -> Processes \cup {Nobody}]
      BY NoFileFacts DEF NextBackend, Goto, Inv, TypeOK, Stages, Launching
    <2>2. left' \in [Commands -> 1..MaxBackends]
      <3>1. left[c] - 1 \in 1..MaxBackends
        BY SupervisorAssumption DEF NextBackend, HasNext, Inv, TypeOK
      <3> QED BY <3>1 DEF NextBackend, Inv, TypeOK
    <2> QED BY <2>1, <2>2 DEF Inv, TypeOK, system
  <1>3. Local(c)'
    <2>1. starts \in Nat /\ Known(read[c])
      BY DEF Inv, TypeOK, Local, Remembered
    <2>2. Remembered(c)'
      BY <1>1, <2>1, NoFileFacts, RememberedCalm
    <2> QED BY <1>1, <2>2, NoFileFacts
      DEF Local, StageFacts, Own, Stopped, Spared, Launching, Writing
  <1> QED BY <1>1, <1>2, <1>3, SystemCalm, StepKeeps DEF Inv

LEMMA BackendKeeps ==
  ASSUME Inv, NEW c \in Commands, Backend(c)
  PROVE  Inv'
  <1>1. /\ pc[c] \in Launching
        /\ UNCHANGED <<system, file, as, target, read, victim>>
    BY DEF Backend, Launching
  <1>2. CASE NextBackend(c)
    <2>1. victim' = [victim EXCEPT ![c] = Nobody]
      BY <1>1, LaunchingFacts DEF Inv, TypeOK
    <2> QED BY <1>1, <1>2, <2>1, LaunchingFacts, NextBackendKeeps, WorldCalm DEF Inv, TypeOK
  <1>3. CASE \/ WillWrite(c, "launching", NoPid) /\ UNCHANGED left
             \/ WillWrite(c, "launch-error", NoPid) /\ UNCHANGED left
    BY <1>1, <1>3, SaysCalmly
  <1> QED BY <1>2, <1>3 DEF Backend

LEMMA OverdueKeeps ==
  ASSUME Inv, NEW c \in Commands, Overdue(c)
  PROVE  Inv'
  <1>1. /\ pc[c] \in Launching /\ WillWrite(c, "backend-error", NoPid)
        /\ UNCHANGED <<system, file, as, left, target, read>>
    BY DEF Overdue, Launching
  <1>2. CASE UNCHANGED victim
    BY <1>1, <1>2, SaysCalmly
  <1>3. ASSUME NEW i \in Pids, Owner(as[c], i), Signal(c, i)
        PROVE  Inv'
    <2>1. process[i].profile = as[c] /\ process[i].leader
      BY <1>3 DEF Owner, Owners, Ours
    <2>2. process[i] \in Processes \cup {Nobody} /\ process[i].start <= starts
      BY DEF Inv, TypeOK, World
    <2>3. /\ victim' \in [Commands -> Processes \cup {Nobody}]
          /\ victim'[c] = process[i]
          /\ \A d \in Commands \ {c} : victim'[d] = victim[d]
      BY <1>3, <2>2 DEF Signal, Inv, TypeOK
    <2> QED BY <1>1, <2>1, <2>2, <2>3, LaunchingFacts, SaysKeeps
  <1> QED BY <1>2, <1>3 DEF Overdue

LEMMA StoppedAlreadyKeeps ==
  ASSUME Inv, NEW c \in Commands, StoppedAlready(c)
  PROVE  Inv'
  <1>1. read[c].start = 0 /\ victim[c] = Nobody
    BY DEF StoppedAlready, Inv, Local, StageFacts, Remembered, Known
  <1>2. victim \in [Commands -> Processes \cup {Nobody}] /\ starts \in Nat
    BY DEF Inv, TypeOK
  <1>3. victim[c].start <= starts /\ Dead(victim[c].start) /\ Dead(read[c].start)
    BY <1>1, <1>2, NoFileFacts
  <1>4. /\ WillWrite(c, "stopped", NoPid) /\ victim' = victim
        /\ UNCHANGED <<system, file, as, left, target, read>>
    BY DEF StoppedAlready
  <1> QED BY <1>1, <1>2, <1>3, <1>4, SaysKeeps

LEMMA AwaitGoneKeeps ==
  ASSUME Inv, NEW c \in Commands, AwaitGone(c)
  PROVE  Inv'
  <1>1. /\ victim[c] # Nobody /\ Own(c)
        /\ victim[c].start <= starts
        /\ \A i \in Pids : process[i].start = victim[c].start => i = target[c]
    BY DEF AwaitGone, Inv, Local, StageFacts, Remembered
  <1>2. victim \in [Commands -> Processes \cup {Nobody}] /\ starts \in Nat
    BY DEF Inv, TypeOK
  <1>3. victim[c].start # 0
    BY <1>1, <1>2 DEF Processes, Starts
  <1>4. Dead(victim[c].start)
    BY <1>1, <1>3, NoFileFacts DEF AwaitGone, Gone, Dead
  <1>5. Dead(read[c].start)
    BY <1>1, <1>4, NoFileFacts DEF Own
  <1> QED BY <1>1, <1>2, <1>4, <1>5, SaysKeeps DEF AwaitGone, Own

\* A command reads the state file.
LEMMA ReadsKeep ==
  ASSUME Inv, NEW c \in Commands, NEW a \in Areas, victim[c] = Nobody,
         draft[c].status # "stopped",
         NEW stage \in {"match", "remove"}, Goto(c, stage),
         read' = [read EXCEPT ![c] = file[a]],
         as' \in [Commands -> Profiles \cup {NoProfile}],
         \A d \in Commands \ {c} : as'[d] = as[d],
         stage = "remove" => Dead(file[a].start),
         UNCHANGED <<system, file, left, draft, target, victim>>
  PROVE  Inv'
  <1>1. TypeOK'
    BY DEF Goto, Inv, TypeOK, system, Stages
  <1>2. /\ pc'[c] = stage /\ read'[c] = file[a]
        /\ \A d \in Commands \ {c} : Rests(d)
    BY DEF Goto, Inv, TypeOK, Rests
  <1>3. Local(c)'
    <2>1. Known(draft[c]) /\ Known(file[a]) /\ starts \in Nat
      BY DEF Inv, TypeOK, World, Local, Remembered
    <2>2. Remembered(c)'
      BY <1>2, <2>1, NoFileFacts, RememberedCalm
    <2>3. stage = "remove" => Dead(file[a].start)'
      BY DEF Dead, system
    <2> QED BY <1>2, <2>2, <2>3
      DEF Local, StageFacts, Own, Stopped, Spared, Launching, Writing
  <1> QED BY <1>1, <1>2, <1>3, WorldCalm, SystemCalm, StepKeeps DEF Inv

LEMMA Calm ==
  ASSUME Inv, NEW c \in Commands, pc[c] \in {"idle", "teardown"}
  PROVE  victim[c] = Nobody /\ draft[c].status # "stopped"
  BY DEF Inv, Local, StageFacts, Writing

LEMMA KillKeeps ==
  ASSUME Inv, NEW c \in Commands, Kill(c)
  PROVE  Inv'
  <1>1. PICK x \in Profiles : as' = [as EXCEPT ![c] = x]
    BY DEF Kill
  <1>2. /\ as' \in [Commands -> Profiles \cup {NoProfile}]
        /\ \A d \in Commands \ {c} : as'[d] = as[d]
    BY <1>1 DEF Inv, TypeOK
  <1> QED BY <1>2, Calm, ReadsKeep DEF Kill, Areas

LEMMA CleanupKeeps ==
  ASSUME Inv, NEW c \in Commands, Cleanup(c)
  PROVE  Inv'
  <1>1. "base" \in Areas
    BY DEF Areas
  <1>2. file["base"] \in Files /\ Known(file["base"])
    BY <1>1 DEF Inv, TypeOK, World
  <1>3. /\ as' \in [Commands -> Profiles \cup {NoProfile}]
        /\ \A d \in Commands \ {c} : as'[d] = as[d]
    BY <1>2 DEF Inv, TypeOK, Cleanup, Files
  <1>4. Dead(file["base"].start)
    BY <1>2, NoFileFacts DEF Cleanup, PidRunning, Known, Dead
  <1> QED BY <1>1, <1>3, <1>4, Calm, ReadsKeep DEF Cleanup

LEMMA TeardownKeeps ==
  ASSUME Inv, NEW c \in Commands, Teardown(c)
  PROVE  Inv'
  <1>1. "bench" \in Areas
    BY DEF Areas
  <1>2. Known(file["bench"])
    BY <1>1 DEF Inv, World
  <1>3. as' \in [Commands -> Profiles \cup {NoProfile}] /\ as' = as
    BY DEF Inv, TypeOK, Teardown
  <1>4. CASE file["bench"].pid # NoPid \/ Answers(Bench)
    BY <1>1, <1>3, <1>4, Calm, ReadsKeep DEF Teardown
  <1>5. CASE ~(file["bench"].pid # NoPid \/ Answers(Bench))
    <2>1. Dead(file["bench"].start)
      BY <1>2, <1>5, NoFileFacts DEF Known
    <2> QED BY <1>1, <1>3, <1>5, <2>1, Calm, ReadsKeep DEF Teardown
  <1> QED BY <1>4, <1>5

\* The process that is signalled is the one that was recorded.
LEMMA MatchedKeeps ==
  ASSUME Inv, NEW c \in Commands, Matched(c)
  PROVE  Inv'
  <1>1. PICK i \in Pids :
          /\ Matches(c) = {i} /\ Signal(c, i) /\ target' = [target EXCEPT ![c] = i]
    BY DEF Matched
  <1>2. /\ Ours(as[c], i) /\ SameStart(c, i)
    BY <1>1 DEF Matches
  <1>3. /\ process[i] \in Processes \cup {Nobody} /\ process[i].start <= starts
        /\ starts \in Nat
    BY DEF Inv, TypeOK, World
  <1>4. process[i].profile = as[c] /\ process[i].leader
    BY <1>2 DEF Ours
  <1>5. process[i].start # 0
    <2>1. ~Nobody.leader /\ \A p \in Processes : p.start # 0
      BY SupervisorAssumption DEF Nobody, Processes, Starts
    <2> QED BY <1>3, <1>4, <2>1
  <1>6. /\ victim' \in [Commands -> Processes \cup {Nobody}] /\ victim'[c] = process[i]
        /\ target' \in [Commands -> Pids \cup {NoPid}] /\ target'[c] = i
        /\ pc' \in [Commands -> Stages] /\ pc'[c] = "gone"
        /\ UNCHANGED <<system, file, as, left, draft, read>>
    BY <1>1, <1>3 DEF Matched, Signal, Goto, Inv, TypeOK, Stages
  <1>7. \A d \in Commands \ {c} : Rests(d)
    BY <1>1 DEF Matched, Signal, Goto, Inv, TypeOK, Rests
  <1>8. TypeOK'
    BY <1>6 DEF Inv, TypeOK, system
  <1>9. Local(c)'
    <2>1. Known(draft[c])' /\ Known(read[c])'
      BY <1>6 DEF Inv, Local, Remembered, Known, system
    <2>2. \A j \in Pids : process[j].start = process[i].start => j = i
      BY <1>5 DEF Inv, World
    <2>3. Remembered(c)'
      BY <1>3, <1>6, <2>1, <2>2 DEF Remembered, system
    <2>4. draft[c].status # "stopped"
      BY DEF Matched, Inv, Local, StageFacts, Writing
    <2>5. StageFacts(c)'
      BY <1>5, <1>6, <2>4, NoFileFacts DEF StageFacts, Launching, Writing
    <2>6. Own(c)'
      BY <1>2, <1>4, <1>6 DEF Own, SameStart
    <2> QED BY <1>6, <2>3, <2>4, <2>5, <2>6 DEF Local, Stopped, Spared
  <1> QED BY <1>6, <1>7, <1>8, <1>9, WorldCalm, SystemCalm, StepKeeps DEF Inv

-----------------------------------------------------------------------------
LEMMA SpawnKeeps ==
  ASSUME Inv, NEW c \in Commands, Spawn(c)
  PROVE  Inv'
  <1>1. PICK i \in Pids : Start(i, as[c], TRUE)
    BY DEF Spawn
  <1>2. as[c] \in Profiles \cup {NoProfile}
    BY DEF Inv, TypeOK
  <1>3. /\ process' \in [Pids -> Processes \cup {Nobody}] /\ starts' \in 0..MaxStarts
        /\ Ages
        /\ \A j, k \in Pids :
             process'[j].start # 0 /\ process'[j].start = process'[k].start => j = k
        /\ \A j \in Pids : process'[j].start <= starts'
    BY <1>1, <1>2, StartAges DEF Inv
  <1>4. TypeOK'
    BY <1>3 DEF Spawn, Goto, Inv, TypeOK, memory, Stages, Launching
  <1>5. World'
    BY <1>3, <1>4, WorldStays DEF Spawn, Inv
  <1>6. /\ pc'[c] = "wait" /\ draft'[c] = draft[c] /\ read'[c] = NoFile
        /\ victim'[c] = Nobody /\ draft[c].status # "stopped"
        /\ \A d \in Commands \ {c} : Rests(d)
    <2>1. draft[c].status # "stopped"
      BY DEF Spawn, Inv, Local, StageFacts, Writing
    <2>2. read[c] = NoFile /\ victim[c] = Nobody
      BY LaunchingFacts DEF Spawn, Launching
    <2> QED BY <2>1, <2>2 DEF Spawn, Goto, memory, Inv, TypeOK, Rests
  <1>7. Local(c)'
    <2>1. Known(draft[c])'
      <3>1. Known(draft[c]) /\ draft[c] \in Files /\ starts \in Nat /\ starts' \in Nat
        BY <1>3 DEF Inv, TypeOK, Local, Remembered
      <3>2. draft' = draft
        BY DEF Spawn, memory
      <3>3. \A f \in Files : Known(f) => Known(f)'
        BY <1>3, <1>4, <3>1, KnownStays DEF Inv
      <3> QED BY <3>1, <3>2, <3>3 DEF Known
    <2>2. Known(read[c])'
      BY <1>4, <1>6, NoFileFacts DEF Known, TypeOK
    <2>3. Remembered(c)'
      BY <1>4, <1>6, <2>1, <2>2, NoFileFacts DEF Remembered, TypeOK
    <2> QED BY <1>6, <2>3
      DEF Local, StageFacts, Own, Stopped, Spared, Launching, Writing
  <1> QED BY <1>3, <1>4, <1>5, <1>6, <1>7, StepKeeps

LEMMA ExecKeeps ==
  ASSUME Inv, NEW c \in Commands, Exec(c)
  PROVE  Inv'
  <1>1. PICK i \in Pids, leader \in BOOLEAN : Start(i, as[c], leader)
    BY DEF Exec
  <1>2. as[c] \in Profiles \cup {NoProfile}
    BY DEF Inv, TypeOK
  <1>3. /\ process' \in [Pids -> Processes \cup {Nobody}] /\ starts' \in 0..MaxStarts
        /\ Ages
        /\ \A j, k \in Pids :
             process'[j].start # 0 /\ process'[j].start = process'[k].start => j = k
        /\ \A j \in Pids : process'[j].start <= starts'
    BY <1>1, <1>2, StartAges DEF Inv
  <1>4. TypeOK'
    BY <1>3, LeaveClears DEF Exec, Inv, TypeOK
  <1>5. World'
    BY <1>3, <1>4, WorldStays DEF Exec, Inv
  <1>6. Local(c)' /\ \A d \in Commands \ {c} : Rests(d)
    BY <1>4, LeaveClears, LeaveLocal DEF Exec, Inv
  <1> QED BY <1>3, <1>4, <1>5, <1>6, StepKeeps

-----------------------------------------------------------------------------
\* The process is looked up: its pid is the only one with its start.
LEMMA TruncateKeeps ==
  ASSUME Inv, NEW c \in Commands, Truncate(c)
  PROVE  Inv'
  <1> DEFINE f == [draft[c] EXCEPT !.start = StartOf(draft[c].pid)]
  <1>1. /\ draft[c] \in Files /\ Known(draft[c]) /\ starts \in Nat
    <2>1. draft[c] \in Files /\ starts \in Nat
      BY DEF Inv, TypeOK
    <2>2. Known(draft[c])
      BY DEF Inv, Local, Remembered
    <2> QED BY <2>1, <2>2
  <1>2. /\ StartOf(draft[c].pid) \in 0..MaxStarts /\ StartOf(draft[c].pid) <= starts
        /\ draft[c].pid = NoPid => StartOf(draft[c].pid) = 0
        /\ draft[c].pid # NoPid =>
             draft[c].pid \in Pids /\ StartOf(draft[c].pid) = process[draft[c].pid].start
    BY <1>1, ProcessType, SupervisorAssumption DEF StartOf, Files, Inv, World
  <1>3. /\ f \in Files /\ f.status = draft[c].status /\ f.pid = draft[c].pid
        /\ f.start = StartOf(draft[c].pid)
    BY <1>1, <1>2 DEF Files
  <1>4. Known(f)
    BY <1>1, <1>2, <1>3 DEF Known, Inv, World
  <1>5. draft' = [draft EXCEPT ![c] = f]
    BY DEF Truncate
  <1> HIDE DEF f
  <1>6. Torn \in Files /\ Known(Torn) /\ Area(as[c]) \in Areas
    <2>1. Torn \in Files /\ Torn.start = 0 /\ Torn.status = "torn"
      BY FileType DEF Torn, File
    <2> QED BY <1>1, <2>1 DEF Known, Area, Areas
  <1>7. /\ file' = [file EXCEPT ![Area(as[c])] = Torn]
        /\ UNCHANGED <<system, as, left, target, read, victim>>
        /\ pc[c] = "write"
    BY DEF Truncate
  <1>8. TypeOK'
    <2>1. file' \in [Areas -> Files]
      BY <1>6, <1>7 DEF Inv, TypeOK
    <2>2. draft' \in [Commands -> Files] /\ pc' \in [Commands -> Stages]
      BY <1>3, <1>5 DEF Truncate, Goto, Inv, TypeOK, Stages, Writing
    <2> QED BY <1>7, <2>1, <2>2 DEF Inv, TypeOK, system
  <1>9. World'
    BY <1>6, <1>7, WorldWrites DEF Inv
  <1>10. /\ pc'[c] = "content" /\ draft'[c] = f
         /\ \A d \in Commands \ {c} : Rests(d)
    BY <1>5 DEF Truncate, Goto, Inv, TypeOK, Rests
  <1>11. Local(c)'
    <2>1. Local(c)
      BY DEF Inv
    <2>2. Remembered(c)'
      BY <1>4, <1>7, <1>10, <2>1, RememberedCalm DEF Local, Remembered
    <2>3. StageFacts(c)' /\ Own(c)'
      BY <1>3, <1>7, <1>10, <2>1 DEF Local, StageFacts, Own, Writing, Launching
    <2>4. Stopped(c)' /\ Spared(c)'
      BY <1>3, <1>7, <1>10, <2>1 DEF Local, Stopped, Spared, Dead, system
    <2> QED BY <2>2, <2>3, <2>4 DEF Local
  <1> QED BY <1>7, <1>8, <1>9, <1>10, <1>11, SystemCalm, StepKeeps DEF Inv

LEMMA FillWrites ==
  ASSUME Inv, NEW c \in Commands, Fill(c), UNCHANGED system
  PROVE  World' /\ file' \in [Areas -> Files]
  <1>1. draft[c] \in Files /\ Known(draft[c]) /\ Area(as[c]) \in Areas
    BY DEF Inv, TypeOK, Local, Remembered, Area, Areas
  <1>2. file' = [file EXCEPT ![Area(as[c])] = draft[c]]
    BY DEF Fill
  <1> QED BY <1>1, <1>2, WorldWrites DEF Inv, TypeOK

LEMMA WritingFacts ==
  ASSUME Inv, NEW c \in Commands, pc[c] = "content", draft[c].status # "stopped"
  PROVE  /\ read[c] = NoFile /\ starts \in Nat
         /\ Known(NoFile) /\ victim[c].start <= starts /\ Own(c)
  BY NoFileFacts DEF Inv, TypeOK, Local, StageFacts, Remembered, Writing

LEMMA WriteLaunchingKeeps ==
  ASSUME Inv, NEW c \in Commands, WriteLaunching(c)
  PROVE  Inv'
  <1>1. World' /\ file' \in [Areas -> Files]
    BY FillWrites DEF WriteLaunching
  <1> victim[c] = Nobody
    BY DEF WriteLaunching, Inv, Local, StageFacts, Writing
  <1>2. /\ pc'[c] = "spawn" /\ draft'[c] = NoFile /\ read'[c] = NoFile
        /\ victim'[c] = Nobody
        /\ \A d \in Commands \ {c} : Rests(d)
    BY WritingFacts DEF WriteLaunching, Goto, Inv, TypeOK, Rests
  <1>3. TypeOK'
    BY <1>1, NoFileFacts
    DEF WriteLaunching, Goto, Inv, TypeOK, system, Stages, Launching
  <1>4. Remembered(c)'
    BY <1>2, WritingFacts, NoFileFacts, RememberedCalm DEF WriteLaunching
  <1>5. Local(c)'
    BY <1>2, <1>4, NoFileFacts
    DEF Local, StageFacts, Own, Stopped, Spared, Launching, Writing
  <1> QED BY <1>1, <1>2, <1>3, <1>5, SystemCalm, StepKeeps DEF WriteLaunching, Inv

LEMMA WriteBackendErrorKeeps ==
  ASSUME Inv, NEW c \in Commands, WriteBackendError(c)
  PROVE  Inv'
  <1>1. /\ World' /\ file' \in [Areas -> Files]
        /\ victim' = [victim EXCEPT ![c] = Nobody]
        /\ UNCHANGED <<system, as, target, read>>
    BY FillWrites DEF WriteBackendError
  <1>2. read[c] = NoFile
    BY WritingFacts DEF WriteBackendError
  <1>3. CASE NextBackend(c)
    BY <1>1, <1>2, <1>3, NextBackendKeeps
  <1>4. CASE WillWrite(c, "launch-error", NoPid) /\ UNCHANGED left
    <2>1. /\ draft' \in [Commands -> Files] /\ pc' \in [Commands -> Stages]
          /\ pc'[c] = "write" /\ draft'[c].status = "launch-error"
          /\ Known(draft'[c])
          /\ \A d \in Commands \ {c} : draft'[d] = draft[d] /\ pc'[d] = pc[d]
      BY <1>4, Says DEF Inv
    <2>2. victim'[c] = Nobody /\ victim' \in [Commands -> Processes \cup {Nobody}]
      BY <1>1 DEF Inv, TypeOK
    <2>3. TypeOK'
      BY <1>1, <1>4, <2>1, <2>2 DEF Inv, TypeOK, system
    <2>4. \A d \in Commands \ {c} : Rests(d)
      BY <1>1, <1>4, <2>1 DEF Inv, TypeOK, Rests
    <2>5. Remembered(c)'
      BY <1>1, <1>2, <2>1, <2>2, NoFileFacts, RememberedCalm DEF Inv, TypeOK
    <2>6. Local(c)'
      BY <1>1, <1>2, <2>1, <2>2, <2>5
      DEF Local, StageFacts, Own, Stopped, Spared, Launching, Writing
    <2> QED BY <1>1, <2>3, <2>4, <2>6, SystemCalm, StepKeeps DEF Inv
  <1> QED BY <1>3, <1>4 DEF WriteBackendError

LEMMA WriteResultKeeps ==
  ASSUME Inv, NEW c \in Commands, WriteResult(c)
  PROVE  Inv'
  <1>1. /\ World' /\ file' \in [Areas -> Files] /\ UNCHANGED system
        /\ pc[c] = "content" /\ Fill(c)
    BY FillWrites DEF WriteResult
  <1>2. CASE Leave(c)
    <2>1. TypeOK'
      BY <1>1, <1>2, LeaveClears DEF Inv, TypeOK, system
    <2> QED BY <1>1, <1>2, <2>1, LeaveClears, LeaveLocal, SystemCalm, StepKeeps DEF Inv
  <1>3. CASE draft[c].status = "stopped" /\ Goto(c, "remove") /\ UNCHANGED memory
    <2>1. TypeOK'
      BY <1>1, <1>3 DEF Goto, Inv, TypeOK, memory, system, Stages
    <2>2. /\ pc'[c] = "remove" /\ UNCHANGED memory
          /\ \A d \in Commands \ {c} : Rests(d)
      BY <1>3 DEF Goto, Inv, TypeOK, memory, Rests
    <2>3. Local(c)
      BY DEF Inv
    <2>4. Remembered(c)'
      BY <1>1, <2>2, <2>3, RememberedCalm DEF Local, Remembered, memory
    <2>5. Local(c)'
      BY <1>1, <1>3, <2>2, <2>3, <2>4
      DEF Local, StageFacts, Own, Stopped, Spared, Dead, Launching, Writing, memory,
          system
    <2> QED BY <1>1, <2>1, <2>2, <2>5, SystemCalm, StepKeeps DEF Inv
  <1>4. CASE draft[c].status # "stopped" /\ EndLaunch(c)
    <2>1. TypeOK'
      <3>1. /\ pc' \in [Commands -> Stages] /\ left' \in [Commands -> 1..MaxBackends]
            /\ draft' \in [Commands -> Files]
            /\ victim' \in [Commands -> Processes \cup {Nobody}]
        BY <1>4, NoFileFacts, SupervisorAssumption
        DEF EndLaunch, Goto, Inv, TypeOK, Stages
      <3> QED BY <1>1, <1>4, <3>1 DEF EndLaunch, Inv, TypeOK, system
    <2>2. /\ pc'[c] = "teardown" /\ draft'[c] = NoFile /\ victim'[c] = Nobody
          /\ read'[c] = NoFile
          /\ \A d \in Commands \ {c} : Rests(d)
      BY <1>1, <1>4, WritingFacts DEF EndLaunch, Goto, Inv, TypeOK, Rests
    <2>3. Remembered(c)'
      BY <1>1, <1>4, <2>2, WritingFacts, NoFileFacts, RememberedCalm
    <2>4. Local(c)'
      BY <2>2, <2>3, NoFileFacts
      DEF Local, StageFacts, Own, Stopped, Spared, Launching, Writing
    <2> QED BY <1>1, <2>1, <2>2, <2>4, SystemCalm, StepKeeps DEF Inv
  <1> QED BY <1>2, <1>3, <1>4 DEF WriteResult

-----------------------------------------------------------------------------
\* Nobody moves, and the processes age.
LEMMA OthersKeep ==
  ASSUME Inv, TypeOK', Ages, UNCHANGED <<file, pc, memory>>,
         \A j, k \in Pids :
           process'[j].start # 0 /\ process'[j].start = process'[k].start => j = k,
         \A j \in Pids : process'[j].start <= starts'
  PROVE  Inv'
  <1>1. World'
    BY WorldStays DEF Inv
  <1>2. \A c \in Commands : Rests(c)
    BY DEF Rests, memory
  <1> QED BY <1>1, <1>2, LocalStays DEF Inv

LEMMA ListenKeeps ==
  ASSUME Inv, NEW i \in Pids, Listen(i)
  PROVE  Inv'
  <1>1. TypeOK'
    BY ProcessType DEF Listen, Inv, TypeOK, memory
  <1>2. Ages
    BY DEF Listen, Ages, Inv, TypeOK
  <1>3. /\ \A j, k \in Pids :
             process'[j].start # 0 /\ process'[j].start = process'[k].start => j = k
        /\ \A j \in Pids : process'[j].start <= starts'
    BY DEF Listen, Inv, World
  <1> QED BY <1>1, <1>2, <1>3, OthersKeep DEF Listen

LEMMA DiesKeeps ==
  ASSUME Inv, NEW i \in Pids, Dies(i)
  PROVE  Inv'
  <1>1. /\ process' = [process EXCEPT ![i] = Nobody] /\ starts' = starts
        /\ UNCHANGED <<file, pc, memory>> /\ Nobody.start = 0 /\ starts \in Nat
    BY NoFileFacts DEF Dies, Inv, TypeOK
  <1>2. \A j \in Pids : process'[j] = process[j] \/ process'[j] = Nobody
    BY <1>1 DEF Inv, TypeOK
  <1>3. TypeOK'
    <2>1. /\ process' \in [Pids -> Processes \cup {Nobody}]
      BY <1>1 DEF Inv, TypeOK
    <2>2. port' \in [Areas -> 0..MaxStarts]
      BY SupervisorAssumption DEF Dies, Inv, TypeOK
    <2> QED BY <1>1, <2>1, <2>2 DEF Inv, TypeOK, memory
  <1>4. Ages
    BY <1>1, <1>2 DEF Ages
  <1>5. /\ \A j, k \in Pids :
             process'[j].start # 0 /\ process'[j].start = process'[k].start => j = k
        /\ \A j \in Pids : process'[j].start <= starts'
    BY <1>1, <1>2 DEF Inv, World
  <1> QED BY <1>1, <1>3, <1>4, <1>5, OthersKeep

LEMMA OtherStartsKeeps ==
  ASSUME Inv, NEW i \in Pids, OtherStarts(i)
  PROVE  Inv'
  <1>1. /\ process' \in [Pids -> Processes \cup {Nobody}] /\ starts' \in 0..MaxStarts
        /\ Ages
        /\ \A j, k \in Pids :
             process'[j].start # 0 /\ process'[j].start = process'[k].start => j = k
        /\ \A j \in Pids : process'[j].start <= starts'
    BY StartAges DEF OtherStarts, Inv
  <1>2. TypeOK'
    BY <1>1 DEF OtherStarts, Inv, TypeOK, memory
  <1> QED BY <1>1, <1>2, OthersKeep DEF OtherStarts

-----------------------------------------------------------------------------
LEMMA InvInit == Init => Inv
  <1> SUFFICES ASSUME Init
               PROVE  Inv
    OBVIOUS
  <1> USE SupervisorAssumption DEF Init
  <1>1. TypeOK
    <2>1. /\ process \in [Pids -> Processes \cup {Nobody}]
          /\ port \in [Areas -> 0..MaxStarts] /\ starts \in 0..MaxStarts
          /\ left \in [Commands -> 1..MaxBackends]
      OBVIOUS
    <2>2. /\ file \in [Areas -> Files] /\ draft \in [Commands -> Files]
          /\ read \in [Commands -> Files]
      BY NoFileFacts
    <2>3. pc \in [Commands -> Stages]
      BY DEF Stages
    <2> QED BY <2>1, <2>2, <2>3 DEF TypeOK
  <1>2. World
    BY NoFileFacts DEF World
  <1>3. \A c \in Commands : Local(c)
    BY NoFileFacts
    DEF Local, StageFacts, Remembered, Own, Stopped, Spared, Writing, Launching
  <1> QED BY <1>1, <1>2, <1>3 DEF Inv

LEMMA InvNext == Inv /\ [Next]_vars => Inv'
  <1> SUFFICES ASSUME Inv, [Next]_vars
               PROVE  Inv'
    OBVIOUS
  <1>1. ASSUME NEW c \in Commands, WriteState(c)
        PROVE  Inv'
    BY <1>1, TruncateKeeps, WriteLaunchingKeeps, WriteBackendErrorKeeps, WriteResultKeeps
    DEF WriteState
  <1>2. ASSUME NEW c \in Commands, LaunchSteps(c)
        PROVE  Inv'
    BY <1>2, LaunchKeeps, AdoptKeeps, BackendKeeps, SpawnKeeps, ExecKeeps,
       AnsweredKeeps, UnansweredKeeps, OverdueKeeps, IdentifyKeeps
    DEF LaunchSteps
  <1>3. ASSUME NEW c \in Commands, KillSteps(c)
        PROVE  Inv'
    <2>1. CASE Unmatched(c) \/ NotGone(c)
      BY <2>1, AbandonKeeps DEF Unmatched, NotGone, KillFails
    <2> QED BY <1>3, <2>1, KillKeeps, MatchedKeeps, StoppedAlreadyKeeps, AwaitGoneKeeps
      DEF KillSteps
  <1>4. ASSUME NEW c \in Commands, RemoveSteps(c) \/ Crash(c)
        PROVE  Inv'
    <2>1. CASE Remove(c) \/ Crash(c)
      BY <2>1, AbandonKeeps DEF Remove, Crash
    <2> QED BY <1>4, <2>1, CleanupKeeps, BenchmarkKeeps, LaunchExpiresKeeps, TeardownKeeps
      DEF RemoveSteps
  <1>5. ASSUME NEW i \in Pids, Listen(i) \/ Dies(i) \/ OtherStarts(i)
        PROVE  Inv'
    BY <1>5, ListenKeeps, DiesKeeps, OtherStartsKeeps
  <1>6. CASE UNCHANGED vars
    <2>1. TypeOK' /\ World'
      BY <1>6 DEF vars, system, memory, Inv, TypeOK, World, Known
    <2>2. Ages /\ \A c \in Commands : Rests(c)
      BY <1>6 DEF vars, system, memory, Inv, TypeOK, Ages, Rests
    <2> QED BY <2>1, <2>2, LocalStays DEF Inv
  <1> QED BY <1>1, <1>2, <1>3, <1>4, <1>5, <1>6 DEF Next

LEMMA InvAlways == Spec => []Inv
  BY InvInit, InvNext, PTL DEF Spec

-----------------------------------------------------------------------------
\* The types, for any number of commands, profiles, pids and starts.
THEOREM TypeCorrect == Spec => []TypeOK
  <1>1. Inv => TypeOK
    BY DEF Inv
  <1> QED BY <1>1, InvAlways, PTL

\* scripts/chip-relay signals the leader of a browser of its own profile only,
\* and of two with one pid the one that was recorded.
THEOREM OnlyOwnSignalled == Spec => []SignalledOwn
  <1>1. Inv => SignalledOwn
    BY DEF Inv, Local, Own, SignalledOwn
  <1> QED BY <1>1, InvAlways, PTL

\* A kill reports "stopped" only of processes that are gone.
THEOREM StoppedMeansGone == Spec => []StoppedIsGone
  <1>1. Inv => StoppedIsGone
    BY DEF Inv, Local, Stopped, StoppedIsGone
  <1> QED BY <1>1, InvAlways, PTL

\* cleanup and the teardown of a benchmark spare the directory of a browser
\* that the state file had recorded.
THEOREM RecordedSpared == Spec => []RemovalSparesRecorded
  <1>1. Inv => RemovalSparesRecorded
    BY DEF Inv, Local, Spared, RemovalSparesRecorded
  <1> QED BY <1>1, InvAlways, PTL
=============================================================================
