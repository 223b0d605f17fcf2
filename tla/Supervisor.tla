----------------------------- MODULE Supervisor -----------------------------
(***************************************************************************)
(* The browsers of the relay: scripts/chip-relay launches and kills them,  *)
(* `cleanup` (cleanup.py) removes the directory of a profile that is not   *)
(* in use, and a benchmark (benchmark_runner.py) launches one, kills it    *)
(* and removes its directories.  Nobody takes a lock: commands know of     *)
(* each other by a state file, the CDP port and /proc only.                *)
(*                                                                         *)
(* All profiles share the state file and the port of the configuration,    *)
(* but for the benchmark's, which has its own.  A browser is known by the  *)
(* port and the profile among its arguments, so that a profile stands for  *)
(* both, and as the leader of its process group: what setsid leaves behind *)
(* has the same arguments, and is not modelled for that.  A process has a  *)
(* pid that others may have had, and a start that no other has.  A look at *)
(* /proc and the signal that follows it are one step: no pid is taken over *)
(* in the milliseconds in between.                                         *)
(***************************************************************************)
EXTENDS Naturals, FiniteSets

CONSTANTS Commands,       \* processes of the CLI, one after the other
          Profiles, NoProfile,
          Bench,          \* the profile of the benchmark
          Pids, NoPid,
          MaxBackends,    \* those of --backend auto
          MaxStarts       \* bound on the processes that ever start

ASSUME SupervisorAssumption ==
  /\ NoProfile \notin Profiles
  /\ Bench \in Profiles
  /\ NoPid \notin Pids
  /\ MaxBackends \in Nat \ {0} /\ MaxStarts \in Nat \ {0}

\* The system.
VARIABLES
  process,   \* who has each pid
  port,      \* the start of the process that listens on a CDP port, or 0
  starts,    \* the processes that ever started
  file       \* state.json

\* Each command.
VARIABLES
  pc,
  as,        \* its profile
  left,      \* the backends it has to try, the present one included
  draft,     \* what it writes into the state file
  target,    \* the pid that it is stopping
  read       \* what it read in the state file

\* History: nothing in the code reads these.
VARIABLE
  victim     \* the process that each command has signalled

system == <<process, port, starts>>
memory == <<as, left, draft, target, read, victim>>
vars == <<system, file, pc, memory>>

Areas == {"base", "bench"}
Area(x) == IF x = Bench THEN "bench" ELSE "base"

Starts == 1..MaxStarts
Nobody == [start |-> 0, profile |-> NoProfile, leader |-> FALSE]
Processes == [start : Starts, profile : Profiles \cup {NoProfile}, leader : BOOLEAN]

\* "state" and "detail" of write_state, with the process, if there is one; a
\* process that was gone is recorded without its start.
File(status, x, pid) == [status |-> status, profile |-> x, pid |-> pid, start |-> 0]
NoFile == File("none", NoProfile, NoPid)
Torn == File("torn", NoProfile, NoPid)
Files ==
  [status : {"none", "torn", "launching", "up", "backend-error", "launch-error",
             "stopped"},
   profile : Profiles \cup {NoProfile}, pid : Pids \cup {NoPid}, start : 0..MaxStarts]

Launching == {"adopt", "backend", "spawn", "wait", "owner", "overdue"}
Writing == {"write", "content"}
Stages == {"idle", "match", "gone", "remove", "teardown"} \cup Launching \cup Writing

TypeOK ==
  /\ process \in [Pids -> Processes \cup {Nobody}]
  /\ port \in [Areas -> 0..MaxStarts]
  /\ starts \in 0..MaxStarts
  /\ file \in [Areas -> Files]
  /\ pc \in [Commands -> Stages]
  /\ as \in [Commands -> Profiles \cup {NoProfile}]
  /\ left \in [Commands -> 1..MaxBackends]
  /\ draft \in [Commands -> Files]
  /\ target \in [Commands -> Pids \cup {NoPid}]
  /\ read \in [Commands -> Files]
  /\ victim \in [Commands -> Processes \cup {Nobody}]

Init ==
  /\ process = [i \in Pids |-> Nobody]
  /\ port = [a \in Areas |-> 0]
  /\ starts = 0
  /\ file = [a \in Areas |-> NoFile]
  /\ pc = [c \in Commands |-> "idle"]
  /\ as = [c \in Commands |-> NoProfile]
  /\ left = [c \in Commands |-> 1]
  /\ draft = [c \in Commands |-> NoFile]
  /\ target = [c \in Commands |-> NoPid]
  /\ read = [c \in Commands |-> NoFile]
  /\ victim = [c \in Commands |-> Nobody]

-----------------------------------------------------------------------------
Goto(c, stage) == pc' = [pc EXCEPT ![c] = stage]

\* The command ends.  The state file of a benchmark is in a directory of its
\* own, that no later one uses.
Leave(c) ==
  /\ Goto(c, "idle")
  /\ as' = [as EXCEPT ![c] = NoProfile]
  /\ left' = [left EXCEPT ![c] = 1]
  /\ draft' = [draft EXCEPT ![c] = NoFile]
  /\ target' = [target EXCEPT ![c] = NoPid]
  /\ read' = [read EXCEPT ![c] = NoFile]
  /\ victim' = [victim EXCEPT ![c] = Nobody]

Abandon(c) ==
  /\ file' = IF as[c] = Bench THEN [file EXCEPT !["bench"] = NoFile] ELSE file
  /\ Leave(c)

Answers(x) == port[Area(x)] # 0

\* The arguments and the process group of the process with pid i.
Ours(x, i) == process[i].profile = x /\ process[i].leader

Owners(x) == {i \in Pids : Ours(x, i)}

\* current_owner_pid, when it prints nothing and when it does.
NoOwner(x) == ~\E i \in Pids : Owners(x) = {i}
Owner(x, i) == Owners(x) = {i}

\* SIGTERM: the process may end (Dies), when it likes.
Signal(c, i) == victim' = [victim EXCEPT ![c] = process[i]]

\* A new process with a pid that is free.
Start(i, x, leader) ==
  /\ starts < MaxStarts
  /\ process[i] = Nobody
  /\ process' = [process EXCEPT ![i] = [start |-> starts + 1, profile |-> x,
                                       leader |-> leader]]
  /\ starts' = starts + 1

-----------------------------------------------------------------------------
(* write_state.                                                            *)

WillWrite(c, status, pid) ==
  /\ draft' = [draft EXCEPT ![c] = File(status, as[c], pid)]
  /\ Goto(c, "write")

StartOf(i) == IF i = NoPid THEN 0 ELSE process[i].start

\* The process is looked up, then the file is opened, and empty.
Truncate(c) ==
  /\ pc[c] = "write"
  /\ draft' = [draft EXCEPT ![c].start = StartOf(draft[c].pid)]
  /\ file' = [file EXCEPT ![Area(as[c])] = Torn]
  /\ Goto(c, "content")
  /\ UNCHANGED <<system, as, left, target, read, victim>>

Fill(c) == file' = [file EXCEPT ![Area(as[c])] = draft[c]]

\* Mutant: there is one more backend than there is.
HasNextLate(c) == left[c] >= 1

HasNext(c) == left[c] > 1

NextBackend(c) ==
  /\ HasNext(c)
  /\ left' = [left EXCEPT ![c] = @ - 1]
  /\ draft' = [draft EXCEPT ![c] = NoFile]
  /\ Goto(c, "backend")

\* launch_backend goes on to start the browser, or fails; then comes the next
\* backend, or the loop of cmd_launch is over.
WriteLaunching(c) ==
  /\ pc[c] = "content" /\ draft[c].status = "launching"
  /\ Fill(c)
  /\ draft' = [draft EXCEPT ![c] = NoFile]
  /\ Goto(c, "spawn")
  /\ UNCHANGED <<system, as, left, target, read, victim>>

WriteBackendError(c) ==
  /\ pc[c] = "content" /\ draft[c].status = "backend-error"
  /\ Fill(c)
  /\ victim' = [victim EXCEPT ![c] = Nobody]
  /\ \/ NextBackend(c)
     \/ ~HasNext(c) /\ WillWrite(c, "launch-error", NoPid) /\ UNCHANGED left
  /\ UNCHANGED <<system, as, target, read>>

\* The benchmark knows how the launch went by now.
EndLaunch(c) ==
  /\ Goto(c, "teardown")
  /\ draft' = [draft EXCEPT ![c] = NoFile]
  /\ left' = [left EXCEPT ![c] = 1]
  /\ victim' = [victim EXCEPT ![c] = Nobody]
  /\ UNCHANGED <<as, target, read>>

\* A launch or a kill has said what came of it.  The benchmark goes on, with
\* the probe and the teardown, or by removing the directories.
WriteResult(c) ==
  /\ pc[c] = "content" /\ draft[c].status \in {"up", "launch-error", "stopped"}
  /\ Fill(c)
  /\ IF as[c] # Bench THEN Leave(c)
     ELSE IF draft[c].status = "stopped" THEN Goto(c, "remove") /\ UNCHANGED memory
     ELSE EndLaunch(c)
  /\ UNCHANGED system

-----------------------------------------------------------------------------
(* launch.                                                                 *)

\* check_cdp: there is a browser to adopt, or there is none.  All backends are
\* to be tried: to name one is as if the others were not installed.
Launch(c) ==
  /\ pc[c] = "idle"
  /\ \E x \in Profiles \ {Bench} :
       /\ as' = [as EXCEPT ![c] = x]
       /\ left' = [left EXCEPT ![c] = MaxBackends]
       /\ Goto(c, IF Answers(x) THEN "adopt" ELSE "backend")
  /\ UNCHANGED <<system, file, draft, target, read, victim>>

\* "already-running" or "cdp-owner-mismatch".
Adopt(c) ==
  /\ pc[c] = "adopt"
  /\ \/ \E i \in Pids : Owner(as[c], i) /\ WillWrite(c, "up", i)
     \/ NoOwner(as[c]) /\ WillWrite(c, "launch-error", NoPid)
  /\ UNCHANGED <<system, file, as, left, target, read, victim>>

\* The backend is installed and the proxy valid, or the next one is tried.
Backend(c) ==
  /\ pc[c] = "backend"
  /\ \/ WillWrite(c, "launching", NoPid) /\ UNCHANGED left
     \/ NextBackend(c)
     \/ ~HasNext(c) /\ WillWrite(c, "launch-error", NoPid) /\ UNCHANGED left
  /\ UNCHANGED <<system, file, as, target, read, victim>>

\* setsid makes the browser a leader.
Spawn(c) ==
  /\ pc[c] = "spawn"
  /\ \E i \in Pids : Start(i, as[c], TRUE)
  /\ Goto(c, "wait")
  /\ UNCHANGED <<port, file, memory>>

\* --foreground: the shell becomes the browser, a leader if it was one.
Exec(c) ==
  /\ pc[c] = "spawn" /\ as[c] # Bench
  /\ \E i \in Pids, leader \in BOOLEAN : Start(i, as[c], leader)
  /\ Leave(c)
  /\ UNCHANGED <<port, file>>

\* wait_http: somebody answers on the port; nobody does, and the browser is
\* gone or the time is over.
Answered(c) ==
  /\ pc[c] = "wait"
  /\ Answers(as[c])
  /\ Goto(c, "owner")
  /\ UNCHANGED <<system, file, memory>>

Unanswered(c) ==
  /\ pc[c] = "wait"
  /\ ~Answers(as[c])
  /\ Goto(c, "overdue")
  /\ UNCHANGED <<system, file, memory>>

\* "launch-timeout", after stop_spawned_group.
Overdue(c) ==
  /\ pc[c] = "overdue"
  /\ \/ \E i \in Pids : Owner(as[c], i) /\ Signal(c, i)
     \/ NoOwner(as[c]) /\ UNCHANGED victim
  /\ WillWrite(c, "backend-error", NoPid)
  /\ UNCHANGED <<system, file, as, left, target, read>>

\* "up", or "ownership-unverified"; the browser lives on.
Identify(c) ==
  /\ pc[c] = "owner"
  /\ \/ \E i \in Pids : Owner(as[c], i) /\ WillWrite(c, "up", i)
     \/ NoOwner(as[c]) /\ WillWrite(c, "backend-error", NoPid)
  /\ UNCHANGED <<system, file, as, left, target, read, victim>>

-----------------------------------------------------------------------------
(* kill.                                                                   *)

Kill(c) ==
  /\ pc[c] = "idle"
  /\ \E x \in Profiles \ {Bench} : as' = [as EXCEPT ![c] = x]
  /\ read' = [read EXCEPT ![c] = file["base"]]
  /\ Goto(c, "match")
  /\ UNCHANGED <<system, file, left, draft, target, victim>>

\* The pid in the file, or all there are.
Candidates(c) == IF read[c].pid = NoPid THEN Pids ELSE {read[c].pid}

\* Mutant: who has the pid by now is taken for the one that was recorded.
SameStartAny(c, i) == TRUE

SameStart(c, i) == read[c].start # 0 => process[i].start = read[c].start

Matches(c) == {i \in Candidates(c) : Ours(as[c], i) /\ SameStart(c, i)}

Matched(c) ==
  /\ pc[c] = "match"
  /\ \E i \in Pids :
       /\ Matches(c) = {i}
       /\ Signal(c, i)
       /\ target' = [target EXCEPT ![c] = i]
  /\ Goto(c, "gone")
  /\ UNCHANGED <<system, file, as, left, draft, read>>

\* Stopped before, and nothing there.
StoppedAlready(c) ==
  /\ pc[c] = "match"
  /\ Matches(c) = {} /\ read[c].status = "stopped"
  /\ WillWrite(c, "stopped", NoPid)
  /\ UNCHANGED <<system, file, as, left, target, read, victim>>

\* Mutant: the benchmark does not look at the exit code of kill.
KillFailsUnseen(c) ==
  IF as[c] = Bench THEN Goto(c, "remove") /\ UNCHANGED <<file, memory>>
  ELSE Abandon(c)

\* Exit code 1; the benchmark raises.
KillFails(c) == Abandon(c)

\* "refusing to stop": not one process, and not nothing.
Unmatched(c) ==
  /\ pc[c] = "match"
  /\ ~\E i \in Pids : Matches(c) = {i}
  /\ Matches(c) # {} \/ read[c].status # "stopped"
  /\ KillFails(c)
  /\ UNCHANGED system

\* Mutant: the signal is taken for the end.
GoneSoon(c) == TRUE

Gone(c) == process[target[c]] = Nobody

AwaitGone(c) ==
  /\ pc[c] = "gone"
  /\ Gone(c)
  /\ WillWrite(c, "stopped", NoPid)
  /\ UNCHANGED <<system, file, as, left, target, read, victim>>

\* "refusing SIGKILL", after ten seconds.
NotGone(c) ==
  /\ pc[c] = "gone"
  /\ process[target[c]] # Nobody
  /\ KillFails(c)
  /\ UNCHANGED system

-----------------------------------------------------------------------------
(* cleanup, and the benchmark.                                             *)

PidRunning(i) == i # NoPid /\ process[i] # Nobody

\* cleanup_candidates: the profile of the state file, unless its pid runs.
Cleanup(c) ==
  /\ pc[c] = "idle"
  /\ file["base"].profile # NoProfile
  /\ ~PidRunning(file["base"].pid)
  /\ as' = [as EXCEPT ![c] = file["base"].profile]
  /\ read' = [read EXCEPT ![c] = file["base"]]
  /\ Goto(c, "remove")
  /\ UNCHANGED <<system, file, left, draft, target, victim>>

\* run_cleanup, and the end of _run_matrix_backend, where the state file goes
\* with the profile.
Remove(c) ==
  /\ pc[c] = "remove"
  /\ Abandon(c)
  /\ UNCHANGED system

\* _run_matrix_backend, under the lock of the host, in new directories and on a
\* port that is free: it may begin when nothing is left of the one before, so
\* that the two are not confused.
Benchmark(c) ==
  /\ pc[c] = "idle"
  /\ \A d \in Commands : as[d] # Bench
  /\ \A i \in Pids : process[i].profile # Bench
  /\ as' = [as EXCEPT ![c] = Bench]
  /\ Goto(c, "backend")
  /\ UNCHANGED <<system, file, left, draft, target, read, victim>>

\* subprocess.TimeoutExpired: the launch is killed where it is.
LaunchExpires(c) ==
  /\ as[c] = Bench
  /\ \/ pc[c] \in Launching
     \/ pc[c] \in Writing /\ draft[c].status # "stopped"
  /\ EndLaunch(c)
  /\ UNCHANGED <<system, file>>

\* The finally: kill, if there is a pid or an answer on the port.
Teardown(c) ==
  /\ pc[c] = "teardown"
  /\ read' = [read EXCEPT ![c] = file["bench"]]
  /\ Goto(c, IF file["bench"].pid # NoPid \/ Answers(Bench) THEN "match" ELSE "remove")
  /\ UNCHANGED <<system, file, as, left, draft, target, victim>>

-----------------------------------------------------------------------------
(* Browsers and other processes.                                           *)

\* A browser listens, if the port is free.
Listen(i) ==
  /\ process[i].profile # NoProfile
  /\ ~Answers(process[i].profile)
  /\ port' = [port EXCEPT ![Area(process[i].profile)] = process[i].start]
  /\ UNCHANGED <<process, starts, file, pc, memory>>

\* It ends: it was signalled, or crashed, or left the profile to another.
Dies(i) ==
  /\ process[i] # Nobody
  /\ process' = [process EXCEPT ![i] = Nobody]
  /\ port' = [a \in Areas |-> IF port[a] = process[i].start THEN 0 ELSE port[a]]
  /\ UNCHANGED <<starts, file, pc, memory>>

OtherStarts(i) ==
  /\ Start(i, NoProfile, TRUE)
  /\ UNCHANGED <<port, file, pc, memory>>

\* A command is killed.
Crash(c) ==
  /\ pc[c] # "idle"
  /\ Abandon(c)
  /\ UNCHANGED system

-----------------------------------------------------------------------------
WriteState(c) ==
  Truncate(c) \/ WriteLaunching(c) \/ WriteBackendError(c) \/ WriteResult(c)

LaunchSteps(c) ==
  \/ Launch(c) \/ Adopt(c) \/ Backend(c) \/ Spawn(c) \/ Exec(c)
  \/ Answered(c) \/ Unanswered(c) \/ Overdue(c) \/ Identify(c)

KillSteps(c) ==
  Kill(c) \/ Matched(c) \/ StoppedAlready(c) \/ Unmatched(c) \/ AwaitGone(c) \/ NotGone(c)

RemoveSteps(c) ==
  Cleanup(c) \/ Remove(c) \/ Benchmark(c) \/ LaunchExpires(c) \/ Teardown(c)

Next ==
  \/ \E c \in Commands :
       WriteState(c) \/ LaunchSteps(c) \/ KillSteps(c) \/ RemoveSteps(c) \/ Crash(c)
  \/ \E i \in Pids : Listen(i) \/ Dies(i) \/ OtherStarts(i)

Spec == Init /\ [][Next]_vars

-----------------------------------------------------------------------------
Dead(start) == start # 0 => \A i \in Pids : process[i].start # start

\* Whatever the state file says of another profile or of a process whose pid
\* was taken over, and whatever two launches do to each other: only the leader
\* of a browser of one's own profile is signalled, and a kill that found a
\* start in the file signals the process that was recorded
\* (scripts/chip-relay:239-268, 319-325, 441-490).
SignalledOwn ==
  \A c \in Commands : victim[c] # Nobody =>
    /\ victim[c].profile = as[c] /\ victim[c].leader
    /\ read[c].start \in {0, victim[c].start}

\* A kill says "stopped" when the process that it signalled, and the one that
\* was recorded, are gone, through reused pids and other commands that write
\* the file in the meantime (scripts/chip-relay:478-505).
StoppedIsGone ==
  \A c \in Commands : draft[c].status = "stopped" =>
    Dead(victim[c].start) /\ Dead(read[c].start)

\* Neither a cleanup nor the end of a benchmark removes the directory under the
\* browser that the state file had recorded, though launches and kills run
\* beside the one, and the other gave up on its launch or its kill
\* (cleanup.py:48-67, benchmark_runner.py:441-470).
RemovalSparesRecorded ==
  \A c \in Commands : pc[c] = "remove" => Dead(read[c].start)

=============================================================================
