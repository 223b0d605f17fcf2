----------------------------- MODULE BrowserUse -----------------------------
(***************************************************************************)
(* `task browser-use execute` (browser_use.py): a script is given to the   *)
(* Browser Use CLI, whose daemon Relay attests and shuts down before it    *)
(* reports.  An execution holds the execution lock, which excludes         *)
(* (RunLock), and has directories of its own: daemons of earlier           *)
(* executions may still live, beside it, in theirs.                        *)
(*                                                                         *)
(* The CLI, its daemon and every other process are external: a daemon may  *)
(* be slow, hang, die without unlinking its socket, or unlink it and live  *)
(* on, and a pid that became free may be taken by another process.  A      *)
(* request to shut down is something the daemon may follow, so it is a     *)
(* step of the daemon's own.                                               *)
(***************************************************************************)
EXTENDS Naturals

CONSTANTS Pids, NoPid,
          MaxExecutions,   \* bound on the executions
          MaxStarts        \* bound on the processes that ever start

ASSUME BrowserUseAssumption ==
  /\ NoPid \notin Pids
  /\ {MaxExecutions, MaxStarts} \subseteq Nat \ {0}

VARIABLES
  execution,   \* the executions so far; the last of them has the lock
  pc,
  runner,      \* what _command found
  cli,         \* how the CLI ended
  heard,       \* the pid in the daemon's answer
  attestation, \* the process that was attested
  closed,      \* daemon_closed
  cleaned,     \* isolation_cleaned
  again,       \* the second shutdown, in the finally
  last         \* results/browser-use/last.json

\* The CLI and its daemons, by execution, and the processes of the system.
VARIABLES
  clis,        \* the executions whose CLI runs
  daemon,      \* what each daemon is doing
  ident,       \* its process
  endpoint,    \* its socket is in its directory
  dirs,        \* the directories of each execution exist
  process,     \* the start token of the process with a pid, 0 for none
  starts       \* the processes that ever started

\* History: nothing in the code reads these.
VARIABLES
  attested,    \* the executions whose daemon was attested
  mistaken,    \* attested processes that are not the daemon
  signalled    \* the processes that Relay sent a signal

progress == <<runner, cli, heard, attestation, closed, cleaned, again>>
daemons == <<clis, daemon, ident>>
system == <<process, starts>>
history == <<attested, mistaken, signalled>>
vars == <<execution, pc, progress, last, daemons, endpoint, dirs, system, history>>

Executions == 1..MaxExecutions
NoProcess == [pid |-> NoPid, start |-> 0]
Processes == [pid : Pids, start : 1..MaxStarts] \cup {NoProcess}
NoResult == [by |-> 0]
Results == [by : Executions, runner : {"browser-use", "configured"},
            status : {"succeeded", "failed"},
            failure : {"none", "stopped", "exit", "attestation", "cleanup"},
            cdp : {"isolated-daemon-cdp", "configured-command-unattested"},
            daemon : {"attested-and-closed", "not-attested", "cleanup-failed"}]

TypeOK ==
  /\ execution \in 0..MaxExecutions
  /\ pc \in {"idle", "running", "import", "attest", "token", "shutdown", "settle",
             "terminate", "await", "conclude", "publish", "recover", "finish"}
  /\ runner \in {"browser-use", "configured"}
  /\ cli \in {"ok", "exit", "stopped"}
  /\ heard \in Pids \cup {NoPid}
  /\ attestation \in Processes
  /\ {closed, cleaned, again} \subseteq BOOLEAN
  /\ last \in Results \cup {NoResult}
  /\ clis \subseteq Executions
  /\ daemon \in [Executions -> {"none", "starting", "serving", "hung", "leaving",
                                "gone"}]
  /\ ident \in [Executions -> Processes]
  /\ endpoint \in [Executions -> BOOLEAN]
  /\ dirs \in [Executions -> BOOLEAN]
  /\ process \in [Pids -> 0..MaxStarts]
  /\ starts \in 0..MaxStarts
  /\ attested \subseteq Executions
  /\ {mistaken, signalled} \subseteq SUBSET Processes

Init ==
  /\ execution = 0
  /\ pc = "idle"
  /\ runner = "browser-use" /\ cli = "ok" /\ heard = NoPid
  /\ attestation = NoProcess
  /\ closed = FALSE /\ cleaned = FALSE /\ again = FALSE
  /\ last = NoResult
  /\ clis = {}
  /\ daemon = [i \in Executions |-> "none"]
  /\ ident = [i \in Executions |-> NoProcess]
  /\ endpoint = [i \in Executions |-> FALSE]
  /\ dirs = [i \in Executions |-> FALSE]
  /\ process = [p \in Pids |-> 0]
  /\ starts = 0
  /\ attested = {} /\ mistaken = {} /\ signalled = {}

-----------------------------------------------------------------------------
Goto(stage) == pc' = stage

Alive(x) == x # NoProcess /\ process[x.pid] = x.start
Socket == endpoint[execution]
Answers == Socket /\ daemon[execution] = "serving"

\* The process ends; a daemon's socket stays where it is.
Dies(x) ==
  /\ process' = [process EXCEPT ![x.pid] = 0]
  /\ daemon' = [i \in Executions |-> IF ident[i] = x THEN "gone" ELSE daemon[i]]

-----------------------------------------------------------------------------
(* The CLI, the daemons and other processes.                               *)

DaemonStarts(i) ==
  /\ i \in clis /\ daemon[i] = "none"
  /\ starts < MaxStarts
  /\ \E p \in Pids :
       /\ process[p] = 0
       /\ process' = [process EXCEPT ![p] = starts + 1]
       /\ ident' = [ident EXCEPT ![i] = [pid |-> p, start |-> starts + 1]]
  /\ starts' = starts + 1
  /\ daemon' = [daemon EXCEPT ![i] = "starting"]
  /\ UNCHANGED <<execution, pc, progress, last, clis, endpoint, dirs, history>>

\* It listens, in its runtime directory.
DaemonBinds(i) ==
  /\ daemon[i] = "starting" /\ dirs[i]
  /\ daemon' = [daemon EXCEPT ![i] = "serving"]
  /\ endpoint' = [endpoint EXCEPT ![i] = TRUE]
  /\ UNCHANGED <<execution, pc, progress, last, clis, ident, dirs, system, history>>

DaemonHangs(i) ==
  /\ daemon[i] = "serving"
  /\ daemon' = [daemon EXCEPT ![i] = "hung"]
  /\ UNCHANGED <<execution, pc, progress, last, clis, ident, endpoint, dirs, system,
                 history>>

\* It unlinks its socket, asked to or not, and may take its time to end.
DaemonLeaves(i) ==
  /\ daemon[i] \in {"serving", "hung"}
  /\ daemon' = [daemon EXCEPT ![i] = "leaving"]
  /\ endpoint' = [endpoint EXCEPT ![i] = FALSE]
  /\ UNCHANGED <<execution, pc, progress, last, clis, ident, dirs, system, history>>

ProcessDies ==
  /\ \E p \in Pids :
       process[p] # 0 /\ Dies([pid |-> p, start |-> process[p]])
  /\ UNCHANGED <<execution, pc, progress, last, clis, ident, endpoint, dirs, starts,
                 history>>

OtherStarts ==
  /\ starts < MaxStarts
  /\ \E p \in Pids :
       /\ process[p] = 0
       /\ process' = [process EXCEPT ![p] = starts + 1]
  /\ starts' = starts + 1
  /\ UNCHANGED <<execution, pc, progress, last, daemons, endpoint, dirs, history>>

-----------------------------------------------------------------------------
(* execute_browser_use.                                                    *)

\* Mutant: the result of the execution before stays.
InvalidateNothing == UNCHANGED last

\* _invalidate_result.
Invalidate == last' = NoResult

\* _command: what is configured, or what is installed.
Command == runner' \in {"browser-use", "configured"}

\* _create_isolation; if it fails, what there is of the directories stays.
CreateIsolation == dirs' = [dirs EXCEPT ![execution + 1] = TRUE]
CreateIsolationFails == dirs' \in {dirs, [dirs EXCEPT ![execution + 1] = TRUE]}

\* Under the lock: the old result goes, the directories come, the CLI starts.
Begin ==
  /\ pc = "idle"
  /\ execution < MaxExecutions
  /\ execution' = execution + 1
  /\ Invalidate
  /\ Command
  /\ \/ /\ CreateIsolation
        /\ clis' = clis \cup {execution + 1}
        /\ Goto("running")
     \/ /\ CreateIsolationFails
        /\ UNCHANGED <<clis, pc>>
  /\ cli' = "ok" /\ heard' = NoPid /\ attestation' = NoProcess
  /\ closed' = FALSE /\ cleaned' = FALSE /\ again' = FALSE
  /\ UNCHANGED <<daemon, ident, endpoint, system, history>>

\* _run_cli: the CLI exits or is stopped (time, output), and its process group
\* is killed, a daemon in a session of its own excepted.
CliEnds ==
  /\ pc = "running"
  /\ clis' = clis \ {execution}
  /\ \/ cli' \in {"ok", "exit", "stopped"} /\ Goto("import")
     \/ UNCHANGED cli /\ Goto("recover")   \* it could not be started
  /\ UNCHANGED <<execution, runner, heard, attestation, closed, cleaned, again, last,
                 daemon, ident, endpoint, dirs, system, history>>

\* The logs are written, and a screenshot is copied out of the isolation, if
\* the script took one.
Import ==
  /\ pc = "import"
  /\ \/ Goto("attest")
     \/ Goto("recover")
  /\ UNCHANGED <<execution, progress, last, daemons, endpoint, dirs, system, history>>

\* _attest_daemon: a daemon that answers both requests tells its pid.
Ping ==
  /\ pc = "attest"
  /\ \/ /\ Answers
        /\ heard' = ident[execution].pid
        /\ Goto("token")
     \/ /\ Goto("shutdown")       \* no socket, no answer, or not in time
        /\ UNCHANGED heard
  /\ UNCHANGED <<execution, runner, cli, attestation, closed, cleaned, again, last,
                 daemons, endpoint, dirs, system, history>>

\* Mutant: a process that is gone has no start, and is attested with none.
StartedUnchecked(pid) == [pid |-> pid, start |-> process[pid]]

\* _process_start_token: the process that has the pid, if there is one.
Started(pid) ==
  IF process[pid] = 0 THEN NoProcess ELSE [pid |-> pid, start |-> process[pid]]

\* The attestation is of the process with that pid, whosever it is by now.
Token ==
  /\ pc = "token"
  /\ attestation' = Started(heard)
  /\ attested' = IF attestation' = ident[execution] THEN attested \cup {execution}
                                                    ELSE attested
  /\ mistaken' = IF attestation' \in {ident[execution], NoProcess} THEN mistaken
                                            ELSE mistaken \cup {attestation'}
  /\ Goto("shutdown")
  /\ UNCHANGED <<execution, runner, cli, heard, closed, cleaned, again, last, daemons,
                 endpoint, dirs, system, signalled>>

-----------------------------------------------------------------------------
(* _shutdown_daemon.                                                       *)

Attested == attestation # NoProcess

\* It ends, for the first or the second time.
ShutdownEnds(result) ==
  /\ closed' = result
  /\ Goto(IF again THEN "finish" ELSE "conclude")

\* Without an attestation, only the socket can be looked at.
Shutdown ==
  /\ pc = "shutdown"
  /\ IF Attested THEN Goto("settle") /\ UNCHANGED closed ELSE ShutdownEnds(~Socket)
  /\ UNCHANGED <<execution, runner, cli, heard, attestation, cleaned, again, last,
                 daemons, endpoint, dirs, system, history>>

\* Mutant: the pid alone makes the process.
SamePid == Attested /\ process[attestation.pid] # 0

\* _same_attested_process.
SameProcess == Attested /\ Alive(attestation)

\* Mutant: a daemon without a socket is closed.
SocketGone == ~Socket

\* The daemon is closed when its socket and its process are gone.
Gone == ~Socket /\ ~SameProcess

\* Three seconds are given to the daemon.  One whose socket is left must prove
\* that it is still the same.
Settle ==
  /\ pc = "settle"
  /\ \/ Gone /\ ShutdownEnds(TRUE)
     \/ ~Socket /\ ~Gone /\ Goto("terminate") /\ UNCHANGED closed
     \/ /\ Answers /\ ident[execution].pid = attestation.pid
        /\ Goto("terminate")
        /\ UNCHANGED closed
     \/ Socket /\ ShutdownEnds(FALSE)
  /\ UNCHANGED <<execution, runner, cli, heard, attestation, cleaned, again, last,
                 daemons, endpoint, dirs, system, history>>

Signal == signalled' = signalled \cup {Started(attestation.pid)}

\* _terminate_attested_process: SIGTERM, which the process may ignore.
Terminate ==
  /\ pc = "terminate"
  /\ \/ /\ SameProcess
        /\ Signal
        /\ Goto("await")
        /\ UNCHANGED closed
     \/ /\ ~SameProcess
        /\ ShutdownEnds(~Socket)
        /\ UNCHANGED signalled
  /\ UNCHANGED <<execution, runner, cli, heard, attestation, cleaned, again, last,
                 daemons, endpoint, dirs, system, attested, mistaken>>

\* Two seconds later: SIGKILL.
Await ==
  /\ pc = "await"
  /\ \/ /\ SameProcess
        /\ Signal
        /\ Dies(Started(attestation.pid))
     \/ /\ ~SameProcess
        /\ UNCHANGED <<signalled, process, daemon>>
  /\ ShutdownEnds(~Socket)
  /\ UNCHANGED <<execution, runner, cli, heard, attestation, cleaned, again, last, clis,
                 ident, endpoint, dirs, starts, attested, mistaken>>

-----------------------------------------------------------------------------
(* The result.                                                             *)

\* _cleanup_isolation, with the socket that is in it, if there is one again.
Cleanup ==
  /\ dirs' = [dirs EXCEPT ![execution] = FALSE]
  /\ endpoint' = [endpoint EXCEPT ![execution] = FALSE]
  /\ cleaned' = TRUE

\* Mutant: the directories go in any case.
ConcludeCleaned ==
  /\ pc = "conclude"
  /\ Cleanup
  /\ Goto("publish")
  /\ UNCHANGED <<execution, runner, cli, heard, attestation, closed, again, last,
                 daemons, system, history>>

Conclude ==
  /\ pc = "conclude"
  /\ \/ closed /\ Cleanup /\ Goto("publish")
     \/ closed /\ Goto("recover") /\ UNCHANGED <<dirs, endpoint, cleaned>>
     \/ ~closed /\ Goto("publish") /\ UNCHANGED <<dirs, endpoint, cleaned>>
  /\ UNCHANGED <<execution, runner, cli, heard, attestation, closed, again, last,
                 daemons, system, history>>

\* Mutant: a daemon that could not be closed is not a failure.
FailureOfCli ==
  CASE cli = "stopped" -> "stopped"
    [] cli = "exit" -> "exit"
    [] cli = "ok" /\ runner = "browser-use" /\ ~Attested -> "attestation"
    [] OTHER -> "none"

\* The last of the failures that were noticed.
Failure ==
  CASE ~closed -> "cleanup"
    [] closed /\ cli = "stopped" -> "stopped"
    [] closed /\ cli = "exit" -> "exit"
    [] closed /\ cli = "ok" /\ runner = "browser-use" /\ ~Attested -> "attestation"
    [] OTHER -> "none"

Result ==
  [by |-> execution, runner |-> runner, failure |-> Failure,
   status |-> IF cli = "ok" /\ Failure = "none" THEN "succeeded" ELSE "failed",
   cdp |-> IF Attested THEN "isolated-daemon-cdp" ELSE "configured-command-unattested",
   daemon |-> CASE ~closed -> "cleanup-failed"
                [] closed /\ Attested -> "attested-and-closed"
                [] closed /\ ~Attested -> "not-attested"]

\* _atomic_write of last.json: all of it, or nothing.
Write(result) == last' \in {last, result}

Publish ==
  /\ pc = "publish"
  /\ Write(Result)
  /\ Goto("recover")
  /\ UNCHANGED <<execution, progress, daemons, endpoint, dirs, system, history>>

\* The finally: what was not closed is closed once more.
Recover ==
  /\ pc = "recover"
  /\ again' = TRUE
  /\ Goto(CASE closed -> "finish"
            [] ~closed /\ Attested -> "shutdown"
            [] ~closed /\ ~Attested -> "attest")
  /\ UNCHANGED <<execution, runner, cli, heard, attestation, closed, cleaned, last,
                 daemons, endpoint, dirs, system, history>>

\* The lock is released.
Finish ==
  /\ pc = "finish"
  /\ \/ closed /\ ~cleaned /\ Cleanup
     \/ UNCHANGED <<dirs, endpoint, cleaned>>
  /\ Goto("idle")
  /\ UNCHANGED <<execution, runner, cli, heard, attestation, closed, again, last,
                 daemons, system, history>>

\* Relay is killed; the CLI, in a session of its own, goes on.
Crash ==
  /\ pc # "idle"
  /\ Goto("idle")
  /\ UNCHANGED <<execution, progress, last, daemons, endpoint, dirs, system, history>>

\* _load_result does not call it browser_use_metadata.
Loads(r) ==
  /\ r.daemon = "attested-and-closed" => r.cdp = "isolated-daemon-cdp"
  /\ r.daemon = "not-attested" => r.cdp = "configured-command-unattested"
  /\ r.daemon = "cleanup-failed" => r.status = "failed" /\ r.failure = "cleanup"
  /\ r.status = "succeeded" <=> r.failure = "none"
  /\ r.status = "succeeded" /\ r.runner = "browser-use" =>
       r.cdp = "isolated-daemon-cdp"

-----------------------------------------------------------------------------
Execute ==
  \/ Begin \/ CliEnds \/ Import \/ Ping \/ Token
  \/ Shutdown \/ Settle \/ Terminate \/ Await
  \/ Conclude \/ Publish \/ Recover \/ Finish \/ Crash

Environment ==
  \/ \E i \in Executions :
       DaemonStarts(i) \/ DaemonBinds(i) \/ DaemonHangs(i) \/ DaemonLeaves(i)
  \/ ProcessDies \/ OtherStarts

Next == Execute \/ Environment

Spec == Init /\ [][Next]_vars

-----------------------------------------------------------------------------
\* "then shuts the daemon down and verifies that both process and endpoint are
\* gone", before success (README.md:198): a result that says so is true, and a
\* success of the installed runner says so (browser_use.py:819-845, 898-934).
ClosedAsReported ==
  last # NoResult =>
    /\ last.daemon = "attested-and-closed" =>
         ~Alive(ident[last.by]) /\ ~endpoint[last.by]
    /\ last.status = "succeeded" /\ last.runner = "browser-use" =>
         last.daemon = "attested-and-closed"

\* What execute publishes, the report can load: none of the ways through the
\* function gives a result whose fields contradict each other
\* (browser_use.py:899-934 and 1020-1083).
ResultLoads == last # NoResult => Loads(last)

\* No process is signalled but a daemon, though its pid may be another's by
\* then; the exception is a pid that was taken between the daemon's answer and
\* the look at its start (browser_use.py:751-773, 784-816).
OthersSpared ==
  signalled \subseteq {ident[i] : i \in Executions} \cup mistaken

\* "removes the temporary execution directory after daemon closure"
\* (README.md:200): the directories of an attested daemon stay as long as it
\* lives, on every path through the finally (browser_use.py:898-941).
IsolationKept ==
  \A i \in attested : ~dirs[i] => ~Alive(ident[i])

\* The result on disk is never that of an earlier execution, through failures
\* and crashes (browser_use.py:848-856, 874-876).
ResultOfLatest == last # NoResult => last.by = execution

=============================================================================
