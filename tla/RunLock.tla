------------------------------ MODULE RunLock ------------------------------
(***************************************************************************)
(* One run-scoped lock of workspace.py: execution_run_lock, and, with      *)
(* another scope name, _manifest_lock.  A process opens (or creates) the   *)
(* lock file of the run directory, takes flock on the INODE it opened,     *)
(* and then binds an abstract socket whose name is derived from the run's  *)
(* path (_replacement_safe_lock), retrying every 10 ms while the name is   *)
(* taken.  On the way out it closes the socket first and the flock second. *)
(*                                                                         *)
(* The file may be unlinked or replaced while processes hold or wait for   *)
(* it, after which two processes can own the flocks of two inodes: the     *)
(* socket is there for that case.  Only Linux has abstract sockets; on     *)
(* other platforms _replacement_safe_lock is a no-op.                      *)
(***************************************************************************)

CONSTANTS Procs,       \* processes that use the run
          NoProc,
          Inodes,      \* inodes a lock file can be created with
          NoInode,
          Linux        \* sys.platform.startswith("linux")

ASSUME RunLockAssumption ==
  /\ NoProc \notin Procs
  /\ NoInode \notin Inodes
  /\ Linux \in BOOLEAN

VARIABLES stage,    \* where each process is in the context manager
          fd,       \* the inode each process has open, or NoInode
          path,     \* the inode the lock file's name leads to, or NoInode
          flock,    \* the process that owns the flock of each inode
          address,  \* the process whose socket is bound to the run's name
          unlinked  \* history: the lock file was unlinked at least once

vars == <<stage, fd, path, flock, address, unlinked>>

(***************************************************************************)
(* idle -> opened -> flocked -> critical -> unguarded -> idle              *)
(***************************************************************************)
Stages == {"idle", "opened", "flocked", "critical", "unguarded"}

TypeOK ==
  /\ stage \in [Procs -> Stages]
  /\ fd \in [Procs -> Inodes \cup {NoInode}]
  /\ path \in Inodes \cup {NoInode}
  /\ flock \in [Inodes -> Procs \cup {NoProc}]
  /\ address \in Procs \cup {NoProc}
  /\ unlinked \in BOOLEAN

Init ==
  /\ stage = [p \in Procs |-> "idle"]
  /\ fd = [p \in Procs |-> NoInode]
  /\ path = NoInode
  /\ flock = [i \in Inodes |-> NoProc]
  /\ address = NoProc
  /\ unlinked = FALSE

-----------------------------------------------------------------------------
(* An inode is free for a new file when no name and no descriptor has it.  *)
FreeInode(i) == i # path /\ \A q \in Procs : fd[q] # i

\* os.open(".execution.lock", O_RDWR | O_CREAT | ...): the file the name
\* leads to, or a new one.
OpenLockFile(p) ==
  /\ stage[p] = "idle"
  /\ \E i \in Inodes :
       /\ IF path = NoInode THEN FreeInode(i) ELSE i = path
       /\ path' = i
       /\ fd' = [fd EXCEPT ![p] = i]
  /\ stage' = [stage EXCEPT ![p] = "opened"]
  /\ UNCHANGED <<flock, address, unlinked>>

\* fcntl.flock(lock_fd, LOCK_EX) blocks until the inode's flock is free.
TakeFlock(p) ==
  /\ stage[p] = "opened"
  /\ flock[fd[p]] = NoProc
  /\ flock' = [flock EXCEPT ![fd[p]] = p]
  /\ stage' = [stage EXCEPT ![p] = "flocked"]
  /\ UNCHANGED <<fd, path, address, unlinked>>

\* Mutant: the flock of the opened inode is trusted alone.
BindGuardSkipped(p) ==
  /\ stage[p] = "flocked"
  /\ stage' = [stage EXCEPT ![p] = "critical"]
  /\ UNCHANGED <<fd, path, flock, address, unlinked>>

\* guard.bind(address): an EADDRINUSE answer changes nothing and is retried,
\* so only the attempt that succeeds is a step.
BindGuard(p) ==
  /\ stage[p] = "flocked"
  /\ IF Linux
       THEN address = NoProc /\ address' = p
       ELSE UNCHANGED address
  /\ stage' = [stage EXCEPT ![p] = "critical"]
  /\ UNCHANGED <<fd, path, flock, unlinked>>

\* Any other bind error leaves the context manager without its body.
BindFails(p) ==
  /\ Linux
  /\ stage[p] = "flocked"
  /\ stage' = [stage EXCEPT ![p] = "unguarded"]
  /\ UNCHANGED <<fd, path, flock, address, unlinked>>

\* Mutant: the socket is left open when the body ends.
CloseGuardForgotten(p) ==
  /\ stage[p] = "critical"
  /\ stage' = [stage EXCEPT ![p] = "unguarded"]
  /\ UNCHANGED <<fd, path, flock, address, unlinked>>

\* The body ended, normally or by an exception: guard.close().
CloseGuard(p) ==
  /\ stage[p] = "critical"
  /\ address' = IF address = p THEN NoProc ELSE address
  /\ stage' = [stage EXCEPT ![p] = "unguarded"]
  /\ UNCHANGED <<fd, path, flock, unlinked>>

\* Mutant: the outer finally forgets to unlock and to close the descriptor.
UnlockForgotten(p) ==
  /\ stage[p] = "unguarded"
  /\ stage' = [stage EXCEPT ![p] = "idle"]
  /\ UNCHANGED <<fd, path, flock, address, unlinked>>

\* The outer finally: flock(LOCK_UN) and os.close(lock_fd).
Unlock(p) ==
  /\ stage[p] = "unguarded"
  /\ flock' = [flock EXCEPT ![fd[p]] = NoProc]
  /\ fd' = [fd EXCEPT ![p] = NoInode]
  /\ stage' = [stage EXCEPT ![p] = "idle"]
  /\ UNCHANGED <<path, address, unlinked>>

\* A process that dies loses its descriptors: the kernel drops its flock and
\* its socket name in the same instant.
Crash(p) ==
  /\ stage[p] # "idle"
  /\ flock' = [i \in Inodes |-> IF flock[i] = p THEN NoProc ELSE flock[i]]
  /\ address' = IF address = p THEN NoProc ELSE address
  /\ fd' = [fd EXCEPT ![p] = NoInode]
  /\ stage' = [stage EXCEPT ![p] = "idle"]
  /\ UNCHANGED <<path, unlinked>>

\* Somebody removes the lock file; the next OpenLockFile creates another.
Unlink ==
  /\ path # NoInode
  /\ path' = NoInode
  /\ unlinked' = TRUE
  /\ UNCHANGED <<stage, fd, flock, address>>

Step(p) == \/ OpenLockFile(p) \/ TakeFlock(p) \/ BindGuard(p)
           \/ BindFails(p) \/ CloseGuard(p) \/ Unlock(p)

Next == (\E p \in Procs : Step(p) \/ Crash(p)) \/ Unlink

Spec == Init /\ [][Next]_vars

(***************************************************************************)
(* Once in the context manager a process runs on.  The kernel serves the   *)
(* waiters of one flock in turn, which is strong fairness of TakeFlock;    *)
(* nothing queues the processes that retry bind, so that BindGuard is only *)
(* weakly fair.                                                            *)
(***************************************************************************)
Fairness ==
  \A p \in Procs :
    /\ SF_vars(TakeFlock(p))
    /\ WF_vars(BindGuard(p) \/ BindFails(p))
    /\ WF_vars(CloseGuard(p))
    /\ WF_vars(Unlock(p))

FairSpec == Spec /\ Fairness

-----------------------------------------------------------------------------
\* No two processes are inside the body of the lock, whatever happens to the
\* lock file on Linux; elsewhere, as long as the file stays in place
\* (workspace.py:336-338 and 294-312).
MutualExclusion ==
  Linux \/ ~unlinked =>
    \A p, q \in Procs : stage[p] = "critical" /\ stage[q] = "critical" => p = q

\* A flock or a socket name always belongs to a process that is still between
\* taking it and giving it back, so that no crash leaves the run locked
\* (workspace.py:312, 341-347 and the kernel's own clean-up).
NoOrphanedLock ==
  /\ \A i \in Inodes, p \in Procs :
       flock[i] = p => fd[p] = i /\ stage[p] \in {"flocked", "critical", "unguarded"}
  /\ \A p \in Procs : address = p => stage[p] = "critical"

\* Whoever is inside, for the refinement of Mutex.
Holder == IF \E p \in Procs : stage[p] = "critical"
            THEN CHOOSE p \in Procs : stage[p] = "critical"
            ELSE NoProc

Lock == INSTANCE Mutex WITH holder <- Holder

\* The lock implements Mutex: it passes from one process to another only
\* through "free", also when the holder dies or the file is replaced.
ImplementsMutex == Lock!Spec

\* Each process that asks for the lock gets it, or leaves by an error, as long
\* as the lock file stays in place.  After a replacement this is lost: the
\* processes that wait for bind are not queued, and one that owns the flock
\* of the old file may lose to those that come through the new file for ever.
NoStarvation ==
  \A p \in Procs :
    stage[p] = "opened" ~> stage[p] \in {"critical", "unguarded", "idle"} \/ unlinked
=============================================================================
