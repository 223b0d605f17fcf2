------------------------------- MODULE Mutex -------------------------------
(***************************************************************************)
(* What a run-scoped lock promises to the code that takes it: a process    *)
(* that returns from `with execution_run_lock(...)` or `_manifest_lock`    *)
(* holds it alone, and the lock of a process that leaves or dies is free.  *)
(* RunLock is shown to implement this module.  RunExecution, Diagnosis and *)
(* CaptchaGate take their locks as it says.                                *)
(***************************************************************************)

CONSTANTS Procs,    \* the processes that may take the lock
          NoProc    \* "nobody"

VARIABLE holder     \* the process inside the critical section, or NoProc

TypeOK == holder \in Procs \cup {NoProc}

Init == holder = NoProc

Acquire(p) == holder = NoProc /\ holder' = p

\* Leaving the body, an exception in it and the death of the process all
\* free the lock.
Release(p) == holder = p /\ holder' = NoProc

Next == \E p \in Procs : Acquire(p) \/ Release(p)

Spec == Init /\ [][Next]_holder
=============================================================================
