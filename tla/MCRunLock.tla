----------------------------- MODULE MCRunLock -----------------------------
(***************************************************************************)
(* RunLock for TLC.  Three processes are enough for a holder, a waiter on  *)
(* the same inode and a waiter on a replacement; three inodes are enough   *)
(* for each of them to have opened a file of its own.                      *)
(***************************************************************************)
EXTENDS RunLock

CONSTANTS p1, p2, p3, i1, i2, i3

MCProcs == {p1, p2, p3}
MCInodes == {i1, i2, i3}
=============================================================================
