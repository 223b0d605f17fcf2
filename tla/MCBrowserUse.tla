---------------------------- MODULE MCBrowserUse ----------------------------
(***************************************************************************)
(* BrowserUse for TLC: see README.md for the bounds.                       *)
(***************************************************************************)
EXTENDS BrowserUse, TLC

CONSTANTS p1, p2

MCPids == {p1, p2}

\* Pids are interchangeable.
Symmetry == Permutations(MCPids)
=============================================================================
