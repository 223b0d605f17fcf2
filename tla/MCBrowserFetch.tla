--------------------------- MODULE MCBrowserFetch ---------------------------
(***************************************************************************)
(* BrowserFetch for TLC.  Two calls race for the last record; the third    *)
(* handle lets one of them come back after an undo, a crash or an index.   *)
(***************************************************************************)
EXTENDS BrowserFetch, TLC

CONSTANTS p1, p2, h1, h2, h3

MCProcs == {p1, p2}
MCHandles == {h1, h2, h3}

\* Processes and handles are interchangeable.
Symmetry == Permutations(MCProcs) \cup Permutations(MCHandles)
=============================================================================
