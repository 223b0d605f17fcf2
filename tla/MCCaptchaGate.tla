--------------------------- MODULE MCCaptchaGate ---------------------------
(***************************************************************************)
(* CaptchaGate for TLC: see README.md for the bounds.                      *)
(***************************************************************************)
EXTENDS CaptchaGate, TLC

CONSTANTS p1, p2, t1, t2, l1, l2

MCProcs == {p1, p2}
MCPages == {t1, t2}
MCLooks == {l1, l2}

\* Processes, pages and looks are interchangeable.
Symmetry ==
  Permutations(MCProcs) \cup Permutations(MCPages) \cup Permutations(MCLooks)

\* lost is history that PinnedClearance reads and no guard nor any other
\* property: states that differ in it only are one.
WithoutLost == <<gates, visuals, holder, pc, command, torn, rounds>>
=============================================================================
