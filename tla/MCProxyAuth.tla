---------------------------- MODULE MCProxyAuth ----------------------------
(***************************************************************************)
(* ProxyAuth for TLC: see README.md for the bounds.                        *)
(***************************************************************************)
EXTENDS ProxyAuth

CONSTANTS s1, s2, r1, r2

MCSessions == {s1, s2}
MCRequests == {r1, r2}
=============================================================================
