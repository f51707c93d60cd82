------------------------------ MODULE MCLogin ------------------------------
(* Login for TLC: the callback ports of consts.go:14 are cut to two.       *)
EXTENDS Login, TLC

CONSTANTS a, b, r1, r2, p1, p2

MCPorts == <<p1, p2>>

\* Attempts differ in nothing but their names, and so do requests; ports are
\* tried in order.  For runs of safety properties only.
MCSymmetry == Permutations(Logins) \cup Permutations(Conns)
=============================================================================
