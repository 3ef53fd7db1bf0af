---------------------------- MODULE MCLinkState ----------------------------
(* Instances of the link-state policy for TLC: three nodes on a line or a *)
(* triangle of N-1 flows, and a single pair of nodes.                     *)
EXTENDS LinkState

A == 1
B == 2
C == 3

AllNodes == {A, B, C}

Sym(l) == {<<l[1], l[2]>>, <<l[2], l[1]>>}

LineLinks == Sym(<<A, B>>) \cup Sym(<<B, C>>)
TriangleLinks == LineLinks \cup Sym(<<A, C>>)

PairNodes == {A, B}
PairLinks == Sym(<<A, B>>)
=============================================================================
