------------------------------ MODULE MCGraph ------------------------------
(* Instances of Graph for TLC. *)
EXTENDS Graph

A == 1
B == 2
C == 3
D == 4

Three == {A, B, C}
Four  == {A, B, C, D}

AllPairs(S) == {l \in S \X S : l[1] # l[2]}
ThreeLinks == AllPairs(Three)

(* Spec S4: the diamond A-B, A-C, B-D, C-D, announced from both ends.     *)
Diamond == {<<A, B>>, <<A, C>>, <<B, D>>, <<C, D>>}
DiamondAdj == Diamond \cup {<<l[2], l[1]>> : l \in Diamond}

(* The diamond with the chord B-C: cycles of length three and four.       *)
Chorded == DiamondAdj \cup {<<B, C>>, <<C, B>>}

============================================================================
