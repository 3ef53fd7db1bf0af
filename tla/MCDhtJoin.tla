----------------------------- MODULE MCDhtJoin -----------------------------
(* Instances of DhtJoin for TLC. *)
EXTENDS DhtJoin

H1 == "h1"
H2 == "h2"
OneHandler == {H1}
TwoHandlers == {H1, H2}
============================================================================
