---------------------------- MODULE MCDhtLookup ----------------------------
(* Instances of DhtLookup for TLC.                                         *)
(*                                                                         *)
(* Five nodes 1..5 look up key 6; the querying node is 1.  Distances to   *)
(* the key: 1 -> 7, 3 -> 5, 2 -> 4, 5 -> 3, 4 -> 2.  Node 1 knows 2 and   *)
(* 4; 2 knows 3 and 5, 3 knows 2 and 1, 4 knows 5 and 3, 5 knows 4.  Node *)
(* 5 holds the value, the address 3.                                       *)
EXTENDS DhtLookup

H1 == "h1"
H2 == "h2"
TwoHandlers == {H1, H2}

MCIds == 1..5
MCKnown == <<2, 4>>
MCPeerBucket == (1 :> <<>>) @@ (2 :> <<3, 5>>) @@ (3 :> <<2, 1>>)
                @@ (4 :> <<5, 3>>) @@ (5 :> <<4>>)
MCHolders == {5}
============================================================================
