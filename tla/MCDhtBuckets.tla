---------------------------- MODULE MCDhtBuckets ----------------------------
(* The routing table of node s with ids of three bytes over {0, 1}.  s has *)
(* id 000; p has 101, which shares s's bucket at the root but sits under a *)
(* different first byte; q has 110 and r has 011.                          *)
EXTENDS DhtBuckets

CONSTANTS s, p, q, r

MCPeers == {p, q, r}
MCId == [n \in {s, p, q, r} |->
           CASE n = s -> <<0, 0, 0>>
             [] n = p -> <<1, 0, 1>>
             [] n = q -> <<1, 1, 0>>
             [] n = r -> <<0, 1, 1>>]
MCKeys == {MCId[n] : n \in {s, p, q, r}}
=============================================================================
