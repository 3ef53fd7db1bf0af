---------------------------- MODULE MCRingBuffer ----------------------------
(* Two writer processes, two reader threads, a ring of four slots and    *)
(* five writes, so the indices wrap and the ring fills (three entries).   *)
EXTENDS RingBuffer, TLC

CONSTANTS w1, w2, r1, r2

MCWriters == {w1, w2}
MCReaders == {r1, r2}
(* A writer that puts port_id -1 in an entry (an entry with no packet). *)
NegPorts == {-1, 1}
Perms == Permutations(MCWriters) \cup Permutations(MCReaders)
====
