----------------------------- MODULE MCDhtStore -----------------------------
EXTENDS DhtStore

CONSTANTS k1, k2, self, peer

MCKeys == {k1, k2}
MCAddrs == {self, peer}
MCGarbage == {0, 2}
====
