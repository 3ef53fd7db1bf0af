--------------------------- MODULE MCDataTransfer ---------------------------
(* One reserved fd (PROG_RES_FDS = 1) wanted by two components, so one   *)
(* registration fails; two N-1 flows in fds 1 and 2; three slots.         *)
EXTENDS DataTransfer

CONSTANTS c1, c2

MCComps == {c1, c2}
MCFlows == {1, 2}
====
