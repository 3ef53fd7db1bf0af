---------------------------- MODULE MCIrmThreads ----------------------------
(* Instances of IrmThreads for TLC: IRMD_MIN_AV_THREADS = 1,               *)
(* IRMD_MAX_AV_THREADS = 2 and three thread ids, so that busy threads can  *)
(* hold every id; max_threads is a 2-bit size_t.                           *)
EXTENDS IrmThreads

MCIds == {0, 1, 2}
============================================================================
