---------------------------- MODULE IrmThreads ----------------------------
(***************************************************************************)
(* The thread pool of the IPC resource manager (src/irmd/main.c).          *)
(*                                                                         *)
(*   - mainloop threads accept a client on the IRMd socket, read and       *)
(*     unpack its message, handle it and reply.  irmd.threads counts the   *)
(*     threads that are available: thread_dec when a message is taken,     *)
(*     thread_inc when its reply is sent, thread_exit (which also releases *)
(*     the thread's id in irmd.thread_ids) when the thread leaves;         *)
(*   - threadpoolmgr tops the pool up to max_threads when fewer than       *)
(*     IRMD_MIN_AV_THREADS are available, lowers max_threads on every      *)
(*     IRMD_TPM_TIMEOUT without a signal, and on shutdown waits until no   *)
(*     thread is available any more;                                       *)
(*   - irmd_sig_handler sets the state to IRMD_NULL; main joins the        *)
(*     manager, then irm_fini frees the thread ids, the port ids and the   *)
(*     registry, and the process exits.                                    *)
(* threads_lock is a lock: a step that takes it is atomic, and the         *)
(* manager holds it across its spawn loop (pc "spawn").  What a message    *)
(* does is left out: a handled message is one step.                        *)
(***************************************************************************)
EXTENDS Integers, FiniteSets

CONSTANTS
    MinAv,         \* IRMD_MIN_AV_THREADS
    MaxAv,         \* IRMD_MAX_AV_THREADS
    Ids,           \* ids of irmd.thread_ids (IRMD_MAX_THREADS of them)
    SizeMax,       \* 2^w: size_t arithmetic on max_threads is modulo this
    MaxReqs,       \* client connections made, bounding the run
    CreateMayFail  \* pthread_create may fail

ASSUME /\ MinAv \in Nat /\ MaxAv \in Nat /\ MinAv <= MaxAv
       /\ MaxAv < SizeMax /\ MaxReqs \in Nat /\ CreateMayFail \in BOOLEAN

VARIABLES
    state,       \* irmd.state
    threads,     \* irmd.threads
    maxThreads,  \* irmd.max_threads
    ids,         \* ids allocated in irmd.thread_ids
    th,          \* th[i]: mainloop thread i: "none", "top", "accept",
                 \*   "conn" (message read), "busy" (message taken)
    tpm,         \* threadpoolmgr: "loop", "spawn", "wait", "drain", "done"
    sig,         \* threads_cond was signalled since the manager waited
    main,        \* main: "run", "fini" (in irm_fini), "exit"
    reqs,        \* client connections accepted
    uaf          \* a mainloop thread ran on in what irm_fini freed

vars == <<state, threads, maxThreads, ids, th, tpm, sig, main, reqs, uaf>>

Idle == {i \in Ids : th[i] \in {"top", "accept", "conn"}}

TypeOK ==
    /\ state \in {"RUNNING", "NULL"}
    /\ threads \in 0..Cardinality(Ids)
    /\ maxThreads \in 0..(SizeMax - 1)
    /\ ids \subseteq Ids
    /\ th \in [Ids -> {"none", "top", "accept", "conn", "busy"}]
    /\ tpm \in {"loop", "spawn", "wait", "drain", "done"}
    /\ sig \in BOOLEAN /\ main \in {"run", "fini", "exit"}
    /\ reqs \in 0..MaxReqs /\ uaf \in BOOLEAN

(* irm_init: no threads, max_threads = IRMD_MIN_AV_THREADS, running; main *)
(* then starts the manager.                                                *)
Init ==
    /\ state = "RUNNING" /\ threads = 0 /\ maxThreads = MinAv
    /\ ids = {} /\ th = [i \in Ids |-> "none"]
    /\ tpm = "loop" /\ sig = FALSE /\ main = "run"
    /\ reqs = 0 /\ uaf = FALSE

(* The manager holds threads_lock in its spawn loop.                       *)
Locked == tpm = "spawn"

(* pthread_cond_signal on threads_cond: only the manager waits on it.      *)
Signal == sig' = (sig \/ tpm \in {"wait", "drain"})

(* A mainloop thread runs on in memory irm_fini frees.                     *)
Touch == uaf' = (uaf \/ main = "fini")

Alive == main # "exit"

-----------------------------------------------------------------------------
(* mainloop.                                                               *)

(* Loop top: irmd_get_state and thread_check pass; block in accept().     *)
Check(i) ==
    /\ Alive /\ ~Locked /\ th[i] = "top"
    /\ state = "RUNNING" /\ threads <= maxThreads
    /\ th' = [th EXCEPT ![i] = "accept"]
    /\ UNCHANGED <<state, threads, maxThreads, ids, tpm, sig, main, reqs, uaf>>

ThreadExit_after_dec(i) ==
    /\ Alive /\ ~Locked
    /\ \/ th[i] = "top" /\ (state # "RUNNING" \/ threads > maxThreads)
       \/ th[i] \in {"conn", "busy"} /\ state # "RUNNING"
    /\ ids' = ids \ {i} /\ threads' = threads - 1
    /\ th' = [th EXCEPT ![i] = "none"]
    /\ Signal /\ Touch
    /\ UNCHANGED <<state, maxThreads, tpm, main, reqs>>

(* Mutant: thread_exit does not release the thread id.                     *)
ThreadExit_no_release(i) ==
    /\ Alive /\ ~Locked
    /\ \/ th[i] = "top" /\ (state # "RUNNING" \/ threads > maxThreads)
       \/ th[i] = "conn" /\ state # "RUNNING"
    /\ threads' = threads - 1
    /\ th' = [th EXCEPT ![i] = "none"]
    /\ Signal /\ Touch
    /\ UNCHANGED <<state, maxThreads, ids, tpm, main, reqs>>

(* thread_exit: release the id, --threads, signal, leave the loop; at the  *)
(* loop top when the IRMd stops or the pool is above max_threads, or when  *)
(* the IRMd stopped while the message was read.                           *)
ThreadExit(i) ==
    /\ Alive /\ ~Locked
    /\ \/ th[i] = "top" /\ (state # "RUNNING" \/ threads > maxThreads)
       \/ th[i] = "conn" /\ state # "RUNNING"
    /\ ids' = ids \ {i} /\ threads' = threads - 1
    /\ th' = [th EXCEPT ![i] = "none"]
    /\ Signal /\ Touch
    /\ UNCHANGED <<state, maxThreads, tpm, main, reqs>>

(* accept() returns a client, or times out (SO_RCVTIMEO) back to the top. *)
Accept(i) ==
    /\ Alive /\ th[i] = "accept" /\ reqs < MaxReqs
    /\ th' = [th EXCEPT ![i] = "conn"] /\ reqs' = reqs + 1
    /\ UNCHANGED <<state, threads, maxThreads, ids, tpm, sig, main, uaf>>

AcceptTimeout(i) ==
    /\ Alive /\ th[i] = "accept"
    /\ th' = [th EXCEPT ![i] = "top"]
    /\ UNCHANGED <<state, threads, maxThreads, ids, tpm, sig, main, reqs, uaf>>

(* With the message read and the IRMd running: the read or the unpack     *)
(* fails and the thread goes back to the top, or thread_dec takes it.     *)
ConnFail(i) ==
    /\ Alive /\ th[i] = "conn" /\ state = "RUNNING"
    /\ th' = [th EXCEPT ![i] = "top"]
    /\ UNCHANGED <<state, threads, maxThreads, ids, tpm, sig, main, reqs, uaf>>

ThreadDec(i) ==
    /\ Alive /\ ~Locked /\ th[i] = "conn" /\ state = "RUNNING"
    /\ threads' = threads - 1 /\ th' = [th EXCEPT ![i] = "busy"]
    /\ Signal
    /\ UNCHANGED <<state, maxThreads, ids, tpm, main, reqs, uaf>>

ThreadInc_no_inc(i) ==
    /\ Alive /\ ~Locked /\ th[i] = "busy"
    /\ th' = [th EXCEPT ![i] = "top"]
    /\ Signal /\ Touch
    /\ UNCHANGED <<state, threads, maxThreads, ids, tpm, main, reqs>>

(* The message is handled and the reply sent (or not): every path ends in *)
(* thread_inc.                                                            *)
ThreadInc(i) ==
    /\ Alive /\ ~Locked /\ th[i] = "busy"
    /\ threads' = threads + 1 /\ th' = [th EXCEPT ![i] = "top"]
    /\ Signal /\ Touch
    /\ UNCHANGED <<state, maxThreads, ids, tpm, main, reqs>>

(* What the thread does without a client.                                *)
ThreadRun(i) ==
    \/ Check(i) \/ ThreadExit(i) \/ AcceptTimeout(i)
    \/ ConnFail(i) \/ ThreadDec(i) \/ ThreadInc(i)

ThreadStep(i) == ThreadRun(i) \/ Accept(i)

-----------------------------------------------------------------------------
(* threadpoolmgr.                                                          *)

TpmLoop_always_drain ==
    /\ tpm = "loop"
    /\ CASE state # "RUNNING" ->
              tpm' = "drain" /\ sig' = FALSE /\ UNCHANGED maxThreads
         [] threads < MinAv ->
              tpm' = "spawn" /\ maxThreads' = MaxAv /\ UNCHANGED sig
         [] OTHER ->
              tpm' = "wait" /\ sig' = FALSE /\ UNCHANGED maxThreads
    /\ UNCHANGED <<state, threads, ids, th, main, reqs, uaf>>

(* Loop top: on shutdown wait (under threads_lock) for threads = 0;        *)
(* otherwise, with fewer than IRMD_MIN_AV_THREADS available, set           *)
(* max_threads to IRMD_MAX_AV_THREADS and spawn; then the timed wait.      *)
TpmLoop ==
    /\ tpm = "loop"
    /\ CASE state # "RUNNING" ->
              /\ tpm' = IF threads = 0 THEN "done" ELSE "drain"
              /\ sig' = FALSE /\ UNCHANGED maxThreads
         [] threads < MinAv ->
              tpm' = "spawn" /\ maxThreads' = MaxAv /\ UNCHANGED sig
         [] OTHER ->
              tpm' = "wait" /\ sig' = FALSE /\ UNCHANGED maxThreads
    /\ UNCHANGED <<state, threads, ids, th, main, reqs, uaf>>

(* One turn of `while (threads < max_threads)`: bmp_allocate an id (or     *)
(* break when none is free), pthread_create, and ++threads if it started.  *)
(* A failed pthread_create keeps the id.                                   *)
TpmSpawn ==
    /\ tpm = "spawn"
    /\ IF threads >= maxThreads \/ ids = Ids
       THEN tpm' = "wait" /\ sig' = FALSE /\ UNCHANGED <<ids, th, threads>>
       ELSE \E i \in Ids \ ids :
              /\ ids' = ids \cup {i}
              /\ \/ th' = [th EXCEPT ![i] = "top"] /\ threads' = threads + 1
                 \/ CreateMayFail /\ UNCHANGED <<th, threads>>
              /\ UNCHANGED <<tpm, sig>>
    /\ UNCHANGED <<state, maxThreads, main, reqs, uaf>>

(* pthread_cond_timedwait returns on a signal, or times out, and then     *)
(* --max_threads when more than IRMD_MIN_AV_THREADS are available.         *)
TpmWake ==
    /\ tpm = "wait" /\ sig
    /\ tpm' = "loop" /\ sig' = FALSE
    /\ UNCHANGED <<state, threads, maxThreads, ids, th, main, reqs, uaf>>

TpmTimeout ==
    /\ tpm = "wait" /\ ~sig
    /\ maxThreads' = IF threads > MinAv THEN (maxThreads - 1) % SizeMax
                                        ELSE maxThreads
    /\ tpm' = "loop"
    /\ UNCHANGED <<state, threads, ids, th, sig, main, reqs, uaf>>

(* The shutdown wait re-checks threads on every signal.                    *)
TpmDrain ==
    /\ tpm = "drain" /\ sig
    /\ tpm' = (IF threads = 0 THEN "done" ELSE "drain") /\ sig' = FALSE
    /\ UNCHANGED <<state, threads, maxThreads, ids, th, main, reqs, uaf>>

TpmStep == TpmLoop \/ TpmSpawn \/ TpmWake \/ TpmTimeout \/ TpmDrain

-----------------------------------------------------------------------------
(* Shutdown.                                                               *)

(* irmd_sig_handler on SIGINT, SIGTERM or SIGHUP.                          *)
SigTerm ==
    /\ state = "RUNNING" /\ state' = "NULL"
    /\ UNCHANGED <<threads, maxThreads, ids, th, tpm, sig, main, reqs, uaf>>

(* main joins the manager (and irm_sanitize, which leaves within its      *)
(* timer), runs irm_fini, and exits.                                       *)
Fini ==
    /\ main = "run" /\ tpm = "done" /\ main' = "fini"
    /\ UNCHANGED <<state, threads, maxThreads, ids, th, tpm, sig, reqs, uaf>>

Exit ==
    /\ main = "fini" /\ main' = "exit"
    /\ UNCHANGED <<state, threads, maxThreads, ids, th, tpm, sig, reqs, uaf>>

MainStep == Fini \/ Exit

Next ==
    \/ \E i \in Ids : ThreadStep(i)
    \/ TpmStep \/ MainStep \/ SigTerm

(* Threads are scheduled, accept() and the manager's wait time out, and   *)
(* main runs; clients and the signal come when they come.  A thread's      *)
(* steps take threads_lock, which the manager holds in its spawn loop and  *)
(* releases for every timed wait: a thread blocked on the mutex gets it,   *)
(* so the threads are strongly fair.                                       *)
Fairness ==
    /\ \A i \in Ids : SF_vars(ThreadRun(i))
    /\ WF_vars(TpmStep) /\ WF_vars(MainStep)

Spec == Init /\ [][Next]_vars /\ Fairness

-----------------------------------------------------------------------------
(* Properties.                                                             *)

(* irmd.threads counts the mainloop threads that can take a message: every *)
(* path of mainloop and of the manager's spawn loop keeps the counter and  *)
(* the threads in step.                                                    *)
ThreadsCountsIdle == main = "run" => threads = Cardinality(Idle)

(* An id is held in irmd.thread_ids exactly while a thread runs with it.  *)
IdsMatchThreads == main = "run" => ids = {i \in Ids : th[i] # "none"}

(* No mainloop thread runs on after irm_fini has started to free what it  *)
(* uses.                                                                   *)
NoUseAfterFini == ~uaf

(* A signal stops the IRMd: every thread leaves and main exits.            *)
ShutdownCompletes == state = "NULL" ~> main = "exit"

(* While the IRMd runs, a pool below IRMD_MIN_AV_THREADS is topped up.     *)
PoolReplenished ==
    (state = "RUNNING" /\ threads < MinAv) ~> (threads >= MinAv \/ state = "NULL")

====
