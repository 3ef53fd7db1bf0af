------------------------------- MODULE DhtJoin -------------------------------
(***************************************************************************)
(* Enrolment of the DHT directory (src/ipcpd/unicast/dir/dht.c) of one     *)
(* IPCP into a layer through one existing member.                          *)
(*                                                                         *)
(* Threads of the enrolling IPCP:                                          *)
(*   - the DT connection thread, which calls handle_event for every        *)
(*     NOTIFY_DT_CONN_ADD, one after the other;                            *)
(*   - the join threads handle_event starts (join_thr -> kad_join ->       *)
(*     send_msg, kad_req_create, wait_resp, kad_req_wait);                 *)
(*   - the packet handler threads of the tpm (dht_handle_packet ->         *)
(*     kad_handle_response -> kad_handle_join_resp, kad_req_destroy);      *)
(*   - the worker threads kad_handle_join_resp starts (work), which expire *)
(*     unanswered requests.                                                *)
(* The member answers every KAD_JOIN, accepting it or refusing it; DT may  *)
(* lose the request or the response and deliver in any order.             *)
(*                                                                         *)
(* A request is its cookie.  Cookies are taken fresh (the bitmap could     *)
(* hand a released cookie out again; that reuse is not modelled).          *)
(***************************************************************************)
EXTENDS Integers, FiniteSets

CONSTANTS
    MaxEvents,        \* NOTIFY_DT_CONN_ADD events delivered
    Handlers,         \* packet handler threads of the tpm
    MaxReqs,          \* cookies, hence join requests, available
    JoinRetr,         \* KAD_JOIN_RETR
    JoinRespMayFail   \* whether kad_handle_join_resp may fail

ASSUME /\ MaxEvents \in Nat /\ MaxReqs \in Nat /\ JoinRetr \in Nat
       /\ JoinRespMayFail \in BOOLEAN

Cookies == 1..MaxReqs

(* handle_event starts at most one join thread per event.                 *)
JoinIds == 1..MaxEvents

VARIABLES
    st,        \* dht->state
    buckets,   \* dht->buckets # NULL
    workers,   \* worker threads started
    reqs,      \* cookies of the requests on dht->requests
    rstate,    \* req->state of every request, "FREE" once freed
    nextC,     \* next cookie
    toM,       \* join requests on their way to the member
    net,       \* cookies of the responses on their way back
    jt,        \* join threads: [pc, c, retr]
    events,    \* events delivered
    hd,        \* packet handler threads: [pc, c]
    wk,        \* cookie a worker is destroying while holding dht->lock, 0 if none
    uaf        \* a thread locked or wrote a freed request

vars == <<st, buckets, workers, reqs, rstate, nextC, toM, net, jt,
          events, hd, wk, uaf>>

States == {"INIT", "SHUTDOWN", "JOINING", "RUNNING"}
ReqStates == {"UNUSED", "NULL", "INIT", "PENDING", "RESPONSE", "DONE",
              "DESTROY", "FREE"}
JoinPcs == {"none", "send", "create", "find", "wait", "waiting", "joined",
            "failed", "end"}
HdPcs == {"idle", "join_resp", "destroy", "destroy_wait"}

TypeOK ==
    /\ st \in States /\ buckets \in BOOLEAN /\ workers \in 0..MaxReqs
    /\ reqs \subseteq Cookies /\ rstate \in [Cookies -> ReqStates]
    /\ nextC \in 1..MaxReqs + 1
    /\ toM \subseteq Cookies /\ net \subseteq Cookies
    /\ jt \in [JoinIds -> [pc : JoinPcs, c : 0..MaxReqs, retr : 0..JoinRetr]]
    /\ events \in 0..MaxEvents
    /\ hd \in [Handlers -> [pc : HdPcs, c : 0..MaxReqs]]
    /\ wk \in 0..MaxReqs /\ uaf \in BOOLEAN

Init ==
    /\ st = "INIT" /\ buckets = FALSE /\ workers = 0
    /\ reqs = {} /\ rstate = [c \in Cookies |-> "UNUSED"] /\ nextC = 1
    /\ toM = {} /\ net = {}
    /\ jt = [j \in JoinIds |-> [pc |-> "none", c |-> 0, retr |-> 0]]
    /\ events = 0
    /\ hd = [h \in Handlers |-> [pc |-> "idle", c |-> 0]]
    /\ wk = 0 /\ uaf = FALSE

(* dht->lock is free of writers: a worker destroying a request holds it.  *)
LockFree == wk = 0

(* A request's lock taken on freed memory marks the use after free; the   *)
(* request is then left as it is.                                         *)
TouchReq(c, new) ==
    IF rstate[c] = "FREE" THEN /\ uaf' = TRUE /\ UNCHANGED rstate
    ELSE /\ rstate' = [rstate EXCEPT ![c] = new] /\ UNCHANGED uaf

-----------------------------------------------------------------------------
(* Mutant: a request that got its response is treated like a DONE one.  *)
DestroyFirst_resp_null(s) ==
    CASE s = "PENDING"                       -> "DESTROY"
      [] s \in {"INIT", "DONE", "RESPONSE"}  -> "NULL"
      [] OTHER                               -> s

(* kad_req_destroy, up to its wait: DESTROY returns at once; PENDING      *)
(* becomes DESTROY and the waiter is signalled; INIT and DONE become      *)
(* NULL; RESPONSE and NULL stay.  The request is freed on leaving the     *)
(* wait loop, at once if its state is NULL or DONE.                       *)
DestroyFirst(s) ==
    CASE s = "PENDING"           -> "DESTROY"
      [] s \in {"INIT", "DONE"}  -> "NULL"
      [] OTHER                   -> s

Freeable(s) == s \in {"NULL", "DONE"}

(* dht_set_state under dht->mtx: DHT_JOINING only from DHT_INIT, any     *)
(* other state unconditionally; the waiters on dht->cond are woken.       *)
dht_set_state(s) == st' = IF s = "JOINING" /\ st # "INIT" THEN st ELSE s

-----------------------------------------------------------------------------
(* handle_event(NOTIFY_DT_CONN_ADD): in DHT_INIT, dht_set_state(JOINING)  *)
(* and start join_thr; in any other state nothing.  The DT connection     *)
(* thread is the only caller and the only thread that sets JOINING, and   *)
(* the state leaves DHT_INIT only through it, so dht_set_state does not   *)
(* fail after dht_get_state returned DHT_INIT and the dht_wait_running    *)
(* branch is never taken in an enrolling IPCP.                            *)
ConnAdd ==
    /\ events < MaxEvents
    /\ events' = events + 1
    /\ IF st = "INIT"
       THEN /\ dht_set_state("JOINING")
            /\ jt' = [jt EXCEPT ![events + 1] = [pc |-> "send", c |-> 0, retr |-> 0]]
       ELSE UNCHANGED <<st, jt>>
    /\ UNCHANGED <<buckets, workers, reqs, rstate, nextC, toM, net, hd, wk, uaf>>

-----------------------------------------------------------------------------
SetJt(j, pc) == jt' = [jt EXCEPT ![j].pc = pc]

(* send_msg(KAD_JOIN): allocate a cookie under dht->lock and write the    *)
(* packet; the request is created after the write.                        *)
JoinSend(j) ==
    /\ jt[j].pc = "send" /\ LockFree
    /\ IF nextC <= MaxReqs
       THEN /\ jt' = [jt EXCEPT ![j].pc = "create", ![j].c = nextC]
            /\ nextC' = nextC + 1 /\ toM' = toM \cup {nextC}
       ELSE /\ SetJt(j, "failed") /\ UNCHANGED <<nextC, toM>>
    /\ UNCHANGED <<st, buckets, workers, reqs, rstate, net, events, hd,
                   wk, uaf>>

(* kad_req_create, unless the DHT is shutting down.                        *)
JoinCreate(j) ==
    LET c == jt[j].c IN
    /\ jt[j].pc = "create" /\ LockFree
    /\ IF st # "SHUTDOWN"
       THEN /\ reqs' = reqs \cup {c} /\ rstate' = [rstate EXCEPT ![c] = "INIT"]
       ELSE UNCHANGED <<reqs, rstate>>
    /\ SetJt(j, "find")
    /\ UNCHANGED <<st, buckets, workers, nextC, toM, net, events, hd,
                   wk, uaf>>

(* wait_resp: find the request under the read lock and drop the lock;     *)
(* -EPERM when it is gone.                                                *)
JoinFind(j) ==
    /\ jt[j].pc = "find" /\ LockFree
    /\ SetJt(j, IF jt[j].c \in reqs THEN "wait" ELSE "failed")
    /\ UNCHANGED <<st, buckets, workers, reqs, rstate, nextC, toM, net,
                   events, hd, wk, uaf>>

(* kad_req_wait: lock the request and set it PENDING.                     *)
JoinWait(j) ==
    /\ jt[j].pc = "wait"
    /\ TouchReq(jt[j].c, "PENDING")
    /\ SetJt(j, "waiting")
    /\ UNCHANGED <<st, buckets, workers, reqs, nextC, toM, net, events,
                   hd, wk>>

(* Woken with the state no longer PENDING: DESTROY gives -1 and NULL;     *)
(* RESPONSE gives 0 and DONE.                                             *)
JoinWake(j) ==
    LET c == jt[j].c IN
    /\ jt[j].pc = "waiting" /\ rstate[c] \in {"DESTROY", "RESPONSE"}
    /\ rstate' = [rstate EXCEPT ![c] = IF @ = "DESTROY" THEN "NULL" ELSE "DONE"]
    /\ SetJt(j, IF rstate[c] = "RESPONSE" THEN "joined" ELSE "failed")
    /\ UNCHANGED <<st, buckets, workers, reqs, nextC, toM, net, events,
                   hd, wk, uaf>>

(* Mutant: the timeout is returned as a positive ETIMEDOUT, which kad_join *)
(* takes for success.                                                      *)
JoinTimeout_positive(j) ==
    LET c == jt[j].c IN
    /\ jt[j].pc = "waiting" /\ rstate[c] = "PENDING"
    /\ rstate' = [rstate EXCEPT ![c] = "DONE"]
    /\ SetJt(j, "joined")
    /\ UNCHANGED <<st, buckets, workers, reqs, nextC, toM, net, events,
                   hd, wk, uaf>>

(* The timed wait of KAD_T_JOIN expires while PENDING: DONE, -ETIMEDOUT.  *)
JoinTimeout(j) ==
    LET c == jt[j].c IN
    /\ jt[j].pc = "waiting" /\ rstate[c] = "PENDING"
    /\ rstate' = [rstate EXCEPT ![c] = "DONE"]
    /\ SetJt(j, "failed")
    /\ UNCHANGED <<st, buckets, workers, reqs, nextC, toM, net, events,
                   hd, wk, uaf>>

(* kad_join after a response: create the id, update the bucket under the  *)
(* write lock; join_thr then sets DHT_RUNNING.                            *)
JoinDone(j) ==
    /\ jt[j].pc = "joined" /\ LockFree
    /\ dht_set_state("RUNNING")
    /\ SetJt(j, "end")
    /\ UNCHANGED <<buckets, workers, reqs, rstate, nextC, toM, net,
                   events, hd, wk, uaf>>

(* Mutant: the retry limit is tested after the increment.                *)
JoinRetry_off_by_one(j) ==
    /\ jt[j].pc = "failed"
    /\ CASE st = "SHUTDOWN"           -> SetJt(j, "end") /\ UNCHANGED st
         [] jt[j].retr > JoinRetr     -> SetJt(j, "end") /\ st' = "INIT"
         [] OTHER                     -> /\ jt' = [jt EXCEPT ![j].pc = "send",
                                                             ![j].retr = @ + 1]
                                         /\ UNCHANGED st
    /\ UNCHANGED <<buckets, workers, reqs, rstate, nextC, toM, net, events,
                   hd, wk, uaf>>

(* Mutant: no retry limit.                                                 *)
JoinRetry_forever(j) ==
    /\ jt[j].pc = "failed"
    /\ IF st = "SHUTDOWN" THEN SetJt(j, "end") ELSE SetJt(j, "send")
    /\ UNCHANGED <<st, buckets, workers, reqs, rstate, nextC, toM, net, events,
                   hd, wk, uaf>>

(* join_thr after a failed kad_join: stop on SHUTDOWN; after KAD_JOIN_RETR *)
(* retries set DHT_INIT and stop; else try again.                          *)
JoinRetry(j) ==
    /\ jt[j].pc = "failed"
    /\ CASE st = "SHUTDOWN"        -> SetJt(j, "end") /\ UNCHANGED st
         [] jt[j].retr = JoinRetr  -> SetJt(j, "end") /\ dht_set_state("INIT")
         [] OTHER                  -> /\ jt' = [jt EXCEPT ![j].pc = "send",
                                                          ![j].retr = @ + 1]
                                      /\ UNCHANGED st
    /\ UNCHANGED <<buckets, workers, reqs, rstate, nextC, toM, net,
                   events, hd, wk, uaf>>

-----------------------------------------------------------------------------
(* The member handles the KAD_JOIN and sends its response.               *)
MemberRespond(c) ==
    /\ c \in toM
    /\ toM' = toM \ {c}
    /\ net' = net \cup {c}
    /\ UNCHANGED <<st, buckets, workers, reqs, rstate, nextC, jt, events,
                   hd, wk, uaf>>

(* DT drops a request or a response.                                       *)
Lose ==
    \/ \E c \in toM : toM' = toM \ {c} /\ UNCHANGED net
    \/ \E m \in net : net' = net \ {m} /\ UNCHANGED toM
Lose_vars == <<st, buckets, workers, reqs, rstate, nextC, jt, events,
               hd, wk, uaf>>

(* dht_handle_packet takes a response (no wait_running for responses);    *)
(* kad_handle_response finds the request under the write lock, releases   *)
(* its cookie and unlinks it; without a request the response is dropped.  *)
HandleResponse(h, m) ==
    /\ hd[h].pc = "idle" /\ m \in net /\ LockFree
    /\ net' = net \ {m}
    /\ IF m \in reqs
       THEN /\ reqs' = reqs \ {m}
            /\ hd' = [hd EXCEPT ![h] = [pc |-> "join_resp", c |-> m]]
       ELSE UNCHANGED <<reqs, hd>>
    /\ UNCHANGED <<st, buckets, workers, rstate, nextC, toM, jt, events,
                   wk, uaf>>

(* kad_handle_join_resp: under the write lock, create the buckets, start *)
(* a worker and kad_req_respond.  It returns -1 without responding when   *)
(* the member refused (parameter mismatch), b < 8, or bucket_create or    *)
(* pthread_create fails.                                                  *)
HandleJoinResp(h) ==
    LET c == hd[h].c IN
    /\ hd[h].pc = "join_resp" /\ LockFree
    /\ \E ok \in IF JoinRespMayFail THEN BOOLEAN ELSE {TRUE} :
       IF ok
       THEN /\ buckets' = TRUE /\ workers' = workers + 1
            /\ TouchReq(c, "RESPONSE")
       ELSE UNCHANGED <<buckets, workers, rstate, uaf>>
    /\ hd' = [hd EXCEPT ![h].pc = "destroy"]
    /\ UNCHANGED <<st, reqs, nextC, toM, net, jt, events, wk>>

(* kad_req_destroy by the handler.                                         *)
HandlerDestroy(h) ==
    LET c == hd[h].c
        s == DestroyFirst(rstate[c])
    IN  /\ hd[h].pc = "destroy"
        /\ IF rstate[c] = "DESTROY"
           THEN /\ hd' = [hd EXCEPT ![h].pc = "idle"] /\ UNCHANGED rstate
           ELSE /\ rstate' = [rstate EXCEPT ![c] = IF Freeable(s) THEN "FREE" ELSE s]
                /\ hd' = [hd EXCEPT ![h].pc = IF Freeable(s) THEN "idle" ELSE "destroy_wait"]
        /\ UNCHANGED <<st, buckets, workers, reqs, nextC, toM, net, jt,
                       events, wk, uaf>>

HandlerDestroyWake(h) ==
    /\ hd[h].pc = "destroy_wait" /\ Freeable(rstate[hd[h].c])
    /\ rstate' = [rstate EXCEPT ![hd[h].c] = "FREE"]
    /\ hd' = [hd EXCEPT ![h].pc = "idle"]
    /\ UNCHANGED <<st, buckets, workers, reqs, nextC, toM, net, jt,
                   events, wk, uaf>>

-----------------------------------------------------------------------------
(* work(): a request past t_exp is unlinked, its cookie released, its     *)
(* peer marked dead and the request destroyed, all under the write lock.  *)
(* t_exp is KAD_T_RESP (5 s) after creation; the join thread goes from     *)
(* kad_req_create to kad_req_wait without sleeping, so an expired request  *)
(* is PENDING (the wait lasts KAD_T_JOIN, 8 s) or DONE (timed out).        *)
WorkerExpire(c) ==
    LET s == DestroyFirst(rstate[c]) IN
    /\ workers > 0 /\ LockFree /\ c \in reqs
    /\ rstate[c] \in {"PENDING", "DONE"}
    /\ reqs' = reqs \ {c}
    /\ IF rstate[c] = "DESTROY" THEN UNCHANGED <<rstate, wk>>
       ELSE /\ rstate' = [rstate EXCEPT ![c] = IF Freeable(s) THEN "FREE" ELSE s]
            /\ wk' = IF Freeable(s) THEN 0 ELSE c
    /\ UNCHANGED <<st, buckets, workers, nextC, toM, net, jt, events,
                   hd, uaf>>

WorkerDestroyWake ==
    /\ wk # 0 /\ Freeable(rstate[wk])
    /\ rstate' = [rstate EXCEPT ![wk] = "FREE"]
    /\ wk' = 0
    /\ UNCHANGED <<st, buckets, workers, reqs, nextC, toM, net, jt,
                   events, hd, uaf>>

(* dht_destroy, as far as the state: DHT_RUNNING becomes DHT_SHUTDOWN    *)
(* (the teardown that follows is not modelled).                           *)
Shutdown ==
    /\ st = "RUNNING"
    /\ dht_set_state("SHUTDOWN")
    /\ UNCHANGED <<buckets, workers, reqs, rstate, nextC, toM, net, jt,
                   events, hd, wk, uaf>>

-----------------------------------------------------------------------------
JoinStep(j) ==
    \/ JoinSend(j) \/ JoinCreate(j) \/ JoinFind(j) \/ JoinWait(j)
    \/ JoinWake(j) \/ JoinTimeout(j) \/ JoinDone(j) \/ JoinRetry(j)

HandlerStep(h) ==
    \/ \E m \in net : HandleResponse(h, m)
    \/ HandleJoinResp(h) \/ HandlerDestroy(h) \/ HandlerDestroyWake(h)

Next ==
    \/ ConnAdd
    \/ \E j \in JoinIds : JoinStep(j)
    \/ \E c \in Cookies : MemberRespond(c)
    \/ Lose /\ UNCHANGED Lose_vars
    \/ \E h \in Handlers : HandlerStep(h)
    \/ \E c \in Cookies : WorkerExpire(c)
    \/ WorkerDestroyWake
    \/ Shutdown

(* Every thread that can run eventually runs: the join threads (their     *)
(* timed wait expires), the handler threads, and a                        *)
(* worker that waits for a request's owner.  The member, DT, the arrival  *)
(* of events and the expiry timer get no fairness.                        *)
Fairness ==
    /\ \A j \in JoinIds : WF_vars(JoinStep(j))
    /\ \A h \in Handlers : WF_vars(HandleJoinResp(h) \/ HandlerDestroy(h)
                                   \/ HandlerDestroyWake(h))
    /\ WF_vars(WorkerDestroyWake)

Spec == Init /\ [][Next]_vars /\ Fairness

-----------------------------------------------------------------------------
(* A DHT in DHT_RUNNING has its bucket tree: join_thr sets RUNNING only   *)
(* after kad_req_wait saw the response kad_handle_join_resp signals after *)
(* creating the buckets.                                                  *)
RunningHasBuckets == st = "RUNNING" => buckets

(* No thread locks or writes a request that kad_req_destroy freed (wait_  *)
(* resp drops dht->lock between finding the request and waiting on it).  *)
NoUseAfterFree == ~uaf

(* kad_handle_join_resp starts the worker thread once: one enrolment, one *)
(* worker.                                                                *)
SingleWorker == workers <= 1

(* Every packet handler thread that took a response returns to the tpm:   *)
(* kad_req_destroy does not wait for ever.                               *)
HandlersReturn == \A h \in Handlers : hd[h].pc # "idle" ~> hd[h].pc = "idle"

(* Every join thread ends (KAD_JOIN_RETR bounds the retries, the timed    *)
(* wait bounds each try), leaving the DHT out of DHT_JOINING.            *)
JoinEnds ==
    /\ \A j \in JoinIds : jt[j].pc \notin {"none", "end"} ~> jt[j].pc = "end"
    /\ st = "JOINING" ~> st # "JOINING"

=============================================================================
