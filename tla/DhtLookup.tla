------------------------------ MODULE DhtLookup ------------------------------
(***************************************************************************)
(* A FIND_VALUE lookup of the DHT directory (src/ipcpd/unicast/dir/dht.c) *)
(* run by dht_query on a RUNNING DHT whose store does not hold the key.    *)
(*                                                                         *)
(* Threads of the querying IPCP:                                           *)
(*   - the lookup thread: dht_query -> kad_lookup (lookup_create,          *)
(*     lookup_new_addrs, kad_find -> send_msg, lookup_wait, lookup_detach) *)
(*     -> lookup_get_addrs, lookup_destroy;                                *)
(*   - the packet handler threads of the tpm: kad_handle_response ->       *)
(*     kad_handle_find_resp -> dht_find_lookup, lookup_update;             *)
(*   - the worker, which expires unanswered requests.                      *)
(* Peers answer from their own buckets (dht_retrieve, dht_get_contacts);   *)
(* DT may lose a request or a response and delivers in any order.          *)
(*                                                                         *)
(* A node is its id, and its id is also its address.  The distance of a    *)
(* node to the key is the XOR of the two (dist).  A request is its cookie; *)
(* cookies are taken fresh.                                                *)
(***************************************************************************)
EXTENDS Integers, Sequences, FiniteSets, Bitwise, SequencesExt

CONSTANTS
    Ids,          \* ids (and addresses) of the nodes, naturals > 0
    Self,         \* dht->addr, the querying node
    Key,          \* the key looked up
    Known,        \* contacts of the querying node's root bucket, in order
    PeerBucket,   \* PeerBucket[p]: contacts of peer p's root bucket
    Holders,      \* peers whose store holds a value for Key
    Value,        \* the address they store for Key
    K,            \* dht->k
    Alpha,        \* KAD_ALPHA
    Handlers,     \* packet handler threads of the tpm
    MaxSends      \* requests sent before send_msg fails for good

ASSUME /\ Ids \subseteq Nat \ {0} /\ Self \in Ids /\ Key \in Nat
       /\ Known \in Seq(Ids) /\ PeerBucket \in [Ids -> Seq(Ids)]
       /\ Holders \subseteq Ids /\ Value \in Ids
       /\ K \in Nat \ {0} /\ Alpha \in Nat \ {0} /\ MaxSends \in Nat

Cookies == 1..MaxSends

VARIABLES
    lu,       \* the lookup: [st, contacts, cookies, addrs, listed, seen]
    lt,       \* the lookup thread: [pc, todo, first, sent, c]
    out,      \* out[c]: the peer the request with cookie c went to
    reqs,     \* cookies of the requests on dht->requests
    toPeer,   \* cookies of the requests on their way to a peer
    toSelf,   \* cookies of the responses on their way back
    hd,       \* packet handler threads: [pc, c, sig]
    result,   \* what dht_query returned, -1 before it returns
    uaf       \* a handler locked a freed lookup

vars == <<lu, lt, out, reqs, toPeer, toSelf, hd, result, uaf>>

LuStates == {"NONE", "INIT", "PENDING", "UPDATE", "COMPLETE", "FREE"}
LtPcs == {"create", "first_addrs", "send", "req", "cookie", "wait",
          "waiting", "update", "detach", "query", "done"}
HdPcs == {"idle", "find_resp", "lu_wait"}
Contact == [id : Ids, fails : 0..1]

TypeOK ==
    /\ lu \in [st : LuStates, contacts : Seq(Contact),
               cookies : SUBSET Cookies, addrs : Seq(Ids),
               listed : BOOLEAN, seen : SUBSET Ids]
    /\ lt \in [pc : LtPcs, todo : Seq(Ids), first : BOOLEAN,
               sent : 0..MaxSends, c : 0..MaxSends]
    /\ out \in Seq(Ids) /\ Len(out) <= MaxSends
    /\ reqs \subseteq Cookies /\ toPeer \subseteq Cookies
    /\ toSelf \subseteq Cookies
    /\ hd \in [Handlers -> [pc : HdPcs, c : 0..MaxSends, sig : BOOLEAN]]
    /\ result \in Ids \cup {0, -1} /\ uaf \in BOOLEAN

Init ==
    /\ lu = [st |-> "NONE", contacts |-> <<>>, cookies |-> {},
             addrs |-> <<>>, listed |-> FALSE, seen |-> {}]
    /\ lt = [pc |-> "create", todo |-> <<>>, first |-> TRUE, sent |-> 0,
             c |-> 0]
    /\ out = <<>> /\ reqs = {} /\ toPeer = {} /\ toSelf = {}
    /\ hd = [h \in Handlers |-> [pc |-> "idle", c |-> 0, sig |-> FALSE]]
    /\ result = -1 /\ uaf = FALSE

-----------------------------------------------------------------------------
(* Contact lists.                                                          *)

(* dist: the XOR metric to the key, tabulated once over the ids.           *)
DistTo == [id \in Ids |-> id ^^ Key]
Dist(id) == DistTo[id]

(* list_add_sorted: c goes before the first e with dist(c) > dist(e), so  *)
(* a list is kept in DESCENDING order of distance.                         *)
AddSorted(l, id) ==
    LET at == {i \in DOMAIN l : Dist(id) > Dist(l[i])}
    IN  InsertAt(l, IF at = {} THEN Len(l) + 1 ELSE Min(at), id)

(* dht_contact_list on a root bucket (parent NULL): add the bucket's       *)
(* contacts in bucket order, stopping once k are listed.                   *)
RECURSIVE ContactList(_, _)
ContactList(acc, s) ==
    IF s = <<>> \/ Len(acc) = K THEN acc
    ELSE ContactList(AddSorted(acc, Head(s)), Tail(s))

Ids_of(l) == {l[i].id : i \in DOMAIN l}

(* What peer p answers a KAD_FIND_VALUE with: one stored address           *)
(* (dht_retrieve, DHT_RETR_ADDR) or its contacts (dht_get_contacts).       *)
RespAddrs(p) == IF p \in Holders THEN <<Value>> ELSE <<>>
RespTable == [p \in Ids |-> IF p \in Holders THEN <<>>
                              ELSE ContactList(<<>>, PeerBucket[p])]
RespContacts(p) == RespTable[p]

(* One contact of a response merged into the lookup by lookup_update:      *)
(* the walk stops at a duplicate or at the first e farther than c; pos     *)
(* counts the contacts walked past.  Returns [l, mod].                     *)
(* Mutant: the walk without the memcmp duplicate check.                  *)
MergeOne_no_dup(l, id) ==
    LET stop == {i \in DOMAIN l : Dist(id) > Dist(l[i].id)}
        p    == IF stop = {} THEN Len(l) + 1 ELSE Min(stop)
        c    == [id |-> id, fails |-> 0]
    IN  CASE Len(l) < K  -> [l |-> InsertAt(l, p, c), mod |-> TRUE]
          [] p - 1 = K   -> [l |-> l, mod |-> FALSE]
          [] OTHER       -> [l |-> Front(InsertAt(l, p, c)), mod |-> TRUE]

MergeOne(l, id) ==
    LET stop == {i \in DOMAIN l : l[i].id = id \/ Dist(id) > Dist(l[i].id)}
        p    == IF stop = {} THEN Len(l) + 1 ELSE Min(stop)
        pos  == p - 1
        c    == [id |-> id, fails |-> 0]
    IN  CASE p <= Len(l) /\ l[p].id = id -> [l |-> l, mod |-> FALSE]
          [] Len(l) < K  -> [l |-> InsertAt(l, p, c), mod |-> TRUE]
          [] pos = K     -> [l |-> l, mod |-> FALSE]
          [] OTHER       -> [l |-> Front(InsertAt(l, p, c)), mod |-> TRUE]

RECURSIVE MergeAll(_, _, _)
MergeAll(l, s, mod) ==
    IF s = <<>> THEN [l |-> l, mod |-> mod]
    ELSE LET r == MergeOne(l, Head(s))
         IN  MergeAll(r.l, Tail(s), mod \/ r.mod)

(* lookup_new_addrs: the first KAD_ALPHA contacts, in list order, never    *)
(* queried (fails = 0); they are marked queried.                           *)
Picked(l) == {i \in DOMAIN l :
                /\ l[i].fails = 0
                /\ Cardinality({j \in 1..i - 1 : l[j].fails = 0}) < Alpha}
NewAddrs(l) ==
    [addrs |-> [n \in 1..Cardinality(Picked(l)) |->
                  l[CHOOSE i \in Picked(l) :
                      Cardinality({j \in Picked(l) : j < i}) = n - 1].id],
     l |-> [i \in DOMAIN l |->
              IF i \in Picked(l) THEN [l[i] EXCEPT !.fails = 1] ELSE l[i]]]

-----------------------------------------------------------------------------
(* The lookup thread.                                                      *)

SetPc(pc) == lt' = [lt EXCEPT !.pc = pc]

(* lookup_create: a new lookup in LU_INIT, put on dht->lookups and seeded  *)
(* by dht_contact_list, all under the DHT write lock.                      *)
LookupCreate ==
    /\ lt.pc = "create"
    /\ LET l == ContactList(<<>>, Known)
       IN  lu' = [st |-> "INIT", cookies |-> {}, addrs |-> <<>>,
                  listed |-> TRUE, seen |-> Range(l),
                  contacts |-> [i \in DOMAIN l |-> [id |-> l[i], fails |-> 0]]]
    /\ SetPc("first_addrs")
    /\ UNCHANGED <<out, reqs, toPeer, toSelf, hd, result, uaf>>

(* kad_lookup's first lookup_new_addrs; with nobody to ask the lookup is   *)
(* detached and destroyed (LU_INIT -> LU_NULL, freed) and dht_query       *)
(* returns 0.                                                              *)
FirstAddrs ==
    /\ lt.pc = "first_addrs"
    /\ LET r == NewAddrs(lu.contacts)
       IN  IF r.addrs = <<>>
           THEN /\ lu' = [lu EXCEPT !.contacts = r.l, !.listed = FALSE,
                                    !.st = "FREE"]
                /\ SetPc("done") /\ result' = 0
           ELSE /\ lu' = [lu EXCEPT !.contacts = r.l]
                /\ lt' = [lt EXCEPT !.pc = "send", !.todo = r.addrs,
                                    !.first = TRUE, !.sent = 0]
                /\ UNCHANGED result
    /\ UNCHANGED <<out, reqs, toPeer, toSelf, hd, uaf>>

(* kad_find, loop head: its own address is skipped; send_msg takes a      *)
(* cookie and writes the request, and fails (ending the loop) once         *)
(* MaxSends requests are out.  After the loop, a first round that sent     *)
(* nothing detaches the lookup and returns it; any other goes to wait.     *)
FindSkipSelf ==
    /\ lt.pc = "send" /\ lt.todo # <<>> /\ Head(lt.todo) = Self
    /\ lt' = [lt EXCEPT !.todo = Tail(@)]
    /\ UNCHANGED <<lu, out, reqs, toPeer, toSelf, hd, result, uaf>>

(* Mutant: the request goes out under the cookie before the one taken.    *)
FindSend_cookie_off_by_one ==
    /\ lt.pc = "send" /\ lt.todo # <<>> /\ Head(lt.todo) # Self
    /\ Len(out) < MaxSends
    /\ out' = Append(out, Head(lt.todo))
    /\ toPeer' = toPeer \cup {Len(out)}
    /\ lt' = [lt EXCEPT !.pc = "req", !.c = Len(out)]
    /\ UNCHANGED <<lu, reqs, toSelf, hd, result, uaf>>

FindSend ==
    /\ lt.pc = "send" /\ lt.todo # <<>> /\ Head(lt.todo) # Self
    /\ Len(out) < MaxSends
    /\ out' = Append(out, Head(lt.todo))
    /\ toPeer' = toPeer \cup {Len(out) + 1}
    /\ lt' = [lt EXCEPT !.pc = "req", !.c = Len(out) + 1]
    /\ UNCHANGED <<lu, reqs, toSelf, hd, result, uaf>>

FindEnd ==
    /\ lt.pc = "send"
    /\ \/ lt.todo = <<>>
       \/ lt.todo # <<>> /\ Head(lt.todo) # Self /\ Len(out) = MaxSends
    /\ SetPc(IF lt.first /\ lt.sent = 0 THEN "detach" ELSE "wait")
    /\ UNCHANGED <<lu, out, reqs, toPeer, toSelf, hd, result, uaf>>

(* send_msg, after the write: kad_req_create lists the request.            *)
FindCreate ==
    /\ lt.pc = "req"
    /\ reqs' = reqs \cup {lt.c}
    /\ SetPc("cookie")
    /\ UNCHANGED <<lu, out, toPeer, toSelf, hd, result, uaf>>

(* kad_find, after send_msg returns: the cookie joins lu->cookies.         *)
FindCookie ==
    /\ lt.pc = "cookie"
    /\ lu' = [lu EXCEPT !.cookies = @ \cup {lt.c}]
    /\ lt' = [lt EXCEPT !.pc = "send", !.todo = Tail(@), !.sent = @ + 1]
    /\ UNCHANGED <<out, reqs, toPeer, toSelf, hd, result, uaf>>

(* lookup_wait: LU_INIT and LU_UPDATE become LU_PENDING, with no          *)
(* broadcast; the thread then sleeps while the lookup is pending.          *)
(* Mutant: only LU_INIT becomes LU_PENDING.                               *)
LookupWait_init_only ==
    /\ lt.pc = "wait"
    /\ lu' = [lu EXCEPT !.st = IF @ = "INIT" THEN "PENDING" ELSE @]
    /\ SetPc("waiting")
    /\ UNCHANGED <<out, reqs, toPeer, toSelf, hd, result, uaf>>

LookupWait ==
    /\ lt.pc = "wait"
    /\ lu' = [lu EXCEPT !.st = IF @ \in {"INIT", "UPDATE"} THEN "PENDING"
                                                           ELSE @]
    /\ SetPc("waiting")
    /\ UNCHANGED <<out, reqs, toPeer, toSelf, hd, result, uaf>>

(* lookup_wait returns the state a handler set: kad_lookup detaches a      *)
(* complete lookup and asks more contacts of an updated one.               *)
LookupWake ==
    /\ lt.pc = "waiting" /\ lu.st \in {"UPDATE", "COMPLETE"}
    /\ SetPc(IF lu.st = "COMPLETE" THEN "detach" ELSE "update")
    /\ UNCHANGED <<lu, out, reqs, toPeer, toSelf, hd, result, uaf>>

(* pthread_cond_timedwait returns ETIMEDOUT, also when a broadcast came    *)
(* but the thread got the mutex back after the deadline: LU_COMPLETE.      *)
LookupTimeout ==
    /\ lt.pc = "waiting" /\ lu.st \in {"PENDING", "UPDATE"}
    /\ lu' = [lu EXCEPT !.st = "COMPLETE"]
    /\ SetPc("detach")
    /\ UNCHANGED <<out, reqs, toPeer, toSelf, hd, result, uaf>>

(* kad_lookup, LU_UPDATE: lookup_new_addrs, then kad_find if any.          *)
LookupUpdate ==
    /\ lt.pc = "update"
    /\ LET r == NewAddrs(lu.contacts)
       IN  /\ lu' = [lu EXCEPT !.contacts = r.l]
           /\ lt' = IF r.addrs = <<>> THEN [lt EXCEPT !.pc = "wait"]
                    ELSE [lt EXCEPT !.pc = "send", !.todo = r.addrs,
                                    !.first = FALSE, !.sent = 0]
    /\ UNCHANGED <<out, reqs, toPeer, toSelf, hd, result, uaf>>

(* lookup_detach: off dht->lookups under the DHT write lock.               *)
LookupDetach ==
    /\ lt.pc = "detach"
    /\ lu' = [lu EXCEPT !.listed = FALSE]
    /\ SetPc("query")
    /\ UNCHANGED <<out, reqs, toPeer, toSelf, hd, result, uaf>>

(* dht_query: lookup_get_addrs, lookup_destroy (LU_INIT, LU_UPDATE and    *)
(* LU_COMPLETE go to LU_NULL with no broadcast, and the lookup is freed),  *)
(* then the first address that is not its own.                             *)
(* lookup_get_addrs: the addresses found, copied under lu->lock.          *)
LookupGetAddrs == lu.addrs

QueryAddr(a) == CASE a = <<>>     -> 0
                  [] a[1] # Self  -> a[1]
                  [] Len(a) > 1   -> a[2]
                  [] OTHER        -> 0

Query ==
    /\ lt.pc = "query" /\ lu.st \in {"INIT", "UPDATE", "COMPLETE"}
    /\ lu' = [lu EXCEPT !.st = "FREE"]
    /\ result' = QueryAddr(LookupGetAddrs)
    /\ SetPc("done")
    /\ UNCHANGED <<out, reqs, toPeer, toSelf, hd, uaf>>

-----------------------------------------------------------------------------
(* Peers, DT and the worker.                                               *)

(* The peer answers (dht_handle_packet, KAD_FIND_VALUE) under the cookie. *)
PeerRespond(c) ==
    /\ c \in toPeer
    /\ toPeer' = toPeer \ {c} /\ toSelf' = toSelf \cup {c}
    /\ UNCHANGED <<lu, lt, out, reqs, hd, result, uaf>>

(* DT loses a request or a response.                                       *)
Lose(c) ==
    /\ \/ c \in toPeer /\ toPeer' = toPeer \ {c} /\ UNCHANGED toSelf
       \/ c \in toSelf /\ toSelf' = toSelf \ {c} /\ UNCHANGED toPeer
    /\ UNCHANGED <<lu, lt, out, reqs, hd, result, uaf>>

(* work: a request past its t_exp leaves dht->requests and is destroyed.  *)
WorkerExpire(c) ==
    /\ c \in reqs
    /\ reqs' = reqs \ {c}
    /\ UNCHANGED <<lu, lt, out, toPeer, toSelf, hd, result, uaf>>

-----------------------------------------------------------------------------
(* The packet handlers.                                                    *)

(* pthread_cond_broadcast on lu->cond: every handler asleep in            *)
(* lookup_update is signalled.                                             *)
Broadcast(h0) == [g \in Handlers |->
                    IF h0[g].pc = "lu_wait" THEN [h0[g] EXCEPT !.sig = TRUE]
                    ELSE h0[g]]

(* kad_handle_response: a response whose request is still listed takes it *)
(* off dht->requests; any other response is dropped.                       *)
(* dht_find_request: the listed request with the response's cookie.      *)
FindRequest(c) == c \in reqs

HandleResponse(h, c) ==
    /\ hd[h].pc = "idle" /\ c \in toSelf
    /\ toSelf' = toSelf \ {c}
    /\ IF FindRequest(c)
       THEN /\ reqs' = reqs \ {c}
            /\ hd' = [hd EXCEPT ![h] = [pc |-> "find_resp", c |-> c,
                                        sig |-> FALSE]]
       ELSE UNCHANGED <<reqs, hd>>
    /\ UNCHANGED <<lu, lt, out, toPeer, result, uaf>>

(* The rest of lookup_update, from the merge loop on: the contacts of the *)
(* response merged, LU_COMPLETE when no cookie is left and nothing was     *)
(* added, LU_UPDATE otherwise, and a broadcast.                            *)
Merge(h, l0, p) ==
    LET r == MergeAll(l0.contacts, RespContacts(p), FALSE)
    IN  /\ lu' = [l0 EXCEPT !.contacts = r.l,
                    !.st = IF l0.cookies = {} /\ ~r.mod THEN "COMPLETE"
                                                       ELSE "UPDATE",
                    !.seen = @ \cup Range(RespContacts(p))]
        /\ hd' = [Broadcast(hd) EXCEPT ![h].pc = "idle"]

(* dht_find_lookup: the listed lookup holding cookie c, which it takes    *)
(* off the lookup's cookie list.                                           *)
FindLookup(c) == lu.listed /\ c \in lu.cookies

(* lookup_update for the response to cookie c, already taken off: nothing *)
(* on a complete lookup; a response with addresses keeps them (if none    *)
(* yet) and completes it; on LU_INIT the handler sleeps on lu->cond       *)
(* (releasing the DHT lock), with no deadline; otherwise the merge.       *)
lookup_update(h, c) ==
    LET p  == out[c]
        l0 == [lu EXCEPT !.cookies = @ \ {c}]
    IN  CASE lu.st = "COMPLETE" ->
                  hd' = [hd EXCEPT ![h].pc = "idle"] /\ lu' = l0
             [] RespAddrs(p) # <<>> ->
                  /\ lu' = [l0 EXCEPT !.st = "COMPLETE",
                              !.addrs = IF @ = <<>> THEN RespAddrs(p) ELSE @]
                  /\ hd' = [Broadcast(hd) EXCEPT ![h].pc = "idle"]
             [] lu.st = "INIT" ->
                  hd' = [hd EXCEPT ![h].pc = "lu_wait", ![h].sig = FALSE]
                  /\ lu' = l0
             [] OTHER -> Merge(h, l0, p)

(* kad_handle_find_resp: under the DHT read lock, find the lookup by the  *)
(* request's cookie and update it; -1 when no lookup holds the cookie.    *)
HandleFindResp(h) ==
    /\ hd[h].pc = "find_resp"
    /\ IF FindLookup(hd[h].c)
       THEN lookup_update(h, hd[h].c)
       ELSE hd' = [hd EXCEPT ![h].pc = "idle"] /\ UNCHANGED lu
    /\ UNCHANGED <<lt, out, reqs, toPeer, toSelf, result, uaf>>

(* A signalled handler gets lu->lock back and merges; if the lookup was   *)
(* destroyed first, it locks freed memory.                                 *)
HandlerWake(h) ==
    /\ hd[h].pc = "lu_wait" /\ hd[h].sig
    /\ IF lu.st = "FREE"
       THEN /\ uaf' = TRUE /\ hd' = [hd EXCEPT ![h].pc = "idle"]
            /\ UNCHANGED lu
       ELSE Merge(h, lu, out[hd[h].c]) /\ UNCHANGED uaf
    /\ UNCHANGED <<lt, out, reqs, toPeer, toSelf, result>>

-----------------------------------------------------------------------------

LookupStep ==
    \/ LookupCreate \/ FirstAddrs \/ FindSkipSelf \/ FindSend \/ FindEnd
    \/ FindCreate \/ FindCookie \/ LookupWait \/ LookupWake
    \/ LookupTimeout \/ LookupUpdate \/ LookupDetach \/ Query

HandlerStep(h) ==
    \/ \E c \in Cookies : HandleResponse(h, c)
    \/ HandleFindResp(h) \/ HandlerWake(h)

Next ==
    \/ LookupStep
    \/ \E h \in Handlers : HandlerStep(h)
    \/ \E c \in Cookies : PeerRespond(c) \/ Lose(c) \/ WorkerExpire(c)

(* The lookup thread and the handlers are scheduled; a timed wait ends.   *)
(* Peers, DT and the worker's expiry get no fairness: a request may go    *)
(* unanswered.                                                             *)
Fairness ==
    /\ WF_vars(LookupStep)
    /\ \A h \in Handlers : WF_vars(HandlerStep(h))

Spec == Init /\ [][Next]_vars /\ Fairness

-----------------------------------------------------------------------------
(* Properties.                                                             *)

(* lookup_update's walk stops at a duplicate only because the list is     *)
(* sorted the way the walk expects: a live lookup never lists a contact   *)
(* twice nor more than k contacts.                                         *)
LookupContactsDistinct ==
    lu.st \notin {"NONE", "FREE"} =>
        /\ Len(lu.contacts) <= K
        /\ \A i, j \in DOMAIN lu.contacts :
              i # j => lu.contacts[i].id # lu.contacts[j].id

(* Design 4.6 step 3: merging keeps the k contacts closest to the key:    *)
(* a contact the lookup was offered and does not list is farther than     *)
(* every listed one, and the list is full.                                 *)
LookupKeepsClosest ==
    lu.st \notin {"NONE", "FREE"} =>
        \A x \in lu.seen \ Ids_of(lu.contacts) :
            /\ Len(lu.contacts) = K
            /\ \A i \in DOMAIN lu.contacts : Dist(lu.contacts[i].id) < Dist(x)

(* No handler locks a lookup lookup_destroy freed.                         *)
NoUseAfterFree == ~uaf

(* dht_query returns: the lookup ends, whatever peers and DT do.          *)
LookupEnds == lt.pc = "create" ~> lt.pc = "done"

(* Every packet handler that takes a response returns to its queue.      *)
HandlersReturn == \A h \in Handlers : hd[h].pc # "idle" ~> hd[h].pc = "idle"

====
