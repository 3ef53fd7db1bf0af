------------------------------ MODULE DhtStore ------------------------------
(***************************************************************************)
(* The local store of a running DHT node (ipcpd/unicast/dir/dht.c): the    *)
(* entries with their values (dht->entries), the names this node has       *)
(* registered (dht->refs), and the threads that change them:               *)
(*   - the worker thread work(), which republishes due references and     *)
(*     walks the entries to drop expired values and republish due ones,   *)
(*     releasing dht->lock around every kad_publish;                       *)
(*   - dht_reg and dht_unreg, called by the IPCP for a name;               *)
(*   - the packet handlers' KAD_STORE path, kad_add from a peer.           *)
(* kad_publish runs a FIND_NODE lookup (DhtLookup models it); here only    *)
(* its local effect is kept: when this node is among the k closest        *)
(* contacts it stores the value in its own table with kad_add.             *)
(***************************************************************************)
EXTENDS Integers, FiniteSets

CONSTANTS
    Keys,        \* hashes of names
    NoKey,       \* no key: the worker between walks
    Addrs,       \* addresses of values: this node's and peers'
    Self,        \* dht->addr
    Epoch,       \* CLOCK_REALTIME_COARSE seconds when the model starts
    MaxTick,     \* bound on the clock: now <= Epoch + MaxTick
    TExpire,     \* dht->t_expire as set by dht_bootstrap (86400)
    TRepub,      \* dht->t_repub = t_expire - 10
    TRepl,       \* KAD_T_REPL
    Garbage,     \* values the never-initialised dht->t_replic may hold
    MaxOps,      \* bound on dht_reg calls and STORE messages
    DhtRetrAddr  \* DHT_RETR_ADDR

ASSUME /\ Self \in Addrs /\ NoKey \notin Keys
       /\ TRepub < TExpire /\ Epoch > TExpire + MaxTick

VARIABLES
    now,       \* the coarse real-time clock
    tExpire,   \* dht->t_expire
    tReplic,   \* dht->t_replic, read but never written
    refs,      \* registered key -> ref_entry.t_rep
    ent,       \* keys that have a dht_entry on dht->entries
    nVals,     \* dht_entry.n_vals
    vals,      \* addresses on dht_entry.vals
    texp,      \* val.t_exp
    trep,      \* val.t_rep
    w,         \* the worker thread
    rg,        \* pc of the dht_reg call for each key
    rgExp,     \* the t_expire dht_reg read under the lock
    ops,       \* dht_reg calls and STOREs so far
    uaf        \* the worker used a ref, entry or value freed under it

vars == <<now, tExpire, tReplic, refs, ent, nVals, vals, texp, trep, w, rg,
          rgExp, ops, uaf>>

Time == Epoch .. (Epoch + MaxTick)
Stamp == 0 .. 3 * (Epoch + MaxTick)

(* The worker asleep; the fields of its walk are cleared.                *)
WorkIdle == [pc |-> "sleep", now |-> Epoch, todo |-> {}, key |-> NoKey,
             vtodo |-> {}, addr |-> Self, exp |-> 0, loop |-> "refs"]

WorkPcs == {"sleep", "refs", "ents", "vals", "pub", "relock"}

TypeOK ==
    /\ now \in Time /\ tExpire \in {TExpire} \cup Time /\ tReplic \in Garbage
    /\ DOMAIN refs \subseteq Keys /\ \A k \in DOMAIN refs : refs[k] \in Stamp
    /\ ent \subseteq Keys
    /\ nVals \in [Keys -> Nat] /\ vals \in [Keys -> SUBSET Addrs]
    /\ texp \in [Keys -> [Addrs -> Stamp]] /\ trep \in [Keys -> [Addrs -> Stamp]]
    /\ w.pc \in WorkPcs /\ w.now \in Time /\ w.todo \subseteq Keys
    /\ w.key \in Keys \cup {NoKey} /\ w.vtodo \subseteq Addrs
    /\ w.addr \in Addrs /\ w.exp \in Stamp /\ w.loop \in {"refs", "vals"}
    /\ rg \in [Keys -> {"idle", "pub"}] /\ rgExp \in [Keys -> {TExpire} \cup Time]
    /\ ops \in 0 .. MaxOps /\ uaf \in BOOLEAN

(* dht_create mallocs the struct and never sets t_replic: its value is   *)
(* whatever the allocation held. dht_bootstrap sets t_expire and starts   *)
(* the worker.                                                            *)
Init ==
    /\ now = Epoch /\ tExpire = TExpire /\ tReplic \in Garbage
    /\ refs = [k \in {} |-> 0]
    /\ ent = {} /\ nVals = [k \in Keys |-> 0] /\ vals = [k \in Keys |-> {}]
    /\ texp = [k \in Keys |-> [a \in Addrs |-> 0]]
    /\ trep = [k \in Keys |-> [a \in Addrs |-> 0]]
    /\ w = WorkIdle
    /\ rg = [k \in Keys |-> "idle"] /\ rgExp = [k \in Keys |-> TExpire]
    /\ ops = 0 /\ uaf = FALSE

(* The worker holds dht->lock for writing while it walks the lists.       *)
WorkLocked == w.pc \in {"refs", "ents", "vals"}

-----------------------------------------------------------------------------
(* dht_entry_add_addr, with dht_entry_create when kad_add finds no entry: *)
(* a known address has its expiry extended, never shortened; a new one    *)
(* is a val_create with ++n_vals.                                          *)
AddAddr(k, a, exp) ==
    /\ ent' = ent \cup {k}
    /\ IF a \in vals[k]
       THEN /\ IF texp[k][a] < now + exp
               THEN /\ texp' = [texp EXCEPT ![k][a] = now + exp]
                    /\ trep' = [trep EXCEPT ![k][a] = now + TRepl]
               ELSE UNCHANGED <<texp, trep>>
            /\ UNCHANGED <<vals, nVals>>
       ELSE /\ vals' = [vals EXCEPT ![k] = @ \cup {a}]
            /\ nVals' = [nVals EXCEPT ![k] = IF k \in ent THEN @ + 1 ELSE 1]
            /\ texp' = [texp EXCEPT ![k][a] = now + exp]
            /\ trep' = [trep EXCEPT ![k][a] = now + TRepl]

(* Mutant: --n_vals whether or not a value of addr was on the list.       *)
DelAddr_always_dec(k, a) ==
    IF k \in ent
    THEN LET n == nVals[k] - 1 IN
         /\ nVals' = [nVals EXCEPT ![k] = n]
         /\ vals' = [vals EXCEPT ![k] = @ \ {a}]
         /\ ent' = IF n = 0 THEN ent \ {k} ELSE ent
         /\ texp' = [texp EXCEPT ![k][a] = 0] /\ trep' = [trep EXCEPT ![k][a] = 0]
    ELSE UNCHANGED <<ent, nVals, vals, texp, trep>>

(* dht_del: dht_entry_del_addr drops the value of addr with --n_vals and  *)
(* frees the entry when n_vals reaches 0; no entry is -EPERM.             *)
DelAddr(k, a) ==
    IF k \in ent
    THEN LET n == IF a \in vals[k] THEN nVals[k] - 1 ELSE nVals[k] IN
         /\ nVals' = [nVals EXCEPT ![k] = n]
         /\ vals' = [vals EXCEPT ![k] = @ \ {a}]
         /\ ent' = IF n = 0 THEN ent \ {k} ELSE ent
         /\ texp' = [texp EXCEPT ![k][a] = 0] /\ trep' = [trep EXCEPT ![k][a] = 0]
    ELSE UNCHANGED <<ent, nVals, vals, texp, trep>>

(* dht_retrieve sizes its answer to a FIND_VALUE as MIN(DHT_RETR_ADDR,    *)
(* n_vals) and fills it from the value list.                               *)
RetrieveLen(k) == IF nVals[k] < DhtRetrAddr THEN nVals[k] ELSE DhtRetrAddr

-----------------------------------------------------------------------------
(* The worker thread, one pass of `while (true)` after sleep(intv).       *)

(* Take the lock, read the clock, and walk dht->refs.                     *)
WorkStart ==
    /\ w.pc = "sleep"
    /\ w' = [w EXCEPT !.pc = "refs", !.now = now, !.todo = DOMAIN refs,
                      !.loop = "refs"]
    /\ UNCHANGED <<now, tExpire, tReplic, refs, ent, nVals, vals, texp, trep,
                   rg, rgExp, ops, uaf>>

(* Mutant: a due reference is published but its t_rep is not moved on.  *)
WorkRef_no_stamp ==
    /\ w.pc = "refs"
    /\ \E r \in w.todo :
         IF w.now > refs[r]
         THEN /\ w' = [w EXCEPT !.pc = "pub", !.todo = @ \ {r}, !.key = r,
                                !.addr = Self, !.exp = tExpire]
              /\ UNCHANGED refs
         ELSE /\ w' = [w EXCEPT !.todo = @ \ {r}] /\ UNCHANGED refs
    /\ UNCHANGED <<now, tExpire, tReplic, ent, nVals, vals, texp, trep, rg,
                   rgExp, ops, uaf>>

(* A reference due for republishing gets t_rep = now + t_repub and is     *)
(* published with the lock released; one not yet due is passed over.     *)
WorkRef ==
    /\ w.pc = "refs"
    /\ \E r \in w.todo :
         IF w.now > refs[r]
         THEN /\ refs' = [refs EXCEPT ![r] = w.now + TRepub]
              /\ w' = [w EXCEPT !.pc = "pub", !.todo = @ \ {r}, !.key = r,
                                !.addr = Self, !.exp = tExpire]
         ELSE /\ w' = [w EXCEPT !.todo = @ \ {r}] /\ UNCHANGED refs
    /\ UNCHANGED <<now, tExpire, tReplic, ent, nVals, vals, texp, trep, rg,
                   rgExp, ops, uaf>>

WorkRefsDone ==
    /\ w.pc = "refs" /\ w.todo = {}
    /\ w' = [w EXCEPT !.pc = "ents", !.todo = ent]
    /\ UNCHANGED <<now, tExpire, tReplic, refs, ent, nVals, vals, texp, trep,
                   rg, rgExp, ops, uaf>>

(* list_for_each_safe over dht->entries, then over each entry's values.   *)
WorkEnt ==
    /\ w.pc = "ents"
    /\ \E e \in w.todo :
         w' = [w EXCEPT !.pc = "vals", !.todo = @ \ {e}, !.key = e,
                        !.vtodo = vals[e], !.loop = "vals"]
    /\ UNCHANGED <<now, tExpire, tReplic, refs, ent, nVals, vals, texp, trep,
                   rg, rgExp, ops, uaf>>

(* Mutant: the walk never checks t_exp, so expired values stay listed.    *)
WorkVal_no_purge ==
    /\ w.pc = "vals"
    /\ \E a \in w.vtodo :
         LET k == w.key IN
         CASE w.now > trep[k][a] ->
                /\ tExpire' = w.now
                /\ trep' = [trep EXCEPT ![k][a] = w.now + tReplic]
                /\ w' = [w EXCEPT !.pc = "pub", !.vtodo = @ \ {a},
                                  !.addr = a, !.exp = w.now]
                /\ UNCHANGED <<vals, texp>>
           [] OTHER ->
                /\ w' = [w EXCEPT !.vtodo = @ \ {a}]
                /\ UNCHANGED <<tExpire, trep, vals, texp>>
    /\ UNCHANGED <<now, tReplic, refs, ent, nVals, rg, rgExp, ops, uaf>>

(* An expired value is unlinked and freed, and n_vals is left as it was.  *)
(* A value due for replication sets dht->t_expire = now, gets t_rep =    *)
(* now + t_replic, and is published with that t_expire and the lock      *)
(* released.                                                              *)
WorkVal ==
    /\ w.pc = "vals"
    /\ \E a \in w.vtodo :
         LET k == w.key IN
         CASE w.now > texp[k][a] ->
                /\ vals' = [vals EXCEPT ![k] = @ \ {a}]
                /\ texp' = [texp EXCEPT ![k][a] = 0]
                /\ trep' = [trep EXCEPT ![k][a] = 0]
                /\ w' = [w EXCEPT !.vtodo = @ \ {a}]
                /\ UNCHANGED tExpire
           [] w.now > trep[k][a] ->
                /\ tExpire' = w.now
                /\ trep' = [trep EXCEPT ![k][a] = w.now + tReplic]
                /\ w' = [w EXCEPT !.pc = "pub", !.vtodo = @ \ {a},
                                  !.addr = a, !.exp = w.now]
                /\ UNCHANGED <<vals, texp>>
           [] OTHER ->
                /\ w' = [w EXCEPT !.vtodo = @ \ {a}]
                /\ UNCHANGED <<tExpire, trep, vals, texp>>
    /\ UNCHANGED <<now, tReplic, refs, ent, nVals, rg, rgExp, ops, uaf>>

WorkEntDone ==
    /\ w.pc = "vals" /\ w.vtodo = {}
    /\ w' = [w EXCEPT !.pc = "ents"]
    /\ UNCHANGED <<now, tExpire, tReplic, refs, ent, nVals, vals, texp, trep,
                   rg, rgExp, ops, uaf>>

(* The request expiry and bucket refresh are DhtJoin's and DhtLookup's;   *)
(* then the lock is released and the worker sleeps.                       *)
WorkEntsDone ==
    /\ w.pc = "ents" /\ w.todo = {}
    /\ w' = WorkIdle
    /\ UNCHANGED <<now, tExpire, tReplic, refs, ent, nVals, vals, texp, trep,
                   rg, rgExp, ops, uaf>>

(* kad_publish without the lock: the lookup fails or does not list this   *)
(* node, or this node is among the closest and kad_add stores the value.  *)
Publish(k, a, exp, rest) ==
    \/ /\ rest
       /\ UNCHANGED <<ent, nVals, vals, texp, trep>>
    \/ /\ rest
       /\ AddAddr(k, a, exp)

WorkPublish ==
    /\ w.pc = "pub"
    /\ Publish(w.key, w.addr, w.exp, w' = [w EXCEPT !.pc = "relock"])
    /\ UNCHANGED <<now, tExpire, tReplic, refs, rg, rgExp, ops, uaf>>

(* pthread_rwlock_wrlock, free(key), and the walk goes on from the cursor *)
(* it kept: the current reference (list_for_each), or the saved next      *)
(* entry and value (list_for_each_safe).                                  *)
WorkRelock ==
    /\ w.pc = "relock"
    /\ w' = [w EXCEPT !.pc = w.loop]
    /\ UNCHANGED <<now, tExpire, tReplic, refs, ent, nVals, vals, texp, trep,
                   rg, rgExp, ops, uaf>>

WorkStep == WorkStart \/ WorkRef \/ WorkRefsDone \/ WorkEnt \/ WorkVal
            \/ WorkEntDone \/ WorkEntsDone \/ WorkPublish \/ WorkRelock

-----------------------------------------------------------------------------
(* dht_reg: under the lock, a name not yet on dht->refs gets a ref_entry  *)
(* with t_rep = now + t_repub and t_expire is read; kad_publish follows   *)
(* with the lock released. A name already listed returns 0 at once.       *)
Reg(k) ==
    /\ ~WorkLocked /\ rg[k] = "idle" /\ k \notin DOMAIN refs /\ ops < MaxOps
    /\ refs' = [x \in DOMAIN refs \cup {k} |-> IF x = k THEN now + TRepub
                                                       ELSE refs[x]]
    /\ rg' = [rg EXCEPT ![k] = "pub"] /\ rgExp' = [rgExp EXCEPT ![k] = tExpire]
    /\ ops' = ops + 1
    /\ UNCHANGED <<now, tExpire, tReplic, ent, nVals, vals, texp, trep, w, uaf>>

RegPublish(k) ==
    /\ ~WorkLocked /\ rg[k] = "pub"
    /\ Publish(k, Self, rgExp[k], rg' = [rg EXCEPT ![k] = "idle"])
    /\ UNCHANGED <<now, tExpire, tReplic, refs, w, rgExp, ops, uaf>>

(* dht_unreg: under the lock, free the ref_entry and dht_del this node's  *)
(* value. A worker inside kad_publish for this reference, or holding the  *)
(* freed entry or value as its cursor, resumes on freed memory.           *)
Unreg(k) ==
    /\ ~WorkLocked
    /\ refs' = [x \in DOMAIN refs \ {k} |-> refs[x]]
    /\ DelAddr(k, Self)
    /\ LET freed == (k \in DOMAIN refs /\ w.loop = "refs" /\ w.key = k)
                    \/ (w.loop = "vals" /\ w.key = k /\ k \notin ent')
                    \/ (w.loop = "vals" /\ w.key = k /\ Self \in w.vtodo
                        /\ Self \notin vals'[k])
                    \/ (w.loop = "vals" /\ k \in w.todo /\ k \notin ent')
       IN uaf' = (uaf \/ (w.pc \in {"pub", "relock"} /\ freed))
    /\ w' = [w EXCEPT !.todo = IF w.loop = "refs" /\ w.pc \in {"pub", "relock"}
                               THEN @ \ {k} ELSE @]
    /\ UNCHANGED <<now, tExpire, tReplic, rg, rgExp, ops>>

(* A KAD_STORE from a peer: kad_add of one contact with the peer's        *)
(* t_expire.                                                              *)
Store(k, a) ==
    /\ ~WorkLocked /\ ops < MaxOps
    /\ AddAddr(k, a, TExpire)
    /\ ops' = ops + 1
    /\ UNCHANGED <<now, tExpire, tReplic, refs, w, rg, rgExp, uaf>>

Tick ==
    /\ now < Epoch + MaxTick
    /\ now' = now + 1
    /\ UNCHANGED <<tExpire, tReplic, refs, ent, nVals, vals, texp, trep, w, rg,
                   rgExp, ops, uaf>>

Next ==
    \/ WorkStep
    \/ \E k \in Keys : Reg(k) \/ RegPublish(k) \/ Unreg(k)
    \/ \E k \in Keys, a \in Addrs : Store(k, a)
    \/ Tick

(* The worker sleeps for a fixed interval and only contends for the lock: *)
(* it is weakly fair. Clients, peers and the clock are not.               *)
Spec == Init /\ [][Next]_vars /\ WF_vars(WorkStep)

-----------------------------------------------------------------------------
(* Properties.                                                            *)

Expired(k, a) == k \in ent /\ a \in vals[k] /\ now > texp[k][a]
Due(k, t) == k \in DOMAIN refs /\ refs[k] = t /\ now > t

(* work() drops a value past its t_exp on a later pass, although it walks *)
(* the values with the lock released around every republish.              *)
ExpiredPurged == \A k \in Keys, a \in Addrs : Expired(k, a) ~> ~Expired(k, a)

(* A registered name whose t_rep has passed is republished by work() (its *)
(* t_rep moves on) or unregistered, whatever dht_reg, dht_unreg and       *)
(* STOREs do while the worker has the lock released.                      *)
RefsRepublished ==
    \A k \in Keys, t \in {x + TRepub : x \in Time} : Due(k, t) ~> ~Due(k, t)

(* n_vals counts the values on the list: dht_retrieve and dht_query use   *)
(* it to size and to trust what they read from the list.                  *)
RetrieveReturnsStored == \A k \in ent : RetrieveLen(k) <= Cardinality(vals[k])

(* A stored value expires at most t_expire (a day) after its last store:  *)
(* work() passes dht->t_expire on as the TTL of the values it publishes.  *)
ExpiryBounded == \A k \in ent, a \in Addrs :
                    a \in vals[k] => texp[k][a] <= now + TExpire

(* The worker never resumes its walk on a reference, entry or value that  *)
(* dht_unreg freed while the lock was released.                           *)
NoUseAfterFree == ~uaf

=============================================================================
