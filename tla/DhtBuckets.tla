----------------------------- MODULE DhtBuckets -----------------------------
(***************************************************************************)
(* The Kademlia routing table of a DHT node (ipcpd/unicast/dir/dht.c): the *)
(* trie of buckets under dht->buckets, each with a list of contacts and a *)
(* list of alternates, and the two operations that change it, both called *)
(* under the DHT write lock:                                                *)
(*   - dht_update_bucket, for the sender of every packet (dht_post_packet)  *)
(*     and for this node itself when it bootstraps or joins, with          *)
(*     split_bucket when the bucket holding this node's id is full;        *)
(*   - dht_dead_peer, from work() for every request that expired.          *)
(* dht_contact_list, which reads the table for a lookup, is an operator.  *)
(*                                                                         *)
(* KAD_BETA is 8: a trie level consumes one byte of the id, and a bucket   *)
(* has 256 children.  Ids are abstracted to IdLen bytes drawn from Digits; *)
(* the children for the other byte values stay empty and are left out.    *)
(* A bucket is named by its path, the masks of the buckets from the root. *)
(* A contact is named by its peer: its address, with the id Id[peer].      *)
(***************************************************************************)
EXTENDS Integers, Sequences, SequencesExt

CONSTANTS
    Peers,          \* nodes that send us packets
    Self,           \* this node: dht->addr, with id dht->id
    Id,             \* Id[n]: the node id of n, IdLen bytes
    IdLen,          \* dht->b
    Digits,         \* byte values the ids use: child masks 0 .. |Digits|-1
    K,              \* dht->k
    Keys,           \* keys of expired requests passed to dht_dead_peer
    MallocMayFail   \* whether bucket_create may fail inside split_bucket

Nodes == Peers \cup {Self}

ASSUME /\ Self \notin Peers /\ K >= 1 /\ IdLen >= 1
       /\ Digits = 0 .. (Cardinality(Digits) - 1)
       /\ Id \in [Nodes -> [1 .. IdLen -> Digits]]
       /\ Keys \subseteq [1 .. IdLen -> Digits]
       /\ MallocMayFail \in BOOLEAN

VARIABLES
    interior,   \* paths of the buckets that were split (children[0] # NULL)
    con,        \* con[p]: b->contacts of bucket p, in list order
    alt,        \* alt[p]: b->alts of bucket p, in list order
    ub          \* undefined behaviour: a freed child is linked into the trie,
                \* or bucket_has_id read past the end of an id

vars == <<interior, con, alt, ub>>

Paths == UNION {[1 .. n -> Digits] : n \in 0 .. IdLen}
Root == <<>>

TypeOK ==
    /\ interior \subseteq Paths
    /\ con \in [Paths -> Seq(Nodes)]
    /\ alt \in [Paths -> Seq(Nodes)]
    /\ ub \in BOOLEAN

(* Byte i (from 0) of an id: id[(depth * KAD_BETA) / CHAR_BIT] shifted by *)
(* (CHAR_BIT - KAD_BETA) - ((depth * KAD_BETA) & 7), which is 0.           *)
Byte(id, i) == id[i + 1]

(* iter_bucket: from bucket p at depth Len(p), descend into the child     *)
(* whose mask is byte Len(p) of the id until a bucket without children.   *)
RECURSIVE IterBucket(_, _, _)
IterBucket(I, p, id) ==
    IF p \notin I THEN p ELSE IterBucket(I, Append(p, Byte(id, Len(p))), id)

(* dht_get_bucket.                                                        *)
GetBucket(I, id) == IterBucket(I, Root, id)

(* bucket_has_id: the root has every id; a bucket at depth d compares     *)
(* id[(d * KAD_BETA) / CHAR_BIT], shifted by an amount computed from d - 1 *)
(* that is 0 when KAD_BETA is 8, with its mask: byte d, where iter_bucket  *)
(* chose the bucket at its parent by byte d - 1.                           *)
HasId(b, id) == Len(b) = 0 \/ Byte(id, Len(b)) = b[Len(b)]

-----------------------------------------------------------------------------
(* split_bucket(b) on table T, as the set of outcomes.  For each mask in  *)
(* order a child is created at depth Len(b) + 1 and every contact of b     *)
(* with bucket_has_id(child) is list_add-ed (at the head) to the child.    *)
(* A child that got all c contacts is split in turn; its result is         *)
(* ignored.  When bucket_create fails for the first child, b is untouched  *)
(* and -1 is returned (ok = FALSE); when it fails later, the children made *)
(* so far are destroyed with the contacts moved to them but stay in        *)
(* b->children.  A bucket at depth IdLen - 1 cannot be split: its          *)
(* children's bucket_has_id would read past the id.                        *)
RECURSIVE SplitBucket(_, _)
SplitBucket(T, b) ==
    LET c == T.con[b]
        Kid(d) == Append(b, d)
        Moved(d) == Reverse(SelectSeq(c, LAMBDA x : HasId(Kid(d), Id[x])))
        T1 == [T EXCEPT !.in = @ \cup {b},
                        !.con = [p \in Paths |->
                                   IF p = b THEN <<>>
                                   ELSE IF \E d \in Digits : p = Kid(d)
                                        THEN Moved(p[Len(p)]) ELSE T.con[p]]]
        Full == {d \in Digits : Len(Moved(d)) = Len(c)}
        Done == IF Full = {} THEN {T1}
                ELSE {[o EXCEPT !.ok = TRUE] :
                        o \in SplitBucket(T1, Kid(CHOOSE d \in Full : TRUE))}
        Fails == IF MallocMayFail
                 THEN {[T EXCEPT !.ok = FALSE], [T EXCEPT !.ub = TRUE]}
                 ELSE {}
    IN  Fails \cup (IF Len(b) + 1 < IdLen THEN Done
                    ELSE {[T EXCEPT !.ub = TRUE]})

(* dht_update_bucket(Id[n], n) on table T, as the set of outcomes: drop  *)
(* the contacts of n from its bucket; append n when the bucket is not     *)
(* full; else, when the bucket has this node's id, append it and split,   *)
(* removing it again if split_bucket fails; else append it to the         *)
(* alternates, evicting the first one when they are full.                 *)
UpdateOutcomes(T, n) ==
    LET b  == GetBucket(T.in, Id[n])
        c0 == Remove(T.con[b], n)
        a  == T.alt[b]
        T0 == [T EXCEPT !.con[b] = c0]
    IN  IF Len(c0) < K THEN {[T0 EXCEPT !.con[b] = Append(c0, n)]}
        ELSE IF HasId(b, Id[Self])
        THEN {IF o.ok THEN [o EXCEPT !.ok = TRUE] ELSE [o EXCEPT !.con[b] = c0, !.ok = TRUE] :
                 o \in SplitBucket([T0 EXCEPT !.con[b] = Append(c0, n), !.ok = TRUE], b)}
        ELSE {[T0 EXCEPT !.alt[b] = IF Len(a) = K THEN Append(Tail(a), n)
                                    ELSE Append(a, n)]}

State == [in |-> interior, con |-> con, alt |-> alt, ub |-> ub, ok |-> TRUE]

SetState(T) ==
    /\ interior' = T.in
    /\ con' = T.con
    /\ alt' = T.alt
    /\ ub' = T.ub

(* dht_bootstrap (the root bucket, then this node) or kad_join (the root  *)
(* bucket from kad_handle_join_resp with the responder n, then this node). *)
Empty == [in |-> {}, con |-> [p \in Paths |-> <<>>],
          alt |-> [p \in Paths |-> <<>>], ub |-> FALSE, ok |-> TRUE]

Init ==
    \E T \in UpdateOutcomes(Empty, Self)
             \cup UNION {UpdateOutcomes(o, Self) : o \in
                         UNION {UpdateOutcomes(Empty, n) : n \in Peers}} :
        /\ interior = T.in
        /\ con = T.con
        /\ alt = T.alt
        /\ ub = T.ub

(* A packet from peer n: dht_update_bucket(dht, msg->s_id.data, addr).    *)
UpdateBucket(n) ==
    /\ ~ub
    /\ \E T \in UpdateOutcomes(State, n) : SetState(T)

(* dht_dead_peer(key, addr): in the bucket of the key, when contacts and  *)
(* alternates number at most k, only the first contact's fails is         *)
(* incremented; otherwise the first contact at addr is removed.  Then     *)
(* alternates are moved, first first, to the head of the contacts while   *)
(* there are fewer than k.                                                *)
RECURSIVE Refill(_, _)
Refill(c, a) ==
    IF Len(c) < K /\ a # <<>> THEN Refill(<<Head(a)>> \o c, Tail(a)) ELSE <<c, a>>

DeadPeer(key, n) ==
    LET b == GetBucket(interior, key)
        c == IF con[b] # <<>> /\ Len(con[b]) + Len(alt[b]) <= K
             THEN con[b] ELSE RemoveFirst(con[b], n)
        r == Refill(c, alt[b])
    IN  /\ ~ub
        /\ con' = [con EXCEPT ![b] = r[1]]
        /\ alt' = [alt EXCEPT ![b] = r[2]]
        /\ UNCHANGED <<interior, ub>>

Next ==
    \/ \E n \in Peers : UpdateBucket(n)
    \/ \E key \in Keys, n \in Peers : DeadPeer(key, n)

Spec == Init /\ [][Next]_vars

-----------------------------------------------------------------------------
(* dht_contact_list(key): the bucket of the key if it is full or the root, *)
(* else its parent's children in mask order, at most k contacts.           *)
ContactListLen(key) ==
    LET b == GetBucket(interior, key)
        n == IF Len(con[b]) = K \/ b = Root THEN Len(con[b])
             ELSE FoldSet(LAMBDA d, s : s + Len(con[Append(Front(b), d)]), 0, Digits)
    IN  IF n < K THEN n ELSE K

-----------------------------------------------------------------------------
(* Properties.                                                            *)

(* A bucket holds at most k contacts and at most k alternates: the n == k *)
(* test of dht_update_bucket with split_bucket's redistribution, the      *)
(* eviction of the first alternate, and dht_dead_peer's refill.           *)
BucketBounds ==
    \A b \in Paths : Len(con[b]) <= K /\ Len(alt[b]) <= K

(* No peer is a contact twice anywhere in the trie: dht_update_bucket     *)
(* removes the earlier contact of the address before it adds the new one, *)
(* so updating the same peer twice has the effect of once.                *)
ContactsDistinct ==
    \A b1, b2 \in Paths : \A i \in 1 .. Len(con[b1]), j \in 1 .. Len(con[b2]) :
        <<b1, i>> # <<b2, j>> => con[b1][i] # con[b2][j]

(* Every contact sits in the bucket iter_bucket finds for its id, the one *)
(* dht_update_bucket and dht_dead_peer look in.                           *)
ContactsRouted ==
    \A b \in Paths : \A i \in 1 .. Len(con[b]) : GetBucket(interior, Id[con[b][i]]) = b

(* assert(len == dht->k || b->parent == NULL) at the end of               *)
(* dht_contact_list, for the key of every lookup.                         *)
ContactListFilled ==
    \A key \in Keys : ContactListLen(key) = K \/ GetBucket(interior, key) = Root

(* split_bucket never leaves the trie linked to a bucket it freed, nor   *)
(* reads past the end of an id.                                           *)
NoDanglingBucket == ~ub

=============================================================================
