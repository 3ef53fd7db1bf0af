----------------------------- MODULE RingQueue -----------------------------
(***************************************************************************)
(* What the shared-memory ring buffer of an application process           *)
(* (src/lib/shm_ap_rbuff.c) promises the processes that share it: a        *)
(* bounded first-in first-out queue of entries.  A write appends unless    *)
(* the queue is full, when it is refused; a read returns the oldest entry, *)
(* after discarding a prefix of entries whose port_id is negative (those   *)
(* carry no packet), or returns nothing; a reset empties the queue.        *)
(* Entries are numbered by the write that made them.                       *)
(***************************************************************************)
EXTENDS Integers, Sequences

CONSTANTS Cap, Writers, Readers, PortIds, MaxWrites, NoEntry

VARIABLES
    q,    \* the entries written and not yet read, oldest first
    ret,  \* the entry each reader's last read returned, or NoEntry
    res,  \* each writer's last result: "none", "ok" or "full"
    nw    \* writes accepted so far

vars == <<q, ret, res, nw>>

Entry(p, i) == [port |-> p, idx |-> i]

Init ==
    /\ q = <<>> /\ nw = 0
    /\ ret = [r \in Readers |-> NoEntry]
    /\ res = [w \in Writers |-> "none"]

Put(w, p) ==
    /\ nw < MaxWrites /\ Len(q) < Cap
    /\ q' = Append(q, Entry(p, nw + 1))
    /\ nw' = nw + 1
    /\ res' = [res EXCEPT ![w] = "ok"]
    /\ UNCHANGED ret

Refuse(w) ==
    /\ nw < MaxWrites /\ Len(q) = Cap
    /\ res' = [res EXCEPT ![w] = "full"]
    /\ UNCHANGED <<q, ret, nw>>

(* The first n entries carry a negative port_id.                          *)
NegPrefix(n) == \A i \in 1..n : q[i].port < 0

Get(r) ==
    /\ \E n \in 0..Len(q) :
          /\ NegPrefix(n)
          /\ \/ /\ n < Len(q)
                /\ ret' = [ret EXCEPT ![r] = q[n + 1]]
                /\ q' = SubSeq(q, n + 2, Len(q))
             \/ /\ q' = SubSeq(q, n + 1, Len(q))
                /\ \E v \in {ret[r], NoEntry} : ret' = [ret EXCEPT ![r] = v]
    /\ UNCHANGED <<res, nw>>

Clear ==
    /\ q' = <<>>
    /\ UNCHANGED <<ret, res, nw>>

Next ==
    \/ \E w \in Writers : Refuse(w) \/ \E p \in PortIds : Put(w, p)
    \/ \E r \in Readers : Get(r)
    \/ Clear

Spec == Init /\ [][Next]_vars

====
