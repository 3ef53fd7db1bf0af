----------------------------- MODULE RingBuffer -----------------------------
(***************************************************************************)
(* The ring buffer an application process shares with the processes that  *)
(* write to it (src/lib/shm_ap_rbuff.c): SHM_RBUFF_SIZE entries, a head    *)
(* and a tail index, a robust process-shared mutex and a condition         *)
(* variable, all in one shared-memory object.                              *)
(*   - shm_ap_rbuff_write copies an entry to the head slot and moves the   *)
(*     head, broadcasting when the ring was empty;                         *)
(*   - shm_ap_rbuff_read skips entries with a negative port_id, waits      *)
(*     while the ring is empty and takes the tail entry;                   *)
(*   - shm_ap_rbuff_read_port takes the tail entry if it is for the given  *)
(*     port_id, without waiting;                                           *)
(*   - shm_ap_rbuff_reset sets head and tail to 0.                         *)
(* Every operation runs under the mutex and is one step here; the          *)
(* condition wait releases it and is a step of its own.  A writer process  *)
(* may die between copying its entry and moving the head (the next locker  *)
(* gets EOWNERDEAD and makes the mutex consistent).  An entry is           *)
(* [port, idx]: idx is the number of the write that made it, standing for  *)
(* the shm_du_buff index; the never-written slots read as zero.            *)
(***************************************************************************)
EXTENDS Integers, Sequences

CONSTANTS
    Size,       \* SHM_RBUFF_SIZE, a power of two
    Writers,    \* processes writing to the ring
    Readers,    \* threads of the owner reading from it
    PortIds,    \* port_ids the writers put in entries
    MaxWrites,  \* writes made, bounding the run
    NoEntry     \* NULL / -1 returned by a read

ASSUME Size \in {2, 4, 8, 16} /\ MaxWrites \in Nat

Slots == 0..(Size - 1)
Entry(p, i) == [port |-> p, idx |-> i]
Entries == {Entry(p, i) : p \in PortIds \cup {0}, i \in 0..MaxWrites}

VARIABLES
    ent,   \* the entries in shared memory, by slot
    head,  \* *rb->ptr_head
    tail,  \* *rb->ptr_tail
    rd,    \* each reader: "idle", "wait" (in pthread_cond_wait), "spin"
    sig,   \* a waiting reader was woken by the broadcast
    nw,    \* writes made
    ret,   \* the entry each reader's last read returned, or NoEntry
    res    \* each writer's last result: "none", "ok" or "full"

vars == <<ent, head, tail, rd, sig, nw, ret, res>>

TypeOK ==
    /\ ent \in [Slots -> Entries]
    /\ head \in Slots /\ tail \in Slots
    /\ rd \in [Readers -> {"idle", "wait", "spin"}]
    /\ sig \in [Readers -> BOOLEAN]
    /\ nw \in 0..MaxWrites
    /\ ret \in [Readers -> Entries \cup {NoEntry}]
    /\ res \in [Writers -> {"none", "ok", "full"}]

(* shm_ap_rbuff_create: the object is ftruncate'd (zero-filled), head and  *)
(* tail are set to 0.                                                      *)
Init ==
    /\ ent = [s \in Slots |-> Entry(0, 0)]
    /\ head = 0 /\ tail = 0
    /\ rd = [r \in Readers |-> "idle"] /\ sig = [r \in Readers |-> FALSE]
    /\ nw = 0
    /\ ret = [r \in Readers |-> NoEntry] /\ res = [w \in Writers |-> "none"]

(* The shm_rbuff_used, shm_rbuff_free and shm_rbuff_empty macros; the     *)
(* index arithmetic is & (SHM_RBUFF_SIZE - 1) on size_t.                   *)
Used == (head + Size - tail) % Size
Free_off_by_one == Used + 1 <= Size
Free == Used + 1 < Size
Empty == head = tail
Succ(i) == (i + 1) % Size

(* The skip loop `while (tail_el_ptr->port_id < 0) ++tail`: the first     *)
(* slot from t on whose entry has a port_id >= 0, or -1 when every slot's *)
(* is negative and the loop never ends.                                    *)
RECURSIVE SkipFrom(_, _)
SkipFrom(t, n) ==
    IF n = Size THEN -1
    ELSE IF ent[t].port < 0 THEN SkipFrom(Succ(t), n + 1) ELSE t

(* A reader spinning in the skip loop holds the mutex for good.           *)
Locked == \E r \in Readers : rd[r] = "spin"

Wake == [r \in Readers |-> sig[r] \/ rd[r] = "wait"]

-----------------------------------------------------------------------------
(* shm_ap_rbuff_write.                                                     *)

Write_no_mask(w, p) ==
    /\ ~Locked /\ nw < MaxWrites /\ Free
    /\ sig' = IF Empty THEN Wake ELSE sig
    /\ ent' = [ent EXCEPT ![head] = Entry(p, nw + 1)]
    /\ head' = head + 1
    /\ nw' = nw + 1 /\ res' = [res EXCEPT ![w] = "ok"]
    /\ UNCHANGED <<tail, rd, ret>>

Write_signal_one(w, p) ==
    /\ ~Locked /\ nw < MaxWrites /\ Free
    /\ sig' = IF Empty /\ \E r \in Readers : rd[r] = "wait"
              THEN [sig EXCEPT ![CHOOSE r \in Readers : rd[r] = "wait"] = TRUE]
              ELSE sig
    /\ ent' = [ent EXCEPT ![head] = Entry(p, nw + 1)]
    /\ head' = Succ(head)
    /\ nw' = nw + 1 /\ res' = [res EXCEPT ![w] = "ok"]
    /\ UNCHANGED <<tail, rd, ret>>

(* Room for one more: broadcast if the ring was empty, copy the entry to  *)
(* the head slot, move the head.                                           *)
Write(w, p) ==
    /\ ~Locked /\ nw < MaxWrites /\ Free
    /\ sig' = IF Empty THEN Wake ELSE sig
    /\ ent' = [ent EXCEPT ![head] = Entry(p, nw + 1)]
    /\ head' = Succ(head)
    /\ nw' = nw + 1 /\ res' = [res EXCEPT ![w] = "ok"]
    /\ UNCHANGED <<tail, rd, ret>>

(* No room: -1.                                                            *)
WriteFull(w) ==
    /\ ~Locked /\ nw < MaxWrites /\ ~Free
    /\ res' = [res EXCEPT ![w] = "full"]
    /\ UNCHANGED <<ent, head, tail, rd, sig, nw, ret>>

(* The writer process dies after the broadcast and the copy, before the   *)
(* head moves; the entry is left in the head slot.                         *)
WriteCrash(w, p) ==
    /\ ~Locked /\ nw < MaxWrites /\ Free
    /\ sig' = IF Empty THEN Wake ELSE sig
    /\ ent' = [ent EXCEPT ![head] = Entry(p, nw + 1)]
    /\ UNCHANGED <<head, tail, rd, nw, ret, res>>

-----------------------------------------------------------------------------
(* shm_ap_rbuff_read and shm_ap_rbuff_read_port.                          *)

(* Take the entry at slot t: malloc can fail, and the read returns NULL   *)
(* with the tail left at t.                                                *)
Take(r, t) ==
    \/ ret' = [ret EXCEPT ![r] = ent[t]] /\ tail' = Succ(t)
    \/ ret' = [ret EXCEPT ![r] = NoEntry] /\ tail' = t

(* Skip the negative entries, then wait if the ring is empty, otherwise   *)
(* take the tail entry.                                                    *)
Read(r) ==
    LET t == SkipFrom(tail, 0) IN
    /\ ~Locked /\ rd[r] = "idle"
    /\ CASE t = -1 ->
              rd' = [rd EXCEPT ![r] = "spin"] /\ UNCHANGED <<tail, sig, ret>>
         [] head = t ->
              /\ tail' = t
              /\ rd' = [rd EXCEPT ![r] = "wait"]
              /\ sig' = [sig EXCEPT ![r] = FALSE]
              /\ UNCHANGED ret
         [] OTHER -> Take(r, t) /\ UNCHANGED <<rd, sig>>
    /\ UNCHANGED <<ent, head, nw, res>>

(* Woken, the reader gets the mutex back and checks for an empty ring     *)
(* again; with an entry it takes the tail entry (the skip loop is before   *)
(* the wait and is not run again).                                         *)
ReadWake(r) ==
    /\ ~Locked /\ rd[r] = "wait" /\ sig[r]
    /\ IF Empty
       THEN sig' = [sig EXCEPT ![r] = FALSE] /\ UNCHANGED <<tail, rd, ret>>
       ELSE /\ Take(r, tail)
            /\ rd' = [rd EXCEPT ![r] = "idle"]
            /\ sig' = [sig EXCEPT ![r] = FALSE]
    /\ UNCHANGED <<ent, head, nw, res>>

(* -1 on an empty ring; otherwise skip the negative entries and take the  *)
(* tail entry if it is for port p, else return -1 leaving it there.       *)
ReadPort(r, p) ==
    LET t == SkipFrom(tail, 0) IN
    /\ ~Locked /\ rd[r] = "idle"
    /\ CASE Empty ->
              ret' = [ret EXCEPT ![r] = NoEntry] /\ UNCHANGED <<tail, rd>>
         [] t = -1 ->
              rd' = [rd EXCEPT ![r] = "spin"] /\ UNCHANGED <<tail, ret>>
         [] ent[t].port # p ->
              /\ tail' = t /\ ret' = [ret EXCEPT ![r] = NoEntry]
              /\ UNCHANGED rd
         [] OTHER ->
              /\ tail' = Succ(t) /\ ret' = [ret EXCEPT ![r] = ent[t]]
              /\ UNCHANGED rd
    /\ UNCHANGED <<ent, head, sig, nw, res>>

(* shm_ap_rbuff_reset.                                                     *)
Reset ==
    /\ ~Locked
    /\ head' = 0 /\ tail' = 0
    /\ UNCHANGED <<ent, rd, sig, nw, ret, res>>

-----------------------------------------------------------------------------

Next ==
    \/ \E w \in Writers :
          \/ WriteFull(w)
          \/ \E p \in PortIds : Write(w, p) \/ WriteCrash(w, p)
    \/ \E r \in Readers : Read(r) \/ ReadWake(r) \/ \E p \in PortIds : ReadPort(r, p)
    \/ Reset

Spec == Init /\ [][Next]_vars

-----------------------------------------------------------------------------
(* Properties.                                                             *)

(* No lost wakeup: a reader asleep in pthread_cond_wait that no broadcast *)
(* has woken only sleeps on an empty ring, whatever the writers, the      *)
(* other readers, read_port and reset did since it went to sleep.         *)
NoSleepOnData == \A r \in Readers : rd[r] = "wait" /\ ~sig[r] => Empty

(* The entries between tail and head, oldest first.                        *)
Queued == [i \in 1..Used |-> ent[(tail + i - 1) % Size]]

RQ == INSTANCE RingQueue WITH q <- Queued, Cap <- Size - 1

(* The ring implements the bounded FIFO queue of RingQueue: every read    *)
(* returns the oldest entry not yet read (after discarding negative ones), *)
(* none is returned twice or lost, and a full ring refuses a write.        *)
RingQueueSpec == RQ!Spec

====
