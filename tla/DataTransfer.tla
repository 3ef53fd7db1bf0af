---------------------------- MODULE DataTransfer ----------------------------
(***************************************************************************)
(* The data transfer component of a normal IPCP (src/ipcpd/normal/dt.c)    *)
(* with its SDU scheduler (sdu_sched.c): the flow statistics table         *)
(* dt.stat[] and dt.n_flows, the component registry dt.comps[] with its   *)
(* bitmap of reserved fds, and the threads that use them:                  *)
(*   - handle_event for NOTIFY_DT_CONN_ADD / _DEL of each N-1 flow, whose  *)
(*     stat_used updates the flow's slot under the slot's lock and then    *)
(*     dt.n_flows under the write lock, before sdu_sched_add / _del;       *)
(*   - the components' dt_reg_comp;                                        *)
(*   - the RIB reader dt_stat_readdir, which holds the read lock while it  *)
(*     walks the slots under their own locks;                              *)
(*   - the SDU reader thread calling sdu_handler for every packet, and     *)
(*     the components calling dt_write_sdu.                                *)
(* The per-QoS-cube and per-byte counters are abstracted to one count of   *)
(* received packets per slot; what a packet does is chosen from its        *)
(* header (destination, ttl, eid) and from what the PFF and the flow       *)
(* write answer.                                                           *)
(***************************************************************************)
EXTENDS Integers, FiniteSets

CONSTANTS
    ResFds,     \* PROG_RES_FDS: eids below it are reserved for components
    MaxFlows,   \* PROG_MAX_FLOWS: dt.stat has one slot per fd below it
    Comps,      \* components that call dt_reg_comp
    Flows,      \* fds of the N-1 flows DT gets from the connection manager
    Eids,       \* eids a received packet header can carry
    MaxPkts,    \* packets handled
    NoComp      \* an empty dt.comps[] entry

ASSUME /\ ResFds \in Nat /\ MaxFlows \in Nat /\ MaxPkts \in Nat
       /\ Flows \subseteq ResFds..(MaxFlows - 1) /\ Eids \subseteq Nat
       /\ NoComp \notin Comps

Slots == 0..(MaxFlows - 1)
Res == 0..(ResFds - 1)

VARIABLES
    stamp,    \* dt.stat[fd].stamp # 0
    rcv,      \* dt.stat[fd].rcv_pkt
    snd,      \* dt.stat[fd].snd_pkt + w_drp_pkt: counted on the way out
    nFlows,   \* dt.n_flows
    comps,    \* dt.comps[eid] (and the res_fds bitmap)
    ev,       \* handle_event of each N-1 flow: its pc
    rg,       \* dt_reg_comp of each component: [pc, fd]
    rd,       \* dt_stat_readdir: [pc, i, idx, alloc]
    sched,    \* fds in the SDU scheduler's flow set
    pkts,     \* packets handled so far
    overflow, \* dt_stat_readdir wrote an entry past the array it allocated
    miscount, \* dt_stat_readdir ended with idx # dt.n_flows (its assert)
    oob       \* a dt.stat index at or past PROG_MAX_FLOWS was locked

vars == <<stamp, rcv, snd, nFlows, comps, ev, rg, rd, sched, pkts,
          overflow, miscount, oob>>

EvPcs == {"down", "add_count", "add_sched", "up", "del_count", "del_sched"}
RgPcs == {"init", "stamp", "count", "done", "failed"}

TypeOK ==
    /\ stamp \in [Slots -> BOOLEAN]
    /\ rcv \in [Slots -> 0..3 * MaxPkts] /\ snd \in [Slots -> 0..MaxPkts]
    /\ nFlows \in Int /\ comps \in [Res -> Comps \cup {NoComp}]
    /\ ev \in [Flows -> EvPcs]
    /\ rg \in [Comps -> [pc : RgPcs, fd : Res \cup {-1}]]
    /\ rd \in [pc : {"idle", "walk"}, i : 0..MaxFlows + 1,
               idx : Nat, alloc : Nat]
    /\ sched \subseteq Flows /\ pkts \in 0..MaxPkts
    /\ overflow \in BOOLEAN /\ miscount \in BOOLEAN /\ oob \in BOOLEAN

(* dt_init: every slot zeroed, n_flows 0, no component, no flow.          *)
Init ==
    /\ stamp = [s \in Slots |-> FALSE]
    /\ rcv = [s \in Slots |-> 0] /\ snd = [s \in Slots |-> 0]
    /\ nFlows = 0 /\ comps = [e \in Res |-> NoComp]
    /\ ev = [f \in Flows |-> "down"]
    /\ rg = [c \in Comps |-> [pc |-> "init", fd |-> -1]]
    /\ rd = [pc |-> "idle", i |-> 0, idx |-> 0, alloc |-> 0]
    /\ sched = {} /\ pkts = 0
    /\ overflow = FALSE /\ miscount = FALSE /\ oob = FALSE

(* A writer of dt.lock waits for a reader walking the slots.              *)
WriteLockFree == rd.pc = "idle"

-----------------------------------------------------------------------------
(* stat_used and handle_event.                                             *)

(* stat_used, first critical section (the slot's lock): the slot is       *)
(* zeroed and stamped for a new flow, cleared for a removed one.          *)
StatReset(fd, used) ==
    /\ stamp' = [stamp EXCEPT ![fd] = used]
    /\ rcv' = [rcv EXCEPT ![fd] = 0] /\ snd' = [snd EXCEPT ![fd] = 0]

(* NOTIFY_DT_CONN_ADD: stat_used(fd, addr).                                *)
ConnAdd(f) ==
    /\ ev[f] = "down"
    /\ StatReset(f, TRUE)
    /\ ev' = [ev EXCEPT ![f] = "add_count"]
    /\ UNCHANGED <<nFlows, comps, rg, rd, sched, pkts, overflow, miscount, oob>>

(* stat_used, second critical section (dt.lock written): ++n_flows.      *)
ConnAddCount(f) ==
    /\ ev[f] = "add_count" /\ WriteLockFree
    /\ nFlows' = nFlows + 1
    /\ ev' = [ev EXCEPT ![f] = "add_sched"]
    /\ UNCHANGED <<stamp, rcv, snd, comps, rg, rd, sched, pkts, overflow, miscount, oob>>

(* sdu_sched_add.                                                          *)
ConnAddSched(f) ==
    /\ ev[f] = "add_sched"
    /\ sched' = sched \cup {f}
    /\ ev' = [ev EXCEPT ![f] = "up"]
    /\ UNCHANGED <<stamp, rcv, snd, nFlows, comps, rg, rd, pkts, overflow, miscount, oob>>

(* NOTIFY_DT_CONN_DEL: stat_used(fd, INVALID_ADDR) clears the stamp ...   *)
ConnDel(f) ==
    /\ ev[f] = "up"
    /\ StatReset(f, FALSE)
    /\ ev' = [ev EXCEPT ![f] = "del_count"]
    /\ UNCHANGED <<nFlows, comps, rg, rd, sched, pkts, overflow, miscount, oob>>

(* Mutant: stat_used leaves n_flows alone on a removed flow.              *)
ConnDelCount_no_dec(f) ==
    /\ ev[f] = "del_count" /\ WriteLockFree
    /\ ev' = [ev EXCEPT ![f] = "del_sched"]
    /\ UNCHANGED <<stamp, rcv, snd, nFlows, comps, rg, rd, sched, pkts, overflow, miscount, oob>>

(* ... then --n_flows under dt.lock ...                                    *)
ConnDelCount(f) ==
    /\ ev[f] = "del_count" /\ WriteLockFree
    /\ nFlows' = nFlows - 1
    /\ ev' = [ev EXCEPT ![f] = "del_sched"]
    /\ UNCHANGED <<stamp, rcv, snd, comps, rg, rd, sched, pkts, overflow, miscount, oob>>

(* ... and sdu_sched_del takes the fd out of the scheduler.               *)
ConnDelSched(f) ==
    /\ ev[f] = "del_sched"
    /\ sched' = sched \ {f}
    /\ ev' = [ev EXCEPT ![f] = "down"]
    /\ UNCHANGED <<stamp, rcv, snd, nFlows, comps, rg, rd, pkts, overflow, miscount, oob>>

-----------------------------------------------------------------------------
(* dt_reg_comp.                                                            *)

(* Under dt.lock written: bmp_allocate takes the lowest free reserved fd  *)
(* and the component is entered there; none free is -EBADF.               *)
RegComp(c) ==
    /\ rg[c].pc = "init" /\ WriteLockFree
    /\ LET free == {e \in Res : comps[e] = NoComp}
           e    == CHOOSE x \in free : \A y \in free : x <= y
       IN  IF free = {}
           THEN rg' = [rg EXCEPT ![c].pc = "failed"] /\ UNCHANGED comps
           ELSE /\ comps' = [comps EXCEPT ![e] = c]
                /\ rg' = [rg EXCEPT ![c] = [pc |-> "stamp", fd |-> e]]
    /\ UNCHANGED <<stamp, rcv, snd, nFlows, ev, rd, sched, pkts, overflow,
                   miscount, oob>>

(* After the unlock, stat_used(res_fd, dt_addr): the slot ...              *)
RegStamp(c) ==
    /\ rg[c].pc = "stamp"
    /\ StatReset(rg[c].fd, TRUE)
    /\ rg' = [rg EXCEPT ![c].pc = "count"]
    /\ UNCHANGED <<nFlows, comps, ev, rd, sched, pkts, overflow, miscount, oob>>

(* ... then ++n_flows under dt.lock.                                       *)
RegCount(c) ==
    /\ rg[c].pc = "count" /\ WriteLockFree
    /\ nFlows' = nFlows + 1
    /\ rg' = [rg EXCEPT ![c].pc = "done"]
    /\ UNCHANGED <<stamp, rcv, snd, comps, ev, rd, sched, pkts, overflow,
                   miscount, oob>>

-----------------------------------------------------------------------------
(* dt_stat_readdir, the RIB listing of the flow statistics.                *)

(* With dt.lock read: nothing to list below one flow; otherwise an array  *)
(* of n_flows entries is allocated and the walk starts.                    *)
ReaddirStart ==
    /\ rd.pc = "idle" /\ nFlows >= 1
    /\ rd' = [pc |-> "walk", i |-> 0, idx |-> 0, alloc |-> nFlows]
    /\ UNCHANGED <<stamp, rcv, snd, nFlows, comps, ev, rg, sched, pkts, overflow,
                   miscount, oob>>

(* One slot under its lock: a stamped slot is written to entry idx; an    *)
(* unused slot below PROG_RES_FDS sets i to PROG_RES_FDS, and the loop's  *)
(* ++i then moves past it.                                                 *)
ReaddirSlot ==
    /\ rd.pc = "walk" /\ rd.i < MaxFlows
    /\ IF stamp[rd.i]
       THEN /\ overflow' = (overflow \/ rd.idx >= rd.alloc)
            /\ rd' = [rd EXCEPT !.i = @ + 1, !.idx = @ + 1]
       ELSE /\ rd' = [rd EXCEPT !.i = IF @ < ResFds THEN ResFds + 1 ELSE @ + 1]
            /\ UNCHANGED overflow
    /\ UNCHANGED <<stamp, rcv, snd, nFlows, comps, ev, rg, sched, pkts, miscount,
                   oob>>

(* The read lock is released and assert(idx == n_flows) is evaluated.     *)
ReaddirEnd ==
    /\ rd.pc = "walk" /\ rd.i >= MaxFlows
    /\ rd' = [rd EXCEPT !.pc = "idle"]
    /\ miscount' = (miscount \/ rd.idx # nFlows)
    /\ UNCHANGED <<stamp, rcv, snd, nFlows, comps, ev, rg, sched, pkts, overflow,
                   oob>>

-----------------------------------------------------------------------------
(* sdu_handler, called by the SDU scheduler's reader for a packet read    *)
(* from a flow in its set.  The slots are locked one by one, with no      *)
(* dt.lock; dt.comps is read with no lock at all.                          *)

(* sdu_reader: the reader thread waits for events on the flow sets of the *)
(* QoS cubes and reads a packet from each fd with one, handing it to      *)
(* sdu_handler; a failed read is skipped.                                  *)
SduRead(f) == f \in sched /\ pkts < MaxPkts

Bump(r, s, n) == IF s \in Slots THEN [r EXCEPT ![s] = @ + n] ELSE r

(* Not for this node: dropped on ttl 0 or with no next hop (o = -1), or  *)
(* ipcp_flow_write to next hop o.  The ingress slot counts the received   *)
(* packet and the next hop's slot the send or the failed write.            *)
SduForward(f, o) ==
    /\ SduRead(f)
    /\ rcv' = Bump(rcv, f, 1)
    /\ snd' = Bump(snd, o, 1)
    /\ pkts' = pkts + 1
    /\ UNCHANGED <<stamp, nFlows, comps, ev, rg, rd, sched, overflow,
                   miscount, oob>>

(* Mutant: the failed write is counted in rcv_pkt instead of w_drp_pkt.  *)
SduToFlow_drop_as_rcv(f, e, ok) ==
    /\ SduRead(f) /\ e >= ResFds
    /\ rcv' = Bump(Bump(rcv, f, IF ok THEN 1 ELSE 2), e, IF ok THEN 1 ELSE 2)
    /\ oob' = (oob \/ e \notin Slots)
    /\ pkts' = pkts + 1
    /\ UNCHANGED <<stamp, snd, nFlows, comps, ev, rg, rd, sched, overflow,
                   miscount>>

(* For this node, eid >= PROG_RES_FDS: ipcp_flow_write to that fd.  A     *)
(* failed write locks dt.stat[eid], counts the ingress packet and the     *)
(* write drop, then falls through to the success path, which counts the   *)
(* ingress packet again; both count it as received at dt.stat[eid].        *)
SduToFlow(f, e, ok) ==
    /\ SduRead(f) /\ e >= ResFds
    /\ rcv' = Bump(Bump(rcv, f, IF ok THEN 1 ELSE 2), e, 1)
    /\ snd' = IF ok THEN snd ELSE Bump(snd, e, 1)
    /\ oob' = (oob \/ e \notin Slots)
    /\ pkts' = pkts + 1
    /\ UNCHANGED <<stamp, nFlows, comps, ev, rg, rd, sched, overflow,
                   miscount>>

(* For this node, a reserved eid: the ingress slot counts it, and the     *)
(* eid's slot counts the drop when dt.comps[eid] has no post_sdu, or the  *)
(* send before post_sdu hands it to the component.                         *)
SduToComp(f, e) ==
    /\ SduRead(f) /\ e < ResFds
    /\ rcv' = Bump(rcv, f, 1)
    /\ snd' = Bump(snd, e, 1)
    /\ pkts' = pkts + 1
    /\ UNCHANGED <<stamp, nFlows, comps, ev, rg, rd, sched, overflow,
                   miscount, oob>>

(* dt_write_sdu from a registered component: no next hop (o = -1) only   *)
(* counts on the component's own slot; otherwise the PDU is serialised and *)
(* written to o, whose slot counts the send or, on a failed serialisation *)
(* or write, the drop.                                                     *)
DtWriteSdu(c, o) ==
    /\ rg[c].pc = "done" /\ pkts < MaxPkts
    /\ snd' = Bump(snd, o, 1)
    /\ pkts' = pkts + 1
    /\ UNCHANGED <<stamp, rcv, nFlows, comps, ev, rg, rd, sched, overflow,
                   miscount, oob>>

-----------------------------------------------------------------------------

Next ==
    \/ \E f \in Flows :
          \/ ConnAdd(f) \/ ConnAddCount(f) \/ ConnAddSched(f)
          \/ ConnDel(f) \/ ConnDelCount(f) \/ ConnDelSched(f)
          \/ \E o \in Flows \cup {-1} : SduForward(f, o)
          \/ \E e \in Eids : \/ SduToComp(f, e)
                             \/ \E ok \in BOOLEAN : SduToFlow(f, e, ok)
    \/ \E c \in Comps : \/ RegComp(c) \/ RegStamp(c) \/ RegCount(c)
                      \/ \E o \in Flows \cup {-1} : DtWriteSdu(c, o)
    \/ ReaddirStart \/ ReaddirSlot \/ ReaddirEnd

Spec == Init /\ [][Next]_vars

-----------------------------------------------------------------------------
(* Properties.                                                             *)

(* dt.n_flows counts the stamped slots whenever no stat_used is between   *)
(* its two critical sections: flows coming and going and components       *)
(* registering, in any interleaving, keep the two in step.                 *)
Counting == \E f \in Flows : ev[f] \in {"add_count", "del_count"}
            \/ \E c \in Comps : rg[c].pc = "count"
NFlowsMatchesStamps ==
    ~Counting => nFlows = Cardinality({s \in Slots : stamp[s]})

(* dt_stat_readdir never writes an entry past the n_flows entries it      *)
(* allocated.                                                              *)
ReaddirWithinBuffer == ~overflow

(* dt_stat_readdir's assert: it lists exactly n_flows slots.               *)
ReaddirCountsFlows == ~miscount

(* sdu_handler never locks a dt.stat slot past PROG_MAX_FLOWS.            *)
StatIndexInBounds == ~oob

====
