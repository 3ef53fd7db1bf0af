----------------------------- MODULE LinkState -----------------------------
(***************************************************************************)
(* Link-state routing policy of the normal IPCP                             *)
(* (src/ipcpd/normal/pol/link_state.c) together with the announce counts    *)
(* of the graph engine it feeds (src/ipcpd/unicast/pol/graph.c).            *)
(*                                                                          *)
(* Every node of the layer runs one instance: a neighbour list (ls.nbs),    *)
(* an adjacency database (ls.db, ls.db_len) with a time stamp per entry, a  *)
(* graph whose directed edges carry an announce count, and a forwarding     *)
(* table filled by the calculator thread.  Management flows between         *)
(* neighbours carry link-state messages (LSMs) <<s_addr, d_addr>>.          *)
(*                                                                          *)
(* Time is counted in periods of the lsupdate thread (LS_UPDATE_TIME); a    *)
(* node's lsupdate runs once per period.                                    *)
(***************************************************************************)
EXTENDS Integers, FiniteSets

CONSTANTS
    Nodes,          \* the addresses of the IPCPs in the layer
    Links,          \* directed pairs <<a, b>> between which N-1 flows exist
    Timeo,          \* LS_TIMEO, in periods of LS_UPDATE_TIME
    MaxClock,       \* bound on the number of periods explored
    MaxConnEvents,  \* bound on the number of connection events explored
    MgmtUp          \* links whose MGMT_CONN_ADD was handled before the start

ASSUME /\ Nodes \subseteq Nat
       /\ Links \subseteq Nodes \X Nodes
       /\ \A l \in Links : l[1] # l[2] /\ <<l[2], l[1]>> \in Links
       /\ MgmtUp \subseteq Links
       /\ Timeo \in Nat /\ MaxClock \in Nat /\ MaxConnEvents \in Nat

VARIABLES
    now,        \* CLOCK_REALTIME_COARSE, in periods
    nbs,        \* nbs[n]: ls.nbs of n, a set of <<addr, type>>
    db,         \* db[n][<<s, d>>]: stamp of adjacency s -> d, or Absent
    dbLen,      \* dbLen[n]: ls.db_len of n
    announced,  \* announced[n][<<s, d>>]: announce count of edge s -> d
    chan,       \* chan[<<a, b>>]: LSMs written by a on its mgmt flow to b
    pff,        \* pff[n]: set of <<dst, nhop>> installed by calculate_pff
    lastUpd,    \* lastUpd[n]: the period in which n's lsupdate last ran
    events      \* number of connection events so far

vars == <<now, nbs, db, dbLen, announced, chan, pff, lastUpd, events>>

Absent == -1
NbTypes == {"dt", "mgmt"}
Stamps == 0..MaxClock

(* Neighbour test of nbr_to_fd and of the list walks over ls.nbs.         *)
IsNb(n, m, type) == <<m, type>> \in nbs[n]
MgmtNbs(n) == {m \in Nodes : IsNb(n, m, "mgmt")}
InDb(n, a) == db[n][a] # Absent

TypeOK ==
    /\ now \in 0..MaxClock
    /\ nbs \in [Nodes -> SUBSET (Nodes \X NbTypes)]
    /\ db \in [Nodes -> [Links -> Stamps \cup {Absent}]]
    /\ dbLen \in [Nodes -> Nat]
    /\ announced \in [Nodes -> [Links -> 0..2]]
    /\ chan \in [Links -> SUBSET Links]
    /\ \A n \in Nodes : pff[n] \subseteq Nodes \X Nodes
    /\ lastUpd \in [Nodes -> 0..MaxClock]
    /\ events \in 0..MaxConnEvents

Init ==
    /\ now = 0
    /\ nbs = [n \in Nodes |-> {<<l[2], "mgmt">> : l \in {k \in MgmtUp : k[1] = n}}]
    /\ db = [n \in Nodes |-> [a \in Links |-> Absent]]
    /\ dbLen = [n \in Nodes |-> 0]
    /\ announced = [n \in Nodes |-> [a \in Links |-> 0]]
    /\ chan = [l \in Links |-> {}]
    /\ pff = [n \in Nodes |-> {}]
    /\ lastUpd = [n \in Nodes |-> 0]
    /\ events = 0

-----------------------------------------------------------------------------
(* Graph engine: graph_update_edge increments the count of s -> d and of  *)
(* d -> s; graph_del_edge decrements both (an edge and a vertex vanish at *)
(* zero).  Both fail without effect when an edge is missing.  The        *)
(* allocation failures of graph_update_edge (-ENOMEM, with the rollbacks  *)
(* of graph.c) are not modelled here: the Graph module has them.          *)
graph_update_edge(g, s, d) ==
    [g EXCEPT ![<<s, d>>] = @ + 1, ![<<d, s>>] = @ + 1]

graph_del_edge(g, s, d) ==
    IF g[<<s, d>>] > 0 /\ g[<<d, s>>] > 0
    THEN [g EXCEPT ![<<s, d>>] = @ - 1, ![<<d, s>>] = @ - 1]
    ELSE g

(* LSMs sent by send_lsm / forward_lsm from n to the mgmt neighbours in  *)
(* targets, added to what the flows already hold.                        *)
Flood(n, targets, lsm) ==
    [l \in Links |-> IF l[1] = n /\ l[2] \in targets
                     THEN chan[l] \cup {lsm} ELSE chan[l]]

(* lsdb_add_link(s, d) at n: refresh the stamp of a known adjacency, else *)
(* insert it, increment db_len and update the graph.                     *)
AddLinkDb(n, a) ==
    [db EXCEPT ![n][a] = now]
AddLinkLen(n, a) ==
    IF InDb(n, a) THEN dbLen ELSE [dbLen EXCEPT ![n] = @ + 1]
(* Mutant: the graph is updated on a refresh as well as on an insert.      *)
AddLinkGraph_on_refresh(n, a) ==
    [announced EXCEPT ![n] = graph_update_edge(@, a[1], a[2])]
AddLinkGraph(n, a) ==
    IF InDb(n, a) THEN announced
    ELSE [announced EXCEPT ![n] = graph_update_edge(@, a[1], a[2])]

(* lsdb_del_link(s, d) at n.                                              *)
DelLinkDb(n, a) == [db EXCEPT ![n][a] = Absent]
DelLinkLen(n, a) == IF InDb(n, a) THEN [dbLen EXCEPT ![n] = @ - 1] ELSE dbLen
DelLinkGraph(n, a) ==
    IF InDb(n, a) THEN [announced EXCEPT ![n] = graph_del_edge(@, a[1], a[2])]
    ELSE announced

-----------------------------------------------------------------------------
(* lsdb_add_nb / lsdb_del_nb on ls.nbs.  Adding a known (addr, type)     *)
(* only updates its fd, which the model does not track.                   *)
AddNb(n, m, type) == [nbs EXCEPT ![n] = @ \cup {<<m, type>>}]
DelNb(n, m, type) == [nbs EXCEPT ![n] = @ \ {<<m, type>>}]

(* handle_event, NOTIFY_DT_CONN_ADD: lsdb_add_nb(peer, DT), then          *)
(* lsdb_add_link(self, peer), then send_lsm(self, peer) to every mgmt     *)
(* neighbour.                                                             *)
DtConnAdd(n, m) ==
    /\ <<n, m>> \in Links
    /\ ~IsNb(n, m, "dt")
    /\ events < MaxConnEvents
    /\ nbs' = AddNb(n, m, "dt")
    /\ db' = AddLinkDb(n, <<n, m>>)
    /\ dbLen' = AddLinkLen(n, <<n, m>>)
    /\ announced' = AddLinkGraph(n, <<n, m>>)
    /\ chan' = Flood(n, MgmtNbs(n), <<n, m>>)
    /\ events' = events + 1
    /\ UNCHANGED <<now, pff, lastUpd>>

(* handle_event, NOTIFY_DT_CONN_DEL: lsdb_del_nb(peer, fd), then          *)
(* lsdb_del_link(self, peer).  The forwarding table is left alone.        *)
DtConnDel(n, m) ==
    /\ IsNb(n, m, "dt")
    /\ events < MaxConnEvents
    /\ nbs' = DelNb(n, m, "dt")
    /\ db' = DelLinkDb(n, <<n, m>>)
    /\ dbLen' = DelLinkLen(n, <<n, m>>)
    /\ announced' = DelLinkGraph(n, <<n, m>>)
    /\ events' = events + 1
    /\ UNCHANGED <<now, chan, pff, lastUpd>>

(* handle_event, NOTIFY_MGMT_CONN_ADD: fset_add and lsdb_add_nb(MGMT).    *)
MgmtConnAdd(n, m) ==
    /\ <<n, m>> \in Links
    /\ ~IsNb(n, m, "mgmt")
    /\ events < MaxConnEvents
    /\ nbs' = AddNb(n, m, "mgmt")
    /\ events' = events + 1
    /\ UNCHANGED <<now, db, dbLen, announced, chan, pff, lastUpd>>

(* handle_event, NOTIFY_MGMT_CONN_DEL: fset_del and lsdb_del_nb; the LSMs *)
(* still unread on the flow are lost with it.                             *)
MgmtConnDel(n, m) ==
    /\ IsNb(n, m, "mgmt")
    /\ events < MaxConnEvents
    /\ nbs' = DelNb(n, m, "mgmt")
    /\ chan' = [chan EXCEPT ![<<m, n>>] = {}]
    /\ events' = events + 1
    /\ UNCHANGED <<now, db, dbLen, announced, pff, lastUpd>>

(* Mutant: the LSM is forwarded but not taken off the flow.               *)
LsReader_no_consume(n, m) ==
    /\ IsNb(n, m, "mgmt")
    /\ \E lsm \in chan[<<m, n>>] :
        /\ db' = AddLinkDb(n, lsm)
        /\ dbLen' = AddLinkLen(n, lsm)
        /\ announced' = AddLinkGraph(n, lsm)
        /\ chan' = Flood(n, MgmtNbs(n) \ {m}, lsm)
    /\ UNCHANGED <<now, nbs, pff, lastUpd, events>>

(* lsreader: n reads one LSM from its mgmt flow with m, calls             *)
(* lsdb_add_link(s, d) and forward_lsm to every mgmt neighbour whose fd   *)
(* is not the ingress fd.                                                 *)
LsReader(n, m) ==
    /\ IsNb(n, m, "mgmt")
    /\ \E lsm \in chan[<<m, n>>] :
        /\ db' = AddLinkDb(n, lsm)
        /\ dbLen' = AddLinkLen(n, lsm)
        /\ announced' = AddLinkGraph(n, lsm)
        /\ chan' = [Flood(n, MgmtNbs(n) \ {m}, lsm)
                      EXCEPT ![<<m, n>>] = @ \ {lsm}]
    /\ UNCHANGED <<now, nbs, pff, lastUpd, events>>

(* lsupdate, one pass over ls.db: an adjacency older than LS_TIMEO is     *)
(* unlinked and removed from the graph (db_len is not decremented); an    *)
(* adjacency of this node is sent to every mgmt neighbour and its stamp   *)
(* refreshed.                                                             *)
Expired(n, a) == InDb(n, a) /\ now - db[n][a] > Timeo

LsUpdate(n) ==
    /\ lastUpd[n] < now
    /\ LET gone == {a \in Links : Expired(n, a)}
           own  == {a \in Links : InDb(n, a) /\ ~Expired(n, a) /\ a[1] = n}
       IN  /\ db' = [db EXCEPT ![n] = [a \in Links |->
                        IF a \in gone THEN Absent
                        ELSE IF a \in own THEN now ELSE @[a]]]
           /\ announced' = [announced EXCEPT ![n] = [l \in Links |->
                 @[l] - Cardinality({a \in gone : a = l \/ a = <<l[2], l[1]>>})]]
           /\ chan' = [l \in Links |->
                 IF l[1] = n /\ l[2] \in MgmtNbs(n) THEN chan[l] \cup own
                 ELSE chan[l]]
    /\ lastUpd' = [lastUpd EXCEPT ![n] = now]
    /\ UNCHANGED <<now, nbs, dbLen, pff, events>>

(* The coarse clock advances by one update period once every node's       *)
(* lsupdate has run in the current one.                                   *)
Tick ==
    /\ now < MaxClock
    /\ \A n \in Nodes : lastUpd[n] = now
    /\ now' = now + 1
    /\ UNCHANGED <<nbs, db, dbLen, announced, chan, pff, lastUpd, events>>

-----------------------------------------------------------------------------
(* graph_routing_table_simple over the edges announced by both ends:      *)
(* Dijkstra with hop count, then one next hop per reachable destination.  *)
Edges2(n) == {l \in Links : announced[n][l] = 2}
Vertices(n) == {v \in Nodes : \E l \in Links : announced[n][l] > 0 /\ v = l[1]}

RECURSIVE Within(_, _, _)
Within(E, s, k) ==
    IF k = 0 THEN {s}
    ELSE LET W == Within(E, s, k - 1)
         IN  W \cup {l[2] : l \in {e \in E : e[1] \in W}}

Dist(E, s, d) == CHOOSE k \in 0..Cardinality(Nodes) :
                    d \in Within(E, s, k) /\ \A j \in 0..(k - 1) : d \notin Within(E, s, j)

Reachable(E, s) == Within(E, s, Cardinality(Nodes)) \ {s}

(* The next hop Dijkstra records for d: d itself when s -> d is an edge; *)
(* otherwise the next hop of the parent that relaxed d first.  Vertices   *)
(* are kept sorted by address and get_min_vertex takes the first vertex   *)
(* of least distance, so that parent is the lowest-addressed vertex one   *)
(* hop closer to s with an edge to d.                                     *)
MinAddr(S) == CHOOSE x \in S : \A y \in S : x <= y

RECURSIVE NHop(_, _, _)
NHop(E, s, d) ==
    IF <<s, d>> \in E THEN d
    ELSE NHop(E, s, MinAddr({q \in Reachable(E, s) :
                               <<q, d>> \in E /\ Dist(E, s, q) + 1 = Dist(E, s, d)}))

(* graph_routing_table_simple: one (dst, nhop) per vertex Dijkstra       *)
(* reached, the source and unreachable vertices (nhops NULL) skipped.     *)
RoutingTable(E, s) == {<<d, NHop(E, s, d)>> : d \in Reachable(E, s)}

(* calculate_pff: when graph_routing_table fails (fewer than two          *)
(* vertices) the table is left as it was; otherwise it is flushed and     *)
(* every (dst, nhop) whose nhop is a DT neighbour (nbr_to_fd) is added.   *)
CalculatePff(n) ==
    /\ IF Cardinality(Vertices(n)) < 2
       THEN UNCHANGED pff
       ELSE pff' = [pff EXCEPT ![n] =
                      {r \in RoutingTable(Edges2(n), n) : IsNb(n, r[2], "dt")}]
    /\ UNCHANGED <<now, nbs, db, dbLen, announced, chan, lastUpd, events>>

Next ==
    \/ \E n, m \in Nodes : \/ DtConnAdd(n, m) \/ DtConnDel(n, m)
                           \/ MgmtConnAdd(n, m) \/ MgmtConnDel(n, m)
                           \/ LsReader(n, m)
    \/ \E n \in Nodes : LsUpdate(n) \/ CalculatePff(n)
    \/ Tick

(* Each node's lsreader, lsupdate and calculate_pff threads loop forever  *)
(* (fevent hands the reader every flow with data), and the clock          *)
(* advances.  Connection events come from outside and are not fair.       *)
Fairness ==
    /\ \A n \in Nodes : /\ WF_vars(\E m \in Nodes : LsReader(n, m))
                       /\ WF_vars(LsUpdate(n))
                       /\ WF_vars(CalculatePff(n))
    /\ WF_vars(Tick)

Spec == Init /\ [][Next]_vars /\ Fairness

-----------------------------------------------------------------------------
(* Properties.                                                            *)

Reverse(l) == <<l[2], l[1]>>

(* Invariant 1 of the design: the graph of a node mirrors its adjacency   *)
(* database.  lsdb_add_link, lsdb_del_link and lsupdate's aging each      *)
(* change both; the edge s -> d is announced once for each of s -> d and  *)
(* d -> s in the database, so announced = 2 exactly when both are.        *)
GraphMatchesLsdb ==
    \A n \in Nodes : \A l \in Links :
        announced[n][l] = Cardinality({a \in {l, Reverse(l)} : InDb(n, a)})

(* A node's own adjacency self -> peer is in its database only while the  *)
(* peer is a DT neighbour: DT_CONN_DEL withdraws it, and lsupdate keeps   *)
(* re-flooding every own adjacency it finds.                              *)
OwnAdjacencyHasDtNeighbor ==
    \A n \in Nodes : \A l \in Links :
        (l[1] = n /\ InDb(n, l)) => IsNb(n, l[2], "dt")

(* Every next hop in the forwarding table of a node is a current data    *)
(* neighbour of it (invariant 2 of the design).                           *)
PffUsesNeighbors ==
    \A n \in Nodes : \A e \in pff[n] : IsNb(n, e[2], "dt")

(* Invariant 2 of the design, allowing calculate_pff its period to catch  *)
(* up: once connections stop changing, every PFF eventually holds only    *)
(* DT neighbours for good.  calculate_pff skips the flush while the graph *)
(* has fewer than two vertices.                                           *)
PffSettlesOnNeighbors == <>[]PffUsesNeighbors

(* Nodes that an LSM sent by n reaches over management flows: send_lsm  *)
(* writes to every mgmt neighbour, forward_lsm passes it on, and the      *)
(* reader takes it only from a flow it still has in its fset.             *)
MgmtReach(n) ==
    Within({l \in Links : IsNb(l[1], l[2], "mgmt") /\ IsNb(l[2], l[1], "mgmt")},
           n, Cardinality(Nodes))

FloodingQuiesces ==
    <>[](\A l \in Links : IsNb(l[2], l[1], "mgmt") => chan[l] = {})

=============================================================================
