------------------------------- MODULE Graph -------------------------------
(***************************************************************************)
(* The graph engine of the routing policy (src/ipcpd/unicast/pol/graph.c). *)
(*                                                                          *)
(* A graph is a list of vertices kept sorted by address, each carrying the  *)
(* index used to address the per-vertex arrays of Dijkstra, and per vertex  *)
(* a list of edges with an announce count.  The record G below holds:      *)
(*   G.vl      the vertex list (addresses, in list order),                  *)
(*   G.idx     vertex->index of every vertex,                               *)
(*   G.el      the edge list of every vertex, records [nb, ann], in order.  *)
(* The caller (lsdb_add_link / lsdb_del_link) announces s -> d once and     *)
(* withdraws it once; adj is the set of announcements the graph accepted.   *)
(*                                                                          *)
(* int is modelled with a small width: IntMax stands for INT_MAX.  All      *)
(* finite distances stay below IntMax div 2, so every comparison the code  *)
(* makes has the outcome it has with 32 bits, overflow included.           *)
(***************************************************************************)
EXTENDS Integers, Sequences, SequencesExt, FiniteSets

CONSTANTS
    Addrs,          \* vertex addresses (uint64_t)
    Links,          \* the directed pairs the layer's members may announce
    IntMax,         \* INT_MAX at the modelled width
    MallocMayFail   \* whether the allocations in graph_update_edge may fail

ASSUME /\ Addrs \subseteq Nat
       /\ Links \subseteq {l \in Addrs \X Addrs : l[1] # l[2]}
       /\ IntMax \in Nat /\ 2 * Cardinality(Addrs) < IntMax
       /\ MallocMayFail \in BOOLEAN

VARIABLES g, adj

vars == <<g, adj>>

NULL == 0   \* no vertex: addresses in Addrs are positive
ASSUME NULL \notin Addrs

EmptyGraph == [vl |-> <<>>, idx |-> [a \in Addrs |-> 0],
               el |-> [a \in Addrs |-> <<>>]]

Vertices(G) == Range(G.vl)
NrVertices(G) == Len(G.vl)

(* Mutant: int sums computed without overflow. *)
IntAdd_unbounded(x, y) == x + y

(* Two's-complement addition of int at the modelled width.                *)
IntAdd(x, y) ==
    LET s == x + y
    IN  IF s > IntMax THEN s - 2 * (IntMax + 1)
        ELSE IF s < -IntMax - 1 THEN s + 2 * (IntMax + 1) ELSE s

TypeOK ==
    /\ g.vl \in Seq(Addrs) /\ Len(g.vl) <= Cardinality(Addrs)
    /\ g.idx \in [Addrs -> 0..Cardinality(Addrs)]
    /\ \A a \in Addrs : g.el[a] \in Seq([nb : Addrs, ann : 0..2])
    /\ adj \subseteq Addrs \X Addrs

Init == g = EmptyGraph /\ adj = {}

-----------------------------------------------------------------------------
(* find_edge_by_addr: position of the edge of v to d, 0 when none.        *)
find_edge_by_addr(G, v, d) ==
    IF \E k \in 1..Len(G.el[v]) : G.el[v][k].nb = d
    THEN SelectInSeq(G.el[v], LAMBDA e : e.nb = d) ELSE 0

(* add_edge: list_add at the head with announced = 0.                     *)
add_edge(G, v, nb) ==
    [G EXCEPT !.el[v] = <<[nb |-> nb, ann |-> 0]>> \o @]

del_edge(G, v, k) == [G EXCEPT !.el[v] = RemoveAt(@, k)]

(* add_vertex: insert before the first vertex of larger address, with the *)
(* number of vertices before it as index; shift the index of every vertex *)
(* of larger address.                                                     *)
add_vertex(G, a) ==
    LET i == Cardinality({v \in Vertices(G) : v <= a})
    IN  [vl  |-> InsertAt(G.vl, i + 1, a),
         idx |-> [v \in Addrs |-> IF v = a THEN i
                                  ELSE IF v \in Vertices(G) /\ v > a
                                       THEN G.idx[v] + 1 ELSE G.idx[v]],
         el  |-> [G.el EXCEPT ![a] = <<>>]]

(* Mutant: vertices of larger address keep their index. *)
del_vertex_keep_index(G, a) ==
    [vl |-> Remove(G.vl, a), idx |-> G.idx, el |-> [G.el EXCEPT ![a] = <<>>]]

(* del_vertex: unlink, decrement the index of every vertex of larger      *)
(* address and free the vertex's own edges.                               *)
del_vertex(G, a) ==
    [vl  |-> Remove(G.vl, a),
     idx |-> [v \in Addrs |-> IF v \in Vertices(G) /\ v > a
                              THEN G.idx[v] - 1 ELSE G.idx[v]],
     el  |-> [G.el EXCEPT ![a] = <<>>]]

DelIfBare(G, a) ==
    IF a \in Vertices(G) /\ G.el[a] = <<>> THEN del_vertex(G, a) ELSE G

AddAnn(G, v, k) == [G EXCEPT !.el[v][k].ann = @ + 1]

(* graph_update_edge(s, d): find or add both vertices and both edges and  *)
(* increment the announce count of s -> d and of d -> s.  fail names the  *)
(* allocation that fails, if any, and the rollback that follows it.       *)
FailPoints == IF MallocMayFail THEN {"none", "v", "nb", "e", "nb_e"} ELSE {"none"}

(* Mutant: when adding d -> s fails, s -> d keeps its increment. *)
graph_update_edge_no_undo(G, s, d, fail) ==
    LET G1 == IF s \notin Vertices(G) THEN add_vertex(G, s) ELSE G
        G2 == IF d \notin Vertices(G1) THEN add_vertex(G1, d) ELSE G1
        G3 == IF find_edge_by_addr(G2, s, d) = 0 THEN add_edge(G2, s, d) ELSE G2
        G4 == AddAnn(G3, s, find_edge_by_addr(G3, s, d))
        G5 == IF find_edge_by_addr(G4, d, s) = 0 THEN add_edge(G4, d, s) ELSE G4
    IN  IF fail = "nb_e" /\ find_edge_by_addr(G4, d, s) = 0 THEN G4
        ELSE AddAnn(G5, d, find_edge_by_addr(G5, d, s))

graph_update_edge(G, s, d, fail) ==
    LET newV  == s \notin Vertices(G)
        G1    == IF newV THEN add_vertex(G, s) ELSE G
        newNb == d \notin Vertices(G1)
        G2    == IF newNb THEN add_vertex(G1, d) ELSE G1
        newE  == find_edge_by_addr(G2, s, d) = 0
        G3    == IF newE THEN add_edge(G2, s, d) ELSE G2
        G4    == AddAnn(G3, s, find_edge_by_addr(G3, s, d))
        newNbE == find_edge_by_addr(G4, d, s) = 0
        G5    == IF newNbE THEN add_edge(G4, d, s) ELSE G4
        G6    == AddAnn(G5, d, find_edge_by_addr(G5, d, s))
        (* --e->announced == 0 then del_edge(e) *)
        Undo4 == LET k == find_edge_by_addr(G4, s, d)
                 IN  IF G4.el[s][k].ann = 1 THEN del_edge(G4, s, k)
                     ELSE [G4 EXCEPT !.el[s][k].ann = @ - 1]
    IN  CASE fail = "v" /\ newV          -> G
          [] fail = "nb" /\ newNb        -> DelIfBare(G1, s)
          [] fail = "e" /\ newE          -> DelIfBare(DelIfBare(G2, s), d)
          [] fail = "nb_e" /\ newNbE     -> DelIfBare(DelIfBare(Undo4, s), d)
          [] OTHER                       -> G6

(* graph_del_edge(s, d): -1 without effect when a vertex or an edge is    *)
(* missing; else decrement both counts, deleting an edge at zero and a    *)
(* vertex left without edges.                                             *)
DecAnn(G, v, k) ==
    IF G.el[v][k].ann = 1 THEN del_edge(G, v, k)
    ELSE [G EXCEPT !.el[v][k].ann = @ - 1]

graph_del_edge(G, s, d) ==
    IF \/ s \notin Vertices(G) \/ d \notin Vertices(G)
       \/ find_edge_by_addr(G, s, d) = 0 \/ find_edge_by_addr(G, d, s) = 0
    THEN G
    ELSE LET G1 == DecAnn(G, s, find_edge_by_addr(G, s, d))
             G2 == DecAnn(G1, d, find_edge_by_addr(G1, d, s))
         IN  DelIfBare(DelIfBare(G2, s), d)

-----------------------------------------------------------------------------
(* Dijkstra.  The arrays dist, nhops and used are indexed from 1; the     *)
(* vertex at list position i owns slot i, and an edge's neighbour is      *)
(* addressed through its index field, as dist[e->nb->index].              *)
Slot(G, a) == G.idx[a] + 1
Pos(G, a) == SelectInSeq(G.vl, LAMBDA x : x = a)

(* Mutant: edges relaxed whatever their announce count. *)
Relax_any_ann(G, src, st, i) ==
    LET v == G.vl[i]
        step(acc, e) ==
            LET k == Slot(G, e.nb)
            IN  IF acc.dist[i] + 1 < acc.dist[k]
                THEN [acc EXCEPT !.dist[k] = acc.dist[i] + 1,
                                 !.nh[k] = IF v = src THEN e.nb ELSE acc.nh[i]]
                ELSE acc
    IN  FoldLeft(step, st, G.el[v])

(* The edges of the vertex at position i, in list order, relaxed if both  *)
(* sides announced them: alt = dist[i] + 1 replaces a larger distance,    *)
(* the next hop being the neighbour itself when relaxing from the source. *)
Relax(G, src, st, i) ==
    LET v == G.vl[i]
        step(acc, e) ==
            LET k == Slot(G, e.nb)
                alt == acc.dist[i] + 1
            IN  IF e.ann = 2 /\ alt < acc.dist[k]
                THEN [acc EXCEPT !.dist[k] = alt,
                                 !.nh[k] = IF v = src THEN e.nb ELSE acc.nh[i]]
                ELSE acc
    IN  FoldLeft(step, st, G.el[v])

(* get_min_vertex: the first unused position of least distance below      *)
(* INT_MAX, marked used.                                                  *)
MinVertex(G, st) ==
    LET cand == {i \in 1..NrVertices(G) : ~st.used[i] /\ st.dist[i] < IntMax}
    IN  IF cand = {} THEN 0
        ELSE CHOOSE i \in cand : \A j \in cand :
                 st.dist[i] < st.dist[j] \/ (st.dist[i] = st.dist[j] /\ i <= j)

RECURSIVE DijkstraLoop(_, _, _)
DijkstraLoop(G, src, st) ==
    LET i == MinVertex(G, st)
    IN  IF i = 0 THEN st
        ELSE DijkstraLoop(G, src, Relax(G, src, [st EXCEPT !.used[i] = TRUE], i))

dijkstra(G, src) ==
    LET N == NrVertices(G)
    IN  DijkstraLoop(G, src,
           [dist |-> [i \in 1..N |-> IF G.vl[i] = src THEN 0 ELSE IntMax],
            nh   |-> [i \in 1..N |-> NULL],
            used |-> [i \in 1..N |-> FALSE]])

(* A routing table: ok is FALSE when the call returns -1; t maps each     *)
(* destination to its list of next hops.                                  *)
Failed == [ok |-> FALSE, t |-> [d \in {} |-> <<>>]]

(* graph_routing_table_simple: -1 below two vertices; one entry per       *)
(* position whose nhops is set.                                           *)
graph_routing_table_simple(G, s) ==
    IF NrVertices(G) < 2 THEN Failed
    ELSE LET st == dijkstra(G, s)
             D  == {i \in 1..NrVertices(G) : st.nh[i] # NULL}
         IN  [ok |-> TRUE, t |-> [d \in {G.vl[i] : i \in D} |-> <<st.nh[Pos(G, d)]>>]]

(* graph_routing_table_lfa: after the simple table, Dijkstra from every   *)
(* neighbour of s (every edge of s, in list order); then for every vertex *)
(* v # s in list order and every such neighbour n # v, n is appended to   *)
(* v's next hops when n_dist[v] < dist[n] + dist[v]; add_lfa_to_table     *)
(* fails, failing the table, when v has no entry.                         *)
graph_routing_table_lfa(G, s) ==
    LET simple == graph_routing_table_simple(G, s)
        dist == dijkstra(G, s).dist
        nbs  == IF s \in Vertices(G) THEN G.el[s] ELSE <<>>
        ndist == [j \in DOMAIN nbs |-> dijkstra(G, nbs[j].nb).dist]
        pairs == FlattenSeq([i \in 1..NrVertices(G) |->
                                 [j \in DOMAIN nbs |-> <<G.vl[i], j>>]])
        step(acc, p) ==
            LET v == p[1]
                n == nbs[p[2]].nb
            IN  IF ~acc.ok \/ v = s \/ n = v
                   \/ ~(ndist[p[2]][Slot(G, v)] < IntAdd(dist[Slot(G, n)], dist[Slot(G, v)]))
                THEN acc
                ELSE IF v \in DOMAIN acc.t
                     THEN [acc EXCEPT !.t[v] = Append(@, n)]
                     ELSE Failed
    IN  IF ~simple.ok THEN Failed ELSE FoldLeft(step, simple, pairs)

(* Mutant: the position counter is not advanced past the source. *)
EcmpTable_no_inc(G, s, fwd) ==
    [v \in Vertices(G) \ {s} |->
        fwd[IF s \in Vertices(G) /\ Pos(G, s) < Pos(G, v) THEN Pos(G, v) - 1 ELSE Pos(G, v)]]

(* The ECMP table: an entry for every vertex but s, taking the list at    *)
(* the vertex's list position (counter i, advanced past s too).           *)
EcmpTable(G, s, fwd) == [v \in Vertices(G) \ {s} |-> fwd[Pos(G, v)]]

(* graph_routing_table_ecmp: -1 below two vertices or when s is not a     *)
(* vertex; Dijkstra from s and from every neighbour n of s (every edge,   *)
(* in list order); n is appended to forwarding[v->index] when             *)
(* tmp_dist[v] + 1 == dist[v]; every vertex but s gets an entry with the  *)
(* list at its list position.                                             *)
graph_routing_table_ecmp(G, s) ==
    IF NrVertices(G) < 2 \/ s \notin Vertices(G) THEN Failed
    ELSE
    LET N    == NrVertices(G)
        dist == dijkstra(G, s).dist
        nbs  == G.el[s]
        tmp  == [j \in DOMAIN nbs |-> dijkstra(G, nbs[j].nb).dist]
        hit(j, k) == \E h \in 1..N : Slot(G, G.vl[h]) = k
                                    /\ IntAdd(tmp[j][k], 1) = dist[k]
        fwd  == [k \in 1..N |->
                   LET J == SelectSeq([j \in DOMAIN nbs |-> j], LAMBDA j : hit(j, k))
                   IN  [x \in DOMAIN J |-> nbs[J[x]].nb]]
    IN  [ok |-> TRUE, t |-> EcmpTable(G, s, fwd)]

-----------------------------------------------------------------------------
(* The caller announces s -> d once (lsdb_add_link inserts it) and        *)
(* withdraws it once (lsdb_del_link, lsupdate aging).  lsdb_add_link logs *)
(* a failed graph_update_edge and keeps the adjacency all the same.       *)
UpdateEdge(s, d) ==
    /\ <<s, d>> \in Links
    /\ <<s, d>> \notin adj
    /\ \E fail \in FailPoints :
         /\ g' = graph_update_edge(g, s, d, fail)
         /\ adj' = adj \cup {<<s, d>>}

DelEdge(s, d) ==
    /\ <<s, d>> \in adj
    /\ g' = graph_del_edge(g, s, d)
    /\ adj' = adj \ {<<s, d>>}

Next == \E s, d \in Addrs : UpdateEdge(s, d) \/ DelEdge(s, d)

Spec == Init /\ [][Next]_vars

-----------------------------------------------------------------------------
(* Reference: breadth-first distances over the links both ends announced, *)
(* taken from the announcements themselves rather than from the graph.    *)
Bidir == {l \in adj : <<l[2], l[1]>> \in adj}

RECURSIVE Within(_, _, _)
Within(E, s, k) ==
    IF k = 0 THEN {s}
    ELSE LET W == Within(E, s, k - 1)
         IN  W \cup {l[2] : l \in {l \in E : l[1] \in W}}

Reach(E, s) == Within(E, s, Cardinality(Addrs)) \ {s}

Dist(E, s, d) ==
    CHOOSE k \in 0..Cardinality(Addrs) :
        d \in Within(E, s, k) /\ (k = 0 \/ d \notin Within(E, s, k - 1))

FirstHops(E, s, d) ==
    {h \in Addrs : /\ <<s, h>> \in E
                   /\ h = d \/ (d \in Reach(E, h) /\ Dist(E, h, d) + 1 = Dist(E, s, d))}

AnnOf(G, s, d) ==
    LET k == find_edge_by_addr(G, s, d)
    IN  IF s \in Vertices(G) /\ k # 0 THEN G.el[s][k].ann ELSE 0

(* graph_routing_table: the table of the configured algorithm, computed  *)
(* under the graph lock; -1 for an algorithm it does not know.            *)
graph_routing_table(G, algo, s) ==
    CASE algo = "simple" -> graph_routing_table_simple(G, s)
      [] algo = "lfa"    -> graph_routing_table_lfa(G, s)
      [] algo = "ecmp"   -> graph_routing_table_ecmp(G, s)
      [] OTHER           -> Failed

Simple(s) == graph_routing_table(g, "simple", s)
Lfa(s)    == graph_routing_table(g, "lfa", s)
Ecmp(s)   == graph_routing_table(g, "ecmp", s)

(* The vertex list stays sorted with each vertex's index equal to its     *)
(* position, every edge has its reverse with the same count, no edge has  *)
(* count zero and no vertex is left without edges, through every add,     *)
(* delete and rollback of graph_update_edge and graph_del_edge.  Dijkstra *)
(* addresses its arrays through vertex->index, so a stale index corrupts  *)
(* every table.                                                           *)
GraphWellFormed ==
    /\ \A i \in 1..NrVertices(g) - 1 : g.vl[i] < g.vl[i + 1]
    /\ \A i \in 1..NrVertices(g) : g.idx[g.vl[i]] = i - 1
    /\ \A a \in Addrs : (a \in Vertices(g)) = (g.el[a] # <<>>)
    /\ \A a \in Vertices(g) : \A k \in 1..Len(g.el[a]) :
         LET e == g.el[a][k]
         IN  /\ e.ann > 0 /\ e.nb \in Vertices(g)
             /\ AnnOf(g, e.nb, a) = e.ann
             /\ \A k2 \in 1..Len(g.el[a]) : g.el[a][k2].nb = e.nb => k2 = k

(* The announce count of every edge is the number of its two directions   *)
(* the link-state database holds: the graph after any sequence of         *)
(* lsdb_add_link and lsdb_del_link calls is a function of the adjacencies *)
(* alone (spec: update then remove restores the graph).                   *)
GraphMirrorsAnnouncements ==
    \A s, d \in Addrs : s # d =>
        AnnOf(g, s, d) = Cardinality({<<s, d>>, <<d, s>>} \cap adj)

(* graph_routing_table_simple succeeds exactly from two vertices on, and  *)
(* then has an entry for every destination reachable over bi-announced    *)
(* links, whose next hop starts a shortest path.                          *)
SimpleIsShortestPath ==
    \A s \in Addrs :
        LET r == Simple(s)
        IN  /\ r.ok = (NrVertices(g) >= 2)
            /\ r.ok => /\ DOMAIN r.t = Reach(Bidir, s)
                       /\ \A d \in DOMAIN r.t : r.t[d][1] \in FirstHops(Bidir, s, d)

(* graph_routing_table_lfa never fails where the simple table succeeds,   *)
(* and every next hop it lists is loop-free: reachable, and closer to the *)
(* destination than a path back through s.  Both rely on the int sums of *)
(* the LFA test wrapping for unreachable vertices (dist = INT_MAX).       *)
LfaLoopFree ==
    \A s \in Addrs :
        LET r == Lfa(s)
        IN  /\ Simple(s).ok => r.ok
            /\ r.ok => \A d \in DOMAIN r.t : \A n \in Range(r.t[d]) :
                   /\ n \in Reach(Bidir, s)
                   /\ Dist(Bidir, n, d) < Dist(Bidir, n, s) + Dist(Bidir, s, d)

(* Every neighbour starting a shortest path to a reachable destination is *)
(* among that destination's ECMP next hops.                               *)
EcmpComplete ==
    \A s \in Addrs :
        LET r == Ecmp(s)
        IN  r.ok => \A d \in Reach(Bidir, s) :
                        d \in DOMAIN r.t /\ FirstHops(Bidir, s, d) \subseteq Range(r.t[d])

(* graph.c, dijkstra: "Only include it if both sides announced it".  No   *)
(* table of any algorithm routes over a link only one side announced.     *)
NextHopsUseAnnouncedLinks ==
    \A s \in Addrs : \A r \in {Simple(s), Lfa(s), Ecmp(s)} :
        r.ok => \A d \in DOMAIN r.t : \A n \in Range(r.t[d]) : <<s, n>> \in Bidir

=============================================================================
