----------------------------- MODULE GraphStore -----------------------------
(***************************************************************************)
(* One edge table.  An edge is two records, one under its source and one   *)
(* under its destination; only the first holds the properties.  Each       *)
(* storage call is one transaction and one step; a traversal is a sequence *)
(* of scans, and writers of other connections run between them.            *)
(*                                                                         *)
(* RELATE, batches and traversals are statements; delete, the property     *)
(* updates, incoming edges and walks are the library interface.            *)
(***************************************************************************)
EXTENDS Naturals, Sequences, FiniteSets

CONSTANTS
  Conns,
  Vertices,
  Types,      \* edge types
  Props,      \* properties of an edge, serialized
  Empty,      \* no properties
  NoEdge,     \* no record
  NoStmt,
  Scenario    \* what each connection may do, in each situation to explore

Edges == Vertices \X Types \X Vertices
Hop == [dir : {"out", "in"}, type : Types]

Statement ==
       [op : {"relate"}, edges : SUBSET Edges, props : Props]
  \cup [op : {"delete"}, edge : Edges]
  \cup [op : {"update"}, edge : Edges, props : Props]
  \cup [op : {"incoming"}, vertex : Vertices, type : Types]
  \cup [op : {"select", "walk"}, from : SUBSET Vertices, hops : Seq(Hop)]
  \cup [op : {"put", "drop"}, vertex : Vertices]

ASSUME GraphAssumption ==
  /\ Empty \in Props
  /\ NoEdge \notin Props
  /\ NoStmt \notin Statement
  /\ \A i \in DOMAIN Scenario : \A c \in Conns : Scenario[i][c] \subseteq Statement

VARIABLES
  out,     \* outgoing records: the properties of an edge
  in,      \* incoming records: the edges that have one
  docs,    \* the vertices that have a document
  pc, stmt, loc,  \* per connection
  stable,  \* history: edges that have existed since the statement began
  ever,    \* history: edges with the properties they had since it began
  scenario

store == <<out, in, docs>>
vars == <<store, pc, stmt, loc, stable, ever, scenario>>

Local ==
  [hop   : Nat,                        \* hops followed so far
   left  : SUBSET Seq(Vertices),       \* paths (or their ends) still to extend
   next  : SUBSET Seq(Vertices),       \* those already extended
   todo  : SUBSET Edges,               \* incoming edges whose properties to get
   found : SUBSET (Edges \X Props)]

Fresh == [hop |-> 0, left |-> {}, next |-> {}, todo |-> {}, found |-> {}]

Init ==
  /\ out = [e \in Edges |-> NoEdge]
  /\ in = {}
  /\ docs = Vertices
  /\ pc = [c \in Conns |-> "idle"]
  /\ stmt = [c \in Conns |-> NoStmt]
  /\ loc = [c \in Conns |-> Fresh]
  /\ stable = [c \in Conns |-> {}]
  /\ ever = [c \in Conns |-> {}]
  /\ scenario \in DOMAIN Scenario

At(c, label) == pc[c] = label

Goto(c, label, l) ==
  /\ pc' = [pc EXCEPT ![c] = label]
  /\ loc' = [loc EXCEPT ![c] = l]
  /\ UNCHANGED <<stmt, scenario>>

Reads == {"incoming", "select", "walk"}

\* The result of a read stays in loc until the next call.
Return(c, l) == Goto(c, "idle", l)

Done(c) ==
  /\ pc' = [pc EXCEPT ![c] = "idle"]
  /\ stmt' = [stmt EXCEPT ![c] = NoStmt]
  /\ loc' = [loc EXCEPT ![c] = Fresh]
  /\ UNCHANGED scenario

\* An edge exists if both of its records do.
Existing == {e \in Edges : out[e] # NoEdge /\ e \in in}
Recorded == {<<e, out[e]>> : e \in {d \in Edges : out[d] # NoEdge}}

Start(op) ==
  CASE op = "relate" -> "relate"
    [] op \in {"delete", "update"} -> "contains"
    [] op = "incoming" -> "scan_incoming"
    [] op \in {"select", "walk"} -> "hop"
    [] OTHER -> "document"

\* A whole-table source starts from the documents; a record from itself.
Begin(c) ==
  /\ At(c, "idle")
  /\ \E s \in Scenario[scenario][c] :
       /\ stmt' = [stmt EXCEPT ![c] = s]
       /\ pc' = [pc EXCEPT ![c] = Start(s.op)]
       /\ loc' = [loc EXCEPT ![c] = [Fresh EXCEPT
                    !.left = IF s.op \in {"select", "walk"} THEN {<<v>> : v \in s.from} ELSE {}]]
       /\ stable' = [stable EXCEPT ![c] = IF s.op \in Reads THEN Existing ELSE {}]
       /\ ever' = [ever EXCEPT ![c] = IF s.op \in Reads THEN Recorded ELSE {}]
  /\ UNCHANGED <<store, scenario>>

-----------------------------------------------------------------------------
(* Writes *)

\* Mutant of Relate: the reverse record is forgotten.
RelateOneWay(c) ==
  LET s == stmt[c] IN
  /\ At(c, "relate")
  /\ out' = [e \in Edges |-> IF e \in s.edges THEN s.props ELSE out[e]]
  /\ Done(c)
  /\ UNCHANGED <<in, docs>>

\* put_batch of both records of an edge; a batch writes those of all its edges.
Relate(c) ==
  LET s == stmt[c] IN
  /\ At(c, "relate")
  /\ out' = [e \in Edges |-> IF e \in s.edges THEN s.props ELSE out[e]]
  /\ in' = in \cup s.edges
  /\ Done(c)
  /\ UNCHANGED docs

\* delete and update_properties look for the outgoing record first.
Contains(c) ==
  /\ At(c, "contains")
  /\ IF out[stmt[c].edge] = NoEdge THEN Done(c)
     ELSE Goto(c, IF stmt[c].op = "delete" THEN "erase" ELSE "put_props", Fresh)
  /\ UNCHANGED store

\* Mutant of Erase: only the record of the source is deleted.
EraseOneWay(c) ==
  /\ At(c, "erase")
  /\ out' = [out EXCEPT ![stmt[c].edge] = NoEdge]
  /\ Done(c)
  /\ UNCHANGED <<in, docs>>

\* delete_batch of both records.
Erase(c) ==
  /\ At(c, "erase")
  /\ out' = [out EXCEPT ![stmt[c].edge] = NoEdge]
  /\ in' = in \ {stmt[c].edge}
  /\ Done(c)
  /\ UNCHANGED docs

\* The outgoing record is written, whether or not the edge is still there.
PutProps(c) ==
  /\ At(c, "put_props")
  /\ out' = [out EXCEPT ![stmt[c].edge] = stmt[c].props]
  /\ Done(c)
  /\ UNCHANGED <<in, docs>>

\* Documents come and go without their edges.
Document(c) ==
  /\ At(c, "document")
  /\ docs' = IF stmt[c].op = "put" THEN docs \cup {stmt[c].vertex} ELSE docs \ {stmt[c].vertex}
  /\ Done(c)
  /\ UNCHANGED <<out, in>>

-----------------------------------------------------------------------------
(* Reads *)

\* A scan of the records under a vertex, by direction and type.
Neighbors(v, h) ==
  IF h.dir = "out" THEN {w \in Vertices : out[<<v, h.type, w>>] # NoEdge}
  ELSE {w \in Vertices : <<w, h.type, v>> \in in}

ScanIncoming(c) ==
  LET s == stmt[c] IN
  /\ At(c, "scan_incoming")
  /\ Goto(c, "get_props",
          [Fresh EXCEPT !.todo = {e \in in : e[2] = s.type /\ e[3] = s.vertex}])
  /\ UNCHANGED store

\* Mutant of GetProps: a record that is gone is taken as it is.
GetPropsRaw(c) ==
  LET l == loc[c] IN
  /\ At(c, "get_props")
  /\ UNCHANGED store
  /\ IF l.todo = {} THEN Return(c, l)
     ELSE \E e \in l.todo :
            Goto(c, "get_props", [l EXCEPT !.todo = @ \ {e}, !.found = @ \cup {<<e, out[e]>>}])

\* Incoming records are empty: the properties come from the outgoing one, and
\* are empty if that is gone.
GetProps(c) ==
  LET l == loc[c] IN
  /\ At(c, "get_props")
  /\ UNCHANGED store
  /\ IF l.todo = {} THEN Return(c, l)
     ELSE \E e \in l.todo :
            Goto(c, "get_props",
                 [l EXCEPT !.todo = @ \ {e},
                           !.found = @ \cup {<<e, IF out[e] = NoEdge THEN Empty ELSE out[e]>>}])

Last(p) == p[Len(p)]

\* walk keeps whole paths; a traversal keeps the distinct ends.
Extended(c, p, v) == IF stmt[c].op = "walk" THEN Append(p, v) ELSE <<v>>

\* Mutant of FollowHop: only the neighbours of the last end are kept.
FollowHopLast(c) ==
  LET l == loc[c]
      h == stmt[c].hops[l.hop + 1]
  IN /\ At(c, "hop")
     /\ l.hop < Len(stmt[c].hops)
     /\ UNCHANGED store
     /\ \E p \in l.left :
          Goto(c, "hop", [l EXCEPT !.left = @ \ {p},
                                   !.next = {Extended(c, p, v) : v \in Neighbors(Last(p), h)}])

\* One scan: the neighbours of one end.
FollowHop(c) ==
  LET l == loc[c]
      h == stmt[c].hops[l.hop + 1]
  IN /\ At(c, "hop")
     /\ l.hop < Len(stmt[c].hops)
     /\ UNCHANGED store
     /\ \E p \in l.left :
          Goto(c, "hop", [l EXCEPT !.left = @ \ {p},
                                   !.next = @ \cup {Extended(c, p, v) : v \in Neighbors(Last(p), h)}])

NextHop(c) ==
  LET l == loc[c] IN
  /\ At(c, "hop")
  /\ l.hop < Len(stmt[c].hops)
  /\ l.left = {}
  /\ Goto(c, "hop", [l EXCEPT !.hop = @ + 1, !.left = l.next, !.next = {}])
  /\ UNCHANGED store

\* All hops are followed: a traversal reads the records, a walk has its paths.
Finish(c) ==
  LET l == loc[c] IN
  /\ At(c, "hop")
  /\ l.hop = Len(stmt[c].hops)
  /\ Return(c, [l EXCEPT !.next = IF stmt[c].op = "walk" THEN l.left
                                  ELSE {p \in l.left : Last(p) \in docs}])
  /\ UNCHANGED store

-----------------------------------------------------------------------------

Step(c) ==
  \/ Relate(c) \/ Contains(c) \/ Erase(c) \/ PutProps(c) \/ Document(c)
  \/ ScanIncoming(c) \/ GetProps(c) \/ FollowHop(c) \/ NextHop(c) \/ Finish(c)

Reading(c) == pc[c] # "idle" /\ stmt[c].op \in Reads

\* The history of the reads that are running.
Observe ==
  /\ stable' = [c \in Conns |-> IF Reading(c) THEN stable[c] \cap Existing' ELSE stable[c]]
  /\ ever' = [c \in Conns |-> IF Reading(c) THEN ever[c] \cup Recorded' ELSE ever[c]]

Next == \E c \in Conns : Begin(c) \/ (Step(c) /\ Observe)

Spec == Init /\ [][Next]_vars

-----------------------------------------------------------------------------
(* Properties *)

\* Every variable stays in its domain.
TypeOK ==
  /\ out \in [Edges -> Props \cup {NoEdge}]
  /\ in \subseteq Edges
  /\ docs \subseteq Vertices
  /\ stmt \in [Conns -> Statement \cup {NoStmt}]
  /\ loc \in [Conns -> Local]
  /\ stable \in [Conns -> SUBSET Edges]
  /\ ever \in [Conns -> SUBSET (Edges \X Props)]

\* No incoming record is without its outgoing one, whatever deletes, property
\* updates and batches are interleaved: the empty properties that scan_incoming
\* falls back on are never those of an edge at rest.
NoDanglingIncoming == \A e \in in : out[e] # NoEdge

\* No connection both deletes and updates an edge another one does.
Partitioned ==
  \A c, d \in Conns : c # d =>
    \A s \in Scenario[scenario][c], r \in Scenario[scenario][d] :
      s.op = "update" /\ r.op = "delete" => s.edge # r.edge

\* The two records of an edge are one edge: every interleaving of the library's
\* transactions is a sequence of atomic changes of a graph, as long as the
\* updates and deletes of an edge come from one connection.
Graph == INSTANCE EdgeSet WITH forward <- out, backward <- in
AtomicEdges == Graph!Init /\ [][Partitioned => Graph!Next]_<<out, in>>

\* One hop from v leads to w over a set of edges.
Leads(h, v, w, E) == IF h.dir = "out" THEN <<v, h.type, w>> \in E ELSE <<w, h.type, v>> \in E

\* f lists the vertices of a path from S whose first n hops go over E.
Along(S, hops, f, n, E) ==
  f[1] \in S /\ \A i \in 1 .. n : Leads(hops[i], f[i], f[i + 1], E)

Paths(hops) == [1 .. Len(hops) + 1 -> Vertices]

\* Where the hops lead from a vertex set over a set of edges.
Reach(S, hops, E) ==
  {f[Len(hops) + 1] : f \in {g \in Paths(hops) : Along(S, hops, g, Len(hops), E)}}

Ends(c) == {Last(p) : p \in loc[c].left}

Answered(c, op) == At(c, "idle") /\ stmt[c] # NoStmt /\ stmt[c].op = op

\* A traversal that runs beside writers finds every record it can reach over
\* edges that existed throughout ...
TraversalComplete ==
  \A c \in Conns : Answered(c, "walk") \/ Answered(c, "select") =>
    Reach(stmt[c].from, stmt[c].hops, stable[c]) \subseteq Ends(c)

\* ... and nothing it could not reach over edges that existed at some time
\* while it ran.
TraversalSound ==
  \A c \in Conns : Answered(c, "walk") \/ Answered(c, "select") =>
    Ends(c) \subseteq Reach(stmt[c].from, stmt[c].hops, {p[1] : p \in ever[c]})

\* Incoming edges are listed with properties they had while the call ran; those
\* that existed throughout are all listed, each once.
IncomingConsistent ==
  \A c \in Conns : Answered(c, "incoming") =>
    /\ \A e \in stable[c] : e[2] = stmt[c].type /\ e[3] = stmt[c].vertex
                            => \E p \in Props : <<e, p>> \in loc[c].found
    /\ \A f, g \in loc[c].found : f[1] = g[1] => f = g
    /\ \A f \in loc[c].found : f \in ever[c] \/ (f[2] = Empty /\ f[1] \notin stable[c])

\* What reads of several transactions tell beside writers lies between the edges
\* that existed throughout and those that existed at some time.
ReadsConsistent == TraversalComplete /\ TraversalSound /\ IncomingConsistent
=============================================================================
