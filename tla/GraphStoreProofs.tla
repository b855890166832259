-------------------------- MODULE GraphStoreProofs --------------------------
(***************************************************************************)
(* Theorems about GraphStore, for any number of connections, vertices,     *)
(* edge types and properties, and for every mix of statements.             *)
(***************************************************************************)
EXTENDS GraphStore, SequenceTheorems, TLAPS

Labels == {"idle", "relate", "contains", "erase", "put_props", "document",
           "scan_incoming", "get_props", "hop"}

\* What a connection executes where it stands.
ControlOK ==
  \A c \in Conns :
    /\ stmt[c] # NoStmt => stmt[c] \in Scenario[scenario][c]
    /\ stmt[c] = NoStmt => pc[c] = "idle"
    /\ pc[c] = "idle" /\ stmt[c] # NoStmt => stmt[c].op \in Reads
    /\ pc[c] = "relate" => stmt[c].op = "relate"
    /\ pc[c] = "contains" => stmt[c].op \in {"delete", "update"}
    /\ pc[c] = "erase" => stmt[c].op = "delete"
    /\ pc[c] = "put_props" => stmt[c].op = "update"
    /\ pc[c] = "document" => stmt[c].op \in {"put", "drop"}
    /\ pc[c] \in {"scan_incoming", "get_props"} => stmt[c].op = "incoming"
    /\ pc[c] = "hop" => stmt[c].op \in {"select", "walk"}

TypeInv ==
  /\ TypeOK
  /\ pc \in [Conns -> Labels]
  /\ scenario \in DOMAIN Scenario
  /\ ControlOK

\* Where updates and deletes do not cross, the outgoing records are mirrored too,
\* and the edge that update_properties found is still there when it writes.
Mirrored ==
  /\ \A e \in Edges : out[e] # NoEdge => e \in in
  /\ \A c \in Conns : pc[c] = "put_props" => out[stmt[c].edge] # NoEdge

\* The inductive invariant for the records.
RecordInv == TypeInv /\ NoDanglingIncoming /\ (Partitioned => Mirrored)

\* The history of a read that runs encloses the present edges.
HistoryOK ==
  \A c \in Conns : Reading(c) => stable[c] \subseteq Existing /\ Recorded \subseteq ever[c]

Traverses(c) == stmt[c] # NoStmt /\ stmt[c].op \in {"select", "walk"}

Seen(c) == {r[1] : r \in ever[c]}

\* In the middle of a hop, a path over edges that existed throughout ends where a
\* scan is still to be made, or its next vertex is already found.
CompleteSoFar(s, l, E) ==
  \A f \in Paths(s.hops) : Along(s.from, s.hops, f, l.hop, E) =>
    \/ \E p \in l.left : Last(p) = f[l.hop + 1]
    \/ /\ l.hop < Len(s.hops)
       /\ Leads(s.hops[l.hop + 1], f[l.hop + 1], f[l.hop + 2], E)
          => \E p \in l.next : Last(p) = f[l.hop + 2]

\* The ends of ps are those of paths of n hops over edges that existed at some time.
SoundSoFar(s, ps, n, E) ==
  \A p \in ps : \E f \in Paths(s.hops) :
    /\ n <= Len(s.hops)
    /\ Along(s.from, s.hops, f, n, E)
    /\ Last(p) = f[n + 1]

\* The state of one traversal.
TraversalAt(c) ==
  /\ loc[c].hop <= Len(stmt[c].hops)
  /\ pc[c] = "idle" => loc[c].hop = Len(stmt[c].hops)
  /\ CompleteSoFar(stmt[c], loc[c], stable[c])
  /\ SoundSoFar(stmt[c], loc[c].left, loc[c].hop, Seen(c))
  /\ pc[c] = "hop" => SoundSoFar(stmt[c], loc[c].next, loc[c].hop + 1, Seen(c))

TraversalOK == \A c \in Conns : Traverses(c) => TraversalAt(c)

Incoming(c) == stmt[c] # NoStmt /\ stmt[c].op = "incoming"

\* The state of one listing: edges that are scanned, and those whose properties are read.
IncomingAt(c) ==
  /\ pc[c] = "idle" => loc[c].todo = {}
  /\ pc[c] # "scan_incoming" =>
       \A e \in stable[c] : e[2] = stmt[c].type /\ e[3] = stmt[c].vertex
         => e \in loc[c].todo \/ \E p \in Props : <<e, p>> \in loc[c].found
  /\ \A f \in loc[c].found : f[1] \notin loc[c].todo
  /\ \A f, g \in loc[c].found : f[1] = g[1] => f = g
  /\ \A f \in loc[c].found : f \in ever[c] \/ (f[2] = Empty /\ f[1] \notin stable[c])

IncomingOK == \A c \in Conns : Incoming(c) => IncomingAt(c)

\* The inductive invariant for the reads.
ReadInv == RecordInv /\ HistoryOK /\ TraversalOK /\ IncomingOK

-----------------------------------------------------------------------------
(* Types and control *)

\* The fields of a statement, by its operation.
LEMMA StatementShape ==
  ASSUME NEW s \in Statement
  PROVE  /\ s.op \in {"relate", "delete", "update", "incoming", "select", "walk", "put", "drop"}
         /\ s.op = "relate" => s.edges \subseteq Edges /\ s.props \in Props
         /\ s.op = "delete" => s.edge \in Edges
         /\ s.op = "update" => s.edge \in Edges /\ s.props \in Props
         /\ s.op = "incoming" => s.vertex \in Vertices /\ s.type \in Types
         /\ s.op \in {"select", "walk"} => s.from \subseteq Vertices /\ s.hops \in Seq(Hop)
         /\ s.op \in {"put", "drop"} => s.vertex \in Vertices
BY DEF Statement

\* What a connection may send is a statement, and none is NoStmt.
LEMMA SentStatement ==
  ASSUME scenario \in DOMAIN Scenario, NEW c \in Conns, NEW s \in Scenario[scenario][c]
  PROVE  s \in Statement /\ s # NoStmt
BY GraphAssumption

LEMMA RunningStatement ==
  ASSUME TypeInv, NEW c \in Conns, pc[c] # "idle" \/ stmt[c] # NoStmt
  PROVE  stmt[c] \in Statement /\ stmt[c] # NoStmt
BY SentStatement DEF TypeInv, ControlOK

LEMMA FreshType == Fresh \in Local
<1>1. {} \in SUBSET Seq(Vertices) /\ {} \in SUBSET Edges /\ {} \in SUBSET (Edges \X Props)
  OBVIOUS
<1> QED
  BY <1>1 DEF Fresh, Local

LEMMA GotoEffect ==
  ASSUME TypeInv, NEW c \in Conns, NEW label \in Labels, NEW l \in Local, Goto(c, label, l)
  PROVE  /\ pc' \in [Conns -> Labels] /\ loc' \in [Conns -> Local]
         /\ pc'[c] = label /\ loc'[c] = l
         /\ \A d \in Conns : d # c => pc'[d] = pc[d] /\ loc'[d] = loc[d]
         /\ stmt' = stmt /\ scenario' = scenario
BY DEF TypeInv, TypeOK, Goto

LEMMA DoneEffect ==
  ASSUME TypeInv, NEW c \in Conns, Done(c)
  PROVE  /\ pc' \in [Conns -> Labels] /\ loc' \in [Conns -> Local]
         /\ stmt' \in [Conns -> Statement \cup {NoStmt}]
         /\ pc'[c] = "idle" /\ loc'[c] = Fresh /\ stmt'[c] = NoStmt
         /\ \A d \in Conns : d # c => pc'[d] = pc[d] /\ loc'[d] = loc[d] /\ stmt'[d] = stmt[d]
         /\ scenario' = scenario
BY SMTT(30), FreshType DEF TypeInv, TypeOK, Done, Labels

\* The records a step leaves are records, whoever takes it.
LEMMA StoreTypes ==
  ASSUME TypeInv, NEW c \in Conns, Begin(c) \/ Step(c)
  PROVE  /\ out' \in [Edges -> Props \cup {NoEdge}]
         /\ in' \subseteq Edges
         /\ docs' \subseteq Vertices
<1>1. CASE UNCHANGED store
  BY <1>1 DEF store, TypeInv, TypeOK
<1>2. CASE Relate(c)
  <2>1. stmt[c].edges \subseteq Edges /\ stmt[c].props \in Props
    BY <1>2, RunningStatement, StatementShape DEF Relate, At, TypeInv, ControlOK
  <2> QED
    BY <1>2, <2>1 DEF Relate, TypeInv, TypeOK
<1>3. CASE Erase(c)
  BY <1>3 DEF Erase, TypeInv, TypeOK
<1>4. CASE PutProps(c)
  <2>1. stmt[c].edge \in Edges /\ stmt[c].props \in Props
    BY <1>4, RunningStatement, StatementShape DEF PutProps, At, TypeInv, ControlOK
  <2> QED
    BY <1>4, <2>1 DEF PutProps, TypeInv, TypeOK
<1>5. CASE Document(c)
  <2>1. stmt[c].vertex \in Vertices
    BY <1>5, RunningStatement, StatementShape DEF Document, At, TypeInv, ControlOK
  <2> QED
    BY <1>5, <2>1 DEF Document, TypeInv, TypeOK
<1> QED
  BY <1>1, <1>2, <1>3, <1>4, <1>5
     DEF Begin, Step, Contains, ScanIncoming, GetProps, FollowHop, NextHop, Finish

\* The locals each step of a read leaves.
LEMMA ScanLocal ==
  ASSUME TypeInv, NEW c \in Conns, ScanIncoming(c)
  PROVE  \E l \in Local :
           /\ Goto(c, "get_props", l)
           /\ l.todo = {e \in in : e[2] = stmt[c].type /\ e[3] = stmt[c].vertex}
           /\ l.found = {}
<1> DEFINE l == [Fresh EXCEPT !.todo = {e \in in : e[2] = stmt[c].type /\ e[3] = stmt[c].vertex}]
<1>1. l \in Local /\ l.todo = {e \in in : e[2] = stmt[c].type /\ e[3] = stmt[c].vertex}
      /\ l.found = {}
  BY FreshType DEF Local, Fresh, TypeInv, TypeOK
<1>2. Goto(c, "get_props", l)
  BY DEF ScanIncoming
<1> QED
  BY <1>1, <1>2

LEMMA GetLocal ==
  ASSUME TypeInv, NEW c \in Conns, GetProps(c)
  PROVE  \/ loc[c].todo = {} /\ Goto(c, "idle", loc[c])
         \/ \E e \in loc[c].todo, q \in Props, l \in Local :
              /\ Goto(c, "get_props", l)
              /\ q = IF out[e] = NoEdge THEN Empty ELSE out[e]
              /\ l.todo = loc[c].todo \ {e}
              /\ l.found = loc[c].found \cup {<<e, q>>}
<1>1. loc[c] \in Local
  BY DEF TypeInv, TypeOK
<1>2. CASE loc[c].todo = {}
  BY <1>2 DEF GetProps, Return
<1>3. CASE loc[c].todo # {}
  <2>1. PICK e \in loc[c].todo :
          Goto(c, "get_props",
               [loc[c] EXCEPT !.todo = @ \ {e},
                              !.found = @ \cup {<<e, IF out[e] = NoEdge THEN Empty ELSE out[e]>>}])
    BY <1>3 DEF GetProps
  <2> DEFINE q == IF out[e] = NoEdge THEN Empty ELSE out[e]
             l == [loc[c] EXCEPT !.todo = @ \ {e}, !.found = @ \cup {<<e, q>>}]
  <2>2. e \in Edges
    BY <1>1 DEF Local
  <2>3. q \in Props
    BY <2>2, GraphAssumption DEF TypeInv, TypeOK
  <2>4. Goto(c, "get_props", l)
    BY <2>1
  <2> HIDE DEF q
  <2>5. loc[c].todo \ {e} \subseteq Edges /\ loc[c].found \cup {<<e, q>>} \subseteq Edges \X Props
    BY <1>1, <2>2, <2>3 DEF Local
  <2>6. l \in Local
    BY <1>1, <2>5 DEF Local
  <2>7. l.todo = loc[c].todo \ {e} /\ l.found = loc[c].found \cup {<<e, q>>}
    BY <1>1 DEF Local
  <2> HIDE DEF l
  <2> QED
    BY <2>3, <2>4, <2>6, <2>7 DEF q
<1> QED
  BY <1>2, <1>3

LEMMA FollowLocal ==
  ASSUME TypeInv, NEW c \in Conns, FollowHop(c)
  PROVE  \E p \in loc[c].left, l \in Local :
           /\ Goto(c, "hop", l)
           /\ l.hop = loc[c].hop
           /\ l.left = loc[c].left \ {p}
           /\ l.next = loc[c].next \cup
                {Extended(c, p, v) : v \in Neighbors(Last(p), stmt[c].hops[loc[c].hop + 1])}
<1>1. loc[c] \in Local
  BY DEF TypeInv, TypeOK
<1> DEFINE new(p) == {Extended(c, p, v) : v \in Neighbors(Last(p), stmt[c].hops[loc[c].hop + 1])}
<1>2. PICK p \in loc[c].left :
        Goto(c, "hop", [loc[c] EXCEPT !.left = @ \ {p}, !.next = @ \cup new(p)])
  BY DEF FollowHop
<1> DEFINE l == [loc[c] EXCEPT !.left = @ \ {p}, !.next = @ \cup new(p)]
<1>3. p \in Seq(Vertices)
  BY <1>1 DEF Local
<1>4. new(p) \subseteq Seq(Vertices)
  <2> SUFFICES ASSUME NEW v \in Vertices PROVE Extended(c, p, v) \in Seq(Vertices)
    BY DEF Neighbors
  <2> QED
    BY <1>3 DEF Extended
<1>5. Goto(c, "hop", l)
  BY <1>2
<1> HIDE DEF new
<1>6. /\ l \in Local /\ l.hop = loc[c].hop /\ l.left = loc[c].left \ {p}
      /\ l.next = loc[c].next \cup new(p)
  BY <1>1, <1>4 DEF Local
<1> HIDE DEF l
<1> QED
  BY <1>5, <1>6 DEF new

LEMMA NextLocal ==
  ASSUME TypeInv, NEW c \in Conns, NextHop(c)
  PROVE  \E l \in Local : /\ Goto(c, "hop", l)
                          /\ l.hop = loc[c].hop + 1
                          /\ l.left = loc[c].next
                          /\ l.next = {}
<1>1. loc[c] \in Local
  BY DEF TypeInv, TypeOK
<1> DEFINE l == [loc[c] EXCEPT !.hop = @ + 1, !.left = loc[c].next, !.next = {}]
<1>2. Goto(c, "hop", l)
  BY DEF NextHop
<1>3. loc[c].hop + 1 \in Nat /\ loc[c].next \subseteq Seq(Vertices) /\ {} \subseteq Seq(Vertices)
  BY <1>1 DEF Local
<1>4. l \in Local
  BY <1>1, <1>3 DEF Local
<1>5. l.hop = loc[c].hop + 1 /\ l.left = loc[c].next /\ l.next = {}
  BY <1>1 DEF Local
<1> HIDE DEF l
<1> QED
  BY <1>2, <1>4, <1>5

LEMMA FinishLocal ==
  ASSUME TypeInv, NEW c \in Conns, Finish(c)
  PROVE  \E l \in Local : Goto(c, "idle", l) /\ l.hop = loc[c].hop /\ l.left = loc[c].left
<1>1. loc[c] \in Local
  BY DEF TypeInv, TypeOK
<1> DEFINE kept == IF stmt[c].op = "walk" THEN loc[c].left
                   ELSE {p \in loc[c].left : Last(p) \in docs}
           l == [loc[c] EXCEPT !.next = kept]
<1>2. Goto(c, "idle", l)
  BY DEF Finish, Return
<1>3. kept \subseteq loc[c].left
  OBVIOUS
<1> HIDE DEF kept
<1>4. l \in Local /\ l.hop = loc[c].hop /\ l.left = loc[c].left
  BY <1>1, <1>3 DEF Local
<1> HIDE DEF l
<1> QED
  BY <1>2, <1>4

\* The locals of a statement that begins.
LEMMA BeginLocal ==
  ASSUME TypeInv, NEW c \in Conns, Begin(c)
  PROVE  \E s \in Scenario[scenario][c], l \in Local :
           /\ stmt' = [stmt EXCEPT ![c] = s]
           /\ pc' = [pc EXCEPT ![c] = Start(s.op)]
           /\ loc' = [loc EXCEPT ![c] = l]
           /\ stable' = [stable EXCEPT ![c] = IF s.op \in Reads THEN Existing ELSE {}]
           /\ ever' = [ever EXCEPT ![c] = IF s.op \in Reads THEN Recorded ELSE {}]
           /\ l.hop = 0 /\ l.next = {} /\ l.todo = {} /\ l.found = {}
           /\ s.op \in {"select", "walk"} => l.left = {<<v>> : v \in s.from}
<1>1. PICK s \in Scenario[scenario][c] :
        /\ stmt' = [stmt EXCEPT ![c] = s]
        /\ pc' = [pc EXCEPT ![c] = Start(s.op)]
        /\ loc' = [loc EXCEPT ![c] = [Fresh EXCEPT
                     !.left = IF s.op \in {"select", "walk"} THEN {<<v>> : v \in s.from} ELSE {}]]
        /\ stable' = [stable EXCEPT ![c] = IF s.op \in Reads THEN Existing ELSE {}]
        /\ ever' = [ever EXCEPT ![c] = IF s.op \in Reads THEN Recorded ELSE {}]
  BY DEF Begin
<1> DEFINE first == IF s.op \in {"select", "walk"} THEN {<<v>> : v \in s.from} ELSE {}
           l == [Fresh EXCEPT !.left = first]
<1>2. s \in Statement
  BY SentStatement DEF TypeInv
<1>3. first \subseteq Seq(Vertices)
  <2>1. s.op \in {"select", "walk"} => s.from \subseteq Vertices
    BY <1>2, StatementShape
  <2>2. \A v \in Vertices : <<v>> \in Seq(Vertices)
    OBVIOUS
  <2>3. CASE s.op \in {"select", "walk"}
    BY <2>1, <2>2, <2>3, Zenon
  <2>4. CASE s.op \notin {"select", "walk"}
    BY <2>4
  <2> QED
    BY <2>3, <2>4
<1>4. loc' = [loc EXCEPT ![c] = l]
  BY <1>1
<1>5. s.op \in {"select", "walk"} => first = {<<v>> : v \in s.from}
  OBVIOUS
<1> HIDE DEF first
<1>6. l \in Local
  BY <1>3, FreshType DEF Local
<1>7. l.hop = 0 /\ l.next = {} /\ l.todo = {} /\ l.found = {} /\ l.left = first
  BY DEF Fresh
<1> HIDE DEF l
<1> QED
  BY <1>1, <1>4, <1>5, <1>6, <1>7

\* Where a statement starts.
LEMMA StartLabel ==
  ASSUME NEW s \in Statement
  PROVE  /\ Start(s.op) \in Labels \ {"idle", "erase", "put_props", "get_props"}
         /\ Start(s.op) = "relate" => s.op = "relate"
         /\ Start(s.op) = "contains" => s.op \in {"delete", "update"}
         /\ Start(s.op) = "document" => s.op \in {"put", "drop"}
         /\ Start(s.op) = "scan_incoming" <=> s.op = "incoming"
         /\ Start(s.op) = "hop" <=> s.op \in {"select", "walk"}
<1>1. s.op \in {"relate", "delete", "update", "incoming", "select", "walk", "put", "drop"}
  BY StatementShape
<1> QED
  BY <1>1 DEF Start, Labels

\* A step is the step of one connection; the others stand where they stood.
Solo(c) ==
  /\ pc' \in [Conns -> Labels] /\ loc' \in [Conns -> Local]
  /\ stmt' \in [Conns -> Statement \cup {NoStmt}]
  /\ \A d \in Conns : d # c => pc'[d] = pc[d] /\ loc'[d] = loc[d] /\ stmt'[d] = stmt[d]
  /\ scenario' = scenario

\* What the connection that steps leaves of its own control.
Leaves(c) ==
  \/ Begin(c) /\ \E s \in Scenario[scenario][c] : stmt'[c] = s /\ pc'[c] = Start(s.op)
  \/ Done(c) /\ stmt'[c] = NoStmt /\ pc'[c] = "idle"
  \/ /\ stmt'[c] = stmt[c]
     /\ <<pc[c], pc'[c]>> \in
          {<<"scan_incoming", "get_props">>, <<"get_props", "get_props">>, <<"get_props", "idle">>,
           <<"hop", "hop">>, <<"hop", "idle">>}
  \/ /\ stmt'[c] = stmt[c]
     /\ pc[c] = "contains"
     /\ pc'[c] = IF stmt[c].op = "delete" THEN "erase" ELSE "put_props"

LEMMA Control ==
  ASSUME TypeInv, NEW c \in Conns, Begin(c) \/ Step(c)
  PROVE  Solo(c) /\ Leaves(c)
<1>1. CASE Begin(c)
  <2>1. PICK s \in Scenario[scenario][c], l \in Local :
          /\ stmt' = [stmt EXCEPT ![c] = s]
          /\ pc' = [pc EXCEPT ![c] = Start(s.op)]
          /\ loc' = [loc EXCEPT ![c] = l]
    BY <1>1, BeginLocal
  <2>2. s \in Statement /\ Start(s.op) \in Labels
    BY SentStatement, StartLabel DEF TypeInv
  <2> QED
    BY ZenonT(60), <1>1, <2>1, <2>2 DEF TypeInv, TypeOK, Begin, Solo, Leaves
<1>2. CASE Done(c)
  BY <1>2, DoneEffect DEF Solo, Leaves
<1>3. ASSUME NEW label \in Labels, NEW l \in Local, Goto(c, label, l)
      PROVE  Solo(c) /\ stmt'[c] = stmt[c] /\ pc'[c] = label
  BY <1>3, GotoEffect DEF TypeInv, TypeOK, Solo
<1>4. CASE Contains(c)
  <2>1. CASE Done(c)
    BY <1>2, <2>1
  <2>2. CASE Goto(c, IF stmt[c].op = "delete" THEN "erase" ELSE "put_props", Fresh)
    BY <1>3, <1>4, <2>2, FreshType DEF Labels, Leaves, Contains, At
  <2> QED
    BY <1>4, <2>1, <2>2 DEF Contains
<1>5. CASE ScanIncoming(c)
  <2>1. PICK l \in Local : Goto(c, "get_props", l)
    BY <1>5, ScanLocal
  <2> QED
    BY <1>3, <1>5, <2>1 DEF ScanIncoming, At, Labels, Leaves
<1>6. CASE GetProps(c)
  <2>1. PICK l \in Local : Goto(c, "idle", l) \/ Goto(c, "get_props", l)
    BY <1>6, GetLocal DEF TypeInv, TypeOK
  <2> QED
    BY ZenonT(60), <1>3, <1>6, <2>1 DEF GetProps, At, Labels, Leaves
<1>7. CASE FollowHop(c) \/ NextHop(c) \/ Finish(c)
  <2>1. PICK l \in Local : Goto(c, "idle", l) \/ Goto(c, "hop", l)
    BY <1>7, FollowLocal, NextLocal, FinishLocal
  <2> QED
    BY <1>3, <1>7, <2>1 DEF FollowHop, NextHop, Finish, At, Labels, Leaves
<1> QED
  BY <1>1, <1>2, <1>4, <1>5, <1>6, <1>7 DEF Step, Relate, Erase, PutProps, Document

LEMMA ControlOKNext ==
  ASSUME TypeInv, NEW c \in Conns, Begin(c) \/ Step(c)
  PROVE  ControlOK'
<1>1. Solo(c) /\ Leaves(c)
  BY Control
<1>2. ASSUME NEW d \in Conns, d # c
      PROVE  pc'[d] = pc[d] /\ stmt'[d] = stmt[d] /\ scenario' = scenario
  BY <1>1, <1>2 DEF Solo
<1>3. CASE Begin(c) /\ \E s \in Scenario[scenario][c] : stmt'[c] = s /\ pc'[c] = Start(s.op)
  <2>1. PICK s \in Scenario[scenario][c] : stmt'[c] = s /\ pc'[c] = Start(s.op)
    BY <1>3
  <2>2. s \in Statement /\ s # NoStmt
    BY SentStatement DEF TypeInv
  <2> QED
    BY <1>1, <1>2, <2>1, <2>2, StartLabel DEF TypeInv, ControlOK, Solo
<1>4. CASE Done(c) /\ stmt'[c] = NoStmt /\ pc'[c] = "idle"
  BY <1>1, <1>2, <1>4 DEF TypeInv, ControlOK, Solo
<1>5. CASE /\ stmt'[c] = stmt[c]
           /\ <<pc[c], pc'[c]>> \in
                {<<"scan_incoming", "get_props">>, <<"get_props", "get_props">>,
                 <<"get_props", "idle">>, <<"hop", "hop">>, <<"hop", "idle">>}
  BY <1>1, <1>2, <1>5 DEF TypeInv, ControlOK, Solo, Reads
<1>6. CASE /\ stmt'[c] = stmt[c]
           /\ pc[c] = "contains"
           /\ pc'[c] = IF stmt[c].op = "delete" THEN "erase" ELSE "put_props"
  BY <1>1, <1>2, <1>6 DEF TypeInv, ControlOK, Solo
<1> QED
  BY <1>1, <1>3, <1>4, <1>5, <1>6 DEF Leaves

LEMMA HistoryTypes ==
  ASSUME TypeInv, NEW c \in Conns, Begin(c) \/ (Step(c) /\ Observe)
  PROVE  stable' \in [Conns -> SUBSET Edges] /\ ever' \in [Conns -> SUBSET (Edges \X Props)]
<1>1. Existing \subseteq Edges /\ Existing' \subseteq Edges
  BY DEF Existing
<1>2. Recorded \subseteq Edges \X Props
  BY DEF Recorded, TypeInv, TypeOK
<1>3. Recorded' \subseteq Edges \X Props
  BY StoreTypes DEF Recorded
<1>4. CASE Begin(c)
  BY <1>1, <1>2, <1>4 DEF Begin, TypeInv, TypeOK
<1>5. CASE Observe
  <2>1. stable' \in [Conns -> SUBSET Edges]
    BY <1>5 DEF Observe, TypeInv, TypeOK
  <2>2. ever' \in [Conns -> SUBSET (Edges \X Props)]
    BY <1>3, <1>5 DEF Observe, TypeInv, TypeOK
  <2> QED
    BY <2>1, <2>2
<1> QED
  BY <1>4, <1>5

LEMMA TypeInvInit == Init => TypeInv
<1> SUFFICES ASSUME Init PROVE TypeInv
  OBVIOUS
<1>1. TypeOK
  BY FreshType DEF Init, TypeOK
<1>2. pc \in [Conns -> Labels] /\ scenario \in DOMAIN Scenario
  BY DEF Init, Labels
<1>3. ControlOK
  BY DEF Init, ControlOK
<1> QED
  BY <1>1, <1>2, <1>3 DEF TypeInv

LEMMA TypeInvNext == TypeInv /\ [Next]_vars => TypeInv'
<1> SUFFICES ASSUME TypeInv, [Next]_vars PROVE TypeInv'
  OBVIOUS
<1>1. CASE UNCHANGED vars
  BY <1>1 DEF vars, store, TypeInv, TypeOK, ControlOK
<1>2. ASSUME NEW c \in Conns, Begin(c) \/ (Step(c) /\ Observe) PROVE TypeInv'
  <2>1. Begin(c) \/ Step(c)
    BY <1>2
  <2>2. Solo(c)
    BY <2>1, Control
  <2>3. TypeOK'
    BY <1>2, <2>1, <2>2, StoreTypes, HistoryTypes DEF TypeOK, Solo
  <2>4. ControlOK'
    BY <2>1, ControlOKNext
  <2> QED
    BY <2>2, <2>3, <2>4 DEF TypeInv, Solo
<1> QED
  BY <1>1, <1>2 DEF Next

\* Whatever writes, traversals and history updates are interleaved, every
\* variable stays in its domain; in particular a traversal follows only vertices
\* and scan_incoming lists only properties, never a missing record.
THEOREM TypeCorrect == Spec => []TypeOK
<1>1. TypeInv => TypeOK
  BY SMTT(30) DEF TypeInv
<1> QED
  BY <1>1, TypeInvInit, TypeInvNext, PTL DEF Spec

-----------------------------------------------------------------------------
(* The two records of an edge *)

\* A step that changes records is one of three.
LEMMA WritingSteps ==
  ASSUME TypeInv, NEW c \in Conns, Begin(c) \/ Step(c)
  PROVE  \/ out' = out /\ in' = in
         \/ /\ Relate(c) /\ stmt[c].edges \subseteq Edges /\ stmt[c].props \in Props
         \/ /\ Erase(c) /\ stmt[c].op = "delete" /\ stmt[c].edge \in Edges
         \/ /\ PutProps(c) /\ stmt[c].op = "update" /\ stmt[c].edge \in Edges
            /\ stmt[c].props \in Props
<1>1. CASE Relate(c)
  BY <1>1, RunningStatement, StatementShape DEF Relate, At, TypeInv, ControlOK
<1>2. CASE Erase(c)
  BY <1>2, RunningStatement, StatementShape DEF Erase, At, TypeInv, ControlOK
<1>3. CASE PutProps(c)
  BY <1>3, RunningStatement, StatementShape DEF PutProps, At, TypeInv, ControlOK
<1> QED
  BY <1>1, <1>2, <1>3
     DEF Begin, Step, Contains, Document, ScanIncoming, GetProps, FollowHop, NextHop, Finish, store

LEMMA DanglingNext ==
  ASSUME TypeInv, NoDanglingIncoming, NEW c \in Conns, Begin(c) \/ Step(c)
  PROVE  NoDanglingIncoming'
<1>1. out \in [Edges -> Props \cup {NoEdge}] /\ in \subseteq Edges /\ NoEdge \notin Props
  BY GraphAssumption DEF TypeInv, TypeOK
<1>2. CASE out' = out /\ in' = in
  BY <1>2 DEF NoDanglingIncoming
<1>3. CASE Relate(c) /\ stmt[c].edges \subseteq Edges /\ stmt[c].props \in Props
  BY <1>1, <1>3 DEF NoDanglingIncoming, Relate
<1>4. CASE Erase(c) /\ stmt[c].edge \in Edges
  BY <1>1, <1>4 DEF NoDanglingIncoming, Erase
<1>5. CASE PutProps(c) /\ stmt[c].edge \in Edges /\ stmt[c].props \in Props
  BY <1>1, <1>5 DEF NoDanglingIncoming, PutProps
<1> QED
  BY <1>2, <1>3, <1>4, <1>5, WritingSteps

\* An edge under update is not the edge another connection deletes.
LEMMA UpdatesKeepOff ==
  ASSUME TypeInv, Partitioned, NEW c \in Conns, NEW d \in Conns, c # d,
         pc[c] = "put_props", pc[d] = "erase"
  PROVE  stmt[c].edge # stmt[d].edge
BY DEF TypeInv, ControlOK, Partitioned

LEMMA MirroredNext ==
  ASSUME TypeInv, Partitioned, Mirrored, NEW c \in Conns, Begin(c) \/ Step(c)
  PROVE  Mirrored'
<1>1. out \in [Edges -> Props \cup {NoEdge}] /\ in \subseteq Edges /\ NoEdge \notin Props
  BY GraphAssumption DEF TypeInv, TypeOK
<1>2. \A e \in Edges : out'[e] # NoEdge => e \in in'
  <2>1. CASE Relate(c)
    BY <1>1, <2>1 DEF Mirrored, Relate
  <2>2. CASE Erase(c)
    BY <1>1, <2>2 DEF Mirrored, Erase
  <2>3. CASE PutProps(c) /\ stmt[c].edge \in Edges
    <3>1. out[stmt[c].edge] # NoEdge /\ stmt[c].edge \in in
      BY <2>3 DEF Mirrored, PutProps, At
    <3> QED
      BY <1>1, <2>3, <3>1 DEF Mirrored, PutProps
  <2> QED
    BY <2>1, <2>2, <2>3, WritingSteps DEF Mirrored
<1>3. ASSUME NEW d \in Conns, pc'[d] = "put_props" PROVE out'[stmt'[d].edge] # NoEdge
  <2>1. CASE d = c
    <3>1. pc[c] = "contains" /\ stmt'[c] = stmt[c]
      <4>1. Leaves(c)
        BY Control
      <4>2. ~(Begin(c) /\ \E s \in Scenario[scenario][c] : stmt'[c] = s /\ pc'[c] = Start(s.op))
        BY <1>3, <2>1, SentStatement, StartLabel DEF TypeInv
      <4> QED
        BY <1>3, <2>1, <4>1, <4>2 DEF Leaves
    <3>2. Contains(c)
      BY <3>1 DEF Begin, Step, Relate, Contains, Erase, PutProps, Document, ScanIncoming,
                  GetProps, FollowHop, NextHop, Finish, At
    <3>3. out[stmt[c].edge] # NoEdge /\ out' = out
      <4>1. CASE Done(c)
        BY <1>3, <2>1, <4>1, DoneEffect
      <4> QED
        BY <3>2, <4>1 DEF Contains, store
    <3> QED
      BY <2>1, <3>1, <3>3
  <2>2. CASE d # c
    <3>1. pc[d] = "put_props" /\ stmt'[d] = stmt[d]
      BY <1>3, <2>2, Control DEF Solo
    <3>2. out[stmt[d].edge] # NoEdge /\ stmt[d].edge \in Edges
      BY <3>1, RunningStatement, StatementShape DEF Mirrored, TypeInv, ControlOK
    <3>3. CASE Relate(c) /\ stmt[c].props \in Props
      BY <1>1, <3>1, <3>2, <3>3 DEF Relate
    <3>4. CASE Erase(c)
      <4>1. stmt[d].edge # stmt[c].edge
        BY <2>2, <3>1, <3>4, UpdatesKeepOff DEF Erase, At
      <4> QED
        BY <1>1, <3>1, <3>2, <3>4, <4>1 DEF Erase
    <3>5. CASE PutProps(c) /\ stmt[c].props \in Props
      BY <1>1, <3>1, <3>2, <3>5 DEF PutProps
    <3> QED
      BY <3>1, <3>2, <3>3, <3>4, <3>5, WritingSteps
  <2> QED
    BY <2>1, <2>2
<1> QED
  BY <1>2, <1>3 DEF Mirrored

LEMMA RecordInvInit == Init => RecordInv
<1> SUFFICES ASSUME Init PROVE RecordInv
  OBVIOUS
<1>1. TypeInv
  BY TypeInvInit
<1>2. NoDanglingIncoming /\ Mirrored
  BY DEF Init, NoDanglingIncoming, Mirrored
<1> QED
  BY <1>1, <1>2 DEF RecordInv

LEMMA RecordInvNext == RecordInv /\ [Next]_vars => RecordInv'
<1> SUFFICES ASSUME RecordInv, [Next]_vars PROVE RecordInv'
  OBVIOUS
<1>1. TypeInv'
  BY TypeInvNext DEF RecordInv
<1>2. CASE UNCHANGED vars
  BY <1>1, <1>2 DEF RecordInv, vars, store, NoDanglingIncoming, Partitioned, Mirrored
<1>3. ASSUME NEW c \in Conns, Begin(c) \/ Step(c) PROVE RecordInv'
  <2>1. NoDanglingIncoming'
    BY <1>3, DanglingNext DEF RecordInv
  <2>2. Partitioned' => Partitioned
    BY <1>3, Control DEF RecordInv, Solo, Partitioned
  <2>3. Partitioned => Mirrored'
    BY <1>3, MirroredNext DEF RecordInv
  <2> QED
    BY <1>1, <2>1, <2>2, <2>3 DEF RecordInv
<1> QED
  BY <1>2, <1>3 DEF Next

LEMMA RecordInvAlways == Spec => []RecordInv
BY RecordInvInit, RecordInvNext, PTL DEF Spec

\* No incoming record is ever without its outgoing one, although delete,
\* update_properties and RELATE check and write in separate transactions.
THEOREM IncomingNeverDangles == Spec => []NoDanglingIncoming
<1>1. RecordInv => NoDanglingIncoming
  BY DEF RecordInv
<1> QED
  BY <1>1, RecordInvAlways, PTL

\* One step of the records is one atomic change of the graph, or none.
LEMMA AtomicStep ==
  ASSUME RecordInv, Partitioned, NEW c \in Conns, Begin(c) \/ Step(c)
  PROVE  Graph!Next \/ UNCHANGED <<out, in>>
<1>1. /\ out \in [Edges -> Props \cup {NoEdge}] /\ in \subseteq Edges /\ NoEdge \notin Props
      /\ TypeInv /\ Mirrored
  BY GraphAssumption DEF RecordInv, TypeInv, TypeOK
<1>2. CASE Relate(c) /\ stmt[c].edges \subseteq Edges /\ stmt[c].props \in Props
  BY <1>1, <1>2 DEF Relate, Graph!Next, Graph!Relate
<1>3. CASE Erase(c) /\ stmt[c].edge \in Edges
  <2>1. CASE stmt[c].edge \in in
    BY <1>3, <2>1 DEF Erase, Graph!Next, Graph!Delete
  <2>2. CASE stmt[c].edge \notin in
    <3>1. out[stmt[c].edge] = NoEdge
      BY <1>1, <1>3, <2>2 DEF Mirrored
    <3> QED
      BY <1>1, <1>3, <2>2, <3>1 DEF Erase
  <2> QED
    BY <2>1, <2>2
<1>4. CASE PutProps(c) /\ stmt[c].edge \in Edges /\ stmt[c].props \in Props
  <2>1. stmt[c].edge \in in
    BY <1>1, <1>4 DEF Mirrored, PutProps, At
  <2> QED
    BY <1>4, <2>1 DEF PutProps, Graph!Next, Graph!Replace
<1> QED
  BY <1>1, <1>2, <1>3, <1>4, WritingSteps

\* The two records of an edge are one edge: the transactions of RELATE, delete
\* and update_properties, interleaved in any way in which the updates and the
\* deletes of an edge come from one connection, implement the atomic edge set.
THEOREM EdgesAreAtomic == Spec => AtomicEdges
<1>1. Init => Graph!Init
  BY DEF Init, Graph!Init
<1>2. RecordInv /\ [Next]_vars => [Partitioned => Graph!Next]_<<out, in>>
  <2> SUFFICES ASSUME RecordInv, [Next]_vars, Partitioned
               PROVE  Graph!Next \/ UNCHANGED <<out, in>>
    OBVIOUS
  <2>1. CASE UNCHANGED vars
    BY <2>1 DEF vars, store
  <2> QED
    BY <2>1, AtomicStep DEF Next
<1> QED
  BY <1>1, <1>2, RecordInvAlways, PTL DEF Spec, AtomicEdges

-----------------------------------------------------------------------------
(* What the history of a read tells *)

\* Beside a running read, what existed throughout only shrinks and what existed at
\* some time only grows; both enclose the present edges.
Observed(d) ==
  /\ stable'[d] \subseteq stable[d] /\ ever[d] \subseteq ever'[d]
  /\ Reading(d) => stable'[d] \subseteq Existing' /\ Recorded' \subseteq ever'[d]

LEMMA StepObserves ==
  ASSUME TypeInv, Observe, NEW d \in Conns
  PROVE  Observed(d)
BY DEF TypeInv, TypeOK, Observe, Observed

\* A read that runs was running before, unless it just began.
LEMMA StillReading ==
  ASSUME TypeInv, NEW c \in Conns, Step(c), NEW d \in Conns, Reading(d)'
  PROVE  Reading(d)
<1>1. Solo(c) /\ Leaves(c)
  BY Control
<1>2. CASE d # c
  BY <1>1, <1>2 DEF Solo, Reading
<1>3. CASE d = c
  <2>1. pc[c] # "idle"
    BY DEF Step, Relate, Contains, Erase, PutProps, Document, ScanIncoming, GetProps, FollowHop,
           NextHop, Finish, At
  <2>2. ~Begin(c)
    BY <2>1 DEF Begin, At
  <2>3. stmt'[c] = stmt[c]
    BY <1>1, <1>3, <2>2 DEF Leaves, Reading
  <2> QED
    BY SMTT(30), <1>3, <2>1, <2>3 DEF Reading
<1> QED
  BY <1>2, <1>3

LEMMA BeginOthers ==
  ASSUME TypeInv, NEW c \in Conns, Begin(c), NEW d \in Conns, d # c
  PROVE  stable'[d] = stable[d] /\ ever'[d] = ever[d]
BY DEF Begin, TypeInv, TypeOK

LEMMA HistoryOKNext ==
  ASSUME TypeInv, HistoryOK, NEW c \in Conns, Begin(c) \/ (Step(c) /\ Observe)
  PROVE  HistoryOK'
<1> SUFFICES ASSUME NEW d \in Conns, Reading(d)'
             PROVE  stable'[d] \subseteq Existing' /\ Recorded' \subseteq ever'[d]
  BY DEF HistoryOK
<1>1. CASE Step(c) /\ Observe
  BY <1>1, StillReading, StepObserves DEF Observed
<1>2. CASE Begin(c)
  <2>1. Existing' = Existing /\ Recorded' = Recorded
    BY <1>2 DEF Begin, store, Existing, Recorded
  <2>2. CASE d = c
    <3>1. PICK s \in Scenario[scenario][c] :
            /\ stmt' = [stmt EXCEPT ![c] = s]
            /\ stable' = [stable EXCEPT ![c] = IF s.op \in Reads THEN Existing ELSE {}]
            /\ ever' = [ever EXCEPT ![c] = IF s.op \in Reads THEN Recorded ELSE {}]
      BY <1>2 DEF Begin
    <3>2. s.op \in Reads
      BY <2>2, <3>1 DEF Reading, TypeInv, TypeOK
    <3> QED
      BY <2>1, <2>2, <3>1, <3>2 DEF TypeInv, TypeOK
  <2>3. CASE d # c
    <3>1. Reading(d)
      BY <1>2, <2>3, Control DEF Solo, Reading
    <3> QED
      BY <1>2, <2>1, <2>3, <3>1, BeginOthers DEF HistoryOK
  <2> QED
    BY <2>2, <2>3
<1> QED
  BY <1>1, <1>2

-----------------------------------------------------------------------------
(* Traversals *)

LEMMA AlongMonotone ==
  ASSUME NEW S, NEW hops, NEW f, NEW n, NEW E, NEW F, E \subseteq F, Along(S, hops, f, n, E)
  PROVE  Along(S, hops, f, n, F)
BY DEF Along, Leads

LEMMA CompleteKept ==
  ASSUME NEW s, NEW l, NEW E, NEW F, F \subseteq E, CompleteSoFar(s, l, E)
  PROVE  CompleteSoFar(s, l, F)
<1> SUFFICES ASSUME NEW f \in Paths(s.hops), Along(s.from, s.hops, f, l.hop, F)
             PROVE  \/ \E p \in l.left : Last(p) = f[l.hop + 1]
                    \/ /\ l.hop < Len(s.hops)
                       /\ Leads(s.hops[l.hop + 1], f[l.hop + 1], f[l.hop + 2], F)
                          => \E p \in l.next : Last(p) = f[l.hop + 2]
  BY DEF CompleteSoFar
<1>1. Along(s.from, s.hops, f, l.hop, E)
  BY AlongMonotone
<1>2. Leads(s.hops[l.hop + 1], f[l.hop + 1], f[l.hop + 2], F)
      => Leads(s.hops[l.hop + 1], f[l.hop + 1], f[l.hop + 2], E)
  BY DEF Leads
<1> QED
  BY <1>1, <1>2 DEF CompleteSoFar

LEMMA SoundKept ==
  ASSUME NEW s, NEW ps, NEW n, NEW E, NEW F, E \subseteq F, SoundSoFar(s, ps, n, E)
  PROVE  SoundSoFar(s, ps, n, F)
<1> SUFFICES ASSUME NEW p \in ps
             PROVE  \E f \in Paths(s.hops) : /\ n <= Len(s.hops)
                                             /\ Along(s.from, s.hops, f, n, F)
                                             /\ Last(p) = f[n + 1]
  BY DEF SoundSoFar
<1>1. PICK f \in Paths(s.hops) : /\ n <= Len(s.hops)
                                 /\ Along(s.from, s.hops, f, n, E)
                                 /\ Last(p) = f[n + 1]
  BY DEF SoundSoFar
<1>2. Along(s.from, s.hops, f, n, F)
  BY <1>1, AlongMonotone
<1> QED
  BY <1>1, <1>2

\* A scan of the neighbours of the end of p.
LEMMA CompleteScan ==
  ASSUME NEW s, NEW l, NEW m, NEW E, NEW p,
         s.hops \in Seq(Hop), l.hop \in Nat, l.hop < Len(s.hops),
         CompleteSoFar(s, l, E),
         m.hop = l.hop, m.left = l.left \ {p}, l.next \subseteq m.next,
         \A v \in Vertices : Leads(s.hops[l.hop + 1], Last(p), v, E)
                             => \E q \in m.next : Last(q) = v
  PROVE  CompleteSoFar(s, m, E)
<1> DEFINE k == l.hop
<1> SUFFICES ASSUME NEW f \in Paths(s.hops), Along(s.from, s.hops, f, k, E)
             PROVE  \/ \E q \in m.left : Last(q) = f[k + 1]
                    \/ /\ k < Len(s.hops)
                       /\ Leads(s.hops[k + 1], f[k + 1], f[k + 2], E)
                          => \E q \in m.next : Last(q) = f[k + 2]
  BY DEF CompleteSoFar
<1>1. f[k + 2] \in Vertices
  BY DEF Paths
<1>2. CASE \E q \in l.left : Last(q) = f[k + 1]
  <2>1. PICK q \in l.left : Last(q) = f[k + 1]
    BY <1>2
  <2>2. CASE q = p
    BY <1>1, <2>1, <2>2
  <2>3. CASE q # p
    BY <2>1, <2>3
  <2> QED
    BY <2>2, <2>3
<1>3. CASE Leads(s.hops[k + 1], f[k + 1], f[k + 2], E) => \E q \in l.next : Last(q) = f[k + 2]
  BY <1>3
<1> QED
  BY <1>2, <1>3 DEF CompleteSoFar

\* The end of a hop.
LEMMA CompleteHop ==
  ASSUME NEW s, NEW l, NEW m, NEW E,
         s.hops \in Seq(Hop), l.hop \in Nat, l.hop < Len(s.hops),
         CompleteSoFar(s, l, E), l.left = {},
         m.hop = l.hop + 1, m.left = l.next
  PROVE  CompleteSoFar(s, m, E)
<1> DEFINE k == l.hop
<1> SUFFICES ASSUME NEW f \in Paths(s.hops), Along(s.from, s.hops, f, k + 1, E)
             PROVE  \E p \in l.next : Last(p) = f[(k + 1) + 1]
  BY DEF CompleteSoFar
<1>1. (k + 1) + 1 = k + 2
  OBVIOUS
<1>2. Along(s.from, s.hops, f, k, E) /\ Leads(s.hops[k + 1], f[k + 1], f[k + 2], E)
  <2>1. k + 1 \in 1 .. k + 1 /\ \A i \in 1 .. k : i \in 1 .. k + 1
    OBVIOUS
  <2> QED
    BY <1>1, <2>1 DEF Along
<1> QED
  BY <1>1, <1>2 DEF CompleteSoFar

\* Ends that are found one hop further.
LEMMA SoundScan ==
  ASSUME NEW s, NEW E, NEW k \in Nat, s.hops \in Seq(Hop), k < Len(s.hops),
         NEW p, NEW ps, p \in ps, SoundSoFar(s, ps, k, E),
         NEW v \in Vertices, Leads(s.hops[k + 1], Last(p), v, E),
         NEW q, Last(q) = v
  PROVE  SoundSoFar(s, {q}, k + 1, E)
<1>1. PICK f \in Paths(s.hops) : Along(s.from, s.hops, f, k, E) /\ Last(p) = f[k + 1]
  BY DEF SoundSoFar
<1> DEFINE g == [f EXCEPT ![k + 2] = v]
<1>2. k + 2 \in 1 .. Len(s.hops) + 1 /\ Len(s.hops) \in Nat
  OBVIOUS
<1>3. g \in Paths(s.hops)
  BY <1>1 DEF Paths
<1>4. g[k + 2] = v /\ \A i \in 1 .. k + 1 : g[i] = f[i]
  BY <1>1, <1>2 DEF Paths
<1> HIDE DEF g
<1>5. Along(s.from, s.hops, g, k + 1, E)
  <2>1. g[1] \in s.from
    BY <1>1, <1>4 DEF Along
  <2>2. ASSUME NEW i \in 1 .. k + 1 PROVE Leads(s.hops[i], g[i], g[i + 1], E)
    <3>1. CASE i = k + 1
      <4>1. g[k + 1] = Last(p) /\ i + 1 = k + 2
        BY <1>1, <1>4, <3>1
      <4> QED
        BY <1>4, <3>1, <4>1
    <3>2. CASE i # k + 1
      <4>1. i \in 1 .. k /\ i + 1 \in 1 .. k + 1
        BY <3>2
      <4> QED
        BY <1>1, <1>4, <4>1 DEF Along
    <3> QED
      BY <3>1, <3>2
  <2> QED
    BY <2>1, <2>2 DEF Along
<1>6. k + 1 <= Len(s.hops) /\ (k + 1) + 1 = k + 2
  BY <1>2
<1> QED
  BY <1>3, <1>4, <1>5, <1>6 DEF SoundSoFar

\* Where a traversal starts, every vertex is a path without hops.
LEMMA StartsRight ==
  ASSUME NEW s, NEW l, NEW E, NEW F, s.hops \in Seq(Hop), s.from \subseteq Vertices,
         l.hop = 0, l.left = {<<v>> : v \in s.from}
  PROVE  CompleteSoFar(s, l, E) /\ SoundSoFar(s, l.left, 0, F)
<1>1. \A v : Last(<<v>>) = v
  BY DEF Last
<1>2. ASSUME NEW f \in Paths(s.hops), Along(s.from, s.hops, f, 0, E)
      PROVE  \E p \in l.left : Last(p) = f[0 + 1]
  <2>1. f[1] \in s.from
    BY <1>2 DEF Along
  <2>2. <<f[1]>> \in l.left
    BY <2>1
  <2>3. Last(<<f[1]>>) = f[1] /\ 0 + 1 = 1
    BY <1>1
  <2> QED
    BY <2>2, <2>3
<1>3. ASSUME NEW p \in l.left
      PROVE  \E f \in Paths(s.hops) : /\ 0 <= Len(s.hops)
                                      /\ Along(s.from, s.hops, f, 0, F)
                                      /\ Last(p) = f[0 + 1]
  <2>1. PICK v \in s.from : p = <<v>>
    OBVIOUS
  <2> DEFINE f == [i \in 1 .. Len(s.hops) + 1 |-> v]
  <2>2. f \in Paths(s.hops)
    BY DEF Paths
  <2>3. Len(s.hops) \in Nat /\ 1 \in 1 .. Len(s.hops) + 1
    OBVIOUS
  <2>4. f[1] = v
    BY <2>3
  <2> HIDE DEF f
  <2>5. Along(s.from, s.hops, f, 0, F)
    BY <2>4 DEF Along
  <2> QED
    BY <1>1, <2>1, <2>2, <2>3, <2>4, <2>5
<1> QED
  BY <1>2, <1>3 DEF CompleteSoFar, SoundSoFar

\* What a scan returns lies between the two histories.
LEMMA ScanEnclosed ==
  ASSUME RecordInv, NEW c \in Conns, stable[c] \subseteq Existing, Recorded \subseteq ever[c],
         NEW v \in Vertices, NEW w \in Vertices, NEW h \in Hop
  PROVE  /\ Leads(h, v, w, stable[c]) => w \in Neighbors(v, h)
         /\ w \in Neighbors(v, h) => Leads(h, v, w, Seen(c))
<1>1. h.type \in Types /\ <<v, h.type, w>> \in Edges /\ <<w, h.type, v>> \in Edges
  BY DEF Hop, Edges
<1>2. Leads(h, v, w, stable[c]) => w \in Neighbors(v, h)
  BY DEF Leads, Neighbors, Existing
<1>3. ASSUME NEW e \in Edges, out[e] # NoEdge PROVE e \in Seen(c)
  <2>1. <<e, out[e]>> \in ever[c]
    BY <1>3 DEF Recorded
  <2>2. <<e, out[e]>>[1] = e
    OBVIOUS
  <2> QED
    BY <2>1, <2>2 DEF Seen
<1>4. ASSUME w \in Neighbors(v, h) PROVE Leads(h, v, w, Seen(c))
  <2>1. CASE h.dir = "out"
    BY <1>1, <1>3, <1>4, <2>1 DEF Neighbors, Leads
  <2>2. CASE h.dir # "out"
    BY <1>1, <1>3, <1>4, <2>2 DEF Neighbors, Leads, RecordInv, NoDanglingIncoming
  <2> QED
    BY <2>1, <2>2
<1> QED
  BY <1>2, <1>4

LEMMA ExtendedEnd ==
  ASSUME NEW c \in Conns, NEW p \in Seq(Vertices), NEW v \in Vertices
  PROVE  Last(Extended(c, p, v)) = v
<1>1. Last(Append(p, v)) = v /\ Last(<<v>>) = v
  BY DEF Last
<1> QED
  BY <1>1 DEF Extended

\* A traversal whose connection does not step: the histories only move apart.
LEMMA TraversalWaits ==
  ASSUME TypeInv, NEW d \in Conns, TraversalAt(d),
         pc'[d] = pc[d], loc'[d] = loc[d], stmt'[d] = stmt[d],
         stable'[d] \subseteq stable[d], ever[d] \subseteq ever'[d]
  PROVE  TraversalAt(d)'
<1>1. Seen(d) \subseteq Seen(d)'
  BY DEF Seen
<1>2. CompleteSoFar(stmt'[d], loc'[d], stable'[d])
  BY CompleteKept DEF TraversalAt
<1>3. SoundSoFar(stmt'[d], loc'[d].left, loc'[d].hop, Seen(d)')
  BY <1>1, SoundKept DEF TraversalAt
<1>4. pc'[d] = "hop" => SoundSoFar(stmt'[d], loc'[d].next, loc'[d].hop + 1, Seen(d)')
  BY <1>1, SoundKept DEF TraversalAt
<1> QED
  BY <1>2, <1>3, <1>4 DEF TraversalAt

LEMMA TraversalBegins ==
  ASSUME TypeInv, NEW c \in Conns, Begin(c), Traverses(c)'
  PROVE  TraversalAt(c)'
<1>1. PICK s \in Scenario[scenario][c], l \in Local :
        /\ stmt' = [stmt EXCEPT ![c] = s]
        /\ pc' = [pc EXCEPT ![c] = Start(s.op)]
        /\ loc' = [loc EXCEPT ![c] = l]
        /\ l.hop = 0 /\ l.next = {}
        /\ s.op \in {"select", "walk"} => l.left = {<<v>> : v \in s.from}
  BY SMTT(30), BeginLocal
<1>2. stmt'[c] = s /\ pc'[c] = Start(s.op) /\ loc'[c] = l
  BY <1>1 DEF TypeInv, TypeOK
<1>3. s \in Statement /\ s.op \in {"select", "walk"}
  BY <1>2, SentStatement DEF TypeInv, Traverses
<1>4. s.from \subseteq Vertices /\ s.hops \in Seq(Hop) /\ Len(s.hops) \in Nat
  BY <1>3, StatementShape
<1>5. Start(s.op) = "hop"
  BY <1>3, StartLabel
<1>6. CompleteSoFar(s, l, stable'[c]) /\ SoundSoFar(s, l.left, 0, Seen(c)')
  BY <1>1, <1>3, <1>4, StartsRight
<1>7. SoundSoFar(s, l.next, l.hop + 1, Seen(c)')
  BY <1>1 DEF SoundSoFar
<1>8. pc'[c] = "hop" /\ l.hop <= Len(s.hops) /\ SoundSoFar(s, l.left, l.hop, Seen(c)')
  BY <1>1, <1>2, <1>4, <1>5, <1>6
<1> HIDE DEF Traverses
<1> QED
  BY <1>2, <1>6, <1>7, <1>8 DEF TraversalAt

LEMMA TraversalSteps ==
  ASSUME RecordInv, HistoryOK, NEW c \in Conns, Step(c), Observe, TraversalAt(c),
         Traverses(c), Traverses(c)'
  PROVE  TraversalAt(c)'
<1>1. TypeInv /\ Observed(c) /\ stmt[c] \in Statement
  BY StepObserves, RunningStatement DEF RecordInv, Traverses
<1>2. stmt[c].hops \in Seq(Hop) /\ Len(stmt[c].hops) \in Nat
  BY <1>1, StatementShape DEF Traverses
<1>3. loc[c] \in Local /\ loc[c].hop \in Nat
  BY <1>1 DEF TypeInv, TypeOK, Local
<1>4. FollowHop(c) \/ NextHop(c) \/ Finish(c)
  <2>1. ~Done(c)
    BY <1>1, DoneEffect DEF Traverses
  <2>2. pc[c] \notin {"contains", "scan_incoming", "get_props"}
    BY SMTT(30), <1>1 DEF TypeInv, ControlOK, Traverses
  <2> QED
    BY <2>1, <2>2 DEF Step, Relate, Contains, Erase, PutProps, Document, ScanIncoming, GetProps, At
<1>5. pc[c] = "hop" /\ stable[c] \subseteq Existing /\ Recorded \subseteq ever[c]
  BY <1>4 DEF FollowHop, NextHop, Finish, At, HistoryOK, Reading, Traverses, Reads
<1>6. stable'[c] \subseteq stable[c] /\ Seen(c) \subseteq Seen(c)'
  BY <1>1 DEF Observed, Seen
<1> DEFINE k == loc[c].hop
<1>7. CASE FollowHop(c)
  <2>1. PICK p \in loc[c].left, l \in Local :
          /\ Goto(c, "hop", l)
          /\ l.hop = k
          /\ l.left = loc[c].left \ {p}
          /\ l.next = loc[c].next \cup
               {Extended(c, p, v) : v \in Neighbors(Last(p), stmt[c].hops[k + 1])}
    BY <1>1, <1>7, FollowLocal
  <2> DEFINE h == stmt[c].hops[k + 1]
             new == {Extended(c, p, v) : v \in Neighbors(Last(p), h)}
  <2>2. pc'[c] = "hop" /\ loc'[c] = l /\ stmt'[c] = stmt[c]
    BY <1>1, <2>1, GotoEffect DEF Labels, TypeInv, TypeOK
  <2>3. k < Len(stmt[c].hops) /\ h \in Hop
    BY <1>2, <1>3, <1>7 DEF FollowHop
  <2>4. p \in Seq(Vertices) /\ Last(p) \in Vertices
    <3>1. PICK f \in Paths(stmt[c].hops) : Last(p) = f[k + 1]
      BY DEF TraversalAt, SoundSoFar
    <3> QED
      BY <1>2, <1>3, <2>3, <3>1 DEF Paths, Local
  <2>5. \A v \in Vertices : Leads(h, Last(p), v, stable[c]) => \E q \in new : Last(q) = v
    BY <1>5, <2>3, <2>4, ScanEnclosed, ExtendedEnd
  <2>6. CompleteSoFar(stmt[c], l, stable[c])
    <3>1. CompleteSoFar(stmt[c], loc[c], stable[c])
      BY DEF TraversalAt
    <3>2. l.hop = loc[c].hop /\ l.left = loc[c].left \ {p} /\ loc[c].next \subseteq l.next
      BY <2>1
    <3>3. \A v \in Vertices : Leads(stmt[c].hops[loc[c].hop + 1], Last(p), v, stable[c])
                              => \E q \in l.next : Last(q) = v
      BY <2>1, <2>5
    <3>4. loc[c].hop < Len(stmt[c].hops)
      BY <2>3
    <3> HIDE DEF new, h, k
    <3> QED
      BY <1>2, <1>3, <3>1, <3>2, <3>3, <3>4, CompleteScan
  <2>7. SoundSoFar(stmt[c], l.left, k, Seen(c))
    BY <2>1 DEF TraversalAt, SoundSoFar
  <2>8. SoundSoFar(stmt[c], l.next, k + 1, Seen(c))
    <3>1. SoundSoFar(stmt[c], loc[c].next, k + 1, Seen(c))
      BY <1>5 DEF TraversalAt
    <3>2. ASSUME NEW v \in Neighbors(Last(p), h)
          PROVE  SoundSoFar(stmt[c], {Extended(c, p, v)}, k + 1, Seen(c))
      <4>1. v \in Vertices
        BY DEF Neighbors
      <4>2. Leads(h, Last(p), v, Seen(c)) /\ Last(Extended(c, p, v)) = v
        BY <1>5, <2>3, <2>4, <4>1, ScanEnclosed, ExtendedEnd
      <4>3. SoundSoFar(stmt[c], loc[c].left, k, Seen(c))
        BY DEF TraversalAt
      <4> QED
        BY <1>2, <1>3, <2>3, <4>1, <4>2, <4>3, SoundScan
    <3> QED
      BY <2>1, <3>1, <3>2 DEF SoundSoFar
  <2>9. CompleteSoFar(stmt[c], l, stable'[c])
    BY <1>6, <2>6, CompleteKept
  <2>10. SoundSoFar(stmt[c], l.left, k, Seen(c)') /\ SoundSoFar(stmt[c], l.next, k + 1, Seen(c)')
    BY <1>6, <2>7, <2>8, SoundKept
  <2> QED
    BY <1>2, <1>3, <2>1, <2>2, <2>3, <2>9, <2>10 DEF TraversalAt
<1>8. CASE NextHop(c)
  <2>1. PICK l \in Local : /\ Goto(c, "hop", l)
                           /\ l.hop = k + 1
                           /\ l.left = loc[c].next
                           /\ l.next = {}
    BY <1>1, <1>8, NextLocal
  <2>2. pc'[c] = "hop" /\ loc'[c] = l /\ stmt'[c] = stmt[c]
    BY <1>1, <2>1, GotoEffect DEF Labels, TypeInv, TypeOK
  <2>3. k < Len(stmt[c].hops) /\ loc[c].left = {}
    BY <1>8 DEF NextHop
  <2>4. CompleteSoFar(stmt[c], l, stable[c])
    BY <1>2, <1>3, <2>1, <2>3, CompleteHop DEF TraversalAt
  <2>5. SoundSoFar(stmt[c], l.left, k + 1, Seen(c))
    BY <1>5, <2>1 DEF TraversalAt
  <2>6. SoundSoFar(stmt[c], l.next, l.hop + 1, Seen(c)')
    BY <2>1 DEF SoundSoFar
  <2>7. CompleteSoFar(stmt[c], l, stable'[c]) /\ SoundSoFar(stmt[c], l.left, l.hop, Seen(c)')
    BY <1>6, <2>1, <2>4, <2>5, CompleteKept, SoundKept
  <2>8. l.hop <= Len(stmt[c].hops)
    BY <1>2, <1>3, <2>1, <2>3
  <2> QED
    BY <2>2, <2>6, <2>7, <2>8 DEF TraversalAt
<1>9. CASE Finish(c)
  <2>1. PICK l \in Local : Goto(c, "idle", l) /\ l.hop = k /\ l.left = loc[c].left
    BY <1>1, <1>9, FinishLocal
  <2>2. pc'[c] = "idle" /\ loc'[c] = l /\ stmt'[c] = stmt[c]
    BY <1>1, <2>1, GotoEffect DEF Labels, TypeInv, TypeOK
  <2>3. k = Len(stmt[c].hops)
    BY <1>9 DEF Finish
  <2>4. CompleteSoFar(stmt[c], loc[c], stable'[c])
    BY <1>6, CompleteKept DEF TraversalAt
  <2>5. CompleteSoFar(stmt[c], l, stable'[c])
    BY <1>2, <2>1, <2>3, <2>4 DEF CompleteSoFar
  <2>6. SoundSoFar(stmt[c], l.left, l.hop, Seen(c)')
    BY <1>6, <2>1, SoundKept DEF TraversalAt
  <2>7. pc'[c] # "hop" /\ l.hop <= Len(stmt[c].hops) /\ l.hop = Len(stmt[c].hops)
    BY <1>2, <2>1, <2>2, <2>3
  <2> QED
    BY <2>2, <2>5, <2>6, <2>7 DEF TraversalAt
<1> QED
  BY <1>4, <1>7, <1>8, <1>9

LEMMA TraversalOKNext ==
  ASSUME RecordInv, HistoryOK, TraversalOK, NEW c \in Conns, Begin(c) \/ (Step(c) /\ Observe)
  PROVE  TraversalOK'
<1>1. TypeInv /\ Solo(c)
  BY Control DEF RecordInv
<1>2. ASSUME NEW d \in Conns, Traverses(d)' PROVE TraversalAt(d)'
  <2>1. CASE d # c
    <3>1. pc'[d] = pc[d] /\ loc'[d] = loc[d] /\ stmt'[d] = stmt[d]
      BY <1>1, <2>1 DEF Solo
    <3>2. stable'[d] \subseteq stable[d] /\ ever[d] \subseteq ever'[d]
      BY <1>1, <2>1, BeginOthers, StepObserves DEF Observed
    <3>3. TraversalAt(d)
      BY <1>2, <3>1 DEF TraversalOK, Traverses
    <3> QED
      BY <1>1, <3>1, <3>2, <3>3, TraversalWaits
  <2>2. CASE d = c /\ Begin(c)
    BY <1>1, <1>2, <2>2, TraversalBegins
  <2>3. CASE d = c /\ Step(c) /\ Observe
    <3>1. Traverses(c)
      <4>1. Leaves(c)
        BY SMTT(30), <1>1, <2>3, Control
      <4>2. ~Begin(c)
        BY ZenonT(60), <2>3 DEF Begin, Step, Relate, Contains, Erase, PutProps, Document, ScanIncoming,
                    GetProps, FollowHop, NextHop, Finish, At
      <4> QED
        BY <1>2, <2>3, <4>1, <4>2 DEF Leaves, Traverses
    <3>2. TraversalAt(c)
      BY <3>1 DEF TraversalOK
    <3> QED
      BY <1>2, <2>3, <3>1, <3>2, TraversalSteps
  <2> QED
    BY <2>1, <2>2, <2>3
<1> QED
  BY <1>2 DEF TraversalOK

-----------------------------------------------------------------------------
(* Incoming edges *)

LEMMA IncomingWaits ==
  ASSUME TypeInv, NEW d \in Conns, IncomingAt(d),
         pc'[d] = pc[d], loc'[d] = loc[d], stmt'[d] = stmt[d],
         stable'[d] \subseteq stable[d], ever[d] \subseteq ever'[d]
  PROVE  IncomingAt(d)'
BY DEF IncomingAt

LEMMA IncomingBegins ==
  ASSUME TypeInv, NEW c \in Conns, Begin(c), Incoming(c)'
  PROVE  IncomingAt(c)'
<1>1. PICK s \in Scenario[scenario][c], l \in Local :
        /\ stmt' = [stmt EXCEPT ![c] = s]
        /\ pc' = [pc EXCEPT ![c] = Start(s.op)]
        /\ loc' = [loc EXCEPT ![c] = l]
        /\ l.todo = {} /\ l.found = {}
  BY SMTT(30), BeginLocal
<1>2. stmt'[c] = s /\ pc'[c] = Start(s.op) /\ loc'[c] = l
  BY <1>1 DEF TypeInv, TypeOK
<1>3. s \in Statement /\ s.op = "incoming"
  BY <1>2, SentStatement DEF TypeInv, Incoming
<1>4. pc'[c] = "scan_incoming"
  BY <1>2, <1>3, StartLabel
<1> QED
  BY <1>1, <1>2, <1>4 DEF IncomingAt

LEMMA IncomingSteps ==
  ASSUME RecordInv, HistoryOK, NEW c \in Conns, Step(c), Observe, IncomingAt(c),
         Incoming(c), Incoming(c)'
  PROVE  IncomingAt(c)'
<1>1. TypeInv /\ Observed(c) /\ loc[c] \in Local
  BY SMTT(30), StepObserves DEF RecordInv, TypeInv, TypeOK
<1>2. ScanIncoming(c) \/ GetProps(c)
  <2>1. ~Done(c)
    BY <1>1, DoneEffect DEF Incoming
  <2>2. pc[c] \notin {"contains", "hop"}
    BY <1>1 DEF TypeInv, ControlOK, Incoming
  <2> QED
    BY <2>1, <2>2 DEF Step, Relate, Contains, Erase, PutProps, Document, FollowHop, NextHop,
                      Finish, At
<1>3. stable[c] \subseteq Existing /\ Recorded \subseteq ever[c]
  BY <1>2 DEF ScanIncoming, GetProps, At, HistoryOK, Reading, Incoming, Reads
<1>4. stable'[c] \subseteq stable[c] /\ ever[c] \subseteq ever'[c]
  BY <1>1 DEF Observed
<1>5. CASE ScanIncoming(c)
  <2>1. PICK l \in Local :
          /\ Goto(c, "get_props", l)
          /\ l.todo = {e \in in : e[2] = stmt[c].type /\ e[3] = stmt[c].vertex}
          /\ l.found = {}
    BY <1>1, <1>5, ScanLocal
  <2>2. pc'[c] = "get_props" /\ loc'[c] = l /\ stmt'[c] = stmt[c]
    BY <1>1, <2>1, GotoEffect DEF Labels, TypeInv, TypeOK
  <2>3. ASSUME NEW e \in stable'[c], e[2] = stmt[c].type, e[3] = stmt[c].vertex
        PROVE  e \in l.todo
    BY <1>3, <1>4, <2>1, <2>3 DEF Existing
  <2> QED
    BY <2>1, <2>2, <2>3 DEF IncomingAt
<1>6. CASE GetProps(c)
  <2>1. CASE loc[c].todo = {} /\ Goto(c, "idle", loc[c])
    <3>1. pc'[c] = "idle" /\ loc'[c] = loc[c] /\ stmt'[c] = stmt[c] /\ pc[c] = "get_props"
      BY <1>1, <1>6, <2>1, GotoEffect DEF Labels, TypeInv, TypeOK, GetProps, At
    <3> QED
      BY <1>4, <2>1, <3>1 DEF IncomingAt
  <2>2. CASE \E e \in loc[c].todo, q \in Props, l \in Local :
               /\ Goto(c, "get_props", l)
               /\ q = IF out[e] = NoEdge THEN Empty ELSE out[e]
               /\ l.todo = loc[c].todo \ {e}
               /\ l.found = loc[c].found \cup {<<e, q>>}
    <3>1. PICK e \in loc[c].todo, q \in Props, l \in Local :
            /\ Goto(c, "get_props", l)
            /\ q = IF out[e] = NoEdge THEN Empty ELSE out[e]
            /\ l.todo = loc[c].todo \ {e}
            /\ l.found = loc[c].found \cup {<<e, q>>}
      BY <2>2
    <3>2. /\ pc'[c] = "get_props" /\ loc'[c] = l /\ stmt'[c] = stmt[c] /\ pc[c] = "get_props"
      BY <1>1, <1>6, <3>1, GotoEffect DEF Labels, TypeInv, TypeOK, GetProps, At
    <3>3. e \in Edges /\ <<e, q>>[1] = e /\ <<e, q>>[2] = q
      BY <1>1 DEF Local
    <3>4. <<e, q>> \in ever'[c] \/ (q = Empty /\ e \notin stable'[c])
      <4>1. CASE out[e] = NoEdge
        BY <1>3, <1>4, <3>1, <4>1 DEF Existing
      <4>2. CASE out[e] # NoEdge
        <5>1. <<e, out[e]>> \in Recorded
          BY <3>3, <4>2 DEF Recorded
        <5> QED
          BY <1>3, <1>4, <3>1, <4>2, <5>1
      <4> QED
        BY <4>1, <4>2
    <3>5. ASSUME NEW x \in stable'[c], x[2] = stmt[c].type, x[3] = stmt[c].vertex
          PROVE  x \in l.todo \/ \E p \in Props : <<x, p>> \in l.found
      <4>1. x \in loc[c].todo \/ \E p \in Props : <<x, p>> \in loc[c].found
        BY <1>4, <3>2, <3>5 DEF IncomingAt
      <4> QED
        BY <3>1, <4>1
    <3>6. \A f \in l.found : f[1] \notin l.todo
      BY <3>1, <3>3 DEF IncomingAt
    <3>7. \A f, g \in l.found : f[1] = g[1] => f = g
      BY <3>1, <3>3 DEF IncomingAt
    <3>8. \A f \in l.found : f \in ever'[c] \/ (f[2] = Empty /\ f[1] \notin stable'[c])
      BY <1>4, <3>1, <3>3, <3>4 DEF IncomingAt
    <3> QED
      BY <3>2, <3>5, <3>6, <3>7, <3>8 DEF IncomingAt
  <2> QED
    BY <1>1, <1>6, <2>1, <2>2, GetLocal
<1> QED
  BY <1>2, <1>5, <1>6

LEMMA IncomingOKNext ==
  ASSUME RecordInv, HistoryOK, IncomingOK, NEW c \in Conns, Begin(c) \/ (Step(c) /\ Observe)
  PROVE  IncomingOK'
<1>1. TypeInv /\ Solo(c)
  BY Control DEF RecordInv
<1>2. ASSUME NEW d \in Conns, Incoming(d)' PROVE IncomingAt(d)'
  <2>1. CASE d # c
    <3>1. pc'[d] = pc[d] /\ loc'[d] = loc[d] /\ stmt'[d] = stmt[d]
      BY <1>1, <2>1 DEF Solo
    <3>2. stable'[d] \subseteq stable[d] /\ ever[d] \subseteq ever'[d]
      BY <1>1, <2>1, BeginOthers, StepObserves DEF Observed
    <3>3. IncomingAt(d)
      BY <1>2, <3>1 DEF IncomingOK, Incoming
    <3> QED
      BY <1>1, <3>1, <3>2, <3>3, IncomingWaits
  <2>2. CASE d = c /\ Begin(c)
    BY <1>1, <1>2, <2>2, IncomingBegins
  <2>3. CASE d = c /\ Step(c) /\ Observe
    <3>1. Incoming(c)
      <4>1. Leaves(c)
        BY SMTT(30), <1>1, <2>3, Control
      <4>2. ~Begin(c)
        BY ZenonT(60), <2>3 DEF Begin, Step, Relate, Contains, Erase, PutProps, Document, ScanIncoming,
                    GetProps, FollowHop, NextHop, Finish, At
      <4> QED
        BY <1>2, <2>3, <4>1, <4>2 DEF Leaves, Incoming
    <3>2. IncomingAt(c)
      BY <3>1 DEF IncomingOK, Incoming
    <3> QED
      BY <1>2, <2>3, <3>1, <3>2, IncomingSteps
  <2> QED
    BY <2>1, <2>2, <2>3
<1> QED
  BY <1>2 DEF IncomingOK

-----------------------------------------------------------------------------
(* Reads beside writers *)

LEMMA ReadInvInit == Init => ReadInv
<1> SUFFICES ASSUME Init PROVE ReadInv
  OBVIOUS
<1>1. RecordInv
  BY RecordInvInit
<1>2. \A c \in Conns : pc[c] = "idle" /\ stmt[c] = NoStmt
  BY DEF Init
<1> QED
  BY <1>1, <1>2 DEF ReadInv, HistoryOK, Reading, TraversalOK, Traverses, IncomingOK, Incoming

LEMMA ReadInvNext == ReadInv /\ [Next]_vars => ReadInv'
<1> SUFFICES ASSUME ReadInv, [Next]_vars PROVE ReadInv'
  OBVIOUS
<1>1. RecordInv'
  BY RecordInvNext DEF ReadInv
<1>2. CASE UNCHANGED vars
  <2>1. HistoryOK'
    BY <1>2 DEF ReadInv, vars, store, HistoryOK, Reading, Existing, Recorded
  <2>2. TraversalOK'
    BY <1>2 DEF ReadInv, vars, TraversalOK, TraversalAt, Traverses, Seen
  <2>3. IncomingOK'
    BY <1>2 DEF ReadInv, vars, IncomingOK, Incoming, IncomingAt
  <2> QED
    BY <1>1, <2>1, <2>2, <2>3 DEF ReadInv
<1>3. ASSUME NEW c \in Conns, Begin(c) \/ (Step(c) /\ Observe) PROVE ReadInv'
  BY <1>1, <1>3, HistoryOKNext, TraversalOKNext, IncomingOKNext DEF ReadInv, RecordInv
<1> QED
  BY <1>2, <1>3 DEF Next

LEMMA ReadInvConsistent == ReadInv => ReadsConsistent
<1> SUFFICES ASSUME ReadInv PROVE ReadsConsistent
  OBVIOUS
<1>1. ASSUME NEW c \in Conns, Answered(c, "walk") \/ Answered(c, "select")
      PROVE  /\ Reach(stmt[c].from, stmt[c].hops, stable[c]) \subseteq Ends(c)
             /\ Ends(c) \subseteq Reach(stmt[c].from, stmt[c].hops, {p[1] : p \in ever[c]})
  <2>1. Traverses(c) /\ pc[c] = "idle"
    BY <1>1 DEF Answered, At, Traverses
  <2>2. stmt[c].hops \in Seq(Hop)
    <3>1. stmt[c] \in Statement
      BY <2>1, RunningStatement DEF ReadInv, RecordInv, Traverses
    <3> QED
      BY <2>1, <3>1, StatementShape DEF Traverses
  <2> DEFINE N == Len(stmt[c].hops)
  <2>3. N \in Nat /\ loc[c].hop = N
    BY <2>1, <2>2 DEF ReadInv, TraversalOK, TraversalAt
  <2>4. CompleteSoFar(stmt[c], loc[c], stable[c]) /\ SoundSoFar(stmt[c], loc[c].left, N, Seen(c))
    BY <2>1, <2>3 DEF ReadInv, TraversalOK, TraversalAt
  <2>5. ASSUME NEW f \in Paths(stmt[c].hops), Along(stmt[c].from, stmt[c].hops, f, N, stable[c])
        PROVE  f[N + 1] \in Ends(c)
    <3>1. \E p \in loc[c].left : Last(p) = f[N + 1]
      BY <2>3, <2>4, <2>5 DEF CompleteSoFar
    <3> QED
      BY <3>1 DEF Ends
  <2>6. ASSUME NEW p \in loc[c].left
        PROVE  \E f \in Paths(stmt[c].hops) :
                 /\ Along(stmt[c].from, stmt[c].hops, f, N, {r[1] : r \in ever[c]})
                 /\ Last(p) = f[N + 1]
    BY <2>4 DEF SoundSoFar, Seen
  <2>7. Reach(stmt[c].from, stmt[c].hops, stable[c]) \subseteq Ends(c)
    BY <2>5 DEF Reach
  <2>8. Ends(c) \subseteq Reach(stmt[c].from, stmt[c].hops, {p[1] : p \in ever[c]})
    BY <2>6 DEF Reach, Ends
  <2> QED
    BY <2>7, <2>8
<1>2. TraversalComplete /\ TraversalSound
  BY <1>1 DEF TraversalComplete, TraversalSound
<1>3. IncomingConsistent
  BY DEF ReadInv, IncomingOK, Incoming, IncomingAt, IncomingConsistent, Answered, At
<1> QED
  BY <1>2, <1>3 DEF ReadsConsistent

\* Traversals and incoming listings of any length beside any writers: every record
\* reachable over edges that existed throughout is found, nothing is found that
\* was not reachable over edges that existed at some time, and edges are listed
\* once, with properties they had while the call ran.
THEOREM ReadsAreConsistent == Spec => []ReadsConsistent
BY ReadInvInit, ReadInvNext, ReadInvConsistent, PTL DEF Spec
=============================================================================
