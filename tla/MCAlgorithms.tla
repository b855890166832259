---------------------------- MODULE MCAlgorithms ----------------------------
(***************************************************************************)
(* The pure algorithms over bounded inputs.  Every behaviour takes one     *)
(* input of one topic; community detection and the vector index then run   *)
(* step by step, the rest is evaluated by the invariants.                  *)
(***************************************************************************)
EXTENDS IndexPlanner, Hnsw, GraphAlgorithms, CodeIntel

CONSTANTS Topics

VARIABLES topic, input

vars == <<topic, input>>

-----------------------------------------------------------------------------
(* Keys: strings over three bytes, numbers at the boundaries of a byte *)

Strings(bytes, n) == UNION {[1 .. k -> bytes] : k \in 0 .. n}

Str(s) == [type |-> "string", bytes |-> s]
IntV(n) == [type |-> "int", n |-> n]
Flt(neg, bits) == [type |-> "float", neg |-> neg, bits |-> bits]
Boolean(b) == [type |-> "bool", true |-> b]

StringValues == {Str(s) : s \in Strings({0, 1, 97}, 2)}
IntValues == {IntV(n) : n \in {-32768, -257, -256, -1, 0, 1, 255, 256, 32767}}
FloatValues == {Flt(neg, b) : neg \in BOOLEAN, b \in {0, 1, 255, 256, 32767}}
BoolValues == {Boolean(b) : b \in BOOLEAN}

ValueInputs == UNION {{[v |-> v, w |-> w] : v, w \in V} :
                        V \in {StringValues, IntValues, FloatValues, BoolValues}}

Table(name) == [ns |-> <<110>>, db |-> <<100>>, name |-> name]
KeyTables == {Table(<<97>>), Table(<<97, 98>>)}
KeyNames == {<<97>>, <<97, 98>>}

\* Every edge but the ones from the longer name to the shorter.
Edges == {e \in [src : KeyNames, type : KeyNames, dst : KeyNames] : Len(e.src) <= Len(e.dst)}

KeySpace ==
  UNION {  {MetadataKey(t)}
      \cup {DocumentKey(t, n) : n \in KeyNames}
      \cup {IndexCatalogKey(t, n) : n \in KeyNames}
      \cup {EntryKey(t, n, <<Str(<<0>>)>>, i) : n, i \in KeyNames}
      \cup {EdgeKey(t, e.src, Dir.outgoing, e.type, e.dst) : e \in Edges}
      \cup {EdgeKey(t, e.dst, Dir.incoming, e.type, e.src) : e \in Edges} : t \in KeyTables}

ScanInputs == [table : KeyTables, vertex : KeyNames, type : KeyNames, name : KeyNames]

PrefixInputs == Strings({0, 1, 254, 255}, 3) \ {<<>>}

-----------------------------------------------------------------------------
(* Lookups: one record with two fields of one type, a clause, the indexes *)

fa == "a"
fb == "b"

Ix(name, fields) == [name |-> name, fields |-> fields]
One == <<Ix(<<105>>, <<fa>>)>>
Two == <<Ix(<<105>>, <<fa>>), Ix(<<105, 106>>, <<fb, fa>>)>>

Families ==
  {{Str(<<97>>), Str(<<97, 0>>), Str(<<97, 1>>)}, {IntV(-1), IntV(0), IntV(256)},
   {Flt(TRUE, 256), Flt(TRUE, 1), Flt(FALSE, 1)}}

Ops == {"eq", "ne", "lt", "lte", "gt", "gte"}
Conjuncts(vals) ==
  [field : {fa, fb}, op : Ops, value : vals] \cup [field : {fa, fb}, op : {"isnone"}, value : {None}]

Clauses(vals) ==
  LET atoms == Conjuncts(vals)
  IN {<<c>> : c \in atoms} \cup {<<c, d>> : c, d \in atoms}

Docs(vals) == [{fa, fb} -> vals]

\* Two of the three values are compared with; the record may hold the third.
LookupsOf(vals) ==
  LET some == CHOOSE S \in SUBSET vals : Cardinality(S) = 2
  IN [doc : Docs(vals), clause : Clauses(some), indexes : {One, Two}]

LookupInputs ==
  UNION {LookupsOf(vals) : vals \in Families}
  \cup [doc : Docs({Array, IntV(0), None}), clause : {<<[field |-> fa, op |-> "eq", value |-> Array]>>},
        indexes : {<<>>}]

-----------------------------------------------------------------------------
(* Graphs: up to four edges between four nodes; duplicates and loops *)

Pairs == (1 .. 4) \X (1 .. 4)
Before(e, f) == e[1] < f[1] \/ (e[1] = f[1] /\ e[2] < f[2])
Scan(S) == SetToSortSeq(S, Before)

Graphs == {Scan(S) : S \in UNION {kSubset(n, Pairs) : n \in 1 .. 4}}
Multigraphs == {Scan(S) \o Scan(T) : S, T \in UNION {kSubset(n, (1 .. 3) \X (1 .. 3)) : n \in 1 .. 2}}

MaxPasses == 3

CommunityInputs(start(_)) ==
  {[edges |-> g, s |-> start(g)] :
     g \in Multigraphs \cup {h \in Graphs : Endpoints(h) = 1 .. 4 /\ Len(h) = 4}}

-----------------------------------------------------------------------------
(* Vectors: points whose distances differ, each used once *)

Points == {0, 1, 3, 7}
QueryPoints == {1, 7}
RecordIds == {"p", "q"}
Levels == {0, 1}

\* One configuration that prunes and evicts, one wide enough for every point.
Narrow == [m |-> 1, ef_construction |-> 1, max_layers |-> 2]
Wide == [m |-> 2, ef_construction |-> 4, max_layers |-> 2]

VectorInputs ==
  {[ix |-> NewIndex(config), live |-> [id \in {} |-> 0]] : config \in {Narrow, Wide}}

Used(ix) == {ix.nodes[n].vector : n \in DOMAIN ix.nodes}

-----------------------------------------------------------------------------
(* Trees: a module or a function with up to two parts *)

Node(type, name, arity, kids) == [type |-> type, name |-> name, arity |-> arity, kids |-> kids]
Lit == Node("literal", "l", 0, <<>>)
Call(name) == Node("call", name, 0, <<>>)
Fn(name, arity, body) == Node("fn", name, arity, <<body>>)

Fns == {Fn(n, a, Call(c)) : n \in {"f", "g"}, a \in {0, 1}, c \in {"f", "h"}} \cup {Fn("f", 0, Lit)}

\* A nested module, which stores its functions again.
Parts == Fns \cup {Node("import", "i", 0, <<>>), Node("container", "n", 0, <<Fn("f", 1, Call("f"))>>),
                   Node("container", "n", 0, <<Fn("f", 0, Lit)>>)}

Trees ==
  {Node("container", "m", 0, kids) : kids \in Strings(Parts, 2)}
  \cup {Fn("f", 1, Lit), Fn("f", 1, Fn("g", 0, Call("f"))), Fn("g", 0, Node("container", "n", 0, <<Fn("f", 0, Lit)>>))}

-----------------------------------------------------------------------------
(* Queries: every statement with up to two extras *)

Q == INSTANCE QuerySentences

MaxExtras == 2

-----------------------------------------------------------------------------

Inputs(t) ==
  CASE t = "values" -> ValueInputs
    [] t = "scans" -> ScanInputs
    [] t = "prefixes" -> PrefixInputs
    [] t = "lookups" -> LookupInputs
    [] t = "graphs" -> Graphs \cup Multigraphs
    [] t = "louvain" -> CommunityInputs(LouvainStart)
    [] t = "labels" -> CommunityInputs(LabelStart)
    [] t = "vectors" -> VectorInputs
    [] t = "queries" -> Q!Sentences(MaxExtras)
    [] t = "trees" -> [old : Trees, new : Trees]

Init == \E t \in Topics : topic = t /\ input \in Inputs(t)

MoveNode ==
  /\ topic = "louvain"
  /\ \E s \in LouvainNext(input.edges, input.s, MaxPasses) : input' = [input EXCEPT !.s = s]
  /\ UNCHANGED topic

Relabel ==
  /\ topic = "labels"
  /\ \E s \in LabelNext(input.edges, input.s, MaxPasses) : input' = [input EXCEPT !.s = s]
  /\ UNCHANGED topic

InsertVector ==
  /\ topic = "vectors"
  /\ \E id \in RecordIds, v \in Points \ Used(input.ix), level \in Levels :
       input' = [ix |-> Upsert(input.ix, id, v, level), live |-> BruteInsert(input.live, id, v)]
  /\ UNCHANGED topic

DeleteVector ==
  /\ topic = "vectors"
  /\ \E id \in RecordIds :
       input' = [ix |-> RemoveVector(input.ix, id), live |-> BruteRemove(input.live, id)]
  /\ UNCHANGED topic

Next == MoveNode \/ Relabel \/ InsertVector \/ DeleteVector

Spec == Init /\ [][Next]_vars

On(t, P) == topic = t => P

-----------------------------------------------------------------------------
(* Properties of keys *)

\* Byte order of index entries is the order of values of a type, also for strings
\* that extend each other, strings with zero bytes and numbers across zero; and no
\* entry of a value is within the entries of another.  Zero has two float forms.
OrderPreserved ==
  On("values",
     LET v == input.v
         w == input.w
         lt == IF v.type = "bool" THEN ~v.true /\ w.true ELSE Precedes(v, w)
         zeros == v.type = "float" /\ v.bits = 0 /\ w.bits = 0
     IN /\ Less(KeyPart(v), KeyPart(w)) <=> lt \/ (zeros /\ v.neg /\ ~w.neg)
        /\ v # w => ~IsPrefix(KeyPart(v), KeyPart(w)))

\* The id comes back out of an entry, whatever zero bytes and terminators the
\* values in front of it contain.
IdRecovered ==
  On("values", \A id \in KeyNames, n \in {1, 2} :
     LET values == IF n = 1 THEN <<input.v>> ELSE <<input.v, input.w>>
         t == Table(<<97>>)
     IN IdFromEntry(EntryKey(t, <<105>>, values, id), Len(IndexPrefix(t, <<105>>)), n) = id)

\* An index entry tells its values apart and in order, and its record.
EntriesFaithful == OrderPreserved /\ IdRecovered

\* The half-open range of a prefix holds exactly the strings that extend it.
PrefixRangeExact ==
  On("prefixes",
     LET end == PrefixEnd(input) IN
     IF end = <<>> THEN \A i \in DOMAIN input : input[i] = 255
     ELSE \A k \in Strings({0, 1, 254, 255}, 3) :
            (AtMost(input, k) /\ Less(k, end)) <=> IsPrefix(input, k))

\* In the shared keyspace every scan returns the keys it is meant for and no
\* others, although names extend each other across tables, indexes and edge types.
ScansExact ==
  On("scans",
     LET t == input.table
         entries(n) == {EntryKey(t, n, <<Str(<<0>>)>>, i) : i \in KeyNames}
         pointers(d) ==
           {[type |-> e.type, key |-> EdgeKey(t, input.vertex, d, e.type, IF d = Dir.outgoing THEN e.dst ELSE e.src)] :
              e \in {f \in Edges : input.vertex = IF d = Dir.outgoing THEN f.src ELSE f.dst}}
     IN /\ PrefixScan(KeySpace, TablePrefix(t, Tag.document)) = {DocumentKey(t, n) : n \in KeyNames}
        /\ PrefixScan(KeySpace, IndexCatalogPrefix(t)) = {IndexCatalogKey(t, n) : n \in KeyNames}
        /\ PrefixScan(KeySpace, IndexPrefix(t, input.name)) = entries(input.name)
        /\ \A d \in {Dir.incoming, Dir.outgoing} :
             /\ PrefixScan(KeySpace, TypedPrefix(t, input.vertex, d, input.type))
                  = {p.key : p \in {q \in pointers(d) : q.type = input.type}}
             /\ PrefixScan(KeySpace, VertexPrefix(t, input.vertex, d)) = {p.key : p \in pointers(d)})

\* A scan of an edge table parses every edge once, from its outgoing pointer.
EdgesParsed == On("scans", ScanAllEdges(KeySpace, input.table) = Edges)

\* The regions of the key space do not run into each other.
RegionsExact == PrefixRangeExact /\ ScansExact /\ EdgesParsed

-----------------------------------------------------------------------------
(* Properties of lookups *)

Rec == <<120>>
Answer(f(_, _, _, _)) == f(Table(<<97>>), [i \in {Rec} |-> input.doc], input.indexes, input.clause)
Matching == {i \in {Rec} : MatchesWhere(input.doc, input.clause)}

\* Whatever index is planned, SELECT returns what a scan would.
SelectAsScan == On("lookups", Answer(SelectIds) = Matching)

\* A COUNT from index entries alone counts what a scan would.
CountAsScan == On("lookups", Answer(CountIds) = Cardinality(Matching))

\* The choice of an index, and whether records are read at all, changes no answer.
LookupsExact == SelectAsScan /\ CountAsScan

-----------------------------------------------------------------------------
(* Properties of graph algorithms *)

\* The groups of union-find are the classes of nodes joined by edges.
ComponentsExact ==
  On("graphs", ConnectedComponents(input) = {Grow(input, {n}) : n \in Endpoints(input)})

\* A path is found iff there is one within the depth, follows edges and has the
\* fewest hops.
PathShortest ==
  On("graphs", \A dst \in 1 .. 4, depth \in {1, 2, 5} :
     LET p == ShortestPath(input, 1, dst, depth)
     IN IF p = NoPath THEN dst \notin Within(input, {1}, depth)
        ELSE /\ p[1] = 1 /\ p[Len(p)] = dst
             /\ Len(p) - 1 <= depth
             /\ \A i \in 1 .. Len(p) - 1 : <<p[i], p[i + 1]>> \in ToSet(input)
             /\ Len(p) > 1 => dst \notin Within(input, {1}, Len(p) - 2))

\* Every end of every edge is counted once, and the ranking is strict.
CentralityTotal ==
  On("graphs", \A kind \in {"in", "out", "both"} :
     LET r == DegreeCentrality(input, kind)
     IN /\ FoldLeft(LAMBDA n, x : n + x[2], 0, r) = Len(input) * (IF kind = "both" THEN 2 ELSE 1)
        /\ \A i, j \in DOMAIN r : i < j => r[i][2] > r[j][2] \/ (r[i][2] = r[j][2] /\ r[i][1] < r[j][1]))

\* The analytics over an edge list are what their definitions say.
AnalyticsExact == ComponentsExact /\ PathShortest /\ CentralityTotal

\* The degree totals that moves are judged by stay those of the communities, and
\* communities stay within connected components.
TotalsExact ==
  On("louvain",
     LET e == input.edges
         s == input.s
     IN \A c \in DOMAIN s.sigma :
          /\ s.sigma[c] = FoldSet(LAMBDA n, k : k + Weight(e, n), 0, {n \in DOMAIN s.comm : s.comm[n] = c})
          /\ s.comm[c] \in Grow(e, {c}))

\* Every move raises the modularity, so that passes cannot go in circles.
ModularityRises ==
  [][topic = "louvain" /\ input'.s.comm # input.s.comm
       => Modularity(input.edges, input'.s.comm) > Modularity(input.edges, input.s.comm)]_vars

\* When label propagation stops before its limit, every node has one of the most
\* frequent labels of its neighbours; a label never leaves its component.
LabelsStable ==
  On("labels",
     LET e == input.edges
         s == input.s
     IN /\ \A n \in DOMAIN s.comm : s.comm[n] \in Grow(e, {n})
        /\ s.todo = <<>> /\ ~s.moved
             => \A n \in DOMAIN s.comm : Winners(e, s.comm, n) = {} \/ s.comm[n] \in Winners(e, s.comm, n))

\* What both ways of community detection keep track of is right at every step.
CommunitiesSound == TotalsExact /\ LabelsStable

-----------------------------------------------------------------------------
(* Properties of the vector index *)

Ixs == input.ix

\* Neighbour lists are within bounds and stay on their layer: whatever is inserted,
\* pruned and removed, no search leaves the lists of a node.
LayersValid ==
  On("vectors",
     /\ Ixs.entry = NoNode <=> Ixs.nodes = <<>>
     /\ Ixs.entry # NoNode => Ixs.nodes[Ixs.entry].level = Ixs.max_level
     /\ \A n \in DOMAIN Ixs.nodes : \A l \in 0 .. Ixs.nodes[n].level :
          LET list == Ixs.nodes[n].neighbors[l] IN
          /\ Len(list) <= 2 * Ixs.config.m
          /\ Cardinality(ToSet(list)) = Len(list)
          /\ \A o \in ToSet(list) : o # n /\ l <= Ixs.nodes[o].level)

\* The live nodes are the vectors of the reference, each found by its id.
LookupExact ==
  On("vectors",
     /\ \A n \in DOMAIN Ixs.nodes :
          ~Ixs.nodes[n].deleted <=> /\ Ixs.nodes[n].id \in DOMAIN Ixs.lookup
                                    /\ Ixs.lookup[Ixs.nodes[n].id] = n
     /\ [id \in DOMAIN Ixs.lookup |-> Ixs.nodes[Ixs.lookup[id]].vector] = input.live)

\* Layers, lookup and tombstones fit together after any insertions and removals.
HnswWellFormed == LayersValid /\ LookupExact

\* Hits are live, distinct, at most k, nearest first; and while the beam is as
\* wide as the index and no list is cut they are the k nearest.
SearchSound ==
  On("vectors", \A q \in QueryPoints, k \in {1, 2} :
     LET hits == Search(Ixs, q, k)
     IN /\ Len(hits) <= k
        /\ \A i \in DOMAIN hits : hits[i] \in DOMAIN input.live
        /\ \A i, j \in DOMAIN hits : i < j => Dist(q, input.live[hits[i]]) < Dist(q, input.live[hits[j]])
        /\ Ixs.config = Wide => hits = BruteSearch(input.live, q, k))

\* A snapshot has the size that was announced, restores the index and its lookup,
\* and no part of it does.
SnapshotRestores ==
  On("vectors",
     LET data == Serialize(Ixs)
     IN /\ FoldLeft(LAMBDA n, f : n + f.width, 0, data) = SnapshotSize(Ixs)
        /\ Deserialize(data) = Ixs
        /\ \A n \in {Len(data) - 1, Len(data) \div 2} : Deserialize(SubSeq(data, 1, n)) = Unreadable)

-----------------------------------------------------------------------------
(* Properties of ingestion *)

UniqueKeys(root) == IsInjective([i \in DOMAIN Entities(root) |-> KeyOf(Entities(root)[i])])
ByKey(root) == {<<KeyOf(e), e>> : e \in ToSet(Entities(root))}

\* Re-indexing what the diff names, and no more, turns the entities stored for the
\* old tree into those of the new one, when no two of a file share a key.
ReindexExact ==
  On("trees", UniqueKeys(input.old) /\ UniqueKeys(input.new) =>
     LET changes == DiffTrees(input.old, input.new)
         gone == RemovedEntities(changes) \cup {c.key : c \in ToSet(changes)}
         stale == StaleEntities(changes)
     IN {x \in ByKey(input.old) : x[1] \notin gone} \cup {x \in ByKey(input.new) : x[1] \in stale}
          = ByKey(input.new))

TwoFiles == MergeBatches(<<PrepareBatch(input.old, "a"), PrepareBatch(input.new, "b")>>)

\* The batch of several files is one unit, and when a line relates two records the
\* first was created before it; so was the second unless it is outside the files.
EdgesGrounded ==
  On("trees", \A lines \in {GenerateQueries(TwoFiles)} :
     LET Created(id, i) == \E j \in 1 .. i - 1 : lines[j].op = "create" /\ lines[j].id = id
     IN /\ lines[1].op = "begin" /\ lines[Len(lines)].op = "end"
        /\ \A i \in DOMAIN lines : lines[i].op = "relate" =>
             LET e == lines[i].edge IN
             /\ Created(e.from, i)
             /\ Created(e.to, i) \/ e.to[1] \in {"import", "call_target"})

\* Containers that nest store the functions below them more than once: each time
\* with the function's own node, so that repeating the statement changes nothing.
DocumentsAgree ==
  On("trees", UniqueKeys(input.old) =>
     \A d \in ToSet(PrepareBatch(input.old, "a").documents) :
       d.node.type = "fn" => /\ d.id = IdOf("a", d.node)
                             /\ d.node \in ToSet(ExtractFunctions(input.old)))

\* The statements of a batch can be executed in order and do not contradict each
\* other.
BatchGrounded == EdgesGrounded /\ DocumentsAgree

-----------------------------------------------------------------------------
(* Properties of the query language *)

\* A statement, whole or with a token missing, is understood in the only way its
\* grammar allows, also where a contextual keyword is the name of a table or a
\* field ("they never shadow table/field names"); it is rejected only if there is
\* no way, or if it indexes a table called TABLE, which the optional word shadows.
ParsedAsWritten ==
  On("queries", \A tokens \in {input} \cup {RemoveAt(input, i) : i \in DOMAIN input} :
     LET parsed == Q!Parse(tokens)
         readings == Q!AsQuery(tokens)
     IN IF parsed.ok THEN readings = {parsed}
        ELSE \A r \in readings : r.out[1] \in {"define", "remove"} /\ Q!IndexTable(r.out) = "TABLE")
=============================================================================
