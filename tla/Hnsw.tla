-------------------------------- MODULE Hnsw --------------------------------
(***************************************************************************)
(* The HNSW vector index: layered neighbour lists, greedy descent, beam    *)
(* search, soft deletion, and the snapshot format; and the brute-force     *)
(* index it is measured against.  Vectors are points of a line and the     *)
(* metric is their distance.  The instances keep distances distinct, so    *)
(* that the order of equal ones, left to the heaps, never matters.         *)
(***************************************************************************)
EXTENDS Integers, Sequences, FiniteSets, SequencesExt, Functions

CONSTANTS
  NoNode,     \* entry_point is None
  Unreadable  \* deserialize returns an error

Dist(v, w) == IF v < w THEN w - v ELSE v - w

NewIndex(config) ==
  [config |-> config, nodes |-> <<>>, lookup |-> [id \in {} |-> 0],
   entry |-> NoNode, max_level |-> 0]

DistTo(ix, q, n) == Dist(q, ix.nodes[n].vector)

Nearest(ix, q, S) == CHOOSE n \in S : \A o \in S : DistTo(ix, q, n) <= DistTo(ix, q, o)
Farthest(ix, q, S) == CHOOSE n \in S : \A o \in S : DistTo(ix, q, o) <= DistTo(ix, q, n)
ByDistance(ix, q, S) == SetToSortSeq(S, LAMBDA n, o : DistTo(ix, q, n) < DistTo(ix, q, o))

Take(n, s) == SubSeq(s, 1, IF n < Len(s) THEN n ELSE Len(s))

-----------------------------------------------------------------------------
(* Search *)

\* One move per pass over the neighbours: to the closest live one, if closer.
RECURSIVE GreedyClosest(_, _, _, _)
GreedyClosest(ix, q, current, layer) ==
  LET closer == {n \in ToSet(ix.nodes[current].neighbors[layer]) :
                   ~ix.nodes[n].deleted /\ DistTo(ix, q, n) < DistTo(ix, q, current)}
  IN IF closer = {} THEN current ELSE GreedyClosest(ix, q, Nearest(ix, q, closer), layer)

\* From the entry point down to the layer above low.
Descend(ix, q, low) ==
  FoldLeft(LAMBDA current, i : GreedyClosest(ix, q, current, ix.max_level + 1 - i), ix.entry,
           [i \in 1 .. ix.max_level - low |-> i])

\* A neighbour seen for the first time joins the candidates and the results, if
\* there is room or it beats the worst result, which is then evicted.
VisitNeighbor(ix, q, ef, beam, n) ==
  LET room == Cardinality(beam.results) < ef
      beats == DistTo(ix, q, n) < DistTo(ix, q, Farthest(ix, q, beam.results))
      grown == beam.results \cup {n}
  IN IF n \in beam.visited THEN beam
     ELSE [visited |-> beam.visited \cup {n},
           candidates |-> beam.candidates \cup (IF room \/ beats THEN {n} ELSE {}),
           results |-> IF room THEN grown
                       ELSE IF beats THEN grown \ {Farthest(ix, q, grown)}
                       ELSE beam.results]

RECURSIVE BeamSearch(_, _, _, _, _)
BeamSearch(ix, q, ef, layer, beam) ==
  LET c == Nearest(ix, q, beam.candidates)
      popped == [beam EXCEPT !.candidates = @ \ {c}]
      worst == Farthest(ix, q, beam.results)
      visit(b, n) == VisitNeighbor(ix, q, ef, b, n)
  IN IF beam.candidates = {} THEN beam.results
     ELSE IF /\ DistTo(ix, q, c) > DistTo(ix, q, worst)
             /\ Cardinality(beam.results) >= ef
     THEN beam.results
     ELSE BeamSearch(ix, q, ef, layer, FoldLeft(visit, popped, ix.nodes[c].neighbors[layer]))

SearchLayer(ix, q, start, ef, layer) ==
  ByDistance(ix, q, BeamSearch(ix, q, ef, layer,
    [candidates |-> {start}, results |-> {start}, visited |-> {start}]))

Max2(m, n) == IF m < n THEN n ELSE m

\* Mutant of SearchEf: tombstones are not filtered out.
SearchEfTombstones(ix, q, k, ef) ==
  IF ix.entry = NoNode THEN <<>>
  ELSE LET found == SearchLayer(ix, q, Descend(ix, q, 0), Max2(ef, k), 0)
       IN [i \in DOMAIN Take(k, found) |-> ix.nodes[found[i]].id]

\* The beam holds tombstones too; they are filtered out afterwards.
SearchEf(ix, q, k, ef) ==
  IF ix.entry = NoNode THEN <<>>
  ELSE LET found == SearchLayer(ix, q, Descend(ix, q, 0), Max2(ef, k), 0)
           live == SelectSeq(found, LAMBDA n : ~ix.nodes[n].deleted)
       IN [i \in DOMAIN Take(k, live) |-> ix.nodes[live[i]].id]

Search(ix, q, k) == SearchEf(ix, q, k, ix.config.ef_construction)

-----------------------------------------------------------------------------
(* Insert and remove *)

\* Mutant of Prune: the list may grow to one more than allowed.
PruneLate(ix, n, layer) ==
  LET list == ix.nodes[n].neighbors[layer]
  IN IF Len(list) <= 2 * ix.config.m + 1 THEN list
     ELSE Take(ix.config.m, ByDistance(ix, ix.nodes[n].vector, ToSet(list)))

\* A list longer than 2m is cut to the m nearest.
Prune(ix, n, layer) ==
  LET list == ix.nodes[n].neighbors[layer]
  IN IF Len(list) <= 2 * ix.config.m THEN list
     ELSE Take(ix.config.m, ByDistance(ix, ix.nodes[n].vector, ToSet(list)))

\* The pointer back from neighbour n to the new node.
LinkBack(ix, new, layer, n) ==
  LET pushed == [ix EXCEPT !.nodes[n].neighbors[layer] = Append(@, new)]
  IN [pushed EXCEPT !.nodes[n].neighbors[layer] = Prune(pushed, n, layer)]

Connect(ix, new, found, layer) ==
  LET nearest == Take(ix.config.m, found)
      link(i, n) == LinkBack(i, new, layer, n)
  IN FoldLeft(link, [ix EXCEPT !.nodes[new].neighbors[layer] = nearest], nearest)

\* Neighbour lists are functions on the layers 0 .. level.
NewNode(id, vector, level) ==
  [id |-> id, vector |-> vector, level |-> level, deleted |-> FALSE,
   neighbors |-> [l \in 0 .. level |-> <<>>]]

SetLookup(lookup, id, n) == [i \in DOMAIN lookup \cup {id} |-> IF i = id THEN n ELSE lookup[i]]

\* Layers top, top - 1, ..., 0: search from where the layer above ended, connect.
ConnectLayers(ix, new, start, top) ==
  LET q == ix.nodes[new].vector
      layer(s, i) ==
        LET l == top + 1 - i
            found == SearchLayer(s.ix, q, s.current, s.ix.config.ef_construction, l)
        IN [ix |-> Connect(s.ix, new, found, l), current |-> found[1]]
  IN FoldLeft(layer, [ix |-> ix, current |-> start], [i \in 1 .. top + 1 |-> i]).ix

Promote(ix, new, level) ==
  IF level > ix.max_level THEN [ix EXCEPT !.max_level = level, !.entry = new] ELSE ix

\* The level is drawn at random, below max_layers.
Insert(ix, id, vector, level) ==
  LET new == Len(ix.nodes) + 1
      added == [ix EXCEPT !.nodes = Append(@, NewNode(id, vector, level)),
                          !.lookup = SetLookup(@, id, new)]
      top == IF level < ix.max_level THEN level ELSE ix.max_level
  IN IF ix.entry = NoNode THEN [added EXCEPT !.entry = new, !.max_level = level]
     ELSE Promote(ConnectLayers(added, new, Descend(added, vector, top), top), new, level)

\* A tombstone; the node keeps its place in the graph.
RemoveVector(ix, id) ==
  IF id \in DOMAIN ix.lookup /\ ~ix.nodes[ix.lookup[id]].deleted
  THEN [ix EXCEPT !.nodes[ix.lookup[id]].deleted = TRUE,
                  !.lookup = Restrict(@, DOMAIN @ \ {id})]
  ELSE ix

\* SearchServices::vector_insert.
Upsert(ix, id, vector, level) == Insert(RemoveVector(ix, id), id, vector, level)

-----------------------------------------------------------------------------
(* The brute-force index *)

BruteInsert(vectors, id, vector) == SetLookup(vectors, id, vector)

BruteRemove(vectors, id) == Restrict(vectors, DOMAIN vectors \ {id})

BruteSearch(vectors, q, k) ==
  Take(k, SetToSortSeq(DOMAIN vectors, LAMBDA i, j : Dist(q, vectors[i]) < Dist(q, vectors[j])))

-----------------------------------------------------------------------------
(* Snapshots: a snapshot is a sequence of fields, each with its width in bytes *)

Field(width, value) == [width |-> width, value |-> value]
U32(n) == Field(4, n)

Header(ix) ==
  <<Field(4, "HNSW"), Field(1, 1),
    U32(ix.config.m), U32(ix.config.ef_construction), U32(ix.config.max_layers),
    Field(1, "euclidean"), U32(1),
    Field(8, IF ix.entry = NoNode THEN -1 ELSE ix.entry - 1),
    U32(ix.max_level), U32(Len(ix.nodes))>>

\* An id is one byte here, a vector one number.
IdLen == 1

SerializeLayer(list) == <<U32(Len(list))>> \o [i \in DOMAIN list |-> U32(list[i] - 1)]

SerializeNode(node) ==
  <<U32(IdLen), Field(IdLen, node.id), Field(1, IF node.deleted THEN 1 ELSE 0),
    U32(node.level), Field(4, node.vector), U32(node.level + 1)>>
  \o FoldLeft(LAMBDA out, i : out \o SerializeLayer(node.neighbors[i - 1]), <<>>,
              [i \in 1 .. node.level + 1 |-> i])

Serialize(ix) ==
  FoldLeft(LAMBDA out, node : out \o SerializeNode(node), Header(ix), ix.nodes)

SnapshotSize(ix) ==
  FoldLeft(LAMBDA n, node :
             n + (4 + IdLen) + 5 + 4 + 4
               + FoldLeft(LAMBDA m, i : m + 4 + 4 * Len(node.neighbors[i - 1]), 0,
                          [i \in 1 .. node.level + 1 |-> i]),
           5 + 12 + 21, ix.nodes)

\* Reading n neighbour lists from position pos on: the lists and where they end.
RECURSIVE ReadLayers(_, _, _, _)
ReadLayers(data, pos, n, layers) ==
  IF n = 0 THEN [layers |-> layers, pos |-> pos]
  ELSE IF pos > Len(data) \/ pos + data[pos].value > Len(data) THEN Unreadable
  ELSE LET count == data[pos].value
       IN ReadLayers(data, pos + 1 + count, n - 1,
                     Append(layers, [i \in 1 .. count |-> data[pos + i].value + 1]))

RECURSIVE ReadNodes(_, _, _, _)
ReadNodes(data, pos, n, nodes) ==
  IF n = 0 THEN nodes
  ELSE IF pos + 5 > Len(data) THEN Unreadable
  ELSE LET read == ReadLayers(data, pos + 6, data[pos + 5].value, <<>>)
           node == [id |-> data[pos + 1].value, deleted |-> data[pos + 2].value # 0,
                    level |-> data[pos + 3].value, vector |-> data[pos + 4].value,
                    neighbors |-> [l \in 0 .. data[pos + 5].value - 1 |-> read.layers[l + 1]]]
       IN IF read = Unreadable THEN Unreadable
          ELSE ReadNodes(data, read.pos, n - 1, Append(nodes, node))

\* Mutant of LookupOf: tombstones are found again after a restart.
LookupOfAll(nodes) ==
  [id \in {nodes[n].id : n \in DOMAIN nodes} |->
     CHOOSE n \in DOMAIN nodes : nodes[n].id = id /\ \A o \in DOMAIN nodes : nodes[o].id = id => o <= n]

\* The lookup is rebuilt from the nodes that are not deleted; the last one wins.
LookupOf(nodes) ==
  LET live == {n \in DOMAIN nodes : ~nodes[n].deleted}
  IN [id \in {nodes[n].id : n \in live} |->
        CHOOSE n \in live : nodes[n].id = id /\ \A o \in live : nodes[o].id = id => o <= n]

Deserialize(data) ==
  IF Len(data) < 10 THEN Unreadable
  ELSE IF data[1].value # "HNSW" \/ data[2].value # 1 THEN Unreadable
  ELSE LET nodes == ReadNodes(data, 11, data[10].value, <<>>)
       IN IF nodes = Unreadable THEN Unreadable
          ELSE [config |-> [m |-> data[3].value, ef_construction |-> data[4].value,
                            max_layers |-> data[5].value],
                nodes |-> nodes,
                lookup |-> LookupOf(nodes),
                entry |-> IF data[8].value < 0 THEN NoNode ELSE data[8].value + 1,
                max_level |-> data[9].value]
=============================================================================
