-------------------------- MODULE GraphAlgorithms --------------------------
(***************************************************************************)
(* The graph analytics over the edge list of a table: connected components *)
(* by union-find, shortest paths by breadth-first search, degree           *)
(* centrality, and community detection by Louvain moves and by label       *)
(* propagation.  An edge list is a sequence of <<source, destination>> in  *)
(* the order of a scan; nodes are numbers, in the order of their names.    *)
(* All weights and the resolution are 1, so that gains are integers.       *)
(***************************************************************************)
EXTENDS Integers, Sequences, FiniteSets, SequencesExt, FiniteSetsExt, Functions

CONSTANT NoPath

Endpoints(edges) == UNION {{edges[i][1], edges[i][2]} : i \in DOMAIN edges}

-----------------------------------------------------------------------------
(* connected_components *)

\* The roots and ranks of the union-find forest.
Singletons(edges) == [parent |-> [n \in Endpoints(edges) |-> n], rank |-> [n \in Endpoints(edges) |-> 0]]

\* Path halving: every other node on the way is attached to its grandparent.
RECURSIVE Find(_, _)
Find(parent, x) ==
  IF parent[x] = x THEN [parent |-> parent, root |-> x]
  ELSE LET halved == [parent EXCEPT ![x] = parent[parent[x]]]
       IN Find(halved, halved[x])

\* Mutant of Union: the endpoints are linked instead of their roots.
UnionEndpoints(forest, edge) == [forest EXCEPT !.parent[edge[2]] = edge[1]]

\* Union by rank; equal ranks raise the rank of the surviving root.
Union(forest, edge) ==
  LET a == Find(forest.parent, edge[1])
      b == Find(a.parent, edge[2])
      ra == a.root
      rb == b.root
      rank == forest.rank
  IN [parent |-> IF ra = rb THEN b.parent
                 ELSE IF rank[ra] < rank[rb] THEN [b.parent EXCEPT ![ra] = rb]
                 ELSE [b.parent EXCEPT ![rb] = ra],
      rank |-> IF ra # rb /\ rank[ra] = rank[rb] THEN [rank EXCEPT ![ra] = @ + 1] ELSE rank]

\* The groups, as sets of members.
ConnectedComponents(edges) ==
  LET forest == FoldLeft(Union, Singletons(edges), edges)
      root(n) == Find(forest.parent, n).root
  IN {{n \in Endpoints(edges) : root(n) = root(m)} : m \in Endpoints(edges)}

-----------------------------------------------------------------------------
(* shortest_path *)

RECURSIVE Reconstruct(_, _)
Reconstruct(parent, path) ==
  IF path[1] \in DOMAIN parent THEN Reconstruct(parent, <<parent[path[1]]>> \o path) ELSE path

\* A neighbour seen for the first time gets a parent and joins the queue.
Expand(state, node, depth, next) ==
  IF next \in state.visited THEN state
  ELSE [visited |-> state.visited \cup {next},
        parent |-> [n \in DOMAIN state.parent \cup {next} |->
                      IF n = next THEN node ELSE state.parent[n]],
        queue |-> Append(state.queue, <<next, depth + 1>>)]

RECURSIVE Bfs(_, _, _, _)
Bfs(edges, dst, maxDepth, state) ==
  LET node == state.queue[1][1]
      depth == state.queue[1][2]
      out == SelectSeq(edges, LAMBDA e : e[1] = node)
      expand(s, e) == Expand(s, node, depth, e[2])
      popped == [state EXCEPT !.queue = Tail(@)]
  IN IF dst \in DOMAIN state.parent THEN Reconstruct(state.parent, <<dst>>)
     ELSE IF state.queue = <<>> THEN NoPath
     ELSE Bfs(edges, dst, maxDepth, IF depth >= maxDepth THEN popped ELSE FoldLeft(expand, popped, out))

\* An unbounded search has a maxDepth above the number of nodes.
ShortestPath(edges, src, dst, maxDepth) ==
  IF src = dst THEN <<src>>
  ELSE Bfs(edges, dst, maxDepth,
           [visited |-> {src}, parent |-> [n \in {} |-> src], queue |-> <<<<src, 0>>>>])

-----------------------------------------------------------------------------
(* degree_centrality *)

Degree(edges, kind, n) ==
  LET into == Len(SelectSeq(edges, LAMBDA e : e[2] = n))
      from == Len(SelectSeq(edges, LAMBDA e : e[1] = n))
  IN CASE kind = "in" -> into
       [] kind = "out" -> from
       [] kind = "both" -> into + from

\* Highest degree first, then by name.
DegreeCentrality(edges, kind) ==
  SetToSortSeq({<<n, Degree(edges, kind, n)>> : n \in Endpoints(edges)},
               LAMBDA a, b : a[2] > b[2] \/ (a[2] = b[2] /\ a[1] < b[1]))

-----------------------------------------------------------------------------
(* Louvain: one pass visits the nodes in order and moves each to the best of the
   neighbouring communities. *)

\* Self-loops count neither as degree nor as adjacency.
Proper(edges) == SelectSeq(edges, LAMBDA e : e[1] # e[2])

Weight(edges, n) == Degree(Proper(edges), "both", n)

TwoM(edges) == 2 * Len(Proper(edges))

\* k_in_per_comm: weight between node n and the members of community c.
Affinity(edges, comm, n, c) ==
  Len(SelectSeq(Proper(edges), LAMBDA e : e[1] = n /\ comm[e[2]] = c))
    + Len(SelectSeq(Proper(edges), LAMBDA e : e[2] = n /\ comm[e[1]] = c))

LouvainStart(edges) ==
  [comm |-> [n \in Endpoints(edges) |-> n],
   sigma |-> [n \in Endpoints(edges) |-> Weight(edges, n)],
   todo |-> SetToSortSeq(Endpoints(edges), <), moved |-> FALSE, passes |-> 0]

\* Mutant of Gain: the node itself stays in the degree of its community.
GainWithSelf(edges, s, n, c) ==
  TwoM(edges) * Affinity(edges, s.comm, n, c) - s.sigma[c] * Weight(edges, n)

\* The gain of n in community c, times 2m.  The degree of its own community is
\* taken without n.
Gain(edges, s, n, c) ==
  LET others == IF s.comm[n] = c THEN s.sigma[c] - Weight(edges, n) ELSE s.sigma[c]
  IN TwoM(edges) * Affinity(edges, s.comm, n, c) - others * Weight(edges, n)

\* The best neighbouring communities; between equal ones the hash map decides.
BestTargets(edges, s, n) ==
  LET near == {c \in DOMAIN s.sigma : c # s.comm[n] /\ Affinity(edges, s.comm, n, c) > 0}
      better == {c \in near : Gain(edges, s, n, c) > Gain(edges, s, n, s.comm[n])}
  IN {c \in better : \A d \in better : Gain(edges, s, n, d) <= Gain(edges, s, n, c)}

Move(edges, s, n, c) ==
  [s EXCEPT !.comm[n] = c,
            !.sigma = [@ EXCEPT ![s.comm[n]] = @ - Weight(edges, n), ![c] = @ + Weight(edges, n)],
            !.moved = TRUE, !.todo = Tail(@)]

\* The next states of the loop; a state without one is its end.
LouvainNext(edges, s, maxPasses) ==
  IF s.todo # <<>>
  THEN LET n == s.todo[1]
           targets == BestTargets(edges, s, n)
       IN IF targets = {} THEN {[s EXCEPT !.todo = Tail(@)]}
          ELSE {Move(edges, s, n, c) : c \in targets}
  ELSE IF s.moved /\ s.passes + 1 < maxPasses
  THEN {[s EXCEPT !.todo = SetToSortSeq(Endpoints(edges), <), !.moved = FALSE, !.passes = @ + 1]}
  ELSE {}

-----------------------------------------------------------------------------
(* Label propagation *)

LabelStart(edges) ==
  [comm |-> [n \in Endpoints(edges) |-> n],
   todo |-> SetToSortSeq(Endpoints(edges), <), moved |-> FALSE, passes |-> 0]

\* The most frequent labels among the neighbours of n.
Winners(edges, comm, n) ==
  LET freq(l) == Affinity(edges, comm, n, l)
      labels == Range(comm)
  IN {l \in labels : freq(l) > 0 /\ \A k \in labels : freq(k) <= freq(l)}

\* The label is kept if it is among the winners; else the smallest one wins.
Adopt(edges, s, n) ==
  LET winners == Winners(edges, s.comm, n)
  IN IF winners = {} \/ s.comm[n] \in winners THEN s.comm[n] ELSE Min(winners)

\* Mutant of LabelNext: only the last node of a pass decides whether there is another.
LabelNextLast(edges, s, maxPasses) ==
  IF s.todo # <<>>
  THEN LET n == s.todo[1]
           label == Adopt(edges, s, n)
       IN {[s EXCEPT !.comm[n] = label, !.moved = label # s.comm[n], !.todo = Tail(@)]}
  ELSE IF s.moved /\ s.passes + 1 < maxPasses
  THEN {[s EXCEPT !.todo = SetToSortSeq(Endpoints(edges), <), !.moved = FALSE, !.passes = @ + 1]}
  ELSE {}

\* The next state of the passes; there is none at the end.
LabelNext(edges, s, maxPasses) ==
  IF s.todo # <<>>
  THEN LET n == s.todo[1]
           label == Adopt(edges, s, n)
       IN {[s EXCEPT !.comm[n] = label, !.moved = @ \/ label # s.comm[n], !.todo = Tail(@)]}
  ELSE IF s.moved /\ s.passes + 1 < maxPasses
  THEN {[s EXCEPT !.todo = SetToSortSeq(Endpoints(edges), <), !.moved = FALSE, !.passes = @ + 1]}
  ELSE {}

-----------------------------------------------------------------------------
(* What the algorithms are measured against *)

\* Nodes joined by edges in either direction, the least equivalence.
RECURSIVE Grow(_, _)
Grow(edges, S) ==
  LET T == S \cup UNION {{e[1], e[2]} : e \in {f \in ToSet(edges) : f[1] \in S \/ f[2] \in S}}
  IN IF T = S THEN S ELSE Grow(edges, T)

\* Nodes reached from S over n edges or fewer.
RECURSIVE Within(_, _, _)
Within(edges, S, n) ==
  IF n = 0 THEN S ELSE Within(edges, S \cup {e[2] : e \in {f \in ToSet(edges) : f[1] \in S}}, n - 1)

\* Modularity of an assignment, times (2m)^2.
Modularity(edges, comm) ==
  LET total(c) == FoldSet(LAMBDA n, sum : sum + Weight(edges, n), 0, {n \in DOMAIN comm : comm[n] = c})
      inner(c) == 2 * Len(SelectSeq(Proper(edges), LAMBDA e : comm[e[1]] = c /\ comm[e[2]] = c))
  IN FoldSet(LAMBDA c, sum : sum + TwoM(edges) * inner(c) - total(c) * total(c), 0, Range(comm))
=============================================================================
