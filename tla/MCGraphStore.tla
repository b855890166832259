---------------------------- MODULE MCGraphStore ----------------------------
(***************************************************************************)
(* Instances of GraphStore for TLC: three vertices, two edge types.        *)
(***************************************************************************)
EXTENDS GraphStore, TLC

CONSTANTS c1, c2, a, b, d, knows, likes, p, q

E1 == <<a, knows, b>>
E2 == <<b, knows, d>>
E3 == <<b, likes, a>>

Rel(edges, props) == [op |-> "relate", edges |-> edges, props |-> props]
Del(e) == [op |-> "delete", edge |-> e]
Upd(e, props) == [op |-> "update", edge |-> e, props |-> props]
Out(t) == [dir |-> "out", type |-> t]
In(t) == [dir |-> "in", type |-> t]
Select(S, hops) == [op |-> "select", from |-> S, hops |-> hops]
Walk(S, hops) == [op |-> "walk", from |-> S, hops |-> hops]
Incoming(v, t) == [op |-> "incoming", vertex |-> v, type |-> t]

\* One connection writes, the other one reads.
Readers ==
  (c1 :> {Rel({E1}, p), Rel({E1}, Empty), Rel({E2, E3}, q), Del(E1), Del(E2),
          Upd(E1, q), [op |-> "drop", vertex |-> d], [op |-> "put", vertex |-> d]})
  @@ (c2 :> {Select({a, b}, <<Out(knows), Out(knows)>>), Select({d}, <<In(knows), In(knows)>>),
             Walk({a}, <<Out(knows), Out(likes)>>), Walk({a}, <<In(likes), Out(knows)>>),
             Incoming(b, knows)})

\* Both write, each its own deletes and updates.
Writers ==
  (c1 :> {Rel({E1, E2}, p), Del(E1), Upd(E1, q), Del(E3)})
  @@ (c2 :> {Rel({E1, E3}, q), Del(E2), Upd(E2, q), Upd(E2, Empty)})

\* Both delete and update the same edges.
Rivals == [c \in Conns |-> {Rel({E1}, p), Del(E1), Upd(E1, q), Rel({E2}, p), Del(E2)}]

MCScenario == <<Readers, Writers, Rivals>>
=============================================================================
