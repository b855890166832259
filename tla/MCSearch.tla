------------------------------ MODULE MCSearch ------------------------------
(***************************************************************************)
(* Instances of Search for TLC: two tables, the first with two keys in use.*)
(***************************************************************************)
EXTENDS Search, TLC

CONSTANTS c1, c2, t1, t2, k1, k2, x, v, w, odd

D(text, vec) == [text |-> text, vec |-> vec]
Write(op, r, d) == [op |-> op, rec |-> r, doc |-> d]
Delete(r) == [op |-> "delete", rec |-> r]
UpdateAll(t, d) == [op |-> "update_all", table |-> t, doc |-> d]
DeleteAll(t) == [op |-> "delete_all", table |-> t]
Batch(t, d) == [op |-> "batch", table |-> t, items |-> [k \in Keys |-> d]]
DDL(op, kind, t) == [op |-> op, kind |-> kind, table |-> t]
Query(kinds, t, vec) == [op |-> "search", kinds |-> kinds, table |-> t, text |-> x, vec |-> vec]

Rec(t, k) == <<t, k>>
Both == {"text", "vector"}
NoIndexes == [t \in Tables |-> {}]
AllIndexes == [t \in Tables |-> Both]

MCVectorName == (t1 :> "vec1") @@ (t2 :> "vec2")

Quiet == [c \in Conns |-> {}]

\* One connection: every kind of statement, index DDL, no crash.
Sequential ==
  [menu |-> [Quiet EXCEPT ![c1] =
     {Write("create", Rec(t1, k1), D(x, odd)), Write("upsert", Rec(t2, k1), D(None, w)),
      Write("upsert", Rec(t1, k1), D(x, v)),
      Write("update", Rec(t1, k1), D(None, None)),
      UpdateAll(t1, D(x, w)), DeleteAll(t1), Delete(Rec(t2, k1)), Batch(t1, D(x, v))}
     \cup {DDL(op, kind, t1) : op \in {"define", "remove"}, kind \in Kinds}
     \cup {Query({"text"}, t1, v), Query(Both, t1, v), Query({"vector"}, t1, odd)}],
   catalog |-> [NoIndexes EXCEPT ![t2] = {"vector"}],
   crash |-> FALSE]

\* Two connections that write records of their own and search, with crashes.
Concurrent ==
  [menu |-> [Quiet EXCEPT
     ![c1] = {Write("upsert", Rec(t1, k1), D(x, v)), Write("update", Rec(t1, k1), D(None, w)),
              Delete(Rec(t1, k1))},
     ![c2] = {Write("create", Rec(t1, k2), D(x, v)), Delete(Rec(t1, k2)),
              Query(Both, t1, v)}],
   catalog |-> [NoIndexes EXCEPT ![t1] = Both],
   crash |-> TRUE]

MCScenario == <<Sequential, Concurrent>>

\* One connection that replaces an embedding by one of another dimension.
MCDimension ==
  <<[menu |-> [Quiet EXCEPT ![c1] = {Write("create", Rec(t1, k1), D(x, v)),
                                     Write("update", Rec(t1, k1), D(x, odd))}],
     catalog |-> AllIndexes,
     crash |-> FALSE]>>

\* The last scenario meets the hypotheses of the theorems: an index name for each
\* table, no DDL, and no record that two connections write.  Sequential is steady.
ASSUME ClientsAssumption ==
  LET menu == Scenario[Len(Scenario)].menu
  IN /\ VectorName[t1] # VectorName[t2]
     /\ \A c \in Conns : \A s \in menu[c] : s.op \notin {"define", "remove"}
     /\ \A s \in menu[c1], r \in menu[c2] : Targets(s) \cap Targets(r) = {}
     /\ Scenario = MCScenario => Steady
=============================================================================
