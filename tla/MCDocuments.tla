---------------------------- MODULE MCDocuments ----------------------------
(***************************************************************************)
(* Instances of Documents for TLC.  Two fields, one ordinary value each    *)
(* for equality and inequality, and one array value no index can encode.   *)
(***************************************************************************)
EXTENDS Documents, TLC

CONSTANTS c1, c2, r1, r2, a, b, u, v, array

Single == <<a>>
Composite == <<a, b>>

Ix(fields, unique) == [fields |-> fields, unique |-> unique]

D(x, y) == (a :> x) @@ (b :> y)

Create(i, doc) == [op |-> "create", id |-> i, doc |-> doc]
Upsert(i, doc, upd) == [op |-> "upsert", id |-> i, doc |-> doc, set |-> upd]
UpdateOne(i, upd) == [op |-> "update", id |-> i, set |-> upd]
UpdateAll(w, upd) == [op |-> "update_all", where |-> w, set |-> upd]
Delete(i) == [op |-> "delete", id |-> i]
DeleteWhere(w) == [op |-> "delete_where", where |-> w]
Select(w) == [op |-> "select", where |-> w]
Count(w) == [op |-> "count", where |-> w]
Batch(items) == [op |-> "batch", items |-> items]
Define(n, ix) == [op |-> "define", name |-> n, index |-> ix]
Remove(n) == [op |-> "remove", name |-> n]

Everything == [f \in {} |-> u]

Cat(one, two) == (1 :> one) @@ (2 :> two)

NoCatalog == {Cat(NoIndex, NoIndex)}
OneComposite == {Cat(Ix(Composite, FALSE), NoIndex)}
UniqueIndexes == {Cat(Ix(Single, TRUE), NoIndex), Cat(Ix(Composite, TRUE), NoIndex),
                  Cat(Ix(Single, TRUE), Ix(Composite, TRUE))}

Queries == {Select(a :> u), Select((a :> u) @@ (b :> v)), Select(b :> u), Select(a :> array),
            Count(a :> u), Count((a :> u) @@ (b :> v)), Count(b :> v), Count(Everything)}

\* One connection, every kind of statement.  Left out, as the code is not exact for
\* them: a redefined index name, a batch CREATE of an existing record, and a
\* document without the second field of the composite index (MCPartialTuple).
SequentialStatements ==
  {Create(i, d) : i \in Ids, d \in {D(u, v), D(Missing, v), D(array, u)}}
  \cup {Upsert(i, D(u, u), b :> v) : i \in Ids}
  \cup {UpdateOne(i, s) : i \in Ids, s \in {a :> v, a :> Missing, a :> array}}
  \cup {UpdateAll(w, a :> u) : w \in {Everything, b :> v}}
  \cup {Delete(r1)}
  \cup {DeleteWhere(w) : w \in {(a :> u) @@ (b :> v), b :> v}}
  \cup {Batch(<<Upsert(r1, D(u, v), a :> v), Upsert(r2, D(v, v), b :> u)>>)}
  \cup {Define(1, Ix(Single, unique)) : unique \in BOOLEAN}
  \cup {Define(2, Ix(Composite, unique)) : unique \in BOOLEAN}
  \cup {Remove(1), Remove(2)}
  \cup Queries

MCSequential == [c \in Conns |-> SequentialStatements]

\* One connection that also updates.
MCUniqueUpdate ==
  [c \in Conns |-> {Create(i, D(w, v)) : i \in Ids, w \in {u, v}} \cup {UpdateOne(r1, a :> u)}]

\* DEFINE INDEX while another connection creates.
MCDefineRace == (c1 :> {Create(r1, D(u, v))}) @@ (c2 :> {Define(1, Ix(Single, FALSE))})

\* One connection, a document without the second field of the composite index.
MCPartialTuple == [c \in Conns |-> {Create(r1, D(u, Missing)), Select(a :> u)}]

\* The sequential clients meet what the theorems about one connection assume.
ASSUME SequentialAssumption ==
  Statements = MCSequential => OneConnection /\ SettledNames /\ DistinctUpserts /\ WholeTuples
=============================================================================
