------------------------- MODULE MCDocumentsHistory -------------------------
(* Instances of DocumentsHistory for TLC. *)
EXTENDS DocumentsHistory, MCDocuments

\* Two connections: one writes single records, one runs batches and the
\* statements over many records.
Writer ==
  {Create(r1, D(u, v)), UpdateOne(r1, b :> u), Delete(r1)}

Reader ==
  {UpdateAll(b :> v, a :> u), DeleteWhere(b :> v), Select(a :> u), Count(a :> u),
   Batch(<<Upsert(r2, D(v, v), a :> u)>>)}

MCConcurrent == (c1 :> Writer) @@ (c2 :> Reader)

\* What the theorems about DocumentsHistory assume of clients holds here.
ASSUME ClientsAssumption ==
  StableCatalog /\ DistinctUpserts /\ WholeTuples
=============================================================================
