--------------------- MODULE DocumentsSequentialProofs ---------------------
(***************************************************************************)
(* What a single connection may rely on, index DDL and crashes included:   *)
(* its writes change what they are meant to, its indexes mirror the        *)
(* records, and its queries answer like table scans.                       *)
(***************************************************************************)
EXTENDS DocumentsProofs

-----------------------------------------------------------------------------
(* What the connection has read is still so when it writes *)

\* The stored records a clause selects.
Meets(w, d) == {i \in Ids : d[i] # NoDoc /\ Matches(d[i], w)}

\* No other record holds doc's values of the index.
Free(i, doc, ix, d) ==
  \A j \in Ids \ {i} : d[j] # NoDoc /\ Complete(d[j], ix) => Tuple(d[j], ix) # Tuple(doc, ix)

\* Two records hold the same values of the index.
Twins(ix, d) ==
  \E i, j \in Ids : /\ i # j
                    /\ d[i] # NoDoc /\ Complete(d[i], ix)
                    /\ d[j] # NoDoc /\ Complete(d[j], ix)
                    /\ Tuple(d[i], ix) = Tuple(d[j], ix)

\* The catalog of one index that the backfill of DEFINE INDEX works with.
Only(n, ix) == [m \in Names |-> IF m = n THEN ix ELSE NoIndex]

\* What a connection at p, running s with locals l, knows of the records d and the
\* catalog cat: the catalog it loaded, the version it is about to write over, the
\* rows it may delete, the values found free, the entries it has prepared.
SerialOK(p, s, l, d, cat) ==
  /\ p \in {"idle", "load", "define"} => l = Fresh
  /\ p \notin {"idle", "load", "define", "define_commit"} => l.idx = cat
  /\ p = "write" => l.cur \in l.rows /\ l.old = d[l.cur]
  /\ p \in {"get", "write"} /\ s.op = "delete_where" => l.rows \subseteq Meets(s.where, d)
  /\ p = "unique" => /\ d[s.id] = NoDoc
                     /\ \A n \in Indexing(s.doc, cat) :
                          cat[n].unique /\ n \notin l.checks => Free(s.id, s.doc, cat[n], d)
  /\ p \in {"item", "item_get"} => Queued(l)
  /\ p = "define_commit" =>
       /\ \A i \in Ids : d[i] # NoDoc => IndexEntries(i, d[i], Only(s.name, s.index)) \subseteq l.bput
       /\ s.index.unique => ~Twins(s.index, d)
  /\ p = "remove_commit" => \A e \in l.bdel : e.name = s.name

SerialInv ==
  /\ TypeInv
  /\ IndexComplete
  /\ \A c \in Conns : SerialOK(pc[c], stmt[c], loc[c], docs, catalog)

\* The connection's own part of the invariant after a step.
OwnSerial(c) == SerialOK(pc'[c], stmt[c], loc'[c], docs', catalog')

LEMMA MeetsIs == \A w : Matching(w) = Meets(w, docs)
BY DEF Matching, Meets

LEMMA TwinsIs == \A ix : Duplicates(ix) <=> Twins(ix, docs)
BY DEF Duplicates, Twins

LEMMA FreshSerial ==
  ASSUME NEW p \in {"idle", "load", "define"}, NEW s, NEW d, NEW cat
  PROVE  SerialOK(p, s, Fresh, d, cat)
BY DEF SerialOK

LEMMA SerialParts ==
  ASSUME SerialInv, NEW c \in Conns
  PROVE  /\ TypeInv
         /\ IndexComplete
         /\ loc[c] \in Local
         /\ catalog \in Catalog
         /\ docs \in [Ids -> Doc \cup {NoDoc}]
         /\ SerialOK(pc[c], stmt[c], loc[c], docs, catalog)
BY TypeInvParts DEF SerialInv, LocalOK, StoreOK

LEMMA AdvanceSerial ==
  ASSUME TypeInv, NEW c \in Conns, loc[c].idx = catalog', NEW left, Advance(c, left),
         stmt[c].op = "delete_where" => left \subseteq Meets(stmt[c].where, docs')
  PROVE  OwnSerial(c)
<1>1. loc[c] \in Local
  BY TypeInvParts DEF LocalOK
<1>2. CASE pc'[c] = "idle" /\ loc'[c] = Fresh
  BY <1>2, FreshSerial DEF OwnSerial
<1>3. CASE /\ pc'[c] = "get"
           /\ loc'[c] = [loc[c] EXCEPT !.rows = left, !.cur = NoId, !.old = NoDoc]
  <2>1. loc'[c].idx = loc[c].idx /\ loc'[c].rows = left
    BY <1>1, <1>3 DEF Local
  <2> QED
    BY <1>3, <2>1 DEF OwnSerial, SerialOK
<1> QED
  BY <1>2, <1>3, AdvanceFacts

LEMMA ReturnSerial ==
  ASSUME TypeInv, NEW c \in Conns, NEW r, Return(c, r)
  PROVE  OwnSerial(c)
BY ReturnFacts, FreshSerial DEF OwnSerial

LEMMA OkSerial ==
  ASSUME TypeInv, NEW c \in Conns, Ok(c) \/ Fail(c)
  PROVE  OwnSerial(c)
BY ReturnSerial DEF Ok, Fail

LEMMA DeliverSerial ==
  ASSUME TypeInv, NEW c \in Conns, loc[c].idx = catalog', NEW ids, NEW n, Deliver(c, ids, n),
         ids \subseteq Meets(stmt[c].where, docs')
  PROVE  OwnSerial(c)
BY ReturnSerial, AdvanceSerial DEF Deliver

LEMMA LoadSerial ==
  ASSUME SerialInv, NEW c \in Conns, Load(c)
  PROVE  OwnSerial(c)
<1> DEFINE s == stmt[c]
           R == IF s.op \in {"upsert", "update", "delete"} THEN {s.id} ELSE {}
           l == [loc[c] EXCEPT !.idx = catalog, !.rows = R]
<1>1. Goto(c, FirstLabel(s.op), l) /\ pc[c] = "load" /\ catalog' = catalog
  BY DEF Load, At, store
<1>2. loc[c] = Fresh /\ TypeInv
  BY <1>1, SerialParts DEF SerialOK
<1>3. l.idx = catalog /\ Queued(l)
  BY <1>2 DEF Fresh, Queued
<1>4. /\ FirstLabel(s.op) \in {"contains", "probe", "scan", "get", "item", "remove_scan", "lookup"}
      /\ FirstLabel(s.op) = "get" => s.op = "delete"
  BY DEF FirstLabel
<1>5. pc'[c] = FirstLabel(s.op) /\ loc'[c] = l
  BY <1>1, <1>2, GotoFacts
<1> HIDE DEF l
<1> QED
  BY <1>1, <1>3, <1>4, <1>5 DEF OwnSerial, SerialOK

LEMMA ContainsSerial ==
  ASSUME SerialInv, NEW c \in Conns, Contains(c)
  PROVE  OwnSerial(c)
<1> DEFINE s == stmt[c]
           C == {n \in Indexing(s.doc, loc[c].idx) : loc[c].idx[n].unique}
           l == [loc[c] EXCEPT !.checks = C]
<1>1. TypeInv /\ loc[c] \in Local /\ loc[c].idx = catalog
  BY SerialParts DEF SerialOK, Contains, At
<1>2. CASE Fail(c)
  BY <1>1, <1>2, OkSerial
<1>3. CASE docs[s.id] = NoDoc /\ Goto(c, "unique", l) /\ UNCHANGED store
  <2>1. l.idx = catalog /\ l.checks = C
    BY <1>1 DEF Local
  <2>2. pc'[c] = "unique" /\ loc'[c] = l /\ docs' = docs /\ catalog' = catalog
    BY <1>1, <1>3, GotoFacts DEF store
  <2>3. \A n \in Indexing(s.doc, catalog) : catalog[n].unique => n \in C
    BY <1>1
  <2> HIDE DEF l, C
  <2> QED
    BY <1>3, <2>1, <2>2, <2>3 DEF OwnSerial, SerialOK
<1> QED
  BY <1>2, <1>3 DEF Contains

\* The probe of a unique index sees every record with the value: no index misses one.
LEMMA UntakenFree ==
  ASSUME TypeInv, IndexComplete, NEW n \in Names, catalog[n] # NoIndex, NEW doc, NEW i \in Ids,
         ~Taken(n, Tuple(doc, catalog[n]), Len(catalog[n].fields), i)
  PROVE  Free(i, doc, catalog[n], docs)
<1> DEFINE ix == catalog[n]
<1> SUFFICES ASSUME NEW j \in Ids \ {i}, docs[j] # NoDoc, Complete(docs[j], ix),
                    Tuple(docs[j], ix) = Tuple(doc, ix)
             PROVE  FALSE
  BY DEF Free
<1> DEFINE t == Tuple(doc, ix)
           e == [name |-> n, key |-> t, id |-> j]
<1>1. Len(ix.fields) \in Nat
  BY DEF TypeInv, TypeOK, Catalog, Index
<1>2. Len(t) = Len(ix.fields)
  BY <1>1 DEF Tuple
<1>3. e \in entries
  BY DEF IndexComplete, IndexEntries, Indexing
<1> HIDE DEF t
<1>4. e \in Hits(n, t, Len(ix.fields))
  BY <1>1, <1>2, <1>3 DEF Hits
<1> QED
  BY <1>4 DEF Taken, t

LEMMA CheckUniqueSerial ==
  ASSUME SerialInv, NEW c \in Conns, CheckUnique(c)
  PROVE  OwnSerial(c)
<1> DEFINE s == stmt[c]
<1>1. TypeInv /\ IndexComplete /\ loc[c] \in Local /\ loc[c].idx = catalog /\ pc[c] = "unique"
  BY SerialParts DEF SerialOK, CheckUnique, At
<1>2. CASE Fail(c)
  BY <1>1, <1>2, OkSerial
<1>3. CASE ~Fail(c)
  <2>1. PICK n \in loc[c].checks :
          /\ ~Taken(n, Tuple(s.doc, catalog[n]), Len(catalog[n].fields), s.id)
          /\ Goto(c, "unique", [loc[c] EXCEPT !.checks = @ \ {n}])
          /\ UNCHANGED store
    BY <1>1, <1>3 DEF CheckUnique
  <2> DEFINE l == [loc[c] EXCEPT !.checks = @ \ {n}]
  <2>2. l.idx = catalog /\ l.checks = loc[c].checks \ {n} /\ n \in Names
    BY <1>1 DEF Local
  <2>3. pc'[c] = "unique" /\ loc'[c] = l /\ docs' = docs /\ catalog' = catalog
    BY <1>1, <2>1, GotoFacts DEF store
  <2>4. s.id \in Ids
    BY <1>1, TypeInvParts, StatementTypes DEF OpsAt
  <2>5. catalog[n] # NoIndex => Free(s.id, s.doc, catalog[n], docs)
    BY <1>1, <2>1, <2>2, <2>4, UntakenFree
  <2>6. /\ docs[s.id] = NoDoc
        /\ \A m \in Indexing(s.doc, catalog) :
             catalog[m].unique /\ m \notin loc[c].checks => Free(s.id, s.doc, catalog[m], docs)
    BY <1>1, SerialParts DEF SerialOK
  <2>7. \A m \in Indexing(s.doc, catalog) : catalog[m] # NoIndex
    BY DEF Indexing
  <2> HIDE DEF l
  <2> QED
    BY <2>2, <2>3, <2>5, <2>6, <2>7 DEF OwnSerial, SerialOK
<1> QED
  BY <1>2, <1>3

LEMMA ProbeScanSerial ==
  ASSUME SerialInv, NEW c \in Conns, Probe(c) \/ Scan(c)
  PROVE  OwnSerial(c)
<1>1. TypeInv /\ loc[c] \in Local /\ loc[c].idx = catalog
  BY SerialParts DEF SerialOK, Probe, Scan, At
<1>2. docs' = docs /\ catalog' = catalog
  BY DEF Probe, Scan, store
<1>3. stmt[c].op # "delete_where"
  BY <1>1, TypeInvParts DEF OpsAt, Probe, Scan, At
<1>4. CASE Probe(c)
  <2>1. CASE Goto(c, "get", loc[c])
    <3>1. pc'[c] = "get" /\ loc'[c] = loc[c]
      BY <1>1, <2>1, GotoFacts
    <3> QED
      BY <1>1, <1>2, <1>3, <3>1 DEF OwnSerial, SerialOK
  <2>2. CASE Goto(c, "contains", [loc[c] EXCEPT !.rows = {}])
    <3>1. pc'[c] = "contains" /\ loc'[c].idx = loc[c].idx
      BY <1>1, <2>2, GotoFacts DEF Local
    <3> QED
      BY <1>1, <1>2, <3>1 DEF OwnSerial, SerialOK
  <2>3. CASE Ok(c)
    BY <1>1, <2>3, OkSerial
  <2> QED
    BY <1>4, <2>1, <2>2, <2>3 DEF Probe
<1>5. CASE Scan(c)
  BY <1>1, <1>2, <1>3, <1>5, AdvanceSerial DEF Scan
<1> QED
  BY <1>4, <1>5

LEMMA GetSerial ==
  ASSUME SerialInv, NEW c \in Conns, Get(c)
  PROVE  OwnSerial(c)
<1>1. TypeInv /\ loc[c] \in Local /\ loc[c].idx = catalog /\ docs' = docs /\ catalog' = catalog
  BY SerialParts DEF SerialOK, Get, At, store
<1>2. stmt[c].op = "delete_where" => loc[c].rows \subseteq Meets(stmt[c].where, docs)
  BY SerialParts DEF SerialOK, Get, At
<1>3. PICK i \in loc[c].rows :
        \/ Goto(c, "write", [loc[c] EXCEPT !.cur = i, !.old = docs[i]])
        \/ Advance(c, loc[c].rows \ {i})
        \/ Fail(c)
  BY DEF Get
<1>4. CASE Fail(c)
  BY <1>1, <1>4, OkSerial
<1>5. CASE Advance(c, loc[c].rows \ {i})
  BY <1>1, <1>2, <1>5, AdvanceSerial
<1>6. CASE Goto(c, "write", [loc[c] EXCEPT !.cur = i, !.old = docs[i]])
  <2> DEFINE m == [loc[c] EXCEPT !.cur = i, !.old = docs[i]]
  <2>1. m.idx = loc[c].idx /\ m.rows = loc[c].rows /\ m.cur = i /\ m.old = docs[i]
    BY <1>1 DEF Local
  <2>2. pc'[c] = "write" /\ loc'[c] = m
    BY <1>1, <1>6, GotoFacts
  <2> HIDE DEF m
  <2> QED
    BY <1>1, <1>2, <2>1, <2>2 DEF OwnSerial, SerialOK
<1> QED
  BY <1>3, <1>4, <1>5, <1>6

LEMMA WriteSerial ==
  ASSUME SerialInv, NEW c \in Conns, Replace(c) \/ Erase(c)
  PROVE  OwnSerial(c) /\ IndexComplete'
<1> DEFINE l == loc[c]
<1>1. TypeInv /\ IndexComplete /\ l.idx = catalog /\ pc[c] = "write"
  BY SerialParts DEF SerialOK, Replace, Erase, At
<1>2. stmt[c].op = "delete_where" => l.rows \subseteq Meets(stmt[c].where, docs)
  BY <1>1, SerialParts DEF SerialOK
<1>3. IndexComplete'
  BY <1>1, WriteComplete
<1>4. CASE Fail(c)
  BY <1>1, <1>3, <1>4, OkSerial
<1>5. CASE ~Fail(c)
  <2>1. PICK new : /\ docs' = [docs EXCEPT ![l.cur] = new]
                   /\ catalog' = catalog
                   /\ Advance(c, l.rows \ {l.cur})
    BY <1>5, WriteSteps
  <2>2. \A i \in Ids \ {l.cur} : docs'[i] = docs[i]
    BY <2>1, SerialParts
  <2>3. stmt[c].op = "delete_where" => l.rows \ {l.cur} \subseteq Meets(stmt[c].where, docs')
    BY <1>2, <2>2 DEF Meets
  <2> QED
    BY <1>1, <1>3, <2>1, <2>3, AdvanceSerial
<1> QED
  BY <1>4, <1>5

LEMMA QuerySerial ==
  ASSUME SerialInv, NEW c \in Conns, Lookup(c) \/ Fetch(c)
  PROVE  OwnSerial(c)
<1> DEFINE w == stmt[c].where
<1>1. TypeInv /\ loc[c] \in Local /\ loc[c].idx = catalog
  BY SerialParts DEF SerialOK, Lookup, Fetch, At
<1>2. docs' = docs /\ catalog' = catalog
  BY DEF Lookup, Fetch, store
<1>3. CASE Lookup(c)
  <2>1. \/ Deliver(c, Matching(w), Cardinality(Matching(w)))
        \/ Deliver(c, {}, Cardinality(PlanHits(loc[c].idx, w)))
        \/ Goto(c, "fetch", [loc[c] EXCEPT !.hits = PlanHits(loc[c].idx, w)])
    BY <1>3 DEF Lookup
  <2>2. CASE Goto(c, "fetch", [loc[c] EXCEPT !.hits = PlanHits(loc[c].idx, w)])
    <3>1. pc'[c] = "fetch" /\ loc'[c].idx = loc[c].idx
      BY <1>1, <2>2, GotoFacts DEF Local
    <3> QED
      BY <1>1, <1>2, <3>1 DEF OwnSerial, SerialOK
  <2>3. ASSUME NEW ids, NEW n, Deliver(c, ids, n), ids \subseteq Matching(w) PROVE OwnSerial(c)
    <3>1. ids \subseteq Meets(w, docs')
      BY <1>2, <2>3, MeetsIs
    <3> QED
      BY <1>1, <1>2, <2>3, <3>1, DeliverSerial
  <2> QED
    BY <2>1, <2>2, <2>3
<1>4. CASE Fetch(c)
  <2> DEFINE fieldCount == Len(loc[c].idx[Plan(loc[c].idx, w)].fields)
             found == {e \in loc[c].hits : Len(e.key) = fieldCount /\ e.id \in Matching(w)}
             ids == {e.id : e \in found}
             n == Cardinality(found)
  <2>1. Deliver(c, ids, n)
    BY <1>4 DEF Fetch
  <2>2. ids \subseteq Meets(w, docs')
    BY <1>2, MeetsIs
  <2> HIDE DEF ids, n
  <2> QED
    BY SMTT(30), <1>1, <1>2, <2>1, <2>2, DeliverSerial
<1> QED
  BY SMTT(30), <1>3, <1>4

LEMMA BatchSerial ==
  ASSUME SerialInv, NEW c \in Conns, PrepareItem(c) \/ MergeItem(c)
  PROVE  OwnSerial(c)
<1> DEFINE it == stmt[c].items[loc[c].pos]
<1>1. TypeInv /\ loc[c] \in Local
  BY SerialParts
<1>2. /\ pc[c] \in {"item", "item_get"}
      /\ UNCHANGED store
      /\ it.id \in Ids
      /\ \/ Fail(c)
         \/ Goto(c, "item_get", loc[c])
         \/ \E doc \in Doc : \E dels : Queue(c, it.id, doc, dels) /\ \A e \in dels : e.id = it.id
  BY <1>1, BatchSteps
<1> HIDE DEF it
<1>3. loc[c].idx = catalog /\ Queued(loc[c]) /\ docs' = docs /\ catalog' = catalog
  BY <1>2, SerialParts DEF SerialOK, store
<1>4. CASE Fail(c)
  BY <1>1, <1>4, OkSerial
<1>5. CASE Goto(c, "item_get", loc[c])
  <2>1. pc'[c] = "item_get" /\ loc'[c] = loc[c]
    BY <1>1, <1>5, GotoFacts
  <2> QED
    BY <1>3, <2>1 DEF OwnSerial, SerialOK
<1>6. ASSUME NEW doc \in Doc, NEW dels, Queue(c, it.id, doc, dels), \A e \in dels : e.id = it.id
      PROVE  OwnSerial(c)
  <2> DEFINE l == loc[c]
             i == it.id
             m == [l EXCEPT !.pos = @ + 1, !.bdocs[i] = doc,
                            !.bput = @ \cup IndexEntries(i, doc, l.idx), !.bdel = @ \cup dels]
  <2>1. Queued(m)
    BY <1>1, <1>2, <1>3, <1>6, QueueQueued
  <2>2. m.idx = catalog
    BY <1>1, <1>3 DEF Local
  <2>3. Goto(c, "item", m)
    BY <1>6 DEF Queue
  <2> HIDE DEF m
  <2>4. pc'[c] = "item" /\ loc'[c] = m
    BY <1>1, <2>3, GotoFacts
  <2> QED
    BY <1>3, <2>1, <2>2, <2>4 DEF OwnSerial, SerialOK
<1> QED
  BY <1>2, <1>4, <1>5, <1>6

LEMMA DefineScanSerial ==
  ASSUME SerialInv, NEW c \in Conns, DefineScan(c)
  PROVE  OwnSerial(c)
<1> DEFINE s == stmt[c]
           cat == Only(s.name, s.index)
           stored == {i \in Ids : docs[i] # NoDoc}
           puts == UNION {IndexEntries(i, docs[i], cat) : i \in stored}
           m == [loc[c] EXCEPT !.bput = puts]
<1>1. TypeInv /\ loc[c] \in Local /\ docs' = docs
  BY SerialParts DEF DefineScan, store
<1>2. Fail(c) \/ (Goto(c, "define_commit", m) /\ (s.index.unique => ~Twins(s.index, docs)))
  BY TwinsIs DEF DefineScan, Only
<1>3. CASE Fail(c)
  BY <1>1, <1>3, OkSerial
<1>4. CASE Goto(c, "define_commit", m) /\ (s.index.unique => ~Twins(s.index, docs))
  <2>1. pc'[c] = "define_commit" /\ loc'[c] = m
    BY <1>1, <1>4, GotoFacts
  <2>2. m.bput = puts
    BY <1>1 DEF Local
  <2>3. \A i \in Ids : docs[i] # NoDoc => IndexEntries(i, docs[i], cat) \subseteq puts
    OBVIOUS
  <2> HIDE DEF m, puts
  <2> QED
    BY <1>1, <1>4, <2>1, <2>2, <2>3 DEF OwnSerial, SerialOK
<1> QED
  BY <1>2, <1>3, <1>4

\* The backfill is complete: between its scan and its write nothing is stored.
LEMMA DefineCommitSerial ==
  ASSUME SerialInv, NEW c \in Conns, DefineCommit(c)
  PROVE  OwnSerial(c) /\ IndexComplete'
<1> DEFINE s == stmt[c]
<1>1. TypeInv /\ IndexComplete /\ catalog \in Catalog
  BY SerialParts
<1>2. \A i \in Ids : docs[i] # NoDoc => IndexEntries(i, docs[i], Only(s.name, s.index)) \subseteq loc[c].bput
  BY SerialParts DEF SerialOK, DefineCommit, At
<1>3. /\ catalog' = [catalog EXCEPT ![s.name] = s.index]
      /\ entries' = entries \cup loc[c].bput
      /\ docs' = docs
      /\ Ok(c)
  BY DEF DefineCommit, WriteBatch
<1>4. ASSUME NEW i \in Ids, docs[i] # NoDoc, NEW e \in IndexEntries(i, docs[i], catalog')
      PROVE  e \in entries'
  <2>1. PICK n \in Indexing(docs[i], catalog') :
          e = [name |-> n, key |-> Tuple(docs[i], catalog'[n]), id |-> i]
    BY <1>4 DEF IndexEntries
  <2>2. n \in Names /\ catalog'[n] # NoIndex /\ Complete(docs[i], catalog'[n])
    BY DEF Indexing
  <2>3. CASE n = s.name
    <3>1. catalog'[n] = s.index /\ Only(s.name, s.index)[n] = s.index
      BY <1>1, <1>3, <2>2, <2>3 DEF Catalog, Only
    <3>2. e \in IndexEntries(i, docs[i], Only(s.name, s.index))
      BY <2>1, <2>2, <3>1 DEF IndexEntries, Indexing
    <3> QED
      BY <1>2, <1>3, <1>4, <3>2
  <2>4. CASE n # s.name
    <3>1. catalog'[n] = catalog[n]
      BY <1>1, <1>3, <2>2, <2>4 DEF Catalog
    <3>2. e \in IndexEntries(i, docs[i], catalog)
      BY <2>1, <2>2, <3>1 DEF IndexEntries, Indexing
    <3> QED
      BY <1>1, <1>3, <1>4, <3>2 DEF IndexComplete
  <2> QED
    BY <2>3, <2>4
<1>5. IndexComplete'
  BY <1>3, <1>4 DEF IndexComplete
<1> QED
  BY <1>1, <1>3, <1>5, OkSerial

LEMMA RemoveSerial ==
  ASSUME SerialInv, NEW c \in Conns, RemoveScan(c) \/ RemoveCommit(c)
  PROVE  OwnSerial(c) /\ IndexComplete'
<1> DEFINE s == stmt[c]
<1>1. TypeInv /\ IndexComplete /\ catalog \in Catalog /\ loc[c] \in Local
  BY SerialParts
<1>2. CASE RemoveScan(c)
  <2> DEFINE dels == {e \in entries : e.name = s.name}
             m == [loc[c] EXCEPT !.bdel = dels]
  <2>1. Goto(c, "remove_commit", m) /\ UNCHANGED store
    BY <1>2 DEF RemoveScan
  <2>2. IndexComplete' /\ catalog' = catalog
    BY <1>1, <2>1, CompleteKept DEF store
  <2>3. m.bdel = dels /\ m.idx = catalog
    BY <1>1, <1>2, SerialParts DEF Local, SerialOK, RemoveScan, At
  <2>4. pc'[c] = "remove_commit" /\ loc'[c] = m
    BY <1>1, <2>1, GotoFacts
  <2> HIDE DEF m
  <2> QED
    BY <2>2, <2>3, <2>4 DEF OwnSerial, SerialOK
<1>3. CASE RemoveCommit(c)
  <2>1. /\ catalog' = [catalog EXCEPT ![s.name] = NoIndex]
        /\ entries' = entries \ loc[c].bdel
        /\ docs' = docs
        /\ Ok(c)
    BY <1>3 DEF RemoveCommit, WriteBatch
  <2>2. \A e \in loc[c].bdel : e.name = s.name
    BY <1>3, SerialParts DEF SerialOK, RemoveCommit, At
  <2>3. ASSUME NEW i \in Ids, docs[i] # NoDoc, NEW e \in IndexEntries(i, docs[i], catalog')
        PROVE  e \in entries'
    <3>1. PICK n \in Indexing(docs[i], catalog') :
            e = [name |-> n, key |-> Tuple(docs[i], catalog'[n]), id |-> i]
      BY <2>3 DEF IndexEntries
    <3>2. n \in Names /\ catalog'[n] # NoIndex /\ Complete(docs[i], catalog'[n])
      BY DEF Indexing
    <3>3. n # s.name /\ catalog'[n] = catalog[n]
      BY <1>1, <2>1, <3>2 DEF Catalog
    <3>4. e \in IndexEntries(i, docs[i], catalog) /\ e.name = n
      BY <3>1, <3>2, <3>3 DEF IndexEntries, Indexing
    <3> QED
      BY <1>1, <2>1, <2>2, <2>3, <3>3, <3>4 DEF IndexComplete
  <2>4. IndexComplete'
    BY <2>1, <2>3 DEF IndexComplete
  <2> QED
    BY <1>1, <2>1, <2>4, OkSerial
<1> QED
  BY <1>2, <1>3

LEMMA PutSerial ==
  ASSUME SerialInv, NEW c \in Conns, Insert(c) \/ CommitBatch(c)
  PROVE  OwnSerial(c) /\ IndexComplete'
<1>1. TypeInv /\ IndexComplete /\ loc[c].idx = catalog
  BY SerialParts DEF SerialOK, Insert, CommitBatch, At
<1>2. CASE Insert(c)
  BY <1>1, <1>2, InsertComplete, OkSerial DEF Insert
<1>3. CASE CommitBatch(c)
  <2>1. Queued(loc[c])
    BY <1>3, SerialParts DEF SerialOK, CommitBatch, At
  <2> QED
    BY <1>1, <1>3, <2>1, CommitComplete, OkSerial DEF CommitBatch
<1> QED
  BY <1>2, <1>3

LEMMA StepSerial ==
  ASSUME SerialInv, NEW c \in Conns, Step(c)
  PROVE  OwnSerial(c) /\ IndexComplete'
<1>1. TypeInv /\ IndexComplete
  BY SerialParts
<1>2. CASE \/ Load(c) \/ Contains(c) \/ CheckUnique(c) \/ Probe(c) \/ Scan(c) \/ Get(c)
           \/ Lookup(c) \/ Fetch(c) \/ PrepareItem(c) \/ MergeItem(c) \/ DefineScan(c)
  <2>1. UNCHANGED store
    BY ZenonT(60), <1>2 DEF Load, Contains, CheckUnique, Probe, Scan, Get, Lookup, Fetch, PrepareItem,
                MergeItem, DefineScan, Fail
  <2> QED
    BY SMTT(30), <1>1, <1>2, <2>1, CompleteKept, LoadSerial, ContainsSerial, CheckUniqueSerial,
       ProbeScanSerial, GetSerial, QuerySerial, BatchSerial, DefineScanSerial
<1> QED
  BY <1>2, WriteSerial, PutSerial, DefineCommitSerial, RemoveSerial DEF Step

LEMMA SerialInvInit == Init => SerialInv
<1> SUFFICES ASSUME Init PROVE SerialInv
  OBVIOUS
<1>1. IndexComplete
  BY DEF Init, IndexComplete
<1>2. \A c \in Conns : pc[c] = "idle" /\ loc[c] = Fresh
  BY DEF Init
<1>3. ASSUME NEW c \in Conns PROVE SerialOK(pc[c], stmt[c], loc[c], docs, catalog)
  BY <1>2, FreshSerial
<1> QED
  BY <1>1, <1>3, TypeInvInit DEF SerialInv

LEMMA SerialInvNext ==
  ASSUME OneConnection, SerialInv, [Next]_vars
  PROVE  SerialInv'
<1>1. TypeInv'
  BY TypeInvNext DEF SerialInv
<1>2. CASE UNCHANGED vars
  BY <1>1, <1>2 DEF vars, store, SerialInv, IndexComplete
<1>3. CASE Crash
  <2>1. IndexComplete'
    BY <1>3, CompleteKept DEF Crash, SerialInv
  <2>2. \A c \in Conns : pc'[c] = "idle" /\ loc'[c] = Fresh
    BY <1>3 DEF Crash
  <2>3. ASSUME NEW c \in Conns PROVE SerialOK(pc'[c], stmt'[c], loc'[c], docs', catalog')
    BY <2>2, FreshSerial
  <2> QED
    BY <1>1, <2>1, <2>3 DEF SerialInv
<1>4. ASSUME NEW c \in Conns, Begin(c) PROVE SerialInv'
  <2>1. IndexComplete' /\ loc' = loc
    BY <1>4, CompleteKept DEF Begin, SerialInv
  <2>2. pc'[c] \in {"load", "define"}
    BY <1>4, SerialParts DEF Begin, TypeInv, TypeOK
  <2>3. loc[c] = Fresh
    BY <1>4, SerialParts DEF Begin, At, SerialOK
  <2>4. SerialOK(pc'[c], stmt'[c], loc'[c], docs', catalog')
    BY <2>1, <2>2, <2>3, FreshSerial
  <2> QED
    BY <1>1, <2>1, <2>4 DEF SerialInv, OneConnection
<1>5. ASSUME NEW c \in Conns, Step(c) PROVE SerialInv'
  <2>1. OwnSerial(c) /\ IndexComplete' /\ stmt' = stmt
    BY <1>5, StepSerial, StepFacts DEF SerialInv
  <2>2. SerialOK(pc'[c], stmt'[c], loc'[c], docs', catalog')
    BY <2>1 DEF OwnSerial
  <2> QED
    BY <1>1, <2>1, <2>2 DEF SerialInv, OneConnection
<1> QED
  BY <1>2, <1>3, <1>4, <1>5 DEF Next

\* The three parts of WritesPrecise, for one step.
MergesPreserve ==
  \A c \in Conns : Replace(c) /\ reply'[c].outcome # "error"
    => \A f \in Fields \ DOMAIN stmt[c].set :
         docs[loc[c].cur] # NoDoc /\ docs'[loc[c].cur][f] = docs[loc[c].cur][f]

DeletesMatch ==
  \A c \in Conns : Erase(c) /\ stmt[c].op = "delete_where"
    => loc[c].cur \in Matching(stmt[c].where)

CreatesKeep ==
  (\E c \in Conns : Insert(c) \/ DefineCommit(c)) /\ UniqueValues => UniqueValues'

LEMMA SerialMerges == SerialInv => MergesPreserve
<1> SUFFICES ASSUME SerialInv, NEW c \in Conns, Replace(c), reply'[c].outcome # "error",
                    NEW f \in Fields \ DOMAIN stmt[c].set
             PROVE  docs[loc[c].cur] # NoDoc /\ docs'[loc[c].cur][f] = docs[loc[c].cur][f]
  BY DEF MergesPreserve
<1> DEFINE l == loc[c]
<1>1. pc[c] = "write" /\ TypeInv /\ l.old = docs[l.cur] /\ docs \in [Ids -> Doc \cup {NoDoc}]
  BY SerialParts DEF SerialOK, Replace, At
<1>2. l.cur \in Ids /\ l.old \in Doc
  BY <1>1, WriteFacts DEF At
<1>3. ~Fail(c)
  BY <1>1, FailFacts
<1>4. docs' = [docs EXCEPT ![l.cur] = Merged(l.old, stmt[c].set)]
  BY <1>3 DEF Replace
<1>5. docs'[l.cur] = Merged(l.old, stmt[c].set)
  BY <1>1, <1>2, <1>4
<1>6. Merged(l.old, stmt[c].set)[f] = l.old[f]
  BY DEF Merged
<1> QED
  BY <1>1, <1>2, <1>5, <1>6, ValuesAssumption

LEMMA SerialDeletes == SerialInv => DeletesMatch
<1> SUFFICES ASSUME SerialInv, NEW c \in Conns, Erase(c), stmt[c].op = "delete_where"
             PROVE  loc[c].cur \in Matching(stmt[c].where)
  BY DEF DeletesMatch
<1> QED
  BY SerialParts, MeetsIs DEF SerialOK, Erase, At

LEMMA SerialCreates == SerialInv => CreatesKeep
<1> SUFFICES ASSUME SerialInv, UniqueValues, NEW c \in Conns, Insert(c) \/ DefineCommit(c)
             PROVE  UniqueValues'
  BY DEF CreatesKeep
<1> DEFINE s == stmt[c]
<1>1. TypeInv /\ docs \in [Ids -> Doc \cup {NoDoc}] /\ catalog \in Catalog
  BY SerialParts
<1>2. CASE Fail(c)
  BY <1>2 DEF Fail, store, UniqueValues, Duplicates
<1>3. CASE Insert(c) /\ ~Fail(c)
  <2>1. docs' = [docs EXCEPT ![s.id] = s.doc] /\ catalog' = catalog /\ loc[c].checks = {}
    BY <1>3 DEF Insert
  <2>2. /\ docs[s.id] = NoDoc
        /\ \A n \in Indexing(s.doc, catalog) : catalog[n].unique => Free(s.id, s.doc, catalog[n], docs)
    BY <1>3, <2>1, SerialParts DEF SerialOK, Insert, At
  <2>3. s.id \in Ids
    BY <1>1, <1>3, TypeInvParts, StatementTypes DEF OpsAt, Insert, At
  <2>4. \A j \in Ids : docs'[j] = IF j = s.id THEN s.doc ELSE docs[j]
    BY <1>1, <2>1
  <2>5. ASSUME NEW n \in Names, catalog[n] # NoIndex, catalog[n].unique, Twins(catalog[n], docs')
        PROVE  FALSE
    <3> DEFINE ix == catalog[n]
    <3>1. PICK i \in Ids, j \in Ids : /\ i # j
                                      /\ docs'[i] # NoDoc /\ Complete(docs'[i], ix)
                                      /\ docs'[j] # NoDoc /\ Complete(docs'[j], ix)
                                      /\ Tuple(docs'[i], ix) = Tuple(docs'[j], ix)
      BY <2>5 DEF Twins
    <3>2. ~Twins(ix, docs)
      BY <2>5, TwinsIs DEF UniqueValues
    <3>3. Complete(s.doc, ix) => Free(s.id, s.doc, ix, docs)
      BY <2>2, <2>5 DEF Indexing
    <3> HIDE DEF ix
    <3>4. CASE i # s.id /\ j # s.id
      BY <2>4, <3>1, <3>2, <3>4 DEF Twins
    <3>5. CASE i = s.id
      BY <2>4, <3>1, <3>3, <3>5 DEF Free
    <3>6. CASE j = s.id
      BY <2>4, <3>1, <3>3, <3>6 DEF Free
    <3> QED
      BY <3>4, <3>5, <3>6
  <2> QED
    BY <2>1, <2>5 DEF UniqueValues, Duplicates, Twins
<1>4. CASE DefineCommit(c)
  <2>1. catalog' = [catalog EXCEPT ![s.name] = s.index] /\ docs' = docs
    BY <1>4 DEF DefineCommit
  <2>2. s.index.unique => ~Twins(s.index, docs)
    BY <1>4, SerialParts DEF SerialOK, DefineCommit, At
  <2>3. ASSUME NEW n \in Names, catalog'[n] # NoIndex, catalog'[n].unique
        PROVE  ~Twins(catalog'[n], docs)
    <3>1. CASE n = s.name
      BY <1>1, <2>1, <2>2, <2>3, <3>1 DEF Catalog
    <3>2. CASE n # s.name
      <4>1. catalog'[n] = catalog[n]
        BY <1>1, <2>1, <3>2 DEF Catalog
      <4> QED
        BY <2>3, <4>1, TwinsIs DEF UniqueValues
    <3> QED
      BY <3>1, <3>2
  <2> QED
    BY <2>1, <2>3 DEF UniqueValues, Duplicates, Twins
<1> QED
  BY <1>2, <1>3, <1>4

\* With one connection every UPDATE merges into the version it read, DELETE ...
\* WHERE deletes only records that match, and CREATE and DEFINE INDEX bring no
\* second record with a unique value: for any statements, index DDL and crashes
\* included.
THEOREM WritesArePrecise == OneConnection => (Spec => WritesPrecise)
<1> SUFFICES ASSUME OneConnection PROVE Spec => WritesPrecise
  OBVIOUS
<1>1. SerialInv /\ [Next]_vars => SerialInv'
  BY SerialInvNext
<1>2. SerialInv => [MergesPreserve]_vars /\ [DeletesMatch]_vars /\ [CreatesKeep]_vars
  BY SerialMerges, SerialDeletes, SerialCreates
<1>3. Spec => [][MergesPreserve]_vars /\ [][DeletesMatch]_vars /\ [][CreatesKeep]_vars
  BY <1>1, <1>2, SerialInvInit, PTL DEF Spec
<1>4. ([][MergesPreserve]_vars <=> MergePreserves) /\ ([][DeletesMatch]_vars <=> DeletesMatching)
        /\ ([][CreatesKeep]_vars <=> CreateKeepsUnique)
  BY DEF MergesPreserve, MergePreserves, DeletesMatch, DeletesMatching, CreatesKeep,
         CreateKeepsUnique
<1> QED
  BY <1>3, <1>4 DEF WritesPrecise

-----------------------------------------------------------------------------
(* The indexes mirror the records *)

\* Every entry of a set is one that the records d call for under cat.
Sound(ents, d, cat) ==
  \A e \in ents : d[e.id] # NoDoc /\ e \in IndexEntries(e.id, d[e.id], cat)

\* What a batch, DEFINE INDEX or REMOVE INDEX is about to write leaves no stale
\* entry: a batch deletes the entries of the documents it replaces, the backfill
\* is of stored documents, the removal finds every entry of the name.
ExactOK(p, s, l, d, ents, cat) ==
  /\ p \in {"item", "item_get"} =>
       /\ QueueSound(s, l)
       /\ \A i \in Ids : l.bdocs[i] # NoDoc /\ d[i] # NoDoc
                           => IndexEntries(i, d[i], cat) \subseteq l.bdel
  /\ p = "define_commit" => Sound(l.bput, d, Only(s.name, s.index))
  /\ p = "remove_commit" => \A e \in ents : e.name = s.name => e \in l.bdel

ExactInv ==
  /\ SerialInv
  /\ Known
  /\ IndexSound
  /\ \A c \in Conns : ExactOK(pc[c], stmt[c], loc[c], docs, entries, catalog)

OwnExact(c) == ExactOK(pc'[c], stmt[c], loc'[c], docs', entries', catalog')

LEMMA SoundIs == IndexSound <=> Sound(entries, docs, catalog)
BY DEF IndexSound, Sound

LEMMA SoundKept ==
  ASSUME IndexSound, UNCHANGED store
  PROVE  IndexSound'
BY DEF IndexSound, store

LEMMA ExactParts ==
  ASSUME ExactInv, NEW c \in Conns
  PROVE  /\ SerialInv
         /\ TypeInv
         /\ Known
         /\ IndexSound
         /\ loc[c] \in Local
         /\ entries \subseteq Entry
         /\ docs \in [Ids -> Doc \cup {NoDoc}]
         /\ ExactOK(pc[c], stmt[c], loc[c], docs, entries, catalog)
BY TypeInvParts DEF ExactInv, SerialInv, LocalOK, StoreOK

\* The other labels prepare no entries.
LEMMA ElsewhereExact ==
  ASSUME NEW c \in Conns, pc'[c] \notin {"item", "item_get", "define_commit", "remove_commit"}
  PROVE  OwnExact(c)
BY DEF OwnExact, ExactOK

LEMMA AdvanceExact ==
  ASSUME TypeInv, NEW c \in Conns, NEW left, Advance(c, left)
  PROVE  OwnExact(c)
BY AdvanceFacts, ElsewhereExact

LEMMA ReturnExact ==
  ASSUME TypeInv, NEW c \in Conns, NEW r, Return(c, r)
  PROVE  OwnExact(c)
BY ReturnFacts, ElsewhereExact

LEMMA OkExact ==
  ASSUME TypeInv, NEW c \in Conns, Ok(c) \/ Fail(c)
  PROVE  OwnExact(c)
BY ReturnExact DEF Ok, Fail

LEMMA DeliverExact ==
  ASSUME TypeInv, NEW c \in Conns, NEW ids, NEW n, Deliver(c, ids, n)
  PROVE  OwnExact(c)
BY ReturnExact, AdvanceExact DEF Deliver

LEMMA LoadExact ==
  ASSUME ExactInv, NEW c \in Conns, Load(c)
  PROVE  OwnExact(c)
<1> DEFINE s == stmt[c]
           R == IF s.op \in {"upsert", "update", "delete"} THEN {s.id} ELSE {}
           l == [loc[c] EXCEPT !.idx = catalog, !.rows = R]
<1>1. Goto(c, FirstLabel(s.op), l) /\ pc[c] = "load" /\ TypeInv
  BY ExactParts DEF Load, At
<1>2. loc[c] = Fresh
  BY <1>1, ExactParts, SerialParts DEF SerialOK
<1>3. l.bput = {} /\ \A i \in Ids : l.bdocs[i] = NoDoc
  BY <1>2 DEF Fresh
<1>4. FirstLabel(s.op) \notin {"item_get", "define_commit", "remove_commit"}
  BY DEF FirstLabel
<1>5. pc'[c] = FirstLabel(s.op) /\ loc'[c] = l
  BY <1>1, GotoFacts
<1> HIDE DEF l
<1> QED
  BY <1>3, <1>4, <1>5 DEF OwnExact, ExactOK, QueueSound

\* The steps that only read, but for those of a batch and of index DDL.
LEMMA ReadExact ==
  ASSUME ExactInv, NEW c \in Conns,
         \/ Load(c) \/ Contains(c) \/ CheckUnique(c) \/ Probe(c) \/ Scan(c) \/ Get(c)
         \/ Lookup(c) \/ Fetch(c)
  PROVE  OwnExact(c) /\ IndexSound'
<1>1. TypeInv /\ IndexSound
  BY SMTT(30), ExactParts
<1>2. UNCHANGED store
  BY DEF Load, Contains, CheckUnique, Probe, Scan, Get, Lookup, Fetch, Fail
<1> SUFFICES OwnExact(c)
  BY <1>1, <1>2, SoundKept
<1>3. ASSUME NEW label \in {"contains", "unique", "get", "write", "fetch"},
             pc' = [pc EXCEPT ![c] = label]
      PROVE  OwnExact(c)
  BY <1>1, <1>3, ElsewhereExact DEF TypeInv, TypeOK
<1>4. CASE Contains(c) \/ CheckUnique(c)
  <2>1. Fail(c) \/ pc' = [pc EXCEPT ![c] = "unique"]
    BY <1>4 DEF Contains, CheckUnique, Goto
  <2> QED
    BY <1>1, <1>3, <2>1, OkExact
<1>5. CASE Probe(c)
  <2>1. Ok(c) \/ pc' = [pc EXCEPT ![c] = "get"] \/ pc' = [pc EXCEPT ![c] = "contains"]
    BY <1>5 DEF Probe, Goto
  <2> QED
    BY <1>1, <1>3, <2>1, OkExact
<1>6. CASE Scan(c) \/ Get(c)
  <2>1. Fail(c) \/ (\E left : Advance(c, left)) \/ pc' = [pc EXCEPT ![c] = "write"]
    BY <1>6 DEF Scan, Get, Goto
  <2> QED
    BY SMTT(30), <1>1, <1>3, <2>1, OkExact, AdvanceExact
<1>7. CASE Lookup(c) \/ Fetch(c)
  <2>1. (\E ids, n : Deliver(c, ids, n)) \/ pc' = [pc EXCEPT ![c] = "fetch"]
    BY <1>7 DEF Lookup, Fetch, Goto
  <2> QED
    BY SMTT(30), <1>1, <1>3, <2>1, DeliverExact
<1> QED
  BY <1>4, <1>5, <1>6, <1>7, LoadExact

\* Replacing one document together with all its entries keeps every entry sound.
LEMMA PutKeepsSound ==
  ASSUME IndexSound, entries \subseteq Entry, docs \in [Ids -> Doc \cup {NoDoc}],
         NEW i \in Ids, NEW doc, NEW news,
         docs' = [docs EXCEPT ![i] = doc],
         catalog' = catalog,
         doc = NoDoc => news = {},
         news \subseteq IndexEntries(i, doc, catalog),
         \A e \in entries' : e \in news \/ (e \in entries /\ e.id # i)
  PROVE  IndexSound'
<1> SUFFICES ASSUME NEW e \in entries'
             PROVE  docs'[e.id] # NoDoc /\ e \in IndexEntries(e.id, docs'[e.id], catalog)
  BY DEF IndexSound
<1>1. CASE e \in news
  <2>1. e.id = i
    BY <1>1 DEF IndexEntries
  <2> QED
    BY <1>1, <2>1
<1>2. CASE e \in entries /\ e.id # i
  <2>1. e.id \in Ids
    BY <1>2 DEF Entry
  <2>2. docs'[e.id] = docs[e.id]
    BY <1>2, <2>1
  <2> QED
    BY <1>2, <2>2 DEF IndexSound
<1> QED
  BY <1>1, <1>2

LEMMA InsertExact ==
  ASSUME ExactInv, NEW c \in Conns, Insert(c)
  PROVE  OwnExact(c) /\ IndexSound'
<1> DEFINE s == stmt[c]
           news == IndexEntries(s.id, s.doc, catalog)
<1>1. TypeInv /\ IndexSound /\ entries \subseteq Entry /\ docs \in [Ids -> Doc \cup {NoDoc}]
  BY ExactParts
<1>2. pc[c] = "unique" /\ loc[c].idx = catalog /\ docs[s.id] = NoDoc
  BY ExactParts, SerialParts DEF SerialOK, Insert, At
<1>3. s.id \in Ids /\ s.doc \in Doc /\ s.doc # NoDoc
  BY <1>1, <1>2, TypeInvParts, StatementTypes, ValuesAssumption DEF OpsAt
<1>4. CASE Fail(c)
  BY <1>1, <1>4, OkExact, SoundKept DEF Fail
<1>5. CASE ~Fail(c)
  <2>1. /\ docs' = [docs EXCEPT ![s.id] = s.doc]
        /\ entries' = entries \cup news
        /\ catalog' = catalog
        /\ Ok(c)
    BY <1>2, <1>5 DEF Insert
  <2>2. \A e \in entries : e.id # s.id
    BY <1>1, <1>2 DEF IndexSound
  <2>3. news \subseteq IndexEntries(s.id, s.doc, catalog)
    OBVIOUS
  <2> HIDE DEF news
  <2>4. \A e \in entries' : e \in news \/ (e \in entries /\ e.id # s.id)
    BY <2>1, <2>2
  <2>5. IndexSound'
    BY <1>1, <1>3, <2>1, <2>3, <2>4, PutKeepsSound
  <2> QED
    BY <1>1, <2>1, <2>5, OkExact
<1> QED
  BY <1>4, <1>5

LEMMA WriteExact ==
  ASSUME ExactInv, NEW c \in Conns, Replace(c) \/ Erase(c)
  PROVE  OwnExact(c) /\ IndexSound'
<1> DEFINE l == loc[c]
           olds == IndexEntries(l.cur, l.old, l.idx)
<1>1. TypeInv /\ IndexSound /\ entries \subseteq Entry /\ docs \in [Ids -> Doc \cup {NoDoc}]
  BY ExactParts
<1>2. At(c, "write") /\ l.idx = catalog /\ l.old = docs[l.cur]
  BY ExactParts, SerialParts DEF SerialOK, Replace, Erase, At
<1>3. l.cur \in Ids
  BY <1>1, <1>2, WriteFacts
<1>4. CASE Fail(c)
  BY <1>1, <1>4, OkExact, SoundKept DEF Fail
<1>5. CASE ~Fail(c)
  <2>1. PICK new, news :
          /\ docs' = [docs EXCEPT ![l.cur] = new]
          /\ entries' = (entries \ olds) \cup news
          /\ \/ new = NoDoc /\ news = {}
             \/ /\ news = IndexEntries(l.cur, new, l.idx)
                /\ Replace(c)
                /\ new = Merged(l.old, stmt[c].set)
          /\ catalog' = catalog
          /\ Advance(c, l.rows \ {l.cur})
    BY <1>5, WriteSteps
  <2>2. new = NoDoc => news = {}
    <3>1. CASE /\ Replace(c)
               /\ new = Merged(l.old, stmt[c].set)
      <4>1. stmt[c].set \in Update
        BY <1>1, <1>2, <3>1, WriteFacts, StatementTypes DEF Replace
      <4>2. new \in Doc
        BY <1>1, <1>2, <3>1, <4>1, WriteFacts, MergedType
      <4> QED
        BY <4>2, ValuesAssumption
    <3> QED
      BY <2>1, <3>1
  <2>3. \A e \in entries \ olds : e.id # l.cur
    BY <1>1, <1>2 DEF IndexSound
  <2> HIDE DEF olds
  <2>4. /\ news \subseteq IndexEntries(l.cur, new, catalog)
        /\ \A e \in entries' : e \in news \/ (e \in entries /\ e.id # l.cur)
    BY <1>2, <2>1, <2>3
  <2>5. IndexSound'
    BY ZenonT(60), <1>1, <1>3, <2>1, <2>2, <2>4, PutKeepsSound
  <2> QED
    BY <1>1, <2>1, <2>5, AdvanceExact
<1> QED
  BY <1>4, <1>5

LEMMA BatchExact ==
  ASSUME DistinctUpserts, ExactInv, NEW c \in Conns, PrepareItem(c) \/ MergeItem(c)
  PROVE  OwnExact(c) /\ IndexSound'
<1> DEFINE it == stmt[c].items[loc[c].pos]
           l == loc[c]
<1>1. TypeInv /\ IndexSound /\ l \in Local
  BY SMTT(30), ExactParts
<1>2. /\ pc[c] \in {"item", "item_get"}
      /\ UNCHANGED store
      /\ stmt[c].op = "batch"
      /\ l.pos \in 1 .. Len(stmt[c].items)
      /\ it.id \in Ids
      /\ \/ Fail(c)
         \/ Goto(c, "item_get", l)
         \/ \E doc \in Doc : \E dels :
              /\ Queue(c, it.id, doc, dels)
              /\ it.op = "upsert" /\ docs[it.id] # NoDoc
                   => dels = IndexEntries(it.id, docs[it.id], l.idx)
  BY SMTT(30), <1>1, BatchSteps
<1> SUFFICES OwnExact(c)
  BY ZenonT(60), <1>1, <1>2, SoundKept
<1>3. /\ l.idx = catalog /\ QueueSound(stmt[c], l)
      /\ \A i \in Ids : l.bdocs[i] # NoDoc /\ docs[i] # NoDoc
                          => IndexEntries(i, docs[i], catalog) \subseteq l.bdel
      /\ docs' = docs /\ catalog' = catalog
  BY ZenonT(60), <1>2, ExactParts, SerialParts DEF ExactOK, SerialOK, store
<1>4. it.op = "upsert" /\ l.bdocs[it.id] = NoDoc
  BY <1>1, <1>3, QueuedOnce
<1>5. CASE Fail(c)
  BY <1>1, <1>5, OkExact
<1>6. CASE Goto(c, "item_get", l)
  <2>1. pc'[c] = "item_get" /\ loc'[c] = l
    BY <1>1, <1>6, GotoFacts
  <2> QED
    BY <1>3, <2>1 DEF OwnExact, ExactOK
<1>7. ASSUME NEW doc \in Doc, NEW dels, Queue(c, it.id, doc, dels),
             docs[it.id] # NoDoc => dels = IndexEntries(it.id, docs[it.id], l.idx)
      PROVE  OwnExact(c)
  <2> DEFINE i == it.id
             m == [l EXCEPT !.pos = @ + 1, !.bdocs[i] = doc,
                            !.bput = @ \cup IndexEntries(i, doc, l.idx), !.bdel = @ \cup dels]
  <2>1. QueueSound(stmt[c], m)
    BY ZenonT(60), <1>1, <1>2, <1>3, <1>4, QueueSoundPut
  <2>2. m.bdocs = [l.bdocs EXCEPT ![i] = doc] /\ m.bdel = l.bdel \cup dels
    BY SMTT(30), <1>1 DEF Local
  <2>3. Goto(c, "item", m)
    BY <1>7 DEF Queue
  <2> HIDE DEF m
  <2>4. pc'[c] = "item" /\ loc'[c] = m
    BY <1>1, <2>3, GotoFacts
  <2>5. ASSUME NEW j \in Ids, m.bdocs[j] # NoDoc, docs[j] # NoDoc
        PROVE  IndexEntries(j, docs[j], catalog) \subseteq m.bdel
    <3>1. CASE j = i
      BY ZenonT(60), <1>3, <1>7, <2>2, <2>5, <3>1
    <3>2. CASE j # i
      <4>1. m.bdocs[j] = l.bdocs[j]
        BY <1>1, <2>2, <3>2 DEF Local
      <4> QED
        BY <1>3, <2>2, <2>5, <4>1
    <3> QED
      BY SMTT(30), <3>1, <3>2
  <2> QED
    BY SMTT(30), <1>3, <2>1, <2>4, <2>5 DEF OwnExact, ExactOK
<1> QED
  BY ZenonT(60), <1>2, <1>4, <1>5, <1>6, <1>7

LEMMA CommitExact ==
  ASSUME ExactInv, NEW c \in Conns, CommitBatch(c)
  PROVE  OwnExact(c) /\ IndexSound'
<1> DEFINE l == loc[c]
<1>1. /\ docs' = [i \in Ids |-> IF l.bdocs[i] # NoDoc THEN l.bdocs[i] ELSE docs[i]]
      /\ entries' = (entries \ l.bdel) \cup l.bput
      /\ catalog' = catalog
      /\ Ok(c)
      /\ pc[c] = "item"
  BY DEF CommitBatch, WriteBatch, At
<1>2. TypeInv /\ IndexSound /\ l \in Local /\ entries \subseteq Entry
  BY ExactParts
<1>3. /\ l.idx = catalog
      /\ QueueSound(stmt[c], l)
      /\ \A i \in Ids : l.bdocs[i] # NoDoc /\ docs[i] # NoDoc
                          => IndexEntries(i, docs[i], catalog) \subseteq l.bdel
  BY <1>1, ExactParts, SerialParts DEF ExactOK, SerialOK
<1>4. ASSUME NEW e \in entries'
      PROVE  docs'[e.id] # NoDoc /\ e \in IndexEntries(e.id, docs'[e.id], catalog)
  <2>1. CASE e \in l.bput
    <3>1. e.id \in Ids
      BY <1>2, <2>1 DEF Local, Entry
    <3>2. l.bdocs[e.id] # NoDoc /\ e \in IndexEntries(e.id, l.bdocs[e.id], catalog)
      BY <1>3, <2>1 DEF QueueSound
    <3> QED
      BY <1>1, <3>1, <3>2
  <2>2. CASE e \in entries /\ e \notin l.bdel
    <3>1. e.id \in Ids /\ docs[e.id] # NoDoc /\ e \in IndexEntries(e.id, docs[e.id], catalog)
      BY <1>2, <2>2 DEF IndexSound, Entry
    <3>2. l.bdocs[e.id] = NoDoc
      BY <1>3, <2>2, <3>1
    <3> QED
      BY <1>1, <3>1, <3>2
  <2> QED
    BY <1>1, <2>1, <2>2
<1>5. IndexSound'
  BY <1>1, <1>4 DEF IndexSound
<1> QED
  BY <1>1, <1>2, <1>5, OkExact

\* An entry depends on the fields of the definition only.
LEMMA SameFields ==
  ASSUME NEW doc, NEW ix, NEW jx, ix.fields = jx.fields
  PROVE  Tuple(doc, ix) = Tuple(doc, jx) /\ (Complete(doc, ix) <=> Complete(doc, jx))
BY DEF Tuple, Complete

LEMMA EntryIs ==
  ASSUME NEW i, NEW doc, NEW cat, NEW e
  PROVE  e \in IndexEntries(i, doc, cat) <=>
           \E n \in Names : /\ cat[n] # NoIndex
                            /\ Complete(doc, cat[n])
                            /\ e = [name |-> n, key |-> Tuple(doc, cat[n]), id |-> i]
BY DEF IndexEntries, Indexing

LEMMA DefineScanExact ==
  ASSUME ExactInv, NEW c \in Conns, DefineScan(c)
  PROVE  OwnExact(c) /\ IndexSound'
<1> DEFINE s == stmt[c]
           cat == Only(s.name, s.index)
           stored == {i \in Ids : docs[i] # NoDoc}
           puts == UNION {IndexEntries(i, docs[i], cat) : i \in stored}
           m == [loc[c] EXCEPT !.bput = puts]
<1>1. TypeInv /\ loc[c] \in Local /\ IndexSound /\ UNCHANGED store
  BY ExactParts DEF DefineScan, Fail
<1> SUFFICES OwnExact(c)
  BY <1>1, SoundKept
<1>2. Fail(c) \/ Goto(c, "define_commit", m)
  BY DEF DefineScan, Only
<1>3. CASE Fail(c)
  BY <1>1, <1>3, OkExact
<1>4. CASE Goto(c, "define_commit", m)
  <2>1. pc'[c] = "define_commit" /\ loc'[c] = m
    BY <1>1, <1>4, GotoFacts
  <2>2. m.bput = puts
    BY <1>1 DEF Local
  <2>3. ASSUME NEW e \in puts
        PROVE  docs[e.id] # NoDoc /\ e \in IndexEntries(e.id, docs[e.id], cat)
    <3>1. PICK i \in stored : e \in IndexEntries(i, docs[i], cat)
      BY <2>3
    <3>2. e.id = i
      BY <3>1 DEF IndexEntries
    <3> QED
      BY <3>1, <3>2
  <2> HIDE DEF m, puts
  <2> QED
    BY <1>1, <2>1, <2>2, <2>3 DEF OwnExact, ExactOK, Sound, store
<1> QED
  BY <1>2, <1>3, <1>4

LEMMA DefineCommitExact ==
  ASSUME SettledNames, ExactInv, NEW c \in Conns, DefineCommit(c)
  PROVE  OwnExact(c) /\ IndexSound'
<1> DEFINE s == stmt[c]
<1>1. TypeInv /\ IndexSound /\ Known /\ catalog \in Catalog
  BY ExactParts, SerialParts
<1>2. /\ catalog' = [catalog EXCEPT ![s.name] = s.index]
      /\ entries' = entries \cup loc[c].bput
      /\ docs' = docs
      /\ Ok(c)
      /\ pc[c] = "define_commit"
  BY DEF DefineCommit, WriteBatch, At
<1>3. Sound(loc[c].bput, docs, Only(s.name, s.index))
  BY <1>2, ExactParts DEF ExactOK
<1>4. s.name \in Names /\ s.index \in Index /\ s.index \in Defined(s.name)
  <2>1. s \in Statements[c] /\ s \in Statement /\ s.op = "define"
    BY <1>1, <1>2, TypeInvParts DEF OpsAt
  <2> QED
    BY <2>1, StatementTypes DEF Defined
<1>5. catalog'[s.name] = s.index /\ \A n \in Names \ {s.name} : catalog'[n] = catalog[n]
  BY <1>1, <1>2, <1>4 DEF Catalog
<1>6. ASSUME NEW e \in loc[c].bput
      PROVE  docs[e.id] # NoDoc /\ e \in IndexEntries(e.id, docs[e.id], catalog')
  <2>1. docs[e.id] # NoDoc /\ e \in IndexEntries(e.id, docs[e.id], Only(s.name, s.index))
    BY <1>3 DEF Sound
  <2>2. PICK n \in Names : /\ Only(s.name, s.index)[n] # NoIndex
                           /\ Complete(docs[e.id], Only(s.name, s.index)[n])
                           /\ e = [name |-> n, key |-> Tuple(docs[e.id], Only(s.name, s.index)[n]),
                                   id |-> e.id]
    BY <2>1, EntryIs
  <2>3. n = s.name /\ Only(s.name, s.index)[n] = catalog'[n]
    BY <1>5, <2>2 DEF Only
  <2> QED
    BY <2>1, <2>2, <2>3, EntryIs
<1>7. ASSUME NEW e \in entries
      PROVE  docs[e.id] # NoDoc /\ e \in IndexEntries(e.id, docs[e.id], catalog')
  <2>1. docs[e.id] # NoDoc /\ e \in IndexEntries(e.id, docs[e.id], catalog)
    BY <1>1 DEF IndexSound
  <2>2. PICK n \in Names : /\ catalog[n] # NoIndex
                           /\ Complete(docs[e.id], catalog[n])
                           /\ e = [name |-> n, key |-> Tuple(docs[e.id], catalog[n]), id |-> e.id]
    BY <2>1, EntryIs
  <2>3. catalog'[n].fields = catalog[n].fields /\ catalog'[n] # NoIndex
    <3>1. CASE n = s.name
      <4>1. catalog[n] \in Defined(n)
        BY <1>1, <2>2 DEF Known
      <4> QED
        BY <1>4, <1>5, <3>1, <4>1, ValuesAssumption DEF SettledNames
    <3>2. CASE n # s.name
      BY <1>5, <2>2, <3>2
    <3> QED
      BY <3>1, <3>2
  <2>4. /\ Tuple(docs[e.id], catalog'[n]) = Tuple(docs[e.id], catalog[n])
        /\ Complete(docs[e.id], catalog'[n])
    BY <2>2, <2>3, SameFields
  <2> QED
    BY <2>1, <2>2, <2>3, <2>4, EntryIs
<1>8. IndexSound'
  BY <1>2, <1>6, <1>7 DEF IndexSound
<1> QED
  BY <1>1, <1>2, <1>8, OkExact

LEMMA RemoveExact ==
  ASSUME ExactInv, NEW c \in Conns, RemoveScan(c) \/ RemoveCommit(c)
  PROVE  OwnExact(c) /\ IndexSound'
<1> DEFINE s == stmt[c]
<1>1. TypeInv /\ IndexSound /\ catalog \in Catalog /\ loc[c] \in Local
  BY ExactParts, SerialParts
<1>2. CASE RemoveScan(c)
  <2> DEFINE dels == {e \in entries : e.name = s.name}
             m == [loc[c] EXCEPT !.bdel = dels]
  <2>1. Goto(c, "remove_commit", m) /\ UNCHANGED store
    BY <1>2 DEF RemoveScan
  <2>2. m.bdel = dels
    BY <1>1 DEF Local
  <2>3. pc'[c] = "remove_commit" /\ loc'[c] = m /\ entries' = entries
    BY <1>1, <2>1, GotoFacts DEF store
  <2>4. \A e \in entries : e.name = s.name => e \in dels
    OBVIOUS
  <2> HIDE DEF m, dels
  <2> QED
    BY <1>1, <2>1, <2>2, <2>3, <2>4, SoundKept DEF OwnExact, ExactOK
<1>3. CASE RemoveCommit(c)
  <2>1. /\ catalog' = [catalog EXCEPT ![s.name] = NoIndex]
        /\ entries' = entries \ loc[c].bdel
        /\ docs' = docs
        /\ Ok(c)
    BY <1>3 DEF RemoveCommit, WriteBatch
  <2>2. \A e \in entries : e.name = s.name => e \in loc[c].bdel
    BY <1>3, ExactParts DEF ExactOK, RemoveCommit, At
  <2>3. ASSUME NEW e \in entries'
        PROVE  docs[e.id] # NoDoc /\ e \in IndexEntries(e.id, docs[e.id], catalog')
    <3>1. e \in entries /\ e.name # s.name
      BY <2>1, <2>2, <2>3
    <3>2. docs[e.id] # NoDoc /\ e \in IndexEntries(e.id, docs[e.id], catalog)
      BY <1>1, <3>1 DEF IndexSound
    <3>3. PICK n \in Names : /\ catalog[n] # NoIndex
                             /\ Complete(docs[e.id], catalog[n])
                             /\ e = [name |-> n, key |-> Tuple(docs[e.id], catalog[n]), id |-> e.id]
      BY <3>2, EntryIs
    <3>4. e.name = n
      BY <3>3
    <3>5. catalog'[n] = catalog[n]
      BY <1>1, <2>1, <3>1, <3>4 DEF Catalog
    <3> QED
      BY <3>2, <3>3, <3>5, EntryIs
  <2>4. IndexSound'
    BY <2>1, <2>3 DEF IndexSound
  <2> QED
    BY <1>1, <2>1, <2>4, OkExact
<1> QED
  BY <1>2, <1>3

LEMMA StepExact ==
  ASSUME SettledNames, DistinctUpserts, ExactInv, NEW c \in Conns, Step(c)
  PROVE  OwnExact(c) /\ IndexSound'
<1>1. CASE \/ Load(c) \/ Contains(c) \/ CheckUnique(c) \/ Probe(c) \/ Scan(c) \/ Get(c)
           \/ Lookup(c) \/ Fetch(c)
  BY <1>1, ReadExact
<1> QED
  BY <1>1, InsertExact, WriteExact, BatchExact, CommitExact, DefineScanExact,
     DefineCommitExact, RemoveExact DEF Step

LEMMA ExactInvInit == Init => ExactInv
<1> SUFFICES ASSUME Init PROVE ExactInv
  OBVIOUS
<1>1. IndexSound
  BY DEF Init, IndexSound
<1>2. Known
  BY DEF Init, Known, Defined
<1>3. \A c \in Conns : pc[c] = "idle"
  BY DEF Init
<1>4. \A c \in Conns : ExactOK(pc[c], stmt[c], loc[c], docs, entries, catalog)
  BY <1>3 DEF ExactOK
<1> QED
  BY <1>1, <1>2, <1>4, SerialInvInit DEF ExactInv

LEMMA ExactInvNext ==
  ASSUME OneConnection, SettledNames, DistinctUpserts, ExactInv, [Next]_vars
  PROVE  ExactInv'
<1>1. SerialInv' /\ Known'
  BY SerialInvNext, KnownNext DEF ExactInv, SerialInv
<1>2. CASE UNCHANGED vars
  BY <1>1, <1>2 DEF vars, store, ExactInv, IndexSound
<1>3. CASE Crash
  <2>1. IndexSound'
    BY <1>3, SoundKept DEF Crash, ExactInv
  <2>2. \A c \in Conns : pc'[c] = "idle"
    BY <1>3 DEF Crash
  <2>3. \A c \in Conns : ExactOK(pc'[c], stmt'[c], loc'[c], docs', entries', catalog')
    BY <2>2 DEF ExactOK
  <2> QED
    BY <1>1, <2>1, <2>3 DEF ExactInv
<1>4. ASSUME NEW c \in Conns, Begin(c) PROVE ExactInv'
  <2>1. IndexSound'
    BY <1>4, SoundKept DEF Begin, ExactInv
  <2>2. pc'[c] \in {"load", "define"}
    BY <1>4, ExactParts DEF Begin, TypeInv, TypeOK
  <2>3. ExactOK(pc'[c], stmt'[c], loc'[c], docs', entries', catalog')
    BY <2>2 DEF ExactOK
  <2> QED
    BY <1>1, <2>1, <2>3 DEF ExactInv, OneConnection
<1>5. ASSUME NEW c \in Conns, Step(c) PROVE ExactInv'
  <2>1. OwnExact(c) /\ IndexSound' /\ stmt' = stmt
    BY <1>5, StepExact, StepFacts DEF ExactInv, SerialInv
  <2>2. ExactOK(pc'[c], stmt'[c], loc'[c], docs', entries', catalog')
    BY <2>1 DEF OwnExact
  <2> QED
    BY <1>1, <2>1, <2>2 DEF ExactInv, OneConnection
<1> QED
  BY <1>2, <1>3, <1>4, <1>5 DEF Next

\* With one connection the entries are exactly those of the stored records: no
\* index misses a record and no entry outlives the version it was written for,
\* through any CREATE, UPDATE, DELETE, batch of upserts, DEFINE INDEX, REMOVE INDEX
\* and crash, as long as a redefined name keeps its fields.
THEOREM IndexesExact ==
  OneConnection /\ SettledNames /\ DistinctUpserts => (Spec => [](IndexComplete /\ IndexSound))
<1> SUFFICES ASSUME OneConnection, SettledNames, DistinctUpserts
             PROVE  Spec => [](IndexComplete /\ IndexSound)
  OBVIOUS
<1>1. ExactInv /\ [Next]_vars => ExactInv'
  BY ExactInvNext
<1>2. ExactInv => IndexComplete /\ IndexSound
  BY DEF ExactInv, SerialInv
<1> QED
  BY <1>1, <1>2, ExactInvInit, PTL DEF Spec

-----------------------------------------------------------------------------
(* Queries answer like table scans *)

\* An index holds one entry of a record.
LEMMA OneEntry ==
  ASSUME IndexSound, NEW e \in entries, NEW f \in entries, e.name = f.name, e.id = f.id
  PROVE  e = f
<1>1. PICK n \in Names : e = [name |-> n, key |-> Tuple(docs[e.id], catalog[n]), id |-> e.id]
  BY EntryIs DEF IndexSound
<1>2. PICK m \in Names : f = [name |-> m, key |-> Tuple(docs[f.id], catalog[m]), id |-> f.id]
  BY EntryIs DEF IndexSound
<1>3. n = e.name /\ m = f.name
  BY <1>1, <1>2
<1> QED
  BY <1>1, <1>2, <1>3

\* What an index scan finds, and the entry's key.
LEMMA HitIs ==
  ASSUME TypeInv, IndexSound, NEW w, Usable(catalog, w) # {}, NEW e \in PlanHits(catalog, w)
  PROVE  LET n == Plan(catalog, w)
             ix == catalog[n]
         IN  /\ n \in Names /\ ix \in Index
             /\ Prefixed(ix, w, Consumed(ix, w))
             /\ Consumed(ix, w) \in 0 .. Len(ix.fields)
             /\ e \in entries
             /\ e.name = n
             /\ e.id \in Ids
             /\ docs[e.id] # NoDoc
             /\ Len(e.key) = Len(ix.fields)
             /\ \A k \in 1 .. Consumed(ix, w) : docs[e.id][ix.fields[k]] = w[ix.fields[k]]
<1> DEFINE n == Plan(catalog, w)
           ix == catalog[n]
           k == Consumed(ix, w)
           t == [j \in 1 .. k |-> w[ix.fields[j]]]
<1>1. catalog \in Catalog /\ entries \subseteq Entry
  BY DEF TypeInv, TypeOK
<1>2. n \in Names /\ ix # NoIndex
  BY <1>1, PlanIs DEF Usable
<1>3. ix \in Index /\ Len(ix.fields) \in Nat
  BY <1>1, <1>2 DEF Catalog, Index
<1>4. k \in 0 .. Len(ix.fields) /\ Prefixed(ix, w, k)
  BY <1>3, ConsumedIs
<1>5. e \in entries /\ e.name = n /\ \A j \in 1 .. Len(t) : e.key[j] = t[j]
  BY DEF PlanHits, Hits
<1> HIDE DEF n, ix, k
<1>6. Len(t) = k
  BY <1>3, <1>4
<1>7. e.id \in Ids /\ docs[e.id] # NoDoc /\ e \in IndexEntries(e.id, docs[e.id], catalog)
  BY <1>1, <1>5 DEF IndexSound, Entry
<1>8. e = [name |-> n, key |-> Tuple(docs[e.id], ix), id |-> e.id]
  <2>1. PICK m \in Names : e = [name |-> m, key |-> Tuple(docs[e.id], catalog[m]), id |-> e.id]
    BY <1>7, EntryIs
  <2>2. m = n
    BY <1>5, <2>1
  <2> QED
    BY <2>1, <2>2 DEF ix
<1>9. e.key = Tuple(docs[e.id], ix)
  BY <1>8
<1>10. Len(e.key) = Len(ix.fields) /\ \A j \in 1 .. Len(ix.fields) : e.key[j] = docs[e.id][ix.fields[j]]
  BY <1>3, <1>9 DEF Tuple
<1>11. \A j \in 1 .. k : docs[e.id][ix.fields[j]] = w[ix.fields[j]]
  BY <1>3, <1>4, <1>5, <1>6, <1>10
<1> QED
  BY <1>2, <1>3, <1>4, <1>5, <1>7, <1>10, <1>11 DEF n, ix, k

\* A COUNT the index covers fixes every field of the clause: as many different
\* fields of the clause as it has were consumed.
LEMMA CoveredFields ==
  ASSUME NEW ix \in Index, NEW w \in Where, Covers(ix, w), NEW f \in DOMAIN w
  PROVE  \E k \in 1 .. Consumed(ix, w) : ix.fields[k] = f
<1> DEFINE k == Consumed(ix, w)
           g == [j \in 1 .. k |-> ix.fields[j]]
<1>1. k \in Nat /\ Prefixed(ix, w, k)
  BY ConsumedIs DEF Index
<1>2. Cardinality(DOMAIN w) = k
  BY DEF Covers
<1>3. IsFiniteSet(DOMAIN w)
  BY FS_Subset, FiniteAssumption DEF Where
<1>4. Cardinality(1 .. k) = k
  <2> HIDE DEF k
  <2> QED
    BY <1>1, FS_Interval
<1>5. g \in Injection(1 .. k, DOMAIN w)
  <2> HIDE DEF k
  <2> QED
    BY <1>1 DEF Injection, IsInjective, Prefixed
<1> HIDE DEF g, k
<1>6. g \in Surjection(1 .. k, DOMAIN w)
  BY <1>2, <1>3, <1>4, <1>5, FS_Injection
<1>7. PICK j \in 1 .. k : g[j] = f
  BY <1>6 DEF Surjection
<1> QED
  BY <1>7 DEF g, k

\* Counting entries counts records when each record has one entry among them.
LEMMA CountsOnce ==
  ASSUME NEW H, NEW S, IsFiniteSet(H), {e.id : e \in H} = S,
         \A e, f \in H : e.id = f.id => e = f
  PROVE  Cardinality(H) = Cardinality(S)
<1> DEFINE g == [e \in H |-> e.id]
<1>1. g \in Surjection(H, S) /\ g \in Injection(H, S)
  BY DEF Surjection, Injection, IsInjective
<1> HIDE DEF g
<1> QED
  BY <1>1, FS_Surjection

LEMMA HitsOnce ==
  ASSUME TypeInv, IndexSound, NEW w, Usable(catalog, w) # {}
  PROVE  /\ IsFiniteSet(PlanHits(catalog, w))
         /\ \A e, f \in PlanHits(catalog, w) : e.id = f.id => e = f
<1>1. PlanHits(catalog, w) \subseteq entries
  BY DEF PlanHits, Hits
<1>2. IsFiniteSet(PlanHits(catalog, w))
  BY <1>1, FS_Subset DEF TypeInv, FiniteOK
<1>3. ASSUME NEW e \in PlanHits(catalog, w), NEW f \in PlanHits(catalog, w), e.id = f.id
      PROVE  e = f
  <2>1. e.name = f.name
    BY HitIs
  <2> QED
    BY <1>1, <1>3, <2>1, OneEntry
<1> QED
  BY <1>2, <1>3

\* Fetching what the index scan found and filtering yields each matching record once.
LEMMA IndexAnswers ==
  ASSUME WholeInv, IndexComplete, IndexSound, NEW w \in Where, Usable(catalog, w) # {}
  PROVE  LET found == {e \in PlanHits(catalog, w) :
                         /\ Len(e.key) = Len(catalog[Plan(catalog, w)].fields)
                         /\ e.id \in Matching(w)}
         IN  /\ {e.id : e \in found} = Matching(w)
             /\ Cardinality(found) = Cardinality(Matching(w))
<1> DEFINE found == {e \in PlanHits(catalog, w) :
                       /\ Len(e.key) = Len(catalog[Plan(catalog, w)].fields)
                       /\ e.id \in Matching(w)}
<1>1. TypeInv
  BY DEF WholeInv
<1>2. ASSUME NEW i \in Matching(w) PROVE \E e \in found : e.id = i
  BY <1>2, PlanFinds
<1>3. {e.id : e \in found} = Matching(w)
  BY <1>2
<1>4. IsFiniteSet(found) /\ \A e, f \in found : e.id = f.id => e = f
  BY <1>1, HitsOnce, FS_Subset
<1> HIDE DEF found
<1>5. Cardinality(found) = Cardinality(Matching(w))
  BY <1>3, <1>4, CountsOnce
<1> QED
  BY <1>3, <1>5 DEF found

\* A covered COUNT reads no document: the entries alone are as many as the records.
LEMMA CoveredAnswers ==
  ASSUME WholeInv, IndexComplete, IndexSound, NEW w \in Where, Usable(catalog, w) # {},
         Covers(catalog[Plan(catalog, w)], w)
  PROVE  Cardinality(PlanHits(catalog, w)) = Cardinality(Matching(w))
<1> DEFINE H == PlanHits(catalog, w)
           ix == catalog[Plan(catalog, w)]
<1>1. TypeInv
  BY DEF WholeInv
<1>2. ASSUME NEW e \in H PROVE e.id \in Matching(w)
  <2>1. /\ ix \in Index
        /\ e.id \in Ids /\ docs[e.id] # NoDoc
        /\ \A k \in 1 .. Consumed(ix, w) : docs[e.id][ix.fields[k]] = w[ix.fields[k]]
    BY <1>1, HitIs
  <2> HIDE DEF ix
  <2>2. ASSUME NEW f \in DOMAIN w PROVE docs[e.id][f] = w[f]
    <3>1. PICK k \in 1 .. Consumed(ix, w) : ix.fields[k] = f
      BY <2>1, CoveredFields DEF ix
    <3> QED
      BY <2>1, <3>1
  <2> QED
    BY <2>1, <2>2 DEF Matching, Matches
<1>3. ASSUME NEW i \in Matching(w) PROVE \E e \in H : e.id = i
  BY PlanFinds
<1>4. IsFiniteSet(H) /\ \A e, f \in H : e.id = f.id => e = f
  BY <1>1, HitsOnce
<1> HIDE DEF H
<1>5. {e.id : e \in H} = Matching(w)
  BY <1>2, <1>3
<1>6. Cardinality(H) = Cardinality(Matching(w))
  BY <1>4, <1>5, CountsOnce
<1> QED
  BY <1>6 DEF H

\* The entries of ents that the planned scan finds.
Found(cat, w, ents) ==
  LET n == Plan(cat, w)
      k == Consumed(cat[n], w)
      t == [j \in 1 .. k |-> w[cat[n].fields[j]]]
  IN  {e \in ents : /\ e.name = n
                    /\ Len(e.key) >= Len(cat[n].fields)
                    /\ Len(t) <= Len(e.key)
                    /\ \A j \in 1 .. Len(t) : e.key[j] = t[j]}

LEMMA FoundIs == \A cat, w : PlanHits(cat, w) = Found(cat, w, entries)
BY DEF PlanHits, Hits, Found

\* Between its index scan and its fetch the connection stores nothing, and the
\* answer it gets stays the right one until it sends the next statement.
Answered(c) ==
  /\ At(c, "fetch") => /\ Usable(catalog, stmt[c].where) # {}
                       /\ loc[c].hits = Found(catalog, stmt[c].where, entries)
  /\ At(c, "idle") /\ reply[c].outcome = "ok" =>
       /\ stmt[c].op = "count" => reply[c].total = Cardinality(Meets(stmt[c].where, docs))
       /\ stmt[c].op = "select" => reply[c].rows = Meets(stmt[c].where, docs)

AnswerInv == ExactInv /\ WholeInv /\ \A c \in Conns : Answered(c)

LEMMA DeliverAnswers ==
  ASSUME TypeInv, NEW c \in Conns, UNCHANGED store, NEW ids, NEW n, Deliver(c, ids, n),
         stmt[c].op = "count" => n = Cardinality(Matching(stmt[c].where)),
         stmt[c].op = "select" => ids = Matching(stmt[c].where)
  PROVE  Answered(c)'
<1> DEFINE w == stmt[c].where
<1>1. docs' = docs /\ Matching(w) = Meets(w, docs)
  BY MeetsIs DEF store
<1>2. CASE stmt[c].op = "select"
  <2> DEFINE r == [outcome |-> "ok", rows |-> ids, total |-> 0]
  <2>1. Return(c, r) /\ r.rows = ids
    BY <1>2 DEF Deliver
  <2> HIDE DEF r
  <2>2. pc'[c] = "idle" /\ stmt' = stmt /\ reply'[c] = r
    BY <2>1, ReturnFacts
  <2> QED
    BY <1>1, <1>2, <2>1, <2>2 DEF Answered, At
<1>3. CASE stmt[c].op = "count"
  <2> DEFINE r == [outcome |-> "ok", rows |-> {}, total |-> n]
  <2>1. Return(c, r) /\ r.total = n
    BY <1>3 DEF Deliver
  <2> HIDE DEF r
  <2>2. pc'[c] = "idle" /\ stmt' = stmt /\ reply'[c] = r
    BY <2>1, ReturnFacts
  <2> QED
    BY <1>1, <1>3, <2>1, <2>2 DEF Answered, At
<1>4. CASE stmt[c].op \notin {"count", "select"}
  <2>1. Advance(c, ids)
    BY <1>4 DEF Deliver
  <2>2. pc'[c] \in {"idle", "get"} /\ stmt' = stmt
    BY <2>1, AdvanceFacts
  <2> QED
    BY <1>4, <2>2 DEF Answered, At
<1> QED
  BY <1>2, <1>3, <1>4

LEMMA LookupAnswers ==
  ASSUME AnswerInv, NEW c \in Conns, Lookup(c)
  PROVE  Answered(c)'
<1> DEFINE w == stmt[c].where
           m == [loc[c] EXCEPT !.hits = PlanHits(catalog, w)]
<1>1. TypeInv /\ IndexSound /\ WholeInv /\ IndexComplete /\ loc[c] \in Local
  BY ExactParts DEF AnswerInv, ExactInv, SerialInv
<1>2. pc[c] = "lookup" /\ loc[c].idx = catalog /\ UNCHANGED store
  BY SerialParts DEF AnswerInv, ExactInv, SerialOK, Lookup, At
<1>3. w \in Where /\ stmt[c].op \in {"delete_where", "select", "count"}
  BY <1>1, <1>2, TypeInvParts, StatementTypes DEF OpsAt
<1>4. CASE Deliver(c, Matching(w), Cardinality(Matching(w)))
  BY <1>1, <1>2, <1>4, DeliverAnswers
<1>5. CASE /\ Usable(catalog, w) # {}
           /\ stmt[c].op = "count" /\ Covers(catalog[Plan(catalog, w)], w)
           /\ Deliver(c, {}, Cardinality(PlanHits(catalog, w)))
  <2>1. Cardinality(PlanHits(catalog, w)) = Cardinality(Matching(w))
    BY <1>1, <1>3, <1>5, CoveredAnswers
  <2> QED
    BY <1>1, <1>2, <1>5, <2>1, DeliverAnswers
<1>6. CASE Usable(catalog, w) # {} /\ Goto(c, "fetch", m)
  <2>1. m.hits = PlanHits(catalog, w)
    BY <1>1 DEF Local
  <2>2. pc'[c] = "fetch" /\ loc'[c] = m /\ stmt' = stmt /\ catalog' = catalog
    BY <1>1, <1>2, <1>6, GotoFacts DEF store
  <2>3. PlanHits(catalog, w) = Found(catalog, w, entries) /\ entries' = entries
    BY <1>2, FoundIs DEF store
  <2> HIDE DEF m
  <2> QED
    BY <1>6, <2>1, <2>2, <2>3 DEF Answered, At
<1> QED
  BY <1>2, <1>4, <1>5, <1>6 DEF Lookup

LEMMA FetchAnswers ==
  ASSUME AnswerInv, NEW c \in Conns, Fetch(c)
  PROVE  Answered(c)'
<1> DEFINE w == stmt[c].where
           found == {e \in PlanHits(catalog, w) :
                       /\ Len(e.key) = Len(catalog[Plan(catalog, w)].fields)
                       /\ e.id \in Matching(w)}
           ids == {e.id : e \in found}
<1>1. TypeInv /\ IndexSound /\ WholeInv /\ IndexComplete
  BY SMTT(30), ExactParts DEF AnswerInv, ExactInv, SerialInv
<1>2. /\ pc[c] = "fetch" /\ loc[c].idx = catalog /\ UNCHANGED store
      /\ Usable(catalog, w) # {} /\ loc[c].hits = PlanHits(catalog, w)
  BY SerialParts, FoundIs DEF AnswerInv, Answered, ExactInv, SerialOK, Fetch, At
<1>3. w \in Where
  BY <1>1, <1>2, TypeInvParts, StatementTypes DEF OpsAt
<1>4. Deliver(c, ids, Cardinality(found))
  BY <1>2 DEF Fetch
<1>5. ids = Matching(w) /\ Cardinality(found) = Cardinality(Matching(w))
  BY <1>1, <1>2, <1>3, IndexAnswers
<1> HIDE DEF found, ids
<1> QED
  BY <1>1, <1>2, <1>4, <1>5, DeliverAnswers

\* The other steps answer no query, and none goes to the fetch.
LEMMA OtherAnswers ==
  ASSUME AnswerInv, TypeInv', NEW c \in Conns, Step(c), ~Lookup(c), ~Fetch(c)
  PROVE  Answered(c)'
<1>1. TypeInv /\ pc[c] # "idle" /\ stmt' = stmt
  BY ExactParts, StepFacts DEF AnswerInv
<1>2. stmt[c].op \in OpsAt(pc[c]) /\ pc[c] \in Labels
  BY <1>1, TypeInvParts
<1>3. CASE stmt[c].op \notin {"delete_where", "select", "count"}
  <2>1. pc'[c] # "fetch"
    BY <1>1, <1>3 DEF TypeInv, ControlOK, OpsAt
  <2> QED
    BY <1>1, <1>3, <2>1 DEF Answered, At
<1>4. CASE stmt[c].op \in {"delete_where", "select", "count"}
  <2>1. pc[c] \in {"load", "lookup", "fetch", "get", "write"}
    BY <1>1, <1>2, <1>4 DEF OpsAt, Labels
  <2>2. ~(Contains(c) \/ CheckUnique(c) \/ Insert(c) \/ Probe(c) \/ Scan(c))
    BY SMTT(30), <2>1 DEF Contains, CheckUnique, Insert, Probe, Scan, At
  <2>3. ~(PrepareItem(c) \/ MergeItem(c) \/ CommitBatch(c))
    BY <2>1 DEF PrepareItem, MergeItem, CommitBatch, At
  <2>4. ~(DefineScan(c) \/ DefineCommit(c) \/ RemoveScan(c) \/ RemoveCommit(c))
    BY <2>1 DEF DefineScan, DefineCommit, RemoveScan, RemoveCommit, At
  <2>5. CASE Load(c)
    <3>1. pc'[c] = FirstLabel(stmt[c].op)
      BY <1>1, <2>5, GotoFacts DEF Load
    <3>2. pc'[c] \notin {"fetch", "idle"}
      BY <3>1 DEF FirstLabel
    <3> QED
      BY <3>2 DEF Answered, At
  <2>6. CASE Get(c) \/ Replace(c) \/ Erase(c)
    <3>1. stmt[c].op = "delete_where"
      BY <1>2, <1>4, <2>6 DEF Get, Replace, Erase, At, OpsAt
    <3>2. Fail(c) \/ (\E left : Advance(c, left)) \/ pc' = [pc EXCEPT ![c] = "write"]
      <4>1. CASE Get(c)
        BY <4>1 DEF Get, Goto
      <4> QED
        BY <2>6, <4>1, WriteSteps
    <3>3. pc'[c] # "fetch"
      BY <1>1, <3>2, FailFacts, AdvanceFacts DEF TypeInv, TypeOK
    <3> QED
      BY SMTT(30), <1>1, <3>1, <3>3 DEF Answered, At
  <2> QED
    BY <2>2, <2>3, <2>4, <2>5, <2>6 DEF Step
<1> QED
  BY <1>3, <1>4

LEMMA AnswerInvInit == Init => AnswerInv
<1> SUFFICES ASSUME Init PROVE AnswerInv
  OBVIOUS
<1>1. \A c \in Conns : pc[c] = "idle" /\ reply[c] = NoReply
  BY DEF Init
<1>2. \A c \in Conns : Answered(c)
  BY <1>1 DEF Answered, At, NoReply
<1> QED
  BY <1>2, ExactInvInit, WholeInvInit DEF AnswerInv

LEMMA AnswerInvNext ==
  ASSUME OneConnection, SettledNames, DistinctUpserts, WholeTuples, AnswerInv, [Next]_vars
  PROVE  AnswerInv'
<1>1. ExactInv' /\ WholeInv' /\ TypeInv'
  BY ExactInvNext, WholeInvNext DEF AnswerInv, WholeInv
<1>2. CASE UNCHANGED vars
  <2>1. \A c \in Conns : Answered(c)'
    BY <1>2 DEF AnswerInv, Answered, At, vars, store
  <2> QED
    BY <1>1, <2>1 DEF AnswerInv
<1>3. CASE Crash
  <2>1. \A c \in Conns : pc'[c] = "idle" /\ reply'[c] = NoReply
    BY <1>3 DEF Crash
  <2>2. \A c \in Conns : Answered(c)'
    BY <2>1 DEF Answered, At, NoReply
  <2> QED
    BY <1>1, <2>2 DEF AnswerInv
<1>4. ASSUME NEW c \in Conns, Begin(c) PROVE AnswerInv'
  <2>1. pc'[c] \in {"load", "define"}
    BY <1>4 DEF Begin, AnswerInv, WholeInv, TypeInv, TypeOK
  <2>2. Answered(c)'
    BY <2>1 DEF Answered, At
  <2> QED
    BY <1>1, <2>2 DEF AnswerInv, OneConnection
<1>5. ASSUME NEW c \in Conns, Step(c) PROVE AnswerInv'
  <2>1. Answered(c)'
    BY <1>1, <1>5, LookupAnswers, FetchAnswers, OtherAnswers
  <2> QED
    BY <1>1, <2>1 DEF AnswerInv, OneConnection
<1> QED
  BY <1>2, <1>3, <1>4, <1>5 DEF Next

\* With one connection every SELECT returns exactly the records that match and
\* every COUNT their number, whether it scans the table, fetches what an index
\* found or counts index entries without reading a document, as long as records
\* have the later fields of the indexes and a redefined name keeps its fields.
THEOREM QueriesAreExact ==
  OneConnection /\ SettledNames /\ DistinctUpserts /\ WholeTuples => (Spec => []QueriesExact)
<1> SUFFICES ASSUME OneConnection, SettledNames, DistinctUpserts, WholeTuples
             PROVE  Spec => []QueriesExact
  OBVIOUS
<1>1. AnswerInv /\ [Next]_vars => AnswerInv'
  BY AnswerInvNext
<1>2. AnswerInv => QueriesExact
  BY MeetsIs DEF AnswerInv, Answered, QueriesExact, CountExact, SelectExact
<1> QED
  BY <1>1, <1>2, AnswerInvInit, PTL DEF Spec
=============================================================================
