-------------------------- MODULE DocumentsProofs --------------------------
(***************************************************************************)
(* Theorems about Documents, for every set of connections, records,        *)
(* fields, values, indexes and statements: type correctness, and that no   *)
(* index misses a stored record while no connection changes the catalog.   *)
(* The lemmas about steps, stored documents and the planner also serve     *)
(* DocumentsHistoryProofs and DocumentsSequentialProofs.                   *)
(***************************************************************************)
EXTENDS Documents, FiniteSetTheorems, FunctionTheorems, WellFoundedInduction, TLAPS

\* The operations of the statements that reach a label.
OpsAt(label) ==
  CASE label \in {"contains", "unique"} -> {"create", "upsert"}
    [] label = "probe" -> {"upsert", "update"}
    [] label = "get" -> {"upsert", "update", "update_all", "delete", "delete_where"}
    [] label = "write" -> {"upsert", "update", "update_all", "delete", "delete_where"}
    [] label = "scan" -> {"update_all"}
    [] label \in {"lookup", "fetch"} -> {"delete_where", "select", "count"}
    [] label \in {"item", "item_get"} -> {"batch"}
    [] label \in {"define", "define_commit"} -> {"define"}
    [] label \in {"remove_scan", "remove_commit"} -> {"remove"}
    [] OTHER -> {"create", "upsert", "update", "update_all", "delete", "delete_where",
                 "select", "count", "batch", "remove"}

\* Where a connection stands says which statement it runs and which locals it
\* has set: what the guards of the code guarantee from one step to the next.
ControlOK ==
  \A c \in Conns :
    /\ pc[c] # "idle" => stmt[c] \in Statements[c] /\ stmt[c].op \in OpsAt(pc[c])
    /\ pc[c] = "write" => loc[c].cur \in Ids /\ loc[c].old \in Doc
    /\ loc[c].pos >= 1
    /\ pc[c] = "item_get" => /\ loc[c].pos <= Len(stmt[c].items)
                             /\ stmt[c].items[loc[c].pos].op = "upsert"

\* Only finitely many entries exist, are found or are queued.
FiniteOK ==
  /\ IsFiniteSet(entries)
  /\ \A c \in Conns : IsFiniteSet(loc[c].hits) /\ IsFiniteSet(loc[c].bput)

TypeInv == TypeOK /\ ControlOK /\ FiniteOK

LEMMA StatementTypes ==
  ASSUME NEW s \in Statement
  PROVE  /\ s.op \in {"create", "upsert"} => s.id \in Ids /\ s.doc \in Doc
         /\ s.op \in {"upsert", "update", "update_all"} => s.set \in Update
         /\ s.op \in {"upsert", "update", "delete"} => s.id \in Ids
         /\ s.op \in {"update_all", "delete_where", "select", "count"} => s.where \in Where
         /\ s.op = "batch" => s.items \in Seq(Item)
         /\ s.op = "define" => s.name \in Names /\ s.index \in Index
         /\ s.op = "remove" => s.name \in Names
BY DEF Statement, Item

LEMMA StatementOps ==
  ASSUME NEW s \in Statement
  PROVE  s.op \in {"create", "upsert", "update", "update_all", "delete", "delete_where",
                   "select", "count", "batch", "define", "remove"}
BY DEF Statement, Item

LEMMA ItemTypes ==
  ASSUME NEW items \in Seq(Item), NEW k \in 1 .. Len(items)
  PROVE  /\ items[k].id \in Ids
         /\ items[k].doc \in Doc
         /\ items[k].op = "upsert" => items[k].set \in Update
<1>1. items[k] \in Item
  OBVIOUS
<1> QED
  BY <1>1 DEF Item

LEMMA MergedType ==
  ASSUME NEW doc \in Doc, NEW upd \in Update
  PROVE  Merged(doc, upd) \in Doc
<1>1. PICK D \in SUBSET Fields : upd \in [D -> Vals \cup {Missing}]
  BY DEF Update
<1> QED
  BY <1>1 DEF Merged, Doc

\* The image of a finite set is finite.
LEMMA FiniteImage ==
  ASSUME NEW S, IsFiniteSet(S), NEW f, DOMAIN f = S, f = [x \in S |-> f[x]]
  PROVE  IsFiniteSet({f[x] : x \in S})
<1> DEFINE T == {f[x] : x \in S}
<1>1. f \in Surjection(S, T)
  BY DEF Surjection
<1> HIDE DEF T
<1>2. IsFiniteSet(T)
  BY <1>1, FS_Surjection
<1> QED
  BY <1>2 DEF T

LEMMA EntriesType ==
  ASSUME NEW i \in Ids, NEW doc \in Doc, NEW cat \in Catalog
  PROVE  /\ IndexEntries(i, doc, cat) \subseteq Entry
         /\ IsFiniteSet(IndexEntries(i, doc, cat))
         /\ \A e \in IndexEntries(i, doc, cat) : e.id = i
<1> DEFINE En(n) == [name |-> n, key |-> Tuple(doc, cat[n]), id |-> i]
<1>1. ASSUME NEW n \in Indexing(doc, cat) PROVE En(n) \in Entry
  <2>1. n \in Names /\ cat[n] \in Index /\ Complete(doc, cat[n])
    BY <1>1 DEF Indexing, Catalog
  <2>2. Len(cat[n].fields) \in Nat
    BY <2>1 DEF Index
  <2>3. Tuple(doc, cat[n]) \in Seq(Vals)
    BY <2>1, <2>2 DEF Tuple, Complete
  <2> QED
    BY <2>1, <2>3 DEF Entry
<1>2. IsFiniteSet(Indexing(doc, cat))
  BY FiniteAssumption, FS_Subset DEF Indexing
<1>3. IsFiniteSet(IndexEntries(i, doc, cat))
  <2> DEFINE S == Indexing(doc, cat)
             f == [n \in S |-> En(n)]
  <2>1. IsFiniteSet({f[n] : n \in S})
    <3>1. DOMAIN f = S /\ f = [n \in S |-> f[n]]
      OBVIOUS
    <3> HIDE DEF f, S
    <3> QED
      BY <1>2, <3>1, FiniteImage DEF S
  <2>2. {f[n] : n \in S} = IndexEntries(i, doc, cat)
    BY DEF IndexEntries
  <2> QED
    BY <2>1, <2>2
<1> QED
  BY <1>1, <1>3 DEF IndexEntries

-----------------------------------------------------------------------------
(* Type correctness *)

StoreOK ==
  /\ docs \in [Ids -> Doc \cup {NoDoc}]
  /\ entries \subseteq Entry
  /\ IsFiniteSet(entries)
  /\ catalog \in Catalog

LocalOK(l) ==
  /\ l \in Local
  /\ IsFiniteSet(l.hits)
  /\ IsFiniteSet(l.bput)
  /\ l.pos >= 1

LEMMA FreshType == LocalOK(Fresh)
<1>1. Fresh \in Local
  BY DEF Fresh, Local, Catalog
<1> QED
  BY <1>1, FS_EmptySet DEF Fresh, LocalOK

LEMMA TypeInvParts ==
  ASSUME TypeInv
  PROVE  /\ StoreOK
         /\ \A c \in Conns : LocalOK(loc[c]) /\ pc[c] \in Labels
         /\ \A c \in Conns : pc[c] # "idle" => /\ stmt[c] \in Statements[c]
                                               /\ stmt[c] \in Statement
                                               /\ stmt[c].op \in OpsAt(pc[c])
BY StatementsAssumption DEF TypeInv, TypeOK, ControlOK, FiniteOK, StoreOK, LocalOK

\* Going on keeps the invariant when the new locals suit the new label.
LEMMA GotoType ==
  ASSUME TypeInv, StoreOK', NEW c \in Conns, NEW label \in Labels, NEW l, LocalOK(l),
         stmt[c] \in Statements[c],
         stmt[c].op \in OpsAt(label),
         label = "write" => l.cur \in Ids /\ l.old \in Doc,
         label = "item_get" => /\ l.pos <= Len(stmt[c].items)
                               /\ stmt[c].items[l.pos].op = "upsert",
         Goto(c, label, l)
  PROVE  TypeInv'
<1>1. TypeOK'
  BY DEF TypeInv, TypeOK, StoreOK, LocalOK, Goto
<1>2. FiniteOK'
  BY DEF TypeInv, TypeOK, FiniteOK, StoreOK, LocalOK, Goto
<1>3. ASSUME NEW d \in Conns
      PROVE  /\ pc'[d] # "idle" => stmt'[d] \in Statements[d] /\ stmt'[d].op \in OpsAt(pc'[d])
             /\ pc'[d] = "write" => loc'[d].cur \in Ids /\ loc'[d].old \in Doc
             /\ loc'[d].pos >= 1
             /\ pc'[d] = "item_get" => /\ loc'[d].pos <= Len(stmt'[d].items)
                                       /\ stmt'[d].items[loc'[d].pos].op = "upsert"
  <2>1. CASE d = c
    BY <2>1 DEF TypeInv, TypeOK, LocalOK, Goto
  <2>2. CASE d # c
    <3>1. pc'[d] = pc[d] /\ loc'[d] = loc[d] /\ stmt'[d] = stmt[d]
      BY <2>2 DEF TypeInv, TypeOK, Goto
    <3> QED
      BY <3>1 DEF TypeInv, ControlOK
  <2> QED
    BY <2>1, <2>2
<1>4. ControlOK'
  BY <1>3 DEF ControlOK
<1> QED
  BY <1>1, <1>2, <1>4 DEF TypeInv

\* So does returning.
LEMMA ReturnType ==
  ASSUME TypeInv, StoreOK', NEW c \in Conns, NEW r \in Reply, Return(c, r)
  PROVE  TypeInv'
<1>1. TypeOK'
  BY FreshType DEF TypeInv, TypeOK, StoreOK, LocalOK, Return, Labels
<1>2. FiniteOK'
  BY FreshType DEF TypeInv, TypeOK, FiniteOK, StoreOK, LocalOK, Return
<1>3. ASSUME NEW d \in Conns
      PROVE  /\ pc'[d] # "idle" => stmt'[d] \in Statements[d] /\ stmt'[d].op \in OpsAt(pc'[d])
             /\ pc'[d] = "write" => loc'[d].cur \in Ids /\ loc'[d].old \in Doc
             /\ loc'[d].pos >= 1
             /\ pc'[d] = "item_get" => /\ loc'[d].pos <= Len(stmt'[d].items)
                                       /\ stmt'[d].items[loc'[d].pos].op = "upsert"
  <2>1. CASE d = c
    BY <2>1, FreshType DEF TypeInv, TypeOK, LocalOK, Return
  <2>2. CASE d # c
    <3>1. pc'[d] = pc[d] /\ loc'[d] = loc[d] /\ stmt'[d] = stmt[d]
      BY <2>2 DEF TypeInv, TypeOK, Return
    <3> QED
      BY <3>1 DEF TypeInv, ControlOK
  <2> QED
    BY <2>1, <2>2
<1>4. ControlOK'
  BY <1>3 DEF ControlOK
<1> QED
  BY <1>1, <1>2, <1>4 DEF TypeInv

LEMMA OkType ==
  ASSUME TypeInv, StoreOK', NEW c \in Conns, Ok(c)
  PROVE  TypeInv'
<1>1. [NoReply EXCEPT !.outcome = "ok"] \in Reply
  BY DEF NoReply, Reply
<1> QED
  BY <1>1, ReturnType DEF Ok

LEMMA StoreKept ==
  ASSUME TypeInv, UNCHANGED store
  PROVE  StoreOK'
BY DEF TypeInv, TypeOK, FiniteOK, StoreOK, store

LEMMA FailType ==
  ASSUME TypeInv, NEW c \in Conns, Fail(c)
  PROVE  TypeInv'
<1>1. [NoReply EXCEPT !.outcome = "error"] \in Reply
  BY DEF NoReply, Reply
<1> QED
  BY <1>1, ReturnType, StoreKept DEF Fail

LEMMA AdvanceType ==
  ASSUME TypeInv, StoreOK', NEW c \in Conns, NEW left \in SUBSET Ids, pc[c] # "idle",
         stmt[c].op \in OpsAt("get"), Advance(c, left)
  PROVE  TypeInv'
<1>1. CASE left = {}
  BY <1>1, OkType DEF Advance
<1>2. CASE left # {}
  <2> DEFINE l == [loc[c] EXCEPT !.rows = left, !.cur = NoId, !.old = NoDoc]
  <2>1. LocalOK(l)
    BY ZenonT(60), TypeInvParts DEF LocalOK, Local
  <2>2. Goto(c, "get", l)
    BY <1>2 DEF Advance
  <2>3. stmt[c] \in Statements[c] /\ "get" \in Labels
    BY TypeInvParts DEF Labels
  <2> HIDE DEF l
  <2> QED
    BY <2>1, <2>2, <2>3, GotoType
<1> QED
  BY <1>1, <1>2

LEMMA MatchingType ==
  ASSUME NEW w
  PROVE  Matching(w) \in SUBSET Ids /\ Cardinality(Matching(w)) \in Nat
<1>1. Matching(w) \in SUBSET Ids
  BY DEF Matching
<1> QED
  BY <1>1, FiniteAssumption, FS_Subset, FS_CardinalityType

LEMMA DeliverType ==
  ASSUME TypeInv, UNCHANGED store, NEW c \in Conns, NEW ids \in SUBSET Ids, NEW n \in Nat,
         pc[c] \in {"lookup", "fetch"}, Deliver(c, ids, n)
  PROVE  TypeInv'
<1>1. StoreOK'
  BY StoreKept
<1>2. stmt[c].op \in {"delete_where", "select", "count"}
  BY TypeInvParts DEF OpsAt
<1>3. CASE stmt[c].op = "select"
  <2>1. [outcome |-> "ok", rows |-> ids, total |-> 0] \in Reply
    BY DEF Reply
  <2> QED
    BY <1>1, <1>3, <2>1, ReturnType DEF Deliver
<1>4. CASE stmt[c].op = "count"
  <2>1. [outcome |-> "ok", rows |-> {}, total |-> n] \in Reply
    BY DEF Reply
  <2> QED
    BY <1>1, <1>4, <2>1, ReturnType DEF Deliver
<1>5. CASE stmt[c].op = "delete_where"
  <2>1. Advance(c, ids)
    BY <1>5 DEF Deliver
  <2>2. stmt[c].op \in OpsAt("get")
    BY <1>5 DEF OpsAt
  <2> QED
    BY <1>1, <2>1, <2>2, AdvanceType
<1> QED
  BY <1>2, <1>3, <1>4, <1>5

LEMMA BeginType ==
  ASSUME TypeInv, NEW c \in Conns, Begin(c)
  PROVE  TypeInv'
<1>1. PICK s \in Statements[c] :
        /\ stmt' = [stmt EXCEPT ![c] = s]
        /\ pc' = [pc EXCEPT ![c] = IF s.op = "define" THEN "define" ELSE "load"]
  BY DEF Begin
<1>2. s \in Statement /\ s.op \in OpsAt(IF s.op = "define" THEN "define" ELSE "load")
  BY StatementsAssumption, StatementOps DEF OpsAt
<1>3. NoReply \in Reply
  BY DEF NoReply, Reply
<1>4. TypeOK' /\ FiniteOK'
  BY <1>1, <1>2, <1>3 DEF TypeInv, TypeOK, FiniteOK, Begin, store, Labels
<1>5. ASSUME NEW d \in Conns
      PROVE  /\ pc'[d] # "idle" => stmt'[d] \in Statements[d] /\ stmt'[d].op \in OpsAt(pc'[d])
             /\ pc'[d] = "write" => loc'[d].cur \in Ids /\ loc'[d].old \in Doc
             /\ loc'[d].pos >= 1
             /\ pc'[d] = "item_get" => /\ loc'[d].pos <= Len(stmt'[d].items)
                                       /\ stmt'[d].items[loc'[d].pos].op = "upsert"
  <2>1. loc' = loc
    BY DEF Begin
  <2>2. CASE d = c
    BY <1>1, <1>2, <2>1, <2>2 DEF TypeInv, TypeOK, ControlOK
  <2>3. CASE d # c
    <3>1. pc'[d] = pc[d] /\ stmt'[d] = stmt[d]
      BY <1>1, <2>3 DEF TypeInv, TypeOK
    <3> QED
      BY <2>1, <3>1 DEF TypeInv, ControlOK
  <2> QED
    BY <2>2, <2>3
<1>6. ControlOK'
  BY <1>5 DEF ControlOK
<1> QED
  BY <1>4, <1>6 DEF TypeInv

LEMMA CrashType ==
  ASSUME TypeInv, Crash
  PROVE  TypeInv'
<1>1. NoReply \in Reply
  BY DEF NoReply, Reply
<1> QED
  BY <1>1, FreshType
  DEF Crash, TypeInv, TypeOK, ControlOK, FiniteOK, LocalOK, store, Labels

LEMMA LoadType ==
  ASSUME TypeInv, NEW c \in Conns, Load(c)
  PROVE  TypeInv'
<1> DEFINE s == stmt[c]
           l == [loc[c] EXCEPT !.idx = catalog,
                               !.rows = IF s.op \in {"upsert", "update", "delete"}
                                        THEN {s.id} ELSE {}]
<1>1. s \in Statements[c] /\ s \in Statement /\ s.op \in OpsAt("load") /\ LocalOK(loc[c])
  BY TypeInvParts DEF Load, At
<1>2. FirstLabel(s.op) \in Labels \ {"write", "item_get"} /\ s.op \in OpsAt(FirstLabel(s.op))
  BY <1>1 DEF OpsAt, FirstLabel, Labels
<1>3. LocalOK(l)
  BY ZenonT(60), <1>1, StatementTypes DEF LocalOK, Local, TypeInv, TypeOK
<1>4. Goto(c, FirstLabel(s.op), l) /\ StoreOK'
  BY StoreKept DEF Load
<1> HIDE DEF l
<1> QED
  BY <1>1, <1>2, <1>3, <1>4, GotoType

LEMMA CreateType ==
  ASSUME TypeInv, NEW c \in Conns, Contains(c) \/ CheckUnique(c) \/ Insert(c)
  PROVE  TypeInv'
<1> DEFINE s == stmt[c]
           l == loc[c]
<1>1. s \in Statements[c] /\ s \in Statement /\ s.op \in {"create", "upsert"} /\ LocalOK(l)
  BY TypeInvParts DEF Contains, CheckUnique, Insert, At, OpsAt
<1>2. s.id \in Ids /\ s.doc \in Doc /\ s.op \in OpsAt("unique")
  BY <1>1, StatementTypes DEF OpsAt
<1>3. ASSUME NEW C \in SUBSET Names, Goto(c, "unique", [l EXCEPT !.checks = C]), UNCHANGED store
      PROVE  TypeInv'
  <2>1. LocalOK([l EXCEPT !.checks = C])
    BY <1>1 DEF LocalOK, Local
  <2> QED
    BY <1>1, <1>2, <1>3, <2>1, GotoType, StoreKept DEF Labels
<1>4. CASE Contains(c)
  <2>1. {n \in Indexing(s.doc, l.idx) : l.idx[n].unique} \in SUBSET Names
    BY DEF Indexing
  <2> QED
    BY <1>3, <1>4, <2>1, FailType DEF Contains
<1>5. CASE CheckUnique(c)
  <2>1. \A n : l.checks \ {n} \in SUBSET Names
    BY <1>1 DEF LocalOK, Local
  <2>2. PICK n \in l.checks :
          \/ Fail(c)
          \/ Goto(c, "unique", [l EXCEPT !.checks = l.checks \ {n}]) /\ UNCHANGED store
    BY <1>5 DEF CheckUnique
  <2> QED
    BY <1>3, <2>1, <2>2, FailType
<1>6. CASE Insert(c)
  <2>1. CASE Fail(c)
    BY <2>1, FailType
  <2>2. CASE /\ docs' = [docs EXCEPT ![s.id] = s.doc]
             /\ entries' = entries \cup IndexEntries(s.id, s.doc, l.idx)
             /\ catalog' = catalog
             /\ Ok(c)
    <3>1. l.idx \in Catalog
      BY <1>1 DEF LocalOK, Local
    <3>2. /\ IndexEntries(s.id, s.doc, l.idx) \subseteq Entry
          /\ IsFiniteSet(IndexEntries(s.id, s.doc, l.idx))
      BY <1>2, <3>1, EntriesType
    <3>3. IsFiniteSet(entries')
      BY <2>2, <3>2, FS_Union DEF TypeInv, FiniteOK
    <3>4. StoreOK'
      BY <1>2, <2>2, <3>2, <3>3 DEF StoreOK, TypeInv, TypeOK
    <3> QED
      BY <2>2, <3>4, OkType
  <2> QED
    BY <1>6, <2>1, <2>2 DEF Insert
<1> QED
  BY <1>4, <1>5, <1>6

LEMMA ProbeType ==
  ASSUME TypeInv, NEW c \in Conns, Probe(c)
  PROVE  TypeInv'
<1>1. /\ stmt[c] \in Statements[c]
      /\ stmt[c].op \in {"upsert", "update"}
      /\ LocalOK(loc[c])
      /\ StoreOK'
  BY TypeInvParts, StoreKept DEF Probe, At, OpsAt
<1>2. CASE Goto(c, "get", loc[c])
  BY <1>1, <1>2, GotoType DEF OpsAt, Labels
<1>3. CASE stmt[c].op = "upsert" /\ Goto(c, "contains", [loc[c] EXCEPT !.rows = {}])
  <2>1. LocalOK([loc[c] EXCEPT !.rows = {}])
    BY <1>1 DEF LocalOK, Local
  <2> QED
    BY <1>1, <1>3, <2>1, GotoType DEF OpsAt, Labels
<1>4. CASE Ok(c)
  BY <1>1, <1>4, OkType
<1> QED
  BY <1>2, <1>3, <1>4 DEF Probe

LEMMA ScanType ==
  ASSUME TypeInv, NEW c \in Conns, Scan(c)
  PROVE  TypeInv'
<1>1. pc[c] # "idle" /\ stmt[c].op \in OpsAt("get") /\ StoreOK'
  BY TypeInvParts, StoreKept DEF Scan, At, OpsAt
<1> QED
  BY <1>1, MatchingType, AdvanceType DEF Scan

LEMMA GetType ==
  ASSUME TypeInv, NEW c \in Conns, Get(c)
  PROVE  TypeInv'
<1> DEFINE l == loc[c]
<1>1. /\ stmt[c] \in Statements[c]
      /\ stmt[c].op \in OpsAt("get")
      /\ stmt[c].op \in OpsAt("write")
      /\ LocalOK(l)
      /\ StoreOK'
      /\ pc[c] # "idle"
  BY TypeInvParts, StoreKept DEF Get, At, OpsAt
<1>2. PICK i \in l.rows :
        \/ docs[i] # NoDoc /\ Goto(c, "write", [l EXCEPT !.cur = i, !.old = docs[i]])
        \/ Advance(c, l.rows \ {i})
        \/ Fail(c)
  BY DEF Get
<1>3. i \in Ids /\ l.rows \ {i} \in SUBSET Ids
  BY <1>1 DEF LocalOK, Local
<1>4. CASE docs[i] # NoDoc /\ Goto(c, "write", [l EXCEPT !.cur = i, !.old = docs[i]])
  <2> DEFINE m == [l EXCEPT !.cur = i, !.old = docs[i]]
  <2>1. docs[i] \in Doc
    BY <1>3, <1>4 DEF TypeInv, TypeOK
  <2>2. LocalOK(m) /\ m.cur = i /\ m.old = docs[i]
    BY <1>1, <1>3, <2>1 DEF LocalOK, Local
  <2> HIDE DEF m
  <2> QED
    BY ZenonT(60), <1>1, <1>3, <1>4, <2>1, <2>2, GotoType DEF Labels, m
<1>5. CASE Advance(c, l.rows \ {i})
  BY <1>1, <1>3, <1>5, AdvanceType
<1>6. CASE Fail(c)
  BY <1>6, FailType
<1> QED
  BY <1>2, <1>4, <1>5, <1>6

\* What the two writers of an existing record work on.
LEMMA WriteFacts ==
  ASSUME TypeInv, NEW c \in Conns, At(c, "write")
  PROVE  /\ stmt[c] \in Statement
         /\ stmt[c].op \in OpsAt("get")
         /\ pc[c] # "idle"
         /\ loc[c].cur \in Ids
         /\ loc[c].old \in Doc
         /\ loc[c].idx \in Catalog
         /\ loc[c].rows \ {loc[c].cur} \in SUBSET Ids
BY TypeInvParts DEF At, OpsAt, TypeInv, ControlOK, LocalOK, Local

LEMMA ReplaceType ==
  ASSUME TypeInv, NEW c \in Conns, Replace(c)
  PROVE  TypeInv'
<1> DEFINE l == loc[c]
           new == Merged(l.old, stmt[c].set)
<1>1. At(c, "write") /\ stmt[c].op \in {"update", "update_all", "upsert"}
  BY DEF Replace
<1>2. new \in Doc
  BY <1>1, WriteFacts, StatementTypes, MergedType
<1> HIDE DEF new
<1>3. CASE Fail(c)
  BY <1>3, FailType
<1>4. CASE /\ docs' = [docs EXCEPT ![l.cur] = new]
           /\ entries' = (entries \ IndexEntries(l.cur, l.old, l.idx))
                           \cup IndexEntries(l.cur, new, l.idx)
           /\ catalog' = catalog
           /\ Advance(c, l.rows \ {l.cur})
  <2>1. /\ IndexEntries(l.cur, new, l.idx) \subseteq Entry
        /\ IsFiniteSet(IndexEntries(l.cur, new, l.idx))
    BY <1>1, <1>2, WriteFacts, EntriesType
  <2>2. IsFiniteSet(entries \ IndexEntries(l.cur, l.old, l.idx))
    BY FS_Difference DEF TypeInv, FiniteOK
  <2>3. IsFiniteSet(entries')
    BY <1>4, <2>1, <2>2, FS_Union
  <2>4. StoreOK'
    BY <1>1, <1>2, <1>4, <2>1, <2>3, WriteFacts DEF StoreOK, TypeInv, TypeOK
  <2> QED
    BY <1>1, <1>4, <2>4, WriteFacts, AdvanceType
<1> QED
  BY <1>3, <1>4 DEF Replace, WriteBatch, new

LEMMA EraseType ==
  ASSUME TypeInv, NEW c \in Conns, Erase(c)
  PROVE  TypeInv'
<1> DEFINE l == loc[c]
<1>1. At(c, "write")
  BY DEF Erase
<1>2. CASE Fail(c)
  BY <1>2, FailType
<1>3. CASE /\ docs' = [docs EXCEPT ![l.cur] = NoDoc]
           /\ entries' = entries \ IndexEntries(l.cur, l.old, l.idx)
           /\ catalog' = catalog
           /\ Advance(c, l.rows \ {l.cur})
  <2>1. IsFiniteSet(entries')
    BY <1>3, FS_Difference DEF TypeInv, FiniteOK
  <2>2. StoreOK'
    BY <1>1, <1>3, <2>1, WriteFacts DEF StoreOK, TypeInv, TypeOK
  <2> QED
    BY <1>1, <1>3, <2>2, WriteFacts, AdvanceType
<1> QED
  BY <1>2, <1>3 DEF Erase

LEMMA LookupType ==
  ASSUME TypeInv, NEW c \in Conns, Lookup(c)
  PROVE  TypeInv'
<1> DEFINE w == stmt[c].where
           l == loc[c]
           H == PlanHits(l.idx, w)
<1>1. H \in SUBSET entries
  BY DEF PlanHits, Hits
<1>2. IsFiniteSet(H) /\ Cardinality(H) \in Nat
  BY <1>1, FS_Subset, FS_CardinalityType DEF TypeInv, FiniteOK
<1>3. /\ pc[c] = "lookup"
      /\ stmt[c] \in Statements[c]
      /\ stmt[c].op \in OpsAt("fetch")
      /\ LocalOK(l)
      /\ UNCHANGED store
      /\ StoreOK'
  BY TypeInvParts, StoreKept DEF Lookup, At, OpsAt
<1> HIDE DEF H
<1>4. CASE Deliver(c, Matching(w), Cardinality(Matching(w)))
  BY <1>3, <1>4, MatchingType, DeliverType
<1>5. CASE Deliver(c, {}, Cardinality(H))
  BY <1>2, <1>3, <1>5, DeliverType
<1>6. CASE Goto(c, "fetch", [l EXCEPT !.hits = H])
  <2>1. LocalOK([l EXCEPT !.hits = H])
    BY <1>1, <1>2, <1>3 DEF LocalOK, Local, TypeInv, TypeOK
  <2> QED
    BY <1>3, <1>6, <2>1, GotoType DEF Labels
<1> QED
  BY <1>4, <1>5, <1>6 DEF Lookup, H

LEMMA FetchType ==
  ASSUME TypeInv, NEW c \in Conns, Fetch(c)
  PROVE  TypeInv'
<1> DEFINE w == stmt[c].where
           l == loc[c]
           fieldCount == Len(l.idx[Plan(l.idx, w)].fields)
           found == {e \in l.hits : Len(e.key) = fieldCount /\ e.id \in Matching(w)}
<1>1. pc[c] = "fetch" /\ UNCHANGED store /\ LocalOK(l)
  BY TypeInvParts DEF Fetch, At
<1>2. found \in SUBSET l.hits
  OBVIOUS
<1>3. Cardinality(found) \in Nat
  BY <1>1, <1>2, FS_Subset, FS_CardinalityType DEF LocalOK
<1>4. {e.id : e \in found} \in SUBSET Ids
  BY SMTT(30) DEF Matching
<1>5. Deliver(c, {e.id : e \in found}, Cardinality(found))
  BY DEF Fetch
<1> HIDE DEF found
<1> QED
  BY <1>1, <1>3, <1>4, <1>5, DeliverType

LEMMA QueueType ==
  ASSUME TypeInv, UNCHANGED store, NEW c \in Conns, pc[c] \in {"item", "item_get"},
         NEW i \in Ids, NEW doc \in Doc, NEW dels \in SUBSET Entry, Queue(c, i, doc, dels)
  PROVE  TypeInv'
<1> DEFINE l == loc[c]
           E == IndexEntries(i, doc, l.idx)
           m == [l EXCEPT !.pos = @ + 1, !.bdocs[i] = doc, !.bput = @ \cup E, !.bdel = @ \cup dels]
<1>1. /\ stmt[c] \in Statements[c]
      /\ stmt[c].op \in OpsAt("item")
      /\ LocalOK(l)
      /\ StoreOK'
  BY TypeInvParts, StoreKept DEF OpsAt
<1>2. l.idx \in Catalog
  BY <1>1 DEF LocalOK, Local
<1>3. E \subseteq Entry /\ IsFiniteSet(E)
  BY <1>2, EntriesType
<1>4. Goto(c, "item", m)
  BY DEF Queue
<1> HIDE DEF E
<1>5. IsFiniteSet(l.bput \cup E)
  BY <1>1, <1>3, FS_Union DEF LocalOK
<1>6. LocalOK(m)
  <2>1. l \in Local
    BY <1>1 DEF LocalOK
  <2>2. /\ l.pos + 1 \in Nat
        /\ [l.bdocs EXCEPT ![i] = doc] \in [Ids -> Doc \cup {NoDoc}]
        /\ l.bput \cup E \subseteq Entry
        /\ l.bdel \cup dels \subseteq Entry
    BY <1>3, <2>1 DEF Local
  <2>3. m \in Local
    BY <2>1, <2>2 DEF Local
  <2>4. /\ m.hits = l.hits
        /\ m.bput = l.bput \cup E
        /\ m.pos = l.pos + 1
    BY <2>1 DEF Local
  <2> QED
    BY <1>1, <1>5, <2>1, <2>3, <2>4 DEF LocalOK, Local
<1> HIDE DEF m
<1> QED
  BY <1>1, <1>4, <1>6, GotoType DEF Labels

LEMMA PrepareItemType ==
  ASSUME TypeInv, NEW c \in Conns, PrepareItem(c)
  PROVE  TypeInv'
<1> DEFINE l == loc[c]
           it == stmt[c].items[l.pos]
<1>1. /\ pc[c] = "item"
      /\ stmt[c] \in Statements[c]
      /\ stmt[c] \in Statement
      /\ stmt[c].op = "batch"
      /\ LocalOK(l)
      /\ UNCHANGED store
      /\ StoreOK'
  BY TypeInvParts, StoreKept DEF PrepareItem, At, OpsAt
<1>2. l.pos \in 1 .. Len(stmt[c].items) /\ stmt[c].items \in Seq(Item)
  BY <1>1, StatementTypes DEF PrepareItem, LocalOK, Local
<1>3. it.id \in Ids /\ it.doc \in Doc
  BY <1>2, ItemTypes
<1>4. CASE it.op = "upsert" /\ Goto(c, "item_get", l)
  BY <1>1, <1>2, <1>4, GotoType DEF OpsAt, Labels
<1>5. CASE Queue(c, it.id, it.doc, {})
  BY <1>1, <1>3, <1>5, QueueType
<1>6. CASE Fail(c)
  BY SMTT(30), <1>6, FailType
<1> QED
  BY <1>4, <1>5, <1>6 DEF PrepareItem

LEMMA MergeItemType ==
  ASSUME TypeInv, NEW c \in Conns, MergeItem(c)
  PROVE  TypeInv'
<1> DEFINE l == loc[c]
           it == stmt[c].items[l.pos]
           o == docs[it.id]
           new == Merged(o, it.set)
<1>1. /\ pc[c] = "item_get"
      /\ stmt[c] \in Statement
      /\ stmt[c].op = "batch"
      /\ l.idx \in Catalog
      /\ l.pos \in Nat /\ l.pos >= 1
      /\ l.pos <= Len(stmt[c].items)
      /\ it.op = "upsert"
      /\ UNCHANGED store
  BY TypeInvParts DEF MergeItem, At, OpsAt, TypeInv, ControlOK, LocalOK, Local
<1>2. l.pos \in 1 .. Len(stmt[c].items) /\ stmt[c].items \in Seq(Item)
  BY <1>1, StatementTypes
<1>3. it.id \in Ids /\ it.set \in Update
  BY SMTT(30), <1>1, <1>2, ItemTypes
<1>4. CASE Fail(c)
  BY <1>4, FailType
<1>5. CASE o # NoDoc /\ Queue(c, it.id, new, IndexEntries(it.id, o, l.idx))
  <2>1. o \in Doc
    BY <1>3, <1>5 DEF TypeInv, TypeOK
  <2>2. new \in Doc
    BY <1>3, <2>1, MergedType
  <2>3. IndexEntries(it.id, o, l.idx) \in SUBSET Entry
    BY <1>1, <1>3, <2>1, EntriesType
  <2> HIDE DEF new, o, it
  <2> QED
    BY <1>1, <1>3, <1>5, <2>2, <2>3, QueueType
<1> QED
  BY SMTT(30), <1>4, <1>5 DEF MergeItem

LEMMA CommitBatchType ==
  ASSUME TypeInv, NEW c \in Conns, CommitBatch(c)
  PROVE  TypeInv'
<1> DEFINE l == loc[c]
<1>1. LocalOK(l)
  BY TypeInvParts
<1>2. IsFiniteSet(entries \ l.bdel)
  BY FS_Difference DEF TypeInv, FiniteOK
<1>3. IsFiniteSet(entries')
  BY <1>1, <1>2, FS_Union DEF CommitBatch, WriteBatch, LocalOK
<1>4. StoreOK'
  BY <1>1, <1>3 DEF StoreOK, CommitBatch, WriteBatch, LocalOK, Local, TypeInv, TypeOK
<1> QED
  BY <1>4, OkType DEF CommitBatch

LEMMA DefineScanType ==
  ASSUME TypeInv, NEW c \in Conns, DefineScan(c)
  PROVE  TypeInv'
<1> DEFINE s == stmt[c]
           cat == [n \in Names |-> IF n = s.name THEN s.index ELSE NoIndex]
           stored == {i \in Ids : docs[i] # NoDoc}
           f == [i \in stored |-> IndexEntries(i, docs[i], cat)]
           B == UNION {IndexEntries(i, docs[i], cat) : i \in stored}
<1>1. /\ s \in Statements[c]
      /\ s \in Statement
      /\ s.op = "define"
      /\ LocalOK(loc[c])
      /\ StoreOK'
  BY TypeInvParts, StoreKept DEF DefineScan, At, OpsAt
<1>2. cat \in Catalog
  BY <1>1, StatementTypes DEF Catalog
<1>3. \A i \in stored : docs[i] \in Doc
  BY DEF TypeInv, TypeOK
<1> HIDE DEF cat
<1>4. \A i \in stored : f[i] \subseteq Entry /\ IsFiniteSet(f[i])
  BY <1>2, <1>3, EntriesType
<1>5. IsFiniteSet(stored)
  BY FiniteAssumption, FS_Subset
<1>6. DOMAIN f = stored /\ f = [i \in stored |-> f[i]] /\ B = UNION {f[i] : i \in stored}
  OBVIOUS
<1> HIDE DEF f, stored, B
<1>7. IsFiniteSet({f[i] : i \in stored})
  BY <1>5, <1>6, FiniteImage
<1>8. IsFiniteSet(B) /\ B \subseteq Entry
  <2>1. \A T \in {f[i] : i \in stored} : IsFiniteSet(T) /\ T \subseteq Entry
    BY <1>4
  <2>2. IsFiniteSet(UNION {f[i] : i \in stored})
    BY <1>7, <2>1, FS_UNION
  <2> QED
    BY <1>6, <2>1, <2>2
<1>9. CASE Fail(c)
  BY <1>9, FailType
<1>10. CASE Goto(c, "define_commit", [loc[c] EXCEPT !.bput = B])
  <2>1. LocalOK([loc[c] EXCEPT !.bput = B])
    BY <1>1, <1>8 DEF LocalOK, Local
  <2> QED
    BY <1>1, <1>10, <2>1, GotoType DEF OpsAt, Labels
<1> QED
  BY <1>9, <1>10 DEF DefineScan, B, stored, cat

LEMMA DefineCommitType ==
  ASSUME TypeInv, NEW c \in Conns, DefineCommit(c)
  PROVE  TypeInv'
<1>1. stmt[c] \in Statement /\ stmt[c].op = "define" /\ LocalOK(loc[c])
  BY TypeInvParts DEF DefineCommit, At, OpsAt
<1>2. stmt[c].name \in Names /\ stmt[c].index \in Index
  BY <1>1, StatementTypes
<1>3. IsFiniteSet(entries')
  BY <1>1, FS_Union DEF DefineCommit, WriteBatch, LocalOK, TypeInv, FiniteOK
<1>4. StoreOK'
  BY <1>1, <1>2, <1>3 DEF DefineCommit, WriteBatch, StoreOK, LocalOK, Local, TypeInv, TypeOK, Catalog
<1> QED
  BY <1>4, OkType DEF DefineCommit

LEMMA RemoveType ==
  ASSUME TypeInv, NEW c \in Conns, RemoveScan(c) \/ RemoveCommit(c)
  PROVE  TypeInv'
<1>1. CASE RemoveScan(c)
  <2> DEFINE B == {e \in entries : e.name = stmt[c].name}
  <2>1. /\ stmt[c] \in Statements[c]
        /\ stmt[c].op \in OpsAt("remove_commit")
        /\ LocalOK(loc[c])
        /\ StoreOK'
    BY <1>1, TypeInvParts, StoreKept DEF RemoveScan, At, OpsAt
  <2>2. LocalOK([loc[c] EXCEPT !.bdel = B])
    BY <2>1 DEF LocalOK, Local, TypeInv, TypeOK
  <2> QED
    BY <1>1, <2>1, <2>2, GotoType DEF RemoveScan, Labels
<1>2. CASE RemoveCommit(c)
  <2>1. stmt[c] \in Statement /\ stmt[c].op = "remove"
    BY <1>2, TypeInvParts DEF RemoveCommit, At, OpsAt
  <2>2. IsFiniteSet(entries')
    <3>1. entries' = entries \ loc[c].bdel
      BY <1>2 DEF RemoveCommit, WriteBatch
    <3> QED
      BY <3>1, FS_Difference DEF TypeInv, FiniteOK
  <2>3. StoreOK'
    BY <1>2, <2>1, <2>2, StatementTypes DEF RemoveCommit, WriteBatch, StoreOK, TypeInv, TypeOK, Catalog
  <2> QED
    BY <1>2, <2>3, OkType DEF RemoveCommit
<1> QED
  BY <1>1, <1>2

LEMMA TypeInvInit == Init => TypeInv
<1> SUFFICES ASSUME Init PROVE TypeInv
  OBVIOUS
<1>1. NoReply \in Reply
  BY DEF NoReply, Reply
<1>2. TypeOK
  BY <1>1, FreshType, StatementsAssumption DEF Init, TypeOK, LocalOK, Labels
<1> QED
  BY <1>2, FreshType, FS_EmptySet DEF Init, TypeInv, ControlOK, FiniteOK, LocalOK

LEMMA TypeInvNext == TypeInv /\ [Next]_vars => TypeInv'
<1> SUFFICES ASSUME TypeInv, [Next]_vars PROVE TypeInv'
  OBVIOUS
<1>1. CASE UNCHANGED vars
  BY <1>1 DEF vars, store, TypeInv, TypeOK, ControlOK, FiniteOK
<1>2. CASE Crash
  BY <1>2, CrashType
<1>3. ASSUME NEW c \in Conns, Begin(c) \/ Step(c) PROVE TypeInv'
  BY <1>3, BeginType, LoadType, CreateType, ProbeType, ScanType, GetType, ReplaceType,
     EraseType, LookupType, FetchType, PrepareItemType, MergeItemType, CommitBatchType,
     DefineScanType, DefineCommitType, RemoveType
  DEF Step
<1> QED
  BY <1>1, <1>2, <1>3 DEF Next

\* Type correctness: whatever statements the connections send and however their
\* transactions interleave, every variable stays in its domain.
THEOREM TypeCorrect == Spec => []TypeOK
<1>1. TypeInv => TypeOK
  BY DEF TypeInv
<1> QED
  BY <1>1, TypeInvInit, TypeInvNext, PTL DEF Spec

-----------------------------------------------------------------------------
(* What a step of one connection leaves alone *)

\* The other connections do not move.
Rest(c) ==
  \A d \in Conns \ {c} : /\ pc'[d] = pc[d]
                         /\ stmt'[d] = stmt[d]
                         /\ loc'[d] = loc[d]
                         /\ reply'[d] = reply[d]

LEMMA GotoFacts ==
  ASSUME TypeInv, NEW c \in Conns, NEW label, NEW l, Goto(c, label, l)
  PROVE  /\ Rest(c)
         /\ stmt' = stmt
         /\ pc'[c] = label
         /\ loc'[c] = l
         /\ reply'[c] = reply[c]
BY DEF Goto, Rest, TypeInv, TypeOK

LEMMA ReturnFacts ==
  ASSUME TypeInv, NEW c \in Conns, NEW r, Return(c, r)
  PROVE  /\ Rest(c)
         /\ stmt' = stmt
         /\ pc'[c] = "idle"
         /\ loc'[c] = Fresh
         /\ reply'[c] = r
BY DEF Return, Rest, TypeInv, TypeOK

LEMMA OkFacts ==
  ASSUME TypeInv, NEW c \in Conns, Ok(c)
  PROVE  /\ Rest(c)
         /\ stmt' = stmt
         /\ pc'[c] = "idle"
         /\ loc'[c] = Fresh
         /\ reply'[c].outcome = "ok"
BY ReturnFacts DEF Ok, NoReply

LEMMA FailFacts ==
  ASSUME TypeInv, NEW c \in Conns, Fail(c)
  PROVE  /\ Rest(c)
         /\ stmt' = stmt
         /\ pc'[c] = "idle"
         /\ loc'[c] = Fresh
         /\ reply'[c].outcome = "error"
         /\ UNCHANGED store
BY ReturnFacts DEF Fail, NoReply

LEMMA AdvanceFacts ==
  ASSUME TypeInv, NEW c \in Conns, NEW left, Advance(c, left)
  PROVE  /\ Rest(c)
         /\ stmt' = stmt
         /\ \/ /\ left = {}
               /\ pc'[c] = "idle"
               /\ loc'[c] = Fresh
               /\ reply'[c].outcome = "ok"
            \/ /\ pc'[c] = "get"
               /\ loc'[c] = [loc[c] EXCEPT !.rows = left, !.cur = NoId, !.old = NoDoc]
               /\ reply'[c] = reply[c]
BY GotoFacts, OkFacts DEF Advance

\* Every step of a statement is one connection's.
LEMMA StepMoves ==
  ASSUME NEW c \in Conns, Step(c)
  PROVE  /\ pc[c] # "idle"
         /\ \/ \E label, l : Goto(c, label, l)
            \/ \E r : Return(c, r)
<1> DEFINE Moves == \/ \E label, l : Goto(c, label, l)
                    \/ \E r : Return(c, r)
<1>1. ASSUME NEW left, Advance(c, left) PROVE Moves
  BY <1>1 DEF Advance, Ok
<1>2. ASSUME NEW ids, NEW n, Deliver(c, ids, n) PROVE Moves
  BY <1>1, <1>2 DEF Deliver
<1>3. CASE Load(c) \/ Probe(c)
  BY <1>3 DEF Load, Probe, Ok, At
<1>4. CASE Contains(c) \/ CheckUnique(c) \/ Insert(c)
  BY <1>4 DEF Contains, CheckUnique, Insert, Fail, Ok, At
<1>5. CASE Scan(c) \/ Get(c)
  BY <1>1, <1>5 DEF Scan, Get, Fail, At
<1>6. CASE Replace(c) \/ Erase(c)
  BY <1>1, <1>6 DEF Replace, Erase, Fail, At
<1>7. CASE Lookup(c) \/ Fetch(c)
  BY <1>2, <1>7 DEF Lookup, Fetch, At
<1>8. CASE PrepareItem(c) \/ MergeItem(c) \/ CommitBatch(c)
  BY <1>8 DEF PrepareItem, MergeItem, CommitBatch, Queue, Fail, Ok, At
<1>9. CASE DefineScan(c) \/ DefineCommit(c) \/ RemoveScan(c) \/ RemoveCommit(c)
  BY <1>9 DEF DefineScan, DefineCommit, RemoveScan, RemoveCommit, Fail, Ok, At
<1> QED
  BY <1>3, <1>4, <1>5, <1>6, <1>7, <1>8, <1>9 DEF Step

LEMMA StepFacts ==
  ASSUME TypeInv, NEW c \in Conns, Step(c)
  PROVE  Rest(c) /\ stmt' = stmt /\ pc[c] # "idle"
BY StepMoves, GotoFacts, ReturnFacts

-----------------------------------------------------------------------------
(* With a fixed catalog no index misses a stored record *)

\* The definitions a running statement works with are those of the catalog.
Agree ==
  \A c \in Conns : /\ pc[c] \in {"idle", "load"} => loc[c] = Fresh
                   /\ pc[c] \notin {"idle", "load", "define", "define_commit"}
                        => loc[c].idx = catalog

\* A batch queues every entry of the documents it queues, and the entries it
\* deletes belong to records that it also rewrites.
Queued(l) ==
  /\ \A i \in Ids : l.bdocs[i] # NoDoc => IndexEntries(i, l.bdocs[i], l.idx) \subseteq l.bput
  /\ \A e \in l.bdel : l.bdocs[e.id] # NoDoc

QueueOK == \A c \in Conns : Queued(loc[c])

IndexInv == TypeInv /\ Agree /\ QueueOK /\ IndexComplete

LEMMA FreshQueued == Queued(Fresh)
BY DEF Queued, Fresh

LEMMA OpsStable ==
  ASSUME StableCatalog, TypeInv, NEW c \in Conns, pc[c] # "idle"
  PROVE  pc[c] \notin {"define", "define_commit", "remove_scan", "remove_commit"}
<1>1. stmt[c] \in Statements[c] /\ stmt[c].op \in OpsAt(pc[c])
  BY TypeInvParts
<1>2. stmt[c].op \notin {"define", "remove"}
  BY <1>1 DEF StableCatalog
<1> QED
  BY <1>1, <1>2 DEF OpsAt

LEMMA CompleteKept ==
  ASSUME IndexComplete, UNCHANGED store
  PROVE  IndexComplete'
BY DEF IndexComplete, store

LEMMA GotoIndex ==
  ASSUME IndexInv, NEW c \in Conns, NEW label \in Labels \ {"idle", "load"}, NEW l,
         l.idx = catalog, Queued(l), Goto(c, label, l), catalog' = catalog
  PROVE  Agree' /\ QueueOK'
<1>1. \A d \in Conns : /\ pc'[d] = IF d = c THEN label ELSE pc[d]
                       /\ loc'[d] = IF d = c THEN l ELSE loc[d]
  BY DEF Goto, IndexInv, TypeInv, TypeOK
<1>2. Agree'
  BY <1>1 DEF Agree, IndexInv
<1>3. QueueOK'
  BY <1>1 DEF QueueOK, IndexInv
<1> QED
  BY <1>2, <1>3

LEMMA ReturnIndex ==
  ASSUME IndexInv, NEW c \in Conns, NEW r, Return(c, r), catalog' = catalog
  PROVE  Agree' /\ QueueOK'
<1>1. \A d \in Conns : /\ pc'[d] = IF d = c THEN "idle" ELSE pc[d]
                       /\ loc'[d] = IF d = c THEN Fresh ELSE loc[d]
  BY DEF Return, IndexInv, TypeInv, TypeOK
<1>2. Agree'
  BY <1>1 DEF Agree, IndexInv
<1>3. QueueOK'
  BY <1>1, FreshQueued DEF QueueOK, IndexInv
<1> QED
  BY <1>2, <1>3

LEMMA OkIndex ==
  ASSUME IndexInv, NEW c \in Conns, Ok(c), catalog' = catalog
  PROVE  Agree' /\ QueueOK'
BY ReturnIndex DEF Ok

LEMMA FailIndex ==
  ASSUME IndexInv, NEW c \in Conns, Fail(c)
  PROVE  Agree' /\ QueueOK' /\ IndexComplete'
BY ReturnIndex, CompleteKept DEF Fail, IndexInv, store

LEMMA LocalsLoaded ==
  ASSUME IndexInv, StableCatalog, NEW c \in Conns, pc[c] \notin {"idle", "load"}
  PROVE  /\ loc[c].idx = catalog
         /\ Queued(loc[c])
         /\ loc[c] \in Local
<1>1. pc[c] \notin {"define", "define_commit"}
  BY OpsStable DEF IndexInv
<1> QED
  BY <1>1, TypeInvParts DEF IndexInv, Agree, QueueOK, LocalOK

LEMMA AdvanceIndex ==
  ASSUME IndexInv, StableCatalog, NEW c \in Conns, pc[c] \notin {"idle", "load"}, NEW left,
         Advance(c, left), catalog' = catalog
  PROVE  Agree' /\ QueueOK'
<1>1. CASE Ok(c)
  BY <1>1, OkIndex
<1>2. CASE Goto(c, "get", [loc[c] EXCEPT !.rows = left, !.cur = NoId, !.old = NoDoc])
  <2> DEFINE l == [loc[c] EXCEPT !.rows = left, !.cur = NoId, !.old = NoDoc]
  <2>1. l.idx = catalog /\ Queued(l)
    BY LocalsLoaded DEF Queued, Local
  <2> HIDE DEF l
  <2> QED
    BY <1>2, <2>1, GotoIndex DEF Labels, l
<1> QED
  BY <1>1, <1>2 DEF Advance

LEMMA DeliverIndex ==
  ASSUME IndexInv, StableCatalog, NEW c \in Conns, pc[c] \notin {"idle", "load"},
         NEW ids, NEW n, Deliver(c, ids, n), catalog' = catalog
  PROVE  Agree' /\ QueueOK'
BY ReturnIndex, AdvanceIndex DEF Deliver

\* Replacing one document together with its entries keeps every index complete:
\* the transaction deletes entries of that record only, and puts come after
\* deletes.
LEMMA PutKeepsComplete ==
  ASSUME IndexComplete, NEW i \in Ids, NEW doc, NEW dels,
         docs \in [Ids -> Doc \cup {NoDoc}],
         \A e \in dels : e.id = i,
         docs' = [docs EXCEPT ![i] = doc],
         catalog' = catalog,
         doc # NoDoc => IndexEntries(i, doc, catalog) \subseteq entries',
         entries \ dels \subseteq entries'
  PROVE  IndexComplete'
<1> SUFFICES ASSUME NEW j \in Ids, docs'[j] # NoDoc
             PROVE  IndexEntries(j, docs'[j], catalog) \subseteq entries'
  BY DEF IndexComplete
<1>1. CASE j = i
  BY <1>1
<1>2. CASE j # i
  <2>1. docs'[j] = docs[j]
    BY <1>2
  <2>2. IndexEntries(j, docs[j], catalog) \subseteq entries
    BY <2>1 DEF IndexComplete
  <2>3. \A e \in IndexEntries(j, docs[j], catalog) : e.id = j
    BY DEF IndexEntries
  <2> QED
    BY <1>2, <2>1, <2>2, <2>3
<1> QED
  BY <1>1, <1>2

\* The steps that only read or compute.
LEMMA ReadIndex ==
  ASSUME IndexInv, StableCatalog, NEW c \in Conns,
         \/ Load(c) \/ Contains(c) \/ CheckUnique(c) \/ Probe(c) \/ Scan(c) \/ Get(c)
         \/ Lookup(c) \/ Fetch(c)
  PROVE  Agree' /\ QueueOK' /\ IndexComplete'
<1>1. UNCHANGED store
  BY DEF Load, Contains, CheckUnique, Probe, Scan, Get, Lookup, Fetch, Fail
<1>2. IndexComplete' /\ catalog' = catalog
  BY <1>1, CompleteKept DEF IndexInv, store
<1>3. CASE Load(c)
  <2> DEFINE R == IF stmt[c].op \in {"upsert", "update", "delete"} THEN {stmt[c].id} ELSE {}
             l == [loc[c] EXCEPT !.idx = catalog, !.rows = R]
  <2>1. Goto(c, FirstLabel(stmt[c].op), l) /\ pc[c] = "load"
    BY <1>3 DEF Load, At
  <2>2. loc[c] = Fresh
    BY <2>1 DEF IndexInv, Agree
  <2>3. l.idx = catalog /\ Queued(l)
    BY <2>2 DEF Fresh, Queued
  <2>4. FirstLabel(stmt[c].op) \in Labels \ {"idle", "load"}
    BY DEF FirstLabel, Labels
  <2> HIDE DEF l
  <2> QED
    BY <1>2, <2>1, <2>3, <2>4, GotoIndex
<1>4. ASSUME NEW label \in Labels \ {"idle", "load"}, pc[c] \notin {"idle", "load"},
             NEW l, Goto(c, label, l), l.idx = loc[c].idx, l.bdocs = loc[c].bdocs,
             l.bput = loc[c].bput, l.bdel = loc[c].bdel
      PROVE  Agree' /\ QueueOK'
  <2>1. l.idx = catalog /\ Queued(l)
    BY <1>4, LocalsLoaded DEF Queued
  <2> QED
    BY <1>2, <1>4, <2>1, GotoIndex
<1>5. CASE Contains(c)
  <2>1. pc[c] \notin {"idle", "load"}
    BY <1>5 DEF Contains, At
  <2>2. CASE Fail(c)
    BY <2>2, FailIndex
  <2>3. CASE \E C : Goto(c, "unique", [loc[c] EXCEPT !.checks = C])
    BY <1>2, <1>4, <2>1, <2>3, LocalsLoaded DEF Labels, Local
  <2> QED
    BY <1>5, <2>2, <2>3 DEF Contains
<1>6. CASE CheckUnique(c)
  <2>1. pc[c] \notin {"idle", "load"}
    BY <1>6 DEF CheckUnique, At
  <2>2. CASE Fail(c)
    BY <2>2, FailIndex
  <2>3. CASE \E C : Goto(c, "unique", [loc[c] EXCEPT !.checks = C])
    BY <1>2, <1>4, <2>1, <2>3, LocalsLoaded DEF Labels, Local
  <2> QED
    BY <1>6, <2>2, <2>3 DEF CheckUnique
<1>7. CASE Probe(c)
  <2>1. pc[c] \notin {"idle", "load"}
    BY <1>7 DEF Probe, At
  <2>2. \/ Goto(c, "get", loc[c])
        \/ Goto(c, "contains", [loc[c] EXCEPT !.rows = {}])
        \/ Ok(c)
    BY <1>7 DEF Probe
  <2> QED
    BY <1>2, <1>4, <2>1, <2>2, OkIndex, LocalsLoaded DEF Labels, Local
<1>8. CASE Scan(c)
  <2>1. pc[c] \notin {"idle", "load"}
    BY <1>8 DEF Scan, At
  <2> QED
    BY <1>2, <1>8, <2>1, AdvanceIndex DEF Scan
<1>9. CASE Get(c)
  <2>1. pc[c] \notin {"idle", "load"}
    BY <1>9 DEF Get, At
  <2>2. PICK i \in loc[c].rows :
          \/ Goto(c, "write", [loc[c] EXCEPT !.cur = i, !.old = docs[i]])
          \/ Advance(c, loc[c].rows \ {i})
          \/ Fail(c)
    BY <1>9 DEF Get
  <2> QED
    BY <1>2, <1>4, <2>1, <2>2, FailIndex, AdvanceIndex, LocalsLoaded DEF Labels, Local
<1>10. CASE Lookup(c)
  <2>1. pc[c] \notin {"idle", "load"}
    BY <1>10 DEF Lookup, At
  <2>2. \/ \E ids, n : Deliver(c, ids, n)
        \/ Goto(c, "fetch", [loc[c] EXCEPT !.hits = PlanHits(loc[c].idx, stmt[c].where)])
    BY SMTT(30), <1>10 DEF Lookup
  <2> QED
    BY <1>2, <1>4, <2>1, <2>2, DeliverIndex, LocalsLoaded DEF Labels, Local
<1>11. CASE Fetch(c)
  <2>1. pc[c] \notin {"idle", "load"}
    BY <1>11 DEF Fetch, At
  <2> QED
    BY SMTT(30), <1>2, <1>11, <2>1, DeliverIndex DEF Fetch
<1> QED
  BY SMTT(30), <1>2, <1>3, <1>5, <1>6, <1>7, <1>8, <1>9, <1>10, <1>11

LEMMA InsertComplete ==
  ASSUME TypeInv, IndexComplete, NEW c \in Conns, loc[c].idx = catalog, Insert(c)
  PROVE  IndexComplete'
<1> DEFINE s == stmt[c]
           l == loc[c]
<1>1. CASE Fail(c)
  BY <1>1, CompleteKept DEF Fail
<1>2. CASE /\ docs' = [docs EXCEPT ![s.id] = s.doc]
           /\ entries' = entries \cup IndexEntries(s.id, s.doc, l.idx)
           /\ catalog' = catalog
  <2>1. pc[c] = "unique"
    BY DEF Insert, At
  <2>2. s.id \in Ids
    BY <2>1, TypeInvParts, StatementTypes DEF OpsAt
  <2>3. docs \in [Ids -> Doc \cup {NoDoc}]
    BY DEF TypeInv, TypeOK
  <2> DEFINE none == {}
  <2>4. /\ IndexEntries(s.id, s.doc, catalog) \subseteq entries'
        /\ entries \ none \subseteq entries'
    BY <1>2
  <2>5. \A e \in none : e.id = s.id
    OBVIOUS
  <2> HIDE DEF none
  <2> QED
    BY <1>2, <2>2, <2>3, <2>4, <2>5, PutKeepsComplete
<1> QED
  BY <1>1, <1>2 DEF Insert

LEMMA InsertIndex ==
  ASSUME IndexInv, StableCatalog, NEW c \in Conns, Insert(c)
  PROVE  Agree' /\ QueueOK' /\ IndexComplete'
<1>1. loc[c].idx = catalog
  BY LocalsLoaded DEF Insert, At
<1>2. IndexComplete'
  BY <1>1, InsertComplete DEF IndexInv
<1>3. Fail(c) \/ (Ok(c) /\ catalog' = catalog)
  BY DEF Insert
<1> QED
  BY <1>2, <1>3, OkIndex, FailIndex

\* What merge and delete write: the new document, or none, with its entries, over
\* the version read and its entries.
LEMMA WriteSteps ==
  ASSUME NEW c \in Conns, Replace(c) \/ Erase(c)
  PROVE  \/ Fail(c)
         \/ \E new, news :
              /\ docs' = [docs EXCEPT ![loc[c].cur] = new]
              /\ entries' = (entries \ IndexEntries(loc[c].cur, loc[c].old, loc[c].idx))
                              \cup news
              /\ \/ new = NoDoc /\ news = {}
                 \/ news = IndexEntries(loc[c].cur, new, loc[c].idx) /\ Replace(c)
                                 /\ new = Merged(loc[c].old, stmt[c].set)
              /\ catalog' = catalog
              /\ Advance(c, loc[c].rows \ {loc[c].cur})
<1>1. CASE Replace(c)
  BY <1>1 DEF Replace, WriteBatch
<1>2. CASE Erase(c)
  <2>1. CASE Fail(c)
    BY <2>1
  <2>2. CASE ~Fail(c)
    <3>1. /\ docs' = [docs EXCEPT ![loc[c].cur] = NoDoc]
          /\ entries' = (entries \ IndexEntries(loc[c].cur, loc[c].old, loc[c].idx)) \cup {}
          /\ catalog' = catalog
          /\ Advance(c, loc[c].rows \ {loc[c].cur})
      BY <1>2, <2>2 DEF Erase
    <3> QED
      BY <3>1
  <2> QED
    BY <2>1, <2>2
<1> QED
  BY <1>1, <1>2

LEMMA WriteComplete ==
  ASSUME TypeInv, IndexComplete, NEW c \in Conns, loc[c].idx = catalog,
         Replace(c) \/ Erase(c)
  PROVE  IndexComplete'
<1> DEFINE l == loc[c]
           olds == IndexEntries(l.cur, l.old, l.idx)
<1>1. l.cur \in Ids
  BY WriteFacts DEF Replace, Erase
<1>2. CASE Fail(c)
  BY <1>2, CompleteKept DEF Fail
<1>3. CASE ~Fail(c)
  <2>1. PICK new, news :
          /\ docs' = [docs EXCEPT ![l.cur] = new]
          /\ entries' = (entries \ olds) \cup news
          /\ \/ new = NoDoc /\ news = {}
             \/ news = IndexEntries(l.cur, new, l.idx)
          /\ catalog' = catalog
    BY <1>3, WriteSteps
  <2>2. \A e \in olds : e.id = l.cur
    BY DEF IndexEntries
  <2>3. docs \in [Ids -> Doc \cup {NoDoc}]
    BY DEF TypeInv, TypeOK
  <2> HIDE DEF olds
  <2>4. /\ new # NoDoc => IndexEntries(l.cur, new, catalog) \subseteq entries'
        /\ entries \ olds \subseteq entries'
    BY <2>1
  <2> QED
    BY <1>1, <2>1, <2>2, <2>3, <2>4, PutKeepsComplete
<1> QED
  BY <1>2, <1>3

LEMMA WriteIndex ==
  ASSUME IndexInv, StableCatalog, NEW c \in Conns, Replace(c) \/ Erase(c)
  PROVE  Agree' /\ QueueOK' /\ IndexComplete'
<1>1. pc[c] = "write" /\ loc[c].idx = catalog
  BY LocalsLoaded DEF Replace, Erase, At
<1>2. IndexComplete'
  BY <1>1, WriteComplete DEF IndexInv
<1>3. Fail(c) \/ (catalog' = catalog /\ Advance(c, loc[c].rows \ {loc[c].cur}))
  BY WriteSteps
<1> QED
  BY <1>1, <1>2, <1>3, AdvanceIndex, FailIndex

\* Queueing a document with its entries keeps the batch consistent.
LEMMA QueueQueued ==
  ASSUME NEW l \in Local, Queued(l), NEW i \in Ids, NEW doc \in Doc, NEW dels,
         \A e \in dels : e.id = i
  PROVE  Queued([l EXCEPT !.pos = @ + 1, !.bdocs[i] = doc,
                          !.bput = @ \cup IndexEntries(i, doc, l.idx), !.bdel = @ \cup dels])
<1> DEFINE m == [l EXCEPT !.pos = @ + 1, !.bdocs[i] = doc,
                          !.bput = @ \cup IndexEntries(i, doc, l.idx), !.bdel = @ \cup dels]
<1>2. /\ m.idx = l.idx
      /\ m.bdocs = [l.bdocs EXCEPT ![i] = doc]
      /\ m.bput = l.bput \cup IndexEntries(i, doc, l.idx)
      /\ m.bdel = l.bdel \cup dels
  BY DEF Local
<1> HIDE DEF m
<1>4. l.bdocs \in [Ids -> Doc \cup {NoDoc}] /\ l.bdel \subseteq Entry
  BY DEF Local
<1>5. ASSUME NEW j \in Ids, m.bdocs[j] # NoDoc
      PROVE  IndexEntries(j, m.bdocs[j], m.idx) \subseteq m.bput
  <2>1. CASE j = i
    BY <1>2, <1>4, <2>1
  <2>2. CASE j # i
    <3>1. m.bdocs[j] = l.bdocs[j]
      BY <1>2, <1>4, <2>2
    <3> QED
      BY <1>2, <1>5, <3>1 DEF Queued
  <2> QED
    BY <2>1, <2>2
<1>6. ASSUME NEW e \in m.bdel PROVE m.bdocs[e.id] # NoDoc
  <2>1. doc # NoDoc
    BY ValuesAssumption
  <2>2. CASE e.id = i
    BY <1>2, <1>4, <2>1, <2>2
  <2>3. CASE e.id # i
    <3>1. e \in l.bdel
      BY <1>2, <1>6, <2>3
    <3>2. e.id \in Ids /\ l.bdocs[e.id] # NoDoc
      BY <1>4, <3>1 DEF Queued, Entry
    <3> QED
      BY <1>2, <1>4, <2>3, <3>2
  <2> QED
    BY <2>2, <2>3
<1>7. Queued(m)
  BY <1>5, <1>6 DEF Queued
<1> QED
  BY <1>7 DEF m

LEMMA QueueIndex ==
  ASSUME IndexInv, StableCatalog, NEW c \in Conns, pc[c] \in {"item", "item_get"},
         NEW i \in Ids, NEW doc \in Doc, NEW dels, \A e \in dels : e.id = i,
         Queue(c, i, doc, dels), catalog' = catalog
  PROVE  Agree' /\ QueueOK'
<1> DEFINE l == loc[c]
           m == [l EXCEPT !.pos = @ + 1, !.bdocs[i] = doc,
                          !.bput = @ \cup IndexEntries(i, doc, l.idx), !.bdel = @ \cup dels]
<1>1. l.idx = catalog /\ Queued(l) /\ l \in Local
  BY LocalsLoaded
<1>2. m.idx = l.idx
  BY <1>1 DEF Local
<1>3. Goto(c, "item", m)
  BY DEF Queue
<1>4. Queued(m)
  BY ZenonT(60), <1>1, QueueQueued
<1> HIDE DEF m
<1> QED
  BY <1>1, <1>2, <1>3, <1>4, GotoIndex DEF Labels

\* What the next item of a batch adds to it.
LEMMA BatchSteps ==
  ASSUME TypeInv, NEW c \in Conns, PrepareItem(c) \/ MergeItem(c)
  PROVE  LET it == stmt[c].items[loc[c].pos] IN
         /\ pc[c] \in {"item", "item_get"}
         /\ UNCHANGED store
         /\ stmt[c].op = "batch"
         /\ loc[c].pos \in 1 .. Len(stmt[c].items)
         /\ it.id \in Ids
         /\ \/ Fail(c)
            \/ Goto(c, "item_get", loc[c])
            \/ \E doc \in Doc : \E dels :
                 /\ Queue(c, it.id, doc, dels)
                 /\ \A e \in dels : e.id = it.id
                 /\ it.op = "upsert" /\ docs[it.id] # NoDoc
                      => dels = IndexEntries(it.id, docs[it.id], loc[c].idx)
<1> DEFINE l == loc[c]
           it == stmt[c].items[l.pos]
<1>1. pc[c] \in {"item", "item_get"} /\ UNCHANGED store
  BY SMTT(30) DEF PrepareItem, MergeItem, At, Fail
<1>3. /\ stmt[c] \in Statement
      /\ stmt[c].op = "batch"
      /\ l.pos \in Nat /\ l.pos >= 1
      /\ l.pos <= Len(stmt[c].items)
      /\ MergeItem(c) => it.op = "upsert"
  <2>1. stmt[c] \in Statement /\ stmt[c].op = "batch" /\ l.pos \in Nat /\ l.pos >= 1
    BY <1>1, TypeInvParts DEF OpsAt, LocalOK, Local
  <2> QED
    BY ZenonT(60), <2>1 DEF PrepareItem, MergeItem, At, TypeInv, ControlOK
<1>4. l.pos \in 1 .. Len(stmt[c].items) /\ stmt[c].items \in Seq(Item)
  BY <1>3, StatementTypes
<1>5. it.id \in Ids /\ it.doc \in Doc /\ (it.op = "upsert" => it.set \in Update)
  BY SMTT(30), <1>4, ItemTypes
<1> DEFINE Adds == \E doc \in Doc : \E dels :
                     /\ Queue(c, it.id, doc, dels)
                     /\ \A e \in dels : e.id = it.id
                     /\ it.op = "upsert" /\ docs[it.id] # NoDoc
                          => dels = IndexEntries(it.id, docs[it.id], l.idx)
<1>6. CASE PrepareItem(c)
  <2>1. \/ Fail(c)
        \/ Goto(c, "item_get", l)
        \/ Queue(c, it.id, it.doc, {}) /\ ~(it.op = "upsert" /\ docs[it.id] # NoDoc)
    BY SMTT(30), <1>6 DEF PrepareItem
  <2>2. CASE Fail(c) \/ Goto(c, "item_get", l)
    BY SMTT(30), <1>1, <1>3, <1>4, <1>5, <2>2
  <2>3. CASE Queue(c, it.id, it.doc, {}) /\ ~(it.op = "upsert" /\ docs[it.id] # NoDoc)
    <3> DEFINE none == {}
    <3>1. Queue(c, it.id, it.doc, none) /\ \A e \in none : e.id = it.id
      BY SMTT(30), <2>3
    <3> HIDE DEF none
    <3>2. Adds
      BY ZenonT(60), <1>5, <2>3, <3>1
    <3> HIDE DEF Adds
    <3> QED
      BY ZenonT(60), <1>1, <1>3, <1>4, <1>5, <3>2 DEF Adds
  <2> QED
    BY ZenonT(60), <2>1, <2>2, <2>3
<1>7. CASE MergeItem(c)
  <2> DEFINE new == Merged(docs[it.id], it.set)
             olds == IndexEntries(it.id, docs[it.id], l.idx)
  <2>1. Fail(c) \/ (docs[it.id] # NoDoc /\ Queue(c, it.id, new, olds))
    BY <1>7 DEF MergeItem
  <2>2. CASE Fail(c)
    BY SMTT(30), <1>1, <1>3, <1>4, <1>5, <2>2
  <2>3. CASE docs[it.id] # NoDoc /\ Queue(c, it.id, new, olds)
    <3>1. docs[it.id] \in Doc
      BY ZenonT(60), <1>5, <2>3 DEF TypeInv, TypeOK
    <3>2. new \in Doc
      BY <1>3, <1>5, <1>7, <3>1, MergedType
    <3>3. \A e \in olds : e.id = it.id
      BY SMTT(30) DEF IndexEntries
    <3>4. Adds
      BY ZenonT(60), <2>3, <3>2, <3>3
    <3> HIDE DEF Adds, new, olds
    <3> QED
      BY ZenonT(60), <1>1, <1>3, <1>4, <1>5, <3>4 DEF Adds
  <2> QED
    BY ZenonT(60), <2>1, <2>2, <2>3
<1> QED
  BY SMTT(30), <1>6, <1>7

LEMMA BatchReadIndex ==
  ASSUME IndexInv, StableCatalog, NEW c \in Conns, PrepareItem(c) \/ MergeItem(c)
  PROVE  Agree' /\ QueueOK' /\ IndexComplete'
<1> DEFINE it == stmt[c].items[loc[c].pos]
<1>1. /\ pc[c] \in {"item", "item_get"}
      /\ UNCHANGED store
      /\ it.id \in Ids
      /\ \/ Fail(c)
         \/ Goto(c, "item_get", loc[c])
         \/ \E doc \in Doc : \E dels : Queue(c, it.id, doc, dels) /\ \A e \in dels : e.id = it.id
  BY BatchSteps DEF IndexInv
<1> HIDE DEF it
<1>2. IndexComplete' /\ catalog' = catalog
  BY <1>1, CompleteKept DEF IndexInv, store
<1>3. CASE Fail(c)
  BY <1>3, FailIndex
<1>4. CASE Goto(c, "item_get", loc[c])
  BY <1>1, <1>2, <1>4, LocalsLoaded, GotoIndex DEF Labels
<1>5. ASSUME NEW doc \in Doc, NEW dels, Queue(c, it.id, doc, dels), \A e \in dels : e.id = it.id
      PROVE  Agree' /\ QueueOK'
  BY <1>1, <1>2, <1>5, QueueIndex
<1> QED
  BY <1>1, <1>2, <1>3, <1>4, <1>5

LEMMA CommitComplete ==
  ASSUME IndexComplete, NEW c \in Conns, loc[c].idx = catalog, Queued(loc[c]), CommitBatch(c)
  PROVE  IndexComplete'
<1> DEFINE l == loc[c]
<1>1. /\ docs' = [i \in Ids |-> IF l.bdocs[i] # NoDoc THEN l.bdocs[i] ELSE docs[i]]
      /\ entries' = (entries \ l.bdel) \cup l.bput
      /\ catalog' = catalog
  BY DEF CommitBatch, WriteBatch
<1>3. ASSUME NEW j \in Ids, docs'[j] # NoDoc
      PROVE  IndexEntries(j, docs'[j], catalog) \subseteq entries'
  <2>1. CASE l.bdocs[j] # NoDoc
    <3>1. IndexEntries(j, l.bdocs[j], catalog) \subseteq l.bput
      BY <2>1 DEF Queued
    <3> QED
      BY <1>1, <2>1, <3>1
  <2>2. CASE l.bdocs[j] = NoDoc
    <3>1. docs'[j] = docs[j]
      BY <1>1, <2>2
    <3>2. IndexEntries(j, docs[j], catalog) \subseteq entries
      BY <1>3, <3>1 DEF IndexComplete
    <3>3. \A e \in IndexEntries(j, docs[j], catalog) : e.id = j
      BY DEF IndexEntries
    <3>4. \A e \in IndexEntries(j, docs[j], catalog) : e \notin l.bdel
      BY <2>2, <3>3 DEF Queued
    <3> QED
      BY <1>1, <3>1, <3>2, <3>4
  <2> QED
    BY <2>1, <2>2
<1> QED
  BY <1>1, <1>3 DEF IndexComplete

LEMMA CommitBatchIndex ==
  ASSUME IndexInv, StableCatalog, NEW c \in Conns, CommitBatch(c)
  PROVE  Agree' /\ QueueOK' /\ IndexComplete'
<1>1. catalog' = catalog /\ Ok(c) /\ loc[c].idx = catalog /\ Queued(loc[c])
  BY LocalsLoaded DEF CommitBatch, At
<1> QED
  BY <1>1, OkIndex, CommitComplete DEF IndexInv

LEMMA IndexInvInit == Init => IndexInv
<1> SUFFICES ASSUME Init PROVE IndexInv
  OBVIOUS
<1>1. Agree /\ QueueOK
  BY FreshQueued DEF Init, Agree, QueueOK
<1>2. IndexComplete
  BY DEF Init, IndexComplete
<1> QED
  BY <1>1, <1>2, TypeInvInit DEF IndexInv

LEMMA IndexInvNext ==
  ASSUME StableCatalog, IndexInv, [Next]_vars
  PROVE  IndexInv'
<1>1. TypeInv'
  BY TypeInvNext DEF IndexInv
<1>2. CASE UNCHANGED vars
  BY <1>1, <1>2 DEF vars, store, IndexInv, Agree, QueueOK, IndexComplete
<1>3. CASE Crash
  <2>1. IndexComplete'
    BY <1>3, CompleteKept DEF Crash, IndexInv
  <2>2. \A c \in Conns : pc'[c] = "idle" /\ loc'[c] = Fresh
    BY <1>3 DEF Crash
  <2>3. Agree' /\ QueueOK'
    BY <2>2, FreshQueued DEF Agree, QueueOK
  <2> QED
    BY <1>1, <2>1, <2>3 DEF IndexInv
<1>4. ASSUME NEW c \in Conns, Begin(c) PROVE IndexInv'
  <2>1. IndexComplete'
    BY <1>4, CompleteKept DEF Begin, IndexInv
  <2>2. loc' = loc /\ catalog' = catalog
    BY <1>4 DEF Begin, store
  <2>3. QueueOK'
    BY <2>2 DEF QueueOK, IndexInv
  <2>4. PICK s \in Statements[c] :
          pc' = [pc EXCEPT ![c] = IF s.op = "define" THEN "define" ELSE "load"]
    BY <1>4 DEF Begin
  <2>5. pc' = [pc EXCEPT ![c] = "load"] /\ loc[c] = Fresh
    BY <1>4, <2>4 DEF StableCatalog, IndexInv, Agree, Begin, At
  <2>6. \A d \in Conns : pc'[d] = IF d = c THEN "load" ELSE pc[d]
    BY <2>5 DEF IndexInv, TypeInv, TypeOK
  <2>7. Agree'
    BY <2>2, <2>5, <2>6 DEF Agree, IndexInv
  <2> QED
    BY <1>1, <2>1, <2>3, <2>7 DEF IndexInv
<1>5. ASSUME NEW c \in Conns, Step(c) PROVE IndexInv'
  <2>1. ~(DefineScan(c) \/ DefineCommit(c) \/ RemoveScan(c) \/ RemoveCommit(c))
    BY OpsStable DEF DefineScan, DefineCommit, RemoveScan, RemoveCommit, At, IndexInv
  <2>2. Agree' /\ QueueOK' /\ IndexComplete'
    BY <1>5, <2>1, ReadIndex, InsertIndex, WriteIndex, BatchReadIndex, CommitBatchIndex
    DEF Step
  <2> QED
    BY <1>1, <2>2 DEF IndexInv
<1> QED
  BY <1>2, <1>3, <1>4, <1>5 DEF Next

\* Without concurrent DDL an index never misses a stored record with a complete
\* tuple, for any number of connections, records, indexes and statements and any
\* interleaving of their transactions, crashes included.
THEOREM IndexesComplete == StableCatalog => (Spec => []IndexComplete)
<1> SUFFICES ASSUME StableCatalog PROVE Spec => []IndexComplete
  OBVIOUS
<1>1. IndexInv /\ [Next]_vars => IndexInv'
  BY IndexInvNext
<1>2. IndexInv => IndexComplete
  BY DEF IndexInv
<1> QED
  BY <1>1, <1>2, IndexInvInit, PTL DEF Spec

-----------------------------------------------------------------------------
(* A batch that names each record once *)

\* A batch puts only entries of the documents it queues, and queues a document
\* only for an item it has passed.
QueueSound(s, l) ==
  /\ \A e \in l.bput : /\ l.bdocs[e.id] # NoDoc
                       /\ e \in IndexEntries(e.id, l.bdocs[e.id], l.idx)
  /\ \A i \in Ids : l.bdocs[i] # NoDoc =>
       /\ s.op = "batch"
       /\ \E k \in 1 .. Len(s.items) : k < l.pos /\ s.items[k].id = i

LEMMA QueueSoundPut ==
  ASSUME NEW s, NEW l \in Local, QueueSound(s, l), s.op = "batch", l.pos \in 1 .. Len(s.items),
         NEW i \in Ids, s.items[l.pos].id = i, l.bdocs[i] = NoDoc, NEW doc \in Doc, NEW dels
  PROVE  QueueSound(s, [l EXCEPT !.pos = @ + 1, !.bdocs[i] = doc,
                                 !.bput = @ \cup IndexEntries(i, doc, l.idx),
                                 !.bdel = @ \cup dels])
<1> DEFINE m == [l EXCEPT !.pos = @ + 1, !.bdocs[i] = doc,
                          !.bput = @ \cup IndexEntries(i, doc, l.idx), !.bdel = @ \cup dels]
<1>1. /\ m.idx = l.idx
      /\ m.pos = l.pos + 1
      /\ m.bdocs = [l.bdocs EXCEPT ![i] = doc]
      /\ m.bput = l.bput \cup IndexEntries(i, doc, l.idx)
  BY DEF Local
<1> HIDE DEF m
<1>2. l.bdocs \in [Ids -> Doc \cup {NoDoc}] /\ l.bput \subseteq Entry /\ l.pos \in Nat
  BY DEF Local
<1>3. doc # NoDoc
  BY ValuesAssumption
<1>4. ASSUME NEW e \in m.bput
      PROVE  m.bdocs[e.id] # NoDoc /\ e \in IndexEntries(e.id, m.bdocs[e.id], m.idx)
  <2>1. CASE e \in l.bput
    <3>1. e.id \in Ids /\ l.bdocs[e.id] # NoDoc /\ e \in IndexEntries(e.id, l.bdocs[e.id], l.idx)
      BY <1>2, <2>1 DEF QueueSound, Entry
    <3>2. e.id # i
      BY <3>1
    <3>3. m.bdocs[e.id] = l.bdocs[e.id]
      BY <1>1, <1>2, <3>1, <3>2
    <3> QED
      BY <1>1, <3>1, <3>3
  <2>2. CASE e \in IndexEntries(i, doc, l.idx)
    <3>1. e.id = i
      BY <2>2 DEF IndexEntries
    <3>2. m.bdocs[i] = doc
      BY <1>1, <1>2
    <3> QED
      BY <1>1, <1>3, <2>2, <3>1, <3>2
  <2> QED
    BY <1>1, <2>1, <2>2
<1>5. ASSUME NEW j \in Ids, m.bdocs[j] # NoDoc
      PROVE  \E k \in 1 .. Len(s.items) : k < m.pos /\ s.items[k].id = j
  <2>1. CASE j = i
    BY <1>1, <1>2, <2>1
  <2>2. CASE j # i
    <3>1. l.bdocs[j] # NoDoc
      BY <1>1, <1>2, <1>5, <2>2
    <3>2. PICK k \in 1 .. Len(s.items) : k < l.pos /\ s.items[k].id = j
      BY <3>1 DEF QueueSound
    <3>3. k < m.pos
      BY <1>1, <1>2, <3>2
    <3> QED
      BY <3>2, <3>3
  <2> QED
    BY <2>1, <2>2
<1>6. QueueSound(s, m)
  BY <1>4, <1>5 DEF QueueSound
<1> QED
  BY <1>6 DEF m

\* When an item's turn comes nothing is queued for its record.
LEMMA QueuedOnce ==
  ASSUME TypeInv, DistinctUpserts, NEW c \in Conns, QueueSound(stmt[c], loc[c]),
         PrepareItem(c) \/ MergeItem(c)
  PROVE  LET it == stmt[c].items[loc[c].pos]
         IN  it.op = "upsert" /\ loc[c].bdocs[it.id] = NoDoc
<1> DEFINE it == stmt[c].items[loc[c].pos]
<1>1. /\ pc[c] # "idle"
      /\ stmt[c].op = "batch"
      /\ loc[c].pos \in 1 .. Len(stmt[c].items)
      /\ it.id \in Ids
  BY BatchSteps
<1>2. stmt[c] \in Statements[c]
  BY <1>1, TypeInvParts
<1>3. /\ it.op = "upsert"
      /\ \A k \in 1 .. Len(stmt[c].items) : stmt[c].items[k].id = it.id => k = loc[c].pos
  BY <1>1, <1>2 DEF DistinctUpserts
<1>4. ASSUME loc[c].bdocs[it.id] # NoDoc PROVE FALSE
  <2>1. PICK k \in 1 .. Len(stmt[c].items) : k < loc[c].pos /\ stmt[c].items[k].id = it.id
    BY <1>1, <1>4 DEF QueueSound
  <2>2. k = loc[c].pos
    BY <1>3, <2>1
  <2> QED
    BY <1>1, <2>1, <2>2
<1> QED
  BY <1>3, <1>4

-----------------------------------------------------------------------------
(* Records have the later fields of every index *)

HasWhole(docsOf) == \A i \in Ids : docsOf[i] # NoDoc => Whole(docsOf[i])

LocalWhole(l) == (l.old # NoDoc => Whole(l.old)) /\ HasWhole(l.bdocs)

\* The catalog has what it had at the start or was given by DEFINE INDEX.
Known == \A n \in Names : catalog[n] # NoIndex => catalog[n] \in Defined(n)

WholeInv ==
  /\ TypeInv
  /\ Known
  /\ HasWhole(docs)
  /\ \A c \in Conns : LocalWhole(loc[c])

LEMMA KnownNext ==
  ASSUME TypeInv, Known, [Next]_vars
  PROVE  Known'
<1>1. CASE catalog' = catalog
  BY <1>1 DEF Known
<1>2. ASSUME NEW c \in Conns, DefineCommit(c) PROVE Known'
  <2>1. /\ catalog' = [catalog EXCEPT ![stmt[c].name] = stmt[c].index]
        /\ pc[c] = "define_commit"
    BY <1>2 DEF DefineCommit, At
  <2>2. stmt[c] \in Statements[c] /\ stmt[c].op = "define"
    BY <2>1, TypeInvParts DEF OpsAt
  <2>3. stmt[c].index \in Defined(stmt[c].name)
    BY <2>2 DEF Defined
  <2> QED
    BY <2>1, <2>3 DEF Known, TypeInv, TypeOK, Catalog
<1>3. ASSUME NEW c \in Conns, RemoveCommit(c) PROVE Known'
  BY <1>3 DEF RemoveCommit, Known, TypeInv, TypeOK, Catalog
<1>4. ASSUME NEW c \in Conns, Begin(c) PROVE catalog' = catalog
  BY <1>4 DEF Begin, store
<1>5. ASSUME NEW c \in Conns,
             \/ Load(c) \/ Contains(c) \/ CheckUnique(c) \/ Insert(c) \/ Probe(c) \/ Scan(c)
      PROVE  catalog' = catalog
  BY <1>5 DEF Load, Contains, CheckUnique, Insert, Probe, Scan, Fail, store
<1>6. ASSUME NEW c \in Conns,
             \/ Get(c) \/ Replace(c) \/ Erase(c) \/ Lookup(c) \/ Fetch(c)
      PROVE  catalog' = catalog
  BY <1>6 DEF Get, Replace, Erase, Lookup, Fetch, Fail, store
<1>7. ASSUME NEW c \in Conns,
             \/ PrepareItem(c) \/ MergeItem(c) \/ CommitBatch(c) \/ DefineScan(c) \/ RemoveScan(c)
      PROVE  catalog' = catalog
  BY <1>7 DEF PrepareItem, MergeItem, CommitBatch, DefineScan, RemoveScan, Fail, store
<1>8. CASE UNCHANGED vars \/ Crash
  BY <1>1, <1>8 DEF vars, store, Crash
<1> QED
  BY <1>1, <1>2, <1>3, <1>4, <1>5, <1>6, <1>7, <1>8 DEF Next, Step

LEMMA FreshWhole == LocalWhole(Fresh)
BY DEF LocalWhole, HasWhole, Fresh

LEMMA MergedWhole ==
  ASSUME NEW doc \in Doc, NEW upd \in Update, Whole(doc), Whole(upd)
  PROVE  Whole(Merged(doc, upd))
BY DEF Whole, Merged, Doc, Update

LEMMA HasWholePut ==
  ASSUME NEW D \in [Ids -> Doc \cup {NoDoc}], HasWhole(D), NEW i \in Ids, NEW doc,
         doc # NoDoc => Whole(doc)
  PROVE  HasWhole([D EXCEPT ![i] = doc])
BY DEF HasWhole

\* What a step of c stores and what it goes on with.
OwnWhole(c) == HasWhole(docs') /\ LocalWhole(loc'[c])

LEMMA AdvanceWhole ==
  ASSUME WholeInv, NEW c \in Conns, NEW left, Advance(c, left)
  PROVE  LocalWhole(loc'[c])
<1>1. TypeInv /\ loc[c] \in Local /\ HasWhole(loc[c].bdocs)
  BY TypeInvParts DEF WholeInv, LocalOK, LocalWhole
<1>2. CASE loc'[c] = Fresh
  BY <1>2, FreshWhole
<1>3. CASE loc'[c] = [loc[c] EXCEPT !.rows = left, !.cur = NoId, !.old = NoDoc]
  BY <1>1, <1>3 DEF LocalWhole, Local
<1> QED
  BY <1>1, <1>2, <1>3, AdvanceFacts

LEMMA ReadWhole ==
  ASSUME WholeInv, NEW c \in Conns,
         \/ Load(c) \/ Contains(c) \/ CheckUnique(c) \/ Probe(c) \/ Scan(c) \/ Get(c)
         \/ Lookup(c) \/ Fetch(c)
  PROVE  OwnWhole(c)
<1>1. TypeInv /\ loc[c] \in Local /\ LocalWhole(loc[c]) /\ HasWhole(docs)
  BY SMTT(30), TypeInvParts DEF WholeInv, LocalOK
<1>2. UNCHANGED store
  BY DEF Load, Contains, CheckUnique, Probe, Scan, Get, Lookup, Fetch, Fail
<1>3. HasWhole(docs')
  BY <1>1, <1>2 DEF store
<1>4. CASE loc'[c] = Fresh
  BY <1>3, <1>4, FreshWhole DEF OwnWhole
<1>5. CASE \E label, l : /\ Goto(c, label, l)
                         /\ l.bdocs = loc[c].bdocs
                         /\ l.old \in {loc[c].old, NoDoc}
  BY <1>1, <1>3, <1>5, GotoFacts DEF OwnWhole, LocalWhole
<1>6. CASE \E left : Advance(c, left)
  BY <1>3, <1>6, AdvanceWhole DEF OwnWhole
<1>7. CASE Load(c)
  <2> DEFINE R == IF stmt[c].op \in {"upsert", "update", "delete"} THEN {stmt[c].id} ELSE {}
             l == [loc[c] EXCEPT !.idx = catalog, !.rows = R]
  <2>1. Goto(c, FirstLabel(stmt[c].op), l)
    BY <1>7 DEF Load
  <2>2. l.bdocs = loc[c].bdocs /\ l.old = loc[c].old
    BY <1>1 DEF Local
  <2> HIDE DEF l
  <2> QED
    BY <1>5, <2>1, <2>2
<1>8. CASE Contains(c) \/ CheckUnique(c)
  <2>1. CASE Fail(c)
    BY <1>1, <1>4, <2>1, FailFacts
  <2>2. CASE \E C : Goto(c, "unique", [loc[c] EXCEPT !.checks = C])
    BY <1>1, <1>5, <2>2 DEF Local
  <2> QED
    BY <1>8, <2>1, <2>2 DEF Contains, CheckUnique
<1>9. CASE Probe(c)
  <2>1. CASE Ok(c)
    BY <1>1, <1>4, <2>1, OkFacts
  <2>2. CASE Goto(c, "get", loc[c]) \/ Goto(c, "contains", [loc[c] EXCEPT !.rows = {}])
    BY <1>1, <1>5, <2>2 DEF Local
  <2> QED
    BY <1>9, <2>1, <2>2 DEF Probe
<1>10. CASE Scan(c)
  BY <1>6, <1>10 DEF Scan
<1>11. CASE Get(c)
  <2>1. PICK i \in loc[c].rows :
          \/ docs[i] # NoDoc /\ Goto(c, "write", [loc[c] EXCEPT !.cur = i, !.old = docs[i]])
          \/ Advance(c, loc[c].rows \ {i})
          \/ Fail(c)
    BY <1>11 DEF Get
  <2>2. CASE docs[i] # NoDoc /\ Goto(c, "write", [loc[c] EXCEPT !.cur = i, !.old = docs[i]])
    <3>1. i \in Ids /\ Whole(docs[i])
      BY <1>1, <2>2 DEF Local, HasWhole
    <3>2. loc'[c] = [loc[c] EXCEPT !.cur = i, !.old = docs[i]]
      BY <1>1, <2>2, GotoFacts
    <3> QED
      BY <1>1, <1>3, <3>1, <3>2 DEF OwnWhole, LocalWhole, Local
  <2>3. CASE Fail(c)
    BY SMTT(30), <1>1, <1>4, <2>3, FailFacts
  <2> QED
    BY <1>6, <2>1, <2>2, <2>3
<1>12. CASE Lookup(c) \/ Fetch(c)
  <2>1. CASE \E H : Goto(c, "fetch", [loc[c] EXCEPT !.hits = H])
    BY <1>1, <1>5, <2>1 DEF Local
  <2>2. CASE \E r : Return(c, r)
    BY <1>1, <1>4, <2>2, ReturnFacts
  <2>3. CASE \E ids, n : Deliver(c, ids, n)
    BY <1>6, <2>2, <2>3 DEF Deliver
  <2> QED
    BY <1>12, <2>1, <2>3 DEF Lookup, Fetch
<1> QED
  BY <1>7, <1>8, <1>9, <1>10, <1>11, <1>12

LEMMA WriteWhole ==
  ASSUME WholeInv, WholeTuples, NEW c \in Conns, Insert(c) \/ Replace(c) \/ Erase(c)
  PROVE  OwnWhole(c)
<1> DEFINE s == stmt[c]
           l == loc[c]
<1>1. TypeInv /\ l \in Local /\ LocalWhole(l) /\ HasWhole(docs)
  BY TypeInvParts DEF WholeInv, LocalOK
<1>2. docs \in [Ids -> Doc \cup {NoDoc}]
  BY <1>1 DEF TypeInv, TypeOK
<1>3. CASE Fail(c)
  BY <1>1, <1>3, FailFacts, FreshWhole DEF OwnWhole, store
<1>4. pc[c] \in {"unique", "write"}
  BY DEF Insert, Replace, Erase, At
<1>5. s \in Statement /\ s.op \in OpsAt(pc[c]) /\ WholeWrite(s)
  BY <1>1, <1>4, TypeInvParts DEF WholeTuples
<1>6. CASE Insert(c) /\ ~Fail(c)
  <2>1. docs' = [docs EXCEPT ![s.id] = s.doc] /\ Ok(c) /\ pc[c] = "unique"
    BY <1>6 DEF Insert, At
  <2>2. s.id \in Ids /\ Whole(s.doc)
    BY <1>5, <2>1, StatementTypes DEF OpsAt, WholeWrite
  <2>3. HasWhole(docs')
    BY <1>1, <1>2, <2>1, <2>2, HasWholePut
  <2> QED
    BY <1>1, <2>1, <2>3, OkFacts, FreshWhole DEF OwnWhole
<1>7. CASE Replace(c) /\ ~Fail(c)
  <2>1. /\ docs' = [docs EXCEPT ![l.cur] = Merged(l.old, s.set)]
        /\ Advance(c, l.rows \ {l.cur})
        /\ pc[c] = "write"
        /\ s.op \in {"update", "update_all", "upsert"}
    BY <1>7 DEF Replace, At
  <2>2. l.cur \in Ids /\ l.old \in Doc /\ s.set \in Update
    BY <1>1, <1>5, <2>1, WriteFacts, StatementTypes DEF At
  <2>3. Whole(Merged(l.old, s.set))
    <3>1. Whole(l.old) /\ Whole(s.set)
      BY <1>1, <1>5, <2>1, <2>2, ValuesAssumption DEF LocalWhole, WholeWrite
    <3> QED
      BY <2>2, <3>1, MergedWhole
  <2>4. HasWhole(docs')
    BY <1>1, <1>2, <2>1, <2>2, <2>3, HasWholePut
  <2> QED
    BY <2>1, <2>4, AdvanceWhole DEF OwnWhole
<1>8. CASE Erase(c) /\ ~Fail(c)
  <2>1. /\ docs' = [docs EXCEPT ![l.cur] = NoDoc]
        /\ Advance(c, l.rows \ {l.cur})
    BY <1>8 DEF Erase
  <2>2. HasWhole(docs')
    BY <1>1, <1>2, <2>1 DEF HasWhole
  <2> QED
    BY <2>1, <2>2, AdvanceWhole DEF OwnWhole
<1> QED
  BY <1>3, <1>6, <1>7, <1>8

LEMMA BatchWholeItems ==
  ASSUME WholeInv, WholeTuples, NEW c \in Conns, PrepareItem(c) \/ MergeItem(c)
  PROVE  OwnWhole(c)
<1> DEFINE l == loc[c]
           it == stmt[c].items[l.pos]
<1>1. TypeInv /\ l \in Local /\ LocalWhole(l) /\ HasWhole(docs)
  BY SMTT(30), TypeInvParts DEF WholeInv, LocalOK
<1>2. UNCHANGED store /\ pc[c] \in {"item", "item_get"}
  BY DEF PrepareItem, MergeItem, Fail, At
<1>3. HasWhole(docs')
  BY <1>1, <1>2 DEF store
<1>4. stmt[c] \in Statements[c] /\ stmt[c] \in Statement /\ stmt[c].op = "batch"
  BY <1>1, <1>2, TypeInvParts DEF OpsAt
<1>5. l.pos \in 1 .. Len(stmt[c].items) /\ stmt[c].items \in Seq(Item)
  <2>1. l.pos \in Nat /\ l.pos >= 1 /\ stmt[c].items \in Seq(Item)
    BY SMTT(30), <1>1, <1>4, TypeInvParts, StatementTypes DEF LocalOK, Local
  <2>2. l.pos <= Len(stmt[c].items)
    BY ZenonT(60), <1>1, <1>2 DEF PrepareItem, MergeItem, At, TypeInv, ControlOK
  <2> QED
    BY <2>1, <2>2
<1>6. it.id \in Ids /\ it.doc \in Doc /\ (it.op = "upsert" => it.set \in Update)
  BY <1>5, ItemTypes
<1>7. WholeWrite(it) /\ it.op \in {"create", "upsert"}
  <2>1. it \in Item
    BY <1>5
  <2> QED
    BY <1>4, <1>5, <2>1 DEF WholeTuples, Item
<1>8. ASSUME NEW i \in Ids, NEW doc, NEW dels, Queue(c, i, doc, dels), Whole(doc)
      PROVE  OwnWhole(c)
  <2> DEFINE m == [l EXCEPT !.pos = @ + 1, !.bdocs[i] = doc,
                            !.bput = @ \cup IndexEntries(i, doc, l.idx), !.bdel = @ \cup dels]
  <2>1. loc'[c] = m
    BY <1>1, <1>8, GotoFacts DEF Queue
  <2>2. m.bdocs = [l.bdocs EXCEPT ![i] = doc] /\ m.old = l.old
    BY <1>1 DEF Local
  <2> HIDE DEF m
  <2>3. HasWhole(m.bdocs)
    BY <1>1, <1>8, <2>2, HasWholePut DEF Local, LocalWhole
  <2> QED
    BY <1>1, <1>3, <2>1, <2>2, <2>3 DEF OwnWhole, LocalWhole
<1>9. CASE Fail(c)
  BY <1>1, <1>3, <1>9, FailFacts, FreshWhole DEF OwnWhole
<1>10. CASE Goto(c, "item_get", l)
  BY SMTT(30), <1>1, <1>3, <1>10, GotoFacts DEF OwnWhole
<1>11. CASE Queue(c, it.id, it.doc, {})
  BY SMTT(30), <1>6, <1>7, <1>8, <1>11 DEF WholeWrite
<1>12. CASE /\ MergeItem(c)
            /\ docs[it.id] # NoDoc
            /\ Queue(c, it.id, Merged(docs[it.id], it.set),
                     IndexEntries(it.id, docs[it.id], l.idx))
  <2>1. docs[it.id] \in Doc /\ Whole(docs[it.id])
    BY ZenonT(60), <1>1, <1>6, <1>12 DEF TypeInv, TypeOK, HasWhole
  <2>2. it.op = "upsert"
    BY ZenonT(60), <1>1, <1>12 DEF MergeItem, At, TypeInv, ControlOK
  <2>3. Whole(Merged(docs[it.id], it.set))
    BY ZenonT(60), <1>6, <1>7, <2>1, <2>2, MergedWhole DEF WholeWrite
  <2> QED
    BY ZenonT(60), <1>6, <1>8, <1>12, <2>3
<1> QED
  BY <1>9, <1>10, <1>11, <1>12 DEF PrepareItem, MergeItem

LEMMA CommitWhole ==
  ASSUME WholeInv, NEW c \in Conns, CommitBatch(c)
  PROVE  OwnWhole(c)
<1>1. TypeInv /\ LocalWhole(loc[c]) /\ HasWhole(docs)
  BY DEF WholeInv
<1>2. HasWhole(docs')
  BY <1>1 DEF CommitBatch, HasWhole, LocalWhole
<1> QED
  BY <1>1, <1>2, OkFacts, FreshWhole DEF CommitBatch, OwnWhole

LEMMA DefinitionWhole ==
  ASSUME WholeInv, NEW c \in Conns,
         DefineScan(c) \/ DefineCommit(c) \/ RemoveScan(c) \/ RemoveCommit(c)
  PROVE  OwnWhole(c)
<1>1. TypeInv /\ loc[c] \in Local /\ LocalWhole(loc[c]) /\ HasWhole(docs)
  BY TypeInvParts DEF WholeInv, LocalOK
<1>2. HasWhole(docs')
  BY <1>1 DEF DefineScan, DefineCommit, RemoveScan, RemoveCommit, Fail, store
<1>3. CASE loc'[c] = Fresh
  BY <1>2, <1>3, FreshWhole DEF OwnWhole
<1>4. CASE \E label, l : Goto(c, label, l) /\ l.bdocs = loc[c].bdocs /\ l.old = loc[c].old
  BY <1>1, <1>2, <1>4, GotoFacts DEF OwnWhole, LocalWhole
<1>5. CASE DefineScan(c)
  <2>1. CASE Fail(c)
    BY <1>1, <1>3, <2>1, FailFacts
  <2>2. CASE \E B : Goto(c, "define_commit", [loc[c] EXCEPT !.bput = B])
    BY <1>1, <1>4, <2>2 DEF Local
  <2> QED
    BY <1>5, <2>1, <2>2 DEF DefineScan
<1>6. CASE RemoveScan(c)
  <2>1. \E B : Goto(c, "remove_commit", [loc[c] EXCEPT !.bdel = B])
    BY <1>6 DEF RemoveScan
  <2> QED
    BY <1>1, <1>4, <2>1 DEF Local
<1>7. CASE DefineCommit(c) \/ RemoveCommit(c)
  <2>1. Ok(c)
    BY <1>7 DEF DefineCommit, RemoveCommit
  <2> QED
    BY <1>1, <1>3, <2>1, OkFacts
<1> QED
  BY <1>5, <1>6, <1>7

LEMMA WholeInvInit == Init => WholeInv
<1> SUFFICES ASSUME Init PROVE WholeInv
  OBVIOUS
<1>1. HasWhole(docs) /\ Known /\ \A c \in Conns : loc[c] = Fresh
  BY DEF Init, HasWhole, Known, Defined
<1> QED
  BY <1>1, TypeInvInit, FreshWhole DEF WholeInv

LEMMA WholeInvNext ==
  ASSUME WholeTuples, WholeInv, [Next]_vars
  PROVE  WholeInv'
<1>1. TypeInv /\ TypeInv' /\ Known'
  BY TypeInvNext, KnownNext DEF WholeInv
<1>2. CASE UNCHANGED vars
  BY <1>1, <1>2 DEF vars, store, WholeInv
<1>3. CASE Crash
  <2>1. docs' = docs /\ \A c \in Conns : loc'[c] = Fresh
    BY <1>3 DEF Crash, store
  <2> QED
    BY <1>1, <2>1, FreshWhole DEF WholeInv
<1>4. ASSUME NEW c \in Conns, Begin(c) PROVE WholeInv'
  BY <1>1, <1>4 DEF Begin, store, WholeInv
<1>5. ASSUME NEW c \in Conns, Step(c) PROVE WholeInv'
  <2>1. Rest(c)
    BY <1>1, <1>5, StepFacts
  <2>2. OwnWhole(c)
    BY <1>5, ReadWhole, WriteWhole, BatchWholeItems, CommitWhole, DefinitionWhole DEF Step
  <2> QED
    BY <1>1, <2>1, <2>2 DEF WholeInv, OwnWhole, Rest
<1> QED
  BY <1>2, <1>3, <1>4, <1>5 DEF Next

-----------------------------------------------------------------------------
(* The planner *)

\* Every set of numbers has a least one; what stands in for induction below.
LEMMA LeastNatural ==
  ASSUME NEW T \in SUBSET Nat, T # {}
  PROVE  \E x \in T : \A y \in T : x <= y
<1> DEFINE R == OpToRel(<, Nat)
<1>1. IsWellFoundedOn(R, Nat)
  BY NatLessThanWellFounded
<1>2. \A x, y \in Nat : <<y, x>> \in R <=> y < x
  BY DEF OpToRel
<1> HIDE DEF R
<1>3. PICK x \in T : \A y \in T : ~(<<y, x>> \in R)
  BY <1>1, WFMin
<1>4. ASSUME NEW y \in T PROVE x <= y
  <2>1. ~(y < x)
    BY <1>2, <1>3
  <2> QED
    BY <2>1
<1> QED
  BY <1>4

\* plan_for_index consumes a prefix the clause really fixes.
LEMMA ConsumedIs ==
  ASSUME NEW ix \in Index, NEW w
  PROVE  /\ Consumed(ix, w) \in 0 .. Len(ix.fields)
         /\ Prefixed(ix, w, Consumed(ix, w))
<1> DEFINE N == Len(ix.fields)
           T == {k \in 0 .. N : k < N => ~Prefixed(ix, w, k + 1)}
<1>1. N \in Nat
  BY DEF Index
<1>2. N \in T
  BY <1>1
<1>3. T \in SUBSET Nat /\ T # {}
  BY <1>1, <1>2
<1>4. PICK k \in T : \A y \in T : k <= y
  <2> HIDE DEF T
  <2> QED
    BY <1>3, LeastNatural
<1>5. Prefixed(ix, w, k)
  <2>1. CASE k = 0
    BY <2>1 DEF Prefixed
  <2>2. CASE k # 0
    <3>1. k - 1 \in 0 .. N /\ k - 1 \notin T /\ k - 1 + 1 = k
      BY SMTT(30), <1>1, <1>4, <2>2
    <3> QED
      BY <3>1
  <2> QED
    BY <2>1, <2>2
<1>6. k \in 0 .. N /\ (k < N => ~Prefixed(ix, w, k + 1))
  BY <1>4
<1> QED
  BY <1>5, <1>6 DEF Consumed
\* Index n, with f[n] conjuncts consumed, is preferred to m.
Better(f, n, m) == f[m] < f[n] \/ (f[m] = f[n] /\ n <= m)

LEMMA BestExists ==
  ASSUME NEW U, IsFiniteSet(U), U # {}, U \subseteq Nat, NEW f \in [U -> Nat]
  PROVE  \E n \in U : \A m \in U : Better(f, n, m)
<1> DEFINE Bad == {V \in FiniteSubsetsOf(U) :
                     V # {} /\ ~\E n \in V : \A m \in V : Better(f, n, m)}
<1>1. SUFFICES ASSUME Bad # {} PROVE FALSE
  <2>1. U \in FiniteSubsetsOf(U)
    BY DEF FiniteSubsetsOf
  <2> QED
    BY <2>1
<1>2. PICK V \in Bad : \A W \in Bad : ~(<<W, V>> \in StrictSubsetOrdering(U))
  <2>1. Bad \subseteq FiniteSubsetsOf(U)
    OBVIOUS
  <2> HIDE DEF Bad
  <2> QED
    BY <1>1, <2>1, FS_StrictSubsetOrderingWellFounded, WFMin
<1>3. V \subseteq U /\ IsFiniteSet(V) /\ V # {}
  BY DEF FiniteSubsetsOf
<1>4. PICK x \in V : TRUE
  BY <1>3
<1> DEFINE W == V \ {x}
<1>5. W \in FiniteSubsetsOf(U)
  BY <1>3, FS_RemoveElement DEF FiniteSubsetsOf
<1>6. <<W, V>> \in StrictSubsetOrdering(U)
  BY <1>3, <1>4, <1>5 DEF StrictSubsetOrdering, FiniteSubsetsOf
<1>7. CASE W = {}
  <2>1. \A m \in V : Better(f, x, m)
    BY <1>3, <1>4, <1>7 DEF Better
  <2> QED
    BY <1>4, <2>1
<1>8. CASE W # {}
  <2>1. PICK y \in W : \A m \in W : Better(f, y, m)
    BY <1>2, <1>5, <1>6, <1>8
  <2>2. f[x] \in Nat /\ f[y] \in Nat /\ x \in Nat /\ y \in Nat
    BY <1>3, <1>4
  <2>3. CASE Better(f, y, x)
    <3>1. \A m \in V : Better(f, y, m)
      BY <2>1, <2>3
    <3> QED
      BY <3>1
  <2>4. CASE ~Better(f, y, x)
    <3>1. \A m \in V : f[m] \in Nat /\ m \in Nat
      BY <1>3
    <3>2. \A m \in V : Better(f, x, m)
      BY <2>1, <2>2, <2>4, <3>1 DEF Better
    <3> QED
      BY <1>4, <3>2
  <2> QED
    BY <2>3, <2>4
<1> QED
  BY <1>7, <1>8

\* plan_index_lookup chooses one of the usable indexes.
LEMMA PlanIs ==
  ASSUME NEW cat \in Catalog, NEW w, Usable(cat, w) # {}
  PROVE  Plan(cat, w) \in Usable(cat, w)
<1> DEFINE U == Usable(cat, w)
           f == [m \in U |-> Consumed(cat[m], w)]
<1>1. IsFiniteSet(U) /\ U \subseteq Nat /\ U # {}
  BY FS_Subset, FiniteAssumption, ValuesAssumption DEF Usable
<1>2. \A m \in U : cat[m] \in Index
  BY DEF Usable, Catalog
<1>3. \A m \in U : Consumed(cat[m], w) \in Nat
  BY <1>2, ConsumedIs DEF Index
<1>4. f \in [U -> Nat]
  BY <1>3
<1> HIDE DEF f
<1>5. PICK n \in U : \A m \in U : Better(f, n, m)
  <2> HIDE DEF U
  <2> QED
    BY <1>1, <1>4, BestExists
<1>6. \A m \in U : \/ Consumed(cat[m], w) < Consumed(cat[n], w)
                   \/ Consumed(cat[m], w) = Consumed(cat[n], w) /\ n <= m
  BY <1>5 DEF Better, f
<1> QED
  BY <1>6 DEF Plan

\* An index scan for a clause finds every record that matches it: the entry of
\* the record agrees with the clause on the prefix that was consumed.
LEMMA PlanFinds ==
  ASSUME WholeInv, IndexComplete, NEW w \in Where, Usable(catalog, w) # {},
         NEW i \in Matching(w)
  PROVE  \E e \in PlanHits(catalog, w) :
           /\ e.id = i
           /\ Len(e.key) = Len(catalog[Plan(catalog, w)].fields)
<1> DEFINE n == Plan(catalog, w)
           ix == catalog[n]
           k == Consumed(ix, w)
           doc == docs[i]
           e == [name |-> n, key |-> Tuple(doc, ix), id |-> i]
<1>1. catalog \in Catalog /\ docs \in [Ids -> Doc \cup {NoDoc}]
  BY DEF WholeInv, TypeInv, TypeOK
<1>2. n \in Names /\ ix # NoIndex /\ k > 0
  BY <1>1, PlanIs DEF Usable
<1>3. ix \in Index
  BY <1>1, <1>2 DEF Catalog
<1>4. k \in 1 .. Len(ix.fields) /\ Prefixed(ix, w, k)
  <2>1. Len(ix.fields) \in Nat
    BY <1>3 DEF Index
  <2> HIDE DEF ix
  <2> QED
    BY <1>2, <1>3, <2>1, ConsumedIs
<1>5. i \in Ids /\ doc # NoDoc /\ doc \in Doc /\ Matches(doc, w)
  BY <1>1 DEF Matching
<1>6. \A j \in 1 .. Len(ix.fields) : ix.fields[j] \in Fields
  BY <1>3 DEF Index
<1> HIDE DEF n, ix, k, doc
<1>7. \A j \in 1 .. k : doc[ix.fields[j]] = w[ix.fields[j]] /\ w[ix.fields[j]] \in Vals
  BY <1>4, <1>5 DEF Prefixed, Matches, Where
<1>8. Complete(doc, ix)
  <2> SUFFICES ASSUME NEW j \in 1 .. Len(ix.fields) PROVE doc[ix.fields[j]] \in Vals
    BY DEF Complete
  <2>1. Len(ix.fields) \in Nat
    BY <1>3 DEF Index
  <2>2. CASE j \in 2 .. Len(ix.fields)
    <3>1. ix \in Defined(n)
      BY <1>2 DEF WholeInv, Known, ix
    <3>2. ix.fields[j] \in LaterFields
      BY <1>2, <1>6, <2>2, <3>1 DEF LaterFields
    <3>3. Whole(doc)
      BY <1>5 DEF WholeInv, HasWhole, doc
    <3> QED
      BY <1>5, <1>6, <3>2, <3>3 DEF Whole, Doc
  <2>3. CASE j = 1
    BY <1>4, <1>7, <2>3
  <2> QED
    BY <2>1, <2>2, <2>3
<1>9. e \in entries
  <2>1. n \in Indexing(doc, catalog)
    BY <1>2, <1>8 DEF Indexing, ix
  <2>2. e \in IndexEntries(i, doc, catalog)
    BY <2>1 DEF IndexEntries, ix
  <2> QED
    BY <1>5, <2>2 DEF IndexComplete, doc
<1>10. Len(e.key) = Len(ix.fields) /\ \A j \in 1 .. Len(ix.fields) : e.key[j] = doc[ix.fields[j]]
  <2>1. Len(ix.fields) \in Nat
    BY <1>3 DEF Index
  <2> QED
    BY <2>1 DEF Tuple
<1> DEFINE t == [j \in 1 .. k |-> w[ix.fields[j]]]
<1>11. Len(t) = k
  BY <1>4
<1>12. e \in Hits(n, t, Len(ix.fields))
  <2>1. Len(ix.fields) \in Nat
    BY <1>3 DEF Index
  <2>2. \A j \in 1 .. Len(t) : e.key[j] = t[j]
    BY <1>4, <1>7, <1>10, <1>11, <2>1
  <2> QED
    BY <1>4, <1>9, <1>10, <1>11, <2>1, <2>2 DEF Hits
<1>13. e \in PlanHits(catalog, w)
  BY <1>12 DEF PlanHits, n, ix, k
<1> QED
  BY <1>10, <1>13 DEF n, ix

\* Finding each of some records at least once is counting at least so many.
LEMMA CountsAll ==
  ASSUME NEW S, NEW H, IsFiniteSet(H), \A i \in S : \E e \in H : e.id = i
  PROVE  Cardinality(S) <= Cardinality(H)
<1> DEFINE f == [i \in S |-> CHOOSE e \in H : e.id = i]
<1>1. \A i \in S : f[i] \in H /\ f[i].id = i
  OBVIOUS
<1>2. f \in [S -> H]
  BY <1>1
<1> HIDE DEF f
<1>3. f \in Injection(S, H)
  BY <1>1, <1>2 DEF Injection, IsInjective
<1> QED
  BY <1>3, FS_Injection
=============================================================================
