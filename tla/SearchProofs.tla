---------------------------- MODULE SearchProofs ----------------------------
(***************************************************************************)
(* Theorems about Search, for every number of connections, tables, records *)
(* and statements.                                                         *)
(***************************************************************************)
EXTENDS Search, SequenceTheorems, FiniteSetTheorems, TLAPS

Writes == {"create", "upsert", "update", "delete", "update_all", "delete_all", "batch"}

\* The points of ensure_fulltext and of ensure_vector_loaded, and those of
\* maintain_search_indexes from the second read of a record on.
Opening == {"ensure_text", "open_text", "mark_open"}
Rebuilding == {"rebuild_lock", "rebuild_scan", "rebuild_insert"}
Loading == {"ensure_vector"} \cup Rebuilding
Applying == {"reread", "maintain", "delete_text", "insert_vector", "vector_exists",
             "remove_vector"}
Defining == {"define_write", "register", "backfill_scan", "backfill", "set_loaded"}
Removing == {"remove_write", "drop_vector", "drop_text", "unmark_open"}
Searching == {"find", "query_text", "query_vector", "resolve"}

TextIndex == [handle : BOOLEAN, disk : Held, staged : Held]
VectorEntry == [vecs : [Keys -> Vecs \cup {None}], loaded : BOOLEAN, lock : Conns \cup {NoConn}]

\* ensure_fulltext and ensure_vector_loaded are called by writes, for the record
\* at hand, by searches, and the first one by DEFINE.
OpeningOK(s, l) == \/ s.op \in Writes /\ l.ret = "delete_text" /\ l.cur \in Recs
                   \/ s.op = "search" /\ l.ret = "find"
                   \/ s.op = "define" /\ l.ret = "backfill_scan"

LoadingOK(s, l) == \/ s.op \in Writes /\ l.ret = "insert_vector" /\ l.cur \in Recs
                   \/ s.op = "search" /\ l.ret = "find"

\* The texts of a backfill.
FillOK(s, l) == s.kind = "text" => l.fill \subseteq Keys \X Texts

\* Which statements are at a point, and which locals are set there.
LocalOK(p, s, l) ==
  /\ p # "idle" => s \in Statement
  /\ p = "load" => s.op \in Writes \cup {"remove"}
  /\ p = "scan" => s.op \in {"update_all", "delete_all"}
  /\ p = "batch_write" => s.op = "batch"
  /\ p = "row" => s.op \in Writes
  /\ p \in Applying => s.op \in Writes /\ l.cur \in Recs
  /\ p \in Defining => s.op = "define"
  /\ p \in Removing => s.op = "remove"
  /\ p \in Searching => s.op = "search"
  /\ p \in Opening => OpeningOK(s, l)
  /\ p \in Loading => LoadingOK(s, l)
  /\ p \in Rebuilding => l.ent \in Slots
  /\ p = "add_text" => /\ s.op \in Writes \/ (s.op = "define" /\ s.kind = "text" /\ FillOK(s, l))
                       /\ l.cur \in Recs
                       /\ l.doc \in Doc /\ l.doc.text # None
  /\ p = "backfill" => FillOK(s, l)

SharedOK ==
  /\ docs \in [Recs -> Doc \cup {NoDoc}]
  /\ catalog \in [Tables -> SUBSET Kinds]
  /\ fts_open \subseteq Tables
  /\ fts \in [Tables -> TextIndex]
  /\ registry \in [Names -> Slots \cup {NoSlot}]
  /\ heap \in [Slots -> VectorEntry]

TypeInv ==
  /\ TypeOK
  /\ scenario \in DOMAIN Scenario
  /\ \A c \in Conns : LocalOK(pc[c], stmt[c], loc[c])

-----------------------------------------------------------------------------
(* Operators *)

\* The fields of a statement, by its operation.
LEMMA StatementShape ==
  ASSUME NEW s \in Statement
  PROVE  /\ s.op \in Writes \cup {"define", "remove", "search"}
         /\ s.op \in {"create", "upsert", "update"} => s.rec \in Recs /\ s.doc \in Doc
         /\ s.op = "delete" => s.rec \in Recs
         /\ s.op = "update_all" => s.table \in Tables /\ s.doc \in Doc
         /\ s.op = "delete_all" => s.table \in Tables
         /\ s.op = "batch" => s.table \in Tables /\ s.items \in [Keys -> Doc \cup {NoDoc}]
         /\ s.op \in {"define", "remove"} => s.table \in Tables /\ s.kind \in Kinds
         /\ s.op = "search" => /\ s.table \in Tables /\ s.kinds \subseteq Kinds
                               /\ s.text \in Texts /\ s.kinds # {}
         /\ s.op \in {"create", "upsert", "update", "delete"} <=> "rec" \in DOMAIN s
<1>1. CASE s \in [op : {"create", "upsert", "update"}, rec : Recs, doc : Doc]
  BY <1>1 DEF Writes
<1>2. CASE s \in [op : {"delete"}, rec : Recs]
  BY <1>2 DEF Writes
<1>3. CASE s \in [op : {"update_all"}, table : Tables, doc : Doc]
  BY <1>3 DEF Writes
<1>4. CASE s \in [op : {"delete_all"}, table : Tables]
  BY <1>4 DEF Writes
<1>5. CASE s \in [op : {"batch"}, table : Tables, items : [Keys -> Doc \cup {NoDoc}]]
  BY <1>5 DEF Writes
<1>6. CASE s \in [op : {"define", "remove"}, kind : Kinds, table : Tables]
  BY <1>6 DEF Writes
<1>7. CASE s \in [op : {"search"}, kinds : (SUBSET Kinds) \ {{}}, table : Tables,
                  text : Texts, vec : Vecs \cup OddVecs]
  BY <1>7 DEF Writes
<1> QED
  BY <1>1, <1>2, <1>3, <1>4, <1>5, <1>6, <1>7 DEF Statement

\* A statement has one table, and its records are in it.
LEMMA TargetsType ==
  ASSUME NEW s \in Statement
  PROVE  /\ TableOf(s) \in Tables
         /\ VectorName[TableOf(s)] \in Names
         /\ s.op \in {"create", "upsert", "update", "delete"} => Targets(s) = {s.rec}
         /\ s.op \notin {"create", "upsert", "update", "delete"} => TableOf(s) = s.table
         /\ Targets(s) \subseteq Recs
         /\ \A r \in Targets(s) : r[1] = TableOf(s)
<1>1. CASE s.op \in {"create", "upsert", "update", "delete"}
  <2>1. "rec" \in DOMAIN s /\ s.rec \in Recs
    BY <1>1, StatementShape
  <2>2. TableOf(s) = s.rec[1] /\ Targets(s) = {s.rec}
    BY <1>1, <2>1 DEF TableOf, Targets
  <2> QED
    BY <1>1, <2>1, <2>2 DEF Recs, Names
<1>2. CASE s.op \notin {"create", "upsert", "update", "delete"}
  <2>1. "rec" \notin DOMAIN s /\ s.table \in Tables
    BY <1>2, StatementShape DEF Writes
  <2>2. TableOf(s) = s.table
    BY <2>1 DEF TableOf
  <2>3. Targets(s) \subseteq {r \in Recs : r[1] = s.table}
    BY <1>2 DEF Targets
  <2> QED
    BY <1>2, <2>1, <2>2, <2>3 DEF Names
<1> QED
  BY <1>1, <1>2

\* LocalOK, label by label.
LEMMA LocalAt ==
  ASSUME NEW s \in Statement, NEW l
  PROVE  /\ LocalOK("load", s, l) <=> s.op \in Writes \cup {"remove"}
         /\ LocalOK("scan", s, l) <=> s.op \in {"update_all", "delete_all"}
         /\ LocalOK("batch_write", s, l) <=> s.op = "batch"
         /\ LocalOK("row", s, l) <=> s.op \in Writes
         /\ LocalOK("commit", s, l)
         /\ \A p \in Applying : LocalOK(p, s, l) <=> s.op \in Writes /\ l.cur \in Recs
         /\ \A p \in Defining \ {"backfill"} : LocalOK(p, s, l) <=> s.op = "define"
         /\ \A p \in Removing : LocalOK(p, s, l) <=> s.op = "remove"
         /\ \A p \in Searching : LocalOK(p, s, l) <=> s.op = "search"
         /\ \A p \in Opening : LocalOK(p, s, l) <=> OpeningOK(s, l)
         /\ LocalOK("ensure_vector", s, l) <=> LoadingOK(s, l)
         /\ \A p \in Rebuilding : LocalOK(p, s, l) <=> LoadingOK(s, l) /\ l.ent \in Slots
         /\ LocalOK("backfill", s, l) <=> s.op = "define" /\ FillOK(s, l)
         /\ LocalOK("add_text", s, l) <=>
              /\ s.op \in Writes \/ (s.op = "define" /\ s.kind = "text" /\ FillOK(s, l))
              /\ l.cur \in Recs
              /\ l.doc \in Doc /\ l.doc.text # None
BY DEF LocalOK, Applying, Defining, Removing, Searching, Opening, Loading, Rebuilding

LEMMA FreshType == Fresh \in Local /\ \A s : LocalOK("idle", s, Fresh)
BY DEF Fresh, Local, Labels, LocalOK, Opening, Loading, Rebuilding, Applying, Defining,
       Removing, Searching

LEMMA LocalFields ==
  ASSUME NEW l \in Local
  PROVE  /\ l.defs \subseteq Kinds /\ l.rows \subseteq Recs /\ l.touched \in BOOLEAN
         /\ l.done \subseteq Recs /\ l.cur \in Recs \cup {None} /\ l.doc \in Doc \cup {NoDoc}
         /\ l.todo \subseteq Kinds /\ l.ret \in Labels /\ l.ent \in Slots \cup {NoSlot}
         /\ l.fill \subseteq Keys \X (Texts \cup Vecs \cup OddVecs) /\ l.hits \subseteq Keys
BY DEF Local

LEMMA HeldType == NothingHeld \in Held
<1>1. <<>> \in Seq(Texts)
  BY EmptySeq
<1> QED
  BY <1>1 DEF NothingHeld, Held

\* The text index with q staged for a key.
LEMMA StagedType ==
  ASSUME NEW f \in [Tables -> TextIndex], NEW t \in Tables, NEW k \in Keys, NEW q \in Seq(Texts)
  PROVE  LET g == [f EXCEPT ![t].staged[k] = q] IN
         /\ g \in [Tables -> TextIndex]
         /\ \A u \in Tables : g[u].handle = f[u].handle /\ g[u].disk = f[u].disk
         /\ \A u \in Tables, j \in Keys :
              g[u].staged[j] = IF u = t /\ j = k THEN q ELSE f[u].staged[j]
BY DEF TextIndex, Held

LEMMA NewEntryType == NewEntry \in VectorEntry
BY DEF NewEntry, VectorEntry

LEMMA ReleasedType ==
  ASSUME SharedOK, NEW n \in Names
  PROVE  Released(n) \in [Slots -> VectorEntry]
BY NewEntryType DEF SharedOK, Released

LEMMA AllocateType ==
  ASSUME SharedOK, NEW n \in Names, NEW e \in Slots, Allocate(n, e), UNCHANGED durable
  PROVE  SharedOK'
<1>1. Released(n) \in [Slots -> VectorEntry]
  BY ReleasedType
<1> QED
  BY <1>1, NewEntryType DEF SharedOK, Allocate, durable

LEMMA InsertedType ==
  ASSUME SharedOK, NEW n \in Names, NEW k \in Keys, NEW v
  PROVE  Inserted(n, k, v) \in [Slots -> VectorEntry]
<1>1. CASE registry[n] # NoSlot /\ v \in Vecs
  <2>1. registry[n] \in Slots /\ heap \in [Slots -> VectorEntry]
    BY <1>1 DEF SharedOK
  <2>2. ASSUME NEW h \in [Slots -> VectorEntry], NEW e \in Slots, NEW w \in Vecs
        PROVE  [h EXCEPT ![e].vecs[k] = w] \in [Slots -> VectorEntry]
    BY DEF VectorEntry
  <2> QED
    BY <1>1, <2>1, <2>2 DEF Inserted
<1>2. CASE ~(registry[n] # NoSlot /\ v \in Vecs)
  BY <1>2 DEF SharedOK, Inserted
<1> QED
  BY <1>1, <1>2

LEMMA EmbeddingsType ==
  ASSUME SharedOK, NEW t
  PROVE  Embeddings(t) \subseteq Keys \X (Texts \cup Vecs \cup OddVecs)
<1>1. ASSUME NEW r \in Recs, docs[r] # NoDoc, docs[r].vec # None
      PROVE  <<r[2], docs[r].vec>> \in Keys \X (Texts \cup Vecs \cup OddVecs)
  BY <1>1 DEF SharedOK, Recs, Doc
<1> QED
  BY <1>1 DEF Embeddings, Stored

-----------------------------------------------------------------------------
(* Types and control *)

\* Going on keeps the invariant when the statement and the locals suit the label.
LEMMA GotoType ==
  ASSUME TypeInv, SharedOK', NEW c \in Conns, NEW label \in Labels, NEW l \in Local,
         Goto(c, label, l), LocalOK(label, stmt[c], l)
  PROVE  TypeInv'
<1>1. TypeOK' /\ scenario' \in DOMAIN Scenario
  BY DEF TypeInv, TypeOK, SharedOK, TextIndex, VectorEntry, Goto
<1>2. ASSUME NEW d \in Conns PROVE LocalOK(pc'[d], stmt'[d], loc'[d])
  <2>1. pc'[d] = (IF d = c THEN label ELSE pc[d]) /\ loc'[d] = (IF d = c THEN l ELSE loc[d])
    BY DEF TypeInv, TypeOK, Goto
  <2>2. stmt' = stmt
    BY DEF Goto
  <2> QED
    BY <2>1, <2>2 DEF TypeInv
<1> QED
  BY <1>1, <1>2 DEF TypeInv, LocalOK

LEMMA ReturnType ==
  ASSUME TypeInv, SharedOK', NEW c \in Conns, NEW records \in SUBSET Recs, Return(c, records)
  PROVE  TypeInv'
<1>1. TypeOK' /\ scenario' \in DOMAIN Scenario
  BY FreshType DEF TypeInv, TypeOK, SharedOK, TextIndex, VectorEntry, Return, Labels
<1>2. ASSUME NEW d \in Conns PROVE LocalOK(pc'[d], stmt'[d], loc'[d])
  <2>1. /\ pc'[d] = IF d = c THEN "idle" ELSE pc[d]
        /\ stmt'[d] = IF d = c THEN NoStmt ELSE stmt[d]
        /\ loc'[d] = IF d = c THEN Fresh ELSE loc[d]
    BY DEF TypeInv, TypeOK, Return
  <2> QED
    BY <2>1, FreshType DEF TypeInv
<1> QED
  BY <1>1, <1>2 DEF TypeInv, LocalOK

LEMMA SharedNow == TypeInv => SharedOK
BY DEF TypeInv, TypeOK, SharedOK, TextIndex, VectorEntry

LEMMA SharedKept ==
  ASSUME TypeInv, UNCHANGED <<durable, services>>
  PROVE  SharedOK'
BY SharedNow DEF SharedOK, durable, services

LEMMA FailType ==
  ASSUME TypeInv, NEW c \in Conns, Fail(c)
  PROVE  TypeInv'
BY SharedKept, ReturnType DEF Fail

\* What an action knows of its connection.
LEMMA Known ==
  ASSUME TypeInv, NEW c \in Conns
  PROVE  /\ pc[c] \in Labels /\ loc[c] \in Local /\ LocalOK(pc[c], stmt[c], loc[c])
         /\ pc[c] # "idle" => stmt[c] \in Statement /\ TableOf(stmt[c]) \in Tables /\ Name(c) \in Names
         /\ loc[c].done \subseteq Recs
BY TargetsType, LocalFields DEF TypeInv, TypeOK, LocalOK, Name

LEMMA OkType ==
  ASSUME TypeInv, SharedOK', NEW c \in Conns, Ok(c)
  PROVE  TypeInv'
BY Known, ReturnType DEF Ok

LEMMA BeginType ==
  ASSUME TypeInv, NEW c \in Conns, Begin(c)
  PROVE  TypeInv'
<1>1. PICK s \in Scenario[scenario].menu[c] :
        /\ stmt' = [stmt EXCEPT ![c] = s]
        /\ pc' = [pc EXCEPT ![c] = CASE s.op = "define" -> "define_write"
                                     [] s.op = "search" -> "find"
                                     [] OTHER -> "load"]
        /\ loc' = [loc EXCEPT ![c].todo = IF s.op = "search" THEN s.kinds ELSE {}]
        /\ acked' = acked \ Targets(s)
  BY DEF Begin
<1>2. s \in Statement
  BY ConstantsAssumption DEF TypeInv
<1> DEFINE label == CASE s.op = "define" -> "define_write"
                      [] s.op = "search" -> "find"
                      [] OTHER -> "load"
           l == [loc[c] EXCEPT !.todo = IF s.op = "search" THEN s.kinds ELSE {}]
<1>3. label \in Labels /\ LocalOK(label, s, l)
  BY <1>2, StatementShape, LocalAt DEF Labels, Defining, Searching
<1>4. l \in Local
  BY <1>2, StatementShape, Known DEF Local
<1>5. loc' = [loc EXCEPT ![c] = l]
  BY <1>1
<1> HIDE DEF l, label
<1>6. SharedOK'
  BY SharedKept DEF Begin
<1>7. pc' = [pc EXCEPT ![c] = label]
  BY <1>1 DEF label
<1>8. TypeOK' /\ scenario' \in DOMAIN Scenario
  <2>1. stmt' = [stmt EXCEPT ![c] = s] /\ acked' \subseteq acked /\ scenario' = scenario
    BY <1>1 DEF Begin
  <2> QED
    BY <1>2, <1>3, <1>4, <1>5, <1>6, <1>7, <2>1
       DEF TypeInv, TypeOK, SharedOK, TextIndex, VectorEntry
<1>9. ASSUME NEW d \in Conns PROVE LocalOK(pc'[d], stmt'[d], loc'[d])
  <2>1. /\ pc'[d] = IF d = c THEN label ELSE pc[d]
        /\ stmt'[d] = IF d = c THEN s ELSE stmt[d]
        /\ loc'[d] = IF d = c THEN l ELSE loc[d]
    BY <1>1, <1>5, <1>7 DEF TypeInv, TypeOK
  <2> QED
    BY <1>3, <2>1 DEF TypeInv
<1> QED
  BY <1>8, <1>9 DEF TypeInv, LocalOK

LEMMA LoadType ==
  ASSUME TypeInv, NEW c \in Conns, Load(c)
  PROVE  TypeInv'
<1> DEFINE s == stmt[c]
           l == [loc[c] EXCEPT !.defs = catalog[TableOf(s)],
                               !.rows = IF "rec" \in DOMAIN s THEN {s.rec} ELSE {}]
           label == CASE s.op \in {"update_all", "delete_all"} -> "scan"
                      [] s.op = "batch" -> "batch_write"
                      [] s.op = "remove" -> "remove_write"
                      [] OTHER -> "row"
<1>1. SharedOK' /\ Goto(c, label, l)
  BY SharedKept DEF Load
<1>2. s \in Statement /\ s.op \in Writes \cup {"remove"} /\ TableOf(s) \in Tables /\ loc[c] \in Local
  BY Known, LocalAt DEF Load, At
<1>3. catalog[TableOf(s)] \subseteq Kinds
  BY <1>2 DEF TypeInv, TypeOK
<1>4. (IF "rec" \in DOMAIN s THEN {s.rec} ELSE {}) \subseteq Recs
  BY <1>2, StatementShape
<1>5. l \in Local
  BY <1>2, <1>3, <1>4 DEF Local
<1> HIDE DEF l
<1>6. label \in Labels /\ LocalOK(label, s, l)
  BY <1>2, LocalAt DEF Labels, Removing, Writes
<1> HIDE DEF label
<1> QED
  BY <1>1, <1>5, <1>6, GotoType

LEMMA ScanType ==
  ASSUME TypeInv, NEW c \in Conns, Scan(c)
  PROVE  TypeInv'
<1> DEFINE l == [loc[c] EXCEPT !.rows = Stored(stmt[c].table)]
<1>1. SharedOK' /\ Goto(c, "row", l)
  BY SharedKept DEF Scan
<1>2. stmt[c] \in Statement /\ stmt[c].op \in Writes /\ loc[c] \in Local
  BY Known, LocalAt DEF Scan, At, Writes
<1>3. l \in Local
  BY <1>2 DEF Local, Stored
<1> HIDE DEF l
<1> QED
  BY <1>1, <1>2, <1>3, GotoType, LocalAt DEF Labels

LEMMA BatchWriteType ==
  ASSUME TypeInv, NEW c \in Conns, BatchWrite(c)
  PROVE  TypeInv'
<1> DEFINE s == stmt[c]
           l == [loc[c] EXCEPT !.rows = IF loc[c].defs # {} THEN Targets(s) ELSE {},
                               !.touched = loc[c].defs # {}]
<1>1. Goto(c, "row", l)
  BY DEF BatchWrite
<1>2. s \in Statement /\ s.op = "batch" /\ loc[c] \in Local
  BY Known, LocalAt DEF BatchWrite, At
<1>3. Targets(s) \subseteq Recs
  BY <1>2, TargetsType
<1>4. l \in Local
  BY ZenonT(60), <1>2, <1>3 DEF Local
<1>5. \A r \in Recs : s.items[r[2]] \in Doc \cup {NoDoc}
  BY <1>2, StatementShape DEF Recs
<1>6. SharedOK'
  BY <1>5, SharedNow DEF BatchWrite, SharedOK, services
<1> HIDE DEF l
<1> QED
  BY <1>1, <1>2, <1>4, <1>6, GotoType, LocalAt DEF Labels, Writes

LEMMA RowType ==
  ASSUME TypeInv, NEW c \in Conns, Row(c)
  PROVE  TypeInv'
<1> DEFINE s == stmt[c]
           l == loc[c]
<1>1. s \in Statement /\ s.op \in Writes /\ l \in Local
  BY Known, LocalAt DEF Row, At
<1>2. PICK r \in l.rows :
        LET next == [l EXCEPT !.rows = @ \ {r}, !.cur = r]
            exists == docs[r] # NoDoc
        IN \/ /\ s.op \in {"create", "upsert", "update", "update_all"}
              /\ docs' = [docs EXCEPT ![r] = s.doc]
              /\ Goto(c, "reread", next)
              /\ UNCHANGED <<catalog, services>>
           \/ /\ docs' = [docs EXCEPT ![r] = NoDoc]
              /\ Goto(c, "maintain", [next EXCEPT !.doc = NoDoc, !.touched = TRUE,
                                                  !.todo = l.defs])
              /\ UNCHANGED <<catalog, services>>
           \/ /\ Goto(c, "reread", next)
              /\ UNCHANGED <<durable, services>>
           \/ /\ Goto(c, "row", next)
              /\ UNCHANGED <<durable, services>>
           \/ Fail(c)
  BY DEF Row
<1> DEFINE next == [l EXCEPT !.rows = @ \ {r}, !.cur = r]
           gone == [next EXCEPT !.doc = NoDoc, !.touched = TRUE, !.todo = l.defs]
<1>3. r \in Recs /\ l.defs \subseteq Kinds
  BY <1>1, LocalFields
<1>4. next \in Local /\ next.cur = r /\ gone \in Local /\ gone.cur = r
  BY <1>1, <1>3 DEF Local
<1>5. /\ LocalOK("reread", s, next)
      /\ LocalOK("row", s, next)
      /\ LocalOK("maintain", s, gone)
  <2> HIDE DEF next, gone
  <2> QED
    BY <1>1, <1>3, <1>4, LocalAt DEF Applying
<1> HIDE DEF next, gone
<1>6. CASE /\ s.op \in {"create", "upsert", "update", "update_all"}
           /\ docs' = [docs EXCEPT ![r] = s.doc]
           /\ Goto(c, "reread", next)
           /\ UNCHANGED <<catalog, services>>
  <2>1. s.doc \in Doc
    BY <1>1, <1>6, StatementShape
  <2>2. SharedOK'
    BY <1>6, <2>1, SharedNow DEF SharedOK, services
  <2> QED
    BY <1>4, <1>5, <1>6, <2>2, GotoType DEF Labels
<1>7. CASE /\ docs' = [docs EXCEPT ![r] = NoDoc]
           /\ Goto(c, "maintain", gone)
           /\ UNCHANGED <<catalog, services>>
  <2>1. SharedOK'
    BY <1>7, SharedNow DEF SharedOK, services
  <2> QED
    BY <1>4, <1>5, <1>7, <2>1, GotoType DEF Labels
<1>8. CASE /\ Goto(c, "reread", next) \/ Goto(c, "row", next)
           /\ UNCHANGED <<durable, services>>
  BY <1>4, <1>5, <1>8, SharedKept, GotoType DEF Labels
<1>9. CASE Fail(c)
  BY <1>9, FailType
<1> QED
  BY <1>2, <1>6, <1>7, <1>8, <1>9 DEF next, gone

LEMMA RowsDoneType ==
  ASSUME TypeInv, NEW c \in Conns, RowsDone(c)
  PROVE  TypeInv'
<1>1. SharedOK'
  BY SharedKept DEF RowsDone
<1>2. stmt[c] \in Statement /\ loc[c] \in Local
  BY Known DEF RowsDone, At
<1> QED
  BY <1>1, <1>2, GotoType, OkType, LocalAt DEF RowsDone, Labels

LEMMA RereadType ==
  ASSUME TypeInv, NEW c \in Conns, Reread(c)
  PROVE  TypeInv'
<1> DEFINE l == loc[c]
           found == docs[l.cur] # NoDoc
           m == [l EXCEPT !.doc = docs[l.cur],
                          !.todo = IF found THEN l.defs ELSE {},
                          !.touched = l.touched \/ found \/ stmt[c].op = "update_all"]
<1>1. SharedOK' /\ Goto(c, IF found THEN "maintain" ELSE "row", m)
  BY SharedKept DEF Reread
<1>2. stmt[c] \in Statement /\ stmt[c].op \in Writes /\ l \in Local /\ l.cur \in Recs
  BY Known, LocalAt DEF Reread, At, Applying
<1>3. docs[l.cur] \in Doc \cup {NoDoc} /\ l.defs \subseteq Kinds
  BY <1>2, LocalFields DEF TypeInv, TypeOK
<1>4. m \in Local /\ m.cur = l.cur
  BY ZenonT(60), <1>2, <1>3 DEF Local
<1> HIDE DEF m, l
<1>5. LocalOK("maintain", stmt[c], m) /\ LocalOK("row", stmt[c], m)
  BY <1>2, <1>4, LocalAt DEF Applying
<1> HIDE DEF found
<1> QED
  BY <1>1, <1>4, <1>5, GotoType DEF Labels

LEMMA MaintainType ==
  ASSUME TypeInv, NEW c \in Conns, Maintain(c)
  PROVE  TypeInv'
<1> DEFINE l == loc[c]
           m1 == [l EXCEPT !.done = @ \cup {l.cur}]
           m2 == [l EXCEPT !.todo = @ \ {"text"}, !.ret = "delete_text"]
           m3 == [l EXCEPT !.todo = @ \ {"vector"}, !.ret = "insert_vector"]
<1>1. /\ SharedOK'
      /\ \/ Goto(c, "row", m1)
         \/ Goto(c, "ensure_text", m2)
         \/ Goto(c, "ensure_vector", m3)
         \/ Goto(c, "vector_exists", m3)
  BY SharedKept DEF Maintain
<1>2. stmt[c] \in Statement /\ stmt[c].op \in Writes /\ l \in Local /\ l.cur \in Recs
  BY Known, LocalAt DEF Maintain, At, Applying
<1>3. /\ m1 \in Local /\ m2 \in Local /\ m3 \in Local
      /\ m2.ret = "delete_text" /\ m2.cur = l.cur
      /\ m3.ret = "insert_vector" /\ m3.cur = l.cur
  BY ZenonT(60), <1>2 DEF Local, Labels
<1> HIDE DEF m1, m2, m3, l
<1>4. /\ LocalOK("row", stmt[c], m1)
      /\ LocalOK("ensure_text", stmt[c], m2)
      /\ LocalOK("ensure_vector", stmt[c], m3)
      /\ LocalOK("vector_exists", stmt[c], m3)
  BY <1>2, <1>3, LocalAt DEF Opening, Applying, OpeningOK, LoadingOK
<1> QED
  BY <1>1, <1>3, <1>4, GotoType DEF Labels

-----------------------------------------------------------------------------
(* Full text *)

\* Where ensure_fulltext returns to.
LEMMA OpeningReturns ==
  ASSUME NEW s \in Statement, NEW l, OpeningOK(s, l)
  PROVE  l.ret \in Labels /\ LocalOK(l.ret, s, l)
BY LocalAt DEF OpeningOK, Labels, Applying, Searching, Defining

LEMMA EnsureTextType ==
  ASSUME TypeInv, NEW c \in Conns, EnsureText(c)
  PROVE  TypeInv'
<1>1. SharedOK' /\ (Goto(c, loc[c].ret, loc[c]) \/ Goto(c, "open_text", loc[c]))
  BY SharedKept DEF EnsureText
<1>2. stmt[c] \in Statement /\ loc[c] \in Local /\ OpeningOK(stmt[c], loc[c])
  BY Known, LocalAt DEF EnsureText, At, Opening
<1> QED
  BY <1>1, <1>2, OpeningReturns, GotoType, LocalAt DEF Opening, Labels

LEMMA OpenTextType ==
  ASSUME TypeInv, NEW c \in Conns, OpenText(c)
  PROVE  TypeInv'
<1> DEFINE t == TableOf(stmt[c])
<1>1. stmt[c] \in Statement /\ loc[c] \in Local /\ OpeningOK(stmt[c], loc[c]) /\ t \in Tables
  BY Known, LocalAt DEF OpenText, At, Opening
<1>2. CASE Fail(c)
  BY <1>2, FailType
<1>3. CASE /\ fts' = [fts EXCEPT ![t].handle = TRUE, ![t].staged = fts[t].disk]
           /\ Goto(c, "mark_open", loc[c])
           /\ UNCHANGED <<durable, fts_open, registry, heap>>
  <2>1. fts' \in [Tables -> TextIndex]
    BY <1>1, <1>3, SharedNow DEF SharedOK, TextIndex
  <2>2. SharedOK'
    BY <1>3, <2>1, SharedNow DEF SharedOK, durable
  <2> QED
    BY <1>1, <1>3, <2>2, GotoType, LocalAt DEF Opening, Labels
<1> QED
  BY <1>2, <1>3 DEF OpenText

LEMMA MarkOpenType ==
  ASSUME TypeInv, NEW c \in Conns, MarkOpen(c)
  PROVE  TypeInv'
<1>1. stmt[c] \in Statement /\ loc[c] \in Local /\ OpeningOK(stmt[c], loc[c])
      /\ TableOf(stmt[c]) \in Tables
  BY Known, LocalAt DEF MarkOpen, At, Opening
<1>2. SharedOK' /\ Goto(c, loc[c].ret, loc[c])
  BY <1>1, SharedNow DEF MarkOpen, SharedOK, durable
<1> QED
  BY <1>1, <1>2, OpeningReturns, GotoType

LEMMA HasTextType ==
  ASSUME NEW l \in Local, HasText(l)
  PROVE  l.doc \in Doc /\ l.doc.text # None /\ l.doc.text \in Texts
BY LocalFields DEF HasText, Doc

LEMMA DeleteTextType ==
  ASSUME TypeInv, NEW c \in Conns, DeleteText(c)
  PROVE  TypeInv'
<1> DEFINE t == TableOf(stmt[c])
           k == loc[c].cur[2]
<1>1. /\ stmt[c] \in Statement /\ stmt[c].op \in Writes /\ loc[c] \in Local
      /\ loc[c].cur \in Recs /\ t \in Tables /\ k \in Keys
  BY Known, LocalAt DEF DeleteText, At, Applying, Recs
<1>2. CASE Fail(c)
  BY <1>2, FailType
<1>3. CASE /\ fts' = [fts EXCEPT ![t].staged[k] = <<>>]
           /\ Goto(c, IF HasText(loc[c]) THEN "add_text" ELSE "maintain", loc[c])
           /\ UNCHANGED <<durable, fts_open, registry, heap>>
  <2>1. fts' \in [Tables -> TextIndex]
    <3> HIDE DEF t, k
    <3>1. fts \in [Tables -> TextIndex] /\ <<>> \in Seq(Texts)
      BY EmptySeq, SharedNow DEF SharedOK
    <3> QED
      BY <1>1, <1>3, <3>1, StagedType
  <2>2. SharedOK'
    BY <1>3, <2>1, SharedNow DEF SharedOK, durable
  <2>3. HasText(loc[c]) => LocalOK("add_text", stmt[c], loc[c])
    BY <1>1, HasTextType, LocalAt
  <2> QED
    BY <1>1, <1>3, <2>2, <2>3, GotoType, LocalAt DEF Applying, Labels
<1> QED
  BY <1>2, <1>3 DEF DeleteText

LEMMA AddTextType ==
  ASSUME TypeInv, NEW c \in Conns, AddText(c)
  PROVE  TypeInv'
<1> DEFINE t == TableOf(stmt[c])
           k == loc[c].cur[2]
           q == Append(fts[t].staged[k], loc[c].doc.text)
<1>1. /\ stmt[c] \in Statement /\ loc[c] \in Local /\ loc[c].cur \in Recs /\ t \in Tables
      /\ k \in Keys /\ loc[c].doc \in Doc /\ loc[c].doc.text # None
      /\ \/ stmt[c].op \in Writes
         \/ stmt[c].op = "define" /\ FillOK(stmt[c], loc[c])
  BY Known, LocalAt DEF AddText, At, Recs
<1>2. q \in Seq(Texts)
  <2>1. loc[c].doc.text \in Texts
    BY <1>1 DEF Doc
  <2>2. fts[t].staged[k] \in Seq(Texts)
    BY SMTT(30), <1>1, SharedNow DEF SharedOK, TextIndex, Held
  <2> QED
    BY <2>1, <2>2, AppendProperties
<1>3. fts' = [fts EXCEPT ![t].staged[k] = q]
  BY DEF AddText
<1> HIDE DEF q
<1>4. fts' \in [Tables -> TextIndex]
  <2> HIDE DEF t, k
  <2>1. fts \in [Tables -> TextIndex]
    BY SharedNow DEF SharedOK
  <2> QED
    BY <1>1, <1>2, <1>3, <2>1, StagedType
<1>5. SharedOK'
  BY SMTT(30), <1>4, SharedNow DEF AddText, SharedOK, durable
<1>6. Goto(c, IF stmt[c].op = "define" THEN "backfill" ELSE "maintain", loc[c])
  BY DEF AddText
<1>7. CASE stmt[c].op = "define"
  <2>1. LocalOK("backfill", stmt[c], loc[c])
    BY <1>1, <1>7, LocalAt DEF Writes
  <2> QED
    BY <1>1, <1>5, <1>6, <1>7, <2>1, GotoType DEF Labels
<1>8. CASE stmt[c].op # "define"
  <2>1. LocalOK("maintain", stmt[c], loc[c])
    BY <1>1, <1>8, LocalAt DEF Applying
  <2> QED
    BY <1>1, <1>5, <1>6, <1>8, <2>1, GotoType DEF Labels
<1> QED
  BY <1>7, <1>8

LEMMA CommitType ==
  ASSUME TypeInv, NEW c \in Conns, Commit(c)
  PROVE  TypeInv'
<1>1. fts' \in [Tables -> TextIndex]
  BY SharedNow DEF Commit, SharedOK, TextIndex
<1>2. SharedOK'
  BY <1>1, SharedNow DEF Commit, SharedOK, durable
<1> QED
  BY <1>2, OkType DEF Commit
-----------------------------------------------------------------------------
(* Vectors *)

\* Where ensure_vector_loaded returns to.
LEMMA LoadingReturns ==
  ASSUME NEW s \in Statement, NEW l, LoadingOK(s, l)
  PROVE  l.ret \in Labels /\ LocalOK(l.ret, s, l)
BY LocalAt DEF LoadingOK, Labels, Applying, Searching

\* The entry a statement holds does not matter to a caller.
LEMMA EntryHeld ==
  ASSUME NEW l \in Local, NEW e \in Slots \cup {NoSlot}
  PROVE  LET m == [l EXCEPT !.ent = e] IN
         /\ m \in Local /\ m.ent = e /\ m.ret = l.ret
         /\ \A s : LoadingOK(s, l) => LoadingOK(s, m)
BY DEF Local, LoadingOK

LEMMA EnsureVectorType ==
  ASSUME TypeInv, NEW c \in Conns, EnsureVector(c)
  PROVE  TypeInv'
<1> DEFINE e == registry[Name(c)]
<1>1. /\ stmt[c] \in Statement /\ loc[c] \in Local /\ LoadingOK(stmt[c], loc[c])
      /\ Name(c) \in Names
  BY Known, LocalAt DEF EnsureVector, At
<1>2. ASSUME NEW f \in Slots, Goto(c, "rebuild_lock", [loc[c] EXCEPT !.ent = f]), SharedOK'
      PROVE  TypeInv'
  <2> DEFINE m == [loc[c] EXCEPT !.ent = f]
  <2>1. m \in Local /\ m.ent = f /\ LoadingOK(stmt[c], m) /\ Goto(c, "rebuild_lock", m)
    BY <1>1, <1>2, EntryHeld
  <2> HIDE DEF m
  <2> QED
    BY <1>1, <1>2, <2>1, GotoType, LocalAt DEF Rebuilding, Labels
<1>3. CASE e = NoSlot
  <2>1. PICK f \in Slots : /\ Allocate(Name(c), f)
                           /\ Goto(c, "rebuild_lock", [loc[c] EXCEPT !.ent = f])
    BY <1>3 DEF EnsureVector
  <2>2. SharedOK'
    BY <1>1, <2>1, AllocateType, SharedNow DEF EnsureVector
  <2> QED
    BY <1>2, <2>1, <2>2
<1>4. CASE e # NoSlot
  <2>1. SharedOK' /\ e \in Slots
    BY <1>1, <1>4, SharedKept, SharedNow DEF EnsureVector, SharedOK
  <2>2. CASE Goto(c, loc[c].ret, loc[c])
    BY <1>1, <2>1, <2>2, LoadingReturns, GotoType
  <2>3. CASE Goto(c, "rebuild_lock", [loc[c] EXCEPT !.ent = e])
    BY <1>2, <2>1, <2>3
  <2> QED
    BY <1>4, <2>2, <2>3 DEF EnsureVector
<1> QED
  BY <1>3, <1>4

\* The rebuild is over, or another one has done it.
LEMMA LeaveRebuild ==
  ASSUME TypeInv, SharedOK', NEW c \in Conns, pc[c] \in Rebuilding,
         Goto(c, loc[c].ret, [loc[c] EXCEPT !.ent = NoSlot])
  PROVE  TypeInv'
<1> DEFINE m == [loc[c] EXCEPT !.ent = NoSlot]
<1>1. stmt[c] \in Statement /\ loc[c] \in Local /\ LoadingOK(stmt[c], loc[c])
  BY Known, LocalAt DEF Rebuilding
<1>2. m \in Local /\ m.ret = loc[c].ret /\ LoadingOK(stmt[c], m)
  BY <1>1, EntryHeld
<1> HIDE DEF m
<1>3. Goto(c, m.ret, m)
  BY <1>2 DEF m
<1> QED
  BY <1>1, <1>2, <1>3, LoadingReturns, GotoType

LEMMA RebuildLockType ==
  ASSUME TypeInv, NEW c \in Conns, RebuildLock(c)
  PROVE  TypeInv'
<1> DEFINE e == loc[c].ent
<1>1. /\ stmt[c] \in Statement /\ loc[c] \in Local /\ LoadingOK(stmt[c], loc[c])
      /\ e \in Slots /\ pc[c] \in Rebuilding
  BY Known, LocalAt DEF RebuildLock, At, Rebuilding
<1>2. CASE heap[e].loaded
  <2>1. SharedOK' /\ Goto(c, loc[c].ret, [loc[c] EXCEPT !.ent = NoSlot])
    BY <1>2, SharedKept DEF RebuildLock
  <2> QED
    BY <1>1, <2>1, LeaveRebuild
<1>3. CASE ~heap[e].loaded
  <2>1. heap' = [heap EXCEPT ![e].lock = c] /\ Goto(c, "rebuild_scan", loc[c])
    BY <1>3 DEF RebuildLock
  <2>2. heap' \in [Slots -> VectorEntry]
    BY <1>1, <2>1, SharedNow DEF SharedOK, VectorEntry
  <2>3. SharedOK'
    BY <1>3, <2>2, SharedNow DEF RebuildLock, SharedOK, durable
  <2> QED
    BY <1>1, <2>1, <2>3, GotoType, LocalAt DEF Rebuilding, Labels
<1> QED
  BY <1>2, <1>3

\* Only what is still to be inserted changes.
LEMMA FillLeft ==
  ASSUME NEW l \in Local, NEW f \in SUBSET (Keys \X (Texts \cup Vecs \cup OddVecs))
  PROVE  LET m == [l EXCEPT !.fill = f] IN
         /\ m \in Local /\ m.ent = l.ent /\ m.fill = f
         /\ \A s : LoadingOK(s, l) => LoadingOK(s, m)
BY DEF Local, LoadingOK

LEMMA RebuildScanType ==
  ASSUME TypeInv, NEW c \in Conns, RebuildScan(c)
  PROVE  TypeInv'
<1> DEFINE m == [loc[c] EXCEPT !.fill = Embeddings(TableOf(stmt[c]))]
<1>1. /\ stmt[c] \in Statement /\ loc[c] \in Local /\ LoadingOK(stmt[c], loc[c])
      /\ loc[c].ent \in Slots
  BY Known, LocalAt DEF RebuildScan, At, Rebuilding
<1>2. SharedOK' /\ Goto(c, "rebuild_insert", m)
  BY SharedKept DEF RebuildScan
<1>3. m \in Local /\ m.ent = loc[c].ent /\ LoadingOK(stmt[c], m)
  BY <1>1, EmbeddingsType, SharedNow, FillLeft
<1> HIDE DEF m
<1> QED
  BY <1>1, <1>2, <1>3, GotoType, LocalAt DEF Rebuilding, Labels

LEMMA RebuildInsertType ==
  ASSUME TypeInv, NEW c \in Conns, RebuildInsert(c)
  PROVE  TypeInv'
<1>1. /\ stmt[c] \in Statement /\ loc[c] \in Local /\ LoadingOK(stmt[c], loc[c])
      /\ loc[c].ent \in Slots /\ Name(c) \in Names
  BY Known, LocalAt DEF RebuildInsert, At, Rebuilding
<1>2. PICK f \in loc[c].fill :
        /\ heap' = Inserted(Name(c), f[1], f[2])
        /\ Goto(c, "rebuild_insert", [loc[c] EXCEPT !.fill = @ \ {f}])
  BY DEF RebuildInsert
<1>3. loc[c].fill \subseteq Keys \X (Texts \cup Vecs \cup OddVecs) /\ f[1] \in Keys
  BY <1>1, LocalFields
<1>4. heap' \in [Slots -> VectorEntry]
  BY <1>1, <1>2, <1>3, InsertedType, SharedNow
<1>5. SharedOK'
  BY <1>4, SharedNow DEF RebuildInsert, SharedOK, durable
<1> DEFINE m == [loc[c] EXCEPT !.fill = loc[c].fill \ {f}]
<1>6. m \in Local /\ m.ent = loc[c].ent /\ LoadingOK(stmt[c], m)
  BY <1>1, <1>3, FillLeft
<1>7. Goto(c, "rebuild_insert", m)
  BY <1>2
<1> HIDE DEF m
<1> QED
  BY <1>1, <1>5, <1>6, <1>7, GotoType, LocalAt DEF Rebuilding, Labels

LEMMA RebuildDoneType ==
  ASSUME TypeInv, NEW c \in Conns, RebuildDone(c)
  PROVE  TypeInv'
<1> DEFINE e == loc[c].ent
<1>1. e \in Slots /\ pc[c] \in Rebuilding
  BY Known, LocalAt DEF RebuildDone, At, Rebuilding
<1>2. heap' = [heap EXCEPT ![e].loaded = TRUE, ![e].lock = NoConn]
  BY DEF RebuildDone
<1>3. heap' \in [Slots -> VectorEntry]
  BY ZenonT(60), <1>1, <1>2, SharedNow DEF SharedOK, VectorEntry
<1>4. SharedOK' /\ Goto(c, loc[c].ret, [loc[c] EXCEPT !.ent = NoSlot])
  BY <1>3, SharedNow DEF RebuildDone, SharedOK, durable
<1> QED
  BY <1>1, <1>4, LeaveRebuild

LEMMA VectorStepType ==
  ASSUME TypeInv, NEW c \in Conns, InsertVector(c) \/ VectorExists(c) \/ RemoveVector(c)
  PROVE  TypeInv'
<1>1. /\ stmt[c] \in Statement /\ stmt[c].op \in Writes /\ loc[c] \in Local
      /\ loc[c].cur \in Recs /\ loc[c].cur[2] \in Keys /\ Name(c) \in Names
  BY Known, LocalAt DEF InsertVector, VectorExists, RemoveVector, At, Applying, Recs
<1>2. heap' \in [Slots -> VectorEntry]
  <2>1. CASE InsertVector(c)
    BY <1>1, <2>1, InsertedType, SharedNow DEF InsertVector
  <2>2. CASE VectorExists(c)
    BY <2>2, SharedNow DEF VectorExists, SharedOK, services
  <2>3. CASE RemoveVector(c)
    <3> DEFINE k == loc[c].cur[2]
    <3>1. ASSUME NEW h \in [Slots -> VectorEntry], NEW e \in Slots
          PROVE  [h EXCEPT ![e].vecs[k] = None] \in [Slots -> VectorEntry]
      BY <1>1 DEF VectorEntry
    <3>2. heap \in [Slots -> VectorEntry] /\ registry[Name(c)] \in Slots \cup {NoSlot}
      BY <1>1, SharedNow DEF SharedOK
    <3> QED
      BY <2>3, <3>1, <3>2 DEF RemoveVector
  <2> QED
    BY <2>1, <2>2, <2>3
<1>3. SharedOK'
  BY <1>2, SharedNow DEF InsertVector, VectorExists, RemoveVector, SharedOK, durable, services
<1>4. Goto(c, "maintain", loc[c]) \/ Goto(c, "remove_vector", loc[c])
  BY DEF InsertVector, VectorExists, RemoveVector
<1> QED
  BY <1>1, <1>3, <1>4, GotoType, LocalAt DEF Applying, Labels

-----------------------------------------------------------------------------
(* DEFINE and REMOVE *)

LEMMA DefineWriteType ==
  ASSUME TypeInv, NEW c \in Conns, DefineWrite(c)
  PROVE  TypeInv'
<1> DEFINE m == [loc[c] EXCEPT !.ret = "backfill_scan"]
<1>1. /\ stmt[c] \in Statement /\ stmt[c].op = "define" /\ loc[c] \in Local
      /\ stmt[c].table \in Tables /\ stmt[c].kind \in Kinds
  BY Known, LocalAt, StatementShape DEF DefineWrite, At, Defining
<1>2. SharedOK' /\ Goto(c, IF stmt[c].kind = "text" THEN "ensure_text" ELSE "register", m)
  BY <1>1, SharedNow DEF DefineWrite, SharedOK, services
<1>3. m \in Local /\ m.ret = "backfill_scan"
  BY <1>1 DEF Local, Labels
<1> HIDE DEF m
<1> QED
  BY <1>1, <1>2, <1>3, GotoType, LocalAt DEF OpeningOK, Opening, Defining, Labels

LEMMA RegisterType ==
  ASSUME TypeInv, NEW c \in Conns, Register(c)
  PROVE  TypeInv'
<1>1. stmt[c] \in Statement /\ stmt[c].op = "define" /\ loc[c] \in Local /\ Name(c) \in Names
  BY Known, LocalAt DEF Register, At, Defining
<1>2. SharedOK' /\ Goto(c, "backfill_scan", loc[c])
  BY <1>1, AllocateType, SharedNow DEF Register
<1> QED
  BY <1>1, <1>2, GotoType, LocalAt DEF Defining, Labels

LEMMA BackfillScanType ==
  ASSUME TypeInv, NEW c \in Conns, BackfillScan(c)
  PROVE  TypeInv'
<1> DEFINE s == stmt[c]
           texts == {<<r[2], docs[r].text>> : r \in {q \in Stored(s.table) : docs[q].text # None}}
           f == IF s.kind = "text" THEN texts ELSE Embeddings(s.table)
           m == [loc[c] EXCEPT !.fill = f]
<1>1. s \in Statement /\ s.op = "define" /\ loc[c] \in Local
  BY Known, LocalAt DEF BackfillScan, At, Defining
<1>2. SharedOK' /\ Goto(c, "backfill", m)
  BY SharedKept DEF BackfillScan
<1>3. texts \subseteq Keys \X Texts
  <2>1. ASSUME NEW r \in Recs, docs[r] # NoDoc, docs[r].text # None
        PROVE  <<r[2], docs[r].text>> \in Keys \X Texts
    BY <2>1, SharedNow DEF SharedOK, Recs, Doc
  <2> QED
    BY <2>1 DEF Stored
<1>4. f \in SUBSET (Keys \X (Texts \cup Vecs \cup OddVecs))
  <2>1. Embeddings(s.table) \subseteq Keys \X (Texts \cup Vecs \cup OddVecs)
    BY EmbeddingsType, SharedNow
  <2> HIDE DEF texts
  <2> QED
    BY <1>3, <2>1
<1>5. s.kind = "text" => f \subseteq Keys \X Texts
  BY <1>3
<1> HIDE DEF f
<1>6. m \in Local /\ m.fill = f
  BY <1>1, <1>4, FillLeft
<1> HIDE DEF m
<1> QED
  BY <1>1, <1>2, <1>5, <1>6, GotoType, LocalAt DEF FillOK, Labels

LEMMA BackfillType ==
  ASSUME TypeInv, NEW c \in Conns, Backfill(c)
  PROVE  TypeInv'
<1> DEFINE s == stmt[c]
           l == loc[c]
<1>1. /\ s \in Statement /\ s.op = "define" /\ l \in Local /\ FillOK(s, l)
      /\ s.table \in Tables /\ s.kind \in Kinds /\ Name(c) \in Names
  BY Known, LocalAt, StatementShape DEF Backfill, At
<1>2. PICK f \in l.fill :
        IF s.kind = "vector"
        THEN /\ heap' = Inserted(Name(c), f[1], f[2])
             /\ Goto(c, "backfill", [l EXCEPT !.fill = @ \ {f}])
             /\ UNCHANGED <<fts_open, fts, registry>>
        ELSE IF fts[s.table].handle
        THEN /\ fts' = [fts EXCEPT ![s.table].staged[f[1]] = <<>>]
             /\ Goto(c, "add_text", [l EXCEPT !.fill = @ \ {f}, !.cur = <<s.table, f[1]>>,
                                              !.doc = [text |-> f[2], vec |-> None]])
             /\ UNCHANGED <<fts_open, registry, heap>>
        ELSE Return(c, {}) /\ UNCHANGED services
  BY ZenonT(60) DEF Backfill
<1>3. l.fill \subseteq Keys \X (Texts \cup Vecs \cup OddVecs) /\ f[1] \in Keys /\ durable' = durable
  BY <1>1, LocalFields DEF Backfill
<1>4. CASE s.kind = "vector"
  <2> DEFINE m == [l EXCEPT !.fill = l.fill \ {f}]
  <2>1. /\ heap' = Inserted(Name(c), f[1], f[2])
        /\ Goto(c, "backfill", m)
        /\ UNCHANGED <<fts_open, fts, registry>>
    BY <1>2, <1>4
  <2>2. heap' \in [Slots -> VectorEntry]
    BY <1>1, <1>3, <2>1, InsertedType, SharedNow
  <2>3. SharedOK'
    BY <1>3, <2>1, <2>2, SharedNow DEF SharedOK, durable
  <2>4. m \in Local
    BY <1>1, <1>3, FillLeft
  <2> HIDE DEF m
  <2> QED
    BY <1>1, <1>4, <2>1, <2>3, <2>4, GotoType, LocalAt DEF FillOK, Labels
<1>5. CASE s.kind # "vector" /\ fts[s.table].handle
  <2> DEFINE m == [l EXCEPT !.fill = l.fill \ {f}, !.cur = <<s.table, f[1]>>,
                            !.doc = [text |-> f[2], vec |-> None]]
  <2>1. /\ fts' = [fts EXCEPT ![s.table].staged[f[1]] = <<>>]
        /\ Goto(c, "add_text", m)
        /\ UNCHANGED <<fts_open, registry, heap>>
    BY <1>2, <1>5
  <2>2. s.kind = "text" /\ f[2] \in Texts /\ l.fill \subseteq Keys \X Texts
    BY <1>1, <1>5 DEF Kinds, FillOK
  <2>3. [text |-> f[2], vec |-> None] \in Doc /\ f[2] # None /\ <<s.table, f[1]>> \in Recs
    BY <1>1, <1>3, <2>2, ConstantsAssumption DEF Doc, Recs
  <2>4. /\ m \in Local /\ m.cur = <<s.table, f[1]>> /\ m.fill = l.fill \ {f}
        /\ m.doc = [text |-> f[2], vec |-> None]
    BY <1>1, <1>3, <2>3 DEF Local
  <2>5. fts' \in [Tables -> TextIndex]
    BY ZenonT(60), <1>1, <1>3, <2>1, EmptySeq, StagedType, SharedNow DEF SharedOK
  <2>6. SharedOK'
    BY <1>3, <2>1, <2>5, SharedNow DEF SharedOK, durable
  <2> HIDE DEF m
  <2>7. LocalOK("add_text", s, m)
    BY <1>1, <2>2, <2>3, <2>4, LocalAt DEF FillOK
  <2> QED
    BY <2>1, <2>4, <2>6, <2>7, GotoType DEF Labels
<1>6. CASE s.kind # "vector" /\ ~fts[s.table].handle
  <2>1. Return(c, {}) /\ SharedOK'
    BY <1>2, <1>3, <1>6, SharedKept
  <2> QED
    BY <2>1, ReturnType
<1> QED
  BY <1>4, <1>5, <1>6

LEMMA BackfillDoneType ==
  ASSUME TypeInv, NEW c \in Conns, BackfillDone(c)
  PROVE  TypeInv'
<1> DEFINE m == [loc[c] EXCEPT !.done = Stored(stmt[c].table)]
<1>1. stmt[c] \in Statement /\ stmt[c].op = "define" /\ loc[c] \in Local
  BY Known, LocalAt DEF BackfillDone, At
<1>2. SharedOK' /\ (Goto(c, "commit", m) \/ Goto(c, "set_loaded", m))
  BY SharedKept DEF BackfillDone
<1>3. m \in Local
  BY <1>1 DEF Local, Stored
<1> HIDE DEF m
<1> QED
  BY <1>1, <1>2, <1>3, GotoType, LocalAt DEF Defining, Labels

LEMMA SetLoadedType ==
  ASSUME TypeInv, NEW c \in Conns, SetLoaded(c)
  PROVE  TypeInv'
<1>1. registry[Name(c)] \in Slots \cup {NoSlot}
  BY Known, SharedNow DEF SetLoaded, At, SharedOK
<1>2. heap' \in [Slots -> VectorEntry]
  BY <1>1, SharedNow DEF SetLoaded, SharedOK, VectorEntry
<1>3. SharedOK' /\ Ok(c)
  BY <1>2, SharedNow DEF SetLoaded, SharedOK, durable
<1> QED
  BY <1>3, OkType

LEMMA RemoveWriteType ==
  ASSUME TypeInv, NEW c \in Conns, RemoveWrite(c)
  PROVE  TypeInv'
<1>1. /\ stmt[c] \in Statement /\ stmt[c].op = "remove" /\ loc[c] \in Local
      /\ stmt[c].table \in Tables
  BY Known, LocalAt, StatementShape DEF RemoveWrite, At, Removing
<1>2. SharedOK'
  BY <1>1, SharedNow DEF RemoveWrite, SharedOK, services
<1>3. Ok(c) \/ Goto(c, "drop_text", loc[c]) \/ Goto(c, "drop_vector", loc[c])
  BY DEF RemoveWrite
<1> QED
  BY <1>1, <1>2, <1>3, OkType, GotoType, LocalAt DEF Removing, Labels

LEMMA DropType ==
  ASSUME TypeInv, NEW c \in Conns, DropVector(c) \/ DropText(c) \/ UnmarkOpen(c)
  PROVE  TypeInv'
<1>1. /\ stmt[c] \in Statement /\ stmt[c].op = "remove" /\ loc[c] \in Local
      /\ stmt[c].table \in Tables /\ Name(c) \in Names
  BY Known, LocalAt, StatementShape DEF DropVector, DropText, UnmarkOpen, At, Removing
<1>2. CASE DropVector(c)
  <2>1. SharedOK' /\ Ok(c)
    BY <1>1, <1>2, ReleasedType, SharedNow DEF DropVector, SharedOK, durable
  <2> QED
    BY <2>1, OkType
<1>3. CASE DropText(c)
  <2>1. fts' \in [Tables -> TextIndex]
    BY <1>1, <1>3, HeldType, SharedNow DEF DropText, SharedOK, TextIndex
  <2>2. SharedOK' /\ Goto(c, "unmark_open", loc[c])
    BY <1>3, <2>1, SharedNow DEF DropText, SharedOK, durable
  <2> QED
    BY <1>1, <2>2, GotoType, LocalAt DEF Removing, Labels
<1>4. CASE UnmarkOpen(c)
  <2>1. SharedOK' /\ Ok(c)
    BY <1>4, SharedNow DEF UnmarkOpen, SharedOK, durable
  <2> QED
    BY <2>1, OkType
<1> QED
  BY <1>2, <1>3, <1>4

-----------------------------------------------------------------------------
(* Searches *)

LEMMA FindType ==
  ASSUME TypeInv, NEW c \in Conns, Find(c)
  PROVE  TypeInv'
<1> DEFINE l == loc[c]
           kind == IF "text" \in l.todo THEN "text" ELSE "vector"
           m == [l EXCEPT !.todo = @ \ {kind}, !.ret = "find"]
<1>1. stmt[c] \in Statement /\ stmt[c].op = "search" /\ l \in Local
  BY Known, LocalAt DEF Find, At, Searching
<1>2. \/ Goto(c, "query_text", l) \/ Goto(c, "query_vector", l)
      \/ Goto(c, "ensure_text", m) \/ Goto(c, "ensure_vector", m)
      \/ Fail(c)
  BY DEF Find
<1>3. Fail(c) \/ SharedOK'
  BY SharedKept DEF Find
<1>4. m \in Local /\ m.ret = "find"
  BY ZenonT(60), <1>1 DEF Local, Labels
<1> HIDE DEF m
<1>5. LocalOK("ensure_text", stmt[c], m) /\ LocalOK("ensure_vector", stmt[c], m)
  BY <1>1, <1>4, LocalAt DEF OpeningOK, LoadingOK, Opening
<1>6. LocalOK("query_text", stmt[c], l) /\ LocalOK("query_vector", stmt[c], l)
  BY <1>1, LocalAt DEF Searching
<1> QED
  BY <1>1, <1>2, <1>3, <1>4, <1>5, <1>6, GotoType, FailType DEF Labels

LEMMA QueryType ==
  ASSUME TypeInv, NEW c \in Conns, QueryText(c) \/ QueryVector(c) \/ Resolve(c)
  PROVE  TypeInv'
<1>1. stmt[c] \in Statement /\ stmt[c].op = "search" /\ loc[c] \in Local
  BY Known, LocalAt DEF QueryText, QueryVector, Resolve, At, Searching
<1>2. ASSUME NEW hits \in SUBSET Keys, NEW label \in {"query_vector", "resolve"},
             Goto(c, label, [loc[c] EXCEPT !.hits = hits]), UNCHANGED <<durable, services>>
      PROVE  TypeInv'
  <2> DEFINE m == [loc[c] EXCEPT !.hits = hits]
  <2>1. m \in Local /\ Goto(c, label, m)
    BY <1>1, <1>2 DEF Local
  <2> HIDE DEF m
  <2>2. label \in Labels /\ LocalOK(label, stmt[c], m)
    BY SMTT(30), <1>1, LocalAt DEF Searching, Labels
  <2> QED
    BY <1>2, <2>1, <2>2, SharedKept, GotoType
<1>3. CASE QueryText(c)
  <2>1. {k \in Keys : \E j \in DOMAIN fts[stmt[c].table].disk[k] :
                        fts[stmt[c].table].disk[k][j] = stmt[c].text} \in SUBSET Keys
    OBVIOUS
  <2> QED
    BY <1>2, <1>3, <2>1, FailType DEF QueryText
<1>4. CASE QueryVector(c)
  <2> DEFINE e == registry[Name(c)]
             hits == loc[c].hits \cup {k \in Keys : heap[e].vecs[k] # None}
  <2>1. hits \in SUBSET Keys
    BY <1>1, LocalFields
  <2>2. \/ Fail(c)
        \/ Goto(c, "resolve", [loc[c] EXCEPT !.hits = hits]) /\ UNCHANGED <<durable, services>>
    BY <1>4 DEF QueryVector
  <2> HIDE DEF hits
  <2> QED
    BY <1>2, <2>1, <2>2, FailType
<1>5. CASE Resolve(c)
  BY <1>5, SharedKept, OkType DEF Resolve
<1> QED
  BY <1>3, <1>4, <1>5

-----------------------------------------------------------------------------
(* The invariant *)

LEMMA CrashType ==
  ASSUME TypeInv, Crash
  PROVE  TypeInv'
<1>1. fts' \in [Tables -> TextIndex]
  BY SharedNow DEF Crash, SharedOK, TextIndex
<1>2. SharedOK'
  BY <1>1, NewEntryType, SharedNow DEF Crash, SharedOK, durable
<1>3. TypeOK' /\ scenario' \in DOMAIN Scenario
  BY <1>2, FreshType DEF Crash, TypeInv, TypeOK, SharedOK, TextIndex, VectorEntry, Labels
<1>4. \A d \in Conns : LocalOK(pc'[d], stmt'[d], loc'[d])
  BY FreshType DEF Crash
<1> QED
  BY <1>3, <1>4 DEF TypeInv, LocalOK

LEMMA TypeInvInit == Init => TypeInv
<1> SUFFICES ASSUME Init PROVE TypeInv
  OBVIOUS
<1>1. fts \in [Tables -> TextIndex] /\ heap \in [Slots -> VectorEntry]
  BY HeldType, NewEntryType DEF Init, TextIndex
<1>2. TypeOK /\ scenario \in DOMAIN Scenario
  BY <1>1, FreshType, ConstantsAssumption DEF Init, TypeOK, TextIndex, VectorEntry, Labels
<1>3. \A d \in Conns : LocalOK(pc[d], stmt[d], loc[d])
  BY FreshType DEF Init
<1> QED
  BY <1>2, <1>3 DEF TypeInv

LEMMA TypeInvStep ==
  ASSUME TypeInv, NEW c \in Conns, Begin(c) \/ Step(c)
  PROVE  TypeInv'
BY BeginType, LoadType, ScanType, BatchWriteType, RowType, RowsDoneType, RereadType,
   MaintainType, EnsureTextType, OpenTextType, MarkOpenType, DeleteTextType, AddTextType,
   CommitType, EnsureVectorType, RebuildLockType, RebuildScanType, RebuildInsertType,
   RebuildDoneType, VectorStepType, DefineWriteType, RegisterType, BackfillScanType,
   BackfillType, BackfillDoneType, SetLoadedType, RemoveWriteType, DropType, FindType,
   QueryType DEF Step

LEMMA TypeInvNext == TypeInv /\ [Next]_vars => TypeInv'
<1> SUFFICES ASSUME TypeInv, [Next]_vars PROVE TypeInv'
  OBVIOUS
<1>1. CASE UNCHANGED vars
  BY <1>1 DEF vars, durable, services, TypeInv, TypeOK, LocalOK
<1> QED
  BY <1>1, CrashType, TypeInvStep DEF Next

LEMMA TypeInvAlways == Spec => []TypeInv
BY TypeInvInit, TypeInvNext, PTL DEF Spec

\* Type correctness of the stores, the search services and the locals of every
\* statement, whatever DDL, writes, rebuilds and crashes are interleaved: no step
\* meets a record, an entry or a text that is not there.
THEOREM TypeCorrect == Spec => []TypeOK
<1>1. TypeInv => TypeOK
  BY DEF TypeInv
<1> QED
  BY <1>1, TypeInvAlways, PTL
-----------------------------------------------------------------------------
(* The full-text index has what was answered *)

\* The points of maintain_search_indexes at which the full-text index of the
\* record at hand is done or still to come, and all of them.
Vectoring == Loading \cup {"maintain", "insert_vector", "vector_exists", "remove_vector"}
Maintaining == Vectoring \cup Opening \cup {"delete_text", "add_text"}

\* What the full-text index has to hold for a record, and what it holds.
Want(doc) == IF doc # NoDoc /\ doc.text # None THEN <<doc.text>> ELSE <<>>
Staged(f, r) == f[r[1]].staged[r[2]]
OnDisk(f, r) == f[r[1]].disk[r[2]]

\* A statement that writes: the records it has maintained are staged as they are
\* stored; the one at hand is stored as it was read, and is staged unless its
\* turn is still to come.
WriterOK(p, s, l, d, f, cat) ==
  /\ p # "load" => l.defs = cat[TableOf(s)]
  /\ p \in {"load", "scan", "batch_write"} => l.done = {}
  /\ l.rows \subseteq Targets(s)
  /\ l.done \subseteq Targets(s) \ l.rows
  /\ l.done # {} => l.touched
  /\ p # "load" /\ "text" \in l.defs => \A r \in l.done : Staged(f, r) = Want(d[r])
  /\ p \in Maintaining \cup {"reread"} => l.cur \in Targets(s) \ (l.rows \cup l.done)
  /\ p \in Maintaining => l.touched /\ l.doc = d[l.cur]
  /\ p \in Vectoring =>
       ("text" \in l.defs => "text" \in l.todo \/ Staged(f, l.cur) = Want(l.doc))
  /\ p = "add_text" => HasText(l) /\ Staged(f, l.cur) = <<>> /\ f[TableOf(s)].handle

ConnOK(p, s, l, d, f, cat) ==
  IF p = "idle" THEN l = Fresh
  ELSE IF s.op \in Writes THEN WriterOK(p, s, l, d, f, cat)
  ELSE l.done = {}

\* An acknowledged record is not being written, and is staged and committed as it
\* is stored.
AckedOK(r) ==
  /\ \A c \in Conns : pc[c] # "idle" => r \notin Targets(stmt[c])
  /\ "text" \in catalog[r[1]] =>
       Staged(fts, r) = Want(docs[r]) /\ OnDisk(fts, r) = Want(docs[r])

\* The inductive invariant.  A writer that was never opened has nothing staged, so
\* that opening it loses nothing.
TextInv ==
  /\ \A c \in Conns : pc[c] # "idle" => stmt[c] \in Scenario[scenario].menu[c]
  /\ \A c \in Conns : ConnOK(pc[c], stmt[c], loc[c], docs, fts, catalog)
  /\ \A t \in Tables : ~fts[t].handle => fts[t].staged = fts[t].disk
  /\ \A r \in acked : AckedOK(r)

\* What a step of c leaves alone: the records that are not its own.
Calm(c) ==
  /\ catalog' = catalog /\ scenario' = scenario
  /\ \A r \in Recs \ Targets(stmt[c]) :
       docs'[r] = docs[r] /\ Staged(fts', r) = Staged(fts, r)
  /\ \A t \in Tables : fts[t].handle => fts'[t].handle
  /\ \A t \in Tables : ~fts'[t].handle => fts'[t].staged = fts'[t].disk
  /\ \A r \in Recs : OnDisk(fts', r) = OnDisk(fts, r) \/ OnDisk(fts', r) = Staged(fts', r)

\* Two statements under way have no record in common, and none is DDL.
LEMMA Apart ==
  ASSUME TypeInv, TextInv, OwnRecords, NEW c \in Conns, pc[c] # "idle"
  PROVE  /\ stmt[c] \in Statement /\ stmt[c].op \in Writes \cup {"search"}
         /\ Targets(stmt[c]) \subseteq Recs
         /\ stmt[c].op = "search" => Targets(stmt[c]) = {}
         /\ \A d \in Conns \ {c} :
              pc[d] # "idle" => Targets(stmt[c]) \cap Targets(stmt[d]) = {}
<1>1. stmt[c] \in Statement /\ stmt[c] \in Scenario[scenario].menu[c]
  BY Known DEF TextInv
<1>2. stmt[c].op \in Writes \cup {"search"}
  BY <1>1, StatementShape DEF OwnRecords
<1>3. Targets(stmt[c]) \subseteq Recs
  BY <1>1, TargetsType
<1>4. stmt[c].op = "search" => Targets(stmt[c]) = {}
  BY DEF Targets
<1>5. ASSUME NEW d \in Conns \ {c}, pc[d] # "idle"
      PROVE  Targets(stmt[c]) \cap Targets(stmt[d]) = {}
  BY <1>1, <1>5 DEF TextInv, OwnRecords
<1> QED
  BY <1>1, <1>2, <1>3, <1>4, <1>5

LEMMA OthersText ==
  ASSUME TypeInv, TextInv, OwnRecords, NEW c \in Conns, NEW d \in Conns, d # c,
         pc[c] # "idle", Calm(c)
  PROVE  ConnOK(pc[d], stmt[d], loc[d], docs', fts', catalog')
<1>1. CASE pc[d] = "idle" \/ stmt[d].op \notin Writes
  BY <1>1 DEF TextInv, ConnOK
<1>2. CASE pc[d] # "idle" /\ stmt[d].op \in Writes
  <2>1. /\ stmt[d] \in Statement /\ TableOf(stmt[d]) \in Tables
        /\ Targets(stmt[d]) \subseteq Recs \ Targets(stmt[c])
    BY <1>2, Apart, TargetsType
  <2>2. WriterOK(pc[d], stmt[d], loc[d], docs, fts, catalog)
    BY <1>2 DEF TextInv, ConnOK
  <2>3. \A r \in Targets(stmt[d]) : docs'[r] = docs[r] /\ Staged(fts', r) = Staged(fts, r)
    BY <2>1 DEF Calm
  <2>4. fts[TableOf(stmt[d])].handle => fts'[TableOf(stmt[d])].handle
    BY <2>1 DEF Calm
  <2>5. catalog' = catalog
    BY DEF Calm
  <2>6. WriterOK(pc[d], stmt[d], loc[d], docs', fts', catalog')
    BY <2>2, <2>3, <2>4, <2>5 DEF WriterOK, Maintaining
  <2> QED
    BY <1>2, <2>6 DEF ConnOK
<1> QED
  BY <1>1, <1>2

\* An acknowledged record stays so while c works on others.
LEMMA AckedKept ==
  ASSUME TypeInv, TextInv, NEW c \in Conns, pc[c] # "idle", Calm(c), NEW r \in acked
  PROVE  "text" \in catalog'[r[1]] =>
           Staged(fts', r) = Want(docs'[r]) /\ OnDisk(fts', r) = Want(docs'[r])
<1>1. r \in Recs /\ r \notin Targets(stmt[c])
  BY DEF TypeInv, TypeOK, TextInv, AckedOK
<1>2. AckedOK(r)
  BY DEF TextInv
<1> QED
  BY <1>1, <1>2 DEF AckedOK, Calm

LEMMA GotoText ==
  ASSUME TypeInv, TextInv, OwnRecords, NEW c \in Conns, pc[c] # "idle",
         NEW label \in Labels \ {"idle"}, NEW l, Goto(c, label, l), Calm(c),
         ConnOK(label, stmt[c], l, docs', fts', catalog')
  PROVE  TextInv'
<1>1. \A d \in Conns : /\ pc'[d] = (IF d = c THEN label ELSE pc[d])
                       /\ loc'[d] = (IF d = c THEN l ELSE loc[d])
  BY DEF TypeInv, TypeOK, Goto
<1>2. stmt' = stmt /\ acked' = acked /\ scenario' = scenario
  BY DEF Goto
<1>3. \A d \in Conns : pc'[d] # "idle" => stmt'[d] \in Scenario[scenario'].menu[d]
  BY <1>1, <1>2 DEF TextInv
<1>4. \A d \in Conns : ConnOK(pc'[d], stmt'[d], loc'[d], docs', fts', catalog')
  BY <1>1, <1>2, OthersText
<1>5. \A t \in Tables : ~fts'[t].handle => fts'[t].staged = fts'[t].disk
  BY DEF Calm
<1>6. ASSUME NEW r \in acked' PROVE AckedOK(r)'
  <2>1. \A d \in Conns : pc'[d] # "idle" => r \notin Targets(stmt'[d])
    BY <1>1, <1>2 DEF TextInv, AckedOK
  <2> QED
    BY <1>2, <2>1, AckedKept DEF AckedOK
<1> QED
  BY <1>3, <1>4, <1>5, <1>6 DEF TextInv

\* A statement is answered: what it maintained has to be committed.
LEMMA ReturnText ==
  ASSUME TypeInv, TextInv, OwnRecords, NEW c \in Conns, pc[c] # "idle",
         NEW records \in SUBSET Targets(stmt[c]), Return(c, records), Calm(c),
         \A r \in records : "text" \in catalog[r[1]] =>
           Staged(fts', r) = Want(docs'[r]) /\ OnDisk(fts', r) = Want(docs'[r])
  PROVE  TextInv'
<1>1. \A d \in Conns : /\ pc'[d] = (IF d = c THEN "idle" ELSE pc[d])
                       /\ stmt'[d] = (IF d = c THEN NoStmt ELSE stmt[d])
                       /\ loc'[d] = (IF d = c THEN Fresh ELSE loc[d])
  BY DEF TypeInv, TypeOK, Return
<1>2. acked' = acked \cup records /\ scenario' = scenario /\ catalog' = catalog
  BY DEF Return, Calm
<1>3. \A d \in Conns : pc'[d] # "idle" => stmt'[d] \in Scenario[scenario'].menu[d]
  BY <1>1, <1>2 DEF TextInv
<1>4. \A d \in Conns : ConnOK(pc'[d], stmt'[d], loc'[d], docs', fts', catalog')
  <2>1. \A s : ConnOK("idle", s, Fresh, docs', fts', catalog')
    BY DEF ConnOK
  <2> QED
    BY <1>1, <2>1, OthersText
<1>5. \A t \in Tables : ~fts'[t].handle => fts'[t].staged = fts'[t].disk
  BY DEF Calm
<1>6. ASSUME NEW r \in acked' PROVE AckedOK(r)'
  <2>1. CASE r \in acked
    <3>1. \A d \in Conns : pc'[d] # "idle" => r \notin Targets(stmt'[d])
      BY <1>1, <2>1 DEF TextInv, AckedOK
    <3> QED
      BY <2>1, <3>1, AckedKept DEF AckedOK
  <2>2. CASE r \in records
    <3>1. \A d \in Conns : pc'[d] # "idle" => r \notin Targets(stmt'[d])
      BY <1>1, <2>2, Apart
    <3> QED
      BY <1>2, <2>2, <3>1 DEF AckedOK
  <2> QED
    BY <1>2, <2>1, <2>2
<1> QED
  BY <1>3, <1>4, <1>5, <1>6 DEF TextInv

LEMMA CalmKept ==
  ASSUME TextInv, NEW c, UNCHANGED <<durable, scenario, fts>>
  PROVE  Calm(c)
BY DEF TextInv, Calm, durable

LEMMA FailText ==
  ASSUME TypeInv, TextInv, OwnRecords, NEW c \in Conns, pc[c] # "idle", Fail(c)
  PROVE  TextInv'
<1>1. Return(c, {}) /\ Calm(c)
  BY CalmKept DEF Fail, Return, services
<1> QED
  BY <1>1, ReturnText

\* A write that has only changed stored records of its own.
LEMMA CalmWrite ==
  ASSUME TextInv, NEW c, UNCHANGED <<catalog, scenario, fts>>,
         \A r \in Recs \ Targets(stmt[c]) : docs'[r] = docs[r]
  PROVE  Calm(c)
BY DEF TextInv, Calm

LEMMA BeginText ==
  ASSUME TypeInv, TextInv, OwnRecords, NEW c \in Conns, Begin(c)
  PROVE  TextInv'
<1>1. PICK s \in Scenario[scenario].menu[c] :
        /\ stmt' = [stmt EXCEPT ![c] = s]
        /\ pc' = [pc EXCEPT ![c] = CASE s.op = "define" -> "define_write"
                                     [] s.op = "search" -> "find"
                                     [] OTHER -> "load"]
        /\ loc' = [loc EXCEPT ![c].todo = IF s.op = "search" THEN s.kinds ELSE {}]
        /\ acked' = acked \ Targets(s)
  BY DEF Begin
<1>2. pc[c] = "idle" /\ UNCHANGED <<docs, catalog, fts, scenario>>
  BY DEF Begin, At, durable, services
<1> DEFINE label == IF s.op = "search" THEN "find" ELSE "load"
           l == [loc[c] EXCEPT !.todo = IF s.op = "search" THEN s.kinds ELSE {}]
<1>3. s \in Statement /\ s.op \in Writes \cup {"search"}
  BY ConstantsAssumption, StatementShape DEF TypeInv, OwnRecords
<1>4. \A d \in Conns : /\ pc'[d] = (IF d = c THEN label ELSE pc[d])
                       /\ stmt'[d] = (IF d = c THEN s ELSE stmt[d])
                       /\ loc'[d] = (IF d = c THEN l ELSE loc[d])
  <2>1. s.op # "define"
    BY <1>3 DEF Writes
  <2> QED
    BY <1>1, <2>1 DEF TypeInv, TypeOK
<1>5. ConnOK(label, s, l, docs, fts, catalog)
  <2>1. loc[c] = Fresh
    BY <1>2 DEF TextInv, ConnOK
  <2>2. l.done = {} /\ l.rows = {} /\ label \in {"load", "find"}
    BY <2>1 DEF Fresh
  <2>3. s.op \in Writes => label = "load"
    BY DEF Writes
  <2> HIDE DEF l, label
  <2> QED
    BY <2>2, <2>3 DEF ConnOK, WriterOK, Maintaining, Vectoring, Opening, Loading, Rebuilding
<1> HIDE DEF l
<1>6. \A d \in Conns : pc'[d] # "idle" => stmt'[d] \in Scenario[scenario'].menu[d]
  BY <1>2, <1>4 DEF TextInv
<1>7. \A d \in Conns : ConnOK(pc'[d], stmt'[d], loc'[d], docs', fts', catalog')
  BY <1>2, <1>4, <1>5 DEF TextInv
<1>8. ASSUME NEW r \in acked' PROVE AckedOK(r)'
  <2>1. r \in acked /\ r \notin Targets(s)
    BY <1>1
  <2> QED
    BY <1>2, <1>4, <2>1 DEF TextInv, AckedOK
<1>9. \A t \in Tables : ~fts'[t].handle => fts'[t].staged = fts'[t].disk
  BY <1>2 DEF TextInv
<1> QED
  BY <1>6, <1>7, <1>8, <1>9 DEF TextInv
\* What a writing connection knows.
LEMMA Writing ==
  ASSUME TypeInv, TextInv, OwnRecords, NEW c \in Conns, pc[c] # "idle", stmt[c].op \in Writes
  PROVE  /\ stmt[c] \in Statement /\ loc[c] \in Local
         /\ LocalOK(pc[c], stmt[c], loc[c])
         /\ WriterOK(pc[c], stmt[c], loc[c], docs, fts, catalog)
         /\ TableOf(stmt[c]) \in Tables
         /\ Targets(stmt[c]) \subseteq Recs
         /\ \A r \in Targets(stmt[c]) : r[1] = TableOf(stmt[c])
BY Known, Apart, TargetsType DEF TextInv, ConnOK

\* Before the first record.
LEMMA LoadText ==
  ASSUME TypeInv, TextInv, OwnRecords, NEW c \in Conns, Load(c) \/ Scan(c)
  PROVE  TextInv'
<1> DEFINE s == stmt[c]
<1>1. pc[c] \in {"load", "scan"} /\ UNCHANGED <<docs, catalog, fts, scenario>> /\ Calm(c)
  BY CalmKept DEF Load, Scan, At, Goto, durable, services
<1>2. s.op \in Writes
  BY <1>1, Apart, Known, LocalAt DEF Writes
<1>3. /\ s \in Statement /\ loc[c] \in Local /\ loc[c].done = {}
      /\ pc[c] = "scan" => loc[c].defs = catalog[TableOf(s)] /\ s.op \in {"update_all", "delete_all"}
  BY <1>1, <1>2, Writing, LocalAt DEF WriterOK
<1>4. ASSUME NEW label \in {"scan", "batch_write", "row"}, NEW m,
             m.done = {}, m.rows \subseteq Targets(s), m.defs = catalog[TableOf(s)],
             Goto(c, label, m)
      PROVE  TextInv'
  <2>1. ConnOK(label, s, m, docs', fts', catalog')
    BY <1>1, <1>2, <1>4
       DEF ConnOK, WriterOK, Maintaining, Vectoring, Opening, Loading, Rebuilding
  <2> QED
    BY <1>1, <1>4, <2>1, GotoText DEF Labels
<1>5. CASE Load(c)
  <2> DEFINE m == [loc[c] EXCEPT !.defs = catalog[TableOf(s)],
                                 !.rows = IF "rec" \in DOMAIN s THEN {s.rec} ELSE {}]
             label == CASE s.op \in {"update_all", "delete_all"} -> "scan"
                        [] s.op = "batch" -> "batch_write"
                        [] s.op = "remove" -> "remove_write"
                        [] OTHER -> "row"
  <2>1. Goto(c, label, m)
    BY <1>5 DEF Load
  <2>2. label \in {"scan", "batch_write", "row"}
    BY <1>2 DEF Writes
  <2>3. "rec" \in DOMAIN s => Targets(s) = {s.rec}
    BY <1>3, StatementShape, TargetsType
  <2>4. m.done = {} /\ m.rows \subseteq Targets(s) /\ m.defs = catalog[TableOf(s)]
    BY <1>3, <2>3 DEF Local
  <2> HIDE DEF m, label
  <2> QED
    BY <1>4, <2>1, <2>2, <2>4
<1>6. CASE Scan(c)
  <2> DEFINE m == [loc[c] EXCEPT !.rows = Stored(s.table)]
  <2>1. Goto(c, "row", m) /\ pc[c] = "scan"
    BY <1>6 DEF Scan, At
  <2>2. Stored(s.table) \subseteq Targets(s)
    BY <1>3, <2>1 DEF Stored, Targets
  <2>3. m.done = {} /\ m.rows \subseteq Targets(s) /\ m.defs = catalog[TableOf(s)]
    BY <1>3, <2>1, <2>2 DEF Local
  <2> HIDE DEF m
  <2> QED
    BY <1>4, <2>1, <2>3
<1> QED
  BY <1>5, <1>6

LEMMA BatchWriteText ==
  ASSUME TypeInv, TextInv, OwnRecords, NEW c \in Conns, BatchWrite(c)
  PROVE  TextInv'
<1> DEFINE s == stmt[c]
           l == loc[c]
           m == [l EXCEPT !.rows = IF l.defs # {} THEN Targets(s) ELSE {},
                          !.touched = l.defs # {}]
<1>1. pc[c] = "batch_write" /\ Goto(c, "row", m) /\ UNCHANGED <<catalog, fts, scenario>>
  BY DEF BatchWrite, At, Goto, services
<1>2. s.op \in Writes
  BY <1>1, Known, LocalAt DEF Writes
<1>3. l \in Local /\ l.done = {} /\ l.defs = catalog[TableOf(s)]
  BY <1>1, <1>2, Writing DEF WriterOK
<1>4. m.done = {} /\ m.rows \subseteq Targets(s) /\ m.defs = catalog[TableOf(s)]
  BY <1>3 DEF Local
<1> HIDE DEF m
<1>5. Calm(c)
  <2>1. \A r \in Recs \ Targets(s) : docs'[r] = docs[r]
    BY DEF BatchWrite
  <2> QED
    BY <1>1, <2>1, CalmWrite
<1>6. ConnOK("row", s, m, docs', fts', catalog')
  BY <1>1, <1>2, <1>4
     DEF ConnOK, WriterOK, Maintaining, Vectoring, Opening, Loading, Rebuilding
<1> QED
  BY <1>1, <1>5, <1>6, GotoText DEF Labels

\* Going on to the next record, with or without writing it.
LEMMA RowText ==
  ASSUME TypeInv, TextInv, OwnRecords, NEW c \in Conns, Row(c)
  PROVE  TextInv'
<1> DEFINE s == stmt[c]
           l == loc[c]
<1>1. pc[c] = "row"
  BY DEF Row, At
<1>2. s.op \in Writes
  BY <1>1, Known, LocalAt
<1>3. /\ l \in Local /\ s \in Statement /\ Targets(s) \subseteq Recs
      /\ l.defs = catalog[TableOf(s)] /\ l.rows \subseteq Targets(s)
      /\ l.done \subseteq Targets(s) \ l.rows
      /\ l.done # {} => l.touched
      /\ "text" \in l.defs => \A q \in l.done : Staged(fts, q) = Want(docs[q])
  BY SMTT(30), <1>1, <1>2, Writing DEF WriterOK
<1>4. PICK r \in l.rows :
        LET next == [l EXCEPT !.rows = @ \ {r}, !.cur = r] IN
        \/ /\ docs' = [docs EXCEPT ![r] = s.doc]
           /\ Goto(c, "reread", next)
           /\ UNCHANGED <<catalog, services>>
        \/ /\ docs' = [docs EXCEPT ![r] = NoDoc]
           /\ Goto(c, "maintain", [next EXCEPT !.doc = NoDoc, !.touched = TRUE,
                                               !.todo = l.defs])
           /\ UNCHANGED <<catalog, services>>
        \/ /\ Goto(c, "reread", next) \/ Goto(c, "row", next)
           /\ UNCHANGED <<durable, services>>
        \/ Fail(c)
  BY DEF Row
<1> DEFINE next == [l EXCEPT !.rows = @ \ {r}, !.cur = r]
           gone == [next EXCEPT !.doc = NoDoc, !.touched = TRUE, !.todo = l.defs]
<1>5. /\ next.cur = r /\ next.rows = l.rows \ {r} /\ next.done = l.done
      /\ next.defs = l.defs /\ next.touched = l.touched
      /\ gone.cur = r /\ gone.rows = l.rows \ {r} /\ gone.done = l.done
      /\ gone.defs = l.defs /\ gone.touched = TRUE /\ gone.doc = NoDoc /\ gone.todo = l.defs
  BY <1>3 DEF Local
<1>6. r \in Targets(s) /\ r \notin l.done /\ r \in Recs
  BY <1>3
<1> HIDE DEF next, gone
<1>7. ASSUME UNCHANGED <<catalog, fts>>, \A q \in l.done : docs'[q] = docs[q]
      PROVE  /\ WriterOK("reread", s, next, docs', fts', catalog')
             /\ WriterOK("row", s, next, docs', fts', catalog')
             /\ docs'[r] = NoDoc => WriterOK("maintain", s, gone, docs', fts', catalog')
  <2>1. "reread" \notin Maintaining /\ "row" \notin Maintaining /\ "reread" \notin Vectoring
        /\ "row" \notin Vectoring
    BY DEF Maintaining, Vectoring, Opening, Loading, Rebuilding
  <2> QED
    BY <1>3, <1>5, <1>6, <1>7, <2>1 DEF WriterOK
<1>8. ASSUME NEW doc, docs' = [docs EXCEPT ![r] = doc], UNCHANGED <<catalog, services>>,
             scenario' = scenario
      PROVE  /\ Calm(c) /\ docs'[r] = doc /\ UNCHANGED <<catalog, fts>>
             /\ \A q \in l.done : docs'[q] = docs[q]
  <2>1. \A q \in Recs : docs'[q] = IF q = r THEN doc ELSE docs[q]
    BY <1>8 DEF TypeInv, TypeOK
  <2>2. \A q \in Recs \ Targets(s) : docs'[q] = docs[q]
    BY <1>6, <2>1
  <2>3. UNCHANGED <<catalog, fts>>
    BY <1>8 DEF services
  <2> QED
    BY <1>3, <1>6, <1>8, <2>1, <2>2, <2>3, CalmWrite
<1>9. CASE /\ docs' = [docs EXCEPT ![r] = s.doc]
           /\ Goto(c, "reread", next)
           /\ UNCHANGED <<catalog, services>>
  <2>1. Calm(c) /\ UNCHANGED <<catalog, fts>> /\ \A q \in l.done : docs'[q] = docs[q]
    BY <1>8, <1>9 DEF Goto
  <2>2. ConnOK("reread", s, next, docs', fts', catalog')
    BY <1>2, <1>7, <2>1 DEF ConnOK
  <2> QED
    BY <1>1, <1>9, <2>1, <2>2, GotoText DEF Labels
<1>10. CASE /\ docs' = [docs EXCEPT ![r] = NoDoc]
            /\ Goto(c, "maintain", gone)
            /\ UNCHANGED <<catalog, services>>
  <2>1. Calm(c) /\ UNCHANGED <<catalog, fts>> /\ docs'[r] = NoDoc
        /\ \A q \in l.done : docs'[q] = docs[q]
    BY <1>8, <1>10 DEF Goto
  <2>2. ConnOK("maintain", s, gone, docs', fts', catalog')
    BY <1>2, <1>7, <2>1 DEF ConnOK
  <2> QED
    BY <1>1, <1>10, <2>1, <2>2, GotoText DEF Labels
<1>11. CASE /\ Goto(c, "reread", next) \/ Goto(c, "row", next)
            /\ UNCHANGED <<durable, services>>
  <2>1. Calm(c) /\ UNCHANGED <<docs, catalog, fts>>
    BY <1>11, CalmKept DEF Goto, durable, services
  <2>2. /\ ConnOK("reread", s, next, docs', fts', catalog')
        /\ ConnOK("row", s, next, docs', fts', catalog')
    BY <1>2, <1>7, <2>1 DEF ConnOK
  <2> QED
    BY <1>1, <1>11, <2>1, <2>2, GotoText DEF Labels
<1>12. CASE Fail(c)
  BY <1>1, <1>12, FailText
<1> QED
  BY <1>4, <1>9, <1>10, <1>11, <1>12 DEF next, gone

LEMMA RowsDoneText ==
  ASSUME TypeInv, TextInv, OwnRecords, NEW c \in Conns, RowsDone(c)
  PROVE  TextInv'
<1> DEFINE s == stmt[c]
           l == loc[c]
<1>1. pc[c] = "row" /\ UNCHANGED <<durable, services>>
  BY DEF RowsDone, At
<1>2. s.op \in Writes
  BY <1>1, Known, LocalAt
<1>3. WriterOK("row", s, l, docs, fts, catalog)
  BY <1>1, <1>2, Writing
<1>4. UNCHANGED <<docs, catalog, fts>>
  BY <1>1 DEF durable, services
<1>5. CASE l.touched
  <2>1. Goto(c, "commit", l) /\ Calm(c)
    BY <1>1, <1>4, <1>5, CalmKept DEF RowsDone, Goto
  <2>2. ConnOK("commit", s, l, docs', fts', catalog')
    BY <1>2, <1>3, <1>4
       DEF ConnOK, WriterOK, Maintaining, Vectoring, Opening, Loading, Rebuilding
  <2> QED
    BY <1>1, <2>1, <2>2, GotoText DEF Labels
<1>6. CASE ~l.touched
  <2>1. l.done = {}
    BY <1>3, <1>6 DEF WriterOK
  <2>2. Return(c, {}) /\ Calm(c)
    BY <1>1, <1>4, <1>6, <2>1, CalmKept DEF RowsDone, Ok, Return
  <2> QED
    BY <1>1, <2>2, ReturnText
<1> QED
  BY <1>5, <1>6

LEMMA RereadText ==
  ASSUME TypeInv, TextInv, OwnRecords, NEW c \in Conns, Reread(c)
  PROVE  TextInv'
<1> DEFINE s == stmt[c]
           l == loc[c]
           found == docs[l.cur] # NoDoc
           m == [l EXCEPT !.doc = docs[l.cur],
                          !.todo = IF found THEN l.defs ELSE {},
                          !.touched = l.touched \/ found \/ s.op = "update_all"]
<1>1. /\ pc[c] = "reread" /\ Goto(c, IF found THEN "maintain" ELSE "row", m)
      /\ UNCHANGED <<docs, catalog, fts>> /\ Calm(c)
  BY CalmKept DEF Reread, At, Goto, durable, services
<1>2. s.op \in Writes
  BY <1>1, Known, LocalAt DEF Applying
<1>3. WriterOK("reread", s, l, docs, fts, catalog) /\ l \in Local
  BY <1>1, <1>2, Writing
<1>4. /\ m.doc = docs[l.cur] /\ m.cur = l.cur /\ m.rows = l.rows /\ m.done = l.done
      /\ m.defs = l.defs
      /\ found => m.todo = l.defs /\ m.touched
      /\ l.touched => m.touched
  BY <1>3 DEF Local
<1> HIDE DEF m, found
<1>5. found => WriterOK("maintain", s, m, docs', fts', catalog')
  BY <1>1, <1>3, <1>4 DEF WriterOK
<1>6. WriterOK("row", s, m, docs', fts', catalog')
  BY <1>1, <1>3, <1>4 DEF WriterOK, Maintaining, Vectoring, Opening, Loading, Rebuilding
<1> QED
  BY <1>1, <1>2, <1>5, <1>6, GotoText DEF ConnOK, Labels

\* From one point of maintain_search_indexes to another, with the same record at
\* hand and the same records done.
LEMMA MoveText ==
  ASSUME NEW p \in Maintaining, NEW q \in Maintaining, NEW s, NEW l, NEW m,
         NEW d, NEW f, NEW g, NEW cat,
         WriterOK(p, s, l, d, f, cat),
         m.defs = l.defs, m.rows = l.rows, m.done = l.done, m.touched = l.touched,
         m.cur = l.cur, m.doc = l.doc,
         \A r \in l.done : Staged(g, r) = Staged(f, r),
         q \in Vectoring =>
           ("text" \in m.defs => "text" \in m.todo \/ Staged(g, m.cur) = Want(m.doc)),
         q = "add_text" => HasText(m) /\ Staged(g, m.cur) = <<>> /\ g[TableOf(s)].handle
  PROVE  WriterOK(q, s, m, d, g, cat)
<1>1. p # "load" /\ q \notin {"load", "scan", "batch_write"}
  BY DEF Maintaining, Vectoring, Opening, Loading, Rebuilding
<1>2. /\ l.defs = cat[TableOf(s)] /\ l.rows \subseteq Targets(s)
      /\ l.done \subseteq Targets(s) \ l.rows
      /\ "text" \in l.defs => \A r \in l.done : Staged(f, r) = Want(d[r])
      /\ l.cur \in Targets(s) \ (l.rows \cup l.done)
      /\ l.touched /\ l.doc = d[l.cur]
  BY <1>1 DEF WriterOK
<1>3. "text" \in m.defs => \A r \in m.done : Staged(g, r) = Want(d[r])
  BY <1>2
<1> QED
  BY <1>1, <1>2, <1>3 DEF WriterOK

LEMMA MaintainText ==
  ASSUME TypeInv, TextInv, OwnRecords, NEW c \in Conns, Maintain(c)
  PROVE  TextInv'
<1> DEFINE s == stmt[c]
           l == loc[c]
           m1 == [l EXCEPT !.done = @ \cup {l.cur}]
           m2 == [l EXCEPT !.todo = @ \ {"text"}, !.ret = "delete_text"]
           m3 == [l EXCEPT !.todo = @ \ {"vector"}, !.ret = "insert_vector"]
<1>1. /\ pc[c] = "maintain" /\ UNCHANGED <<docs, catalog, fts, scenario>> /\ Calm(c)
      /\ \/ l.todo = {} /\ Goto(c, "row", m1)
         \/ Goto(c, "ensure_text", m2)
         \/ \E q \in {"ensure_vector", "vector_exists"} : Goto(c, q, m3)
  BY CalmKept DEF Maintain, At, Goto, durable, services
<1>2. s.op \in Writes
  BY <1>1, Known, LocalAt DEF Applying
<1>3. WriterOK("maintain", s, l, docs, fts, catalog) /\ l \in Local
  BY <1>1, <1>2, Writing
<1>4. /\ m1.defs = l.defs /\ m1.rows = l.rows /\ m1.done = l.done \cup {l.cur}
      /\ m1.touched = l.touched
      /\ m2.defs = l.defs /\ m2.rows = l.rows /\ m2.done = l.done /\ m2.touched = l.touched
      /\ m2.cur = l.cur /\ m2.doc = l.doc
      /\ m3.defs = l.defs /\ m3.rows = l.rows /\ m3.done = l.done /\ m3.touched = l.touched
      /\ m3.cur = l.cur /\ m3.doc = l.doc /\ m3.todo = l.todo \ {"vector"}
  BY <1>3 DEF Local
<1> HIDE DEF m1, m2, m3
<1>5. "maintain" \in Vectoring /\ "maintain" \in Maintaining
  BY DEF Maintaining, Vectoring
<1>6. CASE l.todo = {} /\ Goto(c, "row", m1)
  <2>1. "text" \in l.defs => Staged(fts, l.cur) = Want(docs[l.cur])
    BY <1>3, <1>5, <1>6 DEF WriterOK
  <2>2. WriterOK("row", s, m1, docs, fts, catalog)
    <3>1. "row" \notin Maintaining \cup {"reread"} /\ "row" \notin Vectoring
      BY DEF Maintaining, Vectoring, Opening, Loading, Rebuilding
    <3> QED
      BY <1>3, <1>4, <1>5, <2>1, <3>1 DEF WriterOK
  <2>3. ConnOK("row", s, m1, docs', fts', catalog')
    BY <1>1, <1>2, <2>2 DEF ConnOK
  <2> QED
    BY <1>1, <1>6, <2>3, GotoText DEF Labels
<1>7. CASE Goto(c, "ensure_text", m2)
  <2>1. "ensure_text" \in Maintaining \ Vectoring
    BY DEF Maintaining, Vectoring, Opening, Loading, Rebuilding
  <2>2. WriterOK("ensure_text", s, m2, docs, fts, catalog)
    BY <1>3, <1>4, <1>5, <2>1, MoveText
  <2>3. ConnOK("ensure_text", s, m2, docs', fts', catalog')
    BY <1>1, <1>2, <2>2 DEF ConnOK
  <2> QED
    BY <1>1, <1>7, <2>3, GotoText DEF Labels
<1>8. CASE \E q \in {"ensure_vector", "vector_exists"} : Goto(c, q, m3)
  <2>1. PICK q \in {"ensure_vector", "vector_exists"} : Goto(c, q, m3)
    BY <1>8
  <2>2. q \in Maintaining /\ q # "add_text"
    BY DEF Maintaining, Vectoring, Loading
  <2>3. "text" \in m3.defs => "text" \in m3.todo \/ Staged(fts, m3.cur) = Want(m3.doc)
    BY <1>3, <1>4, <1>5 DEF WriterOK
  <2>4. WriterOK(q, s, m3, docs, fts, catalog)
    BY <1>3, <1>4, <1>5, <2>2, <2>3, MoveText
  <2>5. ConnOK(q, s, m3, docs', fts', catalog')
    BY <1>1, <1>2, <2>4 DEF ConnOK
  <2> QED
    BY <1>1, <2>1, <2>5, GotoText DEF Labels
<1> QED
  BY <1>1, <1>6, <1>7, <1>8

\* A step of ensure_fulltext or ensure_vector_loaded that leaves the staged texts
\* and the committed ones as they are: the statement goes on where it was, or
\* back to its caller.
LEMMA CalledText ==
  ASSUME TypeInv, TextInv, OwnRecords, NEW c \in Conns, pc[c] # "idle", Calm(c),
         UNCHANGED <<docs, catalog>>, \A r \in Recs : Staged(fts', r) = Staged(fts, r),
         NEW q \in Labels \ {"idle", "add_text"}, NEW m, Goto(c, q, m),
         m.defs = loc[c].defs, m.rows = loc[c].rows, m.done = loc[c].done,
         m.touched = loc[c].touched, m.cur = loc[c].cur, m.doc = loc[c].doc,
         m.todo = loc[c].todo,
         stmt[c].op \in Writes =>
           /\ pc[c] \in Maintaining /\ q \in Maintaining
           /\ q \in Vectoring => pc[c] \in Vectoring
  PROVE  TextInv'
<1> DEFINE s == stmt[c]
           l == loc[c]
<1>1. s.op \in Writes \cup {"search"}
  BY Apart
<1>2. CASE s.op \in Writes
  <2>1. WriterOK(pc[c], s, l, docs, fts, catalog) /\ Targets(s) \subseteq Recs
    BY <1>2, Writing
  <2>2. l.done \subseteq Recs /\ l.cur \in Recs
    BY <1>2, <2>1 DEF WriterOK
  <2>3. q \in Vectoring =>
          ("text" \in m.defs => "text" \in m.todo \/ Staged(fts', m.cur) = Want(m.doc))
    BY <1>2, <2>1, <2>2 DEF WriterOK
  <2>4. WriterOK(q, s, m, docs, fts', catalog)
    BY <1>2, <2>1, <2>2, <2>3, MoveText
  <2>5. ConnOK(q, s, m, docs', fts', catalog')
    BY <1>2, <2>4 DEF ConnOK
  <2> QED
    BY <2>5, GotoText
<1>3. CASE s.op = "search"
  <2>1. s.op \notin Writes
    BY <1>3 DEF Writes
  <2>2. l.done = {}
    BY <2>1 DEF TextInv, ConnOK
  <2>3. ConnOK(q, s, m, docs', fts', catalog')
    BY <2>1, <2>2 DEF ConnOK
  <2> QED
    BY <2>3, GotoText
<1> QED
  BY <1>1, <1>2, <1>3

\* Where ensure_fulltext is called from, and where it returns to.
LEMMA OpeningFrom ==
  ASSUME TypeInv, TextInv, OwnRecords, NEW c \in Conns, pc[c] \in Opening
  PROVE  /\ pc[c] # "idle" /\ TableOf(stmt[c]) \in Tables
         /\ loc[c].ret \in Labels \ {"idle", "add_text"}
         /\ stmt[c].op \in Writes => /\ pc[c] \in Maintaining
                                     /\ loc[c].ret = "delete_text"
                                     /\ \A q \in Opening \cup {"delete_text"} :
                                          q \in Maintaining \ Vectoring
<1>1. pc[c] # "idle"
  BY DEF Opening
<1>2. stmt[c] \in Statement /\ OpeningOK(stmt[c], loc[c]) /\ TableOf(stmt[c]) \in Tables
  BY <1>1, Known, LocalAt
<1>3. stmt[c].op \in Writes \cup {"search"} /\ "define" \notin Writes /\ "search" \notin Writes
  BY <1>1, Apart DEF Writes
<1>4. loc[c].ret \in {"delete_text", "find"} /\ (stmt[c].op \in Writes => loc[c].ret = "delete_text")
  BY <1>2, <1>3 DEF OpeningOK
<1>5. \A q \in Opening \cup {"delete_text"} : q \in Maintaining \ Vectoring
  BY DEF Maintaining, Vectoring, Opening, Loading, Rebuilding
<1> QED
  BY <1>1, <1>2, <1>4, <1>5 DEF Labels

LEMMA EnsureTextText ==
  ASSUME TypeInv, TextInv, OwnRecords, NEW c \in Conns, EnsureText(c)
  PROVE  TextInv'
<1>1. /\ pc[c] \in Opening /\ UNCHANGED <<docs, catalog, fts>> /\ Calm(c)
      /\ Goto(c, loc[c].ret, loc[c]) \/ Goto(c, "open_text", loc[c])
  BY CalmKept DEF EnsureText, At, Goto, durable, services, Opening
<1>2. "open_text" \in Labels \ {"idle", "add_text"} /\ "open_text" \in Opening
  BY DEF Labels, Opening
<1>3. \A r \in Recs : Staged(fts', r) = Staged(fts, r)
  BY <1>1
<1>4. CASE Goto(c, loc[c].ret, loc[c])
  BY <1>1, <1>3, <1>4, OpeningFrom, CalledText
<1>5. CASE Goto(c, "open_text", loc[c])
  BY <1>1, <1>2, <1>3, <1>5, OpeningFrom, CalledText
<1> QED
  BY <1>1, <1>4, <1>5

\* The index is opened with what is committed, and that is what was staged.
LEMMA OpenTextText ==
  ASSUME TypeInv, TextInv, OwnRecords, NEW c \in Conns, OpenText(c)
  PROVE  TextInv'
<1> DEFINE t == TableOf(stmt[c])
<1>1. pc[c] \in Opening
  BY DEF OpenText, At, Opening
<1>2. CASE fts[t].handle
  BY <1>1, <1>2, OpeningFrom, FailText DEF OpenText
<1>3. CASE ~fts[t].handle
  <2>1. /\ fts' = [fts EXCEPT ![t].handle = TRUE, ![t].staged = fts[t].disk]
        /\ Goto(c, "mark_open", loc[c]) /\ UNCHANGED <<docs, catalog, scenario>>
    BY <1>3 DEF OpenText, Goto, durable
  <2>2. t \in Tables /\ fts \in [Tables -> TextIndex] /\ fts[t].staged = fts[t].disk
    BY <1>1, <1>3, OpeningFrom, SharedNow DEF SharedOK, TextInv
  <2>3. \A u \in Tables : /\ fts'[u].staged = fts[u].staged /\ fts'[u].disk = fts[u].disk
                          /\ fts'[u].handle = (fts[u].handle \/ u = t)
    BY <2>1, <2>2 DEF TextIndex
  <2>4. \A r \in Recs : Staged(fts', r) = Staged(fts, r) /\ OnDisk(fts', r) = OnDisk(fts, r)
    BY <2>3 DEF Recs, Staged, OnDisk
  <2>5. Calm(c)
    BY <2>1, <2>3, <2>4 DEF Calm, TextInv
  <2>6. "mark_open" \in Labels \ {"idle", "add_text"} /\ "mark_open" \in Opening
    BY DEF Labels, Opening
  <2> QED
    BY <1>1, <2>1, <2>4, <2>5, <2>6, OpeningFrom, CalledText
<1> QED
  BY <1>2, <1>3

LEMMA MarkOpenText ==
  ASSUME TypeInv, TextInv, OwnRecords, NEW c \in Conns, MarkOpen(c)
  PROVE  TextInv'
<1>1. /\ pc[c] \in Opening /\ UNCHANGED <<docs, catalog, fts>> /\ Calm(c)
      /\ Goto(c, loc[c].ret, loc[c])
  BY CalmKept DEF MarkOpen, At, Goto, durable, Opening
<1>2. \A r \in Recs : Staged(fts', r) = Staged(fts, r)
  BY <1>1
<1> QED
  BY <1>1, <1>2, OpeningFrom, CalledText

\* A statement stages q for the record at hand.
Stages(c, q) == fts' = [fts EXCEPT ![TableOf(stmt[c])].staged[loc[c].cur[2]] = q]

LEMMA StageText ==
  ASSUME TypeInv, TextInv, OwnRecords, NEW c \in Conns, pc[c] \in {"delete_text", "add_text"},
         stmt[c].op \in Writes, NEW q \in Seq(Texts), UNCHANGED <<docs, catalog, scenario>>,
         fts[TableOf(stmt[c])].handle, Stages(c, q),
         NEW label \in {"add_text", "maintain"}, Goto(c, label, loc[c]),
         label = "add_text" => HasText(loc[c]) /\ q = <<>>,
         label = "maintain" => q = Want(loc[c].doc)
  PROVE  TextInv'
<1> DEFINE s == stmt[c]
           l == loc[c]
           t == TableOf(s)
           k == l.cur[2]
<1>1. pc[c] # "idle"
  OBVIOUS
<1>2. /\ WriterOK(pc[c], s, l, docs, fts, catalog) /\ t \in Tables
      /\ Targets(s) \subseteq Recs /\ \A r \in Targets(s) : r[1] = t
  BY <1>1, Writing
<1>3. pc[c] \in Maintaining /\ label \in Maintaining \cap Labels /\ label # "idle"
  BY DEF Maintaining, Vectoring, Labels
<1>4. l.cur \in Targets(s) /\ l.cur \notin l.done /\ l.done \subseteq Recs
  BY <1>2, <1>3 DEF WriterOK
<1>5. l.cur \in Recs /\ l.cur[1] = t /\ k \in Keys /\ l.cur = <<t, k>>
  BY <1>2, <1>4 DEF Recs
<1>6. /\ \A u \in Tables : fts'[u].handle = fts[u].handle /\ fts'[u].disk = fts[u].disk
      /\ \A u \in Tables, j \in Keys :
           fts'[u].staged[j] = IF u = t /\ j = k THEN q ELSE fts[u].staged[j]
  <2>1. fts \in [Tables -> TextIndex] /\ fts' = [fts EXCEPT ![t].staged[k] = q]
    BY SharedNow DEF SharedOK, Stages
  <2>2. t \in Tables /\ k \in Keys
    BY <1>2, <1>5
  <2> HIDE DEF t, k
  <2> QED
    BY <2>1, <2>2 DEF TextIndex, Held
<1>7. \A r \in Recs : /\ Staged(fts', r) = (IF r = l.cur THEN q ELSE Staged(fts, r))
                      /\ OnDisk(fts', r) = OnDisk(fts, r)
  <2>1. \A r \in Recs : r = <<r[1], r[2]>> /\ r[1] \in Tables /\ r[2] \in Keys
    BY DEF Recs
  <2> SUFFICES ASSUME NEW r \in Recs
               PROVE  /\ Staged(fts', r) = (IF r = l.cur THEN q ELSE Staged(fts, r))
                      /\ OnDisk(fts', r) = OnDisk(fts, r)
    OBVIOUS
  <2>2. (r = l.cur) <=> (r[1] = t /\ r[2] = k)
    BY <1>5, <2>1
  <2>3. /\ fts'[r[1]].staged[r[2]] = (IF r[1] = t /\ r[2] = k THEN q ELSE fts[r[1]].staged[r[2]])
        /\ fts'[r[1]].disk = fts[r[1]].disk
    BY <1>6, <2>1
  <2> HIDE DEF t, k
  <2> QED
    BY <2>2, <2>3 DEF Staged, OnDisk
<1>8. \A u \in Tables : ~fts'[u].handle => fts'[u].staged = fts'[u].disk
  <2> SUFFICES ASSUME NEW u \in Tables, ~fts'[u].handle PROVE fts'[u].staged = fts'[u].disk
    OBVIOUS
  <2>1. u # t
    BY <1>6
  <2>2. fts'[u] = fts[u]
    BY <2>1, SharedNow DEF SharedOK, Stages
  <2> QED
    BY <2>2 DEF TextInv
<1>9. Calm(c)
  BY <1>4, <1>6, <1>7, <1>8 DEF Calm
<1>10. WriterOK(label, s, l, docs, fts', catalog)
  <2>1. \A r \in l.done : Staged(fts', r) = Staged(fts, r)
    BY <1>4, <1>7
  <2>2. label \in Vectoring =>
          ("text" \in l.defs => "text" \in l.todo \/ Staged(fts', l.cur) = Want(l.doc))
    BY <1>5, <1>7 DEF Vectoring, Loading, Rebuilding
  <2>3. label = "add_text" =>
          HasText(l) /\ Staged(fts', l.cur) = <<>> /\ fts'[TableOf(s)].handle
    BY <1>2, <1>5, <1>6, <1>7
  <2>4. WriterOK(pc[c], s, l, docs, fts, catalog) /\ pc[c] \in Maintaining
        /\ label \in Maintaining
    BY <1>2, <1>3
  <2> HIDE DEF t, k, s, l
  <2> QED
    BY <2>1, <2>2, <2>3, <2>4, MoveText
<1>11. ConnOK(label, s, l, docs', fts', catalog')
  BY <1>3, <1>10 DEF ConnOK
<1> QED
  BY <1>1, <1>3, <1>9, <1>11, GotoText

LEMMA DeleteTextText ==
  ASSUME TypeInv, TextInv, OwnRecords, NEW c \in Conns, DeleteText(c)
  PROVE  TextInv'
<1>1. pc[c] = "delete_text"
  BY DEF DeleteText, At
<1>2. stmt[c].op \in Writes
  BY <1>1, Known, LocalAt DEF Applying
<1>3. CASE ~fts[TableOf(stmt[c])].handle
  BY <1>1, <1>3, FailText DEF DeleteText
<1>4. CASE fts[TableOf(stmt[c])].handle
  <2>1. /\ fts' = [fts EXCEPT ![TableOf(stmt[c])].staged[loc[c].cur[2]] = <<>>]
        /\ Goto(c, IF HasText(loc[c]) THEN "add_text" ELSE "maintain", loc[c])
        /\ UNCHANGED <<docs, catalog, scenario>>
    BY <1>4 DEF DeleteText, Goto, durable
  <2>2. <<>> \in Seq(Texts) /\ (~HasText(loc[c]) => Want(loc[c].doc) = <<>>)
    BY EmptySeq DEF HasText, Want
  <2>3. CASE HasText(loc[c])
    BY <1>1, <1>2, <1>4, <2>1, <2>2, <2>3, StageText DEF Stages
  <2>4. CASE ~HasText(loc[c])
    BY ZenonT(60), <1>1, <1>2, <1>4, <2>1, <2>2, <2>4, StageText DEF Stages
  <2> QED
    BY <2>3, <2>4
<1> QED
  BY <1>3, <1>4

LEMMA AddTextText ==
  ASSUME TypeInv, TextInv, OwnRecords, NEW c \in Conns, AddText(c)
  PROVE  TextInv'
<1> DEFINE l == loc[c]
           t == TableOf(stmt[c])
<1>1. pc[c] = "add_text" /\ UNCHANGED <<docs, catalog, scenario>>
  BY DEF AddText, At, Goto, durable
<1>2. stmt[c].op \in Writes /\ stmt[c].op # "define"
  <2>1. stmt[c].op \in Writes \cup {"search"} /\ stmt[c] \in Statement
    BY <1>1, Apart
  <2>2. stmt[c].op \in Writes \cup {"define"}
    BY <1>1, <2>1, Known, LocalAt
  <2> QED
    BY <2>1, <2>2 DEF Writes
<1>3. WriterOK("add_text", stmt[c], l, docs, fts, catalog) /\ l \in Local
      /\ \A r \in Targets(stmt[c]) : r[1] = t
  BY <1>1, <1>2, Writing
<1>4. HasText(l) /\ Staged(fts, l.cur) = <<>> /\ fts[t].handle /\ l.cur \in Targets(stmt[c])
  BY <1>3 DEF WriterOK, Maintaining
<1>5. fts[t].staged[l.cur[2]] = <<>>
  BY <1>3, <1>4 DEF Staged
<1>6. l.doc.text \in Texts /\ Want(l.doc) = <<l.doc.text>>
  BY <1>3, <1>4, HasTextType DEF HasText, Want
<1>7. Append(<<>>, l.doc.text) = <<l.doc.text>> /\ <<l.doc.text>> \in Seq(Texts)
  BY SMTT(30), <1>6
<1>8. /\ fts' = [fts EXCEPT ![t].staged[l.cur[2]] = Append(fts[t].staged[l.cur[2]], l.doc.text)]
      /\ Goto(c, "maintain", l)
  BY <1>2 DEF AddText
<1>9. fts' = [fts EXCEPT ![t].staged[l.cur[2]] = <<l.doc.text>>]
  BY <1>5, <1>7, <1>8
<1> QED
  BY ZenonT(60), <1>1, <1>2, <1>4, <1>6, <1>7, <1>8, <1>9, StageText DEF Stages

\* commit_all: what is staged is on disk, for this statement and for the others.
LEMMA CommitText ==
  ASSUME TypeInv, TextInv, OwnRecords, NEW c \in Conns, Commit(c)
  PROVE  TextInv'
<1> DEFINE s == stmt[c]
           l == loc[c]
<1>1. /\ pc[c] = "commit" /\ pc[c] # "idle" /\ Return(c, l.done)
      /\ UNCHANGED <<docs, catalog, scenario>>
  BY DEF Commit, At, Ok, Return, durable
<1>2. fts' = [t \in Tables |-> IF fts[t].handle THEN [fts[t] EXCEPT !.disk = fts[t].staged]
                               ELSE fts[t]]
  BY DEF Commit
<1>3. \A t \in Tables : /\ fts'[t].handle = fts[t].handle /\ fts'[t].staged = fts[t].staged
                        /\ fts'[t].disk = fts[t].staged
  BY <1>2, SharedNow DEF SharedOK, TextIndex, TextInv
<1>4. \A r \in Recs : Staged(fts', r) = Staged(fts, r) /\ OnDisk(fts', r) = Staged(fts', r)
  BY <1>3 DEF Recs, Staged, OnDisk
<1>5. Calm(c)
  BY <1>1, <1>3, <1>4 DEF Calm
<1>6. CASE s.op \in Writes
  <2>1. /\ WriterOK("commit", s, l, docs, fts, catalog) /\ Targets(s) \subseteq Recs
        /\ \A r \in Targets(s) : r[1] = TableOf(s)
    BY <1>1, <1>6, Writing
  <2>2. /\ l.done \subseteq Targets(s) /\ l.defs = catalog[TableOf(s)]
        /\ "text" \in l.defs => \A r \in l.done : Staged(fts, r) = Want(docs[r])
    BY <2>1 DEF WriterOK
  <2>3. \A r \in l.done : "text" \in catalog[r[1]] =>
          Staged(fts', r) = Want(docs'[r]) /\ OnDisk(fts', r) = Want(docs'[r])
    <3> SUFFICES ASSUME NEW r \in l.done, "text" \in catalog[r[1]]
                 PROVE  Staged(fts', r) = Want(docs'[r]) /\ OnDisk(fts', r) = Want(docs'[r])
      OBVIOUS
    <3>1. r \in Recs /\ r[1] = TableOf(s)
      BY <2>1, <2>2
    <3> QED
      BY <1>1, <1>4, <2>2, <3>1
  <2> QED
    BY <1>1, <1>5, <2>2, <2>3, ReturnText
<1>7. CASE s.op \notin Writes
  <2>1. l.done = {}
    BY <1>1, <1>7 DEF TextInv, ConnOK
  <2> QED
    BY <1>1, <1>5, <2>1, ReturnText
<1> QED
  BY <1>6, <1>7

\* The points of the vector index do not touch the texts.
LEMMA VectorsText ==
  ASSUME TypeInv, TextInv, OwnRecords, NEW c \in Conns,
         \/ EnsureVector(c) \/ RebuildLock(c) \/ RebuildScan(c) \/ RebuildInsert(c)
         \/ RebuildDone(c) \/ InsertVector(c) \/ VectorExists(c) \/ RemoveVector(c)
  PROVE  TextInv'
<1> DEFINE l == loc[c]
<1>1. /\ pc[c] \in Loading \cup {"insert_vector", "vector_exists", "remove_vector"}
      /\ UNCHANGED <<docs, catalog, fts>>
  BY DEF EnsureVector, RebuildLock, RebuildScan, RebuildInsert, RebuildDone, InsertVector,
         VectorExists, RemoveVector, At, Loading, Rebuilding, Allocate, durable, services
<1>2. pc[c] # "idle" /\ pc[c] \in Vectoring /\ Vectoring \subseteq Maintaining
      /\ Vectoring \subseteq Labels \ {"idle", "add_text"}
  BY <1>1 DEF Loading, Rebuilding, Vectoring, Maintaining, Labels
<1>3. stmt[c] \in Statement /\ l \in Local /\ stmt[c].op \in Writes \cup {"search"}
      /\ "search" \notin Writes
  BY <1>2, Known, Apart DEF Writes
<1>4. /\ pc[c] \in Loading => LoadingOK(stmt[c], l)
      /\ pc[c] \in {"insert_vector", "vector_exists", "remove_vector"} => stmt[c].op \in Writes
  BY <1>3, Known, LocalAt DEF Loading, Applying
<1>5. /\ pc[c] \in Loading => l.ret \in {"insert_vector", "find"}
      /\ pc[c] \in Loading /\ stmt[c].op \in Writes => l.ret = "insert_vector"
  BY <1>3, <1>4 DEF LoadingOK
<1>6. PICK q, m : /\ Goto(c, q, m)
                  /\ \/ q \in Vectoring
                     \/ q = l.ret /\ pc[c] \in Loading
                  /\ \/ m = l
                     \/ \E e : m = [l EXCEPT !.ent = e]
                     \/ \E f : m = [l EXCEPT !.fill = f]
  <2>1. CASE EnsureVector(c)
    <3>1. \/ \E f : Goto(c, "rebuild_lock", [l EXCEPT !.ent = f])
          \/ Goto(c, l.ret, l)
      BY <2>1 DEF EnsureVector
    <3>2. pc[c] \in Loading /\ "rebuild_lock" \in Vectoring
      BY <2>1 DEF EnsureVector, At, Loading, Rebuilding, Vectoring
    <3> QED
      BY <3>1, <3>2
  <2>2. CASE RebuildLock(c)
    <3>1. Goto(c, l.ret, [l EXCEPT !.ent = NoSlot]) \/ Goto(c, "rebuild_scan", l)
      BY <2>2 DEF RebuildLock
    <3>2. pc[c] \in Loading /\ "rebuild_scan" \in Vectoring
      BY <2>2 DEF RebuildLock, At, Loading, Rebuilding, Vectoring
    <3> QED
      BY <3>1, <3>2
  <2>3. CASE RebuildScan(c) \/ RebuildInsert(c)
    <3>1. \E f : Goto(c, "rebuild_insert", [l EXCEPT !.fill = f])
      BY <2>3 DEF RebuildScan, RebuildInsert
    <3>2. "rebuild_insert" \in Vectoring
      BY DEF Loading, Rebuilding, Vectoring
    <3> QED
      BY <3>1, <3>2
  <2>4. CASE RebuildDone(c)
    <3>1. Goto(c, l.ret, [l EXCEPT !.ent = NoSlot]) /\ pc[c] \in Loading
      BY <2>4 DEF RebuildDone, At, Loading, Rebuilding
    <3> QED
      BY <3>1
  <2>5. CASE InsertVector(c) \/ VectorExists(c) \/ RemoveVector(c)
    <3>1. Goto(c, "maintain", l) \/ Goto(c, "remove_vector", l)
      BY <2>5 DEF InsertVector, VectorExists, RemoveVector
    <3>2. "maintain" \in Vectoring /\ "remove_vector" \in Vectoring
      BY DEF Vectoring
    <3> QED
      BY <3>1, <3>2
  <2> QED
    BY <2>1, <2>2, <2>3, <2>4, <2>5
<1>7. /\ m.defs = l.defs /\ m.rows = l.rows /\ m.done = l.done /\ m.touched = l.touched
      /\ m.cur = l.cur /\ m.doc = l.doc /\ m.todo = l.todo
  BY <1>3, <1>6 DEF Local
<1>8. q \in Labels \ {"idle", "add_text"}
  BY <1>2, <1>5, <1>6 DEF Labels
<1>9. stmt[c].op \in Writes => q \in Vectoring
  BY <1>5, <1>6 DEF Vectoring
<1>10. Calm(c) /\ \A r \in Recs : Staged(fts', r) = Staged(fts, r)
  <2>1. UNCHANGED <<durable, scenario, fts>>
    BY <1>1, <1>6 DEF Goto, durable
  <2> QED
    BY <2>1, CalmKept
<1> QED
  BY <1>1, <1>2, <1>6, <1>7, <1>8, <1>9, <1>10, CalledText

\* A search writes nothing.
LEMMA SearchText ==
  ASSUME TypeInv, TextInv, OwnRecords, NEW c \in Conns,
         Find(c) \/ QueryText(c) \/ QueryVector(c) \/ Resolve(c)
  PROVE  TextInv'
<1> DEFINE l == loc[c]
<1>1. pc[c] \in Searching /\ pc[c] # "idle" /\ UNCHANGED <<docs, catalog, fts, scenario>>
  BY DEF Find, QueryText, QueryVector, Resolve, At, Searching, Ok, Fail, Return, Goto,
         durable, services
<1>2. stmt[c].op = "search" /\ l \in Local
  BY <1>1, Known, LocalAt
<1>3. stmt[c].op \notin Writes
  BY <1>2 DEF Writes
<1>4. l.done = {}
  BY <1>1, <1>3 DEF TextInv, ConnOK
<1>5. Calm(c)
  BY <1>1, CalmKept DEF durable
<1>6. ASSUME NEW q \in Labels \ {"idle"}, NEW m, m.done = {}, Goto(c, q, m)
      PROVE  TextInv'
  <2>1. ConnOK(q, stmt[c], m, docs', fts', catalog')
    BY <1>3, <1>6 DEF ConnOK
  <2> QED
    BY <1>1, <1>5, <1>6, <2>1, GotoText
<1>7. CASE Find(c)
  <2> DEFINE kind == IF "text" \in l.todo THEN "text" ELSE "vector"
             m == [l EXCEPT !.todo = @ \ {kind}, !.ret = "find"]
  <2>1. \/ \E q \in {"query_text", "query_vector"} : Goto(c, q, l)
        \/ Fail(c)
        \/ \E q \in {"ensure_text", "ensure_vector"} : Goto(c, q, m)
    BY <1>7 DEF Find
  <2>2. m.done = {}
    BY <1>2, <1>4 DEF Local
  <2> HIDE DEF m
  <2> QED
    BY <1>1, <1>4, <1>6, <2>1, <2>2, FailText DEF Labels
<1>8. CASE QueryText(c) \/ QueryVector(c)
  <2>1. \/ \E q \in {"query_vector", "resolve"} : \E h : Goto(c, q, [l EXCEPT !.hits = h])
        \/ Fail(c)
    BY <1>8 DEF QueryText, QueryVector
  <2>2. CASE Fail(c)
    BY <1>1, <2>2, FailText
  <2>3. CASE \E q \in {"query_vector", "resolve"} : \E h : Goto(c, q, [l EXCEPT !.hits = h])
    <3>0. PICK q \in {"query_vector", "resolve"} : \E h : Goto(c, q, [l EXCEPT !.hits = h])
      BY <2>3
    <3>1. PICK h : Goto(c, q, [l EXCEPT !.hits = h])
      BY <3>0
    <3> DEFINE m == [l EXCEPT !.hits = h]
    <3>2. m.done = {} /\ Goto(c, q, m)
      BY <1>2, <1>4, <3>1 DEF Local
    <3> HIDE DEF m
    <3> QED
      BY <1>6, <3>2 DEF Labels
  <2> QED
    BY SMTT(30), <2>1, <2>2, <2>3
<1>9. CASE Resolve(c)
  <2>1. Return(c, {})
    BY SMTT(30), <1>4, <1>9 DEF Resolve, Ok
  <2> QED
    BY <1>1, <1>5, <2>1, ReturnText
<1> QED
  BY <1>7, <1>8, <1>9

\* Index DDL does not occur.
LEMMA NoDefinition ==
  ASSUME TypeInv, TextInv, OwnRecords, NEW c \in Conns
  PROVE  ~(\/ DefineWrite(c) \/ Register(c) \/ BackfillScan(c) \/ Backfill(c) \/ BackfillDone(c)
           \/ SetLoaded(c) \/ RemoveWrite(c) \/ DropVector(c) \/ DropText(c) \/ UnmarkOpen(c))
<1>1. pc[c] \notin Defining \cup Removing
  <2> SUFFICES ASSUME pc[c] \in Defining \cup Removing PROVE FALSE
    OBVIOUS
  <2>1. pc[c] # "idle"
    BY DEF Defining, Removing
  <2>2. stmt[c] \in Statement /\ stmt[c].op \in {"define", "remove"}
    BY <2>1, Known, LocalAt
  <2> QED
    BY <2>1, <2>2, Apart DEF Writes
<1> QED
  BY ZenonT(60), <1>1 DEF DefineWrite, Register, BackfillScan, Backfill, BackfillDone, SetLoaded, RemoveWrite,
              DropVector, DropText, UnmarkOpen, At, Defining, Removing

\* A crash loses what was staged; what was answered is on disk.
LEMMA CrashText ==
  ASSUME TypeInv, TextInv, Crash
  PROVE  TextInv'
<1>1. /\ \A c \in Conns : pc'[c] = "idle" /\ loc'[c] = Fresh
      /\ UNCHANGED <<docs, catalog, acked, scenario>>
  BY DEF Crash, durable
<1>2. \A t \in Tables : fts'[t].disk = fts[t].disk /\ fts'[t].staged = fts[t].disk
  BY SharedNow DEF Crash, SharedOK, TextIndex
<1>3. \A r \in Recs : OnDisk(fts', r) = OnDisk(fts, r) /\ Staged(fts', r) = OnDisk(fts, r)
  BY <1>2 DEF Recs, OnDisk, Staged
<1>4. \A c \in Conns : ConnOK(pc'[c], stmt'[c], loc'[c], docs', fts', catalog')
  BY <1>1 DEF ConnOK
<1>5. ASSUME NEW r \in acked' PROVE AckedOK(r)'
  <2>1. AckedOK(r) /\ r \in Recs
    BY <1>1 DEF TextInv, TypeInv, TypeOK
  <2> QED
    BY <1>1, <1>3, <2>1 DEF AckedOK
<1> QED
  BY <1>1, <1>2, <1>4, <1>5 DEF TextInv

LEMMA TextInvInit == Init => TextInv
<1> SUFFICES ASSUME Init PROVE TextInv
  OBVIOUS
<1>1. \A c \in Conns : pc[c] = "idle" /\ loc[c] = Fresh
  BY DEF Init
<1>2. \A c \in Conns : ConnOK(pc[c], stmt[c], loc[c], docs, fts, catalog)
  BY <1>1 DEF ConnOK
<1>3. (\A t \in Tables : fts[t].staged = fts[t].disk) /\ acked = {}
  BY DEF Init
<1> QED
  BY <1>1, <1>2, <1>3 DEF TextInv

LEMMA TextInvStep ==
  ASSUME TypeInv, TextInv, OwnRecords, NEW c \in Conns, Begin(c) \/ Step(c)
  PROVE  TextInv'
BY BeginText, LoadText, BatchWriteText, RowText, RowsDoneText, RereadText, MaintainText,
   EnsureTextText, OpenTextText, MarkOpenText, DeleteTextText, AddTextText, CommitText,
   VectorsText, SearchText, NoDefinition DEF Step

\* The situation of a behaviour does not change.
LEMMA ScenarioKept ==
  ASSUME NEW c \in Conns, Begin(c) \/ Step(c)
  PROVE  scenario' = scenario
<1>1. ASSUME NEW q, NEW l, Goto(c, q, l) PROVE scenario' = scenario
  BY <1>1 DEF Goto
<1>2. ASSUME NEW records, Return(c, records) PROVE scenario' = scenario
  BY <1>2 DEF Return
<1>3. ASSUME Ok(c) \/ Fail(c) PROVE scenario' = scenario
  BY <1>2, <1>3 DEF Ok, Fail
<1>4. ASSUME \/ Load(c) \/ Scan(c) \/ BatchWrite(c) \/ RowsDone(c) \/ Reread(c) \/ Maintain(c)
      PROVE  scenario' = scenario
  BY <1>1, <1>3, <1>4 DEF Load, Scan, BatchWrite, RowsDone, Reread, Maintain
<1>5. ASSUME Row(c) PROVE scenario' = scenario
  BY SMTT(30), <1>1, <1>3, <1>5 DEF Row
<1>6. ASSUME \/ EnsureText(c) \/ OpenText(c) \/ MarkOpen(c) \/ DeleteText(c) \/ AddText(c)
             \/ Commit(c)
      PROVE  scenario' = scenario
  BY <1>1, <1>3, <1>6 DEF EnsureText, OpenText, MarkOpen, DeleteText, AddText, Commit
<1>7. ASSUME \/ EnsureVector(c) \/ RebuildLock(c) \/ RebuildScan(c) \/ RebuildInsert(c)
             \/ RebuildDone(c) \/ InsertVector(c) \/ VectorExists(c) \/ RemoveVector(c)
      PROVE  scenario' = scenario
  BY <1>1, <1>7 DEF EnsureVector, RebuildLock, RebuildScan, RebuildInsert, RebuildDone,
                    InsertVector, VectorExists, RemoveVector
<1>8. ASSUME \/ DefineWrite(c) \/ Register(c) \/ BackfillScan(c) \/ BackfillDone(c)
             \/ SetLoaded(c) \/ RemoveWrite(c) \/ DropVector(c) \/ DropText(c) \/ UnmarkOpen(c)
      PROVE  scenario' = scenario
  BY <1>1, <1>3, <1>8 DEF DefineWrite, Register, BackfillScan, BackfillDone, SetLoaded,
                          RemoveWrite, DropVector, DropText, UnmarkOpen
<1>9. ASSUME Backfill(c) PROVE scenario' = scenario
  BY <1>1, <1>2, <1>9 DEF Backfill
<1>10. ASSUME Find(c) \/ QueryText(c) \/ QueryVector(c) \/ Resolve(c) PROVE scenario' = scenario
  BY <1>1, <1>3, <1>10 DEF Find, QueryText, QueryVector, Resolve
<1>11. ASSUME Begin(c) PROVE scenario' = scenario
  BY <1>11 DEF Begin
<1> QED
  BY <1>4, <1>5, <1>6, <1>7, <1>8, <1>9, <1>10, <1>11 DEF Step

LEMMA TextInvNext ==
  ASSUME TypeInv, OwnRecords => TextInv, [Next]_vars
  PROVE  (OwnRecords => TextInv)'
<1>1. CASE UNCHANGED vars
  <2>1. UNCHANGED <<docs, catalog, fts, pc, stmt, loc, acked, scenario>>
    BY <1>1 DEF vars, durable, services
  <2>2. (OwnRecords' <=> OwnRecords) /\ (TextInv' <=> TextInv)
    BY <2>1 DEF OwnRecords, TextInv, AckedOK
  <2> QED
    BY <2>2
<1>2. CASE Next
  <2>1. scenario' = scenario
    BY <1>2, ScenarioKept DEF Next, Crash
  <2>2. OwnRecords' <=> OwnRecords
    BY <2>1 DEF OwnRecords
  <2> QED
    BY <1>2, <2>2, CrashText, TextInvStep DEF Next
<1> QED
  BY <1>1, <1>2

\* A write that was answered is searchable for good (AckedText), for any number of
\* connections that write their own records and search, whatever others open,
\* fail to open, buffer and commit in between, and through any number of crashes.
THEOREM AnsweredIsSearchable == Spec => [](OwnRecords => AckedText)
<1>1. TypeInv /\ (OwnRecords => TextInv) => (OwnRecords => AckedText)
  BY DEF TextInv, AckedOK, AckedText, Want, OnDisk
<1>2. TypeInv /\ (OwnRecords => TextInv) /\ [Next]_vars => (OwnRecords => TextInv)'
  BY TextInvNext
<1> QED
  BY <1>1, <1>2, TypeInvAlways, TextInvInit, PTL DEF Spec

-----------------------------------------------------------------------------
(* A loaded vector index has what was answered *)

\* Every table names its vector index differently: the registry of SearchServices
\* knows an index by its name alone.
OwnNames == \A t, u \in Tables : VectorName[t] = VectorName[u] => t = u

Embedded(doc) == doc # NoDoc /\ doc.vec \in Vecs

\* The entry registered for the table of a record.
Entry(r, reg) == reg[VectorName[r[1]]]

\* The points at which the vector index of the record at hand is still to come.
VectorPending == Loading \cup {"insert_vector", "vector_exists", "remove_vector"}

\* The records of a write whose vector index is done.
Applied(p, l) ==
  l.done \cup (IF p \in Maintaining \ VectorPending /\ "vector" \notin l.todo THEN {l.cur}
               ELSE {})

\* The index is loaded and has the embedding of the record.
InLoaded(r, d, reg, h) ==
  Embedded(d[r]) => /\ Entry(r, reg) # NoSlot
                    /\ h[Entry(r, reg)].loaded
                    /\ h[Entry(r, reg)].vecs[r[2]] = d[r].vec

\* A rebuild works for the registered entry, holds its lock and finds it not loaded;
\* an insertion finds it loaded; so what a write has indexed is in a loaded index.
VectorOK(c, p, s, l, d, reg, h) ==
  /\ p \in Rebuilding => l.ent = reg[VectorName[TableOf(s)]]
  /\ p \in {"rebuild_scan", "rebuild_insert"} => h[l.ent].lock = c /\ ~h[l.ent].loaded
  /\ p = "insert_vector" => /\ reg[VectorName[TableOf(s)]] # NoSlot
                            /\ h[reg[VectorName[TableOf(s)]]].loaded
  /\ p \in {"vector_exists", "remove_vector"} => ~HasVector(l)
  /\ s.op \in Writes /\ "vector" \in l.defs => \A r \in Applied(p, l) : InLoaded(r, d, reg, h)

\* A loaded index has the embedding of an acknowledged record, and a rebuild under
\* way has it or will insert it, and nothing else under its key.
Survives(r, d, reg, h) ==
  Embedded(d[r]) /\ Entry(r, reg) # NoSlot /\ h[Entry(r, reg)].loaded =>
    h[Entry(r, reg)].vecs[r[2]] = d[r].vec

Refilled(r, p, s, l, d, reg, h) ==
  p = "rebuild_insert" /\ TableOf(s) = r[1] /\ Embedded(d[r]) =>
    /\ \A f \in l.fill : f[1] = r[2] => f[2] = d[r].vec
    /\ <<r[2], d[r].vec>> \in l.fill \/ h[Entry(r, reg)].vecs[r[2]] = d[r].vec

OneName(reg) == \A n, m \in Names : reg[n] # NoSlot /\ reg[n] = reg[m] => n = m

VectorInv ==
  /\ OneName(registry)
  /\ \A c \in Conns : pc[c] # "idle" =>
       VectorOK(c, pc[c], stmt[c], loc[c], docs, registry, heap)
  /\ \A r \in acked : "vector" \in catalog[r[1]] =>
       /\ Survives(r, docs, registry, heap)
       /\ \A c \in Conns : pc[c] # "idle" =>
            Refilled(r, pc[c], stmt[c], loc[c], docs, registry, heap)

\* What a step of c leaves alone: names, loaded entries, locks of others, and the
\* vectors of records that are not its own, except in the entry it rebuilds.
VectorCalm(c) ==
  /\ catalog' = catalog
  /\ \A n \in Names : registry[n] # NoSlot =>
       /\ registry'[n] = registry[n]
       /\ heap[registry[n]].loaded => heap'[registry[n]].loaded
       /\ heap[registry[n]].lock \in Conns \ {c} =>
            /\ heap'[registry[n]].lock = heap[registry[n]].lock
            /\ heap'[registry[n]].loaded = heap[registry[n]].loaded
  /\ \A r \in Recs \ Targets(stmt[c]) :
       /\ docs'[r] = docs[r]
       /\ Entry(r, registry) # NoSlot =>
            \/ heap'[Entry(r, registry)].vecs[r[2]] = heap[Entry(r, registry)].vecs[r[2]]
            \/ ~heap[Entry(r, registry)].loaded /\ heap[Entry(r, registry)].lock = c

\* What all lemmas below assume.
VectorState == TypeInv /\ TextInv /\ VectorInv /\ OwnRecords

LEMMA AppliedOwn ==
  ASSUME VectorState, NEW c \in Conns, pc[c] # "idle", stmt[c].op \in Writes
  PROVE  Applied(pc[c], loc[c]) \subseteq Targets(stmt[c])
<1>1. WriterOK(pc[c], stmt[c], loc[c], docs, fts, catalog)
  BY Writing DEF VectorState
<1> QED
  BY <1>1 DEF WriterOK, Applied

\* The entry a rebuild works for.
LEMMA RebuiltEntry ==
  ASSUME VectorState, NEW c \in Conns, pc[c] \in Rebuilding
  PROVE  /\ pc[c] # "idle" /\ Name(c) \in Names
         /\ loc[c].ent \in Slots /\ loc[c].ent = registry[Name(c)] /\ loc[c].ent # NoSlot
         /\ pc[c] \in {"rebuild_scan", "rebuild_insert"} =>
              heap[loc[c].ent].lock = c /\ ~heap[loc[c].ent].loaded
<1>1. pc[c] # "idle"
  BY DEF Rebuilding
<1>2. loc[c].ent \in Slots /\ Name(c) \in Names
  BY <1>1, Known, LocalAt DEF VectorState
<1>3. VectorOK(c, pc[c], stmt[c], loc[c], docs, registry, heap)
  BY <1>1 DEF VectorState, VectorInv
<1> QED
  BY <1>1, <1>2, <1>3, ConstantsAssumption DEF VectorOK, Name

LEMMA EntryNamed ==
  ASSUME NEW r \in Recs
  PROVE  VectorName[r[1]] \in Names
BY DEF Recs, Names

LEMMA OthersVector ==
  ASSUME VectorState, NEW c \in Conns, NEW d \in Conns, d # c,
         pc[c] # "idle", pc[d] # "idle", VectorCalm(c)
  PROVE  VectorOK(d, pc[d], stmt[d], loc[d], docs', registry', heap')
<1> DEFINE n == VectorName[TableOf(stmt[d])]
<1>1. VectorOK(d, pc[d], stmt[d], loc[d], docs, registry, heap)
  BY DEF VectorState, VectorInv
<1>2. n \in Names
  BY Known DEF VectorState, Name
<1>3. pc[d] \in Rebuilding => loc[d].ent = registry'[n]
  BY <1>2, RebuiltEntry DEF VectorCalm, Name
<1>4. pc[d] \in {"rebuild_scan", "rebuild_insert"} =>
        heap'[loc[d].ent].lock = d /\ ~heap'[loc[d].ent].loaded
  <2> SUFFICES ASSUME pc[d] \in {"rebuild_scan", "rebuild_insert"}
               PROVE  heap'[loc[d].ent].lock = d /\ ~heap'[loc[d].ent].loaded
    OBVIOUS
  <2>1. pc[d] \in Rebuilding
    BY DEF Rebuilding
  <2> QED
    BY <1>2, <2>1, RebuiltEntry DEF VectorCalm
<1>5. pc[d] = "insert_vector" => registry'[n] # NoSlot /\ heap'[registry'[n]].loaded
  BY <1>1, <1>2 DEF VectorOK, VectorCalm
<1>6. ASSUME stmt[d].op \in Writes, "vector" \in loc[d].defs, NEW r \in Applied(pc[d], loc[d])
      PROVE  InLoaded(r, docs', registry', heap')
  <2>1. r \in Recs \ Targets(stmt[c])
    BY <1>6, AppliedOwn, Apart DEF VectorState
  <2>2. InLoaded(r, docs, registry, heap)
    BY <1>1, <1>6 DEF VectorOK
  <2>3. VectorName[r[1]] \in Names
    BY <2>1, EntryNamed
  <2> QED
    BY <2>1, <2>2, <2>3 DEF VectorCalm, InLoaded, Entry
<1> HIDE DEF n
<1>7. pc[d] \in {"vector_exists", "remove_vector"} => ~HasVector(loc[d])
  BY <1>1 DEF VectorOK
<1> QED
  BY <1>3, <1>4, <1>5, <1>6, <1>7 DEF VectorOK, n

LEMMA OthersRefill ==
  ASSUME VectorState, NEW c \in Conns, NEW d \in Conns, d # c,
         pc[c] # "idle", pc[d] # "idle", VectorCalm(c),
         NEW r \in acked, "vector" \in catalog[r[1]]
  PROVE  Refilled(r, pc[d], stmt[d], loc[d], docs', registry', heap')
<1> SUFFICES ASSUME pc[d] = "rebuild_insert", TableOf(stmt[d]) = r[1], Embedded(docs'[r])
             PROVE  /\ \A f \in loc[d].fill : f[1] = r[2] => f[2] = docs'[r].vec
                    /\ \/ <<r[2], docs'[r].vec>> \in loc[d].fill
                       \/ heap'[Entry(r, registry')].vecs[r[2]] = docs'[r].vec
  BY DEF Refilled
<1>1. r \in Recs \ Targets(stmt[c])
  BY DEF VectorState, TypeInv, TypeOK, TextInv, AckedOK
<1>2. docs'[r] = docs[r]
  BY <1>1 DEF VectorCalm
<1>3. Refilled(r, pc[d], stmt[d], loc[d], docs, registry, heap)
  BY DEF VectorState, VectorInv
<1>4. pc[d] \in Rebuilding
  BY DEF Rebuilding
<1>5. /\ Entry(r, registry) = loc[d].ent /\ Entry(r, registry) # NoSlot
      /\ heap[Entry(r, registry)].lock = d
  BY <1>4, RebuiltEntry DEF Entry, Name
<1>6. Entry(r, registry') = Entry(r, registry)
  BY <1>1, <1>5, EntryNamed DEF VectorCalm, Entry
<1>7. heap'[Entry(r, registry)].vecs[r[2]] = heap[Entry(r, registry)].vecs[r[2]]
  BY <1>1, <1>5 DEF VectorCalm
<1> QED
  BY <1>2, <1>3, <1>6, <1>7 DEF Refilled

LEMMA GotoVector ==
  ASSUME VectorState, NEW c \in Conns, pc[c] # "idle",
         NEW label \in Labels \ {"idle"}, NEW l, Goto(c, label, l),
         VectorCalm(c), OneName(registry'),
         VectorOK(c, label, stmt[c], l, docs', registry', heap'),
         \A r \in acked : "vector" \in catalog[r[1]] =>
           /\ Survives(r, docs', registry', heap')
           /\ Refilled(r, label, stmt[c], l, docs', registry', heap')
  PROVE  VectorInv'
<1>1. \A d \in Conns : /\ pc'[d] = (IF d = c THEN label ELSE pc[d])
                       /\ loc'[d] = (IF d = c THEN l ELSE loc[d])
  BY DEF VectorState, TypeInv, TypeOK, Goto
<1>2. stmt' = stmt /\ acked' = acked /\ catalog' = catalog
  BY DEF Goto, VectorCalm
<1>3. \A d \in Conns : pc'[d] # "idle" =>
        VectorOK(d, pc'[d], stmt'[d], loc'[d], docs', registry', heap')
  BY <1>1, <1>2, OthersVector
<1>4. \A r \in acked' : "vector" \in catalog'[r[1]] =>
        /\ Survives(r, docs', registry', heap')
        /\ \A d \in Conns : pc'[d] # "idle" =>
             Refilled(r, pc'[d], stmt'[d], loc'[d], docs', registry', heap')
  BY <1>1, <1>2, OthersRefill
<1> QED
  BY <1>3, <1>4 DEF VectorInv

\* A step that leaves the vector indexes alone.
LEMMA StillCalm ==
  ASSUME VectorState, NEW c \in Conns, pc[c] # "idle", UNCHANGED <<registry, heap, catalog>>,
         \A r \in Recs \ Targets(stmt[c]) : docs'[r] = docs[r]
  PROVE  /\ VectorCalm(c) /\ OneName(registry')
         /\ \A r \in acked : "vector" \in catalog[r[1]] => Survives(r, docs', registry', heap')
<1>1. VectorCalm(c)
  BY DEF VectorCalm
<1>2. OneName(registry')
  BY DEF VectorState, VectorInv
<1>3. ASSUME NEW r \in acked, "vector" \in catalog[r[1]]
      PROVE  Survives(r, docs', registry', heap')
  <2>1. r \in Recs \ Targets(stmt[c])
    BY DEF VectorState, TypeInv, TypeOK, TextInv, AckedOK
  <2>2. docs'[r] = docs[r] /\ Survives(r, docs, registry, heap)
    BY <1>3, <2>1 DEF VectorState, VectorInv
  <2> QED
    BY <2>2 DEF Survives
<1> QED
  BY <1>1, <1>2, <1>3

LEMMA StillVector ==
  ASSUME VectorState, NEW c \in Conns, pc[c] # "idle", UNCHANGED <<registry, heap, catalog>>,
         \A r \in Recs \ Targets(stmt[c]) : docs'[r] = docs[r],
         NEW label \in Labels \ {"idle", "rebuild_insert"}, NEW l, Goto(c, label, l),
         VectorOK(c, label, stmt[c], l, docs', registry, heap)
  PROVE  VectorInv'
<1>1. \A r : Refilled(r, label, stmt[c], l, docs', registry', heap')
  BY DEF Refilled
<1> QED
  BY <1>1, StillCalm, GotoVector

\* A statement is answered: what it maintained is in the loaded index.
LEMMA ReturnVector ==
  ASSUME VectorState, NEW c \in Conns, pc[c] # "idle",
         UNCHANGED <<registry, heap, catalog, docs>>,
         NEW records \in SUBSET Recs, Return(c, records),
         \A r \in records : "vector" \in catalog[r[1]] => InLoaded(r, docs, registry, heap)
  PROVE  VectorInv'
<1>1. \A d \in Conns : /\ pc'[d] = (IF d = c THEN "idle" ELSE pc[d])
                       /\ stmt'[d] = (IF d = c THEN NoStmt ELSE stmt[d])
                       /\ loc'[d] = (IF d = c THEN Fresh ELSE loc[d])
  BY DEF VectorState, TypeInv, TypeOK, Return
<1>2. acked' = acked \cup records
  BY DEF Return
<1>3. \A d \in Conns : pc'[d] # "idle" =>
        VectorOK(d, pc'[d], stmt'[d], loc'[d], docs', registry', heap')
  BY <1>1 DEF VectorState, VectorInv
<1>4. ASSUME NEW r \in acked, "vector" \in catalog'[r[1]]
      PROVE  /\ Survives(r, docs', registry', heap')
             /\ \A d \in Conns : pc'[d] # "idle" =>
                  Refilled(r, pc'[d], stmt'[d], loc'[d], docs', registry', heap')
  BY <1>1, <1>4 DEF VectorState, VectorInv
<1>5. ASSUME NEW r \in records, "vector" \in catalog'[r[1]]
      PROVE  /\ Survives(r, docs', registry', heap')
             /\ \A d \in Conns : pc'[d] # "idle" =>
                  Refilled(r, pc'[d], stmt'[d], loc'[d], docs', registry', heap')
  <2>1. InLoaded(r, docs, registry, heap)
    BY <1>5
  <2>2. Survives(r, docs', registry', heap')
    BY <2>1 DEF InLoaded, Survives
  <2>3. ASSUME NEW d \in Conns, pc'[d] # "idle"
        PROVE  Refilled(r, pc'[d], stmt'[d], loc'[d], docs', registry', heap')
    <3> SUFFICES ASSUME pc'[d] = "rebuild_insert", TableOf(stmt'[d]) = r[1], Embedded(docs[r])
                 PROVE  FALSE
      BY DEF Refilled
    <3>1. d # c /\ pc[d] = "rebuild_insert" /\ stmt'[d] = stmt[d] /\ pc[d] \in Rebuilding
      BY <1>1 DEF Rebuilding
    <3>2. Entry(r, registry) = registry[Name(d)]
      BY <3>1 DEF Entry, Name
    <3> QED
      BY <2>1, <3>1, <3>2, RebuiltEntry DEF InLoaded
  <2> QED
    BY <2>2, <2>3
<1>6. OneName(registry')
  BY DEF VectorState, VectorInv
<1> QED
  BY <1>2, <1>3, <1>4, <1>5, <1>6 DEF VectorInv

LEMMA FailVector ==
  ASSUME VectorState, NEW c \in Conns, pc[c] # "idle", Fail(c)
  PROVE  VectorInv'
BY ReturnVector DEF Fail, durable, services

LEMMA BeginVector ==
  ASSUME VectorState, NEW c \in Conns, Begin(c)
  PROVE  VectorInv'
<1>1. PICK s \in Scenario[scenario].menu[c] :
        /\ stmt' = [stmt EXCEPT ![c] = s]
        /\ pc' = [pc EXCEPT ![c] = CASE s.op = "define" -> "define_write"
                                     [] s.op = "search" -> "find"
                                     [] OTHER -> "load"]
        /\ loc' = [loc EXCEPT ![c].todo = IF s.op = "search" THEN s.kinds ELSE {}]
        /\ acked' = acked \ Targets(s)
  BY DEF Begin
<1>2. pc[c] = "idle" /\ UNCHANGED <<docs, catalog, registry, heap>>
  BY DEF Begin, At, durable, services
<1> DEFINE l == [loc[c] EXCEPT !.todo = IF s.op = "search" THEN s.kinds ELSE {}]
<1>3. /\ pc'[c] \in {"define_write", "find", "load"} /\ stmt'[c] = s /\ loc'[c] = l
      /\ \A d \in Conns : d # c => pc'[d] = pc[d] /\ stmt'[d] = stmt[d] /\ loc'[d] = loc[d]
  BY <1>1 DEF VectorState, TypeInv, TypeOK
<1>4. l.defs = {}
  <2>1. loc[c] = Fresh
    BY <1>2 DEF VectorState, TextInv, ConnOK
  <2> QED
    BY <2>1 DEF Fresh
<1> HIDE DEF l
<1>5. VectorOK(c, pc'[c], s, l, docs, registry, heap)
  BY <1>3, <1>4 DEF VectorOK, Rebuilding
<1>6. \A d \in Conns : pc'[d] # "idle" =>
        VectorOK(d, pc'[d], stmt'[d], loc'[d], docs', registry', heap')
  BY <1>2, <1>3, <1>5 DEF VectorState, VectorInv
<1>7. ASSUME NEW r \in acked', "vector" \in catalog'[r[1]]
      PROVE  /\ Survives(r, docs', registry', heap')
             /\ \A d \in Conns : pc'[d] # "idle" =>
                  Refilled(r, pc'[d], stmt'[d], loc'[d], docs', registry', heap')
  <2>1. r \in acked /\ "vector" \in catalog[r[1]]
    BY <1>1, <1>2, <1>7
  <2>2. Refilled(r, pc'[c], stmt'[c], loc'[c], docs', registry', heap')
    BY <1>3 DEF Refilled
  <2> QED
    BY <1>2, <1>3, <2>1, <2>2 DEF VectorState, VectorInv
<1>8. OneName(registry')
  BY <1>2 DEF VectorState, VectorInv
<1> QED
  BY <1>6, <1>7, <1>8 DEF VectorInv

LEMMA OkVector ==
  ASSUME VectorState, NEW c \in Conns, pc[c] \notin {"idle", "load"},
         UNCHANGED <<registry, heap, catalog, docs>>, Ok(c)
  PROVE  VectorInv'
<1> DEFINE s == stmt[c]
           l == loc[c]
<1>1. Return(c, l.done) /\ l.done \subseteq Recs
  BY Known DEF Ok, VectorState
<1>2. ASSUME NEW r \in l.done, "vector" \in catalog[r[1]]
      PROVE  InLoaded(r, docs, registry, heap)
  <2>1. s.op \in Writes
    BY <1>2 DEF VectorState, TextInv, ConnOK
  <2>2. WriterOK(pc[c], s, l, docs, fts, catalog) /\ \A q \in Targets(s) : q[1] = TableOf(s)
    BY <2>1, Writing DEF VectorState
  <2>3. r \in Applied(pc[c], l) /\ "vector" \in l.defs
    BY <1>2, <2>2 DEF WriterOK, Applied
  <2>4. VectorOK(c, pc[c], s, l, docs, registry, heap)
    BY DEF VectorState, VectorInv
  <2> QED
    BY <2>1, <2>3, <2>4 DEF VectorOK
<1> QED
  BY <1>1, <1>2, ReturnVector

\* Away from the vector index: nothing is indexed that was not before, or the
\* statement is answered.
Plain == Labels \ ({"idle", "insert_vector", "remove_vector"} \cup Rebuilding)

PlainTo(c, label, l) ==
  /\ label \in Plain
  /\ Goto(c, label, l)
  /\ UNCHANGED <<registry, heap, catalog>>
  /\ \A r \in Recs \ Targets(stmt[c]) : docs'[r] = docs[r]
  /\ stmt[c].op \in Writes /\ "vector" \in l.defs =>
       /\ "vector" \in loc[c].defs \/ Applied(label, l) = {}
       /\ \A r \in Applied(label, l) : r \in Applied(pc[c], loc[c]) /\ docs'[r] = docs[r]
  /\ label = "ensure_vector" /\ stmt[c].op \in Writes => HasVector(l)
  /\ label = "vector_exists" => ~HasVector(l)

PlainStep(c) ==
  /\ pc[c] # "idle"
  /\ \/ \E label, l : PlainTo(c, label, l)
     \/ pc[c] # "load" /\ UNCHANGED <<registry, heap, catalog, docs>> /\ Ok(c)
     \/ Fail(c)

LEMMA PlainVector ==
  ASSUME VectorState, NEW c \in Conns, PlainStep(c)
  PROVE  VectorInv'
<1>1. CASE Fail(c)
  BY <1>1, FailVector DEF PlainStep
<1>2. CASE pc[c] # "load" /\ UNCHANGED <<registry, heap, catalog, docs>> /\ Ok(c)
  BY <1>2, OkVector DEF PlainStep
<1>3. ASSUME NEW label, NEW l, PlainTo(c, label, l) PROVE VectorInv'
  <2>1. VectorOK(c, pc[c], stmt[c], loc[c], docs, registry, heap) /\ pc[c] # "idle"
    BY DEF VectorState, VectorInv, PlainStep
  <2>2. ASSUME stmt[c].op \in Writes, "vector" \in l.defs, NEW r \in Applied(label, l)
        PROVE  InLoaded(r, docs', registry, heap)
    <3>1. InLoaded(r, docs, registry, heap) /\ docs'[r] = docs[r]
      BY <1>3, <2>1, <2>2 DEF VectorOK, PlainTo
    <3> QED
      BY <3>1 DEF InLoaded
  <2>3. VectorOK(c, label, stmt[c], l, docs', registry, heap)
    BY <1>3, <2>2 DEF VectorOK, PlainTo, Plain, Rebuilding
  <2>4. label \in Labels \ {"idle", "rebuild_insert"}
    BY <1>3 DEF PlainTo, Plain, Rebuilding
  <2> QED
    BY <1>3, <2>1, <2>3, <2>4, StillVector DEF PlainTo
<1> QED
  BY <1>1, <1>2, <1>3 DEF PlainStep

\* Before the first record nothing is indexed.
LEMMA LoadPlain ==
  ASSUME VectorState, NEW c \in Conns, Load(c) \/ Scan(c) \/ BatchWrite(c)
  PROVE  PlainStep(c)
<1> DEFINE s == stmt[c]
           l == loc[c]
<1>1. /\ pc[c] \in {"load", "scan", "batch_write"} /\ pc[c] # "idle"
      /\ UNCHANGED <<registry, heap, catalog>>
      /\ \A r \in Recs \ Targets(s) : docs'[r] = docs[r]
  BY DEF Load, Scan, BatchWrite, At, durable, services
<1>2. s.op \in Writes => l.done = {}
  BY <1>1, Writing DEF WriterOK, VectorState
<1>3. PICK q, m : /\ Goto(c, q, m) /\ m.done = l.done
                  /\ q \in {"scan", "batch_write", "remove_write", "row"}
  <2>1. l \in Local
    BY Known DEF VectorState
  <2>2. CASE Load(c)
    <3> DEFINE m == [l EXCEPT !.defs = catalog[TableOf(s)],
                              !.rows = IF "rec" \in DOMAIN s THEN {s.rec} ELSE {}]
               q == CASE s.op \in {"update_all", "delete_all"} -> "scan"
                      [] s.op = "batch" -> "batch_write"
                      [] s.op = "remove" -> "remove_write"
                      [] OTHER -> "row"
    <3>1. Goto(c, q, m) /\ m.done = l.done
      BY <2>1, <2>2 DEF Load, Local
    <3>2. q \in {"scan", "batch_write", "remove_write", "row"}
      OBVIOUS
    <3> HIDE DEF q, m
    <3> QED
      BY <3>1, <3>2
  <2>3. CASE Scan(c)
    <3> DEFINE m == [l EXCEPT !.rows = Stored(s.table)]
    <3>1. Goto(c, "row", m) /\ m.done = l.done
      BY <2>1, <2>3 DEF Scan, Local
    <3> HIDE DEF m
    <3> QED
      BY <3>1
  <2>4. CASE BatchWrite(c)
    <3> DEFINE m == [l EXCEPT !.rows = IF l.defs # {} THEN Targets(s) ELSE {},
                              !.touched = l.defs # {}]
    <3>1. Goto(c, "row", m) /\ m.done = l.done
      BY <2>1, <2>4 DEF BatchWrite, Local
    <3> HIDE DEF m
    <3> QED
      BY <3>1
  <2> QED
    BY <2>2, <2>3, <2>4
<1>4. Applied(q, m) = m.done
  BY <1>3 DEF Applied, Maintaining, Vectoring, Opening, Loading, Rebuilding
<1>5. q \in Plain \ {"ensure_vector", "vector_exists"}
  BY <1>3 DEF Plain, Labels, Rebuilding
<1> QED
  BY <1>1, <1>2, <1>3, <1>4, <1>5 DEF PlainStep, PlainTo

LEMMA RowPlain ==
  ASSUME VectorState, NEW c \in Conns, Row(c)
  PROVE  PlainStep(c)
<1> DEFINE s == stmt[c]
           l == loc[c]
<1>1. pc[c] = "row" /\ pc[c] # "idle"
  BY DEF Row, At
<1>2. s.op \in Writes
  BY <1>1, Known, LocalAt DEF VectorState
<1>3. /\ l \in Local /\ Targets(s) \subseteq Recs
      /\ l.rows \subseteq Targets(s) /\ l.done \subseteq Targets(s) \ l.rows
  BY SMTT(30), <1>1, <1>2, Writing DEF WriterOK, VectorState
<1>4. PICK r \in l.rows :
        LET next == [l EXCEPT !.rows = @ \ {r}, !.cur = r] IN
        \/ /\ \E doc : docs' = [docs EXCEPT ![r] = doc]
           /\ \/ Goto(c, "reread", next)
              \/ Goto(c, "maintain", [next EXCEPT !.doc = NoDoc, !.touched = TRUE,
                                                  !.todo = l.defs])
           /\ UNCHANGED <<catalog, services>>
        \/ /\ Goto(c, "reread", next) \/ Goto(c, "row", next)
           /\ UNCHANGED <<durable, services>>
        \/ Fail(c)
  BY DEF Row
<1> DEFINE next == [l EXCEPT !.rows = @ \ {r}, !.cur = r]
           gone == [next EXCEPT !.doc = NoDoc, !.touched = TRUE, !.todo = l.defs]
<1>5. next.done = l.done /\ next.defs = l.defs /\ gone.done = l.done /\ gone.defs = l.defs
      /\ gone.todo = l.defs
  BY <1>3 DEF Local
<1> HIDE DEF next, gone
<1>6. /\ Applied("reread", next) = l.done /\ Applied("row", next) = l.done
      /\ "vector" \in gone.defs => Applied("maintain", gone) = l.done
      /\ l.done \subseteq Applied(pc[c], l)
  BY <1>5 DEF Applied, Maintaining, Vectoring, Opening, Loading, Rebuilding
<1>7. r \in Targets(s) /\ r \notin l.done
  BY <1>3
<1>8. CASE Fail(c)
  BY <1>1, <1>8 DEF PlainStep
<1>9. CASE ~Fail(c)
  <2>1. UNCHANGED <<registry, heap, catalog>> /\ \A q \in Recs \ {r} : docs'[q] = docs[q]
    BY <1>4, <1>9 DEF VectorState, TypeInv, TypeOK, durable, services
  <2>2. (\A q \in Recs \ Targets(s) : docs'[q] = docs[q]) /\ \A q \in l.done : docs'[q] = docs[q]
    BY <1>3, <1>7, <2>1
  <2>3. Goto(c, "reread", next) \/ Goto(c, "row", next) \/ Goto(c, "maintain", gone)
    BY <1>4, <1>9 DEF next, gone
  <2>4. {"reread", "row", "maintain"} \subseteq
          Plain \ {"ensure_vector", "vector_exists"}
    BY DEF Plain, Labels, Rebuilding
  <2>5. CASE Goto(c, "reread", next)
    BY <1>1, <1>5, <1>6, <2>1, <2>2, <2>4, <2>5 DEF PlainStep, PlainTo
  <2>6. CASE Goto(c, "row", next)
    BY <1>1, <1>5, <1>6, <2>1, <2>2, <2>4, <2>6 DEF PlainStep, PlainTo
  <2>7. CASE Goto(c, "maintain", gone)
    BY <1>1, <1>5, <1>6, <2>1, <2>2, <2>4, <2>7 DEF PlainStep, PlainTo
  <2> QED
    BY <2>3, <2>5, <2>6, <2>7
<1> QED
  BY <1>8, <1>9

LEMMA RereadPlain ==
  ASSUME VectorState, NEW c \in Conns, RowsDone(c) \/ Reread(c)
  PROVE  PlainStep(c)
<1> DEFINE s == stmt[c]
           l == loc[c]
<1>1. /\ pc[c] \in {"row", "reread"} /\ pc[c] \notin {"idle", "load"} /\ l \in Local
      /\ UNCHANGED <<registry, heap, catalog, docs>>
  BY Known DEF RowsDone, Reread, At, durable, services, VectorState
<1>2. CASE RowsDone(c)
  <2>1. CASE Ok(c)
    BY <1>1, <2>1 DEF PlainStep
  <2>2. CASE Goto(c, "commit", l)
    <3>1. Applied("commit", l) = Applied(pc[c], l)
      BY <1>1 DEF Applied, Maintaining, Vectoring, Opening, Loading, Rebuilding
    <3>2. "commit" \in Plain \ {"ensure_vector", "vector_exists"}
      BY DEF Plain, Labels, Rebuilding
    <3> QED
      BY <1>1, <2>2, <3>1, <3>2 DEF PlainStep, PlainTo
  <2> QED
    BY <1>2, <2>1, <2>2 DEF RowsDone
<1>3. CASE Reread(c)
  <2> DEFINE found == docs[l.cur] # NoDoc
             m == [l EXCEPT !.doc = docs[l.cur],
                            !.todo = IF found THEN l.defs ELSE {},
                            !.touched = l.touched \/ found \/ s.op = "update_all"]
             q == IF found THEN "maintain" ELSE "row"
  <2>1. Goto(c, q, m)
    BY <1>3 DEF Reread
  <2>2. m.done = l.done /\ m.defs = l.defs /\ (q = "maintain" => m.todo = l.defs)
        /\ q \in {"maintain", "row"}
    BY <1>1 DEF Local
  <2> HIDE DEF m, q
  <2>3. /\ "vector" \in m.defs => Applied(q, m) = l.done
        /\ l.done \subseteq Applied(pc[c], l)
    BY <2>2 DEF Applied, Maintaining, Vectoring, Opening, Loading, Rebuilding
  <2>4. q \in Plain \ {"ensure_vector", "vector_exists"}
    BY <2>2 DEF Plain, Labels, Rebuilding
  <2> QED
    BY <1>1, <2>1, <2>2, <2>3, <2>4 DEF PlainStep, PlainTo
<1> QED
  BY <1>2, <1>3

LEMMA MaintainPlain ==
  ASSUME VectorState, NEW c \in Conns, Maintain(c)
  PROVE  PlainStep(c)
<1> DEFINE s == stmt[c]
           l == loc[c]
           m1 == [l EXCEPT !.done = @ \cup {l.cur}]
           m2 == [l EXCEPT !.todo = @ \ {"text"}, !.ret = "delete_text"]
           m3 == [l EXCEPT !.todo = @ \ {"vector"}, !.ret = "insert_vector"]
<1>1. /\ pc[c] = "maintain" /\ pc[c] # "idle" /\ l \in Local
      /\ UNCHANGED <<registry, heap, catalog, docs>>
      /\ \/ l.todo = {} /\ Goto(c, "row", m1)
         \/ Goto(c, "ensure_text", m2)
         \/ HasVector(l) /\ Goto(c, "ensure_vector", m3)
         \/ ~HasVector(l) /\ Goto(c, "vector_exists", m3)
  BY Known DEF Maintain, At, durable, services, VectorState
<1>2. /\ m1.defs = l.defs /\ m1.done = l.done \cup {l.cur}
      /\ m2.defs = l.defs /\ m2.done = l.done /\ m2.cur = l.cur /\ m2.todo = l.todo \ {"text"}
      /\ m3.defs = l.defs /\ m3.done = l.done /\ m3.doc = l.doc
  BY <1>1 DEF Local
<1> HIDE DEF m1, m2, m3
<1>3. /\ l.todo = {} => Applied("row", m1) \subseteq Applied(pc[c], l)
      /\ Applied("ensure_text", m2) \subseteq Applied(pc[c], l)
      /\ Applied("ensure_vector", m3) \subseteq Applied(pc[c], l)
      /\ Applied("vector_exists", m3) \subseteq Applied(pc[c], l)
  BY <1>1, <1>2 DEF Applied, VectorPending, Maintaining, Vectoring, Opening, Loading, Rebuilding
<1>4. /\ {"row", "ensure_text"} \subseteq Plain \ {"ensure_vector", "vector_exists"}
      /\ {"ensure_vector", "vector_exists"} \subseteq Plain
      /\ HasVector(m3) <=> HasVector(l)
  BY <1>2 DEF Plain, Labels, Rebuilding, HasVector
<1>5. CASE l.todo = {} /\ Goto(c, "row", m1)
  BY <1>1, <1>2, <1>3, <1>4, <1>5 DEF PlainStep, PlainTo
<1>6. CASE Goto(c, "ensure_text", m2)
  BY <1>1, <1>2, <1>3, <1>4, <1>6 DEF PlainStep, PlainTo
<1>7. CASE HasVector(l) /\ Goto(c, "ensure_vector", m3)
  BY <1>1, <1>2, <1>3, <1>4, <1>7 DEF PlainStep, PlainTo
<1>8. CASE ~HasVector(l) /\ Goto(c, "vector_exists", m3)
  BY <1>1, <1>2, <1>3, <1>4, <1>8 DEF PlainStep, PlainTo
<1> QED
  BY <1>1, <1>5, <1>6, <1>7, <1>8

\* The full-text steps of a write, and a search.
LEMMA TextStepsPlain ==
  ASSUME VectorState, NEW c \in Conns,
         EnsureText(c) \/ OpenText(c) \/ MarkOpen(c) \/ DeleteText(c) \/ AddText(c)
  PROVE  PlainStep(c)
<1> DEFINE l == loc[c]
<1>1. /\ pc[c] \in Opening \cup {"delete_text", "add_text"} /\ pc[c] # "idle"
      /\ UNCHANGED <<registry, heap, catalog, docs>>
  BY DEF EnsureText, OpenText, MarkOpen, DeleteText, AddText, At, Opening, Fail, durable, services
<1>2. pc[c] \in Opening => /\ l.ret \in {"delete_text", "find", "backfill_scan"}
                           /\ stmt[c].op \in Writes => l.ret = "delete_text"
  <2>1. "search" \notin Writes /\ "define" \notin Writes
    BY SMTT(30) DEF Writes
  <2> QED
    BY <1>1, <2>1, Known, LocalAt DEF OpeningOK, VectorState
<1>3. Fail(c) \/ \E q : /\ Goto(c, q, l)
                        /\ \/ q \in Opening \cup {"add_text", "maintain"}
                           \/ q = "backfill" /\ stmt[c].op = "define"
                           \/ q = l.ret /\ pc[c] \in Opening
  BY DEF EnsureText, OpenText, MarkOpen, DeleteText, AddText, At, Opening
<1>4. CASE Fail(c)
  BY <1>1, <1>4 DEF PlainStep
<1>5. ASSUME NEW q, Goto(c, q, l),
             \/ q \in Opening \cup {"add_text", "maintain"}
             \/ q = "backfill" /\ stmt[c].op = "define"
             \/ q = l.ret /\ pc[c] \in Opening
      PROVE  PlainStep(c)
  <2>1. stmt[c].op \in Writes => Applied(q, l) = Applied(pc[c], l)
    <3> SUFFICES ASSUME stmt[c].op \in Writes PROVE Applied(q, l) = Applied(pc[c], l)
      OBVIOUS
    <3>1. q \in Opening \cup {"add_text", "maintain", "delete_text"}
      BY <1>2, <1>5 DEF Writes
    <3>2. Opening \cup {"add_text", "maintain", "delete_text"} \subseteq Maintaining \ VectorPending
      BY DEF VectorPending, Maintaining, Vectoring, Opening, Loading, Rebuilding
    <3> QED
      BY <1>1, <3>1, <3>2 DEF Applied
  <2>2. q \in Plain \ {"ensure_vector", "vector_exists"}
    BY <1>2, <1>5 DEF Plain, Labels, Rebuilding, Opening
  <2> QED
    BY <1>1, <1>5, <2>1, <2>2 DEF PlainStep, PlainTo
<1> QED
  BY SMTT(30), <1>3, <1>4, <1>5

LEMMA SearchPlain ==
  ASSUME VectorState, NEW c \in Conns,
         Commit(c) \/ Find(c) \/ QueryText(c) \/ QueryVector(c) \/ Resolve(c)
  PROVE  PlainStep(c)
<1> DEFINE l == loc[c]
<1>1. /\ pc[c] \in Searching \cup {"commit"} /\ pc[c] \notin {"idle", "load"}
      /\ UNCHANGED <<registry, heap, catalog, docs>>
  BY DEF Commit, Find, QueryText, QueryVector, Resolve, At, Searching, Fail, durable, services
<1>2. CASE Ok(c)
  BY <1>1, <1>2 DEF PlainStep
<1>3. CASE Fail(c)
  BY <1>1, <1>3 DEF PlainStep
<1>4. CASE ~Ok(c) /\ ~Fail(c)
  <2>1. stmt[c].op = "search"
    BY <1>1, <1>4, Known, LocalAt DEF Commit, Find, QueryText, QueryVector, Resolve, At, Searching,
                                      VectorState
  <2>2. \E q \in {"query_text", "query_vector", "ensure_text", "ensure_vector", "resolve"} :
          \E m : Goto(c, q, m)
    BY <1>4 DEF Commit, Find, QueryText, QueryVector, Resolve
  <2>3. {"query_text", "query_vector", "ensure_text", "ensure_vector", "resolve"} \subseteq
          Plain \ {"vector_exists"}
    BY DEF Plain, Labels, Rebuilding
  <2>4. stmt[c].op \notin Writes
    BY <2>1 DEF Writes
  <2> QED
    BY SMTT(30), <1>1, <2>2, <2>3, <2>4 DEF PlainStep, PlainTo
<1> QED
  BY <1>2, <1>3, <1>4

\* The statement returns to the caller of ensure_vector_loaded, or goes on in it,
\* and leaves the vector indexes alone.
LEMMA LoadingVector ==
  ASSUME VectorState, NEW c \in Conns, pc[c] \in Loading
  PROVE  /\ pc[c] # "idle" /\ stmt[c] \in Statement /\ loc[c] \in Local /\ Name(c) \in Names
         /\ loc[c].ret \in Labels \ {"idle", "rebuild_insert"}
         /\ loc[c].ret \in {"insert_vector", "find"}
         /\ Applied(pc[c], loc[c]) = loc[c].done
         /\ \A q \in VectorPending : \A m : Applied(q, m) = m.done
         /\ \A m : Applied("find", m) = m.done
         /\ VectorOK(c, pc[c], stmt[c], loc[c], docs, registry, heap)
<1>1. pc[c] # "idle"
  BY DEF Loading, Rebuilding
<1>2. stmt[c] \in Statement /\ loc[c] \in Local /\ Name(c) \in Names
      /\ LoadingOK(stmt[c], loc[c])
  BY <1>1, Known, LocalAt DEF VectorState, Loading
<1>3. VectorOK(c, pc[c], stmt[c], loc[c], docs, registry, heap)
  BY <1>1 DEF VectorState, VectorInv
<1>4. /\ \A q \in VectorPending : \A m : Applied(q, m) = m.done
      /\ \A m : Applied("find", m) = m.done
  BY DEF Applied, VectorPending, Maintaining, Vectoring, Opening, Loading, Rebuilding
<1>5. pc[c] \in VectorPending
  BY DEF VectorPending
<1> QED
  BY <1>1, <1>2, <1>3, <1>4, <1>5 DEF LoadingOK, Labels

\* Only the entry at hand differs.
LEMMA LoadingLocals ==
  ASSUME NEW l \in Local, NEW e, NEW f
  PROVE  /\ LET m == [l EXCEPT !.ent = e] IN
            m.ent = e /\ m.done = l.done /\ m.defs = l.defs
         /\ LET m == [l EXCEPT !.fill = f] IN
            m.fill = f /\ m.ent = l.ent /\ m.done = l.done /\ m.defs = l.defs
BY DEF Local

\* Back to the caller once the entry is loaded.
LEMMA ReturnLoaded ==
  ASSUME VectorState, NEW c \in Conns, pc[c] \in Loading, NEW m,
         m.done = loc[c].done, m.defs = loc[c].defs,
         NEW h, NEW reg, reg[Name(c)] # NoSlot, h[reg[Name(c)]].loaded,
         \A r \in loc[c].done :
           InLoaded(r, docs, registry, heap) => InLoaded(r, docs, reg, h)
  PROVE  VectorOK(c, loc[c].ret, stmt[c], m, docs, reg, h)
<1>1. loc[c].ret \in {"insert_vector", "find"}
  BY LoadingVector
<1>2. /\ Applied(loc[c].ret, m) = m.done /\ Applied(pc[c], loc[c]) = loc[c].done
      /\ VectorOK(c, pc[c], stmt[c], loc[c], docs, registry, heap)
  BY <1>1, LoadingVector DEF VectorPending
<1> QED
  BY <1>1, <1>2 DEF VectorOK, Rebuilding, Name

LEMMA EnsureVectorVector ==
  ASSUME VectorState, NEW c \in Conns, EnsureVector(c)
  PROVE  VectorInv'
<1> DEFINE e == registry[Name(c)]
           l == loc[c]
<1>1. pc[c] = "ensure_vector" /\ pc[c] \in Loading /\ UNCHANGED <<docs, catalog>>
  BY DEF EnsureVector, At, Loading, durable
<1>2. /\ l \in Local /\ pc[c] # "idle" /\ Name(c) \in Names
      /\ l.ret \in Labels \ {"idle", "rebuild_insert"}
      /\ Applied(pc[c], l) = l.done /\ (\A m : Applied("rebuild_lock", m) = m.done)
      /\ VectorOK(c, pc[c], stmt[c], l, docs, registry, heap)
  BY <1>1, LoadingVector DEF VectorPending, Loading, Rebuilding
<1>3. CASE e # NoSlot
  <2>1. UNCHANGED <<registry, heap>>
    BY <1>3 DEF EnsureVector, services
  <2>2. CASE Goto(c, l.ret, l) /\ heap[e].loaded
    <3>1. VectorOK(c, l.ret, stmt[c], l, docs, registry, heap)
      BY <1>1, <1>3, <2>2, ReturnLoaded
    <3> QED
      BY <1>1, <1>2, <2>1, <2>2, <3>1, StillVector
  <2>3. CASE Goto(c, "rebuild_lock", [l EXCEPT !.ent = e])
    <3> DEFINE m == [l EXCEPT !.ent = e]
    <3>1. m.ent = e /\ m.done = l.done /\ m.defs = l.defs /\ Goto(c, "rebuild_lock", m)
      BY <1>2, <2>3, LoadingLocals
    <3> HIDE DEF m
    <3>2. VectorOK(c, "rebuild_lock", stmt[c], m, docs, registry, heap)
      BY <1>2, <3>1 DEF VectorOK, Name
    <3> QED
      BY <1>1, <1>2, <2>1, <3>1, <3>2, StillVector DEF Labels
  <2> QED
    BY <1>3, <2>2, <2>3 DEF EnsureVector
<1>4. CASE e = NoSlot
  <2>1. PICK f \in Slots : /\ Allocate(Name(c), f)
                           /\ Goto(c, "rebuild_lock", [l EXCEPT !.ent = f])
    BY <1>4 DEF EnsureVector
  <2> DEFINE m == [l EXCEPT !.ent = f]
  <2>2. m.ent = f /\ m.done = l.done /\ m.defs = l.defs /\ Goto(c, "rebuild_lock", m)
    BY <1>2, <2>1, LoadingLocals
  <2> HIDE DEF m
  <2>3. /\ registry' = [registry EXCEPT ![Name(c)] = f] /\ heap' = [heap EXCEPT ![f] = NewEntry]
        /\ \A n \in Names : registry[n] # f
    BY <1>4, <2>1 DEF Allocate, Released, FreeSlots
  <2>4. /\ \A n \in Names : registry'[n] = IF n = Name(c) THEN f ELSE registry[n]
        /\ \A g \in Slots : g # f => heap'[g] = heap[g]
        /\ heap'[f] = NewEntry /\ f # NoSlot
        /\ \A n \in Names : registry[n] # NoSlot =>
             /\ n # Name(c) /\ registry'[n] = registry[n]
             /\ heap'[registry[n]] = heap[registry[n]]
    BY <1>2, <1>4, <2>3, ConstantsAssumption DEF VectorState, TypeInv, TypeOK
  <2>5. OneName(registry')
    BY <2>3, <2>4 DEF OneName, VectorState, VectorInv
  <2>6. VectorCalm(c)
    <3>1. \A r \in Recs : VectorName[r[1]] \in Names
      BY EntryNamed
    <3> QED
      BY <1>1, <2>4, <3>1 DEF VectorCalm, Entry
  <2>7. \A r \in Recs : InLoaded(r, docs, registry, heap) => InLoaded(r, docs', registry', heap')
    BY <1>1, <2>4, EntryNamed DEF InLoaded, Entry
  <2>8. VectorOK(c, "rebuild_lock", stmt[c], m, docs', registry', heap')
    <3>1. l.done \subseteq Recs
      BY Known DEF VectorState
    <3> QED
      BY <1>2, <2>2, <2>4, <2>7, <3>1 DEF VectorOK, Name
  <2>9. ASSUME NEW r \in acked, "vector" \in catalog[r[1]]
        PROVE  /\ Survives(r, docs', registry', heap')
               /\ Refilled(r, "rebuild_lock", stmt[c], m, docs', registry', heap')
    <3>1. r \in Recs /\ VectorName[r[1]] \in Names
      BY EntryNamed DEF VectorState, TypeInv, TypeOK
    <3>2. Survives(r, docs, registry, heap)
      BY <2>9 DEF VectorState, VectorInv
    <3>3. ~heap'[f].loaded
      BY <2>4 DEF NewEntry
    <3>4. Survives(r, docs', registry', heap')
      BY <1>1, <2>4, <3>1, <3>2, <3>3 DEF Survives, Entry
    <3> QED
      BY <3>4 DEF Refilled
  <2> QED
    BY <1>2, <2>2, <2>5, <2>6, <2>8, <2>9, GotoVector DEF Labels
<1> QED
  BY <1>3, <1>4

\* A step that changes flags and locks of no entry, and vectors only of its own
\* records or in the entry it rebuilds.
LEMMA VectorsCalm ==
  ASSUME VectorState, NEW c \in Conns, pc[c] # "idle", UNCHANGED <<registry, catalog, docs>>,
         \A e \in Slots : heap'[e].loaded = heap[e].loaded /\ heap'[e].lock = heap[e].lock,
         \A r \in Recs \ Targets(stmt[c]) : Entry(r, registry) # NoSlot =>
           \/ heap'[Entry(r, registry)].vecs[r[2]] = heap[Entry(r, registry)].vecs[r[2]]
           \/ ~heap[Entry(r, registry)].loaded /\ heap[Entry(r, registry)].lock = c
  PROVE  /\ VectorCalm(c) /\ OneName(registry')
         /\ \A r \in acked : "vector" \in catalog[r[1]] => Survives(r, docs', registry', heap')
<1>1. \A n \in Names : registry[n] # NoSlot => registry[n] \in Slots
  BY DEF VectorState, TypeInv, TypeOK
<1>2. VectorCalm(c)
  BY <1>1 DEF VectorCalm
<1>3. OneName(registry')
  BY DEF VectorState, VectorInv
<1>4. ASSUME NEW r \in acked, "vector" \in catalog[r[1]]
      PROVE  Survives(r, docs', registry', heap')
  <2>1. r \in Recs \ Targets(stmt[c]) /\ VectorName[r[1]] \in Names
    BY EntryNamed DEF VectorState, TypeInv, TypeOK, TextInv, AckedOK
  <2>2. Survives(r, docs, registry, heap)
    BY <1>4 DEF VectorState, VectorInv
  <2>3. Entry(r, registry) # NoSlot => Entry(r, registry) \in Slots
    BY <1>1, <2>1 DEF Entry
  <2> QED
    BY <2>1, <2>2, <2>3 DEF Survives
<1> QED
  BY <1>2, <1>3, <1>4

LEMMA RebuildLockVector ==
  ASSUME VectorState, NEW c \in Conns, RebuildLock(c)
  PROVE  VectorInv'
<1> DEFINE e == loc[c].ent
           l == loc[c]
<1>1. /\ pc[c] = "rebuild_lock" /\ pc[c] \in Rebuilding /\ pc[c] \in Loading
      /\ UNCHANGED <<docs, catalog, registry>>
  BY DEF RebuildLock, At, Loading, Rebuilding, durable, services
<1>2. /\ l \in Local /\ pc[c] # "idle"
      /\ l.ret \in Labels \ {"idle", "rebuild_insert"}
      /\ Applied(pc[c], l) = l.done /\ (\A m : Applied("rebuild_scan", m) = m.done)
      /\ VectorOK(c, pc[c], stmt[c], l, docs, registry, heap)
      /\ e \in Slots /\ e = registry[Name(c)] /\ e # NoSlot
  BY <1>1, LoadingVector, RebuiltEntry DEF VectorPending, Loading, Rebuilding
<1>3. CASE heap[e].loaded
  <2> DEFINE m == [l EXCEPT !.ent = NoSlot]
  <2>1. Goto(c, l.ret, m) /\ UNCHANGED heap /\ m.done = l.done /\ m.defs = l.defs
    BY <1>2, <1>3, LoadingLocals DEF RebuildLock, services
  <2> HIDE DEF m
  <2>2. VectorOK(c, l.ret, stmt[c], m, docs, registry, heap)
    BY <1>1, <1>2, <1>3, <2>1, ReturnLoaded
  <2> QED
    BY <1>1, <1>2, <2>1, <2>2, StillVector
<1>4. CASE ~heap[e].loaded
  <2>1. /\ heap' = [heap EXCEPT ![e].lock = c] /\ Goto(c, "rebuild_scan", l)
        /\ heap[e].lock = NoConn
    BY <1>4 DEF RebuildLock
  <2>2. \A g \in Slots : /\ heap'[g].loaded = heap[g].loaded /\ heap'[g].vecs = heap[g].vecs
                         /\ heap'[g].lock = IF g = e THEN c ELSE heap[g].lock
    BY <1>2, <2>1, SharedNow DEF VectorState, SharedOK, VectorEntry
  <2>3. \A n \in Names : registry[n] # NoSlot => registry[n] \in Slots
    BY DEF VectorState, TypeInv, TypeOK
  <2>4. \A r \in Recs : Entry(r, registry) # NoSlot => Entry(r, registry) \in Slots
    BY <2>3, EntryNamed DEF Entry
  <2>5. VectorCalm(c) /\ OneName(registry')
    <3>1. OneName(registry')
      BY <1>1 DEF VectorState, VectorInv
    <3> QED
      BY <1>1, <2>1, <2>2, <2>3, <2>4, <3>1, ConstantsAssumption DEF VectorCalm
  <2>6. VectorOK(c, "rebuild_scan", stmt[c], l, docs', registry', heap')
    <3>1. \A r \in l.done : InLoaded(r, docs, registry, heap) => InLoaded(r, docs', registry', heap')
      BY <1>1, <2>2, <2>4, Known DEF InLoaded, VectorState
    <3> QED
      BY <1>1, <1>2, <1>4, <2>2, <3>1 DEF VectorOK, Name
  <2>7. ASSUME NEW r \in acked, "vector" \in catalog[r[1]]
        PROVE  /\ Survives(r, docs', registry', heap')
               /\ Refilled(r, "rebuild_scan", stmt[c], l, docs', registry', heap')
    <3>1. r \in Recs /\ Survives(r, docs, registry, heap)
      BY <2>7 DEF VectorState, VectorInv, TypeInv, TypeOK
    <3> QED
      BY <1>1, <2>2, <2>4, <3>1 DEF Survives, Refilled
  <2> QED
    BY <1>2, <2>1, <2>5, <2>6, <2>7, GotoVector DEF Labels
<1> QED
  BY <1>3, <1>4

\* The scan sees an acknowledged record as it is stored, under its key once.
LEMMA EmbeddingsOf ==
  ASSUME SharedOK, NEW r \in Recs
  PROVE  /\ Embedded(docs[r]) => <<r[2], docs[r].vec>> \in Embeddings(r[1])
         /\ \A f \in Embeddings(r[1]) : f[1] = r[2] =>
              docs[r] # NoDoc /\ docs[r].vec # None /\ f[2] = docs[r].vec
<1>1. Embedded(docs[r]) => r \in Stored(r[1]) /\ docs[r].vec # None
  BY ConstantsAssumption DEF Embedded, Stored
<1>2. ASSUME NEW f \in Embeddings(r[1]), f[1] = r[2]
      PROVE  docs[r] # NoDoc /\ docs[r].vec # None /\ f[2] = docs[r].vec
  <2>1. PICK q \in Stored(r[1]) : docs[q].vec # None /\ f = <<q[2], docs[q].vec>>
    BY DEF Embeddings
  <2>2. q \in Recs /\ q[1] = r[1] /\ docs[q] # NoDoc
    BY DEF Stored
  <2>3. q = r
    BY <1>2, <2>1, <2>2 DEF Recs
  <2> QED
    BY <2>1, <2>2, <2>3
<1> QED
  BY <1>1, <1>2 DEF Embeddings

LEMMA RebuildScanVector ==
  ASSUME VectorState, NEW c \in Conns, RebuildScan(c)
  PROVE  VectorInv'
<1> DEFINE l == loc[c]
           t == TableOf(stmt[c])
           m == [l EXCEPT !.fill = Embeddings(t)]
<1>1. /\ pc[c] = "rebuild_scan" /\ pc[c] \in Loading /\ pc[c] \in Rebuilding
      /\ UNCHANGED <<docs, catalog, registry, heap>> /\ Goto(c, "rebuild_insert", m)
  BY DEF RebuildScan, At, Loading, Rebuilding, durable, services
<1>2. /\ l \in Local /\ pc[c] # "idle"
      /\ Applied(pc[c], l) = l.done /\ (\A n : Applied("rebuild_insert", n) = n.done)
      /\ VectorOK(c, pc[c], stmt[c], l, docs, registry, heap)
  BY <1>1, LoadingVector DEF VectorPending, Loading, Rebuilding
<1>3. m.fill = Embeddings(t) /\ m.ent = l.ent /\ m.done = l.done /\ m.defs = l.defs
  BY <1>2, LoadingLocals
<1> HIDE DEF m
<1>4. VectorOK(c, "rebuild_insert", stmt[c], m, docs', registry', heap')
  BY <1>1, <1>2, <1>3 DEF VectorOK, Rebuilding
<1>5. ASSUME NEW r \in acked
      PROVE  Refilled(r, "rebuild_insert", stmt[c], m, docs', registry', heap')
  <2>1. r \in Recs /\ SharedOK
    BY SharedNow DEF VectorState, TypeInv, TypeOK
  <2> QED
    BY <1>1, <1>3, <2>1, EmbeddingsOf DEF Refilled
<1>6. /\ VectorCalm(c) /\ OneName(registry')
      /\ \A r \in acked : "vector" \in catalog[r[1]] => Survives(r, docs', registry', heap')
  BY <1>1, <1>2, StillCalm
<1> QED
  BY <1>1, <1>2, <1>4, <1>5, <1>6, GotoVector DEF Labels

\* One vector differs.
LEMMA InsertedAt ==
  ASSUME SharedOK, NEW n \in Names, NEW k \in Keys, NEW v, NEW h, h = Inserted(n, k, v)
  PROVE  \A e \in Slots :
           /\ h[e].loaded = heap[e].loaded /\ h[e].lock = heap[e].lock
           /\ \A j \in Keys : h[e].vecs[j] = IF e = registry[n] /\ v \in Vecs /\ j = k THEN v
                                             ELSE heap[e].vecs[j]
<1>1. CASE registry[n] # NoSlot /\ v \in Vecs
  <2>1. registry[n] \in Slots /\ heap \in [Slots -> VectorEntry]
    BY <1>1 DEF SharedOK
  <2>2. h = [heap EXCEPT ![registry[n]].vecs[k] = v]
    BY <1>1 DEF Inserted
  <2> QED
    BY <1>1, <2>1, <2>2 DEF VectorEntry
<1>2. CASE ~(registry[n] # NoSlot /\ v \in Vecs)
  BY <1>2, ConstantsAssumption DEF Inserted
<1> QED
  BY <1>1, <1>2

LEMMA RebuildInsertVector ==
  ASSUME VectorState, OwnNames, NEW c \in Conns, RebuildInsert(c)
  PROVE  VectorInv'
<1> DEFINE l == loc[c]
           e == loc[c].ent
<1>1. /\ pc[c] = "rebuild_insert" /\ pc[c] \in Loading /\ pc[c] \in Rebuilding
      /\ UNCHANGED <<docs, catalog, registry>>
  BY DEF RebuildInsert, At, Loading, Rebuilding, durable
<1>2. PICK f \in l.fill : /\ heap' = Inserted(Name(c), f[1], f[2])
                          /\ Goto(c, "rebuild_insert", [l EXCEPT !.fill = l.fill \ {f}])
  BY DEF RebuildInsert
<1> DEFINE m == [l EXCEPT !.fill = l.fill \ {f}]
<1>3. /\ l \in Local /\ pc[c] # "idle" /\ Name(c) \in Names
      /\ Applied(pc[c], l) = l.done /\ (\A n : Applied("rebuild_insert", n) = n.done)
      /\ VectorOK(c, pc[c], stmt[c], l, docs, registry, heap)
      /\ e \in Slots /\ e = registry[Name(c)] /\ e # NoSlot
      /\ heap[e].lock = c /\ ~heap[e].loaded
  BY <1>1, LoadingVector, RebuiltEntry DEF VectorPending, Loading, Rebuilding
<1>4. m.fill = l.fill \ {f} /\ m.ent = l.ent /\ m.done = l.done /\ m.defs = l.defs
  BY <1>3, LoadingLocals
<1>5. f \in Keys \X (Texts \cup Vecs \cup OddVecs) /\ f[1] \in Keys
  BY <1>3, LocalFields
<1>6. \A g \in Slots :
        /\ heap'[g].loaded = heap[g].loaded /\ heap'[g].lock = heap[g].lock
        /\ \A j \in Keys : heap'[g].vecs[j] = IF g = e /\ f[2] \in Vecs /\ j = f[1] THEN f[2]
                                              ELSE heap[g].vecs[j]
  BY <1>2, <1>3, <1>5, SharedNow, InsertedAt DEF VectorState
<1> HIDE DEF m
<1>7. \A r \in Recs : /\ r[2] \in Keys
                      /\ Entry(r, registry) # NoSlot => Entry(r, registry) \in Slots
  BY EntryNamed DEF VectorState, TypeInv, TypeOK, Entry, Recs
<1>8. /\ VectorCalm(c) /\ OneName(registry')
      /\ \A r \in acked : "vector" \in catalog[r[1]] => Survives(r, docs', registry', heap')
  BY <1>1, <1>3, <1>6, <1>7, VectorsCalm
<1>9. VectorOK(c, "rebuild_insert", stmt[c], m, docs', registry', heap')
  <2>1. \A r \in l.done : InLoaded(r, docs, registry, heap) => InLoaded(r, docs', registry', heap')
    BY <1>1, <1>3, <1>6, <1>7, Known DEF InLoaded, VectorState
  <2> QED
    BY <1>1, <1>3, <1>4, <1>6, <2>1 DEF VectorOK, Rebuilding
<1>10. ASSUME NEW r \in acked, "vector" \in catalog[r[1]]
       PROVE  Refilled(r, "rebuild_insert", stmt[c], m, docs', registry', heap')
  <2> SUFFICES ASSUME TableOf(stmt[c]) = r[1], Embedded(docs[r])
               PROVE  /\ \A g \in m.fill : g[1] = r[2] => g[2] = docs[r].vec
                      /\ \/ <<r[2], docs[r].vec>> \in m.fill
                         \/ heap'[Entry(r, registry)].vecs[r[2]] = docs[r].vec
    BY <1>1 DEF Refilled
  <2>1. r \in Recs /\ Entry(r, registry) = e /\ docs[r].vec \in Vecs
    BY <1>3 DEF VectorState, TypeInv, TypeOK, Entry, Name, Embedded
  <2>2. /\ \A g \in l.fill : g[1] = r[2] => g[2] = docs[r].vec
        /\ <<r[2], docs[r].vec>> \in l.fill \/ heap[e].vecs[r[2]] = docs[r].vec
    BY <1>1, <1>10, <2>1 DEF VectorState, VectorInv, Refilled
  <2>3. heap'[e].vecs[r[2]] = IF f[2] \in Vecs /\ r[2] = f[1] THEN f[2] ELSE heap[e].vecs[r[2]]
    BY <1>3, <1>6, <1>7, <2>1
  <2>4. CASE f[1] = r[2]
    BY <1>4, <2>1, <2>2, <2>3, <2>4
  <2>5. CASE f[1] # r[2]
    BY <1>4, <1>5, <2>1, <2>2, <2>3, <2>5
  <2> QED
    BY <2>4, <2>5
<1>11. Goto(c, "rebuild_insert", m)
  BY <1>2 DEF m
<1> QED
  BY <1>3, <1>8, <1>9, <1>10, <1>11, GotoVector DEF Labels

LEMMA RebuildDoneVector ==
  ASSUME VectorState, OwnNames, NEW c \in Conns, RebuildDone(c)
  PROVE  VectorInv'
<1> DEFINE l == loc[c]
           e == loc[c].ent
           m == [l EXCEPT !.ent = NoSlot]
<1>1. /\ pc[c] = "rebuild_insert" /\ pc[c] \in Loading /\ pc[c] \in Rebuilding /\ l.fill = {}
      /\ UNCHANGED <<docs, catalog, registry>> /\ Goto(c, l.ret, m)
      /\ heap' = [heap EXCEPT ![e].loaded = TRUE, ![e].lock = NoConn]
  BY DEF RebuildDone, At, Loading, Rebuilding, durable
<1>2. /\ l \in Local /\ pc[c] # "idle" /\ Name(c) \in Names
      /\ l.ret \in Labels \ {"idle", "rebuild_insert"}
      /\ e \in Slots /\ e = registry[Name(c)] /\ e # NoSlot /\ heap[e].lock = c
  BY <1>1, LoadingVector, RebuiltEntry
<1>3. m.done = l.done /\ m.defs = l.defs
  BY <1>2, LoadingLocals
<1> HIDE DEF m
<1>4. \A g \in Slots : /\ heap'[g].loaded = (heap[g].loaded \/ g = e)
                       /\ heap'[g].vecs = heap[g].vecs
                       /\ heap'[g].lock = IF g = e THEN NoConn ELSE heap[g].lock
  BY ZenonT(60), <1>1, <1>2, SharedNow DEF VectorState, SharedOK, VectorEntry
<1>5. \A n \in Names : registry[n] # NoSlot => registry[n] \in Slots
  BY DEF VectorState, TypeInv, TypeOK
<1>6. \A r \in Recs : Entry(r, registry) # NoSlot => Entry(r, registry) \in Slots
  BY <1>5, EntryNamed DEF Entry
<1>7. OneName(registry')
  BY <1>1 DEF VectorState, VectorInv
<1>8. VectorCalm(c)
  <2>0. UNCHANGED <<docs, catalog, registry>>
    BY <1>1
  <2> HIDE DEF e
  <2>1. ASSUME NEW n \in Names, registry[n] # NoSlot
        PROVE  /\ heap[registry[n]].loaded => heap'[registry[n]].loaded
               /\ heap[registry[n]].lock \in Conns \ {c} =>
                    /\ heap'[registry[n]].lock = heap[registry[n]].lock
                    /\ heap'[registry[n]].loaded = heap[registry[n]].loaded
    <3>1. registry[n] \in Slots
      BY <1>5, <2>1
    <3>2. CASE registry[n] = e
      BY <1>2, <1>4, <3>1, <3>2
    <3>3. CASE registry[n] # e
      <4>1. heap'[registry[n]].loaded = (heap[registry[n]].loaded \/ registry[n] = e)
            /\ heap'[registry[n]].lock = heap[registry[n]].lock
        BY <1>4, <3>1, <3>3
      <4>2. heap[registry[n]].loaded \in BOOLEAN
        BY <3>1, SharedNow DEF VectorState, SharedOK, VectorEntry
      <4> QED
        BY <3>3, <4>1, <4>2
    <3> QED
      BY <3>2, <3>3
  <2>2. \A r \in Recs : Entry(r, registry) # NoSlot =>
          heap'[Entry(r, registry)].vecs[r[2]] = heap[Entry(r, registry)].vecs[r[2]]
    BY <1>4, <1>6
  <2> QED
    BY <2>0, <2>1, <2>2 DEF VectorCalm
<1>9. VectorOK(c, l.ret, stmt[c], m, docs', registry', heap')
  <2>1. \A r \in l.done : InLoaded(r, docs, registry, heap) => InLoaded(r, docs, registry', heap')
    BY ZenonT(60), <1>1, <1>4, <1>6, Known DEF InLoaded, VectorState
  <2>2. registry'[Name(c)] # NoSlot /\ heap'[registry'[Name(c)]].loaded
    BY <1>1, <1>2, <1>4
  <2>3. VectorOK(c, l.ret, stmt[c], m, docs, registry', heap')
    BY <1>1, <1>3, <2>1, <2>2, ReturnLoaded
  <2> QED
    BY <1>1, <2>3
<1>10. ASSUME NEW r \in acked, "vector" \in catalog[r[1]]
       PROVE  /\ Survives(r, docs', registry', heap')
              /\ Refilled(r, l.ret, stmt[c], m, docs', registry', heap')
  <2>1. r \in Recs /\ VectorName[r[1]] \in Names /\ r[1] \in Tables
    BY EntryNamed DEF VectorState, TypeInv, TypeOK, Recs
  <2>2. Survives(r, docs, registry, heap) /\ Refilled(r, pc[c], stmt[c], l, docs, registry, heap)
    BY <1>2, <1>10 DEF VectorState, VectorInv
  <2>3. CASE Entry(r, registry) # e
    BY ZenonT(60), <1>1, <1>2, <1>4, <1>6, <2>1, <2>2, <2>3 DEF Survives, Refilled
  <2>4. CASE Entry(r, registry) = e
    <3>1. VectorName[r[1]] = Name(c)
      BY <1>2, <2>1, <2>4 DEF VectorState, VectorInv, OneName, Entry
    <3>2. r[1] = TableOf(stmt[c])
      BY <1>2, <2>1, <3>1, Known DEF OwnNames, Name, VectorState
    <3>3. Embedded(docs[r]) => heap[e].vecs[r[2]] = docs[r].vec
      BY <1>1, <2>2, <2>4, <3>2 DEF Refilled
    <3> QED
      BY ZenonT(60), <1>1, <1>2, <1>4, <2>4, <3>3 DEF Survives, Refilled
  <2> QED
    BY <2>3, <2>4
<1> QED
  BY <1>1, <1>2, <1>7, <1>8, <1>9, <1>10, GotoVector

\* The records of a write whose vector index is done are not the one at hand.
LEMMA WriterVector ==
  ASSUME VectorState, NEW c \in Conns,
         pc[c] \in {"insert_vector", "vector_exists", "remove_vector"}
  PROVE  /\ pc[c] # "idle" /\ stmt[c].op \in Writes /\ loc[c] \in Local /\ Name(c) \in Names
         /\ loc[c].cur \in Targets(stmt[c]) /\ loc[c].cur \in Recs /\ loc[c].cur[2] \in Keys
         /\ loc[c].cur \notin loc[c].done /\ loc[c].done \subseteq Recs
         /\ loc[c].doc = docs[loc[c].cur] /\ VectorName[loc[c].cur[1]] = Name(c)
         /\ Applied(pc[c], loc[c]) = loc[c].done
         /\ Applied("remove_vector", loc[c]) = loc[c].done
         /\ Applied("maintain", loc[c]) \subseteq loc[c].done \cup {loc[c].cur}
         /\ VectorOK(c, pc[c], stmt[c], loc[c], docs, registry, heap)
<1>1. pc[c] # "idle"
  OBVIOUS
<1>2. stmt[c].op \in Writes
  BY <1>1, Known, LocalAt DEF VectorState, Applying
<1>3. /\ WriterOK(pc[c], stmt[c], loc[c], docs, fts, catalog)
      /\ Targets(stmt[c]) \subseteq Recs /\ \A r \in Targets(stmt[c]) : r[1] = TableOf(stmt[c])
      /\ loc[c] \in Local
  BY <1>1, <1>2, Writing DEF VectorState
<1>4. pc[c] \in Maintaining /\ pc[c] \in VectorPending /\ "remove_vector" \in VectorPending
  BY DEF Maintaining, Vectoring, VectorPending
<1>5. /\ loc[c].cur \in Targets(stmt[c]) \ (loc[c].rows \cup loc[c].done)
      /\ loc[c].doc = docs[loc[c].cur] /\ loc[c].done \subseteq Targets(stmt[c])
  BY <1>3, <1>4 DEF WriterOK
<1>6. /\ Applied(pc[c], loc[c]) = loc[c].done
      /\ Applied("remove_vector", loc[c]) = loc[c].done
      /\ Applied("maintain", loc[c]) \subseteq loc[c].done \cup {loc[c].cur}
  BY <1>4 DEF Applied
<1>7. VectorOK(c, pc[c], stmt[c], loc[c], docs, registry, heap)
  BY <1>1 DEF VectorState, VectorInv
<1> QED
  BY <1>1, <1>2, <1>3, <1>5, <1>6, <1>7, Known DEF Recs, Name, VectorState

\* The record at hand gets the vector v in the registered entry, or loses it.
LEMMA OneVector ==
  ASSUME VectorState, OwnNames, NEW c \in Conns,
         pc[c] \in {"insert_vector", "remove_vector"}, UNCHANGED <<docs, catalog, registry>>,
         Goto(c, "maintain", loc[c]),
         \A g \in Slots :
           /\ heap'[g].loaded = heap[g].loaded /\ heap'[g].lock = heap[g].lock
           /\ \A j \in Keys : g # registry[Name(c)] \/ j # loc[c].cur[2] =>
                                heap'[g].vecs[j] = heap[g].vecs[j],
         InLoaded(loc[c].cur, docs', registry', heap')
  PROVE  VectorInv'
<1> DEFINE l == loc[c]
<1>1. /\ pc[c] # "idle" /\ Name(c) \in Names /\ l.cur \in Targets(stmt[c]) /\ l.cur \in Recs
      /\ l.cur \notin l.done /\ l.done \subseteq Recs /\ VectorName[l.cur[1]] = Name(c)
      /\ Applied(pc[c], l) = l.done /\ Applied("maintain", l) \subseteq l.done \cup {l.cur}
      /\ VectorOK(c, pc[c], stmt[c], l, docs, registry, heap) /\ stmt[c].op \in Writes
  BY WriterVector
<1>2. \A r \in Recs : /\ r[2] \in Keys /\ r[1] \in Tables /\ VectorName[r[1]] \in Names
                      /\ Entry(r, registry) # NoSlot => Entry(r, registry) \in Slots
  BY EntryNamed DEF VectorState, TypeInv, TypeOK, Entry, Recs
<1>3. ASSUME NEW r \in Recs, r # l.cur, Entry(r, registry) # NoSlot
      PROVE  heap'[Entry(r, registry)].vecs[r[2]] = heap[Entry(r, registry)].vecs[r[2]]
  <2>1. Entry(r, registry) # registry[Name(c)] \/ r[2] # l.cur[2]
    <3> SUFFICES ASSUME Entry(r, registry) = registry[Name(c)], r[2] = l.cur[2] PROVE FALSE
      OBVIOUS
    <3>1. VectorName[r[1]] = VectorName[l.cur[1]]
      BY <1>1, <1>2, <1>3 DEF VectorState, VectorInv, OneName, Entry
    <3>2. r[1] = l.cur[1]
      BY <1>1, <1>2, <3>1 DEF OwnNames
    <3> QED
      BY <1>1, <1>3, <3>2 DEF Recs
  <2> QED
    BY <1>2, <1>3, <2>1
<1>4. /\ VectorCalm(c) /\ OneName(registry')
      /\ \A r \in acked : "vector" \in catalog[r[1]] => Survives(r, docs', registry', heap')
  <2>1. \A r \in Recs \ Targets(stmt[c]) : r # l.cur
    BY <1>1
  <2> QED
    BY <1>1, <1>3, <2>1, VectorsCalm
<1>5. \A r \in l.done : InLoaded(r, docs, registry, heap) => InLoaded(r, docs', registry', heap')
  BY <1>1, <1>2, <1>3 DEF InLoaded
<1>6. VectorOK(c, "maintain", stmt[c], l, docs', registry', heap')
  BY <1>1, <1>5 DEF VectorOK, Rebuilding
<1>7. \A r : Refilled(r, "maintain", stmt[c], l, docs', registry', heap')
  BY SMTT(30) DEF Refilled
<1> QED
  BY <1>1, <1>4, <1>6, <1>7, GotoVector DEF Labels

LEMMA InsertVectorVector ==
  ASSUME VectorState, OwnNames, NEW c \in Conns, InsertVector(c)
  PROVE  VectorInv'
<1> DEFINE l == loc[c]
<1>1. /\ pc[c] = "insert_vector" /\ UNCHANGED <<docs, catalog, registry>>
      /\ Goto(c, "maintain", l) /\ heap' = Inserted(Name(c), l.cur[2], l.doc.vec)
  BY DEF InsertVector, At, durable
<1>2. /\ l.cur \in Recs /\ l.cur[2] \in Keys /\ l.doc = docs[l.cur] /\ Name(c) \in Names
      /\ VectorName[l.cur[1]] = Name(c)
      /\ VectorOK(c, pc[c], stmt[c], l, docs, registry, heap)
  BY <1>1, WriterVector
<1>3. registry[Name(c)] # NoSlot /\ registry[Name(c)] \in Slots /\ heap[registry[Name(c)]].loaded
  BY SMTT(30), <1>1, <1>2 DEF VectorOK, Name, VectorState, TypeInv, TypeOK
<1>4. \A g \in Slots :
        /\ heap'[g].loaded = heap[g].loaded /\ heap'[g].lock = heap[g].lock
        /\ \A j \in Keys : heap'[g].vecs[j] =
             IF g = registry[Name(c)] /\ l.doc.vec \in Vecs /\ j = l.cur[2] THEN l.doc.vec
             ELSE heap[g].vecs[j]
  BY SMTT(30), <1>1, <1>2, SharedNow, InsertedAt DEF VectorState
<1>5. InLoaded(l.cur, docs', registry', heap')
  BY <1>1, <1>2, <1>3, <1>4 DEF InLoaded, Entry, Embedded
<1> QED
  BY <1>1, <1>4, <1>5, OneVector

LEMMA RemoveVectorVector ==
  ASSUME VectorState, OwnNames, NEW c \in Conns, RemoveVector(c)
  PROVE  VectorInv'
<1> DEFINE l == loc[c]
           e == registry[Name(c)]
<1>1. /\ pc[c] = "remove_vector" /\ UNCHANGED <<docs, catalog, registry>>
      /\ Goto(c, "maintain", l)
      /\ heap' = IF e = NoSlot THEN heap ELSE [heap EXCEPT ![e].vecs[l.cur[2]] = None]
  BY DEF RemoveVector, At, durable
<1>2. /\ l.cur[2] \in Keys /\ l.doc = docs[l.cur] /\ Name(c) \in Names
      /\ VectorOK(c, pc[c], stmt[c], l, docs, registry, heap)
  BY <1>1, WriterVector
<1>3. \A g \in Slots :
        /\ heap'[g].loaded = heap[g].loaded /\ heap'[g].lock = heap[g].lock
        /\ \A j \in Keys : g # e \/ j # l.cur[2] => heap'[g].vecs[j] = heap[g].vecs[j]
  <2>1. CASE e = NoSlot
    BY <1>1, <2>1
  <2>2. CASE e # NoSlot
    <3>1. e \in Slots /\ heap \in [Slots -> VectorEntry]
      BY <1>2, <2>2, SharedNow DEF SharedOK, VectorState
    <3> QED
      BY <1>1, <1>2, <2>2, <3>1 DEF VectorEntry
  <2> QED
    BY <2>1, <2>2
<1>4. ~Embedded(docs[l.cur])
  <2>1. ~HasVector(l)
    BY <1>1, <1>2 DEF VectorOK
  <2> QED
    BY <1>2, <2>1, ConstantsAssumption DEF HasVector, Embedded
<1>5. InLoaded(l.cur, docs', registry', heap')
  BY <1>1, <1>4 DEF InLoaded
<1> QED
  BY <1>1, <1>3, <1>5, OneVector

LEMMA VectorExistsVector ==
  ASSUME VectorState, NEW c \in Conns, VectorExists(c)
  PROVE  VectorInv'
<1> DEFINE l == loc[c]
<1>1. /\ pc[c] = "vector_exists" /\ UNCHANGED <<docs, catalog, registry, heap>>
      /\ Goto(c, "maintain", l) \/ Goto(c, "remove_vector", l)
  BY DEF VectorExists, At, durable, services
<1>2. /\ pc[c] # "idle" /\ l.doc = docs[l.cur] /\ Applied(pc[c], l) = l.done
      /\ Applied("remove_vector", l) = l.done
      /\ Applied("maintain", l) \subseteq l.done \cup {l.cur}
      /\ VectorOK(c, pc[c], stmt[c], l, docs, registry, heap)
  BY <1>1, WriterVector
<1>3. ~HasVector(l) /\ ~Embedded(docs[l.cur])
  BY <1>1, <1>2, ConstantsAssumption DEF VectorOK, HasVector, Embedded
<1>4. InLoaded(l.cur, docs, registry, heap)
  BY <1>3 DEF InLoaded
<1>5. /\ VectorOK(c, "maintain", stmt[c], l, docs', registry, heap)
      /\ VectorOK(c, "remove_vector", stmt[c], l, docs', registry, heap)
  BY <1>1, <1>2, <1>3, <1>4 DEF VectorOK, Rebuilding
<1> QED
  BY <1>1, <1>2, <1>5, StillVector DEF Labels

LEMMA VectorInvInit == Init => VectorInv
BY DEF Init, VectorInv, OneName

LEMMA CrashVector ==
  ASSUME TypeInv, Crash
  PROVE  VectorInv'
<1>1. (\A c \in Conns : pc'[c] = "idle") /\ (\A n \in Names : registry'[n] = NoSlot)
  BY DEF Crash
<1>2. acked' \subseteq Recs
  BY DEF Crash, TypeInv, TypeOK
<1>3. \A r \in acked' : Survives(r, docs', registry', heap')
  BY <1>1, <1>2, EntryNamed DEF Survives, Entry
<1> QED
  BY <1>1, <1>3 DEF VectorInv, OneName

\* The steps that leave the vector indexes alone.
LEMMA PlainSteps ==
  ASSUME VectorState, NEW c \in Conns,
         \/ Load(c) \/ Scan(c) \/ BatchWrite(c) \/ Row(c) \/ RowsDone(c) \/ Reread(c) \/ Maintain(c)
         \/ EnsureText(c) \/ OpenText(c) \/ MarkOpen(c) \/ DeleteText(c) \/ AddText(c) \/ Commit(c)
         \/ Find(c) \/ QueryText(c) \/ QueryVector(c) \/ Resolve(c)
  PROVE  PlainStep(c)
BY LoadPlain, RowPlain, RereadPlain, MaintainPlain, TextStepsPlain, SearchPlain

LEMMA VectorInvStep ==
  ASSUME VectorState, OwnNames, NEW c \in Conns, Begin(c) \/ Step(c)
  PROVE  VectorInv'
BY BeginVector, PlainSteps, PlainVector, EnsureVectorVector, RebuildLockVector,
   RebuildScanVector, RebuildInsertVector, RebuildDoneVector, InsertVectorVector,
   VectorExistsVector, RemoveVectorVector, NoDefinition DEF Step, VectorState

-----------------------------------------------------------------------------
(* With one connection a loaded vector index has nothing else *)

Bare(doc) == doc = NoDoc \/ doc.vec = None

\* The entry of a record without embedding has none for it, and a rebuild under way
\* will not insert one.
Cleared(r, d, reg, h) ==
  Bare(d[r]) /\ Entry(r, reg) # NoSlot => h[Entry(r, reg)].vecs[r[2]] = None

NotRefilled(r, p, s, l, d) ==
  p = "rebuild_insert" /\ TableOf(s) = r[1] /\ Bare(d[r]) => \A f \in l.fill : f[1] # r[2]

\* The records whose vector index is up to date while a statement runs.
Settled(p, s, l, a, cat) ==
  {r \in a : "vector" \in cat[r[1]]}
    \cup (IF s.op \in Writes /\ "vector" \in l.defs THEN Applied(p, l) ELSE {})

ClearOK(p, s, l, d, reg, h, a, cat) ==
  /\ s.op \in Writes /\ p \in Loading \cup {"insert_vector"} => HasVector(l)
  /\ \A r \in Settled(p, s, l, a, cat) : Cleared(r, d, reg, h) /\ NotRefilled(r, p, s, l, d)

ClearInv ==
  /\ \A r \in acked : "vector" \in catalog[r[1]] => Cleared(r, docs, registry, heap)
  /\ \A c \in Conns : pc[c] # "idle" =>
       ClearOK(pc[c], stmt[c], loc[c], docs, registry, heap, acked, catalog)

ClearState == VectorState /\ OwnNames /\ Alone /\ ClearInv

\* Nobody else is at work.
LEMMA Lone ==
  ASSUME TextInv, Alone, NEW c \in Conns, pc[c] # "idle", NEW d \in Conns, d # c
  PROVE  pc[d] = "idle"
<1> DEFINE S == {e \in Conns : Scenario[scenario].menu[e] # {}}
<1>1. IsFiniteSet(S) /\ Cardinality(S) = 1
  BY FS_Subset, ConstantsAssumption DEF Alone
<1>2. PICK x : S = {x}
  BY <1>1, FS_Singleton
<1> QED
  BY <1>2 DEF TextInv

LEMMA SettledRecs ==
  ASSUME VectorState, NEW c \in Conns, pc[c] # "idle"
  PROVE  Settled(pc[c], stmt[c], loc[c], acked, catalog) \subseteq Recs
<1>1. acked \subseteq Recs
  BY DEF VectorState, TypeInv, TypeOK
<1>2. stmt[c].op \in Writes => Applied(pc[c], loc[c]) \subseteq Recs
  BY AppliedOwn, Apart DEF VectorState
<1> QED
  BY <1>1, <1>2 DEF Settled

LEMMA GotoClear ==
  ASSUME ClearState, NEW c \in Conns, pc[c] # "idle", NEW label, NEW l, Goto(c, label, l),
         catalog' = catalog,
         ClearOK(label, stmt[c], l, docs', registry', heap', acked, catalog)
  PROVE  ClearInv'
<1>1. \A d \in Conns : /\ pc'[d] = (IF d = c THEN label ELSE "idle")
                       /\ loc'[d] = (IF d = c THEN l ELSE loc[d])
  BY Lone DEF ClearState, VectorState, TypeInv, TypeOK, Goto
<1>2. stmt' = stmt /\ acked' = acked
  BY DEF Goto
<1>3. \A r \in acked' : "vector" \in catalog'[r[1]] => Cleared(r, docs', registry', heap')
  BY <1>2 DEF ClearOK, Settled
<1> QED
  BY <1>1, <1>2, <1>3 DEF ClearInv

LEMMA ReturnClear ==
  ASSUME ClearState, NEW c \in Conns, pc[c] # "idle",
         UNCHANGED <<registry, heap, catalog, docs>>, NEW records, Return(c, records),
         \A r \in records : "vector" \in catalog[r[1]] => Cleared(r, docs, registry, heap)
  PROVE  ClearInv'
<1>1. \A d \in Conns : pc'[d] = "idle"
  BY Lone DEF ClearState, VectorState, TypeInv, TypeOK, Return
<1>2. acked' = acked \cup records
  BY DEF Return
<1> QED
  BY <1>1, <1>2 DEF ClearState, ClearInv

LEMMA PlainClear ==
  ASSUME ClearState, NEW c \in Conns, PlainStep(c)
  PROVE  ClearInv'
<1> DEFINE s == stmt[c]
<1>1. pc[c] # "idle" /\ ClearOK(pc[c], s, loc[c], docs, registry, heap, acked, catalog)
  BY DEF PlainStep, ClearState, ClearInv
<1>2. CASE Fail(c)
  BY <1>1, <1>2, ReturnClear DEF Fail, durable, services
<1>3. CASE pc[c] # "load" /\ UNCHANGED <<registry, heap, catalog, docs>> /\ Ok(c)
  <2>1. ASSUME NEW r \in loc[c].done, "vector" \in catalog[r[1]]
        PROVE  Cleared(r, docs, registry, heap)
    <3>1. s.op \in Writes
      BY <1>1, <2>1 DEF ClearState, VectorState, TextInv, ConnOK
    <3>2. /\ WriterOK(pc[c], s, loc[c], docs, fts, catalog)
          /\ \A q \in Targets(s) : q[1] = TableOf(s)
      BY <1>1, <3>1, Writing DEF ClearState, VectorState
    <3>3. r \in Applied(pc[c], loc[c]) /\ "vector" \in loc[c].defs
      BY <1>3, <2>1, <3>2 DEF WriterOK, Applied
    <3> QED
      BY <1>1, <3>1, <3>3 DEF ClearOK, Settled
  <2> QED
    BY <1>1, <1>3, <2>1, ReturnClear DEF Ok
<1>4. ASSUME NEW label, NEW l, PlainTo(c, label, l) PROVE ClearInv'
  <2>1. ASSUME NEW r \in Settled(label, s, l, acked, catalog)
        PROVE  Cleared(r, docs', registry', heap')
    <3>1. r \in Settled(pc[c], s, loc[c], acked, catalog) /\ docs'[r] = docs[r]
      <4>1. CASE r \in acked /\ "vector" \in catalog[r[1]]
        <5>1. r \in Recs \ Targets(s)
          BY <1>1, <4>1 DEF ClearState, VectorState, TypeInv, TypeOK, TextInv, AckedOK
        <5> QED
          BY <1>4, <4>1, <5>1 DEF Settled, PlainTo
      <4>2. CASE s.op \in Writes /\ "vector" \in l.defs /\ r \in Applied(label, l)
        BY <1>4, <4>2 DEF Settled, PlainTo
      <4> QED
        BY <2>1, <4>1, <4>2 DEF Settled
    <3>2. Cleared(r, docs, registry, heap)
      BY <1>1, <3>1 DEF ClearOK
    <3> QED
      BY <1>4, <3>1, <3>2 DEF Cleared, PlainTo
  <2>2. label # "rebuild_insert" /\ (label \in Loading \cup {"insert_vector"} => label = "ensure_vector")
    BY <1>4 DEF PlainTo, Plain, Loading, Rebuilding
  <2>3. ClearOK(label, s, l, docs', registry', heap', acked, catalog)
    BY <1>4, <2>1, <2>2 DEF ClearOK, NotRefilled, PlainTo
  <2> QED
    BY <1>1, <1>4, <2>3, GotoClear DEF PlainTo
<1> QED
  BY <1>2, <1>3, <1>4 DEF PlainStep

LEMMA BeginClear ==
  ASSUME ClearState, NEW c \in Conns, Begin(c)
  PROVE  ClearInv'
<1>1. PICK s \in Scenario[scenario].menu[c] :
        /\ stmt' = [stmt EXCEPT ![c] = s]
        /\ pc' = [pc EXCEPT ![c] = CASE s.op = "define" -> "define_write"
                                     [] s.op = "search" -> "find"
                                     [] OTHER -> "load"]
        /\ loc' = [loc EXCEPT ![c].todo = IF s.op = "search" THEN s.kinds ELSE {}]
        /\ acked' = acked \ Targets(s)
  BY DEF Begin
<1>2. pc[c] = "idle" /\ UNCHANGED <<docs, catalog, registry, heap>>
  BY DEF Begin, At, durable, services
<1> DEFINE l == [loc[c] EXCEPT !.todo = IF s.op = "search" THEN s.kinds ELSE {}]
<1>3. /\ pc'[c] \in {"define_write", "find", "load"} /\ stmt'[c] = s /\ loc'[c] = l
      /\ \A d \in Conns : d # c => pc'[d] = pc[d] /\ stmt'[d] = stmt[d] /\ loc'[d] = loc[d]
  BY <1>1 DEF ClearState, VectorState, TypeInv, TypeOK
<1>4. l.defs = {}
  <2>1. loc[c] = Fresh
    BY <1>2 DEF ClearState, VectorState, TextInv, ConnOK
  <2> QED
    BY <2>1 DEF Fresh
<1> HIDE DEF l
<1>5. \A r \in acked' : "vector" \in catalog'[r[1]] => Cleared(r, docs', registry', heap')
  BY <1>1, <1>2 DEF ClearState, ClearInv
<1>6. ClearOK(pc'[c], stmt'[c], loc'[c], docs', registry', heap', acked', catalog')
  BY <1>3, <1>4, <1>5 DEF ClearOK, Settled, NotRefilled, Loading, Rebuilding
<1>7. ASSUME NEW d \in Conns, d # c, pc'[d] # "idle"
      PROVE  ClearOK(pc'[d], stmt'[d], loc'[d], docs', registry', heap', acked', catalog')
  <2>1. ClearOK(pc[d], stmt[d], loc[d], docs, registry, heap, acked, catalog)
    BY <1>3, <1>7 DEF ClearState, ClearInv
  <2> QED
    BY <1>1, <1>2, <1>3, <1>7, <2>1 DEF ClearOK, Settled
<1> QED
  BY <1>5, <1>6, <1>7 DEF ClearInv

\* A step of ensure_vector_loaded or maintain_search_indexes that keeps every
\* settled record clear.
LEMMA MoveClear ==
  ASSUME ClearState, NEW c \in Conns, pc[c] # "idle", UNCHANGED <<docs, catalog>>,
         NEW label, NEW m, Goto(c, label, m), label # "rebuild_insert", m.defs = loc[c].defs,
         stmt[c].op \in Writes /\ label \in Loading \cup {"insert_vector"} => HasVector(m),
         \A r \in Settled(pc[c], stmt[c], loc[c], acked, catalog) :
           Cleared(r, docs, registry, heap) => Cleared(r, docs, registry', heap'),
         stmt[c].op \in Writes =>
           \A r \in Applied(label, m) :
             r \in Applied(pc[c], loc[c]) \/ Cleared(r, docs, registry', heap')
  PROVE  ClearInv'
<1>1. ClearOK(pc[c], stmt[c], loc[c], docs, registry, heap, acked, catalog)
  BY DEF ClearState, ClearInv
<1>2. ASSUME NEW r \in Settled(label, stmt[c], m, acked, catalog)
      PROVE  Cleared(r, docs, registry', heap')
  <2>1. \/ r \in Settled(pc[c], stmt[c], loc[c], acked, catalog)
        \/ Cleared(r, docs, registry', heap')
    BY <1>2 DEF Settled
  <2> QED
    BY <1>1, <2>1 DEF ClearOK
<1>3. ClearOK(label, stmt[c], m, docs', registry', heap', acked, catalog)
  BY <1>2 DEF ClearOK, NotRefilled
<1> QED
  BY <1>3, GotoClear

\* ensure_vector_loaded, up to the scan: the entry is as it was, or new and empty.
LEMMA LoadingClear ==
  ASSUME ClearState, NEW c \in Conns, EnsureVector(c) \/ RebuildLock(c) \/ RebuildDone(c)
  PROVE  ClearInv'
<1> DEFINE l == loc[c]
<1>1. pc[c] \in Loading /\ UNCHANGED <<docs, catalog>>
  BY DEF EnsureVector, RebuildLock, RebuildDone, At, Loading, Rebuilding, durable
<1>2. /\ pc[c] # "idle" /\ l \in Local /\ Name(c) \in Names
      /\ l.ret \in {"insert_vector", "find"} /\ Applied(pc[c], l) = l.done
      /\ \A q \in VectorPending : \A m : Applied(q, m) = m.done
      /\ \A m : Applied("find", m) = m.done
  BY <1>1, LoadingVector DEF ClearState
<1>3. stmt[c].op \in Writes => HasVector(l)
  BY <1>1, <1>2 DEF ClearState, ClearInv, ClearOK
<1>4. PICK q, m : /\ Goto(c, q, m)
                  /\ q \in {"rebuild_lock", "rebuild_scan"} \/ q = l.ret
                  /\ m = l \/ \E e : m = [l EXCEPT !.ent = e]
  <2>1. CASE EnsureVector(c)
    <3>1. (\E f : Goto(c, "rebuild_lock", [l EXCEPT !.ent = f])) \/ Goto(c, l.ret, l)
      BY <2>1 DEF EnsureVector
    <3> QED
      BY <3>1
  <2>2. CASE RebuildLock(c)
    <3>1. Goto(c, l.ret, [l EXCEPT !.ent = NoSlot]) \/ Goto(c, "rebuild_scan", l)
      BY <2>2 DEF RebuildLock
    <3> QED
      BY <3>1
  <2>3. CASE RebuildDone(c)
    <3>1. Goto(c, l.ret, [l EXCEPT !.ent = NoSlot])
      BY <2>3 DEF RebuildDone
    <3> QED
      BY <3>1
  <2> QED
    BY <2>1, <2>2, <2>3
<1>5. m.defs = l.defs /\ m.done = l.done /\ m.doc = l.doc
  BY <1>2, <1>4 DEF Local
<1>6. q \in VectorPending \cup {"find"} /\ q # "rebuild_insert"
  BY <1>2, <1>4 DEF VectorPending, Loading, Rebuilding
<1>7. ASSUME NEW r \in Recs, Cleared(r, docs, registry, heap)
      PROVE  Cleared(r, docs, registry', heap')
  <2>1. VectorName[r[1]] \in Names /\ r[2] \in Keys
    BY EntryNamed DEF Recs
  <2>2. Entry(r, registry) # NoSlot => Entry(r, registry) \in Slots
    BY <2>1 DEF Entry, ClearState, VectorState, TypeInv, TypeOK
  <2>3. CASE EnsureVector(c) /\ registry[Name(c)] = NoSlot
    <3>1. PICK f \in Slots : Allocate(Name(c), f)
      BY <2>3 DEF EnsureVector
    <3>2. /\ registry' = [registry EXCEPT ![Name(c)] = f] /\ heap' = [heap EXCEPT ![f] = NewEntry]
          /\ \A n \in Names : registry[n] # f
      BY <2>3, <3>1 DEF Allocate, Released, FreeSlots
    <3>3. /\ Entry(r, registry') = IF VectorName[r[1]] = Name(c) THEN f ELSE Entry(r, registry)
          /\ heap'[f].vecs[r[2]] = None
          /\ Entry(r, registry) # NoSlot => heap'[Entry(r, registry)] = heap[Entry(r, registry)]
      BY <1>2, <2>1, <2>2, <3>1, <3>2 DEF Entry, NewEntry, ClearState, VectorState, TypeInv, TypeOK
    <3> QED
      BY <1>7, <3>3 DEF Cleared
  <2>4. CASE EnsureVector(c) /\ registry[Name(c)] # NoSlot
    BY <1>7, <2>4 DEF EnsureVector, services
  <2>5. CASE RebuildLock(c) \/ RebuildDone(c)
    <3>1. loc[c].ent \in Slots
      BY <2>5, RebuiltEntry DEF RebuildLock, RebuildDone, At, Rebuilding, ClearState
    <3>2. heap \in [Slots -> VectorEntry] /\ registry' = registry
      BY <2>5, SharedNow DEF SharedOK, ClearState, VectorState, RebuildLock, RebuildDone, services
    <3>3. \A g \in Slots : heap'[g].vecs = heap[g].vecs
      BY SMTT(30), <2>5, <3>1, <3>2 DEF RebuildLock, RebuildDone, VectorEntry, services
    <3> QED
      BY <1>7, <2>2, <3>2, <3>3 DEF Cleared
  <2> QED
    BY <2>3, <2>4, <2>5
<1>8. \A r \in Settled(pc[c], stmt[c], loc[c], acked, catalog) :
        Cleared(r, docs, registry, heap) => Cleared(r, docs, registry', heap')
  BY <1>2, <1>7, SettledRecs DEF ClearState
<1>9. HasVector(m) <=> HasVector(l)
  BY <1>5 DEF HasVector
<1>10. Applied(q, m) = Applied(pc[c], l)
  BY <1>2, <1>5, <1>6
<1> QED
  BY <1>1, <1>2, <1>3, <1>4, <1>5, <1>6, <1>8, <1>9, <1>10, MoveClear

\* The scan finds no embedding of a settled record that has none, nor do the
\* insertions that follow touch one.
LEMMA RefillClear ==
  ASSUME ClearState, NEW c \in Conns, RebuildScan(c) \/ RebuildInsert(c)
  PROVE  ClearInv'
<1> DEFINE l == loc[c]
           s == stmt[c]
           e == loc[c].ent
<1>1. /\ pc[c] \in {"rebuild_scan", "rebuild_insert"} /\ pc[c] \in Loading /\ pc[c] \in Rebuilding
      /\ UNCHANGED <<docs, catalog, registry>>
  BY DEF RebuildScan, RebuildInsert, At, Loading, Rebuilding, durable, services
<1>2. /\ pc[c] # "idle" /\ l \in Local /\ Name(c) \in Names /\ Applied(pc[c], l) = l.done
      /\ e \in Slots /\ e = registry[Name(c)] /\ e # NoSlot
      /\ \A m : Applied("rebuild_insert", m) = m.done
  BY <1>1, LoadingVector, RebuiltEntry DEF ClearState, VectorPending, Loading, Rebuilding
<1>3. ClearOK(pc[c], s, l, docs, registry, heap, acked, catalog)
  BY <1>2 DEF ClearState, ClearInv
<1>4. ASSUME NEW f, Goto(c, "rebuild_insert", [l EXCEPT !.fill = f]),
             \A r \in Settled(pc[c], s, l, acked, catalog) :
               /\ Cleared(r, docs, registry, heap')
               /\ TableOf(s) = r[1] /\ Bare(docs[r]) => \A g \in f : g[1] # r[2]
      PROVE  ClearInv'
  <2> DEFINE m == [l EXCEPT !.fill = f]
  <2>1. m.fill = f /\ m.done = l.done /\ m.defs = l.defs /\ m.doc = l.doc
    BY <1>2 DEF Local
  <2> HIDE DEF m
  <2>2. Settled("rebuild_insert", s, m, acked, catalog) = Settled(pc[c], s, l, acked, catalog)
    BY <1>2, <2>1 DEF Settled
  <2>3. s.op \in Writes => HasVector(m)
    BY <1>1, <1>3, <2>1 DEF ClearOK, HasVector
  <2>4. ClearOK("rebuild_insert", s, m, docs', registry', heap', acked, catalog)
    BY <1>1, <1>4, <2>1, <2>2, <2>3 DEF ClearOK, NotRefilled
  <2>5. Goto(c, "rebuild_insert", m)
    BY <1>4 DEF m
  <2> QED
    BY <1>1, <1>2, <2>4, <2>5, GotoClear
<1>5. CASE RebuildScan(c)
  <2>1. heap' = heap /\ Goto(c, "rebuild_insert", [l EXCEPT !.fill = Embeddings(TableOf(s))])
    BY <1>5 DEF RebuildScan, services
  <2>2. ASSUME NEW r \in Settled(pc[c], s, l, acked, catalog)
        PROVE  /\ Cleared(r, docs, registry, heap')
               /\ TableOf(s) = r[1] /\ Bare(docs[r]) =>
                    \A g \in Embeddings(TableOf(s)) : g[1] # r[2]
    <3>1. r \in Recs /\ SharedOK
      BY <1>2, SettledRecs, SharedNow DEF ClearState, VectorState
    <3> QED
      BY <1>3, <2>1, <3>1, EmbeddingsOf DEF ClearOK, Bare
  <2> QED
    BY <1>4, <2>1, <2>2
<1>6. CASE RebuildInsert(c)
  <2>1. PICK f \in l.fill : /\ heap' = Inserted(Name(c), f[1], f[2])
                            /\ Goto(c, "rebuild_insert", [l EXCEPT !.fill = l.fill \ {f}])
    BY <1>6 DEF RebuildInsert
  <2>2. f[1] \in Keys /\ pc[c] = "rebuild_insert"
    BY <1>2, <1>6, LocalFields DEF RebuildInsert, At
  <2>3. \A g \in Slots, j \in Keys :
          heap'[g].vecs[j] = IF g = e /\ f[2] \in Vecs /\ j = f[1] THEN f[2] ELSE heap[g].vecs[j]
    BY <1>2, <2>1, <2>2, SharedNow, InsertedAt DEF ClearState, VectorState
  <2>4. ASSUME NEW r \in Settled(pc[c], s, l, acked, catalog)
        PROVE  /\ Cleared(r, docs, registry, heap')
               /\ TableOf(s) = r[1] /\ Bare(docs[r]) => \A g \in l.fill \ {f} : g[1] # r[2]
    <3>1. r \in Recs /\ r[2] \in Keys /\ r[1] \in Tables /\ VectorName[r[1]] \in Names
      BY <1>2, SettledRecs, EntryNamed DEF ClearState, Recs
    <3>2. Cleared(r, docs, registry, heap) /\ NotRefilled(r, pc[c], s, l, docs)
      BY <1>3 DEF ClearOK
    <3>3. Entry(r, registry) # NoSlot => Entry(r, registry) \in Slots
      BY <3>1 DEF Entry, ClearState, VectorState, TypeInv, TypeOK
    <3>4. Entry(r, registry) = e => TableOf(s) = r[1]
      <4> SUFFICES ASSUME Entry(r, registry) = e PROVE TableOf(s) = r[1]
        OBVIOUS
      <4>1. VectorName[r[1]] = Name(c)
        BY <1>2, <3>1 DEF ClearState, VectorState, VectorInv, OneName, Entry
      <4> QED
        BY <1>2, <3>1, <4>1, Known DEF OwnNames, Name, ClearState, VectorState
    <3>5. Entry(r, registry) = e /\ Bare(docs[r]) => f[1] # r[2]
      BY <2>2, <3>2, <3>4 DEF NotRefilled
    <3>6. Cleared(r, docs, registry, heap')
      BY <2>3, <3>1, <3>2, <3>3, <3>5 DEF Cleared
    <3> QED
      BY <2>2, <3>2, <3>6 DEF NotRefilled
  <2> QED
    BY <1>4, <2>1, <2>4
<1> QED
  BY <1>5, <1>6

\* The record at hand is set or removed; the settled ones are others.
LEMMA OneClear ==
  ASSUME ClearState, NEW c \in Conns, InsertVector(c) \/ RemoveVector(c) \/ VectorExists(c)
  PROVE  ClearInv'
<1> DEFINE l == loc[c]
           s == stmt[c]
           e == registry[Name(c)]
<1>1. /\ pc[c] \in {"insert_vector", "vector_exists", "remove_vector"}
      /\ UNCHANGED <<docs, catalog, registry>>
  BY DEF InsertVector, RemoveVector, VectorExists, At, durable, services
<1>2. /\ pc[c] # "idle" /\ s.op \in Writes /\ Name(c) \in Names
      /\ l.cur \in Targets(s) /\ l.cur \in Recs /\ l.cur[2] \in Keys
      /\ l.cur \notin l.done /\ l.doc = docs[l.cur] /\ VectorName[l.cur[1]] = Name(c)
      /\ Applied(pc[c], l) = l.done /\ Applied("remove_vector", l) = l.done
      /\ Applied("maintain", l) \subseteq l.done \cup {l.cur}
  BY <1>1, WriterVector DEF ClearState
<1>3. ASSUME NEW r \in Settled(pc[c], s, l, acked, catalog)
      PROVE  r \in Recs /\ r # l.cur
  <2>1. l.cur \notin acked
    BY <1>2 DEF ClearState, VectorState, TextInv, AckedOK
  <2> QED
    BY <1>2, <1>3, <2>1, SettledRecs DEF Settled, ClearState
<1>4. e # NoSlot => e \in Slots
  BY <1>2 DEF ClearState, VectorState, TypeInv, TypeOK
<1>5. \A g \in Slots, j \in Keys : g # e \/ j # l.cur[2] => heap'[g].vecs[j] = heap[g].vecs[j]
  <2>1. CASE InsertVector(c)
    <3>1. heap' = Inserted(Name(c), l.cur[2], l.doc.vec)
      BY <2>1 DEF InsertVector
    <3> QED
      BY <1>2, <3>1, SharedNow, InsertedAt DEF ClearState, VectorState
  <2>2. CASE VectorExists(c)
    BY <2>2 DEF VectorExists, services
  <2>3. CASE RemoveVector(c)
    <3>1. heap' = IF e = NoSlot THEN heap ELSE [heap EXCEPT ![e].vecs[l.cur[2]] = None]
      BY <2>3 DEF RemoveVector
    <3>2. heap \in [Slots -> VectorEntry]
      BY SharedNow DEF SharedOK, ClearState, VectorState
    <3> QED
      BY <1>2, <1>4, <3>1, <3>2 DEF VectorEntry
  <2> QED
    BY <2>1, <2>2, <2>3
<1>6. ASSUME NEW r \in Settled(pc[c], s, l, acked, catalog), Cleared(r, docs, registry, heap)
      PROVE  Cleared(r, docs, registry', heap')
  <2>1. r \in Recs /\ r # l.cur /\ r[2] \in Keys /\ r[1] \in Tables /\ VectorName[r[1]] \in Names
    BY <1>3, EntryNamed DEF Recs
  <2>2. Entry(r, registry) # NoSlot => Entry(r, registry) \in Slots
    BY <2>1 DEF Entry, ClearState, VectorState, TypeInv, TypeOK
  <2>3. Entry(r, registry) # NoSlot => Entry(r, registry) # e \/ r[2] # l.cur[2]
    <3> SUFFICES ASSUME Entry(r, registry) # NoSlot, Entry(r, registry) = e, r[2] = l.cur[2]
                 PROVE  FALSE
      OBVIOUS
    <3>1. VectorName[r[1]] = VectorName[l.cur[1]]
      BY <1>2, <2>1 DEF ClearState, VectorState, VectorInv, OneName, Entry
    <3>2. r[1] = l.cur[1]
      BY <1>2, <2>1, <3>1 DEF OwnNames, ClearState, Recs
    <3> QED
      BY <1>2, <2>1, <3>2 DEF Recs
  <2> QED
    BY <1>1, <1>5, <1>6, <2>1, <2>2, <2>3 DEF Cleared
<1>7. ASSUME Goto(c, "maintain", l), Cleared(l.cur, docs, registry', heap')
      PROVE  ClearInv'
  <2>1. "maintain" \notin Loading \cup {"insert_vector"}
    BY DEF Loading, Rebuilding
  <2> QED
    BY <1>1, <1>2, <1>6, <1>7, <2>1, MoveClear
<1>8. CASE InsertVector(c)
  <2>1. HasVector(l) /\ Goto(c, "maintain", l)
    BY <1>2, <1>8 DEF InsertVector, At, ClearState, ClearInv, ClearOK
  <2>2. Cleared(l.cur, docs, registry', heap')
    BY <1>2, <2>1 DEF Cleared, Bare, HasVector
  <2> QED
    BY <1>7, <2>1, <2>2
<1>9. CASE RemoveVector(c)
  <2>1. /\ heap' = IF e = NoSlot THEN heap ELSE [heap EXCEPT ![e].vecs[l.cur[2]] = None]
        /\ Goto(c, "maintain", l)
    BY <1>9 DEF RemoveVector
  <2>2. heap \in [Slots -> VectorEntry]
    BY SharedNow DEF SharedOK, ClearState, VectorState
  <2>3. e # NoSlot => heap'[e].vecs[l.cur[2]] = None
    BY <1>2, <1>4, <2>1, <2>2 DEF VectorEntry
  <2>4. Cleared(l.cur, docs, registry', heap')
    BY <1>1, <1>2, <2>3 DEF Cleared, Entry
  <2> QED
    BY <1>7, <2>1, <2>4
<1>10. CASE VectorExists(c)
  <2>1. CASE e = NoSlot
    <3>1. Goto(c, "maintain", l)
      BY <1>10, <2>1 DEF VectorExists
    <3>2. Cleared(l.cur, docs, registry', heap')
      BY <1>1, <1>2, <2>1 DEF Cleared, Entry
    <3> QED
      BY <1>7, <3>1, <3>2
  <2>2. CASE e # NoSlot
    <3>1. Goto(c, "remove_vector", l)
      BY <1>10, <2>2 DEF VectorExists
    <3>2. "remove_vector" \notin Loading \cup {"insert_vector"}
      BY DEF Loading, Rebuilding
    <3> QED
      BY <1>1, <1>2, <1>6, <3>1, <3>2, MoveClear
  <2> QED
    BY <2>1, <2>2
<1> QED
  BY <1>8, <1>9, <1>10

LEMMA ClearInvInit == Init => ClearInv
BY DEF Init, ClearInv

LEMMA CrashClear ==
  ASSUME TypeInv, Crash
  PROVE  ClearInv'
<1>1. (\A c \in Conns : pc'[c] = "idle") /\ (\A n \in Names : registry'[n] = NoSlot)
  BY DEF Crash
<1>2. acked' \subseteq Recs
  BY DEF Crash, TypeInv, TypeOK
<1>3. \A r \in acked' : Cleared(r, docs', registry', heap')
  BY <1>1, <1>2, EntryNamed DEF Cleared, Entry
<1> QED
  BY <1>1, <1>3 DEF ClearInv

LEMMA ClearInvStep ==
  ASSUME ClearState, NEW c \in Conns, Begin(c) \/ Step(c)
  PROVE  ClearInv'
<1>1. VectorState
  BY DEF ClearState
<1> QED
  BY <1>1, BeginClear, PlainSteps, PlainClear, LoadingClear, RefillClear, OneClear, NoDefinition
     DEF Step, VectorState

-----------------------------------------------------------------------------
(* Both parts of AckedVector *)

\* What holds of the vector indexes when connections write their own records and
\* tables name their indexes differently.
LoadedInv == OwnRecords /\ OwnNames => /\ TextInv /\ VectorInv
                                       /\ Alone => ClearInv

LEMMA LoadedInvInit == Init => LoadedInv
BY TextInvInit, VectorInvInit, ClearInvInit DEF LoadedInv

LEMMA LoadedInvNext ==
  ASSUME TypeInv, LoadedInv, [Next]_vars
  PROVE  LoadedInv'
<1>1. CASE UNCHANGED vars
  <2>1. UNCHANGED <<docs, catalog, fts, registry, heap, pc, stmt, loc, acked, scenario>>
    BY <1>1 DEF vars, durable, services
  <2>2. (OwnRecords' <=> OwnRecords) /\ (Alone' <=> Alone) /\ (TextInv' <=> TextInv)
    BY <2>1 DEF OwnRecords, Alone, TextInv, AckedOK
  <2>3. VectorInv' <=> VectorInv
    BY <2>1 DEF VectorInv
  <2>4. ClearInv' <=> ClearInv
    BY <2>1 DEF ClearInv
  <2> QED
    BY <2>2, <2>3, <2>4 DEF LoadedInv
<1>2. CASE Next
  <2>1. scenario' = scenario
    BY <1>2, ScenarioKept DEF Next, Crash
  <2>2. (OwnRecords' <=> OwnRecords) /\ (Alone' <=> Alone)
    BY <2>1 DEF OwnRecords, Alone
  <2>3. CASE Crash
    BY <2>2, <2>3, CrashText, CrashVector, CrashClear DEF LoadedInv
  <2>4. ASSUME NEW c \in Conns, Begin(c) \/ Step(c), OwnRecords, OwnNames
        PROVE  TextInv' /\ VectorInv' /\ (Alone => ClearInv')
    <3>1. VectorState
      BY <2>4 DEF LoadedInv, VectorState
    <3>2. Alone => ClearState
      BY <2>4, <3>1 DEF LoadedInv, ClearState
    <3> QED
      BY <2>4, <3>1, <3>2, TextInvStep, VectorInvStep, ClearInvStep DEF VectorState
  <2> QED
    BY <1>2, <2>2, <2>3, <2>4 DEF Next, LoadedInv
<1> QED
  BY <1>1, <1>2

\* A loaded vector index has the present embedding of every record whose write was
\* answered, whoever rebuilt it and whatever was written meanwhile; with one
\* connection it has nothing else under the keys of such records (AckedVector).
THEOREM LoadedHasAnswered == Spec => [](OwnRecords /\ OwnNames => AckedVector)
<1>1. ASSUME TypeInv, LoadedInv, OwnRecords, OwnNames
      PROVE  AckedVector
  <2>1. SUFFICES ASSUME NEW r \in acked, "vector" \in catalog[r[1]],
                        NEW e \in LoadedEntry(r[1])
                 PROVE  /\ Embedded(docs[r]) => heap[e].vecs[r[2]] = docs[r].vec
                        /\ Alone /\ Bare(docs[r]) => heap[e].vecs[r[2]] = None
    BY DEF AckedVector, Embedded, Bare
  <2>2. Entry(r, registry) = e /\ e # NoSlot /\ heap[e].loaded
    BY SharedNow, <1>1, ConstantsAssumption DEF LoadedEntry, Entry
  <2>3. Survives(r, docs, registry, heap)
    BY <1>1, <2>1 DEF LoadedInv, VectorInv
  <2>4. Alone => Cleared(r, docs, registry, heap)
    BY <1>1, <2>1 DEF LoadedInv, ClearInv
  <2> QED
    BY <2>2, <2>3, <2>4 DEF Survives, Cleared
<1>2. TypeInv /\ LoadedInv => (OwnRecords /\ OwnNames => AckedVector)
  BY <1>1
<1>3. TypeInv /\ LoadedInv /\ [Next]_vars => LoadedInv'
  BY LoadedInvNext
<1> QED
  BY <1>2, <1>3, TypeInvAlways, LoadedInvInit, PTL DEF Spec
=============================================================================
