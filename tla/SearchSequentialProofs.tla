----------------------- MODULE SearchSequentialProofs -----------------------
(***************************************************************************)
(* With one connection a search answers like a scan of the table           *)
(* (SearchExact), for any tables, records and statements, index DDL        *)
(* included.                                                               *)
(***************************************************************************)
EXTENDS SearchProofs

\* A stored embedding of another dimension, and what an index should hold.
Odd(doc) == doc # NoDoc /\ doc.vec \in OddVecs
Kept(doc) == IF Embedded(doc) THEN doc.vec ELSE None
Texting == Opening \cup {"delete_text", "add_text"}

\* Nobody else writes: what a handler has read is what is stored and defined.
WriteOK(p, s, l, d, cat) ==
  /\ p # "load" => l.defs = cat[TableOf(s)] /\ l.rows \subseteq Targets(s)
  /\ p \in {"load", "scan", "batch_write"} => l.rows = {} /\ ~l.touched
  /\ p = "commit" => l.rows = {}
  /\ s.op \in {"update_all", "batch"} => \A r \in l.rows : d[r] # NoDoc
  /\ s.op = "create" /\ p = "row" /\ l.rows # {} => ~l.touched
  /\ p \in Maintaining \cup {"reread"} => l.cur \in Targets(s) \ l.rows
  /\ p = "reread" => d[l.cur] # NoDoc
  /\ p \in Maintaining => l.doc = d[l.cur] /\ l.touched /\ l.todo \subseteq l.defs
  /\ p \in Texting => "text" \in l.defs
  /\ p \in VectorPending => "vector" \in l.defs
  /\ p \in Loading \cup {"insert_vector"} => HasVector(l)
  /\ p \in {"vector_exists", "remove_vector"} => ~HasVector(l)

DefineOK(p, s, cat) ==
  /\ p # "define_write" => s.kind \in cat[s.table]
  /\ p \in Opening \cup {"add_text", "commit"} => s.kind = "text"
  /\ p \in {"register", "set_loaded"} => s.kind = "vector"

RemoveOK(p, s, l, cat) ==
  /\ p = "remove_write" => l.defs = cat[s.table]
  /\ p \in {"drop_text", "unmark_open"} => s.kind = "text" /\ "text" \notin cat[s.table]
  /\ p = "drop_vector" => s.kind = "vector"

SearchOK(p, s, l, cat) ==
  /\ l.todo \subseteq s.kinds /\ s.kinds \ l.todo \subseteq cat[s.table]
  /\ p \in Loading => "vector" \in s.kinds \ l.todo
  /\ p \in {"query_text", "query_vector", "resolve"} => l.todo = {}
  /\ p = "query_text" => "text" \in s.kinds
  /\ p = "query_vector" => "vector" \in s.kinds
  /\ p \in Labels \ {"query_vector", "resolve"} => l.hits = {}

Serial(c) ==
  LET p == pc[c]  s == stmt[c]  l == loc[c] IN
  /\ p = "idle" => l = Fresh
  /\ p # "idle" => 
       /\ s \in Scenario[scenario].menu[c]
       /\ s.op \in Writes => WriteOK(p, s, l, docs, catalog)
       /\ s.op = "define" => DefineOK(p, s, catalog)
       /\ s.op = "remove" => RemoveOK(p, s, l, catalog)
       /\ s.op = "search" => SearchOK(p, s, l, catalog)

\* The statement still has to bring record r into the index of a kind.
TextDue(p, s, l, r) ==
  /\ p # "idle" /\ s.op \in Writes
  /\ \/ s.op = "batch" /\ r \in l.rows
     \/ r = l.cur /\ (p = "reread" \/ p \in Texting \/ (p \in Maintaining /\ "text" \in l.todo))

VectorDue(p, s, l, r) ==
  /\ p # "idle" /\ s.op \in Writes
  /\ \/ s.op = "batch" /\ r \in l.rows
     \/ r = l.cur /\ (p = "reread" \/ p \in VectorPending \/ (p \in Maintaining /\ "vector" \in l.todo))

\* DEFINE is past its catalog write and has not filled the index yet.
DefinesText(p, s) ==
  p \in Opening \cup {"backfill_scan", "backfill", "add_text"} /\ s.op = "define" /\ s.kind = "text"
DefinesVector(p, s) ==
  p \in {"register", "backfill_scan", "backfill", "set_loaded"} /\ s.op = "define" /\ s.kind = "vector"

\* fts_open and the handles of FtsManager agree, but between two lock scopes.
HandlesOK(p, s, f, open) ==
  /\ \A u \in Tables : \/ f[u].handle <=> u \in open
                       \/ p \in {"mark_open", "unmark_open"} /\ u = TableOf(s)
  /\ p = "mark_open" => f[TableOf(s)].handle
  /\ p = "unmark_open" => ~f[TableOf(s)].handle
  /\ p = "open_text" => TableOf(s) \notin open
  /\ p \in {"delete_text", "add_text"} => f[TableOf(s)].handle
  /\ p \in {"backfill_scan", "backfill"} /\ DefinesText(p, s) => f[TableOf(s)].handle

\* A table without full-text index has none on disk that a DEFINE could reopen.
EmptyOK(p, s, f, cat) ==
  \A u \in Tables : "text" \notin cat[u] /\ ~(p = "drop_text" /\ u = TableOf(s)) =>
    \A k \in Keys : f[u].staged[k] = <<>>

\* The backfill of DEFINE has still to come to record r.
Backfilled(p, s, l, r, f, d) ==
  /\ DefinesText(p, s) /\ r[1] = TableOf(s)
  /\ \/ p \in Opening \cup {"backfill_scan"} /\ Staged(f, r) = <<>>
     \/ p \in {"backfill", "add_text"} /\ d[r] # NoDoc /\ <<r[2], d[r].text>> \in l.fill
     \/ p = "add_text" /\ r = l.cur

TextSynced(r, p, s, l, f, d) ==
  Staged(f, r) = Want(d[r]) \/ TextDue(p, s, l, r) \/ Backfilled(p, s, l, r, f, d)

AddingOK(p, s, l, f, d) ==
  p = "add_text" =>
    /\ Staged(f, l.cur) = <<>> /\ l.cur[1] = TableOf(s)
    /\ d[l.cur] # NoDoc /\ l.doc.text = d[l.cur].text

TextsOK(p, s, l, d) ==
  p \in {"backfill", "add_text"} /\ DefinesText(p, s) =>
    \A g \in l.fill : d[<<TableOf(s), g[1]>>] # NoDoc /\ d[<<TableOf(s), g[1]>>].text = g[2]

\* The statement will commit what it has staged.
Unflushed(p, s, l, r) ==
  \/ p # "idle" /\ s.op \in Writes /\ l.touched
  \/ /\ p \in {"backfill", "add_text", "commit"} /\ s.op = "define" /\ s.kind = "text"
     /\ r[1] = TableOf(s)

Flushed(r, p, s, l, f) == OnDisk(f, r) = Staged(f, r) \/ Unflushed(p, s, l, r)

TextOK(p, s, l, f, open, d, cat) ==
  /\ HandlesOK(p, s, f, open) /\ EmptyOK(p, s, f, cat)
  /\ AddingOK(p, s, l, f, d) /\ TextsOK(p, s, l, d)
  /\ \A u \in Tables : ~f[u].handle => f[u].staged = f[u].disk
  /\ \A r \in Recs : /\ "text" \in cat[r[1]] => TextSynced(r, p, s, l, f, d)
                     /\ Flushed(r, p, s, l, f)

TextExact(c) == TextOK(pc[c], stmt[c], loc[c], fts, fts_open, docs, catalog)

\* Records of the table whose embedding a rebuild or a backfill has still to insert.
Refilling(p, s, l, r, d, held) ==
  /\ r[1] = TableOf(s) /\ (p \in Rebuilding \/ DefinesVector(p, s))
  /\ \/ p = "register"
     \/ p \in {"rebuild_lock", "rebuild_scan", "backfill_scan"} /\ held = None
     \/ /\ p \in {"rebuild_insert", "backfill"} /\ held = None
        /\ d[r] # NoDoc /\ <<r[2], d[r].vec>> \in l.fill

\* An entry holds the present embedding, or the statement will see to it.
VectorSynced(r, p, s, l, reg, h, d) ==
  LET held == h[Entry(r, reg)].vecs[r[2]]
  IN \/ held = Kept(d[r])
     \/ VectorDue(p, s, l, r) /\ ~Odd(d[r])
     \/ Refilling(p, s, l, r, d, held)

EmbeddingsOK(p, s, l, d) ==
  p = "rebuild_insert" \/ (p = "backfill" /\ DefinesVector(p, s)) =>
    \A g \in l.fill : d[<<TableOf(s), g[1]>>] # NoDoc /\ d[<<TableOf(s), g[1]>>].vec = g[2]

EntryOK(p, s, l, reg, h) ==
  LET e == reg[VectorName[TableOf(s)]]
  IN /\ p \in Rebuilding => l.ent = e /\ ~h[e].loaded
     /\ DefinesVector(p, s) /\ p # "register" => e # NoSlot

VectorsOK(p, s, l, reg, h, d, cat) ==
  /\ OneName(reg) /\ EntryOK(p, s, l, reg, h) /\ EmbeddingsOK(p, s, l, d)
  /\ \A u \in Tables : "vector" \in cat[u] /\ reg[VectorName[u]] # NoSlot =>
       \/ h[reg[VectorName[u]]].loaded
       \/ (p \in Rebuilding \/ DefinesVector(p, s)) /\ u = TableOf(s)
  /\ \A r \in Recs : "vector" \in cat[r[1]] /\ Entry(r, reg) # NoSlot =>
       VectorSynced(r, p, s, l, reg, h, d)

VectorExact(c) == VectorsOK(pc[c], stmt[c], loc[c], registry, heap, docs, catalog)

\* What a search has found so far.
FoundOK(p, s, l, reg, d) ==
  s.op = "search" =>
    /\ "vector" \in s.kinds \ l.todo /\ p \notin Loading => reg[VectorName[TableOf(s)]] # NoSlot
    /\ p \in {"query_vector", "resolve"} =>
         \A k \in Keys : LET doc == d[<<s.table, k>>] IN
           k \in l.hits <=>
             \/ "text" \in s.kinds /\ doc # NoDoc /\ doc.text = s.text
             \/ p = "resolve" /\ "vector" \in s.kinds /\ Embedded(doc)

Found(c) == pc[c] # "idle" => FoundOK(pc[c], stmt[c], loc[c], registry, docs)

\* For the one connection that sends statements; the others never do.
SequentialInv ==
  Alone => 
    /\ \A d \in Conns : Scenario[scenario].menu[d] = {} => pc[d] = "idle"
    /\ \A c \in Conns : Scenario[scenario].menu[c] # {} =>
         Serial(c) /\ TextExact(c) /\ VectorExact(c) /\ Found(c)

-----------------------------------------------------------------------------
(* Control *)

LEMMA Moved ==
  ASSUME TypeInv, NEW c \in Conns, NEW label, NEW l, Goto(c, label, l)
  PROVE  pc'[c] = label /\ loc'[c] = l /\ stmt'[c] = stmt[c] /\ scenario' = scenario
BY DEF TypeInv, TypeOK, Goto

LEMMA Returned ==
  ASSUME TypeInv, NEW c \in Conns, NEW records, Return(c, records)
  PROVE  pc'[c] = "idle" /\ loc'[c] = Fresh /\ scenario' = scenario
BY DEF TypeInv, TypeOK, Return

LEMMA ReturnSerial ==
  ASSUME TypeInv, NEW c \in Conns, NEW records, Return(c, records)
  PROVE  Serial(c)'
BY Returned DEF Serial

LEMMA GotoSerial ==
  ASSUME TypeInv, NEW c \in Conns, Serial(c), pc[c] # "idle",
         NEW label, label # "idle", NEW l, Goto(c, label, l),
         stmt[c].op \in Writes => WriteOK(label, stmt[c], l, docs', catalog'),
         stmt[c].op = "define" => DefineOK(label, stmt[c], catalog'),
         stmt[c].op = "remove" => RemoveOK(label, stmt[c], l, catalog'),
         stmt[c].op = "search" => SearchOK(label, stmt[c], l, catalog')
  PROVE  Serial(c)'
BY Moved DEF Serial

\* What Serial says of a statement under way.
LEMMA SerialNow ==
  ASSUME TypeInv, NEW c \in Conns, Serial(c), pc[c] # "idle"
  PROVE  /\ stmt[c] \in Statement /\ stmt[c] \in Scenario[scenario].menu[c]
         /\ stmt[c].op \in Writes \cup {"define", "remove", "search"}
         /\ stmt[c].op \in Writes => WriteOK(pc[c], stmt[c], loc[c], docs, catalog)
         /\ stmt[c].op = "define" => DefineOK(pc[c], stmt[c], catalog)
         /\ stmt[c].op = "remove" => RemoveOK(pc[c], stmt[c], loc[c], catalog)
         /\ stmt[c].op = "search" => SearchOK(pc[c], stmt[c], loc[c], catalog)
         /\ TableOf(stmt[c]) \in Tables /\ catalog[TableOf(stmt[c])] \subseteq Kinds
         /\ loc[c] \in Local /\ LocalOK(pc[c], stmt[c], loc[c])
BY Known, StatementShape DEF Serial, TypeInv, TypeOK

LEMMA OpsApart == Writes \cap {"define", "remove", "search"} = {}
BY DEF Writes

\* A step of maintain_search_indexes.
LEMMA WriteMove ==
  ASSUME NEW s, NEW d, NEW cat, NEW p \in Maintaining, NEW q \in Maintaining, NEW l, NEW m,
         WriteOK(p, s, l, d, cat),
         m.defs = l.defs, m.rows = l.rows, m.touched = l.touched, m.cur = l.cur, m.doc = l.doc,
         m.todo \subseteq l.todo,
         q \in Texting => "text" \in l.defs,
         q \in VectorPending => "vector" \in l.defs,
         q \in Loading \cup {"insert_vector"} => HasVector(l),
         q \in {"vector_exists", "remove_vector"} => ~HasVector(l)
  PROVE  WriteOK(q, s, m, d, cat)
<1>1. /\ p \notin {"load", "scan", "batch_write", "row", "reread", "commit"}
      /\ q \notin {"load", "scan", "batch_write", "row", "reread", "commit"}
  BY DEF Maintaining, Vectoring, Loading, Rebuilding, Opening
<1>2. HasVector(m) <=> HasVector(l)
  BY DEF HasVector
<1> QED
  BY <1>1, <1>2 DEF WriteOK

LEMMA BeginSerial ==
  ASSUME TypeInv, NEW c \in Conns, Serial(c), Begin(c)
  PROVE  Serial(c)'
<1>1. PICK s \in Scenario[scenario].menu[c] :
        /\ stmt' = [stmt EXCEPT ![c] = s]
        /\ pc' = [pc EXCEPT ![c] = CASE s.op = "define" -> "define_write"
                                     [] s.op = "search" -> "find"
                                     [] OTHER -> "load"]
        /\ loc' = [loc EXCEPT ![c].todo = IF s.op = "search" THEN s.kinds ELSE {}]
  BY DEF Begin
<1>2. /\ loc[c] = Fresh /\ scenario' = scenario /\ catalog' = catalog
      /\ s \in Statement
  BY ConstantsAssumption DEF Serial, Begin, At, durable, TypeInv
<1> DEFINE l == [Fresh EXCEPT !.todo = IF s.op = "search" THEN s.kinds ELSE {}]
<1>3. /\ stmt'[c] = s /\ loc'[c] = l
      /\ pc'[c] = CASE s.op = "define" -> "define_write" [] s.op = "search" -> "find"
                    [] OTHER -> "load"
  BY <1>1, <1>2 DEF TypeInv, TypeOK
<1>5. /\ l.todo = (IF s.op = "search" THEN s.kinds ELSE {})
      /\ l.hits = {} /\ l.rows = {} /\ l.touched = FALSE
  BY DEF Fresh
<1> HIDE DEF l
<1>6. s.op \in Writes \cup {"define", "remove", "search"}
  BY <1>2, StatementShape
<1>7. CASE s.op \in Writes
  <2>1. pc'[c] = "load"
    BY <1>3, <1>7, OpsApart
  <2>2. WriteOK("load", s, l, docs', catalog')
    BY <1>5, <1>7, OpsApart
       DEF WriteOK, Maintaining, Vectoring, Loading, Rebuilding, Opening, Texting, VectorPending
  <2> QED
    BY <1>1, <1>2, <1>3, <1>7, <2>1, <2>2, OpsApart DEF Serial
<1>8. CASE s.op = "define"
  BY <1>1, <1>2, <1>3, <1>8, OpsApart DEF Serial, DefineOK, Opening
<1>9. CASE s.op = "remove"
  BY <1>1, <1>2, <1>3, <1>9, OpsApart DEF Serial, RemoveOK
<1>10. CASE s.op = "search"
  <2>1. pc'[c] = "find"
    BY <1>3, <1>10
  <2>2. SearchOK("find", s, l, catalog')
    BY <1>5, <1>10 DEF SearchOK, Loading, Rebuilding
  <2> QED
    BY <1>1, <1>2, <1>3, <1>10, <2>1, <2>2, OpsApart DEF Serial
<1> QED
  BY <1>6, <1>7, <1>8, <1>9, <1>10

\* The labels at which WriteOK says nothing of the record at hand.
LEMMA WriteAt ==
  ASSUME NEW s, NEW l, NEW d, NEW cat, l.defs = cat[TableOf(s)], l.rows \subseteq Targets(s),
         s.op \in {"update_all", "batch"} => \A r \in l.rows : d[r] # NoDoc
  PROVE  /\ (l.rows = {} /\ ~l.touched) =>
              WriteOK("scan", s, l, d, cat) /\ WriteOK("batch_write", s, l, d, cat)
         /\ (s.op = "create" /\ l.rows # {} => ~l.touched) => WriteOK("row", s, l, d, cat)
         /\ l.rows = {} => WriteOK("commit", s, l, d, cat)
         /\ (l.cur \in Targets(s) \ l.rows /\ d[l.cur] # NoDoc) => WriteOK("reread", s, l, d, cat)
         /\ (/\ l.cur \in Targets(s) \ l.rows /\ l.doc = d[l.cur] /\ l.touched
             /\ l.todo \subseteq l.defs) => WriteOK("maintain", s, l, d, cat)
BY DEF WriteOK, Maintaining, Vectoring, Loading, Rebuilding, Opening, Texting, VectorPending

LEMMA LoadSerial ==
  ASSUME TypeInv, NEW c \in Conns, Serial(c), Load(c)
  PROVE  Serial(c)'
<1> DEFINE s == stmt[c]
           m == [loc[c] EXCEPT !.defs = catalog[TableOf(s)],
                               !.rows = IF "rec" \in DOMAIN s THEN {s.rec} ELSE {}]
           q == CASE s.op \in {"update_all", "delete_all"} -> "scan"
                  [] s.op = "batch" -> "batch_write"
                  [] s.op = "remove" -> "remove_write"
                  [] OTHER -> "row"
<1>1. pc[c] = "load" /\ Goto(c, q, m) /\ UNCHANGED <<docs, catalog>>
  BY DEF Load, At, durable
<1>2. /\ s \in Statement /\ s.op \in Writes \cup {"remove"} /\ loc[c] \in Local
      /\ s.op \in Writes => ~loc[c].touched
  BY <1>1, SerialNow, LocalAt DEF WriteOK
<1>3. /\ m.defs = catalog[TableOf(s)] /\ m.touched = loc[c].touched
      /\ m.rows = IF "rec" \in DOMAIN s THEN {s.rec} ELSE {}
  BY <1>2 DEF Local
<1>4. m.rows = (IF s.op \in {"create", "upsert", "update", "delete"} THEN {s.rec} ELSE {})
  BY <1>2, <1>3, StatementShape
<1>5. m.rows \subseteq Targets(s) /\ (s.op \in {"update_all", "batch"} => m.rows = {})
  BY <1>2, <1>4, TargetsType
<1>6. s.op \in Writes => ~m.touched
  BY <1>2, <1>3
<1> HIDE DEF m
<1>7. s.op \in Writes => WriteOK(q, s, m, docs', catalog')
  <2> SUFFICES ASSUME s.op \in Writes PROVE WriteOK(q, s, m, docs', catalog')
    OBVIOUS
  <2>1. /\ (m.rows = {} /\ ~m.touched) =>
             WriteOK("scan", s, m, docs', catalog') /\ WriteOK("batch_write", s, m, docs', catalog')
        /\ (s.op = "create" /\ m.rows # {} => ~m.touched) => WriteOK("row", s, m, docs', catalog')
    BY <1>1, <1>3, <1>5, WriteAt
  <2> QED
    BY <1>4, <1>6, <2>1, OpsApart
<1>8. s.op = "remove" => RemoveOK(q, s, m, catalog')
  <2> SUFFICES ASSUME s.op = "remove" PROVE RemoveOK(q, s, m, catalog')
    OBVIOUS
  <2>1. q = "remove_write" /\ TableOf(s) = s.table
    BY <1>2, TargetsType
  <2> QED
    BY <1>1, <1>3, <2>1 DEF RemoveOK
<1> QED
  BY <1>1, <1>2, <1>7, <1>8, GotoSerial, OpsApart

LEMMA ScanSerial ==
  ASSUME TypeInv, NEW c \in Conns, Serial(c), Scan(c)
  PROVE  Serial(c)'
<1> DEFINE s == stmt[c]
           m == [loc[c] EXCEPT !.rows = Stored(s.table)]
<1>1. pc[c] = "scan" /\ Goto(c, "row", m) /\ UNCHANGED <<docs, catalog>>
  BY DEF Scan, At, durable
<1>2. /\ s \in Statement /\ s.op \in {"update_all", "delete_all"} /\ s.op \in Writes
      /\ loc[c] \in Local /\ loc[c].defs = catalog[TableOf(s)]
  BY <1>1, SerialNow, LocalAt DEF Writes, WriteOK
<1>3. m.defs = loc[c].defs /\ m.rows = Stored(s.table)
  BY <1>2 DEF Local
<1>4. m.rows \subseteq Targets(s) /\ \A r \in m.rows : docs[r] # NoDoc
  BY <1>2, <1>3 DEF Stored, Targets
<1> HIDE DEF m
<1>5. WriteOK("row", s, m, docs', catalog')
  BY <1>1, <1>2, <1>3, <1>4, WriteAt
<1> QED
  BY <1>1, <1>2, <1>5, GotoSerial, OpsApart

LEMMA BatchWriteSerial ==
  ASSUME TypeInv, NEW c \in Conns, Serial(c), BatchWrite(c)
  PROVE  Serial(c)'
<1> DEFINE s == stmt[c]
           m == [loc[c] EXCEPT !.rows = IF loc[c].defs # {} THEN Targets(s) ELSE {},
                               !.touched = loc[c].defs # {}]
<1>1. pc[c] = "batch_write" /\ Goto(c, "row", m) /\ UNCHANGED <<catalog>>
  BY DEF BatchWrite, At
<1>2. /\ s \in Statement /\ s.op = "batch" /\ s.op \in Writes
      /\ loc[c] \in Local /\ loc[c].defs = catalog[TableOf(s)]
  BY <1>1, SerialNow, LocalAt DEF Writes, WriteOK
<1>3. m.defs = loc[c].defs /\ m.rows \subseteq Targets(s)
  BY <1>2 DEF Local
<1>4. ASSUME NEW r \in m.rows PROVE docs'[r] # NoDoc
  <2>1. r \in Targets(s) /\ r \in Recs /\ s.items[r[2]] # NoDoc
    BY <1>2, <1>3, <1>4 DEF Targets
  <2> QED
    BY <2>1 DEF BatchWrite
<1> HIDE DEF m
<1>5. WriteOK("row", s, m, docs', catalog')
  BY <1>1, <1>2, <1>3, <1>4, WriteAt
<1> QED
  BY <1>1, <1>2, <1>5, GotoSerial, OpsApart
\* What Row does to its record and where it goes.
LEMMA RowCases ==
  ASSUME TypeInv, NEW c \in Conns, Serial(c), Row(c)
  PROVE  \/ stmt[c].op = "create" /\ ~loc[c].touched /\ Fail(c)
         \/ \E r \in loc[c].rows, m \in Local :
              /\ m.defs = loc[c].defs /\ m.rows = loc[c].rows \ {r} /\ m.cur = r
              /\ UNCHANGED <<catalog, services>>
              /\ \/ /\ stmt[c].op \in {"create", "upsert", "update", "update_all"}
                    /\ stmt[c].op = "create" => docs[r] = NoDoc
                    /\ docs' = [docs EXCEPT ![r] = stmt[c].doc]
                    /\ Goto(c, "reread", m) /\ m.touched = loc[c].touched
                 \/ /\ stmt[c].op \in {"delete", "delete_all"}
                    /\ docs' = [docs EXCEPT ![r] = NoDoc]
                    /\ Goto(c, "maintain", m)
                    /\ m.doc = NoDoc /\ m.touched = TRUE /\ m.todo = loc[c].defs
                 \/ /\ stmt[c].op = "batch"
                    /\ docs' = docs
                    /\ Goto(c, "reread", m) /\ m.touched = loc[c].touched
                 \/ /\ stmt[c].op \in {"update", "delete", "delete_all"}
                    /\ docs' = docs
                    /\ Goto(c, "row", m) /\ m.touched = loc[c].touched
<1> DEFINE s == stmt[c]
           l == loc[c]
<1>1. /\ pc[c] = "row" /\ l \in Local
      /\ s.op = "update_all" => \A r \in l.rows : docs[r] # NoDoc
      /\ s.op = "create" /\ l.rows # {} => ~l.touched
  <2>1. pc[c] = "row" /\ l \in Local /\ WriteOK("row", s, l, docs, catalog)
    BY SerialNow, LocalAt DEF Row, At
  <2> QED
    BY <2>1 DEF WriteOK
<1>2. PICK r \in l.rows :
        LET next == [l EXCEPT !.rows = @ \ {r}, !.cur = r]
            exists == docs[r] # NoDoc
        IN \/ /\ s.op \in {"create", "upsert", "update", "update_all"}
              /\ s.op = "create" => ~exists
              /\ s.op \in {"update", "update_all"} => exists
              /\ docs' = [docs EXCEPT ![r] = s.doc]
              /\ Goto(c, "reread", next)
              /\ UNCHANGED <<catalog, services>>
           \/ /\ s.op \in {"delete", "delete_all"}
              /\ exists
              /\ docs' = [docs EXCEPT ![r] = NoDoc]
              /\ Goto(c, "maintain", [next EXCEPT !.doc = NoDoc, !.touched = TRUE,
                                                  !.todo = l.defs])
              /\ UNCHANGED <<catalog, services>>
           \/ /\ s.op = "batch"
              /\ Goto(c, "reread", next)
              /\ UNCHANGED <<durable, services>>
           \/ /\ s.op \in {"update", "delete", "delete_all"}
              /\ ~exists
              /\ Goto(c, "row", next)
              /\ UNCHANGED <<durable, services>>
           \/ /\ IF s.op = "create" THEN exists ELSE s.op = "update_all" /\ ~exists
              /\ Fail(c)
  BY ZenonT(60) DEF Row
<1> DEFINE next == [l EXCEPT !.rows = @ \ {r}, !.cur = r]
           gone == [next EXCEPT !.doc = NoDoc, !.touched = TRUE, !.todo = l.defs]
<1>3. /\ next \in Local /\ next.rows = l.rows \ {r} /\ next.cur = r /\ next.defs = l.defs
      /\ next.touched = l.touched
  BY <1>1 DEF Local
<1>4. /\ gone \in Local /\ gone.rows = l.rows \ {r} /\ gone.cur = r /\ gone.defs = l.defs
      /\ gone.touched = TRUE /\ gone.doc = NoDoc /\ gone.todo = l.defs
  BY <1>1 DEF Local
<1> HIDE DEF next, gone
<1>5. CASE /\ s.op \in {"create", "upsert", "update", "update_all"}
           /\ s.op = "create" => docs[r] = NoDoc
           /\ docs' = [docs EXCEPT ![r] = s.doc]
           /\ Goto(c, "reread", next)
           /\ UNCHANGED <<catalog, services>>
  BY <1>3, <1>5
<1>6. CASE /\ s.op \in {"delete", "delete_all"}
           /\ docs' = [docs EXCEPT ![r] = NoDoc]
           /\ Goto(c, "maintain", gone)
           /\ UNCHANGED <<catalog, services>>
  BY <1>4, <1>6
<1>7. CASE s.op = "batch" /\ Goto(c, "reread", next) /\ UNCHANGED <<durable, services>>
  BY <1>3, <1>7 DEF durable
<1>8. CASE /\ s.op \in {"update", "delete", "delete_all"} /\ Goto(c, "row", next)
           /\ UNCHANGED <<durable, services>>
  BY <1>3, <1>8 DEF durable
<1>9. CASE /\ IF s.op = "create" THEN docs[r] # NoDoc ELSE s.op = "update_all" /\ docs[r] = NoDoc
           /\ Fail(c)
  BY <1>1, <1>9
<1> QED
  BY <1>2, <1>5, <1>6, <1>7, <1>8, <1>9 DEF next, gone

LEMMA RowSerial ==
  ASSUME TypeInv, NEW c \in Conns, Serial(c), Row(c)
  PROVE  Serial(c)'
<1> DEFINE s == stmt[c]
           l == loc[c]
<1>1. pc[c] = "row" /\ pc[c] # "idle"
  BY DEF Row, At
<1>2. /\ s \in Statement /\ s.op \in Writes /\ l \in Local
      /\ l.defs = catalog[TableOf(s)] /\ l.rows \subseteq Targets(s) /\ Targets(s) \subseteq Recs
      /\ s.op \in {"update_all", "batch"} => \A r \in l.rows : docs[r] # NoDoc
  BY <1>1, SerialNow, LocalAt, TargetsType DEF WriteOK
<1>3. s.op \in {"create", "upsert", "update", "update_all"} => s.doc # NoDoc
  BY <1>2, StatementShape, ConstantsAssumption
<1>4. docs \in [Recs -> Doc \cup {NoDoc}]
  BY DEF TypeInv, TypeOK
<1>5. CASE Fail(c)
  BY <1>5, ReturnSerial DEF Fail
<1>6. ASSUME NEW r \in l.rows, NEW m \in Local, NEW label, label # "idle", Goto(c, label, m),
             catalog' = catalog, m.defs = l.defs, m.rows = l.rows \ {r}, m.cur = r,
             docs' = docs \/ docs' = [docs EXCEPT ![r] = s.doc] \/ docs' = [docs EXCEPT ![r] = NoDoc],
             \/ label = "reread" /\ docs'[r] # NoDoc
             \/ label = "row" /\ s.op # "create"
             \/ /\ label = "maintain" /\ docs'[r] = NoDoc
                /\ m.doc = NoDoc /\ m.touched = TRUE /\ m.todo = l.defs
      PROVE  Serial(c)'
  <2>1. s.op \in {"update_all", "batch"} => \A q \in m.rows : docs'[q] # NoDoc
    BY <1>2, <1>4, <1>6
  <2>2. m.rows \subseteq Targets(s) /\ m.cur \in Targets(s) \ m.rows
    BY <1>2, <1>6
  <2>3. WriteOK(label, s, m, docs', catalog')
    BY <1>2, <1>6, <2>1, <2>2, WriteAt
  <2> QED
    BY <1>1, <1>2, <1>6, <2>3, GotoSerial, OpsApart
<1>7. ASSUME NEW r \in l.rows, NEW m \in Local,
             m.defs = l.defs, m.rows = l.rows \ {r}, m.cur = r, catalog' = catalog
      PROVE  /\ (/\ s.op \in {"create", "upsert", "update", "update_all"}
                 /\ docs' = [docs EXCEPT ![r] = s.doc] /\ Goto(c, "reread", m)) => Serial(c)'
             /\ (/\ docs' = [docs EXCEPT ![r] = NoDoc] /\ Goto(c, "maintain", m)
                 /\ m.doc = NoDoc /\ m.touched = TRUE /\ m.todo = loc[c].defs) => Serial(c)'
             /\ (s.op = "batch" /\ docs' = docs /\ Goto(c, "reread", m)) => Serial(c)'
             /\ (/\ s.op \in {"update", "delete", "delete_all"} /\ docs' = docs
                 /\ Goto(c, "row", m)) => Serial(c)'
  <2>1. r \in Recs
    BY <1>2
  <2>2. CASE /\ s.op \in {"create", "upsert", "update", "update_all"}
             /\ docs' = [docs EXCEPT ![r] = s.doc] /\ Goto(c, "reread", m)
    BY <1>3, <1>4, <1>6, <1>7, <2>1, <2>2
  <2>3. CASE /\ docs' = [docs EXCEPT ![r] = NoDoc] /\ Goto(c, "maintain", m)
             /\ m.doc = NoDoc /\ m.touched = TRUE /\ m.todo = loc[c].defs
    BY <1>4, <1>6, <1>7, <2>1, <2>3
  <2>4. CASE s.op = "batch" /\ docs' = docs /\ Goto(c, "reread", m)
    BY <1>2, <1>6, <1>7, <2>4
  <2>5. CASE s.op \in {"update", "delete", "delete_all"} /\ docs' = docs /\ Goto(c, "row", m)
    BY <1>6, <1>7, <2>5
  <2> QED
    BY <2>2, <2>3, <2>4, <2>5
<1> QED
  BY <1>5, <1>7, RowCases

LEMMA RowsDoneSerial ==
  ASSUME TypeInv, NEW c \in Conns, Serial(c), RowsDone(c)
  PROVE  Serial(c)'
<1>1. CASE Ok(c)
  BY <1>1, ReturnSerial DEF Ok
<1>2. CASE Goto(c, "commit", loc[c])
  <2> DEFINE s == stmt[c]
  <2>1. pc[c] = "row" /\ loc[c].rows = {} /\ UNCHANGED <<docs, catalog>>
    BY DEF RowsDone, At, durable
  <2>2. s.op \in Writes /\ WriteOK("row", s, loc[c], docs, catalog)
    BY <2>1, SerialNow, LocalAt
  <2>3. /\ loc[c].defs = catalog[TableOf(s)] /\ loc[c].rows \subseteq Targets(s)
        /\ s.op \in {"update_all", "batch"} => \A r \in loc[c].rows : docs[r] # NoDoc
    BY <2>2 DEF WriteOK
  <2>4. WriteOK("commit", s, loc[c], docs', catalog')
    BY <2>1, <2>3, WriteAt
  <2> QED
    BY <1>2, <2>1, <2>2, <2>4, GotoSerial, OpsApart
<1> QED
  BY <1>1, <1>2 DEF RowsDone

LEMMA RereadSerial ==
  ASSUME TypeInv, NEW c \in Conns, Serial(c), Reread(c)
  PROVE  Serial(c)'
<1> DEFINE s == stmt[c]
           l == loc[c]
           m == [l EXCEPT !.doc = docs[l.cur], !.todo = l.defs, !.touched = TRUE]
<1>1. pc[c] = "reread" /\ UNCHANGED <<docs, catalog>>
  BY DEF Reread, At, durable
<1>2. s \in Statement /\ s.op \in Writes /\ l \in Local /\ WriteOK("reread", s, l, docs, catalog)
  BY <1>1, SerialNow, LocalAt DEF Applying
<1>3. docs[l.cur] # NoDoc /\ l.cur \in Targets(s) \ l.rows
  BY <1>2 DEF WriteOK
<1>4. Goto(c, "maintain", m)
  BY <1>3 DEF Reread
<1>5. /\ m.defs = l.defs /\ m.rows = l.rows /\ m.cur = l.cur /\ m.touched = TRUE
      /\ m.todo = l.defs /\ m.doc = docs[l.cur]
  BY <1>2 DEF Local
<1> HIDE DEF m
<1>6. WriteOK("maintain", s, m, docs', catalog')
  <2>1. /\ l.defs = catalog[TableOf(s)] /\ l.rows \subseteq Targets(s)
        /\ s.op \in {"update_all", "batch"} => \A r \in l.rows : docs[r] # NoDoc
    BY <1>2 DEF WriteOK
  <2> QED
    BY <1>1, <1>3, <1>5, <2>1, WriteAt
<1> QED
  BY <1>1, <1>2, <1>4, <1>6, GotoSerial, OpsApart
\* Points of maintain_search_indexes are no others.
LEMMA PointsApart ==
  /\ Texting \subseteq Maintaining /\ VectorPending \subseteq Maintaining
  /\ "maintain" \in Maintaining /\ Opening \subseteq Texting /\ Loading \subseteq VectorPending
  /\ Texting \cap VectorPending = {} /\ "maintain" \notin Texting \cup VectorPending
  /\ Maintaining \cap {"idle", "load", "scan", "batch_write", "row", "reread", "commit", "find",
                       "query_text", "query_vector", "resolve", "register", "backfill_scan",
                       "backfill", "set_loaded", "define_write", "remove_write", "drop_text",
                       "drop_vector", "unmark_open"} = {}
BY DEF Texting, Maintaining, Vectoring, VectorPending, Loading, Rebuilding, Opening

LEMMA MaintainSerial ==
  ASSUME TypeInv, NEW c \in Conns, Serial(c), Maintain(c)
  PROVE  Serial(c)'
<1> DEFINE s == stmt[c]
           l == loc[c]
<1>1. pc[c] = "maintain" /\ UNCHANGED <<docs, catalog>>
  BY DEF Maintain, At, durable
<1>2. s \in Statement /\ s.op \in Writes /\ l \in Local /\ WriteOK("maintain", s, l, docs, catalog)
  BY <1>1, SerialNow, LocalAt DEF Applying
<1>3. l.todo \subseteq l.defs /\ "maintain" \in Maintaining
  BY <1>2, PointsApart DEF WriteOK
<1>4. CASE Goto(c, "row", [l EXCEPT !.done = @ \cup {l.cur}])
  <2> DEFINE m == [l EXCEPT !.done = @ \cup {l.cur}]
  <2>1. m.defs = l.defs /\ m.rows = l.rows /\ m.touched = l.touched
    BY <1>2 DEF Local
  <2> HIDE DEF m
  <2>2. /\ l.defs = catalog[TableOf(s)] /\ l.rows \subseteq Targets(s)
        /\ s.op \in {"update_all", "batch"} => \A r \in l.rows : docs[r] # NoDoc
        /\ l.cur \in Targets(s) \ l.rows
    BY <1>2, <1>3, PointsApart DEF WriteOK
  <2>3. s.op = "create" => l.rows = {}
    <3>1. s.op = "create" => Targets(s) = {s.rec}
      BY <1>2, TargetsType
    <3> QED
      BY <2>2, <3>1
  <2>4. WriteOK("row", s, m, docs', catalog')
    BY <1>1, <2>1, <2>2, <2>3, WriteAt
  <2>5. Goto(c, "row", m)
    BY <1>4 DEF m
  <2> QED
    BY <1>1, <1>2, <2>4, <2>5, GotoSerial, OpsApart
<1>5. ASSUME NEW label \in Maintaining, NEW kind \in l.todo, NEW ret,
             Goto(c, label, [l EXCEPT !.todo = @ \ {kind}, !.ret = ret]),
             label \in Texting => kind = "text", label \in VectorPending => kind = "vector",
             label \in Loading \cup {"insert_vector"} => HasVector(l),
             label \in {"vector_exists", "remove_vector"} => ~HasVector(l)
      PROVE  Serial(c)'
  <2> DEFINE m == [l EXCEPT !.todo = @ \ {kind}, !.ret = ret]
  <2>1. /\ m.defs = l.defs /\ m.rows = l.rows /\ m.touched = l.touched /\ m.cur = l.cur
        /\ m.doc = l.doc /\ m.todo \subseteq l.todo
    BY <1>2 DEF Local
  <2> HIDE DEF m
  <2>2. WriteOK(label, s, m, docs, catalog)
    BY <1>2, <1>3, <1>5, <2>1, WriteMove
  <2>3. Goto(c, label, m) /\ label # "idle"
    BY <1>5, PointsApart DEF m
  <2> QED
    BY <1>1, <1>2, <2>2, <2>3, GotoSerial, OpsApart
<1>6. CASE /\ "text" \in l.todo
           /\ Goto(c, "ensure_text", [l EXCEPT !.todo = @ \ {"text"}, !.ret = "delete_text"])
  BY <1>5, <1>6, PointsApart DEF Opening, Loading, Rebuilding
<1>7. CASE /\ "vector" \in l.todo
           /\ Goto(c, IF HasVector(l) THEN "ensure_vector" ELSE "vector_exists",
                   [l EXCEPT !.todo = @ \ {"vector"}, !.ret = "insert_vector"])
  BY <1>5, <1>7, PointsApart DEF VectorPending, Loading, Rebuilding
<1> QED
  BY <1>4, <1>6, <1>7 DEF Maintain

\* The full-text part: the locals stay.
LEMMA TextMoves ==
  ASSUME TypeInv, NEW c \in Conns, Serial(c),
         EnsureText(c) \/ OpenText(c) \/ MarkOpen(c) \/ DeleteText(c) \/ AddText(c)
  PROVE  /\ pc[c] \in Texting /\ UNCHANGED <<docs, catalog, registry, heap>>
         /\ stmt[c] \in Statement /\ stmt[c].op \in Writes \cup {"define", "search"}
         /\ loc[c] \in Local
         /\ \/ Fail(c)
            \/ \E q : /\ Goto(c, q, loc[c])
                      /\ stmt[c].op \in Writes => q \in Texting \cup {"maintain"}
                      /\ stmt[c].op = "define" => q \in Opening \cup {"backfill_scan", "backfill"}
                      /\ stmt[c].op = "search" => q \in Opening \cup {"find"}
<1> DEFINE s == stmt[c]
           l == loc[c]
<1>1. pc[c] \in Texting /\ UNCHANGED <<docs, catalog, registry, heap>>
  BY DEF EnsureText, OpenText, MarkOpen, DeleteText, AddText, At, durable, services, Texting,
         Opening, Fail
<1>2. s \in Statement /\ l \in Local /\ LocalOK(pc[c], s, l)
  BY <1>1, SerialNow, PointsApart
<1>3. CASE EnsureText(c) \/ OpenText(c) \/ MarkOpen(c)
  <2>1. pc[c] \in Opening
    BY <1>3 DEF EnsureText, OpenText, MarkOpen, At, Opening
  <2>2. OpeningOK(s, l)
    BY <1>2, <2>1, LocalAt
  <2>3. Fail(c) \/ Goto(c, l.ret, l) \/ Goto(c, "open_text", l) \/ Goto(c, "mark_open", l)
    BY <1>3 DEF EnsureText, OpenText, MarkOpen
  <2> QED
    BY <1>1, <1>2, <2>2, <2>3, OpsApart DEF OpeningOK, Texting, Opening
<1>4. CASE DeleteText(c)
  <2>1. s.op \in Writes
    BY <1>2, <1>4, LocalAt DEF DeleteText, At, Applying
  <2>2. Fail(c) \/ Goto(c, "add_text", l) \/ Goto(c, "maintain", l)
    BY <1>4 DEF DeleteText
  <2> QED
    BY <1>1, <1>2, <2>1, <2>2, OpsApart DEF Texting
<1>5. CASE AddText(c)
  <2>1. s.op \in Writes \/ s.op = "define"
    BY SMTT(30), <1>2, <1>5, LocalAt DEF AddText, At
  <2>2. Goto(c, IF s.op = "define" THEN "backfill" ELSE "maintain", l)
    BY <1>5 DEF AddText
  <2> QED
    BY SMTT(30), <1>1, <1>2, <2>1, <2>2, OpsApart
<1> QED
  BY SMTT(30), <1>3, <1>4, <1>5

LEMMA TextSerial ==
  ASSUME TypeInv, NEW c \in Conns, Serial(c),
         EnsureText(c) \/ OpenText(c) \/ MarkOpen(c) \/ DeleteText(c) \/ AddText(c)
  PROVE  Serial(c)'
<1> DEFINE s == stmt[c]
           l == loc[c]
<1>1. /\ pc[c] \in Texting /\ UNCHANGED <<docs, catalog>> /\ pc[c] # "idle"
      /\ s \in Statement /\ s.op \in Writes \cup {"define", "search"} /\ l \in Local
  BY TextMoves, PointsApart
<1>2. CASE Fail(c)
  BY <1>2, ReturnSerial DEF Fail
<1>3. ASSUME NEW q, Goto(c, q, l), s.op \in Writes => q \in Texting \cup {"maintain"},
             s.op = "define" => q \in Opening \cup {"backfill_scan", "backfill"},
             s.op = "search" => q \in Opening \cup {"find"}
      PROVE  Serial(c)'
  <2>1. q # "idle" /\ s.op # "remove"
    BY <1>1, <1>3, PointsApart, OpsApart
  <2>2. s.op \in Writes => WriteOK(q, s, l, docs', catalog')
    <3> SUFFICES ASSUME s.op \in Writes PROVE WriteOK(q, s, l, docs, catalog)
      BY <1>1
    <3>1. WriteOK(pc[c], s, l, docs, catalog)
      BY <1>1, SerialNow
    <3>2. /\ "text" \in l.defs /\ pc[c] \in Maintaining /\ q \in Maintaining
          /\ q \notin VectorPending /\ q \notin Loading \cup {"insert_vector"}
          /\ q \notin {"vector_exists", "remove_vector"}
      BY <1>1, <1>3, <3>1, PointsApart DEF WriteOK, VectorPending
    <3> QED
      BY <3>1, <3>2, WriteMove
  <2>3. s.op = "define" => DefineOK(q, s, catalog')
    <3> SUFFICES ASSUME s.op = "define" PROVE DefineOK(q, s, catalog)
      BY <1>1
    <3>1. DefineOK(pc[c], s, catalog) /\ pc[c] # "define_write"
      BY <1>1, SerialNow, PointsApart
    <3>2. pc[c] \in Opening \cup {"add_text"}
      <4>1. pc[c] # "delete_text"
        BY <1>1, SerialNow, LocalAt, OpsApart DEF Applying
      <4> QED
        BY <1>1, <4>1 DEF Texting
    <3> QED
      BY <1>3, <3>1, <3>2, PointsApart DEF DefineOK
  <2>4. s.op = "search" => SearchOK(q, s, l, catalog')
    <3> SUFFICES ASSUME s.op = "search" PROVE SearchOK(q, s, l, catalog)
      BY <1>1
    <3>1. SearchOK(pc[c], s, l, catalog) /\ pc[c] \in Labels \ {"query_vector", "resolve"}
      BY <1>1, SerialNow, PointsApart, Known
    <3>2. q \notin Loading /\ q \notin {"query_text", "query_vector", "resolve"}
      BY <1>3, PointsApart DEF Loading, Rebuilding
    <3> QED
      BY <3>1, <3>2 DEF SearchOK
  <2> QED
    BY <1>1, <1>3, <2>1, <2>2, <2>3, <2>4, GotoSerial
<1> QED
  BY <1>2, <1>3, TextMoves
\* ensure_vector_loaded: only the entry and what is left to insert change.
LEMMA LoadMoves ==
  ASSUME TypeInv, NEW c \in Conns, Serial(c),
         EnsureVector(c) \/ RebuildLock(c) \/ RebuildScan(c) \/ RebuildInsert(c) \/ RebuildDone(c)
  PROVE  /\ pc[c] \in Loading /\ UNCHANGED <<docs, catalog, fts_open, fts>>
         /\ stmt[c] \in Statement /\ loc[c] \in Local
         /\ \/ stmt[c].op \in Writes /\ loc[c].ret = "insert_vector"
            \/ stmt[c].op = "search" /\ loc[c].ret = "find"
         /\ \E q, m : /\ Goto(c, q, m) /\ q \in Loading \cup {loc[c].ret}
                      /\ m.defs = loc[c].defs /\ m.rows = loc[c].rows
                      /\ m.touched = loc[c].touched /\ m.cur = loc[c].cur
                      /\ m.doc = loc[c].doc /\ m.todo = loc[c].todo /\ m.hits = loc[c].hits
<1> DEFINE s == stmt[c]
           l == loc[c]
<1>1. pc[c] \in Loading /\ UNCHANGED <<docs, catalog, fts_open, fts>>
  BY DEF EnsureVector, RebuildLock, RebuildScan, RebuildInsert, RebuildDone, At, durable,
         services, Loading, Rebuilding, Allocate
<1>2. s \in Statement /\ l \in Local /\ LoadingOK(s, l)
  <2>1. s \in Statement /\ l \in Local /\ LocalOK(pc[c], s, l)
    BY <1>1, SerialNow, PointsApart
  <2> QED
    BY <1>1, <2>1 DEF LocalOK
<1>3. \/ \E q \in Loading \cup {l.ret} : Goto(c, q, l)
      \/ \E q \in Loading \cup {l.ret} : \E e : Goto(c, q, [l EXCEPT !.ent = e])
      \/ \E q \in Loading \cup {l.ret} : \E f : Goto(c, q, [l EXCEPT !.fill = f])
  <2>1. CASE EnsureVector(c)
    BY <2>1 DEF EnsureVector, Loading, Rebuilding
  <2>2. CASE RebuildLock(c)
    BY <2>2 DEF RebuildLock, Loading, Rebuilding
  <2>3. CASE RebuildScan(c)
    BY <2>3 DEF RebuildScan, Loading, Rebuilding
  <2>4. CASE RebuildInsert(c)
    BY <2>4 DEF RebuildInsert, Loading, Rebuilding
  <2>5. CASE RebuildDone(c)
    BY <2>5 DEF RebuildDone
  <2> QED
    BY <2>1, <2>2, <2>3, <2>4, <2>5
<1>4. ASSUME NEW e
      PROVE  LET m == [l EXCEPT !.ent = e]
             IN /\ m.defs = l.defs /\ m.rows = l.rows /\ m.touched = l.touched /\ m.cur = l.cur
                /\ m.doc = l.doc /\ m.todo = l.todo /\ m.hits = l.hits
  BY <1>2 DEF Local
<1>5. ASSUME NEW f
      PROVE  LET m == [l EXCEPT !.fill = f]
             IN /\ m.defs = l.defs /\ m.rows = l.rows /\ m.touched = l.touched /\ m.cur = l.cur
                /\ m.doc = l.doc /\ m.todo = l.todo /\ m.hits = l.hits
  BY <1>2 DEF Local
<1> DEFINE Alike(m) ==
             /\ m.defs = l.defs /\ m.rows = l.rows /\ m.touched = l.touched
             /\ m.cur = l.cur /\ m.doc = l.doc /\ m.todo = l.todo /\ m.hits = l.hits
<1>6. \E q, m : Goto(c, q, m) /\ q \in Loading \cup {l.ret} /\ Alike(m)
  <2>1. Alike(l) /\ (\A e : Alike([l EXCEPT !.ent = e])) /\ \A f : Alike([l EXCEPT !.fill = f])
    BY <1>4, <1>5
  <2> HIDE DEF Alike
  <2> QED
    BY <1>3, <2>1
<1> QED
  BY <1>1, <1>2, <1>6 DEF LoadingOK

LEMMA LoadingSerial ==
  ASSUME TypeInv, NEW c \in Conns, Serial(c),
         EnsureVector(c) \/ RebuildLock(c) \/ RebuildScan(c) \/ RebuildInsert(c) \/ RebuildDone(c)
  PROVE  Serial(c)'
<1> DEFINE s == stmt[c]
           l == loc[c]
<1>1. /\ pc[c] \in Loading /\ UNCHANGED <<docs, catalog>> /\ pc[c] # "idle"
      /\ s \in Statement /\ l \in Local
      /\ (s.op \in Writes /\ l.ret = "insert_vector") \/ (s.op = "search" /\ l.ret = "find")
  BY LoadMoves, PointsApart
<1>2. PICK q, m : /\ Goto(c, q, m) /\ q \in Loading \cup {l.ret}
                  /\ m.defs = l.defs /\ m.rows = l.rows /\ m.touched = l.touched
                  /\ m.cur = l.cur /\ m.doc = l.doc /\ m.todo = l.todo /\ m.hits = l.hits
  BY LoadMoves
<1>3. q # "idle" /\ s.op \notin {"define", "remove"}
  BY <1>1, <1>2, PointsApart, OpsApart
<1>4. s.op \in Writes => WriteOK(q, s, m, docs', catalog')
  <2> SUFFICES ASSUME s.op \in Writes PROVE WriteOK(q, s, m, docs, catalog)
    BY <1>1
  <2>1. WriteOK(pc[c], s, l, docs, catalog) /\ l.ret = "insert_vector"
    BY <1>1, SerialNow, OpsApart
  <2>2. "vector" \in l.defs /\ HasVector(l)
    BY <1>1, <2>1, PointsApart DEF WriteOK
  <2>3. /\ pc[c] \in Maintaining /\ q \in Maintaining /\ q \notin Texting
        /\ q \notin {"vector_exists", "remove_vector"}
    BY <1>1, <1>2, <2>1, PointsApart DEF VectorPending, Loading, Rebuilding
  <2> QED
    BY <1>2, <2>1, <2>2, <2>3, WriteMove
<1>5. s.op = "search" => SearchOK(q, s, m, catalog')
  <2> SUFFICES ASSUME s.op = "search" PROVE SearchOK(q, s, m, catalog)
    BY <1>1
  <2>1. SearchOK(pc[c], s, l, catalog) /\ pc[c] \in Labels \ {"query_vector", "resolve"}
    BY <1>1, SerialNow, PointsApart, Known
  <2>2. q \notin {"query_text", "query_vector", "resolve"} /\ l.ret = "find"
    BY <1>1, <1>2, PointsApart, OpsApart
  <2> QED
    BY <1>1, <1>2, <2>1, <2>2 DEF SearchOK
<1> QED
  BY <1>1, <1>2, <1>3, <1>4, <1>5, GotoSerial

LEMMA VectorMoves ==
  ASSUME TypeInv, NEW c \in Conns, Serial(c), InsertVector(c) \/ VectorExists(c) \/ RemoveVector(c)
  PROVE  /\ pc[c] \in {"insert_vector", "vector_exists", "remove_vector"}
         /\ UNCHANGED <<docs, catalog, fts_open, fts, registry>>
         /\ stmt[c] \in Statement /\ stmt[c].op \in Writes /\ loc[c] \in Local
         /\ \/ Goto(c, "maintain", loc[c])
            \/ pc[c] = "vector_exists" /\ Goto(c, "remove_vector", loc[c])
<1>1. /\ pc[c] \in {"insert_vector", "vector_exists", "remove_vector"}
      /\ UNCHANGED <<docs, catalog, fts_open, fts, registry>>
  BY DEF InsertVector, VectorExists, RemoveVector, At, durable, services
<1>2. stmt[c] \in Statement /\ stmt[c].op \in Writes /\ loc[c] \in Local
  BY <1>1, SerialNow, LocalAt DEF Applying
<1> QED
  BY <1>1, <1>2 DEF InsertVector, VectorExists, RemoveVector, At

LEMMA VectorSerial ==
  ASSUME TypeInv, NEW c \in Conns, Serial(c), InsertVector(c) \/ VectorExists(c) \/ RemoveVector(c)
  PROVE  Serial(c)'
<1> DEFINE s == stmt[c]
           l == loc[c]
<1>1. /\ pc[c] \in {"insert_vector", "vector_exists", "remove_vector"}
      /\ UNCHANGED <<docs, catalog>> /\ s.op \in Writes /\ pc[c] # "idle"
  BY VectorMoves
<1>2. WriteOK(pc[c], s, l, docs, catalog) /\ pc[c] \in Maintaining
  BY <1>1, SerialNow, PointsApart DEF VectorPending
<1>3. pc[c] = "vector_exists" => "vector" \in l.defs /\ ~HasVector(l)
  BY <1>2, PointsApart DEF WriteOK, VectorPending
<1>4. "maintain" \notin Loading \cup {"insert_vector"} /\ "remove_vector" \notin Loading \cup {"insert_vector"}
      /\ "remove_vector" \notin Texting /\ "remove_vector" \in Maintaining
  BY DEF Loading, Rebuilding, Texting, Opening, Maintaining, Vectoring
<1>5. CASE Goto(c, "maintain", l)
  <2>1. WriteOK("maintain", s, l, docs, catalog)
    BY <1>2, <1>4, PointsApart, WriteMove
  <2> QED
    BY <1>1, <1>5, <2>1, GotoSerial, OpsApart
<1>6. CASE pc[c] = "vector_exists" /\ Goto(c, "remove_vector", l)
  <2>1. WriteOK("remove_vector", s, l, docs, catalog)
    BY <1>2, <1>3, <1>4, <1>6, WriteMove
  <2> QED
    BY <1>1, <1>6, <2>1, GotoSerial, OpsApart
<1> QED
  BY <1>5, <1>6, VectorMoves

LEMMA DefineSerial ==
  ASSUME TypeInv, NEW c \in Conns, Serial(c),
         DefineWrite(c) \/ Register(c) \/ BackfillScan(c) \/ Backfill(c) \/ BackfillDone(c)
  PROVE  Serial(c)'
<1> DEFINE s == stmt[c]
           l == loc[c]
<1>1. pc[c] \in {"define_write", "register", "backfill_scan", "backfill"}
  BY ZenonT(60) DEF DefineWrite, Register, BackfillScan, Backfill, BackfillDone, At
<1>2. /\ s \in Statement /\ s.op = "define" /\ s.table \in Tables /\ s.kind \in Kinds
      /\ DefineOK(pc[c], s, catalog)
  <2>1. s \in Statement /\ LocalOK(pc[c], s, l)
    BY <1>1, SerialNow
  <2>2. s.op = "define"
    BY <1>1, <2>1 DEF LocalOK, Defining
  <2> QED
    BY <1>1, <2>1, <2>2, SerialNow, StatementShape
<1>3. ASSUME NEW q, q # "idle", NEW m, Goto(c, q, m), DefineOK(q, s, catalog')
      PROVE  Serial(c)'
  BY <1>1, <1>2, <1>3, GotoSerial, OpsApart
<1>4. CASE DefineWrite(c)
  <2>1. /\ catalog' = [catalog EXCEPT ![s.table] = @ \cup {s.kind}]
        /\ Goto(c, IF s.kind = "text" THEN "ensure_text" ELSE "register",
                [l EXCEPT !.ret = "backfill_scan"])
    BY <1>4 DEF DefineWrite
  <2>2. s.kind \in catalog'[s.table]
    BY <1>2, <2>1 DEF TypeInv, TypeOK
  <2>3. DefineOK(IF s.kind = "text" THEN "ensure_text" ELSE "register", s, catalog')
    BY <1>2, <2>2 DEF DefineOK, Kinds, Opening
  <2> QED
    BY <1>3, <2>1, <2>3
<1>5. CASE Register(c)
  <2>1. catalog' = catalog /\ Goto(c, "backfill_scan", l) /\ pc[c] = "register"
    BY <1>5 DEF Register, durable, At
  <2> QED
    BY <1>2, <1>3, <2>1 DEF DefineOK, Opening
<1>6. CASE BackfillScan(c)
  <2>1. catalog' = catalog /\ pc[c] = "backfill_scan" /\ \E m : Goto(c, "backfill", m)
    BY <1>6 DEF BackfillScan, durable, At
  <2> QED
    BY <1>2, <1>3, <2>1 DEF DefineOK, Opening
<1>7. CASE Backfill(c)
  <2>1. catalog' = catalog /\ pc[c] = "backfill"
    BY ZenonT(60), <1>7 DEF Backfill, durable, At
  <2>2. \/ Return(c, {})
        \/ \E m : Goto(c, "backfill", m)
        \/ s.kind # "vector" /\ \E m : Goto(c, "add_text", m)
    BY ZenonT(60), <1>7 DEF Backfill
  <2> QED
    BY SMTT(30), <1>2, <1>3, <2>1, <2>2, ReturnSerial DEF DefineOK, Opening, Kinds
<1>8. CASE BackfillDone(c)
  <2>1. /\ catalog' = catalog /\ pc[c] = "backfill"
        /\ \E m : Goto(c, IF s.kind = "text" THEN "commit" ELSE "set_loaded", m)
    BY <1>8 DEF BackfillDone, durable, At
  <2> QED
    BY <1>2, <1>3, <2>1 DEF DefineOK, Opening, Kinds
<1> QED
  BY SMTT(30), <1>4, <1>5, <1>6, <1>7, <1>8

LEMMA RemoveSerial ==
  ASSUME TypeInv, NEW c \in Conns, Serial(c), RemoveWrite(c) \/ DropText(c)
  PROVE  Serial(c)'
<1> DEFINE s == stmt[c]
           l == loc[c]
<1>1. pc[c] \in {"remove_write", "drop_text"}
  BY DEF RemoveWrite, DropText, At
<1>2. /\ s \in Statement /\ s.op = "remove" /\ s.table \in Tables /\ s.kind \in Kinds
      /\ RemoveOK(pc[c], s, l, catalog)
  BY <1>1, SerialNow, LocalAt, StatementShape DEF Removing
<1>3. ASSUME NEW q, q # "idle", Goto(c, q, l), RemoveOK(q, s, l, catalog')
      PROVE  Serial(c)'
  BY <1>1, <1>2, <1>3, GotoSerial, OpsApart
<1>4. CASE RemoveWrite(c) /\ Ok(c)
  BY <1>4, ReturnSerial DEF Ok
<1>5. CASE RemoveWrite(c) /\ Goto(c, IF s.kind = "text" THEN "drop_text" ELSE "drop_vector", l)
  <2>1. catalog' = [catalog EXCEPT ![s.table] = @ \ {s.kind}]
    BY <1>5 DEF RemoveWrite
  <2>2. s.kind \notin catalog'[s.table]
    BY <1>2, <2>1 DEF TypeInv, TypeOK
  <2>3. RemoveOK(IF s.kind = "text" THEN "drop_text" ELSE "drop_vector", s, l, catalog')
    BY <1>2, <2>2 DEF RemoveOK, Kinds
  <2> QED
    BY <1>3, <1>5, <2>3
<1>6. CASE DropText(c)
  <2>1. catalog' = catalog /\ Goto(c, "unmark_open", l) /\ pc[c] = "drop_text"
    BY <1>6 DEF DropText, At, durable
  <2> QED
    BY <1>2, <1>3, <2>1 DEF RemoveOK
<1> QED
  BY <1>4, <1>5, <1>6 DEF RemoveWrite
LEMMA SearchSerial ==
  ASSUME TypeInv, NEW c \in Conns, Serial(c), Find(c) \/ QueryText(c) \/ QueryVector(c)
  PROVE  Serial(c)'
<1> DEFINE s == stmt[c]
           l == loc[c]
<1>1. pc[c] \in {"find", "query_text", "query_vector"} /\ UNCHANGED <<docs, catalog>>
  BY DEF Find, QueryText, QueryVector, At, durable, Fail
<1>2. /\ s \in Statement /\ s.op = "search" /\ s.kinds \subseteq Kinds /\ s.kinds # {}
      /\ SearchOK(pc[c], s, l, catalog) /\ l \in Local /\ pc[c] \in Labels
  BY <1>1, SerialNow, LocalAt, StatementShape, Known DEF Searching
<1>3. CASE Fail(c)
  BY <1>3, ReturnSerial DEF Fail
<1>4. ASSUME NEW q, q # "idle", NEW m, Goto(c, q, m), SearchOK(q, s, m, catalog)
      PROVE  Serial(c)'
  BY <1>1, <1>2, <1>4, GotoSerial, OpsApart
<1>5. CASE Find(c) /\ l.todo = {} /\ ~Fail(c)
  <2>1. Goto(c, IF "text" \in s.kinds THEN "query_text" ELSE "query_vector", l) /\ pc[c] = "find"
    BY <1>5 DEF Find, At
  <2>2. "text" \notin s.kinds => "vector" \in s.kinds
    BY <1>2 DEF Kinds
  <2>3. SearchOK(IF "text" \in s.kinds THEN "query_text" ELSE "query_vector", s, l, catalog)
    BY <1>2, <1>5, <2>1, <2>2 DEF SearchOK, Loading, Rebuilding
  <2> QED
    BY <1>4, <2>1, <2>3
<1>6. CASE Find(c) /\ l.todo # {} /\ ~Fail(c)
  <2> DEFINE kind == IF "text" \in l.todo THEN "text" ELSE "vector"
             m == [l EXCEPT !.todo = @ \ {kind}, !.ret = "find"]
             q == IF kind = "text" THEN "ensure_text" ELSE "ensure_vector"
  <2>1. Goto(c, q, m) /\ pc[c] = "find" /\ kind \in catalog[s.table]
    BY <1>6 DEF Find, At
  <2>2. kind \in l.todo /\ (q \in Loading => kind = "vector")
    <3>1. l.todo \subseteq Kinds
      BY <1>2 DEF SearchOK
    <3> QED
      BY <1>6, <3>1 DEF Kinds, Loading, Rebuilding
  <2>3. m.todo = l.todo \ {kind} /\ m.hits = l.hits
    BY <1>2 DEF Local
  <2>4. q \notin {"query_text", "query_vector", "resolve", "idle"}
    OBVIOUS
  <2> HIDE DEF m, q, kind
  <2>5. SearchOK(q, s, m, catalog)
    BY <1>2, <2>1, <2>2, <2>3, <2>4 DEF SearchOK
  <2> QED
    BY <1>4, <2>1, <2>4, <2>5
<1>7. CASE QueryText(c) /\ ~Fail(c)
  <2>1. /\ pc[c] = "query_text"
        /\ \E h : Goto(c, IF "vector" \in s.kinds THEN "query_vector" ELSE "resolve",
                       [l EXCEPT !.hits = h])
    BY <1>7 DEF QueryText, At
  <2>2. ASSUME NEW h PROVE [l EXCEPT !.hits = h].todo = l.todo
    BY <1>2 DEF Local
  <2>3. ASSUME NEW h
        PROVE  SearchOK(IF "vector" \in s.kinds THEN "query_vector" ELSE "resolve", s,
                        [l EXCEPT !.hits = h], catalog)
    BY <1>2, <2>1, <2>2 DEF SearchOK, Loading, Rebuilding
  <2> QED
    BY <1>4, <2>1, <2>3
<1>8. CASE QueryVector(c) /\ ~Fail(c)
  <2>1. pc[c] = "query_vector" /\ \E h : Goto(c, "resolve", [l EXCEPT !.hits = h])
    BY <1>8 DEF QueryVector, At
  <2>2. ASSUME NEW h PROVE [l EXCEPT !.hits = h].todo = l.todo
    BY <1>2 DEF Local
  <2>3. ASSUME NEW h PROVE SearchOK("resolve", s, [l EXCEPT !.hits = h], catalog)
    BY <1>2, <2>1, <2>2 DEF SearchOK, Loading, Rebuilding
  <2> QED
    BY <1>4, <2>1, <2>3
<1> QED
  BY <1>3, <1>5, <1>6, <1>7, <1>8

\* The steps at which a statement is answered.
LEMMA EndSerial ==
  ASSUME TypeInv, NEW c \in Conns,
         Commit(c) \/ SetLoaded(c) \/ DropVector(c) \/ UnmarkOpen(c) \/ Resolve(c)
  PROVE  Serial(c)'
BY ReturnSerial DEF Commit, SetLoaded, DropVector, UnmarkOpen, Resolve, Ok

LEMMA SerialStep ==
  ASSUME TypeInv, NEW c \in Conns, Serial(c), Begin(c) \/ Step(c)
  PROVE  Serial(c)'
BY BeginSerial, LoadSerial, ScanSerial, BatchWriteSerial, RowSerial, RowsDoneSerial, RereadSerial,
   MaintainSerial, TextSerial, LoadingSerial, VectorSerial, DefineSerial, RemoveSerial,
   SearchSerial, EndSerial
   DEF Step
-----------------------------------------------------------------------------
(* The full-text index *)

LEMMA GotoTextExact ==
  ASSUME TypeInv, NEW c \in Conns, NEW q, NEW m, Goto(c, q, m),
         TextOK(q, stmt[c], m, fts', fts_open', docs', catalog')
  PROVE  TextExact(c)'
BY Moved DEF TextExact

\* A step that leaves storage and the full-text indexes alone.
LEMMA TextKept ==
  ASSUME TypeInv, NEW c \in Conns, TextExact(c), UNCHANGED <<docs, catalog, fts, fts_open>>,
         pc[c] \notin {"mark_open", "unmark_open", "drop_text"},
         NEW q, NEW m, Goto(c, q, m),
         q \notin {"mark_open", "unmark_open", "add_text"},
         q = "open_text" => TableOf(stmt[c]) \notin fts_open,
         q = "delete_text" => fts[TableOf(stmt[c])].handle,
         q \in {"backfill_scan", "backfill"} /\ DefinesText(q, stmt[c]) =>
           fts[TableOf(stmt[c])].handle,
         TextsOK(q, stmt[c], m, docs),
         \A r \in Recs : "text" \in catalog[r[1]] => TextSynced(r, q, stmt[c], m, fts, docs),
         \A r \in Recs : Unflushed(pc[c], stmt[c], loc[c], r) => Unflushed(q, stmt[c], m, r)
  PROVE  TextExact(c)'
<1> DEFINE s == stmt[c]
           p == pc[c]
<1>1. TextOK(p, s, loc[c], fts, fts_open, docs, catalog)
  BY DEF TextExact
<1>2. HandlesOK(q, s, fts, fts_open) /\ EmptyOK(q, s, fts, catalog) /\ AddingOK(q, s, m, fts, docs)
  <2>1. HandlesOK(p, s, fts, fts_open) /\ EmptyOK(p, s, fts, catalog)
    BY <1>1 DEF TextOK
  <2>2. HandlesOK(q, s, fts, fts_open)
    BY <2>1 DEF HandlesOK
  <2>3. EmptyOK(q, s, fts, catalog)
    BY <2>1 DEF EmptyOK
  <2> QED
    BY <2>2, <2>3 DEF AddingOK
<1>3. \A r \in Recs : Flushed(r, q, s, m, fts)
  BY <1>1 DEF TextOK, Flushed
<1>4. TextOK(q, s, m, fts, fts_open, docs, catalog)
  BY <1>1, <1>2, <1>3 DEF TextOK
<1> QED
  BY <1>4, GotoTextExact

\* Nothing is on its way: the full-text indexes are up to date.
TextSettled(f, open, d, cat) ==
  /\ \A u \in Tables : /\ f[u].handle <=> u \in open
                       /\ ~f[u].handle => f[u].staged = f[u].disk
                       /\ "text" \notin cat[u] => \A k \in Keys : f[u].staged[k] = <<>>
  /\ \A r \in Recs : /\ "text" \in cat[r[1]] => Staged(f, r) = Want(d[r])
                     /\ OnDisk(f, r) = Staged(f, r)

LEMMA TextAtRest ==
  ASSUME NEW p, NEW s, NEW l, NEW f, NEW open, NEW d, NEW cat,
         TextSettled(f, open, d, cat),
         p \notin {"mark_open", "unmark_open", "open_text", "delete_text", "add_text"},
         ~DefinesText(p, s)
  PROVE  TextOK(p, s, l, f, open, d, cat)
BY DEF TextOK, TextSettled, HandlesOK, EmptyOK, AddingOK, TextsOK, TextSynced, Flushed

LEMMA TextResting ==
  ASSUME NEW p, NEW s, NEW l, NEW f, NEW open, NEW d, NEW cat,
         TextOK(p, s, l, f, open, d, cat),
         p \notin {"mark_open", "unmark_open", "drop_text"},
         \A r \in Recs : ~TextDue(p, s, l, r) /\ ~Backfilled(p, s, l, r, f, d)
                         /\ ~Unflushed(p, s, l, r)
  PROVE  TextSettled(f, open, d, cat)
<1>1. HandlesOK(p, s, f, open) /\ EmptyOK(p, s, f, cat)
  BY DEF TextOK
<1>2. \A u \in Tables : f[u].handle <=> u \in open
  BY <1>1 DEF HandlesOK
<1>3. \A u \in Tables : "text" \notin cat[u] => \A k \in Keys : f[u].staged[k] = <<>>
  BY <1>1 DEF EmptyOK
<1>4. \A r \in Recs : ("text" \in cat[r[1]] => Staged(f, r) = Want(d[r])) /\ OnDisk(f, r) = Staged(f, r)
  BY DEF TextOK, TextSynced, Flushed
<1>5. \A u \in Tables : ~f[u].handle => f[u].staged = f[u].disk
  BY DEF TextOK
<1> QED
  BY <1>2, <1>3, <1>4, <1>5 DEF TextSettled

LEMMA ReturnTextExact ==
  ASSUME TypeInv, NEW c \in Conns, NEW records, Return(c, records),
         TextSettled(fts', fts_open', docs', catalog')
  PROVE  TextExact(c)'
<1>1. pc'[c] = "idle" /\ ~DefinesText("idle", stmt'[c])
  BY Returned DEF DefinesText, Opening
<1> QED
  BY <1>1, TextAtRest DEF TextExact

\* A write with nothing staged, or nothing to do with the full-text indexes.
LEMMA NothingDue ==
  ASSUME NEW p, NEW s, NEW l, NEW f, NEW d, NEW r
  PROVE  /\ s.op \notin Writes => ~TextDue(p, s, l, r) /\ ~VectorDue(p, s, l, r)
         /\ s.op # "define" => ~Backfilled(p, s, l, r, f, d) /\ ~DefinesText(p, s)
                               /\ ~DefinesVector(p, s)
         /\ s.op \notin Writes /\ s.op # "define" => ~Unflushed(p, s, l, r)
         /\ s.op \in Writes => (Unflushed(p, s, l, r) <=> p # "idle" /\ l.touched)
         /\ p = "idle" => /\ ~TextDue(p, s, l, r) /\ ~VectorDue(p, s, l, r)
                          /\ ~Backfilled(p, s, l, r, f, d) /\ ~Unflushed(p, s, l, r)
BY OpsApart DEF TextDue, VectorDue, Backfilled, DefinesText, DefinesVector, Unflushed, Opening

LEMMA BeginTextExact ==
  ASSUME TypeInv, NEW c \in Conns, Serial(c), TextExact(c), Begin(c)
  PROVE  TextExact(c)'
<1>1. /\ pc[c] = "idle" /\ UNCHANGED <<docs, catalog, fts, fts_open>>
      /\ pc'[c] \in {"define_write", "find", "load"}
  BY DEF Begin, At, durable, services, TypeInv, TypeOK
<1>2. TextSettled(fts, fts_open, docs, catalog)
  BY <1>1, TextResting, NothingDue DEF TextExact
<1>3. ~DefinesText(pc'[c], stmt'[c])
  BY <1>1 DEF DefinesText, Opening
<1> QED
  BY <1>1, <1>2, <1>3, TextAtRest DEF TextExact
\* The same, where whatever was due still is.
LEMMA TextMove ==
  ASSUME TypeInv, NEW c \in Conns, TextExact(c), UNCHANGED <<docs, catalog, fts, fts_open>>,
         pc[c] \notin {"mark_open", "unmark_open", "drop_text"},
         NEW q, NEW m, Goto(c, q, m),
         q \notin {"mark_open", "unmark_open", "add_text", "backfill_scan", "backfill"},
         q = "open_text" => TableOf(stmt[c]) \notin fts_open,
         q = "delete_text" => fts[TableOf(stmt[c])].handle,
         \A r \in Recs : "text" \in catalog[r[1]] =>
           /\ TextDue(pc[c], stmt[c], loc[c], r) => TextDue(q, stmt[c], m, r)
           /\ Backfilled(pc[c], stmt[c], loc[c], r, fts, docs) =>
                Backfilled(q, stmt[c], m, r, fts, docs),
         \A r \in Recs : Unflushed(pc[c], stmt[c], loc[c], r) => Unflushed(q, stmt[c], m, r)
  PROVE  TextExact(c)'
<1>1. \A r \in Recs : "text" \in catalog[r[1]] => TextSynced(r, q, stmt[c], m, fts, docs)
  BY DEF TextExact, TextOK, TextSynced
<1>2. TextsOK(q, stmt[c], m, docs)
  BY DEF TextsOK
<1> QED
  BY <1>1, <1>2, TextKept

\* A statement that neither writes nor defines.
LEMMA IdleText ==
  ASSUME TypeInv, NEW c \in Conns, TextExact(c), UNCHANGED <<docs, catalog, fts, fts_open>>,
         stmt[c].op \notin Writes, stmt[c].op # "define",
         pc[c] \notin {"mark_open", "unmark_open", "drop_text"}
  PROVE  /\ \A records : Return(c, records) => TextExact(c)'
         /\ \A q, m : /\ Goto(c, q, m)
                      /\ q \notin {"mark_open", "unmark_open", "add_text", "backfill_scan",
                                   "backfill", "delete_text"}
                      /\ q = "open_text" => TableOf(stmt[c]) \notin fts_open
                      => TextExact(c)'
<1>1. \A q, m, r : /\ ~TextDue(q, stmt[c], m, r) /\ ~Backfilled(q, stmt[c], m, r, fts, docs)
                   /\ ~Unflushed(q, stmt[c], m, r)
  BY NothingDue
<1>2. TextSettled(fts, fts_open, docs, catalog)
  BY <1>1, TextResting DEF TextExact
<1>3. ASSUME NEW q, NEW m, Goto(c, q, m),
             q \notin {"mark_open", "unmark_open", "add_text", "backfill_scan", "backfill",
                       "delete_text"},
             q = "open_text" => TableOf(stmt[c]) \notin fts_open
      PROVE  TextExact(c)'
  BY <1>1, <1>3, TextMove
<1> QED
  BY <1>2, <1>3, ReturnTextExact

LEMMA LoadTextExact ==
  ASSUME TypeInv, NEW c \in Conns, Serial(c), TextExact(c), Load(c)
  PROVE  TextExact(c)'
<1> DEFINE s == stmt[c]
<1>1. pc[c] = "load" /\ UNCHANGED <<docs, catalog, fts, fts_open>>
  BY DEF Load, At, durable, services
<1>2. PICK q, m : Goto(c, q, m) /\ q \in {"scan", "batch_write", "remove_write", "row"}
  BY DEF Load
<1>3. s.op \in Writes \cup {"remove"} /\ (s.op \in Writes => WriteOK("load", s, loc[c], docs, catalog))
  BY <1>1, SerialNow, LocalAt
<1>4. CASE s.op = "remove"
  BY <1>1, <1>2, <1>4, OpsApart, IdleText
<1>5. CASE s.op \in Writes
  <2>1. loc[c].rows = {} /\ ~loc[c].touched
    BY <1>3, <1>5 DEF WriteOK
  <2>2. \A r : ~TextDue("load", s, loc[c], r) /\ ~Unflushed("load", s, loc[c], r)
    BY <1>5, <2>1, NothingDue, PointsApart DEF TextDue
  <2>3. \A r : ~Backfilled("load", s, loc[c], r, fts, docs)
    BY <1>5, NothingDue, OpsApart
  <2> QED
    BY <1>1, <1>2, <2>2, <2>3, TextMove
<1> QED
  BY <1>3, <1>4, <1>5

LEMMA ScanTextExact ==
  ASSUME TypeInv, NEW c \in Conns, Serial(c), TextExact(c), Scan(c)
  PROVE  TextExact(c)'
<1> DEFINE s == stmt[c]
<1>1. pc[c] = "scan" /\ UNCHANGED <<docs, catalog, fts, fts_open>> /\ \E m : Goto(c, "row", m)
  BY DEF Scan, At, durable, services
<1>2. s.op \in Writes /\ WriteOK("scan", s, loc[c], docs, catalog)
  BY <1>1, SerialNow, LocalAt DEF Writes
<1>3. loc[c].rows = {} /\ ~loc[c].touched
  BY <1>2 DEF WriteOK
<1>4. \A r : ~TextDue("scan", s, loc[c], r) /\ ~Unflushed("scan", s, loc[c], r)
  BY <1>2, <1>3, NothingDue, PointsApart DEF TextDue
<1>5. \A r : ~Backfilled("scan", s, loc[c], r, fts, docs)
  BY <1>2, NothingDue, OpsApart
<1> QED
  BY <1>1, <1>4, <1>5, TextMove

LEMMA RowsDoneTextExact ==
  ASSUME TypeInv, NEW c \in Conns, Serial(c), TextExact(c), RowsDone(c)
  PROVE  TextExact(c)'
<1> DEFINE s == stmt[c]
           l == loc[c]
<1>1. pc[c] = "row" /\ UNCHANGED <<docs, catalog, fts, fts_open>> /\ l.rows = {}
  BY DEF RowsDone, At, durable, services
<1>2. s.op \in Writes
  BY <1>1, SerialNow, LocalAt
<1>3. \A r : ~TextDue("row", s, l, r) /\ ~Backfilled("row", s, l, r, fts, docs)
  BY <1>1, <1>2, NothingDue, OpsApart, PointsApart DEF TextDue
<1>4. CASE l.touched
  <2>1. Goto(c, "commit", l)
    BY <1>4 DEF RowsDone
  <2>2. \A r : Unflushed("commit", s, l, r)
    BY <1>2, <1>4, NothingDue
  <2> QED
    BY <1>1, <1>3, <2>1, <2>2, TextMove
<1>5. CASE ~l.touched
  <2>1. Return(c, l.done)
    BY <1>5 DEF RowsDone, Ok
  <2>2. TextSettled(fts, fts_open, docs, catalog)
    BY <1>1, <1>2, <1>3, <1>5, NothingDue, TextResting DEF TextExact
  <2> QED
    BY <1>1, <2>1, <2>2, ReturnTextExact
<1> QED
  BY <1>4, <1>5
\* A write of records that the full-text index is then due for.
LEMMA WrittenText ==
  ASSUME TypeInv, NEW c \in Conns, TextExact(c), UNCHANGED <<catalog, fts, fts_open>>,
         stmt[c].op \in Writes, pc[c] \in {"row", "batch_write"},
         NEW q \in {"row", "reread", "maintain"}, NEW m, Goto(c, q, m),
         loc[c].touched => m.touched,
         \A r \in Recs : "text" \in catalog[r[1]] =>
           \/ TextDue(q, stmt[c], m, r)
           \/ docs'[r] = docs[r] /\ ~TextDue(pc[c], stmt[c], loc[c], r)
  PROVE  TextExact(c)'
<1> DEFINE s == stmt[c]
           p == pc[c]
<1>1. TextOK(p, s, loc[c], fts, fts_open, docs, catalog)
  BY DEF TextExact
<1>2. \A r : ~Backfilled(p, s, loc[c], r, fts, docs) /\ ~DefinesText(q, s)
  BY NothingDue, OpsApart
<1>3. \A r \in Recs : "text" \in catalog[r[1]] => TextSynced(r, q, s, m, fts, docs')
  BY <1>1, <1>2 DEF TextOK, TextSynced
<1>4. \A r \in Recs : Flushed(r, q, s, m, fts)
  <2>1. \A r : Unflushed(p, s, loc[c], r) => Unflushed(q, s, m, r)
    BY NothingDue
  <2> QED
    BY <1>1, <2>1 DEF TextOK, Flushed
<1>5. HandlesOK(p, s, fts, fts_open) /\ EmptyOK(p, s, fts, catalog)
  BY <1>1 DEF TextOK
<1>6. HandlesOK(q, s, fts, fts_open)
  BY <1>2, <1>5 DEF HandlesOK
<1>7. EmptyOK(q, s, fts, catalog)
  BY <1>5 DEF EmptyOK
<1>8. TextOK(q, s, m, fts, fts_open, docs', catalog)
  BY <1>1, <1>2, <1>3, <1>4, <1>6, <1>7 DEF TextOK, AddingOK, TextsOK
<1> QED
  BY <1>8, GotoTextExact

LEMMA BatchWriteTextExact ==
  ASSUME TypeInv, NEW c \in Conns, Serial(c), TextExact(c), BatchWrite(c)
  PROVE  TextExact(c)'
<1> DEFINE s == stmt[c]
           l == loc[c]
           m == [l EXCEPT !.rows = IF l.defs # {} THEN Targets(s) ELSE {},
                          !.touched = l.defs # {}]
<1>1. pc[c] = "batch_write" /\ Goto(c, "row", m) /\ UNCHANGED <<catalog, fts, fts_open>>
  BY DEF BatchWrite, At, services
<1>2. /\ s \in Statement /\ s.op = "batch" /\ s.op \in Writes /\ l \in Local
      /\ l.defs = catalog[TableOf(s)] /\ l.rows = {} /\ ~l.touched
  BY <1>1, SerialNow, LocalAt DEF Writes, WriteOK
<1>3. m.rows = IF l.defs # {} THEN Targets(s) ELSE {}
  BY <1>2 DEF Local
<1> HIDE DEF m
<1>4. ASSUME NEW r \in Recs, "text" \in catalog[r[1]]
      PROVE  \/ TextDue("row", s, m, r)
             \/ docs'[r] = docs[r] /\ ~TextDue("batch_write", s, l, r)
  <2>1. CASE r \in Targets(s)
    <3>1. r[1] = TableOf(s) /\ l.defs # {}
      BY <1>2, <1>4, <2>1, TargetsType
    <3> QED
      BY <1>2, <1>3, <2>1, <3>1 DEF TextDue
  <2>2. CASE r \notin Targets(s)
    <3>1. docs'[r] = docs[r]
      BY <1>4, <2>2 DEF BatchWrite
    <3> QED
      BY <1>2, <3>1, PointsApart DEF TextDue
  <2> QED
    BY <2>1, <2>2
<1> QED
  BY <1>1, <1>2, <1>4, WrittenText

LEMMA RowTextExact ==
  ASSUME TypeInv, NEW c \in Conns, Serial(c), TextExact(c), Row(c)
  PROVE  TextExact(c)'
<1> DEFINE s == stmt[c]
           l == loc[c]
<1>1. pc[c] = "row"
  BY DEF Row, At
<1>2. /\ s \in Statement /\ s.op \in Writes /\ l \in Local
      /\ l.defs = catalog[TableOf(s)] /\ l.rows \subseteq Targets(s) /\ Targets(s) \subseteq Recs
  BY <1>1, SerialNow, LocalAt, TargetsType DEF WriteOK
<1>3. \A r : TextDue("row", s, l, r) <=> s.op = "batch" /\ r \in l.rows
  BY <1>2, PointsApart DEF TextDue
<1>4. CASE s.op = "create" /\ ~l.touched /\ Fail(c)
  <2>1. \A r : /\ ~TextDue("row", s, l, r) /\ ~Backfilled("row", s, l, r, fts, docs)
               /\ ~Unflushed("row", s, l, r)
    BY <1>2, <1>3, <1>4, NothingDue, OpsApart
  <2>2. TextSettled(fts, fts_open, docs, catalog)
    BY <1>1, <2>1, TextResting DEF TextExact
  <2>3. UNCHANGED <<fts, fts_open, docs, catalog>> /\ Return(c, {})
    BY <1>4 DEF Fail, durable, services
  <2> QED
    BY <2>2, <2>3, ReturnTextExact
<1>5. ASSUME NEW r \in l.rows, NEW m \in Local, NEW q \in {"row", "reread", "maintain"},
             Goto(c, q, m), UNCHANGED <<catalog, services>>, m.rows = l.rows \ {r}, m.cur = r,
             l.touched => m.touched,
             \A x \in Recs : x # r => docs'[x] = docs[x],
             \/ q = "reread"
             \/ q = "row" /\ docs' = docs /\ s.op # "batch"
             \/ q = "maintain" /\ m.todo = l.defs
      PROVE  TextExact(c)'
  <2>1. ASSUME NEW x \in Recs, "text" \in catalog[x[1]]
        PROVE  \/ TextDue(q, s, m, x)
               \/ docs'[x] = docs[x] /\ ~TextDue("row", s, l, x)
    <3>1. CASE x # r
      BY <1>2, <1>3, <1>5, <2>1, <3>1, PointsApart DEF TextDue
    <3>2. CASE x = r /\ q = "row"
      BY <1>3, <1>5, <3>2
    <3>3. CASE x = r /\ q # "row"
      <4>1. x[1] = TableOf(s)
        BY <1>2, <3>3, TargetsType
      <4> QED
        BY <1>2, <1>5, <2>1, <3>3, <4>1, PointsApart DEF TextDue
    <3> QED
      BY <3>1, <3>2, <3>3
  <2>2. UNCHANGED <<fts, fts_open>>
    BY <1>5 DEF services
  <2> QED
    BY <1>1, <1>2, <1>5, <2>1, <2>2, WrittenText
<1>6. docs \in [Recs -> Doc \cup {NoDoc}]
  BY DEF TypeInv, TypeOK
<1>7. ASSUME NEW r \in l.rows, NEW m \in Local, m.rows = l.rows \ {r}, m.cur = r,
             UNCHANGED <<catalog, services>>
      PROVE  /\ (/\ docs' = [docs EXCEPT ![r] = s.doc]
                 /\ Goto(c, "reread", m) /\ m.touched = l.touched) => TextExact(c)'
             /\ (/\ docs' = [docs EXCEPT ![r] = NoDoc] /\ Goto(c, "maintain", m)
                 /\ m.touched = TRUE /\ m.todo = l.defs) => TextExact(c)'
             /\ (docs' = docs /\ Goto(c, "reread", m) /\ m.touched = l.touched) => TextExact(c)'
             /\ (/\ s.op \in {"update", "delete", "delete_all"} /\ docs' = docs
                 /\ Goto(c, "row", m) /\ m.touched = l.touched) => TextExact(c)'
  <2>1. CASE /\ docs' = [docs EXCEPT ![r] = s.doc] /\ Goto(c, "reread", m)
             /\ m.touched = l.touched
    BY <1>5, <1>6, <1>7, <2>1
  <2>2. CASE /\ docs' = [docs EXCEPT ![r] = NoDoc] /\ Goto(c, "maintain", m)
             /\ m.touched = TRUE /\ m.todo = l.defs
    BY <1>5, <1>6, <1>7, <2>2
  <2>3. CASE docs' = docs /\ Goto(c, "reread", m) /\ m.touched = l.touched
    BY <1>5, <1>7, <2>3
  <2>4. CASE /\ s.op \in {"update", "delete", "delete_all"} /\ docs' = docs
             /\ Goto(c, "row", m) /\ m.touched = l.touched
    BY <1>5, <1>7, <2>4
  <2> QED
    BY <2>1, <2>2, <2>3, <2>4
<1> QED
  BY <1>4, <1>7, RowCases

\* A write whose storage stays as it is.
LEMMA WriterMove ==
  ASSUME TypeInv, NEW c \in Conns, TextExact(c), UNCHANGED <<docs, catalog, fts, fts_open>>,
         stmt[c].op \in Writes, pc[c] \in (Maintaining \ {"mark_open"}) \cup {"reread"},
         NEW q \in (Maintaining \ {"mark_open", "add_text"}) \cup {"row"},
         NEW m, Goto(c, q, m),
         q = "open_text" => TableOf(stmt[c]) \notin fts_open,
         q = "delete_text" => fts[TableOf(stmt[c])].handle,
         m.touched, m.rows = loc[c].rows,
         \A r \in Recs : "text" \in catalog[r[1]] /\ r = loc[c].cur =>
           (TextDue(pc[c], stmt[c], loc[c], r) => TextDue(q, stmt[c], m, r))
  PROVE  TextExact(c)'
<1> DEFINE s == stmt[c]
<1>1. \A r : ~Backfilled(pc[c], s, loc[c], r, fts, docs)
  BY NothingDue, OpsApart
<1>2. \A r : Unflushed(q, s, m, r)
  BY NothingDue, PointsApart
<1>3. ASSUME NEW r \in Recs, "text" \in catalog[r[1]], TextDue(pc[c], s, loc[c], r)
      PROVE  TextDue(q, s, m, r)
  <2>1. CASE r = loc[c].cur
    BY <1>3, <2>1
  <2>2. CASE r # loc[c].cur
    BY <1>3, <2>2, PointsApart DEF TextDue
  <2> QED
    BY <2>1, <2>2
<1>4. /\ pc[c] \notin {"mark_open", "unmark_open", "drop_text"}
      /\ q \notin {"mark_open", "unmark_open", "add_text", "backfill_scan", "backfill"}
  BY PointsApart
<1> QED
  BY <1>1, <1>2, <1>3, <1>4, TextMove
LEMMA RereadTextExact ==
  ASSUME TypeInv, NEW c \in Conns, Serial(c), TextExact(c), Reread(c)
  PROVE  TextExact(c)'
<1> DEFINE s == stmt[c]
           l == loc[c]
           m == [l EXCEPT !.doc = docs[l.cur], !.todo = l.defs, !.touched = TRUE]
<1>1. pc[c] = "reread" /\ UNCHANGED <<docs, catalog, fts, fts_open>>
  BY DEF Reread, At, durable, services
<1>2. s \in Statement /\ s.op \in Writes /\ l \in Local /\ WriteOK("reread", s, l, docs, catalog)
  BY <1>1, SerialNow, LocalAt DEF Applying
<1>3. docs[l.cur] # NoDoc /\ l.cur \in Targets(s) /\ l.defs = catalog[TableOf(s)]
  BY <1>2 DEF WriteOK
<1>4. Goto(c, "maintain", m)
  BY <1>3 DEF Reread
<1>5. m.rows = l.rows /\ m.cur = l.cur /\ m.touched /\ m.todo = l.defs
  BY <1>2 DEF Local
<1> HIDE DEF m
<1>6. l.cur[1] = TableOf(s)
  BY <1>2, <1>3, TargetsType
<1>7. "text" \in catalog[TableOf(s)] => TextDue("maintain", s, m, l.cur)
  BY <1>2, <1>3, <1>5, PointsApart DEF TextDue
<1> QED
  BY <1>1, <1>2, <1>4, <1>5, <1>6, <1>7, PointsApart, WriterMove

LEMMA MaintainTextExact ==
  ASSUME TypeInv, NEW c \in Conns, Serial(c), TextExact(c), Maintain(c)
  PROVE  TextExact(c)'
<1> DEFINE s == stmt[c]
           l == loc[c]
<1>1. pc[c] = "maintain" /\ UNCHANGED <<docs, catalog, fts, fts_open>>
  BY DEF Maintain, At, durable, services
<1>2. s \in Statement /\ s.op \in Writes /\ l \in Local /\ WriteOK("maintain", s, l, docs, catalog)
  BY <1>1, SerialNow, LocalAt DEF Applying
<1>3. l.touched
  BY <1>2, PointsApart DEF WriteOK
<1>4. CASE l.todo = {} /\ Goto(c, "row", [l EXCEPT !.done = @ \cup {l.cur}])
  <2> DEFINE m == [l EXCEPT !.done = @ \cup {l.cur}]
  <2>1. m.rows = l.rows /\ m.touched = l.touched /\ m.cur = l.cur
    BY <1>2 DEF Local
  <2> HIDE DEF m
  <2>2. TextDue("maintain", s, l, l.cur) => TextDue("row", s, m, l.cur)
    BY <1>4, <2>1, PointsApart DEF TextDue
  <2>3. Goto(c, "row", m) /\ "maintain" \in (Maintaining \ {"mark_open"}) \cup {"reread"}
    BY <1>4, PointsApart DEF m
  <2>4. m.touched
    BY <1>3, <2>1
  <2> QED
    BY <1>1, <1>2, <2>1, <2>2, <2>3, <2>4, WriterMove
<1>5. ASSUME NEW label \in {"ensure_text", "ensure_vector", "vector_exists"}, NEW m,
             Goto(c, label, m), m.rows = l.rows, m.touched = l.touched, m.cur = l.cur,
             label = "ensure_text" \/ m.todo = l.todo \ {"vector"}
      PROVE  TextExact(c)'
  <2>1. /\ label \in Maintaining /\ label # "idle" /\ "maintain" \in Maintaining \ Texting
        /\ label = "ensure_text" <=> label \in Texting
    BY <1>5, PointsApart DEF Texting, Opening, VectorPending, Maintaining, Vectoring, Loading
  <2>2. TextDue("maintain", s, l, l.cur) => TextDue(label, s, m, l.cur)
    BY <1>2, <1>5, <2>1 DEF TextDue
  <2>3. /\ "maintain" \in (Maintaining \ {"mark_open"}) \cup {"reread"}
        /\ label \in (Maintaining \ {"mark_open", "add_text"}) \cup {"row"}
        /\ label # "open_text" /\ label # "delete_text"
    BY <1>5, <2>1
  <2>4. m.touched
    BY <1>3, <1>5
  <2> QED
    BY <1>1, <1>2, <1>5, <2>2, <2>3, <2>4, WriterMove
<1>6. CASE /\ "text" \in l.todo
           /\ Goto(c, "ensure_text", [l EXCEPT !.todo = @ \ {"text"}, !.ret = "delete_text"])
  <2> DEFINE m == [l EXCEPT !.todo = @ \ {"text"}, !.ret = "delete_text"]
  <2>1. m.rows = l.rows /\ m.touched = l.touched /\ m.cur = l.cur
    BY <1>2 DEF Local
  <2>2. Goto(c, "ensure_text", m)
    BY <1>6
  <2> HIDE DEF m
  <2> QED
    BY <1>5, <2>1, <2>2
<1>7. CASE Goto(c, IF HasVector(l) THEN "ensure_vector" ELSE "vector_exists",
                [l EXCEPT !.todo = @ \ {"vector"}, !.ret = "insert_vector"])
  <2> DEFINE m == [l EXCEPT !.todo = @ \ {"vector"}, !.ret = "insert_vector"]
  <2>1. m.rows = l.rows /\ m.touched = l.touched /\ m.cur = l.cur /\ m.todo = l.todo \ {"vector"}
    BY <1>2 DEF Local
  <2>2. Goto(c, "ensure_vector", m) \/ Goto(c, "vector_exists", m)
    BY <1>7
  <2> HIDE DEF m
  <2> QED
    BY <1>5, <2>1, <2>2
<1> QED
  BY <1>4, <1>6, <1>7 DEF Maintain

\* The vector part of a statement is nothing to the full-text index.
LEMMA VectorsTextExact ==
  ASSUME TypeInv, NEW c \in Conns, Serial(c), TextExact(c),
         \/ EnsureVector(c) \/ RebuildLock(c) \/ RebuildScan(c) \/ RebuildInsert(c)
         \/ RebuildDone(c) \/ InsertVector(c) \/ VectorExists(c) \/ RemoveVector(c)
  PROVE  TextExact(c)'
<1> DEFINE s == stmt[c]
           l == loc[c]
<1>1. CASE s.op \in Writes
  <2>1. PICK q, m : /\ Goto(c, q, m) /\ q \in VectorPending \cup {"maintain"}
                    /\ m.rows = l.rows /\ m.touched = l.touched /\ m.cur = l.cur
                    /\ m.todo = l.todo
    <3>1. CASE \/ EnsureVector(c) \/ RebuildLock(c) \/ RebuildScan(c) \/ RebuildInsert(c)
               \/ RebuildDone(c)
      <4>1. l.ret = "insert_vector"
        BY <1>1, <3>1, LoadMoves, OpsApart
      <4> QED
        BY <3>1, <4>1, LoadMoves DEF VectorPending
    <3>2. CASE InsertVector(c) \/ VectorExists(c) \/ RemoveVector(c)
      BY <3>2, VectorMoves DEF VectorPending
    <3> QED
      BY <3>1, <3>2
  <2>2. pc[c] \in VectorPending /\ UNCHANGED <<docs, catalog, fts, fts_open>>
    BY LoadMoves, VectorMoves DEF VectorPending
  <2>3. pc[c] \in Maintaining /\ pc[c] # "idle" /\ q \in Maintaining \ Texting /\ pc[c] \notin Texting
    BY <2>1, <2>2, PointsApart
  <2>4. WriteOK(pc[c], s, l, docs, catalog)
    BY <1>1, <2>3, SerialNow
  <2>5. l.touched
    BY <2>3, <2>4 DEF WriteOK
  <2>6. TextDue(pc[c], s, l, l.cur) => TextDue(q, s, m, l.cur)
    BY <2>1, <2>3, PointsApart DEF TextDue
  <2>7. /\ pc[c] \in (Maintaining \ {"mark_open"}) \cup {"reread"}
        /\ q \in (Maintaining \ {"mark_open", "add_text"}) \cup {"row"}
        /\ q # "open_text" /\ q # "delete_text"
    BY <2>3 DEF Texting, Opening
  <2>8. m.touched
    BY <2>1, <2>5
  <2> QED
    BY <1>1, <2>1, <2>2, <2>6, <2>7, <2>8, WriterMove
<1>2. CASE s.op \notin Writes
  <2>1. EnsureVector(c) \/ RebuildLock(c) \/ RebuildScan(c) \/ RebuildInsert(c) \/ RebuildDone(c)
    BY <1>2, VectorMoves
  <2>2. /\ s.op = "search" /\ l.ret = "find" /\ UNCHANGED <<docs, catalog, fts, fts_open>>
        /\ pc[c] \in Loading /\ \E q, m : Goto(c, q, m) /\ q \in Loading \cup {"find"}
    BY <1>2, <2>1, LoadMoves
  <2> QED
    BY <1>2, <2>2, IdleText DEF Loading, Rebuilding
<1> QED
  BY <1>1, <1>2
\* Where ensure_fulltext starts: the handle is there if the index is marked open.
LEMMA OpenHandle ==
  ASSUME NEW p, NEW s, NEW l, NEW f, NEW open, NEW d, NEW cat, TextOK(p, s, l, f, open, d, cat),
         TableOf(s) \in Tables
  PROVE  /\ p \notin {"mark_open", "unmark_open"} =>
              \A u \in Tables : f[u].handle <=> u \in open
         /\ p \in {"delete_text", "add_text"} => f[TableOf(s)].handle
         /\ p \in {"backfill_scan", "backfill"} /\ DefinesText(p, s) => f[TableOf(s)].handle
         /\ p = "open_text" => ~f[TableOf(s)].handle
<1>1. HandlesOK(p, s, f, open)
  BY DEF TextOK
<1> QED
  BY <1>1 DEF HandlesOK

\* A call of ensure_fulltext: what is due stays due.
LEMMA OpeningDue ==
  ASSUME NEW p \in Opening, NEW s, NEW l, NEW f, NEW d, NEW r, OpeningOK(s, l),
         NEW q \in Opening \cup {l.ret}
  PROVE  /\ TextDue(p, s, l, r) => TextDue(q, s, l, r)
         /\ Backfilled(p, s, l, r, f, d) => Backfilled(q, s, l, r, f, d)
         /\ Unflushed(p, s, l, r) => Unflushed(q, s, l, r)
<1>1. CASE s.op \in Writes /\ l.ret = "delete_text"
  <2>1. q \in Texting /\ q # "idle" /\ p \in Texting /\ p # "idle"
    BY <1>1 DEF Texting, Opening
  <2>2. ~Backfilled(p, s, l, r, f, d)
    BY <1>1, NothingDue, OpsApart
  <2>3. TextDue(p, s, l, r) <=> TextDue(q, s, l, r)
    BY <1>1, <2>1, PointsApart DEF TextDue
  <2>4. Unflushed(p, s, l, r) => Unflushed(q, s, l, r)
    BY <1>1, <2>1, NothingDue
  <2> QED
    BY <2>2, <2>3, <2>4
<1>2. CASE s.op = "search"
  BY <1>2, NothingDue, OpsApart
<1>3. CASE s.op = "define" /\ l.ret = "backfill_scan"
  <2>1. ~TextDue(p, s, l, r) /\ s.op \notin Writes
    BY <1>3, NothingDue, OpsApart
  <2>2. ~Unflushed(p, s, l, r)
    BY <2>1 DEF Unflushed, Opening
  <2>3. Backfilled(p, s, l, r, f, d) => Backfilled(q, s, l, r, f, d)
    BY <1>3 DEF Backfilled, DefinesText, Opening
  <2> QED
    BY <2>1, <2>2, <2>3
<1> QED
  BY <1>1, <1>2, <1>3 DEF OpeningOK

LEMMA EnsureTextExact ==
  ASSUME TypeInv, NEW c \in Conns, Serial(c), TextExact(c), EnsureText(c)
  PROVE  TextExact(c)'
<1> DEFINE s == stmt[c]
           l == loc[c]
           t == TableOf(s)
<1>1. /\ pc[c] = "ensure_text" /\ UNCHANGED <<docs, catalog, fts, fts_open>>
      /\ Goto(c, IF t \in fts_open THEN l.ret ELSE "open_text", l)
  BY DEF EnsureText, At, durable, services
<1>2. s \in Statement /\ t \in Tables /\ OpeningOK(s, l) /\ pc[c] \in Opening
  BY <1>1, SerialNow, LocalAt DEF Opening
<1> DEFINE q == IF t \in fts_open THEN l.ret ELSE "open_text"
<1>3. q \in Opening \cup {l.ret} /\ l.ret \in {"delete_text", "find", "backfill_scan"}
  BY <1>2 DEF OpeningOK, Opening
<1>4. t \in fts_open => fts[t].handle
  BY <1>1, <1>2, OpenHandle DEF TextExact
<1>5. /\ q \notin {"mark_open", "unmark_open", "add_text", "backfill"}
      /\ q = "open_text" => t \notin fts_open
      /\ q # "open_text" => fts[t].handle
  BY <1>3, <1>4
<1>6. Goto(c, q, l)
  BY <1>1
<1> HIDE DEF q
<1>7. ASSUME NEW r \in Recs, "text" \in catalog[r[1]] PROVE TextSynced(r, q, s, l, fts, docs)
  <2>1. TextSynced(r, pc[c], s, l, fts, docs)
    BY <1>7 DEF TextExact, TextOK
  <2> QED
    BY <1>2, <1>3, <2>1, OpeningDue DEF TextSynced
<1>8. \A r \in Recs : Unflushed(pc[c], s, l, r) => Unflushed(q, s, l, r)
  BY <1>2, <1>3, OpeningDue
<1>9. TextsOK(q, s, l, docs)
  BY <1>5 DEF TextsOK
<1> QED
  BY <1>1, <1>5, <1>6, <1>7, <1>8, <1>9, TextKept

LEMMA OpenTextExact ==
  ASSUME TypeInv, NEW c \in Conns, Serial(c), TextExact(c), OpenText(c)
  PROVE  TextExact(c)'
<1> DEFINE s == stmt[c]
           l == loc[c]
           t == TableOf(s)
<1>1. pc[c] = "open_text"
  BY DEF OpenText, At
<1>2. s \in Statement /\ t \in Tables /\ OpeningOK(s, l) /\ pc[c] \in Opening
  BY <1>1, SerialNow, LocalAt DEF Opening
<1>3. TextOK("open_text", s, l, fts, fts_open, docs, catalog)
  BY <1>1 DEF TextExact
<1>4. ~fts[t].handle
  BY <1>2, <1>3, OpenHandle
<1>5. /\ fts' = [fts EXCEPT ![t].handle = TRUE, ![t].staged = fts[t].disk]
      /\ Goto(c, "mark_open", l) /\ UNCHANGED <<docs, catalog, fts_open>>
  BY <1>4 DEF OpenText, durable
<1>6. fts \in [Tables -> TextIndex]
  BY SharedNow DEF SharedOK
<1>7. fts[t].staged = fts[t].disk
  BY <1>2, <1>3, <1>4 DEF TextOK
<1>8. \A u \in Tables : /\ fts'[u].handle = (u = t \/ fts[u].handle)
                        /\ fts'[u].staged = fts[u].staged /\ fts'[u].disk = fts[u].disk
  BY <1>2, <1>5, <1>6, <1>7 DEF TextIndex
<1>9. \A r \in Recs : Staged(fts', r) = Staged(fts, r) /\ OnDisk(fts', r) = OnDisk(fts, r)
  BY <1>8 DEF Staged, OnDisk, Recs
<1>10. HandlesOK("mark_open", s, fts', fts_open)
  <2>1. HandlesOK("open_text", s, fts, fts_open)
    BY <1>3 DEF TextOK
  <2> QED
    BY <1>2, <1>8, <2>1 DEF HandlesOK
<1>11. EmptyOK("mark_open", s, fts', catalog)
  BY <1>3, <1>8 DEF TextOK, EmptyOK
<1>12. ASSUME NEW r \in Recs
       PROVE  /\ "text" \in catalog[r[1]] => TextSynced(r, "mark_open", s, l, fts', docs)
              /\ Flushed(r, "mark_open", s, l, fts')
  <2>1. /\ "text" \in catalog[r[1]] => TextSynced(r, "open_text", s, l, fts, docs)
        /\ Flushed(r, "open_text", s, l, fts)
    BY <1>3, <1>12 DEF TextOK
  <2>2. "mark_open" \in Opening \cup {l.ret}
    BY DEF Opening
  <2>3. /\ TextDue("open_text", s, l, r) => TextDue("mark_open", s, l, r)
        /\ Backfilled("open_text", s, l, r, fts, docs) => Backfilled("mark_open", s, l, r, fts, docs)
        /\ Unflushed("open_text", s, l, r) => Unflushed("mark_open", s, l, r)
    BY <1>1, <1>2, <2>2, OpeningDue
  <2>4. Backfilled("mark_open", s, l, r, fts, docs) => Backfilled("mark_open", s, l, r, fts', docs)
    BY <1>9, <1>12 DEF Backfilled
  <2> QED
    BY <1>9, <1>12, <2>1, <2>3, <2>4 DEF TextSynced, Flushed
<1>13. \A u \in Tables : ~fts'[u].handle => fts'[u].staged = fts'[u].disk
  BY <1>3, <1>8 DEF TextOK
<1>14. TextOK("mark_open", s, l, fts', fts_open, docs, catalog)
  BY <1>10, <1>11, <1>12, <1>13 DEF TextOK, AddingOK, TextsOK
<1> QED
  BY <1>5, <1>14, GotoTextExact

LEMMA MarkOpenExact ==
  ASSUME TypeInv, NEW c \in Conns, Serial(c), TextExact(c), MarkOpen(c)
  PROVE  TextExact(c)'
<1> DEFINE s == stmt[c]
           l == loc[c]
           t == TableOf(s)
<1>1. /\ pc[c] = "mark_open" /\ fts_open' = fts_open \cup {t} /\ Goto(c, l.ret, l)
      /\ UNCHANGED <<docs, catalog, fts>>
  BY DEF MarkOpen, At, durable
<1>2. s \in Statement /\ t \in Tables /\ OpeningOK(s, l) /\ pc[c] \in Opening
  BY <1>1, SerialNow, LocalAt DEF Opening
<1>3. TextOK("mark_open", s, l, fts, fts_open, docs, catalog)
  BY <1>1 DEF TextExact
<1>4. l.ret \in {"delete_text", "find", "backfill_scan"}
  BY <1>2 DEF OpeningOK
<1>5. HandlesOK(l.ret, s, fts, fts_open')
  <2>1. HandlesOK("mark_open", s, fts, fts_open)
    BY <1>3 DEF TextOK
  <2> QED
    BY <1>1, <1>4, <2>1 DEF HandlesOK
<1>6. EmptyOK(l.ret, s, fts, catalog)
  BY <1>3, <1>4 DEF TextOK, EmptyOK
<1>7. ASSUME NEW r \in Recs
      PROVE  /\ "text" \in catalog[r[1]] => TextSynced(r, l.ret, s, l, fts, docs)
             /\ Flushed(r, l.ret, s, l, fts)
  <2>1. /\ "text" \in catalog[r[1]] => TextSynced(r, "mark_open", s, l, fts, docs)
        /\ Flushed(r, "mark_open", s, l, fts)
    BY <1>3, <1>7 DEF TextOK
  <2>2. /\ TextDue("mark_open", s, l, r) => TextDue(l.ret, s, l, r)
        /\ Backfilled("mark_open", s, l, r, fts, docs) => Backfilled(l.ret, s, l, r, fts, docs)
        /\ Unflushed("mark_open", s, l, r) => Unflushed(l.ret, s, l, r)
    BY <1>1, <1>2, OpeningDue
  <2> QED
    BY <2>1, <2>2 DEF TextSynced, Flushed
<1>8. TextOK(l.ret, s, l, fts, fts_open', docs, catalog)
  BY <1>3, <1>4, <1>5, <1>6, <1>7 DEF TextOK, AddingOK, TextsOK
<1> QED
  BY <1>1, <1>8, GotoTextExact

\* From f to g at most what is staged for record r has changed.
StagedAt(f, g, r) ==
  /\ \A u \in Tables : /\ g[u].handle = f[u].handle /\ g[u].disk = f[u].disk
                       /\ u # r[1] => g[u].staged = f[u].staged
  /\ \A x \in Recs : /\ x # r => Staged(g, x) = Staged(f, x)
                     /\ OnDisk(g, x) = OnDisk(f, x)

LEMMA StagedOnly ==
  ASSUME TypeInv, NEW r \in Recs, NEW q \in Seq(Texts),
         fts' = [fts EXCEPT ![r[1]].staged[r[2]] = q]
  PROVE  StagedAt(fts, fts', r) /\ Staged(fts', r) = q
<1>1. fts \in [Tables -> TextIndex] /\ r[1] \in Tables /\ r[2] \in Keys
  BY SharedNow DEF SharedOK, Recs
<1>2. /\ fts' \in [Tables -> TextIndex]
      /\ \A u \in Tables : fts'[u].handle = fts[u].handle /\ fts'[u].disk = fts[u].disk
      /\ \A u \in Tables, j \in Keys :
           fts'[u].staged[j] = IF u = r[1] /\ j = r[2] THEN q ELSE fts[u].staged[j]
  BY <1>1 DEF TextIndex, Held
<1>3. \A x \in Recs : x[1] \in Tables /\ x[2] \in Keys /\ (x = r <=> x[1] = r[1] /\ x[2] = r[2])
  BY DEF Recs
<1>4. \A u \in Tables : u # r[1] => fts'[u].staged = fts[u].staged
  BY <1>1
<1>5. \A x \in Recs : Staged(fts', x) = (IF x = r THEN q ELSE Staged(fts, x))
  BY <1>2, <1>3 DEF Staged
<1> QED
  BY <1>2, <1>3, <1>4, <1>5 DEF OnDisk, StagedAt

\* A step that stages a text of record r, and nothing else.
LEMMA StagingText ==
  ASSUME TypeInv, NEW c \in Conns, TextExact(c), UNCHANGED <<docs, catalog, fts_open>>,
         TableOf(stmt[c]) \in Tables,
         NEW r \in Recs, StagedAt(fts, fts', r),
         r[1] = TableOf(stmt[c]), fts[r[1]].handle, "text" \in catalog[r[1]],
         pc[c] \in {"delete_text", "add_text", "backfill"},
         NEW q \in {"add_text", "maintain", "backfill"}, NEW m, Goto(c, q, m),
         AddingOK(q, stmt[c], m, fts', docs), TextsOK(q, stmt[c], m, docs),
         TextSynced(r, q, stmt[c], m, fts', docs),
         \A x \in Recs : x # r =>
           /\ TextDue(pc[c], stmt[c], loc[c], x) => TextDue(q, stmt[c], m, x)
           /\ Backfilled(pc[c], stmt[c], loc[c], x, fts, docs) =>
                Backfilled(q, stmt[c], m, x, fts', docs)
           /\ Unflushed(pc[c], stmt[c], loc[c], x) => Unflushed(q, stmt[c], m, x),
         Unflushed(q, stmt[c], m, r)
  PROVE  TextExact(c)'
<1> DEFINE s == stmt[c]
           p == pc[c]
<1>1. TextOK(p, s, loc[c], fts, fts_open, docs, catalog)
  BY DEF TextExact
<1>2. HandlesOK(p, s, fts, fts_open) /\ EmptyOK(p, s, fts, catalog)
  BY <1>1 DEF TextOK
<1>4. HandlesOK(q, s, fts', fts_open)
  BY <1>2 DEF HandlesOK, StagedAt
<1>5. EmptyOK(q, s, fts', catalog)
  BY <1>2 DEF EmptyOK, StagedAt
<1>6. \A u \in Tables : ~fts'[u].handle => fts'[u].staged = fts'[u].disk
  BY <1>1 DEF TextOK, StagedAt
<1>7. ASSUME NEW x \in Recs
      PROVE  /\ "text" \in catalog[x[1]] => TextSynced(x, q, s, m, fts', docs)
             /\ Flushed(x, q, s, m, fts')
  <2>1. CASE x = r
    BY <2>1 DEF Flushed
  <2>2. CASE x # r
    <3>1. /\ "text" \in catalog[x[1]] => TextSynced(x, p, s, loc[c], fts, docs)
          /\ Flushed(x, p, s, loc[c], fts)
      BY <1>1, <1>7 DEF TextOK
    <3> QED
      BY <1>7, <2>2, <3>1 DEF TextSynced, Flushed, StagedAt
  <2> QED
    BY <2>1, <2>2
<1>8. TextOK(q, s, m, fts', fts_open, docs, catalog)
  BY <1>4, <1>5, <1>6, <1>7 DEF TextOK
<1> QED
  BY <1>8, GotoTextExact

LEMMA DeleteTextExact ==
  ASSUME TypeInv, NEW c \in Conns, Serial(c), TextExact(c), DeleteText(c)
  PROVE  TextExact(c)'
<1> DEFINE s == stmt[c]
           l == loc[c]
           t == TableOf(s)
           q == IF HasText(l) THEN "add_text" ELSE "maintain"
<1>1. pc[c] = "delete_text" /\ "delete_text" \in Texting \cap Applying
  BY DEF DeleteText, At, Texting, Applying
<1>2. /\ s \in Statement /\ t \in Tables /\ s.op \in Writes
      /\ WriteOK("delete_text", s, l, docs, catalog)
  BY <1>1, SerialNow, LocalAt DEF Applying
<1>3. /\ l.cur \in Targets(s) /\ l.doc = docs[l.cur] /\ l.touched
      /\ "text" \in catalog[t]
  BY <1>1, <1>2, PointsApart DEF WriteOK
<1>4. l.cur \in Recs /\ l.cur[1] = t
  BY <1>2, <1>3, TargetsType
<1>5. fts[t].handle
  BY <1>1, <1>2, OpenHandle DEF TextExact
<1>6. /\ fts' = [fts EXCEPT ![l.cur[1]].staged[l.cur[2]] = <<>>]
      /\ Goto(c, q, l) /\ UNCHANGED <<docs, catalog, fts_open>>
  BY <1>4, <1>5 DEF DeleteText, durable
<1>7. Staged(fts', l.cur) = <<>> /\ StagedAt(fts, fts', l.cur)
  <2>1. <<>> \in Seq(Texts)
    OBVIOUS
  <2> QED
    BY <1>4, <1>6, <2>1, StagedOnly
<1>8. q \in {"add_text", "maintain"} /\ (q = "add_text" <=> HasText(l))
  OBVIOUS
<1> HIDE DEF q
<1>9. AddingOK(q, s, l, fts', docs) /\ TextsOK(q, s, l, docs)
  BY <1>2, <1>3, <1>4, <1>7, <1>8, OpsApart DEF AddingOK, HasText, TextsOK, DefinesText
<1>10. TextSynced(l.cur, q, s, l, fts', docs)
  <2>1. CASE HasText(l)
    <3>1. TextDue(q, s, l, l.cur)
      BY <1>2, <1>8, <2>1 DEF TextDue, Texting
    <3> QED
      BY <3>1 DEF TextSynced
  <2>2. CASE ~HasText(l)
    BY <1>3, <1>7, <2>2 DEF TextSynced, HasText, Want
  <2> QED
    BY <2>1, <2>2
<1>11. \A x : /\ ~Backfilled("delete_text", s, l, x, fts, docs)
              /\ Unflushed(q, s, l, x)
  BY <1>2, <1>3, <1>8, NothingDue, OpsApart
<1>12. \A x \in Recs : x # l.cur /\ TextDue("delete_text", s, l, x) => TextDue(q, s, l, x)
  BY <1>1, <1>8, PointsApart DEF TextDue
<1> QED
  <2>1. \A x \in Recs : x # l.cur =>
          /\ TextDue(pc[c], s, l, x) => TextDue(q, s, l, x)
          /\ Backfilled(pc[c], s, l, x, fts, docs) => Backfilled(q, s, l, x, fts', docs)
          /\ Unflushed(pc[c], s, l, x) => Unflushed(q, s, l, x)
    BY <1>1, <1>11, <1>12
  <2>2. fts[l.cur[1]].handle /\ "text" \in catalog[l.cur[1]]
    BY <1>3, <1>4, <1>5
  <2>3. pc[c] \in {"delete_text", "add_text", "backfill"} /\ q \in {"add_text", "maintain", "backfill"}
    BY <1>1, <1>8
  <2>4. Unflushed(q, s, l, l.cur)
    BY <1>11
  <2>5. TypeInv /\ TextExact(c) /\ UNCHANGED <<docs, catalog, fts_open>> /\ Goto(c, q, l)
    BY <1>6
  <2>6. TableOf(stmt[c]) \in Tables /\ l.cur \in Recs /\ StagedAt(fts, fts', l.cur)
    BY <1>2, <1>4, <1>7
  <2>7. l.cur[1] = TableOf(stmt[c])
    BY <1>4
  <2>8. AddingOK(q, stmt[c], l, fts', docs) /\ TextsOK(q, stmt[c], l, docs)
    BY <1>9
  <2>9. TextSynced(l.cur, q, stmt[c], l, fts', docs)
    BY <1>10
  <2> QED
    BY ONLY <2>1, <2>2, <2>3, <2>4, <2>5, <2>6, <2>7, <2>8, <2>9, StagingText

LEMMA AddTextExact ==
  ASSUME TypeInv, NEW c \in Conns, Serial(c), TextExact(c), AddText(c)
  PROVE  TextExact(c)'
<1> DEFINE s == stmt[c]
           l == loc[c]
           t == TableOf(s)
           q == IF s.op = "define" THEN "backfill" ELSE "maintain"
           v == Append(fts[t].staged[l.cur[2]], l.doc.text)
<1>1. pc[c] = "add_text" /\ "add_text" \in Texting
  BY DEF AddText, At, Texting
<1>2. /\ s \in Statement /\ t \in Tables
      /\ s.op \in Writes \/ (s.op = "define" /\ s.kind = "text")
      /\ l.cur \in Recs /\ l.doc \in Doc /\ l.doc.text # None
      /\ s.op \in Writes => WriteOK("add_text", s, l, docs, catalog)
      /\ s.op = "define" => DefineOK("add_text", s, catalog)
  BY <1>1, SerialNow, LocalAt
<1>3. TextOK("add_text", s, l, fts, fts_open, docs, catalog)
  BY <1>1 DEF TextExact
<1>4. /\ Staged(fts, l.cur) = <<>> /\ l.cur[1] = t
      /\ docs[l.cur] # NoDoc /\ l.doc.text = docs[l.cur].text
  BY <1>3 DEF TextOK, AddingOK
<1>5. s.op \in Writes => l.touched
  BY <1>1, <1>2, PointsApart DEF WriteOK
<1>6. "text" \in catalog[t]
  <2>1. CASE s.op \in Writes
    BY <1>1, <1>2, <2>1 DEF WriteOK, Texting
  <2>2. CASE s.op = "define"
    BY <1>2, <2>2, TargetsType DEF DefineOK
  <2> QED
    BY <1>2, <2>1, <2>2
<1>7. fts[t].handle
  BY <1>2, <1>3, OpenHandle
<1>8. v = <<l.doc.text>> /\ l.doc.text \in Texts
  <2>1. fts[t].staged[l.cur[2]] = <<>>
    BY <1>4 DEF Staged
  <2>2. l.doc.text \in Texts
    BY <1>2 DEF Doc
  <2> QED
    BY <2>1, <2>2
<1>9. /\ fts' = [fts EXCEPT ![l.cur[1]].staged[l.cur[2]] = <<l.doc.text>>]
      /\ Goto(c, q, l) /\ UNCHANGED <<docs, catalog, fts_open>>
  <2>1. fts' = [fts EXCEPT ![t].staged[l.cur[2]] = v]
    BY DEF AddText
  <2> QED
    BY SMTT(30), <1>4, <1>8, <2>1 DEF AddText, durable
<1>10. StagedAt(fts, fts', l.cur) /\ Staged(fts', l.cur) = Want(docs[l.cur])
  <2>1. <<l.doc.text>> \in Seq(Texts)
    BY SMTT(30), <1>8
  <2>2. StagedAt(fts, fts', l.cur) /\ Staged(fts', l.cur) = <<l.doc.text>>
    BY <1>2, <1>9, <2>1, StagedOnly
  <2> QED
    BY <1>2, <1>4, <2>1, <2>2 DEF Want
<1>11. q \in {"backfill", "maintain"} /\ (q = "backfill" <=> s.op = "define")
  OBVIOUS
<1> HIDE DEF q
<1>12. AddingOK(q, s, l, fts', docs) /\ TextsOK(q, s, l, docs)
  <2>1. TextsOK("add_text", s, l, docs)
    BY <1>3 DEF TextOK
  <2>2. DefinesText(q, s) => DefinesText("add_text", s)
    BY DEF DefinesText
  <2> QED
    BY <1>11, <2>1, <2>2 DEF AddingOK, TextsOK
<1>13. TextSynced(l.cur, q, s, l, fts', docs)
  BY <1>10 DEF TextSynced
<1>14. \A x \in Recs : x # l.cur =>
         /\ TextDue("add_text", s, l, x) => TextDue(q, s, l, x)
         /\ Backfilled("add_text", s, l, x, fts, docs) => Backfilled(q, s, l, x, fts', docs)
         /\ Unflushed("add_text", s, l, x) => Unflushed(q, s, l, x)
  <2>1. CASE s.op \in Writes
    <3>1. \A x : ~Backfilled("add_text", s, l, x, fts, docs) /\ Unflushed(q, s, l, x)
      BY <1>5, <1>11, <2>1, NothingDue, OpsApart
    <3>2. \A x \in Recs : x # l.cur /\ TextDue("add_text", s, l, x) => TextDue(q, s, l, x)
      BY <1>11 DEF TextDue
    <3> QED
      BY <3>1, <3>2
  <2>2. CASE s.op = "define"
    <3>1. \A x : ~TextDue("add_text", s, l, x)
      BY <2>2, NothingDue, OpsApart
    <3>2. q = "backfill"
      BY <1>11, <2>2
    <3>3. \A x : x # l.cur /\ Backfilled("add_text", s, l, x, fts, docs) => Backfilled(q, s, l, x, fts', docs)
      BY <1>2, <3>2 DEF Backfilled, DefinesText, Opening
    <3>4. \A x : Unflushed("add_text", s, l, x) => Unflushed(q, s, l, x)
      BY <3>2 DEF Unflushed
    <3> QED
      BY <3>1, <3>3, <3>4
  <2> QED
    BY <1>2, <2>1, <2>2
<1>15. Unflushed(q, s, l, l.cur)
  BY <1>2, <1>4, <1>5, <1>11, OpsApart DEF Unflushed
<1> QED
  <2>1. \A x \in Recs : x # l.cur =>
          /\ TextDue(pc[c], s, l, x) => TextDue(q, s, l, x)
          /\ Backfilled(pc[c], s, l, x, fts, docs) => Backfilled(q, s, l, x, fts', docs)
          /\ Unflushed(pc[c], s, l, x) => Unflushed(q, s, l, x)
    BY <1>1, <1>14
  <2>2. fts[l.cur[1]].handle /\ "text" \in catalog[l.cur[1]]
    BY <1>4, <1>6, <1>7
  <2>3. pc[c] \in {"delete_text", "add_text", "backfill"} /\ q \in {"add_text", "maintain", "backfill"}
    BY SMTT(30), <1>1, <1>11
  <2> QED
    BY <1>2, <1>4, <1>9, <1>10, <1>12, <1>13, <1>15, <2>1, <2>2, <2>3, StagingText

LEMMA CommitTextExact ==
  ASSUME TypeInv, NEW c \in Conns, Serial(c), TextExact(c), Commit(c)
  PROVE  TextExact(c)'
<1> DEFINE s == stmt[c]
           l == loc[c]
<1>1. /\ pc[c] = "commit" /\ Return(c, l.done) /\ UNCHANGED <<docs, catalog, fts_open>>
      /\ fts' = [t \in Tables |-> IF fts[t].handle THEN [fts[t] EXCEPT !.disk = fts[t].staged]
                                  ELSE fts[t]]
  BY DEF Commit, At, durable, Ok
<1>2. s.op \in Writes => l.rows = {}
  BY <1>1, SerialNow DEF WriteOK
<1>3. TextOK("commit", s, l, fts, fts_open, docs, catalog)
  BY <1>1 DEF TextExact
<1>4. \A r : ~TextDue("commit", s, l, r) /\ ~Backfilled("commit", s, l, r, fts, docs)
  BY <1>2, PointsApart DEF TextDue, Backfilled, DefinesText, Opening
<1>5. HandlesOK("commit", s, fts, fts_open) /\ EmptyOK("commit", s, fts, catalog)
  BY <1>3 DEF TextOK
<1>6. fts \in [Tables -> TextIndex]
  BY SharedNow DEF SharedOK
<1>7. \A u \in Tables : /\ fts'[u].handle = fts[u].handle /\ fts'[u].staged = fts[u].staged
                        /\ fts'[u].disk = fts[u].staged
  <2>1. \A u \in Tables : ~fts[u].handle => fts[u].staged = fts[u].disk
    BY <1>3 DEF TextOK
  <2> QED
    BY <1>1, <1>6, <2>1 DEF TextIndex
<1>8. \A r \in Recs : Staged(fts', r) = Staged(fts, r) /\ OnDisk(fts', r) = Staged(fts, r)
  BY <1>7 DEF Staged, OnDisk, Recs
<1>9. \A r \in Recs : "text" \in catalog[r[1]] => Staged(fts, r) = Want(docs[r])
  BY <1>3, <1>4 DEF TextOK, TextSynced
<1>10. \A u \in Tables : /\ fts[u].handle <=> u \in fts_open
                         /\ "text" \notin catalog[u] => \A k \in Keys : fts[u].staged[k] = <<>>
  BY <1>5 DEF HandlesOK, EmptyOK
<1>11. TextSettled(fts', fts_open, docs, catalog)
  BY <1>7, <1>8, <1>9, <1>10 DEF TextSettled
<1> QED
  BY <1>1, <1>11, ReturnTextExact

\* A statement that neither writes records nor defines a full-text index.
LEMMA PlainText ==
  ASSUME TypeInv, NEW c \in Conns, TextExact(c), UNCHANGED <<docs, catalog, fts, fts_open>>,
         stmt[c].op \notin Writes, ~(stmt[c].op = "define" /\ stmt[c].kind = "text"),
         pc[c] \notin {"mark_open", "unmark_open", "drop_text"}
  PROVE  /\ TextSettled(fts, fts_open, docs, catalog)
         /\ \A records : Return(c, records) => TextExact(c)'
         /\ \A q, m : /\ Goto(c, q, m)
                      /\ q \notin {"mark_open", "unmark_open", "open_text", "delete_text",
                                   "add_text"}
                      => TextExact(c)'
<1>1. \A q, m, r : /\ ~TextDue(q, stmt[c], m, r) /\ ~Backfilled(q, stmt[c], m, r, fts, docs)
                   /\ ~Unflushed(q, stmt[c], m, r) /\ ~DefinesText(q, stmt[c])
  BY ZenonT(60), NothingDue DEF Backfilled, DefinesText, Unflushed
<1>2. TextSettled(fts, fts_open, docs, catalog)
  BY <1>1, TextResting DEF TextExact
<1>3. ASSUME NEW q, NEW m, Goto(c, q, m),
             q \notin {"mark_open", "unmark_open", "open_text", "delete_text", "add_text"}
      PROVE  TextExact(c)'
  <2>1. TextOK(q, stmt[c], m, fts, fts_open, docs, catalog)
    BY <1>1, <1>2, <1>3, TextAtRest
  <2> QED
    BY <1>3, <2>1, GotoTextExact
<1> QED
  BY <1>2, <1>3, ReturnTextExact

LEMMA SearchTextExact ==
  ASSUME TypeInv, NEW c \in Conns, Serial(c), TextExact(c),
         Find(c) \/ QueryText(c) \/ QueryVector(c) \/ Resolve(c)
  PROVE  TextExact(c)'
<1>1. pc[c] \in Searching /\ UNCHANGED <<docs, catalog, fts, fts_open>>
  BY DEF Find, QueryText, QueryVector, Resolve, At, durable, services, Fail, Searching
<1>2. stmt[c].op = "search"
  BY <1>1, SerialNow, LocalAt DEF Searching
<1>3. \/ \E records : Return(c, records)
      \/ \E q, m : /\ Goto(c, q, m)
                   /\ q \in {"query_text", "query_vector", "ensure_text", "ensure_vector", "resolve"}
  BY DEF Find, QueryText, QueryVector, Resolve, Ok, Fail
<1> QED
  BY <1>1, <1>2, <1>3, OpsApart, PlainText DEF Searching

\* DEFINE and REMOVE of a vector index.
LEMMA IndexTextExact ==
  ASSUME TypeInv, NEW c \in Conns, Serial(c), TextExact(c),
         \/ Register(c) \/ SetLoaded(c) \/ DropVector(c)
         \/ (BackfillScan(c) \/ Backfill(c) \/ BackfillDone(c)) /\ stmt[c].kind = "vector"
  PROVE  TextExact(c)'
<1> DEFINE s == stmt[c]
<1>1. /\ pc[c] \in {"register", "set_loaded", "drop_vector", "backfill_scan", "backfill"}
      /\ UNCHANGED <<docs, catalog>>
  BY ZenonT(60) DEF Register, SetLoaded, DropVector, BackfillScan, Backfill, BackfillDone, At, durable
<1>2. UNCHANGED <<fts, fts_open>>
  BY ZenonT(60) DEF Register, Allocate, SetLoaded, DropVector, BackfillScan, Backfill, BackfillDone, services
<1>3. s \in Statement /\ s.op \in {"define", "remove"}
  <2>1. s \in Statement /\ LocalOK(pc[c], s, loc[c])
    BY <1>1, SerialNow
  <2>2. CASE pc[c] = "backfill"
    BY <2>1, <2>2, LocalAt
  <2>3. CASE pc[c] = "drop_vector"
    BY <2>1, <2>3, LocalAt DEF Removing
  <2>4. CASE pc[c] \in {"register", "set_loaded", "backfill_scan"}
    BY ZenonT(60), <2>1, <2>4, LocalAt DEF Defining
  <2> QED
    BY <1>1, <2>1, <2>2, <2>3, <2>4
<1>4. s.op = "define" => s.kind # "text"
  <2>1. CASE pc[c] \in {"register", "set_loaded"}
    BY <1>1, <2>1, SerialNow DEF DefineOK
  <2>2. CASE pc[c] \in {"backfill_scan", "backfill"}
    BY <2>2 DEF Register, SetLoaded, DropVector, At
  <2>3. CASE pc[c] = "drop_vector"
    BY <1>3, <2>3, SerialNow, LocalAt DEF Removing
  <2> QED
    BY <1>1, <2>1, <2>2, <2>3
<1>5. \/ \E records : Return(c, records)
      \/ \E q, m : Goto(c, q, m) /\ q \in {"backfill_scan", "backfill", "set_loaded"}
  <2>1. CASE Register(c) \/ SetLoaded(c) \/ DropVector(c)
    BY <2>1 DEF Register, SetLoaded, DropVector, Ok
  <2>2. CASE (BackfillScan(c) \/ BackfillDone(c)) /\ s.kind = "vector"
    BY <2>2 DEF BackfillScan, BackfillDone
  <2>3. CASE Backfill(c) /\ s.kind = "vector"
    BY <2>3 DEF Backfill
  <2> QED
    BY <2>1, <2>2, <2>3
<1> QED
  BY SMTT(30), <1>1, <1>2, <1>3, <1>4, <1>5, OpsApart, PlainText

LEMMA DefineTextExact ==
  ASSUME TypeInv, NEW c \in Conns, Serial(c), TextExact(c), DefineWrite(c)
  PROVE  TextExact(c)'
<1> DEFINE s == stmt[c]
           t == s.table
           q == IF s.kind = "text" THEN "ensure_text" ELSE "register"
<1>1. /\ pc[c] = "define_write" /\ catalog' = [catalog EXCEPT ![t] = @ \cup {s.kind}]
      /\ UNCHANGED <<docs, fts, fts_open>>
  BY DEF DefineWrite, At, services
<1>2. s \in Statement /\ s.op = "define" /\ t \in Tables /\ TableOf(s) = t
  BY ZenonT(60), <1>1, SerialNow, LocalAt, TargetsType DEF Defining
<1>3. PICK m : Goto(c, q, m)
  BY DEF DefineWrite
<1>4. catalog \in [Tables -> SUBSET Kinds] /\ s.kind \in Kinds
  BY <1>2, SharedNow, StatementShape DEF SharedOK
<1>5. \A u \in Tables : catalog'[u] = IF u = t THEN catalog[t] \cup {s.kind} ELSE catalog[u]
  BY <1>1, <1>4
<1>6. TextSettled(fts, fts_open, docs, catalog)
  <2>1. \A r : /\ ~TextDue("define_write", s, loc[c], r) /\ ~Unflushed("define_write", s, loc[c], r)
               /\ ~Backfilled("define_write", s, loc[c], r, fts, docs)
    BY <1>2, OpsApart DEF TextDue, Unflushed, Backfilled, DefinesText, Opening
  <2> QED
    BY <1>1, <2>1, TextResting DEF TextExact
<1>7. CASE s.kind # "text"
  <2>1. TextSettled(fts, fts_open, docs, catalog')
    <3>1. \A u \in Tables : "text" \in catalog'[u] <=> "text" \in catalog[u]
      BY <1>5, <1>7
    <3>2. \A r \in Recs : r[1] \in Tables
      BY DEF Recs
    <3> QED
      BY <1>6, <3>1, <3>2 DEF TextSettled
  <2>2. TextOK("register", s, m, fts, fts_open, docs, catalog')
    BY <1>7, <2>1, TextAtRest DEF DefinesText
  <2> QED
    BY <1>1, <1>3, <1>7, <2>2, GotoTextExact
<1>8. CASE s.kind = "text"
  <2>1. HandlesOK("ensure_text", s, fts, fts_open) /\ AddingOK("ensure_text", s, m, fts, docs)
        /\ TextsOK("ensure_text", s, m, docs)
    BY <1>6 DEF TextSettled, HandlesOK, AddingOK, TextsOK
  <2>2. EmptyOK("ensure_text", s, fts, catalog')
    BY <1>5, <1>6 DEF TextSettled, EmptyOK
  <2>3. ASSUME NEW r \in Recs
        PROVE  /\ "text" \in catalog'[r[1]] => TextSynced(r, "ensure_text", s, m, fts, docs)
               /\ Flushed(r, "ensure_text", s, m, fts)
    <3>1. r[1] \in Tables /\ r[2] \in Keys
      BY <2>3 DEF Recs
    <3>2. CASE "text" \in catalog[r[1]]
      BY <1>6, <2>3, <3>2 DEF TextSettled, TextSynced, Flushed
    <3>3. CASE "text" \notin catalog[r[1]]
      <4>1. Staged(fts, r) = <<>> /\ Flushed(r, "ensure_text", s, m, fts)
        BY <1>6, <2>3, <3>1, <3>3 DEF TextSettled, Staged, Flushed
      <4>2. "text" \in catalog'[r[1]] => r[1] = t
        BY <1>5, <3>1, <3>3
      <4> QED
        BY <1>2, <1>8, <4>1, <4>2 DEF TextSynced, Backfilled, DefinesText, Opening
    <3> QED
      BY <3>2, <3>3
  <2>4. TextOK("ensure_text", s, m, fts, fts_open, docs, catalog')
    BY <1>6, <2>1, <2>2, <2>3 DEF TextOK, TextSettled
  <2> QED
    BY <1>1, <1>3, <1>8, <2>4, GotoTextExact
<1> QED
  BY <1>7, <1>8

LEMMA ScannedTextExact ==
  ASSUME TypeInv, NEW c \in Conns, Serial(c), TextExact(c), BackfillScan(c), stmt[c].kind = "text"
  PROVE  TextExact(c)'
<1> DEFINE s == stmt[c]
           t == s.table
           texts == {<<r[2], docs[r].text>> : r \in {q \in Stored(t) : docs[q].text # None}}
           m == [loc[c] EXCEPT !.fill = texts]
<1>1. /\ pc[c] = "backfill_scan" /\ UNCHANGED <<docs, catalog, fts, fts_open>>
      /\ Goto(c, "backfill", m)
  BY DEF BackfillScan, At, durable, services
<1>2. s \in Statement /\ s.op = "define" /\ t \in Tables /\ TableOf(s) = t /\ loc[c] \in Local
  BY <1>1, SerialNow, LocalAt, TargetsType DEF Defining
<1>3. m.fill = texts
  BY <1>2 DEF Local
<1> HIDE DEF m
<1>4. TextOK("backfill_scan", s, loc[c], fts, fts_open, docs, catalog)
  BY <1>1 DEF TextExact
<1>5. DefinesText("backfill_scan", s) /\ DefinesText("backfill", s)
  BY <1>2 DEF DefinesText
<1>6. fts[TableOf(s)].handle
  BY <1>2, <1>4, <1>5, OpenHandle
<1>7. TextsOK("backfill", s, m, docs)
  <2>1. ASSUME NEW g \in texts PROVE docs[<<t, g[1]>>] # NoDoc /\ docs[<<t, g[1]>>].text = g[2]
    <3>1. PICK r \in Stored(t) : g = <<r[2], docs[r].text>>
      BY <2>1
    <3>2. r = <<t, r[2]>> /\ docs[r] # NoDoc
      BY DEF Stored, Recs
    <3> QED
      BY <3>1, <3>2
  <2> QED
    BY <1>2, <1>3, <2>1 DEF TextsOK
<1>8. ASSUME NEW r \in Recs, "text" \in catalog[r[1]]
      PROVE  TextSynced(r, "backfill", s, m, fts, docs)
  <2>1. TextSynced(r, "backfill_scan", s, loc[c], fts, docs) /\ ~TextDue("backfill_scan", s, loc[c], r)
    BY <1>2, <1>4, <1>8, NothingDue, OpsApart DEF TextOK
  <2>2. CASE Staged(fts, r) = Want(docs[r])
    BY <2>2 DEF TextSynced
  <2>3. CASE Staged(fts, r) # Want(docs[r])
    <3>1. Staged(fts, r) = <<>> /\ r[1] = t
      BY <1>2, <2>1, <2>3 DEF TextSynced, Backfilled
    <3>2. docs[r] # NoDoc /\ docs[r].text # None
      BY <2>3, <3>1 DEF Want
    <3>3. r \in {q \in Stored(t) : docs[q].text # None}
      BY <1>8, <3>1, <3>2 DEF Stored
    <3>4. <<r[2], docs[r].text>> \in m.fill
      BY <1>3, <3>3
    <3> QED
      BY <1>2, <1>5, <3>1, <3>2, <3>4 DEF TextSynced, Backfilled
  <2> QED
    BY <2>2, <2>3
<1>9. \A r : ~Unflushed("backfill_scan", s, loc[c], r)
  BY <1>2, OpsApart DEF Unflushed
<1> QED
  BY <1>1, <1>2, <1>6, <1>7, <1>8, <1>9, TextKept

LEMMA BackfillTextExact ==
  ASSUME TypeInv, NEW c \in Conns, Serial(c), TextExact(c), Backfill(c), stmt[c].kind = "text"
  PROVE  TextExact(c)'
<1> DEFINE s == stmt[c]
           l == loc[c]
           t == s.table
<1>1. pc[c] = "backfill" /\ UNCHANGED <<docs, catalog>>
  BY DEF Backfill, At, durable
<1>2. /\ s \in Statement /\ s.op = "define" /\ t \in Tables /\ TableOf(s) = t /\ l \in Local
      /\ l.fill \subseteq Keys \X Texts /\ "text" \in catalog[t]
  BY <1>1, SerialNow, LocalAt, TargetsType DEF FillOK, DefineOK
<1>3. TextOK("backfill", s, l, fts, fts_open, docs, catalog)
  BY <1>1 DEF TextExact
<1>4. DefinesText("backfill", s) /\ DefinesText("add_text", s)
  BY <1>2 DEF DefinesText
<1>5. fts[t].handle
  BY SMTT(30), <1>2, <1>3, <1>4, OpenHandle
<1>6. PICK f \in l.fill :
        /\ fts' = [fts EXCEPT ![t].staged[f[1]] = <<>>]
        /\ Goto(c, "add_text", [l EXCEPT !.fill = @ \ {f}, !.cur = <<t, f[1]>>,
                                         !.doc = [text |-> f[2], vec |-> None]])
        /\ UNCHANGED fts_open
  BY ZenonT(60), <1>5 DEF Backfill
<1> DEFINE r == <<t, f[1]>>
           m == [l EXCEPT !.fill = @ \ {f}, !.cur = r, !.doc = [text |-> f[2], vec |-> None]]
<1>7. /\ m.fill = l.fill \ {f} /\ m.cur = r /\ m.doc.text = f[2]
  BY <1>2 DEF Local
<1>8. Goto(c, "add_text", m)
  BY <1>6
<1>9. r \in Recs /\ r[1] = t /\ r[2] = f[1]
  BY <1>2 DEF Recs
<1>10. \A x \in Recs : x[1] = t /\ x[2] = f[1] => x = r
  BY DEF Recs
<1> HIDE DEF m, r
<1>11. StagedAt(fts, fts', r) /\ Staged(fts', r) = <<>>
  <2>1. fts' = [fts EXCEPT ![r[1]].staged[r[2]] = <<>>]
    BY <1>6, <1>9
  <2>2. <<>> \in Seq(Texts)
    OBVIOUS
  <2> QED
    BY <1>9, <2>1, <2>2, StagedOnly
<1>12. TextsOK("backfill", s, l, docs)
  BY <1>3 DEF TextOK
<1>13. AddingOK("add_text", s, m, fts', docs) /\ TextsOK("add_text", s, m, docs)
  <2>1. docs[r] # NoDoc /\ docs[r].text = f[2]
    BY <1>2, <1>4, <1>12 DEF TextsOK, r
  <2> QED
    BY <1>2, <1>4, <1>7, <1>9, <1>11, <1>12, <2>1 DEF AddingOK, TextsOK
<1>14. Backfilled("add_text", s, m, r, fts', docs)
  BY <1>2, <1>4, <1>7, <1>9 DEF Backfilled
<1>15. TextSynced(r, "add_text", s, m, fts', docs) /\ Unflushed("add_text", s, m, r)
  BY <1>2, <1>9, <1>14 DEF TextSynced, Unflushed
<1>16. ASSUME NEW x \in Recs, x # r
       PROVE  /\ ~TextDue("backfill", s, l, x)
              /\ Backfilled("backfill", s, l, x, fts, docs) =>
                   Backfilled("add_text", s, m, x, fts', docs)
              /\ Unflushed("backfill", s, l, x) => Unflushed("add_text", s, m, x)
  <2>1. ~TextDue("backfill", s, l, x)
    BY <1>2, NothingDue, OpsApart
  <2>2. ASSUME Backfilled("backfill", s, l, x, fts, docs)
        PROVE  Backfilled("add_text", s, m, x, fts', docs)
    <3>1. x[1] = t /\ docs[x] # NoDoc /\ <<x[2], docs[x].text>> \in l.fill
      BY <1>2, <2>2 DEF Backfilled, Opening
    <3>2. <<x[2], docs[x].text>> # f
      BY <1>10, <1>16, <3>1
    <3> QED
      BY <1>2, <1>4, <1>7, <3>1, <3>2 DEF Backfilled
  <2>3. Unflushed("backfill", s, l, x) => Unflushed("add_text", s, m, x)
    BY <1>2, OpsApart DEF Unflushed
  <2> QED
    BY <2>1, <2>2, <2>3
<1>17. \A x \in Recs : x # r =>
         /\ TextDue(pc[c], s, l, x) => TextDue("add_text", s, m, x)
         /\ Backfilled(pc[c], s, l, x, fts, docs) => Backfilled("add_text", s, m, x, fts', docs)
         /\ Unflushed(pc[c], s, l, x) => Unflushed("add_text", s, m, x)
  BY <1>1, <1>16
<1>18. /\ TypeInv /\ TextExact(c) /\ UNCHANGED <<docs, catalog, fts_open>>
       /\ TableOf(s) \in Tables /\ r[1] = TableOf(s) /\ fts[r[1]].handle /\ "text" \in catalog[r[1]]
       /\ pc[c] \in {"delete_text", "add_text", "backfill"}
  BY <1>1, <1>2, <1>5, <1>6, <1>9
<1> QED
  BY ONLY <1>8, <1>9, <1>11, <1>13, <1>15, <1>17, <1>18, StagingText

LEMMA BackfilledTextExact ==
  ASSUME TypeInv, NEW c \in Conns, Serial(c), TextExact(c), BackfillDone(c), stmt[c].kind = "text"
  PROVE  TextExact(c)'
<1> DEFINE s == stmt[c]
<1>1. /\ pc[c] = "backfill" /\ UNCHANGED <<docs, catalog, fts, fts_open>> /\ loc[c].fill = {}
  BY DEF BackfillDone, At, durable, services
<1>2. PICK m : Goto(c, "commit", m)
  BY DEF BackfillDone
<1>3. s.op = "define" /\ s \in Statement
  BY <1>1, SerialNow, LocalAt
<1>4. \A r : ~TextDue("backfill", s, loc[c], r) /\ ~Backfilled("backfill", s, loc[c], r, fts, docs)
  BY <1>1, <1>3, NothingDue, OpsApart DEF Backfilled, Opening
<1>5. \A r \in Recs : Unflushed("backfill", s, loc[c], r) => Unflushed("commit", s, m, r)
  BY <1>3, OpsApart DEF Unflushed
<1> QED
  BY <1>1, <1>2, <1>4, <1>5, TextMove

LEMMA RemoveWriteTextExact ==
  ASSUME TypeInv, NEW c \in Conns, Serial(c), TextExact(c), RemoveWrite(c)
  PROVE  TextExact(c)'
<1> DEFINE s == stmt[c]
           t == s.table
<1>1. /\ pc[c] = "remove_write" /\ catalog' = [catalog EXCEPT ![t] = @ \ {s.kind}]
      /\ UNCHANGED <<docs, fts, fts_open>>
  BY DEF RemoveWrite, At, services
<1>2. /\ s \in Statement /\ s.op = "remove" /\ t \in Tables /\ TableOf(s) = t
      /\ loc[c].defs = catalog[t]
  BY <1>1, SerialNow, LocalAt, TargetsType DEF Removing, RemoveOK
<1>3. catalog \in [Tables -> SUBSET Kinds] /\ s.kind \in Kinds
  BY <1>2, SharedNow, StatementShape DEF SharedOK
<1>4. \A u \in Tables : catalog'[u] = IF u = t THEN catalog[t] \ {s.kind} ELSE catalog[u]
  BY <1>1, <1>3
<1>5. TextSettled(fts, fts_open, docs, catalog)
  <2>1. \A r : /\ ~TextDue("remove_write", s, loc[c], r) /\ ~Unflushed("remove_write", s, loc[c], r)
               /\ ~Backfilled("remove_write", s, loc[c], r, fts, docs)
    BY <1>2, OpsApart DEF TextDue, Unflushed, Backfilled, DefinesText, Opening
  <2> QED
    BY <1>1, <2>1, TextResting DEF TextExact
<1>6. \A r \in Recs : r[1] \in Tables
  BY DEF Recs
<1>7. CASE s.kind # "text" \/ s.kind \notin catalog[t]
  <2>1. \A u \in Tables : "text" \in catalog'[u] <=> "text" \in catalog[u]
    BY <1>4, <1>7
  <2>2. TextSettled(fts, fts_open, docs, catalog')
    BY <1>5, <1>6, <2>1 DEF TextSettled
  <2>3. Return(c, loc[c].done) \/ \E m : Goto(c, "drop_vector", m)
    BY <1>2, <1>7 DEF RemoveWrite, Ok
  <2>4. \A m : TextOK("drop_vector", s, m, fts, fts_open, docs, catalog')
    BY <2>2, TextAtRest DEF DefinesText, Opening
  <2> QED
    BY <1>1, <2>2, <2>3, <2>4, ReturnTextExact, GotoTextExact
<1>8. CASE s.kind = "text" /\ s.kind \in catalog[t]
  <2>1. PICK m : Goto(c, "drop_text", m)
    BY <1>2, <1>8 DEF RemoveWrite
  <2>2. EmptyOK("drop_text", s, fts, catalog')
    BY <1>2, <1>4, <1>5 DEF TextSettled, EmptyOK
  <2>3. \A r \in Recs : /\ "text" \in catalog'[r[1]] => TextSynced(r, "drop_text", s, m, fts, docs)
                        /\ Flushed(r, "drop_text", s, m, fts)
    BY <1>4, <1>5, <1>6 DEF TextSettled, TextSynced, Flushed
  <2>4. TextOK("drop_text", s, m, fts, fts_open, docs, catalog')
    BY <1>5, <2>2, <2>3 DEF TextOK, TextSettled, HandlesOK, AddingOK, TextsOK
  <2> QED
    BY <1>1, <2>1, <2>4, GotoTextExact
<1> QED
  BY <1>7, <1>8

LEMMA DropTextExact ==
  ASSUME TypeInv, NEW c \in Conns, Serial(c), TextExact(c), DropText(c) \/ UnmarkOpen(c)
  PROVE  TextExact(c)'
<1> DEFINE s == stmt[c]
           l == loc[c]
           t == s.table
           empty == [handle |-> FALSE, disk |-> NothingHeld, staged |-> NothingHeld]
<1>1. pc[c] \in {"drop_text", "unmark_open"} /\ UNCHANGED <<docs, catalog>>
  BY DEF DropText, UnmarkOpen, At, durable
<1>2. /\ s \in Statement /\ s.op = "remove" /\ t \in Tables /\ TableOf(s) = t
      /\ "text" \notin catalog[t]
  BY <1>1, SerialNow, LocalAt, TargetsType DEF Removing, RemoveOK
<1>3. \A p, m, r : /\ ~TextDue(p, s, m, r) /\ ~Unflushed(p, s, m, r)
                   /\ ~Backfilled(p, s, m, r, fts, docs) /\ ~DefinesText(p, s)
  BY <1>2, NothingDue, OpsApart
<1>4. TextOK(pc[c], s, l, fts, fts_open, docs, catalog)
  BY DEF TextExact
<1>5. \A r \in Recs : /\ "text" \in catalog[r[1]] => Staged(fts, r) = Want(docs[r])
                      /\ OnDisk(fts, r) = Staged(fts, r)
  BY <1>3, <1>4 DEF TextOK, TextSynced, Flushed
<1>6. HandlesOK(pc[c], s, fts, fts_open) /\ EmptyOK(pc[c], s, fts, catalog)
  BY <1>4 DEF TextOK
<1>7. \A r \in Recs : r[1] \in Tables /\ r[2] \in Keys
  BY DEF Recs
<1>8. CASE DropText(c)
  <2>1. /\ pc[c] = "drop_text" /\ Goto(c, "unmark_open", l) /\ UNCHANGED fts_open
        /\ fts' = [fts EXCEPT ![t] = empty]
    BY <1>8 DEF DropText, At
  <2>2. fts \in [Tables -> TextIndex]
    BY SharedNow DEF SharedOK
  <2>3. \A u \in Tables : fts'[u] = IF u = t THEN empty ELSE fts[u]
    BY <2>1, <2>2
  <2>4. HandlesOK("unmark_open", s, fts', fts_open)
    BY <1>2, <1>3, <1>6, <2>1, <2>3 DEF HandlesOK
  <2>5. EmptyOK("unmark_open", s, fts', catalog)
    BY <1>2, <1>6, <2>1, <2>3 DEF EmptyOK, NothingHeld
  <2>6. ASSUME NEW r \in Recs
        PROVE  /\ "text" \in catalog[r[1]] => TextSynced(r, "unmark_open", s, l, fts', docs)
               /\ Flushed(r, "unmark_open", s, l, fts')
    <3>1. CASE r[1] = t
      BY <1>2, <1>7, <2>3, <3>1 DEF Flushed, OnDisk, Staged
    <3>2. CASE r[1] # t
      BY <1>5, <1>7, <2>3, <2>6, <3>2 DEF TextSynced, Flushed, OnDisk, Staged
    <3> QED
      BY <3>1, <3>2
  <2>7. \A u \in Tables : ~fts'[u].handle => fts'[u].staged = fts'[u].disk
    BY <1>4, <2>3 DEF TextOK
  <2>8. TextOK("unmark_open", s, l, fts', fts_open, docs, catalog)
    BY <1>3, <2>4, <2>5, <2>6, <2>7 DEF TextOK, AddingOK, TextsOK
  <2> QED
    BY <1>1, <2>1, <2>8, GotoTextExact
<1>9. CASE UnmarkOpen(c)
  <2>1. /\ pc[c] = "unmark_open" /\ Return(c, l.done) /\ UNCHANGED fts
        /\ fts_open' = fts_open \ {t}
    BY <1>9 DEF UnmarkOpen, At, Ok
  <2>2. \A u \in Tables : fts[u].handle <=> u \in fts_open'
    BY <1>2, <1>6, <2>1 DEF HandlesOK
  <2>3. \A u \in Tables : "text" \notin catalog[u] => \A k \in Keys : fts[u].staged[k] = <<>>
    BY <1>6, <2>1 DEF EmptyOK
  <2>4. \A u \in Tables : ~fts[u].handle => fts[u].staged = fts[u].disk
    BY <1>4 DEF TextOK
  <2>5. TextSettled(fts, fts_open', docs, catalog)
    BY <1>5, <2>2, <2>3, <2>4 DEF TextSettled
  <2> QED
    BY <1>1, <2>1, <2>5, ReturnTextExact
<1> QED
  BY <1>8, <1>9

LEMMA TextExactStep ==
  ASSUME TypeInv, NEW c \in Conns, Serial(c), TextExact(c), Begin(c) \/ Step(c)
  PROVE  TextExact(c)'
<1>1. ASSUME BackfillScan(c) \/ Backfill(c) \/ BackfillDone(c)
      PROVE  TextExact(c)'
  <2>1. pc[c] \in {"backfill_scan", "backfill"}
    BY ZenonT(60), <1>1 DEF BackfillScan, Backfill, BackfillDone, At
  <2>2. stmt[c] \in Statement /\ stmt[c].op = "define"
    <3>1. stmt[c] \in Statement /\ LocalOK(pc[c], stmt[c], loc[c])
      BY <2>1, SerialNow
    <3>2. CASE pc[c] = "backfill"
      BY <3>1, <3>2, LocalAt
    <3>3. CASE pc[c] = "backfill_scan"
      BY <3>1, <3>3, LocalAt DEF Defining
    <3> QED
      BY <2>1, <3>1, <3>2, <3>3
  <2>3. stmt[c].kind \in {"text", "vector"}
    BY <2>2, StatementShape DEF Kinds
  <2> QED
    BY SMTT(30), <1>1, <2>3, IndexTextExact, ScannedTextExact, BackfillTextExact, BackfilledTextExact
<1> QED
  BY <1>1, BeginTextExact, LoadTextExact, ScanTextExact, BatchWriteTextExact, RowTextExact,
     RowsDoneTextExact, RereadTextExact, MaintainTextExact, EnsureTextExact, OpenTextExact,
     MarkOpenExact, DeleteTextExact, AddTextExact, CommitTextExact, VectorsTextExact,
     DefineTextExact, IndexTextExact, RemoveWriteTextExact, DropTextExact, SearchTextExact
     DEF Step

-----------------------------------------------------------------------------
(* The vector indexes *)

LEMMA GotoVectorExact ==
  ASSUME TypeInv, NEW c \in Conns, NEW q, NEW m, Goto(c, q, m),
         VectorsOK(q, stmt[c], m, registry', heap', docs', catalog')
  PROVE  VectorExact(c)'
BY Moved DEF VectorExact

\* Nothing is on its way: the vector indexes in memory are up to date.
VectorSettled(reg, h, d, cat) ==
  /\ OneName(reg)
  /\ \A u \in Tables : "vector" \in cat[u] /\ reg[VectorName[u]] # NoSlot =>
       h[reg[VectorName[u]]].loaded
  /\ \A r \in Recs : "vector" \in cat[r[1]] /\ Entry(r, reg) # NoSlot =>
       h[Entry(r, reg)].vecs[r[2]] = Kept(d[r])

LEMMA VectorAtRest ==
  ASSUME NEW p, NEW s, NEW l, NEW reg, NEW h, NEW d, NEW cat,
         VectorSettled(reg, h, d, cat), p \notin Rebuilding, ~DefinesVector(p, s)
  PROVE  VectorsOK(p, s, l, reg, h, d, cat)
<1>1. EntryOK(p, s, l, reg, h)
  BY DEF EntryOK
<1>2. EmbeddingsOK(p, s, l, d)
  BY DEF EmbeddingsOK, Rebuilding
<1> QED
  BY <1>1, <1>2 DEF VectorSettled, VectorsOK, VectorSynced

LEMMA VectorResting ==
  ASSUME NEW p, NEW s, NEW l, NEW reg, NEW h, NEW d, NEW cat,
         VectorsOK(p, s, l, reg, h, d, cat), p \notin Rebuilding, ~DefinesVector(p, s),
         \A r \in Recs : ~VectorDue(p, s, l, r)
  PROVE  VectorSettled(reg, h, d, cat)
<1>1. \A r, held : ~Refilling(p, s, l, r, d, held)
  BY DEF Refilling
<1> QED
  BY <1>1 DEF VectorSettled, VectorsOK, VectorSynced

LEMMA ReturnVectorExact ==
  ASSUME TypeInv, NEW c \in Conns, NEW records, Return(c, records),
         VectorSettled(registry', heap', docs', catalog')
  PROVE  VectorExact(c)'
<1>1. pc'[c] = "idle" /\ ~DefinesVector("idle", stmt'[c]) /\ "idle" \notin Rebuilding
  BY Returned DEF DefinesVector, Rebuilding
<1> QED
  BY <1>1, VectorAtRest DEF VectorExact

\* A step that leaves storage and the vector indexes alone.
LEMMA VectorMove ==
  ASSUME TypeInv, NEW c \in Conns, VectorExact(c), UNCHANGED <<docs, catalog, registry, heap>>,
         pc[c] \notin Rebuilding, ~DefinesVector(pc[c], stmt[c]),
         NEW q, NEW m, Goto(c, q, m), q \notin Rebuilding, ~DefinesVector(q, stmt[c]),
         \A r \in Recs : /\ "vector" \in catalog[r[1]] /\ Entry(r, registry) # NoSlot
                         /\ VectorDue(pc[c], stmt[c], loc[c], r)
                         => VectorDue(q, stmt[c], m, r)
  PROVE  VectorExact(c)'
<1> DEFINE s == stmt[c]
           p == pc[c]
<1>1. VectorsOK(p, s, loc[c], registry, heap, docs, catalog)
  BY DEF VectorExact
<1>2. \A r, held : ~Refilling(p, s, loc[c], r, docs, held)
  BY DEF Refilling
<1>3. EntryOK(q, s, m, registry, heap)
  BY DEF EntryOK
<1>4. EmbeddingsOK(q, s, m, docs)
  BY DEF EmbeddingsOK, Rebuilding
<1>5. \A r \in Recs : "vector" \in catalog[r[1]] /\ Entry(r, registry) # NoSlot =>
        VectorSynced(r, q, s, m, registry, heap, docs)
  BY <1>1, <1>2 DEF VectorsOK, VectorSynced
<1>6. VectorsOK(q, s, m, registry, heap, docs, catalog)
  BY <1>1, <1>3, <1>4, <1>5 DEF VectorsOK
<1> QED
  BY <1>6, GotoVectorExact

\* A statement that neither writes records nor defines a vector index.
LEMMA IdleVector ==
  ASSUME TypeInv, NEW c \in Conns, VectorExact(c),
         stmt[c].op \notin Writes, ~(stmt[c].op = "define" /\ stmt[c].kind = "vector"),
         pc[c] \notin Rebuilding
  PROVE  /\ VectorSettled(registry, heap, docs, catalog)
         /\ \A records : Return(c, records) /\ UNCHANGED <<docs, catalog, registry, heap>> =>
              VectorExact(c)'
         /\ \A q, m : /\ Goto(c, q, m) /\ q \notin Rebuilding
                      /\ UNCHANGED <<docs, catalog, registry, heap>>
                      => VectorExact(c)'
<1>1. \A q, m, r : ~VectorDue(q, stmt[c], m, r) /\ ~DefinesVector(q, stmt[c])
  BY NothingDue DEF DefinesVector
<1>2. VectorSettled(registry, heap, docs, catalog)
  BY <1>1, VectorResting DEF VectorExact
<1> QED
  BY <1>1, <1>2, VectorMove, ReturnVectorExact

\* A write, at a point outside the rebuild.
LEMMA WriterVectorMove ==
  ASSUME TypeInv, NEW c \in Conns, VectorExact(c), UNCHANGED <<docs, catalog, registry, heap>>,
         stmt[c].op \in Writes, pc[c] \notin Rebuilding,
         NEW q, NEW m, Goto(c, q, m), q \notin Rebuilding,
         \A r \in Recs : /\ "vector" \in catalog[r[1]] /\ Entry(r, registry) # NoSlot
                         /\ VectorDue(pc[c], stmt[c], loc[c], r)
                         => VectorDue(q, stmt[c], m, r)
  PROVE  VectorExact(c)'
<1>1. ~DefinesVector(pc[c], stmt[c]) /\ ~DefinesVector(q, stmt[c])
  BY NothingDue, OpsApart
<1> QED
  BY <1>1, VectorMove

LEMMA WriterVectorReturn ==
  ASSUME TypeInv, NEW c \in Conns, VectorExact(c), UNCHANGED <<docs, catalog, registry, heap>>,
         stmt[c].op \in Writes, pc[c] \notin Rebuilding,
         NEW records, Return(c, records),
         \A r \in Recs : ~VectorDue(pc[c], stmt[c], loc[c], r)
  PROVE  VectorExact(c)'
<1>1. ~DefinesVector(pc[c], stmt[c])
  BY NothingDue, OpsApart
<1>2. VectorSettled(registry, heap, docs, catalog)
  BY <1>1, VectorResting DEF VectorExact
<1> QED
  BY <1>2, ReturnVectorExact

LEMMA BeginVectorExact ==
  ASSUME TypeInv, NEW c \in Conns, Serial(c), VectorExact(c), Begin(c)
  PROVE  VectorExact(c)'
<1>1. /\ pc[c] = "idle" /\ UNCHANGED <<docs, catalog, registry, heap>>
      /\ pc'[c] \in {"define_write", "find", "load"}
  BY DEF Begin, At, durable, services, TypeInv, TypeOK
<1>2. VectorSettled(registry, heap, docs, catalog)
  BY <1>1, VectorResting, NothingDue DEF VectorExact, DefinesVector, Rebuilding
<1>3. ~DefinesVector(pc'[c], stmt'[c]) /\ pc'[c] \notin Rebuilding
  BY <1>1 DEF DefinesVector, Rebuilding
<1> QED
  BY <1>1, <1>2, <1>3, VectorAtRest DEF VectorExact

LEMMA LoadVectorExact ==
  ASSUME TypeInv, NEW c \in Conns, Serial(c), VectorExact(c), Load(c) \/ Scan(c)
  PROVE  VectorExact(c)'
<1> DEFINE s == stmt[c]
<1>1. pc[c] \in {"load", "scan"} /\ UNCHANGED <<docs, catalog, registry, heap>>
  BY DEF Load, Scan, At, durable, services
<1>2. PICK q, m : Goto(c, q, m) /\ q \in {"scan", "batch_write", "remove_write", "row"}
  BY DEF Load, Scan
<1>3. s.op \in Writes \cup {"remove"} /\ (s.op \in Writes => WriteOK(pc[c], s, loc[c], docs, catalog))
  BY <1>1, SerialNow, LocalAt DEF Writes
<1>4. pc[c] \notin Rebuilding /\ q \notin Rebuilding
  BY <1>1, <1>2 DEF Rebuilding
<1>5. CASE s.op = "remove"
  BY <1>1, <1>2, <1>4, <1>5, OpsApart, IdleVector
<1>6. CASE s.op \in Writes
  <2>1. loc[c].rows = {}
    BY <1>1, <1>3, <1>6 DEF WriteOK
  <2>2. \A r : ~VectorDue(pc[c], s, loc[c], r)
    BY <1>1, <2>1, PointsApart DEF VectorDue
  <2> QED
    BY <1>1, <1>2, <1>4, <1>6, <2>2, WriterVectorMove
<1> QED
  BY <1>3, <1>5, <1>6

LEMMA RowsDoneVectorExact ==
  ASSUME TypeInv, NEW c \in Conns, Serial(c), VectorExact(c), RowsDone(c)
  PROVE  VectorExact(c)'
<1> DEFINE s == stmt[c]
           l == loc[c]
<1>1. pc[c] = "row" /\ UNCHANGED <<docs, catalog, registry, heap>> /\ l.rows = {}
  BY DEF RowsDone, At, durable, services
<1>2. s.op \in Writes
  BY <1>1, SerialNow, LocalAt
<1>3. \A r : ~VectorDue("row", s, l, r)
  BY <1>1, <1>2, PointsApart DEF VectorDue
<1>4. "row" \notin Rebuilding /\ "commit" \notin Rebuilding
  BY DEF Rebuilding
<1>5. Goto(c, "commit", l) \/ Return(c, l.done)
  BY DEF RowsDone, Ok
<1> QED
  BY <1>1, <1>2, <1>3, <1>4, <1>5, WriterVectorMove, WriterVectorReturn

LEMMA RereadVectorExact ==
  ASSUME TypeInv, NEW c \in Conns, Serial(c), VectorExact(c), Reread(c)
  PROVE  VectorExact(c)'
<1> DEFINE s == stmt[c]
           l == loc[c]
           m == [l EXCEPT !.doc = docs[l.cur], !.todo = l.defs, !.touched = TRUE]
<1>1. pc[c] = "reread" /\ UNCHANGED <<docs, catalog, registry, heap>>
  BY DEF Reread, At, durable, services
<1>2. s \in Statement /\ s.op \in Writes /\ l \in Local /\ WriteOK("reread", s, l, docs, catalog)
  BY <1>1, SerialNow, LocalAt DEF Applying
<1>3. docs[l.cur] # NoDoc /\ l.cur \in Targets(s) /\ l.defs = catalog[TableOf(s)]
  BY <1>2 DEF WriteOK
<1>4. Goto(c, "maintain", m)
  BY <1>3 DEF Reread
<1>5. m.rows = l.rows /\ m.cur = l.cur /\ m.todo = l.defs
  BY <1>2 DEF Local
<1> HIDE DEF m
<1>6. l.cur[1] = TableOf(s)
  BY <1>2, <1>3, TargetsType
<1>7. ASSUME NEW r \in Recs, "vector" \in catalog[r[1]], VectorDue("reread", s, l, r)
      PROVE  VectorDue("maintain", s, m, r)
  BY <1>2, <1>3, <1>5, <1>6, <1>7, PointsApart DEF VectorDue
<1>8. "reread" \notin Rebuilding /\ "maintain" \notin Rebuilding
  BY DEF Rebuilding
<1> QED
  BY <1>1, <1>2, <1>4, <1>7, <1>8, WriterVectorMove

LEMMA MaintainVectorExact ==
  ASSUME TypeInv, NEW c \in Conns, Serial(c), VectorExact(c), Maintain(c)
  PROVE  VectorExact(c)'
<1> DEFINE s == stmt[c]
           l == loc[c]
<1>1. pc[c] = "maintain" /\ UNCHANGED <<docs, catalog, registry, heap>>
  BY DEF Maintain, At, durable, services
<1>2. s \in Statement /\ s.op \in Writes /\ l \in Local
  BY <1>1, SerialNow, LocalAt DEF Applying
<1>3. PICK q, m : /\ Goto(c, q, m) /\ m.rows = l.rows /\ m.cur = l.cur
                  /\ \/ q = "row" /\ l.todo = {}
                     \/ q = "ensure_text" /\ m.todo = l.todo \ {"text"}
                     \/ q \in {"ensure_vector", "vector_exists"}
  <2>1. CASE l.todo = {} /\ Goto(c, "row", [l EXCEPT !.done = @ \cup {l.cur}])
    <3> DEFINE m == [l EXCEPT !.done = @ \cup {l.cur}]
    <3>1. m.rows = l.rows /\ m.cur = l.cur
      BY <1>2 DEF Local
    <3> QED
      BY <2>1, <3>1
  <2>2. CASE Goto(c, "ensure_text", [l EXCEPT !.todo = @ \ {"text"}, !.ret = "delete_text"])
    <3> DEFINE m == [l EXCEPT !.todo = @ \ {"text"}, !.ret = "delete_text"]
    <3>1. m.rows = l.rows /\ m.cur = l.cur /\ m.todo = l.todo \ {"text"}
      BY <1>2 DEF Local
    <3> QED
      BY <2>2, <3>1
  <2>3. CASE Goto(c, IF HasVector(l) THEN "ensure_vector" ELSE "vector_exists",
                  [l EXCEPT !.todo = @ \ {"vector"}, !.ret = "insert_vector"])
    <3> DEFINE m == [l EXCEPT !.todo = @ \ {"vector"}, !.ret = "insert_vector"]
    <3>1. m.rows = l.rows /\ m.cur = l.cur
      BY <1>2 DEF Local
    <3> QED
      BY <2>3, <3>1
  <2> QED
    BY <2>1, <2>2, <2>3 DEF Maintain
<1>4. ASSUME NEW r, VectorDue("maintain", s, l, r) PROVE VectorDue(q, s, m, r)
  <2>1. q # "idle" /\ (q # "row" => q \in Maintaining)
        /\ (q \in {"ensure_vector", "vector_exists"} => q \in VectorPending)
    BY <1>3 DEF Maintaining, Vectoring, Loading, Opening, VectorPending
  <2> QED
    BY <1>3, <1>4, <2>1, PointsApart DEF VectorDue
<1>5. "maintain" \notin Rebuilding /\ q \notin Rebuilding
  BY <1>3 DEF Rebuilding
<1> QED
  BY <1>1, <1>2, <1>3, <1>4, <1>5, WriterVectorMove

\* The full-text part of a statement.
LEMMA TextsVectorExact ==
  ASSUME TypeInv, NEW c \in Conns, Serial(c), TextExact(c), VectorExact(c),
         EnsureText(c) \/ OpenText(c) \/ MarkOpen(c) \/ DeleteText(c) \/ AddText(c)
  PROVE  VectorExact(c)'
<1> DEFINE s == stmt[c]
           l == loc[c]
<1>1. /\ pc[c] \in Texting /\ UNCHANGED <<docs, catalog, registry, heap>>
      /\ s \in Statement /\ s.op \in Writes \cup {"define", "search"}
  BY TextMoves
<1>2. PICK q : /\ Goto(c, q, l)
               /\ s.op \in Writes => q \in Texting \cup {"maintain"}
               /\ s.op = "define" => q \in Opening \cup {"backfill_scan", "backfill"}
               /\ s.op = "search" => q \in Opening \cup {"find"}
  <2>1. TableOf(s) \in Tables
    BY <1>1, TargetsType
  <2>2. CASE EnsureText(c) \/ MarkOpen(c) \/ AddText(c)
    <3>1. pc[c] \in Opening => l.ret # "idle"
      BY SMTT(30), <1>1, SerialNow, LocalAt, PointsApart DEF OpeningOK
    <3>2. PICK q : Goto(c, q, l) /\ q # "idle"
      BY <2>2, <3>1 DEF EnsureText, MarkOpen, AddText, At, Opening
    <3>3. pc'[c] # "idle"
      BY <3>2, Moved
    <3>4. ~Fail(c)
      BY <3>3, Returned DEF Fail
    <3> QED
      BY <3>4, TextMoves
  <2>3. CASE OpenText(c)
    <3>1. ~fts[TableOf(s)].handle
      BY <2>1, <2>3, OpenHandle DEF TextExact, OpenText, At
    <3>2. Goto(c, "mark_open", l)
      BY <2>3, <3>1 DEF OpenText
    <3> QED
      BY <3>2 DEF Opening, Texting
  <2>4. CASE DeleteText(c)
    <3>1. fts[TableOf(s)].handle
      BY <2>1, <2>4, OpenHandle DEF TextExact, DeleteText, At
    <3>2. Goto(c, IF HasText(l) THEN "add_text" ELSE "maintain", l)
      BY <2>4, <3>1 DEF DeleteText
    <3>3. s.op \in Writes
      BY <2>4, SerialNow, LocalAt DEF DeleteText, At, Applying
    <3> QED
      BY <3>2, <3>3, OpsApart DEF Texting
  <2> QED
    BY <2>2, <2>3, <2>4
<1>3. pc[c] \notin Rebuilding /\ q \notin Rebuilding
  BY <1>1, <1>2 DEF Texting, Opening, Rebuilding
<1>4. CASE s.op \in Writes
  <2>1. /\ pc[c] \in Maintaining \ VectorPending /\ q \in Maintaining \ VectorPending
        /\ pc[c] # "idle" /\ q # "idle" /\ pc[c] # "reread" /\ q # "reread"
    BY <1>1, <1>2, <1>4, PointsApart
  <2>2. \A r : VectorDue(pc[c], s, l, r) => VectorDue(q, s, l, r)
    BY <2>1 DEF VectorDue
  <2> QED
    BY <1>1, <1>2, <1>3, <1>4, <2>2, WriterVectorMove
<1>5. CASE s.op \notin Writes
  <2>1. pc[c] # "delete_text"
    BY <1>5, SerialNow, LocalAt DEF Applying
  <2>2. s.op = "define" => s.kind = "text"
    BY <1>1, <2>1, SerialNow, PointsApart DEF DefineOK, Texting
  <2> QED
    BY <1>1, <1>2, <1>3, <1>5, <2>2, IdleVector
<1> QED
  BY <1>4, <1>5

LEMMA CommitVectorExact ==
  ASSUME TypeInv, NEW c \in Conns, Serial(c), VectorExact(c), Commit(c)
  PROVE  VectorExact(c)'
<1> DEFINE s == stmt[c]
           l == loc[c]
<1>1. pc[c] = "commit" /\ UNCHANGED <<docs, catalog, registry, heap>> /\ Return(c, l.done)
  BY DEF Commit, At, durable, Ok
<1>2. "commit" \notin Rebuilding
  BY DEF Rebuilding
<1>3. CASE s.op \in Writes
  <2>1. l.rows = {}
    BY <1>1, <1>3, SerialNow DEF WriteOK
  <2>2. \A r : ~VectorDue("commit", s, l, r)
    BY <2>1, PointsApart DEF VectorDue
  <2> QED
    BY <1>1, <1>2, <1>3, <2>2, WriterVectorReturn
<1>4. CASE s.op \notin Writes
  <2>1. s.op = "define" => s.kind = "text"
    BY <1>1, SerialNow DEF DefineOK
  <2> QED
    BY <1>1, <1>2, <1>4, <2>1, IdleVector
<1> QED
  BY <1>3, <1>4

LEMMA SearchVectorExact ==
  ASSUME TypeInv, NEW c \in Conns, Serial(c), VectorExact(c),
         Find(c) \/ QueryText(c) \/ QueryVector(c) \/ Resolve(c)
  PROVE  VectorExact(c)'
<1>1. pc[c] \in Searching /\ UNCHANGED <<docs, catalog, registry, heap>>
  BY DEF Find, QueryText, QueryVector, Resolve, At, durable, services, Fail, Searching
<1>2. stmt[c].op = "search"
  BY <1>1, SerialNow, LocalAt DEF Searching
<1>3. \/ \E records : Return(c, records)
      \/ \E q, m : /\ Goto(c, q, m)
                   /\ q \in {"query_text", "query_vector", "ensure_text", "ensure_vector", "resolve"}
  BY DEF Find, QueryText, QueryVector, Resolve, Ok, Fail
<1> QED
  BY <1>1, <1>2, <1>3, OpsApart, IdleVector DEF Searching, Rebuilding

LEMMA DropTextVectorExact ==
  ASSUME TypeInv, NEW c \in Conns, Serial(c), VectorExact(c), DropText(c) \/ UnmarkOpen(c)
  PROVE  VectorExact(c)'
<1>1. pc[c] \in {"drop_text", "unmark_open"} /\ UNCHANGED <<docs, catalog, registry, heap>>
  BY DEF DropText, UnmarkOpen, At, durable
<1>2. stmt[c].op = "remove"
  BY <1>1, SerialNow, LocalAt DEF Removing
<1>3. (\E records : Return(c, records)) \/ (\E m : Goto(c, "unmark_open", m))
  BY DEF DropText, UnmarkOpen, Ok
<1> QED
  BY <1>1, <1>2, <1>3, OpsApart, IdleVector DEF Rebuilding

\* The backfill of a full-text index.
LEMMA BackfillTextVectorExact ==
  ASSUME TypeInv, NEW c \in Conns, Serial(c), VectorExact(c), stmt[c].kind = "text",
         BackfillScan(c) \/ Backfill(c) \/ BackfillDone(c)
  PROVE  VectorExact(c)'
<1>1. pc[c] \in {"backfill_scan", "backfill"} /\ UNCHANGED <<docs, catalog, registry, heap>>
  BY ZenonT(60) DEF BackfillScan, Backfill, BackfillDone, At, durable, services
<1>2. stmt[c].op = "define"
  <2>1. CASE pc[c] = "backfill"
    BY <2>1, SerialNow, LocalAt
  <2>2. CASE pc[c] = "backfill_scan"
    BY ZenonT(60), <2>2, SerialNow, LocalAt DEF Defining
  <2> QED
    BY <1>1, <2>1, <2>2
<1>3. \/ \E records : Return(c, records)
      \/ \E q, m : Goto(c, q, m) /\ q \in {"backfill", "add_text", "commit"}
  BY ZenonT(60) DEF BackfillScan, Backfill, BackfillDone
<1> QED
  BY SMTT(30), <1>1, <1>2, <1>3, OpsApart, IdleVector DEF Rebuilding

\* What Steady says of a statement.
Even(s) ==
  /\ s.op \in {"upsert", "update", "update_all"} => s.doc.vec \notin OddVecs
  /\ s.op = "batch" => \A k \in Keys : s.items[k] # NoDoc => s.items[k].vec \notin OddVecs

\* A write to storage: a record that differs is due, or new and without an
\* embedding for the index.
LEMMA WrittenVector ==
  ASSUME TypeInv, NEW c \in Conns, VectorExact(c), UNCHANGED <<catalog, registry, heap>>,
         stmt[c].op \in Writes, pc[c] \notin Rebuilding,
         NEW q, NEW m, Goto(c, q, m), q \notin Rebuilding,
         \A r \in Recs : "vector" \in catalog[r[1]] =>
           \/ docs'[r] = docs[r] /\ (VectorDue(pc[c], stmt[c], loc[c], r) => VectorDue(q, stmt[c], m, r))
           \/ VectorDue(q, stmt[c], m, r) /\ ~Odd(docs'[r])
           \/ /\ ~VectorDue(pc[c], stmt[c], loc[c], r)
              /\ Kept(docs'[r]) = Kept(docs[r])
  PROVE  VectorExact(c)'
<1> DEFINE s == stmt[c]
           p == pc[c]
<1>1. VectorsOK(p, s, loc[c], registry, heap, docs, catalog)
  BY DEF VectorExact
<1>2. ~DefinesVector(p, s) /\ ~DefinesVector(q, s)
  BY NothingDue, OpsApart
<1>3. \A r, held : ~Refilling(p, s, loc[c], r, docs, held)
  BY <1>2 DEF Refilling
<1>4. EntryOK(q, s, m, registry, heap)
  BY <1>2 DEF EntryOK
<1>5. EmbeddingsOK(q, s, m, docs')
  BY <1>2 DEF EmbeddingsOK, Rebuilding
<1>6. ASSUME NEW r \in Recs, "vector" \in catalog[r[1]], Entry(r, registry) # NoSlot
      PROVE  VectorSynced(r, q, s, m, registry, heap, docs')
  <2>1. \/ heap[Entry(r, registry)].vecs[r[2]] = Kept(docs[r])
        \/ VectorDue(p, s, loc[c], r) /\ ~Odd(docs[r])
    BY <1>1, <1>3, <1>6 DEF VectorsOK, VectorSynced
  <2> QED
    BY <1>6, <2>1 DEF VectorSynced
<1>7. VectorsOK(q, s, m, registry, heap, docs', catalog)
  BY <1>1, <1>2, <1>4, <1>5, <1>6 DEF VectorsOK
<1> QED
  BY <1>7, GotoVectorExact

LEMMA BatchWriteVectorExact ==
  ASSUME TypeInv, NEW c \in Conns, Serial(c), VectorExact(c), Even(stmt[c]), BatchWrite(c)
  PROVE  VectorExact(c)'
<1> DEFINE s == stmt[c]
           l == loc[c]
           m == [l EXCEPT !.rows = IF l.defs # {} THEN Targets(s) ELSE {}, !.touched = l.defs # {}]
<1>1. /\ pc[c] = "batch_write" /\ UNCHANGED <<catalog, registry, heap>> /\ Goto(c, "row", m)
      /\ docs' = [r \in Recs |-> IF r \in Targets(s) THEN s.items[r[2]] ELSE docs[r]]
  BY DEF BatchWrite, At, services
<1>2. /\ s \in Statement /\ s.op = "batch" /\ s.op \in Writes /\ l \in Local
      /\ WriteOK("batch_write", s, l, docs, catalog)
  <2>1. s \in Statement /\ s.op = "batch" /\ l \in Local
    BY <1>1, SerialNow, LocalAt
  <2> QED
    BY <1>1, <2>1, SerialNow DEF Writes
<1>3. l.rows = {} /\ l.defs = catalog[TableOf(s)]
  BY <1>2 DEF WriteOK
<1>4. m.rows = IF l.defs # {} THEN Targets(s) ELSE {}
  BY <1>2 DEF Local
<1> HIDE DEF m
<1>5. \A r : ~VectorDue("batch_write", s, l, r)
  BY <1>3, PointsApart DEF VectorDue
<1>6. ASSUME NEW r \in Targets(s), "vector" \in catalog[r[1]]
      PROVE  VectorDue("row", s, m, r) /\ ~Odd(docs'[r])
  <2>1. r[1] = TableOf(s) /\ r \in Recs
    BY <1>2, TargetsType
  <2>2. VectorDue("row", s, m, r)
    BY <1>2, <1>3, <1>4, <1>6, <2>1 DEF VectorDue
  <2>3. docs'[r] = s.items[r[2]] /\ r[2] \in Keys
    BY <1>1, <2>1 DEF Recs
  <2> QED
    BY <1>2, <2>2, <2>3 DEF Even, Odd
<1>7. \A r \in Recs \ Targets(s) : docs'[r] = docs[r]
  BY <1>1
<1>8. "row" \notin Rebuilding /\ "batch_write" \notin Rebuilding
  BY DEF Rebuilding
<1>9. \A r \in Recs : "vector" \in catalog[r[1]] =>
        \/ docs'[r] = docs[r] /\ (VectorDue(pc[c], s, l, r) => VectorDue("row", s, m, r))
        \/ VectorDue("row", s, m, r) /\ ~Odd(docs'[r])
        \/ /\ ~VectorDue(pc[c], s, l, r)
           /\ Kept(docs'[r]) = Kept(docs[r])
  BY <1>1, <1>5, <1>6, <1>7
<1>10. /\ TypeInv /\ VectorExact(c) /\ UNCHANGED <<catalog, registry, heap>> /\ s.op \in Writes
       /\ pc[c] \notin Rebuilding
  BY <1>1, <1>2, <1>8
<1> QED
  BY ONLY <1>1, <1>8, <1>9, <1>10, WrittenVector

LEMMA RowVectorExact ==
  ASSUME TypeInv, NEW c \in Conns, Serial(c), VectorExact(c), Even(stmt[c]), Row(c)
  PROVE  VectorExact(c)'
<1> DEFINE s == stmt[c]
           l == loc[c]
<1>1. pc[c] = "row" /\ "row" \notin Rebuilding
  BY DEF Row, At, Rebuilding
<1>2. s \in Statement /\ s.op \in Writes /\ l \in Local /\ WriteOK("row", s, l, docs, catalog)
  BY <1>1, SerialNow, LocalAt
<1>3. l.defs = catalog[TableOf(s)] /\ l.rows \subseteq Targets(s)
  BY <1>2 DEF WriteOK
<1>4. \A x : VectorDue("row", s, l, x) <=> s.op = "batch" /\ x \in l.rows
  BY <1>2, PointsApart DEF VectorDue
<1>5. CASE s.op = "create" /\ Fail(c)
  <2>1. Return(c, {}) /\ UNCHANGED <<docs, catalog, registry, heap>>
    BY <1>5 DEF Fail, durable, services
  <2> QED
    BY <1>1, <1>2, <1>4, <1>5, <2>1, WriterVectorReturn
<1>6. ASSUME NEW r \in l.rows, NEW m \in Local, m.rows = l.rows \ {r}, m.cur = r,
             UNCHANGED <<catalog, registry, heap>>, NEW q, Goto(c, q, m), q \notin Rebuilding,
             \A x \in Recs : x # r => docs'[x] = docs[x] /\ (s.op = "batch" => q # "idle"),
             "vector" \in catalog[r[1]] =>
               \/ docs'[r] = docs[r] /\ (VectorDue("row", s, l, r) => VectorDue(q, s, m, r))
               \/ VectorDue(q, s, m, r) /\ ~Odd(docs'[r])
               \/ ~VectorDue("row", s, l, r) /\ Kept(docs'[r]) = Kept(docs[r])
      PROVE  VectorExact(c)'
  <2>1. \A x \in Recs : x # r /\ VectorDue("row", s, l, x) => VectorDue(q, s, m, x)
    BY <1>2, <1>4, <1>6 DEF VectorDue
  <2>2. \A x \in Recs : "vector" \in catalog[x[1]] =>
          \/ docs'[x] = docs[x] /\ (VectorDue(pc[c], s, l, x) => VectorDue(q, s, m, x))
          \/ VectorDue(q, s, m, x) /\ ~Odd(docs'[x])
          \/ /\ ~VectorDue(pc[c], s, l, x)
             /\ Kept(docs'[x]) = Kept(docs[x])
    BY <1>1, <1>6, <2>1
  <2>3. /\ TypeInv /\ VectorExact(c) /\ UNCHANGED <<catalog, registry, heap>> /\ s.op \in Writes
        /\ pc[c] \notin Rebuilding /\ Goto(c, q, m) /\ q \notin Rebuilding
    BY <1>1, <1>2, <1>6
  <2> QED
    BY ONLY <2>2, <2>3, WrittenVector
<1>7. ASSUME NEW r \in l.rows, NEW m \in Local,
             m.defs = l.defs, m.rows = l.rows \ {r}, m.cur = r, UNCHANGED <<catalog, services>>,
             \/ /\ s.op \in {"create", "upsert", "update", "update_all"}
                /\ s.op = "create" => docs[r] = NoDoc
                /\ docs' = [docs EXCEPT ![r] = s.doc]
                /\ Goto(c, "reread", m)
             \/ /\ s.op \in {"delete", "delete_all"}
                /\ docs' = [docs EXCEPT ![r] = NoDoc]
                /\ Goto(c, "maintain", m)
                /\ m.todo = l.defs
             \/ /\ s.op = "batch"
                /\ docs' = docs
                /\ Goto(c, "reread", m)
             \/ /\ s.op \in {"update", "delete", "delete_all"}
                /\ docs' = docs
                /\ Goto(c, "row", m)
      PROVE  VectorExact(c)'
  <2>1. /\ r \in Recs /\ r[1] = TableOf(s) /\ UNCHANGED <<catalog, registry, heap>>
        /\ docs \in [Recs -> Doc \cup {NoDoc}]
    BY <1>2, <1>3, <1>7, TargetsType, SharedNow DEF services, SharedOK
  <2>2. "reread" \notin Rebuilding /\ "maintain" \notin Rebuilding
    BY DEF Rebuilding
  <2>3. CASE /\ s.op \in {"create", "upsert", "update", "update_all"}
             /\ s.op = "create" => docs[r] = NoDoc
             /\ docs' = [docs EXCEPT ![r] = s.doc] /\ Goto(c, "reread", m)
    <3>1. docs'[r] = s.doc /\ \A x \in Recs : x # r => docs'[x] = docs[x]
      BY <2>1, <2>3
    <3>2. VectorDue("reread", s, m, r) /\ ~VectorDue("row", s, l, r)
      BY <1>2, <1>4, <1>7, <2>3 DEF VectorDue
    <3>3. ~Odd(docs'[r]) \/ Kept(docs'[r]) = Kept(docs[r])
      <4>1. CASE s.op = "create"
        BY <2>3, <3>1, <4>1, ConstantsAssumption DEF Odd, Kept, Embedded
      <4>2. CASE s.op # "create"
        BY <2>3, <3>1, <4>2 DEF Even, Odd
      <4> QED
        BY <4>1, <4>2
    <3> QED
      BY <1>6, <1>7, <2>1, <2>2, <2>3, <3>1, <3>2, <3>3
  <2>4. CASE /\ s.op \in {"delete", "delete_all"} /\ docs' = [docs EXCEPT ![r] = NoDoc]
             /\ Goto(c, "maintain", m) /\ m.todo = l.defs
    <3>1. docs'[r] = NoDoc /\ \A x \in Recs : x # r => docs'[x] = docs[x]
      BY <2>1, <2>4
    <3>2. "vector" \in catalog[r[1]] => VectorDue("maintain", s, m, r)
      BY <1>2, <1>3, <1>7, <2>1, <2>4, PointsApart DEF VectorDue
    <3>3. ~Odd(docs'[r])
      BY <3>1 DEF Odd
    <3> QED
      BY <1>6, <1>7, <2>1, <2>2, <2>4, <3>1, <3>2, <3>3
  <2>5. CASE s.op = "batch" /\ docs' = docs /\ Goto(c, "reread", m)
    <3>1. VectorDue("reread", s, m, r)
      BY <1>2, <1>7 DEF VectorDue
    <3> QED
      BY <1>6, <1>7, <2>1, <2>2, <2>5, <3>1
  <2>6. CASE s.op \in {"update", "delete", "delete_all"} /\ docs' = docs /\ Goto(c, "row", m)
    BY <1>1, <1>4, <1>6, <1>7, <2>1, <2>6
  <2> QED
    BY <1>7, <2>3, <2>4, <2>5, <2>6
<1> QED
  BY ZenonT(60), <1>5, <1>7, RowCases

\* Names other than n keep their entries, with their flags and vectors.
Elsewhere(n, reg, h, reg2, h2) ==
  \A k \in Names \ {n} :
    /\ reg2[k] = reg[k]
    /\ reg[k] # NoSlot =>
         /\ h2[reg[k]].loaded = h[reg[k]].loaded
         /\ \A j \in Keys : h2[reg[k]].vecs[j] = h[reg[k]].vecs[j]

LEMMA DueHere ==
  ASSUME TypeInv, NEW c \in Conns, Serial(c), pc[c] # "idle",
         NEW r \in Recs, VectorDue(pc[c], stmt[c], loc[c], r)
  PROVE  r[1] = TableOf(stmt[c])
<1>1. /\ stmt[c] \in Statement /\ stmt[c].op \in Writes
      /\ WriteOK(pc[c], stmt[c], loc[c], docs, catalog)
  BY SerialNow DEF VectorDue
<1>2. r \in Targets(stmt[c])
  <2>1. CASE r \in loc[c].rows
    BY <1>1, <2>1 DEF WriteOK
  <2>2. CASE r = loc[c].cur /\ pc[c] \in Maintaining \cup {"reread"}
    BY <1>1, <2>2 DEF WriteOK
  <2> QED
    BY <2>1, <2>2, PointsApart DEF VectorDue
<1> QED
  BY <1>1, <1>2, TargetsType

\* Another table is not what a rebuild, a backfill or a write is about.
LEMMA OtherTable ==
  ASSUME TypeInv, NEW c \in Conns, Serial(c), VectorExact(c), OwnNames, pc[c] # "idle",
         docs' = docs, \A u \in Tables : u # TableOf(stmt[c]) => catalog'[u] = catalog[u],
         Elsewhere(Name(c), registry, heap, registry', heap')
  PROVE  /\ \A u \in Tables : u # TableOf(stmt[c]) =>
              ("vector" \in catalog'[u] /\ registry'[VectorName[u]] # NoSlot =>
                 heap'[registry'[VectorName[u]]].loaded)
         /\ \A r \in Recs : r[1] # TableOf(stmt[c]) =>
              ("vector" \in catalog'[r[1]] /\ Entry(r, registry') # NoSlot =>
                 heap'[Entry(r, registry')].vecs[r[2]] = Kept(docs'[r]))
<1> DEFINE s == stmt[c]
           t == TableOf(s)
<1>1. VectorsOK(pc[c], s, loc[c], registry, heap, docs, catalog) /\ t \in Tables
  BY SerialNow DEF VectorExact
<1>2. \A u \in Tables : VectorName[u] \in Names /\ (u # t => VectorName[u] # Name(c))
  BY <1>1 DEF OwnNames, Names, Name
<1>3. \A r \in Recs : r[1] \in Tables /\ r[2] \in Keys
  BY DEF Recs
<1>4. ASSUME NEW u \in Tables, u # t, "vector" \in catalog'[u], registry'[VectorName[u]] # NoSlot
      PROVE  heap'[registry'[VectorName[u]]].loaded
  <2>1. registry'[VectorName[u]] = registry[VectorName[u]] /\ "vector" \in catalog[u]
    BY <1>2, <1>4 DEF Elsewhere
  <2>2. heap[registry[VectorName[u]]].loaded
    BY <1>1, <1>4, <2>1 DEF VectorsOK
  <2> QED
    BY <1>2, <1>4, <2>1, <2>2 DEF Elsewhere
<1>5. ASSUME NEW r \in Recs, r[1] # t, "vector" \in catalog'[r[1]], Entry(r, registry') # NoSlot
      PROVE  heap'[Entry(r, registry')].vecs[r[2]] = Kept(docs'[r])
  <2>1. Entry(r, registry') = Entry(r, registry) /\ "vector" \in catalog[r[1]]
    BY <1>2, <1>3, <1>5 DEF Elsewhere, Entry
  <2>2. VectorSynced(r, pc[c], s, loc[c], registry, heap, docs)
    BY <1>1, <1>5, <2>1 DEF VectorsOK
  <2>3. ~VectorDue(pc[c], s, loc[c], r) /\ \A held : ~Refilling(pc[c], s, loc[c], r, docs, held)
    BY <1>5, DueHere DEF Refilling
  <2>4. heap[Entry(r, registry)].vecs[r[2]] = Kept(docs[r])
    BY <2>2, <2>3 DEF VectorSynced
  <2>5. heap'[Entry(r, registry)].vecs[r[2]] = heap[Entry(r, registry)].vecs[r[2]]
    BY <1>2, <1>3, <1>5, <2>1 DEF Elsewhere, Entry
  <2> QED
    BY <2>1, <2>4, <2>5
<1> QED
  BY <1>4, <1>5

\* A step about the index of the statement's table.
LEMMA TableVector ==
  ASSUME TypeInv, NEW c \in Conns, Serial(c), VectorExact(c), OwnNames, pc[c] # "idle",
         docs' = docs, \A u \in Tables : u # TableOf(stmt[c]) => catalog'[u] = catalog[u],
         Elsewhere(Name(c), registry, heap, registry', heap'),
         NEW q, NEW m, Goto(c, q, m), OneName(registry'),
         EntryOK(q, stmt[c], m, registry', heap'), EmbeddingsOK(q, stmt[c], m, docs),
         \/ q \in Rebuilding \/ DefinesVector(q, stmt[c])
         \/ registry'[Name(c)] = NoSlot \/ heap'[registry'[Name(c)]].loaded,
         \A r \in Recs : r[1] = TableOf(stmt[c]) /\ registry'[Name(c)] # NoSlot =>
           VectorSynced(r, q, stmt[c], m, registry', heap', docs)
  PROVE  VectorExact(c)'
<1> DEFINE s == stmt[c]
           t == TableOf(s)
<1>1. \A u \in Tables : "vector" \in catalog'[u] /\ registry'[VectorName[u]] # NoSlot =>
        \/ heap'[registry'[VectorName[u]]].loaded
        \/ (q \in Rebuilding \/ DefinesVector(q, s)) /\ u = t
  BY OtherTable DEF Name
<1>2. ASSUME NEW r \in Recs, "vector" \in catalog'[r[1]], Entry(r, registry') # NoSlot
      PROVE  VectorSynced(r, q, s, m, registry', heap', docs)
  <2>1. CASE r[1] = t
    BY <1>2, <2>1 DEF Entry, Name
  <2>2. CASE r[1] # t
    BY <1>2, <2>2, OtherTable DEF VectorSynced
  <2> QED
    BY <2>1, <2>2
<1>3. VectorsOK(q, s, m, registry', heap', docs', catalog')
  BY <1>1, <1>2 DEF VectorsOK
<1> QED
  BY <1>3, GotoVectorExact

\* The same at the end of a statement.
LEMMA TableVectorSettled ==
  ASSUME TypeInv, NEW c \in Conns, Serial(c), VectorExact(c), OwnNames, pc[c] # "idle",
         docs' = docs, \A u \in Tables : u # TableOf(stmt[c]) => catalog'[u] = catalog[u],
         Elsewhere(Name(c), registry, heap, registry', heap'),
         NEW records, Return(c, records), OneName(registry'),
         registry'[Name(c)] = NoSlot \/ heap'[registry'[Name(c)]].loaded,
         \A r \in Recs : r[1] = TableOf(stmt[c]) /\ registry'[Name(c)] # NoSlot =>
           heap'[Entry(r, registry')].vecs[r[2]] = Kept(docs[r])
  PROVE  VectorExact(c)'
<1> DEFINE t == TableOf(stmt[c])
<1>1. \A u \in Tables : "vector" \in catalog'[u] /\ registry'[VectorName[u]] # NoSlot =>
        heap'[registry'[VectorName[u]]].loaded
  BY OtherTable DEF Name
<1>2. ASSUME NEW r \in Recs, "vector" \in catalog'[r[1]], Entry(r, registry') # NoSlot
      PROVE  heap'[Entry(r, registry')].vecs[r[2]] = Kept(docs'[r])
  <2>1. CASE r[1] = t
    BY <1>2, <2>1 DEF Entry, Name
  <2>2. CASE r[1] # t
    BY <1>2, <2>2, OtherTable
  <2> QED
    BY <2>1, <2>2
<1>3. VectorSettled(registry', heap', docs', catalog')
  BY <1>1, <1>2 DEF VectorSettled
<1> QED
  BY <1>3, ReturnVectorExact

-----------------------------------------------------------------------------
(* ensure_vector_loaded *)

LEMMA LoadingNow ==
  ASSUME TypeInv, NEW c \in Conns, Serial(c), VectorExact(c), pc[c] \in Loading
  PROVE  /\ stmt[c] \in Statement /\ TableOf(stmt[c]) \in Tables /\ Name(c) \in Names
         /\ loc[c] \in Local /\ pc[c] # "idle" /\ "vector" \in catalog[TableOf(stmt[c])]
         /\ \/ stmt[c].op \in Writes /\ loc[c].ret = "insert_vector"
            \/ stmt[c].op = "search" /\ loc[c].ret = "find"
         /\ OneName(registry) /\ EntryOK(pc[c], stmt[c], loc[c], registry, heap)
         /\ EmbeddingsOK(pc[c], stmt[c], loc[c], docs)
         /\ pc[c] \in Rebuilding => loc[c].ent \in Slots /\ registry[Name(c)] = loc[c].ent
         /\ \A q : ~DefinesVector(q, stmt[c])
<1> DEFINE s == stmt[c]
           l == loc[c]
<1>1. pc[c] \in VectorPending /\ pc[c] # "idle"
  BY PointsApart
<1>2. /\ s \in Statement /\ l \in Local /\ LocalOK(pc[c], s, l)
      /\ s.op \in Writes => WriteOK(pc[c], s, l, docs, catalog)
      /\ s.op = "search" => SearchOK(pc[c], s, l, catalog)
  BY <1>1, SerialNow
<1>3. TableOf(s) \in Tables /\ Name(c) \in Names
  BY <1>2, TargetsType DEF Name
<1>4. LoadingOK(s, l) /\ (pc[c] \in Rebuilding => l.ent \in Slots)
  BY <1>2 DEF LocalOK
<1>5. "vector" \in catalog[TableOf(s)]
  <2>1. CASE s.op \in Writes
    BY <1>1, <1>2, <2>1, PointsApart DEF WriteOK
  <2>2. CASE s.op = "search"
    <3>1. TableOf(s) = s.table
      BY <1>2, <2>2, TargetsType
    <3> QED
      BY <1>2, <2>2, <3>1 DEF SearchOK
  <2> QED
    BY <1>4, <2>1, <2>2 DEF LoadingOK
<1>6. VectorsOK(pc[c], s, l, registry, heap, docs, catalog)
  BY DEF VectorExact
<1>7. OneName(registry) /\ EntryOK(pc[c], s, l, registry, heap) /\ EmbeddingsOK(pc[c], s, l, docs)
  BY <1>6 DEF VectorsOK
<1>8. \A q : ~DefinesVector(q, s)
  BY <1>4, NothingDue, OpsApart DEF LoadingOK
<1> QED
  BY <1>1, <1>2, <1>3, <1>4, <1>5, <1>7, <1>8 DEF LoadingOK, EntryOK, Name

\* The state of the record's embedding in the statement's index.
LEMMA HereSynced ==
  ASSUME TypeInv, NEW c \in Conns, VectorExact(c), "vector" \in catalog[TableOf(stmt[c])],
         NEW r \in Recs, r[1] = TableOf(stmt[c]), registry[Name(c)] # NoSlot
  PROVE  /\ Entry(r, registry) = registry[Name(c)] /\ registry[Name(c)] \in Slots
         /\ VectorSynced(r, pc[c], stmt[c], loc[c], registry, heap, docs)
<1>1. Entry(r, registry) = registry[Name(c)]
  BY DEF Entry, Name
<1>2. registry[Name(c)] \in Slots
  BY EntryNamed, SharedNow DEF SharedOK, Name
<1> QED
  BY <1>1, <1>2 DEF VectorExact, VectorsOK

\* A call of ensure_vector_loaded: what is due stays due.
LEMMA LoadingDue ==
  ASSUME NEW p \in Loading, NEW s, NEW l, NEW m, NEW r, m.rows = l.rows, m.cur = l.cur,
         \/ s.op \in Writes /\ l.ret = "insert_vector"
         \/ s.op = "search" /\ l.ret = "find",
         NEW q \in Loading \cup {l.ret}, VectorDue(p, s, l, r)
  PROVE  VectorDue(q, s, m, r)
<1>1. s.op \in Writes /\ l.ret = "insert_vector"
  BY OpsApart DEF VectorDue
<1>2. q \in VectorPending /\ q # "idle"
  BY <1>1 DEF VectorPending, Loading, Rebuilding
<1>3. p \in VectorPending /\ p # "reread"
  BY PointsApart
<1> QED
  BY <1>1, <1>2, <1>3 DEF VectorDue

\* An allocation for a name: a new entry that nobody else has.
LEMMA Allocated ==
  ASSUME TypeInv, NEW n \in Names, NEW f \in Slots, Allocate(n, f), OneName(registry)
  PROVE  /\ registry'[n] = f /\ heap'[f] = NewEntry /\ f # NoSlot
         /\ OneName(registry') /\ Elsewhere(n, registry, heap, registry', heap')
<1>1. /\ registry \in [Names -> Slots \cup {NoSlot}] /\ heap \in [Slots -> VectorEntry]
      /\ Released(n) \in [Slots -> VectorEntry]
  BY SharedNow, ReleasedType DEF SharedOK
<1>2. /\ registry' = [registry EXCEPT ![n] = f] /\ heap' = [Released(n) EXCEPT ![f] = NewEntry]
      /\ \A k \in Names : registry[k] # f
  BY DEF Allocate, FreeSlots
<1>3. f # NoSlot
  BY ConstantsAssumption
<1>4. \A k \in Names : registry'[k] = IF k = n THEN f ELSE registry[k]
  BY <1>1, <1>2
<1>5. \A g \in Slots : heap'[g] = IF g = f THEN NewEntry ELSE Released(n)[g]
  BY <1>1, <1>2
<1>6. \A g \in Slots : g # registry[n] => Released(n)[g] = heap[g]
  BY <1>1 DEF Released
<1>7. OneName(registry')
  BY <1>2, <1>4 DEF OneName
<1>8. ASSUME NEW k \in Names \ {n}
      PROVE  registry'[k] = registry[k] /\ (registry[k] # NoSlot => heap'[registry[k]] = heap[registry[k]])
  <2>1. registry[k] # NoSlot => registry[k] \in Slots /\ registry[k] # registry[n] /\ registry[k] # f
    BY <1>1, <1>2, <1>8 DEF OneName
  <2> QED
    BY <1>4, <1>5, <1>6, <1>8, <2>1
<1>9. Elsewhere(n, registry, heap, registry', heap')
  BY <1>8 DEF Elsewhere
<1> QED
  BY <1>3, <1>4, <1>5, <1>7, <1>9

LEMMA EnsureVectorExact ==
  ASSUME TypeInv, NEW c \in Conns, Serial(c), VectorExact(c), OwnNames, EnsureVector(c)
  PROVE  VectorExact(c)'
<1> DEFINE s == stmt[c]
           l == loc[c]
           e == registry[Name(c)]
           t == TableOf(s)
<1>1. /\ pc[c] = "ensure_vector" /\ pc[c] \in Loading /\ pc[c] \notin Rebuilding
      /\ UNCHANGED <<docs, catalog>>
  BY DEF EnsureVector, At, Loading, Rebuilding, durable
<1>2. /\ s \in Statement /\ t \in Tables /\ Name(c) \in Names /\ l \in Local /\ pc[c] # "idle"
      /\ "vector" \in catalog[t] /\ OneName(registry) /\ \A q : ~DefinesVector(q, s)
      /\ \/ s.op \in Writes /\ l.ret = "insert_vector"
         \/ s.op = "search" /\ l.ret = "find"
  BY <1>1, LoadingNow
<1>3. CASE e # NoSlot
  <2>1. heap[e].loaded
    <3>1. VectorsOK(pc[c], s, l, registry, heap, docs, catalog)
      BY DEF VectorExact
    <3> QED
      BY <1>1, <1>2, <1>3, <3>1 DEF VectorsOK, Name
  <2>2. Goto(c, l.ret, l) /\ UNCHANGED <<registry, heap>>
    BY <1>3, <2>1 DEF EnsureVector, services
  <2>3. \A r : VectorDue(pc[c], s, l, r) => VectorDue(l.ret, s, l, r)
    BY <1>1, <1>2, LoadingDue
  <2>4. l.ret \notin Rebuilding
    BY <1>2 DEF Rebuilding
  <2> QED
    BY <1>1, <1>2, <2>2, <2>3, <2>4, VectorMove
<1>4. CASE e = NoSlot
  <2>1. PICK f \in Slots : /\ Allocate(Name(c), f)
                           /\ Goto(c, "rebuild_lock", [l EXCEPT !.ent = f])
    BY <1>4 DEF EnsureVector
  <2> DEFINE m == [l EXCEPT !.ent = f]
             q == "rebuild_lock"
  <2>2. m.ent = f /\ m.rows = l.rows /\ m.cur = l.cur /\ Goto(c, q, m)
    BY <1>2, <2>1 DEF Local
  <2> HIDE DEF m
  <2>3. /\ registry'[Name(c)] = f /\ heap'[f] = NewEntry /\ f # NoSlot
        /\ OneName(registry') /\ Elsewhere(Name(c), registry, heap, registry', heap')
    BY <1>2, <2>1, Allocated
  <2>4. EntryOK(q, s, m, registry', heap')
    BY <1>2, <2>2, <2>3 DEF EntryOK, Name, NewEntry
  <2>5. EmbeddingsOK(q, s, m, docs)
    BY DEF EmbeddingsOK
  <2>6. ASSUME NEW r \in Recs, r[1] = t PROVE VectorSynced(r, q, s, m, registry', heap', docs)
    <3>1. Entry(r, registry') = f /\ r[2] \in Keys
      BY <2>3, <2>6 DEF Entry, Name, Recs
    <3>2. heap'[f].vecs[r[2]] = None
      BY <2>3, <3>1 DEF NewEntry
    <3>3. Refilling(q, s, m, r, docs, None)
      BY <2>6 DEF Refilling, Rebuilding
    <3> QED
      BY <3>1, <3>2, <3>3 DEF VectorSynced
  <2>7. q \in Rebuilding
    BY DEF Rebuilding
  <2>8. docs' = docs /\ (\A u \in Tables : u # t => catalog'[u] = catalog[u])
    BY <1>1
  <2> QED
    BY <1>2, <2>2, <2>3, <2>4, <2>5, <2>6, <2>7, <2>8, TableVector
<1> QED
  BY <1>3, <1>4

LEMMA RebuildLockExact ==
  ASSUME TypeInv, NEW c \in Conns, Serial(c), VectorExact(c), OwnNames, RebuildLock(c)
  PROVE  VectorExact(c)'
<1> DEFINE s == stmt[c]
           l == loc[c]
           e == registry[Name(c)]
           t == TableOf(s)
           q == "rebuild_scan"
<1>1. /\ pc[c] = "rebuild_lock" /\ pc[c] \in Loading /\ pc[c] \in Rebuilding
      /\ UNCHANGED <<docs, catalog>>
  BY DEF RebuildLock, At, Loading, Rebuilding, durable
<1>2. /\ s \in Statement /\ t \in Tables /\ Name(c) \in Names /\ l \in Local /\ pc[c] # "idle"
      /\ "vector" \in catalog[t] /\ OneName(registry) /\ l.ent \in Slots /\ e = l.ent
      /\ EntryOK(pc[c], s, l, registry, heap)
      /\ \/ s.op \in Writes /\ l.ret = "insert_vector"
         \/ s.op = "search" /\ l.ret = "find"
  BY <1>1, LoadingNow
<1>3. ~heap[e].loaded
  BY <1>1, <1>2 DEF EntryOK, Name
<1>4. heap' = [heap EXCEPT ![e].lock = c] /\ Goto(c, q, l) /\ registry' = registry
  BY <1>2, <1>3 DEF RebuildLock
<1>5. \A g \in Slots : heap'[g].loaded = heap[g].loaded /\ heap'[g].vecs = heap[g].vecs
  BY <1>2, <1>4, SharedNow DEF SharedOK, VectorEntry
<1>6. registry \in [Names -> Slots \cup {NoSlot}]
  BY SharedNow DEF SharedOK
<1>7. Elsewhere(Name(c), registry, heap, registry', heap')
  BY <1>4, <1>5, <1>6 DEF Elsewhere
<1>8. EntryOK(q, s, l, registry', heap')
  BY <1>1, <1>2, <1>4, <1>5 DEF EntryOK, Rebuilding, DefinesVector, Name
<1>9. EmbeddingsOK(q, s, l, docs)
  BY DEF EmbeddingsOK
<1>10. ASSUME NEW r \in Recs, r[1] = t, e # NoSlot
       PROVE  VectorSynced(r, q, s, l, registry', heap', docs)
  <2>1. /\ Entry(r, registry) = e /\ e \in Slots
        /\ VectorSynced(r, pc[c], s, l, registry, heap, docs)
    BY <1>2, <1>10, HereSynced
  <2>2. heap'[e].vecs[r[2]] = heap[e].vecs[r[2]]
    BY <1>5, <2>1
  <2>3. VectorDue(pc[c], s, l, r) => VectorDue(q, s, l, r)
    BY <1>1, <1>2, LoadingDue DEF Loading, Rebuilding
  <2>4. \A held : Refilling(pc[c], s, l, r, docs, held) => Refilling(q, s, l, r, docs, held)
    BY <1>1 DEF Refilling, Rebuilding
  <2> QED
    BY <1>4, <2>1, <2>2, <2>3, <2>4 DEF VectorSynced
<1>11. q \in Rebuilding
  BY DEF Rebuilding
<1>12. docs' = docs /\ OneName(registry') /\ registry'[Name(c)] = e
       /\ (\A u \in Tables : u # t => catalog'[u] = catalog[u])
  BY <1>1, <1>2, <1>4
<1> QED
  BY <1>2, <1>4, <1>7, <1>8, <1>9, <1>10, <1>11, <1>12, TableVector

\* The points with embeddings still to insert.
Fills(p, s) == p = "rebuild_insert" \/ (p = "backfill" /\ DefinesVector(p, s))

\* A scan finds every embedding, and no other.
LEMMA ScannedEmbeddings ==
  ASSUME TypeInv, NEW s, TableOf(s) \in Tables, NEW q, Fills(q, s),
         NEW m, m.fill = Embeddings(TableOf(s))
  PROVE  /\ EmbeddingsOK(q, s, m, docs)
         /\ \A r \in Recs : r[1] = TableOf(s) =>
              Kept(docs[r]) = None \/ Refilling(q, s, m, r, docs, None)
<1> DEFINE t == TableOf(s)
<1>1. SharedOK
  BY SharedNow
<1>2. ASSUME NEW g \in Embeddings(t)
      PROVE  docs[<<t, g[1]>>] # NoDoc /\ docs[<<t, g[1]>>].vec = g[2]
  <2> DEFINE r == <<t, g[1]>>
  <2>1. g[1] \in Keys
    BY <1>1, EmbeddingsType
  <2>2. r \in Recs /\ r[1] = t /\ r[2] = g[1]
    BY <2>1 DEF Recs
  <2> HIDE DEF r
  <2>3. docs[r] # NoDoc /\ g[2] = docs[r].vec
    BY <1>1, <2>2, EmbeddingsOf
  <2> QED
    BY <2>3 DEF r
<1>3. EmbeddingsOK(q, s, m, docs)
  BY <1>2 DEF EmbeddingsOK
<1>4. ASSUME NEW r \in Recs, r[1] = t, Kept(docs[r]) # None
      PROVE  Refilling(q, s, m, r, docs, None)
  <2>1. Embedded(docs[r])
    BY <1>4 DEF Kept
  <2>2. <<r[2], docs[r].vec>> \in m.fill
    BY <1>1, <1>4, <2>1, EmbeddingsOf
  <2> QED
    BY <1>4, <2>1, <2>2 DEF Refilling, Fills, Embedded, Rebuilding
<1> QED
  BY <1>3, <1>4

\* The next embedding is inserted: its record has it then, the others are as before.
LEMMA FilledEmbeddings ==
  ASSUME TypeInv, NEW c \in Conns, stmt[c] \in Statement, loc[c] \in Local, Fills(pc[c], stmt[c]),
         EmbeddingsOK(pc[c], stmt[c], loc[c], docs), OneName(registry), registry' = registry,
         registry[Name(c)] # NoSlot,
         NEW f \in loc[c].fill, heap' = Inserted(Name(c), f[1], f[2]),
         NEW m, m.fill = loc[c].fill \ {f}
  PROVE  /\ EmbeddingsOK(pc[c], stmt[c], m, docs)
         /\ Elsewhere(Name(c), registry, heap, registry', heap')
         /\ \A g \in Slots : heap'[g].loaded = heap[g].loaded
         /\ \A r \in Recs : r[1] = TableOf(stmt[c]) =>
              LET held == heap[registry[Name(c)]].vecs[r[2]]
                  now == heap'[registry[Name(c)]].vecs[r[2]]
              IN  held = Kept(docs[r]) \/ Refilling(pc[c], stmt[c], loc[c], r, docs, held) =>
                    now = Kept(docs[r]) \/ Refilling(pc[c], stmt[c], m, r, docs, now)
<1> DEFINE s == stmt[c]
           l == loc[c]
           t == TableOf(s)
           e == registry[Name(c)]
           p == pc[c]
<1>1. SharedOK /\ t \in Tables /\ Name(c) \in Names /\ e \in Slots
  BY SharedNow, TargetsType DEF SharedOK, Name
<1>2. f[1] \in Keys /\ f = <<f[1], f[2]>>
  BY LocalFields
<1>3. \A g \in Slots :
        /\ heap'[g].loaded = heap[g].loaded
        /\ \A j \in Keys : heap'[g].vecs[j] = IF g = e /\ f[2] \in Vecs /\ j = f[1] THEN f[2]
                                              ELSE heap[g].vecs[j]
  BY <1>1, <1>2, InsertedAt
<1>4. EmbeddingsOK(p, s, m, docs)
  BY DEF EmbeddingsOK
<1>5. Elsewhere(Name(c), registry, heap, registry', heap')
  <2>1. \A k \in Names \ {Name(c)} : registry[k] # NoSlot => registry[k] \in Slots /\ registry[k] # e
    BY <1>1 DEF SharedOK, OneName
  <2> QED
    BY <1>3, <2>1 DEF Elsewhere
<1>6. ASSUME NEW r \in Recs, r[1] = t,
             \/ heap[e].vecs[r[2]] = Kept(docs[r])
             \/ Refilling(p, s, l, r, docs, heap[e].vecs[r[2]])
      PROVE  \/ heap'[e].vecs[r[2]] = Kept(docs[r])
             \/ Refilling(p, s, m, r, docs, heap'[e].vecs[r[2]])
  <2>1. r[2] \in Keys /\ r = <<t, r[2]>>
    BY <1>6 DEF Recs
  <2>2. heap'[e].vecs[r[2]] = IF f[2] \in Vecs /\ r[2] = f[1] THEN f[2] ELSE heap[e].vecs[r[2]]
    BY <1>1, <1>3, <2>1
  <2>3. CASE r[2] = f[1]
    <3>1. docs[r] # NoDoc /\ docs[r].vec = f[2]
      BY <2>1, <2>3 DEF EmbeddingsOK, Fills
    <3>2. CASE f[2] \in Vecs
      BY <2>2, <2>3, <3>1, <3>2 DEF Kept, Embedded
    <3>3. CASE f[2] \notin Vecs
      <4>1. Kept(docs[r]) = None
        BY <3>1, <3>3 DEF Kept, Embedded
      <4>2. heap[e].vecs[r[2]] = None
        BY <1>6, <4>1 DEF Refilling, Fills, DefinesVector
      <4> QED
        BY <2>2, <3>3, <4>1, <4>2
    <3> QED
      BY <3>2, <3>3
  <2>4. CASE r[2] # f[1]
    <3>1. heap'[e].vecs[r[2]] = heap[e].vecs[r[2]] /\ <<r[2], docs[r].vec>> # f
      BY <1>2, <2>2, <2>4
    <3>2. CASE Refilling(p, s, l, r, docs, heap[e].vecs[r[2]])
      <4>1. Refilling(p, s, m, r, docs, heap[e].vecs[r[2]])
        BY <3>1, <3>2 DEF Refilling
      <4> QED
        BY <3>1, <4>1
    <3> QED
      BY <1>6, <3>1, <3>2
  <2> QED
    BY <2>3, <2>4
<1> QED
  BY <1>3, <1>4, <1>5, <1>6

LEMMA RebuildScanExact ==
  ASSUME TypeInv, NEW c \in Conns, Serial(c), VectorExact(c), OwnNames, RebuildScan(c)
  PROVE  VectorExact(c)'
<1> DEFINE s == stmt[c]
           l == loc[c]
           e == registry[Name(c)]
           t == TableOf(s)
           q == "rebuild_insert"
           m == [l EXCEPT !.fill = Embeddings(t)]
<1>1. /\ pc[c] = "rebuild_scan" /\ pc[c] \in Loading /\ pc[c] \in Rebuilding
      /\ UNCHANGED <<docs, catalog, registry, heap>> /\ Goto(c, q, m)
  BY DEF RebuildScan, At, Loading, Rebuilding, durable, services
<1>2. /\ s \in Statement /\ t \in Tables /\ Name(c) \in Names /\ l \in Local /\ pc[c] # "idle"
      /\ "vector" \in catalog[t] /\ OneName(registry) /\ e = l.ent
      /\ EntryOK(pc[c], s, l, registry, heap)
      /\ \/ s.op \in Writes /\ l.ret = "insert_vector"
         \/ s.op = "search" /\ l.ret = "find"
  BY <1>1, LoadingNow
<1>3. m.fill = Embeddings(t) /\ m.ent = l.ent /\ m.rows = l.rows /\ m.cur = l.cur
  BY <1>2 DEF Local
<1> HIDE DEF m
<1>4. /\ EmbeddingsOK(q, s, m, docs)
      /\ \A r \in Recs : r[1] = t => Kept(docs[r]) = None \/ Refilling(q, s, m, r, docs, None)
  BY <1>2, <1>3, ScannedEmbeddings DEF Fills
<1>5. EntryOK(q, s, m, registry', heap')
  BY <1>1, <1>2, <1>3 DEF EntryOK, Rebuilding, DefinesVector, Name
<1>6. Elsewhere(Name(c), registry, heap, registry', heap')
  BY <1>1 DEF Elsewhere
<1>7. ASSUME NEW r \in Recs, r[1] = t, e # NoSlot
      PROVE  VectorSynced(r, q, s, m, registry', heap', docs)
  <2>1. Entry(r, registry) = e /\ VectorSynced(r, pc[c], s, l, registry, heap, docs)
    BY <1>2, <1>7, HereSynced
  <2>2. VectorDue(pc[c], s, l, r) => VectorDue(q, s, m, r)
    BY <1>1, <1>2, <1>3, LoadingDue DEF Loading, Rebuilding
  <2>3. \A held : Refilling(pc[c], s, l, r, docs, held) => held = None
    BY <1>1 DEF Refilling
  <2> QED
    BY <1>1, <1>4, <1>7, <2>1, <2>2, <2>3 DEF VectorSynced
<1>8. q \in Rebuilding
  BY DEF Rebuilding
<1>9. docs' = docs /\ OneName(registry') /\ registry'[Name(c)] = e
      /\ (\A u \in Tables : u # t => catalog'[u] = catalog[u])
  BY <1>1, <1>2
<1> QED
  BY <1>1, <1>2, <1>4, <1>5, <1>6, <1>7, <1>8, <1>9, TableVector

LEMMA RebuildInsertExact ==
  ASSUME TypeInv, NEW c \in Conns, Serial(c), VectorExact(c), OwnNames, RebuildInsert(c)
  PROVE  VectorExact(c)'
<1> DEFINE s == stmt[c]
           l == loc[c]
           e == registry[Name(c)]
           t == TableOf(s)
           q == "rebuild_insert"
<1>1. /\ pc[c] = q /\ pc[c] \in Loading /\ pc[c] \in Rebuilding
      /\ UNCHANGED <<docs, catalog, registry>>
  BY DEF RebuildInsert, At, Loading, Rebuilding, durable
<1>2. PICK f \in l.fill : /\ heap' = Inserted(Name(c), f[1], f[2])
                          /\ Goto(c, q, [l EXCEPT !.fill = l.fill \ {f}])
  BY DEF RebuildInsert
<1> DEFINE m == [l EXCEPT !.fill = l.fill \ {f}]
<1>3. /\ s \in Statement /\ t \in Tables /\ Name(c) \in Names /\ l \in Local /\ pc[c] # "idle"
      /\ "vector" \in catalog[t] /\ OneName(registry) /\ e = l.ent /\ e \in Slots
      /\ EntryOK(pc[c], s, l, registry, heap) /\ EmbeddingsOK(pc[c], s, l, docs)
      /\ \/ s.op \in Writes /\ l.ret = "insert_vector"
         \/ s.op = "search" /\ l.ret = "find"
  BY <1>1, LoadingNow
<1>4. m.fill = l.fill \ {f} /\ m.ent = l.ent /\ m.rows = l.rows /\ m.cur = l.cur
  BY <1>3 DEF Local
<1>5. Goto(c, q, m)
  BY <1>2
<1> HIDE DEF m
<1>6. e # NoSlot /\ Fills(pc[c], s)
  BY SMTT(30), <1>1, <1>3, ConstantsAssumption DEF Fills
<1>7. /\ EmbeddingsOK(pc[c], s, m, docs)
      /\ Elsewhere(Name(c), registry, heap, registry', heap')
      /\ \A g \in Slots : heap'[g].loaded = heap[g].loaded
      /\ \A r \in Recs : r[1] = t =>
           LET held == heap[e].vecs[r[2]]
               now == heap'[e].vecs[r[2]]
           IN  held = Kept(docs[r]) \/ Refilling(pc[c], s, l, r, docs, held) =>
                 now = Kept(docs[r]) \/ Refilling(pc[c], s, m, r, docs, now)
  BY <1>1, <1>2, <1>3, <1>4, <1>6, FilledEmbeddings
<1>8. EntryOK(q, s, m, registry', heap')
  BY <1>1, <1>3, <1>4, <1>7 DEF EntryOK, Name
<1>9. ASSUME NEW r \in Recs, r[1] = t
      PROVE  VectorSynced(r, q, s, m, registry', heap', docs)
  <2>1. Entry(r, registry) = e /\ VectorSynced(r, pc[c], s, l, registry, heap, docs)
    BY <1>3, <1>6, <1>9, HereSynced
  <2>2. VectorDue(pc[c], s, l, r) => VectorDue(q, s, m, r)
    BY <1>1, <1>3, <1>4, LoadingDue
  <2> QED
    BY <1>1, <1>7, <1>9, <2>1, <2>2 DEF VectorSynced
<1>10. docs' = docs /\ OneName(registry') /\ registry'[Name(c)] = e
       /\ (\A u \in Tables : u # t => catalog'[u] = catalog[u])
  BY SMTT(30), <1>1, <1>3
<1> QED
  BY <1>1, <1>3, <1>5, <1>7, <1>8, <1>9, <1>10, TableVector

LEMMA RebuildDoneExact ==
  ASSUME TypeInv, NEW c \in Conns, Serial(c), VectorExact(c), OwnNames, RebuildDone(c)
  PROVE  VectorExact(c)'
<1> DEFINE s == stmt[c]
           l == loc[c]
           e == registry[Name(c)]
           t == TableOf(s)
           q == l.ret
           m == [l EXCEPT !.ent = NoSlot]
<1>1. /\ pc[c] = "rebuild_insert" /\ pc[c] \in Loading /\ pc[c] \in Rebuilding
      /\ UNCHANGED <<docs, catalog, registry>> /\ l.fill = {} /\ Goto(c, q, m)
      /\ heap' = [heap EXCEPT ![l.ent].loaded = TRUE, ![l.ent].lock = NoConn]
  BY DEF RebuildDone, At, Loading, Rebuilding, durable
<1>2. /\ s \in Statement /\ t \in Tables /\ Name(c) \in Names /\ l \in Local /\ pc[c] # "idle"
      /\ "vector" \in catalog[t] /\ OneName(registry) /\ e = l.ent /\ e \in Slots
      /\ \/ s.op \in Writes /\ l.ret = "insert_vector"
         \/ s.op = "search" /\ l.ret = "find"
      /\ ~DefinesVector(q, s)
  BY <1>1, LoadingNow
<1>3. m.rows = l.rows /\ m.cur = l.cur
  BY <1>2 DEF Local
<1> HIDE DEF m
<1>4. /\ heap'[e].loaded = TRUE
      /\ \A g \in Slots : heap'[g].vecs = heap[g].vecs /\ (g # e => heap'[g].loaded = heap[g].loaded)
  BY ZenonT(60), <1>1, <1>2, SharedNow DEF SharedOK, VectorEntry
<1>5. Elsewhere(Name(c), registry, heap, registry', heap')
  <2>1. \A k \in Names \ {Name(c)} : registry[k] # NoSlot => registry[k] \in Slots /\ registry[k] # e
    BY <1>2, SharedNow DEF SharedOK, OneName
  <2> QED
    BY <1>1, <1>4, <2>1 DEF Elsewhere
<1>6. q \in {"insert_vector", "find"} /\ q \notin Rebuilding
  BY <1>2 DEF Rebuilding
<1>7. EntryOK(q, s, m, registry', heap') /\ EmbeddingsOK(q, s, m, docs)
  BY SMTT(30), <1>2, <1>6 DEF EntryOK, EmbeddingsOK
<1>8. ASSUME NEW r \in Recs, r[1] = t, e # NoSlot
      PROVE  VectorSynced(r, q, s, m, registry', heap', docs)
  <2>1. Entry(r, registry) = e /\ VectorSynced(r, pc[c], s, l, registry, heap, docs)
    BY <1>2, <1>8, HereSynced
  <2>2. VectorDue(pc[c], s, l, r) => VectorDue(q, s, m, r)
    BY <1>1, <1>2, <1>3, LoadingDue
  <2>3. \A held : ~Refilling(pc[c], s, l, r, docs, held)
    BY <1>1 DEF Refilling
  <2>4. heap'[e].vecs[r[2]] = heap[e].vecs[r[2]]
    BY <1>2, <1>4
  <2> QED
    BY <1>1, <2>1, <2>2, <2>3, <2>4 DEF VectorSynced
<1>9. docs' = docs /\ OneName(registry') /\ registry'[Name(c)] = e /\ heap'[registry'[Name(c)]].loaded
      /\ (\A u \in Tables : u # t => catalog'[u] = catalog[u])
  BY <1>1, <1>2, <1>4
<1> QED
  BY <1>1, <1>2, <1>5, <1>7, <1>8, <1>9, TableVector

\* The index as it is after maintain_search_indexes is done with a record.
LEMMA MaintainedVector ==
  ASSUME TypeInv, NEW c \in Conns, Serial(c), VectorExact(c), OwnNames,
         UNCHANGED <<docs, catalog, registry>>,
         pc[c] \in {"insert_vector", "remove_vector"}, Goto(c, "maintain", loc[c]),
         NEW h, h = heap',
         \A g \in Slots : /\ h[g].loaded = heap[g].loaded
                          /\ \A j \in Keys : g # registry[Name(c)] \/ j # loc[c].cur[2] =>
                               h[g].vecs[j] = heap[g].vecs[j],
         registry[Name(c)] # NoSlot =>
           \/ h[registry[Name(c)]].vecs[loc[c].cur[2]] = Kept(docs[loc[c].cur])
           \/ /\ Odd(docs[loc[c].cur])
              /\ h[registry[Name(c)]].vecs[loc[c].cur[2]]
                   = heap[registry[Name(c)]].vecs[loc[c].cur[2]]
  PROVE  VectorExact(c)'
<1> DEFINE s == stmt[c]
           l == loc[c]
           e == registry[Name(c)]
           t == TableOf(s)
           q == "maintain"
<1>1. /\ s \in Statement /\ s.op \in Writes /\ t \in Tables /\ pc[c] # "idle"
      /\ WriteOK(pc[c], s, l, docs, catalog) /\ pc[c] \in Maintaining /\ pc[c] \in VectorPending
  <2>1. s \in Statement /\ LocalOK(pc[c], s, l) /\ t \in Tables /\ pc[c] # "idle"
    BY SerialNow
  <2>2. s.op \in Writes
    BY <2>1, LocalAt DEF Applying
  <2>3. pc[c] \in VectorPending
    BY DEF VectorPending
  <2> QED
    BY <2>1, <2>2, <2>3, SerialNow, PointsApart
<1>2. /\ "vector" \in catalog[t] /\ l.cur \in Recs /\ l.cur[1] = t /\ l.cur[2] \in Keys
  <2>1. l.cur \in Targets(s) /\ l.defs = catalog[t] /\ "vector" \in l.defs
    BY SMTT(30), <1>1, PointsApart DEF WriteOK
  <2> QED
    BY <1>1, <2>1, TargetsType DEF Recs
<1>3. /\ registry \in [Names -> Slots \cup {NoSlot}] /\ Name(c) \in Names
      /\ OneName(registry)
  BY <1>1, SharedNow, TargetsType DEF SharedOK, Name, VectorExact, VectorsOK
<1>4. Elsewhere(Name(c), registry, heap, registry', heap')
  <2>1. \A k \in Names \ {Name(c)} : registry[k] # NoSlot => registry[k] \in Slots /\ registry[k] # e
    BY <1>3 DEF OneName
  <2> QED
    BY <2>1 DEF Elsewhere
<1>5. /\ q \notin Rebuilding /\ pc[c] \notin Rebuilding
      /\ ~DefinesVector(q, s) /\ ~DefinesVector(pc[c], s)
  BY <1>1, NothingDue, OpsApart DEF Rebuilding
<1>6. EntryOK(q, s, l, registry', heap') /\ EmbeddingsOK(q, s, l, docs)
  BY <1>5 DEF EntryOK, EmbeddingsOK
<1>7. ASSUME e # NoSlot PROVE heap'[e].loaded
  <2>1. heap[e].loaded
    <3>1. VectorsOK(pc[c], s, l, registry, heap, docs, catalog)
      BY DEF VectorExact
    <3> QED
      BY <1>1, <1>2, <1>5, <1>7, <3>1 DEF VectorsOK, Name
  <2> QED
    BY SMTT(30), <1>3, <1>7, <2>1
<1>8. ASSUME NEW r \in Recs, r[1] = t, e # NoSlot
      PROVE  VectorSynced(r, q, s, l, registry', heap', docs)
  <2>1. /\ Entry(r, registry) = e /\ e \in Slots
        /\ VectorSynced(r, pc[c], s, l, registry, heap, docs)
    BY <1>2, <1>8, HereSynced
  <2>2. \A held : ~Refilling(pc[c], s, l, r, docs, held)
    BY <1>5 DEF Refilling
  <2>3. CASE r = l.cur
    <3>1. heap'[e].vecs[r[2]] = Kept(docs[r])
      BY <1>8, <2>1, <2>2, <2>3 DEF VectorSynced
    <3> QED
      BY <2>1, <3>1 DEF VectorSynced
  <2>4. CASE r # l.cur
    <3>1. r[2] \in Keys /\ r[2] # l.cur[2]
      BY <1>2, <1>8, <2>4 DEF Recs
    <3>2. heap'[e].vecs[r[2]] = heap[e].vecs[r[2]]
      BY <2>1, <3>1
    <3>3. VectorDue(pc[c], s, l, r) => VectorDue(q, s, l, r)
      BY <2>4 DEF VectorDue
    <3> QED
      BY <2>1, <2>2, <3>2, <3>3 DEF VectorSynced
  <2> QED
    BY <2>3, <2>4
<1>9. docs' = docs /\ OneName(registry') /\ registry'[Name(c)] = e
      /\ (\A u \in Tables : u # t => catalog'[u] = catalog[u])
  BY <1>3
<1> QED
  BY <1>1, <1>4, <1>6, <1>7, <1>8, <1>9, TableVector

\* insert_vector has an embedding, remove_vector has none.
LEMMA MaintainedDoc ==
  ASSUME TypeInv, NEW c \in Conns, Serial(c),
         pc[c] \in {"insert_vector", "vector_exists", "remove_vector"}
  PROVE  /\ stmt[c] \in Statement /\ Name(c) \in Names /\ stmt[c].op \in Writes
         /\ loc[c].doc = docs[loc[c].cur] /\ loc[c].cur[2] \in Keys /\ loc[c].cur \in Recs
         /\ pc[c] = "insert_vector" =>
              /\ Kept(docs[loc[c].cur]) = loc[c].doc.vec \/ Odd(docs[loc[c].cur])
              /\ Odd(docs[loc[c].cur]) <=> loc[c].doc.vec \notin Vecs
         /\ pc[c] # "insert_vector" => Kept(docs[loc[c].cur]) = None
<1> DEFINE s == stmt[c]
           l == loc[c]
<1>1. /\ s \in Statement /\ LocalOK(pc[c], s, l)
  BY SerialNow
<1>2. s.op \in Writes
  BY <1>1, LocalAt DEF Applying
<1>3. WriteOK(pc[c], s, l, docs, catalog) /\ pc[c] \in Maintaining
  BY <1>2, SerialNow, PointsApart DEF VectorPending
<1>4. /\ l.cur \in Targets(s) /\ l.doc = docs[l.cur]
      /\ pc[c] = "insert_vector" => HasVector(l)
      /\ pc[c] # "insert_vector" => ~HasVector(l)
  BY <1>3 DEF WriteOK
<1>5. l.cur \in Recs /\ l.cur[2] \in Keys /\ Name(c) \in Names
  BY <1>1, <1>4, TargetsType DEF Recs, Name
<1>6. docs[l.cur] \in Doc \cup {NoDoc}
  BY <1>5, SharedNow DEF SharedOK
<1>7. HasVector(l) => /\ Kept(docs[l.cur]) = l.doc.vec \/ Odd(docs[l.cur])
                      /\ Odd(docs[l.cur]) <=> l.doc.vec \notin Vecs
  BY <1>4, <1>6, ConstantsAssumption DEF HasVector, Kept, Embedded, Odd, Doc
<1>8. ~HasVector(l) => Kept(docs[l.cur]) = None
  BY SMTT(30), <1>4, ConstantsAssumption DEF HasVector, Kept, Embedded
<1> QED
  BY <1>1, <1>2, <1>4, <1>5, <1>7, <1>8

LEMMA InsertVectorExact ==
  ASSUME TypeInv, NEW c \in Conns, Serial(c), VectorExact(c), OwnNames, InsertVector(c)
  PROVE  VectorExact(c)'
<1> DEFINE l == loc[c]
           e == registry[Name(c)]
<1>1. /\ pc[c] = "insert_vector" /\ UNCHANGED <<docs, catalog, registry>> /\ Goto(c, "maintain", l)
      /\ heap' = Inserted(Name(c), l.cur[2], l.doc.vec)
  BY DEF InsertVector, At, durable
<1>2. /\ Name(c) \in Names /\ l.cur[2] \in Keys
      /\ Kept(docs[l.cur]) = l.doc.vec \/ Odd(docs[l.cur])
      /\ Odd(docs[l.cur]) <=> l.doc.vec \notin Vecs
  BY <1>1, MaintainedDoc
<1>3. \A g \in Slots :
        /\ heap'[g].loaded = heap[g].loaded
        /\ \A j \in Keys : heap'[g].vecs[j] = IF g = e /\ l.doc.vec \in Vecs /\ j = l.cur[2]
                                              THEN l.doc.vec ELSE heap[g].vecs[j]
  BY <1>1, <1>2, SharedNow, InsertedAt
<1>4. e # NoSlot => e \in Slots
  BY <1>2, SharedNow DEF SharedOK
<1>5. \A g \in Slots : /\ heap'[g].loaded = heap[g].loaded
                       /\ \A j \in Keys : g # e \/ j # l.cur[2] =>
                            heap'[g].vecs[j] = heap[g].vecs[j]
  BY <1>3
<1>6. e # NoSlot => \/ heap'[e].vecs[l.cur[2]] = Kept(docs[l.cur])
                    \/ Odd(docs[l.cur]) /\ heap'[e].vecs[l.cur[2]] = heap[e].vecs[l.cur[2]]
  BY <1>2, <1>3, <1>4
<1> QED
  BY <1>1, <1>5, <1>6, MaintainedVector

LEMMA RemoveVectorExact ==
  ASSUME TypeInv, NEW c \in Conns, Serial(c), VectorExact(c), OwnNames, RemoveVector(c)
  PROVE  VectorExact(c)'
<1> DEFINE l == loc[c]
           e == registry[Name(c)]
<1>1. /\ pc[c] = "remove_vector" /\ UNCHANGED <<docs, catalog, registry>> /\ Goto(c, "maintain", l)
      /\ heap' = IF e = NoSlot THEN heap ELSE [heap EXCEPT ![e].vecs[l.cur[2]] = None]
  BY DEF RemoveVector, At, durable
<1>2. Name(c) \in Names /\ l.cur[2] \in Keys /\ Kept(docs[l.cur]) = None
  BY <1>1, MaintainedDoc
<1>3. (e # NoSlot => e \in Slots) /\ heap \in [Slots -> VectorEntry]
  BY <1>2, SharedNow DEF SharedOK
<1>4. /\ \A g \in Slots : /\ heap'[g].loaded = heap[g].loaded
                          /\ \A j \in Keys : g # e \/ j # l.cur[2] =>
                               heap'[g].vecs[j] = heap[g].vecs[j]
      /\ e # NoSlot => heap'[e].vecs[l.cur[2]] = None
  BY <1>1, <1>2, <1>3 DEF VectorEntry
<1>5. /\ pc[c] \in {"insert_vector", "remove_vector"} /\ UNCHANGED <<docs, catalog, registry>>
      /\ Goto(c, "maintain", l)
      /\ e # NoSlot => heap'[e].vecs[l.cur[2]] = Kept(docs[l.cur])
  BY <1>1, <1>2, <1>4
<1>6. TypeInv /\ Serial(c) /\ VectorExact(c) /\ OwnNames
  OBVIOUS
<1> QED
  BY ONLY <1>4, <1>5, <1>6, MaintainedVector

LEMMA VectorExistsExact ==
  ASSUME TypeInv, NEW c \in Conns, Serial(c), VectorExact(c), VectorExists(c)
  PROVE  VectorExact(c)'
<1> DEFINE s == stmt[c]
           l == loc[c]
           e == registry[Name(c)]
           q == IF e # NoSlot THEN "remove_vector" ELSE "maintain"
<1>1. /\ pc[c] = "vector_exists" /\ UNCHANGED <<docs, catalog, registry, heap>> /\ Goto(c, q, l)
  BY DEF VectorExists, At, durable, services
<1>2. s.op \in Writes
  BY <1>1, MaintainedDoc
<1>3. pc[c] \notin Rebuilding /\ q \notin Rebuilding
  BY <1>1 DEF Rebuilding
<1>4. ASSUME NEW r \in Recs, Entry(r, registry) # NoSlot, VectorDue(pc[c], s, l, r)
      PROVE  VectorDue(q, s, l, r)
  <2>1. r[1] = TableOf(s)
    BY <1>1, <1>4, DueHere
  <2>2. q = "remove_vector" /\ q \in VectorPending
    BY <1>4, <2>1 DEF Entry, Name, VectorPending
  <2> QED
    BY <1>1, <1>4, <2>2, PointsApart DEF VectorDue
<1> QED
  BY <1>1, <1>2, <1>3, <1>4, WriterVectorMove

-----------------------------------------------------------------------------
(* DEFINE and REMOVE of vector indexes *)

LEMMA DefinesNow ==
  ASSUME TypeInv, NEW c \in Conns, Serial(c), VectorExact(c),
         \/ pc[c] \in {"register", "set_loaded"}
         \/ pc[c] \in {"backfill_scan", "backfill"} /\ stmt[c].kind = "vector"
  PROVE  /\ stmt[c] \in Statement /\ stmt[c].op = "define" /\ stmt[c].kind = "vector"
         /\ TableOf(stmt[c]) = stmt[c].table /\ TableOf(stmt[c]) \in Tables /\ Name(c) \in Names
         /\ loc[c] \in Local /\ pc[c] # "idle" /\ "vector" \in catalog[TableOf(stmt[c])]
         /\ OneName(registry) /\ DefinesVector(pc[c], stmt[c])
         /\ pc[c] # "register" => registry[Name(c)] # NoSlot
         /\ EmbeddingsOK(pc[c], stmt[c], loc[c], docs)
         /\ \A q, m, r : ~VectorDue(q, stmt[c], m, r)
<1> DEFINE s == stmt[c]
           l == loc[c]
<1>1. /\ s \in Statement /\ LocalOK(pc[c], s, l) /\ l \in Local /\ pc[c] # "idle"
      /\ s.op = "define" => DefineOK(pc[c], s, catalog)
  BY SerialNow
<1>2. s.op = "define"
  <2>1. CASE pc[c] = "backfill"
    BY <1>1, <2>1, LocalAt
  <2>2. CASE pc[c] \in {"register", "set_loaded", "backfill_scan"}
    BY ZenonT(60), <1>1, <2>2, LocalAt DEF Defining
  <2> QED
    BY <2>1, <2>2
<1>3. s.kind = "vector" /\ "vector" \in catalog[s.table]
  BY <1>1, <1>2 DEF DefineOK
<1>4. TableOf(s) = s.table /\ TableOf(s) \in Tables /\ Name(c) \in Names
  BY <1>1, <1>2, TargetsType DEF Name
<1>5. DefinesVector(pc[c], s)
  BY <1>2, <1>3 DEF DefinesVector
<1>6. VectorsOK(pc[c], s, l, registry, heap, docs, catalog)
  BY DEF VectorExact
<1>7. OneName(registry) /\ EntryOK(pc[c], s, l, registry, heap) /\ EmbeddingsOK(pc[c], s, l, docs)
  BY <1>6 DEF VectorsOK
<1>8. pc[c] # "register" => registry[Name(c)] # NoSlot
  BY <1>5, <1>7 DEF EntryOK, Name
<1>9. \A q, m, r : ~VectorDue(q, s, m, r)
  BY <1>2, NothingDue, OpsApart
<1> QED
  BY <1>1, <1>2, <1>3, <1>4, <1>5, <1>7, <1>8, <1>9

LEMMA RegisterExact ==
  ASSUME TypeInv, NEW c \in Conns, Serial(c), VectorExact(c), OwnNames, Register(c)
  PROVE  VectorExact(c)'
<1> DEFINE s == stmt[c]
           l == loc[c]
           t == TableOf(s)
           q == "backfill_scan"
<1>1. pc[c] = "register" /\ UNCHANGED <<docs, catalog>> /\ Goto(c, q, l)
  BY DEF Register, At, durable
<1>2. PICK f \in Slots : Allocate(Name(c), f)
  BY DEF Register
<1>3. /\ s \in Statement /\ s.op = "define" /\ s.kind = "vector" /\ t \in Tables
      /\ Name(c) \in Names /\ OneName(registry) /\ pc[c] # "idle"
  BY <1>1, DefinesNow
<1>4. /\ registry'[Name(c)] = f /\ heap'[f] = NewEntry /\ f # NoSlot
      /\ OneName(registry') /\ Elsewhere(Name(c), registry, heap, registry', heap')
  BY <1>2, <1>3, Allocated
<1>5. DefinesVector(q, s)
  BY <1>3 DEF DefinesVector
<1>6. EntryOK(q, s, l, registry', heap') /\ EmbeddingsOK(q, s, l, docs)
  BY <1>4 DEF EntryOK, EmbeddingsOK, Name, Rebuilding
<1>7. ASSUME NEW r \in Recs, r[1] = t PROVE VectorSynced(r, q, s, l, registry', heap', docs)
  <2>1. Entry(r, registry') = f /\ r[2] \in Keys
    BY <1>4, <1>7 DEF Entry, Name, Recs
  <2>2. heap'[f].vecs[r[2]] = None
    BY <1>4, <2>1 DEF NewEntry
  <2>3. Refilling(q, s, l, r, docs, None)
    BY <1>5, <1>7 DEF Refilling
  <2> QED
    BY <2>1, <2>2, <2>3 DEF VectorSynced
<1>8. docs' = docs /\ (\A u \in Tables : u # t => catalog'[u] = catalog[u])
  BY <1>1
<1> QED
  BY <1>1, <1>3, <1>4, <1>5, <1>6, <1>7, <1>8, TableVector

LEMMA BackfillScanExact ==
  ASSUME TypeInv, NEW c \in Conns, Serial(c), VectorExact(c), OwnNames, BackfillScan(c),
         stmt[c].kind = "vector"
  PROVE  VectorExact(c)'
<1> DEFINE s == stmt[c]
           l == loc[c]
           e == registry[Name(c)]
           t == TableOf(s)
           q == "backfill"
           m == [l EXCEPT !.fill = Embeddings(t)]
<1>1. pc[c] = "backfill_scan" /\ UNCHANGED <<docs, catalog, registry, heap>>
  BY DEF BackfillScan, At, durable, services
<1>2. /\ s \in Statement /\ s.op = "define" /\ t \in Tables /\ t = s.table /\ l \in Local
      /\ Name(c) \in Names /\ OneName(registry) /\ pc[c] # "idle" /\ e # NoSlot
      /\ "vector" \in catalog[t] /\ \A p, n, r : ~VectorDue(p, s, n, r)
  BY <1>1, DefinesNow
<1>3. Goto(c, q, m)
  BY <1>2 DEF BackfillScan
<1>4. m.fill = Embeddings(t)
  BY <1>2 DEF Local
<1> HIDE DEF m
<1>5. DefinesVector(q, s) /\ Fills(q, s)
  BY <1>2 DEF DefinesVector, Fills
<1>6. /\ EmbeddingsOK(q, s, m, docs)
      /\ \A r \in Recs : r[1] = t => Kept(docs[r]) = None \/ Refilling(q, s, m, r, docs, None)
  BY <1>2, <1>4, <1>5, ScannedEmbeddings
<1>7. EntryOK(q, s, m, registry', heap')
  BY <1>1, <1>2 DEF EntryOK, Rebuilding, Name
<1>8. Elsewhere(Name(c), registry, heap, registry', heap')
  BY <1>1 DEF Elsewhere
<1>9. ASSUME NEW r \in Recs, r[1] = t
      PROVE  VectorSynced(r, q, s, m, registry', heap', docs)
  <2>1. Entry(r, registry) = e /\ VectorSynced(r, pc[c], s, l, registry, heap, docs)
    BY <1>2, <1>9, HereSynced
  <2>2. \A held : Refilling(pc[c], s, l, r, docs, held) => held = None
    BY <1>1 DEF Refilling
  <2> QED
    BY <1>1, <1>2, <1>6, <1>9, <2>1, <2>2 DEF VectorSynced
<1>10. docs' = docs /\ OneName(registry')
       /\ (\A u \in Tables : u # t => catalog'[u] = catalog[u])
  BY <1>1, <1>2
<1> QED
  BY <1>2, <1>3, <1>5, <1>6, <1>7, <1>8, <1>9, <1>10, TableVector

LEMMA BackfillExact ==
  ASSUME TypeInv, NEW c \in Conns, Serial(c), VectorExact(c), OwnNames, Backfill(c),
         stmt[c].kind = "vector"
  PROVE  VectorExact(c)'
<1> DEFINE s == stmt[c]
           l == loc[c]
           e == registry[Name(c)]
           t == TableOf(s)
           q == "backfill"
<1>1. pc[c] = q /\ UNCHANGED <<docs, catalog, registry>>
  BY DEF Backfill, At, durable
<1>2. PICK f \in l.fill : /\ heap' = Inserted(Name(c), f[1], f[2])
                          /\ Goto(c, q, [l EXCEPT !.fill = l.fill \ {f}])
  BY DEF Backfill
<1> DEFINE m == [l EXCEPT !.fill = l.fill \ {f}]
<1>3. /\ s \in Statement /\ s.op = "define" /\ t \in Tables /\ l \in Local
      /\ Name(c) \in Names /\ OneName(registry) /\ pc[c] # "idle" /\ e # NoSlot
      /\ "vector" \in catalog[t] /\ DefinesVector(pc[c], s)
      /\ EmbeddingsOK(pc[c], s, l, docs) /\ \A p, n, r : ~VectorDue(p, s, n, r)
  BY <1>1, DefinesNow
<1>4. m.fill = l.fill \ {f}
  BY <1>3 DEF Local
<1>5. Goto(c, q, m)
  BY <1>2
<1> HIDE DEF m
<1>6. Fills(pc[c], s)
  BY <1>1, <1>3 DEF Fills
<1>7. /\ EmbeddingsOK(pc[c], s, m, docs)
      /\ Elsewhere(Name(c), registry, heap, registry', heap')
      /\ \A r \in Recs : r[1] = t =>
           LET held == heap[e].vecs[r[2]]
               now == heap'[e].vecs[r[2]]
           IN  held = Kept(docs[r]) \/ Refilling(pc[c], s, l, r, docs, held) =>
                 now = Kept(docs[r]) \/ Refilling(pc[c], s, m, r, docs, now)
  BY <1>1, <1>2, <1>3, <1>4, <1>6, FilledEmbeddings
<1>8. EntryOK(q, s, m, registry', heap')
  BY <1>1, <1>3 DEF EntryOK, Rebuilding, Name
<1>9. ASSUME NEW r \in Recs, r[1] = t
      PROVE  VectorSynced(r, q, s, m, registry', heap', docs)
  <2>1. Entry(r, registry) = e /\ VectorSynced(r, pc[c], s, l, registry, heap, docs)
    BY <1>3, <1>9, HereSynced
  <2> QED
    BY <1>1, <1>3, <1>7, <1>9, <2>1 DEF VectorSynced
<1>10. docs' = docs /\ OneName(registry') /\ DefinesVector(q, s)
       /\ (\A u \in Tables : u # t => catalog'[u] = catalog[u])
  BY <1>1, <1>3
<1> QED
  BY <1>1, <1>3, <1>5, <1>7, <1>8, <1>9, <1>10, TableVector

\* Nothing is left to insert.
LEMMA AllInserted ==
  ASSUME TypeInv, NEW c \in Conns, Serial(c), VectorExact(c),
         \/ pc[c] = "set_loaded"
         \/ pc[c] = "backfill" /\ stmt[c].kind = "vector" /\ loc[c].fill = {},
         NEW r \in Recs, r[1] = TableOf(stmt[c])
  PROVE  Entry(r, registry) = registry[Name(c)] /\ heap[registry[Name(c)]].vecs[r[2]] = Kept(docs[r])
<1>1. /\ registry[Name(c)] # NoSlot /\ "vector" \in catalog[TableOf(stmt[c])]
      /\ \A q, m, x : ~VectorDue(q, stmt[c], m, x)
  BY DefinesNow
<1>2. /\ Entry(r, registry) = registry[Name(c)]
      /\ VectorSynced(r, pc[c], stmt[c], loc[c], registry, heap, docs)
  BY <1>1, HereSynced
<1>3. \A held : ~Refilling(pc[c], stmt[c], loc[c], r, docs, held)
  BY DEF Refilling
<1> QED
  BY <1>1, <1>2, <1>3 DEF VectorSynced

LEMMA BackfillDoneExact ==
  ASSUME TypeInv, NEW c \in Conns, Serial(c), VectorExact(c), OwnNames, BackfillDone(c),
         stmt[c].kind = "vector"
  PROVE  VectorExact(c)'
<1> DEFINE s == stmt[c]
           t == TableOf(s)
           q == "set_loaded"
<1>1. pc[c] = "backfill" /\ UNCHANGED <<docs, catalog, registry, heap>> /\ loc[c].fill = {}
  BY DEF BackfillDone, At, durable, services
<1>2. PICK m : Goto(c, q, m)
  BY DEF BackfillDone
<1>3. /\ s \in Statement /\ s.op = "define" /\ t \in Tables /\ OneName(registry)
      /\ pc[c] # "idle" /\ registry[Name(c)] # NoSlot
  BY <1>1, DefinesNow
<1>4. DefinesVector(q, s)
  BY <1>3 DEF DefinesVector
<1>5. EntryOK(q, s, m, registry', heap') /\ EmbeddingsOK(q, s, m, docs)
  BY <1>1, <1>3 DEF EntryOK, EmbeddingsOK, Rebuilding, Name
<1>6. Elsewhere(Name(c), registry, heap, registry', heap')
  BY <1>1 DEF Elsewhere
<1>7. \A r \in Recs : r[1] = t => VectorSynced(r, q, s, m, registry', heap', docs)
  BY <1>1, AllInserted DEF VectorSynced
<1>8. docs' = docs /\ OneName(registry') /\ (\A u \in Tables : u # t => catalog'[u] = catalog[u])
  BY <1>1, <1>3
<1> QED
  BY <1>2, <1>3, <1>4, <1>5, <1>6, <1>7, <1>8, TableVector

LEMMA SetLoadedExact ==
  ASSUME TypeInv, NEW c \in Conns, Serial(c), VectorExact(c), OwnNames, SetLoaded(c)
  PROVE  VectorExact(c)'
<1> DEFINE s == stmt[c]
           t == TableOf(s)
           e == registry[Name(c)]
<1>1. /\ pc[c] = "set_loaded" /\ UNCHANGED <<docs, catalog, registry>> /\ Return(c, loc[c].done)
      /\ heap' = IF e = NoSlot THEN heap ELSE [heap EXCEPT ![e].loaded = TRUE]
  BY DEF SetLoaded, At, durable, Ok
<1>2. /\ s \in Statement /\ t \in Tables /\ Name(c) \in Names /\ OneName(registry)
      /\ pc[c] # "idle" /\ e # NoSlot
  BY <1>1, DefinesNow
<1>3. e \in Slots /\ heap \in [Slots -> VectorEntry] /\ registry \in [Names -> Slots \cup {NoSlot}]
  BY <1>2, SharedNow DEF SharedOK
<1>4. /\ heap'[e].loaded = TRUE
      /\ \A g \in Slots : heap'[g].vecs = heap[g].vecs /\ (g # e => heap'[g].loaded = heap[g].loaded)
  BY <1>1, <1>2, <1>3 DEF VectorEntry
<1>5. Elsewhere(Name(c), registry, heap, registry', heap')
  <2>1. \A k \in Names \ {Name(c)} : registry[k] # NoSlot => registry[k] \in Slots /\ registry[k] # e
    BY <1>2, <1>3 DEF OneName
  <2>2. registry' = registry
    BY <1>1
  <2> QED
    BY <1>4, <2>1, <2>2 DEF Elsewhere
<1>6. \A r \in Recs : r[1] = t => heap'[Entry(r, registry)].vecs[r[2]] = Kept(docs[r])
  <2>1. \A r \in Recs : r[1] = t => Entry(r, registry) = e /\ heap[e].vecs[r[2]] = Kept(docs[r])
    BY <1>1, AllInserted
  <2> QED
    BY <1>3, <1>4, <2>1
<1>7. /\ docs' = docs /\ registry' = registry /\ OneName(registry') /\ heap'[registry'[Name(c)]].loaded
      /\ Return(c, loc[c].done) /\ (\A u \in Tables : u # t => catalog'[u] = catalog[u])
  BY <1>1, <1>2, <1>4
<1>8. \A r \in Recs : r[1] = t => heap'[Entry(r, registry')].vecs[r[2]] = Kept(docs[r])
  BY <1>6, <1>7
<1>9. TypeInv /\ Serial(c) /\ VectorExact(c) /\ OwnNames
  OBVIOUS
<1> QED
  BY ONLY <1>2, <1>5, <1>7, <1>8, <1>9, TableVectorSettled

LEMMA DropVectorExact ==
  ASSUME TypeInv, NEW c \in Conns, Serial(c), VectorExact(c), OwnNames, DropVector(c)
  PROVE  VectorExact(c)'
<1> DEFINE s == stmt[c]
           t == TableOf(s)
           e == registry[Name(c)]
<1>1. /\ pc[c] = "drop_vector" /\ UNCHANGED <<docs, catalog>> /\ Return(c, loc[c].done)
      /\ registry' = [registry EXCEPT ![Name(c)] = NoSlot] /\ heap' = Released(Name(c))
  BY DEF DropVector, At, durable, Ok
<1>2. s \in Statement /\ t \in Tables /\ Name(c) \in Names /\ pc[c] # "idle" /\ OneName(registry)
  BY <1>1, SerialNow, TargetsType DEF Name, VectorExact, VectorsOK
<1>3. heap \in [Slots -> VectorEntry] /\ registry \in [Names -> Slots \cup {NoSlot}]
  BY SharedNow DEF SharedOK
<1>4. \A k \in Names : registry'[k] = IF k = Name(c) THEN NoSlot ELSE registry[k]
  BY <1>1, <1>2, <1>3
<1>5. \A g \in Slots : g # e => heap'[g] = heap[g]
  BY <1>1, <1>3 DEF Released
<1>6. Elsewhere(Name(c), registry, heap, registry', heap')
  <2>1. \A k \in Names \ {Name(c)} : registry[k] # NoSlot => registry[k] \in Slots /\ registry[k] # e
    BY <1>2, <1>3 DEF OneName
  <2> QED
    BY <1>4, <1>5, <2>1 DEF Elsewhere
<1>7. OneName(registry')
  BY <1>2, <1>4 DEF OneName
<1>8. /\ docs' = docs /\ (\A u \in Tables : u # t => catalog'[u] = catalog[u])
      /\ registry'[Name(c)] = NoSlot
  BY <1>1, <1>2, <1>4
<1> QED
  BY <1>1, <1>2, <1>6, <1>7, <1>8, TableVectorSettled

LEMMA RemoveWriteExact ==
  ASSUME TypeInv, NEW c \in Conns, Serial(c), VectorExact(c), RemoveWrite(c)
  PROVE  VectorExact(c)'
<1> DEFINE s == stmt[c]
           t == s.table
<1>1. /\ pc[c] = "remove_write" /\ catalog' = [catalog EXCEPT ![t] = @ \ {s.kind}]
      /\ UNCHANGED <<docs, registry, heap>>
  BY DEF RemoveWrite, At, services
<1>2. s \in Statement /\ s.op = "remove"
  BY <1>1, SerialNow, LocalAt DEF Removing
<1>3. catalog \in [Tables -> SUBSET Kinds]
  BY SharedNow DEF SharedOK
<1>4. \A u \in Tables : catalog'[u] \subseteq catalog[u]
  BY <1>1, <1>3
<1>5. VectorSettled(registry, heap, docs, catalog)
  BY <1>1, <1>2, OpsApart, IdleVector DEF Rebuilding
<1>6. VectorSettled(registry', heap', docs', catalog')
  <2>1. \A r \in Recs : r[1] \in Tables
    BY DEF Recs
  <2> QED
    BY <1>1, <1>4, <1>5, <2>1 DEF VectorSettled
<1>7. \/ Return(c, loc[c].done)
      \/ \E q, m : Goto(c, q, m) /\ q \in {"drop_text", "drop_vector"}
  BY DEF RemoveWrite, Ok
<1>8. ASSUME NEW q, NEW m, Goto(c, q, m), q \in {"drop_text", "drop_vector"}
      PROVE  VectorExact(c)'
  <2>1. q \notin Rebuilding /\ ~DefinesVector(q, s)
    BY <1>8 DEF Rebuilding, DefinesVector
  <2>2. VectorsOK(q, s, m, registry', heap', docs', catalog')
    BY <1>6, <2>1, VectorAtRest
  <2> QED
    BY <1>8, <2>2, GotoVectorExact
<1> QED
  BY <1>6, <1>7, <1>8, ReturnVectorExact

LEMMA DefineWriteExact ==
  ASSUME TypeInv, NEW c \in Conns, Serial(c), VectorExact(c), OwnNames, DefineWrite(c)
  PROVE  VectorExact(c)'
<1> DEFINE s == stmt[c]
           t == TableOf(s)
<1>1. /\ pc[c] = "define_write" /\ catalog' = [catalog EXCEPT ![s.table] = @ \cup {s.kind}]
      /\ UNCHANGED <<docs, registry, heap>>
  BY DEF DefineWrite, At, services
<1>2. s \in Statement /\ s.op = "define" /\ t = s.table /\ t \in Tables /\ s.kind \in Kinds
  BY <1>1, SerialNow, LocalAt, TargetsType, StatementShape DEF Defining
<1>3. catalog \in [Tables -> SUBSET Kinds]
  BY SharedNow DEF SharedOK
<1>4. \A u \in Tables : catalog'[u] = IF u = t THEN catalog[u] \cup {s.kind} ELSE catalog[u]
  BY <1>1, <1>2, <1>3
<1>5. VectorSettled(registry, heap, docs, catalog)
  <2>1. pc[c] \notin Rebuilding /\ ~DefinesVector(pc[c], s) /\ \A r : ~VectorDue(pc[c], s, loc[c], r)
    BY <1>1, <1>2, NothingDue, OpsApart DEF Rebuilding, DefinesVector
  <2> QED
    BY <2>1, VectorResting DEF VectorExact
<1>6. CASE s.kind = "text"
  <2>1. PICK m : Goto(c, "ensure_text", m)
    BY <1>6 DEF DefineWrite
  <2>2. ASSUME NEW u \in Tables PROVE "vector" \in catalog'[u] <=> "vector" \in catalog[u]
    <3>1. catalog'[u] \in {catalog[u], catalog[u] \cup {"text"}}
      BY <1>4, <1>6
    <3> QED
      BY <3>1
  <2>3. VectorSettled(registry', heap', docs', catalog')
    <3>1. \A r \in Recs : r[1] \in Tables
      BY DEF Recs
    <3> QED
      BY <1>1, <1>5, <2>2, <3>1 DEF VectorSettled
  <2>4. VectorsOK("ensure_text", s, m, registry', heap', docs', catalog')
    BY <2>3, VectorAtRest DEF Rebuilding, DefinesVector
  <2> QED
    BY <2>1, <2>4, GotoVectorExact
<1>7. CASE s.kind = "vector"
  <2>1. PICK m : Goto(c, "register", m)
    BY <1>7 DEF DefineWrite
  <2>2. DefinesVector("register", s)
    BY <1>2, <1>7 DEF DefinesVector
  <2>3. EntryOK("register", s, m, registry', heap') /\ EmbeddingsOK("register", s, m, docs)
    BY DEF EntryOK, EmbeddingsOK, Rebuilding
  <2>4. Elsewhere(Name(c), registry, heap, registry', heap')
    BY <1>1 DEF Elsewhere
  <2>5. \A r \in Recs : r[1] = t => VectorSynced(r, "register", s, m, registry', heap', docs)
    BY <2>2 DEF VectorSynced, Refilling
  <2>6. docs' = docs /\ OneName(registry') /\ (\A u \in Tables : u # t => catalog'[u] = catalog[u])
    BY <1>1, <1>4, <1>5 DEF VectorSettled
  <2>7. pc[c] # "idle"
    BY <1>1
  <2> QED
    BY <2>1, <2>2, <2>3, <2>4, <2>5, <2>6, <2>7, TableVector
<1> QED
  BY <1>2, <1>6, <1>7 DEF Kinds

LEMMA VectorExactStep ==
  ASSUME TypeInv, NEW c \in Conns, Serial(c), TextExact(c), VectorExact(c), OwnNames,
         pc[c] # "idle" => Even(stmt[c]), Begin(c) \/ Step(c)
  PROVE  VectorExact(c)'
<1>1. ASSUME BackfillScan(c) \/ Backfill(c) \/ BackfillDone(c)
      PROVE  VectorExact(c)'
  <2>1. pc[c] \in {"backfill_scan", "backfill"}
    BY ZenonT(60), <1>1 DEF BackfillScan, Backfill, BackfillDone, At
  <2>2. stmt[c] \in Statement /\ stmt[c].op = "define"
    <3>1. stmt[c] \in Statement /\ LocalOK(pc[c], stmt[c], loc[c])
      BY <2>1, SerialNow
    <3>2. CASE pc[c] = "backfill"
      BY <3>1, <3>2, LocalAt
    <3>3. CASE pc[c] = "backfill_scan"
      BY ZenonT(60), <3>1, <3>3, LocalAt DEF Defining
    <3> QED
      BY <2>1, <3>1, <3>2, <3>3
  <2>3. stmt[c].kind \in {"text", "vector"}
    BY <2>2, StatementShape DEF Kinds
  <2> QED
    BY SMTT(30), <1>1, <2>3, BackfillTextVectorExact, BackfillScanExact, BackfillExact, BackfillDoneExact
<1>2. BatchWrite(c) \/ Row(c) => Even(stmt[c])
  BY ZenonT(60) DEF BatchWrite, Row, At
<1> QED
  BY <1>1, <1>2, BeginVectorExact, LoadVectorExact, BatchWriteVectorExact, RowVectorExact,
     RowsDoneVectorExact, RereadVectorExact, MaintainVectorExact, TextsVectorExact,
     CommitVectorExact, EnsureVectorExact, RebuildLockExact, RebuildScanExact,
     RebuildInsertExact, RebuildDoneExact, InsertVectorExact, VectorExistsExact,
     RemoveVectorExact, DefineWriteExact, RegisterExact, SetLoadedExact, RemoveWriteExact,
     DropVectorExact, DropTextVectorExact, SearchVectorExact
     DEF Step
-----------------------------------------------------------------------------
(* What a search has found *)

\* A step moves one connection, and keeps its statement unless it answers it.
Moves(c) == /\ \A d \in Conns : d # c => pc'[d] = pc[d]
            /\ pc'[c] = "idle" \/ stmt'[c] = stmt[c]

LEMMA StepMoves ==
  ASSUME TypeInv, NEW c \in Conns, Step(c)
  PROVE  Moves(c)
<1>1. ASSUME NEW q, NEW l, Goto(c, q, l) PROVE Moves(c)
  BY <1>1 DEF Goto, TypeInv, TypeOK, Moves
<1>2. ASSUME NEW records, Return(c, records) PROVE Moves(c)
  BY <1>2 DEF Return, TypeInv, TypeOK, Moves
<1>3. ASSUME Ok(c) \/ Fail(c) PROVE Moves(c)
  BY <1>2, <1>3 DEF Ok, Fail
<1>4. ASSUME \/ Load(c) \/ Scan(c) \/ BatchWrite(c) \/ RowsDone(c) \/ Reread(c) \/ Maintain(c)
      PROVE  Moves(c)
  BY <1>1, <1>3, <1>4 DEF Load, Scan, BatchWrite, RowsDone, Reread, Maintain
<1>5. ASSUME Row(c) PROVE Moves(c)
  BY SMTT(30), <1>1, <1>3, <1>5 DEF Row
<1>6. ASSUME \/ EnsureText(c) \/ OpenText(c) \/ MarkOpen(c) \/ DeleteText(c) \/ AddText(c)
             \/ Commit(c)
      PROVE  Moves(c)
  BY <1>1, <1>3, <1>6 DEF EnsureText, OpenText, MarkOpen, DeleteText, AddText, Commit
<1>7. ASSUME \/ EnsureVector(c) \/ RebuildLock(c) \/ RebuildScan(c) \/ RebuildInsert(c)
             \/ RebuildDone(c) \/ InsertVector(c) \/ VectorExists(c) \/ RemoveVector(c)
      PROVE  Moves(c)
  BY <1>1, <1>7 DEF EnsureVector, RebuildLock, RebuildScan, RebuildInsert, RebuildDone,
                    InsertVector, VectorExists, RemoveVector
<1>8. ASSUME \/ DefineWrite(c) \/ Register(c) \/ BackfillScan(c) \/ BackfillDone(c)
             \/ SetLoaded(c) \/ RemoveWrite(c) \/ DropVector(c) \/ DropText(c) \/ UnmarkOpen(c)
      PROVE  Moves(c)
  BY <1>1, <1>3, <1>8 DEF DefineWrite, Register, BackfillScan, BackfillDone, SetLoaded,
                          RemoveWrite, DropVector, DropText, UnmarkOpen
<1>9. ASSUME Backfill(c) PROVE Moves(c)
  BY <1>1, <1>2, <1>9 DEF Backfill
<1>10. ASSUME Find(c) \/ QueryText(c) \/ QueryVector(c) \/ Resolve(c) PROVE Moves(c)
  BY <1>1, <1>3, <1>10 DEF Find, QueryText, QueryVector, Resolve
<1> QED
  BY <1>4, <1>5, <1>6, <1>7, <1>8, <1>9, <1>10 DEF Step

LEMMA GotoFound ==
  ASSUME TypeInv, NEW c \in Conns, NEW q, NEW m, Goto(c, q, m),
         FoundOK(q, stmt[c], m, registry', docs')
  PROVE  Found(c)'
BY Moved DEF Found

LEMMA ReturnFound ==
  ASSUME TypeInv, NEW c \in Conns, NEW records, Return(c, records)
  PROVE  Found(c)'
BY Returned DEF Found

LEMMA OtherFound ==
  ASSUME TypeInv, NEW c \in Conns, Step(c), stmt[c].op # "search"
  PROVE  Found(c)'
<1>1. pc'[c] = "idle" \/ stmt'[c] = stmt[c]
  BY StepMoves DEF Moves
<1>2. CASE pc'[c] = "idle"
  BY <1>2 DEF Found
<1>3. CASE stmt'[c] = stmt[c]
  BY <1>3 DEF Found, FoundOK
<1> QED
  BY <1>1, <1>2, <1>3

LEMMA BeginFound ==
  ASSUME TypeInv, NEW c \in Conns, Serial(c), Begin(c)
  PROVE  Found(c)'
<1>1. PICK s \in Scenario[scenario].menu[c] :
        /\ stmt' = [stmt EXCEPT ![c] = s]
        /\ pc' = [pc EXCEPT ![c] = CASE s.op = "define" -> "define_write"
                                     [] s.op = "search" -> "find"
                                     [] OTHER -> "load"]
        /\ loc' = [loc EXCEPT ![c].todo = IF s.op = "search" THEN s.kinds ELSE {}]
  BY DEF Begin
<1>2. loc[c] = Fresh
  BY DEF Serial, Begin, At
<1> DEFINE l == [Fresh EXCEPT !.todo = IF s.op = "search" THEN s.kinds ELSE {}]
<1>3. stmt'[c] = s /\ loc'[c] = l /\ pc'[c] \notin {"query_vector", "resolve"}
  BY <1>1, <1>2 DEF TypeInv, TypeOK
<1>4. s.op = "search" => l.todo = s.kinds
  BY DEF Fresh
<1> HIDE DEF l
<1>5. FoundOK(pc'[c], s, l, registry', docs')
  BY <1>3, <1>4 DEF FoundOK
<1> QED
  BY <1>3, <1>5 DEF Found

\* The points of a search.
LEMMA SearchPoints ==
  ASSUME TypeInv, NEW c \in Conns, Serial(c), pc[c] # "idle", stmt[c].op = "search"
  PROVE  pc[c] \in Opening \cup Loading \cup Searching \cup {"commit"}
<1>1. stmt[c] \in Statement /\ LocalOK(pc[c], stmt[c], loc[c]) /\ pc[c] \in Labels
  BY SerialNow, Known
<1>2. stmt[c].op \notin Writes /\ stmt[c].op \notin {"define", "remove"}
  BY OpsApart
<1>3. pc[c] \notin {"load", "scan", "batch_write", "row"}
  BY <1>1, <1>2, LocalAt
<1>4. pc[c] \notin Applying /\ pc[c] \notin Defining /\ pc[c] \notin Removing
  BY <1>1, <1>2 DEF LocalOK
<1>5. pc[c] # "add_text"
  BY <1>1, <1>2 DEF LocalOK
<1> QED
  BY <1>1, <1>3, <1>4, <1>5 DEF Labels, Applying, Defining, Removing, Opening, Loading, Rebuilding,
     Searching

\* A move of a search that is no query.
LEMMA FoundMove ==
  ASSUME NEW p, NEW q, NEW s, NEW l, NEW m, NEW reg, NEW d, FoundOK(p, s, l, reg, d),
         p \notin Loading, "vector" \in s.kinds \ m.todo => "vector" \in s.kinds \ l.todo,
         q \notin {"query_vector", "resolve"}
  PROVE  FoundOK(q, s, m, reg, d)
BY DEF FoundOK

LEMMA OpeningFound ==
  ASSUME TypeInv, NEW c \in Conns, Serial(c), Found(c), stmt[c].op = "search",
         EnsureText(c) \/ OpenText(c) \/ MarkOpen(c)
  PROVE  Found(c)'
<1> DEFINE s == stmt[c]
           l == loc[c]
<1>1. pc[c] \in Opening /\ pc[c] # "idle" /\ UNCHANGED <<docs, registry>>
  BY DEF EnsureText, OpenText, MarkOpen, At, Opening, durable, services, Fail
<1>2. l.ret = "find"
  <2>1. s \in Statement /\ LocalOK(pc[c], s, l)
    BY <1>1, SerialNow
  <2> QED
    BY <1>1, <2>1, LocalAt, OpsApart DEF OpeningOK
<1>3. pc[c] \notin Loading /\ FoundOK(pc[c], s, l, registry, docs)
  BY <1>1 DEF Found, Opening, Loading, Rebuilding
<1>4. (\E records : Return(c, records)) \/ \E q \in Opening \cup {"find"} : Goto(c, q, l)
  BY <1>2 DEF EnsureText, OpenText, MarkOpen, Fail, Opening
<1>5. ASSUME NEW q \in Opening \cup {"find"}, Goto(c, q, l)
      PROVE  Found(c)'
  <2>1. FoundOK(q, s, l, registry', docs')
    BY <1>1, <1>3, FoundMove DEF Opening
  <2> QED
    BY <1>5, <2>1, GotoFound
<1> QED
  BY <1>4, <1>5, ReturnFound

LEMMA LoadingFound ==
  ASSUME TypeInv, NEW c \in Conns, Serial(c), VectorExact(c), stmt[c].op = "search",
         EnsureVector(c) \/ RebuildLock(c) \/ RebuildScan(c) \/ RebuildInsert(c) \/ RebuildDone(c)
  PROVE  Found(c)'
<1> DEFINE s == stmt[c]
           l == loc[c]
<1>1. pc[c] \in Loading /\ (~EnsureVector(c) => pc[c] \in Rebuilding)
  BY DEF EnsureVector, RebuildLock, RebuildScan, RebuildInsert, RebuildDone, At, Loading, Rebuilding
<1>2. /\ l.ret = "find" /\ Name(c) \in Names
      /\ pc[c] \in Rebuilding => registry[Name(c)] \in Slots
  BY <1>1, LoadingNow, OpsApart
<1>3. NoSlot \notin Slots
  BY ConstantsAssumption
<1>4. PICK q, m : /\ Goto(c, q, m) /\ q \in Loading \cup {"find"}
                  /\ q \notin Loading => registry'[Name(c)] # NoSlot
  <2>1. CASE EnsureVector(c)
    <3>1. \/ \E m : Goto(c, "rebuild_lock", m)
          \/ Goto(c, "find", l) /\ registry[Name(c)] # NoSlot /\ UNCHANGED services
      BY <1>2, <2>1 DEF EnsureVector
    <3> QED
      BY <3>1 DEF Loading, Rebuilding, services
  <2>2. CASE RebuildLock(c)
    <3>1. registry' = registry /\ registry[Name(c)] # NoSlot
      BY <1>1, <1>2, <1>3, <2>2 DEF RebuildLock, services, Rebuilding, At
    <3>2. \E q, m : Goto(c, q, m) /\ q \in {"find", "rebuild_scan"}
      BY <1>2, <2>2 DEF RebuildLock
    <3> QED
      BY <3>1, <3>2 DEF Loading, Rebuilding
  <2>3. CASE RebuildScan(c)
    BY <2>3 DEF RebuildScan, Loading, Rebuilding
  <2>4. CASE RebuildInsert(c)
    BY <2>4 DEF RebuildInsert, Loading, Rebuilding
  <2>5. CASE RebuildDone(c)
    <3>1. registry' = registry /\ registry[Name(c)] # NoSlot
      BY <1>1, <1>2, <1>3, <2>5 DEF RebuildDone, Rebuilding, At
    <3>2. \E m : Goto(c, "find", m)
      BY <1>2, <2>5 DEF RebuildDone
    <3> QED
      BY <3>1, <3>2
  <2> QED
    BY <2>1, <2>2, <2>3, <2>4, <2>5
<1>5. FoundOK(q, s, m, registry', docs')
  BY <1>4 DEF FoundOK, Name, Loading, Rebuilding
<1> QED
  BY <1>4, <1>5, GotoFound

LEMMA FindFound ==
  ASSUME TypeInv, NEW c \in Conns, Serial(c), Found(c), Find(c)
  PROVE  Found(c)'
<1> DEFINE s == stmt[c]
           l == loc[c]
<1>1. pc[c] = "find" /\ UNCHANGED <<docs, registry>>
  BY DEF Find, At, durable, services, Fail
<1>2. /\ s \in Statement /\ s.op = "search" /\ s.kinds \subseteq Kinds /\ s.kinds # {} /\ l \in Local
      /\ SearchOK("find", s, l, catalog)
  BY <1>1, SerialNow, LocalAt, StatementShape DEF Searching
<1>3. "find" \notin Loading /\ FoundOK("find", s, l, registry, docs) /\ l.hits = {} /\ l.todo \subseteq Kinds
  BY <1>1, <1>2 DEF Found, Loading, Rebuilding, SearchOK, Labels
<1>4. CASE Fail(c)
  BY <1>4, ReturnFound DEF Fail
<1>5. CASE Goto(c, "query_text", l)
  <2>1. FoundOK("query_text", s, l, registry', docs')
    BY <1>1, <1>3, FoundMove
  <2> QED
    BY <1>5, <2>1, GotoFound
<1>6. CASE "text" \notin s.kinds /\ Goto(c, "query_vector", l)
  <2>1. FoundOK("query_vector", s, l, registry', docs')
    BY <1>1, <1>3, <1>6 DEF FoundOK
  <2> QED
    BY <1>6, <2>1, GotoFound
<1>7. CASE Goto(c, "ensure_text", [l EXCEPT !.todo = @ \ {"text"}, !.ret = "find"])
  <2> DEFINE m == [l EXCEPT !.todo = @ \ {"text"}, !.ret = "find"]
  <2>1. m.todo = l.todo \ {"text"}
    BY <1>2 DEF Local
  <2> HIDE DEF m
  <2>2. FoundOK("ensure_text", s, m, registry', docs')
    BY <1>1, <1>3, <2>1, FoundMove
  <2> QED
    BY <1>7, <2>2, GotoFound DEF m
<1>8. ASSUME NEW m, Goto(c, "ensure_vector", m) PROVE Found(c)'
  <2>1. FoundOK("ensure_vector", s, m, registry', docs')
    BY DEF FoundOK, Loading
  <2> QED
    BY <1>8, <2>1, GotoFound
<1>9. CASE l.todo = {}
  <2>1. Goto(c, IF "text" \in s.kinds THEN "query_text" ELSE "query_vector", l)
    BY <1>9 DEF Find
  <2> QED
    BY <1>5, <1>6, <2>1
<1>10. CASE l.todo # {} /\ "text" \in l.todo
  <2>1. Fail(c) \/ Goto(c, "ensure_text", [l EXCEPT !.todo = @ \ {"text"}, !.ret = "find"])
    BY <1>10 DEF Find
  <2> QED
    BY <1>4, <1>7, <2>1
<1>11. CASE l.todo # {} /\ "text" \notin l.todo
  <2>1. Fail(c) \/ Goto(c, "ensure_vector", [l EXCEPT !.todo = @ \ {"vector"}, !.ret = "find"])
    BY <1>11 DEF Find
  <2> QED
    BY <1>4, <1>8, <2>1
<1> QED
  BY <1>9, <1>10, <1>11

\* A query reads a committed full-text index that holds the stored texts.
LEMMA QueriedText ==
  ASSUME TypeInv, NEW c \in Conns, TextExact(c), pc[c] # "idle", stmt[c].op = "search",
         NEW r \in Recs, "text" \in catalog[r[1]]
  PROVE  OnDisk(fts, r) = Want(docs[r])
<1>1. stmt[c].op \notin Writes /\ stmt[c].op # "define"
  BY OpsApart
<1>2. /\ ~TextDue(pc[c], stmt[c], loc[c], r) /\ ~Unflushed(pc[c], stmt[c], loc[c], r)
      /\ ~Backfilled(pc[c], stmt[c], loc[c], r, fts, docs)
  BY <1>1, NothingDue
<1>3. /\ TextSynced(r, pc[c], stmt[c], loc[c], fts, docs)
      /\ Flushed(r, pc[c], stmt[c], loc[c], fts)
  BY DEF TextExact, TextOK
<1> QED
  BY <1>2, <1>3 DEF TextSynced, Flushed

LEMMA QueryTextFound ==
  ASSUME TypeInv, NEW c \in Conns, Serial(c), TextExact(c), Found(c), QueryText(c)
  PROVE  Found(c)'
<1> DEFINE s == stmt[c]
           l == loc[c]
           t == s.table
           found == {k \in Keys : \E j \in DOMAIN fts[t].disk[k] : fts[t].disk[k][j] = s.text}
<1>1. pc[c] = "query_text" /\ UNCHANGED <<docs, registry>>
  BY DEF QueryText, At, durable, services, Fail
<1>2. /\ s \in Statement /\ s.op = "search" /\ t \in Tables /\ l \in Local /\ s.text \in Texts
      /\ SearchOK("query_text", s, l, catalog)
  BY <1>1, SerialNow, LocalAt, StatementShape DEF Searching
<1>3. "text" \in s.kinds /\ "text" \in catalog[t] /\ l.todo = {}
  BY <1>2 DEF SearchOK
<1>4. FoundOK("query_text", s, l, registry, docs) /\ "query_text" \notin Loading
  BY <1>1 DEF Found, Loading, Rebuilding
<1>5. ASSUME NEW k \in Keys
      PROVE  k \in found <=> docs[<<t, k>>] # NoDoc /\ docs[<<t, k>>].text = s.text
  <2>1. <<t, k>> \in Recs /\ "text" \in catalog[<<t, k>>[1]]
    BY <1>2, <1>3 DEF Recs
  <2>2. OnDisk(fts, <<t, k>>) = Want(docs[<<t, k>>])
    BY <1>1, <1>2, <2>1, QueriedText
  <2>3. fts[t].disk[k] = Want(docs[<<t, k>>])
    BY <2>2 DEF OnDisk
  <2>4. s.text # None
    BY <1>2, ConstantsAssumption
  <2>5. CASE docs[<<t, k>>] # NoDoc /\ docs[<<t, k>>].text # None
    <3>1. fts[t].disk[k] = <<docs[<<t, k>>].text>>
      BY <2>3, <2>5 DEF Want
    <3> QED
      BY <2>5, <3>1
  <2>6. CASE ~(docs[<<t, k>>] # NoDoc /\ docs[<<t, k>>].text # None)
    <3>1. fts[t].disk[k] = <<>>
      BY <2>3, <2>6 DEF Want
    <3> QED
      BY <2>4, <2>6, <3>1
  <2> QED
    BY <2>5, <2>6
<1> DEFINE m == [l EXCEPT !.hits = found]
<1>6. m.todo = l.todo /\ m.hits = found
  BY <1>2 DEF Local
<1>7. Fail(c) \/ Goto(c, IF "vector" \in s.kinds THEN "query_vector" ELSE "resolve", m)
  BY DEF QueryText
<1> HIDE DEF m, found
<1>8. CASE "vector" \in s.kinds
  <2>1. FoundOK("query_vector", s, m, registry', docs')
    BY <1>1, <1>3, <1>4, <1>5, <1>6 DEF FoundOK
  <2> QED
    BY <1>7, <1>8, <2>1, GotoFound, ReturnFound DEF Fail
<1>9. CASE "vector" \notin s.kinds
  <2>1. FoundOK("resolve", s, m, registry', docs')
    BY <1>1, <1>3, <1>5, <1>6, <1>9 DEF FoundOK
  <2> QED
    BY <1>7, <1>9, <2>1, GotoFound, ReturnFound DEF Fail
<1> QED
  BY <1>8, <1>9

LEMMA QueryVectorFound ==
  ASSUME TypeInv, NEW c \in Conns, Serial(c), VectorExact(c), Found(c), QueryVector(c)
  PROVE  Found(c)'
<1> DEFINE s == stmt[c]
           l == loc[c]
           t == s.table
           e == registry[Name(c)]
           held == {k \in Keys : heap[e].vecs[k] # None}
<1>1. pc[c] = "query_vector" /\ UNCHANGED <<docs, registry>>
  BY DEF QueryVector, At, durable, services, Fail
<1>2. /\ s \in Statement /\ s.op = "search" /\ t \in Tables /\ l \in Local
      /\ SearchOK("query_vector", s, l, catalog)
  BY <1>1, SerialNow, LocalAt, StatementShape DEF Searching
<1>3. "vector" \in s.kinds /\ "vector" \in catalog[t] /\ l.todo = {}
  BY <1>2 DEF SearchOK
<1>4. FoundOK("query_vector", s, l, registry, docs) /\ "query_vector" \notin Rebuilding
  BY <1>1 DEF Found, Rebuilding
<1>5. TableOf(s) = t
  <2>1. "rec" \notin DOMAIN s
    BY <1>2, StatementShape
  <2> QED
    BY <2>1 DEF TableOf
<1>6. VectorSettled(registry, heap, docs, catalog)
  BY <1>1, <1>2, <1>4, OpsApart, IdleVector
<1>7. ASSUME e # NoSlot, NEW k \in Keys
      PROVE  k \in held <=> Embedded(docs[<<t, k>>])
  <2>1. /\ <<t, k>> \in Recs /\ "vector" \in catalog[<<t, k>>[1]]
        /\ Entry(<<t, k>>, registry) = e
    BY <1>2, <1>3, <1>5 DEF Recs, Entry, Name
  <2>2. heap[e].vecs[k] = Kept(docs[<<t, k>>])
    BY <1>6, <1>7, <2>1 DEF VectorSettled
  <2>3. Embedded(docs[<<t, k>>]) => docs[<<t, k>>].vec # None
    BY ConstantsAssumption DEF Embedded
  <2> QED
    BY <2>2, <2>3 DEF Kept
<1> DEFINE m == [l EXCEPT !.hits = @ \cup held]
<1>8. m.todo = l.todo /\ m.hits = l.hits \cup held
  BY <1>2 DEF Local
<1>9. Fail(c) \/ (e # NoSlot /\ Goto(c, "resolve", m))
  BY DEF QueryVector
<1> HIDE DEF m, held
<1>10. ASSUME e # NoSlot PROVE FoundOK("resolve", s, m, registry', docs')
  <2>1. registry[VectorName[TableOf(s)]] # NoSlot
    BY <1>10 DEF Name
  <2>2. \A k \in Keys : k \in m.hits <=> \/ "text" \in s.kinds /\ docs[<<t, k>>] # NoDoc
                                            /\ docs[<<t, k>>].text = s.text
                                         \/ "vector" \in s.kinds /\ Embedded(docs[<<t, k>>])
    BY SMTT(30), <1>2, <1>3, <1>4, <1>7, <1>8, <1>10 DEF FoundOK
  <2> QED
    BY <1>1, <2>1, <2>2 DEF FoundOK
<1> QED
  BY <1>9, <1>10, GotoFound, ReturnFound DEF Fail

LEMMA StepsUnderWay ==
  ASSUME NEW c \in Conns, Step(c)
  PROVE  pc[c] # "idle"
BY ZenonT(60) DEF Step, At, Load, Scan, BatchWrite, Row, RowsDone, Reread, Maintain, EnsureText, OpenText,
   MarkOpen, DeleteText, AddText, Commit, EnsureVector, RebuildLock, RebuildScan, RebuildInsert,
   RebuildDone, InsertVector, VectorExists, RemoveVector, DefineWrite, Register, BackfillScan,
   Backfill, BackfillDone, SetLoaded, RemoveWrite, DropVector, DropText, UnmarkOpen, Find,
   QueryText, QueryVector, Resolve

LEMMA FoundStep ==
  ASSUME TypeInv, NEW c \in Conns, Serial(c), TextExact(c), VectorExact(c), Found(c),
         Begin(c) \/ Step(c)
  PROVE  Found(c)'
<1>1. CASE Begin(c)
  BY <1>1, BeginFound
<1>2. CASE Step(c) /\ stmt[c].op # "search"
  BY <1>2, OtherFound
<1>3. ASSUME Step(c), stmt[c].op = "search", pc[c] # "idle"
      PROVE  Found(c)'
  <2>1. pc[c] \in Opening \cup Loading \cup Searching \cup {"commit"}
    BY <1>3, SearchPoints
  <2>2. CASE Commit(c) \/ Resolve(c)
    BY SMTT(30), <2>2, ReturnFound DEF Commit, Resolve, Ok
  <2>3. \/ EnsureText(c) \/ OpenText(c) \/ MarkOpen(c)
        \/ EnsureVector(c) \/ RebuildLock(c) \/ RebuildScan(c) \/ RebuildInsert(c) \/ RebuildDone(c)
        \/ Find(c) \/ QueryText(c) \/ QueryVector(c) \/ Resolve(c) \/ Commit(c)
    BY ZenonT(60), <1>3, <2>1 DEF Step, At, Opening, Loading, Rebuilding, Searching, Load, Scan, BatchWrite, Row,
       RowsDone, Reread, Maintain, DeleteText, AddText, InsertVector, VectorExists, RemoveVector,
       DefineWrite, Register, BackfillScan, Backfill, BackfillDone, SetLoaded, RemoveWrite,
       DropVector, DropText, UnmarkOpen
  <2> QED
    BY <1>3, <2>2, <2>3, OpeningFound, LoadingFound, FindFound, QueryTextFound, QueryVectorFound
<1>4. CASE Step(c) /\ pc[c] = "idle"
  BY <1>4, StepsUnderWay
<1> QED
  BY <1>1, <1>2, <1>3, <1>4

-----------------------------------------------------------------------------
(* The theorem *)

\* Whoever sends statements is the only one.
LEMMA OnlyOne ==
  ASSUME Alone, NEW c \in Conns, Scenario[scenario].menu[c] # {},
         NEW d \in Conns, Scenario[scenario].menu[d] # {}
  PROVE  d = c
<1> DEFINE S == {e \in Conns : Scenario[scenario].menu[e] # {}}
<1>1. IsFiniteSet(S) /\ Cardinality(S) = 1
  BY FS_Subset, ConstantsAssumption DEF Alone
<1>2. PICK x : S = {x}
  BY <1>1, FS_Singleton
<1> QED
  BY <1>2

LEMMA SequentialInit ==
  ASSUME Init
  PROVE  SequentialInv
<1>1. \A c \in Conns : pc[c] = "idle" /\ stmt[c] = NoStmt /\ loc[c] = Fresh
  BY DEF Init
<1>2. ASSUME NEW c \in Conns PROVE Serial(c) /\ Found(c)
  BY <1>1 DEF Serial, Found
<1>3. ASSUME NEW c \in Conns PROVE TextExact(c)
  <2>1. \A u \in Tables : ~fts[u].handle /\ fts[u].disk = NothingHeld /\ fts[u].staged = NothingHeld
    BY DEF Init
  <2>2. \A r \in Recs : r[1] \in Tables /\ r[2] \in Keys
    BY DEF Recs
  <2>3. \A r \in Recs : Staged(fts, r) = <<>> /\ OnDisk(fts, r) = <<>>
    BY <2>1, <2>2 DEF Staged, OnDisk, NothingHeld
  <2>4. \A r \in Recs : Want(docs[r]) = <<>>
    BY DEF Init, Want
  <2>5. fts_open = {}
    BY DEF Init
  <2>6. HandlesOK("idle", NoStmt, fts, fts_open)
    BY <2>1, <2>5 DEF HandlesOK
  <2>7. EmptyOK("idle", NoStmt, fts, catalog)
    BY <2>1 DEF EmptyOK, NothingHeld
  <2>8. AddingOK("idle", NoStmt, Fresh, fts, docs) /\ TextsOK("idle", NoStmt, Fresh, docs)
    BY DEF AddingOK, TextsOK
  <2> QED
    BY <1>1, <2>1, <2>3, <2>4, <2>6, <2>7, <2>8 DEF TextExact, TextOK, TextSynced, Flushed
<1>4. ASSUME NEW c \in Conns PROVE VectorExact(c)
  <2>1. \A t \in Tables : registry[VectorName[t]] = NoSlot
    BY DEF Init, Names
  <2>2. \A r \in Recs : Entry(r, registry) = NoSlot
    BY <2>1 DEF Entry, Recs
  <2>3. OneName(registry)
    BY DEF OneName, Init
  <2>4. VectorSettled(registry, heap, docs, catalog)
    BY <2>1, <2>2, <2>3 DEF VectorSettled
  <2>5. "idle" \notin Rebuilding /\ ~DefinesVector("idle", NoStmt)
    BY DEF Rebuilding, DefinesVector
  <2> QED
    BY <1>1, <2>4, <2>5, VectorAtRest DEF VectorExact
<1> QED
  BY <1>1, <1>2, <1>3, <1>4 DEF SequentialInv

LEMMA SequentialStep ==
  ASSUME TypeInv, SequentialInv, OwnNames, Steady, Alone, NEW c \in Conns, Begin(c) \/ Step(c)
  PROVE  SequentialInv'
<1>1. scenario' = scenario
  BY ScenarioKept
<1>2. Scenario[scenario].menu[c] # {}
  <2>1. CASE Begin(c)
    BY <2>1 DEF Begin
  <2>2. CASE Step(c)
    BY <2>2, StepsUnderWay DEF SequentialInv
  <2> QED
    BY <2>1, <2>2
<1>3. Serial(c) /\ TextExact(c) /\ VectorExact(c) /\ Found(c)
  BY <1>2 DEF SequentialInv
<1>4. pc[c] # "idle" => Even(stmt[c])
  <2>1. pc[c] # "idle" => stmt[c] \in Scenario[scenario].menu[c]
    BY <1>3 DEF Serial
  <2>2. \A s \in Scenario[scenario].menu[c] : Even(s)
    BY DEF Steady, Alone, Even, TypeInv
  <2> QED
    BY <2>1, <2>2
<1>5. Serial(c)' /\ TextExact(c)' /\ VectorExact(c)' /\ Found(c)'
  BY <1>3, <1>4, SerialStep, TextExactStep, VectorExactStep, FoundStep
<1>6. \A d \in Conns : d # c => pc'[d] = pc[d]
  <2>1. CASE Begin(c)
    BY <2>1 DEF Begin, TypeInv, TypeOK
  <2>2. CASE Step(c)
    BY <2>2, StepMoves DEF Moves
  <2> QED
    BY <2>1, <2>2
<1>7. ASSUME NEW d \in Conns, Scenario[scenario'].menu[d] = {} PROVE pc'[d] = "idle"
  BY <1>1, <1>2, <1>6, <1>7 DEF SequentialInv
<1>8. ASSUME NEW d \in Conns, Scenario[scenario'].menu[d] # {}
      PROVE  Serial(d)' /\ TextExact(d)' /\ VectorExact(d)' /\ Found(d)'
  <2>1. d = c
    BY <1>1, <1>2, <1>8, OnlyOne
  <2> QED
    BY <1>5, <2>1
<1> QED
  BY <1>7, <1>8 DEF SequentialInv

LEMMA SequentialNext ==
  ASSUME TypeInv, SequentialInv, OwnNames, Steady, [Next]_vars
  PROVE  SequentialInv'
<1>1. CASE UNCHANGED vars
  <2>1. UNCHANGED <<docs, catalog, fts, fts_open, registry, heap, pc, stmt, loc, scenario>>
    BY <1>1 DEF vars, durable, services
  <2>2. Alone' <=> Alone
    BY <2>1 DEF Alone
  <2>3. ASSUME NEW c \in Conns
        PROVE  /\ Serial(c)' <=> Serial(c)
               /\ TextExact(c)' <=> TextExact(c)
               /\ VectorExact(c)' <=> VectorExact(c)
               /\ Found(c)' <=> Found(c)
    BY <2>1 DEF Serial, TextExact, VectorExact, Found
  <2> QED
    BY <2>1, <2>2, <2>3 DEF SequentialInv
<1>2. CASE Next
  <2>1. scenario' = scenario
    BY <1>2, ScenarioKept DEF Next, Crash
  <2>2. Alone' <=> Alone
    BY <2>1 DEF Alone
  <2>3. CASE ~Alone
    BY <2>2, <2>3 DEF SequentialInv
  <2>4. CASE Alone
    <3>1. ~Crash
      BY <2>4 DEF Steady, Alone, Crash, TypeInv
    <3> QED
      BY <1>2, <2>4, <3>1, SequentialStep DEF Next
  <2> QED
    BY <2>3, <2>4
<1> QED
  BY <1>1, <1>2

\* With one connection a search answers like a scan of the table (SearchExact),
\* whatever was written, deleted, indexed and dropped before it: text matches from
\* the committed full-text index, embeddings from the vector index that was rebuilt
\* or kept up to date.  Tables name their vector indexes differently, the process
\* does not crash, and a record does not change to an embedding of another
\* dimension (Steady).
THEOREM SearchesAreExact == OwnNames /\ Steady => (Spec => SearchExact)
<1> SUFFICES ASSUME OwnNames, Steady
             PROVE  Spec => SearchExact
  OBVIOUS
<1>1. ASSUME TypeInv, SequentialInv, NEW c \in Conns, Alone, Resolve(c)
      PROVE  Rows(c) = {r \in Stored(stmt[c].table) :
                          \/ "text" \in stmt[c].kinds /\ docs[r].text = stmt[c].text
                          \/ "vector" \in stmt[c].kinds /\ docs[r].vec \in Vecs}
  <2>1. pc[c] = "resolve"
    BY <1>1 DEF Resolve, At
  <2>2. Serial(c) /\ Found(c)
    BY <1>1, <2>1 DEF SequentialInv
  <2>3. stmt[c].op = "search"
    BY <1>1, <2>1, <2>2, SerialNow, LocalAt DEF Searching
  <2>4. \A k \in Keys : LET doc == docs[<<stmt[c].table, k>>] IN
          k \in loc[c].hits <=> \/ "text" \in stmt[c].kinds /\ doc # NoDoc /\ doc.text = stmt[c].text
                                \/ "vector" \in stmt[c].kinds /\ Embedded(doc)
    BY <2>1, <2>2, <2>3 DEF Found, FoundOK
  <2>5. \A r \in Stored(stmt[c].table) : r[2] \in Keys /\ r = <<stmt[c].table, r[2]>> /\ docs[r] # NoDoc
    BY DEF Stored, Recs
  <2> QED
    BY <2>4, <2>5 DEF Rows, Embedded
<1>2. TypeInv /\ SequentialInv /\ [Next]_vars =>
        [\A c \in Conns : Alone /\ Resolve(c) =>
           Rows(c) = {r \in Stored(stmt[c].table) :
                        \/ "text" \in stmt[c].kinds /\ docs[r].text = stmt[c].text
                        \/ "vector" \in stmt[c].kinds /\ docs[r].vec \in Vecs}]_vars
  BY <1>1
<1>3. Init => SequentialInv
  BY SequentialInit
<1>4. TypeInv /\ SequentialInv /\ [Next]_vars => SequentialInv'
  BY SequentialNext
<1> QED
  BY <1>2, <1>3, <1>4, TypeInvAlways, PTL DEF Spec, SearchExact
=============================================================================
