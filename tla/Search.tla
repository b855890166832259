------------------------------- MODULE Search -------------------------------
(***************************************************************************)
(* Full-text and vector indexes beside the document store: the shared      *)
(* SearchServices, and the statements that write records, define, remove   *)
(* and query such indexes.                                                 *)
(*                                                                         *)
(* A step is one storage transaction, one lock scope of SearchServices or  *)
(* one operation under the lock of a single index.  The storage part of a  *)
(* write is one step here; module Documents has its transactions.          *)
(***************************************************************************)
EXTENDS Naturals, Sequences, FiniteSets

CONSTANTS
  Conns,       \* server connections
  Tables,
  Keys,        \* record ids within a table
  Texts,       \* texts, a query matches the records with that text
  Vecs,        \* embeddings of the dimension of the vector indexes
  OddVecs,     \* embeddings of another dimension
  VectorName,  \* the name of the vector index of each table
  Slots,       \* vector entries in memory, a range 1 .. n
  NoSlot, NoConn, NoStmt, None, NoDoc,
  Scenario     \* the situations to explore: the statements each connection may
               \* send, the catalog to start with, whether the process may crash

Names == {VectorName[t] : t \in Tables}
Recs == Tables \X Keys
Doc == [text : Texts \cup {None}, vec : Vecs \cup OddVecs \cup {None}]
Kinds == {"text", "vector"}

Statement ==
       [op : {"create", "upsert", "update"}, rec : Recs, doc : Doc]
  \cup [op : {"delete"}, rec : Recs]
  \cup [op : {"update_all"}, table : Tables, doc : Doc]
  \cup [op : {"delete_all"}, table : Tables]
  \cup [op : {"batch"}, table : Tables, items : [Keys -> Doc \cup {NoDoc}]]
  \cup [op : {"define", "remove"}, kind : Kinds, table : Tables]
  \cup [op : {"search"}, kinds : (SUBSET Kinds) \ {{}}, table : Tables,
        text : Texts, vec : Vecs \cup OddVecs]

Labels == {"idle", "load", "scan", "batch_write", "row", "reread", "maintain",
           "ensure_text", "open_text", "mark_open", "delete_text", "add_text",
           "ensure_vector", "rebuild_lock", "rebuild_scan", "rebuild_insert",
           "insert_vector", "vector_exists", "remove_vector", "commit",
           "define_write", "register", "backfill_scan", "backfill", "set_loaded",
           "remove_write", "drop_vector", "drop_text", "unmark_open",
           "find", "query_text", "query_vector", "resolve"}

ASSUME ConstantsAssumption ==
  /\ Slots = 1 .. Cardinality(Slots)
  /\ NoSlot \notin Slots /\ NoConn \notin Conns /\ IsFiniteSet(Conns)
  /\ None \notin Texts \cup Vecs \cup OddVecs /\ NoDoc \notin Doc
  /\ Vecs \cap OddVecs = {}
  /\ \A i \in DOMAIN Scenario :
       /\ Scenario[i].catalog \in [Tables -> SUBSET Kinds]
       /\ \A c \in Conns : Scenario[i].menu[c] \subseteq Statement

VARIABLES
  docs,      \* the stored records
  catalog,   \* the kinds of search index each table has, persisted
  fts_open,  \* tables whose full-text index is marked open
  fts,       \* per table: handle (in FtsManager), disk (committed), staged
  registry,  \* vectors: the entry registered under a name
  heap,      \* the entries: vectors by key, loaded flag, rebuild lock
  pc, stmt, loc,  \* per connection
  acked,     \* history: records whose last write was indexed and answered
  scenario   \* the situation of this behaviour

durable == <<docs, catalog>>
services == <<fts_open, fts, registry, heap>>
vars == <<durable, services, pc, stmt, loc, acked, scenario>>

\* What the index of a table holds for a key: the texts added and not deleted.
Held == [Keys -> Seq(Texts)]
NothingHeld == [k \in Keys |-> <<>>]

NewEntry == [vecs |-> [k \in Keys |-> None], loaded |-> FALSE, lock |-> NoConn]

Local ==
  [defs : SUBSET Kinds,             \* the definitions the statement loaded
   rows : SUBSET Recs,              \* records still to be processed
   touched : BOOLEAN,               \* anything to commit?
   done : SUBSET Recs,              \* history: records maintained so far
   cur  : Recs \cup {None},
   doc  : Doc \cup {NoDoc},         \* the record as re-read; NoDoc for a delete
   todo : SUBSET Kinds,
   ret  : Labels,                   \* where an ensure_* call returns to
   ent  : Slots \cup {NoSlot},      \* the VectorEntry held
   fill : SUBSET (Keys \X (Texts \cup Vecs \cup OddVecs)),  \* backfill left
   hits : SUBSET Keys]

Fresh == [defs |-> {}, rows |-> {}, touched |-> FALSE, done |-> {}, cur |-> None,
          doc |-> NoDoc, todo |-> {}, ret |-> "idle", ent |-> NoSlot, fill |-> {},
          hits |-> {}]

-----------------------------------------------------------------------------
(* Control *)

At(c, label) == pc[c] = label

TableOf(s) == IF "rec" \in DOMAIN s THEN s.rec[1] ELSE s.table

\* The records whose index content a statement may change.
Targets(s) ==
  CASE s.op \in {"create", "upsert", "update", "delete"} -> {s.rec}
    [] s.op = "batch" -> {r \in Recs : r[1] = s.table /\ s.items[r[2]] # NoDoc}
    [] s.op = "search" -> {}
    [] OTHER -> {r \in Recs : r[1] = s.table}

Stored(t) == {r \in Recs : r[1] = t /\ docs[r] # NoDoc}

Goto(c, label, l) ==
  /\ pc' = [pc EXCEPT ![c] = label]
  /\ loc' = [loc EXCEPT ![c] = l]
  /\ UNCHANGED <<stmt, acked, scenario>>

\* The handler returns; its records count as acknowledged if it succeeded.
Return(c, records) ==
  /\ pc' = [pc EXCEPT ![c] = "idle"]
  /\ stmt' = [stmt EXCEPT ![c] = NoStmt]
  /\ loc' = [loc EXCEPT ![c] = Fresh]
  /\ acked' = acked \cup records
  /\ UNCHANGED scenario

Ok(c) == Return(c, loc[c].done)

\* An error leaves the handler at once; what it has written stays.
Fail(c) == Return(c, {}) /\ UNCHANGED <<durable, services>>

Init ==
  /\ docs = [r \in Recs |-> NoDoc]
  /\ scenario \in DOMAIN Scenario
  /\ catalog = Scenario[scenario].catalog
  /\ fts_open = {}
  /\ fts = [t \in Tables |-> [handle |-> FALSE, disk |-> NothingHeld, staged |-> NothingHeld]]
  /\ registry = [n \in Names |-> NoSlot]
  /\ heap = [e \in Slots |-> NewEntry]
  /\ pc = [c \in Conns |-> "idle"]
  /\ stmt = [c \in Conns |-> NoStmt]
  /\ loc = [c \in Conns |-> Fresh]
  /\ acked = {}

Begin(c) ==
  /\ At(c, "idle")
  /\ \E s \in Scenario[scenario].menu[c] :
       /\ stmt' = [stmt EXCEPT ![c] = s]
       /\ pc' = [pc EXCEPT ![c] = CASE s.op = "define" -> "define_write"
                                    [] s.op = "search" -> "find"
                                    [] OTHER -> "load"]
       /\ loc' = [loc EXCEPT ![c].todo = IF s.op = "search" THEN s.kinds ELSE {}]
       /\ acked' = acked \ Targets(s)
  /\ UNCHANGED <<durable, services, scenario>>

-----------------------------------------------------------------------------
(* Statements that write records *)

\* Collection::load, or the index cache of a batch.
Load(c) ==
  LET s == stmt[c] IN
  /\ At(c, "load")
  /\ Goto(c, CASE s.op \in {"update_all", "delete_all"} -> "scan"
               [] s.op = "batch" -> "batch_write"
               [] s.op = "remove" -> "remove_write"
               [] OTHER -> "row",
          [loc[c] EXCEPT !.defs = catalog[TableOf(s)],
                         !.rows = IF "rec" \in DOMAIN s THEN {s.rec} ELSE {}])
  /\ UNCHANGED <<durable, services>>

Scan(c) ==
  /\ At(c, "scan")
  /\ Goto(c, "row", [loc[c] EXCEPT !.rows = Stored(stmt[c].table)])
  /\ UNCHANGED <<durable, services>>

\* The one write of a batch.  Records are maintained only if their table has a
\* search index.
BatchWrite(c) ==
  LET s == stmt[c] IN
  /\ At(c, "batch_write")
  /\ docs' = [r \in Recs |-> IF r \in Targets(s) THEN s.items[r[2]] ELSE docs[r]]
  /\ Goto(c, "row", [loc[c] EXCEPT !.rows = IF loc[c].defs # {} THEN Targets(s) ELSE {},
                                   !.touched = loc[c].defs # {}])
  /\ UNCHANGED <<catalog, services>>

\* Write the next record; a deleted one is maintained as it is, a written one is
\* read again first.
Row(c) ==
  LET s == stmt[c]
      l == loc[c]
  IN /\ At(c, "row")
     /\ \E r \in l.rows :
          LET next == [l EXCEPT !.rows = @ \ {r}, !.cur = r]
              exists == docs[r] # NoDoc
          IN \/ /\ s.op \in {"create", "upsert", "update", "update_all"}
                /\ s.op = "create" => ~exists
                /\ s.op \in {"update", "update_all"} => exists
                /\ docs' = [docs EXCEPT ![r] = s.doc]
                /\ Goto(c, "reread", next)
                /\ UNCHANGED <<catalog, services>>
             \/ /\ s.op \in {"delete", "delete_all"}
                /\ exists
                /\ docs' = [docs EXCEPT ![r] = NoDoc]
                /\ Goto(c, "maintain", [next EXCEPT !.doc = NoDoc, !.touched = TRUE,
                                                    !.todo = l.defs])
                /\ UNCHANGED <<catalog, services>>
             \/ /\ s.op = "batch"
                /\ Goto(c, "reread", next)
                /\ UNCHANGED <<durable, services>>
             \/ /\ s.op \in {"update", "delete", "delete_all"}
                /\ ~exists
                /\ Goto(c, "row", next)
                /\ UNCHANGED <<durable, services>>
             \/ /\ IF s.op = "create" THEN exists ELSE s.op = "update_all" /\ ~exists
                /\ Fail(c)

\* All records are processed: commit the full-text writes, if there can be any.
RowsDone(c) ==
  /\ At(c, "row")
  /\ loc[c].rows = {}
  /\ IF loc[c].touched THEN Goto(c, "commit", loc[c]) ELSE Ok(c)
  /\ UNCHANGED <<durable, services>>

\* The document to index is what storage holds now, not what was written.
Reread(c) ==
  LET l == loc[c]
      found == docs[l.cur] # NoDoc
  IN /\ At(c, "reread")
     /\ Goto(c, IF found THEN "maintain" ELSE "row",
             [l EXCEPT !.doc = docs[l.cur],
                       !.todo = IF found THEN l.defs ELSE {},
                       !.touched = l.touched \/ found \/ stmt[c].op = "update_all"])
     /\ UNCHANGED <<durable, services>>

HasText(l) == l.doc # NoDoc /\ l.doc.text # None
HasVector(l) == l.doc # NoDoc /\ l.doc.vec # None

\* maintain_search_indexes: one definition after the other.
Maintain(c) ==
  LET l == loc[c] IN
  /\ At(c, "maintain")
  /\ UNCHANGED <<durable, services>>
  /\ \/ /\ l.todo = {}
        /\ Goto(c, "row", [l EXCEPT !.done = @ \cup {l.cur}])
     \/ /\ "text" \in l.todo
        /\ Goto(c, "ensure_text", [l EXCEPT !.todo = @ \ {"text"}, !.ret = "delete_text"])
     \/ /\ "vector" \in l.todo
        /\ Goto(c, IF HasVector(l) THEN "ensure_vector" ELSE "vector_exists",
                [l EXCEPT !.todo = @ \ {"vector"}, !.ret = "insert_vector"])

-----------------------------------------------------------------------------
(* Full text *)

EnsureText(c) ==
  /\ At(c, "ensure_text")
  /\ Goto(c, IF TableOf(stmt[c]) \in fts_open THEN loc[c].ret ELSE "open_text", loc[c])
  /\ UNCHANGED <<durable, services>>

\* FtsManager::define_index.  Tantivy's directory lock admits one writer: the
\* directory cannot be opened while another handle lives.
OpenText(c) ==
  LET t == TableOf(stmt[c]) IN
  /\ At(c, "open_text")
  /\ IF fts[t].handle THEN Fail(c)
     ELSE /\ fts' = [fts EXCEPT ![t].handle = TRUE, ![t].staged = fts[t].disk]
          /\ Goto(c, "mark_open", loc[c])
          /\ UNCHANGED <<durable, fts_open, registry, heap>>

MarkOpen(c) ==
  /\ At(c, "mark_open")
  /\ fts_open' = fts_open \cup {TableOf(stmt[c])}
  /\ Goto(c, loc[c].ret, loc[c])
  /\ UNCHANGED <<durable, fts, registry, heap>>


\* Mutant of DeleteText: the old text of an updated record is kept.
DeleteTextOnlyNone(c) ==
  LET t == TableOf(stmt[c])
      k == loc[c].cur[2]
  IN /\ At(c, "delete_text")
     /\ fts' = [fts EXCEPT ![t].staged[k] = IF HasText(loc[c]) THEN @ ELSE <<>>]
     /\ Goto(c, IF HasText(loc[c]) THEN "add_text" ELSE "maintain", loc[c])
     /\ UNCHANGED <<durable, fts_open, registry, heap>>

\* update_document deletes first; a record without text is only deleted.
DeleteText(c) ==
  LET t == TableOf(stmt[c])
      k == loc[c].cur[2]
  IN /\ At(c, "delete_text")
     /\ IF ~fts[t].handle THEN Fail(c)
        ELSE /\ fts' = [fts EXCEPT ![t].staged[k] = <<>>]
             /\ Goto(c, IF HasText(loc[c]) THEN "add_text" ELSE "maintain", loc[c])
             /\ UNCHANGED <<durable, fts_open, registry, heap>>

\* The writer lock was released in between; the manager's lock was not.
AddText(c) ==
  LET t == TableOf(stmt[c])
      k == loc[c].cur[2]
  IN /\ At(c, "add_text")
     /\ fts' = [fts EXCEPT ![t].staged[k] = Append(@, loc[c].doc.text)]
     /\ Goto(c, IF stmt[c].op = "define" THEN "backfill" ELSE "maintain", loc[c])
     /\ UNCHANGED <<durable, fts_open, registry, heap>>

\* Mutant of Commit: nothing reaches the disk.
CommitNothing(c) ==
  /\ At(c, "commit")
  /\ Ok(c)
  /\ UNCHANGED <<durable, services>>

\* commit_all: every open index, not only those of the statement.
Commit(c) ==
  /\ At(c, "commit")
  /\ fts' = [t \in Tables |-> IF fts[t].handle THEN [fts[t] EXCEPT !.disk = fts[t].staged]
                              ELSE fts[t]]
  /\ Ok(c)
  /\ UNCHANGED <<durable, fts_open, registry, heap>>

-----------------------------------------------------------------------------
(* Vectors *)

Name(c) == VectorName[TableOf(stmt[c])]

FreeSlots == {e \in Slots : /\ \A n \in Names : registry[n] # e
                            /\ \A c \in Conns : loc[c].ent # e}

\* The memory once name n no longer refers to its entry.
Released(n) ==
  IF registry[n] = NoSlot \/ \E c \in Conns : loc[c].ent = registry[n] THEN heap
  ELSE [heap EXCEPT ![registry[n]] = NewEntry]

\* A new, empty entry; the least free slot stands for its allocation.
Allocate(n, e) ==
  /\ e \in FreeSlots
  /\ \A f \in FreeSlots : e <= f
  /\ registry' = [registry EXCEPT ![n] = e]
  /\ heap' = [Released(n) EXCEPT ![e] = NewEntry]
  /\ UNCHANGED <<fts_open, fts>>

\* Mutant of EnsureVector: an entry that exists is taken for loaded.
EnsureVectorUnlocked(c) ==
  LET e == registry[Name(c)] IN
  /\ At(c, "ensure_vector")
  /\ UNCHANGED durable
  /\ \/ /\ e = NoSlot
        /\ \E f \in Slots : /\ Allocate(Name(c), f)
                            /\ Goto(c, "rebuild_lock", [loc[c] EXCEPT !.ent = f])
     \/ e # NoSlot /\ UNCHANGED services /\ Goto(c, loc[c].ret, loc[c])

\* get_or_create_vector and the first look at loaded.
EnsureVector(c) ==
  LET e == registry[Name(c)] IN
  /\ At(c, "ensure_vector")
  /\ UNCHANGED durable
  /\ \/ /\ e = NoSlot
        /\ \E f \in Slots : /\ Allocate(Name(c), f)
                            /\ Goto(c, "rebuild_lock", [loc[c] EXCEPT !.ent = f])
     \/ /\ e # NoSlot
        /\ UNCHANGED services
        /\ IF heap[e].loaded THEN Goto(c, loc[c].ret, loc[c])
           ELSE Goto(c, "rebuild_lock", [loc[c] EXCEPT !.ent = e])

\* The mutex is taken; loaded is checked again.
RebuildLock(c) ==
  LET e == loc[c].ent IN
  /\ At(c, "rebuild_lock")
  /\ heap[e].lock = NoConn
  /\ UNCHANGED durable
  /\ IF heap[e].loaded
     THEN Goto(c, loc[c].ret, [loc[c] EXCEPT !.ent = NoSlot]) /\ UNCHANGED services
     ELSE /\ heap' = [heap EXCEPT ![e].lock = c]
          /\ Goto(c, "rebuild_scan", loc[c])
          /\ UNCHANGED <<fts_open, fts, registry>>

Embeddings(t) == {<<r[2], docs[r].vec>> : r \in {q \in Stored(t) : docs[q].vec # None}}

RebuildScan(c) ==
  /\ At(c, "rebuild_scan")
  /\ Goto(c, "rebuild_insert", [loc[c] EXCEPT !.fill = Embeddings(TableOf(stmt[c]))])
  /\ UNCHANGED <<durable, services>>

\* vector_insert: into whatever is registered under the name; another dimension
\* is skipped, and nothing is removed then.
Inserted(n, k, v) ==
  IF registry[n] # NoSlot /\ v \in Vecs
  THEN [heap EXCEPT ![registry[n]].vecs[k] = v]
  ELSE heap

RebuildInsert(c) ==
  LET l == loc[c] IN
  /\ At(c, "rebuild_insert")
  /\ \E f \in l.fill : /\ heap' = Inserted(Name(c), f[1], f[2])
                       /\ Goto(c, "rebuild_insert", [l EXCEPT !.fill = @ \ {f}])
  /\ UNCHANGED <<durable, fts_open, fts, registry>>

\* Mutant of RebuildDone: the lock is kept.
RebuildDoneLocked(c) ==
  LET l == loc[c] IN
  /\ At(c, "rebuild_insert")
  /\ l.fill = {}
  /\ heap' = [heap EXCEPT ![l.ent].loaded = TRUE]
  /\ Goto(c, l.ret, [l EXCEPT !.ent = NoSlot])
  /\ UNCHANGED <<durable, fts_open, fts, registry>>

\* The entry rebuilt for is marked, and its lock released.
RebuildDone(c) ==
  LET l == loc[c] IN
  /\ At(c, "rebuild_insert")
  /\ l.fill = {}
  /\ heap' = [heap EXCEPT ![l.ent].loaded = TRUE, ![l.ent].lock = NoConn]
  /\ Goto(c, l.ret, [l EXCEPT !.ent = NoSlot])
  /\ UNCHANGED <<durable, fts_open, fts, registry>>

InsertVector(c) ==
  /\ At(c, "insert_vector")
  /\ heap' = Inserted(Name(c), loc[c].cur[2], loc[c].doc.vec)
  /\ Goto(c, "maintain", loc[c])
  /\ UNCHANGED <<durable, fts_open, fts, registry>>

\* A record without embedding touches only an index that is in memory.
VectorExists(c) ==
  /\ At(c, "vector_exists")
  /\ Goto(c, IF registry[Name(c)] # NoSlot THEN "remove_vector" ELSE "maintain", loc[c])
  /\ UNCHANGED <<durable, services>>

RemoveVector(c) ==
  LET e == registry[Name(c)] IN
  /\ At(c, "remove_vector")
  /\ heap' = IF e = NoSlot THEN heap ELSE [heap EXCEPT ![e].vecs[loc[c].cur[2]] = None]
  /\ Goto(c, "maintain", loc[c])
  /\ UNCHANGED <<durable, fts_open, fts, registry>>

-----------------------------------------------------------------------------
(* DEFINE and REMOVE *)

DefineWrite(c) ==
  LET s == stmt[c] IN
  /\ At(c, "define_write")
  /\ catalog' = [catalog EXCEPT ![s.table] = @ \cup {s.kind}]
  /\ Goto(c, IF s.kind = "text" THEN "ensure_text" ELSE "register",
          [loc[c] EXCEPT !.ret = "backfill_scan"])
  /\ UNCHANGED <<docs, services>>

\* define_vector replaces the entry of the name by an empty one.
Register(c) ==
  /\ At(c, "register")
  /\ \E e \in Slots : Allocate(Name(c), e)
  /\ Goto(c, "backfill_scan", loc[c])
  /\ UNCHANGED durable

BackfillScan(c) ==
  LET s == stmt[c]
      texts == {<<r[2], docs[r].text>> : r \in {q \in Stored(s.table) : docs[q].text # None}}
  IN /\ At(c, "backfill_scan")
     /\ Goto(c, "backfill", [loc[c] EXCEPT !.fill = IF s.kind = "text" THEN texts
                                                    ELSE Embeddings(s.table)])
     /\ UNCHANGED <<durable, services>>

\* The next record of the backfill.
Backfill(c) ==
  LET s == stmt[c]
      l == loc[c]
  IN /\ At(c, "backfill")
     /\ UNCHANGED durable
     /\ \E f \in l.fill :
          IF s.kind = "vector"
          THEN /\ heap' = Inserted(Name(c), f[1], f[2])
               /\ Goto(c, "backfill", [l EXCEPT !.fill = @ \ {f}])
               /\ UNCHANGED <<fts_open, fts, registry>>
          ELSE IF fts[s.table].handle
          THEN /\ fts' = [fts EXCEPT ![s.table].staged[f[1]] = <<>>]
               /\ Goto(c, "add_text", [l EXCEPT !.fill = @ \ {f}, !.cur = <<s.table, f[1]>>,
                                                !.doc = [text |-> f[2], vec |-> None]])
               /\ UNCHANGED <<fts_open, registry, heap>>
          ELSE Return(c, {}) /\ UNCHANGED services

BackfillDone(c) ==
  LET l == [loc[c] EXCEPT !.done = Stored(stmt[c].table)] IN
  /\ At(c, "backfill")
  /\ loc[c].fill = {}
  /\ Goto(c, IF stmt[c].kind = "text" THEN "commit" ELSE "set_loaded", l)
  /\ UNCHANGED <<durable, services>>

\* set_vector_loaded: the entry that has the name now.
SetLoaded(c) ==
  LET e == registry[Name(c)] IN
  /\ At(c, "set_loaded")
  /\ heap' = IF e = NoSlot THEN heap ELSE [heap EXCEPT ![e].loaded = TRUE]
  /\ Ok(c)
  /\ UNCHANGED <<durable, fts_open, fts, registry>>

\* The external structure is dropped if the definition was there at Load.
RemoveWrite(c) ==
  LET s == stmt[c] IN
  /\ At(c, "remove_write")
  /\ catalog' = [catalog EXCEPT ![s.table] = @ \ {s.kind}]
  /\ IF s.kind \notin loc[c].defs THEN Ok(c)
     ELSE Goto(c, IF s.kind = "text" THEN "drop_text" ELSE "drop_vector", loc[c])
  /\ UNCHANGED <<docs, services>>

DropVector(c) ==
  /\ At(c, "drop_vector")
  /\ registry' = [registry EXCEPT ![Name(c)] = NoSlot]
  /\ heap' = Released(Name(c))
  /\ Ok(c)
  /\ UNCHANGED <<durable, fts_open, fts>>

\* The manager's write lock waits for an update_document in progress.
DropText(c) ==
  /\ At(c, "drop_text")
  /\ \A d \in Conns : ~At(d, "add_text")
  /\ fts' = [fts EXCEPT ![stmt[c].table] = [handle |-> FALSE, disk |-> NothingHeld,
                                            staged |-> NothingHeld]]
  /\ Goto(c, "unmark_open", loc[c])
  /\ UNCHANGED <<durable, fts_open, registry, heap>>

UnmarkOpen(c) ==
  /\ At(c, "unmark_open")
  /\ fts_open' = fts_open \ {stmt[c].table}
  /\ Ok(c)
  /\ UNCHANGED <<durable, fts, registry, heap>>

-----------------------------------------------------------------------------
(* SEARCH, VECTOR SEARCH and HYBRID SEARCH *)

\* find_search_index, then ensure_fulltext or ensure_vector_loaded; text first.
Find(c) ==
  LET s == stmt[c]
      l == loc[c]
      kind == IF "text" \in l.todo THEN "text" ELSE "vector"
  IN /\ At(c, "find")
     /\ IF l.todo = {}
        THEN /\ Goto(c, IF "text" \in s.kinds THEN "query_text" ELSE "query_vector", l)
             /\ UNCHANGED <<durable, services>>
        ELSE IF kind \notin catalog[s.table] THEN Fail(c)
        ELSE /\ Goto(c, IF kind = "text" THEN "ensure_text" ELSE "ensure_vector",
                     [l EXCEPT !.todo = @ \ {kind}, !.ret = "find"])
             /\ UNCHANGED <<durable, services>>

\* Committed texts only.
QueryText(c) ==
  LET s == stmt[c]
      found == {k \in Keys : \E j \in DOMAIN fts[s.table].disk[k] :
                               fts[s.table].disk[k][j] = s.text}
  IN /\ At(c, "query_text")
     /\ IF ~fts[s.table].handle THEN Fail(c)
        ELSE /\ Goto(c, IF "vector" \in s.kinds THEN "query_vector" ELSE "resolve",
                     [loc[c] EXCEPT !.hits = found])
             /\ UNCHANGED <<durable, services>>

\* With K at least the number of vectors every live one is a hit.
QueryVector(c) ==
  LET e == registry[Name(c)] IN
  /\ At(c, "query_vector")
  /\ IF e = NoSlot \/ stmt[c].vec \in OddVecs THEN Fail(c)
     ELSE /\ Goto(c, "resolve",
                  [loc[c] EXCEPT !.hits = @ \cup {k \in Keys : heap[e].vecs[k] # None}])
          /\ UNCHANGED <<durable, services>>

\* rows_from_hits: hits without a record are skipped.
Rows(c) == {r \in Stored(stmt[c].table) : r[2] \in loc[c].hits}

Resolve(c) ==
  /\ At(c, "resolve")
  /\ Ok(c)
  /\ UNCHANGED <<durable, services>>

-----------------------------------------------------------------------------

Step(c) ==
  \/ Load(c) \/ Scan(c) \/ BatchWrite(c) \/ Row(c) \/ RowsDone(c) \/ Reread(c) \/ Maintain(c)
  \/ EnsureText(c) \/ OpenText(c) \/ MarkOpen(c) \/ DeleteText(c) \/ AddText(c) \/ Commit(c)
  \/ EnsureVector(c) \/ RebuildLock(c) \/ RebuildScan(c) \/ RebuildInsert(c)
  \/ RebuildDone(c) \/ InsertVector(c) \/ VectorExists(c) \/ RemoveVector(c)
  \/ DefineWrite(c) \/ Register(c) \/ BackfillScan(c) \/ Backfill(c) \/ BackfillDone(c)
  \/ SetLoaded(c) \/ RemoveWrite(c) \/ DropVector(c) \/ DropText(c) \/ UnmarkOpen(c)
  \/ Find(c) \/ QueryText(c) \/ QueryVector(c) \/ Resolve(c)

\* Storage and committed full-text segments survive; memory does not.
Crash ==
  /\ Scenario[scenario].crash
  /\ fts_open' = {}
  /\ fts' = [t \in Tables |-> [fts[t] EXCEPT !.handle = FALSE, !.staged = fts[t].disk]]
  /\ registry' = [n \in Names |-> NoSlot]
  /\ heap' = [e \in Slots |-> NewEntry]
  /\ pc' = [c \in Conns |-> "idle"]
  /\ stmt' = [c \in Conns |-> NoStmt]
  /\ loc' = [c \in Conns |-> Fresh]
  /\ UNCHANGED <<durable, acked, scenario>>

Next == Crash \/ \E c \in Conns : Begin(c) \/ Step(c)

Spec == Init /\ [][Next]_vars /\ \A c \in Conns : WF_vars(Step(c))

-----------------------------------------------------------------------------
(* Properties *)

\* Every variable stays in its domain.
TypeOK ==
  /\ docs \in [Recs -> Doc \cup {NoDoc}]
  /\ catalog \in [Tables -> SUBSET Kinds]
  /\ fts_open \subseteq Tables
  /\ fts \in [Tables -> [handle : BOOLEAN, disk : Held, staged : Held]]
  /\ registry \in [Names -> Slots \cup {NoSlot}]
  /\ heap \in [Slots -> [vecs : [Keys -> Vecs \cup {None}], loaded : BOOLEAN,
                         lock : Conns \cup {NoConn}]]
  /\ pc \in [Conns -> Labels]
  /\ stmt \in [Conns -> Statement \cup {NoStmt}]
  /\ loc \in [Conns -> Local]
  /\ acked \subseteq Recs

\* No DEFINE or REMOVE is under way.
NoDDL == \A c \in Conns : pc[c] # "idle" => stmt[c].op \notin {"define", "remove"}

\* Nobody sends index DDL, and no two connections write the same record.
OwnRecords ==
  \A c \in Conns : \A s \in Scenario[scenario].menu[c] :
    /\ s.op \notin {"define", "remove"}
    /\ \A d \in Conns \ {c} : \A r \in Scenario[scenario].menu[d] :
         Targets(s) \cap Targets(r) = {}

\* One connection sends all statements.
Alone == Cardinality({c \in Conns : Scenario[scenario].menu[c] # {}}) = 1

\* A connection that is alone sees no crash, and gives an embedding of another
\* dimension to new records only.
Steady ==
  \A i \in DOMAIN Scenario :
    Cardinality({c \in Conns : Scenario[i].menu[c] # {}}) = 1 =>
      /\ ~Scenario[i].crash
      /\ \A c \in Conns : \A s \in Scenario[i].menu[c] :
           /\ s.op \in {"upsert", "update", "update_all"} => s.doc.vec \notin OddVecs
           /\ s.op = "batch" =>
                \A k \in Keys : s.items[k] # NoDoc => s.items[k].vec \notin OddVecs

\* The entry a search of table t would use without a rebuild.
LoadedEntry(t) ==
  {e \in Slots : registry[VectorName[t]] = e /\ heap[e].loaded}

\* A write that was answered is searchable for good: the committed full-text
\* index holds exactly its text, although others opened the index, failed to,
\* buffered and committed in between, and whatever crashed since.
AckedText ==
  NoDDL => \A r \in acked : "text" \in catalog[r[1]] =>
    fts[r[1]].disk[r[2]] = IF docs[r] # NoDoc /\ docs[r].text # None
                           THEN <<docs[r].text>> ELSE <<>>

\* A loaded vector index has the present embedding of every record whose write
\* was answered, whichever connection rebuilt it and whatever was written while
\* it did.  With one connection it has nothing else either: no embedding of a
\* record that was deleted or has lost it.
AckedVector ==
  NoDDL => \A r \in acked : "vector" \in catalog[r[1]] => \A e \in LoadedEntry(r[1]) :
    /\ docs[r] # NoDoc /\ docs[r].vec \in Vecs => heap[e].vecs[r[2]] = docs[r].vec
    /\ Alone /\ (docs[r] = NoDoc \/ docs[r].vec = None) => heap[e].vecs[r[2]] = None

\* vector_insert: after "Dimension mismatches are skipped silently" the document
\* "simply is not represented in the index".
OddNotRepresented ==
  NoDDL => \A r \in acked : \A e \in LoadedEntry(r[1]) :
    docs[r] # NoDoc /\ docs[r].vec \in OddVecs => heap[e].vecs[r[2]] = None

\* With one connection a search answers like a scan of the table: text matches
\* from the committed index, embeddings from the rebuilt one, no row of a record
\* that has neither.
SearchExact ==
  [][\A c \in Conns : Alone /\ Resolve(c) =>
       Rows(c) = {r \in Stored(stmt[c].table) :
                    \/ "text" \in stmt[c].kinds /\ docs[r].text = stmt[c].text
                    \/ "vector" \in stmt[c].kinds /\ docs[r].vec \in Vecs}]_vars

\* Every statement is answered: the rebuild lock is always released and a waiter
\* gets it.
EveryStatementAnswered == \A c \in Conns : ~At(c, "idle") ~> At(c, "idle")
=============================================================================
