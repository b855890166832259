----------------------------- MODULE Documents -----------------------------
(***************************************************************************)
(* One table of the document store: its records, its B-tree secondary      *)
(* indexes and the index catalog, used by the statements of concurrent     *)
(* server connections.                                                     *)
(*                                                                         *)
(* Every storage call of the code is one redb transaction, so it is one    *)
(* atomic step here; a statement is a sequence of such steps and steps of  *)
(* different connections interleave.  What a connection remembers between  *)
(* two of its transactions is a local of that connection.                  *)
(***************************************************************************)
EXTENDS Naturals, Sequences, FiniteSets

CONSTANTS
  Conns,        \* server connections, one task each
  Ids,          \* record ids of the table
  Fields,       \* field names
  Vals,         \* field values (other than NONE)
  Unindexable,  \* the values encode_index_value rejects: arrays
  Missing,      \* a field that is absent or NONE
  Names,        \* index names, numbered in catalog key order
  NoId,         \* no record id
  NoDoc,        \* no record under this id
  NoIndex,      \* no definition under this name
  NoStmt,       \* a connection that has executed nothing yet
  Statements,   \* Statements[c]: the statements connection c may send
  Catalogs      \* the catalogs the (empty) table may start with

Doc == [Fields -> Vals \cup {Missing}]
Update == UNION {[D -> Vals \cup {Missing}] : D \in SUBSET Fields}
Where == UNION {[D -> Vals] : D \in SUBSET Fields}
Index == [fields : Seq(Fields), unique : BOOLEAN]
Catalog == [Names -> Index \cup {NoIndex}]
Entry == [name : Names, key : Seq(Vals), id : Ids]
Item == [op : {"create"}, id : Ids, doc : Doc]
          \cup [op : {"upsert"}, id : Ids, doc : Doc, set : Update]

Statement ==
       Item
  \cup [op : {"update"}, id : Ids, set : Update]
  \cup [op : {"update_all"}, where : Where, set : Update]
  \cup [op : {"delete"}, id : Ids]
  \cup [op : {"delete_where", "select", "count"}, where : Where]
  \cup [op : {"batch"}, items : Seq(Item)]
  \cup [op : {"define"}, name : Names, index : Index]
  \cup [op : {"remove"}, name : Names]

Labels == {"idle", "load", "contains", "unique", "probe", "get", "write", "scan",
           "lookup", "fetch", "item", "item_get", "define", "define_commit",
           "remove_scan", "remove_commit"}

ASSUME FiniteAssumption == IsFiniteSet(Ids) /\ IsFiniteSet(Names) /\ IsFiniteSet(Fields)

ASSUME ValuesAssumption ==
  /\ Unindexable \subseteq Vals
  /\ Missing \notin Vals
  /\ Names \subseteq Nat
  /\ NoId \notin Ids
  /\ NoDoc \notin Doc
  /\ NoIndex \notin Index

ASSUME StatementsAssumption ==
  /\ NoStmt \notin Statement
  /\ \A c \in Conns : Statements[c] \subseteq Statement
  /\ Catalogs \subseteq Catalog

VARIABLES
  docs,     \* the record stored under each id
  entries,  \* the index entries: the keys of the index region
  catalog,  \* the persisted index definitions
  pc,       \* where each connection stands in its statement
  stmt,     \* that statement
  loc,      \* what the connection holds between two storage transactions
  reply     \* the outcome of the last statement, once pc is idle again

store == <<docs, entries, catalog>>
vars == <<store, pc, stmt, loc, reply>>

Local ==
  [idx    : Catalog,                    \* the definitions the statement loaded
   checks : SUBSET Names,               \* create_inner: unique indexes still to check
   rows   : SUBSET Ids,                 \* records still to be processed
   cur    : Ids \cup {NoId},            \* the record being processed
   old    : Doc \cup {NoDoc},           \* its document as read
   hits   : SUBSET Entry,               \* what the index scan found
   pos    : Nat,                        \* execute_batch: next statement of the batch
   bdocs  : [Ids -> Doc \cup {NoDoc}],  \* documents to put
   bput   : SUBSET Entry,               \* index entries to put
   bdel   : SUBSET Entry]               \* index entries to delete

\* rows and total answer SELECT and COUNT.
Reply == [outcome : {"none", "ok", "error"}, rows : SUBSET Ids, total : Nat]

-----------------------------------------------------------------------------
(* Index entries and index lookups *)

\* The indexed values of a document, in index-field order.
Tuple(doc, ix) == [k \in 1 .. Len(ix.fields) |-> doc[ix.fields[k]]]

\* Mutant of Complete: a NONE field counts as present.
CompleteWithNone(doc, ix) == \A k \in 1 .. Len(ix.fields) : ix.fields[k] \in DOMAIN doc

Complete(doc, ix) == \A k \in 1 .. Len(ix.fields) : doc[ix.fields[k]] \in Vals

Encodable(doc, ix) == \A k \in 1 .. Len(ix.fields) : doc[ix.fields[k]] \notin Unindexable

\* The indexes of a catalog that hold an entry for a document.
Indexing(doc, cat) == {n \in Names : cat[n] # NoIndex /\ Complete(doc, cat[n])}

\* build_index_entries fails when a value of a complete tuple has no encoding.
Buildable(doc, cat) == \A n \in Indexing(doc, cat) : Encodable(doc, cat[n])

IndexEntries(i, doc, cat) ==
  {[name |-> n, key |-> Tuple(doc, cat[n]), id |-> i] : n \in Indexing(doc, cat)}

\* The index part of write_batch: deletes are applied before puts.  Mutants: puts
\* first, and deletes forgotten.
WriteBatchPutsFirst(puts, dels) == (entries \cup puts) \ dels

WriteBatchPutsOnly(puts, dels) == entries \cup puts

WriteBatch(puts, dels) == (entries \ dels) \cup puts

\* Entries a scan over the equality prefix t finds.  id_from_entry walks past
\* fieldCount terminators: shorter entries (left by an older definition of the
\* name) are skipped, longer ones yield an id that names no record.
Hits(n, t, fieldCount) ==
  {e \in entries : /\ e.name = n
                   /\ Len(e.key) >= fieldCount
                   /\ Len(t) <= Len(e.key)
                   /\ \A k \in 1 .. Len(t) : e.key[k] = t[k]}

Matches(doc, where) == \A f \in DOMAIN where : doc[f] = where[f]

Matching(where) == {i \in Ids : docs[i] # NoDoc /\ Matches(docs[i], where)}

\* Does the equality k-prefix of the index occur among the conjuncts?  A conjunct
\* is used once, so a repeated field ends the prefix.
Prefixed(ix, where, k) ==
  \A j \in 1 .. k : /\ ix.fields[j] \in DOMAIN where
                    /\ where[ix.fields[j]] \notin Unindexable
                    /\ \A i \in 1 .. k : ix.fields[i] = ix.fields[j] => i = j

\* Conjuncts plan_for_index consumes: the longest usable leading prefix.
Consumed(ix, where) ==
  CHOOSE k \in 0 .. Len(ix.fields) :
    /\ Prefixed(ix, where, k)
    /\ k < Len(ix.fields) => ~Prefixed(ix, where, k + 1)

Usable(cat, where) == {n \in Names : cat[n] # NoIndex /\ Consumed(cat[n], where) > 0}

\* plan_index_lookup: most conjuncts consumed, the first in the catalog on a tie.
Plan(cat, where) ==
  CHOOSE n \in Usable(cat, where) : \A m \in Usable(cat, where) :
    \/ Consumed(cat[m], where) < Consumed(cat[n], where)
    \/ Consumed(cat[m], where) = Consumed(cat[n], where) /\ n <= m

\* Mutant of Covers: any usable index is taken to answer the whole clause.
CoversPrefix(ix, where) == Consumed(ix, where) > 0

Covers(ix, where) == Consumed(ix, where) = Cardinality(DOMAIN where)

PlanHits(cat, where) ==
  LET ix == cat[Plan(cat, where)]
      t == [k \in 1 .. Consumed(ix, where) |-> where[ix.fields[k]]]
  IN  Hits(Plan(cat, where), t, Len(ix.fields))

\* Fields given by an update replace the old ones; the others stay.
Merged(doc, upd) == [f \in Fields |-> IF f \in DOMAIN upd THEN upd[f] ELSE doc[f]]

-----------------------------------------------------------------------------
(* Control *)

Fresh == [idx |-> [n \in Names |-> NoIndex], checks |-> {}, rows |-> {}, cur |-> NoId,
          old |-> NoDoc, hits |-> {}, pos |-> 1, bdocs |-> [i \in Ids |-> NoDoc],
          bput |-> {}, bdel |-> {}]

NoReply == [outcome |-> "none", rows |-> {}, total |-> 0]

At(c, label) == pc[c] = label

\* Go on with the locals l.
Goto(c, label, l) ==
  /\ pc' = [pc EXCEPT ![c] = label]
  /\ loc' = [loc EXCEPT ![c] = l]
  /\ UNCHANGED <<stmt, reply>>

\* The handler returns: its locals are gone, the result is formatted.
Return(c, r) ==
  /\ pc' = [pc EXCEPT ![c] = "idle"]
  /\ loc' = [loc EXCEPT ![c] = Fresh]
  /\ reply' = [reply EXCEPT ![c] = r]
  /\ UNCHANGED stmt

Ok(c) == Return(c, [NoReply EXCEPT !.outcome = "ok"])

Fail(c) == Return(c, [NoReply EXCEPT !.outcome = "error"]) /\ UNCHANGED store

\* Mutant of Advance: a processed record stays in the list.
AdvanceStuck(c, left) ==
  IF left = {} THEN Ok(c)
  ELSE Goto(c, "get", [loc[c] EXCEPT !.rows = left \cup @, !.cur = NoId, !.old = NoDoc])

\* The next record of the statement, or its end.
Advance(c, left) ==
  IF left = {} THEN Ok(c)
  ELSE Goto(c, "get", [loc[c] EXCEPT !.rows = left, !.cur = NoId, !.old = NoDoc])

Init ==
  /\ docs = [i \in Ids |-> NoDoc]
  /\ entries = {}
  /\ catalog \in Catalogs
  /\ pc = [c \in Conns |-> "idle"]
  /\ stmt = [c \in Conns |-> NoStmt]
  /\ loc = [c \in Conns |-> Fresh]
  /\ reply = [c \in Conns |-> NoReply]

\* A line arrives and is parsed.  DEFINE INDEX uses a collection without indexes.
Begin(c) ==
  /\ At(c, "idle")
  /\ \E s \in Statements[c] :
       /\ stmt' = [stmt EXCEPT ![c] = s]
       /\ pc' = [pc EXCEPT ![c] = IF s.op = "define" THEN "define" ELSE "load"]
  /\ reply' = [reply EXCEPT ![c] = NoReply]
  /\ UNCHANGED <<store, loc>>

FirstLabel(op) ==
  CASE op = "create" -> "contains"
    [] op \in {"upsert", "update"} -> "probe"
    [] op = "update_all" -> "scan"
    [] op = "delete" -> "get"
    [] op = "batch" -> "item"
    [] op = "remove" -> "remove_scan"
    [] OTHER -> "lookup"

\* Collection::load: the statement uses this catalog until it returns.
Load(c) ==
  /\ At(c, "load")
  /\ LET s == stmt[c] IN
     Goto(c, FirstLabel(s.op),
          [loc[c] EXCEPT !.idx = catalog,
                         !.rows = IF s.op \in {"upsert", "update", "delete"}
                                  THEN {s.id} ELSE {}])
  /\ UNCHANGED store

-----------------------------------------------------------------------------
(* CREATE: create_inner *)

\* The duplicate check; the unique indexes with a complete tuple come next.
Contains(c) ==
  LET s == stmt[c]
      l == loc[c]
  IN  /\ At(c, "contains")
      /\ IF docs[s.id] # NoDoc THEN Fail(c)
         ELSE /\ Goto(c, "unique",
                      [l EXCEPT !.checks = {n \in Indexing(s.doc, l.idx) : l.idx[n].unique}])
              /\ UNCHANGED store

\* Mutant of Taken: the excluded record is the wrong way round.
TakenBySelf(n, t, fieldCount, i) ==
  \E e \in Hits(n, t, fieldCount) : Len(e.key) # fieldCount \/ e.id = i

\* check_unique_constraint rejects a value another record (or garbage) holds.
Taken(n, t, fieldCount, i) ==
  \E e \in Hits(n, t, fieldCount) : Len(e.key) # fieldCount \/ e.id # i

\* One index per step, in catalog order.
CheckUnique(c) ==
  LET s == stmt[c]
      l == loc[c]
  IN  /\ At(c, "unique")
      /\ \E n \in l.checks :
           /\ \A m \in l.checks : n <= m
           /\ LET ix == l.idx[n] IN
              IF \/ ~Encodable(s.doc, ix)
                 \/ Taken(n, Tuple(s.doc, ix), Len(ix.fields), s.id)
              THEN Fail(c)
              ELSE /\ Goto(c, "unique", [l EXCEPT !.checks = @ \ {n}])
                   /\ UNCHANGED store

\* One put_batch writes the document and its entries.
Insert(c) ==
  LET s == stmt[c]
      l == loc[c]
  IN  /\ At(c, "unique")
      /\ l.checks = {}
      /\ IF ~Buildable(s.doc, l.idx) THEN Fail(c)
         ELSE /\ docs' = [docs EXCEPT ![s.id] = s.doc]
              /\ entries' = entries \cup IndexEntries(s.id, s.doc, l.idx)
              /\ UNCHANGED catalog
              /\ Ok(c)

-----------------------------------------------------------------------------
(* UPDATE, ON CONFLICT UPDATE and DELETE *)

\* Does the record exist?  The answer is not rechecked when it is used.
Probe(c) ==
  /\ At(c, "probe")
  /\ UNCHANGED store
  /\ IF docs[stmt[c].id] # NoDoc THEN Goto(c, "get", loc[c])
     ELSE IF stmt[c].op = "upsert" THEN Goto(c, "contains", [loc[c] EXCEPT !.rows = {}])
     ELSE Ok(c)

\* UPDATE table: the rows to change are those of one scan.
Scan(c) ==
  /\ At(c, "scan")
  /\ Advance(c, Matching(stmt[c].where))
  /\ UNCHANGED store

\* merge and delete read the record before they write it.
Get(c) ==
  LET l == loc[c] IN
  /\ At(c, "get")
  /\ UNCHANGED store
  /\ \E i \in l.rows :
       IF docs[i] # NoDoc THEN Goto(c, "write", [l EXCEPT !.cur = i, !.old = docs[i]])
       ELSE IF stmt[c].op \in {"delete", "delete_where"} THEN Advance(c, l.rows \ {i})
       ELSE Fail(c)

\* replace_with_indexes: one write_batch, deletes before puts.
Replace(c) ==
  LET l == loc[c]
      new == Merged(l.old, stmt[c].set)
  IN  /\ At(c, "write")
      /\ stmt[c].op \in {"update", "update_all", "upsert"}
      /\ IF ~(Buildable(l.old, l.idx) /\ Buildable(new, l.idx)) THEN Fail(c)
         ELSE /\ docs' = [docs EXCEPT ![l.cur] = new]
              /\ entries' = WriteBatch(IndexEntries(l.cur, new, l.idx),
                                       IndexEntries(l.cur, l.old, l.idx))
              /\ UNCHANGED catalog
              /\ Advance(c, l.rows \ {l.cur})

\* One delete_batch removes the document and the entries of the version read.
Erase(c) ==
  LET l == loc[c] IN
  /\ At(c, "write")
  /\ stmt[c].op \in {"delete", "delete_where"}
  /\ IF ~Buildable(l.old, l.idx) THEN Fail(c)
     ELSE /\ docs' = [docs EXCEPT ![l.cur] = NoDoc]
          /\ entries' = entries \ IndexEntries(l.cur, l.old, l.idx)
          /\ UNCHANGED catalog
          /\ Advance(c, l.rows \ {l.cur})

-----------------------------------------------------------------------------
(* SELECT, COUNT and DELETE ... WHERE *)

\* ids: the records found; n: how often the access path found one.
Deliver(c, ids, n) ==
  CASE stmt[c].op = "select" -> Return(c, [outcome |-> "ok", rows |-> ids, total |-> 0])
    [] stmt[c].op = "count" -> Return(c, [outcome |-> "ok", rows |-> {}, total |-> n])
    [] OTHER -> Advance(c, ids)

\* An index scan if some index fits, a table scan otherwise.  A COUNT the
\* index covers reads no document.
Lookup(c) ==
  LET w == stmt[c].where
      l == loc[c]
      n == Plan(l.idx, w)
  IN  /\ At(c, "lookup")
      /\ UNCHANGED store
      /\ IF Usable(l.idx, w) = {}
         THEN Deliver(c, Matching(w), Cardinality(Matching(w)))
         ELSE IF stmt[c].op = "count" /\ Covers(l.idx[n], w)
         THEN Deliver(c, {}, Cardinality(PlanHits(l.idx, w)))
         ELSE Goto(c, "fetch", [l EXCEPT !.hits = PlanHits(l.idx, w)])

\* get_many in one transaction, then the WHERE clause on what was read.
Fetch(c) ==
  LET w == stmt[c].where
      l == loc[c]
      fieldCount == Len(l.idx[Plan(l.idx, w)].fields)
      found == {e \in l.hits : Len(e.key) = fieldCount /\ e.id \in Matching(w)}
  IN  /\ At(c, "fetch")
      /\ UNCHANGED store
      /\ Deliver(c, {e.id : e \in found}, Cardinality(found))

-----------------------------------------------------------------------------
(* BEGIN BATCH ... END BATCH: execute_batch *)

\* Add the writes of one CREATE to the batch: no duplicate or unique check.
Queue(c, i, doc, dels) ==
  LET l == loc[c] IN
  Goto(c, "item", [l EXCEPT !.pos = @ + 1,
                            !.bdocs[i] = doc,
                            !.bput = @ \cup IndexEntries(i, doc, l.idx),
                            !.bdel = @ \cup dels])

PrepareItem(c) ==
  LET l == loc[c]
      it == stmt[c].items[l.pos]
  IN  /\ At(c, "item")
      /\ l.pos <= Len(stmt[c].items)
      /\ UNCHANGED store
      /\ IF it.op = "upsert" /\ docs[it.id] # NoDoc THEN Goto(c, "item_get", l)
         ELSE IF Buildable(it.doc, l.idx) THEN Queue(c, it.id, it.doc, {})
         ELSE Fail(c)

\* upsert_to_ops on an existing record: the merge is computed from storage,
\* not from what the batch has queued.
MergeItem(c) ==
  LET l == loc[c]
      it == stmt[c].items[l.pos]
      o == docs[it.id]
      new == Merged(o, it.set)
  IN  /\ At(c, "item_get")
      /\ UNCHANGED store
      /\ IF o = NoDoc THEN Fail(c)
         ELSE IF Buildable(o, l.idx) /\ Buildable(new, l.idx)
         THEN Queue(c, it.id, new, IndexEntries(it.id, o, l.idx))
         ELSE Fail(c)

\* One write_batch for the whole batch.
CommitBatch(c) ==
  LET l == loc[c] IN
  /\ At(c, "item")
  /\ l.pos > Len(stmt[c].items)
  /\ docs' = [i \in Ids |-> IF l.bdocs[i] # NoDoc THEN l.bdocs[i] ELSE docs[i]]
  /\ entries' = WriteBatch(l.bput, l.bdel)
  /\ UNCHANGED catalog
  /\ Ok(c)

-----------------------------------------------------------------------------
(* DEFINE INDEX and REMOVE INDEX *)

Duplicates(ix) ==
  \E i, j \in Ids : /\ i # j
                    /\ docs[i] # NoDoc /\ Complete(docs[i], ix)
                    /\ docs[j] # NoDoc /\ Complete(docs[j], ix)
                    /\ Tuple(docs[i], ix) = Tuple(docs[j], ix)

\* One scan yields the backfill and the duplicate check.
DefineScan(c) ==
  LET s == stmt[c]
      cat == [n \in Names |-> IF n = s.name THEN s.index ELSE NoIndex]
      stored == {i \in Ids : docs[i] # NoDoc}
  IN  /\ At(c, "define")
      /\ UNCHANGED store
      /\ IF \/ s.index.unique /\ Duplicates(s.index)
            \/ \E i \in stored : ~Buildable(docs[i], cat)
         THEN Fail(c)
         ELSE Goto(c, "define_commit",
                   [loc[c] EXCEPT !.bput = UNION {IndexEntries(i, docs[i], cat) : i \in stored}])

\* Catalog record and backfill in one write_batch; entries of an earlier
\* definition of the name stay.
DefineCommit(c) ==
  /\ At(c, "define_commit")
  /\ catalog' = [catalog EXCEPT ![stmt[c].name] = stmt[c].index]
  /\ entries' = WriteBatch(loc[c].bput, {})
  /\ UNCHANGED docs
  /\ Ok(c)

RemoveScan(c) ==
  /\ At(c, "remove_scan")
  /\ Goto(c, "remove_commit",
          [loc[c] EXCEPT !.bdel = {e \in entries : e.name = stmt[c].name}])
  /\ UNCHANGED store

RemoveCommit(c) ==
  /\ At(c, "remove_commit")
  /\ catalog' = [catalog EXCEPT ![stmt[c].name] = NoIndex]
  /\ entries' = WriteBatch({}, loc[c].bdel)
  /\ UNCHANGED docs
  /\ Ok(c)

-----------------------------------------------------------------------------

\* The steps of a statement once it has begun.
Step(c) ==
  \/ Load(c)
  \/ Contains(c) \/ CheckUnique(c) \/ Insert(c)
  \/ Probe(c) \/ Scan(c) \/ Get(c) \/ Replace(c) \/ Erase(c)
  \/ Lookup(c) \/ Fetch(c)
  \/ PrepareItem(c) \/ MergeItem(c) \/ CommitBatch(c)
  \/ DefineScan(c) \/ DefineCommit(c) \/ RemoveScan(c) \/ RemoveCommit(c)

\* The process dies; redb keeps exactly the committed transactions.
Crash ==
  /\ pc' = [c \in Conns |-> "idle"]
  /\ stmt' = [c \in Conns |-> NoStmt]
  /\ loc' = [c \in Conns |-> Fresh]
  /\ reply' = [c \in Conns |-> NoReply]
  /\ UNCHANGED store

Next == Crash \/ \E c \in Conns : Begin(c) \/ Step(c)

\* A connection task that has read a line runs its handler to the end.
Fairness == \A c \in Conns : WF_vars(Step(c))

Spec == Init /\ [][Next]_vars /\ Fairness

-----------------------------------------------------------------------------
(* What clients send, where the properties below depend on it *)

\* One connection sends all statements.
OneConnection == \A c, d \in Conns : c = d

\* No connection sends index DDL: the catalog stays what it was at the start.
StableCatalog ==
  \A c \in Conns : \A s \in Statements[c] : s.op \notin {"define", "remove"}

\* A batch names a record once, and with ON CONFLICT UPDATE.  create_to_ops reads
\* nothing: a batch CREATE over a stored record, or a second item for a record,
\* would leave the entries of the version it replaces.
DistinctUpserts ==
  \A c \in Conns : \A s \in Statements[c] : s.op = "batch" =>
    \A k \in 1 .. Len(s.items) :
      /\ s.items[k].op = "upsert"
      /\ \A j \in 1 .. Len(s.items) : s.items[j].id = s.items[k].id => j = k

\* The definitions a name has at the start or is given by DEFINE INDEX.
Defined(n) ==
  ({cat[n] : cat \in Catalogs} \ {NoIndex})
    \cup {s.index : s \in {x \in UNION {Statements[c] : c \in Conns} :
                            x.op = "define" /\ x.name = n}}

\* A name always stands for the same fields: DEFINE INDEX over another definition
\* leaves the entries of that one.
SettledNames == \A n \in Names : \A ix, jx \in Defined(n) : ix.fields = jx.fields

\* The fields after the first of an index.
LaterFields ==
  {f \in Fields : \E n \in Names : \E ix \in Defined(n) :
     \E k \in 2 .. Len(ix.fields) : ix.fields[k] = f}

\* g, a document or an update, gives none of them NONE.
Whole(g) == \A f \in LaterFields \cap DOMAIN g : g[f] \in Vals

WholeWrite(s) ==
  /\ s.op \in {"create", "upsert"} => Whole(s.doc)
  /\ s.op \in {"upsert", "update", "update_all"} => Whole(s.set)

\* No statement leaves a record without a field of such an index; it would have no
\* entry there, although a query on the leading fields plans on the index.
WholeTuples ==
  \A c \in Conns : \A s \in Statements[c] :
    /\ WholeWrite(s)
    /\ s.op = "batch" => \A k \in 1 .. Len(s.items) : WholeWrite(s.items[k])

-----------------------------------------------------------------------------
(* Properties *)

\* Every variable stays in its domain.
TypeOK ==
  /\ docs \in [Ids -> Doc \cup {NoDoc}]
  /\ entries \subseteq Entry
  /\ catalog \in Catalog
  /\ pc \in [Conns -> Labels]
  /\ stmt \in [Conns -> Statement \cup {NoStmt}]
  /\ loc \in [Conns -> Local]
  /\ reply \in [Conns -> Reply]

\* Every stored document with a complete tuple has its entry in every index of
\* the catalog: an index scan can miss no record, whatever connections did
\* between each other's reads and writes.
IndexComplete ==
  \A i \in Ids : docs[i] # NoDoc => IndexEntries(i, docs[i], catalog) \subseteq entries

\* No entry outlives the document version it was written for: every index entry
\* is one that the stored document of its id calls for (documents.md: "All write
\* operations (create, update, delete) maintain index consistency").
IndexSound ==
  \A e \in entries : docs[e.id] # NoDoc /\ e \in IndexEntries(e.id, docs[e.id], catalog)

\* IndexDefinition::unique, "no two documents may have the same indexed value".
UniqueValues ==
  \A n \in Names : catalog[n] # NoIndex /\ catalog[n].unique => ~Duplicates(catalog[n])

\* A covered COUNT answers from the index alone: with no other writer it is the
\* number of records that match.
CountExact ==
  \A c \in Conns : At(c, "idle") /\ reply[c].outcome = "ok" /\ stmt[c].op = "count"
                     => reply[c].total = Cardinality(Matching(stmt[c].where))

\* A SELECT through an index returns what a table scan would: with no other
\* writer exactly the matching records.
SelectExact ==
  \A c \in Conns : At(c, "idle") /\ reply[c].outcome = "ok" /\ stmt[c].op = "select"
                     => reply[c].rows = Matching(stmt[c].where)

\* Reads that plan on an index, count from its entries or fetch and filter, answer
\* like scans.
QueriesExact == CountExact /\ SelectExact

\* merge: "Existing fields not in `fields` are preserved."  A committed UPDATE
\* leaves the stored value of every field it does not set as it was.
MergePreserves ==
  [][\A c \in Conns : Replace(c) /\ reply'[c].outcome # "error"
       => \A f \in Fields \ DOMAIN stmt[c].set :
            docs[loc[c].cur] # NoDoc /\ docs'[loc[c].cur][f] = docs[loc[c].cur][f]]_vars

\* DELETE ... WHERE deletes a record only while it matches the clause.
DeletesMatching ==
  [][\A c \in Conns : Erase(c) /\ stmt[c].op = "delete_where"
       => loc[c].cur \in Matching(stmt[c].where)]_vars

\* CREATE and DEFINE INDEX never bring a second record with the value of a unique
\* index: the check, made index by index before the write, sees every record that
\* is stored, with whatever DDL came before.
CreateKeepsUnique ==
  [][(\E c \in Conns : Insert(c) \/ DefineCommit(c)) /\ UniqueValues => UniqueValues']_vars

\* With no other writer an UPDATE, a DELETE and a CREATE change what they are meant
\* to: the version read is the version written over, the record deleted still
\* matches, the value checked is still free.
WritesPrecise == MergePreserves /\ DeletesMatching /\ CreateKeepsUnique

\* Every statement is answered, however many others run: the record loops work
\* on a snapshot, so they end.
EveryStatementAnswered == \A c \in Conns : ~At(c, "idle") ~> At(c, "idle")
=============================================================================
