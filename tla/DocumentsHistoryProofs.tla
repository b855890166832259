----------------------- MODULE DocumentsHistoryProofs -----------------------
(***************************************************************************)
(* What concurrent statements may rely on although each is several         *)
(* transactions: only a write that crossed another one leaves a stale      *)
(* index entry, and no query loses a record that matched throughout.       *)
(***************************************************************************)
EXTENDS DocumentsHistory, DocumentsProofs

hvars == <<vars, steady, crossed>>

-----------------------------------------------------------------------------
(* Stale entries come from crossed writes only *)

\* The entries of record i are those of its document.
SoundRecord(i, doc, ents, cat) ==
  \A e \in ents : e.id = i => doc # NoDoc /\ e \in IndexEntries(i, doc, cat)

\* What a connection at p, running s with locals l, holds about record i is still
\* true: the version read is the version stored, a record found missing is
\* missing, a batch will delete every entry of the document it replaces.
Uncrossed(i, doc, p, s, l, cat) ==
  /\ p = "write" => (l.cur = i => l.old = doc)
  /\ p = "unique" => (s.id = i => doc = NoDoc)
  /\ l.bdocs[i] # NoDoc => (doc # NoDoc => IndexEntries(i, doc, cat) \subseteq l.bdel)

SoundInv ==
  /\ IndexInv
  /\ \A c \in Conns : QueueSound(stmt[c], loc[c])
  /\ \A i \in Ids \ crossed :
       /\ SoundRecord(i, docs[i], entries, catalog)
       /\ \A c \in Conns : Uncrossed(i, docs[i], pc[c], stmt[c], loc[c], catalog)

LEMMA FreshSound ==
  ASSUME NEW s
  PROVE  /\ QueueSound(s, Fresh)
         /\ \A i \in Ids : \A doc : Uncrossed(i, doc, "idle", s, Fresh, catalog)
BY DEF QueueSound, Uncrossed, Fresh

\* Only a batch queues.
LEMMA NothingQueued ==
  ASSUME NEW s, NEW l \in Local, QueueSound(s, l), s.op # "batch"
  PROVE  (\A i \in Ids : l.bdocs[i] = NoDoc) /\ l.bput = {}
BY DEF QueueSound, Local, Entry

\* While no write crosses it, what another connection holds stays true.
LEMMA OthersUncrossed ==
  ASSUME SoundInv, Observe, NEW d \in Conns, pc'[d] = pc[d], stmt'[d] = stmt[d],
         loc'[d] = loc[d], NEW i \in Ids \ crossed'
  PROVE  Uncrossed(i, docs'[i], pc[d], stmt[d], loc[d], catalog)
<1>1. i \in Ids \ crossed /\ Uncrossed(i, docs[i], pc[d], stmt[d], loc[d], catalog)
  BY DEF SoundInv, Observe
<1>2. CASE Holds(d, i)
  <2>1. Holds(d, i)'
    BY <1>2 DEF Holds, At
  <2>2. docs'[i] = docs[i]
    BY <1>2, <2>1 DEF Observe, Crossed
  <2> QED
    BY <1>1, <2>2
<1>3. CASE ~Holds(d, i)
  BY <1>3 DEF Holds, At, Uncrossed
<1> QED
  BY <1>2, <1>3

\* Going on with the same batch, and with what is true when it is read.
LEMMA KeptSound ==
  ASSUME SoundInv, NEW c \in Conns, NEW label, NEW l,
         l.idx = loc[c].idx, l.bdocs = loc[c].bdocs, l.bput = loc[c].bput,
         l.bdel = loc[c].bdel, l.pos = loc[c].pos,
         label = "write" => l.old = docs[l.cur],
         label = "unique" => docs[stmt[c].id] = NoDoc \/ pc[c] = "unique"
  PROVE  /\ QueueSound(stmt[c], l)
         /\ \A i \in Ids \ crossed : Uncrossed(i, docs[i], label, stmt[c], l, catalog)
<1>1. QueueSound(stmt[c], l)
  BY DEF SoundInv, QueueSound
<1>2. ASSUME NEW i \in Ids \ crossed
      PROVE  Uncrossed(i, docs[i], label, stmt[c], l, catalog)
  <2>1. Uncrossed(i, docs[i], pc[c], stmt[c], loc[c], catalog)
    BY DEF SoundInv
  <2> QED
    BY <2>1 DEF Uncrossed
<1> QED
  BY <1>1, <1>2

\* The connection's own part of the invariant after a step.
OwnSound(c) ==
  /\ QueueSound(stmt[c], loc'[c])
  /\ \A i \in Ids \ crossed : Uncrossed(i, docs[i], pc'[c], stmt[c], loc'[c], catalog)

LEMMA ReturnSound ==
  ASSUME NEW c \in Conns, pc'[c] = "idle", loc'[c] = Fresh
  PROVE  OwnSound(c)
BY FreshSound DEF OwnSound

LEMMA AdvanceSound ==
  ASSUME SoundInv, NEW c \in Conns, NEW left, Advance(c, left)
  PROVE  OwnSound(c)
<1>1. TypeInv /\ loc[c] \in Local
  BY TypeInvParts DEF SoundInv, IndexInv, LocalOK
<1>2. CASE pc'[c] = "idle" /\ loc'[c] = Fresh
  BY <1>2, ReturnSound
<1>3. CASE /\ pc'[c] = "get"
           /\ loc'[c] = [loc[c] EXCEPT !.rows = left, !.cur = NoId, !.old = NoDoc]
  <2> DEFINE l == [loc[c] EXCEPT !.rows = left, !.cur = NoId, !.old = NoDoc]
  <2>1. /\ l.idx = loc[c].idx /\ l.bdocs = loc[c].bdocs /\ l.bput = loc[c].bput
        /\ l.bdel = loc[c].bdel /\ l.pos = loc[c].pos
    BY <1>1 DEF Local
  <2>2. loc'[c] = l /\ pc'[c] = "get"
    BY <1>3
  <2> HIDE DEF l
  <2> QED
    BY <2>1, <2>2, KeptSound DEF OwnSound
<1> QED
  BY <1>1, <1>2, <1>3, AdvanceFacts

LEMMA DeliverSound ==
  ASSUME SoundInv, NEW c \in Conns, NEW ids, NEW n, Deliver(c, ids, n)
  PROVE  OwnSound(c)
<1>1. TypeInv
  BY DEF SoundInv, IndexInv
<1>2. CASE \E r : Return(c, r)
  BY <1>1, <1>2, ReturnFacts, ReturnSound
<1> QED
  BY <1>2, AdvanceSound DEF Deliver

\* Reads: what a step goes on with is what it has just read.
LEMMA ReadSound ==
  ASSUME SoundInv, StableCatalog, NEW c \in Conns,
         \/ Load(c) \/ Contains(c) \/ CheckUnique(c) \/ Probe(c) \/ Scan(c) \/ Get(c)
         \/ Lookup(c) \/ Fetch(c)
  PROVE  OwnSound(c)
<1>1. TypeInv /\ loc[c] \in Local
  BY TypeInvParts DEF SoundInv, IndexInv, LocalOK
<1>2. CASE Fail(c) \/ Ok(c)
  BY <1>1, <1>2, FailFacts, OkFacts, ReturnSound
<1>3. ASSUME NEW label, NEW l, Goto(c, label, l),
             l.idx = loc[c].idx, l.bdocs = loc[c].bdocs, l.bput = loc[c].bput,
             l.bdel = loc[c].bdel, l.pos = loc[c].pos,
             label = "write" => l.old = docs[l.cur],
             label = "unique" => docs[stmt[c].id] = NoDoc \/ pc[c] = "unique"
      PROVE  OwnSound(c)
  <2>1. loc'[c] = l /\ pc'[c] = label
    BY <1>1, <1>3, GotoFacts
  <2> QED
    BY <1>3, <2>1, KeptSound DEF OwnSound
<1>4. CASE Load(c)
  <2> DEFINE R == IF stmt[c].op \in {"upsert", "update", "delete"} THEN {stmt[c].id} ELSE {}
             l == [loc[c] EXCEPT !.idx = catalog, !.rows = R]
  <2>1. Goto(c, FirstLabel(stmt[c].op), l) /\ pc[c] = "load"
    BY <1>4 DEF Load, At
  <2>2. loc[c] = Fresh
    BY <2>1 DEF SoundInv, IndexInv, Agree
  <2>3. l.bput = {} /\ \A i \in Ids : l.bdocs[i] = NoDoc
    BY <2>2 DEF Fresh
  <2>4. FirstLabel(stmt[c].op) \notin {"write", "unique"}
    BY DEF FirstLabel
  <2>5. loc'[c] = l /\ pc'[c] = FirstLabel(stmt[c].op)
    BY <1>1, <2>1, GotoFacts
  <2> HIDE DEF l
  <2> QED
    BY <2>3, <2>4, <2>5 DEF OwnSound, QueueSound, Uncrossed
<1>5. CASE Contains(c)
  <2>1. CASE \E C : /\ Goto(c, "unique", [loc[c] EXCEPT !.checks = C])
                    /\ docs[stmt[c].id] = NoDoc
    BY <1>1, <1>3, <2>1 DEF Local
  <2> QED
    BY <1>2, <1>5, <2>1 DEF Contains
<1>6. CASE CheckUnique(c)
  <2>1. CASE \E C : /\ Goto(c, "unique", [loc[c] EXCEPT !.checks = C])
                    /\ pc[c] = "unique"
    BY <1>1, <1>3, <2>1 DEF Local
  <2> QED
    BY <1>2, <1>6, <2>1 DEF CheckUnique, At
<1>7. CASE Probe(c)
  <2>1. CASE Goto(c, "get", loc[c])
    BY <1>3, <2>1
  <2>2. CASE Goto(c, "contains", [loc[c] EXCEPT !.rows = {}])
    BY <1>1, <1>3, <2>2 DEF Local
  <2> QED
    BY <1>2, <1>7, <2>1, <2>2 DEF Probe
<1>8. CASE Scan(c)
  BY <1>8, AdvanceSound DEF Scan
<1>9. CASE Get(c)
  <2>1. PICK i \in loc[c].rows :
          \/ Goto(c, "write", [loc[c] EXCEPT !.cur = i, !.old = docs[i]])
          \/ Advance(c, loc[c].rows \ {i})
          \/ Fail(c)
    BY <1>9 DEF Get
  <2>2. CASE Goto(c, "write", [loc[c] EXCEPT !.cur = i, !.old = docs[i]])
    BY <1>1, <1>3, <2>2 DEF Local
  <2> QED
    BY <1>2, <2>1, <2>2, AdvanceSound
<1>10. CASE Lookup(c)
  <2>1. CASE \E H : Goto(c, "fetch", [loc[c] EXCEPT !.hits = H])
    BY <1>1, <1>3, <2>1 DEF Local
  <2> QED
    BY <1>10, <2>1, DeliverSound DEF Lookup
<1>11. CASE Fetch(c)
  BY <1>11, DeliverSound DEF Fetch
<1> QED
  BY <1>4, <1>5, <1>6, <1>7, <1>8, <1>9, <1>10, <1>11

\* Queueing a document with the entries it replaces.
LEMMA QueueSoundKept ==
  ASSUME SoundInv, NEW c \in Conns, pc[c] \in {"item", "item_get"}, loc[c].idx = catalog,
         stmt[c].op = "batch", loc[c].pos \in 1 .. Len(stmt[c].items),
         NEW i \in Ids, stmt[c].items[loc[c].pos].id = i, loc[c].bdocs[i] = NoDoc,
         NEW doc \in Doc, NEW dels,
         docs[i] # NoDoc => IndexEntries(i, docs[i], catalog) \subseteq dels,
         Queue(c, i, doc, dels)
  PROVE  OwnSound(c)
<1> DEFINE l == loc[c]
           m == [l EXCEPT !.pos = @ + 1, !.bdocs[i] = doc,
                          !.bput = @ \cup IndexEntries(i, doc, l.idx), !.bdel = @ \cup dels]
<1>1. TypeInv /\ l \in Local
  BY TypeInvParts DEF SoundInv, IndexInv, LocalOK
<1>2. /\ m.idx = l.idx
      /\ m.pos = l.pos + 1
      /\ m.bdocs = [l.bdocs EXCEPT ![i] = doc]
      /\ m.bput = l.bput \cup IndexEntries(i, doc, l.idx)
      /\ m.bdel = l.bdel \cup dels
  BY <1>1 DEF Local
<1>3. Goto(c, "item", m)
  BY DEF Queue
<1>10. QueueSound(stmt[c], m)
  BY <1>1, QueueSoundPut DEF SoundInv
<1> HIDE DEF m
<1>4. loc'[c] = m /\ pc'[c] = "item"
  BY <1>1, <1>3, GotoFacts
<1>5. l.bdocs \in [Ids -> Doc \cup {NoDoc}] /\ l.bput \subseteq Entry /\ l.pos \in Nat
  BY <1>1 DEF Local
<1>11. ASSUME NEW j \in Ids \ crossed
       PROVE  Uncrossed(j, docs[j], "item", stmt[c], m, catalog)
  <2>1. CASE j = i
    BY <1>2, <2>1 DEF Uncrossed
  <2>2. CASE j # i
    <3>1. m.bdocs[j] = l.bdocs[j]
      BY <1>2, <1>5, <2>2
    <3>2. Uncrossed(j, docs[j], pc[c], stmt[c], l, catalog)
      BY SMTT(30) DEF SoundInv
    <3> QED
      BY <1>2, <3>1, <3>2 DEF Uncrossed
  <2> QED
    BY <2>1, <2>2
<1> QED
  BY <1>4, <1>10, <1>11 DEF OwnSound

LEMMA BatchReadSound ==
  ASSUME SoundInv, StableCatalog, DistinctUpserts, NEW c \in Conns,
         PrepareItem(c) \/ MergeItem(c)
  PROVE  OwnSound(c)
<1> DEFINE it == stmt[c].items[loc[c].pos]
<1>1. TypeInv /\ QueueSound(stmt[c], loc[c])
  BY SMTT(30) DEF SoundInv, IndexInv
<1>2. /\ pc[c] \in {"item", "item_get"}
      /\ stmt[c].op = "batch"
      /\ loc[c].pos \in 1 .. Len(stmt[c].items)
      /\ it.id \in Ids
      /\ \/ Fail(c)
         \/ Goto(c, "item_get", loc[c])
         \/ \E doc \in Doc : \E dels :
              /\ Queue(c, it.id, doc, dels)
              /\ it.op = "upsert" /\ docs[it.id] # NoDoc
                   => dels = IndexEntries(it.id, docs[it.id], loc[c].idx)
  BY <1>1, BatchSteps
<1>3. it.op = "upsert" /\ loc[c].bdocs[it.id] = NoDoc
  BY SMTT(30), <1>1, QueuedOnce
<1>4. loc[c].idx = catalog
  BY ZenonT(60), <1>2, LocalsLoaded DEF SoundInv
<1>5. CASE Fail(c)
  BY <1>1, <1>5, FailFacts, ReturnSound
<1>6. CASE Goto(c, "item_get", loc[c])
  <2>1. loc'[c] = loc[c] /\ pc'[c] = "item_get"
    BY <1>1, <1>6, GotoFacts
  <2> QED
    BY <2>1, KeptSound DEF OwnSound
<1>7. ASSUME NEW doc \in Doc, NEW dels, Queue(c, it.id, doc, dels),
             docs[it.id] # NoDoc => dels = IndexEntries(it.id, docs[it.id], loc[c].idx)
      PROVE  OwnSound(c)
  <2>1. docs[it.id] # NoDoc => IndexEntries(it.id, docs[it.id], catalog) \subseteq dels
    BY <1>4, <1>7
  <2>2. stmt[c].items[loc[c].pos].id = it.id
    OBVIOUS
  <2> HIDE DEF it
  <2> QED
    BY <1>2, <1>3, <1>4, <1>7, <2>1, <2>2, QueueSoundKept
<1> QED
  BY ZenonT(60), <1>2, <1>3, <1>5, <1>6, <1>7

\* A step that writes nothing keeps the invariant when its own locals do.
LEMMA ReadKeepsSound ==
  ASSUME SoundInv, IndexInv', Observe, NEW c \in Conns, Rest(c), stmt' = stmt,
         UNCHANGED store, OwnSound(c)
  PROVE  SoundInv'
<1>1. crossed \subseteq crossed'
  BY DEF Observe
<1>2. docs' = docs /\ entries' = entries /\ catalog' = catalog
  BY DEF store
<1>3. \A d \in Conns : QueueSound(stmt'[d], loc'[d])
  BY DEF SoundInv, OwnSound, Rest
<1>4. ASSUME NEW i \in Ids \ crossed'
      PROVE  SoundRecord(i, docs'[i], entries', catalog')
  BY <1>1, <1>2 DEF SoundInv
<1>5. ASSUME NEW i \in Ids \ crossed', NEW d \in Conns
      PROVE  Uncrossed(i, docs'[i], pc'[d], stmt'[d], loc'[d], catalog')
  <2>1. CASE d = c
    BY <1>1, <1>2, <2>1 DEF OwnSound
  <2>2. CASE d # c
    BY <1>1, <1>2, <2>2 DEF SoundInv, Rest
  <2> QED
    BY <2>1, <2>2
<1> QED
  BY <1>3, <1>4, <1>5 DEF SoundInv

\* A step that writes and holds nothing afterwards.
LEMMA WriteKeepsSound ==
  ASSUME SoundInv, IndexInv', Observe, NEW c \in Conns, Rest(c), stmt' = stmt,
         catalog' = catalog,
         QueueSound(stmt[c], loc'[c]), pc'[c] \notin {"write", "unique"},
         \A i \in Ids : loc'[c].bdocs[i] = NoDoc,
         \A i \in Ids \ crossed : SoundRecord(i, docs'[i], entries', catalog)
  PROVE  SoundInv'
<1>1. crossed \subseteq crossed'
  BY DEF Observe
<1>2. \A d \in Conns : QueueSound(stmt'[d], loc'[d])
  BY DEF SoundInv, Rest
<1>3. ASSUME NEW i \in Ids \ crossed'
      PROVE  SoundRecord(i, docs'[i], entries', catalog')
  BY <1>1
<1>4. ASSUME NEW i \in Ids \ crossed', NEW d \in Conns
      PROVE  Uncrossed(i, docs'[i], pc'[d], stmt'[d], loc'[d], catalog')
  <2>1. CASE d = c
    BY <2>1 DEF Uncrossed
  <2>2. CASE d # c
    BY <2>2, OthersUncrossed DEF Rest
  <2> QED
    BY <2>1, <2>2
<1> QED
  BY <1>2, <1>3, <1>4 DEF SoundInv

LEMMA FreshNothing == (\A i \in Ids : Fresh.bdocs[i] = NoDoc) /\ \A s : QueueSound(s, Fresh)
BY FreshSound DEF Fresh

LEMMA InsertSound ==
  ASSUME SoundInv, IndexInv', Observe, StableCatalog, NEW c \in Conns, Insert(c)
  PROVE  SoundInv'
<1> DEFINE s == stmt[c]
           l == loc[c]
<1>1. TypeInv /\ pc[c] = "unique"
  BY DEF SoundInv, IndexInv, Insert, At
<1>2. s.id \in Ids /\ s.doc \in Doc /\ l.idx = catalog
  BY <1>1, TypeInvParts, StatementTypes, LocalsLoaded DEF SoundInv, OpsAt
<1>3. CASE Fail(c)
  BY <1>1, <1>3, FailFacts, ReturnSound, ReadKeepsSound
<1>4. CASE /\ docs' = [docs EXCEPT ![s.id] = s.doc]
           /\ entries' = entries \cup IndexEntries(s.id, s.doc, l.idx)
           /\ catalog' = catalog
           /\ Ok(c)
  <2>1. /\ Rest(c) /\ stmt' = stmt /\ pc'[c] = "idle" /\ loc'[c] = Fresh
    BY <1>1, <1>4, OkFacts
  <2>2. s.doc # NoDoc /\ docs \in [Ids -> Doc \cup {NoDoc}]
    BY <1>1, <1>2, ValuesAssumption DEF TypeInv, TypeOK
  <2>3. \A e \in IndexEntries(s.id, s.doc, catalog) : e.id = s.id
    BY DEF IndexEntries
  <2>4. ASSUME NEW i \in Ids \ crossed
        PROVE  SoundRecord(i, docs'[i], entries', catalog)
    <3>1. /\ SoundRecord(i, docs[i], entries, catalog)
          /\ Uncrossed(i, docs[i], pc[c], s, l, catalog)
      BY DEF SoundInv
    <3>2. CASE i = s.id
      <4>1. docs[i] = NoDoc
        BY <1>1, <3>1, <3>2 DEF Uncrossed
      <4>2. docs'[i] = s.doc
        BY <1>4, <2>2, <3>2
      <4> QED
        BY <1>2, <1>4, <2>2, <3>1, <3>2, <4>1, <4>2 DEF SoundRecord
    <3>3. CASE i # s.id
      <4>1. docs'[i] = docs[i]
        BY <1>4, <2>2, <3>3
      <4> QED
        BY <1>2, <1>4, <2>3, <3>1, <3>3, <4>1 DEF SoundRecord
    <3> QED
      BY <3>2, <3>3
  <2> QED
    BY <1>4, <2>1, <2>4, FreshNothing, WriteKeepsSound
<1> QED
  BY <1>3, <1>4 DEF Insert

LEMMA WriteSound ==
  ASSUME SoundInv, IndexInv', Observe, StableCatalog, NEW c \in Conns, Replace(c) \/ Erase(c)
  PROVE  SoundInv'
<1> DEFINE l == loc[c]
           new == IF Replace(c) THEN Merged(l.old, stmt[c].set) ELSE NoDoc
           olds == IndexEntries(l.cur, l.old, l.idx)
           news == IF Replace(c) THEN IndexEntries(l.cur, new, l.idx) ELSE {}
<1>1. TypeInv /\ At(c, "write") /\ l \in Local
  BY TypeInvParts DEF SoundInv, IndexInv, Replace, Erase, LocalOK
<1>2. /\ l.cur \in Ids /\ l.old \in Doc /\ l.idx = catalog
      /\ stmt[c] \in Statement /\ stmt[c].op \in OpsAt("get")
      /\ pc[c] = "write"
  BY <1>1, WriteFacts, LocalsLoaded DEF SoundInv, At
<1>3. \/ Fail(c)
      \/ /\ docs' = [docs EXCEPT ![l.cur] = new]
         /\ entries' = (entries \ olds) \cup news
         /\ catalog' = catalog
         /\ Advance(c, l.rows \ {l.cur})
  <2>1. CASE Replace(c)
    BY <2>1 DEF Replace, WriteBatch
  <2>2. CASE ~Replace(c)
    BY <2>2 DEF Erase
  <2> QED
    BY <2>1, <2>2
<1>4. /\ \A e \in news : new # NoDoc /\ e \in IndexEntries(l.cur, new, catalog) /\ e.id = l.cur
      /\ \A e \in olds : e.id = l.cur
  <2>1. Replace(c) => new \in Doc
    BY <1>2, MergedType, StatementTypes DEF Replace
  <2> QED
    BY <1>2, <2>1, ValuesAssumption DEF IndexEntries
<1>5. olds = IndexEntries(l.cur, l.old, catalog)
  BY <1>2
<1> HIDE DEF new, olds, news
<1>6. CASE Fail(c)
  BY <1>1, <1>6, FailFacts, ReturnSound, ReadKeepsSound
<1>7. CASE /\ docs' = [docs EXCEPT ![l.cur] = new]
           /\ entries' = (entries \ olds) \cup news
           /\ catalog' = catalog
           /\ Advance(c, l.rows \ {l.cur})
  <2>1. docs \in [Ids -> Doc \cup {NoDoc}]
    BY <1>1 DEF TypeInv, TypeOK
  <2>2. ASSUME NEW i \in Ids \ crossed
        PROVE  SoundRecord(i, docs'[i], entries', catalog)
    <3>1. /\ SoundRecord(i, docs[i], entries, catalog)
          /\ Uncrossed(i, docs[i], pc[c], stmt[c], l, catalog)
      BY DEF SoundInv
    <3>2. CASE i = l.cur
      <4>1. l.old = docs[i]
        BY <1>2, <3>1, <3>2 DEF Uncrossed
      <4>2. docs'[i] = new
        BY <1>7, <2>1, <3>2
      <4>3. \A e \in entries : e.id = i => e \in olds
        BY <1>5, <3>1, <3>2, <4>1 DEF SoundRecord
      <4> QED
        BY <1>4, <1>7, <3>2, <4>2, <4>3 DEF SoundRecord
    <3>3. CASE i # l.cur
      <4>1. docs'[i] = docs[i]
        BY <1>7, <2>1, <3>3
      <4> QED
        BY <1>4, <1>7, <3>1, <3>3, <4>1 DEF SoundRecord
    <3> QED
      BY <3>2, <3>3
  <2>3. Rest(c) /\ stmt' = stmt /\ pc'[c] \notin {"write", "unique"}
    BY <1>1, <1>7, AdvanceFacts
  <2>4. QueueSound(stmt[c], loc'[c]) /\ \A i \in Ids : loc'[c].bdocs[i] = NoDoc
    <3>1. stmt[c].op # "batch" /\ QueueSound(stmt[c], l)
      BY <1>2 DEF OpsAt, SoundInv
    <3>2. (\A i \in Ids : l.bdocs[i] = NoDoc) /\ l.bput = {}
      BY <1>1, <3>1, NothingQueued
    <3>3. CASE loc'[c] = Fresh
      BY <3>3, FreshNothing
    <3>4. CASE loc'[c] = [l EXCEPT !.rows = l.rows \ {l.cur}, !.cur = NoId, !.old = NoDoc]
      BY <1>1, <3>2, <3>4 DEF QueueSound, Local
    <3> QED
      BY <1>1, <1>7, <3>3, <3>4, AdvanceFacts
  <2> QED
    BY <1>7, <2>2, <2>3, <2>4, WriteKeepsSound
<1> QED
  BY <1>3, <1>6, <1>7

LEMMA CommitBatchSound ==
  ASSUME SoundInv, IndexInv', Observe, StableCatalog, NEW c \in Conns, CommitBatch(c)
  PROVE  SoundInv'
<1> DEFINE l == loc[c]
<1>1. /\ docs' = [i \in Ids |-> IF l.bdocs[i] # NoDoc THEN l.bdocs[i] ELSE docs[i]]
      /\ entries' = (entries \ l.bdel) \cup l.bput
      /\ catalog' = catalog
      /\ Ok(c)
      /\ pc[c] \notin {"idle", "load"}
  BY DEF CommitBatch, WriteBatch, At
<1>2. TypeInv /\ l.idx = catalog /\ QueueSound(stmt[c], l)
  BY <1>1, LocalsLoaded DEF SoundInv, IndexInv
<1>3. Rest(c) /\ stmt' = stmt /\ pc'[c] = "idle" /\ loc'[c] = Fresh
  BY <1>1, <1>2, OkFacts
<1>4. ASSUME NEW i \in Ids \ crossed, NEW e \in entries', e.id = i
      PROVE  docs'[i] # NoDoc /\ e \in IndexEntries(i, docs'[i], catalog)
  <2>1. /\ SoundRecord(i, docs[i], entries, catalog)
        /\ Uncrossed(i, docs[i], pc[c], stmt[c], l, catalog)
    BY DEF SoundInv
  <2>2. CASE e \in l.bput
    <3>1. l.bdocs[i] # NoDoc /\ e \in IndexEntries(i, l.bdocs[i], catalog)
      BY <1>2, <1>4, <2>2 DEF QueueSound
    <3> QED
      BY <1>1, <3>1
  <2>3. CASE e \in entries \ l.bdel
    <3>1. docs[i] # NoDoc /\ e \in IndexEntries(i, docs[i], catalog)
      BY <1>4, <2>1, <2>3 DEF SoundRecord
    <3>2. l.bdocs[i] = NoDoc
      BY <2>1, <2>3, <3>1 DEF Uncrossed
    <3> QED
      BY <1>1, <3>1, <3>2
  <2> QED
    BY <1>1, <2>2, <2>3
<1>5. \A i \in Ids \ crossed : SoundRecord(i, docs'[i], entries', catalog)
  BY <1>4 DEF SoundRecord
<1> QED
  BY <1>1, <1>3, <1>5, FreshNothing, WriteKeepsSound

LEMMA SoundInvInit == HInit => SoundInv
<1> SUFFICES ASSUME HInit PROVE SoundInv
  OBVIOUS
<1>1. Init /\ IndexInv
  BY IndexInvInit DEF HInit
<1>2. \A c \in Conns : pc[c] = "idle" /\ loc[c] = Fresh
  BY <1>1 DEF Init
<1>3. entries = {}
  BY <1>1 DEF Init
<1>4. \A i \in Ids : SoundRecord(i, docs[i], entries, catalog)
  BY <1>3 DEF SoundRecord
<1> QED
  BY <1>1, <1>2, <1>4, FreshSound DEF SoundInv

LEMMA SoundInvNext ==
  ASSUME StableCatalog, DistinctUpserts, SoundInv, [HNext]_hvars
  PROVE  SoundInv'
<1>1. CASE UNCHANGED hvars
  <2>1. UNCHANGED vars /\ UNCHANGED <<docs, entries, catalog, pc, stmt, loc, crossed>>
    BY <1>1 DEF hvars, vars, store
  <2>2. IndexInv'
    BY <2>1, IndexInvNext DEF SoundInv
  <2> QED
    BY <2>1, <2>2 DEF SoundInv
<1> SUFFICES ASSUME Next, Observe PROVE SoundInv'
  BY <1>1 DEF HNext
<1>2. IndexInv' /\ IndexInv
  BY IndexInvNext DEF SoundInv
<1>3. crossed \subseteq crossed'
  BY DEF Observe
<1>4. CASE Crash
  <2>1. /\ \A c \in Conns : pc'[c] = "idle" /\ loc'[c] = Fresh
        /\ docs' = docs /\ entries' = entries /\ catalog' = catalog
    BY <1>4 DEF Crash, store
  <2>2. \A i \in Ids \ crossed' : SoundRecord(i, docs'[i], entries', catalog')
    BY <1>3, <2>1 DEF SoundInv
  <2>3. \A c \in Conns : QueueSound(stmt'[c], loc'[c])
    BY <2>1, FreshSound
  <2>4. \A i \in Ids \ crossed' : \A c \in Conns :
          Uncrossed(i, docs'[i], pc'[c], stmt'[c], loc'[c], catalog')
    BY <2>1, FreshSound
  <2> QED
    BY <1>2, <2>2, <2>3, <2>4 DEF SoundInv
<1>5. ASSUME NEW c \in Conns, Begin(c) PROVE SoundInv'
  <2>1. PICK s \in Statements[c] :
          /\ stmt' = [stmt EXCEPT ![c] = s]
          /\ pc' = [pc EXCEPT ![c] = IF s.op = "define" THEN "define" ELSE "load"]
    BY <1>5 DEF Begin
  <2>2. /\ \A d \in Conns \ {c} : pc'[d] = pc[d] /\ stmt'[d] = stmt[d] /\ loc'[d] = loc[d]
        /\ pc'[c] \notin {"write", "unique"}
        /\ loc'[c] = Fresh
        /\ docs' = docs /\ entries' = entries /\ catalog' = catalog
    BY <1>2, <1>5, <2>1 DEF Begin, At, store, IndexInv, Agree, TypeInv, TypeOK
  <2>3. \A i \in Ids \ crossed' : SoundRecord(i, docs'[i], entries', catalog')
    BY <1>3, <2>2 DEF SoundInv
  <2>4. \A d \in Conns : QueueSound(stmt'[d], loc'[d])
    BY <2>2, FreshSound DEF SoundInv
  <2>5. ASSUME NEW i \in Ids \ crossed', NEW d \in Conns
        PROVE  Uncrossed(i, docs'[i], pc'[d], stmt'[d], loc'[d], catalog')
    <3>1. CASE d = c
      BY <2>2, <3>1, FreshNothing DEF Uncrossed
    <3>2. CASE d # c
      BY <1>3, <2>2, <3>2 DEF SoundInv
    <3> QED
      BY <3>1, <3>2
  <2> QED
    BY <1>2, <2>3, <2>4, <2>5 DEF SoundInv
<1>6. ASSUME NEW c \in Conns, Step(c) PROVE SoundInv'
  <2>1. ~(DefineScan(c) \/ DefineCommit(c) \/ RemoveScan(c) \/ RemoveCommit(c))
    BY <1>2, OpsStable DEF DefineScan, DefineCommit, RemoveScan, RemoveCommit, At, IndexInv
  <2>2. Rest(c) /\ stmt' = stmt
    BY <1>2, <1>6, StepFacts DEF IndexInv
  <2>3. CASE \/ Load(c) \/ Contains(c) \/ CheckUnique(c) \/ Probe(c) \/ Scan(c) \/ Get(c)
             \/ Lookup(c) \/ Fetch(c)
    <3>1. UNCHANGED store
      BY <2>3 DEF Load, Contains, CheckUnique, Probe, Scan, Get, Lookup, Fetch, Fail
    <3> QED
      BY SMTT(30), <1>2, <2>2, <2>3, <3>1, ReadSound, ReadKeepsSound
  <2>4. CASE PrepareItem(c) \/ MergeItem(c)
    <3>1. UNCHANGED store
      BY <2>4 DEF PrepareItem, MergeItem, Fail
    <3> QED
      BY SMTT(30), <1>2, <2>2, <2>4, <3>1, BatchReadSound, ReadKeepsSound
  <2> QED
    BY <1>2, <1>6, <2>1, <2>3, <2>4, InsertSound, WriteSound, CommitBatchSound DEF Step
<1> QED
  BY <1>4, <1>5, <1>6 DEF Next

\* A stale index entry is the trace of a lost update: as long as no write came
\* between another connection's read of a record and its write of it, the record
\* has only the entries of its document.  With a fixed catalog and batches that
\* name a record once, for every number of connections and every interleaving.
THEOREM StaleOnlyIfCrossed ==
  StableCatalog /\ DistinctUpserts => (HSpec => []SoundUnlessCrossed)
<1> SUFFICES ASSUME StableCatalog, DistinctUpserts PROVE HSpec => []SoundUnlessCrossed
  OBVIOUS
<1>1. SoundInv /\ [HNext]_hvars => SoundInv'
  BY SoundInvNext
<1>2. SoundInv => SoundUnlessCrossed
  <2> SUFFICES ASSUME SoundInv, NEW e \in entries, e.id \notin crossed
               PROVE  docs[e.id] # NoDoc /\ e \in IndexEntries(e.id, docs[e.id], catalog)
    BY DEF SoundUnlessCrossed
  <2>1. e.id \in Ids
    BY TypeInvParts DEF SoundInv, IndexInv, StoreOK, Entry
  <2> QED
    BY <2>1 DEF SoundInv, SoundRecord
<1> QED
  BY <1>1, <1>2, SoundInvInit, PTL DEF HSpec, hvars

-----------------------------------------------------------------------------
(* Queries lose nothing *)

\* The answer r of a statement accounts for the records in st.
Accounted(op, st, r) ==
  /\ op = "select" => st \subseteq r.rows
  /\ op = "count" => Cardinality(st) <= r.total
  /\ op = "delete_where" => st = {}

\* What a query holds between two transactions still leads to every record in st:
\* an entry found, or a row still to be deleted.
Tracks(p, s, l, st, r) ==
  /\ p = "idle" => (r.outcome = "ok" => Accounted(s.op, st, r))
  /\ p = "fetch" => \A i \in st : \E e \in l.hits :
       e.id = i /\ Len(e.key) = Len(l.idx[Plan(l.idx, s.where)].fields)
  /\ p \in {"get", "write"} => (s.op = "delete_where" => st \subseteq l.rows)

QueryInv ==
  /\ IndexInv
  /\ WholeInv
  /\ \A c \in Conns : /\ steady[c] \subseteq Meeting(c)
                      /\ Tracks(pc[c], stmt[c], loc[c], steady[c], reply[c])

\* Fewer records are easier to account for.
LEMMA TracksFewer ==
  ASSUME NEW p, NEW s, NEW l, NEW st \in SUBSET Ids, NEW fewer \in SUBSET st,
         NEW r, p = "idle" => r.total \in Nat,
         Tracks(p, s, l, st, r)
  PROVE  Tracks(p, s, l, fewer, r)
<1>1. /\ Cardinality(fewer) <= Cardinality(st)
      /\ Cardinality(fewer) \in Nat
      /\ Cardinality(st) \in Nat
  BY FiniteAssumption, FS_Subset, FS_CardinalityType
<1>2. ASSUME p = "idle", r.outcome = "ok" PROVE Accounted(s.op, fewer, r)
  <2>1. Accounted(s.op, st, r) /\ r.total \in Nat
    BY <1>2 DEF Tracks
  <2>2. s.op = "count" => Cardinality(fewer) <= r.total
    BY <1>1, <2>1 DEF Accounted
  <2> QED
    BY <2>1, <2>2 DEF Accounted
<1> QED
  BY <1>2 DEF Tracks

\* steady after a step of a running statement.
LEMMA SteadyNext ==
  ASSUME QueryInv, Observe, NEW d \in Conns, stmt'[d] = stmt[d],
         pc[d] # "idle" \/ pc'[d] = "idle"
  PROVE  /\ steady'[d] = steady[d] \cap Meeting(d)'
         /\ steady[d] \in SUBSET Ids
BY DEF Observe, At, QueryInv, Meeting, Matching

\* Statements without a WHERE clause to account for.
LEMMA OtherTracks ==
  ASSUME NEW p, NEW s, NEW l, NEW st, NEW r, s.op \notin {"select", "count", "delete_where"},
         p # "fetch"
  PROVE  Tracks(p, s, l, st, r)
BY DEF Tracks, Accounted

LEMMA AdvanceTracks ==
  ASSUME TypeInv, NEW c \in Conns, NEW left, Advance(c, left),
         stmt[c].op = "delete_where", NEW st \in SUBSET left
  PROVE  Tracks(pc'[c], stmt[c], loc'[c], st, reply'[c])
<1>1. CASE left = {} /\ pc'[c] = "idle"
  BY <1>1 DEF Tracks, Accounted
<1>2. CASE /\ pc'[c] = "get"
           /\ loc'[c] = [loc[c] EXCEPT !.rows = left, !.cur = NoId, !.old = NoDoc]
  <2>1. loc[c] \in Local
    BY TypeInvParts DEF LocalOK
  <2>2. loc'[c].rows = left
    BY <1>2, <2>1 DEF Local
  <2> QED
    BY <1>2, <2>2 DEF Tracks
<1> QED
  BY <1>1, <1>2, AdvanceFacts

\* Returning, counting or deleting what was found accounts for all of it.
LEMMA DeliverTracks ==
  ASSUME TypeInv, NEW c \in Conns, stmt[c].op \in {"select", "count", "delete_where"},
         NEW ids, NEW n, Deliver(c, ids, n), NEW st,
         stmt[c].op # "count" => st \subseteq ids,
         stmt[c].op = "count" => Cardinality(st) <= n
  PROVE  Tracks(pc'[c], stmt[c], loc'[c], st, reply'[c])
<1>1. CASE stmt[c].op = "select"
  <2>1. pc'[c] = "idle" /\ reply'[c].rows = ids
    BY <1>1, ReturnFacts DEF Deliver
  <2> QED
    BY <1>1, <2>1 DEF Tracks, Accounted
<1>2. CASE stmt[c].op = "count"
  <2>1. pc'[c] = "idle" /\ reply'[c].total = n
    BY <1>2, ReturnFacts DEF Deliver
  <2> QED
    BY <1>2, <2>1 DEF Tracks, Accounted
<1>3. CASE stmt[c].op = "delete_where"
  <2>1. Advance(c, ids)
    BY <1>3 DEF Deliver
  <2> QED
    BY <1>3, <2>1, AdvanceTracks
<1> QED
  BY <1>1, <1>2, <1>3

LEMMA LookupTracks ==
  ASSUME QueryInv, StableCatalog, NEW c \in Conns, Lookup(c),
         NEW st \in SUBSET Matching(stmt[c].where)
  PROVE  Tracks(pc'[c], stmt[c], loc'[c], st, reply'[c])
<1> DEFINE w == stmt[c].where
           l == loc[c]
<1>1. TypeInv /\ WholeInv /\ IndexInv /\ pc[c] = "lookup"
  BY DEF QueryInv, IndexInv, Lookup, At
<1>2. /\ stmt[c].op \in {"select", "count", "delete_where"}
      /\ w \in Where
      /\ l.idx = catalog
      /\ l \in Local
  BY <1>1, TypeInvParts, StatementTypes, LocalsLoaded DEF OpsAt
<1>3. CASE Usable(l.idx, w) = {}
  <2>1. Deliver(c, Matching(w), Cardinality(Matching(w)))
    BY <1>3 DEF Lookup
  <2>2. Cardinality(st) <= Cardinality(Matching(w))
    BY MatchingType, FiniteAssumption, FS_Subset
  <2> QED
    BY <1>1, <1>2, <2>1, <2>2, DeliverTracks
<1>4. CASE Usable(catalog, w) # {} /\ stmt[c].op = "count"
           /\ Deliver(c, {}, Cardinality(PlanHits(l.idx, w)))
  <2>1. IsFiniteSet(PlanHits(catalog, w))
    <3>1. PlanHits(catalog, w) \subseteq entries
      BY DEF PlanHits, Hits
    <3> QED
      BY <1>1, <3>1, TypeInvParts, FS_Subset DEF StoreOK
  <2>2. \A i \in st : \E e \in PlanHits(catalog, w) : e.id = i
    BY <1>1, <1>2, <1>4, PlanFinds DEF IndexInv
  <2>3. Cardinality(st) <= Cardinality(PlanHits(catalog, w))
    BY <2>1, <2>2, CountsAll
  <2> DEFINE n == Cardinality(PlanHits(catalog, w))
             ids == {}
  <2>4. Deliver(c, ids, n) /\ Cardinality(st) <= n
    BY <1>2, <1>4, <2>3
  <2> HIDE DEF n, ids
  <2> QED
    BY <1>1, <1>2, <1>4, <2>4, DeliverTracks
<1>5. CASE Usable(catalog, w) # {} /\ Goto(c, "fetch", [l EXCEPT !.hits = PlanHits(l.idx, w)])
  <2>1. pc'[c] = "fetch" /\ loc'[c] = [l EXCEPT !.hits = PlanHits(l.idx, w)]
    BY <1>1, <1>5, GotoFacts
  <2>2. loc'[c].hits = PlanHits(catalog, w) /\ loc'[c].idx = catalog
    BY <1>2, <2>1 DEF Local
  <2>3. \A i \in st : \E e \in PlanHits(catalog, w) :
          e.id = i /\ Len(e.key) = Len(catalog[Plan(catalog, w)].fields)
    BY <1>1, <1>2, <1>5, PlanFinds DEF IndexInv
  <2> QED
    BY <2>1, <2>2, <2>3 DEF Tracks
<1> QED
  BY <1>2, <1>3, <1>4, <1>5 DEF Lookup

LEMMA FetchTracks ==
  ASSUME QueryInv, StableCatalog, NEW c \in Conns, Fetch(c),
         NEW st \in SUBSET (steady[c] \cap Matching(stmt[c].where))
  PROVE  Tracks(pc'[c], stmt[c], loc'[c], st, reply'[c])
<1> DEFINE w == stmt[c].where
           l == loc[c]
           fieldCount == Len(l.idx[Plan(l.idx, w)].fields)
           found == {e \in l.hits : Len(e.key) = fieldCount /\ e.id \in Matching(w)}
           ids == {e.id : e \in found}
<1>1. TypeInv /\ pc[c] = "fetch" /\ Tracks(pc[c], stmt[c], l, steady[c], reply[c])
  BY DEF QueryInv, IndexInv, Fetch, At
<1>2. stmt[c].op \in {"select", "count", "delete_where"}
  BY <1>1, TypeInvParts DEF OpsAt
<1>3. \A i \in st : \E e \in found : e.id = i
  BY <1>1 DEF Tracks
<1>4. IsFiniteSet(found)
  BY SMTT(30), <1>1, TypeInvParts, FS_Subset DEF LocalOK
<1>5. Deliver(c, ids, Cardinality(found))
  BY DEF Fetch
<1>6. st \subseteq ids
  BY <1>3
<1> HIDE DEF found, ids
<1>7. Cardinality(st) <= Cardinality(found)
  BY <1>3, <1>4, CountsAll
<1> QED
  BY <1>1, <1>2, <1>5, <1>6, <1>7, DeliverTracks

\* A deleted record matches no longer, the others stay to be deleted.
LEMMA DeleteTracks ==
  ASSUME QueryInv, NEW c \in Conns, Get(c) \/ Erase(c), stmt[c].op = "delete_where",
         NEW st \in SUBSET steady[c], \A i \in st : docs'[i] # NoDoc
  PROVE  Tracks(pc'[c], stmt[c], loc'[c], st, reply'[c])
<1> DEFINE l == loc[c]
<1>1. TypeInv /\ pc[c] \in {"get", "write"} /\ l \in Local
  BY TypeInvParts DEF QueryInv, IndexInv, Get, Erase, At, LocalOK
<1>2. st \subseteq l.rows
  BY <1>1 DEF QueryInv, Tracks
<1>3. CASE Fail(c)
  BY <1>1, <1>3, FailFacts DEF Tracks
<1>4. CASE Get(c) /\ ~Fail(c)
  <2>1. PICK i \in l.rows :
          \/ Goto(c, "write", [l EXCEPT !.cur = i, !.old = docs[i]])
          \/ docs[i] = NoDoc /\ Advance(c, l.rows \ {i})
    BY <1>4 DEF Get
  <2>2. docs' = docs
    BY <1>4 DEF Get, store
  <2>3. CASE Goto(c, "write", [l EXCEPT !.cur = i, !.old = docs[i]])
    <3>1. pc'[c] = "write" /\ loc'[c] = [l EXCEPT !.cur = i, !.old = docs[i]]
      BY <1>1, <2>3, GotoFacts
    <3>2. loc'[c].rows = l.rows
      BY <1>1, <3>1 DEF Local
    <3> QED
      BY <1>2, <3>1, <3>2 DEF Tracks
  <2>4. CASE docs[i] = NoDoc /\ Advance(c, l.rows \ {i})
    <3>1. st \subseteq l.rows \ {i}
      BY <1>2, <2>2, <2>4
    <3> QED
      BY <1>1, <2>4, <3>1, AdvanceTracks
  <2> QED
    BY <2>1, <2>3, <2>4
<1>5. CASE Erase(c) /\ ~Fail(c)
  <2>1. docs' = [docs EXCEPT ![l.cur] = NoDoc] /\ Advance(c, l.rows \ {l.cur})
        /\ pc[c] = "write"
    BY <1>5 DEF Erase, At
  <2>2. l.cur \in Ids /\ docs \in [Ids -> Doc \cup {NoDoc}]
    BY <1>1, <2>1, WriteFacts DEF At, TypeInv, TypeOK
  <2>3. st \subseteq l.rows \ {l.cur}
    BY <1>2, <2>1, <2>2
  <2> QED
    BY <1>1, <2>1, <2>3, AdvanceTracks
<1> QED
  BY <1>3, <1>4, <1>5

LEMMA StepTracks ==
  ASSUME QueryInv, TypeInv', Observe, StableCatalog, NEW c \in Conns, Step(c)
  PROVE  Tracks(pc'[c], stmt[c], loc'[c], steady'[c], reply'[c])
<1>1. TypeInv /\ WholeInv /\ IndexInv
  BY DEF QueryInv, IndexInv
<1>2. stmt' = stmt /\ pc[c] # "idle"
  BY <1>1, StepFacts
<1>3. /\ stmt[c] \in Statement
      /\ stmt[c].op \in OpsAt(pc[c])
  BY <1>1, <1>2, TypeInvParts
<1>4. steady'[c] = steady[c] \cap Meeting(c)'
  BY <1>2, SteadyNext
<1>5. CASE stmt[c].op \notin {"select", "count", "delete_where"}
  <2>1. pc'[c] # "fetch"
    <3> SUFFICES ASSUME pc'[c] = "fetch" PROVE FALSE
      OBVIOUS
    <3>1. stmt'[c].op \in OpsAt(pc'[c])
      BY DEF TypeInv, ControlOK
    <3> QED
      BY <1>2, <1>5, <3>1 DEF OpsAt
  <2> QED
    BY <1>5, <2>1, OtherTracks
<1>6. CASE stmt[c].op \in {"select", "count", "delete_where"}
  <2>1. Clause(stmt[c]) = stmt[c].where
    BY <1>3, <1>6, StatementsAssumption DEF Clause
  <2>2. \A i \in steady'[c] : docs'[i] # NoDoc
    BY <1>2, <1>4 DEF Meeting, Matching
  <2>3. docs' = docs => steady'[c] \subseteq Matching(stmt[c].where)
    BY <1>2, <1>4, <2>1 DEF Meeting, Matching
  <2>4. pc[c] \in {"load", "lookup", "fetch", "get", "write"}
    BY <1>1, <1>2, <1>3, <1>6, TypeInvParts DEF OpsAt, Labels
  <2>5. CASE pc[c] = "load"
    <3>1. Load(c)
      BY <1>2, <2>5 DEF Step, Load, Contains, CheckUnique, Insert, Probe, Scan, Get, Replace, Erase,
         Lookup, Fetch, PrepareItem, MergeItem, CommitBatch, DefineScan, DefineCommit,
         RemoveScan, RemoveCommit, At
    <3>2. pc'[c] = FirstLabel(stmt[c].op)
      BY <1>1, <3>1, GotoFacts DEF Load
    <3>3. pc'[c] = "lookup"
      BY <1>6, <3>2 DEF FirstLabel
    <3> QED
      BY <3>3 DEF Tracks
  <2>6. CASE pc[c] = "lookup"
    <3>1. Lookup(c)
      BY <1>2, <2>6 DEF Step, Load, Contains, CheckUnique, Insert, Probe, Scan, Get, Replace, Erase,
         Lookup, Fetch, PrepareItem, MergeItem, CommitBatch, DefineScan, DefineCommit,
         RemoveScan, RemoveCommit, At
    <3>2. docs' = docs
      BY <3>1 DEF Lookup, store
    <3> QED
      BY <2>3, <3>1, <3>2, LookupTracks
  <2>7. CASE pc[c] = "fetch"
    <3>1. Fetch(c)
      BY <1>2, <2>7 DEF Step, Load, Contains, CheckUnique, Insert, Probe, Scan, Get, Replace, Erase,
         Lookup, Fetch, PrepareItem, MergeItem, CommitBatch, DefineScan, DefineCommit,
         RemoveScan, RemoveCommit, At
    <3>2. docs' = docs
      BY <3>1 DEF Fetch, store
    <3>3. steady'[c] \subseteq steady[c] \cap Matching(stmt[c].where)
      BY <1>4, <2>3, <3>2
    <3> QED
      BY SMTT(30), <3>1, <3>3, FetchTracks
  <2>8. CASE pc[c] \in {"get", "write"}
    <3>1. stmt[c].op = "delete_where"
      BY <1>3, <1>6, <2>8 DEF OpsAt
    <3>2. Get(c) \/ Erase(c)
      BY ZenonT(60), <1>2, <2>8, <3>1 DEF Step, Load, Contains, CheckUnique, Insert, Probe, Scan, Get, Replace,
         Erase, Lookup, Fetch, PrepareItem, MergeItem, CommitBatch, DefineScan, DefineCommit,
         RemoveScan, RemoveCommit, At
    <3> QED
      BY SMTT(30), <1>4, <2>2, <3>1, <3>2, DeleteTracks
  <2> QED
    BY <2>4, <2>5, <2>6, <2>7, <2>8
<1> QED
  BY <1>5, <1>6

LEMMA QueryInvInit == HInit => QueryInv
<1> SUFFICES ASSUME HInit PROVE QueryInv
  OBVIOUS
<1>1. IndexInv /\ WholeInv
  BY IndexInvInit, WholeInvInit DEF HInit
<1>2. \A c \in Conns : pc[c] = "idle" /\ reply[c].outcome = "none" /\ steady[c] = {}
  BY DEF HInit, Init, NoReply
<1> QED
  BY <1>1, <1>2 DEF QueryInv, Tracks

LEMMA QueryInvNext ==
  ASSUME StableCatalog, WholeTuples, QueryInv, [HNext]_hvars
  PROVE  QueryInv'
<1>1. CASE UNCHANGED hvars
  <2>1. UNCHANGED vars /\ UNCHANGED <<docs, pc, stmt, loc, reply, steady>>
    BY <1>1 DEF hvars, vars, store
  <2>2. IndexInv' /\ WholeInv'
    BY <2>1, IndexInvNext, WholeInvNext DEF QueryInv
  <2> QED
    BY <2>1, <2>2 DEF QueryInv, Meeting, Matching
<1> SUFFICES ASSUME Next, Observe PROVE QueryInv'
  BY <1>1 DEF HNext
<1>2. WholeInv' /\ IndexInv' /\ TypeInv' /\ TypeInv /\ IndexInv
  BY IndexInvNext, WholeInvNext DEF QueryInv, IndexInv
<1>3. \A d \in Conns : steady'[d] \subseteq Meeting(d)'
  BY DEF Observe
<1>4. ASSUME NEW d \in Conns, pc'[d] = pc[d], stmt'[d] = stmt[d], loc'[d] = loc[d],
             reply'[d] = reply[d]
      PROVE  Tracks(pc'[d], stmt'[d], loc'[d], steady'[d], reply'[d])
  <2>1. steady'[d] \subseteq steady[d] /\ steady[d] \in SUBSET Ids
    BY <1>4, SteadyNext
  <2>2. Tracks(pc[d], stmt[d], loc[d], steady[d], reply[d])
    BY DEF QueryInv
  <2>3. reply[d].total \in Nat
    BY <1>2 DEF TypeInv, TypeOK, Reply
  <2>4. Tracks(pc[d], stmt[d], loc[d], steady'[d], reply[d])
    BY <2>1, <2>2, <2>3, TracksFewer
  <2> QED
    BY <1>4, <2>4
<1>5. CASE Crash
  <2>1. \A d \in Conns : pc'[d] = "idle" /\ reply'[d].outcome = "none"
    BY <1>5 DEF Crash, NoReply
  <2> QED
    BY <1>2, <1>3, <2>1 DEF QueryInv, Tracks
<1>6. ASSUME NEW c \in Conns, Begin(c) PROVE QueryInv'
  <2>1. PICK s \in Statements[c] :
          /\ stmt' = [stmt EXCEPT ![c] = s]
          /\ pc' = [pc EXCEPT ![c] = IF s.op = "define" THEN "define" ELSE "load"]
    BY <1>6 DEF Begin
  <2>2. /\ \A d \in Conns \ {c} : /\ pc'[d] = pc[d] /\ stmt'[d] = stmt[d]
                                  /\ loc'[d] = loc[d] /\ reply'[d] = reply[d]
        /\ pc'[c] \in {"define", "load"}
    BY <1>2, <1>6, <2>1 DEF Begin, TypeInv, TypeOK
  <2>3. Tracks(pc'[c], stmt'[c], loc'[c], steady'[c], reply'[c])
    BY <2>2 DEF Tracks
  <2> QED
    BY <1>2, <1>3, <1>4, <2>2, <2>3 DEF QueryInv
<1>7. ASSUME NEW c \in Conns, Step(c) PROVE QueryInv'
  <2>1. Rest(c) /\ stmt' = stmt
    BY <1>2, <1>7, StepFacts
  <2>2. Tracks(pc'[c], stmt'[c], loc'[c], steady'[c], reply'[c])
    BY <1>2, <1>7, <2>1, StepTracks
  <2> QED
    BY <1>2, <1>3, <1>4, <2>1, <2>2 DEF QueryInv, Rest
<1> QED
  BY <1>5, <1>6, <1>7 DEF Next

\* SELECT, COUNT and DELETE ... WHERE, each of several transactions and planned on
\* an index, account for every record that matched from their beginning to their
\* end, whatever other connections wrote meanwhile.  With a fixed catalog and no
\* NONE in a field of an index but its first, for every number of
\* connections, records, indexes and statements.
THEOREM QueriesComplete ==
  StableCatalog /\ WholeTuples => (HSpec => []QueryComplete)
<1> SUFFICES ASSUME StableCatalog, WholeTuples PROVE HSpec => []QueryComplete
  OBVIOUS
<1>1. QueryInv /\ [HNext]_hvars => QueryInv'
  BY QueryInvNext
<1>2. QueryInv => QueryComplete
  BY DEF QueryInv, QueryComplete, Tracks, Accounted, At
<1> QED
  BY <1>1, <1>2, QueryInvInit, PTL DEF HSpec, hvars
=============================================================================
