------------------------ MODULE AnalyticsCacheProofs ------------------------
(***************************************************************************)
(* Theorems about AnalyticsCache and AnalyticsCacheHistory, for every      *)
(* number of connections, tables, keys and statements and for every pair   *)
(* of cache limits.                                                        *)
(***************************************************************************)
EXTENDS AnalyticsCacheHistory, SequenceTheorems, FiniteSetTheorems, WellFoundedInduction, TLAPS

Querying == {"version", "lookup", "compute", "stamp", "insert", "evict"}

\* Where a connection stands says which statement it runs; a bump call has a
\* table; and only the connection in the eviction loop of insert holds the mutex.
ControlOK(p, s, l, holder) ==
  \A c \in Conns :
    /\ p[c] # "idle" => s[c] \in Statement
    /\ p[c] \in Querying => s[c].op = "query"
    /\ p[c] \in {"bump", "bump_slow"} => l[c].todo # <<>>
    /\ p[c] = "evict" <=> holder = c

CacheInv == TypeOK /\ ControlOK(pc, stmt, loc, lock) /\ WithinLimits

\* What an action must keep of the shared state.
SharedOK ==
  /\ commits \in [Tables -> Nat]
  /\ versions \in [Tables -> Nat \cup {Absent}]
  /\ lru \in Seq(CacheEntry)
  /\ current_bytes \in Nat
  /\ WithinLimits

LEMMA QueryTypes ==
  ASSUME NEW s \in Statement
  PROVE  /\ s.op = "query" => s.key \in Keys /\ KeyTable[s.key] \in Tables
         /\ s.op = "relate" => s.table \in Tables
         /\ s.op = "batch" => s.tables \in Seq(Tables)
         /\ s.op # "query" => s.op \in {"relate", "batch"}
BY CacheAssumption DEF Statement

LEMMA CurrentType ==
  ASSUME TypeOK, NEW t \in Tables
  PROVE  Current(t) \in Nat
BY DEF TypeOK, Current

LEMMA FreshType == Fresh \in Local
BY DEF Fresh, Local

\* Taking an entry out of the LRU order leaves one entry less.
LEMMA RemoveAtType ==
  ASSUME NEW S, NEW s \in Seq(S), NEW i \in 1 .. Len(s)
  PROVE  RemoveAt(s, i) \in Seq(S) /\ Len(RemoveAt(s, i)) = Len(s) - 1
<1> DEFINE before == SubSeq(s, 1, i - 1)
           after == SubSeq(s, i + 1, Len(s))
<1>1. before \in Seq(S) /\ Len(before) = i - 1
  BY SubSeqProperties
<1>2. after \in Seq(S) /\ Len(after) = Len(s) - i
  BY SubSeqProperties
<1>3. RemoveAt(s, i) = before \o after
  BY DEF RemoveAt
<1> HIDE DEF before, after
<1>4. before \o after \in Seq(S) /\ Len(before \o after) = Len(before) + Len(after)
  BY <1>1, <1>2, ConcatProperties
<1> QED
  BY <1>1, <1>2, <1>3, <1>4

\* The other entries keep their order.
LEMMA RemoveAtElements ==
  ASSUME NEW S, NEW s \in Seq(S), NEW k \in 1 .. Len(s), NEW i \in 1 .. Len(s) - 1
  PROVE  RemoveAt(s, k)[i] = IF i < k THEN s[i] ELSE s[i + 1]
<1> DEFINE before == SubSeq(s, 1, k - 1)
           after == SubSeq(s, k + 1, Len(s))
<1>1. /\ before \in Seq(S) /\ Len(before) = k - 1
      /\ \A j \in 1 .. k - 1 : before[j] = s[j]
  BY SubSeqProperties
<1>2. /\ after \in Seq(S) /\ Len(after) = Len(s) - k
      /\ \A j \in 1 .. Len(s) - k : after[j] = s[j + k]
  BY SubSeqProperties
<1>3. RemoveAt(s, k) = before \o after
  BY DEF RemoveAt
<1> HIDE DEF before, after
<1>4. (before \o after)[i] = IF i <= Len(before) THEN before[i] ELSE after[i - Len(before)]
  BY <1>1, <1>2, ConcatProperties
<1>5. CASE i < k
  BY <1>1, <1>3, <1>4, <1>5
<1>6. CASE i >= k
  <2>1. after[i - (k - 1)] = s[i + 1]
    <3>1. i - (k - 1) \in 1 .. Len(s) - k /\ (i - (k - 1)) + k = i + 1
      BY <1>6
    <3> QED
      BY <1>2, <3>1
  <2> QED
    BY <1>1, <1>3, <1>4, <1>6, <2>1
<1> QED
  BY <1>5, <1>6

LEMMA PositionType ==
  ASSUME TypeOK, NEW k, Cached(k)
  PROVE  /\ Position(k) \in 1 .. Len(lru)
         /\ lru[Position(k)] \in CacheEntry
<1>1. Position(k) \in 1 .. Len(lru)
  BY DEF Cached, Position
<1> QED
  BY <1>1 DEF TypeOK

LEMMA SaturatingSubType ==
  ASSUME NEW m \in Nat, NEW n \in Nat
  PROVE  SaturatingSub(m, n) \in Nat
BY DEF SaturatingSub

\* Going on keeps the invariant when the locals and the mutex suit the label.
LEMMA GotoInv ==
  ASSUME CacheInv, SharedOK', NEW c \in Conns, NEW label \in Labels, NEW l \in Local,
         pc[c] # "idle",
         label \in Querying => stmt[c].op = "query",
         label \in {"bump", "bump_slow"} => l.todo # <<>>,
         Goto(c, label, l),
         lock' = IF label = "evict" THEN c ELSE IF pc[c] = "evict" THEN NoConn ELSE lock,
         label = "evict" => lock = NoConn
  PROVE  CacheInv'
<1>1. TypeOK'
  BY CacheAssumption DEF CacheInv, SharedOK, TypeOK, Goto
<1>2. ASSUME NEW d \in Conns
      PROVE  /\ pc'[d] # "idle" => stmt'[d] \in Statement
             /\ pc'[d] \in Querying => stmt'[d].op = "query"
             /\ pc'[d] \in {"bump", "bump_slow"} => loc'[d].todo # <<>>
             /\ pc'[d] = "evict" <=> lock' = d
  <2>1. pc'[d] = (IF d = c THEN label ELSE pc[d]) /\ loc'[d] = (IF d = c THEN l ELSE loc[d])
    BY DEF CacheInv, TypeOK, Goto
  <2>2. stmt' = stmt
    BY DEF Goto
  <2> QED
    BY <2>1, <2>2, CacheAssumption DEF CacheInv, ControlOK
<1>3. ControlOK(pc', stmt', loc', lock')
  BY <1>2 DEF ControlOK
<1> QED
  BY <1>1, <1>3 DEF CacheInv, SharedOK, ControlOK

LEMMA ReturnInv ==
  ASSUME CacheInv, SharedOK', NEW c \in Conns, pc[c] # "idle", Return(c),
         lock' = IF pc[c] = "evict" THEN NoConn ELSE lock
  PROVE  CacheInv'
<1>1. "idle" \in Labels /\ "idle" \notin Querying \cup {"bump", "bump_slow", "evict"}
  BY DEF Labels, Querying
<1> QED
  BY <1>1, FreshType, GotoInv DEF Return

\* A step that leaves the shared state alone keeps what is asked of it.
LEMMA SharedKept ==
  ASSUME CacheInv, UNCHANGED <<commits, versions, cache>>
  PROVE  SharedOK'
BY DEF CacheInv, TypeOK, SharedOK, WithinLimits, cache

LEMMA BeginInv ==
  ASSUME CacheInv, NEW c \in Conns, Begin(c)
  PROVE  CacheInv'
<1>1. PICK s \in Statements[c] :
        /\ stmt' = [stmt EXCEPT ![c] = s]
        /\ pc' = [pc EXCEPT ![c] = IF s.op = "query" THEN "version" ELSE "commit"]
  BY DEF Begin
<1>2. s \in Statement
  BY CacheAssumption
<1>3. TypeOK' /\ WithinLimits'
  BY <1>1, <1>2 DEF CacheInv, TypeOK, WithinLimits, Begin, cache, Labels
<1>4. ASSUME NEW d \in Conns
      PROVE  /\ pc'[d] # "idle" => stmt'[d] \in Statement
             /\ pc'[d] \in Querying => stmt'[d].op = "query"
             /\ pc'[d] \in {"bump", "bump_slow"} => loc'[d].todo # <<>>
             /\ pc'[d] = "evict" <=> lock' = d
  <2>1. loc' = loc /\ lock' = lock /\ pc[c] = "idle"
    BY DEF Begin, At, cache
  <2>2. /\ pc'[d] = IF d = c THEN IF s.op = "query" THEN "version" ELSE "commit" ELSE pc[d]
        /\ stmt'[d] = IF d = c THEN s ELSE stmt[d]
    BY <1>1 DEF CacheInv, TypeOK
  <2> QED
    BY <1>2, <2>1, <2>2 DEF CacheInv, ControlOK, Querying
<1>5. ControlOK(pc', stmt', loc', lock')
  BY <1>4 DEF ControlOK
<1> QED
  BY <1>3, <1>5 DEF CacheInv, ControlOK

-----------------------------------------------------------------------------
(* GRAPH queries *)

LEMMA ReadInv ==
  ASSUME CacheInv, NEW c \in Conns, ReadVersion(c) \/ Compute(c) \/ Stamp(c)
  PROVE  CacheInv'
<1>1. SharedOK' /\ lock' = lock
  BY SharedKept DEF ReadVersion, Compute, Stamp, cache
<1>2. /\ pc[c] \in {"version", "compute", "stamp"}
      /\ stmt[c] \in Statement /\ stmt[c].op = "query" /\ Table(c) \in Tables
  BY QueryTypes DEF ReadVersion, Compute, Stamp, At, CacheInv, ControlOK, Querying, Table
<1>3. loc[c] \in Local /\ Current(Table(c)) \in Nat /\ commits[Table(c)] \in Nat
  BY <1>2, CurrentType DEF CacheInv, TypeOK
<1>4. CASE ReadVersion(c)
  <2> DEFINE l == [loc[c] EXCEPT !.version = Current(Table(c))]
  <2>1. l \in Local /\ Goto(c, "lookup", l)
    BY <1>3, <1>4 DEF Local, ReadVersion
  <2> HIDE DEF l
  <2> QED
    BY <1>1, <1>2, <2>1, GotoInv DEF Labels
<1>5. CASE Compute(c)
  <2>1. PICK n \in Sizes :
          Goto(c, "stamp", [loc[c] EXCEPT !.data = commits[Table(c)], !.bytes = n])
    BY <1>5 DEF Compute
  <2> DEFINE l == [loc[c] EXCEPT !.data = commits[Table(c)], !.bytes = n]
  <2>2. l \in Local /\ Goto(c, "stamp", l)
    BY <1>3, <2>1, CacheAssumption DEF Local
  <2> HIDE DEF l
  <2> QED
    BY <1>1, <1>2, <2>2, GotoInv DEF Labels
<1>6. CASE Stamp(c)
  <2> DEFINE l == [loc[c] EXCEPT !.version = Current(Table(c))]
  <2>1. l \in Local /\ Goto(c, "insert", l)
    BY <1>3, <1>6 DEF Local, Stamp
  <2> HIDE DEF l
  <2> QED
    BY <1>1, <1>2, <2>1, GotoInv DEF Labels
<1> QED
  BY <1>4, <1>5, <1>6

\* Promoting an entry keeps the length of the cache.
LEMMA PromotedType ==
  ASSUME TypeOK, NEW i \in 1 .. Len(lru)
  PROVE  /\ <<lru[i]>> \o RemoveAt(lru, i) \in Seq(CacheEntry)
         /\ Len(<<lru[i]>> \o RemoveAt(lru, i)) = Len(lru)
<1>1. RemoveAt(lru, i) \in Seq(CacheEntry) /\ Len(RemoveAt(lru, i)) = Len(lru) - 1
  BY RemoveAtType DEF TypeOK
<1>2. <<lru[i]>> \in Seq(CacheEntry) /\ Len(<<lru[i]>>) = 1
  BY DEF TypeOK
<1>3. ASSUME NEW a \in Seq(CacheEntry), NEW b \in Seq(CacheEntry)
      PROVE  a \o b \in Seq(CacheEntry) /\ Len(a \o b) = Len(a) + Len(b)
  BY ConcatProperties
<1>4. /\ <<lru[i]>> \o RemoveAt(lru, i) \in Seq(CacheEntry)
      /\ Len(<<lru[i]>> \o RemoveAt(lru, i)) = Len(<<lru[i]>>) + Len(RemoveAt(lru, i))
  BY <1>1, <1>2, <1>3, Zenon
<1> QED
  BY <1>1, <1>2, <1>4 DEF TypeOK

\* Moving the entry at k to the front: every entry was there before.
LEMMA PromotedElements ==
  ASSUME TypeOK, NEW k \in 1 .. Len(lru), NEW i \in 1 .. Len(lru)
  PROVE  (<<lru[k]>> \o RemoveAt(lru, k))[i]
           = IF i = 1 THEN lru[k] ELSE RemoveAt(lru, k)[i - 1]
<1>1. RemoveAt(lru, k) \in Seq(CacheEntry) /\ Len(RemoveAt(lru, k)) = Len(lru) - 1
  BY RemoveAtType DEF TypeOK
<1>2. <<lru[k]>> \in Seq(CacheEntry) /\ Len(<<lru[k]>>) = 1 /\ <<lru[k]>>[1] = lru[k]
  BY DEF TypeOK
<1> QED
  BY <1>1, <1>2, ConcatProperties

LEMMA LookupInv ==
  ASSUME CacheInv, NEW c \in Conns, Lookup(c)
  PROVE  CacheInv'
<1> DEFINE k == stmt[c].key
<1>1. lock = NoConn /\ lock' = lock /\ pc[c] = "lookup" /\ stmt[c].op = "query"
  BY DEF Lookup, At, CacheInv, ControlOK, Querying
<1>2. lru' \in Seq(CacheEntry) /\ Len(lru') = Len(lru)
  <2>1. CASE Cached(k)
    <3>1. Position(k) \in 1 .. Len(lru)
      BY <2>1, PositionType DEF CacheInv
    <3>2. lru' = <<lru[Position(k)]>> \o RemoveAt(lru, Position(k))
      BY <2>1 DEF Lookup
    <3> QED
      BY <3>1, <3>2, PromotedType DEF CacheInv
  <2>2. CASE ~Cached(k)
    BY <2>2 DEF Lookup, CacheInv, TypeOK
  <2> QED
    BY <2>1, <2>2
<1>3. SharedOK'
  BY <1>1, <1>2 DEF Lookup, SharedOK, CacheInv, TypeOK, WithinLimits
<1>4. Return(c) \/ Goto(c, "compute", loc[c])
  BY DEF Lookup
<1>5. CASE Return(c)
  BY <1>1, <1>3, <1>5, ReturnInv
<1>6. CASE Goto(c, "compute", loc[c])
  <2>1. loc[c] \in Local
    BY DEF CacheInv, TypeOK
  <2> QED
    BY <1>1, <1>3, <1>6, <2>1, GotoInv DEF Labels
<1> QED
  BY <1>4, <1>5, <1>6

LEMMA PopSameInv ==
  ASSUME CacheInv, NEW c \in Conns, PopSame(c)
  PROVE  CacheInv'
<1> DEFINE k == stmt[c].key
<1>1. lock = NoConn /\ lock' = c /\ pc[c] = "insert" /\ stmt[c].op = "query" /\ loc[c] \in Local
  BY DEF PopSame, At, CacheInv, ControlOK, Querying, TypeOK
<1>2. lru' \in Seq(CacheEntry) /\ current_bytes' \in Nat
  <2>1. CASE Cached(k)
    <3>1. Position(k) \in 1 .. Len(lru) /\ lru[Position(k)].bytes \in Nat
      BY <2>1, PositionType DEF CacheInv, CacheEntry
    <3>2. /\ lru' = RemoveAt(lru, Position(k))
          /\ current_bytes' = SaturatingSub(current_bytes, lru[Position(k)].bytes)
      BY <2>1 DEF PopSame
    <3> QED
      BY <3>1, <3>2, RemoveAtType, SaturatingSubType DEF CacheInv, TypeOK
  <2>2. CASE ~Cached(k)
    BY <2>2 DEF PopSame, CacheInv, TypeOK
  <2> QED
    BY <2>1, <2>2
<1>3. SharedOK'
  BY <1>1, <1>2, CacheAssumption DEF PopSame, SharedOK, CacheInv, TypeOK, WithinLimits
<1>4. Goto(c, "evict", loc[c])
  BY DEF PopSame
<1> QED
  BY <1>1, <1>3, <1>4, GotoInv DEF Labels

LEMMA EvictInv ==
  ASSUME CacheInv, NEW c \in Conns, Evict(c)
  PROVE  CacheInv'
<1>1. lock = c /\ lock' = lock /\ pc' = pc /\ stmt' = stmt /\ loc' = loc
  BY DEF Evict, At, CacheInv, ControlOK
<1>2. lru # <<>> /\ lru \in Seq(CacheEntry) /\ Len(lru) \in Nat \ {0}
  BY DEF Evict, Overfull, CacheInv, TypeOK
<1>3. lru[Len(lru)].bytes \in Nat
  <2>1. lru[Len(lru)] \in CacheEntry
    BY <1>2
  <2> QED
    BY <2>1 DEF CacheEntry
<1>4. current_bytes' \in Nat
  BY <1>3, SaturatingSubType DEF Evict, CacheInv, TypeOK
<1>5. lru' \in Seq(CacheEntry)
  BY <1>2, SubSeqProperties DEF Evict
<1> QED
  BY <1>1, <1>4, <1>5, CacheAssumption DEF Evict, CacheInv, TypeOK, ControlOK, WithinLimits

\* The only step that releases the mutex: the loop has made room, or emptied
\* the cache, before the entry goes in.
LEMMA PutInv ==
  ASSUME CacheInv, NEW c \in Conns, Put(c)
  PROVE  CacheInv'
<1> DEFINE e == [key |-> stmt[c].key, version |-> loc[c].version,
                 bytes |-> loc[c].bytes, data |-> loc[c].data]
<1>1. pc[c] = "evict" /\ lock' = NoConn /\ Return(c)
  BY DEF Put, At
<1>2. stmt[c] \in Statement /\ stmt[c].op = "query" /\ loc[c] \in Local
  BY <1>1 DEF CacheInv, ControlOK, TypeOK, Querying
<1>3. e \in CacheEntry /\ loc[c].bytes \in Nat
  BY <1>2, QueryTypes DEF CacheEntry, Local
<1>4. lru' = <<e>> \o lru /\ current_bytes' = current_bytes + loc[c].bytes
  BY DEF Put
<1> HIDE DEF e
<1>5. lru' \in Seq(CacheEntry) /\ Len(lru') = Len(lru) + 1
  <2>1. <<e>> \in Seq(CacheEntry) /\ Len(<<e>>) = 1 /\ lru \in Seq(CacheEntry)
    BY <1>3 DEF CacheInv, TypeOK
  <2> QED
    BY <1>4, <2>1, ConcatProperties
<1>6. \/ Len(lru) = 0
      \/ Len(lru) < Cap /\ current_bytes + loc[c].bytes <= MaxBytes
  BY <1>3, CacheAssumption DEF Put, Overfull, CacheInv, TypeOK
<1>7. WithinLimits'
  BY <1>4, <1>5, <1>6, CacheAssumption DEF WithinLimits, CacheInv, TypeOK
<1>8. SharedOK'
  BY <1>3, <1>4, <1>5, <1>7 DEF Put, SharedOK, CacheInv, TypeOK
<1> QED
  BY <1>1, <1>8, ReturnInv

-----------------------------------------------------------------------------
(* RELATE and batches *)

LEMMA TouchesType ==
  ASSUME NEW tables \in Seq(Tables), NEW t
  PROVE  Touches(tables, t) \in Nat
<1> DEFINE S == {i \in 1 .. Len(tables) : tables[i] = t}
<1>1. IsFiniteSet(1 .. Len(tables))
  BY FS_Interval
<1>2. IsFiniteSet(S)
  BY <1>1, FS_Subset
<1> HIDE DEF S
<1>3. Cardinality(S) \in Nat
  BY <1>2, FS_CardinalityType
<1> QED
  BY <1>3 DEF Touches, S

LEMMA CommitInv ==
  ASSUME CacheInv, NEW c \in Conns, Relate(c) \/ CommitBatch(c)
  PROVE  CacheInv'
<1>1. /\ pc[c] = "commit" /\ lock' = lock
      /\ stmt[c] \in Statement /\ loc[c] \in Local
      /\ stmt[c].op \in {"relate", "batch"}
  BY DEF Relate, CommitBatch, At, cache, CacheInv, ControlOK, TypeOK
<1>2. /\ stmt[c].op = "relate" => stmt[c].table \in Tables
      /\ stmt[c].op = "batch" => stmt[c].tables \in Seq(Tables)
  BY <1>1, QueryTypes
<1>3. commits' \in [Tables -> Nat]
  <2>1. CASE Relate(c)
    BY <1>2, <2>1 DEF Relate, CacheInv, TypeOK
  <2>2. CASE CommitBatch(c)
    BY <1>2, <2>2, TouchesType DEF CommitBatch, CacheInv, TypeOK
  <2> QED
    BY <2>1, <2>2
<1>4. SharedOK'
  BY <1>3 DEF Relate, CommitBatch, cache, SharedOK, CacheInv, TypeOK, WithinLimits
<1>5. PICK label \in {"reindex", "bumps"}, ts \in Seq(Tables) :
        Return(c) \/ Goto(c, label, [loc[c] EXCEPT !.todo = ts])
  <2>1. CASE Relate(c)
    <3>1. <<stmt[c].table>> \in Seq(Tables)
      BY <1>2, <2>1 DEF Relate
    <3> QED
      BY <2>1, <3>1 DEF Relate
  <2>2. CASE CommitBatch(c)
    BY <1>2, <2>2, EmptySeq DEF CommitBatch
  <2> QED
    BY <2>1, <2>2
<1>6. CASE Return(c)
  BY <1>1, <1>4, <1>6, ReturnInv
<1>7. CASE Goto(c, label, [loc[c] EXCEPT !.todo = ts])
  <2> DEFINE l == [loc[c] EXCEPT !.todo = ts]
  <2>1. l \in Local /\ Goto(c, label, l)
    BY <1>1, <1>7 DEF Local
  <2>2. label \in Labels /\ label \notin Querying
    BY DEF Labels, Querying
  <2> HIDE DEF l
  <2> QED
    BY <1>1, <1>4, <2>1, <2>2, GotoInv DEF Querying
<1> QED
  BY <1>5, <1>6, <1>7

LEMMA BumpControlInv ==
  ASSUME CacheInv, NEW c \in Conns, Reindex(c) \/ NextBump(c)
  PROVE  CacheInv'
<1>1. SharedOK' /\ lock' = lock
  BY SharedKept DEF Reindex, NextBump, cache
<1>2. pc[c] \in {"reindex", "bumps"} /\ loc[c] \in Local
  BY DEF Reindex, NextBump, At, CacheInv, TypeOK
<1>3. PICK label \in {"bumps", "bump"} :
        \/ Return(c)
        \/ Goto(c, label, loc[c]) /\ (label = "bump" => loc[c].todo # <<>>)
  BY DEF Reindex, NextBump
<1>4. label \in Labels /\ label \notin Querying /\ label # "evict"
  BY DEF Labels, Querying
<1>5. CASE Return(c)
  BY <1>1, <1>2, <1>5, ReturnInv
<1>6. CASE Goto(c, label, loc[c]) /\ (label = "bump" => loc[c].todo # <<>>)
  BY <1>1, <1>2, <1>4, <1>6, GotoInv
<1> QED
  BY <1>3, <1>5, <1>6

\* At a bump call the first table still to bump is a table.
LEMMA BumpedTable ==
  ASSUME CacheInv, NEW c \in Conns, pc[c] \in {"bump", "bump_slow"}
  PROVE  /\ loc[c] \in Local
         /\ Head(loc[c].todo) \in Tables
         /\ Tail(loc[c].todo) \in Seq(Tables)
<1>1. loc[c] \in Local /\ loc[c].todo \in Seq(Tables) /\ loc[c].todo # <<>>
  BY DEF CacheInv, TypeOK, ControlOK, Local
<1> QED
  BY <1>1, HeadTailProperties

\* Both paths of bump add one to what current reads; the fast path gives up on
\* a missing counter.
LEMMA BumpPaths ==
  ASSUME NEW c, BumpFast(c) \/ BumpSlow(c)
  PROVE  LET t == Head(loc[c].todo)
         IN  \/ /\ versions' = versions /\ pc[c] = "bump"
                /\ Goto(c, "bump_slow", loc[c])
             \/ /\ versions' = [versions EXCEPT ![t] = Current(t) + 1]
                /\ BumpDone(c)
BY DEF BumpFast, BumpSlow, Current, At

LEMMA BumpInv ==
  ASSUME CacheInv, NEW c \in Conns, BumpFast(c) \/ BumpSlow(c)
  PROVE  CacheInv'
<1> DEFINE t == Head(loc[c].todo)
           l == [loc[c] EXCEPT !.todo = Tail(@)]
<1>1. pc[c] \in {"bump", "bump_slow"} /\ lock' = lock
  BY DEF BumpFast, BumpSlow, At, cache
<1>2. t \in Tables /\ l \in Local /\ loc[c] \in Local /\ loc[c].todo # <<>>
  BY <1>1, BumpedTable DEF Local, CacheInv, ControlOK
<1>3. versions' \in [Tables -> Nat \cup {Absent}]
  <2>1. versions' = versions \/ versions' = [versions EXCEPT ![t] = Current(t) + 1]
    BY BumpPaths
  <2>2. Current(t) \in Nat
    BY <1>2, CurrentType DEF CacheInv
  <2> QED
    BY SMTT(30), <1>2, <2>1, <2>2 DEF CacheInv, TypeOK
<1>4. SharedOK'
  BY <1>3 DEF BumpFast, BumpSlow, cache, SharedOK, CacheInv, TypeOK, WithinLimits
<1>5. Goto(c, "bumps", l) \/ Goto(c, "bump_slow", loc[c])
  BY DEF BumpFast, BumpSlow, BumpDone
<1> HIDE DEF l
<1>6. CASE Goto(c, "bumps", l)
  BY <1>1, <1>2, <1>4, <1>6, GotoInv DEF Labels, Querying
<1>7. CASE Goto(c, "bump_slow", loc[c])
  BY <1>1, <1>2, <1>4, <1>7, GotoInv DEF Labels, Querying
<1> QED
  BY <1>5, <1>6, <1>7

-----------------------------------------------------------------------------
(* The invariant *)

LEMMA CrashInv ==
  ASSUME CacheInv, Crash
  PROVE  CacheInv'
<1>1. TypeOK'
  BY FreshType, EmptySeq DEF Crash, CacheInv, TypeOK, Labels
<1>2. ControlOK(pc', stmt', loc', lock')
  BY CacheAssumption DEF Crash, ControlOK, Querying
<1>3. WithinLimits'
  BY CacheAssumption DEF Crash, WithinLimits
<1> QED
  BY <1>1, <1>2, <1>3 DEF CacheInv, ControlOK

LEMMA CacheInvInit == Init => CacheInv
<1> SUFFICES ASSUME Init PROVE CacheInv
  OBVIOUS
<1>1. TypeOK
  BY FreshType, EmptySeq DEF Init, TypeOK, Labels
<1>2. ControlOK(pc, stmt, loc, lock)
  BY CacheAssumption DEF Init, ControlOK, Querying
<1>3. WithinLimits
  BY CacheAssumption DEF Init, WithinLimits
<1> QED
  BY <1>1, <1>2, <1>3 DEF CacheInv

LEMMA CacheInvNext == CacheInv /\ [Next]_vars => CacheInv'
<1> SUFFICES ASSUME CacheInv, [Next]_vars PROVE CacheInv'
  OBVIOUS
<1>1. CASE UNCHANGED vars
  BY <1>1 DEF vars, CacheInv, TypeOK, ControlOK, WithinLimits
<1>2. ASSUME NEW c \in Conns, Begin(c) \/ Step(c) PROVE CacheInv'
  BY <1>2, BeginInv, ReadInv, LookupInv, PopSameInv, EvictInv, PutInv,
     CommitInv, BumpControlInv, BumpInv DEF Step
<1>3. CASE Crash
  BY <1>3, CrashInv
<1> QED
  BY <1>1, <1>2, <1>3 DEF Next

LEMMA CacheInvAlways == Spec => []CacheInv
BY CacheInvInit, CacheInvNext, PTL DEF Spec

\* Type correctness of the version map, the LRU cache and the statements on them.
THEOREM TypeCorrect == Spec => []TypeOK
<1>1. CacheInv => TypeOK
  BY DEF CacheInv
<1> QED
  BY <1>1, CacheInvAlways, PTL

\* ComputeCache keeps to its entry and byte limits whenever its mutex is free,
\* for all limits, entry sizes and interleavings of lookups and insertions.
THEOREM CacheBounded == Spec => []WithinLimits
<1>1. CacheInv => WithinLimits
  BY DEF CacheInv
<1> QED
  BY <1>1, CacheInvAlways, PTL

-----------------------------------------------------------------------------
(* The bytes of the cache *)

\* Every set of numbers has a least one; it stands in for induction.
LEMMA LeastNatural ==
  ASSUME NEW T \in SUBSET Nat, T # {}
  PROVE  \E x \in T : \A y \in T : x <= y
<1> DEFINE R == OpToRel(<, Nat)
<1>1. IsWellFoundedOn(R, Nat)
  BY NatLessThanWellFounded
<1>2. \A x, y \in Nat : <<y, x>> \in R <=> y < x
  BY DEF OpToRel
<1> HIDE DEF R
<1>3. PICK x \in T : \A y \in T : ~(<<y, x>> \in R)
  BY <1>1, WFMin
<1>4. ASSUME NEW y \in T PROVE x <= y
  <2>1. ~(y < x)
    BY <1>2, <1>3
  <2> QED
    BY <2>1
<1> QED
  BY <1>4

\* total witnesses SumsTo(s, n).
Totals(s, n, total) ==
  /\ total \in [0 .. Len(s) -> 0 .. n]
  /\ total[0] = 0
  /\ total[Len(s)] = n
  /\ \A k \in 1 .. Len(s) : total[k] = total[k - 1] + s[k].bytes

\* Distinct keys: no key is cached twice.
Distinct(s) == \A i, j \in 1 .. Len(s) : s[i].key = s[j].key => i = j

LEMMA EntryBytes ==
  ASSUME NEW s \in Seq(CacheEntry), NEW k \in 1 .. Len(s)
  PROVE  s[k].bytes \in Nat
<1>1. s[k] \in CacheEntry
  OBVIOUS
<1> QED
  BY <1>1 DEF CacheEntry

LEMMA TotalsGrow ==
  ASSUME NEW s \in Seq(CacheEntry), NEW n \in Nat, NEW total, Totals(s, n, total),
         NEW i \in 0 .. Len(s), NEW j \in 0 .. Len(s), i <= j
  PROVE  total[i] <= total[j]
<1> DEFINE Bad == {k \in 0 .. Len(s) : i <= k /\ ~(total[i] <= total[k])}
<1>1. \A k \in 0 .. Len(s) : total[k] \in Nat
  BY DEF Totals
<1>2. Bad = {}
  <2> SUFFICES ASSUME Bad # {} PROVE FALSE
    OBVIOUS
  <2>1. Bad \in SUBSET Nat
    OBVIOUS
  <2>2. PICK k \in Bad : \A y \in Bad : k <= y
    <3> HIDE DEF Bad
    <3> QED
      BY <2>1, LeastNatural
  <2>3. k \in 1 .. Len(s) /\ k - 1 \in 0 .. Len(s) /\ i <= k - 1
    BY <1>1, <2>2
  <2>4. total[i] <= total[k - 1]
    BY <2>2, <2>3
  <2>5. total[k] = total[k - 1] + s[k].bytes /\ s[k].bytes \in Nat
    BY <2>3, EntryBytes DEF Totals
  <2> QED
    BY SMTT(30), <1>1, <2>2, <2>3, <2>4, <2>5
<1> QED
  BY <1>2

\* An entry at the front adds its bytes.
LEMMA FrontSums ==
  ASSUME NEW s \in Seq(CacheEntry), NEW n \in Nat, SumsTo(s, n), NEW e \in CacheEntry
  PROVE  SumsTo(<<e>> \o s, n + e.bytes)
<1> DEFINE t == <<e>> \o s
           m == n + e.bytes
<1>1. PICK total : Totals(s, n, total)
  BY DEF SumsTo, Totals
<1>2. /\ Len(t) = Len(s) + 1
      /\ t[1] = e
      /\ \A k \in 2 .. Len(t) : t[k] = s[k - 1]
  BY ConcatProperties
<1>3. e.bytes \in Nat /\ Len(s) \in Nat
  BY DEF CacheEntry
<1> HIDE DEF t
<1> DEFINE f == [k \in 0 .. Len(t) |-> IF k = 0 THEN 0 ELSE total[k - 1] + e.bytes]
<1>4. f \in [0 .. Len(t) -> 0 .. m]
  <2>1. ASSUME NEW k \in 1 .. Len(t) PROVE total[k - 1] \in 0 .. n
    <3>1. k - 1 \in 0 .. Len(s)
      BY <1>2, <1>3
    <3> QED
      BY <1>1, <3>1 DEF Totals
  <2> QED
    BY <1>3, <2>1
<1>5. f[0] = 0 /\ f[Len(t)] = m
  BY <1>1, <1>2, <1>3 DEF Totals
<1>6. ASSUME NEW k \in 1 .. Len(t) PROVE f[k] = f[k - 1] + t[k].bytes
  <2>1. CASE k = 1
    BY <1>1, <1>2, <1>3, <2>1 DEF Totals
  <2>2. CASE k # 1
    <3>1. k - 1 \in 1 .. Len(s) /\ k - 2 \in 0 .. Len(s) /\ k \in 2 .. Len(t)
      BY <1>2, <1>3, <2>2
    <3>2. total[k - 1] = total[(k - 1) - 1] + s[k - 1].bytes
      BY <1>1, <3>1 DEF Totals
    <3>3. total[k - 2] \in Nat /\ s[k - 1].bytes \in Nat /\ (k - 1) - 1 = k - 2
      BY SMTT(30), <1>1, <3>1, EntryBytes DEF Totals
    <3>4. f[k] = total[k - 1] + e.bytes /\ f[k - 1] = total[k - 2] + e.bytes
      BY <1>2, <1>3, <2>2, <3>1
    <3> QED
      BY <1>2, <1>3, <3>1, <3>2, <3>3, <3>4
  <2> QED
    BY <2>1, <2>2
<1> HIDE DEF f
<1> QED
  BY <1>4, <1>5, <1>6 DEF SumsTo, t

\* An entry taken out takes its bytes with it.
LEMMA RemoveSums ==
  ASSUME NEW s \in Seq(CacheEntry), NEW n \in Nat, SumsTo(s, n), NEW p \in 1 .. Len(s),
         NEW t \in Seq(CacheEntry), Len(t) = Len(s) - 1,
         \A i \in 1 .. Len(t) : t[i] = IF i < p THEN s[i] ELSE s[i + 1]
  PROVE  /\ s[p].bytes <= n
         /\ SumsTo(t, n - s[p].bytes)
<1> DEFINE b == s[p].bytes
           m == n - b
<1>1. PICK total : Totals(s, n, total)
  BY DEF SumsTo, Totals
<1>2. b \in Nat /\ Len(s) \in Nat /\ Len(t) \in Nat
  BY EntryBytes
<1>3. \A k \in 0 .. Len(s) : total[k] \in 0 .. n
  BY <1>1 DEF Totals
<1>4. total[p] = total[p - 1] + b /\ p - 1 \in 0 .. Len(s) /\ p \in 0 .. Len(s)
  BY <1>1 DEF Totals
<1>5. b = s[p].bytes
  OBVIOUS
<1> HIDE DEF b
<1>6. b <= n /\ m \in Nat
  BY <1>2, <1>3, <1>4
<1>6a. /\ \A x, y \in Nat : x <= y /\ y + b <= n => x \in 0 .. m
      /\ \A x, y \in Nat : y + b <= x /\ x <= n => x - b \in 0 .. m
  BY <1>2
<1> HIDE DEF m
<1> DEFINE f == [k \in 0 .. Len(t) |-> IF k < p THEN total[k] ELSE total[k + 1] - b]
<1>7. ASSUME NEW k \in 0 .. Len(t) PROVE f[k] \in 0 .. m
  <2>1. CASE k < p
    <3>1. k \in 0 .. Len(s) /\ k <= p - 1
      BY <1>2, <2>1
    <3>2. total[k] <= total[p - 1]
      BY <1>1, <1>4, <3>1, TotalsGrow
    <3>3. total[k] \in Nat /\ total[p - 1] \in Nat /\ total[p - 1] + b <= n
      BY <1>3, <1>4, <3>1
    <3>4. f[k] = total[k]
      BY <2>1
    <3> HIDE DEF f
    <3> QED
      BY <1>6a, <3>2, <3>3, <3>4
  <2>2. CASE ~(k < p)
    <3>1. k + 1 \in 0 .. Len(s) /\ p <= k + 1
      BY <1>2, <2>2
    <3>2. total[p] <= total[k + 1]
      BY <1>1, <1>4, <3>1, TotalsGrow
    <3>3. /\ total[k + 1] \in Nat /\ total[k + 1] <= n
          /\ total[p - 1] \in Nat /\ total[p - 1] + b <= total[k + 1]
      BY <1>3, <1>4, <3>1, <3>2
    <3>4. f[k] = total[k + 1] - b
      BY <2>2
    <3> HIDE DEF f
    <3> QED
      BY <1>6a, <3>3, <3>4
  <2> QED
    BY <2>1, <2>2
<1>8. f \in [0 .. Len(t) -> 0 .. m]
  BY <1>7
<1>9. f[0] = 0
  BY <1>1, <1>2 DEF Totals
<1>10. f[Len(t)] = m
  <2>1. total[Len(s)] = n
    BY <1>1 DEF Totals
  <2>2. CASE Len(t) < p
    <3>1. p = Len(s) /\ Len(t) = p - 1 /\ f[Len(t)] = total[p - 1]
      BY <1>2, <2>2
    <3> QED
      BY <1>2, <1>3, <1>4, <2>1, <3>1 DEF m
  <2>3. CASE ~(Len(t) < p)
    BY <1>2, <2>1, <2>3 DEF m
  <2> QED
    BY <2>2, <2>3
<1>11. ASSUME NEW k \in 1 .. Len(t) PROVE f[k] = f[k - 1] + t[k].bytes
  <2>1. k \in 1 .. Len(s) /\ k + 1 \in 1 .. Len(s) /\ k - 1 \in 0 .. Len(s)
    BY <1>2
  <2>2. /\ total[k] = total[k - 1] + s[k].bytes
        /\ total[k + 1] = total[k] + s[k + 1].bytes
    <3>1. (k + 1) - 1 = k
      OBVIOUS
    <3> QED
      BY <1>1, <2>1, <3>1 DEF Totals
  <2>3. s[k].bytes \in Nat /\ s[k + 1].bytes \in Nat /\ total[k] \in Nat
        /\ total[k + 1] \in Nat /\ total[k - 1] \in Nat
    <3>1. k \in 0 .. Len(s) /\ k + 1 \in 0 .. Len(s)
      BY SMTT(30), <2>1
    <3>2. s[k].bytes \in Nat /\ s[k + 1].bytes \in Nat
      BY <2>1, EntryBytes
    <3> QED
      BY SMTT(30), <1>3, <2>1, <3>1, <3>2
  <2> DEFINE x == s[k].bytes
             y == s[k + 1].bytes
             z == t[k].bytes
  <2>4. k - 1 \in 0 .. Len(t) /\ k \in 0 .. Len(t)
    OBVIOUS
  <2>5. CASE k < p
    <3>1. f[k] = total[k] /\ f[k - 1] = total[k - 1] /\ z = x
      BY <2>4, <2>5
    <3> HIDE DEF f, x, z
    <3> QED
      BY <2>2, <3>1 DEF x, z
  <2>6. CASE k = p
    <3>1. f[k] = total[k + 1] - b /\ f[k - 1] = total[k - 1] /\ z = y /\ b = x
      BY <1>5, <2>4, <2>6
    <3>2. total[k] = total[k - 1] + x /\ total[k + 1] = total[k] + y /\ x \in Nat /\ y \in Nat
      BY <2>2, <2>3
    <3> HIDE DEF f, x, y, z
    <3>3. \A i1, i2, i3 \in Nat : ((i1 + i2) + i3) - i2 = i1 + i3
      OBVIOUS
    <3>4. total[k - 1] \in Nat
      BY <2>3
    <3>5. f[k] = ((total[k - 1] + x) + y) - x
      BY <3>1, <3>2, Zenon
    <3>6. f[k] = total[k - 1] + y
      BY <3>2, <3>3, <3>4, <3>5, Zenon
    <3>7. f[k] = f[k - 1] + z
      BY <3>1, <3>6, Zenon
    <3> QED
      BY <3>7 DEF z
  <2>7. CASE k > p
    <3>1. f[k] = total[k + 1] - b /\ f[k - 1] = total[k] - b /\ z = y
      BY SMTT(30), <2>4, <2>7
    <3>2. total[k + 1] = total[k] + y /\ y \in Nat
      BY <2>2, <2>3
    <3> HIDE DEF f, x, y, z
    <3>3. \A i1, i2, i3 \in Nat : (i1 + i2) - i3 = (i1 - i3) + i2
      OBVIOUS
    <3>4. total[k] \in Nat
      BY <2>3
    <3>5. f[k] = (total[k] + y) - b
      BY <3>1, <3>2, Zenon
    <3>6. f[k] = (total[k] - b) + y
      BY <1>2, <3>2, <3>3, <3>4, <3>5, Zenon
    <3>7. f[k] = f[k - 1] + z
      BY <3>1, <3>6, Zenon
    <3> QED
      BY <3>7 DEF z
  <2> QED
    BY <2>5, <2>6, <2>7
<1> HIDE DEF f
<1>12. SumsTo(t, m)
  BY <1>8, <1>9, <1>10, <1>11 DEF SumsTo
<1> QED
  BY <1>5, <1>6, <1>12 DEF m

\* What BytesAccounted says of a cache s of n bytes, and that s has no entry for k.
Ledger(s, n) == SumsTo(s, n) /\ Distinct(s)

Lacks(s, k) == \A i \in 1 .. Len(s) : s[i].key # k

LEMMA LedgerRemove ==
  ASSUME NEW s \in Seq(CacheEntry), NEW n \in Nat, Ledger(s, n), NEW p \in 1 .. Len(s),
         NEW t \in Seq(CacheEntry), Len(t) = Len(s) - 1,
         \A i \in 1 .. Len(t) : t[i] = IF i < p THEN s[i] ELSE s[i + 1]
  PROVE  /\ s[p].bytes <= n
         /\ Ledger(t, n - s[p].bytes)
         /\ Lacks(t, s[p].key)
         /\ \A k : Lacks(s, k) => Lacks(t, k)
<1>1. s[p].bytes <= n /\ SumsTo(t, n - s[p].bytes)
  BY RemoveSums DEF Ledger
<1> DEFINE from(i) == IF i < p THEN i ELSE i + 1
<1>2. Len(s) \in Nat /\ Len(t) \in Nat
  OBVIOUS
<1>3. ASSUME NEW i \in 1 .. Len(t)
      PROVE  from(i) \in 1 .. Len(s) /\ from(i) # p /\ t[i] = s[from(i)]
  BY <1>2
<1>4. \A i, j \in 1 .. Len(t) : from(i) = from(j) => i = j
  BY <1>2
<1> HIDE DEF from
<1>5. Distinct(t)
  BY SMTT(30), <1>3, <1>4 DEF Distinct, Ledger
<1>6. Lacks(t, s[p].key)
  BY <1>3 DEF Distinct, Ledger, Lacks
<1>7. \A k : Lacks(s, k) => Lacks(t, k)
  BY <1>3 DEF Lacks
<1> QED
  BY <1>1, <1>5, <1>6, <1>7 DEF Ledger

LEMMA LedgerFront ==
  ASSUME NEW s \in Seq(CacheEntry), NEW n \in Nat, Ledger(s, n), NEW e \in CacheEntry,
         Lacks(s, e.key)
  PROVE  Ledger(<<e>> \o s, n + e.bytes)
<1> DEFINE t == <<e>> \o s
<1>1. SumsTo(t, n + e.bytes)
  BY FrontSums DEF Ledger
<1>2. /\ Len(t) = Len(s) + 1 /\ Len(s) \in Nat
      /\ t[1] = e
      /\ \A k \in 2 .. Len(t) : t[k] = s[k - 1]
  BY ConcatProperties
<1> HIDE DEF t
<1>3. ASSUME NEW i \in 1 .. Len(t), NEW j \in 1 .. Len(t), t[i].key = t[j].key
      PROVE  i = j
  <2>1. ASSUME NEW k \in 1 .. Len(t), k # 1
        PROVE  k - 1 \in 1 .. Len(s) /\ t[k].key = s[k - 1].key /\ t[k].key # e.key
    <3>1. k - 1 \in 1 .. Len(s) /\ k \in 2 .. Len(t)
      BY <1>2, <2>1
    <3> QED
      BY <1>2, <3>1 DEF Lacks
  <2>2. CASE i = 1 \/ j = 1
    BY <1>2, <1>3, <2>1, <2>2
  <2>3. CASE i # 1 /\ j # 1
    <3>1. i - 1 \in 1 .. Len(s) /\ j - 1 \in 1 .. Len(s) /\ s[i - 1].key = s[j - 1].key
      BY <1>3, <2>1, <2>3
    <3>2. i - 1 = j - 1
      BY <3>1 DEF Ledger, Distinct
    <3> QED
      BY <3>2
  <2> QED
    BY <2>2, <2>3
<1> QED
  BY <1>1, <1>3 DEF Ledger, Distinct, t

\* RemoveAt is a removal in the sense of LedgerRemove.
LEMMA LedgerRemoveAt ==
  ASSUME NEW s \in Seq(CacheEntry), NEW n \in Nat, Ledger(s, n), NEW p \in 1 .. Len(s)
  PROVE  /\ RemoveAt(s, p) \in Seq(CacheEntry)
         /\ s[p] \in CacheEntry /\ s[p].bytes \in Nat
         /\ s[p].bytes <= n
         /\ Ledger(RemoveAt(s, p), n - s[p].bytes)
         /\ Lacks(RemoveAt(s, p), s[p].key)
<1> DEFINE t == RemoveAt(s, p)
<1>1. t \in Seq(CacheEntry) /\ Len(t) = Len(s) - 1
  BY RemoveAtType
<1>2. \A i \in 1 .. Len(t) : t[i] = IF i < p THEN s[i] ELSE s[i + 1]
  BY <1>1, RemoveAtElements
<1>3. s[p] \in CacheEntry /\ s[p].bytes \in Nat
  BY EntryBytes
<1> HIDE DEF t
<1>4. s[p].bytes <= n /\ Ledger(t, n - s[p].bytes) /\ Lacks(t, s[p].key)
  BY <1>1, <1>2, LedgerRemove
<1> QED
  BY <1>1, <1>3, <1>4 DEF t

\* The books are right, and the connection inside insert has already dropped
\* the entry it replaces, so that Put does not cache a key twice.
LedgerInv ==
  /\ CacheInv
  /\ Ledger(lru, current_bytes)
  /\ \A c \in Conns : pc[c] = "evict" => Lacks(lru, stmt[c].key)

LEMMA LookupLedger ==
  ASSUME LedgerInv, NEW c \in Conns, Lookup(c)
  PROVE  Ledger(lru', current_bytes') /\ \A d \in Conns : pc'[d] # "evict"
<1> DEFINE p == Position(stmt[c].key)
<1>1. lock = NoConn /\ current_bytes' = current_bytes /\ current_bytes \in Nat
      /\ lru \in Seq(CacheEntry)
  BY DEF Lookup, LedgerInv, CacheInv, TypeOK
<1>2. ASSUME NEW d \in Conns PROVE pc'[d] # "evict"
  <2>1. lock' = NoConn /\ NoConn # d
    BY <1>1, CacheAssumption DEF Lookup
  <2>2. CacheInv'
    BY LookupInv DEF LedgerInv
  <2> QED
    BY <2>1, <2>2 DEF CacheInv, ControlOK
<1>3. CASE Cached(stmt[c].key)
  <2>1. p \in 1 .. Len(lru) /\ lru' = <<lru[p]>> \o RemoveAt(lru, p)
    BY <1>3, PositionType DEF Lookup, LedgerInv, CacheInv
  <2> HIDE DEF p
  <2> DEFINE s == RemoveAt(lru, p)
             b == lru[p].bytes
             n == current_bytes
  <2>2. /\ s \in Seq(CacheEntry) /\ lru[p] \in CacheEntry /\ b \in Nat /\ b <= n
        /\ Ledger(s, n - b) /\ Lacks(s, lru[p].key)
    BY <1>1, <2>1, LedgerRemoveAt DEF LedgerInv
  <2>3. n - b \in Nat /\ (n - b) + b = n
    <3> HIDE DEF b, n
    <3>1. n \in Nat
      BY <1>1 DEF n
    <3> QED
      BY <2>2, <3>1
  <2>4. Ledger(<<lru[p]>> \o s, (n - b) + b)
    <3> HIDE DEF s, n
    <3> QED
      BY <2>2, <2>3, LedgerFront
  <2> QED
    BY <1>1, <1>2, <2>1, <2>3, <2>4
<1>4. CASE ~Cached(stmt[c].key)
  BY <1>1, <1>2, <1>4 DEF Lookup, LedgerInv
<1> QED
  BY <1>3, <1>4

LEMMA PopSameLedger ==
  ASSUME LedgerInv, NEW c \in Conns, PopSame(c)
  PROVE  /\ Ledger(lru', current_bytes')
         /\ \A d \in Conns : pc'[d] = "evict" => Lacks(lru', stmt'[d].key)
<1> DEFINE k == stmt[c].key
           p == Position(k)
<1>1. lock' = c /\ stmt' = stmt /\ current_bytes \in Nat /\ lru \in Seq(CacheEntry)
  BY DEF PopSame, Goto, LedgerInv, CacheInv, TypeOK
<1>2. \A d \in Conns : pc'[d] = "evict" => d = c
  <2>1. CacheInv'
    BY PopSameInv DEF LedgerInv
  <2> QED
    BY <1>1, <2>1 DEF CacheInv, ControlOK
<1>3. Ledger(lru', current_bytes') /\ Lacks(lru', k)
  <2>1. CASE Cached(k)
    <3>1. /\ p \in 1 .. Len(lru) /\ lru[p].key = k
          /\ lru' = RemoveAt(lru, p)
          /\ current_bytes' = SaturatingSub(current_bytes, lru[p].bytes)
      BY <2>1 DEF Cached, Position, PopSame
    <3> HIDE DEF p, k
    <3>2. /\ lru[p].bytes \in Nat /\ lru[p].bytes <= current_bytes
          /\ Ledger(RemoveAt(lru, p), current_bytes - lru[p].bytes)
          /\ Lacks(RemoveAt(lru, p), lru[p].key)
      BY <1>1, <3>1, LedgerRemoveAt DEF LedgerInv
    <3>3. current_bytes' = current_bytes - lru[p].bytes
      BY <1>1, <3>1, <3>2 DEF SaturatingSub
    <3> QED
      BY <3>1, <3>2, <3>3
  <2>2. CASE ~Cached(k)
    BY <2>2 DEF Cached, Lacks, PopSame, LedgerInv
  <2> QED
    BY <2>1, <2>2
<1> QED
  BY <1>1, <1>2, <1>3

LEMMA EvictLedger ==
  ASSUME LedgerInv, NEW c \in Conns, Evict(c)
  PROVE  /\ Ledger(lru', current_bytes')
         /\ \A d \in Conns : pc'[d] = "evict" => Lacks(lru', stmt'[d].key)
<1> DEFINE p == Len(lru)
           n == current_bytes
<1>1. /\ n \in Nat /\ lru \in Seq(CacheEntry) /\ p \in 1 .. Len(lru)
      /\ pc' = pc /\ stmt' = stmt
  BY DEF Evict, Overfull, LedgerInv, CacheInv, TypeOK
<1>2. /\ lru' \in Seq(CacheEntry) /\ Len(lru') = Len(lru) - 1
      /\ \A i \in 1 .. Len(lru') : lru'[i] = IF i < p THEN lru[i] ELSE lru[i + 1]
  <2>1. lru' = SubSeq(lru, 1, p - 1)
    BY DEF Evict
  <2>2. /\ lru' \in Seq(CacheEntry) /\ Len(lru') = p - 1
        /\ \A i \in 1 .. p - 1 : lru'[i] = lru[i]
    <3>1. p \in Nat /\ 1 \in 1 .. Len(lru) + 1 /\ p - 1 \in 0 .. Len(lru)
      BY <1>1
    <3> HIDE DEF p
    <3>2. ASSUME NEW s \in Seq(CacheEntry), NEW j \in 0 .. Len(s)
          PROVE  /\ SubSeq(s, 1, j) \in Seq(CacheEntry) /\ Len(SubSeq(s, 1, j)) = j
                 /\ \A i \in 1 .. j : SubSeq(s, 1, j)[i] = s[i]
      BY SubSeqProperties
    <3> QED
      BY <1>1, <2>1, <3>1, <3>2
  <2> QED
    BY <1>1, <2>2
<1>3. current_bytes' = SaturatingSub(n, lru[p].bytes) /\ lru[p].bytes \in Nat
  BY <1>1, EntryBytes DEF Evict
<1>4. Ledger(lru, n)
  BY DEF LedgerInv
<1> HIDE DEF p, n
<1>5. /\ lru[p].bytes <= n
      /\ Ledger(lru', n - lru[p].bytes)
      /\ \A k : Lacks(lru, k) => Lacks(lru', k)
  BY <1>1, <1>2, <1>4, LedgerRemove
<1>6. current_bytes' = n - lru[p].bytes
  BY <1>1, <1>3, <1>5 DEF SaturatingSub
<1> QED
  BY <1>1, <1>5, <1>6 DEF LedgerInv

LEMMA PutLedger ==
  ASSUME LedgerInv, NEW c \in Conns, Put(c)
  PROVE  Ledger(lru', current_bytes') /\ \A d \in Conns : pc'[d] # "evict"
<1> DEFINE e == [key |-> stmt[c].key, version |-> loc[c].version,
                 bytes |-> loc[c].bytes, data |-> loc[c].data]
<1>1. /\ pc[c] = "evict" /\ lock' = NoConn
      /\ lru' = <<e>> \o lru /\ current_bytes' = current_bytes + e.bytes
      /\ e.key = stmt[c].key
  BY DEF Put, At
<1>2. stmt[c] \in Statement /\ stmt[c].op = "query" /\ loc[c] \in Local
      /\ lru \in Seq(CacheEntry) /\ current_bytes \in Nat
  BY <1>1 DEF LedgerInv, CacheInv, ControlOK, TypeOK, Querying
<1>3. e \in CacheEntry
  BY <1>2, QueryTypes DEF CacheEntry, Local
<1> HIDE DEF e
<1>4. Ledger(lru', current_bytes')
  BY <1>1, <1>2, <1>3, LedgerFront DEF LedgerInv
<1>5. CacheInv'
  BY PutInv DEF LedgerInv
<1>6. \A d \in Conns : pc'[d] # "evict"
  BY <1>1, <1>5, CacheAssumption DEF CacheInv, ControlOK
<1> QED
  BY <1>4, <1>6

\* The other steps do not touch the cache, and none of them enters insert.
LEMMA OtherLedger ==
  ASSUME LedgerInv, NEW c \in Conns,
         \/ Begin(c) \/ ReadVersion(c) \/ Compute(c) \/ Stamp(c) \/ Relate(c)
         \/ CommitBatch(c) \/ Reindex(c) \/ NextBump(c) \/ BumpFast(c) \/ BumpSlow(c)
  PROVE  /\ Ledger(lru', current_bytes')
         /\ \A d \in Conns : pc'[d] = "evict" => Lacks(lru', stmt'[d].key)
<1>1. lru' = lru /\ current_bytes' = current_bytes /\ lock' = lock /\ pc[c] # "evict"
  BY DEF Begin, ReadVersion, Compute, Stamp, Relate, CommitBatch, Reindex, NextBump,
         BumpFast, BumpSlow, cache, At
<1>2. CacheInv'
  BY BeginInv, ReadInv, CommitInv, BumpControlInv, BumpInv DEF LedgerInv
<1>3. \A d \in Conns : pc'[d] = "evict" => pc[d] = "evict" /\ d # c
  BY SMTT(30), <1>1, <1>2 DEF LedgerInv, CacheInv, ControlOK
<1>4. \A d \in Conns : d # c => stmt'[d] = stmt[d]
  BY DEF Begin, ReadVersion, Compute, Stamp, Relate, CommitBatch, Reindex, NextBump,
         BumpFast, BumpSlow, BumpDone, Goto, Return, LedgerInv, CacheInv, TypeOK
<1> QED
  BY SMTT(30), <1>1, <1>3, <1>4 DEF LedgerInv

LEMMA EmptyLedger == Ledger(<<>>, 0)
<1> DEFINE f == [k \in 0 .. 0 |-> 0]
<1>1. f \in [0 .. Len(<<>>) -> 0 .. 0] /\ f[0] = 0 /\ f[Len(<<>>)] = 0
  OBVIOUS
<1>2. \A k \in 1 .. Len(<<>>) : f[k] = f[k - 1] + <<>>[k].bytes
  OBVIOUS
<1> HIDE DEF f
<1>3. SumsTo(<<>>, 0)
  BY <1>1, <1>2 DEF SumsTo
<1> QED
  BY <1>3 DEF Ledger, Distinct

LEMMA LedgerInvInit == Init => LedgerInv
BY CacheInvInit, EmptyLedger DEF Init, LedgerInv

LEMMA LedgerInvNext == LedgerInv /\ [Next]_vars => LedgerInv'
<1> SUFFICES ASSUME LedgerInv, [Next]_vars PROVE LedgerInv'
  OBVIOUS
<1>1. CacheInv'
  BY CacheInvNext DEF LedgerInv
<1> USE DEF LedgerInv
<1>2. CASE UNCHANGED vars
  BY <1>1, <1>2 DEF vars
<1>3. ASSUME NEW c \in Conns, Begin(c) \/ Step(c)
      PROVE  /\ Ledger(lru', current_bytes')
             /\ \A d \in Conns : pc'[d] = "evict" => Lacks(lru', stmt'[d].key)
  BY <1>3, LookupLedger, PopSameLedger, EvictLedger, PutLedger, OtherLedger DEF Step
<1>4. CASE Crash
  BY <1>1, <1>4, EmptyLedger DEF Crash
<1> QED
  BY <1>1, <1>2, <1>3, <1>4 DEF Next

\* ComputeCache's byte counter is the size of what is cached and no key is cached
\* twice: insert, replacement, promotion and eviction keep the books, and the
\* saturating subtraction never saturates.
THEOREM BytesAreAccounted == Spec => []BytesAccounted
<1>1. LedgerInv => BytesAccounted
  BY DEF LedgerInv, Ledger, Distinct, BytesAccounted
<1> QED
  BY <1>1, LedgerInvInit, LedgerInvNext, PTL DEF Spec

-----------------------------------------------------------------------------
(* WriteVersions implements atomic counters *)

Count == [t \in Tables |-> Current(t)]

Owed == [c \in Conns |-> IF pc[c] \in {"bump", "bump_slow"}
                         THEN Head(loc[c].todo) ELSE NoTable]

\* Outside the bump labels a statement is invisible to the counters.
LEMMA Invisible ==
  ASSUME CacheInv, NEW c \in Conns, NEW label \in Labels, NEW l,
         pc[c] \notin {"bump", "bump_slow"}, label \notin {"bump", "bump_slow"},
         Goto(c, label, l), versions' = versions
  PROVE  UNCHANGED <<Count, Owed>>
<1>1. Count' = Count
  BY DEF Count, Current
<1>2. ASSUME NEW d \in Conns
      PROVE  (IF pc'[d] \in {"bump", "bump_slow"} THEN Head(loc'[d].todo) ELSE NoTable)
               = (IF pc[d] \in {"bump", "bump_slow"} THEN Head(loc[d].todo) ELSE NoTable)
  BY DEF CacheInv, TypeOK, Goto
<1>3. Owed' = Owed
  BY <1>2 DEF Owed
<1> QED
  BY <1>1, <1>3

\* An increment of the table the call is about, whichever path makes it.
LEMMA Increments ==
  ASSUME CacheInv, NEW c \in Conns, pc[c] \in {"bump", "bump_slow"}, BumpDone(c),
         versions' = [versions EXCEPT ![Head(loc[c].todo)] = Current(Head(loc[c].todo)) + 1]
  PROVE  Counters!Increment(c)
<1> DEFINE t == Head(loc[c].todo)
<1>1. t \in Tables /\ t # NoTable /\ Current(t) \in Nat
  BY BumpedTable, CurrentType, CacheAssumption DEF CacheInv
<1>2. Owed[c] = t
  BY DEF Owed
<1>3. Count' = [Count EXCEPT ![t] = @ + 1]
  <2>1. ASSUME NEW x \in Tables PROVE Current(x)' = IF x = t THEN Current(t) + 1 ELSE Current(x)
    BY <1>1, CacheAssumption DEF Current, CacheInv, TypeOK
  <2> QED
    BY <1>1, <2>1, Zenon DEF Count
<1>4. Owed' = [Owed EXCEPT ![c] = NoTable]
  <2>1. ASSUME NEW d \in Conns, d # c PROVE pc'[d] = pc[d] /\ loc'[d] = loc[d]
    BY <2>1 DEF BumpDone, Goto, CacheInv, TypeOK
  <2>2. pc'[c] = "bumps"
    BY DEF BumpDone, Goto, CacheInv, TypeOK
  <2> QED
    BY <2>1, <2>2 DEF Owed
<1> QED
  BY <1>1, <1>2, <1>3, <1>4 DEF Counters!Increment, Count, Owed

\* NextBump begins a call of bump, or ends the statement.
LEMMA NextBumpCounts ==
  ASSUME CacheInv, NEW c \in Conns, NextBump(c)
  PROVE  Counters!Call(c) \/ UNCHANGED <<Count, Owed>>
<1>1. pc[c] = "bumps" /\ versions' = versions
  BY DEF NextBump, At
<1>2. CASE loc[c].todo = <<>>
  BY <1>1, <1>2, Invisible DEF NextBump, Return, Labels
<1>3. CASE loc[c].todo # <<>>
  <2>1. Goto(c, "bump", loc[c])
    BY <1>3 DEF NextBump
  <2>2. Count' = Count
    BY <1>1 DEF Count, Current
  <2>3. Head(loc[c].todo) \in Tables
    BY <1>3, HeadTailProperties DEF CacheInv, TypeOK, Local
  <2>4. Owed' = [Owed EXCEPT ![c] = Head(loc[c].todo)]
    <3>1. ASSUME NEW d \in Conns, d # c PROVE pc'[d] = pc[d] /\ loc'[d] = loc[d]
      BY <2>1, <3>1 DEF Goto, CacheInv, TypeOK
    <3>2. pc'[c] = "bump" /\ loc'[c] = loc[c]
      BY <2>1 DEF Goto, CacheInv, TypeOK
    <3> QED
      BY <3>1, <3>2 DEF Owed
  <2>5. Owed[c] = NoTable
    BY <1>1 DEF Owed
  <2> QED
    BY <2>2, <2>3, <2>4, <2>5 DEF Counters!Call, Count, Owed
<1> QED
  BY <1>2, <1>3

LEMMA BumpCounts ==
  ASSUME CacheInv, NEW c \in Conns, BumpFast(c) \/ BumpSlow(c)
  PROVE  Counters!Increment(c) \/ UNCHANGED <<Count, Owed>>
<1> DEFINE t == Head(loc[c].todo)
<1>1. pc[c] \in {"bump", "bump_slow"}
  BY DEF BumpFast, BumpSlow, At
<1>2. CASE versions' = versions /\ pc[c] = "bump" /\ Goto(c, "bump_slow", loc[c])
  <2>1. Count' = Count
    BY <1>2 DEF Count, Current
  <2>2. ASSUME NEW d \in Conns
        PROVE  /\ loc'[d] = loc[d]
               /\ pc'[d] \in {"bump", "bump_slow"} <=> pc[d] \in {"bump", "bump_slow"}
    BY <1>2 DEF Goto, CacheInv, TypeOK
  <2>3. Owed' = Owed
    BY <2>2 DEF Owed
  <2> QED
    BY <2>1, <2>3
<1>3. CASE versions' = [versions EXCEPT ![t] = Current(t) + 1] /\ BumpDone(c)
  BY <1>1, <1>3, Increments
<1> QED
  BY <1>2, <1>3, BumpPaths

\* Every other step of a statement.
LEMMA OtherCounts ==
  ASSUME CacheInv, NEW c \in Conns,
         \/ ReadVersion(c) \/ Lookup(c) \/ Compute(c) \/ Stamp(c)
         \/ PopSame(c) \/ Put(c)
         \/ Relate(c) \/ CommitBatch(c) \/ Reindex(c)
  PROVE  UNCHANGED <<Count, Owed>>
<1>1. pc[c] \notin {"bump", "bump_slow"} /\ versions' = versions
  BY ZenonT(60) DEF ReadVersion, Lookup, Compute, Stamp, PopSame, Put, Relate, CommitBatch, Reindex, At
<1>2. PICK label \in Labels \ {"bump", "bump_slow"} : \E l : Goto(c, label, l)
  BY DEF ReadVersion, Lookup, Compute, Stamp, PopSame, Put, Relate, CommitBatch, Reindex,
         Return, Labels
<1>3. PICK l : Goto(c, label, l)
  BY <1>2
<1> QED
  BY <1>1, <1>2, <1>3, Invisible

\* The fast and the slow path of WriteVersions::bump together implement one
\* atomic increment per call: when two first writers of a table race, neither
\* bump is lost or counted twice.
THEOREM BumpsAreAtomic == Spec => BumpsAtomic
<1>1. Init => Counters!Init
  <2> SUFFICES ASSUME Init PROVE Counters!Init
    OBVIOUS
  <2>1. \A t \in Tables : Current(t) = 0
    BY DEF Init, Current
  <2>2. \A c \in Conns : pc[c] = "idle"
    BY DEF Init
  <2> QED
    BY <2>1, <2>2 DEF Counters!Init
<1>2. CacheInv /\ [Next]_vars => [Counters!Next]_<<Count, Owed>>
  <2> SUFFICES ASSUME CacheInv, [Next]_vars
               PROVE  Counters!Next \/ UNCHANGED <<Count, Owed>>
    OBVIOUS
  <2>1. CASE UNCHANGED vars
    BY <2>1 DEF vars, Count, Owed, Current
  <2>2. ASSUME NEW c \in Conns, Begin(c) PROVE UNCHANGED <<Count, Owed>>
    <3>1. versions' = versions /\ loc' = loc
      BY <2>2 DEF Begin
    <3>2. \A d \in Conns :
            pc'[d] \in {"bump", "bump_slow"} <=> pc[d] \in {"bump", "bump_slow"}
      BY <2>2 DEF Begin, At, CacheInv, TypeOK
    <3> QED
      BY <3>1, <3>2 DEF Count, Owed, Current
  <2>3. ASSUME NEW c \in Conns, Evict(c) PROVE UNCHANGED <<Count, Owed>>
    BY <2>3 DEF Evict, Count, Owed, Current
  <2>4. ASSUME NEW c \in Conns, Step(c)
        PROVE  Counters!Call(c) \/ Counters!Increment(c) \/ UNCHANGED <<Count, Owed>>
    BY <2>3, <2>4, OtherCounts, NextBumpCounts, BumpCounts DEF Step
  <2>5. CASE Crash
    <3>1. /\ \A t \in Tables : Current(t)' = 0
          /\ \A c \in Conns : pc'[c] = "idle"
      BY <2>5 DEF Crash, Current
    <3> QED
      BY <3>1 DEF Counters!Next, Counters!Restart
  <2> QED
    BY <2>1, <2>2, <2>4, <2>5 DEF Next, Counters!Next
<1>3. [Counters!Next]_<<Count, Owed>> =>
        [Counters!Next]_<<[t \in Tables |-> Current(t)],
                         [c \in Conns |-> IF pc[c] \in {"bump", "bump_slow"}
                                          THEN Head(loc[c].todo) ELSE NoTable]>>
  BY DEF Count, Owed
<1> QED
  BY <1>1, <1>2, <1>3, CacheInvAlways, PTL DEF Spec, BumpsAtomic, Counters!Spec

-----------------------------------------------------------------------------
(* What the version counters are worth: a version never runs ahead of the   *)
(* edges in storage, and a cached result can be stale only in the two ways  *)
(* that AnalyticsCacheHistory observes.                                     *)

Owing == {"reindex", "bumps", "bump", "bump_slow"}

\* The bumps of table t that committed writes still owe: one per connection and
\* place in its list of tables, counted from the end so that Tail moves none.
Pending(t) ==
  {x \in Conns \X Nat :
     /\ pc[x[1]] \in Owing
     /\ x[2] < Len(loc[x[1]].todo)
     /\ loc[x[1]].todo[Len(loc[x[1]].todo) - x[2]] = t}

\* A version and the bumps that are due account for no more than the edges written.
Counted(t) ==
  /\ IsFiniteSet(Pending(t))
  /\ Current(t) + Cardinality(Pending(t)) <= commits[t]

CountInv == CacheInv /\ \A t \in Tables : Counted(t)

-----------------------------------------------------------------------------
(* How steps change the bumps that are due *)

LEMMA PendingSame ==
  ASSUME \A d \in Conns : pc'[d] \in Owing <=> pc[d] \in Owing,
         \A d \in Conns : pc[d] \in Owing => loc'[d].todo = loc[d].todo,
         NEW t
  PROVE  Pending(t)' = Pending(t)
BY DEF Pending

LEMMA GotoOthers ==
  ASSUME CacheInv, NEW c \in Conns, NEW label, NEW l, Goto(c, label, l)
  PROVE  /\ pc'[c] = label /\ loc'[c] = l
         /\ \A d \in Conns : d # c => pc'[d] = pc[d] /\ loc'[d] = loc[d]
         /\ stmt' = stmt
BY DEF CacheInv, TypeOK, Goto

LEMMA TouchedFinite ==
  ASSUME NEW s \in Seq(Tables), NEW t
  PROVE  IsFiniteSet({i \in 1 .. Len(s) : s[i] = t})
<1>1. IsFiniteSet(1 .. Len(s))
  BY FS_Interval
<1> QED
  BY <1>1, FS_Subset

\* A commit owes one bump for every edge it wrote to t.
LEMMA PendingEnter ==
  ASSUME CacheInv, NEW c \in Conns, NEW label \in Owing, NEW s \in Seq(Tables),
         pc[c] \notin Owing, Goto(c, label, [loc[c] EXCEPT !.todo = s]),
         NEW t, IsFiniteSet(Pending(t))
  PROVE  /\ IsFiniteSet(Pending(t)')
         /\ Cardinality(Pending(t)') = Cardinality(Pending(t)) + Touches(s, t)
<1> DEFINE I == {i \in 1 .. Len(s) : s[i] = t}
           N == {x \in {c} \X Nat : x[2] < Len(s) /\ s[Len(s) - x[2]] = t}
           f == [i \in I |-> <<c, Len(s) - i>>]
<1>1. Len(s) \in Nat /\ DOMAIN s = 1 .. Len(s)
  BY LenProperties
<1>2. loc[c] \in Local
  BY DEF CacheInv, TypeOK
<1>3. /\ pc'[c] = label /\ loc'[c].todo = s
      /\ \A d \in Conns : d # c => pc'[d] = pc[d] /\ loc'[d] = loc[d]
  <2>1. [loc[c] EXCEPT !.todo = s].todo = s
    BY <1>2 DEF Local
  <2> QED
    BY ZenonT(60), <2>1, GotoOthers
<1>4. Pending(t)' = Pending(t) \cup N
  BY <1>3 DEF Pending
<1>5. Pending(t) \cap N = {}
  BY DEF Pending
<1>6. IsFiniteSet(I) /\ Cardinality(I) = Touches(s, t)
  BY TouchedFinite DEF Touches
<1>7. IsFiniteSet(N) /\ Cardinality(N) = Cardinality(I)
  <2>1. f \in [I -> N]
    BY <1>1
  <2>2. \A i, j \in I : f[i] = f[j] => i = j
    BY <1>1
  <2>3. \A x \in N : \E i \in I : f[i] = x
    <3> SUFFICES ASSUME NEW x \in N PROVE \E i \in I : f[i] = x
      OBVIOUS
    <3>1. Len(s) - x[2] \in I /\ x = <<c, x[2]>> /\ x[2] \in Nat
      BY <1>1
    <3>2. f[Len(s) - x[2]] = <<c, Len(s) - (Len(s) - x[2])>>
      BY <3>1
    <3>3. Len(s) - (Len(s) - x[2]) = x[2]
      BY <1>1, <3>1
    <3> QED
      BY <3>1, <3>2, <3>3
  <2>4. f \in Bijection(I, N)
    <3> HIDE DEF I, N, f
    <3> QED
      BY <2>1, <2>2, <2>3 DEF Bijection, Injection, Surjection, IsInjective
  <2>5. ExistsBijection(I, N)
    BY <2>4 DEF ExistsBijection
  <2> HIDE DEF I, N, f
  <2> QED
    BY <1>6, <2>5, FS_Bijection
<1> HIDE DEF I, N
<1>8. IsFiniteSet(Pending(t) \cup N)
      /\ Cardinality(Pending(t) \cup N) = Cardinality(Pending(t)) + Cardinality(N) - Cardinality({})
  BY SMTT(30), <1>5, <1>7, FS_Union
<1>9. Cardinality(Pending(t)) \in Nat /\ Cardinality(N) \in Nat
  BY <1>7, FS_CardinalityType
<1> QED
  BY <1>4, <1>6, <1>7, <1>8, <1>9, FS_EmptySet

\* A bump settles one of those that are due to its table and none of another's.
LEMMA PendingBump ==
  ASSUME CacheInv, NEW c \in Conns, pc[c] \in {"bump", "bump_slow"}, BumpDone(c),
         NEW t, IsFiniteSet(Pending(t))
  PROVE  /\ IsFiniteSet(Pending(t)')
         /\ Cardinality(Pending(t)) \in Nat
         /\ Cardinality(Pending(t)')
              = Cardinality(Pending(t)) - (IF t = Head(loc[c].todo) THEN 1 ELSE 0)
<1> DEFINE s == loc[c].todo
           x0 == <<c, Len(s) - 1>>
<1>1. s \in Seq(Tables) /\ s # <<>> /\ loc[c] \in Local
  BY DEF CacheInv, TypeOK, ControlOK, Local
<1>2. /\ Len(s) \in Nat \ {0} /\ Head(s) = s[1]
      /\ Len(Tail(s)) = Len(s) - 1 /\ \A i \in 1 .. Len(Tail(s)) : Tail(s)[i] = s[i + 1]
  BY <1>1, EmptySeq, HeadTailProperties
<1>3. /\ pc'[c] = "bumps" /\ loc'[c].todo = Tail(s)
      /\ \A d \in Conns : d # c => pc'[d] = pc[d] /\ loc'[d] = loc[d]
  <2>1. [loc[c] EXCEPT !.todo = Tail(@)].todo = Tail(s)
    BY <1>1 DEF Local
  <2> QED
    BY <2>1, GotoOthers DEF BumpDone
<1>4. x0 \in Pending(t) <=> t = Head(s)
  <2>1. x0 \in Conns \X Nat /\ x0[1] = c /\ x0[2] = Len(s) - 1
    BY <1>2
  <2>2. Len(s) - x0[2] = 1 /\ x0[2] < Len(s)
    BY <1>2, <2>1
  <2> QED
    BY <1>2, <2>1, <2>2 DEF Pending, Owing
<1>5. Pending(t)' = Pending(t) \ {x0}
  <2>1. ASSUME NEW x \in Conns \X Nat
        PROVE  x \in Pending(t)' <=> x \in Pending(t) /\ x # x0
    <3>1. CASE x[1] # c
      BY <1>3, <3>1 DEF Pending
    <3>2. CASE x[1] = c
      <4>1. x[2] \in Nat /\ x = <<c, x[2]>>
        BY <3>2
      <4>2. x \in Pending(t)' <=> x[2] < Len(Tail(s)) /\ Tail(s)[Len(Tail(s)) - x[2]] = t
        BY <1>3, <3>2 DEF Pending, Owing
      <4>3. x \in Pending(t) <=> x[2] < Len(s) /\ s[Len(s) - x[2]] = t
        BY <3>2 DEF Pending, Owing
      <4>4. x # x0 <=> x[2] # Len(s) - 1
        BY <4>1
      <4>5. x[2] < Len(Tail(s)) <=> x[2] < Len(s) /\ x[2] # Len(s) - 1
        BY <1>2, <4>1
      <4>6. x[2] < Len(Tail(s)) => Tail(s)[Len(Tail(s)) - x[2]] = s[Len(s) - x[2]]
        <5> SUFFICES ASSUME x[2] < Len(Tail(s)) PROVE Tail(s)[Len(Tail(s)) - x[2]] = s[Len(s) - x[2]]
          OBVIOUS
        <5>1. /\ Len(Tail(s)) - x[2] \in 1 .. Len(Tail(s))
              /\ (Len(Tail(s)) - x[2]) + 1 = Len(s) - x[2]
          BY SMTT(30), <1>2, <4>1
        <5> QED
          BY <1>2, <5>1
      <4> QED
        BY <4>2, <4>3, <4>4, <4>5, <4>6
    <3> QED
      BY <3>1, <3>2
  <2>2. Pending(t) \subseteq Conns \X Nat /\ Pending(t)' \subseteq Conns \X Nat
    BY DEF Pending
  <2> HIDE DEF x0
  <2> QED
    BY <2>1, <2>2
<1> HIDE DEF x0
<1>6. /\ IsFiniteSet(Pending(t) \ {x0}) /\ Cardinality(Pending(t)) \in Nat
      /\ Cardinality(Pending(t) \ {x0})
           = IF x0 \in Pending(t) THEN Cardinality(Pending(t)) - 1 ELSE Cardinality(Pending(t))
  BY FS_RemoveElement, FS_CardinalityType
<1> QED
  BY <1>4, <1>5, <1>6

-----------------------------------------------------------------------------
(* What a step may do to the counters of a table *)

\* Edges are committed, each with a bump that is due.
Commits(t) ==
  /\ IsFiniteSet(Pending(t)')
  /\ Current(t)' = Current(t)
  /\ commits[t] <= commits'[t]
  /\ Cardinality(Pending(t)') = Cardinality(Pending(t)) + (commits'[t] - commits[t])

\* One of the bumps that are due is made.
Bumps(t) ==
  /\ IsFiniteSet(Pending(t)')
  /\ commits'[t] = commits[t]
  /\ Current(t)' = Current(t) + 1
  /\ Cardinality(Pending(t)') = Cardinality(Pending(t)) - 1

\* A batch fails after its commit: its bumps are never made.
Forgets(t) ==
  /\ commits'[t] = commits[t]
  /\ Current(t)' = Current(t)
  /\ Pending(t)' \subseteq Pending(t)
  /\ \E c \in Conns : At(c, "reindex") /\ pc'[c] = "idle" /\ stmt'[c] = stmt[c]

\* Nothing changes for t.
LEMMA CommitsNothing ==
  ASSUME CountInv, NEW t \in Tables, commits'[t] = commits[t], versions' = versions,
         Pending(t)' = Pending(t)
  PROVE  Commits(t)
<1>1. Cardinality(Pending(t)) \in Nat /\ commits[t] \in Nat
  BY FS_CardinalityType DEF CountInv, Counted, CacheInv, TypeOK
<1> QED
  BY <1>1 DEF Commits, Current, CountInv, Counted

LEMMA BeginCommits ==
  ASSUME CountInv, NEW c \in Conns, Begin(c), NEW t \in Tables
  PROVE  Commits(t)
<1>1. /\ commits' = commits /\ versions' = versions /\ loc' = loc
      /\ \A d \in Conns : pc'[d] \in Owing <=> pc[d] \in Owing
  BY DEF Begin, At, Owing, CountInv, CacheInv, TypeOK
<1> QED
  BY <1>1, PendingSame, CommitsNothing

\* The steps of queries.
LEMMA QueryCommits ==
  ASSUME CountInv, NEW c \in Conns, NEW t \in Tables,
         \/ ReadVersion(c) \/ Lookup(c) \/ Compute(c) \/ Stamp(c)
         \/ PopSame(c) \/ Evict(c) \/ Put(c)
  PROVE  Commits(t)
<1>1. commits' = commits /\ versions' = versions
  BY DEF ReadVersion, Lookup, Compute, Stamp, PopSame, Evict, Put
<1>2. CASE Evict(c)
  <2>1. pc' = pc /\ loc' = loc
    BY <1>2 DEF Evict
  <2> QED
    BY <1>1, <2>1, PendingSame, CommitsNothing
<1>3. CASE ~Evict(c)
  <2>1. pc[c] \notin Owing
    BY ZenonT(60), <1>3 DEF ReadVersion, Lookup, Compute, Stamp, PopSame, Put, At, Owing
  <2>2. PICK label \in Labels \ Owing : \E l : Goto(c, label, l)
    BY <1>3 DEF ReadVersion, Lookup, Compute, Stamp, PopSame, Put, Return, Labels, Owing
  <2>3. PICK l : Goto(c, label, l)
    BY <2>2
  <2>4. \A d \in Conns : (pc'[d] \in Owing <=> pc[d] \in Owing)
                         /\ (pc[d] \in Owing => loc'[d].todo = loc[d].todo)
    BY <2>1, <2>2, <2>3, GotoOthers DEF CountInv
  <2> QED
    BY SMTT(30), <1>1, <2>4, PendingSame, CommitsNothing
<1> QED
  BY SMTT(30), <1>2, <1>3

\* Touches of a list with one table.
LEMMA TouchesOne ==
  ASSUME NEW t \in Tables, NEW u
  PROVE  Touches(<<t>>, u) = IF u = t THEN 1 ELSE 0
<1>1. {i \in 1 .. Len(<<t>>) : <<t>>[i] = u} = IF u = t THEN {1} ELSE {}
  OBVIOUS
<1> QED
  BY <1>1, FS_Singleton, FS_EmptySet DEF Touches

LEMMA WriteCommits ==
  ASSUME CountInv, NEW c \in Conns, Relate(c) \/ CommitBatch(c), NEW t \in Tables
  PROVE  Commits(t)
<1>1. /\ pc[c] = "commit" /\ pc[c] \notin Owing /\ versions' = versions
      /\ stmt[c] \in Statement /\ stmt[c].op \in {"relate", "batch"} /\ CacheInv
  BY DEF Relate, CommitBatch, At, CountInv, CacheInv, ControlOK, Owing
<1>2. /\ stmt[c].op = "relate" => stmt[c].table \in Tables
      /\ stmt[c].op = "batch" => stmt[c].tables \in Seq(Tables)
  BY <1>1, QueryTypes
<1>3. commits \in [Tables -> Nat] /\ IsFiniteSet(Pending(t)) /\ Cardinality(Pending(t)) \in Nat
  BY FS_CardinalityType DEF CountInv, Counted, CacheInv, TypeOK
<1>4. CASE commits' = commits /\ Return(c)
  <2>1. \A d \in Conns : (pc'[d] \in Owing <=> pc[d] \in Owing)
                         /\ (pc[d] \in Owing => loc'[d].todo = loc[d].todo)
    BY <1>1, <1>4, GotoOthers DEF Return, Owing
  <2> QED
    BY <1>1, <1>4, <2>1, PendingSame, CommitsNothing
<1>5. ASSUME NEW s \in Seq(Tables), NEW label \in Owing,
             Goto(c, label, [loc[c] EXCEPT !.todo = s]),
             commits'[t] = commits[t] + Touches(s, t)
      PROVE  Commits(t)
  <2>1. Touches(s, t) \in Nat
    BY TouchesType
  <2>2. /\ IsFiniteSet(Pending(t)')
        /\ Cardinality(Pending(t)') = Cardinality(Pending(t)) + Touches(s, t)
    BY <1>1, <1>3, <1>5, PendingEnter
  <2> QED
    BY <1>1, <1>3, <1>5, <2>1, <2>2 DEF Commits, Current
<1>6. CASE Relate(c)
  <2> DEFINE u == stmt[c].table
  <2>1. u \in Tables /\ <<u>> \in Seq(Tables)
    BY <1>2, <1>6 DEF Relate
  <2>2. CASE commits[u] < MaxCommits
    <3>1. commits'[t] = commits[t] + Touches(<<u>>, t)
      BY <1>3, <1>6, <2>1, <2>2, TouchesOne DEF Relate
    <3>2. Goto(c, "bumps", [loc[c] EXCEPT !.todo = <<u>>])
      BY <1>6, <2>2 DEF Relate
    <3> QED
      BY <1>5, <2>1, <3>1, <3>2 DEF Owing
  <2> QED
    BY <1>4, <1>6, <2>2 DEF Relate
<1>7. CASE CommitBatch(c)
  <2>1. stmt[c].tables \in Seq(Tables)
    BY <1>2, <1>7 DEF CommitBatch
  <2>2. CASE \A u \in Tables : commits[u] + Touches(stmt[c].tables, u) <= MaxCommits
    <3>1. commits'[t] = commits[t] + Touches(stmt[c].tables, t)
      BY <1>7, <2>2 DEF CommitBatch
    <3>2. PICK label \in {"reindex", "bumps"} : Goto(c, label, [loc[c] EXCEPT !.todo = stmt[c].tables])
      BY <1>7, <2>2 DEF CommitBatch
    <3> QED
      BY <1>5, <2>1, <3>1, <3>2 DEF Owing
  <2> QED
    BY <1>4, <1>7, <2>2 DEF CommitBatch
<1> QED
  BY <1>6, <1>7

\* Between the commit and the bumps only a failed batch drops any.
LEMMA ControlCommits ==
  ASSUME CountInv, NEW c \in Conns, Reindex(c) \/ NextBump(c), NEW t \in Tables
  PROVE  Commits(t) \/ Forgets(t)
<1>1. /\ pc[c] \in {"reindex", "bumps"} /\ versions' = versions /\ commits' = commits
      /\ CacheInv /\ loc[c] \in Local
  BY DEF Reindex, NextBump, At, CountInv, CacheInv, TypeOK
<1>2. ASSUME NEW label \in {"bumps", "bump"}, Goto(c, label, loc[c])
      PROVE  Commits(t)
  <2>1. \A d \in Conns : (pc'[d] \in Owing <=> pc[d] \in Owing) /\ loc'[d].todo = loc[d].todo
    BY <1>1, <1>2, GotoOthers DEF Owing
  <2> QED
    BY <1>1, <2>1, PendingSame, CommitsNothing
<1>3. ASSUME Return(c)
      PROVE  /\ Pending(t)' \subseteq Pending(t)
             /\ loc[c].todo = <<>> => Pending(t)' = Pending(t)
             /\ pc'[c] = "idle" /\ stmt' = stmt
  <2>1. /\ pc'[c] = "idle" /\ stmt' = stmt
        /\ \A d \in Conns : d # c => pc'[d] = pc[d] /\ loc'[d] = loc[d]
    BY <1>1, <1>3, GotoOthers DEF Return
  <2>2. Pending(t)' = {x \in Pending(t) : x[1] # c}
    BY <2>1 DEF Pending, Owing
  <2>3. ASSUME loc[c].todo = <<>>, NEW x \in Pending(t) PROVE x[1] # c
    <3>1. x[2] \in Nat /\ x[2] < Len(loc[x[1]].todo)
      BY DEF Pending
    <3> QED
      BY <2>3, <3>1
  <2> QED
    BY <2>1, <2>2, <2>3
<1>4. CASE Reindex(c)
  BY <1>1, <1>2, <1>3, <1>4 DEF Reindex, Forgets, Current, At
<1>5. CASE NextBump(c)
  BY <1>1, <1>2, <1>3, <1>5, CommitsNothing DEF NextBump
<1> QED
  BY <1>4, <1>5

LEMMA BumpBumps ==
  ASSUME CountInv, NEW c \in Conns, BumpFast(c) \/ BumpSlow(c), NEW t \in Tables
  PROVE  Commits(t) \/ Bumps(t)
<1> DEFINE u == Head(loc[c].todo)
<1>1. /\ pc[c] \in {"bump", "bump_slow"} /\ commits' = commits
      /\ CacheInv /\ IsFiniteSet(Pending(t)) /\ versions \in [Tables -> Nat \cup {Absent}]
      /\ commits \in [Tables -> Nat]
  BY DEF BumpFast, BumpSlow, At, CountInv, Counted, CacheInv, TypeOK
<1>2. u \in Tables /\ Current(u) \in Nat
  BY <1>1, BumpedTable, CurrentType DEF CacheInv
<1>3. CASE versions' = versions /\ pc[c] = "bump" /\ Goto(c, "bump_slow", loc[c])
  <2>1. \A d \in Conns : (pc'[d] \in Owing <=> pc[d] \in Owing) /\ loc'[d].todo = loc[d].todo
    BY <1>1, <1>3, GotoOthers DEF Owing
  <2> QED
    BY <1>1, <1>3, <2>1, PendingSame, CommitsNothing
<1>4. CASE versions' = [versions EXCEPT ![u] = Current(u) + 1] /\ BumpDone(c)
  <2>1. /\ IsFiniteSet(Pending(t)') /\ Cardinality(Pending(t)) \in Nat
        /\ Cardinality(Pending(t)') = Cardinality(Pending(t)) - (IF t = u THEN 1 ELSE 0)
    BY <1>1, <1>4, PendingBump
  <2>2. CASE t = u
    <3>1. Current(t)' = Current(t) + 1
      BY <1>1, <1>2, <1>4, <2>2, CacheAssumption DEF Current
    <3> QED
      BY <1>1, <2>1, <2>2, <3>1 DEF Bumps
  <2>3. CASE t # u
    <3>1. Current(t)' = Current(t)
      BY <1>1, <1>4, <2>3 DEF Current
    <3> QED
      BY <1>1, <2>1, <2>3, <3>1 DEF Commits
  <2> QED
    BY <2>2, <2>3
<1> QED
  BY <1>3, <1>4, BumpPaths

LEMMA StepMoves ==
  ASSUME CountInv, NEW c \in Conns, Begin(c) \/ Step(c), NEW t \in Tables
  PROVE  Commits(t) \/ Bumps(t) \/ Forgets(t)
BY BeginCommits, QueryCommits, WriteCommits, ControlCommits, BumpBumps DEF Step

\* A restart sets the versions back and owes nothing.
LEMMA CrashCounted ==
  ASSUME CacheInv, Crash, NEW t \in Tables
  PROVE  Counted(t)'
<1>1. Pending(t)' = {} /\ Current(t)' = 0 /\ commits' = commits /\ commits[t] \in Nat
  BY DEF Crash, Pending, Owing, Current, CacheInv, TypeOK
<1> QED
  BY <1>1, FS_EmptySet DEF Counted

LEMMA CountInvInit == Init => CountInv
<1> SUFFICES ASSUME Init PROVE CountInv
  OBVIOUS
<1>1. CacheInv
  BY CacheInvInit
<1>2. ASSUME NEW t \in Tables PROVE Counted(t)
  <2>1. Pending(t) = {} /\ Current(t) = 0 /\ commits[t] = 0
    BY DEF Init, Pending, Owing, Current
  <2> QED
    BY <2>1, FS_EmptySet DEF Counted
<1> QED
  BY <1>1, <1>2 DEF CountInv

LEMMA CountInvNext == CountInv /\ [Next]_vars => CountInv'
<1> SUFFICES ASSUME CountInv, [Next]_vars PROVE CountInv'
  OBVIOUS
<1>1. CacheInv'
  BY CacheInvNext DEF CountInv
<1>2. ASSUME NEW t \in Tables PROVE Counted(t)'
  <2>1. /\ IsFiniteSet(Pending(t)) /\ Cardinality(Pending(t)) \in Nat
        /\ commits[t] \in Nat /\ commits'[t] \in Nat /\ Current(t) \in Nat
        /\ Current(t) + Cardinality(Pending(t)) <= commits[t]
    BY <1>1, CurrentType, FS_CardinalityType DEF CountInv, Counted, CacheInv, TypeOK
  <2>2. CASE UNCHANGED vars
    BY <2>1, <2>2 DEF vars, Counted, Pending, Current
  <2>3. CASE Crash
    BY <2>3, CrashCounted DEF CountInv
  <2>4. CASE Commits(t) \/ Bumps(t)
    BY <2>1, <2>4, FS_CardinalityType DEF Commits, Bumps, Counted
  <2>5. CASE Forgets(t)
    <3>1. IsFiniteSet(Pending(t)') /\ Cardinality(Pending(t)') <= Cardinality(Pending(t))
      BY <2>1, <2>5, FS_Subset DEF Forgets
    <3>2. Cardinality(Pending(t)') \in Nat
      BY <3>1, FS_CardinalityType
    <3> QED
      BY <2>1, <2>5, <3>1, <3>2 DEF Forgets, Counted
  <2> QED
    BY <2>2, <2>3, <2>4, <2>5, StepMoves DEF Next
<1> QED
  BY <1>1, <1>2 DEF CountInv

LEMMA CountInvAlways == Spec => []CountInv
BY CountInvInit, CountInvNext, PTL DEF Spec

\* WriteVersions never counts a write that storage does not hold: whatever bumps
\* race, fail to happen or are lost in a restart, a version is at most the number
\* of edges written to its table.
THEOREM VersionsTrail == Spec => []VersionBehindStorage
<1>1. CountInv => VersionBehindStorage
  <2> SUFFICES ASSUME CountInv, NEW t \in Tables PROVE Current(t) <= commits[t]
    BY DEF VersionBehindStorage
  <2>1. /\ Cardinality(Pending(t)) \in Nat /\ commits[t] \in Nat /\ Current(t) \in Nat
        /\ Current(t) + Cardinality(Pending(t)) <= commits[t]
    BY CurrentType, FS_CardinalityType DEF CountInv, Counted, CacheInv, TypeOK
  <2> QED
    BY <2>1
<1> QED
  BY <1>1, CountInvAlways, PTL

-----------------------------------------------------------------------------
(* Cached results *)

\* A result d of version v of table t is behind the edges by no more than the
\* bumps that are due, as long as its version is the present one.
Due(v, d, t) ==
  /\ v <= Current(t)
  /\ d <= commits[t]
  /\ v = Current(t) => commits[t] <= d + Cardinality(Pending(t))

\* An entry for t, or a result on its way into the cache, with this version and data.
Held(v, d, t) ==
  \/ \E i \in 1 .. Len(lru) :
       KeyTable[lru[i].key] = t /\ lru[i].version = v /\ lru[i].data = d
  \/ \E c \in Conns :
       /\ pc[c] \in {"insert", "evict"}
       /\ Table(c) = t /\ loc[c].version = v /\ loc[c].data = d

\* Whatever is held is due, and a scan that is not stamped yet is of the present edges.
FreshInv ==
  /\ \A t \in Tables, v \in Nat, d \in Nat : Held(v, d, t) => Due(v, d, t)
  /\ \A c \in Conns : pc[c] = "stamp" => loc[c].data = commits[Table(c)]

HistoryInv == CountInv /\ blurred \in BOOLEAN /\ (~blurred => FreshInv)

LEMMA DueKept ==
  ASSUME CountInv, CountInv', NEW t \in Tables, Commits(t) \/ Bumps(t),
         NEW v \in Nat, NEW d \in Nat, Due(v, d, t)
  PROVE  Due(v, d, t)'
<1>1. /\ commits[t] \in Nat /\ commits'[t] \in Nat
      /\ Current(t) \in Nat /\ Current(t)' \in Nat
  BY DEF CountInv, CacheInv, TypeOK, Current
<1>2. IsFiniteSet(Pending(t)) /\ IsFiniteSet(Pending(t)')
  BY DEF CountInv, Counted
<1>3. Cardinality(Pending(t)) \in Nat /\ Cardinality(Pending(t)') \in Nat
  BY SMTT(30), <1>2, FS_CardinalityType
<1> QED
  BY <1>1, <1>3 DEF Due, Commits, Bumps

\* Where the entries of the cache come from.
LEMMA EntryOrigin ==
  ASSUME CacheInv, NEW c \in Conns, Begin(c) \/ Step(c), NEW i \in 1 .. Len(lru')
  PROVE  \/ \E j \in 1 .. Len(lru) : lru'[i] = lru[j]
         \/ /\ pc[c] = "evict"
            /\ lru'[i].key = stmt[c].key
            /\ lru'[i].version = loc[c].version
            /\ lru'[i].data = loc[c].data
<1> DEFINE k == Position(stmt[c].key)
<1>1. lru \in Seq(CacheEntry) /\ Len(lru) \in Nat
  BY DEF CacheInv, TypeOK
<1>2. CASE lru' = lru
  BY <1>2
<1>3. CASE Lookup(c) /\ Cached(stmt[c].key)
  <2>1. k \in 1 .. Len(lru) /\ lru' = <<lru[k]>> \o RemoveAt(lru, k)
    BY <1>3, PositionType DEF Lookup, CacheInv
  <2>2. Len(lru') = Len(lru)
    BY <2>1, PromotedType DEF CacheInv
  <2>3. lru'[i] = IF i = 1 THEN lru[k] ELSE RemoveAt(lru, k)[i - 1]
    BY <2>1, <2>2, PromotedElements DEF CacheInv
  <2>4. ASSUME i # 1
        PROVE  RemoveAt(lru, k)[i - 1] = IF i - 1 < k THEN lru[i - 1] ELSE lru[(i - 1) + 1]
    <3>1. i - 1 \in 1 .. Len(lru) - 1
      BY <1>1, <2>2, <2>4
    <3> QED
      BY <1>1, <2>1, <3>1, RemoveAtElements
  <2> QED
    BY <1>1, <2>1, <2>2, <2>3, <2>4
<1>4. CASE PopSame(c) /\ Cached(stmt[c].key)
  <2>1. k \in 1 .. Len(lru) /\ lru' = RemoveAt(lru, k)
    BY <1>4, PositionType DEF PopSame, CacheInv
  <2>2. Len(lru') = Len(lru) - 1
    BY <1>1, <2>1, RemoveAtType
  <2>3. lru'[i] = IF i < k THEN lru[i] ELSE lru[i + 1]
    BY <1>1, <2>1, <2>2, RemoveAtElements
  <2> QED
    BY <1>1, <2>1, <2>2, <2>3
<1>5. CASE Evict(c)
  <2>1. lru # <<>> /\ lru' = SubSeq(lru, 1, Len(lru) - 1)
    BY <1>5 DEF Evict, Overfull
  <2>2. Len(lru') = Len(lru) - 1 /\ \A j \in 1 .. Len(lru) - 1 : lru'[j] = lru[j]
    BY <1>1, <2>1, SubSeqProperties
  <2> QED
    BY <1>1, <2>2
<1>6. CASE Put(c)
  <2> DEFINE e == [key |-> stmt[c].key, version |-> loc[c].version,
                   bytes |-> loc[c].bytes, data |-> loc[c].data]
  <2>1. pc[c] = "evict" /\ lru' = <<e>> \o lru
    BY <1>6 DEF Put, At
  <2>2. e \in CacheEntry
    <3>1. stmt[c] \in Statement /\ stmt[c].op = "query" /\ loc[c] \in Local
      BY <2>1 DEF CacheInv, ControlOK, TypeOK, Querying
    <3> QED
      BY <3>1, QueryTypes DEF CacheEntry, Local
  <2>3. e.key = stmt[c].key /\ e.version = loc[c].version /\ e.data = loc[c].data
    OBVIOUS
  <2> HIDE DEF e
  <2>4. <<e>> \in Seq(CacheEntry) /\ Len(<<e>>) = 1 /\ <<e>>[1] = e
    BY <2>2
  <2>5. Len(lru') = Len(lru) + 1 /\ lru'[i] = IF i = 1 THEN e ELSE lru[i - 1]
    BY SMTT(30), <1>1, <2>1, <2>4, ConcatProperties
  <2> QED
    BY <1>1, <2>1, <2>3, <2>5
<1> QED
  BY ZenonT(60), <1>2, <1>3, <1>4, <1>5, <1>6
     DEF Begin, Step, ReadVersion, Lookup, Compute, Stamp, PopSame, Relate, CommitBatch,
         Reindex, NextBump, BumpFast, BumpSlow, cache

\* Only the connection that steps changes its locals.
LEMMA StepOthers ==
  ASSUME CacheInv, NEW c \in Conns, Begin(c) \/ Step(c), NEW d \in Conns, d # c
  PROVE  pc'[d] = pc[d] /\ loc'[d] = loc[d] /\ stmt'[d] = stmt[d]
<1>1. CASE Begin(c)
  BY <1>1 DEF Begin, CacheInv, TypeOK
<1>2. CASE Evict(c)
  BY <1>2 DEF Evict
<1>3. CASE \E label, l : Goto(c, label, l)
  BY <1>3, GotoOthers
<1> QED
  BY <1>1, <1>2, <1>3
     DEF Step, ReadVersion, Lookup, Compute, Stamp, PopSame, Put, Relate, CommitBatch,
         Reindex, NextBump, BumpFast, BumpSlow, BumpDone, Return

\* How a result gets its data and its version.
LEMMA StepOwn ==
  ASSUME CacheInv, NEW c \in Conns, Begin(c) \/ Step(c)
  PROVE  /\ pc'[c] = "stamp" =>
              /\ stmt' = stmt /\ commits' = commits
              /\ loc'[c].data = commits[Table(c)] /\ stmt[c].op = "query" /\ stmt[c] \in Statement
         /\ pc'[c] \in {"insert", "evict"} =>
              /\ stmt' = stmt /\ commits' = commits /\ versions' = versions
              /\ loc'[c].data = loc[c].data
              /\ \/ pc[c] = "stamp" /\ loc'[c].version = Current(Table(c))
                 \/ pc[c] \in {"insert", "evict"} /\ loc'[c].version = loc[c].version
<1>1. loc[c] \in Local
  BY DEF CacheInv, TypeOK
<1>2. CASE Begin(c)
  BY <1>2 DEF Begin, CacheInv, TypeOK
<1>3. CASE Compute(c)
  <2>1. PICK n \in Sizes :
          Goto(c, "stamp", [loc[c] EXCEPT !.data = commits[Table(c)], !.bytes = n])
    BY <1>3 DEF Compute
  <2> DEFINE l == [loc[c] EXCEPT !.data = commits[Table(c)], !.bytes = n]
  <2>2. l.data = commits[Table(c)]
    BY <1>1 DEF Local
  <2>3. pc[c] = "compute" /\ commits' = commits
    BY <1>3 DEF Compute, At
  <2>4. Goto(c, "stamp", l)
    BY <2>1
  <2> HIDE DEF l
  <2>5. pc'[c] = "stamp" /\ loc'[c].data = commits[Table(c)] /\ stmt' = stmt
    BY <2>2, <2>4, GotoOthers
  <2> QED
    BY <2>3, <2>5 DEF CacheInv, ControlOK, Querying
<1>4. CASE Stamp(c)
  <2> DEFINE l == [loc[c] EXCEPT !.version = Current(Table(c))]
  <2>1. l.data = loc[c].data /\ l.version = Current(Table(c))
    BY <1>1 DEF Local
  <2>2. pc'[c] = "insert" /\ loc'[c] = l /\ stmt' = stmt
    BY <1>4, GotoOthers DEF Stamp
  <2> HIDE DEF l
  <2> QED
    BY <1>4, <2>1, <2>2 DEF Stamp, At
<1>5. CASE PopSame(c)
  <2>1. pc'[c] = "evict" /\ loc'[c] = loc[c] /\ stmt' = stmt
    BY <1>5, GotoOthers DEF PopSame
  <2> QED
    BY <1>5, <2>1 DEF PopSame, At
<1>6. CASE Evict(c)
  BY <1>6 DEF Evict, At
<1>7. CASE \E l : \E label \in Labels \ {"stamp", "insert", "evict"} : Goto(c, label, l)
  BY <1>7, GotoOthers
<1> QED
  BY <1>2, <1>3, <1>4, <1>5, <1>6, <1>7
     DEF Step, ReadVersion, Lookup, Put, Relate, CommitBatch, Reindex, NextBump, BumpFast,
         BumpSlow, BumpDone, Return, Labels

LEMMA FreshStep ==
  ASSUME CountInv, CountInv', FreshInv, NEW c \in Conns, Begin(c) \/ Step(c), ~Blurs
  PROVE  FreshInv'
<1>c. CacheInv /\ TypeOK
  BY DEF CountInv, CacheInv
<1>1. ASSUME NEW t \in Tables PROVE Commits(t) \/ Bumps(t)
  BY <1>1, StepMoves DEF Blurs, Forgets
<1>2. ASSUME NEW t \in Tables, NEW v \in Nat, NEW d \in Nat, Held(v, d, t)'
      PROVE  Due(v, d, t)'
  <2>1. CASE Held(v, d, t)
    <3>1. Due(v, d, t)
      BY <2>1 DEF FreshInv
    <3> QED
      BY <1>1, <3>1, DueKept
  <2>2. CASE /\ pc[c] = "stamp" /\ commits' = commits /\ versions' = versions
             /\ t = Table(c) /\ v = Current(t) /\ d = loc[c].data
    <3>1. d = commits[t]
      BY <2>2 DEF FreshInv
    <3>2. v = Current(t)' /\ d = commits'[t]
      BY <2>2, <3>1 DEF Current
    <3>3. Cardinality(Pending(t)') \in Nat
      BY FS_CardinalityType DEF CountInv, Counted
    <3> QED
      BY <3>2, <3>3 DEF Due
  <2>3. CASE \E i \in 1 .. Len(lru') :
               KeyTable[lru'[i].key] = t /\ lru'[i].version = v /\ lru'[i].data = d
    <3>1. PICK i \in 1 .. Len(lru') :
            KeyTable[lru'[i].key] = t /\ lru'[i].version = v /\ lru'[i].data = d
      BY <2>3
    <3>2. CASE \E j \in 1 .. Len(lru) : lru'[i] = lru[j]
      BY <2>1, <3>1, <3>2 DEF Held
    <3>3. CASE /\ pc[c] = "evict"
               /\ lru'[i].key = stmt[c].key
               /\ lru'[i].version = loc[c].version
               /\ lru'[i].data = loc[c].data
      BY <2>1, <3>1, <3>3 DEF Held, Table
    <3> QED
      BY <1>c, <3>2, <3>3, EntryOrigin
  <2>4. CASE \E e \in Conns :
               /\ pc'[e] \in {"insert", "evict"}
               /\ KeyTable[stmt'[e].key] = t /\ loc'[e].version = v /\ loc'[e].data = d
    <3>1. PICK e \in Conns :
            /\ pc'[e] \in {"insert", "evict"}
            /\ KeyTable[stmt'[e].key] = t /\ loc'[e].version = v /\ loc'[e].data = d
      BY <2>4
    <3>2. CASE e # c
      <4>1. pc'[e] = pc[e] /\ loc'[e] = loc[e] /\ stmt'[e] = stmt[e]
        BY <1>c, <3>2, StepOthers
      <4> QED
        BY <2>1, <3>1, <4>1 DEF Held, Table
    <3>3. CASE e = c
      <4>1. /\ stmt' = stmt /\ commits' = commits /\ versions' = versions
            /\ loc'[c].data = loc[c].data
            /\ \/ pc[c] = "stamp" /\ loc'[c].version = Current(Table(c))
               \/ pc[c] \in {"insert", "evict"} /\ loc'[c].version = loc[c].version
        BY <1>c, <3>1, <3>3, StepOwn
      <4>2. CASE pc[c] = "stamp" /\ loc'[c].version = Current(Table(c))
        BY <2>2, <3>1, <3>3, <4>1, <4>2 DEF Table, Current
      <4>3. CASE pc[c] \in {"insert", "evict"} /\ loc'[c].version = loc[c].version
        BY <2>1, <3>1, <3>3, <4>1, <4>3 DEF Held, Table
      <4> QED
        BY <4>1, <4>2, <4>3
    <3> QED
      BY <3>2, <3>3
  <2> QED
    BY <1>2, <2>3, <2>4 DEF Held, Table
<1>3. ASSUME NEW d \in Conns, pc'[d] = "stamp"
      PROVE  loc'[d].data = commits'[KeyTable[stmt'[d].key]]
  <2>1. CASE d = c
    BY <1>c, <1>3, <2>1, StepOwn DEF Table
  <2>2. CASE d # c
    <3>1. pc[d] = "stamp" /\ loc'[d] = loc[d] /\ stmt'[d] = stmt[d]
      BY <1>c, <1>3, <2>2, StepOthers
    <3>2. commits'[Table(d)] = commits[Table(d)]
      BY <3>1 DEF Blurs, At
    <3> QED
      BY <3>1, <3>2 DEF FreshInv, Table
  <2> QED
    BY <2>1, <2>2
<1> QED
  BY <1>2, <1>3 DEF FreshInv, Table

LEMMA HistoryInvInit == HInit => HistoryInv
<1> SUFFICES ASSUME HInit PROVE HistoryInv
  OBVIOUS
<1>1. CountInv
  BY CountInvInit DEF HInit
<1>2. FreshInv
  <2>1. lru = <<>> /\ pc = [c \in Conns |-> "idle"]
    BY DEF HInit, Init
  <2>2. ASSUME NEW t \in Tables, NEW v \in Nat, NEW d \in Nat PROVE ~Held(v, d, t)
    BY <2>1 DEF Held
  <2> QED
    BY <2>1, <2>2 DEF FreshInv
<1> QED
  BY <1>1, <1>2 DEF HInit, HistoryInv

LEMMA HistoryInvNext == HistoryInv /\ [HNext]_hvars => HistoryInv'
<1> SUFFICES ASSUME HistoryInv, [HNext]_hvars PROVE HistoryInv'
  OBVIOUS
<1>1. CountInv'
  BY CountInvNext DEF HistoryInv, HNext, hvars
<1>2. CASE UNCHANGED hvars
  <2>1. /\ commits' = commits /\ versions' = versions /\ lru' = lru
        /\ pc' = pc /\ stmt' = stmt /\ loc' = loc /\ blurred' = blurred
    BY <1>2 DEF hvars, vars
  <2>2. ASSUME FreshInv PROVE FreshInv'
    <3>1. ASSUME NEW t \in Tables, NEW v \in Nat, NEW d \in Nat, Held(v, d, t)'
          PROVE  Due(v, d, t)'
      <4>1. Held(v, d, t)
        BY <2>1, <3>1 DEF Held, Table
      <4>2. Due(v, d, t)
        BY <2>2, <4>1 DEF FreshInv
      <4>3. Pending(t)' = Pending(t) /\ Current(t)' = Current(t)
        BY <2>1 DEF Pending, Current
      <4> QED
        BY <2>1, <4>2, <4>3 DEF Due
    <3>2. \A c \in Conns : pc'[c] = "stamp" => loc'[c].data = commits'[KeyTable[stmt'[c].key]]
      BY <2>1, <2>2 DEF FreshInv, Table
    <3> QED
      BY <3>1, <3>2 DEF FreshInv, Table
  <2> QED
    BY <1>1, <2>1, <2>2 DEF HistoryInv
<1>3. CASE HNext
  <2>1. blurred' \in BOOLEAN /\ (~blurred' => ~blurred /\ ~Blurs)
    BY <1>3 DEF HNext, HistoryInv
  <2>2. CASE Crash
    <3>1. FreshInv'
      BY <2>2 DEF Crash, FreshInv, Held
    <3> QED
      BY <1>1, <2>1, <3>1 DEF HistoryInv
  <2>3. ASSUME NEW c \in Conns, Begin(c) \/ Step(c) PROVE HistoryInv'
    BY <1>1, <2>1, <2>3, FreshStep DEF HistoryInv
  <2> QED
    BY <1>3, <2>2, <2>3 DEF HNext, Next
<1> QED
  BY <1>2, <1>3

\* A cached result that a lookup would serve is the result on the present edges,
\* unless a write was committed between the scan of a query and its stamp, or a
\* committed batch failed before its bumps: for any number of connections and any
\* interleaving of queries, writes, evictions and restarts.
THEOREM OnlyBlurredIsStale == HSpec => []StaleOnlyIfBlurred
<1>1. HistoryInv => StaleOnlyIfBlurred
  <2> SUFFICES ASSUME HistoryInv, ~blurred, NEW i \in 1 .. Len(lru),
                      lru[i].version = Current(KeyTable[lru[i].key]),
                      ~InFlight(KeyTable[lru[i].key])
               PROVE  lru[i].data = commits[KeyTable[lru[i].key]]
    BY DEF StaleOnlyIfBlurred, NoStaleHit
  <2> DEFINE t == KeyTable[lru[i].key]
  <2>1. lru[i] \in CacheEntry
    BY ElementOfSeq DEF HistoryInv, CountInv, CacheInv, TypeOK
  <2>2. t \in Tables /\ lru[i].data \in Nat /\ lru[i].version \in Nat /\ commits[t] \in Nat
    BY <2>1, CacheAssumption DEF CacheEntry, HistoryInv, CountInv, CacheInv, TypeOK
  <2>3. Pending(t) = {}
    <3> SUFFICES ASSUME NEW x \in Pending(t) PROVE FALSE
      OBVIOUS
    <3> DEFINE s == loc[x[1]].todo
    <3>1. x[1] \in Conns /\ x[2] \in Nat /\ pc[x[1]] \in Owing /\ x[2] < Len(s) /\ s[Len(s) - x[2]] = t
      BY DEF Pending
    <3>2. s \in Seq(Tables) /\ Len(s) \in Nat
      BY <3>1 DEF HistoryInv, CountInv, CacheInv, TypeOK, Local
    <3>3. Len(s) - x[2] \in 1 .. Len(s)
      BY <3>1, <3>2
    <3> QED
      BY <3>1, <3>3 DEF InFlight, Owing
  <2>4. Due(lru[i].version, lru[i].data, t)
    BY <2>2 DEF HistoryInv, FreshInv, Held
  <2> QED
    BY <2>2, <2>3, <2>4, FS_EmptySet DEF Due
<1>2. HSpec => []HistoryInv
  BY HistoryInvInit, HistoryInvNext, PTL DEF HSpec
<1> QED
  BY <1>1, <1>2, PTL
=============================================================================
