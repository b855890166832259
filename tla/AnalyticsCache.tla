--------------------------- MODULE AnalyticsCache ---------------------------
(***************************************************************************)
(* The analytics result cache: the per-table write versions, the bounded   *)
(* LRU cache, and the statements that use them - RELATE and batches, which *)
(* commit edges and then bump versions, and the GRAPH queries, which read  *)
(* through the cache.                                                      *)
(*                                                                         *)
(* The contents of an edge table are abstracted to the number of edge      *)
(* writes committed to it, a cached payload to the number it was computed  *)
(* from.  The cache mutex is explicit: insert runs its eviction loop step  *)
(* by step while it holds it.                                              *)
(***************************************************************************)
EXTENDS Naturals, Sequences, FiniteSets, SequencesExt

CONSTANTS
  Conns,       \* connections
  Tables,      \* edge tables
  Keys,        \* cache keys: table, computation, parameters and output format
  KeyTable,    \* KeyTable[k]: the edge table of key k
  Sizes,       \* entry sizes: payload length plus the key overhead estimate
  Cap,         \* capacity in entries
  MaxBytes,    \* capacity in bytes
  MaxCommits,  \* bound on the edge writes per table
  Statements,  \* Statements[c]: the statements connection c may send
  Absent,      \* no counter in the version map yet
  NoConn,      \* the mutex is free
  NoTable,     \* no bump call in progress
  NoStmt       \* nothing executed yet

Statement ==
       [op : {"query"}, key : Keys]
  \cup [op : {"relate"}, table : Tables]
  \cup [op : {"batch"}, tables : Seq(Tables), searched : BOOLEAN]

ASSUME CacheAssumption ==
  /\ Cap \in Nat \ {0}
  /\ MaxBytes \in Nat
  /\ MaxCommits \in Nat
  /\ Sizes \subseteq Nat
  /\ KeyTable \in [Keys -> Tables]
  /\ Absent \notin Nat
  /\ NoConn \notin Conns
  /\ NoTable \notin Tables
  /\ NoStmt \notin Statement
  /\ \A c \in Conns : Statements[c] \subseteq Statement

VARIABLES
  commits,        \* commits[t]: edge writes to t in storage
  versions,       \* the counter of each table, or Absent
  lru,            \* the cache, most recently used entry first
  current_bytes,  \* its tracked size
  lock,           \* the connection inside ComputeCache::insert, or NoConn
  pc,
  stmt,
  loc             \* locals of the statement in progress

vars == <<commits, versions, lru, current_bytes, lock, pc, stmt, loc>>
cache == <<lru, current_bytes, lock>>

CacheEntry == [key : Keys, version : Nat, bytes : Nat, data : Nat]

Local == [version : Nat, data : Nat, bytes : Nat, todo : Seq(Tables)]

Labels == {"idle", "version", "lookup", "compute", "stamp", "insert", "evict",
           "commit", "reindex", "bumps", "bump", "bump_slow"}

Fresh == [version |-> 0, data |-> 0, bytes |-> 0, todo |-> <<>>]

\* Mutant of Current: a missing counter is not read as 0.
CurrentRaw(t) == versions[t]

\* WriteVersions::current.
Current(t) == IF versions[t] = Absent THEN 0 ELSE versions[t]

\* RELATE statements of a batch that touch table t.
Touches(tables, t) == Cardinality({i \in 1 .. Len(tables) : tables[i] = t})

Init ==
  /\ commits = [t \in Tables |-> 0]
  /\ versions = [t \in Tables |-> Absent]
  /\ lru = <<>>
  /\ current_bytes = 0
  /\ lock = NoConn
  /\ pc = [c \in Conns |-> "idle"]
  /\ stmt = [c \in Conns |-> NoStmt]
  /\ loc = [c \in Conns |-> Fresh]

At(c, label) == pc[c] = label

Goto(c, label, l) ==
  /\ pc' = [pc EXCEPT ![c] = label]
  /\ loc' = [loc EXCEPT ![c] = l]
  /\ UNCHANGED stmt

Return(c) == Goto(c, "idle", Fresh)

Begin(c) ==
  /\ At(c, "idle")
  /\ \E s \in Statements[c] :
       /\ stmt' = [stmt EXCEPT ![c] = s]
       /\ pc' = [pc EXCEPT ![c] = IF s.op = "query" THEN "version" ELSE "commit"]
  /\ UNCHANGED <<commits, versions, cache, loc>>

-----------------------------------------------------------------------------
(* GRAPH queries: run, try_cache_hit, post_execute *)

Table(c) == KeyTable[stmt[c].key]

\* try_cache_hit reads the version ...
ReadVersion(c) ==
  /\ At(c, "version")
  /\ Goto(c, "lookup", [loc[c] EXCEPT !.version = Current(Table(c))])
  /\ UNCHANGED <<commits, versions, cache>>

Cached(k) == \E i \in 1 .. Len(lru) : lru[i].key = k

Position(k) == CHOOSE i \in 1 .. Len(lru) : lru[i].key = k

\* ... and then asks the cache: a found entry becomes the most recent one even
\* if its version is stale, but only an equal version is a hit.
Lookup(c) ==
  LET i == Position(stmt[c].key) IN
  /\ At(c, "lookup")
  /\ lock = NoConn
  /\ IF Cached(stmt[c].key)
     THEN /\ lru' = <<lru[i]>> \o RemoveAt(lru, i)
          /\ IF lru[i].version = loc[c].version THEN Return(c) ELSE Goto(c, "compute", loc[c])
     ELSE UNCHANGED lru /\ Goto(c, "compute", loc[c])
  /\ UNCHANGED <<commits, versions, current_bytes, lock>>

\* One scan of the edges, then the computation.
Compute(c) ==
  /\ At(c, "compute")
  /\ \E n \in Sizes :
       Goto(c, "stamp", [loc[c] EXCEPT !.data = commits[Table(c)], !.bytes = n])
  /\ UNCHANGED <<commits, versions, cache>>

\* post_execute reads the version again, after the computation.
Stamp(c) ==
  /\ At(c, "stamp")
  /\ Goto(c, "insert", [loc[c] EXCEPT !.version = Current(Table(c))])
  /\ UNCHANGED <<commits, versions, cache>>

SaturatingSub(m, n) == IF m >= n THEN m - n ELSE 0

\* Mutant of PopSame: the bytes of the replaced entry stay accounted.
PopSameKeepsBytes(c) ==
  /\ At(c, "insert")
  /\ lock = NoConn
  /\ lock' = c
  /\ lru' = IF Cached(stmt[c].key) THEN RemoveAt(lru, Position(stmt[c].key)) ELSE lru
  /\ Goto(c, "evict", loc[c])
  /\ UNCHANGED <<commits, versions, current_bytes>>

\* ComputeCache::insert locks the cache and drops the entry it replaces.
PopSame(c) ==
  LET i == Position(stmt[c].key) IN
  /\ At(c, "insert")
  /\ lock = NoConn
  /\ lock' = c
  /\ IF Cached(stmt[c].key)
     THEN /\ lru' = RemoveAt(lru, i)
          /\ current_bytes' = SaturatingSub(current_bytes, lru[i].bytes)
     ELSE UNCHANGED <<lru, current_bytes>>
  /\ Goto(c, "evict", loc[c])
  /\ UNCHANGED <<commits, versions>>

\* Mutant of Overfull: room is made only when the limits are already exceeded.
OverfullLate(c) == /\ lru # <<>>
                   /\ Len(lru) > Cap \/ current_bytes + loc[c].bytes > MaxBytes

\* The eviction loop of insert goes on while this holds.
Overfull(c) == /\ lru # <<>>
               /\ Len(lru) >= Cap \/ current_bytes + loc[c].bytes > MaxBytes

\* Mutant of Evict: the entry is accounted as gone but stays.
EvictKeepsEntry(c) ==
  /\ At(c, "evict")
  /\ Overfull(c)
  /\ current_bytes' = SaturatingSub(current_bytes, lru[Len(lru)].bytes)
  /\ UNCHANGED <<commits, versions, lru, lock, pc, stmt, loc>>

Evict(c) ==
  /\ At(c, "evict")
  /\ Overfull(c)
  /\ lru' = SubSeq(lru, 1, Len(lru) - 1)
  /\ current_bytes' = SaturatingSub(current_bytes, lru[Len(lru)].bytes)
  /\ UNCHANGED <<commits, versions, lock, pc, stmt, loc>>

Put(c) ==
  /\ At(c, "evict")
  /\ ~Overfull(c)
  /\ lru' = <<[key |-> stmt[c].key, version |-> loc[c].version,
               bytes |-> loc[c].bytes, data |-> loc[c].data]>> \o lru
  /\ current_bytes' = current_bytes + loc[c].bytes
  /\ lock' = NoConn
  /\ Return(c)
  /\ UNCHANGED <<commits, versions>>

-----------------------------------------------------------------------------
(* RELATE and batches *)

\* The edge is written before its bump.  A write the storage refuses (here: one
\* beyond the bound) is an error, and bumps nothing.
Relate(c) ==
  LET t == stmt[c].table IN
  /\ At(c, "commit")
  /\ stmt[c].op = "relate"
  /\ IF commits[t] < MaxCommits
     THEN /\ commits' = [commits EXCEPT ![t] = @ + 1]
          /\ Goto(c, "bumps", [loc[c] EXCEPT !.todo = <<t>>])
     ELSE UNCHANGED commits /\ Return(c)
  /\ UNCHANGED <<versions, cache>>

\* One write_batch; then the search indexes of the tables it created records in.
CommitBatch(c) ==
  LET s == stmt[c] IN
  /\ At(c, "commit")
  /\ s.op = "batch"
  /\ IF \A t \in Tables : commits[t] + Touches(s.tables, t) <= MaxCommits
     THEN /\ commits' = [t \in Tables |-> commits[t] + Touches(s.tables, t)]
          /\ Goto(c, IF s.searched THEN "reindex" ELSE "bumps", [loc[c] EXCEPT !.todo = s.tables])
     ELSE UNCHANGED commits /\ Return(c)
  /\ UNCHANGED <<versions, cache>>

\* maintain_search_indexes may fail; the error leaves execute_batch at once.
Reindex(c) ==
  /\ At(c, "reindex")
  /\ Goto(c, "bumps", loc[c]) \/ Return(c)
  /\ UNCHANGED <<commits, versions, cache>>

\* The next bump call, or the end of the statement.
NextBump(c) ==
  /\ At(c, "bumps")
  /\ IF loc[c].todo = <<>> THEN Return(c) ELSE Goto(c, "bump", loc[c])
  /\ UNCHANGED <<commits, versions, cache>>

\* Mutant of BumpDone: only the first table of a batch is bumped.
BumpDoneEarly(c) == Goto(c, "bumps", [loc[c] EXCEPT !.todo = <<>>])

BumpDone(c) == Goto(c, "bumps", [loc[c] EXCEPT !.todo = Tail(@)])

\* Under the read lock an existing counter is incremented atomically.
BumpFast(c) ==
  LET t == Head(loc[c].todo) IN
  /\ At(c, "bump")
  /\ IF versions[t] = Absent
     THEN Goto(c, "bump_slow", loc[c]) /\ UNCHANGED versions
     ELSE BumpDone(c) /\ versions' = [versions EXCEPT ![t] = @ + 1]
  /\ UNCHANGED <<commits, cache>>

\* Mutants of BumpSlow: no second look at the map, and a counter that starts at 1.
BumpSlowUnchecked(c) ==
  /\ At(c, "bump_slow")
  /\ versions' = [versions EXCEPT ![Head(loc[c].todo)] = 1]
  /\ BumpDone(c)
  /\ UNCHANGED <<commits, cache>>

BumpSlowFromOne(c) ==
  LET t == Head(loc[c].todo) IN
  /\ At(c, "bump_slow")
  /\ versions' = [versions EXCEPT ![t] = IF versions[t] = Absent THEN 2 ELSE @ + 1]
  /\ BumpDone(c)
  /\ UNCHANGED <<commits, cache>>

\* Under the write lock the counter is inserted unless it appeared meanwhile.
BumpSlow(c) ==
  LET t == Head(loc[c].todo) IN
  /\ At(c, "bump_slow")
  /\ versions' = [versions EXCEPT ![t] = Current(t) + 1]
  /\ BumpDone(c)
  /\ UNCHANGED <<commits, cache>>

-----------------------------------------------------------------------------

Step(c) ==
  \/ ReadVersion(c) \/ Lookup(c) \/ Compute(c) \/ Stamp(c)
  \/ PopSame(c) \/ Evict(c) \/ Put(c)
  \/ Relate(c) \/ CommitBatch(c) \/ Reindex(c)
  \/ NextBump(c) \/ BumpFast(c) \/ BumpSlow(c)

\* The process dies: the edges stay, the counters and the cache are in memory.
Crash ==
  /\ versions' = [t \in Tables |-> Absent]
  /\ lru' = <<>>
  /\ current_bytes' = 0
  /\ lock' = NoConn
  /\ pc' = [c \in Conns |-> "idle"]
  /\ stmt' = [c \in Conns |-> NoStmt]
  /\ loc' = [c \in Conns |-> Fresh]
  /\ UNCHANGED commits

Next == Crash \/ \E c \in Conns : Begin(c) \/ Step(c)

\* A statement in progress goes on; the mutex is not assumed to be fair.
Fairness == \A c \in Conns : WF_vars(Step(c))

Spec == Init /\ [][Next]_vars /\ Fairness

-----------------------------------------------------------------------------
(* Properties *)

\* Every variable stays in its domain.
TypeOK ==
  /\ commits \in [Tables -> Nat]
  /\ versions \in [Tables -> Nat \cup {Absent}]
  /\ lru \in Seq(CacheEntry)
  /\ current_bytes \in Nat
  /\ lock \in Conns \cup {NoConn}
  /\ pc \in [Conns -> Labels]
  /\ stmt \in [Conns -> Statement \cup {NoStmt}]
  /\ loc \in [Conns -> Local]

\* Outside insert the cache respects both limits; a single entry larger than
\* the byte limit may stay alone ("evicting the least recently used entry when
\* either max entry count or max byte size is exceeded").
WithinLimits ==
  lock = NoConn => /\ Len(lru) <= Cap
                   /\ current_bytes <= MaxBytes \/ Len(lru) = 1

\* The entries of s have n bytes together: total[k] is the size of the first k.
SumsTo(s, n) ==
  \E total \in [0 .. Len(s) -> 0 .. n] :
    /\ total[0] = 0
    /\ total[Len(s)] = n
    /\ \A k \in 1 .. Len(s) : total[k] = total[k - 1] + s[k].bytes

\* The tracked size is the size of what is cached, and no key is cached twice,
\* through replacement, promotion and eviction.
BytesAccounted ==
  /\ SumsTo(lru, current_bytes)
  /\ \A i, j \in 1 .. Len(lru) : lru[i].key = lru[j].key => i = j

\* A write to t that is committed but whose bumps are not all done.
InFlight(t) ==
  \E c \in Conns : pc[c] \in {"reindex", "bumps", "bump", "bump_slow"}
                     /\ \E i \in 1 .. Len(loc[c].todo) : loc[c].todo[i] = t

\* A cached result that a lookup would serve is the result on the present edges:
\* "any edge mutation automatically invalidates all dependent analytics results"
\* and none is served "computed from data older than their stated version".
NoStaleHit ==
  \A i \in 1 .. Len(lru) :
    LET t == KeyTable[lru[i].key]
    IN  lru[i].version = Current(t) /\ ~InFlight(t) => lru[i].data = commits[t]

\* A version never counts a write that is not yet in storage, so an entry is
\* never stamped with a version from the future of its data's table.
VersionBehindStorage == \A t \in Tables : Current(t) <= commits[t]

\* WriteVersions implements atomic counters: the fast path, the slow path and
\* the race between two first writers lose and duplicate no increment; a restart
\* sets every counter back.
Counters == INSTANCE VersionCounter
  WITH count <- [t \in Tables |-> Current(t)],
       owed <- [c \in Conns |-> IF pc[c] \in {"bump", "bump_slow"}
                                THEN Head(loc[c].todo) ELSE NoTable]

BumpsAtomic == Counters!Spec

\* insert releases the cache: its eviction loop always ends.
InsertEnds == lock # NoConn ~> lock = NoConn
=============================================================================
