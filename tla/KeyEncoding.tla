---------------------------- MODULE KeyEncoding ----------------------------
(***************************************************************************)
(* The one sorted keyspace: how records, index entries, catalog entries    *)
(* and edge pointers become byte strings, how scans of a prefix are        *)
(* bounded, and how keys and index entries are taken apart again.  A byte  *)
(* string is a sequence of 0 .. 255; names are byte strings without the    *)
(* separator, as the tokenizer admits no other identifiers.                *)
(***************************************************************************)
EXTENDS Integers, Sequences, FiniteSets, SequencesExt

CONSTANTS
  Malformed,  \* a key that does not parse
  NoBound     \* the open end of a range

SEPARATOR == 0
TERM == <<0, 1>>

Tag == [metadata |-> 33, document |-> 42, index |-> 43, edge |-> 126]
Dir == [incoming |-> 60, outgoing |-> 62]

\* Lexicographic order of byte strings, the order of redb's table.
Less(s, t) ==
  \E i \in 0 .. Len(s) :
    /\ i < Len(t)
    /\ SubSeq(s, 1, i) = SubSeq(t, 1, i)
    /\ i = Len(s) \/ s[i + 1] < t[i + 1]

AtMost(s, t) == s = t \/ Less(s, t)

-----------------------------------------------------------------------------
(* Building keys *)

Segment(s) == Append(s, SEPARATOR)

TablePrefix(table, tag) ==
  Segment(table.ns) \o Segment(table.db) \o Segment(table.name) \o <<tag>>

DocumentKey(table, id) == TablePrefix(table, Tag.document) \o id

EdgeKey(table, vertex, dir, type, other) ==
  TablePrefix(table, Tag.edge) \o Segment(vertex) \o Segment(<<dir>> \o type) \o other

VertexPrefix(table, vertex, dir) == TablePrefix(table, Tag.edge) \o Segment(vertex) \o <<dir>>

TypedPrefix(table, vertex, dir, type) ==
  TablePrefix(table, Tag.edge) \o Segment(vertex) \o Segment(<<dir>> \o type)

MetadataKey(table) == TablePrefix(table, Tag.metadata)

IndexCatalogPrefix(table) == TablePrefix(table, Tag.metadata) \o Segment(<<105, 100, 120>>)

IndexCatalogKey(table, name) == IndexCatalogPrefix(table) \o name

\* Mutant of IndexPrefix: the index name is not delimited.
IndexPrefixOpen(table, name) == TablePrefix(table, Tag.index) \o name

IndexPrefix(table, name) == TablePrefix(table, Tag.index) \o Segment(name)

-----------------------------------------------------------------------------
(* Scans *)

\* The least string above every extension of prefix: trailing 255s are dropped
\* and the last byte that is left is incremented.  Empty means "to the end".
PrefixEnd(prefix) ==
  LET low == {i \in DOMAIN prefix : prefix[i] < 255}
      last == CHOOSE i \in low : \A j \in low : j <= i
  IN IF low = {} THEN <<>>
     ELSE [SubSeq(prefix, 1, last) EXCEPT ![last] = @ + 1]

\* KvStore::scan: the keys of the half-open range.
ScanRange(keys, start, end) == {k \in keys : AtMost(start, k) /\ Less(k, end)}

PrefixScan(keys, prefix) == ScanRange(keys, prefix, PrefixEnd(prefix))

-----------------------------------------------------------------------------
(* Taking keys apart *)

Separators(s) == {i \in DOMAIN s : s[i] = SEPARATOR}

\* splitn(n, SEPARATOR): at most n parts, the last one with what is left.
SplitN(n, s) ==
  LET seps == Separators(s)
      cuts == {i \in seps : Cardinality({j \in seps : j <= i}) < n}
      cut[i \in 0 .. Cardinality(cuts)] ==
        IF i = 0 THEN 0 ELSE CHOOSE c \in cuts : Cardinality({j \in cuts : j <= c}) = i
      parts == Cardinality(cuts) + 1
  IN [i \in 1 .. parts |->
        SubSeq(s, cut[i - 1] + 1, IF i = parts THEN Len(s) ELSE cut[i] - 1)]

ParseKey(key) ==
  LET parts == SplitN(4, key)
  IN IF Len(parts) < 4 \/ parts[Len(parts)] = <<>> THEN Malformed
     ELSE [ns |-> parts[1], db |-> parts[2], name |-> parts[3],
           tag |-> parts[4][1], remainder |-> Tail(parts[4])]

\* vertex, direction and type, other vertex.
ParseEdge(remainder) ==
  LET parts == SplitN(3, remainder)
  IN IF Len(parts) < 3 \/ parts[2] = <<>> THEN Malformed
     ELSE [vertex |-> parts[1], outgoing |-> parts[2][1] = Dir.outgoing,
           type |-> Tail(parts[2]), other |-> parts[3]]

\* scan_all_edges: the outgoing pointers of a table as edges.
ScanAllEdges(keys, table) ==
  LET parsed == {ParseEdge(ParseKey(k).remainder) : k \in PrefixScan(keys, TablePrefix(table, Tag.edge))}
  IN {[src |-> e.vertex, type |-> e.type, dst |-> e.other] :
        e \in {p \in parsed \ {Malformed} : p.outgoing}}

-----------------------------------------------------------------------------
(* Index entries *)

\* Values with the types an index can hold.  An i64 is a 16-bit integer here; a
\* float is its sign and the other bits, whose order is the order of magnitudes.
IntBits == 16

BigEndian(n) == <<n \div 256, n % 256>>

\* The sign bit is flipped.
EncodeInt(n) == BigEndian((n + 2^(IntBits - 1)) % 2^IntBits)

\* Mutant of EncodeFloat: only the sign bit is flipped.
EncodeFloatSign(neg, bits) == BigEndian(IF neg THEN bits ELSE bits + 2^(IntBits - 1))

\* All bits of a negative float are flipped, the sign bit of a positive one.
EncodeFloat(neg, bits) ==
  BigEndian(IF neg THEN 2^(IntBits - 1) - 1 - bits ELSE bits + 2^(IntBits - 1))

Encode(v) ==
  CASE v.type = "string" -> v.bytes
    [] v.type = "int" -> EncodeInt(v.n)
    [] v.type = "float" -> EncodeFloat(v.neg, v.bits)
    [] v.type = "bool" -> IF v.true THEN <<1>> ELSE <<0>>

\* A zero byte becomes 0, 255.
Escape(raw) ==
  FoldLeft(LAMBDA out, byte : out \o IF byte = 0 THEN <<0, 255>> ELSE <<byte>>, <<>>, raw)

\* Escaped value and terminator: self-delimiting and order-preserving.
KeyPart(v) == Escape(Encode(v)) \o TERM

CompositeKeyPart(values) == FoldLeft(LAMBDA out, v : out \o KeyPart(v), <<>>, values)

EntryKey(table, name, values, id) == IndexPrefix(table, name) \o CompositeKeyPart(values) \o id

\* The id is what follows the terminator of the last field; escaped zeros are
\* skipped in pairs.
IdFromEntry(key, regionLen, fieldCount) ==
  LET from[i \in 1 .. Len(key) + 2, terms \in 0 .. fieldCount] ==
        CASE i >= Len(key) -> Malformed
          [] i < Len(key) /\ key[i] # 0 -> from[i + 1, terms]
          [] i < Len(key) /\ key[i] = 0 ->
               CASE key[i + 1] = 255 -> from[i + 2, terms]
                 [] key[i + 1] = 1 -> IF terms + 1 = fieldCount
                                      THEN SubSeq(key, i + 2, Len(key))
                                      ELSE from[i + 2, terms + 1]
                 [] OTHER -> Malformed
  IN from[regionLen + 1, 0]

RangeStart(base, lower) ==
  IF lower = NoBound THEN base
  ELSE IF lower.incl THEN base \o Escape(Encode(lower.v))
  ELSE PrefixEnd(base \o KeyPart(lower.v))

RangeEnd(base, upper) ==
  IF upper = NoBound THEN PrefixEnd(base)
  ELSE IF upper.incl THEN PrefixEnd(base \o KeyPart(upper.v))
  ELSE base \o Escape(Encode(upper.v))

\* Ids under equality on the first fields and a range on the next one.
FindIds(keys, table, name, eq, lower, upper, fieldCount) ==
  LET region == IndexPrefix(table, name)
      base == region \o CompositeKeyPart(eq)
      start == RangeStart(base, lower)
      end == RangeEnd(base, upper)
      hits == IF Less(start, end) THEN ScanRange(keys, start, end) ELSE {}
  IN {IdFromEntry(k, Len(region), fieldCount) : k \in hits} \ {Malformed}
=============================================================================
