--------------------------- MODULE QuerySentences ---------------------------
(***************************************************************************)
(* The reference for QueryParser: every way to read a sequence of tokens   *)
(* by the same grammar, all choices being tried.  And statements to read:  *)
(* everything beyond the shortest form costs one of a number of extras: a  *)
(* clause, a repetition, another kind of literal, a contextual keyword     *)
(* used as a name.                                                         *)
(***************************************************************************)
EXTENDS QueryParser

RECURSIVE Readings(_, _)
Readings(n, s) ==
  LET Each(states, node) == UNION {Readings(node, t) : t \in states}
      Branches == UNION {Readings(n.branches[i].body, s) : i \in DOMAIN n.branches}
  IN CASE n.node = "seq" -> FoldLeft(Each, {s}, n.parts)
       [] n.node = "choice" -> Readings(n.otherwise, s) \cup Branches
       [] n.node = "many" -> {s} \cup Each(Branches, n)
       [] n.node = "rule" -> Readings(Rules(n.name), s)
       [] OTHER -> {t \in {Run(n, s)} : t.ok}

\* The readings of all the tokens.
AsQuery(tokens) ==
  {s \in Readings(Query, [ok |-> TRUE, rest |-> tokens, out |-> <<>>]) : s.rest = <<>>}

\* The table an index statement is about.
IndexTable(out) == out[IF out[2] \in {"fulltext", "vector"} THEN 4 ELSE 3]

\* The words the parser looks for where a name could also be.
Words == {"TABLE", "UNIQUE", "ORDER", "DESC", "GROUP", "K", "MAX_ITER", "DEGREE", "VECTOR", "FIELDS"}

Piece(tokens, out, left) == [tokens |-> tokens, out |-> out, left |-> left]

\* Every token of the types; all but one cost an extra.
Takes(types, left) ==
  LET texts(type) == IF type = "ident" THEN {"x"} \cup Words ELSE {type}
      plain == CHOOSE type \in types : TRUE
      all == UNION {{Token(type, text) : text \in texts(type)} : type \in types}
      cost(t) == IF t = Token(plain, IF plain = "ident" THEN "x" ELSE plain) THEN 0 ELSE 1
  IN {Piece(<<t>>, <<t.text>>, left - cost(t)) : t \in {u \in all : cost(u) <= left}}

RECURSIVE Derive(_, _)
Derive(n, left) ==
  LET Spend(node, k) == IF k <= left THEN Derive(node, left - k) ELSE {}
      Branches(k) == UNION {Spend(n.branches[i].body, k) : i \in DOMAIN n.branches}
      Then(pieces, node) ==
        UNION {{Piece(p.tokens \o q.tokens, p.out \o q.out, q.left) : q \in Derive(node, p.left)} : p \in pieces}
  IN CASE n.node = "tok" -> {Piece(<<Token(n.type, n.type)>>, <<>>, left)}
       [] n.node = "kw" -> {Piece(<<Token("ident", n.word)>>, <<>>, left)}
       [] n.node = "take" -> Takes(n.types, left)
       [] n.node = "emit" -> {Piece(<<>>, <<n.part>>, left)}
       [] n.node = "seq" -> FoldLeft(LAMBDA pieces, part : Then(pieces, part), {Piece(<<>>, <<>>, left)}, n.parts)
       [] n.node = "choice" -> IF n.otherwise = Error THEN Branches(0) ELSE Derive(n.otherwise, left) \cup Branches(1)
       [] n.node = "many" -> {Piece(<<>>, <<>>, left)} \cup Then(Branches(1), n)
       [] n.node = "rule" -> Derive(Rules(n.name), left)
       [] n.node = "error" -> {}

Sentences(extras) == {p.tokens : p \in Derive(Query, extras)}
=============================================================================
