---------------------------- MODULE QueryParser ----------------------------
(***************************************************************************)
(* The query language: a predictive parser over tokens.  The functions of  *)
(* the parser are grammar nodes; Run interprets a node the way the code    *)
(* does: every choice is made on the next token alone and is never         *)
(* reconsidered.  A statement is the sequence of its parts in the order    *)
(* they are parsed, "-" for a clause that is absent.  The words of the     *)
(* tokenizer are tokens of their own type; the contextual keywords are     *)
(* identifiers.  Case and the characters of tokens are left out.           *)
(***************************************************************************)
EXTENDS Integers, Sequences, FiniteSets, SequencesExt

Token(type, text) == [type |-> type, text |-> text]

-----------------------------------------------------------------------------
(* Nodes *)

Tok(type) == [node |-> "tok", type |-> type]             \* expect
Kw(word) == [node |-> "kw", word |-> word]               \* expect_keyword
Take(types) == [node |-> "take", types |-> types]        \* a token whose text counts
Emit(part) == [node |-> "emit", part |-> part]
Seq2(parts) == [node |-> "seq", parts |-> parts]
Choice(branches, otherwise) == [node |-> "choice", branches |-> branches, otherwise |-> otherwise]
Many(branches) == [node |-> "many", branches |-> branches]
Rule(name) == [node |-> "rule", name |-> name]

\* A branch is taken when the next token is its first.
Branch(first, body) == [first |-> first, body |-> Seq2(<<first>> \o body)]

Error == [node |-> "error"]
Absent == Emit("-")
Opt(first, body) == Choice(<<Branch(first, body)>>, Absent)
Noise(word) == Choice(<<Branch(Kw(word), <<>>)>>, Seq2(<<>>))
End == Emit("end")
CommaList(item) == Seq2(<<item, Many(<<Branch(Tok(","), <<item>>)>>), End>>)

Ident == Take({"ident"})
PositiveInt == Take({"positive"})
Number == Take({"positive", "nonpositive", "float"})
Scalars == {"string", "positive", "nonpositive", "float", "true", "false", "none"}
String == Take({"string"})

-----------------------------------------------------------------------------
(* Clauses *)

ArrayOf(item) ==
  Seq2(<<Tok("["), Emit("array"), Choice(<<Branch(Tok("]"), <<End>>)>>, Seq2(<<CommaList(item), Tok("]")>>))>>)

\* The value of a field or of a comparison; arrays nest.
LiteralRule == Choice(<<[first |-> Tok("["), body |-> ArrayOf(Rule("literal"))]>>, Take(Scalars))

VectorLiteral == ArrayOf(Number)

Name == Seq2(<<Ident, Many(<<Branch(Tok(":"), <<Tok(":"), Ident>>)>>)>>)

Args == Choice(<<Branch(Tok(")"), <<End>>)>>, Seq2(<<CommaList(Rule("item")), Tok(")")>>))

StartsLiteral(body) == [t \in 1 .. 8 |->
  [first |-> Tok(<<"string", "positive", "nonpositive", "float", "true", "false", "none", "[">>[t]),
   body |-> Seq2(<<Emit("literal"), Rule("literal")>> \o body)]]

SelectItem ==
  Choice(StartsLiteral(<<>>),
         Seq2(<<Name, Choice(<<Branch(Tok("("), <<Emit("call"), Args>>)>>, Emit("field"))>>))

CmpOp == Take({"=", "!=", ">", "<", ">=", "<="})

\* A comparison or IS [NOT] NONE, which only a field can precede.
Comparison ==
  LET compare == <<CmpOp, Rule("literal")>>
      negated == Choice(<<Branch(Tok("not"), <<Emit("not")>>)>>, Absent)
  IN Choice(StartsLiteral(compare),
            Seq2(<<Name, Choice(<<Branch(Tok("("), <<Emit("call"), Args>> \o compare),
                                  Branch(Tok("is"), <<Emit("is"), negated, Tok("none")>>)>>,
                                Seq2(<<Emit("field")>> \o compare))>>))

WhereClause ==
  Opt(Tok("where"), <<Emit("where"), Comparison, Many(<<Branch(Tok("and"), <<Comparison>>)>>), End>>)

Limit == Opt(Tok("limit"), <<PositiveInt>>)

SetClause == CommaList(Seq2(<<Ident, Tok("="), Rule("literal")>>))

OnConflict ==
  Opt(Tok("on"), <<Tok("conflict"), Tok("update"), Emit("update"), Opt(Tok("set"), <<SetClause>>)>>)

RecordRef == Seq2(<<Ident, Tok(":"), Ident>>)
Target == Seq2(<<Ident, Opt(Tok(":"), <<Ident>>)>>)

OnTable == Seq2(<<Tok("on"), Noise("TABLE"), Ident>>)

OrderKey == Seq2(<<Ident, Choice(<<Branch(Kw("DESC"), <<Emit("desc")>>)>>, Seq2(<<Noise("ASC"), Emit("asc")>>))>>)
OrderBy == Opt(Kw("ORDER"), <<Kw("BY"), CommaList(OrderKey)>>)
GroupBy == Opt(Kw("GROUP"), <<Kw("BY"), Ident>>)

\* At least one hop; the arrows of a hop point the same way.
TraversalChain ==
  LET hop(arrow) == Branch(Tok(arrow), <<Emit(arrow), Ident, Tok(arrow), Ident>>)
      hops == <<hop("->"), hop("<-")>>
  IN Seq2(<<Choice(hops, Error), Many(hops), End, Opt(Tok("."), <<Ident>>)>>)

-----------------------------------------------------------------------------
(* Statements *)

Define ==
  LET fields(more) == Seq2(<<Kw("INDEX"), Ident, OnTable, Kw("FIELDS")>> \o more)
  IN Choice(<<Branch(Kw("FULLTEXT"), <<Emit("fulltext"), fields(<<Ident, Opt(Kw("ANALYZER"), <<Ident>>)>>)>>),
              Branch(Kw("VECTOR"), <<Emit("vector"), fields(<<Ident, Kw("DIMENSION"), PositiveInt,
                                                              Opt(Kw("METRIC"), <<Ident>>)>>)>>)>>,
            fields(<<CommaList(Ident), Opt(Kw("UNIQUE"), <<Emit("unique")>>)>>))

RemoveIndex == Seq2(<<Kw("INDEX"), Ident, OnTable>>)

Search == Seq2(<<Ident, Ident, String, WhereClause, Limit>>)

VectorSearch ==
  Seq2(<<Kw("SEARCH"), Ident, Ident, VectorLiteral, WhereClause, Opt(Kw("K"), <<PositiveInt>>)>>)

Hybrid ==
  Seq2(<<Kw("SEARCH"), Ident, Kw("TEXT"), Ident, String, Kw("VECTOR"), Ident, VectorLiteral,
         Opt(Kw("ALPHA"), <<Number>>), WhereClause, Limit>>)

Create == Seq2(<<Target, Tok("set"), SetClause, OnConflict>>)

Select ==
  Seq2(<<Choice(<<Branch(Tok("*"), <<Emit("all")>>),
                  [first |-> Tok("->"), body |-> TraversalChain],
                  [first |-> Tok("<-"), body |-> TraversalChain]>>,
                CommaList(SelectItem)),
         Tok("from"), Target, WhereClause, OrderBy, Limit>>)

Delete == Seq2(<<Ident, Choice(<<Branch(Tok(":"), <<Emit("record"), Ident>>)>>, WhereClause)>>)

Update == Seq2(<<Target, Tok("set"), SetClause, WhereClause>>)

Count == Seq2(<<Ident, WhereClause, GroupBy>>)

\* Options come in any order; the last of a kind counts.
Pagerank ==
  Seq2(<<Ident, Many(<<Branch(Kw("DAMPING"), <<Emit("damping"), Number>>),
                       Branch(Kw("MAX_ITER"), <<Emit("max_iter"), PositiveInt>>)>>), End, Limit>>)

Centrality ==
  Seq2(<<Ident, Choice(<<Branch(Kw("INDEGREE"), <<Emit("in")>>), Branch(Kw("OUTDEGREE"), <<Emit("out")>>)>>,
                       Seq2(<<Noise("DEGREE"), Emit("both")>>)), Limit>>)

Path == Seq2(<<Ident, Tok("->"), Ident, Tok("on"), Ident, Opt(Kw("MAX_DEPTH"), <<PositiveInt>>)>>)

Communities ==
  LET algorithm == Choice(<<Branch(Kw("LOUVAIN"), <<Emit("louvain")>>), Branch(Kw("LP"), <<Emit("lp")>>)>>, Error)
  IN Seq2(<<Ident, Many(<<Branch(Kw("ALGORITHM"), <<algorithm>>),
                          Branch(Kw("MAX_ITER"), <<Emit("max_iter"), PositiveInt>>),
                          Branch(Kw("RESOLUTION"), <<Emit("resolution"), Number>>)>>), End>>)

Verb(first, name, body) == Branch(first, <<Emit(name), body>>)

Graph ==
  Choice(<<Verb(Tok("communities"), "communities", Communities), Verb(Tok("components"), "components", Ident),
           Verb(Kw("PAGERANK"), "pagerank", Pagerank), Verb(Kw("CENTRALITY"), "centrality", Centrality),
           Verb(Kw("PATH"), "path", Path), Verb(Kw("EDGES"), "edges", Seq2(<<Ident, WhereClause>>))>>, Error)

Relate == Seq2(<<RecordRef, Tok("->"), Ident, Tok("->"), RecordRef, Opt(Tok("set"), <<SetClause>>)>>)

Statements ==
  <<Verb(Tok("create"), "create", Create), Verb(Tok("select"), "select", Select),
    Verb(Tok("delete"), "delete", Delete), Verb(Tok("relate"), "relate", Relate),
    Verb(Tok("update"), "update", Update), Verb(Tok("count"), "count", Count),
    Verb(Tok("graph"), "graph", Graph), Verb(Kw("DEFINE"), "define", Define),
    Verb(Kw("REMOVE"), "remove", RemoveIndex), Verb(Kw("SEARCH"), "search", Search),
    Verb(Kw("VECTOR"), "vector", VectorSearch), Verb(Kw("HYBRID"), "hybrid", Hybrid),
    Verb(Kw("COMPACT"), "compact", Seq2(<<>>))>>

Outcome ==
  LET format(word) == Branch(Kw(word), <<Emit(word)>>)
  IN Opt(Tok("outcome"), <<Choice(<<format("JSON"), format("TOON"), format("CSV")>>, Error)>>)

Query == Seq2(<<Choice(Statements, Error), Outcome, Choice(<<Branch(Tok(";"), <<>>)>>, Seq2(<<>>))>>)

Rules(name) == IF name = "literal" THEN LiteralRule ELSE SelectItem

-----------------------------------------------------------------------------
(* The parser *)

Failed == [ok |-> FALSE, rest |-> <<>>, out |-> <<>>]

\* Mutant of Starts: any identifier is taken for the keyword.
StartsAnyWord(first, s) ==
  /\ s.rest # <<>>
  /\ IF first.node = "kw" THEN s.rest[1].type = "ident" ELSE s.rest[1].type = first.type

\* matches! and consume_keyword: a look at the next token.
Starts(first, s) ==
  /\ s.rest # <<>>
  /\ IF first.node = "kw" THEN s.rest[1] = Token("ident", first.word) ELSE s.rest[1].type = first.type

Consume(s, out) == [s EXCEPT !.rest = Tail(@), !.out = @ \o out]

RECURSIVE Run(_, _)
Run(n, s) ==
  LET Taken == {i \in DOMAIN n.branches : Starts(n.branches[i].first, s)}
      First == n.branches[CHOOSE i \in Taken : \A j \in Taken : i <= j].body
  IN CASE ~s.ok -> s
       [] n.node \in {"tok", "kw"} -> IF Starts(n, s) THEN Consume(s, <<>>) ELSE Failed
       [] n.node = "take" -> IF s.rest # <<>> /\ s.rest[1].type \in n.types
                             THEN Consume(s, <<s.rest[1].text>>) ELSE Failed
       [] n.node = "emit" -> [s EXCEPT !.out = Append(@, n.part)]
       [] n.node = "seq" -> FoldLeft(LAMBDA t, part : Run(part, t), s, n.parts)
       [] n.node = "choice" -> Run(IF Taken = {} THEN n.otherwise ELSE First, s)
       [] n.node = "many" -> IF Taken = {} THEN s ELSE Run(n, Run(First, s))
       [] n.node = "rule" -> Run(Rules(n.name), s)
       [] n.node = "error" -> Failed

Parse(tokens) ==
  LET s == Run(Query, [ok |-> TRUE, rest |-> tokens, out |-> <<>>])
  IN IF s.rest = <<>> THEN s ELSE Failed
=============================================================================
