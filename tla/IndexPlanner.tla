---------------------------- MODULE IndexPlanner ----------------------------
(***************************************************************************)
(* How a WHERE clause is answered: evaluated on every record, or through a *)
(* secondary index chosen by leftmost-prefix matching, whose range scan    *)
(* compares encoded bytes.  A clause is the sequence of its conjuncts, an  *)
(* AND tree flattened.                                                     *)
(***************************************************************************)
EXTENDS KeyEncoding

CONSTANTS
  None,    \* Value::None, and a field that is not set
  Array,   \* any array: not indexable
  NoPlan

-----------------------------------------------------------------------------
(* Evaluation on a record *)

Number(v) == IF v.type = "int" THEN v.n ELSE IF v.neg THEN -v.bits ELSE v.bits

Numeric(v) == v.type \in {"int", "float"}

\* PartialEq of Value: variants never equal each other, -0.0 equals 0.0.
Equal(v, w) ==
  IF v \in {None, Array} \/ w \in {None, Array} THEN v = w
  ELSE IF v.type # w.type THEN FALSE
  ELSE IF v.type = "float" THEN Number(v) = Number(w)
  ELSE v = w

Comparable(v, w) ==
  /\ v \notin {None, Array} /\ w \notin {None, Array}
  /\ (Numeric(v) /\ Numeric(w)) \/ (v.type = "string" /\ w.type = "string")

\* cmp_values: numbers of both types as numbers, strings as bytes.
Precedes(v, w) ==
  /\ Comparable(v, w)
  /\ IF Numeric(v) THEN Number(v) < Number(w) ELSE Less(v.bytes, w.bytes)

Ties(v, w) == Comparable(v, w) /\ ~Precedes(v, w) /\ ~Precedes(w, v)

MatchesAtom(doc, c) ==
  LET v == doc[c.field] IN
  CASE c.op = "isnone" -> v = None
    [] c.op = "eq" -> v # None /\ Equal(v, c.value)
    [] c.op = "ne" -> v # None /\ ~Equal(v, c.value)
    [] c.op = "lt" -> Precedes(v, c.value)
    [] c.op = "lte" -> Precedes(v, c.value) \/ Ties(v, c.value)
    [] c.op = "gt" -> Precedes(c.value, v)
    [] c.op = "gte" -> Precedes(c.value, v) \/ Ties(v, c.value)

MatchesWhere(doc, clause) == \A i \in DOMAIN clause : MatchesAtom(doc, clause[i])

-----------------------------------------------------------------------------
(* Planning *)

\* Mutant of AtomOps: != is taken for an equality.
AtomOpsNe(kind) == CASE kind = "eq" -> {"eq", "ne"}
                     [] kind = "lower" -> {"gt", "gte"}
                     [] kind = "upper" -> {"lt", "lte"}

AtomOps(kind) == CASE kind = "eq" -> {"eq"}
                   [] kind = "lower" -> {"gt", "gte"}
                   [] kind = "upper" -> {"lt", "lte"}

\* The conjuncts that are indexable atoms of a kind on a field, in order.
Atoms(clause, field, kind) ==
  SelectSeq(clause, LAMBDA c : /\ c.op \in AtomOps(kind)
                               /\ c.field = field
                               /\ c.value \notin {None, Array})

Bound(atoms) == IF atoms = <<>> THEN NoBound
                ELSE [v |-> atoms[1].value, incl |-> atoms[1].op \in {"gte", "lte"}]

\* Positions of the longest prefix of fields with an equality each; the k-th
\* occurrence of a field takes the k-th equality on it.
EqPrefix(fields, clause) ==
  {i \in DOMAIN fields : \A j \in 1 .. i :
     Cardinality({k \in 1 .. j : fields[k] = fields[j]}) <= Len(Atoms(clause, fields[j], "eq"))}

EqValue(fields, clause, i) ==
  Atoms(clause, fields[i], "eq")[Cardinality({k \in 1 .. i : fields[k] = fields[i]})].value

\* plan_for_index: the equality prefix, then at most one lower and one upper
\* bound on the next field.
PlanForIndex(index, clause) ==
  LET n == Cardinality(EqPrefix(index.fields, clause))
      next == n + 1
      bounds(kind) == IF next > Len(index.fields) THEN <<>>
                      ELSE Atoms(clause, index.fields[next], kind)
      lower == Bound(bounds("lower"))
      upper == Bound(bounds("upper"))
  IN IF n = 0 /\ lower = NoBound /\ upper = NoBound THEN NoPlan
     ELSE [index |-> index,
           eq |-> [i \in 1 .. n |-> EqValue(index.fields, clause, i)],
           lower |-> lower, upper |-> upper,
           consumed |-> n + Cardinality({k \in {"lower", "upper"} : bounds(k) # <<>>})]

\* More conjuncts consumed, then a longer equality prefix.
Better(p, q) ==
  p.consumed > q.consumed \/ (p.consumed = q.consumed /\ Len(p.eq) > Len(q.eq))

Covers(plan, clause) == plan.consumed = Len(clause)

\* plan_index_lookup: the first of the best plans.
PlanIndexLookup(indexes, clause) ==
  LET plan == [i \in DOMAIN indexes |-> PlanForIndex(indexes[i], clause)]
      usable == {i \in DOMAIN indexes : plan[i] # NoPlan}
      best == CHOOSE i \in usable : \A j \in usable :
                ~Better(plan[j], plan[i]) /\ (j < i => Better(plan[i], plan[j]))
  IN IF usable = {} THEN NoPlan ELSE plan[best]

-----------------------------------------------------------------------------
(* Answering *)

\* collect_index_values and build_index_entries for a table of documents.
Complete(doc, index) == \A i \in DOMAIN index.fields : doc[index.fields[i]] # None

Entries(table, docs, indexes) ==
  UNION {{EntryKey(table, indexes[i].name, [j \in DOMAIN indexes[i].fields |-> docs[id][indexes[i].fields[j]]], id) :
            id \in {d \in DOMAIN docs : Complete(docs[d], indexes[i])}} : i \in DOMAIN indexes}

\* run_index_plan.
Candidates(table, keys, plan) ==
  FindIds(keys, table, plan.index.name, plan.eq, plan.lower, plan.upper, Len(plan.index.fields))

\* SELECT: the candidates, with the whole clause applied again.
SelectIds(table, docs, indexes, clause) ==
  LET plan == PlanIndexLookup(indexes, clause)
      from == IF plan = NoPlan THEN DOMAIN docs
              ELSE Candidates(table, Entries(table, docs, indexes), plan)
  IN {id \in from : MatchesWhere(docs[id], clause)}

\* COUNT: the number of candidates when the plan covers the clause.
CountIds(table, docs, indexes, clause) ==
  LET plan == PlanIndexLookup(indexes, clause)
  IN IF plan # NoPlan /\ Covers(plan, clause)
     THEN Cardinality(Candidates(table, Entries(table, docs, indexes), plan))
     ELSE Cardinality(SelectIds(table, docs, indexes, clause))
=============================================================================
