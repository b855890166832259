----------------------------- MODULE CodeIntel -----------------------------
(***************************************************************************)
(* The ingestion of syntax trees: what a file's tree becomes in documents  *)
(* and edges, the batch of statements that loads them, and the diff of two *)
(* versions of a tree that drives incremental re-indexing.  A node has a   *)
(* type, a name (the source of an import, the value of a literal), an      *)
(* arity and children; everything else a node carries is left out.         *)
(***************************************************************************)
EXTENDS Integers, Sequences, FiniteSets, SequencesExt

CONSTANT NoRename  \* find_rename returns None

-----------------------------------------------------------------------------
(* Extraction *)

\* Depth-first, parents before children.
RECURSIVE Walk(_)
Walk(node) == FoldLeft(LAMBDA out, kid : out \o Walk(kid), <<node>>, node.kids)

OfType(node, type) == SelectSeq(Walk(node), LAMBDA n : n.type = type)

ExtractFunctions(node) == OfType(node, "fn")
ExtractImports(node) == OfType(node, "import")
ExtractCalls(node) == OfType(node, "call")

FunctionId(file, name, arity) == <<file, "fn", name, arity>>
ContainerId(file, node) == <<file, "container", node.name>>
ImportId(node) == <<"import", node.name>>
CallTargetId(name) == <<"call_target", name>>

IdOf(file, fn) == FunctionId(file, fn.name, fn.arity)

\* Mutant of LocalArity: the arity is not recorded.
LocalArityZero(root, name) == 0

\* local_fns: a name stands for the last function that has it.
LocalArity(root, name) ==
  LET named == SelectSeq(ExtractFunctions(root), LAMBDA f : f.name = name)
  IN named[Len(named)].arity

\* A call of a name that the file defines points to that function.
CallTarget(root, file, call) ==
  IF \E f \in ToSet(ExtractFunctions(root)) : f.name = call.name
  THEN FunctionId(file, call.name, LocalArity(root, call.name))
  ELSE CallTargetId(call.name)

Same(f, g) == f.name = g.name /\ f.arity = g.arity

Edge(from, type, to) == [from |-> from, type |-> type, to |-> to]

\* The document of a function holds the last one of its name and arity in scope.
FunctionDoc(file, scope, fn) ==
  LET found == SelectSeq(ExtractFunctions(scope), LAMBDA f : Same(f, fn))
  IN [id |-> IdOf(file, fn), node |-> found[Len(found)]]

CallEdges(root, file, fn, body) ==
  LET calls == ExtractCalls(body)
  IN [i \in DOMAIN calls |-> Edge(IdOf(file, fn), "calls", CallTarget(root, file, calls[i]))]

\* A container: its document, then those of all functions below it; edges to
\* them and to the imports below it, and the calls of every such function.
IngestContainer(root, file, node) ==
  LET fns == ExtractFunctions(node)
      imports == ExtractImports(node)
      cid == ContainerId(file, node)
      calls(f) == LET bodies == SelectSeq(fns, LAMBDA g : Same(f, g))
                  IN FlattenSeq([i \in DOMAIN bodies |-> CallEdges(root, file, f, bodies[i])])
  IN [documents |-> <<[id |-> cid, node |-> node]>>
                      \o [i \in DOMAIN fns |-> FunctionDoc(file, node, fns[i])],
      edges |-> [i \in DOMAIN fns |-> Edge(cid, "contains", IdOf(file, fns[i]))]
                  \o [i \in DOMAIN imports |-> Edge(cid, "imports", ImportId(imports[i]))]
                  \o FlattenSeq([i \in DOMAIN fns |-> calls(fns[i])])]

\* A file whose root is a function.
IngestRootFunction(root, file) ==
  LET fns == ExtractFunctions(root)
  IN [documents |-> [i \in DOMAIN fns |-> FunctionDoc(file, root, fns[i])],
      edges |-> FlattenSeq([i \in DOMAIN fns |-> CallEdges(root, file, fns[i], root)])]

NoBatch == [documents |-> <<>>, edges |-> <<>>]

MergeBatches(batches) ==
  [documents |-> FlattenSeq([i \in DOMAIN batches |-> batches[i].documents]),
   edges |-> FlattenSeq([i \in DOMAIN batches |-> batches[i].edges])]

PrepareBatch(root, file) ==
  LET containers == OfType(root, "container")
      parts == [i \in DOMAIN containers |-> IngestContainer(root, file, containers[i])]
  IN MergeBatches(parts \o <<IF root.type = "fn" THEN IngestRootFunction(root, file) ELSE NoBatch>>)

\* The lines sent to the server.
GenerateQueries(batch) ==
  <<[op |-> "begin"]>>
  \o [i \in DOMAIN batch.documents |-> [op |-> "create", id |-> batch.documents[i].id]]
  \o [i \in DOMAIN batch.edges |-> [op |-> "relate", edge |-> batch.edges[i]]]
  \o <<[op |-> "end"]>>

-----------------------------------------------------------------------------
(* Differences *)

KeyOf(node) == IF node.type = "fn" THEN <<"fn", node.name, node.arity>> ELSE <<"import", node.name>>

\* Functions and imports, in the order of the walk.
Entities(root) == SelectSeq(Walk(root), LAMBDA n : n.type \in {"fn", "import"})

Keys(entities) == {KeyOf(e) : e \in ToSet(entities)}

\* children_equal: types and the values of leaves; names and arities are metadata.
RECURSIVE ChildrenEqual(_, _)
ChildrenEqual(a, b) ==
  /\ a.type = b.type
  /\ a.type = "literal" => a.name = b.name
  /\ Len(a.kids) = Len(b.kids)
  /\ \A i \in DOMAIN a.kids : ChildrenEqual(a.kids[i], b.kids[i])

\* The first new function with an equal body and a key that is new.
FindRename(e, new, old) ==
  LET fits(n) == /\ KeyOf(n) \notin Keys(old)
                 /\ n.type = e.type
                 /\ ChildrenEqual(e, n)
  IN IF e.type # "fn" \/ ~\E n \in ToSet(new) : fits(n) THEN NoRename
     ELSE KeyOf(new[SelectInSeq(new, fits)])

Change(kind, key, to) == [kind |-> kind, key |-> key, to |-> to]

\* Mutant of Altered: only the shape of the body counts.
AlteredShape(a, b) == ~ChildrenEqual(a, b)

Altered(a, b) == a # b

\* One old entity: nothing, or its change.
ChangeOf(e, new, old) ==
  LET key == KeyOf(e)
      to == FindRename(e, new, old)
  IN IF key \in Keys(new)
     THEN IF Altered(e, new[SelectInSeq(new, LAMBDA n : KeyOf(n) = key)]) THEN <<Change("modified", key, key)>> ELSE <<>>
     ELSE IF to # NoRename THEN <<Change("renamed", key, to)>>
     ELSE <<Change("removed", key, key)>>

DiffTrees(oldRoot, newRoot) ==
  LET old == Entities(oldRoot)
      new == Entities(newRoot)
      changes == FlattenSeq([i \in DOMAIN old |-> ChangeOf(old[i], new, old)])
      targets == {c.to : c \in {d \in ToSet(changes) : d.kind = "renamed"}}
      added == SelectSeq(new, LAMBDA e : KeyOf(e) \notin Keys(old) \cup targets)
  IN changes \o [i \in DOMAIN added |-> Change("added", KeyOf(added[i]), KeyOf(added[i]))]

StaleEntities(changes) == {c.to : c \in {d \in ToSet(changes) : d.kind # "removed"}}

RemovedEntities(changes) == {c.key : c \in {d \in ToSet(changes) : d.kind = "removed"}}
=============================================================================
