----------------------------- MODULE OwlVmObjects -----------------------------
(***************************************************************************)
(* The VM implements OwlObjects.  What is an object is read off OwlGc's    *)
(* Graph, which names blocks by their originals while a collection goes    *)
(* on; the nodes of a list are part of the list.                           *)
(***************************************************************************)
EXTENDS OwlVm

\* The value for an Original of OwlGc.
Valued(o) == [tag |-> o.tag, on |-> o.space # Off, id |-> CHOOSE k \in o.slots : TRUE]

Cell(c) == [kind |-> c.kind, kids |-> [n \in DOMAIN c.kids |-> Valued(c.kids[n])]]

Cells == LET g == Graph IN [k \in DOMAIN g |-> Cell(CHOOSE c \in g[k] : TRUE)]

\* The elements below a node of a list: a list of the VM has at most one
\* internal node, whose children are two leaves (see PushBlocks).
NodeElems(cells, v) ==
  LET node == cells[v.id]
  IN  IF ~v.on THEN <<>>
      ELSE IF node.kind = "LEAF" THEN node.kids
      ELSE cells[node.kids[1].id].kids \o cells[node.kids[2].id].kids

ObjectAt(cells, k) ==
  LET c == cells[k]
  IN  IF c.kind = "RRB"
      THEN [kind |-> "LIST", kids |-> NodeElems(cells, c.kids[1]) \o NodeElems(cells, c.kids[2])]
      ELSE c

ObjectsOf(cells) ==
  [k \in {l \in DOMAIN cells : cells[l].kind \in {"TUPLE", "FUNCTION", "STRING", "RRB"}} |->
     ObjectAt(cells, k)]

FramesOf(roots) ==
  [i \in 1 .. currentFrame + 1 |->
     [regs |-> [r \in Regs |-> Valued(roots[i - 1][r])], ret |-> frames[i - 1].ret]]

Value(t) == Valued(Original(t))

Objects == INSTANCE OwlObjects WITH
             Literals <- 1 .. Len(LitLen),
             Modules  <- {Module[f] : f \in Functions},
             objects  <- ObjectsOf(Cells),
             stack    <- FramesOf(Roots),
             running  <- IF fresh THEN Value(currentFunction) ELSE Value(Null),
             making   <- IF status = "push"
                         THEN [list |-> Value(pending.list),
                               todo |-> [n \in 1 .. Len(pending.todo) |-> Value(pending.todo[n])],
                               kept |-> pending.op \in {"list", "file_ls", "code_load"},
                               read |-> pending.op = "file_ls"]
                         ELSE [list |-> Value(EmptyList), todo |-> <<>>,
                               kept |-> FALSE, read |-> FALSE],
             phase    <- CASE status = "collect" -> "collecting"
                           [] status = "push" -> "making"
                           [] status \in {"exit", "die"} -> "stopped"
                           [] OTHER -> "running"

\* A program has objects that never change and never go while it can reach them,
\* whatever the collector, lists that share nodes and the allocator do with their
\* blocks: every opcode makes the object it stands for out of the values at hand,
\* lists have the operands of OP_LIST, the names in the directory or the functions of
\* the module in order, and a collection is a renaming of
\* exactly those objects that are referred to (alloc.c:156-209, opcodes.c).
ImplementsObjects == Objects!Spec
=============================================================================
