------------------------------ MODULE OwlGcLists ------------------------------
(***************************************************************************)
(* Lists in memory: the trees that owl_list.c builds (OwlRrb and the       *)
(* modules above it) laid out in the heap that alloc.c collects (OwlGc),   *)
(* size tables and shared parts included.  A program without calls makes   *)
(* literals, joins and slices them, and collects when it likes.            *)
(*                                                                         *)
(* Nodes an operation makes and drops on its way are not laid out, and a   *)
(* copy that equals the node it was made from is taken to be that node.    *)
(* Each sized node has a size_table of its own: internal_node_dec shares   *)
(* one only with a node that slice_right_rec has just made and that        *)
(* promote_rightmost_leaf drops (owl_list.c:919).                          *)
(***************************************************************************)
EXTENDS OwlGc

CONSTANTS RrbBranching, Extras, Short,   \* of owl_list.c: see OwlRrb
          Literals, MaxCount,            \* the program's lists: see OwlList
          Cuttings                       \* the <<from, to>> of its slices

VARIABLE usageBefore    \* usage_before of the op_gc_collect in progress

vars == <<gcVars, usageBefore>>

\* lists is not used: the lists are in the heap.
Rrb == INSTANCE OwlList WITH
         Branching <- RrbBranching, PastEnd <- "wild",
         Names <- {}, AppendShort <- FALSE, CutTall <- "never", lists <- <<>>

-----------------------------------------------------------------------------
(* Reading a list off the heap, through forward addresses.                 *)

Resolve(t) == IF t.space # Off /\ BlockOf(t).fwd # 0
              THEN Ref(t.tag, 1 - t.space, BlockOf(t).fwd) ELSE t

Entries(t) == [i \in 1 .. Len(BlockOf(Resolve(t)).kids) |-> BlockOf(Resolve(t)).kids[i].slot]

\* The one member of S.  Arguments that are costly for TLC to evaluate are handed
\* over as sets, whose members it evaluates once.
The(S) == CHOOSE x \in S : TRUE

RECURSIVE Tree(_)
\* The tree below a node pointer.
Tree(t) ==
  LET b == BlockOf(Resolve(t))
      n == Len(b.kids) - 1
  IN  IF t = Null THEN Rrb!Null
      ELSE IF b.kind = "LEAF" THEN Rrb!Leaf(Entries(t))
      ELSE Rrb!Sized([i \in 1 .. n |-> The({Tree(k) : k \in {b.kids[i]}})],
                     IF HasTable(b) THEN Entries(b.kids[n + 1]) ELSE <<>>)

\* The list a LIST term points to.
ListOf(t) ==
  IF t = EmptyList THEN Rrb!EMPTY_RRB
  ELSE LET head == BlockOf(Resolve(t))
       IN  The({Rrb!Rrb(Rrb!CellCount(root) + Rrb!Count(tail), Rrb!find_shift(root), tail, root) :
                  root \in {Tree(head.kids[1])}, tail \in {Tree(head.kids[2])}})

RECURSIVE NodesBelow(_)
\* The node pointers in the tree below t.
NodesBelow(t) ==
  IF t = Null THEN {}
  ELSE {t} \cup IF BlockOf(t).kind = "LEAF" THEN {}
                ELSE UNION {NodesBelow(BlockOf(t).kids[i]) : i \in 1 .. Len(BlockOf(t).kids) - 1}

NodesOf(t) == IF t = EmptyList THEN {}
              ELSE NodesBelow(BlockOf(t).kids[1]) \cup NodesBelow(BlockOf(t).kids[2])

-----------------------------------------------------------------------------
(* Laying out a list: what its operands have is shared.                    *)

\* t points to a tree equal to node (of the same height, or TLC could not tell).
PointsTo(t, node) == Rrb!find_shift(Tree(t)) = Rrb!find_shift(node) /\ Tree(t) = node

\* new: the blocks so far; at: the pointers to the nodes laid out with them.
RECURSIVE Lay(_, _, _)
Lay(acc, node, shared) ==
  LET below   == Rrb!FoldLeft(LAMBDA a, c : Lay(a, c, shared), [acc EXCEPT !.at = <<>>], node.child)
      table   == [i \in 1 .. Len(node.table) |-> Immediate(node.table[i])]
      sized   == IF table = <<>> THEN below.new
                 ELSE Append(below.new, NewBlock("TABLE", table, 0))
      tableAt == IF table = <<>> THEN Null ELSE Fresh("NODE", Len(sized))
      With(blocks) == [new |-> blocks, at |-> Append(acc.at, Fresh("NODE", Len(blocks)))]
  IN  IF node = Rrb!Null THEN [acc EXCEPT !.at = Append(@, Null)]
      ELSE IF \E t \in shared : PointsTo(t, node)
      THEN [acc EXCEPT !.at = Append(@, CHOOSE t \in shared : PointsTo(t, node))]
      ELSE IF node.type = "LEAF"
      THEN With(Append(acc.new, NewBlock("LEAF", [i \in 1 .. Len(node.child) |->
                                                    Immediate(node.child[i])], 0)))
      ELSE With(Append(sized, NewBlock("INTERNAL", Append(below.at, tableAt), 0)))

\* The blocks of a list, its head last.
Laid(rrb, shared) ==
  LET nodes == Lay(Lay([new |-> <<>>, at |-> <<>>], rrb.root, shared), rrb.tail, shared)
  IN  Append(nodes.new, NewBlock("RRB", nodes.at, 0))

Size(blocks) == Rrb!Total([i \in 1 .. Len(blocks) |-> BlockSize(blocks[i])])

set_reg(r, t) == registers' = [registers EXCEPT ![currentFrame][r] = t]

\* Register r becomes the list rrb, made from the operands ts.  An operation
\* that returns one of its operands makes nothing.
Becomes(r, rrb, ts) ==
  LET same == {t \in ts : ListOf(t).shift = rrb.shift /\ ListOf(t) = rrb}
  IN  \/ \E t \in IF rrb = Rrb!EMPTY_RRB THEN {EmptyList} ELSE same :
            /\ set_reg(r, t)
            /\ UNCHANGED <<heap, toSpace, allocPtr, currentFrame, scan, calls, status>>
      \/ /\ rrb # Rrb!EMPTY_RRB
         /\ same = {}
         /\ \E blocks \in {Laid(rrb, UNION {NodesOf(t) : t \in ts})} :
              \/ /\ Fits(Size(blocks))
                 /\ heap' = [heap EXCEPT ![toSpace] = @ \o blocks]
                 /\ allocPtr' = allocPtr + Size(blocks)
                 /\ set_reg(r, Fresh("LIST", Len(blocks)))
                 /\ UNCHANGED <<toSpace, currentFrame, scan, calls, status>>
              \/ /\ ~Fits(Size(blocks))
                 /\ Die

-----------------------------------------------------------------------------
\* The LIST terms the program holds.
Held == {t \in {registers[currentFrame][r] : r \in Regs} : t.tag = "LIST"}

op_list(r) == \E n \in Literals : Becomes(r, Rrb!LiteralLists[n], {})

op_concat(r) ==
  \E left, right \in Held : \E l \in {ListOf(left)}, m \in {ListOf(right)} :
    /\ Rrb!Appends(l, m)
    /\ \E rrb \in {Rrb!rrb_concat(l, m)} : Becomes(r, rrb, {left, right})

op_list_slice(r) ==
  \E list \in Held : \E l \in {ListOf(list)} : \E cut \in Cuttings :
    /\ Rrb!Cuts(l, cut[1], cut[2])
    /\ \E rrb \in {Rrb!rrb_slice(l, cut[1], cut[2])} : Becomes(r, rrb, {list})

Operation == /\ status = "run"
             /\ \E r \in Regs : op_list(r) \/ op_concat(r) \/ op_list_slice(r)
             /\ UNCHANGED usageBefore

op_gc_collect == /\ status = "run"
                 /\ usageBefore' = allocPtr
                 /\ StartCollect

Collecting == CollectStep /\ UNCHANGED usageBefore

\* The rest of op_gc_collect: the bytes collected go to a register.
AfterCollect(r) == /\ EndCollect("run")
                   /\ set_reg(r, Immediate(IF allocPtr <= usageBefore THEN 0 ELSE 1))
                   /\ usageBefore' = 0

Stopped == status = "die" /\ UNCHANGED vars

Init == /\ heap = [s \in Spaces |-> <<>>]
        /\ toSpace = Low
        /\ allocPtr = 0
        /\ registers = [i \in Frames |-> [j \in Regs |-> Null]]
        /\ currentFrame = 0
        /\ scan = [i |-> 0, j |-> 0]
        /\ calls = <<>>
        /\ status = "run"
        /\ usageBefore = 0

Next == \/ Operation
        \/ op_gc_collect
        \/ Collecting
        \/ \E r \in Regs : AfterCollect(r)
        \/ Stopped

Spec == Init /\ [][Next]_vars /\ WF_vars(Collecting \/ \E r \in Regs : AfterCollect(r))

-----------------------------------------------------------------------------
\* A collection never makes the heap larger, so that usage_before - usage_after
\* does not wrap around (opcodes.c:541): a node reached by two lists is copied
\* once, and nothing copied is larger than what was allocated for it, a
\* size_table with more entries than its node included (owl_list.c:359-368).
UsageShrinks == status = "collect" => allocPtr <= usageBefore

\* What rrb_nth reads from t for each index.
ValueOf(t) ==
  IF t.tag = "LIST"
  THEN The({[list |-> TRUE, elements |-> Rrb!Content(l)] : l \in {ListOf(t)}})
  ELSE [list |-> FALSE, elements |-> <<>>]

Sequences == INSTANCE OwlSequences WITH
  Registers <- Regs,
  LiteralLengths <- Literals,
  values    <- [r \in Regs |-> ValueOf(registers[currentFrame][r])],
  phase     <- CASE status = "collect" -> "collecting"
                 [] status = "die"     -> "stopped"
                 [] status = "run"     -> "running"

\* A program sees sequences, read with rrb_nth: lists it joined and sliced keep
\* their elements when they are collected, whatever parts they share and
\* whichever nodes have size tables (owl_list.c:118-190, 1256; alloc.c:91-118),
\* and collections end.
ImplementsSequences == Sequences!Spec
=============================================================================
