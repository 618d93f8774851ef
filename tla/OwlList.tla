-------------------------------- MODULE OwlList --------------------------------
(***************************************************************************)
(* The lists of a program: literals, ++ and List.slice, over the trees of  *)
(* OwlRrb.  rrb_push is reached from list literals only: op_list pushes    *)
(* its operands onto a new list.                                           *)
(*                                                                         *)
(* Nothing in owl_list.c looks at an element, so a list is kept with the   *)
(* elements 1, ..., cnt in the cells of its leaves, whatever they were:    *)
(* reachable lists differ in their shapes only.                            *)
(***************************************************************************)
EXTENDS OwlRrbConcat, OwlRrbSlice

CONSTANTS Names,       \* where the program keeps its lists
          Literals,    \* the lengths of its list literals
          MaxCount,    \* bound: no list grows longer
          AppendShort, \* TRUE: the program appends to short lists with a tree
          CutTall      \* how it cuts tall lists on the left: see Cuts

ASSUME ListAssumption == /\ Literals \subseteq Nat
                         /\ MaxCount \in Nat
                         /\ AppendShort \in BOOLEAN
                         /\ CutTall \in {"never", "whole", "anywhere"}

VARIABLE lists        \* lists[x] is the list in x

-----------------------------------------------------------------------------
\* The cells of a node in order.
RECURSIVE CellCount(_)
CellCount(node) == IF node.type = "INTERNAL"
                   THEN Total([i \in 1 .. Count(node) |-> CellCount(node.child[i])])
                   ELSE Count(node)

\* A node of the same shape with the elements base + 1, base + 2, ...
RECURSIVE Numbered(_, _)
Numbered(node, base) ==
  IF node.type = "INTERNAL"
  THEN LET ends == Sums([i \in 1 .. Count(node) |-> CellCount(node.child[i])])
       IN  [node EXCEPT !.child =
              [i \in 1 .. Count(node) |->
                 Numbered(node.child[i], base + IF i = 1 THEN 0 ELSE ends[i - 1])]]
  ELSE [node EXCEPT !.child = [i \in 1 .. Count(node) |-> base + i]]

\* The list rrb with the elements base + 1, base + 2, ...
From(base, rrb) == [rrb EXCEPT !.root = Numbered(@, base),
                               !.tail = Numbered(@, base + CellCount(rrb.root))]

-----------------------------------------------------------------------------
RECURSIVE Pushed(_)
Pushed(n) == IF n = 0 THEN EMPTY_RRB ELSE rrb_push(Pushed(n - 1), n)

\* op_list: list literals of every length.
LiteralLists == [n \in Literals |-> Pushed(n)]

\* What an operand can be: a list kept, or a literal.
Operands == {lists[x] : x \in Names} \cup {LiteralLists[n] : n \in Literals}

Init == lists = [x \in Names |-> EMPTY_RRB]

Keep(x, rrb) == lists' = [lists EXCEPT ![x] = From(0, rrb)]

\* push_down_tail takes a list of at most Branching elements to have no tree.
HasShortTree(rrb) == rrb.cnt <= Branching /\ rrb.root # Null

\* The concatenations and cuts the program makes.
Appends(left, right) ==
  /\ left.cnt + right.cnt <= MaxCount
  /\ AppendShort \/ ~HasShortTree(left) \/ right.root = Null \/ right.cnt = 0

\* slice_left makes a leaf shorter that is the last of its parent, in a part of
\* the tree that has more to its right.
RECURSIVE CutsLastLeaf(_, _, _, _)
CutsLastLeaf(node, left, h, has_right) ==
  LET c     == SubIdx(node, left, h)
      child == Child(node, c)
      more  == c # Count(node) - 1 \/ has_right
  IN  \/ /\ h = 1
         /\ has_right
         /\ c = Count(node) - 1
         /\ Count(child) - SubIndex(node, left, h) < Branching
      \/ h > 1 /\ CutsLastLeaf(child, SubIndex(node, left, h), h - 1, more)

\* The last leaf is dropped whole, or stays whole.
WholeLeaf(list, from) == \/ from >= list.cnt - tail_len(list)
                         \/ ~CutsLastLeaf(list.root, from, list.shift, FALSE)

Cuts(list, from, to) == \/ from = 0 \/ list.shift <= 1
                        \/ CutTall = "whole" /\ WholeLeaf(slice_right(list, to), from)
                        \/ CutTall = "anywhere"

owl_list_concat(x, left, right) == /\ Appends(left, right)
                                   /\ Keep(x, rrb_concat(left, right))

owl_list_slice(x, list, from, to) == /\ Cuts(list, from, to)
                                     /\ Keep(x, rrb_slice(list, from, to))

Next == \E x \in Names :
          \/ \E left, right \in Operands : owl_list_concat(x, left, right)
          \/ \E list \in Operands :
               \E from, to \in 0 .. list.cnt + 1 : owl_list_slice(x, list, from, to)

Spec == Init /\ [][Next]_lists

-----------------------------------------------------------------------------
(* What a program sees.                                                    *)

Elements(from, to) == [i \in 1 .. to - from |-> from + i]

\* left ++ right is the sequence of the elements of left and then those of
\* right, read with rrb_nth, for all lists the program may join
\* (owl_list.c:118-190).
ConcatAgrees ==
  \A left, right \in Operands :
    Appends(left, right) =>
      Content(rrb_concat(left, From(left.cnt, right))) = Elements(0, left.cnt + right.cnt)

\* List.slice(list, from, to) is the subsequence from .. to - 1, cut off at the
\* end of the list and empty when from >= to (owl_list.c:1256-1258).
SliceAgrees ==
  \A list \in Operands : \A from, to \in 0 .. list.cnt + 1 :
    Cuts(list, from, to) =>
      Content(rrb_slice(list, from, to)) = Elements(from, Smaller(to, list.cnt))

-----------------------------------------------------------------------------
(* What its trees look like.                                               *)

RECURSIVE Nodes(_, _)
Nodes(node, h) ==
  {<<node, h>>} \cup IF h = 0 THEN {}
                     ELSE UNION {Nodes(node.child[i], h - 1) : i \in 1 .. Count(node)}

TreeNodes(rrb) == IF rrb.root = Null THEN {} ELSE Nodes(rrb.root, rrb.shift)

Everywhere(P(_, _)) == \A x \in Names : \A n \in TreeNodes(lists[x]) : P(n[1], n[2])

\* Leaves are all shift levels below the root, no node is empty or has more
\* than Branching children, and the list has as many elements as cells.
WellFormed ==
  /\ Everywhere(LAMBDA node, h : /\ node.type = IF h = 0 THEN "LEAF" ELSE "INTERNAL"
                                 /\ Count(node) \in 1 .. Branching)
  /\ \A x \in Names :
       /\ tail_len(lists[x]) \in 0 .. Branching
       /\ tail_len(lists[x]) = 0 <=> lists[x] = EMPTY_RRB
       /\ lists[x].cnt = CellCount(lists[x].root) + tail_len(lists[x])

\* A size_table says how many elements the children of its node hold, also
\* after it was cloned, extended, cut or shared with a shorter node
\* (owl_list.c:557-568, 726-742, 779-799, 359-368, 925-930, 1185-1190).
SizesExact ==
  Everywhere(LAMBDA node, h :
    HasTable(node) =>
      SubSeq(node.table, 1, Count(node)) =
        Sums([i \in 1 .. Count(node) |-> CellCount(node.child[i])]))

\* In a node without a size_table all children but the last are full, as
\* size_sub_trie, rrb_nth and push_down_tail take it to be (owl_list.c:580-583),
\* and no child has a table: its index is not made relative to it.
UnsizedFull ==
  Everywhere(LAMBDA node, h :
    h > 0 /\ ~HasTable(node) =>
      /\ \A i \in 1 .. Count(node) : ~HasTable(node.child[i])
      /\ \A i \in 1 .. Count(node) - 1 : CellCount(node.child[i]) = Capacity(h))

\* A root that is a leaf is full, so that slice_left never rewrites the head of
\* the list it was given, which others may hold (owl_list.c:1111-1148).
HeadUntouched ==
  \A x \in Names :
    lists[x].shift = 0 /\ lists[x].root # Null => Count(lists[x].root) = Branching
=============================================================================
