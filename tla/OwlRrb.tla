-------------------------------- MODULE OwlRrb --------------------------------
(***************************************************************************)
(* The relaxed radix balanced tree of vm/src/std/owl_list.c: nodes, sizes, *)
(* reading an element, pushing a tail down, concatenation and slicing.     *)
(*                                                                         *)
(* Nodes are values.  Every operation of the code copies what it changes,  *)
(* with one exception that OwlList checks.  Shifts are counted in levels,  *)
(* not in bits: h stands for h * RRB_BITS, so that `i >> shift' is         *)
(* i \div Capacity(h) and `& RRB_MASK' is % Branching.  Positions within a *)
(* node count from 0 as in the code, and Child and Sizes read them.        *)
(***************************************************************************)
EXTENDS Integers, SequencesExt

CONSTANTS Branching,   \* RRB_BRANCHING
          Extras,      \* RRB_EXTRAS
          Short,       \* RRB_INVARIANT
          PastEnd      \* what lies behind the last child of a node: "null" or "wild"

ASSUME RrbAssumption == /\ Branching \in Nat \ {0, 1}
                        /\ Extras \in Nat
                        /\ Short \in 1 .. Branching
                        /\ PastEnd \in {"null", "wild"}

-----------------------------------------------------------------------------
(* Nodes.  A table <<>> is a NULL size_table; a table may have more        *)
(* entries than its node has children.                                     *)

Node(type, child, table) == [type |-> type, child |-> child, table |-> table]

Leaf(es)              == Node("LEAF", es, <<>>)
Internal(cs)          == Node("INTERNAL", cs, <<>>)
Sized(cs, table)      == Node("INTERNAL", cs, table)
Null                  == Node("NULL", <<>>, <<>>)

\* A pointer read from memory that holds something else, and what an element
\* or a size read through it is.
Wild == Node("WILD", <<>>, <<>>)
Junk == -1

Count(node)    == Len(node.child)
Child(node, c) == IF c \in 0 .. Count(node) - 1 THEN node.child[c + 1] ELSE Wild
LastChild(node) == Child(node, Count(node) - 1)
HasTable(node) == node.table # <<>>
Sizes(node, c) == IF c \in 1 .. Len(node.table) THEN node.table[c] ELSE 0

\* Elements from .. from + n - 1 of a leaf.
Cells(leaf, from, n) ==
  [i \in 1 .. n |-> IF from + i \in 1 .. Count(leaf) THEN leaf.child[from + i] ELSE Junk]

\* What a subtree of height h holds when it is full: 1 << shift.
Capacity(h) == Branching ^ h

Smaller(a, b) == IF a <= b THEN a ELSE b

Total(ns) == FoldLeft(LAMBDA a, b : a + b, 0, ns)

\* The first n entries of ns added up, for each n.
Sums(ns) == [n \in 1 .. Len(ns) |-> Total(SubSeq(ns, 1, n))]

Counts(nodes) == [i \in 1 .. Len(nodes) |-> Count(nodes[i])]

RECURSIVE size_sub_trie(_, _)
size_sub_trie(node, h) ==
  IF h = 0 THEN Count(node)
  ELSE IF HasTable(node) THEN Sizes(node, Count(node))
  ELSE (Count(node) - 1) * Capacity(h) + size_sub_trie(LastChild(node), h - 1)

set_sizes(node, h) ==
  Sized(node.child, Sums([i \in 1 .. Count(node) |-> size_sub_trie(node.child[i], h - 1)]))

RECURSIVE find_shift(_)
find_shift(node) == IF node.type # "INTERNAL" THEN 0 ELSE 1 + find_shift(Child(node, 0))

-----------------------------------------------------------------------------
(* Lists.  tail_len is Count(tail): the code keeps the two equal.          *)

Rrb(cnt, shift, tail, root) == [cnt |-> cnt, shift |-> shift, tail |-> tail, root |-> root]

EMPTY_RRB == Rrb(0, 0, Leaf(<<>>), Null)

tail_len(rrb) == Count(rrb.tail)

\* Bug: `<' for `<=' in the search.
SizedPosTooEarly(node, index, h) ==
  LET past == {c \in 0 .. Len(node.table) - 1 : c >= index \div Capacity(h)
                                                /\ node.table[c + 1] >= index}
      c    == IF past = {} THEN Len(node.table) ELSE CHOOSE p \in past : \A q \in past : p <= q
  IN  [pos |-> c, index |-> index - Sizes(node, c)]

\* The child an index leads to, and the index within that child.
sized_pos(node, index, h) ==
  LET past == {c \in 0 .. Len(node.table) - 1 : c >= index \div Capacity(h)
                                                /\ node.table[c + 1] > index}
      c    == IF past = {} THEN Len(node.table) ELSE CHOOSE p \in past : \A q \in past : p <= q
  IN  [pos |-> c, index |-> index - Sizes(node, c)]

RECURSIVE NthBelow(_, _, _)
NthBelow(node, index, h) ==
  IF h = 0 THEN Cells(node, index % Branching, 1)[1]
  ELSE IF HasTable(node)
  THEN LET at == sized_pos(node, index, h)
       IN  NthBelow(Child(node, at.pos), at.index, h - 1)
  ELSE NthBelow(Child(node, (index \div Capacity(h)) % Branching), index, h - 1)

rrb_nth(rrb, index) ==
  LET tail_offset == rrb.cnt - tail_len(rrb)
  IN  IF tail_offset <= index THEN Cells(rrb.tail, index - tail_offset, 1)[1]
      ELSE NthBelow(rrb.root, index, rrb.shift)

\* The sequence a program sees: rrb_nth for every index below rrb_count.
Content(rrb) == [i \in 1 .. rrb.cnt |-> rrb_nth(rrb, i - 1)]
=============================================================================
