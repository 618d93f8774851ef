----------------------------- MODULE OwlRrbSlice ------------------------------
(***************************************************************************)
(* Cutting an RRB list: slice_right with promote_rightmost_leaf, and       *)
(* slice_left.  The recursive halves return the node and total_shift.      *)
(***************************************************************************)
EXTENDS OwlRrb

Cut(node, shift) == [node |-> node, shift |-> shift]

\* The child `index' lies in, for a node of height h.
SubIdx(node, index, h) ==
  IF HasTable(node) THEN sized_pos(node, index, h).pos ELSE index \div Capacity(h)

\* Bug: the index stays that within the node.
IndexOfNode(node, index, h) == index

\* That index, counted from the start of that child.
SubIndex(node, index, h) ==
  IF HasTable(node) THEN sized_pos(node, index, h).index ELSE index % Capacity(h)

\* The first c children of a node and one more.
Upto(node, c, last) == [i \in 1 .. c + 1 |-> IF i = c + 1 THEN last ELSE Child(node, i - 1)]

RECURSIVE slice_right_rec(_, _, _, _)
slice_right_rec(root, right, h, has_left) ==
  LET c      == SubIdx(root, right, h)
      hand   == slice_right_rec(Child(root, c), SubIndex(root, right, h), h - 1,
                                c # 0 \/ has_left)
      kept   == Upto(root, c, hand.node)
      table  == [i \in 1 .. c + 1 |-> IF i = c + 1 THEN right + 1 ELSE Sizes(root, i)]
  IN  CASE h = 0 -> Cut(Leaf(Cells(root, 0, right + 1)), 0)
        [] h > 0 /\ c = 0 /\ ~has_left -> hand
        [] h > 0 /\ (c # 0 \/ has_left) ->
             Cut(Node("INTERNAL", kept, IF HasTable(root) THEN table ELSE <<>>), h)

\* promote_rightmost_leaf: the leaf becomes the tail, and the spine above it
\* loses it.  internal_node_dec leaves the size_table as it is.
RECURSIVE RightmostLeaf(_, _)
RightmostLeaf(node, h) == IF h = 0 THEN node ELSE RightmostLeaf(LastChild(node), h - 1)

\* Bug: a node that loses its only child is kept.
RECURSIVE WithoutLeafEmpty(_, _, _)
WithoutLeafEmpty(node, h, n) ==
  LET below == WithoutLeafEmpty(LastChild(node), h - 1, n)
      last  == Count(node)
  IN  CASE h = 0 -> Null
        [] h > 0 /\ below = Null -> [node EXCEPT !.child = Front(@)]
        [] h > 0 /\ below # Null ->
             Node("INTERNAL", [node.child EXCEPT ![last] = below],
                  IF HasTable(node) THEN [SubSeq(node.table, 1, last) EXCEPT ![last] = @ - n]
                  ELSE <<>>)

\* Bug: the sizes shrink by one element, as they would for a pop.
RECURSIVE WithoutElement(_, _, _)
WithoutElement(node, h, n) ==
  LET below == WithoutElement(LastChild(node), h - 1, n)
      last  == Count(node)
  IN  CASE h = 0 -> Null
        [] h > 0 /\ below = Null /\ last <= 1 -> Null
        [] h > 0 /\ below = Null /\ last > 1 -> [node EXCEPT !.child = Front(@)]
        [] h > 0 /\ below # Null ->
             Node("INTERNAL", [node.child EXCEPT ![last] = below],
                  IF HasTable(node) THEN [SubSeq(node.table, 1, last) EXCEPT ![last] = @ - 1]
                  ELSE <<>>)

RECURSIVE WithoutLeaf(_, _, _)
WithoutLeaf(node, h, n) ==
  LET below == WithoutLeaf(LastChild(node), h - 1, n)
      last  == Count(node)
  IN  CASE h = 0 -> Null
        [] h > 0 /\ below = Null /\ last <= 1 -> Null
        [] h > 0 /\ below = Null /\ last > 1 -> [node EXCEPT !.child = Front(@)]
        [] h > 0 /\ below # Null ->
             Node("INTERNAL", [node.child EXCEPT ![last] = below],
                  IF HasTable(node) THEN [SubSeq(node.table, 1, last) EXCEPT ![last] = @ - n]
                  ELSE <<>>)

promote_rightmost_leaf(root, shift, cnt) ==
  LET tail == RightmostLeaf(root, shift)
      rest == WithoutLeaf(root, shift, Count(tail))
  IN  IF Count(root) = 2 /\ shift > 0 /\ WithoutLeaf(LastChild(root), shift - 1, 0) = Null
      THEN Rrb(cnt, shift - 1, tail, Child(root, 0))
      ELSE Rrb(cnt, shift, tail, rest)

slice_right(rrb, right) ==
  LET tail_offset == rrb.cnt - tail_len(rrb)
  IN  CASE right = 0 -> EMPTY_RRB
        [] right >= rrb.cnt -> rrb
        [] right \in tail_offset + 1 .. rrb.cnt - 1 ->
             [rrb EXCEPT !.cnt = right, !.tail = Leaf(Cells(@, 0, right - tail_offset))]
        [] right \in 1 .. tail_offset ->
             LET cut == slice_right_rec(rrb.root, right - 1, rrb.shift, FALSE)
             IN  promote_rightmost_leaf(cut.node, cut.shift, right)

-----------------------------------------------------------------------------
\* The node above a cut child that was the last one.
LeftHandParent(hand, h) ==
  Node("INTERNAL", <<hand>>,
       IF h > 1 /\ HasTable(hand) THEN <<Sizes(hand, Count(hand))>> ELSE <<>>)

RECURSIVE slice_left_rec(_, _, _, _)
slice_left_rec(root, left, h, has_right) ==
  LET c    == SubIdx(root, left, h)
      last == Count(root) - 1
      n    == Count(root) - c
      hand == slice_left_rec(Child(root, c), SubIndex(root, left, h), h - 1,
                             c # last \/ has_right)
      full(i) == IF HasTable(root) THEN Sizes(root, c + i) ELSE (c + i) * Capacity(h)
  IN  CASE h = 0 -> Cut(Leaf(Cells(root, left, Count(root) - left)), 0)
        [] h > 0 /\ c = last /\ has_right -> Cut(LeftHandParent(hand.node, h), h)
        [] h > 0 /\ c = last /\ ~has_right -> hand
        [] h > 0 /\ c # last ->
             Cut(Sized([i \in 1 .. n |-> IF i = 1 THEN hand.node ELSE Child(root, c + i - 1)],
                       [i \in 1 .. n |-> full(i) - left]), h)

\* Bug: only the case of a list that fits a tail is handled.
RefillSmallRoot(rrb) ==
  IF rrb.shift = 0 /\ rrb.root # Null /\ rrb.cnt <= Branching
  THEN [rrb EXCEPT !.root = Null, !.tail = Leaf(rrb.root.child \o rrb.tail.child)]
  ELSE rrb

\* A root that is a leaf with room takes elements from the tail, or gives way.
RefillRoot(rrb) ==
  LET both == rrb.root.child \o rrb.tail.child
  IN  CASE rrb.shift # 0 \/ rrb.root = Null -> rrb
        [] rrb.shift = 0 /\ rrb.root # Null /\ rrb.cnt <= Branching ->
             [rrb EXCEPT !.root = Null, !.tail = Leaf(both)]
        [] rrb.shift = 0 /\ rrb.root # Null /\ rrb.cnt > Branching ->
             IF rrb.cnt - tail_len(rrb) < Branching
             THEN [rrb EXCEPT !.root = Leaf(SubSeq(both, 1, Branching)),
                              !.tail = Leaf(SubSeq(both, Branching + 1, Len(both)))]
             ELSE rrb

\* The last size of a sized root, which slice_left_rec may have left too high.
LastSizeTo(node, size) ==
  IF node.type = "INTERNAL" /\ HasTable(node)
  THEN [node EXCEPT !.table[Count(node)] = size] ELSE node

\* A slice of the tail alone keeps the root, NULL, and the shift, 0, of a cleared block.
slice_left(rrb, left) ==
  LET remaining == rrb.cnt - left
      cut       == slice_left_rec(rrb.root, left, rrb.shift, FALSE)
  IN  CASE left >= rrb.cnt -> EMPTY_RRB
        [] left = 0 /\ left < rrb.cnt -> RefillRoot(rrb)
        [] left \in 1 .. rrb.cnt - 1 /\ remaining <= tail_len(rrb) ->
             Rrb(remaining, 0, Leaf(Cells(rrb.tail, tail_len(rrb) - remaining, remaining)), Null)
        [] left \in 1 .. rrb.cnt - 1 /\ remaining > tail_len(rrb) ->
             RefillRoot(Rrb(remaining, cut.shift, rrb.tail,
                            LastSizeTo(cut.node, remaining - tail_len(rrb))))

rrb_slice(rrb, from, to) == slice_left(slice_right(rrb, to), from)
=============================================================================
