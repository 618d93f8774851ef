----------------------------- MODULE OwlRrbConcat -----------------------------
(***************************************************************************)
(* Growing an RRB list: rrb_push, push_down_tail with copy_first_k and     *)
(* append_empty, and rrb_concat with its concatenation plan.               *)
(***************************************************************************)
EXTENDS OwlRrb

\* append_empty: the leaf at the end of n one-child nodes.
RECURSIVE append_empty(_, _)
append_empty(leaf, n) == IF n = 0 THEN leaf ELSE Internal(<<append_empty(leaf, n - 1)>>)

\* The child of the right spine that index, the last one in the list, lies in.
SpineChild(node, index, h) ==
  IF HasTable(node) THEN Count(node) - 1 ELSE (index \div Capacity(h)) % Branching

IndexBelow(node, index, h) ==
  LET c == SpineChild(node, index, h)
  IN  IF HasTable(node) THEN index - Sizes(node, c) ELSE index - c * Capacity(h)

\* nodes_to_copy: the depth of the deepest node of the right spine that has
\* room, 0 when none has.  -1: the pointer behind the last child of a node was
\* followed.  `copied' is the result for the nodes above, depth those above.
RECURSIVE nodes_to_copy(_, _, _, _, _)
nodes_to_copy(node, index, h, depth, copied) ==
  LET c == SpineChild(node, index, h)
  IN  CASE h = 0 -> copied
        [] h = 1 -> IF Count(node) < Branching THEN depth + 1 ELSE copied
        [] h > 1 /\ ~HasTable(node) /\ index >= Capacity(h + 1) -> copied
        [] OTHER ->
             IF c >= Count(node)
             THEN IF PastEnd = "null" THEN depth + 1 ELSE -1
             ELSE nodes_to_copy(Child(node, c), IndexBelow(node, index, h), h - 1, depth + 1,
                                IF c < Branching - 1 THEN depth + 1 ELSE copied)

\* copy_first_k: the spine copied down to the k-th node, where `below' goes in.
\* An unsized node trusts the index for the place of the new child.
RECURSIVE copy_first_k(_, _, _, _, _, _)
copy_first_k(node, index, h, k, tail_size, below) ==
  IF k = 1
  THEN LET n == Count(node)
           c == IF HasTable(node) THEN n ELSE SpineChild(node, index, h)
       IN  Node("INTERNAL", [Append(node.child, Wild) EXCEPT ![c + 1] = below],
                IF HasTable(node)
                THEN Append(SubSeq(node.table, 1, n), node.table[n] + tail_size) ELSE <<>>)
  ELSE LET n == Count(node)
           c == SpineChild(node, index, h)
           i == IF HasTable(node) THEN IndexBelow(node, index, h) ELSE index
       IN  Node("INTERNAL",
                [node.child EXCEPT ![c + 1] =
                   copy_first_k(Child(node, c), i, h - 1, k - 1, tail_size, below)],
                IF HasTable(node)
                THEN [SubSeq(node.table, 1, n) EXCEPT ![n] = @ + tail_size] ELSE <<>>)

\* The new root above that of a full tree.
NewRoot(rrb, old_tail) ==
  LET cs == <<rrb.root, append_empty(old_tail, rrb.shift)>>
  IN  IF HasTable(rrb.root) THEN Sized(cs, <<rrb.cnt - Count(old_tail), rrb.cnt>>)
      ELSE Internal(cs)

\* push_down_tail: the tree of rrb with old_tail as its last leaf.  Whatever
\* part of the spine is copied, the leaf ends up rrb.shift levels below.
push_down_tail(rrb, cnt, old_tail, new_tail) ==
  IF rrb.cnt <= Branching THEN Rrb(cnt, 0, new_tail, old_tail)
  ELSE LET index == rrb.cnt - 1
           k     == nodes_to_copy(rrb.root, index, rrb.shift, 0, 0)
       IN  CASE k = -1 -> Rrb(cnt, rrb.shift, new_tail, Wild)
             [] k = 0  -> Rrb(cnt, rrb.shift + 1, new_tail, NewRoot(rrb, old_tail))
             [] k > 0  -> Rrb(cnt, rrb.shift, new_tail,
                              copy_first_k(rrb.root, index, rrb.shift, k, Count(old_tail),
                                           append_empty(old_tail, rrb.shift - k)))

rrb_push(rrb, elt) ==
  IF tail_len(rrb) < Branching
  THEN [rrb EXCEPT !.cnt = @ + 1, !.tail.child = Append(@, elt)]
  ELSE push_down_tail(rrb, rrb.cnt + 1, rrb.tail, Leaf(<<elt>>))

-----------------------------------------------------------------------------
(* The concatenation plan: how many children each merged node gets.        *)

\* Bug: the entry that was filled goes, not the one that was emptied.
RECURSIVE AbsorbWrongOne(_, _, _)
AbsorbWrongOne(counts, i, remaining) ==
  LET size == Smaller(remaining + counts[i + 1], Branching)
      rest == remaining + counts[i + 1] - size
      next == [counts EXCEPT ![i] = size]
  IN  IF rest > 0 THEN AbsorbWrongOne(next, i + 1, rest)
      ELSE [counts |-> RemoveAt(next, i), at |-> i]

\* One node fewer: the first short node i hands what it has to those behind it,
\* up to the one that has room for all that remains.
RECURSIVE Absorb(_, _, _)
Absorb(counts, i, remaining) ==
  LET size == Smaller(remaining + counts[i + 1], Branching)
      rest == remaining + counts[i + 1] - size
      next == [counts EXCEPT ![i] = size]
  IN  IF rest > 0 THEN Absorb(next, i + 1, rest)
      ELSE [counts |-> RemoveAt(next, i + 1), at |-> i]

FirstShort(counts, from) ==
  CHOOSE i \in from .. Len(counts) :
    counts[i] <= Branching - Short /\ \A j \in from .. i - 1 : counts[j] > Branching - Short

RECURSIVE Shuffle(_, _, _)
Shuffle(counts, from, most) ==
  IF Len(counts) <= most THEN counts
  ELSE LET i == FirstShort(counts, from)
           a == Absorb(counts, i, counts[i])
       IN  Shuffle(a.counts, a.at, most)

create_concat_plan(counts) ==
  Shuffle(counts, 1, (Total(counts) - 1) \div Branching + 1 + Extras)

\* The nodes of `all' redistributed as planned.  A node that starts where an
\* old one of its size did is that old node; others are made, and get sizes.
execute_concat_plan(all, plan, h) ==
  LET flat   == FlattenSeq([i \in 1 .. Len(all) |-> all[i].child])
      olds   == Sums(Counts(all))
      news   == Sums(plan)
      start(i) == news[i] - plan[i]
      same(i) == {k \in 1 .. Len(all) : olds[k] = news[i] /\ Count(all[k]) = plan[i]}
      made(i) == LET cs == SubSeq(flat, start(i) + 1, news[i])
                 IN  IF h = 1 THEN Leaf(cs) ELSE set_sizes(Internal(cs), h - 1)
  IN  [i \in 1 .. Len(plan) |-> IF same(i) = {} THEN made(i)
                                ELSE all[CHOOSE k \in same(i) : TRUE]]

\* internal_node_merge: the outer nodes without the child that is in the centre.
internal_node_merge(left, centre, right) == left \o centre.child \o right

\* Bug: a node that is not the root goes without sizes.
RebalanceUnsized(left, centre, right, h, is_top) ==
  LET all == internal_node_merge(left, centre, right)
      new == execute_concat_plan(all, create_concat_plan(Counts(all)), h)
  IN  IF Len(new) > Branching
      THEN Internal(<<set_sizes(Internal(SubSeq(new, 1, Branching)), h),
                      set_sizes(Internal(SubSeq(new, Branching + 1, Len(new))), h)>>)
      ELSE IF is_top THEN Internal(new) ELSE Internal(<<Internal(new)>>)

rebalance(left, centre, right, h, is_top) ==
  LET all == internal_node_merge(left, centre, right)
      new == execute_concat_plan(all, create_concat_plan(Counts(all)), h)
  IN  IF Len(new) > Branching
      THEN Internal(<<set_sizes(Internal(SubSeq(new, 1, Branching)), h),
                      set_sizes(Internal(SubSeq(new, Branching + 1, Len(new))), h)>>)
      ELSE IF is_top THEN Internal(new)
      ELSE Internal(<<set_sizes(Internal(new), h)>>)

RECURSIVE concat_sub_tree(_, _, _, _, _)
concat_sub_tree(l, lh, r, rh, is_top) ==
  CASE lh > rh ->
         rebalance(Front(l.child), concat_sub_tree(LastChild(l), lh - 1, r, rh, FALSE), <<>>,
                   lh, is_top)
    [] lh < rh ->
         rebalance(<<>>, concat_sub_tree(l, lh, Child(r, 0), rh - 1, FALSE), Tail(r.child),
                   rh, is_top)
    [] lh = rh /\ lh > 0 ->
         rebalance(Front(l.child),
                   concat_sub_tree(LastChild(l), lh - 1, Child(r, 0), rh - 1, FALSE),
                   Tail(r.child), lh, is_top)
    [] lh = 0 /\ rh = 0 ->
         IF is_top /\ Count(l) + Count(r) <= Branching
         THEN Internal(<<Leaf(l.child \o r.child)>>)
         ELSE Internal(<<l, r>>)

\* Bug: push_down_tail is handed left as it is, not its imitation.
ConcatTailNoImitation(left, right) ==
  LET cnt  == left.cnt + right.cnt
      both == left.tail.child \o right.tail.child
  IN  IF Len(both) <= Branching THEN [left EXCEPT !.cnt = cnt, !.tail = Leaf(both)]
      ELSE push_down_tail(left, cnt, Leaf(SubSeq(both, 1, Branching)),
                          Leaf(SubSeq(both, Branching + 1, Len(both))))

\* right is only a tail: the two tails are merged, or one is pushed down.
ConcatTail(left, right) ==
  LET cnt  == left.cnt + right.cnt
      both == left.tail.child \o right.tail.child
  IN  CASE tail_len(left) = Branching -> push_down_tail(left, cnt, left.tail, right.tail)
        [] tail_len(left) < Branching /\ Len(both) <= Branching ->
             [left EXCEPT !.cnt = cnt, !.tail = Leaf(both)]
        [] tail_len(left) < Branching /\ Len(both) > Branching ->
             push_down_tail([left EXCEPT !.cnt = cnt - (Len(both) - Branching)], cnt,
                            Leaf(SubSeq(both, 1, Branching)),
                            Leaf(SubSeq(both, Branching + 1, Len(both))))

\* The root of left with its tail pushed down, whatever its length, joined
\* with that of right.
ConcatTrees(left, right) ==
  LET pushed == push_down_tail(left, left.cnt, left.tail, Null)
      root   == concat_sub_tree(pushed.root, pushed.shift, right.root, right.shift, TRUE)
      shift  == find_shift(root)
  IN  Rrb(left.cnt + right.cnt, shift, right.tail, set_sizes(root, shift))

rrb_concat(left, right) ==
  CASE left.cnt = 0 -> right
    [] left.cnt # 0 /\ right.cnt = 0 -> left
    [] left.cnt # 0 /\ right.cnt # 0 /\ right.root = Null -> ConcatTail(left, right)
    [] left.cnt # 0 /\ right.cnt # 0 /\ right.root.type \in {"LEAF", "INTERNAL"} ->
         ConcatTrees(left, right)
    [] OTHER -> Rrb(left.cnt + right.cnt, 0, right.tail, Wild)
=============================================================================
