---------------------------- MODULE OwlVmViewProofs ----------------------------
(***************************************************************************)
(* OwlVmObjects read off the half-space h[T] alone, as it is between two   *)
(* collections: its objects, what an allocation adds to them, and that a   *)
(* renaming of its blocks is one of its objects.                           *)
(***************************************************************************)
EXTENDS OwlVmGraphProofs, OwlVmObjects

\* What a term stands for when no collection goes on.
ValueOf(t) == [tag |-> t.tag, on |-> t.space # Off, id |-> t.slot]

CellIn(h, s, k) ==
  [kind |-> Kind(h, s, k), kids |-> [n \in 1 .. Arity(h, s, k) |-> ValueOf(Kid(h, s, k, n))]]

CellsIn(h, s) == [k \in 1 .. Count(h, s) |-> CellIn(h, s, k)]

FramesIn(regs, fr, cf) ==
  [i \in 1 .. cf + 1 |->
     [regs |-> [r \in Regs |-> ValueOf(regs[i - 1][r])], ret |-> fr[i - 1].ret]]

\* The kinds of the blocks that are objects, or the heads of such.
Heads == {"TUPLE", "FUNCTION", "STRING", "RRB"}

Objs(h, T) == ObjectsOf(CellsIn(h, T))

\* The values there are.
Values(h, T) == {ValueOf(t) : t \in {u \in Term : ValueIn(h, u, T)}}

\* All of half-space T refers to T.
Closed(h, T) ==
  /\ h \in Heaps /\ T \in Spaces
  /\ \A k \in 1 .. Count(h, T) :
       /\ Kind(h, T, k) \in Kinds \ {"TABLE"}
       /\ Arity(h, T, k) \in Nat
       /\ Kind(h, T, k) = "RRB" => Arity(h, T, k) = 2
       /\ Kind(h, T, k) = "INTERNAL" => Arity(h, T, k) = 3
       /\ Whole(h, T, k, T)

-----------------------------------------------------------------------------
(* Sequences *)

\* v with another identity.
Ren(v, name) == IF v.on THEN [tag |-> v.tag, on |-> TRUE, id |-> name[v.id]] ELSE v

RenSeq(q, name) == [n \in DOMAIN q |-> Ren(q[n], name)]

\* A function on the first numbers is a sequence.
LEMMA FunctionSeq ==
  ASSUME NEW n \in Nat, NEW S, NEW q \in [1 .. n -> S]
  PROVE  q \in Seq(S) /\ Len(q) = n
  OBVIOUS

\* The parts of a concatenation.
LEMMA ConcatParts ==
  ASSUME NEW S, NEW p \in Seq(S), NEW q \in Seq(S)
  PROVE  /\ Len(p) \in Nat /\ Len(q) \in Nat
         /\ p \o q \in Seq(S) /\ Len(p \o q) = Len(p) + Len(q)
         /\ DOMAIN p = 1 .. Len(p) /\ DOMAIN q = 1 .. Len(q) /\ DOMAIN (p \o q) = 1 .. Len(p) + Len(q)
         /\ \A n \in 1 .. Len(p) : p[n] \in S /\ (p \o q)[n] = p[n]
         /\ \A n \in 1 .. Len(q) : q[n] \in S
         /\ \A n \in 1 .. Len(p) + Len(q) : n > Len(p) => (p \o q)[n] = q[n - Len(p)] /\ n - Len(p) \in 1 .. Len(q)
  OBVIOUS

\* Sequences with the same elements are the same.
LEMMA SeqSame ==
  ASSUME NEW S, NEW p \in Seq(S), NEW q \in Seq(S), Len(p) = Len(q), \A n \in 1 .. Len(p) : p[n] = q[n]
  PROVE  p = q
  OBVIOUS

\* A renaming goes through a concatenation.
LEMMA RenConcat ==
  ASSUME NEW S, NEW p \in Seq(S), NEW q \in Seq(S), NEW name
  PROVE  RenSeq(p \o q, name) = RenSeq(p, name) \o RenSeq(q, name)
  <1> DEFINE P == RenSeq(p, name)
             Q == RenSeq(q, name)
             R == RenSeq(p \o q, name)
             X == {Ren(v, name) : v \in S}
             a == Len(p)
             b == Len(q)
             pq == p \o q
  <1>1. /\ a \in Nat /\ b \in Nat /\ DOMAIN p = 1 .. a /\ DOMAIN q = 1 .. b /\ DOMAIN pq = 1 .. a + b
        /\ \A n \in 1 .. a : p[n] \in S /\ pq[n] = p[n]
        /\ \A n \in 1 .. b : q[n] \in S
    BY ConcatParts
  <1>11. \A n \in 1 .. a + b : n > a => pq[n] = q[n - a] /\ n - a \in 1 .. b
    BY ConcatParts
  <1> HIDE DEF a, b, pq
  <1>2. a + b \in Nat /\ \A n \in 1 .. a + b : n > a \/ n \in 1 .. a
    BY <1>1
  <1>3. P = [n \in 1 .. a |-> Ren(p[n], name)] /\ Q = [n \in 1 .. b |-> Ren(q[n], name)]
        /\ R = [n \in 1 .. a + b |-> Ren(pq[n], name)]
    BY <1>1 DEF RenSeq, pq
  <1> HIDE DEF P, Q, R
  <1>4. \A v \in S : Ren(v, name) \in X
    OBVIOUS
  <1> HIDE DEF X
  <1>5. ASSUME NEW n \in 1 .. a + b
        PROVE  pq[n] \in S
    <2>1. CASE n \in 1 .. a
      BY <1>1, <2>1
    <2>2. CASE n > a
      <3> DEFINE m == n - a
      <3>1. pq[n] = q[m] /\ m \in 1 .. b
        BY <1>11, <2>2
      <3> HIDE DEF m
      <3> QED BY <1>1, <3>1
    <2> QED BY <1>2, <2>1, <2>2
  <1>6. P \in [1 .. a -> X] /\ Q \in [1 .. b -> X] /\ R \in [1 .. a + b -> X]
    BY <1>1, <1>3, <1>4, <1>5
  <1>7. /\ P \in Seq(X) /\ Len(P) = a
        /\ Q \in Seq(X) /\ Len(Q) = b
        /\ R \in Seq(X) /\ Len(R) = a + b
    BY <1>1, <1>2, <1>6, FunctionSeq
  <1>8. /\ P \o Q \in Seq(X) /\ Len(P \o Q) = a + b
        /\ \A n \in 1 .. a : (P \o Q)[n] = P[n]
        /\ \A n \in 1 .. a + b : n > a => (P \o Q)[n] = Q[n - a]
    BY <1>7, ConcatParts
  <1>9. ASSUME NEW n \in 1 .. a + b
        PROVE  R[n] = (P \o Q)[n]
    <2>1. R[n] = Ren(pq[n], name)
      BY <1>3
    <2>2. CASE n \in 1 .. a
      BY <1>1, <1>3, <1>8, <2>1, <2>2
    <2>3. CASE n > a
      <3> DEFINE m == n - a
      <3>1. pq[n] = q[m] /\ m \in 1 .. b
        BY <1>11, <2>3
      <3>2. (P \o Q)[n] = Q[m]
        BY <1>8, <2>3
      <3> HIDE DEF m
      <3>3. Q[m] = Ren(q[m], name)
        BY <1>3, <3>1
      <3> QED BY <2>1, <3>1, <3>2, <3>3
    <2> QED BY <1>2, <2>2, <2>3
  <1>10. R = P \o Q
    BY <1>7, <1>8, <1>9, SeqSame
  <1> QED BY <1>10 DEF P, Q, R, pq

-----------------------------------------------------------------------------
(* References of a closed half-space *)

\* What a block of each kind refers to.
LEMMA ClosedKids ==
  ASSUME NEW h, NEW T, Closed(h, T), TextsFit, NEW k \in 1 .. Count(h, T)
  PROVE  /\ Kind(h, T, k) \in {"TUPLE", "FUNCTION", "STRING", "LEAF"} =>
              \A n \in 1 .. Arity(h, T, k) : ValueIn(h, Kid(h, T, k, n), T) /\ Kid(h, T, k, n) \in Term
         /\ Kind(h, T, k) = "RRB" =>
              /\ Kid(h, T, k, 1) = Null \/ NodeIn(h, Kid(h, T, k, 1), T)
              /\ NodeIn(h, Kid(h, T, k, 2), T)
              /\ Kind(h, T, Kid(h, T, k, 2).slot) = "LEAF"
         /\ Kind(h, T, k) = "INTERNAL" =>
              /\ \A n \in {1, 2} : /\ NodeIn(h, Kid(h, T, k, n), T)
                                   /\ Kind(h, T, Kid(h, T, k, n).slot) = "LEAF"
              /\ Kid(h, T, k, 3) = Null
  <1>1. Whole(h, T, k, T) /\ h \in Heaps /\ T \in Spaces
    BY DEF Closed
  <1>2. ASSUME Kind(h, T, k) \in {"TUPLE", "FUNCTION", "STRING", "LEAF"}, NEW n \in 1 .. Arity(h, T, k)
        PROVE  ValueIn(h, Kid(h, T, k, n), T) /\ Kid(h, T, k, n) \in Term
    BY <1>1, <1>2, HeapTyped DEF Whole, Suits, OffText, ValueIn
  <1>3. ASSUME Kind(h, T, k) = "RRB"
        PROVE  /\ Kid(h, T, k, 1) = Null \/ NodeIn(h, Kid(h, T, k, 1), T)
               /\ NodeIn(h, Kid(h, T, k, 2), T)
               /\ Kind(h, T, Kid(h, T, k, 2).slot) = "LEAF"
    <2>1. Arity(h, T, k) = 2
      BY <1>3 DEF Closed
    <2>2. 1 \in 1 .. 2 /\ 2 \in 1 .. 2
      OBVIOUS
    <2> QED BY <1>1, <1>3, <2>1, <2>2 DEF Whole, Suits
  <1>4. ASSUME Kind(h, T, k) = "INTERNAL"
        PROVE  /\ \A n \in {1, 2} : /\ NodeIn(h, Kid(h, T, k, n), T)
                                    /\ Kind(h, T, Kid(h, T, k, n).slot) = "LEAF"
               /\ Kid(h, T, k, 3) = Null
    <2>1. Arity(h, T, k) = 3
      BY <1>4 DEF Closed
    <2>2. 1 \in 1 .. 3 /\ 2 \in 1 .. 3 /\ 3 \in 1 .. 3 /\ 1 # 3 /\ 2 # 3
      OBVIOUS
    <2> QED BY <1>1, <1>4, <2>1, <2>2 DEF Whole, Suits
  <1> QED BY <1>2, <1>3, <1>4

\* A node has its place among the cells.
LEMMA NodeCell ==
  ASSUME NEW h, NEW T, Closed(h, T), NEW t, NodeIn(h, t, T)
  PROVE  /\ ValueOf(t).on /\ ValueOf(t).id = t.slot /\ t.slot \in 1 .. Count(h, T) /\ t.space = T
         /\ Kind(h, T, t.slot) \in {"LEAF", "INTERNAL"}
         /\ CellsIn(h, T)[t.slot] = CellIn(h, T, t.slot)
         /\ DOMAIN CellsIn(h, T) = 1 .. Count(h, T)
  <1>1. t.space = T /\ t.slot \in 1 .. Count(h, T) /\ TagOf(Kind(h, T, t.slot)) = "NODE" /\ T # Off
    BY OtherSpace DEF NodeIn, RefersTo, Closed
  <1>2. Kind(h, T, t.slot) \in Kinds \ {"TABLE"}
    BY <1>1 DEF Closed
  <1>3. Kind(h, T, t.slot) \in {"LEAF", "INTERNAL"}
    BY <1>1, <1>2 DEF Kinds, TagOf
  <1> QED BY <1>1, <1>3 DEF ValueOf, CellsIn

\* A value on the heap is an object.
LEMMA ValuesAreObjects ==
  ASSUME NEW h, NEW T, Closed(h, T), NEW t, ValueIn(h, t, T), t.space # Off
  PROVE  /\ t.space = T /\ t.slot \in 1 .. Count(h, T) /\ t \in Term
         /\ Kind(h, T, t.slot) \in Heads /\ t.tag = TagOf(Kind(h, T, t.slot))
         /\ t.slot \in DOMAIN Objs(h, T)
  <1>1. t.space = T /\ t.slot \in 1 .. Count(h, T) /\ TagOf(Kind(h, T, t.slot)) = t.tag /\ t.tag # "NODE"
        /\ t \in Term
    BY DEF ValueIn, RefersTo, OffValue
  <1>2. Kind(h, T, t.slot) \in Kinds \ {"TABLE"}
    BY <1>1 DEF Closed
  <1>3. Kind(h, T, t.slot) \in Heads
    BY <1>1, <1>2 DEF Kinds, TagOf, Heads
  <1>4. CellsIn(h, T)[t.slot].kind = Kind(h, T, t.slot) /\ t.slot \in DOMAIN CellsIn(h, T)
    BY <1>1 DEF CellsIn, CellIn
  <1> QED BY <1>1, <1>3, <1>4 DEF Objs, ObjectsOf, Heads

\* The objects are the blocks that are no nodes.
LEMMA ObjectDomain ==
  ASSUME NEW h, NEW T
  PROVE  /\ DOMAIN Objs(h, T) = {k \in 1 .. Count(h, T) : Kind(h, T, k) \in Heads}
         /\ \A k \in DOMAIN Objs(h, T) : Objs(h, T)[k] = ObjectAt(CellsIn(h, T), k)
  <1>1. DOMAIN CellsIn(h, T) = 1 .. Count(h, T)
        /\ \A k \in 1 .. Count(h, T) : CellsIn(h, T)[k].kind = Kind(h, T, k)
    BY DEF CellsIn, CellIn
  <1> QED BY <1>1 DEF Objs, ObjectsOf, Heads

-----------------------------------------------------------------------------
(* What objects have in them *)

\* The children of a block that has values.
LEMMA CellKids ==
  ASSUME NEW h, NEW T, Closed(h, T), TextsFit, NEW k \in 1 .. Count(h, T),
         Kind(h, T, k) \in {"TUPLE", "FUNCTION", "STRING", "LEAF"}
  PROVE  /\ CellIn(h, T, k).kids \in Seq(Values(h, T))
         /\ Len(CellIn(h, T, k).kids) = Arity(h, T, k)
         /\ \A n \in 1 .. Arity(h, T, k) : CellIn(h, T, k).kids[n] = ValueOf(Kid(h, T, k, n))
  <1> DEFINE q == [n \in 1 .. Arity(h, T, k) |-> ValueOf(Kid(h, T, k, n))]
  <1>1. Arity(h, T, k) \in Nat
    BY DEF Closed
  <1>2. \A n \in 1 .. Arity(h, T, k) : ValueOf(Kid(h, T, k, n)) \in Values(h, T)
    BY ClosedKids DEF Values
  <1>3. q \in [1 .. Arity(h, T, k) -> Values(h, T)]
    BY <1>2
  <1>4. q \in Seq(Values(h, T)) /\ Len(q) = Arity(h, T, k)
    BY <1>1, <1>3, FunctionSeq
  <1>5. CellIn(h, T, k).kids = q
    BY DEF CellIn
  <1> QED BY <1>4, <1>5

\* The elements below a node.
LEMMA NodeElemsParts ==
  ASSUME NEW h, NEW T, Closed(h, T), TextsFit, NEW t, t = Null \/ NodeIn(h, t, T)
  PROVE  LET k == t.slot
             l == Kid(h, T, k, 1).slot
             r == Kid(h, T, k, 2).slot
             q == NodeElems(CellsIn(h, T), ValueOf(t))
         IN  /\ t = Null => ~ValueOf(t).on /\ q = <<>>
             /\ t # Null =>
                  /\ k \in 1 .. Count(h, T) /\ ValueOf(t).on /\ ValueOf(t).id = k
                  /\ Kind(h, T, k) \in {"LEAF", "INTERNAL"}
                  /\ Kind(h, T, k) = "LEAF" => q = CellIn(h, T, k).kids
                  /\ Kind(h, T, k) = "INTERNAL" =>
                       /\ l \in 1 .. Count(h, T) /\ Kind(h, T, l) = "LEAF"
                       /\ r \in 1 .. Count(h, T) /\ Kind(h, T, r) = "LEAF"
                       /\ \A n \in {1, 2} : /\ CellIn(h, T, k).kids[n].on
                                            /\ CellIn(h, T, k).kids[n].id = Kid(h, T, k, n).slot
                                            /\ n \in DOMAIN CellIn(h, T, k).kids
                       /\ q = CellIn(h, T, l).kids \o CellIn(h, T, r).kids
             /\ q \in Seq(Values(h, T))
  <1> DEFINE C == CellsIn(h, T)
             v == ValueOf(t)
             k == t.slot
             l == Kid(h, T, k, 1).slot
             r == Kid(h, T, k, 2).slot
             q == NodeElems(C, v)
  <1>1. CASE t = Null
    <2>1. ~v.on
      BY <1>1 DEF ValueOf, Null
    <2>2. q = <<>> /\ <<>> \in Seq(Values(h, T))
      BY <2>1 DEF NodeElems
    <2> QED BY <1>1, <2>1, <2>2
  <1>2. CASE t # Null
    <2>1. /\ v.on /\ v.id = k /\ k \in 1 .. Count(h, T)
          /\ Kind(h, T, k) \in {"LEAF", "INTERNAL"} /\ C[k] = CellIn(h, T, k)
      BY <1>2, NodeCell
    <2>2. CASE Kind(h, T, k) = "LEAF"
      <3>1. q = CellIn(h, T, k).kids
        BY <2>1, <2>2 DEF NodeElems, CellIn
      <3> QED BY <1>2, <2>1, <2>2, <3>1, CellKids
    <2>3. CASE Kind(h, T, k) = "INTERNAL"
      <3>1. Arity(h, T, k) = 3 /\ \A n \in {1, 2} : n \in 1 .. 3
        BY <2>1, <2>3 DEF Closed
      <3>2. ASSUME NEW n \in {1, 2}
            PROVE  LET u == Kid(h, T, k, n)
                   IN  /\ u.slot \in 1 .. Count(h, T) /\ Kind(h, T, u.slot) = "LEAF"
                       /\ C[u.slot] = CellIn(h, T, u.slot)
                       /\ n \in DOMAIN CellIn(h, T, k).kids
                       /\ CellIn(h, T, k).kids[n].on /\ CellIn(h, T, k).kids[n].id = u.slot
        <4>1. NodeIn(h, Kid(h, T, k, n), T) /\ Kind(h, T, Kid(h, T, k, n).slot) = "LEAF"
          BY <2>1, <2>3, ClosedKids
        <4>2. CellIn(h, T, k).kids[n] = ValueOf(Kid(h, T, k, n)) /\ n \in DOMAIN CellIn(h, T, k).kids
          BY <3>1 DEF CellIn
        <4> QED BY <4>1, <4>2, NodeCell
      <3>3. q = CellIn(h, T, l).kids \o CellIn(h, T, r).kids
        <4>1. CellIn(h, T, k).kind = "INTERNAL"
          BY <2>3 DEF CellIn
        <4> HIDE DEF C, v
        <4> QED BY <2>1, <3>2, <4>1 DEF NodeElems
      <3>4. q \in Seq(Values(h, T))
        <4>1. CellIn(h, T, l).kids \in Seq(Values(h, T)) /\ CellIn(h, T, r).kids \in Seq(Values(h, T))
          BY <3>2, CellKids
        <4> QED BY <3>3, <4>1, ConcatParts
      <3> QED BY <1>2, <2>1, <2>3, <3>2, <3>3, <3>4
    <2> QED BY <2>1, <2>2, <2>3
  <1> QED BY <1>1, <1>2

\* The elements below an internal node are those of its two leaves.
LEMMA InternalParts ==
  ASSUME NEW h, NEW T, Closed(h, T), TextsFit, NEW t, NodeIn(h, t, T),
         Kind(h, T, t.slot) = "INTERNAL"
  PROVE  /\ Kid(h, T, t.slot, 1).slot \in 1 .. Count(h, T) /\ Kind(h, T, Kid(h, T, t.slot, 1).slot) = "LEAF"
         /\ Kid(h, T, t.slot, 2).slot \in 1 .. Count(h, T) /\ Kind(h, T, Kid(h, T, t.slot, 2).slot) = "LEAF"
         /\ NodeElems(CellsIn(h, T), ValueOf(t))
              = CellIn(h, T, Kid(h, T, t.slot, 1).slot).kids \o CellIn(h, T, Kid(h, T, t.slot, 2).slot).kids
  <1> DEFINE k == t.slot
             l == Kid(h, T, k, 1).slot
             r == Kid(h, T, k, 2).slot
             q == NodeElems(CellsIn(h, T), ValueOf(t))
  <1>1. t # Null
    BY NodeCell DEF Null, ValueOf
  <1>2. t # Null =>
                  /\ k \in 1 .. Count(h, T) /\ ValueOf(t).on /\ ValueOf(t).id = k
                  /\ Kind(h, T, k) \in {"LEAF", "INTERNAL"}
                  /\ Kind(h, T, k) = "LEAF" => q = CellIn(h, T, k).kids
                  /\ Kind(h, T, k) = "INTERNAL" =>
                       /\ l \in 1 .. Count(h, T) /\ Kind(h, T, l) = "LEAF"
                       /\ r \in 1 .. Count(h, T) /\ Kind(h, T, r) = "LEAF"
                       /\ \A n \in {1, 2} : /\ CellIn(h, T, k).kids[n].on
                                            /\ CellIn(h, T, k).kids[n].id = Kid(h, T, k, n).slot
                                            /\ n \in DOMAIN CellIn(h, T, k).kids
                       /\ q = CellIn(h, T, l).kids \o CellIn(h, T, r).kids
    BY NodeElemsParts
  <1> HIDE DEF k, l, r, q
  <1>3. /\ l \in 1 .. Count(h, T) /\ Kind(h, T, l) = "LEAF"
        /\ r \in 1 .. Count(h, T) /\ Kind(h, T, r) = "LEAF"
        /\ q = CellIn(h, T, l).kids \o CellIn(h, T, r).kids
    BY <1>1, <1>2 DEF k
  <1> QED BY <1>3 DEF k, l, r, q

\* The elements of a list, and the children of any other object.
LEMMA ObjectParts ==
  ASSUME NEW h, NEW T, Closed(h, T), TextsFit, NEW k \in DOMAIN Objs(h, T)
  PROVE  LET o == Objs(h, T)[k]
             root == Kid(h, T, k, 1)
             tail == Kid(h, T, k, 2)
         IN  /\ k \in 1 .. Count(h, T) /\ Kind(h, T, k) \in Heads
             /\ Kind(h, T, k) # "RRB" => o = CellIn(h, T, k)
             /\ Kind(h, T, k) = "RRB" =>
                  /\ root = Null \/ NodeIn(h, root, T)
                  /\ NodeIn(h, tail, T) /\ Kind(h, T, tail.slot) = "LEAF"
                  /\ o = [kind |-> "LIST",
                          kids |-> NodeElems(CellsIn(h, T), ValueOf(root)) \o CellIn(h, T, tail.slot).kids]
             /\ o.kids \in Seq(Values(h, T))
             /\ o.kind = TagOf(Kind(h, T, k)) /\ o = [kind |-> o.kind, kids |-> o.kids]
  <1> DEFINE C == CellsIn(h, T)
             o == Objs(h, T)[k]
             root == Kid(h, T, k, 1)
             tail == Kid(h, T, k, 2)
  <1>1. k \in 1 .. Count(h, T) /\ Kind(h, T, k) \in Heads /\ o = ObjectAt(C, k)
    BY ObjectDomain
  <1>2. C[k] = CellIn(h, T, k) /\ CellIn(h, T, k).kind = Kind(h, T, k)
    BY <1>1 DEF CellsIn, CellIn
  <1>3. CASE Kind(h, T, k) # "RRB"
    <2>1. o = CellIn(h, T, k)
      BY <1>1, <1>2, <1>3 DEF ObjectAt
    <2>2. o.kids \in Seq(Values(h, T))
      BY <1>1, <1>3, <2>1, CellKids DEF Heads
    <2>3. o.kind = TagOf(Kind(h, T, k)) /\ o = [kind |-> o.kind, kids |-> o.kids]
      BY <1>1, <1>3, <2>1 DEF CellIn, TagOf, Heads
    <2> QED BY <1>1, <1>3, <2>1, <2>2, <2>3
  <1>4. CASE Kind(h, T, k) = "RRB"
    <2>1. /\ root = Null \/ NodeIn(h, root, T)
          /\ NodeIn(h, tail, T) /\ Kind(h, T, tail.slot) = "LEAF"
      BY <1>1, <1>4, ClosedKids
    <2>2. Arity(h, T, k) = 2 /\ 1 \in 1 .. 2 /\ 2 \in 1 .. 2
      BY <1>1, <1>4 DEF Closed
    <2>3. CellIn(h, T, k).kids[1] = ValueOf(root) /\ CellIn(h, T, k).kids[2] = ValueOf(tail)
      BY <2>2 DEF CellIn
    <2>4. o = [kind |-> "LIST", kids |-> NodeElems(C, ValueOf(root)) \o NodeElems(C, ValueOf(tail))]
      BY <1>1, <1>2, <1>4, <2>3 DEF ObjectAt
    <2>5. tail # Null
      BY <2>1, NodeCell DEF Null, ValueOf
    <2>6. NodeElems(C, ValueOf(tail)) = CellIn(h, T, tail.slot).kids
      BY <2>1, <2>5, NodeElemsParts
    <2>7. NodeElems(C, ValueOf(root)) \in Seq(Values(h, T)) /\ NodeElems(C, ValueOf(tail)) \in Seq(Values(h, T))
      BY <2>1, NodeElemsParts
    <2>8. o.kids \in Seq(Values(h, T)) /\ o.kind = TagOf(Kind(h, T, k)) /\ o = [kind |-> o.kind, kids |-> o.kids]
      BY <1>4, <2>4, <2>7, ConcatParts DEF TagOf
    <2> QED BY <1>1, <1>4, <2>1, <2>4, <2>6, <2>8
  <1> QED BY <1>3, <1>4

-----------------------------------------------------------------------------
(* Renaming *)

\* Where D has every cell of h[T] under another name, it has its objects too.
LEMMA RenamedObjects ==
  ASSUME NEW h, NEW T, Closed(h, T), TextsFit, NEW D, NEW name,
         \A c \in 1 .. Count(h, T) :
           /\ name[c] \in DOMAIN D
           /\ D[name[c]] = [kind |-> Kind(h, T, c), kids |-> RenSeq(CellIn(h, T, c).kids, name)],
         NEW k \in DOMAIN Objs(h, T)
  PROVE  /\ name[k] \in DOMAIN ObjectsOf(D)
         /\ ObjectsOf(D)[name[k]] = [kind |-> Objs(h, T)[k].kind, kids |-> RenSeq(Objs(h, T)[k].kids, name)]
  <1> DEFINE C == CellsIn(h, T)
             O == Objs(h, T)
             root == Kid(h, T, k, 1)
             tail == Kid(h, T, k, 2)
  <1>1. /\ k \in 1 .. Count(h, T) /\ Kind(h, T, k) \in Heads
        /\ Kind(h, T, k) # "RRB" => O[k] = CellIn(h, T, k)
        /\ Kind(h, T, k) = "RRB" =>
             /\ root = Null \/ NodeIn(h, root, T)
             /\ NodeIn(h, tail, T) /\ Kind(h, T, tail.slot) = "LEAF"
             /\ O[k] = [kind |-> "LIST",
                        kids |-> NodeElems(C, ValueOf(root)) \o CellIn(h, T, tail.slot).kids]
    BY ObjectParts
  <1>7. ASSUME NEW c \in 1 .. Count(h, T)
        PROVE  /\ name[c] \in DOMAIN D /\ D[name[c]].kind = Kind(h, T, c)
               /\ D[name[c]].kids = RenSeq(CellIn(h, T, c).kids, name)
    <2>1. /\ name[c] \in DOMAIN D
          /\ D[name[c]] = [kind |-> Kind(h, T, c), kids |-> RenSeq(CellIn(h, T, c).kids, name)]
      OBVIOUS
    <2> QED BY <2>1
  <1>2. name[k] \in DOMAIN D /\ D[name[k]].kind = Kind(h, T, k)
        /\ D[name[k]].kids = RenSeq(CellIn(h, T, k).kids, name)
    BY <1>1, <1>7
  <1>3. name[k] \in DOMAIN ObjectsOf(D) /\ ObjectsOf(D)[name[k]] = ObjectAt(D, name[k])
    BY <1>1, <1>2 DEF ObjectsOf, Heads
  <1>4. ASSUME NEW t, t = Null \/ NodeIn(h, t, T)
        PROVE  NodeElems(D, Ren(ValueOf(t), name)) = RenSeq(NodeElems(C, ValueOf(t)), name)
    <2> DEFINE m == t.slot
               l == Kid(h, T, m, 1).slot
               r == Kid(h, T, m, 2).slot
               q == NodeElems(C, ValueOf(t))
               v == Ren(ValueOf(t), name)
    <2>1. /\ t = Null => ~ValueOf(t).on /\ q = <<>>
          /\ t # Null =>
               /\ m \in 1 .. Count(h, T) /\ ValueOf(t).on /\ ValueOf(t).id = m
               /\ Kind(h, T, m) \in {"LEAF", "INTERNAL"}
               /\ Kind(h, T, m) = "LEAF" => q = CellIn(h, T, m).kids
               /\ Kind(h, T, m) = "INTERNAL" =>
                    /\ l \in 1 .. Count(h, T) /\ Kind(h, T, l) = "LEAF"
                    /\ r \in 1 .. Count(h, T) /\ Kind(h, T, r) = "LEAF"
                    /\ \A n \in {1, 2} : /\ CellIn(h, T, m).kids[n].on
                                         /\ CellIn(h, T, m).kids[n].id = Kid(h, T, m, n).slot
                                         /\ n \in DOMAIN CellIn(h, T, m).kids
                    /\ q = CellIn(h, T, l).kids \o CellIn(h, T, r).kids
      BY <1>4, NodeElemsParts
    <2> HIDE DEF q
    <2>2. CASE t = Null
      <3>1. ~v.on
        BY <2>1, <2>2 DEF Ren
      <3>2. NodeElems(D, v) = <<>>
        BY <3>1 DEF NodeElems
      <3>3. RenSeq(<<>>, name) = <<>>
        BY DEF RenSeq
      <3> QED BY <2>1, <2>2, <3>2, <3>3 DEF q
    <2>3. CASE t # Null
      <3>1. v.on /\ v.id = name[m] /\ D[name[m]].kind = Kind(h, T, m)
            /\ D[name[m]].kids = RenSeq(CellIn(h, T, m).kids, name)
        BY <1>7, <2>1, <2>3 DEF Ren
      <3> HIDE DEF v
      <3>2. CASE Kind(h, T, m) = "LEAF"
        BY <2>1, <2>3, <3>1, <3>2 DEF NodeElems, q, v
      <3>3. CASE Kind(h, T, m) = "INTERNAL"
        <4> DEFINE w == RenSeq(CellIn(h, T, m).kids, name)
        <4>1. w[1].id = name[l] /\ w[2].id = name[r]
          <5>1. \A n \in {1, 2} : w[n] = Ren(CellIn(h, T, m).kids[n], name)
            BY <2>1, <2>3, <3>3 DEF RenSeq
          <5>2. \A n \in {1, 2} : w[n].id = name[Kid(h, T, m, n).slot]
            BY <2>1, <2>3, <3>3, <5>1 DEF Ren
          <5> QED BY <5>2
        <4>2. /\ D[name[l]].kids = RenSeq(CellIn(h, T, l).kids, name)
              /\ D[name[r]].kids = RenSeq(CellIn(h, T, r).kids, name)
          BY <1>7, <2>1, <2>3, <3>3
        <4> HIDE DEF w
        <4>3. NodeElems(D, v) = RenSeq(CellIn(h, T, l).kids, name) \o RenSeq(CellIn(h, T, r).kids, name)
          BY <3>1, <3>3, <4>1, <4>2 DEF NodeElems, w
        <4>4. CellIn(h, T, l).kids \in Seq(Values(h, T)) /\ CellIn(h, T, r).kids \in Seq(Values(h, T))
          BY <2>1, <2>3, <3>3, CellKids
        <4>5. RenSeq(CellIn(h, T, l).kids \o CellIn(h, T, r).kids, name)
                = RenSeq(CellIn(h, T, l).kids, name) \o RenSeq(CellIn(h, T, r).kids, name)
          <5> DEFINE x == CellIn(h, T, l).kids
                     y == CellIn(h, T, r).kids
                     X == Values(h, T)
          <5>1. x \in Seq(X) /\ y \in Seq(X)
            BY <4>4
          <5> HIDE DEF x, y, X
          <5>2. RenSeq(x \o y, name) = RenSeq(x, name) \o RenSeq(y, name)
            BY <5>1, RenConcat
          <5> QED BY <5>2 DEF x, y
        <4>6. q = CellIn(h, T, l).kids \o CellIn(h, T, r).kids
          BY <2>1, <2>3, <3>3
        <4>7. NodeElems(D, v) = RenSeq(q, name)
          BY <4>3, <4>5, <4>6
        <4> QED BY <4>7 DEF q, v
      <3> QED BY <2>1, <2>3, <3>2, <3>3
    <2> QED BY <2>2, <2>3
  <1>5. CASE Kind(h, T, k) # "RRB"
    BY <1>1, <1>2, <1>3, <1>5 DEF ObjectAt, CellIn
  <1>6. CASE Kind(h, T, k) = "RRB"
    <2> DEFINE q == NodeElems(C, ValueOf(root))
               p == CellIn(h, T, tail.slot).kids
    <2>1. Arity(h, T, k) = 2 /\ 1 \in 1 .. 2 /\ 2 \in 1 .. 2
      BY <1>1, <1>6 DEF Closed
    <2>2. /\ D[name[k]].kids[1] = Ren(ValueOf(root), name)
          /\ D[name[k]].kids[2] = Ren(ValueOf(tail), name)
      BY <1>2, <2>1 DEF CellIn, RenSeq
    <2>3. ObjectAt(D, name[k]) = [kind |-> "LIST", kids |-> NodeElems(D, Ren(ValueOf(root), name))
                                                            \o NodeElems(D, Ren(ValueOf(tail), name))]
      BY <1>2, <1>6, <2>2 DEF ObjectAt
    <2>4. tail # Null /\ NodeElems(C, ValueOf(tail)) = p
      <3>1. tail # Null
        BY <1>1, <1>6, NodeCell DEF Null, ValueOf
      <3> QED BY <1>1, <1>6, <3>1, NodeElemsParts
    <2>5. q \in Seq(Values(h, T)) /\ p \in Seq(Values(h, T))
      BY <1>1, <1>6, <2>4, NodeElemsParts
    <2>6. /\ NodeElems(D, Ren(ValueOf(root), name)) = RenSeq(q, name)
          /\ NodeElems(D, Ren(ValueOf(tail), name)) = RenSeq(p, name)
      BY <1>1, <1>4, <1>6, <2>4
    <2>7. RenSeq(q \o p, name) = RenSeq(q, name) \o RenSeq(p, name)
      BY <2>5, RenConcat
    <2> HIDE DEF p, q
    <2>8. O[k].kind = "LIST" /\ O[k].kids = q \o p
      BY <1>1, <1>6 DEF p, q
    <2> QED BY <1>3, <2>3, <2>6, <2>7, <2>8
  <1> QED BY <1>5, <1>6

-----------------------------------------------------------------------------
(* Allocation *)

\* A half-space at rest is closed.
LEMMA RestingCloses ==
  ASSUME NEW h, NEW T, NEW ptr, NEW rank, Resting(h, T, ptr, rank)
  PROVE  Closed(h, T)
  <1>1. h \in Heaps /\ T \in Spaces
    BY DEF Resting
  <1> SUFFICES ASSUME NEW k \in 1 .. Count(h, T)
               PROVE  /\ Kind(h, T, k) \in Kinds \ {"TABLE"}
                      /\ Arity(h, T, k) \in Nat
                      /\ Kind(h, T, k) = "RRB" => Arity(h, T, k) = 2
                      /\ Kind(h, T, k) = "INTERNAL" => Arity(h, T, k) = 3
                      /\ Whole(h, T, k, T)
    BY <1>1 DEF Closed
  <1>2. Kind(h, T, k) \in Kinds /\ Arity(h, T, k) \in Nat
    BY <1>1, HeapTyped
  <1>3. BlockOK(Kind(h, T, k), Arity(h, T, k), Chars(h, T, k), Size(h, T, k)) /\ Whole(h, T, k, T)
    BY DEF Resting
  <1> QED BY <1>2, <1>3 DEF BlockOK

\* To give every value the identity it has changes none.
LEMMA RenSame ==
  ASSUME NEW h, NEW T, Closed(h, T), TextsFit, NEW name, \A c \in 1 .. Count(h, T) : name[c] = c
  PROVE  /\ \A v \in Values(h, T) : Ren(v, name) = v
         /\ \A q \in Seq(Values(h, T)) : RenSeq(q, name) = q
         /\ \A c \in 1 .. Count(h, T) : RenSeq(CellIn(h, T, c).kids, name) = CellIn(h, T, c).kids
  <1>1. ASSUME NEW t, t.space # Off => t.slot \in 1 .. Count(h, T)
        PROVE  Ren(ValueOf(t), name) = ValueOf(t)
    BY <1>1 DEF Ren, ValueOf
  <1>2. ASSUME NEW v \in Values(h, T)
        PROVE  Ren(v, name) = v
    <2>1. PICK t : v = ValueOf(t) /\ ValueIn(h, t, T)
      BY DEF Values
    <2> QED BY <1>1, <2>1, ValuesAreObjects
  <1>3. ASSUME NEW q \in Seq(Values(h, T))
        PROVE  RenSeq(q, name) = q
    <2>1. DOMAIN q = 1 .. Len(q) /\ \A n \in DOMAIN q : q[n] \in Values(h, T)
      OBVIOUS
    <2>2. \A n \in DOMAIN q : Ren(q[n], name) = q[n]
      BY <1>2, <2>1
    <2>3. RenSeq(q, name) = [n \in DOMAIN q |-> q[n]]
      BY <2>2 DEF RenSeq
    <2> QED BY <2>3
  <1>4. ASSUME NEW c \in 1 .. Count(h, T)
        PROVE  RenSeq(CellIn(h, T, c).kids, name) = CellIn(h, T, c).kids
    <2>1. ASSUME NEW n \in 1 .. Arity(h, T, c)
          PROVE  Ren(ValueOf(Kid(h, T, c, n)), name) = ValueOf(Kid(h, T, c, n))
      <3>1. Kind(h, T, c) \in Kinds \ {"TABLE"} /\ T \in Spaces /\ Whole(h, T, c, T)
        BY DEF Closed
      <3>2. Kid(h, T, c, n).space # Off => Kid(h, T, c, n).slot \in 1 .. Count(h, T)
        BY <3>1, SuitsTyped DEF Whole, RefersTo
      <3> QED BY <1>1, <3>2
    <2> DEFINE a == Arity(h, T, c)
               q == [n \in 1 .. a |-> ValueOf(Kid(h, T, c, n))]
    <2>2. q = CellIn(h, T, c).kids
      BY DEF CellIn
    <2>3. RenSeq(q, name) = [n \in 1 .. a |-> Ren(ValueOf(Kid(h, T, c, n)), name)]
      BY DEF RenSeq
    <2> QED BY <2>1, <2>2, <2>3
  <1> QED BY <1>2, <1>3, <1>4

\* The objects O become P when the one with identity k is made.
Gains(O, P, k) ==
  /\ k \notin DOMAIN O
  /\ DOMAIN P = DOMAIN O \cup {k}
  /\ \A l \in DOMAIN O : P[l] = O[l]
  /\ P = [l \in DOMAIN O \cup {k} |-> IF l = k THEN P[k] ELSE O[l]]

\* An allocation adds the object at the head of it, and changes no other: the
\* blocks behind it are nodes.
LEMMA ObjectsGrow ==
  ASSUME NEW h, NEW T, Closed(h, T), TextsFit, NEW bs \in Seq(Block), Len(bs) \in 1 .. 3,
         NEW g, Allocation(h, g, T, bs), bs[1].kind \in Heads,
         \A i \in 1 .. Len(bs) : i # 1 => bs[i].kind \in {"LEAF", "INTERNAL"}
  PROVE  Gains(Objs(h, T), Objs(g, T), Count(h, T) + 1)
  <1> DEFINE c == Count(h, T)
             k == c + 1
             d == Len(bs)
             D == CellsIn(g, T)
             name == [l \in 1 .. c |-> l]
  <1>1. h \in Heaps /\ T \in Spaces /\ c \in Nat /\ d \in {1, 2, 3}
    BY HeapTyped DEF Closed
  <1>2. /\ Count(g, T) = c + d
        /\ \A l \in 1 .. c : /\ Kind(g, T, l) = Kind(h, T, l) /\ Arity(g, T, l) = Arity(h, T, l)
                             /\ \A m : Kid(g, T, l, m) = Kid(h, T, l, m)
        /\ \A i \in 1 .. d : Kind(g, T, c + i) = bs[i].kind
    BY <1>1 DEF Allocation, SameBut
  <1> HIDE DEF c, d
  <1>3. \A l \in 1 .. c + d : l \in 1 .. c \/ \E i \in 1 .. d : l = c + i
    BY <1>1, <1>2
  <1>4. \A l \in 1 .. c : l \in 1 .. c + d /\ l # k
    BY <1>1
  <1>5. k \in 1 .. c + d /\ 1 \in 1 .. d /\ k = c + 1
    BY <1>1
  <1>6. DOMAIN Objs(h, T) = {l \in 1 .. c : Kind(h, T, l) \in Heads}
        /\ DOMAIN Objs(g, T) = {l \in 1 .. c + d : Kind(g, T, l) \in Heads}
    BY <1>2, ObjectDomain DEF c
  <1> HIDE DEF k
  <1>7. DOMAIN Objs(g, T) = DOMAIN Objs(h, T) \cup {k}
    <2>1. ASSUME NEW l \in 1 .. c + d, Kind(g, T, l) \in Heads
          PROVE  l \in 1 .. c \/ l = k
      <3>1. CASE \E i \in 1 .. d : l = c + i
        <4>1. PICK i \in 1 .. d : l = c + i
          BY <3>1
        <4>2. bs[i].kind \in Heads
          BY <1>2, <2>1, <4>1
        <4>3. i = 1
          BY <4>2 DEF d, Heads
        <4> QED BY <1>5, <4>1, <4>3
      <3> QED BY <1>3, <3>1
    <2>2. Kind(g, T, k) \in Heads
      BY <1>2, <1>5
    <2> QED BY <1>2, <1>4, <1>5, <1>6, <2>1, <2>2
  <1>8. \A l \in 1 .. c : CellIn(g, T, l) = CellIn(h, T, l)
    BY <1>2 DEF CellIn
  <1>9. \A l \in 1 .. c : name[l] = l
    OBVIOUS
  <1> HIDE DEF name
  <1>10. ASSUME NEW l \in 1 .. c
         PROVE  /\ name[l] \in DOMAIN D
                /\ D[name[l]] = [kind |-> Kind(h, T, l), kids |-> RenSeq(CellIn(h, T, l).kids, name)]
    <2>1. l \in DOMAIN D /\ D[l] = CellIn(g, T, l)
      BY <1>2, <1>4 DEF CellsIn
    <2>2. RenSeq(CellIn(h, T, l).kids, name) = CellIn(h, T, l).kids
      BY <1>9, RenSame DEF c
    <2> QED BY <1>8, <1>9, <2>1, <2>2 DEF CellIn
  <1>11. ASSUME NEW l \in DOMAIN Objs(h, T)
         PROVE  Objs(g, T)[l] = Objs(h, T)[l]
    <2>1. Objs(g, T)[name[l]] = [kind |-> Objs(h, T)[l].kind, kids |-> RenSeq(Objs(h, T)[l].kids, name)]
      <3> HIDE DEF D
      <3>1. ObjectsOf(D)[name[l]] = [kind |-> Objs(h, T)[l].kind, kids |-> RenSeq(Objs(h, T)[l].kids, name)]
        BY <1>10, RenamedObjects DEF c
      <3> QED BY <3>1 DEF Objs, D
    <2>2. /\ Objs(h, T)[l].kids \in Seq(Values(h, T))
          /\ Objs(h, T)[l] = [kind |-> Objs(h, T)[l].kind, kids |-> Objs(h, T)[l].kids]
      BY ObjectParts
    <2>3. RenSeq(Objs(h, T)[l].kids, name) = Objs(h, T)[l].kids
      BY <1>9, <2>2, RenSame DEF c
    <2>4. name[l] = l
      BY <1>6, <1>9
    <2> QED BY <2>1, <2>2, <2>3, <2>4
  <1>12. k \notin DOMAIN Objs(h, T)
    BY <1>4, <1>6
  <1>13. Objs(g, T) = [l \in DOMAIN Objs(g, T) |-> Objs(g, T)[l]]
    BY DEF Objs, ObjectsOf
  <1>14. Objs(g, T) = [l \in DOMAIN Objs(h, T) \cup {k} |->
                         IF l = k THEN Objs(g, T)[k] ELSE Objs(h, T)[l]]
    <2> DEFINE O == Objs(g, T)
               P == Objs(h, T)
    <2> HIDE DEF O, P
    <2>1. O = [l \in DOMAIN P \cup {k} |-> O[l]]
      BY <1>7, <1>13 DEF O, P
    <2>2. \A l \in DOMAIN P \cup {k} : O[l] = IF l = k THEN O[k] ELSE P[l]
      BY <1>11 DEF O, P
    <2>3. O = [l \in DOMAIN P \cup {k} |-> IF l = k THEN O[k] ELSE P[l]]
      BY <2>1, <2>2
    <2> QED BY <2>3 DEF O, P
  <1>15. Gains(Objs(h, T), Objs(g, T), k)
    BY <1>7, <1>11, <1>12, <1>14 DEF Gains
  <1> QED BY <1>15 DEF k, c

-----------------------------------------------------------------------------
(* Reachability *)

Has(q, v) == \E n \in DOMAIN q : q[n] = v

\* The elements of both parts of a concatenation are in it.
LEMMA ConcatHas ==
  ASSUME NEW S, NEW p \in Seq(S), NEW q \in Seq(S), NEW v, Has(p, v) \/ Has(q, v)
  PROVE  Has(p \o q, v)
  <1> DEFINE a == Len(p)
             b == Len(q)
             r == p \o q
  <1>1. /\ a \in Nat /\ b \in Nat /\ DOMAIN p = 1 .. a /\ DOMAIN q = 1 .. b /\ DOMAIN r = 1 .. a + b
        /\ \A n \in 1 .. a : r[n] = p[n]
    BY ConcatParts
  <1>2. \A n \in 1 .. a + b : n > a => r[n] = q[n - a]
    BY ConcatParts
  <1> HIDE DEF a, b, r
  <1>3. CASE Has(p, v)
    <2>1. \A n \in 1 .. a : n \in 1 .. a + b
      BY <1>1
    <2>2. Has(r, v)
      BY <1>1, <1>3, <2>1 DEF Has
    <2> QED BY <2>2 DEF r
  <1>4. CASE Has(q, v)
    <2>1. PICK n \in 1 .. b : q[n] = v
      BY <1>1, <1>4 DEF Has
    <2>2. a + n \in 1 .. a + b /\ a + n > a /\ (a + n) - a = n
      BY <1>1
    <2>3. r[a + n] = q[n]
      BY <1>2, <2>2
    <2>4. Has(r, v)
      BY <1>1, <2>1, <2>2, <2>3 DEF Has
    <2> QED BY <2>4 DEF r
  <1> QED BY <1>3, <1>4

\* What block l has a reference to.
LEMMA ReferenceKinds ==
  ASSUME NEW h, NEW T, Closed(h, T), TextsFit, NEW l \in 1 .. Count(h, T),
         NEW n \in 1 .. Arity(h, T, l), Kid(h, T, l, n).space = T
  PROVE  LET k == Kid(h, T, l, n).slot
         IN  /\ Kind(h, T, l) \in {"TUPLE", "FUNCTION", "LEAF", "RRB", "INTERNAL"}
             /\ Kind(h, T, l) \in {"TUPLE", "FUNCTION", "LEAF"} => Kind(h, T, k) \in Heads
             /\ Kind(h, T, l) = "RRB" => Kind(h, T, k) \in {"LEAF", "INTERNAL"} /\ n \in {1, 2}
                                         /\ (n = 2 => Kind(h, T, k) = "LEAF")
             /\ Kind(h, T, l) = "INTERNAL" => Kind(h, T, k) = "LEAF" /\ n \in {1, 2}
  <1>1. /\ Kind(h, T, l) \in Kinds \ {"TABLE"} /\ T \in Spaces /\ T # Off
        /\ Kind(h, T, l) = "RRB" => Arity(h, T, l) = 2
        /\ Kind(h, T, l) = "INTERNAL" => Arity(h, T, l) = 3
        /\ Whole(h, T, l, T)
    BY OtherSpace DEF Closed
  <1>2. Suits(h, Kind(h, T, l), Arity(h, T, l), n, Kid(h, T, l, n), T)
    BY <1>1 DEF Whole
  <1>3. Kind(h, T, l) # "STRING"
    BY <1>1, <1>2 DEF Suits, OffText
  <1>4. Kind(h, T, l) \in {"TUPLE", "FUNCTION", "LEAF"} => ValueIn(h, Kid(h, T, l, n), T)
    BY <1>2 DEF Suits
  <1>5. Kind(h, T, l) \in {"TUPLE", "FUNCTION", "LEAF"} => Kind(h, T, Kid(h, T, l, n).slot) \in Heads
    BY <1>1, <1>4, ValuesAreObjects
  <1>6. Kid(h, T, l, n) # Null
    BY <1>1 DEF Null
  <1>7. CASE Kind(h, T, l) = "RRB"
    <2>1. n \in {1, 2}
      BY <1>1, <1>7
    <2>2. NodeIn(h, Kid(h, T, l, n), T) /\ (n = 2 => Kind(h, T, Kid(h, T, l, n).slot) = "LEAF")
      BY <1>2, <1>6, <1>7 DEF Suits
    <2> QED BY <1>7, <2>1, <2>2, NodeCell
  <1>8. CASE Kind(h, T, l) = "INTERNAL"
    <2>1. n \in {1, 2, 3}
      BY <1>1, <1>8
    <2>2. n # 3 /\ Kind(h, T, Kid(h, T, l, n).slot) = "LEAF"
      BY <1>1, <1>2, <1>6, <1>8 DEF Suits
    <2> QED BY <1>8, <2>1, <2>2
  <1> QED BY <1>1, <1>3, <1>5, <1>7, <1>8 DEF Kinds

\* Where every block is referred to by a register or a block, every object is
\* by a register or an object: a leaf is part of a list.
LEMMA ReachedObjects ==
  ASSUME NEW h, NEW T, Closed(h, T), TextsFit, NEW regs, NEW cf, RegistersIn(h, T, regs, cf),
         \A k \in 1 .. Count(h, T) :
           \/ \E i \in 0 .. cf, j \in Regs : Reg(regs, i, j).space = T /\ Reg(regs, i, j).slot = k
           \/ \E l \in 1 .. Count(h, T) : RefersToCopy(h, T, l, T, k),
         NEW k \in DOMAIN Objs(h, T)
  PROVE  \/ \E i \in 0 .. cf, j \in Regs : Reg(regs, i, j).space = T /\ Reg(regs, i, j).slot = k
         \/ \E l \in DOMAIN Objs(h, T) : \E v : Has(Objs(h, T)[l].kids, v) /\ v.on /\ v.id = k
  <1> DEFINE O == Objs(h, T)
             InReg(m) == \E i \in 0 .. cf, j \in Regs : Reg(regs, i, j).space = T /\ Reg(regs, i, j).slot = m
  <1>1. T \in Spaces /\ T # Off
    BY OtherSpace DEF Closed
  <1>2. ASSUME NEW m \in 1 .. Count(h, T), Kind(h, T, m) \in {"LEAF", "INTERNAL"}
        PROVE  \E l \in 1 .. Count(h, T) : /\ RefersToCopy(h, T, l, T, m)
                                           /\ Kind(h, T, l) \in {"RRB", "INTERNAL"}
    <2>1. ~InReg(m)
      <3> SUFFICES ASSUME NEW i \in 0 .. cf, NEW j \in Regs, Reg(regs, i, j).space = T, Reg(regs, i, j).slot = m
                   PROVE  FALSE
        OBVIOUS
      <3>1. ValueIn(h, Reg(regs, i, j), T)
        BY DEF RegistersIn
      <3>2. Kind(h, T, m) \in Heads
        BY <1>1, <3>1, ValuesAreObjects
      <3> QED BY <1>2, <3>2 DEF Heads
    <2>2. PICK l \in 1 .. Count(h, T) : RefersToCopy(h, T, l, T, m)
      BY <2>1
    <2>3. Kind(h, T, l) \in {"RRB", "INTERNAL"}
      BY <1>2, <2>2, ReferenceKinds DEF RefersToCopy, Heads
    <2> QED BY <2>2, <2>3
  <1>3. ASSUME NEW p \in 1 .. Count(h, T), NEW m \in 1 .. Count(h, T), RefersToCopy(h, T, p, T, m), Kind(h, T, p) = "RRB"
        PROVE  /\ p \in DOMAIN O
               /\ Kind(h, T, m) = "LEAF" => \A v : Has(CellIn(h, T, m).kids, v) => Has(O[p].kids, v)
               /\ Kind(h, T, m) = "INTERNAL" =>
                    \A n \in {1, 2} : LET l == Kid(h, T, m, n).slot
                                      IN  \A v : Has(CellIn(h, T, l).kids, v) => Has(O[p].kids, v)
    <2> DEFINE root == Kid(h, T, p, 1)
               tail == Kid(h, T, p, 2)
               q    == NodeElems(CellsIn(h, T), ValueOf(root))
               r    == CellIn(h, T, tail.slot).kids
    <2>1. p \in DOMAIN O
      BY <1>3, ObjectDomain DEF Heads
    <2>2. /\ root = Null \/ NodeIn(h, root, T)
          /\ NodeIn(h, tail, T) /\ Kind(h, T, tail.slot) = "LEAF"
          /\ O[p].kids = q \o r
      BY <1>3, <2>1, ObjectParts
    <2>3. tail.slot \in 1 .. Count(h, T)
      BY <2>2, NodeCell
    <2>4. q \in Seq(Values(h, T)) /\ r \in Seq(Values(h, T))
      BY <2>2, <2>3, NodeElemsParts, CellKids
    <2> HIDE DEF q, r
    <2>5. \A v : Has(q, v) \/ Has(r, v) => Has(O[p].kids, v)
      BY <2>2, <2>4, ConcatHas
    <2>6. PICK n \in 1 .. Arity(h, T, p) : Kid(h, T, p, n).space = T /\ Kid(h, T, p, n).slot = m
      BY <1>3 DEF RefersToCopy
    <2>7. n \in {1, 2} /\ (n = 2 => Kind(h, T, m) = "LEAF")
      BY <1>3, <2>6, ReferenceKinds
    <2>8. CASE n = 2
      <3>1. r = CellIn(h, T, m).kids
        BY <2>6, <2>8 DEF r
      <3> QED BY <2>1, <2>5, <2>7, <2>8, <3>1
    <2>9. CASE n = 1
      <3>1. root.slot = m /\ root # Null
        BY <1>1, <2>6, <2>9 DEF Null
      <3>2. CASE Kind(h, T, m) = "LEAF"
        <4>1. q = CellIn(h, T, m).kids
          BY <2>2, <3>1, <3>2, NodeElemsParts DEF q
        <4> QED BY <2>1, <2>5, <3>2, <4>1
      <3>3. CASE Kind(h, T, m) = "INTERNAL"
        <4> DEFINE x == CellIn(h, T, Kid(h, T, m, 1).slot).kids
                   y == CellIn(h, T, Kid(h, T, m, 2).slot).kids
        <4>7. Kind(h, T, root.slot) = "INTERNAL" /\ (root = Null \/ NodeIn(h, root, T)) /\ root # Null
          BY <2>2, <3>1, <3>3
        <4>8. q = NodeElems(CellsIn(h, T), ValueOf(root))
          BY DEF q
        <4> HIDE DEF root
        <4>1. /\ q = x \o y
              /\ Kid(h, T, m, 1).slot \in 1 .. Count(h, T) /\ Kind(h, T, Kid(h, T, m, 1).slot) = "LEAF"
              /\ Kid(h, T, m, 2).slot \in 1 .. Count(h, T) /\ Kind(h, T, Kid(h, T, m, 2).slot) = "LEAF"
          BY <3>1, <4>7, <4>8, InternalParts
        <4>2. x \in Seq(Values(h, T)) /\ y \in Seq(Values(h, T))
          BY <4>1, CellKids
        <4> HIDE DEF x, y
        <4>3. \A v : Has(x, v) \/ Has(y, v) => Has(q, v)
          BY <4>1, <4>2, ConcatHas
        <4>4. \A v : Has(x, v) \/ Has(y, v) => Has(O[p].kids, v)
          BY <2>5, <4>3
        <4>5. \A n2 \in {1, 2} : \A v : Has(CellIn(h, T, Kid(h, T, m, n2).slot).kids, v) => Has(O[p].kids, v)
          <5>1. \A v : Has(CellIn(h, T, Kid(h, T, m, 1).slot).kids, v) => Has(O[p].kids, v)
            BY <4>4 DEF x
          <5>2. \A v : Has(CellIn(h, T, Kid(h, T, m, 2).slot).kids, v) => Has(O[p].kids, v)
            BY <4>4 DEF y
          <5> HIDE DEF O
          <5> QED BY <5>1, <5>2
        <4> HIDE DEF O
        <4> QED BY <2>1, <3>3, <4>5
      <3>4. Kind(h, T, m) \in {"LEAF", "INTERNAL"}
        BY <2>2, <3>1, NodeCell
      <3> QED BY <3>2, <3>3, <3>4
    <2> QED BY <2>7, <2>8, <2>9
  <1>4. ASSUME NEW m \in 1 .. Count(h, T), Kind(h, T, m) = "LEAF"
        PROVE  \E p \in DOMAIN O : \A v : Has(CellIn(h, T, m).kids, v) => Has(O[p].kids, v)
    <2>1. PICK l \in 1 .. Count(h, T) : RefersToCopy(h, T, l, T, m) /\ Kind(h, T, l) \in {"RRB", "INTERNAL"}
      BY <1>2, <1>4
    <2>2. CASE Kind(h, T, l) = "RRB"
      BY <1>3, <1>4, <2>1, <2>2
    <2>3. CASE Kind(h, T, l) = "INTERNAL"
      <3>1. PICK p \in 1 .. Count(h, T) : RefersToCopy(h, T, p, T, l) /\ Kind(h, T, p) \in {"RRB", "INTERNAL"}
        BY <1>2, <2>3
      <3>2. Kind(h, T, p) = "RRB"
        BY <2>3, <3>1, ReferenceKinds DEF RefersToCopy
      <3>3. PICK n \in 1 .. Arity(h, T, l) : Kid(h, T, l, n).space = T /\ Kid(h, T, l, n).slot = m
        BY <2>1 DEF RefersToCopy
      <3>4. n \in {1, 2}
        BY <2>3, <3>3, ReferenceKinds
      <3> QED BY <1>3, <2>3, <3>1, <3>2, <3>3, <3>4
    <2> QED BY <2>1, <2>2, <2>3
  <1>5. k \in 1 .. Count(h, T) /\ Kind(h, T, k) \in Heads
    BY ObjectDomain
  <1> SUFFICES ASSUME ~InReg(k)
               PROVE  \E l \in DOMAIN O : \E v : Has(O[l].kids, v) /\ v.on /\ v.id = k
    OBVIOUS
  <1>6. PICK l \in 1 .. Count(h, T) : RefersToCopy(h, T, l, T, k)
    BY <1>5
  <1>7. PICK n \in 1 .. Arity(h, T, l) : Kid(h, T, l, n).space = T /\ Kid(h, T, l, n).slot = k
    BY <1>6 DEF RefersToCopy
  <1> DEFINE v == ValueOf(Kid(h, T, l, n))
  <1>8. Has(CellIn(h, T, l).kids, v) /\ v.on /\ v.id = k
    BY <1>1, <1>7 DEF CellIn, Has, ValueOf
  <1>9. Kind(h, T, l) \in {"TUPLE", "FUNCTION", "LEAF"}
    BY <1>5, <1>7, ReferenceKinds DEF Heads
  <1>10. CASE Kind(h, T, l) = "LEAF"
    BY <1>4, <1>8, <1>10
  <1>11. CASE Kind(h, T, l) \in {"TUPLE", "FUNCTION"}
    <2>1. l \in DOMAIN O
      BY <1>11, ObjectDomain DEF Heads
    <2>2. O[l] = CellIn(h, T, l)
      BY <1>11, <2>1, ObjectParts
    <2> QED BY <1>8, <2>1, <2>2
  <1> QED BY <1>9, <1>10, <1>11
=============================================================================
