---------------------------- MODULE OwlGcProofs ----------------------------
(***************************************************************************)
(* The steps of a collection preserve OwlGcInvariant!Collecting.           *)
(***************************************************************************)
EXTENDS OwlGcInvariant, SequenceTheorems, TLAPS

-----------------------------------------------------------------------------
(* Sequences, blocks and heaps with one thing changed *)

\* A sequence with one element replaced.
LEMMA ElementSet ==
  ASSUME NEW S, NEW q \in Seq(S), NEW k \in 1 .. Len(q), NEW b \in S
  PROVE  /\ [q EXCEPT ![k] = b] \in Seq(S)
         /\ Len([q EXCEPT ![k] = b]) = Len(q)
         /\ [q EXCEPT ![k] = b][k] = b
         /\ \A l \in 1 .. Len(q) : l # k => [q EXCEPT ![k] = b][l] = q[l]
  OBVIOUS

\* A heap with one block replaced.
LEMMA BlockSet ==
  ASSUME NEW h \in Heaps, NEW s \in Spaces, NEW k \in 1 .. Len(h[s]), NEW b \in Block
  PROVE  LET g == [h EXCEPT ![s][k] = b]
         IN  /\ g \in Heaps
             /\ \A x \in Spaces : Len(g[x]) = Len(h[x])
             /\ g[s][k] = b
             /\ \A x \in Spaces : \A l \in 1 .. Len(h[x]) :
                  (x # s \/ l # k) => g[x][l] = h[x][l]
  <1> DEFINE q == [h[s] EXCEPT ![k] = b]
  <1>1. h[s] \in Seq(Block)
    BY DEF Heaps
  <1>2. /\ q \in Seq(Block) /\ Len(q) = Len(h[s]) /\ q[k] = b
        /\ \A l \in 1 .. Len(h[s]) : l # k => q[l] = h[s][l]
    BY ElementSet, <1>1
  <1>3. [h EXCEPT ![s][k] = b] = [h EXCEPT ![s] = q]
    BY DEF Heaps
  <1> HIDE DEF q
  <1> QED BY <1>2, <1>3 DEF Heaps

\* The types of the parts of a heap.
LEMMA HeapTyped ==
  ASSUME NEW h \in Heaps, NEW s \in Spaces
  PROVE  /\ Count(h, s) \in Nat
         /\ \A k \in 1 .. Count(h, s) :
              /\ h[s][k] \in Block
              /\ Kind(h, s, k) \in Kinds
              /\ Arity(h, s, k) \in Nat
              /\ Chars(h, s, k) \in Nat
              /\ Size(h, s, k) \in Nat
              /\ Fwd(h, s, k) \in Nat
              /\ \A n \in 1 .. Arity(h, s, k) : Kid(h, s, k, n) \in Term
              /\ Loop(h, s, k) = IF Kind(h, s, k) \in {"STRING", "TABLE"} THEN 0
                                 ELSE IF Kind(h, s, k) = "INTERNAL" THEN Arity(h, s, k) - 1
                                 ELSE Arity(h, s, k)
  <1>1. h[s] \in Seq(Block)
    BY DEF Heaps
  <1>2. Count(h, s) \in Nat
    BY <1>1 DEF Count
  <1>3. SUFFICES ASSUME NEW k \in 1 .. Count(h, s)
                 PROVE  /\ h[s][k] \in Block
                        /\ Kind(h, s, k) \in Kinds
                        /\ Arity(h, s, k) \in Nat
                        /\ Chars(h, s, k) \in Nat
                        /\ Size(h, s, k) \in Nat
                        /\ Fwd(h, s, k) \in Nat
                        /\ \A n \in 1 .. Arity(h, s, k) : Kid(h, s, k, n) \in Term
                        /\ Loop(h, s, k) = IF Kind(h, s, k) \in {"STRING", "TABLE"} THEN 0
                                           ELSE IF Kind(h, s, k) = "INTERNAL"
                                                THEN Arity(h, s, k) - 1
                                           ELSE Arity(h, s, k)
    BY <1>2
  <1>4. h[s][k] \in Block
    BY <1>1 DEF Count
  <1>5. /\ Kind(h, s, k) \in Kinds /\ Arity(h, s, k) \in Nat /\ Chars(h, s, k) \in Nat
        /\ Size(h, s, k) \in Nat /\ Fwd(h, s, k) \in Nat
    BY <1>4 DEF Block, Kind, Arity, Chars, Size, Fwd
  <1>6. h[s][k].kids \in Seq(Term)
    BY <1>4 DEF Block
  <1>7. \A n \in 1 .. Arity(h, s, k) : Kid(h, s, k, n) \in Term
    BY <1>6 DEF Kid, Arity
  <1>8. Loop(h, s, k) = IF Kind(h, s, k) \in {"STRING", "TABLE"} THEN 0
                        ELSE IF Kind(h, s, k) = "INTERNAL" THEN Arity(h, s, k) - 1
                        ELSE Arity(h, s, k)
    BY DEF Loop, Kind, Arity, Visits
  <1> QED BY <1>4, <1>5, <1>7, <1>8

\* Block k of half-space s is as in h, but for its children.
SameBut(h, g, s, k) ==
  /\ Kind(g, s, k) = Kind(h, s, k)
  /\ Arity(g, s, k) = Arity(h, s, k)
  /\ Chars(g, s, k) = Chars(h, s, k)
  /\ Size(g, s, k) = Size(h, s, k)
  /\ Loop(g, s, k) = Loop(h, s, k)

\* g is h with t for the n-th child of block k of half-space s.
KidChange(h, g, s, k, n, t) ==
  /\ g \in Heaps
  /\ \A x \in Spaces : Count(g, x) = Count(h, x)
  /\ \A x \in Spaces : \A l \in 1 .. Count(h, x) :
       /\ SameBut(h, g, x, l)
       /\ Fwd(g, x, l) = Fwd(h, x, l)
       /\ \A m \in 1 .. Arity(h, x, l) :
            (x # s \/ l # k \/ m # n) => Kid(g, x, l, m) = Kid(h, x, l, m)
  /\ Kid(g, s, k, n) = t

\* What a callee's return does to the heap.
LEMMA KidChanged ==
  ASSUME NEW h \in Heaps, NEW s \in Spaces, NEW k \in 1 .. Count(h, s),
         NEW n \in 1 .. Arity(h, s, k), NEW t \in Term
  PROVE  KidChange(h, [h EXCEPT ![s][k].kids[n] = t], s, k, n, t)
  <1> DEFINE b == h[s][k]
             q == [b.kids EXCEPT ![n] = t]
             c == [b EXCEPT !.kids = q]
             g == [h EXCEPT ![s][k] = c]
  <1>1. b \in Block
    BY HeapTyped
  <1>2. b.kids \in Seq(Term) /\ n \in 1 .. Len(b.kids)
    BY <1>1 DEF Block, Arity
  <1>3. /\ q \in Seq(Term) /\ Len(q) = Len(b.kids) /\ q[n] = t
        /\ \A m \in 1 .. Len(b.kids) : m # n => q[m] = b.kids[m]
    BY ElementSet, <1>2
  <1>4. [h EXCEPT ![s][k].kids[n] = t] = g
    BY DEF Heaps, Block
  <1> HIDE DEF q
  <1>5. /\ c \in Block /\ c.kids = q /\ c.kind = b.kind /\ c.len = b.len
        /\ c.size = b.size /\ c.fwd = b.fwd
    BY <1>1, <1>3 DEF Block
  <1> HIDE DEF c
  <1>6. /\ g \in Heaps
        /\ \A x \in Spaces : Count(g, x) = Count(h, x)
        /\ g[s][k] = c
        /\ \A x \in Spaces : \A l \in 1 .. Count(h, x) : (x # s \/ l # k) => g[x][l] = h[x][l]
    BY <1>5, BlockSet DEF Count
  <1> HIDE DEF g
  <1>7. ASSUME NEW x \in Spaces, NEW l \in 1 .. Count(h, x), x # s \/ l # k
        PROVE  /\ SameBut(h, g, x, l)
               /\ Fwd(g, x, l) = Fwd(h, x, l)
               /\ \A m : Kid(g, x, l, m) = Kid(h, x, l, m)
    BY <1>6, <1>7 DEF SameBut, Kind, Arity, Chars, Size, Loop, Fwd, Kid
  <1>8. Visits(c) = Visits(b)
    BY <1>3, <1>5 DEF Visits
  <1>9. /\ SameBut(h, g, s, k)
        /\ Fwd(g, s, k) = Fwd(h, s, k)
        /\ Kid(g, s, k, n) = t
        /\ \A m \in 1 .. Arity(h, s, k) : m # n => Kid(g, s, k, m) = Kid(h, s, k, m)
    BY <1>3, <1>5, <1>6, <1>8 DEF SameBut, Kind, Arity, Chars, Size, Loop, Fwd, Kid
  <1>10. KidChange(h, g, s, k, n, t)
    BY <1>6, <1>7, <1>9 DEF KidChange
  <1> QED BY <1>4, <1>10

\* g is h with n for the forward address of block k of half-space s.
FwdChange(h, g, s, k, n) ==
  /\ g \in Heaps
  /\ \A x \in Spaces : Count(g, x) = Count(h, x)
  /\ \A x \in Spaces : \A l \in 1 .. Count(h, x) :
       /\ SameBut(h, g, x, l)
       /\ \A m : Kid(g, x, l, m) = Kid(h, x, l, m)
       /\ (x # s \/ l # k) => Fwd(g, x, l) = Fwd(h, x, l)
  /\ Fwd(g, s, k) = n

\* What forward does to the heap.
LEMMA FwdChanged ==
  ASSUME NEW h \in Heaps, NEW s \in Spaces, NEW k \in 1 .. Count(h, s), NEW n \in Nat
  PROVE  FwdChange(h, [h EXCEPT ![s][k].fwd = n], s, k, n)
  <1> DEFINE b == h[s][k]
             c == [b EXCEPT !.fwd = n]
             g == [h EXCEPT ![s][k] = c]
  <1>1. b \in Block
    BY HeapTyped
  <1>2. [h EXCEPT ![s][k].fwd = n] = g
    BY DEF Heaps, Block
  <1>3. /\ c \in Block /\ c.kids = b.kids /\ c.kind = b.kind /\ c.len = b.len
        /\ c.size = b.size /\ c.fwd = n
    BY <1>1 DEF Block
  <1> HIDE DEF c
  <1>4. /\ g \in Heaps
        /\ \A x \in Spaces : Count(g, x) = Count(h, x)
        /\ g[s][k] = c
        /\ \A x \in Spaces : \A l \in 1 .. Count(h, x) : (x # s \/ l # k) => g[x][l] = h[x][l]
    BY <1>3, BlockSet DEF Count
  <1> HIDE DEF g
  <1>5. ASSUME NEW x \in Spaces, NEW l \in 1 .. Count(h, x), x # s \/ l # k
        PROVE  /\ SameBut(h, g, x, l)
               /\ \A m : Kid(g, x, l, m) = Kid(h, x, l, m)
               /\ Fwd(g, x, l) = Fwd(h, x, l)
    BY <1>4, <1>5 DEF SameBut, Kind, Arity, Chars, Size, Loop, Fwd, Kid
  <1>6. Visits(c) = Visits(b)
    BY <1>3 DEF Visits
  <1>7. /\ SameBut(h, g, s, k)
        /\ \A m : Kid(g, s, k, m) = Kid(h, s, k, m)
        /\ Fwd(g, s, k) = n
    BY <1>3, <1>4, <1>6 DEF SameBut, Kind, Arity, Chars, Size, Loop, Fwd, Kid
  <1>8. FwdChange(h, g, s, k, n)
    BY <1>4, <1>5, <1>7 DEF FwdChange
  <1> QED BY <1>2, <1>8

\* g is h with the blocks bs allocated at the end of half-space s.
Allocation(h, g, s, bs) ==
  /\ g \in Heaps
  /\ Count(g, s) = Count(h, s) + Len(bs)
  /\ \A x \in Spaces \ {s} : Count(g, x) = Count(h, x)
  /\ \A x \in Spaces : \A l \in 1 .. Count(h, x) :
       /\ SameBut(h, g, x, l)
       /\ Fwd(g, x, l) = Fwd(h, x, l)
       /\ \A m : Kid(g, x, l, m) = Kid(h, x, l, m)
  /\ \A i \in 1 .. Len(bs) :
       /\ Kind(g, s, Count(h, s) + i) = bs[i].kind
       /\ Arity(g, s, Count(h, s) + i) = Len(bs[i].kids)
       /\ Chars(g, s, Count(h, s) + i) = bs[i].len
       /\ Size(g, s, Count(h, s) + i) = bs[i].size
       /\ Fwd(g, s, Count(h, s) + i) = bs[i].fwd
       /\ \A m : Kid(g, s, Count(h, s) + i, m) = bs[i].kids[m]

\* What owl_alloc does to the heap.
LEMMA Allocated ==
  ASSUME NEW h \in Heaps, NEW s \in Spaces, NEW bs \in Seq(Block)
  PROVE  Allocation(h, [h EXCEPT ![s] = @ \o bs], s, bs)
  <1> DEFINE q == h[s] \o bs
             g == [h EXCEPT ![s] = q]
  <1>1. h[s] \in Seq(Block)
    BY DEF Heaps
  <1>2. /\ q \in Seq(Block) /\ Len(q) = Len(h[s]) + Len(bs)
        /\ \A i \in 1 .. Len(bs) : q[Len(h[s]) + i] = bs[i]
        /\ \A l \in 1 .. Len(h[s]) : q[l] = h[s][l]
    BY <1>1
  <1> HIDE DEF q
  <1>3. [h EXCEPT ![s] = @ \o bs] = g
    BY DEF q
  <1>4. g \in Heaps /\ g[s] = q /\ \A x \in Spaces \ {s} : g[x] = h[x]
    BY <1>2 DEF Heaps
  <1> HIDE DEF g
  <1>5. ASSUME NEW x \in Spaces, NEW l \in 1 .. Count(h, x)
        PROVE  /\ SameBut(h, g, x, l)
               /\ Fwd(g, x, l) = Fwd(h, x, l)
               /\ \A m : Kid(g, x, l, m) = Kid(h, x, l, m)
    <2>1. g[x][l] = h[x][l]
      BY <1>2, <1>4, <1>5 DEF Count
    <2> QED BY <2>1 DEF SameBut, Kind, Arity, Chars, Size, Loop, Fwd, Kid
  <1>6. /\ Count(g, s) = Count(h, s) + Len(bs)
        /\ \A x \in Spaces \ {s} : Count(g, x) = Count(h, x)
    BY <1>2, <1>4 DEF Count
  <1>7. ASSUME NEW i \in 1 .. Len(bs)
        PROVE  /\ Kind(g, s, Count(h, s) + i) = bs[i].kind
               /\ Arity(g, s, Count(h, s) + i) = Len(bs[i].kids)
               /\ Chars(g, s, Count(h, s) + i) = bs[i].len
               /\ Size(g, s, Count(h, s) + i) = bs[i].size
               /\ Fwd(g, s, Count(h, s) + i) = bs[i].fwd
               /\ \A m : Kid(g, s, Count(h, s) + i, m) = bs[i].kids[m]
    <2>1. g[s][Count(h, s) + i] = bs[i]
      BY <1>2, <1>4, <1>7 DEF Count
    <2> QED BY <2>1 DEF Kind, Arity, Chars, Size, Fwd, Kid
  <1>8. Allocation(h, g, s, bs)
    BY <1>4, <1>5, <1>6, <1>7 DEF Allocation
  <1> QED BY <1>3, <1>8

-----------------------------------------------------------------------------
(* The stack of activations *)

\* The types of the parts of a stack of activations.
LEMMA StackTyped ==
  ASSUME NEW cs \in Seq(Activation)
  PROVE  /\ Depth(cs) \in Nat
         /\ cs = <<>> <=> Depth(cs) = 0
         /\ \A i \in 1 .. Depth(cs) : /\ Fn(cs, i) \in {"copy", "copy_list_node"}
                                      /\ Old(cs, i) \in Nat
                                      /\ New(cs, i) \in Nat
                                      /\ Child(cs, i) \in Nat
  <1>1. \A i \in 1 .. Depth(cs) : cs[i] \in Activation
    BY DEF Depth
  <1>2. Depth(cs) \in Nat /\ (cs = <<>> <=> Depth(cs) = 0)
    BY DEF Depth
  <1> QED BY <1>1, <1>2 DEF Activation, Fn, Old, New, Child

\* Activation i of cs is that of ds, but for the child its loop is at.
SameCall(cs, ds, i) == /\ Fn(ds, i) = Fn(cs, i)
                       /\ Old(ds, i) = Old(cs, i)
                       /\ New(ds, i) = New(cs, i)

Stepped(cs) == [cs EXCEPT ![Len(cs)].next = @ + 1]

\* The caller on top goes on to its next child.
LEMMA SteppedFacts ==
  ASSUME NEW cs \in Seq(Activation), cs # <<>>
  PROVE  /\ Stepped(cs) \in Seq(Activation)
         /\ Depth(Stepped(cs)) = Depth(cs)
         /\ \A i \in 1 .. Depth(cs) :
              /\ SameCall(cs, Stepped(cs), i)
              /\ Child(Stepped(cs), i) = IF i = Depth(cs) THEN Child(cs, i) + 1 ELSE Child(cs, i)
  <1> DEFINE a == cs[Len(cs)]
             m == a.next + 1
             b == [a EXCEPT !.next = m]
             q == [cs EXCEPT ![Len(cs)] = b]
  <1>1. Len(cs) \in 1 .. Len(cs) /\ a \in Activation
    OBVIOUS
  <1>2. m \in Nat
    BY <1>1 DEF Activation
  <1>3. Stepped(cs) = q
    BY <1>1 DEF Stepped
  <1>5. m = cs[Len(cs)].next + 1
    OBVIOUS
  <1> HIDE DEF m
  <1>6. b \in Activation /\ b.fn = a.fn /\ b.old = a.old /\ b.new = a.new /\ b.next = m
    BY <1>1, <1>2 DEF Activation
  <1> HIDE DEF b
  <1>4. /\ q \in Seq(Activation) /\ Len(q) = Len(cs) /\ q[Len(cs)] = b
        /\ \A l \in 1 .. Len(cs) : l # Len(cs) => q[l] = cs[l]
    BY <1>1, <1>6, ElementSet
  <1> HIDE DEF q
  <1>7. Len(Stepped(cs)) = Len(cs) /\ Stepped(cs) \in Seq(Activation)
    BY <1>3, <1>4
  <1>8. SameCall(cs, Stepped(cs), Len(cs)) /\ Child(Stepped(cs), Len(cs)) = Child(cs, Len(cs)) + 1
    BY <1>3, <1>4, <1>5, <1>6 DEF SameCall, Fn, Old, New, Child
  <1>9. \A i \in 1 .. Len(cs) : i # Len(cs) =>
          SameCall(cs, Stepped(cs), i) /\ Child(Stepped(cs), i) = Child(cs, i)
    BY <1>3, <1>4 DEF SameCall, Fn, Old, New, Child
  <1> QED BY <1>7, <1>8, <1>9 DEF Depth

\* The activation on top returns.
LEMMA PoppedFacts ==
  ASSUME NEW cs \in Seq(Activation), cs # <<>>
  PROVE  /\ Pop(cs) \in Seq(Activation)
         /\ Depth(Pop(cs)) = Depth(cs) - 1
         /\ \A i \in 1 .. Depth(cs) - 1 :
              SameCall(cs, Pop(cs), i) /\ Child(Pop(cs), i) = Child(cs, i)
  <1>1. Len(cs) \in Nat \ {0}
    OBVIOUS
  <1> DEFINE n == Len(cs) - 1
  <1>3. n \in Nat /\ \A i \in 1 .. n : cs[i] \in Activation
    BY <1>1
  <1> HIDE DEF n
  <1>5. /\ SubSeq(cs, 1, n) \in Seq(Activation)
        /\ Len(SubSeq(cs, 1, n)) = IF 1 <= n THEN n - 1 + 1 ELSE 0
        /\ \A i \in 1 .. n - 1 + 1 : SubSeq(cs, 1, n)[i] = cs[1 + i - 1]
    BY <1>3, SubSeqProperties
  <1>6. /\ Len(SubSeq(cs, 1, n)) = n
        /\ \A i \in 1 .. n : SubSeq(cs, 1, n)[i] = cs[i]
    BY <1>3, <1>5
  <1>4. /\ Pop(cs) \in Seq(Activation)
        /\ Len(Pop(cs)) = Len(cs) - 1
        /\ \A i \in 1 .. Len(cs) - 1 : Pop(cs)[i] = cs[i]
    BY <1>5, <1>6 DEF Pop, n
  <1> QED BY <1>4 DEF Depth, SameCall, Fn, Old, New, Child

\* A new activation on top.
LEMMA PushedFacts ==
  ASSUME NEW cs \in Seq(Activation), NEW a \in Activation
  PROVE  LET ds == Append(cs, a)
         IN  /\ ds \in Seq(Activation)
             /\ Depth(ds) = Depth(cs) + 1
             /\ \A i \in 1 .. Depth(cs) :
                  SameCall(cs, ds, i) /\ Child(ds, i) = Child(cs, i)
             /\ Fn(ds, Depth(ds)) = a.fn
             /\ Old(ds, Depth(ds)) = a.old
             /\ New(ds, Depth(ds)) = a.new
             /\ Child(ds, Depth(ds)) = a.next
  <1> DEFINE ds == Append(cs, a)
  <1>1. /\ ds \in Seq(Activation) /\ Len(ds) = Len(cs) + 1
        /\ \A i \in 1 .. Len(cs) : ds[i] = cs[i]
        /\ ds[Len(ds)] = a
    OBVIOUS
  <1> HIDE DEF ds
  <1>2. /\ ds \in Seq(Activation) /\ Depth(ds) = Depth(cs) + 1
        /\ \A i \in 1 .. Depth(cs) : ds[i] = cs[i]
        /\ ds[Depth(ds)] = a
    BY <1>1 DEF Depth
  <1>3. \A i \in 1 .. Depth(cs) : SameCall(cs, ds, i) /\ Child(ds, i) = Child(cs, i)
    BY <1>2 DEF SameCall, Fn, Old, New, Child
  <1>4. /\ Fn(ds, Depth(ds)) = a.fn /\ Old(ds, Depth(ds)) = a.old
        /\ New(ds, Depth(ds)) = a.new /\ Child(ds, Depth(ds)) = a.next
    BY <1>2 DEF Fn, Old, New, Child
  <1> QED BY <1>2, <1>3, <1>4 DEF ds

-----------------------------------------------------------------------------
(* References *)

\* The other half-space is the other one, and neither is no half-space.
LEMMA OtherSpace ==
  ASSUME NEW T \in Spaces
  PROVE  /\ Other(T) \in Spaces
         /\ Other(T) # T
         /\ Other(Other(T)) = T
         /\ T # Off /\ Other(T) # Off
         /\ \A s \in Spaces : s = T \/ s = Other(T)
  BY DEF Spaces, Low, High, Off, Other

\* g has the blocks of h, with the same kinds, and perhaps more.
Grows(h, g) ==
  \A s \in Spaces : /\ Count(h, s) \in Nat /\ Count(g, s) \in Nat
                    /\ Count(h, s) <= Count(g, s)
                    /\ \A k \in 1 .. Count(h, s) : Kind(g, s, k) = Kind(h, s, k)

\* A reference outlives an allocation.
LEMMA RefersToGrows ==
  ASSUME NEW h, NEW g, Grows(h, g), NEW s \in Spaces, NEW t, RefersTo(h, t, s)
  PROVE  RefersTo(g, t, s)
  BY DEF RefersTo, Grows

\* So does a value.
LEMMA ValueInGrows ==
  ASSUME NEW h, NEW g, Grows(h, g), NEW s \in Spaces, NEW t, ValueIn(h, t, s)
  PROVE  ValueIn(g, t, s)
  BY RefersToGrows DEF ValueIn

\* And what a block may refer to.
LEMMA SuitsGrows ==
  ASSUME NEW h, NEW g, Grows(h, g), NEW s \in Spaces, NEW kind, NEW m, NEW n, NEW t,
         Suits(h, kind, m, n, t, s)
  PROVE  Suits(g, kind, m, n, t, s)
  <1>1. ValueIn(h, t, s) => ValueIn(g, t, s)
    BY ValueInGrows
  <1>2. NodeIn(h, t, s) => NodeIn(g, t, s)
    BY RefersToGrows DEF NodeIn
  <1>3. NodeIn(h, t, s) => Kind(g, s, t.slot) = Kind(h, s, t.slot)
    BY DEF NodeIn, RefersTo, Grows
  <1> QED BY <1>1, <1>2, <1>3 DEF Suits

\* What suits a block is a term, and is not in the other half-space.
LEMMA SuitsTyped ==
  ASSUME NEW h, NEW kind \in Kinds \ {"TABLE"}, NEW m, NEW n, NEW t, NEW s \in Spaces,
         Suits(h, kind, m, n, t, s)
  PROVE  t \in Term /\ (t.space = Off \/ RefersTo(h, t, s))
  BY DEF Suits, ValueIn, NodeIn, OffValue, OffText, RefersTo, Kinds, Null, Term, Tags

\* t is what copy or copy_list_node returns for u: u itself if that is not on
\* the heap, else the copy its original was forwarded to.
MovesTo(h, T, u, t) ==
  \/ u \in Term /\ u.space = Off /\ t = u
  \/ /\ RefersTo(h, u, Other(T))
     /\ Fwd(h, Other(T), u.slot) # 0
     /\ t = Ref(u.tag, T, Fwd(h, Other(T), u.slot))

\* What is returned for u suits wherever u suited.
LEMMA SuitsMoved ==
  ASSUME NEW h \in Heaps, NEW T \in Spaces, NEW cs, MovedOK(h, T, cs),
         NEW u, NEW t, MovesTo(h, T, u, t)
  PROVE  /\ t \in Term
         /\ ValueIn(h, u, Other(T)) => ValueIn(h, t, T)
         /\ \A kind, m, n : Suits(h, kind, m, n, u, Other(T)) => Suits(h, kind, m, n, t, T)
  <1>0. Other(T) # Off /\ T # Off
    BY OtherSpace
  <1>1. CASE u \in Term /\ u.space = Off /\ t = u
    <2>1. ~RefersTo(h, u, Other(T))
      BY <1>0, <1>1 DEF RefersTo
    <2> QED BY <1>1, <2>1 DEF ValueIn, NodeIn, Suits
  <1>2. CASE /\ RefersTo(h, u, Other(T))
             /\ Fwd(h, Other(T), u.slot) # 0
             /\ t = Ref(u.tag, T, Fwd(h, Other(T), u.slot))
    <2> DEFINE k == u.slot
               f == Fwd(h, Other(T), k)
    <2>1. /\ k \in 1 .. Count(h, Other(T)) /\ u \in Term
          /\ u.tag = TagOf(Kind(h, Other(T), k)) /\ u.space = Other(T)
      BY <1>2 DEF RefersTo
    <2>2. f \in 1 .. Count(h, T) /\ Kind(h, T, f) = Kind(h, Other(T), k) /\ Count(h, T) \in Nat
      BY <1>2, <2>1, HeapTyped DEF MovedOK
    <2>3. t.tag = u.tag /\ t.space = T /\ t.slot = f
      BY <1>2 DEF Ref
    <2>4. t \in Term
      BY <1>2, <2>1, <2>2 DEF Ref, Term
    <2>5. RefersTo(h, t, T)
      BY <2>1, <2>2, <2>3, <2>4 DEF RefersTo
    <2>6. ~OffValue(u) /\ ~OffText(u) /\ u # Null
      BY <1>0, <2>1 DEF OffValue, OffText, Null
    <2>7. ValueIn(h, u, Other(T)) => ValueIn(h, t, T)
      BY <2>3, <2>5, <2>6 DEF ValueIn
    <2>8. NodeIn(h, u, Other(T)) => NodeIn(h, t, T)
      BY <2>3, <2>5 DEF NodeIn
    <2>9. Kind(h, T, t.slot) = Kind(h, Other(T), u.slot)
      BY <2>2, <2>3
    <2> QED BY <2>4, <2>6, <2>7, <2>8, <2>9 DEF Suits
  <1> QED BY <1>1, <1>2 DEF MovesTo

\* What a block of h holds, of half-space x, it holds in a heap that grew.
LEMMA WholeGrows ==
  ASSUME NEW h, NEW g, Grows(h, g), NEW x \in Spaces, NEW s, NEW k, Whole(h, s, k, x),
         NEW r, NEW l, Kind(g, r, l) = Kind(h, s, k), Arity(g, r, l) = Arity(h, s, k),
         \A n \in 1 .. Arity(h, s, k) : Kid(g, r, l, n) = Kid(h, s, k, n)
  PROVE  Whole(g, r, l, x)
  BY SuitsGrows DEF Whole

\* A block that is split between the half-spaces stays so.
LEMMA SplitGrows ==
  ASSUME NEW h, NEW g, Grows(h, g), NEW T \in Spaces, NEW s, NEW k, NEW m, Split(h, T, s, k, m),
         NEW r, NEW l, Kind(g, r, l) = Kind(h, s, k), Arity(g, r, l) = Arity(h, s, k),
         \A n \in 1 .. Arity(h, s, k) : Kid(g, r, l, n) = Kid(h, s, k, n)
  PROVE  Split(g, T, r, l, m)
  <1>1. Other(T) \in Spaces
    BY OtherSpace
  <1> QED BY <1>1, SuitsGrows DEF Split

-----------------------------------------------------------------------------
(* Activations *)

\* The block an activation is in is on the heap.
LEMMA HomeOnHeap ==
  ASSUME NEW h, NEW T, NEW cs, NEW regs, NEW sc, NEW cf, NEW rank,
         Collecting(h, T, cs, regs, sc, cf, rank), NEW i \in 1 .. Depth(cs)
  PROVE  LET s == HomeSpace(T, cs, i)
             k == HomeSlot(cs, i)
         IN  /\ s \in Spaces
             /\ k \in 1 .. Count(h, s)
             /\ s = T => CopyAt(cs, k) /\ Fn(cs, i) = "copy" /\ k = New(cs, i)
             /\ s # T => /\ s = Other(T)
                         /\ NodeAt(cs, k) /\ Fn(cs, i) = "copy_list_node" /\ k = Old(cs, i)
             /\ Arity(h, s, k) \in Nat /\ Loop(h, s, k) \in Int
             /\ Loop(h, s, k) <= Arity(h, s, k)
             /\ Child(cs, i) \in Nat /\ 1 <= Child(cs, i) /\ Child(cs, i) <= Loop(h, s, k) + 1
             /\ Kind(h, s, k) = Kind(h, Other(T), Old(cs, i))
  <1> DEFINE s == HomeSpace(T, cs, i)
             k == HomeSlot(cs, i)
  <1>1. /\ ActivationOK(h, T, cs, i) /\ h \in Heaps /\ T \in Spaces /\ cs \in Seq(Activation)
    BY DEF Collecting, StackOK, Typed
  <1>2. /\ Other(T) \in Spaces /\ Other(T) # T
        /\ Fn(cs, i) \in {"copy", "copy_list_node"}
    BY <1>1, OtherSpace, StackTyped
  <1>3. /\ s \in Spaces /\ k \in 1 .. Count(h, s)
        /\ s = T => CopyAt(cs, k) /\ Fn(cs, i) = "copy" /\ k = New(cs, i)
        /\ s # T => /\ s = Other(T)
                    /\ NodeAt(cs, k) /\ Fn(cs, i) = "copy_list_node" /\ k = Old(cs, i)
        /\ Kind(h, s, k) = Kind(h, Other(T), Old(cs, i))
    BY <1>1, <1>2 DEF ActivationOK, HomeSpace, HomeSlot, CopyAt, NodeAt
  <1>5. Child(cs, i) \in Nat /\ 1 <= Child(cs, i) /\ Child(cs, i) <= Loop(h, s, k) + 1
    BY <1>1, StackTyped DEF ActivationOK
  <1> HIDE DEF s, k
  <1>4. /\ Arity(h, s, k) \in Nat /\ Loop(h, s, k) \in Int
        /\ Loop(h, s, k) <= Arity(h, s, k)
    BY <1>1, <1>3, HeapTyped
  <1> QED BY <1>3, <1>4, <1>5 DEF s, k

\* No two activations are for the same block, or in the same block.
LEMMA HomesApart ==
  ASSUME NEW h, NEW T, NEW cs, NEW regs, NEW sc, NEW cf, NEW rank,
         Collecting(h, T, cs, regs, sc, cf, rank),
         NEW i \in 1 .. Depth(cs), NEW j \in 1 .. Depth(cs), i # j
  PROVE  /\ Old(cs, i) # Old(cs, j)
         /\ \/ HomeSpace(T, cs, i) # HomeSpace(T, cs, j)
            \/ HomeSlot(cs, i) # HomeSlot(cs, j)
  <1>1. /\ T \in Spaces /\ cs \in Seq(Activation) /\ CopiesApart(cs)
        /\ rank \in Ranks /\ RankedCalls(T, cs, rank)
    BY DEF Collecting, Typed
  <1>2. Other(T) \in Spaces /\ Other(T) # T
    BY <1>1, OtherSpace
  <1>3. /\ Old(cs, i) \in Nat /\ Old(cs, j) \in Nat /\ Depth(cs) \in Nat
    BY <1>1, StackTyped
  <1>4. /\ Rank(rank, Other(T), Old(cs, i)) \in Nat
        /\ Rank(rank, Other(T), Old(cs, j)) \in Nat
    BY <1>1, <1>2, <1>3 DEF Ranks, Rank
  <1>5. Old(cs, i) # Old(cs, j)
    BY <1>1, <1>3, <1>4 DEF RankedCalls
  <1>6. Fn(cs, i) = "copy" /\ Fn(cs, j) = "copy" => New(cs, i) # New(cs, j)
    BY <1>1 DEF CopiesApart
  <1> QED BY <1>2, <1>5, <1>6 DEF HomeSpace, HomeSlot

-----------------------------------------------------------------------------
(* A callee returns *)

\* The caller at the top of the stack is about to replace a child.
AtChild(h, T, cs) ==
  /\ cs # <<>>
  /\ Child(cs, Depth(cs)) <= Loop(h, HomeSpace(T, cs, Depth(cs)), HomeSlot(cs, Depth(cs)))

\* A callee returns t to a copy or a copy_list_node.
LEMMA ReturnToCopier ==
  ASSUME NEW h, NEW T, NEW cs, NEW regs, NEW sc, NEW cf, NEW rank,
         Collecting(h, T, cs, regs, sc, cf, rank), AtChild(h, T, cs), NEW t,
         MovesTo(h, T, OperandAt(h, T, cs, regs, sc, Depth(cs)), t), NEW g,
         KidChange(h, g, HomeSpace(T, cs, Depth(cs)), HomeSlot(cs, Depth(cs)),
                   Child(cs, Depth(cs)), t)
  PROVE  Collecting(g, T, Stepped(cs), regs, sc, cf, rank)
  <1> DEFINE z  == Depth(cs)
             p  == HomeSpace(T, cs, z)
             q  == HomeSlot(cs, z)
             n  == Child(cs, z)
             u  == OperandAt(h, T, cs, regs, sc, z)
             ds == Stepped(cs)
             F  == Other(T)
  <1>1. /\ Typed(h, T, cs, regs, sc, cf, rank) /\ BlocksOK(h)
        /\ RegistersOK(h, T, regs, sc, cf) /\ WhiteOK(h, T, cs) /\ GreyOK(h, T, cs)
        /\ BlackOK(h, T, cs) /\ MovedOK(h, T, cs) /\ StackOK(h, T, cs, regs, sc)
        /\ CopiesApart(cs) /\ RankedBlocks(h, T, rank) /\ RankedCopies(h, T, cs, rank)
        /\ RankedCalls(T, cs, rank) /\ RanksBounded(h, rank)
    BY DEF Collecting
  <1>2. h \in Heaps /\ T \in Spaces /\ cs \in Seq(Activation) /\ cs # <<>> /\ rank \in Ranks
    BY <1>1 DEF Typed, AtChild
  <1>3. F \in Spaces /\ F # T /\ F # Off /\ T # Off /\ \A s \in Spaces : s = T \/ s = F
    BY <1>2, OtherSpace
  <1>4. z \in Nat /\ z \in 1 .. z
    BY <1>2, StackTyped
  <1>5. /\ p \in Spaces /\ q \in 1 .. Count(h, p)
        /\ p = T => CopyAt(cs, q) /\ Fn(cs, z) = "copy" /\ q = New(cs, z)
        /\ p # T => p = F /\ NodeAt(cs, q) /\ Fn(cs, z) = "copy_list_node" /\ q = Old(cs, z)
        /\ Loop(h, p, q) <= Arity(h, p, q)
    BY <1>4, HomeOnHeap
  <1>6. /\ ds \in Seq(Activation) /\ Depth(ds) = z
        /\ \A i \in 1 .. z :
             /\ SameCall(cs, ds, i)
             /\ Child(ds, i) = IF i = z THEN Child(cs, i) + 1 ELSE Child(cs, i)
    BY <1>2, SteppedFacts
  <1>7. /\ Count(h, p) \in Nat /\ Arity(h, p, q) \in Nat /\ Loop(h, p, q) \in Int
        /\ n \in Nat /\ 1 <= n /\ n <= Loop(h, p, q)
    <2>1. ActivationOK(h, T, cs, z)
      BY <1>1, <1>4 DEF StackOK
    <2>2. /\ Count(h, p) \in Nat /\ Arity(h, p, q) \in Nat /\ Loop(h, p, q) \in Int
      BY <1>2, <1>5, HeapTyped
    <2>3. n \in Nat
      BY <1>2, <1>4, StackTyped
    <2> QED BY <2>1, <2>2, <2>3 DEF ActivationOK, AtChild
  <1>8. u = Kid(h, p, q, n)
    BY <1>4 DEF OperandAt
  <1>9. MovesTo(h, T, u, t) /\ KidChange(h, g, p, q, n, t)
    OBVIOUS
  <1>10. \A i \in 1 .. z : i # z =>
           /\ HomeSpace(T, cs, i) # p \/ HomeSlot(cs, i) # q
           /\ Old(cs, i) # Old(cs, z)
    BY <1>4, HomesApart
  <1>11. \A i \in 1 .. z : /\ HomeSpace(T, cs, i) \in Spaces
                           /\ HomeSlot(cs, i) \in 1 .. Count(h, HomeSpace(T, cs, i))
    BY HomeOnHeap
  <1> HIDE DEF z, p, q, n, u, ds, F
  <1>12. /\ t \in Term
         /\ \A kind, m, l : Suits(h, kind, m, l, u, F) => Suits(h, kind, m, l, t, T)
    BY <1>1, <1>2, <1>9, SuitsMoved DEF F
  <1>13. /\ g \in Heaps /\ \A x \in Spaces : Count(g, x) = Count(h, x)
         /\ \A x \in Spaces : \A l \in 1 .. Count(h, x) :
              /\ SameBut(h, g, x, l)
              /\ Fwd(g, x, l) = Fwd(h, x, l)
              /\ \A m \in 1 .. Arity(h, x, l) :
                   (x # p \/ l # q \/ m # n) => Kid(g, x, l, m) = Kid(h, x, l, m)
         /\ Kid(g, p, q, n) = t
    BY <1>9 DEF KidChange
  <1>14. Grows(h, g)
    BY <1>2, <1>13, HeapTyped DEF Grows, SameBut
  <1>15. \A k : (CopyAt(ds, k) <=> CopyAt(cs, k)) /\ (NodeAt(ds, k) <=> NodeAt(cs, k))
    BY <1>6 DEF CopyAt, NodeAt, SameCall, z
  <1>16. \A i \in 1 .. z : HomeSpace(T, ds, i) = HomeSpace(T, cs, i)
                           /\ HomeSlot(ds, i) = HomeSlot(cs, i)
    BY <1>6 DEF HomeSpace, HomeSlot, SameCall
  <1>17. /\ \A i \in 1 .. z : /\ ActivationOK(h, T, cs, i)
                              /\ HomeSpace(T, cs, i) = T \/ HomeSpace(T, cs, i) = F
         /\ p = T \/ Fwd(h, p, q) = 0
    <2>1. \A i \in 1 .. z : ActivationOK(h, T, cs, i)
      BY <1>1 DEF StackOK, z
    <2> QED BY <1>4, <1>5, <2>1 DEF ActivationOK, HomeSpace, F
  <1>t. Typed(g, T, ds, regs, sc, cf, rank)
    BY <1>1, <1>2, <1>6, <1>13 DEF Typed
  <1>b. BlocksOK(g)
    BY <1>1, <1>13 DEF BlocksOK, SameBut
  <1>r. RegistersOK(g, T, regs, sc, cf)
    BY <1>1, <1>2, <1>3, <1>14, ValueInGrows DEF RegistersOK, F
  <1>w. WhiteOK(g, T, ds)
    <2> SUFFICES ASSUME NEW k \in 1 .. Count(g, F), Fwd(g, F, k) = 0, ~NodeAt(ds, k)
                 PROVE  Whole(g, F, k, F)
      BY DEF WhiteOK, F
    <2>1. k \in 1 .. Count(h, F) /\ Whole(h, F, k, F)
      BY <1>1, <1>3, <1>13, <1>15 DEF WhiteOK, F
    <2>2. F # p \/ k # q
      BY <1>3, <1>5, <1>15
    <2> QED BY <1>3, <1>13, <1>14, <2>1, <2>2, WholeGrows DEF SameBut
  <1>k. BlackOK(g, T, ds)
    <2>1. ASSUME NEW k \in 1 .. Count(g, T), ~CopyAt(ds, k)
          PROVE  Whole(g, T, k, T)
      <3>1. k \in 1 .. Count(h, T) /\ Whole(h, T, k, T)
        BY <1>1, <1>2, <1>13, <1>15, <2>1 DEF BlackOK
      <3>2. T # p \/ k # q
        BY <1>5, <1>15, <2>1
      <3> QED BY <1>2, <1>13, <1>14, <3>1, <3>2, WholeGrows DEF SameBut
    <2>2. \A k \in 1 .. Count(g, T) : Fwd(g, T, k) = 0
      BY <1>1, <1>2, <1>13 DEF BlackOK
    <2> QED BY <2>1, <2>2 DEF BlackOK
  <1>g. GreyOK(g, T, ds)
    <2> SUFFICES ASSUME NEW i \in 1 .. z
                 PROVE  Split(g, T, HomeSpace(T, cs, i), HomeSlot(cs, i), Child(ds, i))
      BY <1>6, <1>16 DEF GreyOK
    <2>1. Split(h, T, HomeSpace(T, cs, i), HomeSlot(cs, i), Child(cs, i))
      BY <1>1 DEF GreyOK, z
    <2>2. CASE i # z
      <3>1. Child(ds, i) = Child(cs, i)
        BY <1>6, <2>2
      <3> QED BY <1>2, <1>10, <1>11, <1>13, <1>14, <2>1, <2>2, <3>1, SplitGrows DEF SameBut
    <2>3. CASE i = z
      <3>1. Split(h, T, p, q, n) /\ Child(ds, i) = n + 1
        BY <1>6, <2>1, <2>3 DEF p, q, n
      <3> SUFFICES ASSUME NEW l \in 1 .. Arity(g, p, q)
                   PROVE  Suits(g, Kind(g, p, q), Arity(g, p, q), l, Kid(g, p, q, l),
                                IF l < n + 1 THEN T ELSE F)
        BY <2>3, <3>1 DEF Split, p, q, F
      <3>2. Kind(g, p, q) = Kind(h, p, q) /\ Arity(g, p, q) = Arity(h, p, q)
        BY <1>5, <1>13 DEF SameBut
      <3>3. Suits(h, Kind(h, p, q), Arity(h, p, q), l, Kid(h, p, q, l), IF l < n THEN T ELSE F)
        BY <3>1, <3>2 DEF Split, F
      <3>4. CASE l = n
        BY <1>2, <1>7, <1>8, <1>12, <1>13, <1>14, <3>2, <3>3, <3>4, SuitsGrows
      <3>5. CASE l # n
        <4>1. Kid(g, p, q, l) = Kid(h, p, q, l)
          BY <1>5, <1>13, <3>2, <3>5
        <4>2. (l < n + 1) <=> (l < n)
          BY <1>7, <3>5
        <4> QED BY <1>2, <1>3, <1>14, <3>2, <3>3, <4>1, <4>2, SuitsGrows
      <3> QED BY <3>4, <3>5
    <2> QED BY <2>2, <2>3
  <1>m. MovedOK(g, T, ds)
    BY <1>1, <1>2, <1>3, <1>13, <1>15 DEF MovedOK, SameBut, F
  <1>s. StackOK(g, T, ds, regs, sc)
    <2> SUFFICES ASSUME NEW i \in 1 .. z
                 PROVE  /\ ActivationOK(g, T, ds, i)
                        /\ i < z => Child(ds, i) <= Loop(g, HomeSpace(T, ds, i), HomeSlot(ds, i))
                        /\ OperandAt(g, T, ds, regs, sc, i - 1).space = F
                        /\ OperandAt(g, T, ds, regs, sc, i - 1).slot = Old(ds, i)
      BY <1>6 DEF StackOK, F
    <2>1. Loop(g, HomeSpace(T, ds, i), HomeSlot(ds, i)) = Loop(h, HomeSpace(T, cs, i), HomeSlot(cs, i))
      BY <1>11, <1>13, <1>16 DEF SameBut
    <2>2. /\ ActivationOK(h, T, cs, i)
          /\ i < z => Child(cs, i) <= Loop(h, HomeSpace(T, cs, i), HomeSlot(cs, i))
          /\ OperandAt(h, T, cs, regs, sc, i - 1).space = F
          /\ OperandAt(h, T, cs, regs, sc, i - 1).slot = Old(cs, i)
      BY <1>1 DEF StackOK, z, F
    <2>3. SameCall(cs, ds, i) /\ Child(ds, i) = IF i = z THEN Child(cs, i) + 1 ELSE Child(cs, i)
      BY <1>6
    <2>4. i < z => Child(ds, i) <= Loop(g, HomeSpace(T, ds, i), HomeSlot(ds, i))
      BY <1>4, <2>1, <2>2, <2>3
    <2>5. 1 <= Child(ds, i) /\ Child(ds, i) <= Loop(g, HomeSpace(T, ds, i), HomeSlot(ds, i)) + 1
      <3>1. CASE i = z
        BY <1>7, <2>1, <2>3, <3>1 DEF n, p, q
      <3>2. CASE i # z
        BY <2>1, <2>2, <2>3, <3>2 DEF ActivationOK
      <3> QED BY <3>1, <3>2
    <2>6. ActivationOK(g, T, ds, i)
      BY <1>2, <1>3, <1>13, <2>2, <2>3, <2>5 DEF ActivationOK, SameCall, SameBut, F
    <2>7. OperandAt(g, T, ds, regs, sc, i - 1) = OperandAt(h, T, cs, regs, sc, i - 1)
      <3>1. CASE i = 1
        BY <3>1 DEF OperandAt
      <3>2. CASE i # 1
        <4> DEFINE j == i - 1
        <4>1. j \in 1 .. z /\ j # z /\ j < z /\ j # 0
          BY <1>4, <3>2
        <4> HIDE DEF j
        <4>2. /\ HomeSpace(T, ds, j) = HomeSpace(T, cs, j) /\ HomeSlot(ds, j) = HomeSlot(cs, j)
              /\ Child(ds, j) = Child(cs, j)
          BY <1>6, <1>16, <4>1
        <4>3. /\ Child(cs, j) <= Loop(h, HomeSpace(T, cs, j), HomeSlot(cs, j))
              /\ 1 <= Child(cs, j)
          BY <1>1, <4>1 DEF StackOK, ActivationOK, z
        <4>4. /\ Loop(h, HomeSpace(T, cs, j), HomeSlot(cs, j))
                   <= Arity(h, HomeSpace(T, cs, j), HomeSlot(cs, j))
              /\ Arity(h, HomeSpace(T, cs, j), HomeSlot(cs, j)) \in Nat
              /\ Loop(h, HomeSpace(T, cs, j), HomeSlot(cs, j)) \in Int
              /\ Child(cs, j) \in Nat
          BY <4>1, HomeOnHeap DEF z
        <4>5. Child(cs, j) \in 1 .. Arity(h, HomeSpace(T, cs, j), HomeSlot(cs, j))
          BY <4>3, <4>4
        <4>6. /\ HomeSpace(T, cs, j) \in Spaces
              /\ HomeSlot(cs, j) \in 1 .. Count(h, HomeSpace(T, cs, j))
              /\ HomeSpace(T, cs, j) # p \/ HomeSlot(cs, j) # q
          BY <1>10, <1>11, <4>1
        <4>7. Kid(g, HomeSpace(T, cs, j), HomeSlot(cs, j), Child(cs, j))
                = Kid(h, HomeSpace(T, cs, j), HomeSlot(cs, j), Child(cs, j))
          BY <1>13, <4>5, <4>6
        <4> QED BY <4>1, <4>2, <4>7 DEF OperandAt, j
      <3> QED BY <3>1, <3>2
    <2> QED BY <2>2, <2>3, <2>4, <2>6, <2>7 DEF SameCall
  <1>c. CopiesApart(ds)
    BY <1>1, <1>6 DEF CopiesApart, SameCall, z
  <1>k1. RankedBlocks(g, T, rank)
    <2> SUFFICES ASSUME NEW s \in Spaces, NEW k \in 1 .. Count(g, s), s = T \/ Fwd(g, s, k) = 0,
                        NEW l \in 1 .. Arity(g, s, k), Kid(g, s, k, l).space # Off
                 PROVE  Rank(rank, Kid(g, s, k, l).space, Kid(g, s, k, l).slot) < Rank(rank, s, k)
      BY DEF RankedBlocks
    <2>1. k \in 1 .. Count(h, s) /\ (s = T \/ Fwd(h, s, k) = 0) /\ l \in 1 .. Arity(h, s, k)
      BY <1>13 DEF SameBut
    <2>2. Kid(h, s, k, l).space # Off =>
            Rank(rank, Kid(h, s, k, l).space, Kid(h, s, k, l).slot) < Rank(rank, s, k)
      BY <1>1, <2>1 DEF RankedBlocks
    <2>3. CASE s = p /\ k = q /\ l = n
      <3>1. Kid(g, s, k, l) = t /\ Kid(h, s, k, l) = u
        BY <1>8, <1>13, <2>3
      <3>2. CASE t = u
        BY <2>2, <3>1, <3>2
      <3>3. CASE /\ RefersTo(h, u, F)
                 /\ Fwd(h, F, u.slot) # 0
                 /\ t = Ref(u.tag, T, Fwd(h, F, u.slot))
        <4>1. /\ u.space = F /\ t.space = T /\ t.slot = Fwd(h, F, u.slot)
              /\ u.slot \in 1 .. Count(h, F)
          BY <3>3 DEF RefersTo, Ref
        <4>2. Rank(rank, t.space, t.slot) = Rank(rank, u.space, u.slot)
          BY <1>1, <3>3, <4>1 DEF RankedCopies, F
        <4> QED BY <1>3, <2>2, <3>1, <4>1, <4>2
      <3> QED BY <1>9, <3>2, <3>3 DEF MovesTo, F
    <2>4. CASE ~(s = p /\ k = q /\ l = n)
      <3>1. Kid(g, s, k, l) = Kid(h, s, k, l)
        BY <1>13, <2>1, <2>4
      <3> QED BY <2>2, <3>1
    <2> QED BY <2>3, <2>4
  <1>k2. RankedCopies(g, T, ds, rank)
    BY <1>1, <1>2, <1>3, <1>6, <1>13 DEF RankedCopies, SameCall, F, z
  <1>k3. RankedCalls(T, ds, rank)
    BY <1>1, <1>6 DEF RankedCalls, SameCall, z
  <1>k4. RanksBounded(g, rank)
    BY <1>1, <1>13 DEF RanksBounded
  <1> QED
    BY <1>t, <1>b, <1>r, <1>w, <1>g, <1>k, <1>m, <1>s, <1>c, <1>k1, <1>k2, <1>k3, <1>k4
    DEF Collecting, ds

\* What gc_collect's loops go on with after register j of frame i.
After(sc, tc) == /\ tc \in [i : Nat, j : Regs]
                 /\ IF sc.j < RegisterCount - 1 THEN tc.i = sc.i /\ tc.j = sc.j + 1
                    ELSE tc.i = sc.i + 1 /\ tc.j = 0

\* A callee returns t to gc_collect.
LEMMA ReturnToRegisters ==
  ASSUME NEW h, NEW T, NEW cs, NEW regs, NEW sc, NEW cf, NEW rank,
         Collecting(h, T, cs, regs, sc, cf, rank), cs = <<>>, sc.i <= cf, NEW t,
         MovesTo(h, T, Reg(regs, sc.i, sc.j), t),
         NEW tc, After(sc, tc)
  PROVE  Collecting(h, T, cs, [regs EXCEPT ![sc.i][sc.j] = t], tc, cf, rank)
  <1> DEFINE rs == [regs EXCEPT ![sc.i][sc.j] = t]
             F  == Other(T)
  <1>1. /\ Typed(h, T, cs, regs, sc, cf, rank) /\ BlocksOK(h)
        /\ RegistersOK(h, T, regs, sc, cf) /\ WhiteOK(h, T, cs) /\ GreyOK(h, T, cs)
        /\ BlackOK(h, T, cs) /\ MovedOK(h, T, cs) /\ StackOK(h, T, cs, regs, sc)
        /\ CopiesApart(cs) /\ RankedBlocks(h, T, rank) /\ RankedCopies(h, T, cs, rank)
        /\ RankedCalls(T, cs, rank) /\ RanksBounded(h, rank)
    BY DEF Collecting
  <1>2. /\ h \in Heaps /\ T \in Spaces /\ cs \in Seq(Activation) /\ cf \in Frames
        /\ regs \in [Frames -> [Regs -> Term]] /\ sc.i \in Nat /\ sc.j \in Regs
    BY <1>1 DEF Typed
  <1>3. F \in Spaces
    BY <1>2, OtherSpace
  <1>4. /\ t \in Term
        /\ ValueIn(h, Reg(regs, sc.i, sc.j), F) => ValueIn(h, t, T)
    BY <1>1, <1>2, SuitsMoved DEF F
  <1>5. cf \in Nat /\ cf < StackDepth /\ StackDepth \in Nat /\ RegisterCount \in Nat \ {0}
    BY <1>2, GcAssumption DEF Frames
  <1>6. sc.i \in Frames /\ sc.i \in 0 .. cf
    BY <1>2, <1>5 DEF Frames
  <1>7. /\ rs \in [Frames -> [Regs -> Term]]
        /\ Reg(rs, sc.i, sc.j) = t
        /\ \A i \in Frames, j \in Regs : (i # sc.i \/ j # sc.j) => Reg(rs, i, j) = Reg(regs, i, j)
    BY <1>2, <1>4, <1>6 DEF Reg
  <1> HIDE DEF rs, F
  <1>8. Depth(cs) = 0
    BY <1>2, StackTyped
  <1>t. Typed(h, T, cs, rs, tc, cf, rank)
    BY <1>1, <1>7 DEF Typed, After
  <1>r. RegistersOK(h, T, rs, tc, cf)
    <2> SUFFICES ASSUME NEW i \in 0 .. cf, NEW j \in Regs
                 PROVE  ValueIn(h, Reg(rs, i, j), IF Scanned(tc, i, j) THEN T ELSE F)
      BY DEF RegistersOK, F
    <2>1. i \in Frames /\ i \in Nat /\ j \in Nat /\ j <= RegisterCount - 1
      BY <1>5 DEF Frames, Regs
    <2>2. Scanned(tc, i, j) <=> Scanned(sc, i, j) \/ (i = sc.i /\ j = sc.j)
      <3>1. sc.j \in Nat /\ sc.j <= RegisterCount - 1
        BY <1>2, <1>5 DEF Regs
      <3> QED BY <1>2, <1>5, <2>1, <3>1 DEF Scanned, After
    <2>3. ValueIn(h, Reg(regs, i, j), IF Scanned(sc, i, j) THEN T ELSE F)
      BY <1>1 DEF RegistersOK, F
    <2>4. CASE i = sc.i /\ j = sc.j
      <3>1. ~Scanned(sc, i, j)
        BY <1>2, <2>1, <2>4 DEF Scanned
      <3> QED BY <1>4, <1>7, <2>2, <2>3, <2>4, <3>1
    <2>5. CASE ~(i = sc.i /\ j = sc.j)
      BY <1>7, <2>1, <2>2, <2>3, <2>5
    <2> QED BY <2>4, <2>5
  <1>s. StackOK(h, T, cs, rs, tc)
    BY <1>8 DEF StackOK
  <1> QED BY <1>1, <1>t, <1>r, <1>s DEF Collecting, rs

\* The term a callee is called for is one of the original half-space.
LEMMA OperandSuits ==
  ASSUME NEW h, NEW T, NEW cs, NEW regs, NEW sc, NEW cf, NEW rank,
         Collecting(h, T, cs, regs, sc, cf, rank), NEW i \in 0 .. Depth(cs),
         i = 0 => sc.i <= cf,
         i # 0 => Child(cs, i) <= Loop(h, HomeSpace(T, cs, i), HomeSlot(cs, i))
  PROVE  LET t == OperandAt(h, T, cs, regs, sc, i)
         IN  /\ t \in Term
             /\ t.space = Off \/ RefersTo(h, t, Other(T))
             /\ IF i # 0 /\ Kind(h, HomeSpace(T, cs, i), HomeSlot(cs, i)) \in {"RRB", "INTERNAL"}
                THEN t = Null \/ NodeIn(h, t, Other(T))
                ELSE ValueIn(h, t, Other(T))
  <1> DEFINE t == OperandAt(h, T, cs, regs, sc, i)
             F == Other(T)
             p == HomeSpace(T, cs, i)
             q == HomeSlot(cs, i)
  <1>1. /\ Typed(h, T, cs, regs, sc, cf, rank) /\ RegistersOK(h, T, regs, sc, cf)
        /\ GreyOK(h, T, cs) /\ BlocksOK(h)
    BY DEF Collecting
  <1>2. /\ h \in Heaps /\ T \in Spaces /\ cs \in Seq(Activation) /\ cf \in Frames
        /\ sc.i \in Nat /\ sc.j \in Regs
    BY <1>1 DEF Typed
  <1>3. F \in Spaces /\ Depth(cs) \in Nat
    BY <1>2, OtherSpace, StackTyped
  <1> SUFFICES IF i # 0 /\ Kind(h, p, q) \in {"RRB", "INTERNAL"}
               THEN t = Null \/ NodeIn(h, t, F)
               ELSE ValueIn(h, t, F)
    <2>1. ValueIn(h, t, F) => t \in Term /\ (t.space = Off \/ RefersTo(h, t, F))
      BY DEF ValueIn, OffValue, RefersTo
    <2>2. NodeIn(h, t, F) => t \in Term /\ RefersTo(h, t, F)
      BY DEF NodeIn, RefersTo
    <2>3. Null \in Term /\ Null.space = Off
      BY DEF Null, Term, Tags
    <2> HIDE DEF t, F, p, q
    <2> QED BY <2>1, <2>2, <2>3 DEF t, F, p, q
  <1>4. CASE i = 0
    <2>1. cf \in Nat /\ sc.i \in 0 .. cf
      BY <1>2, <1>4, GcAssumption DEF Frames
    <2>2. sc.j \in Nat
      BY <1>2, GcAssumption DEF Regs
    <2>3. ~Scanned(sc, sc.i, sc.j)
      BY <1>2, <2>2 DEF Scanned
    <2> QED BY <1>1, <1>2, <1>4, <2>1, <2>3 DEF RegistersOK, OperandAt
  <1>5. CASE i # 0
    <2>1. i \in 1 .. Depth(cs)
      BY <1>3, <1>5
    <2>2. /\ p \in Spaces /\ q \in 1 .. Count(h, p)
          /\ Arity(h, p, q) \in Nat /\ Loop(h, p, q) \in Int /\ Loop(h, p, q) <= Arity(h, p, q)
          /\ Child(cs, i) \in Nat /\ 1 <= Child(cs, i) /\ Child(cs, i) <= Loop(h, p, q)
      BY <1>5, <2>1, HomeOnHeap
    <2> DEFINE n == Child(cs, i)
    <2>3. n \in 1 .. Arity(h, p, q) /\ Split(h, T, p, q, n) /\ t = Kid(h, p, q, n)
      BY <1>1, <1>5, <2>1, <2>2 DEF GreyOK, OperandAt
    <2> HIDE DEF t, F, p, q, n
    <2>4. Suits(h, Kind(h, p, q), Arity(h, p, q), n, t, F)
      BY <2>2, <2>3 DEF Split, F, n
    <2>5. /\ Kind(h, p, q) \in Kinds
          /\ Loop(h, p, q) = IF Kind(h, p, q) \in {"STRING", "TABLE"} THEN 0
                             ELSE IF Kind(h, p, q) = "INTERNAL" THEN Arity(h, p, q) - 1
                             ELSE Arity(h, p, q)
      BY <1>2, <2>2, HeapTyped
    <2>6. Kind(h, p, q) \notin {"STRING", "TABLE"} /\ (Kind(h, p, q) = "INTERNAL" => n # Arity(h, p, q))
      BY <2>2, <2>5 DEF n
    <2> QED BY <1>5, <2>4, <2>5, <2>6 DEF Suits, Kinds
  <1> QED BY <1>4, <1>5

\* The children of any block that is not left behind are on the heap.
LEMMA KidRefers ==
  ASSUME NEW h, NEW T, NEW cs, NEW regs, NEW sc, NEW cf, NEW rank,
         Collecting(h, T, cs, regs, sc, cf, rank),
         NEW s \in Spaces, NEW k \in 1 .. Count(h, s), s = T \/ Fwd(h, s, k) = 0,
         NEW n \in 1 .. Arity(h, s, k)
  PROVE  LET t == Kid(h, s, k, n)
         IN  t.space = Off \/ RefersTo(h, t, T) \/ RefersTo(h, t, Other(T))
  <1> DEFINE t == Kid(h, s, k, n)
             F == Other(T)
  <1>1. /\ h \in Heaps /\ T \in Spaces /\ WhiteOK(h, T, cs) /\ GreyOK(h, T, cs)
        /\ BlackOK(h, T, cs) /\ BlocksOK(h)
    BY DEF Collecting, Typed
  <1>2. F \in Spaces /\ F # T /\ (s = T \/ s = F)
    BY <1>1, OtherSpace
  <1>3. Kind(h, s, k) \in Kinds \ {"TABLE"}
    BY <1>1, HeapTyped DEF BlocksOK, BlockOK
  <1>4. ASSUME NEW x \in {T, F}, Suits(h, Kind(h, s, k), Arity(h, s, k), n, t, x)
        PROVE  t.space = Off \/ RefersTo(h, t, T) \/ RefersTo(h, t, F)
    BY <1>1, <1>2, <1>3, <1>4, SuitsTyped
  <1>5. CASE Whole(h, s, k, T) \/ Whole(h, s, k, F)
    BY <1>4, <1>5 DEF Whole
  <1>6. ASSUME NEW i \in 1 .. Depth(cs), HomeSpace(T, cs, i) = s, HomeSlot(cs, i) = k
        PROVE  t.space = Off \/ RefersTo(h, t, T) \/ RefersTo(h, t, F)
    BY <1>1, <1>4, <1>6 DEF GreyOK, Split
  <1>7. CASE s = T
    <2>1. CASE CopyAt(cs, k)
      BY <1>6, <1>7, <2>1 DEF CopyAt, HomeSpace, HomeSlot
    <2> QED BY <1>1, <1>5, <1>7, <2>1 DEF BlackOK
  <1>8. CASE s = F
    <2>1. CASE NodeAt(cs, k)
      BY <1>6, <1>8, <2>1 DEF NodeAt, HomeSpace, HomeSlot
    <2> QED BY <1>1, <1>2, <1>5, <1>8, <2>1 DEF WhiteOK
  <1> QED BY <1>2, <1>7, <1>8

\* What the activation on top is called for ranks below what any is in.
LEMMA OperandBelow ==
  ASSUME NEW h, NEW T, NEW cs, NEW regs, NEW sc, NEW cf, NEW rank,
         Collecting(h, T, cs, regs, sc, cf, rank), AtChild(h, T, cs),
         OperandAt(h, T, cs, regs, sc, Depth(cs)).space = Other(T),
         NEW i \in 1 .. Depth(cs)
  PROVE  Rank(rank, Other(T), OperandAt(h, T, cs, regs, sc, Depth(cs)).slot)
           < Rank(rank, Other(T), Old(cs, i))
  <1> DEFINE z == Depth(cs)
             p == HomeSpace(T, cs, z)
             q == HomeSlot(cs, z)
             n == Child(cs, z)
             t == OperandAt(h, T, cs, regs, sc, z)
             F == Other(T)
  <1>1. /\ Typed(h, T, cs, regs, sc, cf, rank) /\ RankedBlocks(h, T, rank)
        /\ RankedCopies(h, T, cs, rank) /\ RankedCalls(T, cs, rank) /\ StackOK(h, T, cs, regs, sc)
    BY DEF Collecting
  <1>2. h \in Heaps /\ T \in Spaces /\ cs \in Seq(Activation) /\ rank \in Ranks /\ cs # <<>>
    BY <1>1 DEF Typed, AtChild
  <1>3. F \in Spaces /\ F # T /\ F # Off
    BY <1>2, OtherSpace
  <1>4. z \in Nat /\ z \in 1 .. Depth(cs)
    BY <1>2, StackTyped
  <1>5. /\ p \in Spaces /\ q \in 1 .. Count(h, p)
        /\ p = T => Fn(cs, z) = "copy" /\ q = New(cs, z)
        /\ p # T => p = F /\ q = Old(cs, z)
        /\ n \in 1 .. Arity(h, p, q)
    <2>1. n <= Loop(h, p, q)
      BY DEF AtChild
    <2> QED BY <1>4, <2>1, HomeOnHeap
  <1>6. t = Kid(h, p, q, n) /\ t.space = F
    BY <1>4 DEF OperandAt
  <1> HIDE DEF p, q, n, t, F
  <1>7. p = T \/ Fwd(h, p, q) = 0
    BY <1>1, <1>4, <1>5 DEF StackOK, ActivationOK, F
  <1>8. Rank(rank, F, t.slot) < Rank(rank, p, q)
    BY <1>1, <1>3, <1>5, <1>6, <1>7 DEF RankedBlocks
  <1>9. Rank(rank, p, q) = Rank(rank, F, Old(cs, z))
    BY <1>1, <1>4, <1>5 DEF RankedCopies, F
  <1>10. i # z => Rank(rank, F, Old(cs, z)) < Rank(rank, F, Old(cs, i))
    BY <1>1, <1>4 DEF RankedCalls, F, z
  <1>11. t.slot \in Nat
    <2>1. t.space = Off \/ RefersTo(h, t, T) \/ RefersTo(h, t, F)
      BY <1>5, <1>6, <1>7, KidRefers DEF F
    <2>2. Count(h, T) \in Nat /\ Count(h, F) \in Nat
      BY <1>2, <1>3, HeapTyped
    <2> QED BY <1>3, <1>6, <2>1, <2>2 DEF RefersTo
  <1>12. \A m \in Nat : Rank(rank, F, m) \in Nat
    BY <1>2, <1>3 DEF Rank, Ranks
  <1>13. Old(cs, i) \in Nat /\ Old(cs, z) \in Nat
    BY <1>2, <1>4, StackTyped
  <1>14. Rank(rank, F, t.slot) < Rank(rank, F, Old(cs, i))
    BY <1>8, <1>9, <1>10, <1>11, <1>12, <1>13
  <1> QED BY <1>14 DEF t, F

-----------------------------------------------------------------------------
(* copy has visited all it copied, and forwards the original *)

\* copy returns: its original is forwarded, and the caller's term moves to the copy.
LEMMA LeaveCopyCollecting ==
  ASSUME NEW h, NEW T, NEW cs, NEW regs, NEW sc, NEW cf, NEW rank,
         Collecting(h, T, cs, regs, sc, cf, rank), cs # <<>>, ~AtChild(h, T, cs),
         Fn(cs, Depth(cs)) = "copy", NEW g,
         FwdChange(h, g, Other(T), Old(cs, Depth(cs)), New(cs, Depth(cs)))
  PROVE  LET ds == Pop(cs)
             t  == OperandAt(g, T, ds, regs, sc, Depth(ds))
         IN  /\ Collecting(g, T, ds, regs, sc, cf, rank)
             /\ MovesTo(g, T, t, Ref(t.tag, T, New(cs, Depth(cs))))
             /\ ds # <<>> => AtChild(g, T, ds)
  <1> DEFINE z  == Depth(cs)
             o  == Old(cs, z)
             c  == New(cs, z)
             ds == Pop(cs)
             y  == Depth(ds)
             t  == OperandAt(g, T, ds, regs, sc, y)
             F  == Other(T)
  <1>1. /\ Typed(h, T, cs, regs, sc, cf, rank) /\ BlocksOK(h)
        /\ RegistersOK(h, T, regs, sc, cf) /\ WhiteOK(h, T, cs) /\ GreyOK(h, T, cs)
        /\ BlackOK(h, T, cs) /\ MovedOK(h, T, cs) /\ StackOK(h, T, cs, regs, sc)
        /\ CopiesApart(cs) /\ RankedBlocks(h, T, rank) /\ RankedCopies(h, T, cs, rank)
        /\ RankedCalls(T, cs, rank) /\ RanksBounded(h, rank)
    BY DEF Collecting
  <1>2. h \in Heaps /\ T \in Spaces /\ cs \in Seq(Activation) /\ cs # <<>> /\ sc.i <= cf
    BY <1>1 DEF Typed
  <1>3. F \in Spaces /\ F # T /\ F # Off /\ T # Off /\ \A s \in Spaces : s = T \/ s = F
    BY <1>2, OtherSpace
  <1>4. z \in Nat /\ z \in 1 .. z
    BY <1>2, StackTyped
  <1>5. /\ ds \in Seq(Activation) /\ y = z - 1 /\ (ds = <<>> <=> y = 0)
        /\ \A i \in 1 .. y : SameCall(cs, ds, i) /\ Child(ds, i) = Child(cs, i)
    BY <1>2, PoppedFacts, StackTyped
  <1>6. /\ Fn(cs, z) = "copy" /\ c \in 1 .. Count(h, T) /\ o \in 1 .. Count(h, F)
        /\ Kind(h, T, c) = Kind(h, F, o) /\ Kind(h, T, c) \in {"TUPLE", "FUNCTION", "STRING", "RRB"}
        /\ Fwd(h, F, o) = 0 /\ c # 0
        /\ HomeSpace(T, cs, z) = T /\ HomeSlot(cs, z) = c
    <2>1. ActivationOK(h, T, cs, z)
      BY <1>1, <1>4 DEF StackOK
    <2>2. Count(h, T) \in Nat
      BY <1>2, HeapTyped
    <2> QED BY <2>1, <2>2 DEF ActivationOK, HomeSpace, HomeSlot
  <1>7. FwdChange(h, g, F, o, c)
    OBVIOUS
  <1>8. \A i \in 1 .. y : i \in 1 .. z /\ i # z /\ i < z
    BY <1>4, <1>5
  <1>9. \A i \in 1 .. y : Old(cs, i) # o
    BY <1>4, <1>8, HomesApart
  <1>10. \A k : CopyAt(cs, k) <=> CopyAt(ds, k) \/ k = c
    <2>1. \A i \in 1 .. z : i = z \/ i \in 1 .. y
      BY <1>4, <1>5
    <2> QED BY <1>4, <1>5, <1>6, <1>8, <2>1 DEF CopyAt, SameCall
  <1>11. \A k : NodeAt(cs, k) <=> NodeAt(ds, k)
    <2>1. \A i \in 1 .. z : i = z \/ i \in 1 .. y
      BY <1>4, <1>5
    <2> QED BY <1>4, <1>5, <1>6, <1>8, <2>1 DEF NodeAt, SameCall
  <1>12. ~CopyAt(ds, c)
    BY <1>1, <1>4, <1>5, <1>6, <1>8 DEF CopiesApart, CopyAt, SameCall
  <1>13. Child(cs, z) \in Nat /\ ~(Child(cs, z) <= Loop(h, T, c))
    BY <1>2, <1>4, <1>6, StackTyped DEF AtChild
  <1>14. \A i \in 1 .. y : /\ HomeSpace(T, ds, i) = HomeSpace(T, cs, i)
                           /\ HomeSlot(ds, i) = HomeSlot(cs, i)
    BY <1>5 DEF HomeSpace, HomeSlot, SameCall
  <1>15. \A i \in 1 .. y : /\ HomeSpace(T, cs, i) \in Spaces
                           /\ HomeSlot(cs, i) \in 1 .. Count(h, HomeSpace(T, cs, i))
    BY <1>8, HomeOnHeap
  <1> HIDE DEF z, o, c, ds, y, t, F
  <1>16. /\ g \in Heaps /\ \A x \in Spaces : Count(g, x) = Count(h, x)
         /\ \A x \in Spaces : \A l \in 1 .. Count(h, x) :
              /\ SameBut(h, g, x, l)
              /\ \A m : Kid(g, x, l, m) = Kid(h, x, l, m)
              /\ (x # F \/ l # o) => Fwd(g, x, l) = Fwd(h, x, l)
         /\ Fwd(g, F, o) = c
    BY <1>7 DEF FwdChange
  <1>17. Grows(h, g)
    BY <1>2, <1>16, HeapTyped DEF Grows, SameBut
  <1>18. \A i \in 0 .. y : OperandAt(g, T, ds, regs, sc, i) = OperandAt(h, T, cs, regs, sc, i)
    <2> TAKE i \in 0 .. y
    <2>1. CASE i = 0
      BY <2>1 DEF OperandAt
    <2>2. CASE i # 0
      <3>1. i \in 1 .. y
        BY <1>4, <1>5, <2>2
      <3> QED BY <1>5, <1>14, <1>15, <1>16, <2>2, <3>1 DEF OperandAt
    <2> QED BY <2>1, <2>2
  <1>t. Typed(g, T, ds, regs, sc, cf, rank)
    BY <1>1, <1>2, <1>5, <1>16 DEF Typed
  <1>b. BlocksOK(g)
    BY <1>1, <1>16 DEF BlocksOK, SameBut
  <1>r. RegistersOK(g, T, regs, sc, cf)
    BY <1>1, <1>2, <1>3, <1>17, ValueInGrows DEF RegistersOK, F
  <1>w. WhiteOK(g, T, ds)
    <2> SUFFICES ASSUME NEW k \in 1 .. Count(g, F), Fwd(g, F, k) = 0, ~NodeAt(ds, k)
                 PROVE  Whole(g, F, k, F)
      BY DEF WhiteOK, F
    <2>1. k \in 1 .. Count(h, F) /\ Fwd(h, F, k) = 0
      BY <1>3, <1>6, <1>16
    <2>2. Whole(h, F, k, F)
      BY <1>1, <1>11, <2>1 DEF WhiteOK, F
    <2> QED BY <1>3, <1>16, <1>17, <2>1, <2>2, WholeGrows DEF SameBut
  <1>g. GreyOK(g, T, ds)
    <2> SUFFICES ASSUME NEW i \in 1 .. y
                 PROVE  Split(g, T, HomeSpace(T, cs, i), HomeSlot(cs, i), Child(cs, i))
      BY <1>5, <1>14 DEF GreyOK, y
    <2>1. Split(h, T, HomeSpace(T, cs, i), HomeSlot(cs, i), Child(cs, i))
      BY <1>1, <1>8 DEF GreyOK, z
    <2> QED BY <1>2, <1>15, <1>16, <1>17, <2>1, SplitGrows DEF SameBut
  <1>k. BlackOK(g, T, ds)
    <2>1. ASSUME NEW k \in 1 .. Count(g, T), ~CopyAt(ds, k)
          PROVE  Whole(h, T, k, T)
      <3>1. CASE k # c
        BY <1>1, <1>2, <1>10, <1>16, <2>1, <3>1 DEF BlackOK
      <3>2. CASE k = c
        <4>1. Split(h, T, T, c, Child(cs, z))
          BY <1>1, <1>4, <1>6 DEF GreyOK, z
        <4>2. /\ Arity(h, T, c) \in Nat
              /\ Loop(h, T, c) = IF Kind(h, T, c) = "STRING" THEN 0 ELSE Arity(h, T, c)
          BY <1>2, <1>6, HeapTyped
        <4>3. CASE Kind(h, T, c) = "STRING"
          BY <3>2, <4>1, <4>3 DEF Split, Whole, Suits
        <4>4. CASE Kind(h, T, c) # "STRING"
          <5>1. \A n \in 1 .. Arity(h, T, c) : n < Child(cs, z)
            BY <1>13, <4>2, <4>4
          <5> QED BY <3>2, <4>1, <5>1 DEF Split, Whole
        <4> QED BY <4>3, <4>4
      <3> QED BY <3>1, <3>2
    <2>2. ASSUME NEW k \in 1 .. Count(g, T), ~CopyAt(ds, k)
          PROVE  Whole(g, T, k, T)
      BY <1>2, <1>16, <1>17, <2>1, <2>2, WholeGrows DEF SameBut
    <2>3. \A k \in 1 .. Count(g, T) : Fwd(g, T, k) = 0
      BY <1>1, <1>2, <1>3, <1>16 DEF BlackOK
    <2> QED BY <2>2, <2>3 DEF BlackOK
  <1>m. MovedOK(g, T, ds)
    <2> SUFFICES ASSUME NEW k \in 1 .. Count(h, F), Fwd(g, F, k) # 0
                 PROVE  /\ Fwd(g, F, k) \in 1 .. Count(h, T)
                        /\ Kind(h, T, Fwd(g, F, k)) = Kind(h, F, k)
                        /\ ~CopyAt(ds, Fwd(g, F, k))
                        /\ \A l \in 1 .. Count(h, F) : Fwd(g, F, l) = Fwd(g, F, k) => l = k
      BY <1>2, <1>3, <1>16 DEF MovedOK, SameBut, F
    <2>1. \A l \in 1 .. Count(h, F) : Fwd(h, F, l) # 0 =>
            /\ Fwd(h, F, l) \in 1 .. Count(h, T)
            /\ Kind(h, T, Fwd(h, F, l)) = Kind(h, F, l)
            /\ ~CopyAt(cs, Fwd(h, F, l))
            /\ \A m \in 1 .. Count(h, F) : Fwd(h, F, m) = Fwd(h, F, l) => m = l
      BY <1>1 DEF MovedOK, F
    <2>2. CopyAt(cs, c)
      BY <1>10
    <2>3. CASE k = o
      BY <1>3, <1>6, <1>12, <1>16, <2>1, <2>2, <2>3
    <2>4. CASE k # o
      BY <1>3, <1>6, <1>10, <1>16, <2>1, <2>2, <2>4
    <2> QED BY <2>3, <2>4
  <1>s. StackOK(g, T, ds, regs, sc)
    <2> SUFFICES ASSUME NEW i \in 1 .. y
                 PROVE  /\ ActivationOK(g, T, ds, i)
                        /\ i < y => Child(ds, i) <= Loop(g, HomeSpace(T, ds, i), HomeSlot(ds, i))
                        /\ OperandAt(g, T, ds, regs, sc, i - 1).space = F
                        /\ OperandAt(g, T, ds, regs, sc, i - 1).slot = Old(ds, i)
      BY DEF StackOK, F, y
    <2>1. /\ ActivationOK(h, T, cs, i)
          /\ Child(cs, i) <= Loop(h, HomeSpace(T, cs, i), HomeSlot(cs, i))
          /\ OperandAt(h, T, cs, regs, sc, i - 1).space = F
          /\ OperandAt(h, T, cs, regs, sc, i - 1).slot = Old(cs, i)
      BY <1>1, <1>8 DEF StackOK, z, F
    <2>2. Loop(g, HomeSpace(T, ds, i), HomeSlot(ds, i)) = Loop(h, HomeSpace(T, cs, i), HomeSlot(cs, i))
      BY <1>14, <1>15, <1>16 DEF SameBut
    <2>3. SameCall(cs, ds, i) /\ Child(ds, i) = Child(cs, i) /\ Old(cs, i) # o
      BY <1>5, <1>9
    <2>4. ActivationOK(g, T, ds, i)
      BY <1>2, <1>3, <1>16, <2>1, <2>2, <2>3 DEF ActivationOK, SameCall, SameBut, F
    <2>5. i - 1 \in 0 .. y
      BY <1>4, <1>5
    <2> QED BY <1>18, <2>1, <2>2, <2>3, <2>4, <2>5 DEF SameCall
  <1>c. CopiesApart(ds)
    BY <1>1, <1>5, <1>8 DEF CopiesApart, SameCall, y, z
  <1>k1. RankedBlocks(g, T, rank)
    <2>1. \A s \in Spaces : \A k \in 1 .. Count(g, s) :
            s = T \/ Fwd(g, s, k) = 0 => s = T \/ Fwd(h, s, k) = 0
      BY <1>6, <1>16
    <2> QED BY <1>1, <1>16, <2>1 DEF RankedBlocks, SameBut
  <1>k2. RankedCopies(g, T, ds, rank)
    <2>1. Rank(rank, T, c) = Rank(rank, F, o)
      BY <1>1, <1>4, <1>6 DEF RankedCopies, F, c, o, z
    <2>2. \A k \in 1 .. Count(g, F) : Fwd(g, F, k) # 0 => Rank(rank, T, Fwd(g, F, k)) = Rank(rank, F, k)
      BY <1>1, <1>3, <1>16, <2>1 DEF RankedCopies, F
    <2>3. \A i \in 1 .. y : Fn(ds, i) = "copy" => Rank(rank, T, New(ds, i)) = Rank(rank, F, Old(ds, i))
      BY <1>1, <1>5, <1>8 DEF RankedCopies, SameCall, F, z
    <2> QED BY <2>2, <2>3 DEF RankedCopies, F, y
  <1>k3. RankedCalls(T, ds, rank)
    BY <1>1, <1>5, <1>8 DEF RankedCalls, SameCall, y, z
  <1>k4. RanksBounded(g, rank)
    BY <1>1, <1>16 DEF RanksBounded
  <1>19. Collecting(g, T, ds, regs, sc, cf, rank)
    BY <1>t, <1>b, <1>r, <1>w, <1>g, <1>k, <1>m, <1>s, <1>c, <1>k1, <1>k2, <1>k3, <1>k4
    DEF Collecting
  <1>20. ds # <<>> => AtChild(g, T, ds)
    <2> SUFFICES ASSUME ds # <<>>
                 PROVE  AtChild(g, T, ds)
      OBVIOUS
    <2>1. y \in 1 .. y
      BY <1>4, <1>5
    <2>2. Child(cs, y) <= Loop(h, HomeSpace(T, cs, y), HomeSlot(cs, y))
      BY <1>1, <1>8, <2>1 DEF StackOK, z
    <2> QED BY <1>5, <1>14, <1>15, <1>16, <2>1, <2>2 DEF AtChild, SameBut, y
  <1>21. MovesTo(g, T, t, Ref(t.tag, T, c))
    <2>1. y \in 0 .. y /\ y + 1 = z
      BY <1>4, <1>5
    <2>2. t.space = F /\ t.slot = o
      <3>1. t = OperandAt(h, T, cs, regs, sc, z - 1)
        BY <1>5, <1>18, <2>1 DEF t
      <3> QED BY <1>1, <1>4, <3>1 DEF StackOK, F, o, z
    <2>3. /\ y = 0 => sc.i <= cf
          /\ y # 0 => Child(ds, y) <= Loop(g, HomeSpace(T, ds, y), HomeSlot(ds, y))
      BY <1>2, <1>5, <1>20 DEF AtChild, y
    <2>4. t.space = Off \/ RefersTo(g, t, F)
      BY <1>19, <2>1, <2>3, OperandSuits DEF t, F, y
    <2> QED BY <1>3, <1>6, <1>16, <2>2, <2>4 DEF MovesTo, F
  <1> QED BY <1>19, <1>20, <1>21 DEF ds, t, c, y, z

-----------------------------------------------------------------------------
(* copy and copy_list_node are called *)

\* The next child of the activation on top, or the next register, is of
\* gc_collect's concern.
AtOperand(h, T, cs, sc, cf) == IF cs = <<>> THEN sc.i <= cf ELSE AtChild(h, T, cs)

\* copy_list_node visits a node: nothing is copied yet.
LEMMA EnterNodeCollecting ==
  ASSUME NEW h, NEW T, NEW cs, NEW regs, NEW sc, NEW cf, NEW rank,
         Collecting(h, T, cs, regs, sc, cf, rank), AtChild(h, T, cs),
         Kind(h, HomeSpace(T, cs, Depth(cs)), HomeSlot(cs, Depth(cs))) \in {"RRB", "INTERNAL"},
         OperandAt(h, T, cs, regs, sc, Depth(cs)).space = Other(T),
         Fwd(h, Other(T), OperandAt(h, T, cs, regs, sc, Depth(cs)).slot) = 0,
         NEW a \in Activation, a.fn = "copy_list_node", a.next = 1,
         a.old = OperandAt(h, T, cs, regs, sc, Depth(cs)).slot
  PROVE  Collecting(h, T, Append(cs, a), regs, sc, cf, rank)
  <1> DEFINE z  == Depth(cs)
             t  == OperandAt(h, T, cs, regs, sc, z)
             k  == t.slot
             ds == Append(cs, a)
             y  == Depth(ds)
             F  == Other(T)
  <1>1. /\ Typed(h, T, cs, regs, sc, cf, rank) /\ BlocksOK(h)
        /\ RegistersOK(h, T, regs, sc, cf) /\ WhiteOK(h, T, cs) /\ GreyOK(h, T, cs)
        /\ BlackOK(h, T, cs) /\ MovedOK(h, T, cs) /\ StackOK(h, T, cs, regs, sc)
        /\ CopiesApart(cs) /\ RankedBlocks(h, T, rank) /\ RankedCopies(h, T, cs, rank)
        /\ RankedCalls(T, cs, rank) /\ RanksBounded(h, rank)
    BY DEF Collecting
  <1>2. /\ h \in Heaps /\ T \in Spaces /\ cs \in Seq(Activation) /\ cs # <<>> /\ rank \in Ranks
        /\ sc.i <= cf
    BY <1>1 DEF Typed, AtChild
  <1>3. F \in Spaces /\ F # T /\ F # Off /\ T # Off /\ \A s \in Spaces : s = T \/ s = F
    BY <1>2, OtherSpace
  <1>4. z \in Nat /\ z \in 1 .. z /\ z # 0
    BY <1>2, StackTyped
  <1>5. /\ ds \in Seq(Activation) /\ y = z + 1 /\ ds # <<>>
        /\ \A i \in 1 .. z : SameCall(cs, ds, i) /\ Child(ds, i) = Child(cs, i)
        /\ Fn(ds, y) = "copy_list_node" /\ Old(ds, y) = k /\ Child(ds, y) = 1
    <2>1. /\ ds \in Seq(Activation) /\ y = z + 1
          /\ \A i \in 1 .. z : SameCall(cs, ds, i) /\ Child(ds, i) = Child(cs, i)
          /\ Fn(ds, y) = a.fn /\ Old(ds, y) = a.old /\ Child(ds, y) = a.next
      BY <1>2, PushedFacts
    <2> HIDE DEF y, ds, z, k
    <2>2. ds # <<>>
      BY <1>4, <2>1, StackTyped DEF y
    <2> QED BY <2>1, <2>2 DEF k, t, z
  <1>6. /\ t.space = F /\ Fwd(h, F, k) = 0 /\ NodeIn(h, t, F)
    <2>1. z \in 0 .. z
      BY <1>4
    <2>2. t = Null \/ NodeIn(h, t, F)
      BY <1>2, <1>4, <2>1, OperandSuits DEF AtChild
    <2>3. Null.space = Off
      BY DEF Null
    <2> QED BY <1>3, <2>2, <2>3
  <1>7. k \in 1 .. Count(h, F) /\ Kind(h, F, k) \in {"LEAF", "INTERNAL"}
    <2>1. k \in 1 .. Count(h, F) /\ TagOf(Kind(h, F, k)) = "NODE"
      BY <1>6 DEF NodeIn, RefersTo
    <2>2. Kind(h, F, k) \in Kinds /\ Kind(h, F, k) # "TABLE"
      BY <1>1, <1>2, <1>3, <2>1, HeapTyped DEF BlocksOK, BlockOK
    <2> QED BY <2>1, <2>2 DEF TagOf, Kinds
  <1>8. \A i \in 1 .. z : Rank(rank, F, k) < Rank(rank, F, Old(cs, i))
    BY <1>6, OperandBelow
  <1>9. ~NodeAt(cs, k)
    <2>1. Count(h, F) \in Nat
      BY <1>2, <1>3, HeapTyped
    <2>2. k \in Nat
      BY <1>7, <2>1
    <2> HIDE DEF k, F
    <2>3. Rank(rank, F, k) \in Nat
      BY <1>2, <1>3, <2>2 DEF Rank, Ranks
    <2> QED BY <1>8, <2>3 DEF NodeAt, F, z
  <1>10. \A i \in 1 .. y : i = y \/ i \in 1 .. z
    BY <1>4, <1>5
  <1> HIDE DEF z, t, k, ds, y, F
  <1>11. \A i \in 1 .. z : i \in 1 .. y /\ i # y /\ i < y
    BY <1>4, <1>5
  <1>12. \A l : CopyAt(ds, l) <=> CopyAt(cs, l)
    BY <1>5, <1>10, <1>11 DEF CopyAt, SameCall, y, z
  <1>13. \A l : NodeAt(ds, l) <=> NodeAt(cs, l) \/ l = k
    <2>1. y \in 1 .. y
      BY <1>4, <1>5
    <2> QED BY <1>5, <1>10, <1>11, <2>1 DEF NodeAt, SameCall, y, z
  <1>14. \A i \in 1 .. z : /\ HomeSpace(T, ds, i) = HomeSpace(T, cs, i)
                           /\ HomeSlot(ds, i) = HomeSlot(cs, i)
    BY <1>5 DEF HomeSpace, HomeSlot, SameCall
  <1>15. HomeSpace(T, ds, y) = F /\ HomeSlot(ds, y) = k
    BY <1>5 DEF HomeSpace, HomeSlot, F
  <1>16. \A i \in 0 .. z : OperandAt(h, T, ds, regs, sc, i) = OperandAt(h, T, cs, regs, sc, i)
    <2> TAKE i \in 0 .. z
    <2>1. i = 0 \/ i \in 1 .. z
      BY <1>4
    <2> QED BY <1>5, <1>14, <2>1 DEF OperandAt
  <1>t. Typed(h, T, ds, regs, sc, cf, rank)
    BY <1>1, <1>2, <1>5 DEF Typed
  <1>w. WhiteOK(h, T, ds)
    BY <1>1, <1>13 DEF WhiteOK
  <1>g. GreyOK(h, T, ds)
    <2>1. \A i \in 1 .. z : Split(h, T, HomeSpace(T, ds, i), HomeSlot(ds, i), Child(ds, i))
      BY <1>1, <1>5, <1>14 DEF GreyOK, z
    <2>2. Split(h, T, F, k, 1)
      <3>1. Whole(h, F, k, F)
        BY <1>1, <1>6, <1>7, <1>9 DEF WhiteOK, F
      <3>2. \A n \in 1 .. Arity(h, F, k) : ~(n < 1)
        OBVIOUS
      <3> QED BY <3>1, <3>2 DEF Whole, Split, F
    <2> QED BY <1>5, <1>10, <1>15, <2>1, <2>2 DEF GreyOK, y
  <1>k. BlackOK(h, T, ds)
    BY <1>1, <1>12 DEF BlackOK
  <1>m. MovedOK(h, T, ds)
    BY <1>1, <1>12 DEF MovedOK
  <1>s. StackOK(h, T, ds, regs, sc)
    <2>1. ASSUME NEW i \in 1 .. z
          PROVE  /\ ActivationOK(h, T, ds, i)
                 /\ Child(ds, i) <= Loop(h, HomeSpace(T, ds, i), HomeSlot(ds, i))
                 /\ OperandAt(h, T, ds, regs, sc, i - 1).space = F
                 /\ OperandAt(h, T, ds, regs, sc, i - 1).slot = Old(ds, i)
      <3>1. /\ ActivationOK(h, T, cs, i)
            /\ i < z => Child(cs, i) <= Loop(h, HomeSpace(T, cs, i), HomeSlot(cs, i))
            /\ OperandAt(h, T, cs, regs, sc, i - 1).space = F
            /\ OperandAt(h, T, cs, regs, sc, i - 1).slot = Old(cs, i)
        BY <1>1 DEF StackOK, z, F
      <3>2. Child(cs, i) <= Loop(h, HomeSpace(T, cs, i), HomeSlot(cs, i))
        <4>1. i = z \/ i < z
          BY <1>4
        <4> QED BY <3>1, <4>1 DEF AtChild, z
      <3>3. i - 1 \in 0 .. z
        BY <1>4
      <3>4. ActivationOK(h, T, ds, i)
        BY <1>5, <1>14, <3>1 DEF ActivationOK, SameCall
      <3> QED BY <1>5, <1>14, <1>16, <3>1, <3>2, <3>3, <3>4 DEF SameCall
    <2>2. /\ ActivationOK(h, T, ds, y)
          /\ OperandAt(h, T, ds, regs, sc, y - 1).space = F
          /\ OperandAt(h, T, ds, regs, sc, y - 1).slot = Old(ds, y)
      <3>1. OperandAt(h, T, ds, regs, sc, y - 1) = t
        BY <1>4, <1>5, <1>16 DEF t
      <3>2. 1 <= Loop(h, F, k) + 1
        <4>1. /\ Arity(h, F, k) \in Nat
              /\ Loop(h, F, k) = IF Kind(h, F, k) = "INTERNAL" THEN Arity(h, F, k) - 1
                                 ELSE Arity(h, F, k)
          BY <1>2, <1>3, <1>7, HeapTyped
        <4>2. Kind(h, F, k) = "INTERNAL" => Arity(h, F, k) > 0
          BY <1>1, <1>3, <1>7 DEF BlocksOK, BlockOK
        <4> QED BY <4>1, <4>2
      <3>3. ActivationOK(h, T, ds, y)
        BY <1>5, <1>6, <1>7, <1>15, <3>2 DEF ActivationOK, F
      <3> QED BY <1>5, <1>6, <3>1, <3>3 DEF k
    <2> QED BY <1>10, <2>1, <2>2 DEF StackOK, y, F
  <1>c. CopiesApart(ds)
    BY <1>1, <1>5, <1>10 DEF CopiesApart, SameCall, y, z
  <1>k2. RankedCopies(h, T, ds, rank)
    BY <1>1, <1>5, <1>10 DEF RankedCopies, SameCall, y, z
  <1>k3. RankedCalls(T, ds, rank)
    <2> SUFFICES ASSUME NEW i \in 1 .. y, NEW j \in 1 .. y, i < j
                 PROVE  Rank(rank, F, Old(ds, j)) < Rank(rank, F, Old(ds, i))
      BY DEF RankedCalls, y, F
    <2>1. i \in 1 .. z
      BY <1>4, <1>5
    <2>2. CASE j = y
      BY <1>5, <1>8, <2>1, <2>2 DEF SameCall
    <2>3. CASE j \in 1 .. z
      BY <1>1, <1>5, <2>1, <2>3 DEF RankedCalls, SameCall, z, F
    <2> QED BY <1>10, <2>2, <2>3
  <1> QED
    BY <1>1, <1>t, <1>w, <1>g, <1>k, <1>m, <1>s, <1>c, <1>k2, <1>k3 DEF Collecting, ds

\* g is h with a copy of original k allocated, whose children are still those
\* of the original, unless it is a text, and with f for the forward address of the original.
Copied(h, g, T, k, chars, size, f) ==
  LET c == Count(h, T) + 1
  IN  /\ g \in Heaps
      /\ Count(g, T) = c /\ Count(g, Other(T)) = Count(h, Other(T))
      /\ \A x \in Spaces : \A l \in 1 .. Count(h, x) :
           /\ SameBut(h, g, x, l)
           /\ \A m : Kid(g, x, l, m) = Kid(h, x, l, m)
           /\ (x # Other(T) \/ l # k) => Fwd(g, x, l) = Fwd(h, x, l)
      /\ Fwd(g, Other(T), k) = f
      /\ Kind(g, T, c) = Kind(h, Other(T), k)
      /\ Chars(g, T, c) = chars
      /\ Size(g, T, c) = size
      /\ Fwd(g, T, c) = 0
      /\ IF Kind(h, Other(T), k) = "STRING"
         THEN \A n \in 1 .. Arity(g, T, c) : OffText(Kid(g, T, c, n))
         ELSE /\ Arity(g, T, c) = Arity(h, Other(T), k)
              /\ \A n \in 1 .. Arity(h, Other(T), k) : Kid(g, T, c, n) = Kid(h, Other(T), k, n)

\* The copy b is of original k; the copy of a text may have run on.
IsCopy(h, T, k, b) ==
  /\ b \in Block
  /\ b.kind = Kind(h, Other(T), k)
  /\ b.fwd = 0
  /\ IF Kind(h, Other(T), k) = "STRING"
     THEN \A n \in 1 .. Len(b.kids) : OffText(b.kids[n])
     ELSE /\ Len(b.kids) = Arity(h, Other(T), k)
          /\ \A n \in 1 .. Arity(h, Other(T), k) : b.kids[n] = Kid(h, Other(T), k, n)

\* The memcpy of copy.
LEMMA CopyAllocated ==
  ASSUME NEW h \in Heaps, NEW T \in Spaces, NEW k \in 1 .. Count(h, Other(T)),
         NEW b, IsCopy(h, T, k, b), NEW g, Allocation(h, g, T, <<b>>)
  PROVE  Copied(h, g, T, k, b.len, b.size, Fwd(h, Other(T), k))
  <1> DEFINE F == Other(T)
             c == Count(h, T) + 1
  <1>1. F \in Spaces \ {T} /\ k \in 1 .. Count(h, F)
    BY OtherSpace
  <1> HIDE DEF F, c
  <1>2. Len(<<b>>) = 1 /\ <<b>>[1] = b /\ 1 \in 1 .. Len(<<b>>)
    OBVIOUS
  <1>3. /\ g \in Heaps /\ Count(g, T) = c /\ Count(g, F) = Count(h, F)
        /\ \A x \in Spaces : \A l \in 1 .. Count(h, x) :
             /\ SameBut(h, g, x, l)
             /\ Fwd(g, x, l) = Fwd(h, x, l)
             /\ \A m : Kid(g, x, l, m) = Kid(h, x, l, m)
        /\ Kind(g, T, c) = Kind(h, F, k)
        /\ Chars(g, T, c) = b.len
        /\ Size(g, T, c) = b.size
        /\ Fwd(g, T, c) = 0
        /\ Arity(g, T, c) = Len(b.kids)
        /\ \A n \in 1 .. Len(b.kids) : Kid(g, T, c, n) = b.kids[n]
    BY <1>1, <1>2 DEF Allocation, IsCopy, F, c
  <1>4. IF Kind(h, F, k) = "STRING"
        THEN \A n \in 1 .. Arity(g, T, c) : OffText(Kid(g, T, c, n))
        ELSE /\ Arity(g, T, c) = Arity(h, F, k)
             /\ \A n \in 1 .. Arity(h, F, k) : Kid(g, T, c, n) = Kid(h, F, k, n)
    BY <1>3 DEF IsCopy, F
  <1> QED BY <1>1, <1>3, <1>4 DEF Copied, F, c

\* bump_cpy.
LEMMA CopyBumped ==
  ASSUME NEW h \in Heaps, NEW T \in Spaces, NEW k \in 1 .. Count(h, Other(T)),
         NEW chars, NEW size, NEW f1, NEW f,
         NEW g1, Copied(h, g1, T, k, chars, size, f1), NEW g, FwdChange(g1, g, Other(T), k, f)
  PROVE  Copied(h, g, T, k, chars, size, f)
  <1> DEFINE F == Other(T)
             c == Count(h, T) + 1
  <1>1. F \in Spaces /\ F # T /\ \A s \in Spaces : s = T \/ s = F
    BY OtherSpace
  <1>2. Count(h, T) \in Nat
    BY HeapTyped
  <1> HIDE DEF F
  <1>3. /\ Count(g1, T) = c /\ Count(g1, F) = Count(h, F)
        /\ \A x \in Spaces : \A l \in 1 .. Count(h, x) :
             /\ SameBut(h, g1, x, l)
             /\ \A m : Kid(g1, x, l, m) = Kid(h, x, l, m)
             /\ (x # F \/ l # k) => Fwd(g1, x, l) = Fwd(h, x, l)
        /\ Kind(g1, T, c) = Kind(h, F, k)
        /\ Chars(g1, T, c) = chars
        /\ Size(g1, T, c) = size
        /\ Fwd(g1, T, c) = 0
        /\ IF Kind(h, F, k) = "STRING"
           THEN \A n \in 1 .. Arity(g1, T, c) : OffText(Kid(g1, T, c, n))
           ELSE /\ Arity(g1, T, c) = Arity(h, F, k)
                /\ \A n \in 1 .. Arity(h, F, k) : Kid(g1, T, c, n) = Kid(h, F, k, n)
    BY DEF Copied, F
  <1>4. /\ g \in Heaps
        /\ \A x \in Spaces : Count(g, x) = Count(g1, x)
        /\ \A x \in Spaces : \A l \in 1 .. Count(g1, x) :
             /\ SameBut(g1, g, x, l)
             /\ \A m : Kid(g, x, l, m) = Kid(g1, x, l, m)
             /\ (x # F \/ l # k) => Fwd(g, x, l) = Fwd(g1, x, l)
        /\ Fwd(g, F, k) = f
    BY DEF FwdChange, F
  <1>5. c \in 1 .. Count(g1, T)
    BY <1>2, <1>3
  <1>6. \A x \in Spaces : \A l \in 1 .. Count(h, x) : l \in 1 .. Count(g1, x)
    BY <1>1, <1>2, <1>3
  <1>7. \A x \in Spaces : \A l \in 1 .. Count(h, x) :
          /\ SameBut(h, g, x, l)
          /\ \A m : Kid(g, x, l, m) = Kid(h, x, l, m)
          /\ (x # F \/ l # k) => Fwd(g, x, l) = Fwd(h, x, l)
    BY <1>3, <1>4, <1>6 DEF SameBut
  <1>8. /\ SameBut(g1, g, T, c) /\ Fwd(g, T, c) = Fwd(g1, T, c)
        /\ \A m : Kid(g, T, c, m) = Kid(g1, T, c, m)
    BY <1>1, <1>4, <1>5
  <1>9. /\ Kind(g, T, c) = Kind(h, F, k)
        /\ Chars(g, T, c) = chars
        /\ Size(g, T, c) = size
        /\ Fwd(g, T, c) = 0
        /\ IF Kind(h, F, k) = "STRING"
           THEN \A n \in 1 .. Arity(g, T, c) : OffText(Kid(g, T, c, n))
           ELSE /\ Arity(g, T, c) = Arity(h, F, k)
                /\ \A n \in 1 .. Arity(h, F, k) : Kid(g, T, c, n) = Kid(h, F, k, n)
    BY <1>3, <1>8 DEF SameBut
  <1> HIDE DEF c
  <1> QED BY <1>1, <1>3, <1>4, <1>7, <1>9 DEF Copied, F, c

\* copy is called for a value: its copy is allocated, the children of which
\* are still those of the original.
LEMMA EnterCopyCollecting ==
  ASSUME NEW h, NEW T, NEW cs, NEW regs, NEW sc, NEW cf, NEW rank,
         Collecting(h, T, cs, regs, sc, cf, rank), AtOperand(h, T, cs, sc, cf),
         cs # <<>> => Kind(h, HomeSpace(T, cs, Depth(cs)), HomeSlot(cs, Depth(cs)))
                        \notin {"RRB", "INTERNAL"},
         NEW k, OperandAt(h, T, cs, regs, sc, Depth(cs)).slot = k,
         OperandAt(h, T, cs, regs, sc, Depth(cs)).space = Other(T),
         Fwd(h, Other(T), k) = 0,
         NEW g, NEW chars, NEW size, Copied(h, g, T, k, chars, size, 0),
         BlockOK(Kind(h, Other(T), k), Arity(g, T, Count(h, T) + 1), chars, size),
         NEW a \in Activation, a.fn = "copy", a.next = 1, a.old = k, a.new = Count(h, T) + 1
  PROVE  \E rank2 : Collecting(g, T, Append(cs, a), regs, sc, cf, rank2)
  <1> DEFINE z  == Depth(cs)
             t  == OperandAt(h, T, cs, regs, sc, z)
             ds == Append(cs, a)
             y  == Depth(ds)
             F  == Other(T)
             c  == Count(h, T) + 1
  <1>1. /\ Typed(h, T, cs, regs, sc, cf, rank) /\ BlocksOK(h)
        /\ RegistersOK(h, T, regs, sc, cf) /\ WhiteOK(h, T, cs) /\ GreyOK(h, T, cs)
        /\ BlackOK(h, T, cs) /\ MovedOK(h, T, cs) /\ StackOK(h, T, cs, regs, sc)
        /\ CopiesApart(cs) /\ RankedBlocks(h, T, rank) /\ RankedCopies(h, T, cs, rank)
        /\ RankedCalls(T, cs, rank) /\ RanksBounded(h, rank)
    BY DEF Collecting
  <1>2. /\ h \in Heaps /\ T \in Spaces /\ cs \in Seq(Activation) /\ rank \in Ranks
        /\ sc.i <= cf
    BY <1>1 DEF Typed, AtOperand
  <1>3. F \in Spaces /\ F # T /\ F # Off /\ T # Off /\ \A s \in Spaces : s = T \/ s = F
    BY <1>2, OtherSpace
  <1>4. /\ z \in Nat /\ (cs = <<>> <=> z = 0)
        /\ Count(h, T) \in Nat /\ Count(h, F) \in Nat /\ c \in Nat /\ c \notin 1 .. Count(h, T)
    BY <1>2, <1>3, StackTyped, HeapTyped
  <1>5. /\ ds \in Seq(Activation) /\ y = z + 1
        /\ \A i \in 1 .. z : SameCall(cs, ds, i) /\ Child(ds, i) = Child(cs, i)
        /\ Fn(ds, y) = "copy" /\ Old(ds, y) = k /\ New(ds, y) = c /\ Child(ds, y) = 1
    <2>1. /\ ds \in Seq(Activation) /\ y = z + 1
          /\ \A i \in 1 .. z : SameCall(cs, ds, i) /\ Child(ds, i) = Child(cs, i)
          /\ Fn(ds, y) = a.fn /\ Old(ds, y) = a.old /\ New(ds, y) = a.new /\ Child(ds, y) = a.next
      BY <1>2, PushedFacts
    <2> HIDE DEF y, ds, z, t
    <2> QED BY <2>1
  <1>6. t.space = F /\ t.slot = k /\ Fwd(h, F, k) = 0 /\ RefersTo(h, t, F) /\ t.tag # "NODE"
    <2>1. z \in 0 .. z
      BY <1>4
    <2>2. /\ z = 0 => sc.i <= cf
          /\ z # 0 => Child(cs, z) <= Loop(h, HomeSpace(T, cs, z), HomeSlot(cs, z))
      BY <1>4 DEF AtOperand, AtChild
    <2>3. ValueIn(h, t, F)
      BY <1>4, <2>1, <2>2, OperandSuits
    <2>4. t.space = F
      OBVIOUS
    <2> QED BY <1>3, <2>3, <2>4 DEF ValueIn, OffValue
  <1>7. k \in 1 .. Count(h, F) /\ Kind(h, F, k) \in {"TUPLE", "FUNCTION", "STRING", "RRB"}
    <2>1. k \in 1 .. Count(h, F) /\ TagOf(Kind(h, F, k)) # "NODE"
      BY <1>6 DEF RefersTo
    <2>2. Kind(h, F, k) \in Kinds
      BY <1>2, <1>3, <2>1, HeapTyped
    <2> QED BY <2>1, <2>2 DEF TagOf, Kinds
  <1>8. cs # <<>> => \A i \in 1 .. z : Rank(rank, F, k) < Rank(rank, F, Old(cs, i))
    BY <1>6, OperandBelow DEF AtOperand
  <1>9. ~NodeAt(cs, k)
    <2>1. \A i \in 1 .. z : ActivationOK(h, T, cs, i)
      BY <1>1 DEF StackOK
    <2> QED BY <1>7, <2>1 DEF NodeAt, ActivationOK
  <1>10. \A i \in 1 .. y : i = y \/ i \in 1 .. z
    BY <1>4, <1>5
  <1>11. \A i \in 1 .. z : /\ i \in 1 .. y /\ i # y /\ i < y
                           /\ HomeSpace(T, cs, i) \in Spaces
                           /\ HomeSlot(cs, i) \in 1 .. Count(h, HomeSpace(T, cs, i))
    BY <1>4, <1>5, HomeOnHeap
  <1>12. y \in 1 .. y
    BY <1>4, <1>5
  <1> HIDE DEF z, t, ds, y, F
  <1>13. PICK rank2 \in Ranks : /\ Rank(rank2, T, c) = Rank(rank, F, k)
                                /\ \A s \in Spaces : \A l \in Nat :
                                     (s # T \/ l # c) => Rank(rank2, s, l) = Rank(rank, s, l)
    <2>1. k \in Nat
      BY <1>4, <1>7
    <2>2. rank[F][k] \in Nat
      BY <1>2, <1>3, <2>1 DEF Ranks
    <2> DEFINE m == rank[F][k]
               q == [rank[T] EXCEPT ![c] = m]
               r == [rank EXCEPT ![T] = q]
    <2>3. q \in [Nat -> Nat] /\ q[c] = m /\ \A l \in Nat : l # c => q[l] = rank[T][l]
      BY <1>2, <1>4, <2>2 DEF Ranks
    <2> HIDE DEF q
    <2>4. r \in Ranks /\ r[T] = q /\ \A s \in Spaces : s # T => r[s] = rank[s]
      BY <1>2, <2>3 DEF Ranks
    <2> HIDE DEF r
    <2> QED BY <1>2, <2>3, <2>4 DEF Rank
  <1>14. /\ g \in Heaps
         /\ Count(g, T) = c /\ Count(g, F) = Count(h, F)
         /\ \A x \in Spaces : \A l \in 1 .. Count(h, x) :
              /\ SameBut(h, g, x, l)
              /\ Fwd(g, x, l) = Fwd(h, x, l)
              /\ \A m : Kid(g, x, l, m) = Kid(h, x, l, m)
         /\ Kind(g, T, c) = Kind(h, F, k)
         /\ Chars(g, T, c) = chars
         /\ Size(g, T, c) = size
         /\ Fwd(g, T, c) = 0
         /\ Kind(h, F, k) = "STRING" => \A n \in 1 .. Arity(g, T, c) : OffText(Kid(g, T, c, n))
         /\ Kind(h, F, k) # "STRING" =>
              /\ Arity(g, T, c) = Arity(h, F, k)
              /\ \A n \in 1 .. Arity(h, F, k) : Kid(g, T, c, n) = Kid(h, F, k, n)
    BY <1>6 DEF Copied, F
  <1> HIDE DEF c
  <1>15. \A l \in 1 .. Count(g, T) : l = c \/ (l # c /\ l \in 1 .. Count(h, T))
    BY <1>4, <1>14 DEF c
  <1>16. \A x \in Spaces : \A l \in 1 .. Count(h, x) : l \in Nat /\ (x # T \/ l # c) /\ l \in 1 .. Count(g, x)
    BY <1>3, <1>4, <1>14 DEF c
  <1>17. Grows(h, g)
    <2>1. \A s \in Spaces : Count(h, s) \in Nat /\ Count(g, s) \in Nat
      BY <1>2, <1>14, HeapTyped
    <2>2. \A s \in Spaces : Count(h, s) <= Count(g, s)
      BY <1>3, <1>4, <1>14 DEF c
    <2> QED BY <1>14, <2>1, <2>2 DEF Grows, SameBut
  <1>18. \A l : CopyAt(ds, l) <=> CopyAt(cs, l) \/ l = c
    BY <1>5, <1>10, <1>11, <1>12 DEF CopyAt, SameCall, y, z
  <1>19. \A l : NodeAt(ds, l) <=> NodeAt(cs, l)
    BY <1>5, <1>10, <1>11 DEF NodeAt, SameCall, y, z
  <1>20. \A i \in 1 .. z : /\ HomeSpace(T, ds, i) = HomeSpace(T, cs, i)
                           /\ HomeSlot(ds, i) = HomeSlot(cs, i)
    BY <1>5 DEF HomeSpace, HomeSlot, SameCall
  <1>21. HomeSpace(T, ds, y) = T /\ HomeSlot(ds, y) = c
    BY <1>5 DEF HomeSpace, HomeSlot
  <1>22. \A i \in 0 .. z : OperandAt(g, T, ds, regs, sc, i) = OperandAt(h, T, cs, regs, sc, i)
    <2> TAKE i \in 0 .. z
    <2>1. i = 0 \/ i \in 1 .. z
      BY <1>4
    <2> QED BY <1>5, <1>11, <1>14, <1>20, <2>1 DEF OperandAt
  <1>23. Whole(h, F, k, F)
    BY <1>1, <1>6, <1>7, <1>9 DEF WhiteOK, F
  <1>t. Typed(g, T, ds, regs, sc, cf, rank2)
    BY <1>1, <1>2, <1>5, <1>13, <1>14 DEF Typed
  <1>b. BlocksOK(g)
    <2> SUFFICES ASSUME NEW s \in Spaces, NEW l \in 1 .. Count(g, s)
                 PROVE  BlockOK(Kind(g, s, l), Arity(g, s, l), Chars(g, s, l), Size(g, s, l))
      BY DEF BlocksOK
    <2>1. CASE l \in 1 .. Count(h, s)
      BY <1>1, <1>14, <2>1 DEF BlocksOK, SameBut
    <2>2. CASE s = T /\ l = c
      BY <1>14, <2>2 DEF F, c
    <2> QED BY <1>3, <1>14, <1>15, <2>1, <2>2
  <1>r. RegistersOK(g, T, regs, sc, cf)
    BY <1>1, <1>2, <1>3, <1>17, ValueInGrows DEF RegistersOK, F
  <1>w. WhiteOK(g, T, ds)
    <2> SUFFICES ASSUME NEW l \in 1 .. Count(h, F), Fwd(g, F, l) = 0, ~NodeAt(ds, l)
                 PROVE  Whole(g, F, l, F)
      BY <1>14 DEF WhiteOK, F
    <2>1. Whole(h, F, l, F)
      BY <1>1, <1>3, <1>14, <1>19 DEF WhiteOK, F
    <2> QED BY <1>3, <1>14, <1>17, <2>1, WholeGrows DEF SameBut
  <1>g. GreyOK(g, T, ds)
    <2>1. ASSUME NEW i \in 1 .. z
          PROVE  Split(g, T, HomeSpace(T, ds, i), HomeSlot(ds, i), Child(ds, i))
      <3>1. Split(h, T, HomeSpace(T, cs, i), HomeSlot(cs, i), Child(cs, i))
        BY <1>1 DEF GreyOK, z
      <3>2. Split(g, T, HomeSpace(T, cs, i), HomeSlot(cs, i), Child(cs, i))
        BY <1>2, <1>11, <1>14, <1>17, <3>1, SplitGrows DEF SameBut
      <3> QED BY <1>5, <1>20, <3>2
    <2>2. Split(g, T, T, c, 1)
      <3>1. Whole(g, T, c, F)
        <4>1. CASE Kind(h, F, k) = "STRING"
          BY <1>14, <4>1 DEF Whole, Suits
        <4>2. CASE Kind(h, F, k) # "STRING"
          BY <1>3, <1>14, <1>17, <1>23, <4>2, WholeGrows
        <4> QED BY <4>1, <4>2
      <3>2. \A n \in 1 .. Arity(g, T, c) : ~(n < 1)
        OBVIOUS
      <3> QED BY <3>1, <3>2 DEF Whole, Split, F
    <2> QED BY <1>5, <1>10, <1>21, <2>1, <2>2 DEF GreyOK, y
  <1>k. BlackOK(g, T, ds)
    <2> SUFFICES ASSUME NEW l \in 1 .. Count(h, T)
                 PROVE  Fwd(g, T, l) = 0 /\ (~CopyAt(ds, l) => Whole(g, T, l, T))
      BY <1>14, <1>15, <1>18 DEF BlackOK
    <2>1. Fwd(h, T, l) = 0 /\ (~CopyAt(cs, l) => Whole(h, T, l, T))
      BY <1>1 DEF BlackOK
    <2>2. Whole(h, T, l, T) => Whole(g, T, l, T)
      BY <1>2, <1>14, <1>17, WholeGrows DEF SameBut
    <2> QED BY <1>2, <1>14, <1>18, <2>1, <2>2
  <1>m. MovedOK(g, T, ds)
    <2> SUFFICES ASSUME NEW l \in 1 .. Count(h, F), Fwd(g, F, l) # 0
                 PROVE  /\ Fwd(g, F, l) \in 1 .. Count(g, T)
                        /\ Kind(g, T, Fwd(g, F, l)) = Kind(g, F, l)
                        /\ ~CopyAt(ds, Fwd(g, F, l))
                        /\ \A m \in 1 .. Count(h, F) : Fwd(g, F, m) = Fwd(g, F, l) => m = l
      BY <1>14 DEF MovedOK, F
    <2>1. Fwd(g, F, l) = Fwd(h, F, l) /\ Kind(g, F, l) = Kind(h, F, l)
      BY <1>3, <1>14 DEF SameBut
    <2>2. /\ Fwd(h, F, l) \in 1 .. Count(h, T)
          /\ Kind(h, T, Fwd(h, F, l)) = Kind(h, F, l)
          /\ ~CopyAt(cs, Fwd(h, F, l))
          /\ \A m \in 1 .. Count(h, F) : Fwd(h, F, m) = Fwd(h, F, l) => m = l
      BY <1>1, <2>1 DEF MovedOK, F
    <2>3. /\ Fwd(h, F, l) \in 1 .. Count(g, T) /\ Fwd(h, F, l) # c
          /\ Kind(g, T, Fwd(h, F, l)) = Kind(h, T, Fwd(h, F, l))
      BY <1>2, <1>14, <1>16, <2>2 DEF SameBut
    <2>4. \A m \in 1 .. Count(h, F) : Fwd(g, F, m) = Fwd(h, F, m)
      BY <1>3, <1>14
    <2> QED BY <1>18, <2>1, <2>2, <2>3, <2>4
  <1>s. StackOK(g, T, ds, regs, sc)
    <2>1. ASSUME NEW i \in 1 .. z
          PROVE  /\ ActivationOK(g, T, ds, i)
                 /\ Child(ds, i) <= Loop(g, HomeSpace(T, ds, i), HomeSlot(ds, i))
                 /\ OperandAt(g, T, ds, regs, sc, i - 1).space = F
                 /\ OperandAt(g, T, ds, regs, sc, i - 1).slot = Old(ds, i)
      <3>1. /\ ActivationOK(h, T, cs, i)
            /\ i < z => Child(cs, i) <= Loop(h, HomeSpace(T, cs, i), HomeSlot(cs, i))
            /\ OperandAt(h, T, cs, regs, sc, i - 1).space = F
            /\ OperandAt(h, T, cs, regs, sc, i - 1).slot = Old(cs, i)
        BY <1>1 DEF StackOK, z, F
      <3>2. Child(cs, i) <= Loop(h, HomeSpace(T, cs, i), HomeSlot(cs, i))
        <4>1. (i = z \/ i < z) /\ z # 0
          BY <1>4
        <4> QED BY <1>4, <3>1, <4>1 DEF AtOperand, AtChild, z
      <3>3. i - 1 \in 0 .. z
        BY <1>4
      <3>4. Loop(g, HomeSpace(T, ds, i), HomeSlot(ds, i)) = Loop(h, HomeSpace(T, cs, i), HomeSlot(cs, i))
        BY <1>11, <1>14, <1>20 DEF SameBut
      <3>5. ActivationOK(g, T, ds, i)
        BY <1>2, <1>3, <1>5, <1>14, <1>16, <3>1, <3>4 DEF ActivationOK, SameCall, SameBut, F
      <3> QED BY <1>5, <1>22, <3>1, <3>2, <3>3, <3>4, <3>5 DEF SameCall
    <2>2. /\ ActivationOK(g, T, ds, y)
          /\ OperandAt(g, T, ds, regs, sc, y - 1).space = F
          /\ OperandAt(g, T, ds, regs, sc, y - 1).slot = Old(ds, y)
      <3>1. OperandAt(g, T, ds, regs, sc, y - 1) = t
        <4>1. y - 1 = z /\ z \in 0 .. z
          BY <1>4, <1>5
        <4> QED BY <1>22, <4>1 DEF t
      <3>2. 1 <= Loop(g, T, c) + 1
        <4>1. c \in 1 .. Count(g, T)
          BY <1>4, <1>14 DEF c
        <4>2. /\ Arity(g, T, c) \in Nat
              /\ Loop(g, T, c) = IF Kind(g, T, c) = "STRING" THEN 0 ELSE Arity(g, T, c)
          BY <1>2, <1>7, <1>14, <4>1, HeapTyped
        <4> QED BY <4>2
      <3>3. c \in 1 .. Count(g, T) /\ Kind(g, F, k) = Kind(h, F, k) /\ Fwd(g, F, k) = 0
        BY <1>3, <1>4, <1>6, <1>7, <1>14 DEF SameBut, c
      <3>4. ActivationOK(g, T, ds, y)
        BY <1>5, <1>7, <1>14, <1>21, <3>2, <3>3 DEF ActivationOK, F
      <3> QED BY <1>5, <1>6, <3>1, <3>4
    <2> QED BY <1>10, <2>1, <2>2 DEF StackOK, y, F
  <1>24. \A i \in 1 .. z : Fn(cs, i) = "copy" => New(cs, i) \in 1 .. Count(h, T)
    BY <1>1 DEF StackOK, ActivationOK, z
  <1>c. CopiesApart(ds)
    <2>1. \A i \in 1 .. z : Fn(ds, i) = "copy" => New(ds, i) # c
      BY <1>2, <1>5, <1>16, <1>24 DEF SameCall
    <2> QED BY <1>1, <1>5, <1>10, <2>1 DEF CopiesApart, SameCall, y, z
  <1>25. \A s \in Spaces : \A l \in 1 .. Count(h, s) : Rank(rank2, s, l) = Rank(rank, s, l)
    BY <1>13, <1>16
  <1>26. ASSUME NEW s \in Spaces, NEW l \in 1 .. Count(h, s), s = T \/ Fwd(h, s, l) = 0,
                NEW n \in 1 .. Arity(h, s, l), Kid(h, s, l, n).space # Off
         PROVE  Rank(rank2, Kid(h, s, l, n).space, Kid(h, s, l, n).slot) < Rank(rank, s, l)
    <2> DEFINE v == Kid(h, s, l, n)
    <2>1. Rank(rank, v.space, v.slot) < Rank(rank, s, l)
      BY <1>1, <1>26 DEF RankedBlocks
    <2>2. RefersTo(h, v, T) \/ RefersTo(h, v, F)
      BY <1>26, KidRefers DEF F
    <2>3. v.space \in Spaces /\ v.slot \in 1 .. Count(h, v.space)
      BY <1>2, <1>3, <2>2 DEF RefersTo
    <2> QED BY <1>25, <2>1, <2>3
  <1>k1. RankedBlocks(g, T, rank2)
    <2> SUFFICES ASSUME NEW s \in Spaces, NEW l \in 1 .. Count(g, s), s = T \/ Fwd(g, s, l) = 0,
                        NEW n \in 1 .. Arity(g, s, l), Kid(g, s, l, n).space # Off
                 PROVE  Rank(rank2, Kid(g, s, l, n).space, Kid(g, s, l, n).slot) < Rank(rank2, s, l)
      BY DEF RankedBlocks
    <2>1. CASE l \in 1 .. Count(h, s)
      <3>1. /\ s = T \/ Fwd(h, s, l) = 0
            /\ n \in 1 .. Arity(h, s, l) /\ Kid(g, s, l, n) = Kid(h, s, l, n)
        BY <1>14, <2>1 DEF SameBut
      <3> QED BY <1>25, <1>26, <2>1, <3>1
    <2>2. CASE s = T /\ l = c
      <3>0. Kind(h, F, k) # "STRING"
        BY <1>14, <2>2 DEF OffText
      <3>1. n \in 1 .. Arity(h, F, k) /\ Kid(g, s, l, n) = Kid(h, F, k, n)
        BY <1>14, <2>2, <3>0
      <3> QED BY <1>3, <1>6, <1>7, <1>13, <1>26, <2>2, <3>1
    <2> QED BY <1>3, <1>14, <1>15, <2>1, <2>2
  <1>k2. RankedCopies(g, T, ds, rank2)
    <2>1. ASSUME NEW l \in 1 .. Count(h, F), Fwd(g, F, l) # 0
          PROVE  Rank(rank2, T, Fwd(g, F, l)) = Rank(rank2, F, l)
      <3>1. Fwd(g, F, l) = Fwd(h, F, l)
        BY <1>3, <1>14
      <3>2. /\ Fwd(h, F, l) \in 1 .. Count(h, T)
            /\ Rank(rank, T, Fwd(h, F, l)) = Rank(rank, F, l)
        BY <1>1, <2>1, <3>1 DEF MovedOK, RankedCopies, F
      <3> QED BY <1>2, <1>3, <1>25, <3>1, <3>2
    <2>2. ASSUME NEW i \in 1 .. z, Fn(ds, i) = "copy"
          PROVE  Rank(rank2, T, New(ds, i)) = Rank(rank2, F, Old(ds, i))
      <3>1. /\ Fn(cs, i) = "copy" /\ New(ds, i) = New(cs, i) /\ Old(ds, i) = Old(cs, i)
        BY <1>5, <2>2 DEF SameCall
      <3>2. Rank(rank, T, New(cs, i)) = Rank(rank, F, Old(cs, i)) /\ Old(cs, i) \in 1 .. Count(h, F)
        BY <1>1, <3>1 DEF RankedCopies, StackOK, ActivationOK, F, z
      <3> QED BY <1>2, <1>3, <1>24, <1>25, <3>1, <3>2
    <2>3. Rank(rank2, T, New(ds, y)) = Rank(rank2, F, Old(ds, y))
      BY <1>3, <1>5, <1>7, <1>13, <1>25
    <2> QED BY <1>10, <1>14, <2>1, <2>2, <2>3 DEF RankedCopies, F, y
  <1>k3. RankedCalls(T, ds, rank2)
    <2> SUFFICES ASSUME NEW i \in 1 .. y, NEW j \in 1 .. y, i < j
                 PROVE  Rank(rank2, F, Old(ds, j)) < Rank(rank2, F, Old(ds, i))
      BY DEF RankedCalls, y, F
    <2>1. i \in 1 .. z
      BY <1>4, <1>5
    <2>2. /\ Old(cs, i) \in 1 .. Count(h, F)
          /\ j \in 1 .. z => Old(cs, j) \in 1 .. Count(h, F)
      BY <1>1, <2>1 DEF StackOK, ActivationOK, F, z
    <2>3. CASE j = y
      <3>1. cs # <<>>
        BY <1>4, <2>1
      <3> QED BY <1>3, <1>5, <1>7, <1>8, <1>25, <2>1, <2>2, <2>3, <3>1 DEF SameCall
    <2>4. CASE j \in 1 .. z
      <3>1. Rank(rank, F, Old(cs, j)) < Rank(rank, F, Old(cs, i))
        BY <1>1, <2>1, <2>4 DEF RankedCalls, z, F
      <3> QED BY <1>3, <1>5, <1>25, <2>1, <2>2, <2>4, <3>1 DEF SameCall
    <2> QED BY <1>10, <2>3, <2>4
  <1>k4. RanksBounded(g, rank2)
    <2>1. PICK r \in Nat : \A s \in Spaces : \A l \in 1 .. Count(h, s) : Rank(rank, s, l) < r
      BY <1>1 DEF RanksBounded
    <2>2. \A s \in Spaces : \A l \in 1 .. Count(g, s) : Rank(rank2, s, l) < r
      BY <1>3, <1>7, <1>13, <1>14, <1>15, <1>25, <2>1
    <2> QED BY <2>2 DEF RanksBounded
  <1>27. Collecting(g, T, ds, regs, sc, cf, rank2)
    BY <1>t, <1>b, <1>r, <1>w, <1>g, <1>k, <1>m, <1>s, <1>c, <1>k1, <1>k2, <1>k3, <1>k4
    DEF Collecting
  <1> QED BY <1>27 DEF ds

-----------------------------------------------------------------------------
(* copy_list_node has visited all of a node, and copies it *)

\* bump_cpy of a node whose children are all in to_space.
LEMMA LeaveNodeCollecting ==
  ASSUME NEW h, NEW T, NEW cs, NEW regs, NEW sc, NEW cf, NEW rank,
         Collecting(h, T, cs, regs, sc, cf, rank), cs # <<>>, ~AtChild(h, T, cs),
         Fn(cs, Depth(cs)) = "copy_list_node", NEW o, Old(cs, Depth(cs)) = o,
         NEW g, NEW chars, NEW size, Copied(h, g, T, o, chars, size, Count(h, T) + 1),
         BlockOK(Kind(h, Other(T), o), Arity(h, Other(T), o), chars, size)
  PROVE  LET ds == Pop(cs)
             t  == OperandAt(g, T, ds, regs, sc, Depth(ds))
         IN  /\ \E rank2 : Collecting(g, T, ds, regs, sc, cf, rank2)
             /\ MovesTo(g, T, t, Ref(t.tag, T, Count(h, T) + 1))
             /\ t.tag = "NODE"
             /\ ds # <<>> => AtChild(g, T, ds)
  <1> DEFINE z  == Depth(cs)
             ds == Pop(cs)
             y  == Depth(ds)
             t  == OperandAt(g, T, ds, regs, sc, y)
             F  == Other(T)
             c  == Count(h, T) + 1
  <1>1. /\ Typed(h, T, cs, regs, sc, cf, rank) /\ BlocksOK(h)
        /\ RegistersOK(h, T, regs, sc, cf) /\ WhiteOK(h, T, cs) /\ GreyOK(h, T, cs)
        /\ BlackOK(h, T, cs) /\ MovedOK(h, T, cs) /\ StackOK(h, T, cs, regs, sc)
        /\ CopiesApart(cs) /\ RankedBlocks(h, T, rank) /\ RankedCopies(h, T, cs, rank)
        /\ RankedCalls(T, cs, rank) /\ RanksBounded(h, rank)
    BY DEF Collecting
  <1>2. /\ h \in Heaps /\ T \in Spaces /\ cs \in Seq(Activation) /\ cs # <<>> /\ rank \in Ranks
        /\ sc.i <= cf
    BY <1>1 DEF Typed
  <1>3. F \in Spaces /\ F # T /\ F # Off /\ T # Off /\ \A s \in Spaces : s = T \/ s = F
    BY <1>2, OtherSpace
  <1>4. /\ z \in Nat /\ z \in 1 .. z
        /\ Count(h, T) \in Nat /\ Count(h, F) \in Nat /\ c \in Nat /\ c \notin 1 .. Count(h, T) /\ c # 0
    BY <1>2, <1>3, StackTyped, HeapTyped
  <1>5. /\ ds \in Seq(Activation) /\ y = z - 1 /\ (ds = <<>> <=> y = 0)
        /\ \A i \in 1 .. y : SameCall(cs, ds, i) /\ Child(ds, i) = Child(cs, i)
    BY <1>2, PoppedFacts, StackTyped
  <1>6. /\ Fn(cs, z) = "copy_list_node" /\ Old(cs, z) = o /\ o \in 1 .. Count(h, F)
        /\ Kind(h, F, o) \in {"LEAF", "INTERNAL"} /\ Fwd(h, F, o) = 0
        /\ HomeSpace(T, cs, z) = F /\ HomeSlot(cs, z) = o
    <2>1. ActivationOK(h, T, cs, z)
      BY <1>1, <1>4 DEF StackOK
    <2> QED BY <2>1 DEF ActivationOK, HomeSpace, HomeSlot
  <1>7. \A i \in 1 .. y : i \in 1 .. z /\ i # z /\ i < z
    BY <1>4, <1>5
  <1>8. \A i \in 1 .. y : Old(cs, i) # o
    BY <1>4, <1>6, <1>7, HomesApart
  <1>9. \A i \in 1 .. z : i = z \/ i \in 1 .. y
    BY <1>4, <1>5
  <1>10. \A l : CopyAt(cs, l) <=> CopyAt(ds, l)
    BY <1>4, <1>5, <1>6, <1>7, <1>9 DEF CopyAt, SameCall
  <1>11. \A l : NodeAt(cs, l) <=> NodeAt(ds, l) \/ l = o
    BY <1>4, <1>5, <1>6, <1>7, <1>9 DEF NodeAt, SameCall
  <1>12. Child(cs, z) \in Nat /\ ~(Child(cs, z) <= Loop(h, F, o))
    BY <1>2, <1>4, <1>6, StackTyped DEF AtChild
  <1>13. \A i \in 1 .. y : /\ HomeSpace(T, ds, i) = HomeSpace(T, cs, i)
                           /\ HomeSlot(ds, i) = HomeSlot(cs, i)
    BY <1>5 DEF HomeSpace, HomeSlot, SameCall
  <1>14. \A i \in 1 .. y : /\ HomeSpace(T, cs, i) \in Spaces
                           /\ HomeSlot(cs, i) \in 1 .. Count(h, HomeSpace(T, cs, i))
    BY <1>7, HomeOnHeap
  <1> HIDE DEF z, ds, y, t, F
  <1>15. PICK rank2 \in Ranks : /\ Rank(rank2, T, c) = Rank(rank, F, o)
                                /\ \A s \in Spaces : \A l \in Nat :
                                     (s # T \/ l # c) => Rank(rank2, s, l) = Rank(rank, s, l)
    <2>1. o \in Nat
      BY <1>4, <1>6
    <2>2. rank[F][o] \in Nat
      BY <1>2, <1>3, <2>1 DEF Ranks
    <2> DEFINE m == rank[F][o]
               q == [rank[T] EXCEPT ![c] = m]
               r == [rank EXCEPT ![T] = q]
    <2>3. q \in [Nat -> Nat] /\ q[c] = m /\ \A l \in Nat : l # c => q[l] = rank[T][l]
      BY <1>2, <1>4, <2>2 DEF Ranks
    <2> HIDE DEF q
    <2>4. r \in Ranks /\ r[T] = q /\ \A s \in Spaces : s # T => r[s] = rank[s]
      BY <1>2, <2>3 DEF Ranks
    <2> HIDE DEF r
    <2> QED BY <1>2, <2>3, <2>4 DEF Rank
  <1>16. /\ g \in Heaps
         /\ Count(g, T) = c /\ Count(g, F) = Count(h, F)
         /\ \A x \in Spaces : \A l \in 1 .. Count(h, x) :
              /\ SameBut(h, g, x, l)
              /\ \A m : Kid(g, x, l, m) = Kid(h, x, l, m)
              /\ (x # F \/ l # o) => Fwd(g, x, l) = Fwd(h, x, l)
         /\ Fwd(g, F, o) = c
         /\ Kind(g, T, c) = Kind(h, F, o)
         /\ Arity(g, T, c) = Arity(h, F, o)
         /\ Chars(g, T, c) = chars
         /\ Size(g, T, c) = size
         /\ Fwd(g, T, c) = 0
         /\ \A n \in 1 .. Arity(h, F, o) : Kid(g, T, c, n) = Kid(h, F, o, n)
    BY <1>6 DEF Copied, F
  <1> HIDE DEF c
  <1>17. \A l \in 1 .. Count(g, T) : l = c \/ (l # c /\ l \in 1 .. Count(h, T))
    BY <1>4, <1>16 DEF c
  <1>18. \A x \in Spaces : \A l \in 1 .. Count(h, x) :
           l \in Nat /\ (x # T \/ l # c) /\ l \in 1 .. Count(g, x)
    BY <1>3, <1>4, <1>16 DEF c
  <1>19. Grows(h, g)
    <2>1. \A s \in Spaces : Count(h, s) \in Nat /\ Count(g, s) \in Nat
      BY <1>2, <1>16, HeapTyped
    <2>2. \A s \in Spaces : Count(h, s) <= Count(g, s)
      BY <1>3, <1>4, <1>16 DEF c
    <2> QED BY <1>16, <2>1, <2>2 DEF Grows, SameBut
  <1>20. \A i \in 0 .. y : OperandAt(g, T, ds, regs, sc, i) = OperandAt(h, T, cs, regs, sc, i)
    <2> TAKE i \in 0 .. y
    <2>1. i = 0 \/ i \in 1 .. y
      BY <1>4, <1>5
    <2> QED BY <1>5, <1>13, <1>14, <1>16, <2>1 DEF OperandAt
  <1>21. Whole(h, F, o, T)
    <2>1. Split(h, T, F, o, Child(cs, z))
      BY <1>1, <1>4, <1>6 DEF GreyOK, z
    <2>2. /\ Arity(h, F, o) \in Nat
          /\ Loop(h, F, o) = IF Kind(h, F, o) = "INTERNAL" THEN Arity(h, F, o) - 1
                             ELSE Arity(h, F, o)
      BY <1>2, <1>3, <1>6, HeapTyped
    <2> SUFFICES ASSUME NEW n \in 1 .. Arity(h, F, o)
                 PROVE  Suits(h, Kind(h, F, o), Arity(h, F, o), n, Kid(h, F, o, n), T)
      BY DEF Whole
    <2>3. Suits(h, Kind(h, F, o), Arity(h, F, o), n, Kid(h, F, o, n),
                IF n < Child(cs, z) THEN T ELSE F)
      BY <2>1 DEF Split, F
    <2>4. CASE n < Child(cs, z)
      BY <2>3, <2>4
    <2>5. CASE ~(n < Child(cs, z))
      <3>1. Kind(h, F, o) = "INTERNAL" /\ n = Arity(h, F, o)
        BY <1>6, <1>12, <2>2, <2>5
      <3> QED BY <2>3, <3>1 DEF Suits
    <2> QED BY <2>4, <2>5
  <1>t. Typed(g, T, ds, regs, sc, cf, rank2)
    BY <1>1, <1>2, <1>5, <1>15, <1>16 DEF Typed
  <1>b. BlocksOK(g)
    <2> SUFFICES ASSUME NEW s \in Spaces, NEW l \in 1 .. Count(g, s)
                 PROVE  BlockOK(Kind(g, s, l), Arity(g, s, l), Chars(g, s, l), Size(g, s, l))
      BY DEF BlocksOK
    <2>1. CASE l \in 1 .. Count(h, s)
      BY <1>1, <1>16, <2>1 DEF BlocksOK, SameBut
    <2>2. CASE s = T /\ l = c
      BY <1>16, <2>2 DEF F
    <2> QED BY <1>3, <1>16, <1>17, <2>1, <2>2
  <1>r. RegistersOK(g, T, regs, sc, cf)
    BY <1>1, <1>2, <1>3, <1>19, ValueInGrows DEF RegistersOK, F
  <1>w. WhiteOK(g, T, ds)
    <2> SUFFICES ASSUME NEW l \in 1 .. Count(h, F), Fwd(g, F, l) = 0, ~NodeAt(ds, l)
                 PROVE  Whole(g, F, l, F)
      BY <1>16 DEF WhiteOK, F
    <2>1. l # o
      BY <1>4, <1>16 DEF c
    <2>2. Whole(h, F, l, F)
      BY <1>1, <1>3, <1>11, <1>16, <2>1 DEF WhiteOK, F
    <2> QED BY <1>3, <1>16, <1>19, <2>2, WholeGrows DEF SameBut
  <1>g. GreyOK(g, T, ds)
    <2> SUFFICES ASSUME NEW i \in 1 .. y
                 PROVE  Split(g, T, HomeSpace(T, cs, i), HomeSlot(cs, i), Child(cs, i))
      BY <1>5, <1>13 DEF GreyOK, y
    <2>1. Split(h, T, HomeSpace(T, cs, i), HomeSlot(cs, i), Child(cs, i))
      BY <1>1, <1>7 DEF GreyOK, z
    <2> QED BY <1>2, <1>14, <1>16, <1>19, <2>1, SplitGrows DEF SameBut
  <1>k. BlackOK(g, T, ds)
    <2>1. Whole(g, T, c, T)
      BY <1>2, <1>16, <1>19, <1>21, WholeGrows
    <2>2. ASSUME NEW l \in 1 .. Count(h, T)
          PROVE  Fwd(g, T, l) = 0 /\ (~CopyAt(ds, l) => Whole(g, T, l, T))
      <3>1. Fwd(h, T, l) = 0 /\ (~CopyAt(cs, l) => Whole(h, T, l, T))
        BY <1>1 DEF BlackOK
      <3>2. Whole(h, T, l, T) => Whole(g, T, l, T)
        BY <1>2, <1>16, <1>19, WholeGrows DEF SameBut
      <3> QED BY <1>2, <1>3, <1>10, <1>16, <3>1, <3>2
    <2> QED BY <1>16, <1>17, <2>1, <2>2 DEF BlackOK
  <1>22. \A i \in 1 .. z : Fn(cs, i) = "copy" => New(cs, i) \in 1 .. Count(h, T)
    BY <1>1 DEF StackOK, ActivationOK, z
  <1>m. MovedOK(g, T, ds)
    <2> SUFFICES ASSUME NEW l \in 1 .. Count(h, F), Fwd(g, F, l) # 0
                 PROVE  /\ Fwd(g, F, l) \in 1 .. Count(g, T)
                        /\ Kind(g, T, Fwd(g, F, l)) = Kind(g, F, l)
                        /\ ~CopyAt(ds, Fwd(g, F, l))
                        /\ \A m \in 1 .. Count(h, F) : Fwd(g, F, m) = Fwd(g, F, l) => m = l
      BY <1>16 DEF MovedOK, F
    <2>1. \A m \in 1 .. Count(h, F) : Fwd(h, F, m) # 0 =>
            /\ Fwd(h, F, m) \in 1 .. Count(h, T)
            /\ Kind(h, T, Fwd(h, F, m)) = Kind(h, F, m)
            /\ ~CopyAt(cs, Fwd(h, F, m))
            /\ \A r \in 1 .. Count(h, F) : Fwd(h, F, r) = Fwd(h, F, m) => r = m
      BY <1>1 DEF MovedOK, F
    <2>2. \A m \in 1 .. Count(h, F) : Kind(g, F, m) = Kind(h, F, m) /\ (m # o => Fwd(g, F, m) = Fwd(h, F, m))
      BY <1>3, <1>16 DEF SameBut
    <2>3. \A m \in 1 .. Count(h, T) : Kind(g, T, m) = Kind(h, T, m) /\ m # c /\ m \in 1 .. Count(g, T)
      BY <1>2, <1>16, <1>18 DEF SameBut
    <2>4. c \in 1 .. Count(g, T)
      BY <1>4, <1>16 DEF c
    <2>5. ~CopyAt(ds, c)
      BY <1>10, <1>22, <2>3 DEF CopyAt, z
    <2>6. Fwd(g, F, o) = c /\ Kind(g, T, c) = Kind(h, F, o) /\ c # 0
      BY <1>4, <1>16 DEF c
    <2>7. CASE l = o
      BY <2>1, <2>2, <2>3, <2>4, <2>5, <2>6, <2>7
    <2>8. CASE l # o
      <3>1. Fwd(g, F, l) = Fwd(h, F, l) /\ Fwd(h, F, l) \in 1 .. Count(h, T) /\ Fwd(h, F, l) # c
        BY <2>1, <2>2, <2>3, <2>8
      <3> QED BY <1>10, <2>1, <2>2, <2>3, <2>6, <2>8, <3>1
    <2> QED BY <2>7, <2>8
  <1>s. StackOK(g, T, ds, regs, sc)
    <2> SUFFICES ASSUME NEW i \in 1 .. y
                 PROVE  /\ ActivationOK(g, T, ds, i)
                        /\ i < y => Child(ds, i) <= Loop(g, HomeSpace(T, ds, i), HomeSlot(ds, i))
                        /\ OperandAt(g, T, ds, regs, sc, i - 1).space = F
                        /\ OperandAt(g, T, ds, regs, sc, i - 1).slot = Old(ds, i)
      BY DEF StackOK, F, y
    <2>1. /\ ActivationOK(h, T, cs, i)
          /\ Child(cs, i) <= Loop(h, HomeSpace(T, cs, i), HomeSlot(cs, i))
          /\ OperandAt(h, T, cs, regs, sc, i - 1).space = F
          /\ OperandAt(h, T, cs, regs, sc, i - 1).slot = Old(cs, i)
      BY <1>1, <1>7 DEF StackOK, z, F
    <2>2. Loop(g, HomeSpace(T, ds, i), HomeSlot(ds, i)) = Loop(h, HomeSpace(T, cs, i), HomeSlot(cs, i))
      BY <1>13, <1>14, <1>16 DEF SameBut
    <2>3. SameCall(cs, ds, i) /\ Child(ds, i) = Child(cs, i) /\ Old(cs, i) # o
      BY <1>5, <1>8
    <2>4. ActivationOK(g, T, ds, i)
      BY <1>2, <1>3, <1>16, <1>18, <2>1, <2>2, <2>3 DEF ActivationOK, SameCall, SameBut, F
    <2>5. i - 1 \in 0 .. y
      BY <1>4, <1>5
    <2> QED BY <1>20, <2>1, <2>2, <2>3, <2>4, <2>5 DEF SameCall
  <1>c. CopiesApart(ds)
    BY <1>1, <1>5, <1>7 DEF CopiesApart, SameCall, y, z
  <1>23. \A s \in Spaces : \A l \in 1 .. Count(h, s) : Rank(rank2, s, l) = Rank(rank, s, l)
    BY <1>15, <1>18
  <1>24. ASSUME NEW s \in Spaces, NEW l \in 1 .. Count(h, s), s = T \/ Fwd(h, s, l) = 0,
                NEW n \in 1 .. Arity(h, s, l), Kid(h, s, l, n).space # Off
         PROVE  Rank(rank2, Kid(h, s, l, n).space, Kid(h, s, l, n).slot) < Rank(rank, s, l)
    <2> DEFINE v == Kid(h, s, l, n)
    <2>1. Rank(rank, v.space, v.slot) < Rank(rank, s, l)
      BY <1>1, <1>24 DEF RankedBlocks
    <2>2. RefersTo(h, v, T) \/ RefersTo(h, v, F)
      BY <1>24, KidRefers DEF F
    <2>3. v.space \in Spaces /\ v.slot \in 1 .. Count(h, v.space)
      BY <1>2, <1>3, <2>2 DEF RefersTo
    <2> QED BY <1>23, <2>1, <2>3
  <1>k1. RankedBlocks(g, T, rank2)
    <2> SUFFICES ASSUME NEW s \in Spaces, NEW l \in 1 .. Count(g, s), s = T \/ Fwd(g, s, l) = 0,
                        NEW n \in 1 .. Arity(g, s, l), Kid(g, s, l, n).space # Off
                 PROVE  Rank(rank2, Kid(g, s, l, n).space, Kid(g, s, l, n).slot) < Rank(rank2, s, l)
      BY DEF RankedBlocks
    <2>1. CASE l \in 1 .. Count(h, s)
      <3>1. /\ s = T \/ Fwd(h, s, l) = 0
            /\ n \in 1 .. Arity(h, s, l) /\ Kid(g, s, l, n) = Kid(h, s, l, n)
        BY <1>6, <1>16, <2>1 DEF SameBut
      <3> QED BY <1>23, <1>24, <2>1, <3>1
    <2>2. CASE s = T /\ l = c
      <3>1. n \in 1 .. Arity(h, F, o) /\ Kid(g, s, l, n) = Kid(h, F, o, n)
        BY <1>16, <2>2
      <3> QED BY <1>3, <1>6, <1>15, <1>24, <2>2, <3>1
    <2> QED BY <1>3, <1>16, <1>17, <2>1, <2>2
  <1>k2. RankedCopies(g, T, ds, rank2)
    <2>1. ASSUME NEW l \in 1 .. Count(h, F), Fwd(g, F, l) # 0
          PROVE  Rank(rank2, T, Fwd(g, F, l)) = Rank(rank2, F, l)
      <3>1. CASE l = o
        BY <1>3, <1>6, <1>15, <1>16, <1>23, <3>1
      <3>2. CASE l # o
        <4>1. Fwd(g, F, l) = Fwd(h, F, l)
          BY <1>3, <1>16, <3>2
        <4>2. /\ Fwd(h, F, l) \in 1 .. Count(h, T)
              /\ Rank(rank, T, Fwd(h, F, l)) = Rank(rank, F, l)
          BY <1>1, <2>1, <4>1 DEF MovedOK, RankedCopies, F
        <4> QED BY <1>2, <1>3, <1>23, <4>1, <4>2
      <3> QED BY <3>1, <3>2
    <2>2. ASSUME NEW i \in 1 .. y, Fn(ds, i) = "copy"
          PROVE  Rank(rank2, T, New(ds, i)) = Rank(rank2, F, Old(ds, i))
      <3>1. /\ Fn(cs, i) = "copy" /\ New(ds, i) = New(cs, i) /\ Old(ds, i) = Old(cs, i)
            /\ i \in 1 .. z
        BY <1>5, <1>7, <2>2 DEF SameCall
      <3>2. Rank(rank, T, New(cs, i)) = Rank(rank, F, Old(cs, i)) /\ Old(cs, i) \in 1 .. Count(h, F)
        BY <1>1, <3>1 DEF RankedCopies, StackOK, ActivationOK, F, z
      <3> QED BY <1>2, <1>3, <1>22, <1>23, <3>1, <3>2
    <2> QED BY <1>16, <2>1, <2>2 DEF RankedCopies, F, y
  <1>k3. RankedCalls(T, ds, rank2)
    <2> SUFFICES ASSUME NEW i \in 1 .. y, NEW j \in 1 .. y, i < j
                 PROVE  Rank(rank2, F, Old(ds, j)) < Rank(rank2, F, Old(ds, i))
      BY DEF RankedCalls, y, F
    <2>1. i \in 1 .. z /\ j \in 1 .. z
      BY <1>7
    <2>2. Old(cs, i) \in 1 .. Count(h, F) /\ Old(cs, j) \in 1 .. Count(h, F)
      BY <1>1, <2>1 DEF StackOK, ActivationOK, F, z
    <2>3. Rank(rank, F, Old(cs, j)) < Rank(rank, F, Old(cs, i))
      BY <1>1, <2>1 DEF RankedCalls, z, F
    <2> QED BY <1>3, <1>5, <1>23, <2>2, <2>3 DEF SameCall
  <1>k4. RanksBounded(g, rank2)
    <2>1. PICK r \in Nat : \A s \in Spaces : \A l \in 1 .. Count(h, s) : Rank(rank, s, l) < r
      BY <1>1 DEF RanksBounded
    <2>2. \A s \in Spaces : \A l \in 1 .. Count(g, s) : Rank(rank2, s, l) < r
      BY <1>3, <1>6, <1>15, <1>16, <1>17, <1>23, <2>1
    <2> QED BY <2>2 DEF RanksBounded
  <1>25. Collecting(g, T, ds, regs, sc, cf, rank2)
    BY <1>t, <1>b, <1>r, <1>w, <1>g, <1>k, <1>m, <1>s, <1>c, <1>k1, <1>k2, <1>k3, <1>k4
    DEF Collecting
  <1>26. ds # <<>> => AtChild(g, T, ds)
    <2> SUFFICES ASSUME ds # <<>>
                 PROVE  AtChild(g, T, ds)
      OBVIOUS
    <2>1. y \in 1 .. y
      BY <1>4, <1>5
    <2>2. Child(cs, y) <= Loop(h, HomeSpace(T, cs, y), HomeSlot(cs, y))
      BY <1>1, <1>7, <2>1 DEF StackOK, z
    <2> QED BY <1>5, <1>13, <1>14, <1>16, <2>1, <2>2 DEF AtChild, SameBut, y
  <1>27. MovesTo(g, T, t, Ref(t.tag, T, c)) /\ t.tag = "NODE"
    <2>1. y \in 0 .. y /\ y + 1 = z
      BY <1>4, <1>5
    <2>2. t.space = F /\ t.slot = o
      <3>1. t = OperandAt(h, T, cs, regs, sc, z - 1)
        BY <1>5, <1>20, <2>1 DEF t
      <3> QED BY <1>1, <1>4, <1>6, <3>1 DEF StackOK, F, z
    <2>3. /\ y = 0 => sc.i <= cf
          /\ y # 0 => Child(ds, y) <= Loop(g, HomeSpace(T, ds, y), HomeSlot(ds, y))
      BY <1>2, <1>5, <1>26 DEF AtChild, y
    <2>4. t.space = Off \/ RefersTo(g, t, F)
      BY <1>25, <2>1, <2>3, OperandSuits DEF t, F, y
    <2>5. t.tag = "NODE"
      <3>1. t.tag = TagOf(Kind(h, F, o))
        BY <1>3, <1>6, <1>16, <2>2, <2>4 DEF RefersTo, SameBut
      <3> QED BY <1>6, <3>1 DEF TagOf
    <2> QED BY <1>3, <1>4, <1>16, <2>2, <2>4, <2>5 DEF MovesTo, F, c
  <1> QED BY <1>25, <1>26, <1>27 DEF ds, t, c, y, z

=============================================================================
