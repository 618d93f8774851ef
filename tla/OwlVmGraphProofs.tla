---------------------------- MODULE OwlVmGraphProofs ----------------------------
(***************************************************************************)
(* OwlGc!CollectKeepsGraph: a collection keeps what the registers and the  *)
(* blocks stand for, for every value of the constants.                     *)
(***************************************************************************)
EXTENDS OwlVmHeapProofs

-----------------------------------------------------------------------------
(* The graph of OwlGc of a heap h whose to_space is T, and a stack cs *)

IsCopyOf(h, T, cs, c, k) ==
  /\ c \in 1 .. Count(h, T)
  /\ \/ Fwd(h, Other(T), k) = c
     \/ \E i \in 1 .. Depth(cs) : Fn(cs, i) = "copy" /\ Old(cs, i) = k /\ New(cs, i) = c

CopiesIn(h, T, cs, k) == {c \in 1 .. Count(h, T) : IsCopyOf(h, T, cs, c, k)}

\* Every copy is one of an original.
OriginalsKnown(h, T, cs) ==
  \A c \in 1 .. Count(h, T) : \E k \in 1 .. Count(h, Other(T)) : IsCopyOf(h, T, cs, c, k)

OriginalIn(h, T, cs, t) ==
  [tag   |-> t.tag,
   space |-> IF t.space = Off THEN Off ELSE Other(T),
   slots |-> IF t.space = T
             THEN {k \in 1 .. Count(h, Other(T)) : IsCopyOf(h, T, cs, t.slot, k)} ELSE {t.slot}]

ContentIn(h, T, cs, s, k) ==
  [kind |-> Kind(h, s, k),
   kids |-> [n \in 1 .. Arity(h, s, k) |-> OriginalIn(h, T, cs, Kid(h, s, k, n))]]

GraphIn(h, T, cs) ==
  [k \in 1 .. Count(h, Other(T)) |->
     IF CopiesIn(h, T, cs, k) = {} THEN {ContentIn(h, T, cs, Other(T), k)}
     ELSE {ContentIn(h, T, cs, T, c) : c \in CopiesIn(h, T, cs, k)}]

RootsIn(h, T, cs, regs, cf) ==
  [i \in 0 .. cf |-> [j \in Regs |-> OriginalIn(h, T, cs, Reg(regs, i, j))]]

\* The graph the property is about, during a collection.
LEMMA GraphParts ==
  status = "collect" /\ toSpace \in Spaces =>
    /\ Graph = GraphIn(heap, toSpace, calls)
    /\ Roots = RootsIn(heap, toSpace, calls, registers, currentFrame)
  <1> SUFFICES ASSUME status = "collect", toSpace \in Spaces
               PROVE  /\ Graph = GraphIn(heap, toSpace, calls)
                      /\ Roots = RootsIn(heap, toSpace, calls, registers, currentFrame)
    OBVIOUS
  <1>1. OriginSpace = Other(toSpace) /\ 1 - OriginSpace = toSpace
    BY DEF OriginSpace, FromSpace, Other, Spaces, Low, High
  <1>2. \A s : Slots(s) = 1 .. Count(heap, s)
    BY DEF Slots, Count
  <1>3. \A k : Copies(k) = CopiesIn(heap, toSpace, calls, k)
    BY <1>1, <1>2 DEF Copies, CopiesIn, IsCopyOf, Fwd, Depth, Fn, Old, New
  <1>4. \A c, k : c \in Copies(k) <=> IsCopyOf(heap, toSpace, calls, c, k)
    BY <1>3 DEF CopiesIn, IsCopyOf
  <1>5. \A t : Original(t) = OriginalIn(heap, toSpace, calls, t)
    BY <1>1, <1>2, <1>4 DEF Original, OriginalIn
  <1>6. \A s, k : Content(heap[s][k]) = ContentIn(heap, toSpace, calls, s, k)
    BY <1>5 DEF Content, ContentIn, Kind, Arity, Kid
  <1>7. Graph = GraphIn(heap, toSpace, calls)
    BY <1>1, <1>2, <1>3, <1>6 DEF Graph, GraphIn
  <1>8. Roots = RootsIn(heap, toSpace, calls, registers, currentFrame)
    BY <1>5 DEF Roots, RootsIn, Reg
  <1> QED BY <1>7, <1>8

-----------------------------------------------------------------------------
(* When graphs are the same *)

\* What has the same original in both.
LEMMA OriginalSame ==
  ASSUME NEW h, NEW g, NEW T, NEW cs, NEW ds, Count(g, Other(T)) = Count(h, Other(T)), NEW t,
         t.space = T => \A k \in 1 .. Count(h, Other(T)) :
                          IsCopyOf(g, T, ds, t.slot, k) <=> IsCopyOf(h, T, cs, t.slot, k)
  PROVE  OriginalIn(g, T, ds, t) = OriginalIn(h, T, cs, t)
  BY DEF OriginalIn

\* Blocks with the same kind and with the same children, in terms of originals.
LEMMA ContentSame ==
  ASSUME NEW h, NEW g, NEW T, NEW cs, NEW ds, NEW s, NEW k, NEW r, NEW l,
         Kind(g, r, l) = Kind(h, s, k), Arity(g, r, l) = Arity(h, s, k),
         \A n \in 1 .. Arity(h, s, k) :
           OriginalIn(g, T, ds, Kid(g, r, l, n)) = OriginalIn(h, T, cs, Kid(h, s, k, n))
  PROVE  ContentIn(g, T, ds, r, l) = ContentIn(h, T, cs, s, k)
  BY DEF ContentIn

\* No copy was begun, and the blocks have the same contents.
LEMMA GraphSame ==
  ASSUME NEW h, NEW g, NEW T \in Spaces, NEW cs, NEW ds,
         \A s \in Spaces : Count(g, s) = Count(h, s),
         \A c : \A k \in 1 .. Count(h, Other(T)) : IsCopyOf(g, T, ds, c, k) <=> IsCopyOf(h, T, cs, c, k),
         \A s \in Spaces : \A k \in 1 .. Count(h, s) :
           ContentIn(g, T, ds, s, k) = ContentIn(h, T, cs, s, k)
  PROVE  GraphIn(g, T, ds) = GraphIn(h, T, cs)
  <1>1. Other(T) \in Spaces
    BY OtherSpace
  <1>2. \A k \in 1 .. Count(h, Other(T)) : CopiesIn(g, T, ds, k) = CopiesIn(h, T, cs, k)
    BY DEF CopiesIn
  <1>3. \A k \in 1 .. Count(h, Other(T)) :
          {ContentIn(g, T, ds, T, c) : c \in CopiesIn(g, T, ds, k)}
                 = {ContentIn(h, T, cs, T, c) : c \in CopiesIn(h, T, cs, k)}
    BY <1>2 DEF CopiesIn
  <1>4. \A k \in 1 .. Count(h, Other(T)) :
          ContentIn(g, T, ds, Other(T), k) = ContentIn(h, T, cs, Other(T), k)
    BY <1>1
  <1>5. Count(g, Other(T)) = Count(h, Other(T))
    BY <1>1
  <1> QED BY <1>2, <1>3, <1>4, <1>5 DEF GraphIn

\* A copy of k was allocated, the first of it and with its contents; nothing
\* changed what is not forwarded, and no copy.
LEMMA GraphGrown ==
  ASSUME NEW h, NEW g, NEW T \in Spaces, NEW cs, NEW ds, NEW k \in 1 .. Count(h, Other(T)),
         Count(g, Other(T)) = Count(h, Other(T)), NEW c, c \in 1 .. Count(g, T),
         1 .. Count(g, T) = (1 .. Count(h, T)) \cup {c}, c \notin 1 .. Count(h, T),
         \A d \in 1 .. Count(h, T) : \A l \in 1 .. Count(h, Other(T)) :
           IsCopyOf(g, T, ds, d, l) <=> IsCopyOf(h, T, cs, d, l),
         \A l \in 1 .. Count(h, Other(T)) : IsCopyOf(g, T, ds, c, l) <=> l = k,
         \A d : ~IsCopyOf(h, T, cs, d, k),
         \A d \in 1 .. Count(h, T) : ContentIn(g, T, ds, T, d) = ContentIn(h, T, cs, T, d),
         \A l \in 1 .. Count(h, Other(T)) : CopiesIn(h, T, cs, l) = {} =>
           ContentIn(g, T, ds, Other(T), l) = ContentIn(h, T, cs, Other(T), l),
         ContentIn(g, T, ds, T, c) = ContentIn(h, T, cs, Other(T), k)
  PROVE  GraphIn(g, T, ds) = GraphIn(h, T, cs)
  <1>1. CopiesIn(g, T, ds, k) = {c} /\ CopiesIn(h, T, cs, k) = {}
    BY DEF CopiesIn
  <1>2. \A l \in 1 .. Count(h, Other(T)) : l # k => CopiesIn(g, T, ds, l) = CopiesIn(h, T, cs, l)
    BY DEF CopiesIn
  <1>3. GraphIn(g, T, ds)[k] = GraphIn(h, T, cs)[k]
    BY <1>1 DEF GraphIn
  <1>4. ASSUME NEW l \in 1 .. Count(h, Other(T)), l # k
        PROVE  GraphIn(g, T, ds)[l] = GraphIn(h, T, cs)[l]
    <2>1. {ContentIn(g, T, ds, T, d) : d \in CopiesIn(g, T, ds, l)}
            = {ContentIn(h, T, cs, T, d) : d \in CopiesIn(h, T, cs, l)}
      BY <1>2, <1>4 DEF CopiesIn
    <2> QED BY <1>2, <1>4, <2>1 DEF GraphIn
  <1>5. \A l \in 1 .. Count(h, Other(T)) : GraphIn(g, T, ds)[l] = GraphIn(h, T, cs)[l]
    BY <1>3, <1>4
  <1> DEFINE D == 1 .. Count(h, Other(T))
             p == GraphIn(g, T, ds)
             q == GraphIn(h, T, cs)
  <1>6. p = [l \in D |-> p[l]] /\ q = [l \in D |-> q[l]]
    BY DEF GraphIn
  <1> HIDE DEF p, q
  <1> QED BY <1>5, <1>6 DEF p, q

-----------------------------------------------------------------------------
(* A callee returns *)

\* A finished copy stands for its original.
LEMMA OriginalMoved ==
  ASSUME NEW h \in Heaps, NEW T \in Spaces, NEW cs, MovedOK(h, T, cs),
         NEW u, NEW t, MovesTo(h, T, u, t)
  PROVE  OriginalIn(h, T, cs, t) = OriginalIn(h, T, cs, u)
  <1> DEFINE F == Other(T)
  <1>1. F # T /\ F # Off /\ T # Off
    BY OtherSpace
  <1>2. CASE t = u
    BY <1>2
  <1>3. CASE RefersTo(h, u, F) /\ Fwd(h, F, u.slot) # 0 /\ t = Ref(u.tag, T, Fwd(h, F, u.slot))
    <2> DEFINE k == u.slot
               f == Fwd(h, F, k)
    <2>1. u.space = F /\ k \in 1 .. Count(h, F)
      BY <1>3 DEF RefersTo
    <2>2. /\ f \in 1 .. Count(h, T) /\ ~CopyAt(cs, f)
          /\ \A l \in 1 .. Count(h, F) : Fwd(h, F, l) = f => l = k
      BY <1>3, <2>1 DEF MovedOK
    <2>3. \A l \in 1 .. Count(h, F) : IsCopyOf(h, T, cs, f, l) <=> l = k
      BY <2>2 DEF IsCopyOf, CopyAt
    <2>4. t.tag = u.tag /\ t.space = T /\ t.slot = f
      BY <1>3 DEF Ref
    <2> HIDE DEF f, k
    <2>5. {l \in 1 .. Count(h, F) : IsCopyOf(h, T, cs, f, l)} = {k}
      BY <2>1, <2>3
    <2> HIDE DEF F
    <2> QED BY <1>1, <2>1, <2>4, <2>5 DEF OriginalIn, F, k
  <1> QED BY <1>2, <1>3 DEF MovesTo

\* The blocks of which there are copies, and the references to them, are the
\* same when the calls in progress are for the same blocks.
LEMMA CopiesSame ==
  ASSUME NEW h, NEW g, NEW T \in Spaces, NEW cs, NEW ds, Depth(ds) = Depth(cs),
         \A i \in 1 .. Depth(cs) : SameCall(cs, ds, i), Count(g, T) = Count(h, T),
         NEW k, Fwd(g, Other(T), k) = Fwd(h, Other(T), k)
  PROVE  \A c : IsCopyOf(g, T, ds, c, k) <=> IsCopyOf(h, T, cs, c, k)
  BY DEF IsCopyOf, SameCall

\* The caller replaces a term by one with the same original.
LEMMA ReturnKeeps ==
  ASSUME NEW h, NEW cs, NEW rank,
         Collecting(h, toSpace, cs, registers, scan, currentFrame, rank),
         AtOperand(h, toSpace, cs, scan, currentFrame), NEW t,
         MovesTo(h, toSpace, OperandAt(h, toSpace, cs, registers, scan, Depth(cs)), t),
         Return(h, cs, t)
  PROVE  /\ GraphIn(heap', toSpace, calls') = GraphIn(h, toSpace, cs)
         /\ RootsIn(heap', toSpace, calls', registers', currentFrame)
              = RootsIn(h, toSpace, cs, registers, currentFrame)
         /\ OriginalsKnown(h, toSpace, cs) => OriginalsKnown(heap', toSpace, calls')
  <1> DEFINE u == OperandAt(h, toSpace, cs, registers, scan, Depth(cs))
  <1>1. /\ cs \in Seq(Activation) /\ h \in Heaps /\ toSpace \in Spaces /\ currentFrame \in Frames
        /\ scan \in [i : Nat, j : Regs] /\ MovedOK(h, toSpace, cs)
        /\ registers \in [Frames -> [Regs -> Term]]
    BY DEF Collecting, Typed
  <1>2. OriginalIn(h, toSpace, cs, t) = OriginalIn(h, toSpace, cs, u)
    BY <1>1, OriginalMoved
  <1>3. Other(toSpace) \in Spaces
    BY <1>1, OtherSpace
  <1>4. CASE cs = <<>>
    <2>1. heap' = h /\ calls' = cs /\ registers' = [registers EXCEPT ![scan.i][scan.j] = t]
      BY <1>4 DEF Return
    <2>2. u = Reg(registers, scan.i, scan.j)
      BY <1>1, <1>4, StackTyped DEF OperandAt
    <2>3. ASSUME NEW i \in 0 .. currentFrame, NEW j \in Regs
          PROVE  OriginalIn(h, toSpace, cs, Reg(registers', i, j))
                   = OriginalIn(h, toSpace, cs, Reg(registers, i, j))
      <3>1. i \in Frames
        BY <1>1, GcAssumption DEF Frames
      <3>2. \/ Reg(registers', i, j) = Reg(registers, i, j)
            \/ i = scan.i /\ j = scan.j /\ Reg(registers', i, j) = t
        BY <1>1, <2>1, <3>1 DEF Reg
      <3> QED BY <1>2, <2>2, <3>2
    <2> HIDE DEF u
    <2>4. RootsIn(h, toSpace, cs, registers', currentFrame) = RootsIn(h, toSpace, cs, registers, currentFrame)
      BY <2>3 DEF RootsIn
    <2> QED BY <2>1, <2>4
  <1>5. CASE cs # <<>>
    <2> DEFINE z == Depth(cs)
               p == HomeSpace(toSpace, cs, z)
               q == HomeSlot(cs, z)
               n == Child(cs, z)
               g == [h EXCEPT ![p][q].kids[n] = t]
               ds == Stepped(cs)
    <2>1. registers' = registers /\ calls' = ds /\ heap' = g
      BY <1>1, <1>5, TopFacts DEF Return, Stepped
    <2>2. z \in 1 .. Depth(cs) /\ n <= Loop(h, p, q)
      BY <1>1, <1>5, StackTyped DEF AtOperand, AtChild
    <2>3. p \in Spaces /\ q \in 1 .. Count(h, p) /\ n \in 1 .. Arity(h, p, q)
      BY <2>2, HomeOnHeap
    <2>4. t \in Term
      BY <1>1, SuitsMoved
    <2>5. KidChange(h, g, p, q, n, t)
      BY <1>1, <2>3, <2>4, KidChanged
    <2>6. /\ Depth(ds) = Depth(cs)
          /\ \A i \in 1 .. Depth(cs) : SameCall(cs, ds, i)
      BY <1>1, <1>5, SteppedFacts
    <2>7. u = Kid(h, p, q, n)
      BY <2>2 DEF OperandAt
    <2> HIDE DEF g, u, ds, p, q, n
    <2>8. \A s \in Spaces : Count(g, s) = Count(h, s)
      BY <2>5 DEF KidChange
    <2>9. \A c : \A k \in 1 .. Count(h, Other(toSpace)) :
            IsCopyOf(g, toSpace, ds, c, k) <=> IsCopyOf(h, toSpace, cs, c, k)
      <3>1. \A k \in 1 .. Count(h, Other(toSpace)) : Fwd(g, Other(toSpace), k) = Fwd(h, Other(toSpace), k)
        BY <1>3, <2>5 DEF KidChange
      <3> QED BY <1>1, <2>6, <2>8, <3>1, CopiesSame
    <2>10. \A x : OriginalIn(g, toSpace, ds, x) = OriginalIn(h, toSpace, cs, x)
      BY <1>3, <2>8, <2>9, OriginalSame
    <2>11. ASSUME NEW s \in Spaces, NEW k \in 1 .. Count(h, s)
           PROVE  ContentIn(g, toSpace, ds, s, k) = ContentIn(h, toSpace, cs, s, k)
      <3>1. Kind(g, s, k) = Kind(h, s, k) /\ Arity(g, s, k) = Arity(h, s, k)
        BY <2>5 DEF KidChange, SameBut
      <3>2. ASSUME NEW m \in 1 .. Arity(h, s, k)
            PROVE  OriginalIn(g, toSpace, ds, Kid(g, s, k, m)) = OriginalIn(h, toSpace, cs, Kid(h, s, k, m))
        <4>1. \/ Kid(g, s, k, m) = Kid(h, s, k, m)
              \/ Kid(g, s, k, m) = t /\ Kid(h, s, k, m) = u
          BY <2>5, <2>7 DEF KidChange
        <4> QED BY <1>2, <2>10, <4>1 DEF u
      <3> QED BY <3>1, <3>2, ContentSame
    <2>12. GraphIn(g, toSpace, ds) = GraphIn(h, toSpace, cs)
      BY <1>1, <2>8, <2>9, <2>11, GraphSame
    <2>13. RootsIn(g, toSpace, ds, registers, currentFrame) = RootsIn(h, toSpace, cs, registers, currentFrame)
      BY <2>10 DEF RootsIn
    <2>14. OriginalsKnown(h, toSpace, cs) => OriginalsKnown(g, toSpace, ds)
      BY <1>1, <1>3, <2>8, <2>9 DEF OriginalsKnown
    <2> QED BY <2>1, <2>12, <2>13, <2>14
  <1> QED BY <1>4, <1>5

-----------------------------------------------------------------------------
(* Copies begin and end *)

\* The copy of copy is forwarded to when the call returns.
LEMMA ForwardKeeps ==
  ASSUME NEW h, NEW T, NEW cs, NEW regs, NEW sc, NEW cf, NEW rank,
         Collecting(h, T, cs, regs, sc, cf, rank), cs # <<>>, Fn(cs, Depth(cs)) = "copy", NEW g,
         FwdChange(h, g, Other(T), Old(cs, Depth(cs)), New(cs, Depth(cs)))
  PROVE  /\ GraphIn(g, T, Pop(cs)) = GraphIn(h, T, cs)
         /\ RootsIn(g, T, Pop(cs), regs, cf) = RootsIn(h, T, cs, regs, cf)
         /\ OriginalsKnown(h, T, cs) => OriginalsKnown(g, T, Pop(cs))
  <1> DEFINE z  == Depth(cs)
             o  == Old(cs, z)
             d  == New(cs, z)
             ds == Pop(cs)
             F  == Other(T)
  <1>1. h \in Heaps /\ T \in Spaces /\ cs \in Seq(Activation) /\ F \in Spaces
    BY OtherSpace DEF Collecting, Typed
  <1>2. z \in Nat /\ z \in 1 .. z
    BY <1>1, StackTyped
  <1>3. Depth(ds) = z - 1 /\ \A i \in 1 .. z - 1 : SameCall(cs, ds, i)
    BY <1>1, PoppedFacts
  <1>4. Fwd(h, F, o) = 0 /\ o \in 1 .. Count(h, F)
    BY <1>2 DEF Collecting, StackOK, ActivationOK
  <1>5. /\ \A s \in Spaces : Count(g, s) = Count(h, s)
        /\ \A k \in 1 .. Count(h, F) : k # o => Fwd(g, F, k) = Fwd(h, F, k)
        /\ Fwd(g, F, o) = d
    BY <1>1 DEF FwdChange
  <1> HIDE DEF ds
  <1>6. ASSUME NEW c, NEW k \in 1 .. Count(h, F)
        PROVE  IsCopyOf(g, T, ds, c, k) <=> IsCopyOf(h, T, cs, c, k)
    <2>1. c \in 1 .. Count(h, T) => c # 0
      BY <1>1, HeapTyped
    <2>2. ASSUME IsCopyOf(g, T, ds, c, k)
          PROVE  IsCopyOf(h, T, cs, c, k)
      <3>1. CASE Fwd(g, F, k) = c
        BY <1>1, <1>2, <1>5, <2>2, <3>1 DEF IsCopyOf
      <3>2. CASE \E i \in 1 .. Depth(ds) : Fn(ds, i) = "copy" /\ Old(ds, i) = k /\ New(ds, i) = c
        <4>1. PICK i \in 1 .. Depth(ds) : Fn(ds, i) = "copy" /\ Old(ds, i) = k /\ New(ds, i) = c
          BY <3>2
        <4>2. i \in 1 .. z /\ Fn(cs, i) = "copy" /\ Old(cs, i) = k /\ New(cs, i) = c
          BY <1>2, <1>3, <4>1 DEF SameCall
        <4> QED BY <1>1, <1>5, <2>2, <4>2 DEF IsCopyOf
      <3> QED BY <2>2, <3>1, <3>2 DEF IsCopyOf
    <2>3. ASSUME IsCopyOf(h, T, cs, c, k)
          PROVE  IsCopyOf(g, T, ds, c, k)
      <3>1. CASE Fwd(h, F, k) = c
        BY <1>1, <1>4, <1>5, <2>1, <2>3, <3>1 DEF IsCopyOf
      <3>2. CASE \E i \in 1 .. z : Fn(cs, i) = "copy" /\ Old(cs, i) = k /\ New(cs, i) = c
        <4>1. PICK i \in 1 .. z : Fn(cs, i) = "copy" /\ Old(cs, i) = k /\ New(cs, i) = c
          BY <3>2
        <4>2. CASE i = z
          BY <1>1, <1>5, <2>3, <4>1, <4>2 DEF IsCopyOf
        <4>3. CASE i # z
          <5>1. i \in 1 .. z - 1
            BY <1>2, <4>3
          <5>2. i \in 1 .. Depth(ds) /\ Fn(ds, i) = "copy" /\ Old(ds, i) = k /\ New(ds, i) = c
            BY <1>3, <4>1, <5>1 DEF SameCall
          <5> QED BY <1>1, <1>5, <2>3, <5>2 DEF IsCopyOf
        <4> QED BY <4>2, <4>3
      <3> QED BY <2>3, <3>1, <3>2 DEF IsCopyOf
    <2> QED BY <2>2, <2>3
  <1>7. \A x : OriginalIn(g, T, ds, x) = OriginalIn(h, T, cs, x)
    BY <1>1, <1>5, <1>6, OriginalSame
  <1>8. ASSUME NEW s \in Spaces, NEW k \in 1 .. Count(h, s)
        PROVE  ContentIn(g, T, ds, s, k) = ContentIn(h, T, cs, s, k)
    <2>1. /\ Kind(g, s, k) = Kind(h, s, k) /\ Arity(g, s, k) = Arity(h, s, k)
          /\ \A m : Kid(g, s, k, m) = Kid(h, s, k, m)
      BY DEF FwdChange, SameBut
    <2> QED BY <1>7, <2>1, ContentSame
  <1>9. GraphIn(g, T, ds) = GraphIn(h, T, cs)
    BY <1>1, <1>5, <1>6, <1>8, GraphSame
  <1>10. RootsIn(g, T, ds, regs, cf) = RootsIn(h, T, cs, regs, cf)
    BY <1>7 DEF RootsIn
  <1>11. OriginalsKnown(h, T, cs) => OriginalsKnown(g, T, ds)
    BY <1>1, <1>5, <1>6 DEF OriginalsKnown
  <1> QED BY <1>9, <1>10, <1>11 DEF ds

\* A first copy of original k is there, with the children of the original; ds
\* are the calls in progress with those for the new copy.
LEMMA CopyKeeps ==
  ASSUME NEW h, NEW T, NEW cs, NEW regs, NEW sc, NEW cf, NEW rank,
         Collecting(h, T, cs, regs, sc, cf, rank),
         NEW k \in 1 .. Count(h, Other(T)), Fwd(h, Other(T), k) = 0, ~InCopy(cs, k),
         NEW g, NEW chars, NEW size, NEW f, Copied(h, g, T, k, chars, size, f),
         Arity(g, T, Count(h, T) + 1) = Arity(h, Other(T), k),
         \A n \in 1 .. Arity(h, Other(T), k) :
           Kid(g, T, Count(h, T) + 1, n) = Kid(h, Other(T), k, n),
         NEW ds,
         \A d \in 1 .. Count(h, T) : \A l \in 1 .. Count(h, Other(T)) :
           IsCopyOf(g, T, ds, d, l) <=> IsCopyOf(h, T, cs, d, l),
         \A l \in 1 .. Count(h, Other(T)) : IsCopyOf(g, T, ds, Count(h, T) + 1, l) <=> l = k
  PROVE  /\ GraphIn(g, T, ds) = GraphIn(h, T, cs)
         /\ RootsIn(g, T, ds, regs, cf) = RootsIn(h, T, cs, regs, cf)
  <1> DEFINE F == Other(T)
             c == Count(h, T) + 1
  <1>1. h \in Heaps /\ T \in Spaces /\ F \in Spaces /\ F # T /\ F # Off /\ T # Off
    BY OtherSpace DEF Collecting, Typed
  <1>2. Count(h, T) \in Nat
    BY <1>1, HeapTyped
  <1>3. /\ Count(g, T) = c /\ Count(g, F) = Count(h, F)
        /\ \A x \in Spaces : \A l \in 1 .. Count(h, x) :
             /\ SameBut(h, g, x, l)
             /\ \A m : Kid(g, x, l, m) = Kid(h, x, l, m)
        /\ Kind(g, T, c) = Kind(h, F, k)
    BY DEF Copied
  <1>4. /\ 1 .. Count(g, T) = (1 .. Count(h, T)) \cup {c} /\ c \notin 1 .. Count(h, T)
        /\ c \in 1 .. Count(g, T)
    BY <1>2, <1>3
  <1>5. \A d : ~IsCopyOf(h, T, cs, d, k)
    BY <1>2 DEF IsCopyOf, InCopy
  <1>6. \A d \in 1 .. Count(h, T) : \A l \in 1 .. Count(h, F) :
          IsCopyOf(g, T, ds, d, l) <=> IsCopyOf(h, T, cs, d, l)
    OBVIOUS
  <1>7. ASSUME NEW x, x.space = T => x.slot \in 1 .. Count(h, T)
        PROVE  OriginalIn(g, T, ds, x) = OriginalIn(h, T, cs, x)
    BY <1>3, <1>6, <1>7, OriginalSame
  <1>8. ASSUME NEW s \in Spaces, NEW l \in 1 .. Count(h, s), s = T \/ Fwd(h, s, l) = 0,
               NEW n \in 1 .. Arity(h, s, l)
        PROVE  OriginalIn(g, T, ds, Kid(h, s, l, n)) = OriginalIn(h, T, cs, Kid(h, s, l, n))
    <2>1. LET t == Kid(h, s, l, n)
          IN  t.space = Off \/ RefersTo(h, t, T) \/ RefersTo(h, t, F)
      BY <1>8, KidRefers
    <2>2. Kid(h, s, l, n).space = T => Kid(h, s, l, n).slot \in 1 .. Count(h, T)
      BY <1>1, <2>1 DEF RefersTo
    <2> QED BY <1>7, <2>2
  <1>9. ASSUME NEW s \in Spaces, NEW l \in 1 .. Count(h, s), s = T \/ Fwd(h, s, l) = 0
        PROVE  ContentIn(g, T, ds, s, l) = ContentIn(h, T, cs, s, l)
    <2>1. Kind(g, s, l) = Kind(h, s, l) /\ Arity(g, s, l) = Arity(h, s, l)
      BY <1>3 DEF SameBut
    <2> QED BY <1>3, <1>8, <1>9, <2>1, ContentSame
  <1>10. \A l \in 1 .. Count(h, F) : CopiesIn(h, T, cs, l) = {} => Fwd(h, F, l) = 0
    BY DEF CopiesIn, IsCopyOf, Collecting, MovedOK
  <1>11. ContentIn(g, T, ds, T, c) = ContentIn(h, T, cs, F, k)
    <2>1. /\ Arity(g, T, c) = Arity(h, F, k)
          /\ \A n \in 1 .. Arity(h, F, k) : Kid(g, T, c, n) = Kid(h, F, k, n)
      OBVIOUS
    <2> HIDE DEF c, F
    <2>2. \A n \in 1 .. Arity(h, F, k) :
            OriginalIn(g, T, ds, Kid(g, T, c, n)) = OriginalIn(h, T, cs, Kid(h, F, k, n))
      BY <1>1, <1>8, <2>1 DEF F
    <2> QED BY <1>3, <2>1, <2>2, ContentSame
  <1>12. GraphIn(g, T, ds) = GraphIn(h, T, cs)
    <2>1. \A d \in 1 .. Count(h, T) : ContentIn(g, T, ds, T, d) = ContentIn(h, T, cs, T, d)
      BY <1>1, <1>9
    <2>2. \A l \in 1 .. Count(h, F) : CopiesIn(h, T, cs, l) = {} =>
            ContentIn(g, T, ds, F, l) = ContentIn(h, T, cs, F, l)
      BY <1>1, <1>9, <1>10
    <2>3. \A l \in 1 .. Count(h, F) : IsCopyOf(g, T, ds, c, l) <=> l = k
      OBVIOUS
    <2> HIDE DEF c
    <2> QED BY <1>1, <1>3, <1>4, <1>5, <1>6, <1>11, <2>1, <2>2, <2>3, GraphGrown
  <1>13. ASSUME NEW i \in 0 .. cf, NEW j \in Regs
         PROVE  OriginalIn(g, T, ds, Reg(regs, i, j)) = OriginalIn(h, T, cs, Reg(regs, i, j))
    <2>1. ValueIn(h, Reg(regs, i, j), T) \/ ValueIn(h, Reg(regs, i, j), F)
      BY DEF Collecting, RegistersOK
    <2>2. Reg(regs, i, j).space = T => Reg(regs, i, j).slot \in 1 .. Count(h, T)
      BY <1>1, <2>1 DEF ValueIn, OffValue, RefersTo
    <2> QED BY <1>7, <2>2
  <1>14. RootsIn(g, T, ds, regs, cf) = RootsIn(h, T, cs, regs, cf)
    BY <1>13 DEF RootsIn
  <1> QED BY <1>12, <1>14

-----------------------------------------------------------------------------
(* One lemma per action *)

\* The graph of the VM, during a collection, is that of the next state.
Keeps == /\ GraphIn(heap', toSpace, calls') = GraphIn(heap, toSpace, calls)
         /\ RootsIn(heap', toSpace, calls', registers', currentFrame)
              = RootsIn(heap, toSpace, calls, registers, currentFrame)
         /\ OriginalsKnown(heap, toSpace, calls) => OriginalsKnown(heap', toSpace, calls')

\* A term is returned as it is, or as the address of its finished copy.
LEMMA ReturnsKeeps ==
  ASSUME CollectInv, ReturnAsIs \/ ReturnForwarded
  PROVE  Keeps
  <1>1. PICK rank : Collecting(heap, toSpace, calls, registers, scan, currentFrame, rank)
    BY DEF CollectInv
  <1>2. PICK t : Returns(t)
    BY <1>1, ReturnAsIsFacts, ReturnForwardedFacts, Zenon
  <1> QED BY <1>1, <1>2, ReturnKeeps DEF Returns, Keeps

\* A call of copy_list_node begins no copy.
LEMMA EnterNodeKeeps ==
  ASSUME CollectInv, EnterNode
  PROVE  Keeps
  <1>1. PICK rank : Collecting(heap, toSpace, calls, registers, scan, currentFrame, rank)
    BY DEF CollectInv
  <1> DEFINE t == Operand(calls)
             a == [fn |-> "copy_list_node", old |-> t.slot, new |-> 0, next |-> 1]
             ds == Append(calls, a)
             F == Other(toSpace)
  <1>2. ~LoopDone(calls) /\ calls' = ds /\ UNCHANGED <<heap, registers>>
    BY DEF EnterNode, Visiting
  <1>3. calls \in Seq(Activation) /\ toSpace \in Spaces /\ F \in Spaces
    BY <1>1, OtherSpace DEF Collecting, Typed
  <1>4. t \in Term
    BY <1>1, <1>2, OperandState
  <1>5. a \in Activation /\ a.fn = "copy_list_node"
    BY <1>4 DEF Activation, Term
  <1> HIDE DEF a
  <1>6. /\ Depth(ds) = Depth(calls) + 1 /\ \A i \in 1 .. Depth(calls) : SameCall(calls, ds, i)
        /\ Fn(ds, Depth(ds)) = "copy_list_node" /\ Depth(calls) \in Nat
    BY <1>3, <1>5, PushedFacts, StackTyped
  <1> HIDE DEF ds
  <1>7. ASSUME NEW c, NEW k
        PROVE  IsCopyOf(heap, toSpace, ds, c, k) <=> IsCopyOf(heap, toSpace, calls, c, k)
    <2>1. \A i \in 1 .. Depth(ds) : i # Depth(ds) => i \in 1 .. Depth(calls)
      BY <1>6
    <2>2. \A i \in 1 .. Depth(calls) : i \in 1 .. Depth(ds)
      BY <1>6
    <2> QED BY <1>6, <2>1, <2>2 DEF IsCopyOf, SameCall
  <1>8. \A x : OriginalIn(heap, toSpace, ds, x) = OriginalIn(heap, toSpace, calls, x)
    BY <1>7, OriginalSame
  <1>9. \A s, k : ContentIn(heap, toSpace, ds, s, k) = ContentIn(heap, toSpace, calls, s, k)
    BY <1>8, ContentSame
  <1>10. GraphIn(heap, toSpace, ds) = GraphIn(heap, toSpace, calls)
    BY <1>3, <1>7, <1>9, GraphSame
  <1>11. RootsIn(heap, toSpace, ds, registers, currentFrame) = RootsIn(heap, toSpace, calls, registers, currentFrame)
    BY <1>8 DEF RootsIn
  <1>12. OriginalsKnown(heap, toSpace, calls) => OriginalsKnown(heap, toSpace, ds)
    BY <1>7 DEF OriginalsKnown
  <1> QED BY <1>2, <1>10, <1>11, <1>12 DEF Keeps

\* copy forwards its original and returns the copy.
LEMMA LeaveCopyKeeps ==
  ASSUME CollectInv, LeaveCopy
  PROVE  Keeps
  <1>1. PICK rank : Collecting(heap, toSpace, calls, registers, scan, currentFrame, rank)
    BY DEF CollectInv
  <1>2. PICK g : LeavesCopy(g, rank)
    BY <1>1, LeaveCopyFacts, Zenon
  <1> DEFINE ds == Pop(calls)
             t == OperandAt(g, toSpace, ds, registers, scan, Depth(ds))
             u == Ref(t.tag, toSpace, New(calls, Depth(calls)))
  <1>3. /\ GraphIn(g, toSpace, ds) = GraphIn(heap, toSpace, calls)
        /\ RootsIn(g, toSpace, ds, registers, currentFrame)
             = RootsIn(heap, toSpace, calls, registers, currentFrame)
        /\ OriginalsKnown(heap, toSpace, calls) => OriginalsKnown(g, toSpace, ds)
    BY <1>1, <1>2, ForwardKeeps DEF LeavesCopy
  <1>4. /\ Collecting(g, toSpace, ds, registers, scan, currentFrame, rank)
        /\ AtOperand(g, toSpace, ds, scan, currentFrame) /\ MovesTo(g, toSpace, t, u)
        /\ Return(g, ds, u)
    BY <1>2 DEF LeavesCopy
  <1> HIDE DEF ds, u
  <1>5. /\ GraphIn(heap', toSpace, calls') = GraphIn(g, toSpace, ds)
        /\ RootsIn(heap', toSpace, calls', registers', currentFrame)
             = RootsIn(g, toSpace, ds, registers, currentFrame)
        /\ OriginalsKnown(g, toSpace, ds) => OriginalsKnown(heap', toSpace, calls')
    BY <1>4, ReturnKeeps
  <1> QED BY <1>3, <1>5 DEF Keeps

\* copy allocates the first copy of its original.
LEMMA EnterCopyKeeps ==
  ASSUME TextsFit, CollectInv, EnterCopy, status' = "collect"
  PROVE  Keeps
  <1>1. PICK rank : Collecting(heap, toSpace, calls, registers, scan, currentFrame, rank)
    BY DEF CollectInv
  <1>2. PICK k, g, chars, size, a : MakesCopy(k, g, chars, size, a)
    BY <1>1, EnterCopyFacts, Zenon
  <1> DEFINE c == Count(heap, toSpace) + 1
             F == Other(toSpace)
             ds == Append(calls, a)
  <1>3. heap' = g /\ calls' = ds /\ UNCHANGED registers
    BY <1>2 DEF MakesCopy, Die
  <1>4. /\ calls \in Seq(Activation) /\ heap \in Heaps /\ toSpace \in Spaces /\ F \in Spaces /\ F # toSpace
        /\ Count(heap, toSpace) \in Nat
    BY <1>1, HeapTyped, OtherSpace DEF Collecting, Typed
  <1>5. /\ a \in Activation /\ a.fn = "copy" /\ a.old = k /\ a.new = c
        /\ k \in 1 .. Count(heap, F) /\ Fwd(heap, F, k) = 0 /\ ~InCopy(calls, k)
        /\ Copied(heap, g, toSpace, k, chars, size, 0)
    BY <1>2 DEF MakesCopy
  <1>6. /\ Depth(ds) = Depth(calls) + 1 /\ \A i \in 1 .. Depth(calls) : SameCall(calls, ds, i)
        /\ Fn(ds, Depth(ds)) = "copy" /\ Old(ds, Depth(ds)) = k /\ New(ds, Depth(ds)) = c
        /\ Depth(calls) \in Nat
    BY <1>4, <1>5, PushedFacts, StackTyped
  <1>7. /\ Count(g, toSpace) = c /\ \A l \in 1 .. Count(heap, F) : Fwd(g, F, l) = Fwd(heap, F, l)
    BY <1>4, <1>5 DEF Copied
  <1> HIDE DEF ds
  <1>8. /\ \A i \in 1 .. Depth(ds) : i # Depth(ds) => i \in 1 .. Depth(calls)
        /\ \A i \in 1 .. Depth(calls) : i \in 1 .. Depth(ds)
        /\ Depth(ds) \in 1 .. Depth(ds)
        /\ c \in 1 .. c /\ c # 0 /\ \A d \in 1 .. Count(heap, toSpace) : d # c /\ d \in 1 .. c
    BY <1>4, <1>6
  <1>9. ASSUME NEW d \in 1 .. Count(heap, toSpace), NEW l \in 1 .. Count(heap, F)
        PROVE  IsCopyOf(g, toSpace, ds, d, l) <=> IsCopyOf(heap, toSpace, calls, d, l)
    BY <1>6, <1>7, <1>8 DEF IsCopyOf, SameCall
  <1>10. ASSUME NEW l \in 1 .. Count(heap, F)
         PROVE  IsCopyOf(g, toSpace, ds, c, l) <=> l = k
    <2>1. Fwd(g, F, l) # c
      <3>1. Fwd(heap, F, l) # 0 => Fwd(heap, F, l) \in 1 .. Count(heap, toSpace)
        BY <1>1 DEF Collecting, MovedOK
      <3> QED BY <1>7, <1>8, <3>1
    <2>2. \A i \in 1 .. Depth(calls) : Fn(calls, i) = "copy" => New(calls, i) \in 1 .. Count(heap, toSpace)
      BY <1>1 DEF Collecting, StackOK, ActivationOK
    <2>3. \A i \in 1 .. Depth(ds) : Fn(ds, i) = "copy" /\ New(ds, i) = c => i = Depth(ds)
      BY <1>6, <1>8, <2>2 DEF SameCall
    <2> QED BY <1>6, <1>7, <1>8, <2>1, <2>3 DEF IsCopyOf
  <1>11. /\ Arity(g, toSpace, c) = Arity(heap, F, k)
         /\ \A n \in 1 .. Arity(heap, F, k) : Kid(g, toSpace, c, n) = Kid(heap, F, k, n)
    BY <1>2 DEF MakesCopy
  <1>12. OriginalsKnown(heap, toSpace, calls) => OriginalsKnown(g, toSpace, ds)
    <2>1. Count(g, F) = Count(heap, F)
      BY <1>5 DEF Copied
    <2>2. \A d \in 1 .. c : d = c \/ d \in 1 .. Count(heap, toSpace)
      BY <1>4
    <2> QED BY <1>5, <1>7, <1>9, <1>10, <2>1, <2>2 DEF OriginalsKnown
  <1> QED BY <1>1, <1>3, <1>5, <1>9, <1>10, <1>11, <1>12, CopyKeeps DEF Keeps

\* copy_list_node copies its node and returns the copy.
LEMMA LeaveNodeKeeps ==
  ASSUME CollectInv, LeaveNode, status' = "collect"
  PROVE  Keeps
  <1>1. PICK rank : Collecting(heap, toSpace, calls, registers, scan, currentFrame, rank)
    BY DEF CollectInv
  <1>2. PICK o, g, chars, size : MakesNode(o, g, chars, size)
    BY <1>1, LeaveNodeFacts, Zenon
  <1> DEFINE c == Count(heap, toSpace) + 1
             F == Other(toSpace)
             ds == Pop(calls)
             z == Depth(calls)
             t == OperandAt(g, toSpace, ds, registers, scan, Depth(ds))
             u == Ref(t.tag, toSpace, c)
  <1>3. Return(g, ds, Ref("NODE", toSpace, c))
    BY <1>2 DEF MakesNode, Die
  <1>4. /\ calls \in Seq(Activation) /\ heap \in Heaps /\ toSpace \in Spaces /\ F \in Spaces /\ F # toSpace
        /\ Count(heap, toSpace) \in Nat
    BY <1>1, HeapTyped, OtherSpace DEF Collecting, Typed
  <1>5. /\ calls # <<>> /\ z \in 1 .. z /\ Fn(calls, z) = "copy_list_node"
        /\ o \in 1 .. Count(heap, F) /\ Fwd(heap, F, o) = 0 /\ ~InCopy(calls, o)
        /\ Kind(heap, F, o) # "STRING"
        /\ Copied(heap, g, toSpace, o, chars, size, c)
    BY <1>2 DEF MakesNode
  <1>6. Depth(ds) = z - 1 /\ (\A i \in 1 .. z - 1 : SameCall(calls, ds, i)) /\ z \in Nat
    BY <1>4, <1>5, PoppedFacts, StackTyped
  <1>7. /\ Count(g, toSpace) = c /\ Fwd(g, F, o) = c
        /\ \A l \in 1 .. Count(heap, F) : l # o => Fwd(g, F, l) = Fwd(heap, F, l)
    BY <1>4, <1>5 DEF Copied
  <1>8. /\ \A i \in 1 .. z : i # z => i \in 1 .. Depth(ds)
        /\ \A i \in 1 .. Depth(ds) : i \in 1 .. z /\ i \in 1 .. z - 1
        /\ c \in 1 .. c /\ c # 0 /\ \A d \in 1 .. Count(heap, toSpace) : d # c /\ d # 0 /\ d \in 1 .. c
    BY <1>4, <1>6
  <1>9. ASSUME NEW d \in 1 .. Count(heap, toSpace), NEW l \in 1 .. Count(heap, F)
        PROVE  IsCopyOf(g, toSpace, ds, d, l) <=> IsCopyOf(heap, toSpace, calls, d, l)
    <2>1. Fwd(g, F, l) = d <=> Fwd(heap, F, l) = d
      BY <1>5, <1>7, <1>8
    <2>2. (\E i \in 1 .. Depth(ds) : Fn(ds, i) = "copy" /\ Old(ds, i) = l /\ New(ds, i) = d)
            <=> \E i \in 1 .. z : Fn(calls, i) = "copy" /\ Old(calls, i) = l /\ New(calls, i) = d
      <3> HIDE DEF z, ds
      <3> QED BY <1>5, <1>6, <1>8 DEF SameCall
    <2> QED BY <1>7, <1>8, <2>1, <2>2 DEF IsCopyOf
  <1>10. ASSUME NEW l \in 1 .. Count(heap, F)
         PROVE  IsCopyOf(g, toSpace, ds, c, l) <=> l = o
    <2>1. l # o => Fwd(g, F, l) # c
      <3>1. Fwd(heap, F, l) # 0 => Fwd(heap, F, l) \in 1 .. Count(heap, toSpace)
        BY <1>1 DEF Collecting, MovedOK
      <3> QED BY <1>7, <1>8, <3>1
    <2>2. \A i \in 1 .. z : Fn(calls, i) = "copy" => New(calls, i) \in 1 .. Count(heap, toSpace)
      BY <1>1 DEF Collecting, StackOK, ActivationOK
    <2>3. \A i \in 1 .. Depth(ds) : ~(Fn(ds, i) = "copy" /\ New(ds, i) = c)
      BY <1>6, <1>8, <2>2 DEF SameCall
    <2> QED BY <1>7, <1>8, <2>1, <2>3 DEF IsCopyOf
  <1>11. /\ Arity(g, toSpace, c) = Arity(heap, F, o)
         /\ \A n \in 1 .. Arity(heap, F, o) : Kid(g, toSpace, c, n) = Kid(heap, F, o, n)
    BY <1>5 DEF Copied
  <1>12. /\ GraphIn(g, toSpace, ds) = GraphIn(heap, toSpace, calls)
         /\ RootsIn(g, toSpace, ds, registers, currentFrame)
              = RootsIn(heap, toSpace, calls, registers, currentFrame)
    BY <1>1, <1>5, <1>9, <1>10, <1>11, CopyKeeps
  <1>13. /\ \E rank2 : Collecting(g, toSpace, ds, registers, scan, currentFrame, rank2)
         /\ MovesTo(g, toSpace, t, u) /\ t.tag = "NODE"
         /\ ds # <<>> => AtChild(g, toSpace, ds)
    BY <1>1, <1>2, LeaveNodeCollecting DEF MakesNode
  <1>14. PICK rank2 : Collecting(g, toSpace, ds, registers, scan, currentFrame, rank2)
    BY <1>13
  <1>15. AtOperand(g, toSpace, ds, scan, currentFrame)
    <2>1. scan.i <= currentFrame
      BY <1>1, <1>5 DEF Collecting, Typed
    <2> QED BY <1>13, <2>1 DEF AtOperand
  <1>16. Return(g, ds, u)
    BY <1>3, <1>13
  <1> HIDE DEF ds, u
  <1>17. /\ GraphIn(heap', toSpace, calls') = GraphIn(g, toSpace, ds)
         /\ RootsIn(heap', toSpace, calls', registers', currentFrame)
              = RootsIn(g, toSpace, ds, registers, currentFrame)
         /\ OriginalsKnown(g, toSpace, ds) => OriginalsKnown(heap', toSpace, calls')
    BY <1>13, <1>14, <1>15, <1>16, ReturnKeeps
  <1>18. OriginalsKnown(heap, toSpace, calls) => OriginalsKnown(g, toSpace, ds)
    <2>1. Count(g, F) = Count(heap, F)
      BY <1>5 DEF Copied
    <2>2. \A d \in 1 .. c : d = c \/ d \in 1 .. Count(heap, toSpace)
      BY <1>4
    <2> QED BY <1>5, <1>7, <1>9, <1>10, <2>1, <2>2 DEF OriginalsKnown
  <1> QED BY <1>12, <1>17, <1>18 DEF Keeps

\* A step of the collector.
LEMMA CollectStepKeeps ==
  ASSUME TextsFit, CollectInv, CollectStep, status' = "collect"
  PROVE  Keeps
  BY ReturnsKeeps, EnterCopyKeeps, LeaveCopyKeeps, EnterNodeKeeps, LeaveNodeKeeps DEF CollectStep

\* The half-spaces stay where they are and the frames too.
LEMMA CollectStepStays ==
  ASSUME TextsFit, CollectInv, CollectStep, UNCHANGED pending, status' = "collect"
  PROVE  UNCHANGED <<toSpace, currentFrame>>
  BY CollectStepSafe DEF Die

-----------------------------------------------------------------------------
(* The property *)

\* A collection goes on with steps of the collector only.
LEMMA GoesOn ==
  ASSUME Next, status = "collect", status' = "collect"
  PROVE  CollectStep /\ UNCHANGED pending /\ UNCHANGED vmVars
  <1>1. ~Opcode /\ ~Stopped
    BY DEF Opcode, Stopped, Runs, op_store, op_mov, op_tuple, op_tuple_nth, op_list_nth, op_concat,
           op_string_slice, op_to_string, op_file_pwd, op_anon_fn, op_call_local, op_call, op_capture,
           op_list, op_file_ls, op_code_load, op_gc_collect, op_return, op_exit
  <1>2. ~AfterCollect /\ ~AfterSafepoint
    BY DEF AfterCollect, AfterSafepoint, EndCollect
  <1>3. /\ ~vm_run_function /\ ~load_function_miss /\ ~load_function_hit
        /\ ~ReadEntry /\ ~owl_list_push /\ ~ListDone /\ ~ModuleDone
    BY DEF vm_run_function, load_function_miss, load_function_hit, ReadEntry, owl_list_push, ListDone, ModuleDone
  <1> QED BY <1>1, <1>2, <1>3 DEF Next, Within, vmVars

\* A step of the collector keeps the graph.
LEMMA CollectorKeepsGraph ==
  ASSUME TextsFit, HeapInv, Next, status = "collect", status' = "collect"
  PROVE  Graph' = Graph /\ Roots' = Roots
  <1>1. CollectInv /\ CollectStep /\ UNCHANGED pending
    BY GoesOn DEF HeapInv
  <1>2. Keeps /\ toSpace' = toSpace /\ currentFrame' = currentFrame
    BY <1>1, CollectStepKeeps, CollectStepStays
  <1>3. toSpace \in Spaces
    BY <1>1 DEF CollectInv, Collecting, Typed
  <1>4. /\ Graph = GraphIn(heap, toSpace, calls)
        /\ Roots = RootsIn(heap, toSpace, calls, registers, currentFrame)
    BY <1>3, GraphParts
  <1>5. (status = "collect" /\ toSpace \in Spaces =>
           /\ Graph = GraphIn(heap, toSpace, calls)
           /\ Roots = RootsIn(heap, toSpace, calls, registers, currentFrame))'
    BY GraphParts, PTL
  <1>6. /\ Graph' = GraphIn(heap', toSpace', calls')
        /\ Roots' = RootsIn(heap', toSpace', calls', registers', currentFrame')
    BY <1>2, <1>3, <1>5
  <1> QED BY <1>2, <1>4, <1>6 DEF Keeps

\* A collection starts in OP_GC_COLLECT or at the safepoint of a call.
LEMMA Starts ==
  ASSUME Next, status # "collect", status' = "collect"
  PROVE  StartCollect /\ status \in {"run", "boot"} /\ UNCHANGED frames
  <1>1. \A bs, r, t : ~(Runs("tuple") \/ Runs("concat") \/ Runs("anon_fn")) \/ ~Build(bs, r, t)
    BY DEF Build, Die, Runs
  <1>2. \A r, t : ~SetsOnly(r, t)
    BY DEF SetsOnly
  <1>3. \A s \in {"exit", "load", "push", "boot"} : ~Stop(s)
    BY DEF Stop
  <1>4. \A f, u, args, r : ~setup_next_stackframe(f, u, args, r)
    BY DEF setup_next_stackframe, Die
  <1>5. \A r, f, args : Call(r, f, args) => StartCollect /\ UNCHANGED frames
    BY <1>3 DEF Call
  <1>6. \A next \in {"run", "load"} : ~EndCollect(next)
    BY DEF EndCollect
  <1>7. CASE Opcode
    <2>1. \A r, t : ~op_store(r, t) /\ ~op_mov(r, t)
      BY <1>2 DEF op_store, op_mov
    <2>2. \A r, os : ~op_tuple(r, os) /\ ~op_anon_fn(r, os)
      BY <1>1 DEF op_tuple, op_anon_fn
    <2>3. \A r, o, index : ~op_tuple_nth(r, o, index) /\ ~op_list_nth(r, o, index)
      BY <1>2 DEF op_tuple_nth, op_list_nth
    <2>4. /\ \A r, o1, o2 : ~op_concat(r, o1, o2)
          /\ \A r, o : ~op_string_slice(r, o) /\ ~op_to_string(r, o)
          /\ \A r : ~op_file_pwd(r)
      <3>1. \A r, ps, len, bytes : ~MakeText(r, ps, len, bytes)
        <4> SUFFICES ASSUME NEW r, NEW ps, NEW len, NEW bytes, MakeText(r, ps, len, bytes)
                     PROVE  FALSE
          OBVIOUS
        <4> DEFINE bs == <<[NewBlock("STRING", ps, len) EXCEPT !.size = align(bytes)]>>
        <4>1. Build(bs, r, Fresh("STRING", 1))
          BY DEF MakeText
        <4> QED BY <4>1 DEF Build, Die
      <3>2. \A r, o1, o2 : ~op_concat(r, o1, o2)
        BY <1>3, <3>1 DEF op_concat
      <3>3. \A r, o : ~op_string_slice(r, o)
        BY <1>3, <3>1 DEF op_string_slice
      <3>4. \A r, o : ~op_to_string(r, o) /\ ~op_file_pwd(r)
        BY <3>1 DEF op_to_string, op_file_pwd
      <3> QED BY <3>2, <3>3, <3>4
    <2>5. \A r, o, args : ~op_call_local(r, o, args)
      BY <1>3, <1>4 DEF op_call_local
    <2>6. \A r, f, args : op_call(r, f, args) => StartCollect /\ status = "run" /\ UNCHANGED frames
      BY <1>5 DEF op_call, Runs
    <2>7. /\ \A r, f : ~op_capture(r, f) /\ ~op_list(r, f) /\ ~op_file_ls(r, f)
          /\ \A r, o, f : ~op_code_load(r, o, f)
      BY <1>3 DEF op_capture, op_list, op_file_ls, op_code_load
    <2>8. \A r : op_gc_collect(r) => StartCollect /\ status = "run" /\ UNCHANGED frames
      BY DEF op_gc_collect, Runs
    <2>9. ~op_return /\ ~op_exit
      BY <1>3 DEF op_return, op_exit, Runs
    <2> QED BY <1>7, <2>1, <2>2, <2>3, <2>4, <2>5, <2>6, <2>7, <2>8, <2>9 DEF Opcode
  <1>8. CASE Within
    <2>1. vm_run_function => StartCollect /\ status = "boot" /\ UNCHANGED frames
      BY <1>3, <1>5 DEF vm_run_function
    <2>2. ~load_function_miss /\ ~load_function_hit
      BY <1>3, <1>4 DEF load_function_miss, load_function_hit
    <2>3. ~ReadEntry /\ ~owl_list_push /\ ~ListDone
      BY DEF ReadEntry, owl_list_push, ListDone, Die
    <2>4. ~ModuleDone
      BY <1>3 DEF ModuleDone, AfterLoad
    <2>5. ~AfterCollect /\ ~AfterSafepoint
      BY <1>6 DEF AfterCollect, AfterSafepoint
    <2>6. ~CollectStep
      BY DEF CollectStep, ReturnAsIs, ReturnForwarded, EnterCopy, LeaveCopy, EnterNode, LeaveNode, Visiting
    <2> QED BY <1>8, <2>1, <2>2, <2>3, <2>4, <2>5, <2>6 DEF Within
  <1>9. ~Stopped
    BY DEF Stopped, vars, gcVars
  <1> QED BY <1>7, <1>8, <1>9 DEF Next

\* To swap the half-spaces changes no reference: what was to_space is where the
\* originals are from then on.
LEMMA StartKeepsGraph ==
  ASSUME TextsFit, HeapInv, Next, status # "collect", status' = "collect"
  PROVE  Graph' = Graph /\ Roots' = Roots
  <1>1. StartCollect /\ Mutating
    BY Starts DEF HeapInv
  <1>2. /\ toSpace \in Spaces /\ toSpace' = 1 - toSpace /\ calls' = <<>> /\ calls = <<>>
        /\ UNCHANGED <<heap, registers, currentFrame>>
    BY <1>1 DEF StartCollect, FromSpace, Mutating, Resting
  <1>3. OriginSpace' = OriginSpace
    BY <1>2 DEF OriginSpace, FromSpace, Spaces, Low, High
  <1>4. \A k : Copies(k)' = Copies(k)
    BY <1>2, <1>3 DEF Copies, Slots
  <1>5. \A t : Original(t)' = Original(t)
    BY <1>2, <1>3, <1>4 DEF Original, Slots
  <1>6. \A b : Content(b)' = Content(b)
    BY <1>5 DEF Content
  <1>7. Graph' = Graph
    BY <1>2, <1>3, <1>4, <1>6 DEF Graph, Slots
  <1>8. Roots' = Roots
    BY <1>2, <1>5 DEF Roots
  <1> QED BY <1>7, <1>8

\* A collection keeps the values of the registers and blocks, and their sharing:
\* every step of gc_collect, copy, copy_list_node and bump_cpy leaves the same
\* graph behind, whichever of original and copy the references are to and
\* whichever of the two it updates (alloc.c:47-209), as long as no text is read
\* with bytes behind it.
THEOREM CollectionsKeepValues ==
  ASSUME WithinLimits, TextsFit PROVE Spec => CollectKeepsGraph
  <1>1. FrameInv /\ HeapInv /\ [Next]_vars =>
          [status' = "collect" => Graph' = Graph /\ Roots' = Roots]_gcVars
    BY CollectorKeepsGraph, StartKeepsGraph DEF vars
  <1> QED BY <1>1, VmInvariant, PTL DEF Spec, CollectKeepsGraph
=============================================================================
