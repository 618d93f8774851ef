---------------------------- MODULE OwlGcStepProofs ----------------------------
(***************************************************************************)
(* Every step of gc_collect preserves OwlGcInvariant!CollectInv, and none  *)
(* runs out of memory if texts fit.                                        *)
(***************************************************************************)
EXTENDS OwlGcSpaceProofs

-----------------------------------------------------------------------------
(* The actions in terms of the parts the invariant is about *)

\* Rounding up to a multiple of eight.
LEMMA Aligned ==
  /\ \A n \in Nat : align(n) \in Nat /\ n <= align(n)
  /\ \A n \in Nat : n % 8 # 0 => n < align(n)
  /\ \A n \in Nat : align(8 * n) = 8 * n
  BY DEF align

\* The block activation i of cs is in.
LEMMA TopFacts ==
  ASSUME NEW cs \in Seq(Activation), cs # <<>>
  PROVE  /\ Top(cs).fn = Fn(cs, Depth(cs)) /\ Top(cs).old = Old(cs, Depth(cs))
         /\ Top(cs).new = New(cs, Depth(cs)) /\ Top(cs).next = Child(cs, Depth(cs))
         /\ Place(Top(cs))[1] = HomeSpace(toSpace, cs, Depth(cs))
         /\ Place(Top(cs))[2] = HomeSlot(cs, Depth(cs))
         /\ Home(Top(cs)) = heap[HomeSpace(toSpace, cs, Depth(cs))][HomeSlot(cs, Depth(cs))]
  <1>1. /\ Top(cs).fn = Fn(cs, Depth(cs)) /\ Top(cs).old = Old(cs, Depth(cs))
        /\ Top(cs).new = New(cs, Depth(cs)) /\ Top(cs).next = Child(cs, Depth(cs))
    BY DEF Top, Fn, Old, New, Child, Depth
  <1>2. /\ Place(Top(cs))[1] = HomeSpace(toSpace, cs, Depth(cs))
        /\ Place(Top(cs))[2] = HomeSlot(cs, Depth(cs))
    BY <1>1 DEF Place, HomeSpace, HomeSlot, FromSpace, Other
  <1> QED BY <1>1, <1>2 DEF Home

\* What the collector is about to do, with the stack cs.
LEMMA OperandFacts ==
  ASSUME NEW cs \in Seq(Activation), NEW regs, registers = regs
  PROVE  /\ Operand(cs) = OperandAt(heap, toSpace, cs, registers, scan, Depth(cs))
         /\ VisitsNode(cs) <=>
              /\ cs # <<>>
              /\ Kind(heap, HomeSpace(toSpace, cs, Depth(cs)), HomeSlot(cs, Depth(cs)))
                   \in {"RRB", "INTERNAL"}
  <1>1. cs = <<>> <=> Depth(cs) = 0
    BY StackTyped
  <1>2. CASE cs = <<>>
    BY <1>1, <1>2 DEF Operand, VisitsNode, OperandAt, Reg
  <1>3. CASE cs # <<>>
    BY <1>1, <1>3, TopFacts DEF Operand, VisitsNode, OperandAt, Kid, Kind
  <1> QED BY <1>2, <1>3

\* Whether a loop goes on.
LEMMA LoopFacts ==
  ASSUME NEW rank, Collecting(heap, toSpace, calls, registers, scan, currentFrame, rank)
  PROVE  ~LoopDone(calls) <=> AtOperand(heap, toSpace, calls, scan, currentFrame)
  <1>1. /\ calls \in Seq(Activation) /\ scan.i \in Nat /\ currentFrame \in Nat
    BY GcAssumption DEF Collecting, Typed, Frames
  <1>2. CASE calls = <<>>
    BY <1>1, <1>2 DEF LoopDone, AtOperand
  <1>3. CASE calls # <<>>
    <2> DEFINE z == Depth(calls)
               p == HomeSpace(toSpace, calls, z)
               q == HomeSlot(calls, z)
    <2>1. z \in 1 .. Depth(calls)
      BY <1>1, <1>3, StackTyped
    <2>2. Child(calls, z) \in Nat /\ Loop(heap, p, q) \in Int
      BY <2>1, HomeOnHeap
    <2>3. Top(calls).next = Child(calls, z) /\ Visits(Home(Top(calls))) = Loop(heap, p, q)
      BY <1>1, <1>3, TopFacts DEF Loop
    <2>4. LoopDone(calls) <=> Child(calls, z) > Loop(heap, p, q)
      BY <1>3, <2>3 DEF LoopDone
    <2>5. AtOperand(heap, toSpace, calls, scan, currentFrame) <=> Child(calls, z) <= Loop(heap, p, q)
      BY <1>3 DEF AtOperand, AtChild
    <2> HIDE DEF z, p, q
    <2> QED BY <2>2, <2>4, <2>5
  <1> QED BY <1>2, <1>3

\* A step that returns to a loop.
LEMMA ReturnSafe ==
  ASSUME NEW h, NEW cs, NEW rank,
         Collecting(h, toSpace, cs, registers, scan, currentFrame, rank),
         NEW c, AllReachedBut(h, toSpace, cs, registers, currentFrame, c),
         Accounts(h, toSpace, cs, allocPtr', Limit),
         AtOperand(h, toSpace, cs, scan, currentFrame), NEW t, c = 0 \/ t = Ref(t.tag, toSpace, c),
         MovesTo(h, toSpace, OperandAt(h, toSpace, cs, registers, scan, Depth(cs)), t),
         Return(h, cs, t), UNCHANGED <<toSpace, currentFrame, pending>>
  PROVE  CollectInv'
  <1>1. /\ cs \in Seq(Activation) /\ h \in Heaps /\ toSpace \in Spaces /\ currentFrame \in Frames
        /\ scan \in [i : Nat, j : Regs] /\ MovedOK(h, toSpace, cs)
    BY DEF Collecting, Typed
  <1>2. CASE cs = <<>>
    <2>1. /\ heap' = h /\ calls' = cs /\ scan' = NextRegister
          /\ registers' = [registers EXCEPT ![scan.i][scan.j] = t]
      BY <1>2 DEF Return
    <2>2. After(scan, NextRegister)
      BY <1>1, GcAssumption DEF After, NextRegister, Regs
    <2>3. scan.i <= currentFrame /\ MovesTo(h, toSpace, Reg(registers, scan.i, scan.j), t)
      <3>1. Depth(cs) = 0
        BY <1>1, <1>2, StackTyped
      <3> QED BY <1>2, <3>1 DEF AtOperand, OperandAt
    <2>4. Collecting(h, toSpace, cs, registers', scan', currentFrame, rank)
      BY <1>2, <2>1, <2>2, <2>3, ReturnToRegisters
    <2>5. AllReached(h, toSpace, cs, registers', currentFrame)
      BY <1>2, <2>1, <2>3, ReachedByRegister
    <2> QED BY <2>1, <2>4, <2>5 DEF CollectInv, Limit
  <1>3. CASE cs # <<>>
    <2> DEFINE z == Depth(cs)
               p == HomeSpace(toSpace, cs, z)
               q == HomeSlot(cs, z)
               n == Child(cs, z)
               g == [h EXCEPT ![p][q].kids[n] = t]
    <2>1. /\ registers' = registers /\ scan' = scan /\ calls' = Stepped(cs) /\ heap' = g
      BY <1>1, <1>3, TopFacts DEF Return, Stepped
    <2>2. AtChild(h, toSpace, cs)
      BY <1>3 DEF AtOperand
    <2>3. p \in Spaces /\ q \in 1 .. Count(h, p) /\ n \in 1 .. Arity(h, p, q)
      <3>1. z \in 1 .. Depth(cs) /\ n <= Loop(h, p, q)
        BY <1>1, <1>3, <2>2, StackTyped DEF AtChild
      <3> QED BY <3>1, HomeOnHeap
    <2>4. t \in Term
      BY <1>1, SuitsMoved
    <2>5. KidChange(h, g, p, q, n, t)
      BY <1>1, <2>3, <2>4, KidChanged
    <2> HIDE DEF g
    <2>6. Collecting(g, toSpace, Stepped(cs), registers, scan, currentFrame, rank)
      BY <2>2, <2>5, ReturnToCopier
    <2>7. AllReached(g, toSpace, Stepped(cs), registers, currentFrame)
      BY <2>2, <2>5, ReachedByKid
    <2>8. Accounts(g, toSpace, Stepped(cs), allocPtr', Limit)
      <3>1. /\ g \in Heaps /\ \A x \in Spaces : Count(g, x) = Count(h, x)
            /\ \A x \in Spaces : \A l \in 1 .. Count(h, x) :
                 Size(g, x, l) = Size(h, x, l) /\ Fwd(g, x, l) = Fwd(h, x, l)
        BY <2>5 DEF KidChange, SameBut
      <3>2. \A l : InCopy(Stepped(cs), l) <=> InCopy(cs, l)
        BY <1>1, <1>3, SteppedFacts DEF InCopy, SameCall
      <3>3. Other(toSpace) \in Spaces
        BY <1>1, OtherSpace
      <3> QED BY <1>1, <3>1, <3>2, <3>3, AccountsSame
    <2> QED BY <2>1, <2>6, <2>7, <2>8 DEF CollectInv, Limit
  <1> QED BY <1>2, <1>3

\* The term the collector is about to hand to copy or copy_list_node.
LEMMA OperandState ==
  ASSUME NEW rank, Collecting(heap, toSpace, calls, registers, scan, currentFrame, rank),
         ~LoopDone(calls), NEW t, t = Operand(calls), NEW F, F = Other(toSpace)
  PROVE  /\ AtOperand(heap, toSpace, calls, scan, currentFrame)
         /\ t = OperandAt(heap, toSpace, calls, registers, scan, Depth(calls))
         /\ t \in Term /\ F = FromSpace
         /\ OnHeap(t) => RefersTo(heap, t, F)
         /\ ~OnHeap(t) => t.space = Off
         /\ IF VisitsNode(calls) THEN t = Null \/ NodeIn(heap, t, F) ELSE ValueIn(heap, t, F)
  <1>1. calls \in Seq(Activation) /\ toSpace \in Spaces
    BY DEF Collecting, Typed
  <1>2. /\ AtOperand(heap, toSpace, calls, scan, currentFrame)
        /\ t = OperandAt(heap, toSpace, calls, registers, scan, Depth(calls))
    BY <1>1, LoopFacts, OperandFacts
  <1> DEFINE z == Depth(calls)
  <1>3. /\ z \in 0 .. Depth(calls)
        /\ z = 0 => scan.i <= currentFrame
        /\ z # 0 => /\ calls # <<>>
                    /\ Child(calls, z) <= Loop(heap, HomeSpace(toSpace, calls, z), HomeSlot(calls, z))
    BY <1>1, <1>2, StackTyped DEF AtOperand, AtChild
  <1>4. /\ t \in Term
        /\ t.space = Off \/ RefersTo(heap, t, F)
        /\ IF VisitsNode(calls) THEN t = Null \/ NodeIn(heap, t, F) ELSE ValueIn(heap, t, F)
    <2>1. VisitsNode(calls) <=>
            z # 0 /\ Kind(heap, HomeSpace(toSpace, calls, z), HomeSlot(calls, z)) \in {"RRB", "INTERNAL"}
      BY <1>1, OperandFacts, StackTyped
    <2> QED BY <1>2, <1>3, <2>1, OperandSuits
  <1>5. F = FromSpace /\ F # toSpace /\ F \in Spaces /\ F # Off
    BY <1>1, OtherSpace DEF FromSpace, Other
  <1>6. t.space = Off \/ t.space = F
    BY <1>4 DEF RefersTo
  <1>7. OnHeap(t) => t.space = F
    BY <1>5, <1>6 DEF OnHeap, Off, High, Low, Spaces
  <1>8. t.space = F => OnHeap(t)
    BY <1>5 DEF OnHeap
  <1> QED BY <1>2, <1>4, <1>5, <1>6, <1>7, <1>8

\* A white text was put together from others.
LEMMA WhiteKids ==
  ASSUME NEW rank, Collecting(heap, toSpace, calls, registers, scan, currentFrame, rank),
         NEW F, F = Other(toSpace), NEW k \in 1 .. Count(heap, F),
         Kind(heap, F, k) = "STRING", Fwd(heap, F, k) = 0
  PROVE  \A n \in 1 .. Arity(heap, F, k) : OffText(Kid(heap, F, k, n))
  <1>1. ~NodeAt(calls, k)
    BY DEF Collecting, StackOK, ActivationOK, NodeAt
  <1>2. Whole(heap, F, k, F)
    BY <1>1 DEF Collecting, WhiteOK
  <1> QED BY <1>2 DEF Whole, Suits

\* What strlen and memcpy see of a text on the heap: the text, if it has room
\* for its NUL, and more of it otherwise.
LEMMA TextSeen ==
  ASSUME NEW s \in Spaces, NEW t, RefersTo(heap, t, s),
         BlockOK("STRING", Arity(heap, s, t.slot), Chars(heap, s, t.slot), Size(heap, s, t.slot)),
         heap \in Heaps, Kind(heap, s, t.slot) = "STRING",
         \A n \in 1 .. Arity(heap, s, t.slot) : OffText(Kid(heap, s, t.slot, n)),
         NEW x \in CString(t)
  PROVE  /\ x.kids \in Seq(Term) /\ \A n \in 1 .. Len(x.kids) : OffText(x.kids[n])
         /\ x.len \in Nat \ {0} /\ align(x.len) \in Nat \ {0}
         /\ TextsFit => /\ x.kids = heap[s][t.slot].kids
                        /\ x.len = Chars(heap, s, t.slot)
                        /\ align(x.len) <= Size(heap, s, t.slot)
         /\ \A n : BlockOK("STRING", n, x.len, align(x.len))
  <1> DEFINE c == Chars(heap, s, t.slot)
             z == Size(heap, s, t.slot)
             b == heap[s][t.slot]
  <1>1. /\ c \in Nat /\ z \in Nat /\ c > 0
        /\ TextsFit => c % 8 # 0 /\ align(c) <= z
        /\ b \in Block
    BY HeapTyped DEF RefersTo, BlockOK
  <1>2. b.kids \in Seq(Term) /\ \A n \in 1 .. Len(b.kids) : OffText(b.kids[n])
    BY <1>1 DEF Block, Arity, Kid
  <1>3. t.space # Off /\ t.space = s
    BY DEF RefersTo, Spaces, Off, Low, High
  <1>4. CASE TextsFit
    <2>2. c < align(c) /\ align(c) \in Nat
      BY <1>1, <1>4, Aligned
    <2>3. c < z
      BY <1>1, <1>4, <2>2
    <2>4. x = Text(b.kids, c)
      BY <1>1, <1>3, <2>3 DEF CString, Size, Chars
    <2>5. x.kids = b.kids /\ x.len = c
      BY <2>4 DEF Text
    <2>6. \A n : BlockOK("STRING", n, c, align(c))
      BY <1>1, <1>4, <2>2 DEF BlockOK
    <2> QED BY <1>1, <1>2, <1>4, <2>2, <2>5, <2>6
  <1>5. CASE ~TextsFit
    <2>1. x = Text(b.kids, c) \/ x = Text(Append(b.kids, Junk), c + JunkLen)
      BY <1>3 DEF CString, Size, Chars
    <2>2. Junk \in Term /\ OffText(Junk)
      BY <1>5 DEF Junk, OffText, Literal, Term, Tags
    <2>3. x.kids \in Seq(Term) /\ \A n \in 1 .. Len(x.kids) : OffText(x.kids[n])
      <3> HIDE DEF b
      <3>1. CASE x = Text(b.kids, c)
        BY <1>2, <3>1 DEF Text
      <3>2. CASE x = Text(Append(b.kids, Junk), c + JunkLen)
        <4>1. x.kids = Append(b.kids, Junk)
          BY <3>2 DEF Text
        <4>2. /\ Append(b.kids, Junk) \in Seq(Term) /\ Len(Append(b.kids, Junk)) = Len(b.kids) + 1
              /\ Len(b.kids) \in Nat
          BY <1>2, <2>2
        <4>3. ASSUME NEW n \in 1 .. Len(b.kids) + 1 PROVE OffText(Append(b.kids, Junk)[n])
          <5>1. Append(b.kids, Junk)[n] = IF n \in 1 .. Len(b.kids) THEN b.kids[n] ELSE Junk
            BY <1>2, <2>2, <4>2
          <5> QED BY <1>2, <2>2, <5>1
        <4> QED BY <4>1, <4>2, <4>3
      <3> QED BY <2>1, <3>1, <3>2
    <2>4. x.len = c \/ x.len = c + 7
      BY <2>1 DEF Text, JunkLen
    <2>5. x.len \in Nat /\ x.len > 0
      BY <1>1, <2>4
    <2>6. align(x.len) \in Nat /\ x.len <= align(x.len)
      BY <2>5, Aligned
    <2>7. \A n : BlockOK("STRING", n, x.len, align(x.len))
      BY <1>5, <2>5 DEF BlockOK
    <2> QED BY <1>5, <2>3, <2>5, <2>6, <2>7
  <1> QED BY <1>4, <1>5

-----------------------------------------------------------------------------
(* One lemma per action *)

\* The caller goes on with t for the term it was at.
Returns(t) ==
  /\ AtOperand(heap, toSpace, calls, scan, currentFrame)
  /\ MovesTo(heap, toSpace, OperandAt(heap, toSpace, calls, registers, scan, Depth(calls)), t)
  /\ Return(heap, calls, t)
  /\ UNCHANGED <<toSpace, allocPtr, currentFrame>>

\* A term that is not in from_space is returned as it is.
LEMMA ReturnAsIsFacts ==
  ASSUME NEW rank, Collecting(heap, toSpace, calls, registers, scan, currentFrame, rank), ReturnAsIs
  PROVE  \E t : Returns(t)
  <1>1. Collecting(heap, toSpace, calls, registers, scan, currentFrame, rank)
    OBVIOUS
  <1> DEFINE t == Operand(calls)
             F == Other(toSpace)
  <1>2. /\ ~LoopDone(calls) /\ Return(heap, calls, t)
        /\ toSpace' = toSpace /\ allocPtr' = allocPtr /\ currentFrame' = currentFrame
        /\ \/ ~OnHeap(t)
           \/ /\ OnHeap(t) /\ ~Forwarded(t) /\ BlockOf(t).kind = "STRING"
              /\ \E s \in CString(t) : heap_size_of("STRING", s.kids, s.len) = 0
    BY DEF ReturnAsIs, Visiting
  <1>3. /\ AtOperand(heap, toSpace, calls, scan, currentFrame)
        /\ t = OperandAt(heap, toSpace, calls, registers, scan, Depth(calls))
        /\ t \in Term
        /\ OnHeap(t) => RefersTo(heap, t, F)
        /\ ~OnHeap(t) => t.space = Off
    BY <1>1, <1>2, OperandState
  <1>4. ASSUME OnHeap(t) PROVE FALSE
    <2>1. F \in Spaces /\ heap \in Heaps /\ RefersTo(heap, t, F) /\ BlocksOK(heap)
      BY <1>1, <1>3, <1>4, OtherSpace DEF Collecting, Typed
    <2>2. Kind(heap, F, t.slot) = "STRING" /\ t.slot \in 1 .. Count(heap, F)
      BY <1>2, <1>4, <2>1 DEF BlockOf, Kind, RefersTo
    <2>3. BlockOK("STRING", Arity(heap, F, t.slot), Chars(heap, F, t.slot), Size(heap, F, t.slot))
      BY <2>1, <2>2 DEF BlocksOK
    <2>4. Fwd(heap, F, t.slot) = 0
      BY <1>2, <1>4, <2>1 DEF Forwarded, BlockOf, Fwd, RefersTo
    <2>5. \A x \in CString(t) : align(x.len) # 0
      <3>1. \A n \in 1 .. Arity(heap, F, t.slot) : OffText(Kid(heap, F, t.slot, n))
        BY <1>1, <2>2, <2>4, WhiteKids
      <3> QED BY <2>1, <2>2, <2>3, <3>1, TextSeen
    <2> QED BY <1>2, <1>4, <2>5 DEF heap_size_of
  <1>5. MovesTo(heap, toSpace, t, t)
    BY <1>3, <1>4 DEF MovesTo
  <1>6. Returns(t)
    BY <1>2, <1>3, <1>5 DEF Returns
  <1> QED BY <1>6, Zenon

\* The address of a finished copy is returned.
LEMMA ReturnForwardedFacts ==
  ASSUME NEW rank, Collecting(heap, toSpace, calls, registers, scan, currentFrame, rank), ReturnForwarded
  PROVE  \E t : Returns(t)
  <1>1. Collecting(heap, toSpace, calls, registers, scan, currentFrame, rank)
    OBVIOUS
  <1> DEFINE t == Operand(calls)
             F == Other(toSpace)
             u == Ref(t.tag, toSpace, BlockOf(t).fwd)
  <1>2. /\ ~LoopDone(calls) /\ OnHeap(t) /\ Forwarded(t) /\ Return(heap, calls, u)
        /\ toSpace' = toSpace /\ allocPtr' = allocPtr /\ currentFrame' = currentFrame
    BY DEF ReturnForwarded, Visiting
  <1>3. /\ AtOperand(heap, toSpace, calls, scan, currentFrame)
        /\ t = OperandAt(heap, toSpace, calls, registers, scan, Depth(calls))
        /\ RefersTo(heap, t, F)
    BY <1>1, <1>2, OperandState
  <1>4. BlockOf(t).fwd = Fwd(heap, F, t.slot) /\ Fwd(heap, F, t.slot) # 0
    BY <1>2, <1>3 DEF BlockOf, Fwd, Forwarded, RefersTo
  <1>5. MovesTo(heap, toSpace, t, u)
    BY <1>3, <1>4 DEF MovesTo
  <1>6. Returns(u)
    BY <1>2, <1>3, <1>5 DEF Returns
  <1> QED BY <1>6, Zenon

\* In both cases the invariant is kept.
LEMMA ReturnsSafe ==
  ASSUME CollectInv, ReturnAsIs \/ ReturnForwarded, UNCHANGED pending
  PROVE  CollectInv'
  <1>1. PICK rank : Collecting(heap, toSpace, calls, registers, scan, currentFrame, rank)
    BY DEF CollectInv
  <1>2. PICK t : Returns(t)
    BY <1>1, ReturnAsIsFacts, ReturnForwardedFacts, Zenon
  <1>3. AllReachedBut(heap, toSpace, calls, registers, currentFrame, 0)
    BY DEF CollectInv, AllReached, AllReachedBut
  <1> QED BY <1>1, <1>2, <1>3, ReturnSafe DEF CollectInv, Returns

\* copy_list_node starts on a node.
LEMMA EnterNodeSafe ==
  ASSUME CollectInv, EnterNode, UNCHANGED pending
  PROVE  CollectInv'
  <1>1. PICK rank : Collecting(heap, toSpace, calls, registers, scan, currentFrame, rank)
    BY DEF CollectInv
  <1> DEFINE t == Operand(calls)
             F == Other(toSpace)
             a == [fn |-> "copy_list_node", old |-> t.slot, new |-> 0, next |-> 1]
  <1>2. /\ ~LoopDone(calls) /\ VisitsNode(calls) /\ OnHeap(t) /\ ~Forwarded(t)
        /\ calls' = Append(calls, a)
        /\ UNCHANGED <<heap, toSpace, allocPtr, registers, currentFrame, scan>>
    BY DEF EnterNode, Visiting
  <1>3. /\ AtOperand(heap, toSpace, calls, scan, currentFrame)
        /\ t = OperandAt(heap, toSpace, calls, registers, scan, Depth(calls))
        /\ t \in Term /\ RefersTo(heap, t, F)
    BY <1>1, <1>2, OperandState
  <1>4. /\ calls \in Seq(Activation) /\ heap \in Heaps /\ toSpace \in Spaces
    BY <1>1 DEF Collecting, Typed
  <1>5. /\ AtChild(heap, toSpace, calls)
        /\ Kind(heap, HomeSpace(toSpace, calls, Depth(calls)), HomeSlot(calls, Depth(calls)))
              \in {"RRB", "INTERNAL"}
    BY <1>2, <1>3, <1>4, OperandFacts DEF AtOperand
  <1>6. t.space = F /\ Fwd(heap, F, t.slot) = 0
    BY <1>2, <1>3 DEF BlockOf, Fwd, Forwarded, RefersTo
  <1>7. a \in Activation /\ a.fn = "copy_list_node" /\ a.next = 1 /\ a.old = t.slot
    BY <1>3 DEF Activation, Term
  <1> HIDE DEF t, a
  <1>8. Collecting(heap, toSpace, Append(calls, a), registers, scan, currentFrame, rank)
    BY <1>1, <1>3, <1>5, <1>6, <1>7, EnterNodeCollecting
  <1>9. /\ AllReached(heap, toSpace, Append(calls, a), registers, currentFrame)
        /\ Accounts(heap, toSpace, Append(calls, a), allocPtr, Limit)
    BY <1>4, <1>7, EnterNodeSpace DEF CollectInv
  <1> QED BY <1>2, <1>8, <1>9 DEF CollectInv, Limit

\* The size copy takes a block to have, except a text: at most the one it was
\* allocated with, and enough for the copy.
LEMMA CopySize ==
  ASSUME NEW h \in Heaps, NEW s \in Spaces, NEW k \in 1 .. Count(h, s),
         BlockOK(Kind(h, s, k), Arity(h, s, k), Chars(h, s, k), Size(h, s, k)),
         Kind(h, s, k) \in {"TUPLE", "FUNCTION", "RRB"}, NEW n,
         NEW size, size = heap_size_of(Kind(h, s, k), h[s][k].kids, n)
  PROVE  /\ size \in Nat /\ size <= Size(h, s, k)
         /\ BlockOK(Kind(h, s, k), Arity(h, s, k), n, size)
  <1> DEFINE x == Kind(h, s, k)
             a == Arity(h, s, k)
             z == Size(h, s, k)
  <1>1. a \in Nat /\ z \in Nat /\ Len(h[s][k].kids) = a
    BY HeapTyped DEF Arity
  <1>2. /\ x = "TUPLE" => size = 8 * (a + 1)
        /\ x = "FUNCTION" => size = 24 + 8 * a
        /\ x = "RRB" => size = 32
    <2>1. align(8 * (a + 1)) = 8 * (a + 1) /\ align(24 + 8 * a) = 24 + 8 * a /\ align(32) = 32
      BY <1>1 DEF align
    <2> QED BY <1>1, <2>1 DEF heap_size_of, BytesOf
  <1> HIDE DEF x, a, z
  <1>3. BlockOK(x, a, Chars(h, s, k), z)
    BY DEF x, a, z
  <1>4. x \in {"TUPLE", "FUNCTION", "RRB"}
    BY DEF x
  <1>5. /\ size \in Nat /\ size <= z
    BY <1>1, <1>2, <1>3, <1>4 DEF BlockOK
  <1>6. BlockOK(x, a, n, size)
    BY <1>1, <1>2, <1>3, <1>4 DEF BlockOK
  <1> QED BY <1>5, <1>6 DEF x, a, z

\* g is the heap with the copy of original k that copy makes, a its activation.
MakesCopy(k, g, chars, size, a) ==
  LET F == Other(toSpace)
      u == OperandAt(heap, toSpace, calls, registers, scan, Depth(calls))
  IN  /\ AtOperand(heap, toSpace, calls, scan, currentFrame)
      /\ u.space = F /\ u.slot = k /\ k \in 1 .. Count(heap, F)
      /\ Fwd(heap, F, k) = 0 /\ ~InCopy(calls, k)
      /\ calls # <<>> => Kind(heap, HomeSpace(toSpace, calls, Depth(calls)), HomeSlot(calls, Depth(calls)))
                           \notin {"RRB", "INTERNAL"}
      /\ a \in Activation /\ a.fn = "copy" /\ a.next = 1 /\ a.old = k /\ a.new = Count(heap, toSpace) + 1
      /\ Copied(heap, g, toSpace, k, chars, size, 0) /\ size \in Nat
      /\ BlockOK(Kind(heap, F, k), Arity(g, toSpace, Count(heap, toSpace) + 1), chars, size)
      /\ TextsFit => /\ size <= Size(heap, F, k)
                     /\ Arity(g, toSpace, Count(heap, toSpace) + 1) = Arity(heap, F, k)
                     /\ \A n \in 1 .. Arity(heap, F, k) :
                          Kid(g, toSpace, Count(heap, toSpace) + 1, n) = Kid(heap, F, k, n)
      /\ \/ ~Fits(size) /\ Die
         \/ /\ Fits(size)
            /\ heap' = g /\ allocPtr' = allocPtr + (size + 1)
            /\ calls' = Append(calls, a)
            /\ UNCHANGED <<registers, currentFrame, scan, status, toSpace>>

\* What copy does before copy_refs.
LEMMA EnterCopyFacts ==
  ASSUME NEW rank, Collecting(heap, toSpace, calls, registers, scan, currentFrame, rank), EnterCopy
  PROVE  \E k, g, chars, size, a : MakesCopy(k, g, chars, size, a)
  <1> DEFINE t == Operand(calls)
             F == Other(toSpace)
             o == heap[F][t.slot]
  <1>1. Collecting(heap, toSpace, calls, registers, scan, currentFrame, rank)
    OBVIOUS
  <1>2. /\ ~LoopDone(calls) /\ ~VisitsNode(calls) /\ OnHeap(t) /\ ~Forwarded(t)
    BY DEF EnterCopy, Visiting
  <1>3. /\ AtOperand(heap, toSpace, calls, scan, currentFrame)
        /\ t = OperandAt(heap, toSpace, calls, registers, scan, Depth(calls))
        /\ t \in Term /\ RefersTo(heap, t, F) /\ ValueIn(heap, t, F)
    BY <1>1, <1>2, OperandState
  <1>4. /\ calls \in Seq(Activation) /\ heap \in Heaps /\ toSpace \in Spaces /\ F \in Spaces
        /\ F # toSpace /\ F # Off
    BY <1>1, OtherSpace DEF Collecting, Typed
  <1> DEFINE k == t.slot
  <1>5. /\ t.space = F /\ k \in 1 .. Count(heap, F) /\ Fwd(heap, F, k) = 0
        /\ BlockOf(t) = o /\ Kind(heap, F, k) = o.kind
    BY <1>2, <1>3 DEF BlockOf, Fwd, Forwarded, RefersTo, Kind
  <1>6. Kind(heap, F, k) \in {"TUPLE", "FUNCTION", "STRING", "RRB"}
    <2>1. t.tag # "NODE" /\ t.tag = TagOf(Kind(heap, F, k))
      BY <1>3, <1>4, <1>5 DEF ValueIn, OffValue, RefersTo
    <2>2. Kind(heap, F, k) \in Kinds
      BY <1>4, <1>5, HeapTyped
    <2> QED BY <2>1, <2>2 DEF TagOf, Kinds
  <1>7. BlockOK(Kind(heap, F, k), Arity(heap, F, k), Chars(heap, F, k), Size(heap, F, k))
    BY <1>1, <1>4, <1>5 DEF Collecting, BlocksOK
  <1>8. PICK s \in (IF o.kind = "STRING" THEN CString(t) ELSE {Text(o.kids, 0)}) :
          LET size   == heap_size_of(o.kind, s.kids, s.len)
              copied == [kind |-> o.kind, kids |-> s.kids, len |-> s.len, size |-> size, fwd |-> 0]
          IN  /\ size # 0
              /\ \/ ~Fits(size) /\ Die
                 \/ /\ Fits(size)
                    /\ owl_alloc(<<copied>>)
                    /\ calls' = Append(calls, [fn |-> "copy", old |-> t.slot,
                                               new |-> Len(heap[toSpace]) + 1, next |-> 1])
                    /\ UNCHANGED <<registers, currentFrame, scan, status>>
    BY <1>5 DEF EnterCopy
  <1> DEFINE size == heap_size_of(o.kind, s.kids, s.len)
             b == [kind |-> o.kind, kids |-> s.kids, len |-> s.len, size |-> size, fwd |-> 0]
             a == [fn |-> "copy", old |-> k, new |-> Count(heap, toSpace) + 1, next |-> 1]
             g == [heap EXCEPT ![toSpace] = @ \o <<b>>]
  <1>9. /\ s.kids \in Seq(Term) /\ s.len \in Nat
        /\ IF Kind(heap, F, k) = "STRING"
           THEN \A n \in 1 .. Len(s.kids) : OffText(s.kids[n])
           ELSE s.kids = o.kids
        /\ size \in Nat
        /\ TextsFit => size <= Size(heap, F, k) /\ s.kids = o.kids
        /\ BlockOK(Kind(heap, F, k), Len(s.kids), s.len, size)
    <2>1. CASE o.kind = "STRING"
      <3>1. \A n \in 1 .. Arity(heap, F, k) : OffText(Kid(heap, F, k, n))
        BY <1>1, <1>5, <2>1, WhiteKids
      <3>2. s \in CString(t)
        BY <1>8, <2>1
      <3>3. size = align(s.len)
        BY <2>1 DEF heap_size_of
      <3> HIDE DEF size
      <3>4. /\ s.kids \in Seq(Term) /\ \A n \in 1 .. Len(s.kids) : OffText(s.kids[n])
            /\ s.len \in Nat /\ align(s.len) \in Nat
            /\ TextsFit => align(s.len) <= Size(heap, F, k) /\ s.kids = o.kids
            /\ \A n : BlockOK("STRING", n, s.len, align(s.len))
        BY <1>3, <1>4, <1>5, <1>7, <2>1, <3>1, <3>2, TextSeen
      <3> QED BY <1>5, <2>1, <3>3, <3>4
    <2>2. CASE o.kind # "STRING"
      <3>1. s.kids = o.kids /\ s.len = 0
        BY <1>8, <2>2 DEF Text
      <3>2. o.kids \in Seq(Term) /\ Len(o.kids) = Arity(heap, F, k)
        BY <1>4, <1>5, HeapTyped DEF Block, Arity
      <3>3. size \in Nat /\ size <= Size(heap, F, k) /\ BlockOK(Kind(heap, F, k), Arity(heap, F, k), s.len, size)
        BY <1>4, <1>5, <1>6, <1>7, <2>2, <3>1, CopySize
      <3> HIDE DEF size
      <3> QED BY <1>5, <2>2, <3>1, <3>2, <3>3
    <2> QED BY <2>1, <2>2
  <1>11. ~InCopy(calls, k)
    <2>1. CASE calls = <<>>
      <3>1. Depth(calls) = 0
        BY <1>4, <2>1, StackTyped
      <3> QED BY <3>1 DEF InCopy
    <2>2. CASE calls # <<>>
      <3>1. AtChild(heap, toSpace, calls)
        BY <1>3, <2>2 DEF AtOperand
      <3>2. \A i \in 1 .. Depth(calls) : Rank(rank, F, k) < Rank(rank, F, Old(calls, i))
        BY <1>1, <1>3, <1>5, <3>1, OperandBelow
      <3>3. \A l \in Nat : Rank(rank, F, l) \in Nat
        BY <1>1, <1>4 DEF Collecting, Typed, Ranks, Rank
      <3>4. k \in Nat
        BY <1>3 DEF Term
      <3>5. ~(Rank(rank, F, k) < Rank(rank, F, k))
        BY <3>3, <3>4
      <3> QED BY <3>2, <3>5 DEF InCopy
    <2> QED BY <2>1, <2>2
  <1>13. Count(heap, toSpace) \in Nat
    BY <1>4, HeapTyped
  <1>14. a \in Activation /\ a.fn = "copy" /\ a.next = 1 /\ a.old = k /\ a.new = Count(heap, toSpace) + 1
    BY <1>3, <1>13 DEF Activation, Term
  <1>15. IsCopy(heap, toSpace, k, b) /\ b.len = s.len /\ b.size = size /\ b \in Block /\ b.kids = s.kids
    <2>1. o \in Block
      BY <1>4, <1>5, HeapTyped
    <2>2. /\ b.kind = o.kind /\ b.kids = s.kids /\ b.fwd = 0 /\ b.len = s.len /\ b.size = size
          /\ b \in Block
      BY <1>9, <2>1 DEF Block
    <2> HIDE DEF b, size
    <2> QED BY <1>9, <2>2 DEF IsCopy, Kind, Arity, Kid
  <1> HIDE DEF size, a, g
  <1>16. /\ Copied(heap, g, toSpace, k, s.len, size, 0)
         /\ Arity(g, toSpace, Count(heap, toSpace) + 1) = Len(s.kids)
         /\ \A n : Kid(g, toSpace, Count(heap, toSpace) + 1, n) = s.kids[n]
    <2>1. Allocation(heap, g, toSpace, <<b>>)
      <3>1. <<b>> \in Seq(Block)
        BY <1>15
      <3> HIDE DEF b
      <3> QED BY <1>4, <3>1, Allocated DEF g
    <2> HIDE DEF b
    <2>2. Copied(heap, g, toSpace, k, s.len, size, 0)
      BY <1>4, <1>5, <1>15, <2>1, CopyAllocated
    <2>3. Len(<<b>>) = 1 /\ <<b>>[1] = b /\ 1 \in 1 .. Len(<<b>>)
      OBVIOUS
    <2>4. /\ Arity(g, toSpace, Count(heap, toSpace) + 1) = Len(b.kids)
          /\ \A n : Kid(g, toSpace, Count(heap, toSpace) + 1, n) = b.kids[n]
      BY <1>4, <2>1, <2>3 DEF Allocation
    <2> QED BY <1>15, <2>2, <2>4
  <1>17. BlockOK(Kind(heap, F, k), Arity(g, toSpace, Count(heap, toSpace) + 1), s.len, size)
    BY <1>9, <1>16
  <1>18. calls # <<>> => Kind(heap, HomeSpace(toSpace, calls, Depth(calls)), HomeSlot(calls, Depth(calls)))
                           \notin {"RRB", "INTERNAL"}
    BY <1>2, <1>4, OperandFacts
  <1>19. TextsFit => /\ Arity(g, toSpace, Count(heap, toSpace) + 1) = Arity(heap, F, k)
                     /\ \A n \in 1 .. Arity(heap, F, k) :
                          Kid(g, toSpace, Count(heap, toSpace) + 1, n) = Kid(heap, F, k, n)
    BY <1>9, <1>16 DEF Arity, Kid
  <1>20. \/ ~Fits(size) /\ Die
         \/ /\ Fits(size)
            /\ heap' = g /\ allocPtr' = allocPtr + (size + 1)
            /\ calls' = Append(calls, a)
            /\ UNCHANGED <<registers, currentFrame, scan, status, toSpace>>
    <2>1. Bytes(<<b>>) = size + 1
      BY <1>15 DEF Bytes, BlockSize
    <2> HIDE DEF b
    <2>2. owl_alloc(<<b>>) => heap' = g /\ allocPtr' = allocPtr + (size + 1) /\ toSpace' = toSpace
      BY <2>1 DEF owl_alloc, g
    <2> QED BY <1>8, <2>2 DEF a, size, b, Count
  <1> HIDE DEF k, F, t
  <1>21. MakesCopy(k, g, s.len, size, a)
    BY <1>3, <1>5, <1>9, <1>11, <1>14, <1>16, <1>17, <1>18, <1>19, <1>20 DEF MakesCopy, F, k
  <1> QED BY <1>21, Zenon

\* copy allocates the copy and starts on it; if texts fit, there is room.
LEMMA EnterCopySafe ==
  ASSUME CollectInv, EnterCopy, UNCHANGED pending
  PROVE  \/ CollectInv' /\ UNCHANGED <<toSpace, currentFrame, status>>
         \/ ~TextsFit /\ Die
  <1>1. PICK rank : Collecting(heap, toSpace, calls, registers, scan, currentFrame, rank)
    BY DEF CollectInv
  <1>2. PICK k, g, chars, size, a : MakesCopy(k, g, chars, size, a)
    BY <1>1, EnterCopyFacts, Zenon
  <1>3. calls \in Seq(Activation) /\ heap \in Heaps /\ toSpace \in Spaces
    BY <1>1 DEF Collecting, Typed
  <1>4. \A i \in 1 .. Depth(calls) : Old(calls, i) \in 1 .. Count(heap, Other(toSpace))
    BY <1>1 DEF Collecting, StackOK, ActivationOK
  <1>5. /\ AllReached(heap, toSpace, calls, registers, currentFrame)
        /\ Accounts(heap, toSpace, calls, allocPtr, Limit) /\ allocPtr \in Nat
    BY DEF CollectInv, Accounts
  <1>6. /\ TextsFit => allocPtr + size + 1 <= HalfSize
        /\ AllReached(g, toSpace, Append(calls, a), registers, currentFrame)
        /\ Accounts(g, toSpace, Append(calls, a), allocPtr + size + 1, Limit)
    BY <1>2, <1>3, <1>4, <1>5, EnterCopySpace DEF MakesCopy
  <1>7. \E rank2 : Collecting(g, toSpace, Append(calls, a), registers, scan, currentFrame, rank2)
    BY <1>1, <1>2, EnterCopyCollecting DEF MakesCopy
  <1>8. size \in Nat
    BY <1>2 DEF MakesCopy
  <1>9. allocPtr + (size + 1) = allocPtr + size + 1 /\ (TextsFit => Fits(size))
    BY <1>5, <1>6, <1>8, HeapAssumption DEF Fits
  <1> QED BY <1>2, <1>6, <1>7, <1>9 DEF MakesCopy, CollectInv, Limit

\* g is the heap in which copy has forwarded its original, before it returns.
LeavesCopy(g, rank) ==
  LET z  == Depth(calls)
      ds == Pop(calls)
      t  == OperandAt(g, toSpace, ds, registers, scan, Depth(ds))
  IN  /\ calls # <<>> /\ z \in 1 .. Depth(calls) /\ Fn(calls, z) = "copy"
      /\ FwdChange(heap, g, Other(toSpace), Old(calls, z), New(calls, z))
      /\ Collecting(g, toSpace, ds, registers, scan, currentFrame, rank)
      /\ AtOperand(g, toSpace, ds, scan, currentFrame)
      /\ MovesTo(g, toSpace, t, Ref(t.tag, toSpace, New(calls, z)))
      /\ Return(g, ds, Ref(t.tag, toSpace, New(calls, z)))
      /\ UNCHANGED <<toSpace, allocPtr, currentFrame>>

\* What copy does after copy_refs.
LEMMA LeaveCopyFacts ==
  ASSUME NEW rank, Collecting(heap, toSpace, calls, registers, scan, currentFrame, rank), LeaveCopy
  PROVE  \E g : LeavesCopy(g, rank)
  <1>1. Collecting(heap, toSpace, calls, registers, scan, currentFrame, rank)
    OBVIOUS
  <1> DEFINE z == Depth(calls)
             F == Other(toSpace)
             o == Old(calls, z)
             c == New(calls, z)
             ds == Pop(calls)
             g == [heap EXCEPT ![F][o].fwd = c]
  <1>2. /\ calls \in Seq(Activation) /\ heap \in Heaps /\ toSpace \in Spaces /\ F \in Spaces
    BY <1>1, OtherSpace DEF Collecting, Typed
  <1>3. /\ calls # <<>> /\ LoopDone(calls)
        /\ toSpace' = toSpace /\ allocPtr' = allocPtr /\ currentFrame' = currentFrame
    BY DEF LeaveCopy
  <1>4. z \in 1 .. Depth(calls) /\ Fn(calls, z) = "copy"
    <2>1. z \in 1 .. Depth(calls)
      BY <1>2, <1>3, StackTyped
    <2> QED BY <1>2, <1>3, <2>1, TopFacts DEF LeaveCopy
  <1>5. Return(g, ds, Ref(Operand(ds).tag, toSpace, c))
    BY <1>2, <1>3, TopFacts DEF LeaveCopy, forward, FromSpace, Other
  <1>6. /\ o \in 1 .. Count(heap, F) /\ c \in 1 .. Count(heap, toSpace)
        /\ \A i \in 1 .. Depth(calls) : Old(calls, i) \in 1 .. Count(heap, F)
    BY <1>1, <1>4 DEF Collecting, StackOK, ActivationOK
  <1>7. c \in Nat /\ c # 0
    BY <1>2, <1>6, HeapTyped
  <1>8. ~AtChild(heap, toSpace, calls)
    BY <1>1, <1>3, LoopFacts DEF AtOperand
  <1>9. FwdChange(heap, g, F, o, c)
    BY <1>2, <1>6, <1>7, FwdChanged
  <1>10. ds \in Seq(Activation)
    BY <1>2, <1>3, PoppedFacts
  <1> DEFINE t == OperandAt(g, toSpace, ds, registers, scan, Depth(ds))
             u == Ref(t.tag, toSpace, c)
  <1> HIDE DEF g, ds, F
  <1>11. /\ Collecting(g, toSpace, ds, registers, scan, currentFrame, rank)
         /\ MovesTo(g, toSpace, t, u)
         /\ ds # <<>> => AtChild(g, toSpace, ds)
    BY <1>1, <1>3, <1>4, <1>8, <1>9, LeaveCopyCollecting DEF F, ds
  <1>13. Operand(ds) = t
    <2>1. Operand(ds) = OperandAt(heap, toSpace, ds, registers, scan, Depth(ds))
      BY <1>10, OperandFacts
    <2>2. CASE Depth(ds) = 0
      BY <2>1, <2>2 DEF OperandAt
    <2>3. CASE Depth(ds) # 0
      <3>1. Depth(ds) \in 1 .. Depth(ds)
        BY <1>10, <2>3, StackTyped
      <3>2. /\ HomeSpace(toSpace, ds, Depth(ds)) \in Spaces
            /\ HomeSlot(ds, Depth(ds)) \in 1 .. Count(g, HomeSpace(toSpace, ds, Depth(ds)))
        BY <1>11, <3>1, HomeOnHeap
      <3> QED BY <1>9, <2>1, <2>3, <3>2 DEF OperandAt, FwdChange
    <2> QED BY <2>2, <2>3
  <1>14. AtOperand(g, toSpace, ds, scan, currentFrame)
    <2>1. scan.i <= currentFrame
      BY <1>1, <1>3 DEF Collecting, Typed
    <2> QED BY <1>11, <2>1 DEF AtOperand
  <1>15. Return(g, ds, u)
    BY <1>5, <1>13
  <1>16. LeavesCopy(g, rank)
    BY <1>3, <1>4, <1>9, <1>11, <1>14, <1>15 DEF LeavesCopy, F, ds
  <1> QED BY <1>16, Zenon

\* copy sets the forward flag of the original and returns the copy.
LEMMA LeaveCopySafe ==
  ASSUME CollectInv, LeaveCopy, UNCHANGED pending
  PROVE  CollectInv'
  <1>1. PICK rank : Collecting(heap, toSpace, calls, registers, scan, currentFrame, rank)
    BY DEF CollectInv
  <1>2. PICK g : LeavesCopy(g, rank)
    BY <1>1, LeaveCopyFacts, Zenon
  <1> DEFINE z == Depth(calls)
             c == New(calls, z)
             ds == Pop(calls)
             t == OperandAt(g, toSpace, ds, registers, scan, Depth(ds))
             u == Ref(t.tag, toSpace, c)
  <1>3. calls \in Seq(Activation) /\ heap \in Heaps /\ toSpace \in Spaces
    BY <1>1 DEF Collecting, Typed
  <1>4. z \in 1 .. Depth(calls) /\ Fn(calls, z) = "copy" /\ calls # <<>>
    BY <1>2 DEF LeavesCopy
  <1>5. /\ \A i \in 1 .. Depth(calls) : Old(calls, i) \in 1 .. Count(heap, Other(toSpace))
        /\ c \in 1 .. Count(heap, toSpace)
    BY <1>1, <1>4 DEF Collecting, StackOK, ActivationOK
  <1>6. c \in Nat /\ c # 0
    BY <1>3, <1>5, HeapTyped
  <1>7. AllReachedBut(g, toSpace, ds, registers, currentFrame, c) /\ Accounts(g, toSpace, ds, allocPtr', Limit)
    <2>1. AllReached(heap, toSpace, calls, registers, currentFrame) /\ Accounts(heap, toSpace, calls, allocPtr, Limit)
      BY DEF CollectInv
    <2>2. Other(toSpace) \in Spaces
      BY <1>3, OtherSpace
    <2> QED BY <1>2, <1>3, <1>4, <1>5, <1>6, <2>1, <2>2, LeaveCopySpace DEF LeavesCopy
  <1>8. u = Ref(u.tag, toSpace, c)
    BY DEF Ref
  <1>9. /\ Collecting(g, toSpace, ds, registers, scan, currentFrame, rank)
        /\ AtOperand(g, toSpace, ds, scan, currentFrame) /\ MovesTo(g, toSpace, t, u)
        /\ Return(g, ds, u) /\ UNCHANGED <<toSpace, allocPtr, currentFrame>>
    BY <1>2 DEF LeavesCopy
  <1> HIDE DEF t, u, c, ds
  <1> QED BY <1>7, <1>8, <1>9, ReturnSafe DEF t

\* The blocks copy_list_node copies: at most as large as the original.
LEMMA NodeSize ==
  ASSUME NEW h \in Heaps, NEW s \in Spaces, NEW k \in 1 .. Count(h, s),
         BlockOK(Kind(h, s, k), Arity(h, s, k), Chars(h, s, k), Size(h, s, k)),
         Kind(h, s, k) \in {"LEAF", "INTERNAL"},
         NEW size, size = BytesOf(Kind(h, s, k), h[s][k].kids, 0)
  PROVE  /\ size \in Nat /\ size <= Size(h, s, k)
         /\ BlockOK(Kind(h, s, k), Arity(h, s, k), Chars(h, s, k), size)
  <1> DEFINE x == Kind(h, s, k)
             a == Arity(h, s, k)
             z == Size(h, s, k)
  <1>1. a \in Nat /\ z \in Nat /\ Len(h[s][k].kids) = a
    BY HeapTyped DEF Arity
  <1>2. /\ x = "LEAF" => size = 16 + 8 * a
        /\ x = "INTERNAL" => size = 24 + 8 * (a - 1)
    BY <1>1 DEF BytesOf
  <1> HIDE DEF x, a, z
  <1>4. BlockOK(x, a, Chars(h, s, k), z)
    BY DEF x, a, z
  <1>5. x \in {"LEAF", "INTERNAL"}
    BY DEF x
  <1>6. /\ size \in Nat /\ size <= z
    BY <1>1, <1>2, <1>4, <1>5 DEF BlockOK
  <1>7. BlockOK(x, a, Chars(h, s, k), size)
    BY <1>1, <1>2, <1>4, <1>5 DEF BlockOK
  <1> QED BY <1>6, <1>7 DEF x, a, z

\* All of a sequence.
LEMMA WholeSequence ==
  ASSUME NEW S, NEW q \in Seq(S)
  PROVE  SubSeq(q, 1, Len(q)) = q
  OBVIOUS

\* bump_cpy of a whole node.
LEMMA Bumped ==
  ASSUME NEW h \in Heaps, toSpace \in Spaces, NEW F, F = Other(toSpace),
         NEW o \in 1 .. Count(h, F), Kind(h, F, o) # "STRING", NEW size \in Nat,
         size = BytesOf(Kind(h, F, o), h[F][o].kids, 0)
  PROVE  Copied(h, bump_cpy(h, o, Arity(h, F, o)), toSpace, o, Chars(h, F, o), size,
                Count(h, toSpace) + 1)
  <1> DEFINE b == h[F][o]
             kids == SubSeq(b.kids, 1, Arity(h, F, o))
             new == [b EXCEPT !.kids = kids, !.size = BytesOf(b.kind, kids, 0), !.fwd = 0]
             g1 == [h EXCEPT ![toSpace] = @ \o <<new>>]
             n == Count(h, toSpace) + 1
             g == [g1 EXCEPT ![F][o].fwd = n]
  <1>1. F \in Spaces /\ F # toSpace /\ b \in Block /\ n \in Nat
    BY OtherSpace, HeapTyped
  <1>2. kids = b.kids
    <2>1. b.kids \in Seq(Term) /\ Arity(h, F, o) = Len(b.kids)
      BY <1>1 DEF Arity, Block
    <2> HIDE DEF b
    <2> QED BY <2>1, WholeSequence
  <1>3. /\ new \in Block /\ new.kind = b.kind /\ new.kids = b.kids /\ new.len = b.len
        /\ new.size = size /\ new.fwd = 0
    <2> DEFINE w == BytesOf(b.kind, kids, 0)
    <2>1. w = size
      BY <1>2 DEF Kind
    <2>2. kids \in Seq(Term) /\ w \in Nat /\ 0 \in Nat
      BY <1>1, <1>2, <2>1 DEF Block
    <2> HIDE DEF b, kids, w
    <2>3. LET c == [b EXCEPT !.kids = kids, !.size = w, !.fwd = 0]
          IN  /\ c \in Block /\ c.kind = b.kind /\ c.kids = kids /\ c.len = b.len
              /\ c.size = w /\ c.fwd = 0
      BY <1>1, <2>2 DEF Block
    <2> QED BY <1>2, <2>1, <2>3 DEF w
  <1>4. IsCopy(h, toSpace, o, new)
    BY <1>3 DEF IsCopy, Kind, Arity, Kid
  <1>5. bump_cpy(h, o, Arity(h, F, o)) = g
    <2>1. FromSpace = F
      BY DEF FromSpace, Other
    <2>2. Append(h[toSpace], new) = h[toSpace] \o <<new>>
      <3>1. h[toSpace] \in Seq(Block)
        BY DEF Heaps
      <3> HIDE DEF new
      <3> QED BY <1>3, <3>1
    <2> QED BY <2>1, <2>2 DEF bump_cpy, forward, Count
  <1> HIDE DEF new
  <1>6. Allocation(h, g1, toSpace, <<new>>)
    <2>1. <<new>> \in Seq(Block)
      BY <1>3
    <2> QED BY <2>1, Allocated
  <1>7. Copied(h, g1, toSpace, o, Chars(h, F, o), size, Fwd(h, F, o))
    <2>1. new.len = Chars(h, F, o)
      BY <1>3 DEF Chars
    <2> HIDE DEF g1
    <2> QED BY <1>3, <1>4, <1>6, <2>1, CopyAllocated
  <1>8. FwdChange(g1, g, F, o, n)
    <2>1. g1 \in Heaps /\ o \in 1 .. Count(g1, F)
      BY <1>6, <1>1 DEF Allocation
    <2> HIDE DEF g1, n
    <2> QED BY <1>1, <2>1, FwdChanged
  <1> HIDE DEF g1, g
  <1> QED BY <1>5, <1>7, <1>8, CopyBumped

\* g is the heap with the copy of node o that copy_list_node makes.
MakesNode(o, g, chars, size) ==
  LET F == Other(toSpace)
      z == Depth(calls)
      n == Count(heap, toSpace) + 1
  IN  /\ calls # <<>> /\ ~AtChild(heap, toSpace, calls)
      /\ z \in 1 .. Depth(calls) /\ Fn(calls, z) = "copy_list_node" /\ Old(calls, z) = o
      /\ o \in 1 .. Count(heap, F) /\ Kind(heap, F, o) \in {"LEAF", "INTERNAL"}
      /\ Fwd(heap, F, o) = 0 /\ ~InCopy(calls, o)
      /\ n \in Nat /\ n # 0 /\ size \in Nat /\ size <= Size(heap, F, o)
      /\ BlockOK(Kind(heap, F, o), Arity(heap, F, o), chars, size)
      /\ Copied(heap, g, toSpace, o, chars, size, n)
      /\ \/ ~Fits(size + 1) /\ Die
         \/ /\ Fits(size + 1)
            /\ allocPtr' = allocPtr + (size + 1)
            /\ Return(g, Pop(calls), Ref("NODE", toSpace, n))
            /\ UNCHANGED <<toSpace, currentFrame, status>>

\* What copy_list_node does after its loop.
LEMMA LeaveNodeFacts ==
  ASSUME NEW rank, Collecting(heap, toSpace, calls, registers, scan, currentFrame, rank), LeaveNode
  PROVE  \E o, g, chars, size : MakesNode(o, g, chars, size)
  <1>1. Collecting(heap, toSpace, calls, registers, scan, currentFrame, rank)
    OBVIOUS
  <1> DEFINE z == Depth(calls)
             F == Other(toSpace)
             o == Old(calls, z)
             n == Count(heap, toSpace) + 1
             ds == Pop(calls)
             x == Kind(heap, F, o)
             m == Arity(heap, F, o)
             size == BytesOf(x, heap[F][o].kids, 0)
             g == bump_cpy(heap, o, m)
  <1>2. /\ calls \in Seq(Activation) /\ heap \in Heaps /\ toSpace \in Spaces /\ F \in Spaces
        /\ F # toSpace
    BY <1>1, OtherSpace DEF Collecting, Typed
  <1>3. calls # <<>> /\ LoopDone(calls)
    BY DEF LeaveNode
  <1>4. z \in 1 .. Depth(calls) /\ Fn(calls, z) = "copy_list_node" /\ Top(calls).old = o
    <2>1. z \in 1 .. Depth(calls)
      BY <1>2, <1>3, StackTyped
    <2> QED BY <1>2, <1>3, <2>1, TopFacts DEF LeaveNode
  <1>5. /\ o \in 1 .. Count(heap, F) /\ x \in {"LEAF", "INTERNAL"} /\ Fwd(heap, F, o) = 0
        /\ \A i \in 1 .. Depth(calls) : Old(calls, i) \in 1 .. Count(heap, F)
    BY <1>1, <1>4 DEF Collecting, StackOK, ActivationOK
  <1>6. ~AtChild(heap, toSpace, calls)
    BY <1>1, <1>3, LoopFacts DEF AtOperand
  <1>7. BlockOK(x, m, Chars(heap, F, o), Size(heap, F, o))
    BY <1>1, <1>2, <1>5 DEF Collecting, BlocksOK
  <1>8. ~HasTable(heap[F][o])
    <2>1. x = "INTERNAL" => m \in 1 .. m
      <3>1. m \in Nat
        BY <1>2, <1>5, HeapTyped
      <3> QED BY <1>7, <3>1 DEF BlockOK
    <2>2. Split(heap, toSpace, F, o, Child(calls, z))
      BY <1>1, <1>4 DEF Collecting, GreyOK, HomeSpace, HomeSlot
    <2>3. x = "INTERNAL" => Kid(heap, F, o, m) = Null
      BY <2>1, <2>2 DEF Split, Suits
    <2> QED BY <2>3 DEF HasTable, Kind, Kid, Arity
  <1>9. /\ size \in Nat /\ size <= Size(heap, F, o) /\ BlockOK(x, m, Chars(heap, F, o), size)
    BY <1>2, <1>5, <1>7, NodeSize
  <1>10. Copied(heap, g, toSpace, o, Chars(heap, F, o), size, n)
    BY <1>2, <1>5, <1>9, Bumped
  <1>11. ~InCopy(calls, o)
    <2>1. \A i \in 1 .. Depth(calls) : i # z => Old(calls, i) # o
      BY <1>1, <1>4, HomesApart
    <2> QED BY <1>4, <2>1 DEF InCopy
  <1>13. n \in Nat /\ n # 0 /\ n = Len(heap[toSpace]) + 1
    <2>1. Count(heap, toSpace) \in Nat
      BY <1>2, HeapTyped
    <2> QED BY <2>1 DEF Count
  <1>15. LET bytes == 0 + size + 1
         IN  \/ ~Fits(bytes) /\ Die
             \/ /\ Fits(bytes)
                /\ allocPtr' = allocPtr + bytes
                /\ Return(g, ds, Ref("NODE", toSpace, n))
                /\ UNCHANGED <<toSpace, currentFrame, status>>
    <2>1. F = FromSpace
      BY DEF FromSpace, Other
    <2>2. x = heap[F][o].kind /\ m = Len(heap[F][o].kids)
      BY DEF Kind, Arity
    <2> HIDE DEF o
    <2> QED BY <1>4, <1>8, <1>13, <2>1, <2>2 DEF LeaveNode
  <1>16. 0 + size + 1 = size + 1
    BY <1>9
  <1> HIDE DEF g, size, m, x, o, ds, F
  <1>17. MakesNode(o, g, Chars(heap, F, o), size)
    BY <1>3, <1>4, <1>5, <1>6, <1>9, <1>10, <1>11, <1>13, <1>15, <1>16 DEF MakesNode, o, ds, x, m, F
  <1> QED BY <1>17, Zenon

\* copy_list_node copies its node and returns the copy; if texts fit, there is
\* room.
LEMMA LeaveNodeSafe ==
  ASSUME CollectInv, LeaveNode, UNCHANGED pending
  PROVE  \/ CollectInv' /\ UNCHANGED <<toSpace, currentFrame, status>>
         \/ ~TextsFit /\ Die
  <1>1. PICK rank : Collecting(heap, toSpace, calls, registers, scan, currentFrame, rank)
    BY DEF CollectInv
  <1>2. PICK o, g, chars, size : MakesNode(o, g, chars, size)
    BY <1>1, LeaveNodeFacts, Zenon
  <1> DEFINE n == Count(heap, toSpace) + 1
             ds == Pop(calls)
             t == OperandAt(g, toSpace, ds, registers, scan, Depth(ds))
             u == Ref(t.tag, toSpace, n)
  <1>3. calls \in Seq(Activation) /\ heap \in Heaps /\ toSpace \in Spaces
    BY <1>1 DEF Collecting, Typed
  <1>4. \A i \in 1 .. Depth(calls) : Old(calls, i) \in 1 .. Count(heap, Other(toSpace))
    BY <1>1 DEF Collecting, StackOK, ActivationOK
  <1>5. /\ \E rank2 : Collecting(g, toSpace, ds, registers, scan, currentFrame, rank2)
        /\ MovesTo(g, toSpace, t, u) /\ t.tag = "NODE"
        /\ ds # <<>> => AtChild(g, toSpace, ds)
    BY <1>1, <1>2, LeaveNodeCollecting DEF MakesNode
  <1>6. /\ TextsFit => allocPtr + size + 1 <= HalfSize
        /\ AllReachedBut(g, toSpace, ds, registers, currentFrame, n)
        /\ Accounts(g, toSpace, ds, allocPtr + size + 1, Limit)
    <2>1. AllReached(heap, toSpace, calls, registers, currentFrame) /\ Accounts(heap, toSpace, calls, allocPtr, Limit)
      BY DEF CollectInv
    <2>2. Kind(heap, Other(toSpace), o) # "STRING"
      BY <1>2 DEF MakesNode
    <2> QED BY <1>2, <1>3, <1>4, <2>1, <2>2, LeaveNodeSpace DEF MakesNode
  <1>7. allocPtr \in Nat /\ size \in Nat
    BY <1>2 DEF CollectInv, Accounts, MakesNode
  <1>8. allocPtr + (size + 1) = allocPtr + size + 1 /\ (TextsFit => Fits(size + 1))
    BY <1>6, <1>7, HeapAssumption DEF Fits
  <1>9. PICK rank2 : Collecting(g, toSpace, ds, registers, scan, currentFrame, rank2)
    BY <1>5
  <1>10. AtOperand(g, toSpace, ds, scan, currentFrame)
    <2>1. scan.i <= currentFrame
      BY <1>1, <1>2 DEF Collecting, Typed, MakesNode
    <2> QED BY <1>5, <2>1 DEF AtOperand
  <1>11. n \in Nat /\ n # 0 /\ u = Ref(u.tag, toSpace, n)
    BY <1>2 DEF MakesNode, Ref
  <1> HIDE DEF n, ds, t
  <1>12. ASSUME allocPtr' = allocPtr + (size + 1), Return(g, ds, Ref("NODE", toSpace, n)),
                UNCHANGED <<toSpace, currentFrame, status>>
         PROVE  CollectInv'
    <2>1. Return(g, ds, u) /\ Accounts(g, toSpace, ds, allocPtr', Limit)
      BY <1>5, <1>6, <1>8, <1>12
    <2> HIDE DEF u
    <2> QED BY <1>5, <1>6, <1>9, <1>10, <1>11, <1>12, <2>1, ReturnSafe DEF t
  <1>13. \/ ~Fits(size + 1) /\ Die
         \/ /\ allocPtr' = allocPtr + (size + 1) /\ Return(g, ds, Ref("NODE", toSpace, n))
            /\ UNCHANGED <<toSpace, currentFrame, status>>
    BY <1>2 DEF MakesNode, n, ds
  <1> QED BY <1>8, <1>12, <1>13

-----------------------------------------------------------------------------
\* gc_collect keeps its invariant, and calls die only if texts do not fit.
LEMMA CollectStepSafe ==
  ASSUME CollectInv, CollectStep, UNCHANGED pending
  PROVE  \/ CollectInv' /\ UNCHANGED <<toSpace, currentFrame, status>>
         \/ ~TextsFit /\ Die
  <1>1. CASE ReturnAsIs
    BY <1>1, ReturnsSafe DEF ReturnAsIs
  <1>2. CASE ReturnForwarded
    BY <1>2, ReturnsSafe DEF ReturnForwarded
  <1>3. CASE EnterCopy
    BY <1>3, EnterCopySafe
  <1>4. CASE LeaveCopy
    BY <1>4, LeaveCopySafe DEF LeaveCopy
  <1>5. CASE EnterNode
    BY <1>5, EnterNodeSafe DEF EnterNode
  <1>6. CASE LeaveNode
    BY <1>6, LeaveNodeSafe
  <1> QED BY <1>1, <1>2, <1>3, <1>4, <1>5, <1>6 DEF CollectStep
=============================================================================
