--------------------------- MODULE OwlVmObjectsProofs ---------------------------
(***************************************************************************)
(* The VM implements OwlObjects: every step of it makes, calls, renames or *)
(* forgets what the step of OwlObjects does.                               *)
(***************************************************************************)
EXTENDS OwlVmViewProofs

-----------------------------------------------------------------------------
(* The copies of a collection *)

\* Every copy a collection has made so far is one of an original.
CopiesInv == status = "collect" => OriginalsKnown(heap, toSpace, calls)

\* The program starts without a collection.
LEMMA CopiesInvInit ==
  ASSUME Init
  PROVE  CopiesInv
  BY DEF Init, CopiesInv

\* A collection starts in an empty half-space, and whatever it copies it copies from
\* an original.
LEMMA CopiesInvNext ==
  ASSUME TextsFit, HeapInv, CopiesInv, [Next]_vars
  PROVE  CopiesInv'
  <1>1. CASE UNCHANGED vars
    BY <1>1 DEF CopiesInv, vars, gcVars
  <1> SUFFICES ASSUME Next, status' = "collect"
               PROVE  OriginalsKnown(heap', toSpace', calls')
    BY <1>1 DEF CopiesInv
  <1>2. CASE status = "collect"
    <2>1. CollectInv /\ CollectStep /\ UNCHANGED pending
      BY <1>2, GoesOn DEF HeapInv
    <2>2. Keeps /\ toSpace' = toSpace
      BY <2>1, CollectStepKeeps, CollectStepStays
    <2> QED BY <1>2, <2>2 DEF Keeps, CopiesInv
  <1>3. CASE status # "collect"
    <2>1. StartCollect /\ Mutating
      BY <1>3, Starts DEF HeapInv
    <2>2. heap' = heap /\ toSpace' = Other(toSpace) /\ Count(heap, Other(toSpace)) = 0
      BY <2>1 DEF StartCollect, FromSpace, Other, Mutating, Resting
    <2> QED BY <2>2 DEF OriginalsKnown
  <1> QED BY <1>2, <1>3

-----------------------------------------------------------------------------
(* The variables of OwlObjects *)

Os == ObjectsOf(Cells)
St == FramesOf(Roots)
Rn == IF fresh THEN Value(currentFunction) ELSE Value(Null)
Mk == IF status = "push"
      THEN [list |-> Value(pending.list),
            todo |-> [n \in 1 .. Len(pending.todo) |-> Value(pending.todo[n])],
            kept |-> pending.op \in {"list", "file_ls", "code_load"},
            read |-> pending.op = "file_ls"]
      ELSE [list |-> Value(EmptyList), todo |-> <<>>, kept |-> FALSE, read |-> FALSE]
Ph == CASE status = "collect" -> "collecting"
        [] status = "push" -> "making"
        [] status \in {"exit", "die"} -> "stopped"
        [] OTHER -> "running"

NoList == [list |-> ValueOf(EmptyList), todo |-> <<>>, kept |-> FALSE, read |-> FALSE]

\* The list in the making, as a value.
ListMade == [list |-> ValueOf(pending.list),
             todo |-> [n \in 1 .. Len(pending.todo) |-> ValueOf(pending.todo[n])],
             kept |-> pending.op \in {"list", "file_ls", "code_load"},
             read |-> pending.op = "file_ls"]

\* Between collections a term stands for what it says it does.
LEMMA RestingValues ==
  ASSUME Mutating, status # "collect", NEW t, t.space # Other(toSpace)
  PROVE  Value(t) = ValueOf(t)
  <1>1. toSpace \in Spaces
    BY DEF Mutating, Resting
  <1>2. OriginSpace = toSpace /\ toSpace # Off
    BY <1>1, OtherSpace DEF OriginSpace
  <1>3. Original(t) = [tag |-> t.tag, space |-> IF t.space = Off THEN Off ELSE toSpace, slots |-> {t.slot}]
    BY <1>2 DEF Original, Other
  <1>4. (CHOOSE k \in {t.slot} : TRUE) = t.slot
    OBVIOUS
  <1> QED BY <1>2, <1>3, <1>4 DEF Value, Valued, ValueOf

\* What values and children of blocks refer to.
LEMMA RestingTerms ==
  ASSUME Mutating
  PROVE  /\ toSpace \in Spaces /\ Off # Other(toSpace) /\ toSpace # Other(toSpace)
         /\ \A t : ValueIn(heap, t, toSpace) => t.space # Other(toSpace)
         /\ \A k \in 1 .. Count(heap, toSpace) : \A n \in 1 .. Arity(heap, toSpace, k) :
              Kid(heap, toSpace, k, n).space # Other(toSpace)
  <1>1. PICK rank : Resting(heap, toSpace, allocPtr, rank)
    BY DEF Mutating
  <1>2. toSpace \in Spaces /\ Off # Other(toSpace) /\ toSpace # Other(toSpace) /\ Closed(heap, toSpace)
    BY <1>1, OtherSpace, RestingCloses DEF Resting
  <1>3. \A t : ValueIn(heap, t, toSpace) => t.space # Other(toSpace)
    BY <1>2 DEF ValueIn, RefersTo, OffValue
  <1>4. ASSUME NEW k \in 1 .. Count(heap, toSpace), NEW n \in 1 .. Arity(heap, toSpace, k)
        PROVE  Kid(heap, toSpace, k, n).space # Other(toSpace)
    <2>1. Kind(heap, toSpace, k) \in Kinds \ {"TABLE"} /\ Whole(heap, toSpace, k, toSpace)
      BY <1>2 DEF Closed
    <2>2. Suits(heap, Kind(heap, toSpace, k), Arity(heap, toSpace, k), n, Kid(heap, toSpace, k, n), toSpace)
      BY <2>1 DEF Whole
    <2>3. Kid(heap, toSpace, k, n).space \in {Off, toSpace}
      BY <1>2, <2>1, <2>2, SuitsTyped DEF RefersTo
    <2> QED BY <1>2, <2>3
  <1> QED BY <1>2, <1>3, <1>4

\* The cells are the blocks of to_space.
LEMMA RestingCells ==
  ASSUME Mutating, status # "collect"
  PROVE  Cells = CellsIn(heap, toSpace)
  <1>1. toSpace \in Spaces /\ Count(heap, Other(toSpace)) = 0 /\ calls = <<>>
    BY DEF Mutating, Resting
  <1>2. OriginSpace = toSpace
    BY DEF OriginSpace
  <1>3. Slots(1 - OriginSpace) = {} /\ Slots(OriginSpace) = 1 .. Count(heap, toSpace)
    BY <1>1, <1>2 DEF Slots, Count, Other
  <1>4. \A k : Copies(k) = {}
    BY <1>3 DEF Copies
  <1>5. Graph = [k \in 1 .. Count(heap, toSpace) |-> {Content(heap[toSpace][k])}]
    BY <1>2, <1>3, <1>4 DEF Graph
  <1>6. ASSUME NEW k \in 1 .. Count(heap, toSpace)
        PROVE  Cell(CHOOSE c \in Graph[k] : TRUE) = CellIn(heap, toSpace, k)
    <2> DEFINE b == heap[toSpace][k]
               a == Arity(heap, toSpace, k)
    <2>1. (CHOOSE c \in Graph[k] : TRUE) = Content(b)
      BY <1>5
    <2>2. \A n \in 1 .. a : Valued(Original(b.kids[n])) = ValueOf(Kid(heap, toSpace, k, n))
      BY RestingTerms, RestingValues DEF Value, Kid
    <2>3. Content(b).kind = b.kind /\ Content(b).kids = [n \in 1 .. a |-> Original(b.kids[n])]
      BY DEF Content, Arity
    <2> HIDE DEF b, a
    <2>4. [n \in DOMAIN Content(b).kids |-> Valued(Content(b).kids[n])]
            = [n \in 1 .. a |-> ValueOf(Kid(heap, toSpace, k, n))]
      BY <2>2, <2>3
    <2>5. Cell(Content(b)) = [kind |-> b.kind, kids |-> [n \in 1 .. a |-> ValueOf(Kid(heap, toSpace, k, n))]]
      BY <2>3, <2>4 DEF Cell
    <2> QED BY <2>1, <2>5 DEF CellIn, Kind, a, b
  <1> QED BY <1>5, <1>6 DEF Cells, CellsIn

\* The frames.
LEMMA RestingFrames ==
  ASSUME Mutating, status # "collect", currentFrame \in Nat
  PROVE  St = FramesIn(registers, frames, currentFrame)
  <1>1. ASSUME NEW i \in 1 .. currentFrame + 1
        PROVE  [r \in Regs |-> Valued(Roots[i - 1][r])] = [r \in Regs |-> ValueOf(registers[i - 1][r])]
    <2>1. i - 1 \in 0 .. currentFrame
      OBVIOUS
    <2>2. \A r \in Regs : Roots[i - 1][r] = Original(registers[i - 1][r])
      BY <2>1 DEF Roots
    <2>3. \A r \in Regs : ValueIn(heap, registers[i - 1][r], toSpace)
      BY <2>1 DEF Mutating, RegistersIn, Reg
    <2>4. \A r \in Regs : Value(registers[i - 1][r]) = ValueOf(registers[i - 1][r])
      BY <2>3, RestingTerms, RestingValues
    <2> QED BY <2>2, <2>4 DEF Value
  <1> QED BY <1>1 DEF St, FramesOf, FramesIn

\* The view of a VM between collections.
RestingView ==
  /\ Mutating
  /\ Os = Objs(heap, toSpace)
  /\ St = FramesIn(registers, frames, currentFrame)
  /\ Rn = IF fresh THEN ValueOf(currentFunction) ELSE ValueOf(Null)
  /\ Mk = IF status = "push" THEN ListMade ELSE NoList

\* All of it.
LEMMA RestingState ==
  ASSUME TextsFit
  PROVE  FrameInv /\ HeapInv /\ status # "collect" => RestingView
  <1> SUFFICES ASSUME FrameInv, HeapInv, status # "collect"
               PROVE  RestingView
    OBVIOUS
  <1>1. Mutating
    BY Modes
  <1>2. currentFrame \in Nat
    BY GcAssumption DEF FrameInv, FrameShape, Frames
  <1>3. Os = Objs(heap, toSpace)
    BY <1>1, RestingCells DEF Os, Objs
  <1>4. Value(Null) = ValueOf(Null) /\ Value(EmptyList) = ValueOf(EmptyList)
    BY <1>1, RestingTerms, RestingValues DEF Null, EmptyList
  <1>5. fresh => Value(currentFunction) = ValueOf(currentFunction)
    <2>1. fresh => ValueIn(heap, currentFunction, toSpace)
      BY DEF HeapInv, ClosureOK, ClosureIn
    <2> QED BY <1>1, <2>1, RestingTerms, RestingValues
  <1>6. ASSUME status = "push"
        PROVE  /\ Value(pending.list) = ValueOf(pending.list)
               /\ \A n \in 1 .. Len(pending.todo) : Value(pending.todo[n]) = ValueOf(pending.todo[n])
    <2>1. ListIn(heap, toSpace, pending.list) /\ ValuesIn(heap, toSpace, pending.todo)
      BY <1>6 DEF HeapInv, PendingOK
    <2>2. pending.list.space # Other(toSpace)
      BY <1>1, <2>1, RestingTerms DEF ListIn, RefersTo, EmptyList
    <2>3. \A n \in 1 .. Len(pending.todo) : pending.todo[n].space # Other(toSpace)
      BY <1>1, <2>1, RestingTerms DEF ValuesIn
    <2> QED BY <1>1, <1>6, <2>2, <2>3, RestingValues
  <1>7. Mk = IF status = "push" THEN ListMade ELSE NoList
    BY <1>4, <1>6 DEF Mk, ListMade, NoList
  <1>8. Rn = IF fresh THEN ValueOf(currentFunction) ELSE ValueOf(Null)
    BY <1>4, <1>5 DEF Rn
  <1> QED BY <1>1, <1>2, <1>3, <1>7, <1>8, RestingFrames DEF RestingView

\* During a collection no upvalue can be read, and no list is in the making.
LEMMA CollectingState ==
  HeapInv /\ status = "collect" => Rn = ValueOf(Null) /\ Mk = NoList
  <1> SUFFICES ASSUME HeapInv, status = "collect"
               PROVE  Rn = ValueOf(Null) /\ Mk = NoList
    OBVIOUS
  <1>1. CollectInv /\ ~fresh
    BY DEF HeapInv
  <1>2. toSpace \in Spaces
    BY <1>1 DEF CollectInv, Collecting, Typed
  <1>3. OriginSpace \in Spaces /\ Off # 1 - OriginSpace
    BY <1>2 DEF OriginSpace, FromSpace, Spaces, Low, High, Off
  <1>4. \A t : t.space = Off => Original(t) = [tag |-> t.tag, space |-> Off, slots |-> {t.slot}]
    BY <1>3 DEF Original
  <1>5. \A x : (CHOOSE k \in {x} : TRUE) = x
    OBVIOUS
  <1>6. \A t : t.space = Off => Value(t) = ValueOf(t)
    BY <1>4, <1>5 DEF Value, Valued, ValueOf
  <1>7. Value(Null) = ValueOf(Null) /\ Value(EmptyList) = ValueOf(EmptyList)
    BY <1>6 DEF Null, EmptyList
  <1> QED BY <1>1, <1>7 DEF Rn, Mk, NoList

-----------------------------------------------------------------------------
(* Steps of OwlObjects *)

\* What all the steps below are taken in, and lead to.
Sound == /\ WithinLimits /\ TextsFit
         /\ FrameInv /\ HeapInv
         /\ FrameInv' /\ HeapInv'

Implemented == \/ Objects!Next
               \/ UNCHANGED <<Os, St, Rn, Mk, Ph>>

\* The view after a step.
LEMMA RestingStateNext ==
  ASSUME TextsFit
  PROVE  (FrameInv /\ HeapInv /\ status # "collect" => RestingView)'
  BY RestingState, PTL

\* The view before and after a step of the program.
LEMMA MutatorView ==
  ASSUME Sound, status # "collect", status' # "collect"
  PROVE  RestingView /\ RestingView'
  <1>1. RestingView
    BY RestingState DEF Sound
  <1>2. TextsFit
    BY DEF Sound
  <1>3. (FrameInv /\ HeapInv /\ status # "collect" => RestingView)'
    BY <1>2, RestingStateNext
  <1> QED BY <1>1, <1>3 DEF Sound

\* The view of a VM that goes on with a collection.
LEMMA CollectorView ==
  ASSUME Sound, status' = "collect"
  PROVE  /\ Rn' = ValueOf(Null) /\ Mk' = NoList
         /\ status = "collect" => Rn = ValueOf(Null) /\ Mk = NoList
  <1>1. (HeapInv /\ status = "collect" => Rn = ValueOf(Null) /\ Mk = NoList)'
    BY CollectingState, PTL
  <1> QED BY <1>1, CollectingState DEF Sound

-----------------------------------------------------------------------------
(* Collections begin and go on *)

\* The same graph has the same objects, and the same roots are the same frames.
LEMMA SameGraph ==
  ASSUME Graph' = Graph, Roots' = Roots, UNCHANGED <<frames, currentFrame>>
  PROVE  Os' = Os /\ St' = St
  <1>1. Cells' = Cells
    BY DEF Cells
  <1>2. Os' = Os
    BY <1>1 DEF Os
  <1>3. St' = St
    BY DEF St, FramesOf
  <1> QED BY <1>2, <1>3

\* What the collector does is not seen.
LEMMA CollectingStep ==
  ASSUME Sound, Next, status = "collect", status' = "collect"
  PROVE  Implemented
  <1>1. CollectStep /\ UNCHANGED pending /\ UNCHANGED vmVars
    BY GoesOn
  <1>2. CollectInv
    BY DEF Sound, HeapInv
  <1>3. UNCHANGED currentFrame
    BY <1>1, <1>2, CollectStepStays DEF Sound
  <1>4. Graph' = Graph /\ Roots' = Roots
    BY CollectorKeepsGraph DEF Sound
  <1>5. UNCHANGED <<Os, St>>
    BY <1>1, <1>3, <1>4, SameGraph DEF vmVars
  <1>6. UNCHANGED <<Rn, Mk>>
    BY CollectorView
  <1>7. UNCHANGED Ph
    BY DEF Ph
  <1> QED BY <1>5, <1>6, <1>7 DEF Implemented

\* gc_collect up to its loops.
LEMMA BeginCollectStep ==
  ASSUME Sound, Next, status # "collect", status' = "collect"
  PROVE  Implemented
  <1>1. StartCollect /\ status \in {"run", "boot"} /\ UNCHANGED frames
    BY Starts
  <1>2. Graph' = Graph /\ Roots' = Roots
    BY StartKeepsGraph DEF Sound
  <1>3. UNCHANGED <<Os, St>>
    BY <1>1, <1>2, SameGraph DEF StartCollect
  <1>4. Rn' = ValueOf(Null) /\ Mk' = NoList
    BY CollectorView
  <1>5. RestingView
    BY RestingState DEF Sound
  <1>6. Mk = NoList
    BY <1>1, <1>5 DEF RestingView
  <1>7. Ph = "running" /\ Ph' = "collecting"
    BY <1>1 DEF Ph
  <1>8. Objects!Nothing = ValueOf(Null)
    BY DEF Objects!Nothing, Objects!Plain, ValueOf, Null, Off
  <1>9. Objects!BeginCollect
    BY <1>3, <1>4, <1>6, <1>7, <1>8 DEF Objects!BeginCollect, Os, St, Rn, Mk, Ph
  <1> QED BY <1>9 DEF Implemented, Objects!Next

-----------------------------------------------------------------------------
(* Collections end *)

\* The original of each block of to_space.
NameIn(h, T) == [c \in 1 .. Count(h, T) |-> CHOOSE k \in 1 .. Count(h, Other(T)) : Fwd(h, Other(T), k) = c]

\* When no call is in progress every copy has its one original.
LEMMA NamesOriginals ==
  ASSUME NEW h, NEW T \in Spaces, NEW cs, cs = <<>>, MovedOK(h, T, cs), OriginalsKnown(h, T, cs),
         Count(h, T) \in Nat, NEW c \in 1 .. Count(h, T)
  PROVE  /\ NameIn(h, T)[c] \in 1 .. Count(h, Other(T))
         /\ Fwd(h, Other(T), NameIn(h, T)[c]) = c
         /\ \A k \in 1 .. Count(h, Other(T)) : IsCopyOf(h, T, cs, c, k) <=> k = NameIn(h, T)[c]
  <1> DEFINE F == Other(T)
             m == NameIn(h, T)[c]
  <1>1. \A d, k : IsCopyOf(h, T, cs, d, k) <=> d \in 1 .. Count(h, T) /\ Fwd(h, F, k) = d
    BY DEF IsCopyOf, Depth
  <1>2. \E k \in 1 .. Count(h, F) : Fwd(h, F, k) = c
    BY <1>1 DEF OriginalsKnown
  <1>3. m \in 1 .. Count(h, F) /\ Fwd(h, F, m) = c
    <2>1. m = CHOOSE k \in 1 .. Count(h, F) : Fwd(h, F, k) = c
      BY DEF NameIn
    <2> HIDE DEF m
    <2> QED BY <1>2, <2>1
  <1>4. c # 0
    OBVIOUS
  <1> HIDE DEF m
  <1>5. \A k \in 1 .. Count(h, F) : Fwd(h, F, k) = c => k = m
    BY <1>3, <1>4 DEF MovedOK
  <1> QED BY <1>1, <1>3, <1>5 DEF m

\* What a term stands for then.
LEMMA EndValues ==
  ASSUME NEW h, NEW T \in Spaces, NEW cs, cs = <<>>, MovedOK(h, T, cs), OriginalsKnown(h, T, cs),
         Count(h, T) \in Nat, NEW t, t.space = Off \/ (t.space = T /\ t.slot \in 1 .. Count(h, T))
  PROVE  Valued(OriginalIn(h, T, cs, t)) = Ren(ValueOf(t), NameIn(h, T))
  <1> DEFINE o == OriginalIn(h, T, cs, t)
  <1>1. T # Off /\ Other(T) # Off
    BY OtherSpace
  <1>2. o.tag = t.tag /\ o.space = (IF t.space = Off THEN Off ELSE Other(T))
        /\ o.slots = IF t.space = T
                     THEN {k \in 1 .. Count(h, Other(T)) : IsCopyOf(h, T, cs, t.slot, k)} ELSE {t.slot}
    BY DEF OriginalIn
  <1> HIDE DEF o
  <1>3. \A x : (CHOOSE k \in {x} : TRUE) = x
    OBVIOUS
  <1>4. CASE t.space = Off
    BY <1>1, <1>2, <1>3, <1>4 DEF Valued, Ren, ValueOf, o
  <1>5. CASE t.space = T
    <2> DEFINE m == NameIn(h, T)[t.slot]
    <2>1. t.slot \in 1 .. Count(h, T)
      BY <1>1, <1>5
    <2>2. /\ m \in 1 .. Count(h, Other(T))
          /\ \A k \in 1 .. Count(h, Other(T)) : IsCopyOf(h, T, cs, t.slot, k) <=> k = m
      BY <2>1, NamesOriginals
    <2> HIDE DEF m
    <2>3. o.slots = {m}
      BY <1>2, <1>5, <2>2
    <2> QED BY <1>1, <1>2, <1>3, <1>5, <2>3 DEF Valued, Ren, ValueOf, o, m
  <1> QED BY <1>4, <1>5

\* The cells then: each block of to_space, under the name of its original.
LEMMA EndCells ==
  ASSUME status = "collect", heap \in Heaps, toSpace \in Spaces, calls = <<>>,
         MovedOK(heap, toSpace, calls), OriginalsKnown(heap, toSpace, calls), Closed(heap, toSpace),
         NEW c \in 1 .. Count(heap, toSpace)
  PROVE  LET name == NameIn(heap, toSpace)
         IN  /\ name[c] \in DOMAIN Cells
             /\ Cells[name[c]] = [kind |-> Kind(heap, toSpace, c),
                                  kids |-> RenSeq(CellIn(heap, toSpace, c).kids, name)]
  <1> DEFINE T == toSpace
             F == Other(toSpace)
             name == NameIn(heap, toSpace)
             m == name[c]
             G == GraphIn(heap, T, calls)
             a == Arity(heap, T, c)
             x == ContentIn(heap, T, calls, T, c)
  <1>1. Graph = G /\ Count(heap, T) \in Nat
    BY GraphParts, HeapTyped
  <1>2. /\ m \in 1 .. Count(heap, F)
        /\ \A k \in 1 .. Count(heap, F) : IsCopyOf(heap, T, calls, c, k) <=> k = m
        /\ Fwd(heap, F, m) = c
    BY <1>1, NamesOriginals
  <1>3. CopiesIn(heap, T, calls, m) = {c}
    <2>1. \A d : IsCopyOf(heap, T, calls, d, m) <=> d \in 1 .. Count(heap, T) /\ Fwd(heap, F, m) = d
      BY DEF IsCopyOf, Depth
    <2> HIDE DEF m
    <2> QED BY <1>2, <2>1 DEF CopiesIn
  <1> HIDE DEF m
  <1>4. G[m] = {x}
    BY <1>2, <1>3 DEF GraphIn
  <1>5. DOMAIN G = 1 .. Count(heap, F)
    BY DEF GraphIn
  <1> HIDE DEF G, x
  <1>6. (CHOOSE y \in G[m] : TRUE) = x
    BY <1>4
  <1>7. m \in DOMAIN Cells /\ Cells[m] = Cell(x)
    BY <1>1, <1>2, <1>5, <1>6 DEF Cells
  <1>8. x.kind = Kind(heap, T, c) /\ x.kids = [n \in 1 .. a |-> OriginalIn(heap, T, calls, Kid(heap, T, c, n))]
    BY DEF x, ContentIn
  <1>9. ASSUME NEW n \in 1 .. a
        PROVE  Valued(OriginalIn(heap, T, calls, Kid(heap, T, c, n))) = Ren(ValueOf(Kid(heap, T, c, n)), name)
    <2>1. Kind(heap, T, c) \in Kinds \ {"TABLE"} /\ Whole(heap, T, c, T)
      BY DEF Closed
    <2>2. Suits(heap, Kind(heap, T, c), a, n, Kid(heap, T, c, n), T)
      BY <2>1 DEF Whole
    <2> DEFINE t == Kid(heap, T, c, n)
    <2>3. t.space = Off \/ (t.space = T /\ t.slot \in 1 .. Count(heap, T))
      BY <2>1, <2>2, SuitsTyped DEF RefersTo
    <2> HIDE DEF t
    <2>4. Valued(OriginalIn(heap, T, calls, t)) = Ren(ValueOf(t), name)
      BY <1>1, <2>3, EndValues
    <2> QED BY <2>4 DEF t
  <1> HIDE DEF a
  <1>10. CellIn(heap, T, c).kids = [n \in 1 .. a |-> ValueOf(Kid(heap, T, c, n))]
    BY DEF CellIn, a
  <1> HIDE DEF name
  <1>11. RenSeq(CellIn(heap, T, c).kids, name) = [n \in 1 .. a |-> Ren(ValueOf(Kid(heap, T, c, n)), name)]
    BY <1>10 DEF RenSeq
  <1>12. Cell(x) = [kind |-> Kind(heap, T, c), kids |-> [n \in 1 .. a |-> Ren(ValueOf(Kid(heap, T, c, n)), name)]]
    <2>1. DOMAIN x.kids = 1 .. a /\ \A n \in 1 .. a : Valued(x.kids[n]) = Ren(ValueOf(Kid(heap, T, c, n)), name)
      BY <1>8, <1>9
    <2>2. [n \in DOMAIN x.kids |-> Valued(x.kids[n])]
            = [n \in 1 .. a |-> Ren(ValueOf(Kid(heap, T, c, n)), name)]
      BY <2>1
    <2> QED BY <1>8, <2>2 DEF Cell
  <1> QED BY <1>7, <1>11, <1>12 DEF m, name

\* The frames then.
LEMMA EndFrames ==
  ASSUME status = "collect", heap \in Heaps, toSpace \in Spaces, calls = <<>>, currentFrame \in Nat,
         MovedOK(heap, toSpace, calls), OriginalsKnown(heap, toSpace, calls),
         NEW g, g[toSpace] = heap[toSpace], RegistersIn(g, toSpace, registers, currentFrame)
  PROVE  St = [i \in 1 .. currentFrame + 1 |->
                 [regs |-> [r \in Regs |-> Ren(ValueOf(registers[i - 1][r]), NameIn(heap, toSpace))],
                  ret  |-> frames[i - 1].ret]]
  <1>1. Roots = RootsIn(heap, toSpace, calls, registers, currentFrame) /\ Count(heap, toSpace) \in Nat
    BY GraphParts, HeapTyped
  <1>2. ASSUME NEW i \in 1 .. currentFrame + 1
        PROVE  [r \in Regs |-> Valued(Roots[i - 1][r])]
                 = [r \in Regs |-> Ren(ValueOf(registers[i - 1][r]), NameIn(heap, toSpace))]
    <2>1. i - 1 \in 0 .. currentFrame
      OBVIOUS
    <2>2. \A r \in Regs : Roots[i - 1][r] = OriginalIn(heap, toSpace, calls, registers[i - 1][r])
      BY <1>1, <2>1 DEF RootsIn, Reg
    <2>3. ASSUME NEW r \in Regs
          PROVE  Valued(OriginalIn(heap, toSpace, calls, registers[i - 1][r]))
                   = Ren(ValueOf(registers[i - 1][r]), NameIn(heap, toSpace))
      <3> DEFINE t == registers[i - 1][r]
      <3>1. ValueIn(g, t, toSpace)
        BY <2>1 DEF RegistersIn, Reg
      <3>2. t.space = Off \/ (t.space = toSpace /\ t.slot \in 1 .. Count(heap, toSpace))
        BY <3>1 DEF ValueIn, OffValue, RefersTo, Count
      <3> HIDE DEF t
      <3>3. Valued(OriginalIn(heap, toSpace, calls, t)) = Ren(ValueOf(t), NameIn(heap, toSpace))
        BY <1>1, <3>2, EndValues
      <3> QED BY <3>3 DEF t
    <2> QED BY <2>2, <2>3
  <1> QED BY <1>2 DEF St, FramesOf

\* n frames with registers A[i] and return registers R[i].
Tower(n, A, R) == [i \in 1 .. n |-> [regs |-> [r \in Regs |-> A[i][r]], ret |-> R[i]]]

SetLast(X, q, v) == [X EXCEPT ![Len(X)].regs[q] = v]

\* To set a register of the last frame.
LEMMA TowerSet ==
  ASSUME NEW n \in Nat, n > 0, NEW A, NEW B, NEW R, NEW q \in Regs, NEW v,
         \A i \in 1 .. n : \A r \in Regs : B[i][r] = IF i = n /\ r = q THEN v ELSE A[i][r]
  PROVE  Tower(n, B, R) = SetLast(Tower(n, A, R), q, v)
  <1> DEFINE X == Tower(n, A, R)
             Y == Tower(n, B, R)
             Z == [X EXCEPT ![n].regs[q] = v]
  <1>1. Len(X) = n
    BY DEF Tower
  <1>2. ASSUME NEW i \in 1 .. n
        PROVE  /\ X[i] = [regs |-> [r \in Regs |-> A[i][r]], ret |-> R[i]]
               /\ X[i].regs = [r \in Regs |-> A[i][r]] /\ X[i].ret = R[i]
               /\ Y[i] = [regs |-> [r \in Regs |-> B[i][r]], ret |-> R[i]]
    <2>1. /\ X[i] = [regs |-> [r \in Regs |-> A[i][r]], ret |-> R[i]]
          /\ Y[i] = [regs |-> [r \in Regs |-> B[i][r]], ret |-> R[i]]
      BY DEF Tower
    <2> HIDE DEF X, Y
    <2> QED BY <2>1
  <1>3. DOMAIN X = 1 .. n /\ DOMAIN Y = 1 .. n /\ Y = [i \in 1 .. n |-> Y[i]]
    BY DEF Tower
  <1> HIDE DEF X, Y
  <1>4. Z = [i \in 1 .. n |-> Z[i]]
    BY <1>3
  <1>5. ASSUME NEW i \in 1 .. n
        PROVE  Y[i] = Z[i]
    <2>1. CASE i # n
      <3>1. [r \in Regs |-> A[i][r]] = [r \in Regs |-> B[i][r]]
        BY <2>1
      <3>2. Z[i] = X[i]
        BY <1>3, <2>1
      <3> QED BY <1>2, <3>1, <3>2
    <2>2. CASE i = n
      <3>1. Z[n] = [X[n] EXCEPT !.regs[q] = v]
        BY <1>3, <2>2
      <3>5. n \in 1 .. n
        OBVIOUS
      <3>2. X[n].regs = [r \in Regs |-> A[n][r]] /\ X[n].ret = R[n]
            /\ X[n] = [regs |-> X[n].regs, ret |-> X[n].ret]
        BY <1>2, <3>5
      <3>3. [X[n].regs EXCEPT ![q] = v] = [r \in Regs |-> B[n][r]]
        BY <2>2, <3>2
      <3>4. Z[n] = [regs |-> [X[n].regs EXCEPT ![q] = v], ret |-> X[n].ret]
        <4> DEFINE x == X[n].regs
                   y == X[n].ret
        <4>1. X[n] = [regs |-> x, ret |-> y]
          BY <3>2
        <4> HIDE DEF x, y
        <4>2. [X[n] EXCEPT !.regs[q] = v] = [regs |-> [x EXCEPT ![q] = v], ret |-> y]
          BY <4>1
        <4> QED BY <3>1, <4>2 DEF x, y
      <3> QED BY <1>2, <2>2, <3>2, <3>3, <3>4
    <2> QED BY <2>1, <2>2
  <1>6. Y = Z
    BY <1>3, <1>4, <1>5
  <1> QED BY <1>1, <1>6 DEF X, Y, SetLast

\* The frames with their registers renamed.
FramesUnder(regs, name) ==
  [i \in 1 .. currentFrame + 1 |->
     [regs |-> [r \in Regs |-> Ren(ValueOf(regs[i - 1][r]), name)], ret |-> frames[i - 1].ret]]

\* A register set to a value that is not on the heap.
LEMMA UnderSet ==
  ASSUME currentFrame \in Frames, NEW regs \in [Frames -> [Regs -> Term]], NEW name, NEW q \in Regs, NEW t,
         t.space = Off
  PROVE  FramesUnder([regs EXCEPT ![currentFrame][q] = t], name)
           = SetLast(FramesUnder(regs, name), q, ValueOf(t))
  <1> DEFINE n == currentFrame + 1
             regs2 == [regs EXCEPT ![currentFrame][q] = t]
             A == [i \in 1 .. n |-> [r \in Regs |-> Ren(ValueOf(regs[i - 1][r]), name)]]
             B == [i \in 1 .. n |-> [r \in Regs |-> Ren(ValueOf(regs2[i - 1][r]), name)]]
             R == [i \in 1 .. n |-> frames[i - 1].ret]
             x == ValueOf(t)
  <1>1. n \in Nat /\ n > 0 /\ currentFrame \in Nat
    BY GcAssumption DEF Frames
  <1>2. FramesUnder(regs, name) = Tower(n, A, R) /\ FramesUnder(regs2, name) = Tower(n, B, R)
    BY DEF FramesUnder, Tower
  <1>3. Ren(ValueOf(t), name) = ValueOf(t)
    BY DEF Ren, ValueOf
  <1>4. ASSUME NEW i \in 1 .. n, NEW r \in Regs
        PROVE  B[i][r] = IF i = n /\ r = q THEN x ELSE A[i][r]
    <2>1. regs2[i - 1][r] = IF i - 1 = currentFrame /\ r = q THEN t ELSE regs[i - 1][r]
      BY <1>1, GcAssumption DEF Frames
    <2>2. i - 1 = currentFrame <=> i = n
      BY <1>1
    <2> QED BY <1>3, <2>1, <2>2
  <1> HIDE DEF A, B, R, n, x
  <1>5. Tower(n, B, R) = SetLast(Tower(n, A, R), q, x)
    BY <1>1, <1>4, TowerSet
  <1> QED BY <1>2, <1>5 DEF x

\* A value on the heap is the identity of an object.
LEMMA ValuesNamed ==
  ASSUME NEW h, NEW T, Closed(h, T), NEW v \in Values(h, T), v.on
  PROVE  v.id \in DOMAIN Objs(h, T)
  <1>1. PICK t : v = ValueOf(t) /\ ValueIn(h, t, T)
    BY DEF Values
  <1>2. t.space # Off /\ v.id = t.slot
    BY <1>1 DEF ValueOf
  <1> QED BY <1>1, <1>2, ValuesAreObjects

\* A sequence of values, renamed.
LEMMA RenSeqParts ==
  ASSUME NEW S, NEW q \in Seq(S), NEW name
  PROVE  /\ Len(RenSeq(q, name)) = Len(q) /\ DOMAIN q = 1 .. Len(q)
         /\ \A n \in 1 .. Len(q) : RenSeq(q, name)[n] = Ren(q[n], name) /\ q[n] \in S
  <1> DEFINE X == {Ren(v, name) : v \in S}
             n == Len(q)
  <1>1. n \in Nat /\ DOMAIN q = 1 .. n /\ \A i \in 1 .. n : q[i] \in S
    OBVIOUS
  <1>2. RenSeq(q, name) = [i \in 1 .. n |-> Ren(q[i], name)]
    BY <1>1 DEF RenSeq
  <1> HIDE DEF n
  <1>3. RenSeq(q, name) \in [1 .. n -> X]
    BY <1>1, <1>2
  <1> HIDE DEF X
  <1>4. RenSeq(q, name) \in Seq(X) /\ Len(RenSeq(q, name)) = n
    BY <1>1, <1>3, FunctionSeq
  <1> QED BY <1>1, <1>2, <1>4 DEF X, n

\* Renaming is that of OwlObjects, for the identities in use.
LEMMA RenamedValue ==
  ASSUME NEW h, NEW T, Closed(h, T), TextsFit, NEW name, NEW rname,
         \A k \in DOMAIN Objs(h, T) : rname[k] = name[k],
         NEW v \in Values(h, T)
  PROVE  Objects!Renamed(v, rname) = Ren(v, name)
  BY ValuesNamed DEF Objects!Renamed, Objects!To, Ren

\* An object, renamed.
LEMMA RenamedIsRen ==
  ASSUME NEW h, NEW T, Closed(h, T), TextsFit, NEW name, NEW rname,
         \A k \in DOMAIN Objs(h, T) : rname[k] = name[k],
         NEW k \in DOMAIN Objs(h, T)
  PROVE  Objects!RenamedObject(Objs(h, T)[k], rname)
           = [kind |-> Objs(h, T)[k].kind, kids |-> RenSeq(Objs(h, T)[k].kids, name)]
  <1>1. \A v \in Values(h, T) : Objects!Renamed(v, rname) = Ren(v, name)
    BY RenamedValue
  <1>2. Objects!RenamedObject(Objs(h, T)[k], rname)
          = [kind |-> Objs(h, T)[k].kind, kids |-> RenSeq(Objs(h, T)[k].kids, name)]
    <2> DEFINE o == Objs(h, T)[k]
               x == o.kind
               q == o.kids
    <2>1. o = [kind |-> x, kids |-> q] /\ q \in Seq(Values(h, T))
      BY ObjectParts
    <2>2. \A n \in DOMAIN q : q[n] \in Values(h, T)
      BY <2>1
    <2> HIDE DEF x, q
    <2>3. [n \in DOMAIN q |-> Objects!Renamed(q[n], rname)] = RenSeq(q, name)
      BY <1>1, <2>2 DEF RenSeq
    <2> DEFINE y == [n \in DOMAIN q |-> Objects!Renamed(q[n], rname)]
    <2>4. o.kids = q
      BY DEF q
    <2> HIDE DEF o
    <2>5. Objects!RenamedObject(o, rname) = [o EXCEPT !.kids = y]
      BY <2>4 DEF Objects!RenamedObject
    <2> HIDE DEF y
    <2>6. [o EXCEPT !.kids = y] = [kind |-> x, kids |-> y]
      BY <2>1
    <2> QED BY <2>3, <2>5, <2>6 DEF o, x, q, y
  <1> QED BY <1>2

FramesRenamed(X, name) == [i \in 1 .. Len(X) |-> Objects!RenamedFrame(X[i], name)]

\* The registers, renamed, are those of the frames renamed.
LEMMA RenamedFrames ==
  ASSUME NEW h, NEW T, Closed(h, T), TextsFit, NEW name, NEW rname,
         \A k \in DOMAIN Objs(h, T) : rname[k] = name[k],
         currentFrame \in Nat, NEW regs, RegistersIn(h, T, regs, currentFrame),
         NEW X, X = FramesIn(regs, frames, currentFrame)
  PROVE  FramesRenamed(X, rname) = FramesUnder(regs, name)
  <1> DEFINE n == currentFrame + 1
  <1>1. Len(X) = n
    BY DEF FramesIn
  <1>4. \A v \in Values(h, T) : Objects!Renamed(v, rname) = Ren(v, name)
    BY RenamedValue
  <1>2. ASSUME NEW i \in 1 .. n
        PROVE  Objects!RenamedFrame(X[i], rname)
                 = [regs |-> [r \in Regs |-> Ren(ValueOf(regs[i - 1][r]), name)], ret |-> frames[i - 1].ret]
    <2> DEFINE f == [r \in Regs |-> ValueOf(regs[i - 1][r])]
               l == frames[i - 1].ret
    <2>1. X[i] = [regs |-> f, ret |-> l]
      BY DEF FramesIn
    <2>2. \A r \in Regs : f[r] \in Values(h, T)
      <3>1. i - 1 \in 0 .. currentFrame
        OBVIOUS
      <3>2. \A r \in Regs : ValueIn(h, regs[i - 1][r], T)
        BY <3>1 DEF RegistersIn, Reg
      <3>3. \A t : ValueIn(h, t, T) => t \in Term
        BY DEF ValueIn, OffValue, RefersTo
      <3> QED BY <3>2, <3>3 DEF Values
    <2>3. \A r \in Regs : f[r] = ValueOf(regs[i - 1][r])
      OBVIOUS
    <2> HIDE DEF f, l
    <2>4. \A r \in Regs : Objects!Renamed(f[r], rname) = Ren(ValueOf(regs[i - 1][r]), name)
      BY <1>4, <2>2, <2>3
    <2>5. Objects!RenamedFrame(X[i], rname) = [regs |-> [r \in Regs |-> Objects!Renamed(f[r], rname)], ret |-> l]
      BY <2>1 DEF Objects!RenamedFrame
    <2>6. [r \in Regs |-> Objects!Renamed(f[r], rname)] = [r \in Regs |-> Ren(ValueOf(regs[i - 1][r]), name)]
      BY <2>4
    <2> QED BY <2>5, <2>6 DEF l
  <1> QED BY <1>1, <1>2 DEF FramesUnder, FramesRenamed

\* When no call is in progress to_space is closed.
LEMMA EndClosed ==
  ASSUME CollectInv, calls = <<>>
  PROVE  Closed(heap, toSpace)
  <1>1. heap \in Heaps /\ toSpace \in Spaces /\ BlocksOK(heap) /\ BlackOK(heap, toSpace, calls)
    BY CollectorFacts
  <1>2. \A k : ~CopyAt(calls, k)
    BY DEF CopyAt, Depth
  <1> SUFFICES ASSUME NEW k \in 1 .. Count(heap, toSpace)
               PROVE  /\ Kind(heap, toSpace, k) \in Kinds \ {"TABLE"}
                      /\ Arity(heap, toSpace, k) \in Nat
                      /\ Kind(heap, toSpace, k) = "RRB" => Arity(heap, toSpace, k) = 2
                      /\ Kind(heap, toSpace, k) = "INTERNAL" => Arity(heap, toSpace, k) = 3
                      /\ Whole(heap, toSpace, k, toSpace)
    BY <1>1 DEF Closed
  <1>3. Kind(heap, toSpace, k) \in Kinds /\ Arity(heap, toSpace, k) \in Nat
    BY <1>1, HeapTyped
  <1>4. BlockOK(Kind(heap, toSpace, k), Arity(heap, toSpace, k), Chars(heap, toSpace, k), Size(heap, toSpace, k))
    BY <1>1 DEF BlocksOK
  <1>5. Whole(heap, toSpace, k, toSpace)
    BY <1>1, <1>2 DEF BlackOK
  <1> QED BY <1>3, <1>4, <1>5 DEF BlockOK

\* At the end of a collection: the copies, and the originals they are seen as.
LEMMA EndView ==
  ASSUME Sound, CopiesInv, NEW next, EndCollect(next), next # "collect"
  PROVE  LET T == toSpace
             name == NameIn(heap, toSpace)
             O == Objs(heap', toSpace)
         IN  /\ Closed(heap', T) /\ TextsFit /\ currentFrame \in Frames
             /\ registers \in [Frames -> [Regs -> Term]] /\ RegistersIn(heap', T, registers, currentFrame)
             /\ Count(heap', T) = Count(heap, T)
             /\ \A k \in 1 .. Count(heap, T) :
                  /\ \A l \in 1 .. Count(heap, T) : name[k] = name[l] => k = l
                  /\ name[k] \in DOMAIN Cells
                  /\ Cells[name[k]] = [kind |-> Kind(heap', T, k), kids |-> RenSeq(CellIn(heap', T, k).kids, name)]
                  /\ \/ \E i \in 0 .. currentFrame, j \in Regs : /\ Reg(registers, i, j).space = T
                                                                 /\ Reg(registers, i, j).slot = k
                     \/ \E l \in 1 .. Count(heap', T) : RefersToCopy(heap', T, l, T, k)
             /\ St = FramesUnder(registers, name)
             /\ DOMAIN O \subseteq 1 .. Count(heap, T)
             /\ Os' = O /\ St' = FramesIn(registers', frames', currentFrame)
             /\ Rn = ValueOf(Null) /\ Mk = NoList
             /\ ~fresh /\ status = "collect"
  <1> DEFINE T == toSpace
             name == NameIn(heap, toSpace)
  <1>1. /\ FrameInv /\ HeapInv /\ TextsFit /\ status = "collect" /\ calls = <<>> /\ status' = next
        /\ heap' = [heap EXCEPT ![FromSpace] = <<>>] /\ toSpace' = toSpace /\ currentFrame' = currentFrame
    BY DEF Sound, EndCollect
  <1>2. /\ ~fresh /\ CollectInv /\ OriginalsKnown(heap, toSpace, calls)
        /\ \E rank : Resting(heap', toSpace, allocPtr', rank)
        /\ registers \in [Frames -> [Regs -> Term]] /\ currentFrame \in Frames
        /\ RegistersIn(heap', toSpace, registers, currentFrame)
    BY <1>1, EndCollectFacts DEF HeapInv, CopiesInv
  <1>3. /\ heap \in Heaps /\ toSpace \in Spaces /\ MovedOK(heap, toSpace, calls)
        /\ AllReached(heap, toSpace, calls, registers, currentFrame)
    BY <1>2, CollectorFacts
  <1>4. Closed(heap', toSpace)
    BY <1>2, RestingCloses
  <1>5. heap'[toSpace] = heap[toSpace]
    BY <1>1, <1>3, OtherSpace DEF FromSpace, Other, Heaps
  <1>6. /\ Count(heap', T) = Count(heap, T)
        /\ \A k : /\ Kind(heap', T, k) = Kind(heap, T, k) /\ Arity(heap', T, k) = Arity(heap, T, k)
                  /\ \A n : Kid(heap', T, k, n) = Kid(heap, T, k, n)
    BY <1>5 DEF Count, Kind, Arity, Kid
  <1>7. ASSUME NEW k
        PROVE  CellIn(heap', T, k) = CellIn(heap, T, k)
    <2> DEFINE a == Arity(heap, T, k)
    <2>1. Arity(heap', T, k) = a /\ Kind(heap', T, k) = Kind(heap, T, k)
          /\ \A n : Kid(heap', T, k, n) = Kid(heap, T, k, n)
      BY <1>6
    <2> HIDE DEF a
    <2>2. [n \in 1 .. a |-> ValueOf(Kid(heap', T, k, n))] = [n \in 1 .. a |-> ValueOf(Kid(heap, T, k, n))]
      BY <2>1
    <2> QED BY <2>1, <2>2 DEF CellIn, a
  <1>8. Closed(heap, toSpace)
    BY <1>1, <1>2, EndClosed
  <1>9. Count(heap, toSpace) \in Nat
    BY <1>3, HeapTyped
  <1>10. \A k, l \in 1 .. Count(heap, T) : name[k] = name[l] => k = l
    BY <1>1, <1>2, <1>3, <1>9, NamesOriginals
  <1>11. \A k \in 1 .. Count(heap, T) :
           /\ name[k] \in DOMAIN Cells
           /\ Cells[name[k]] = [kind |-> Kind(heap', T, k), kids |-> RenSeq(CellIn(heap', T, k).kids, name)]
    BY <1>1, <1>2, <1>3, <1>6, <1>7, <1>8, EndCells
  <1>12. ASSUME NEW k \in 1 .. Count(heap, T)
         PROVE  \/ \E i \in 0 .. currentFrame, j \in Regs : /\ Reg(registers, i, j).space = T
                                                            /\ Reg(registers, i, j).slot = k
                \/ \E l \in 1 .. Count(heap', T) : RefersToCopy(heap', T, l, T, k)
    <2>1. Depth(calls) = 0
      BY <1>1 DEF Depth
    <2>2. \A i : i \notin 1 .. Depth(calls)
      BY <2>1
    <2>3. ~CopyAt(calls, k)
      BY <2>2 DEF CopyAt
    <2>4. Reached(heap, T, calls, registers, currentFrame, k)
      BY <1>3 DEF AllReached
    <2>5. \A l : RefersToCopy(heap', T, l, T, k) <=> RefersToCopy(heap, T, l, T, k)
      BY <1>6 DEF RefersToCopy
    <2> QED BY <1>6, <2>2, <2>3, <2>4, <2>5 DEF Reached
  <1>13. St = FramesUnder(registers, name)
    <2>1. currentFrame \in Nat
      BY <1>2, GcAssumption DEF Frames
    <2> QED BY <1>1, <1>2, <1>3, <1>5, <2>1, EndFrames DEF FramesUnder
  <1>14. DOMAIN Objs(heap', toSpace) \subseteq 1 .. Count(heap, T)
    BY <1>6, ObjectDomain
  <1>15. Os' = Objs(heap', toSpace) /\ St' = FramesIn(registers', frames', currentFrame)
    <2>1. (FrameInv /\ HeapInv /\ status # "collect" => RestingView)'
      BY <1>1, RestingStateNext
    <2>2. RestingView'
      BY <1>1, <2>1 DEF Sound
    <2> QED BY <1>1, <2>2 DEF RestingView
  <1>16. Rn = ValueOf(Null) /\ Mk = NoList
    BY <1>1, CollectingState
  <1> HIDE DEF name
  <1> QED BY <1>1, <1>2, <1>4, <1>6, <1>10, <1>11, <1>12, <1>13, <1>14, <1>15, <1>16 DEF name

\* What is kept is referred to, under the names it had.
LEMMA EndReached ==
  ASSUME Sound, CopiesInv, NEW next, EndCollect(next), next # "collect",
         NEW k \in DOMAIN Objs(heap', toSpace)
  PROVE  LET name == NameIn(heap, toSpace)
             O == Objs(heap', toSpace)
         IN  \/ \E i \in 1 .. Len(St) : Objects!Refers({St[i].regs[r] : r \in Regs}, name[k])
             \/ \E l \in DOMAIN O : Objects!Refers(Objects!Elems(RenSeq(O[l].kids, name)), name[k])
  <1> DEFINE T == toSpace
             name == NameIn(heap, toSpace)
             O == Objs(heap', toSpace)
             g == heap'
  <1>1. /\ Closed(g, T) /\ TextsFit /\ currentFrame \in Frames
        /\ RegistersIn(g, T, registers, currentFrame)
        /\ Count(g, T) = Count(heap, T)
        /\ \A c \in 1 .. Count(heap, T) :
             \/ \E i \in 0 .. currentFrame, j \in Regs : /\ Reg(registers, i, j).space = T
                                                         /\ Reg(registers, i, j).slot = c
             \/ \E l \in 1 .. Count(g, T) : RefersToCopy(g, T, l, T, c)
        /\ St = FramesUnder(registers, name)
    BY EndView
  <1> HIDE DEF name
  <1>2. \/ \E i \in 0 .. currentFrame, j \in Regs : Reg(registers, i, j).space = T /\ Reg(registers, i, j).slot = k
        \/ \E l \in DOMAIN O : \E v : Has(O[l].kids, v) /\ v.on /\ v.id = k
    <2> DEFINE x == currentFrame
               regs == registers
    <2>1. /\ Closed(g, T) /\ TextsFit /\ RegistersIn(g, T, regs, x)
          /\ \A c \in 1 .. Count(g, T) :
               \/ \E i \in 0 .. x, j \in Regs : Reg(regs, i, j).space = T /\ Reg(regs, i, j).slot = c
               \/ \E l \in 1 .. Count(g, T) : RefersToCopy(g, T, l, T, c)
          /\ k \in DOMAIN Objs(g, T)
      BY <1>1
    <2> HIDE DEF g, x, regs, T
    <2>2. \/ \E i \in 0 .. x, j \in Regs : Reg(regs, i, j).space = T /\ Reg(regs, i, j).slot = k
          \/ \E l \in DOMAIN Objs(g, T) : \E v : Has(Objs(g, T)[l].kids, v) /\ v.on /\ v.id = k
      BY <2>1, ReachedObjects
    <2> QED BY <2>2 DEF g, x, regs, T
  <1>3. currentFrame \in Nat /\ T # Off
    <2>1. currentFrame \in Nat
      BY <1>1, GcAssumption DEF Frames
    <2>2. T \in Spaces
      BY <1>1 DEF Closed
    <2> QED BY <2>1, <2>2, OtherSpace
  <1>4. Len(St) = currentFrame + 1
    BY <1>1, <1>3 DEF FramesUnder
  <1>5. ASSUME NEW i \in 0 .. currentFrame, NEW j \in Regs,
               Reg(registers, i, j).space = T, Reg(registers, i, j).slot = k
        PROVE  \E m \in 1 .. Len(St) : Objects!Refers({St[m].regs[r] : r \in Regs}, name[k])
    <2> DEFINE v == St[i + 1].regs[j]
    <2>1. i + 1 \in 1 .. Len(St) /\ (i + 1) - 1 = i
      BY <1>3, <1>4
    <2>2. v = Ren(ValueOf(registers[i][j]), name)
      BY <1>1, <1>4, <2>1 DEF FramesUnder
    <2>3. v.on /\ v.id = name[k]
      <3> DEFINE t == registers[i][j]
      <3>1. t.space # Off /\ t.slot = k /\ v = Ren(ValueOf(t), name)
        BY <1>3, <1>5, <2>2 DEF Reg
      <3> HIDE DEF t, v
      <3>2. ValueOf(t).on /\ ValueOf(t).id = k
        BY <3>1 DEF ValueOf
      <3> QED BY <3>1, <3>2 DEF Ren
    <2>4. v \in {St[i + 1].regs[r] : r \in Regs}
      OBVIOUS
    <2> HIDE DEF v
    <2>5. Objects!Refers({St[i + 1].regs[r] : r \in Regs}, name[k])
      BY <2>3, <2>4 DEF Objects!Refers
    <2> QED BY <2>1, <2>5
  <1>6. ASSUME NEW l \in DOMAIN O, NEW v, Has(O[l].kids, v), v.on, v.id = k
        PROVE  Objects!Refers(Objects!Elems(RenSeq(O[l].kids, name)), name[k])
    <2> DEFINE q == O[l].kids
               p == RenSeq(q, name)
    <2>1. q \in Seq(Values(heap', toSpace))
      BY <1>1, ObjectParts
    <2>3. PICK n \in DOMAIN q : q[n] = v
      BY <1>6 DEF Has
    <2> DEFINE S == Values(heap', toSpace)
    <2> HIDE DEF q, S
    <2>2. Len(p) = Len(q) /\ DOMAIN q = 1 .. Len(q) /\ \A m \in 1 .. Len(q) : p[m] = Ren(q[m], name)
      <3>1. q \in Seq(S)
        BY <2>1 DEF S
      <3> QED BY <3>1, RenSeqParts
    <2> HIDE DEF p
    <2>4. n \in 1 .. Len(p) /\ p[n].on /\ p[n].id = name[k]
      <3>1. n \in 1 .. Len(p) /\ p[n] = Ren(v, name)
        BY <2>2, <2>3
      <3> QED BY <1>6, <3>1 DEF Ren
    <2>5. Objects!Refers(Objects!Elems(p), name[k])
      BY <2>4 DEF Objects!Refers, Objects!Elems
    <2> QED BY <2>5 DEF p, q
  <1>7. CASE \E i \in 0 .. currentFrame, j \in Regs : Reg(registers, i, j).space = T /\ Reg(registers, i, j).slot = k
    BY <1>5, <1>7 DEF name
  <1>8. CASE \E l \in DOMAIN O : \E v : Has(O[l].kids, v) /\ v.on /\ v.id = k
    BY <1>6, <1>8 DEF name
  <1> QED BY <1>2, <1>7, <1>8

\* copy_refs of the registers is done, and gc_collect returns to one of its callers.
LEMMA EndCollectStep ==
  ASSUME Sound, CopiesInv, AfterCollect \/ AfterSafepoint
  PROVE  Implemented
  <1> DEFINE T == toSpace
             name == NameIn(heap, toSpace)
             O == Objs(heap', toSpace)
             rname == [k \in DOMAIN Os' |-> name[k]]
  <1>1. PICK next \in {"run", "load"} :
          /\ EndCollect(next)
          /\ \/ UNCHANGED registers
             \/ \E r \in Regs : registers' = [registers EXCEPT ![currentFrame][r] = Immediate(0)]
          /\ UNCHANGED <<frames, fresh>>
          /\ status' = next
    <2>1. CASE AfterSafepoint
      BY <2>1 DEF AfterSafepoint, vmVars, EndCollect
    <2>2. CASE AfterCollect
      <3>1. EndCollect("run") /\ UNCHANGED <<frames, fresh>> /\ status' = "run" /\ status = "collect" /\ pending.op = "gc_collect"
        BY <2>2 DEF AfterCollect, EndCollect
      <3>2. VmTypeOK /\ CollectInv /\ TextsFit
        BY <3>1 DEF Sound, HeapInv
      <3>3. pending.ret \in Regs
        BY <3>2 DEF VmTypeOK, Pending
      <3>4. allocPtr <= pending.before
        BY <3>1, <3>2, CollectorFacts DEF Limit
      <3>5. registers' = [registers EXCEPT ![currentFrame][pending.ret] = Immediate(0)]
        BY <2>2, <3>4 DEF AfterCollect, set_reg
      <3> QED BY <3>1, <3>3, <3>5
    <2> QED BY <2>1, <2>2
  <1>2. EndCollect(next) /\ next # "collect" /\ currentFrame' = currentFrame
    BY <1>1 DEF EndCollect
  <1>3. /\ Closed(heap', T) /\ TextsFit /\ currentFrame \in Frames
        /\ registers \in [Frames -> [Regs -> Term]] /\ RegistersIn(heap', T, registers, currentFrame)
        /\ Count(heap', T) = Count(heap, T)
        /\ St = FramesUnder(registers, name)
        /\ DOMAIN O \subseteq 1 .. Count(heap, T)
        /\ Os' = O /\ St' = FramesIn(registers', frames, currentFrame)
        /\ Rn = ValueOf(Null) /\ Mk = NoList
        /\ ~fresh /\ status = "collect"
    BY <1>1, <1>2, EndView
  <1>4. \A k \in 1 .. Count(heap, T) :
          /\ \A l \in 1 .. Count(heap, T) : name[k] = name[l] => k = l
          /\ name[k] \in DOMAIN Cells
          /\ Cells[name[k]] = [kind |-> Kind(heap', T, k), kids |-> RenSeq(CellIn(heap', T, k).kids, name)]
    BY <1>2, EndView
  <1>5. \A k \in DOMAIN O :
          \/ \E i \in 1 .. Len(St) : Objects!Refers({St[i].regs[r] : r \in Regs}, name[k])
          \/ \E l \in DOMAIN O : Objects!Refers(Objects!Elems(RenSeq(O[l].kids, name)), name[k])
    BY <1>2, EndReached
  <1>6. /\ (FrameInv /\ HeapInv /\ status # "collect" => RestingView)'
        /\ FrameInv' /\ HeapInv'
    BY <1>3, RestingStateNext DEF Sound
  <1>7. Rn' = ValueOf(Null) /\ Mk' = NoList
    BY <1>1, <1>3, <1>6 DEF RestingView
  <1>8. RegistersIn(heap', T, registers', currentFrame)
    BY <1>1, <1>2, <1>6 DEF RestingView, Mutating, EndCollect
  <1> HIDE DEF name
  <1>9. \A k \in DOMAIN O : rname[k] = name[k] /\ DOMAIN O = DOMAIN Os'
    BY <1>3
  <1>10. ASSUME NEW k \in DOMAIN O
         PROVE  /\ name[k] \in DOMAIN Os
                /\ Os[name[k]] = [kind |-> O[k].kind, kids |-> RenSeq(O[k].kids, name)]
    <2> DEFINE g == heap'
               D == Cells
    <2>1. Closed(g, T) /\ TextsFit /\ k \in DOMAIN Objs(g, T)
          /\ \A c \in 1 .. Count(g, T) :
               /\ name[c] \in DOMAIN D
               /\ D[name[c]] = [kind |-> Kind(g, T, c), kids |-> RenSeq(CellIn(g, T, c).kids, name)]
      BY <1>3, <1>4 DEF name
    <2> HIDE DEF g, D, T
    <2>2. /\ name[k] \in DOMAIN ObjectsOf(D)
          /\ ObjectsOf(D)[name[k]] = [kind |-> Objs(g, T)[k].kind, kids |-> RenSeq(Objs(g, T)[k].kids, name)]
      BY <2>1, RenamedObjects
    <2> QED BY <2>2 DEF g, D, T, Os
  <1>11. rname \in [DOMAIN Os' -> DOMAIN Os]
    BY <1>3, <1>10
  <1>12. \A k, l \in DOMAIN Os' : rname[k] = rname[l] => k = l
    BY <1>3, <1>4, <1>9 DEF name
  <1>13. \A k \in DOMAIN O : rname[k] = name[k]
    BY <1>9
  <1> HIDE DEF rname
  <1>14. \A k \in DOMAIN Os' : Objects!RenamedObject(Os'[k], rname) = Os[rname[k]]
    <2>1. ASSUME NEW k \in DOMAIN O
          PROVE  Objects!RenamedObject(O[k], rname) = [kind |-> O[k].kind, kids |-> RenSeq(O[k].kids, name)]
      <3> DEFINE g == heap'
      <3>1. Closed(g, T) /\ TextsFit /\ k \in DOMAIN Objs(g, T) /\ \A l \in DOMAIN Objs(g, T) : rname[l] = name[l]
        BY <1>3, <1>13
      <3> HIDE DEF g, T
      <3>2. Objects!RenamedObject(Objs(g, T)[k], rname)
             = [kind |-> Objs(g, T)[k].kind, kids |-> RenSeq(Objs(g, T)[k].kids, name)]
        BY <3>1, RenamedIsRen
      <3> QED BY <3>2 DEF g, T
    <2> QED BY <1>3, <1>10, <1>13, <2>1
  <1>15. \A k \in DOMAIN Os' :
           \/ \E i \in 1 .. Len(St) : Objects!Refers({St[i].regs[r] : r \in Regs}, rname[k])
           \/ \E l \in DOMAIN Os' : Objects!Refers(Objects!Elems(Os[rname[l]].kids), rname[k])
    <2> SUFFICES ASSUME NEW k \in DOMAIN O
                 PROVE  \/ \E i \in 1 .. Len(St) : Objects!Refers({St[i].regs[r] : r \in Regs}, name[k])
                        \/ \E l \in DOMAIN O : Objects!Refers(Objects!Elems(Os[rname[l]].kids), name[k])
      BY <1>3, <1>13
    <2>1. ASSUME NEW l \in DOMAIN O
          PROVE  Os[rname[l]].kids = RenSeq(O[l].kids, name)
      <3> DEFINE x == O[l].kind
                 y == RenSeq(O[l].kids, name)
      <3>1. Os[name[l]] = [kind |-> x, kids |-> y] /\ rname[l] = name[l]
        BY <1>10, <1>13
      <3> HIDE DEF x, y
      <3>2. Os[rname[l]].kids = y
        BY <3>1
      <3> QED BY <3>2 DEF y
    <2> HIDE DEF O
    <2> QED BY <1>5, <2>1 DEF name, O
  <1> DEFINE renamed == [i \in 1 .. Len(St') |-> Objects!RenamedFrame(St'[i], rname)]
  <1>16. renamed = FramesUnder(registers', name)
    <2> DEFINE g == heap'
               regs == registers'
    <2>1. /\ Closed(g, T) /\ TextsFit /\ currentFrame \in Nat /\ RegistersIn(g, T, regs, currentFrame)
          /\ \A l \in DOMAIN Objs(g, T) : rname[l] = name[l]
      BY <1>3, <1>8, <1>13, GcAssumption DEF Frames
    <2>2. St' = FramesIn(regs, frames, currentFrame)
      BY <1>3
    <2> HIDE DEF g, regs, T
    <2> DEFINE X == St'
    <2>3. X = FramesIn(regs, frames, currentFrame)
      BY <2>2
    <2> HIDE DEF X
    <2>4. FramesRenamed(X, rname) = FramesUnder(regs, name)
      BY <2>1, <2>3, RenamedFrames
    <2> QED BY <2>4 DEF regs, X, FramesRenamed
  <1>17. \/ renamed = St
         \/ \E r \in Regs : renamed = [St EXCEPT ![Len(St)].regs[r] = Objects!Plain("INT", 0)]
    <2>1. CASE registers' = registers
      BY <1>3, <1>16, <2>1 DEF name
    <2>2. CASE \E r \in Regs : registers' = [registers EXCEPT ![currentFrame][r] = Immediate(0)]
      <3>1. PICK r \in Regs : registers' = [registers EXCEPT ![currentFrame][r] = Immediate(0)]
        BY <2>2
      <3>2. Immediate(0).space = Off /\ ValueOf(Immediate(0)) = Objects!Plain("INT", 0)
        BY DEF Immediate, ValueOf, Objects!Plain
      <3> DEFINE t == Immediate(0)
                 regs == [registers EXCEPT ![currentFrame][r] = t]
      <3>3. FramesUnder(regs, name) = SetLast(FramesUnder(registers, name), r, ValueOf(t))
        <4> HIDE DEF t
        <4> QED BY <1>3, <3>2, UnderSet DEF t
      <3>4. renamed = SetLast(St, r, Objects!Plain("INT", 0))
        BY <1>3, <1>16, <3>1, <3>2, <3>3 DEF name
      <3> HIDE DEF renamed
      <3> QED BY <3>4 DEF SetLast
    <2> QED BY <1>1, <2>1, <2>2
  <1>18. Ph = "collecting" /\ Ph' = "running"
    BY <1>1, <1>3 DEF Ph
  <1>19. Objects!EndCollect
    <2>1. /\ Ph = "collecting" /\ Ph' = "running"
          /\ \E nm \in [DOMAIN Os' -> DOMAIN Os] :
               /\ \A k, l \in DOMAIN Os' : nm[k] = nm[l] => k = l
               /\ \A k \in DOMAIN Os' : Objects!RenamedObject(Os'[k], nm) = Os[nm[k]]
               /\ \A k \in DOMAIN Os' :
                    \/ \E i \in 1 .. Len(St) : Objects!Refers({St[i].regs[r] : r \in Regs}, nm[k])
                    \/ \E l \in DOMAIN Os' : Objects!Refers(Objects!Elems(Os[nm[l]].kids), nm[k])
               /\ LET rnmd == [i \in 1 .. Len(St') |-> Objects!RenamedFrame(St'[i], nm)]
                  IN  \/ rnmd = St
                      \/ \E r \in Regs : rnmd = [St EXCEPT ![Len(St)].regs[r] = Objects!Plain("INT", 0)]
          /\ UNCHANGED <<Rn, Mk>>
      <3> HIDE DEF O
      <3>1. UNCHANGED <<Rn, Mk>>
        BY <1>3, <1>7
      <3> QED BY <1>11, <1>12, <1>14, <1>15, <1>17, <1>18, <3>1
    <2> QED BY <2>1 DEF Objects!EndCollect, Os, St, Rn, Mk, Ph
  <1> QED BY <1>19 DEF Implemented, Objects!Next

-----------------------------------------------------------------------------
(* The registers of the running function *)

\* The frame on top.
LEMMA TopFrame ==
  ASSUME RestingView, currentFrame \in Nat
  PROVE  /\ Len(St) = currentFrame + 1
         /\ St[Len(St)] = [regs |-> [r \in Regs |-> ValueOf(registers[currentFrame][r])],
                           ret  |-> frames[currentFrame].ret]
         /\ \A i \in 1 .. Len(St) :
              St[i] = [regs |-> [r \in Regs |-> ValueOf(registers[i - 1][r])], ret |-> frames[i - 1].ret]
  <1>1. St = FramesIn(registers, frames, currentFrame)
    BY DEF RestingView
  <1>2. Len(St) = currentFrame + 1
    BY <1>1 DEF FramesIn
  <1>3. \A i \in 1 .. currentFrame + 1 :
          St[i] = [regs |-> [r \in Regs |-> ValueOf(registers[i - 1][r])], ret |-> frames[i - 1].ret]
    BY <1>1 DEF FramesIn
  <1>4. currentFrame + 1 \in 1 .. currentFrame + 1 /\ currentFrame + 1 - 1 = currentFrame
    OBVIOUS
  <1> QED BY <1>2, <1>3, <1>4

\* What a register of it has is at hand.
LEMMA RegisterHeld ==
  ASSUME RestingView, currentFrame \in Nat, NEW r \in Regs
  PROVE  ValueOf(registers[currentFrame][r]) \in Objects!Held
  <1>1. St[Len(St)].regs[r] = ValueOf(registers[currentFrame][r])
    BY TopFrame
  <1> QED BY <1>1 DEF Objects!Held, Objects!Frame, St

\* A register of it is set.
LEMMA FrameSet ==
  ASSUME NEW regs \in [Frames -> [Regs -> Term]], currentFrame \in Frames, NEW q \in Regs, NEW t
  PROVE  FramesIn([regs EXCEPT ![currentFrame][q] = t], frames, currentFrame)
           = SetLast(FramesIn(regs, frames, currentFrame), q, ValueOf(t))
  <1> DEFINE n == currentFrame + 1
             regs2 == [regs EXCEPT ![currentFrame][q] = t]
             A == [i \in 1 .. n |-> [r \in Regs |-> ValueOf(regs[i - 1][r])]]
             B == [i \in 1 .. n |-> [r \in Regs |-> ValueOf(regs2[i - 1][r])]]
             R == [i \in 1 .. n |-> frames[i - 1].ret]
             x == ValueOf(t)
  <1>1. n \in Nat /\ n > 0 /\ currentFrame \in Nat
    BY GcAssumption DEF Frames
  <1>2. FramesIn(regs, frames, currentFrame) = Tower(n, A, R)
        /\ FramesIn(regs2, frames, currentFrame) = Tower(n, B, R)
    BY DEF FramesIn, Tower
  <1>4. ASSUME NEW i \in 1 .. n, NEW r \in Regs
        PROVE  B[i][r] = IF i = n /\ r = q THEN x ELSE A[i][r]
    <2>1. regs2[i - 1][r] = IF i - 1 = currentFrame /\ r = q THEN t ELSE regs[i - 1][r]
      BY <1>1, GcAssumption DEF Frames
    <2>2. i - 1 = currentFrame <=> i = n
      BY <1>1
    <2> QED BY <2>1, <2>2
  <1> HIDE DEF A, B, R, n, x
  <1>5. Tower(n, B, R) = SetLast(Tower(n, A, R), q, x)
    BY <1>1, <1>4, TowerSet
  <1> QED BY <1>2, <1>5 DEF x

\* An opcode sets a register.
LEMMA SetSeen ==
  ASSUME RestingView, RestingView', registers \in [Frames -> [Regs -> Term]],
         currentFrame \in Frames, UNCHANGED <<frames, currentFrame>>, NEW q \in Regs, NEW t, set_reg(q, t)
  PROVE  /\ Objects!Sets(q, ValueOf(t))
         /\ Len(St') = Len(St)
         /\ St'[Len(St)].regs[q] = ValueOf(t)
  <1>1. currentFrame \in Nat
    BY GcAssumption DEF Frames
  <1>2. registers' = [registers EXCEPT ![currentFrame][q] = t]
    BY DEF set_reg
  <1>3. St = FramesIn(registers, frames, currentFrame)
    BY DEF RestingView
  <1>4. St' = FramesIn(registers', frames, currentFrame)
    BY DEF RestingView
  <1>5. St' = SetLast(St, q, ValueOf(t))
    BY <1>2, <1>3, <1>4, FrameSet
  <1>6. Len(St) = currentFrame + 1
    BY <1>1, TopFrame
  <1>7. Len(St') = currentFrame + 1 /\ St'[currentFrame + 1].regs = [r \in Regs |-> ValueOf(registers'[currentFrame][r])]
    BY <1>1, <1>4 DEF FramesIn
  <1>8. registers'[currentFrame][q] = t
    BY <1>2
  <1>9. Objects!Sets(q, ValueOf(t))
    BY <1>5 DEF Objects!Sets, SetLast, St
  <1> QED BY <1>6, <1>7, <1>8, <1>9

\* The program stops, of its own accord or for lack of memory.
LEMMA StopStep ==
  ASSUME Sound, status # "collect", status \notin {"exit", "die"}, status' \in {"exit", "die"},
         UNCHANGED <<heap, toSpace, registers, frames, currentFrame, currentFunction, fresh>>
  PROVE  Implemented
  <1>1. RestingView /\ RestingView'
    BY MutatorView
  <1>2. UNCHANGED <<Os, St>>
    BY <1>1 DEF RestingView
  <1>3. UNCHANGED Rn /\ Mk' = NoList
    BY <1>1 DEF RestingView, Null, ValueOf
  <1>4. Ph # "stopped" /\ Ph' = "stopped"
    BY DEF Ph
  <1>5. Objects!Stop
    BY <1>2, <1>3, <1>4 DEF Objects!Stop, Objects!NotMaking, Objects!Making, Objects!NoElement, Objects!Plain,
                            Os, St, Rn, Mk, Ph, NoList, ValueOf, EmptyList
  <1> QED BY <1>5 DEF Implemented, Objects!Next

-----------------------------------------------------------------------------
(* Values at hand *)

\* The children of a block that a value refers to are those of its object.
LEMMA KidsSeen ==
  ASSUME RestingView, TextsFit, NEW t, ValueIn(heap, t, toSpace), t.space # Off,
         t.tag \in {"TUPLE", "FUNCTION", "STRING"}
  PROVE  /\ t.space = toSpace /\ t.slot \in 1 .. Count(heap, toSpace)
         /\ Kind(heap, toSpace, t.slot) = t.tag
         /\ Objects!Kids(ValueOf(t)) = CellIn(heap, toSpace, t.slot).kids
         /\ Len(Objects!Kids(ValueOf(t))) = Len(BlockOf(t).kids)
         /\ \A n \in 1 .. Len(BlockOf(t).kids) :
              ValueOf(BlockOf(t).kids[n]) \in Objects!Elems(Objects!Kids(ValueOf(t)))
  <1> DEFINE k == t.slot
             T == toSpace
             q == CellIn(heap, T, k).kids
             a == Arity(heap, T, k)
  <1>1. Closed(heap, T)
    BY RestingCloses DEF RestingView, Mutating
  <1>2. t.space = T /\ k \in 1 .. Count(heap, T) /\ Kind(heap, T, k) \in Heads
        /\ t.tag = TagOf(Kind(heap, T, k)) /\ k \in DOMAIN Objs(heap, T)
    BY <1>1, ValuesAreObjects
  <1>3. Kind(heap, T, k) = t.tag
    BY <1>2 DEF Heads, TagOf
  <1>4. Objs(heap, T)[k] = CellIn(heap, T, k)
    BY <1>1, <1>2, <1>3, ObjectParts
  <1>5. Len(q) = a /\ \A n \in 1 .. a : q[n] = ValueOf(Kid(heap, T, k, n))
    BY <1>1, <1>2, <1>3, CellKids
  <1>6. ValueOf(t).on /\ ValueOf(t).id = k
    BY DEF ValueOf
  <1>7. Os[k].kids = q
    BY <1>4 DEF RestingView
  <1> HIDE DEF q
  <1>8. Objects!Kids(ValueOf(t)) = q
    BY <1>6, <1>7 DEF Objects!Kids, Os
  <1>9. Len(BlockOf(t).kids) = a /\ \A n : BlockOf(t).kids[n] = Kid(heap, T, k, n)
    BY <1>2 DEF BlockOf, Arity, Kid
  <1>10. ASSUME NEW n \in 1 .. a
         PROVE  ValueOf(BlockOf(t).kids[n]) \in Objects!Elems(q)
    <2>1. n \in 1 .. Len(q) /\ q[n] = ValueOf(BlockOf(t).kids[n])
      BY <1>5, <1>9
    <2> QED BY <2>1 DEF Objects!Elems
  <1> HIDE DEF a
  <1>11. \A n \in 1 .. Len(BlockOf(t).kids) : ValueOf(BlockOf(t).kids[n]) \in Objects!Elems(q)
    BY <1>9, <1>10
  <1> QED BY <1>2, <1>3, <1>5, <1>8, <1>9, <1>11 DEF q

\* What an operand stands for is at hand.
LEMMA OperandSeen ==
  ASSUME WithinLimits, TextsFit, FrameInv, HeapInv, status \notin {"collect", "die"}, RestingView,
         NEW o \in Operands, Readable(o)
  PROVE  /\ ValueOf(get_var(o)) \in Objects!Held \cup Objects!Caught
         /\ o \in Regs => ValueOf(get_var(o)) \in Objects!Held
  <1>0. currentFrame \in Nat
    BY MutatorFacts
  <1>1. CASE o \in Regs
    <2>1. o \in Nat /\ ~(o >= UpvalueFlag)
      BY <1>1, VmAssumption, GcAssumption DEF Regs, UpvalueFlag
    <2>2. get_var(o) = registers[currentFrame][o]
      BY <2>1 DEF get_var
    <2>3. ValueOf(registers[currentFrame][o]) \in Objects!Held
      BY <1>0, <1>1, RegisterHeld
    <2> QED BY <1>1, <2>2, <2>3
  <1>2. CASE o \notin Regs
    <2> DEFINE n == frames[currentFrame].upvals
               k == o - UpvalueFlag + 1
               f == currentFunction
    <2>1. /\ o \in Int /\ k \in Nat /\ 1 <= k /\ o >= UpvalueFlag
      BY <1>2, VmAssumption DEF Operands, UpvalueFlag
    <2>2. /\ o - UpvalueFlag < n /\ fresh
      BY <1>2 DEF Readable, WithinLimits
    <2>3. n \in Nat
      BY MutatorFacts DEF VmTypeOK, Link
    <2>4. n > 0 /\ k \in 1 .. n
      <3> HIDE DEF n
      <3> QED BY <2>1, <2>2, <2>3 DEF UpvalueFlag
    <2>5. /\ RefersTo(heap, f, toSpace) /\ f.tag = "FUNCTION" /\ Arity(heap, toSpace, f.slot) = n
          /\ ValueIn(heap, f, toSpace)
      BY <2>2, <2>4, MutatorFacts DEF ClosureOK, ClosureIn
    <2>6. f.space = toSpace /\ f.space # Off
      BY <2>5, MutatorFacts, OtherSpace DEF RefersTo
    <2>7. get_var(o) = BlockOf(f).kids[k] /\ Len(BlockOf(f).kids) = n
      BY <2>1, <2>5, <2>6 DEF get_var, BlockOf, Arity
    <2> HIDE DEF k, n, f
    <2>8. ValueOf(get_var(o)) \in Objects!Elems(Objects!Kids(ValueOf(f)))
      BY <2>4, <2>5, <2>6, <2>7, KidsSeen
    <2>9. Rn = ValueOf(f)
      BY <2>2 DEF RestingView, f
    <2>10. Objects!Caught = Objects!Elems(Objects!Kids(Rn))
      BY DEF Objects!Caught, Rn
    <2> QED BY <1>2, <2>8, <2>9, <2>10
  <1> QED BY <1>1, <1>2

-----------------------------------------------------------------------------
(* Opcodes that set a register to a value there is *)

\* Each of them.
LEMMA ComputeStep ==
  ASSUME Sound, status \in {"run", "load"}, status' = "run", NEW r \in Regs, NEW t, set_reg(r, t),
         UNCHANGED <<heap, toSpace, frames, currentFrame, currentFunction, fresh>>,
         \/ Objects!IsConstant(ValueOf(t)) \/ Objects!IsPart(ValueOf(t))
         \/ ValueOf(t) \in Objects!Held \cup Objects!Caught
  PROVE  Implemented
  <1> DEFINE v == ValueOf(t)
  <1>1. RestingView /\ RestingView'
    BY MutatorView
  <1>2. /\ registers \in [Frames -> [Regs -> Term]] /\ currentFrame \in Frames
    BY MutatorFacts DEF Sound
  <1>3. Objects!Sets(r, v) /\ Len(St') = Len(St) /\ St'[Len(St)].regs[r] = v
    BY <1>1, <1>2, SetSeen
  <1>4. UNCHANGED <<Os, Rn, Mk>>
    BY <1>1 DEF RestingView, Null, ValueOf
  <1>5. Ph = "running" /\ Ph' = "running"
    BY DEF Ph
  <1> HIDE DEF v
  <1>6. Objects!IsConstant(v) \/ v \in Objects!Held \/ v \in Objects!Caught \/ Objects!IsPart(v)
    BY DEF v
  <1>7. Objects!Compute
    <2>1. \E q \in Regs : LET w == St'[Len(St)].regs[q]
                          IN  /\ Objects!Sets(q, w)
                              /\ \/ Objects!IsConstant(w) \/ w \in Objects!Held
                                 \/ w \in Objects!Caught \/ Objects!IsPart(w)
      BY <1>3, <1>6
    <2> QED BY <1>3, <1>4, <1>5, <2>1 DEF Objects!Compute, Os, St, Rn, Mk, Ph
  <1> QED BY <1>7 DEF Implemented, Objects!Next

\* OP_STORE_INT and the like, and OP_LOAD_STRING.
LEMMA StoreStep ==
  ASSUME Sound, NEW r \in Regs, NEW t, op_store(r, t),
         \/ \E i \in Immediates : t = Immediate(i)
         \/ \E k \in 1 .. Len(LitLen) : t = Literal(k)
  PROVE  Implemented
  <1>1. Objects!IsConstant(ValueOf(t))
    <2>1. CASE \E i \in Immediates : t = Immediate(i)
      <3>1. PICK i \in Immediates : t = Immediate(i)
        BY <2>1
      <3>2. ValueOf(t) = Objects!Plain("INT", i)
        BY <3>1 DEF Objects!Plain, ValueOf, Immediate
      <3> QED BY <3>2 DEF Objects!IsConstant
    <2>2. CASE \E k \in 1 .. Len(LitLen) : t = Literal(k)
      <3>1. PICK k \in 1 .. Len(LitLen) : t = Literal(k)
        BY <2>2
      <3>2. ValueOf(t) = Objects!Plain("STRING", k)
        BY <3>1 DEF Objects!Plain, ValueOf, Literal
      <3> QED BY <3>2 DEF Objects!IsConstant
    <2> QED BY <2>1, <2>2
  <1>2. status = "run" /\ status' = "run" /\ set_reg(r, t)
        /\ UNCHANGED <<heap, toSpace, frames, currentFrame, currentFunction, fresh>>
    BY DEF op_store, Runs, SetsOnly, vmVars
  <1> QED BY <1>1, <1>2, ComputeStep

\* OP_MOV.
LEMMA MovStep ==
  ASSUME Sound, NEW r \in Regs, NEW o \in Operands, op_mov(r, o)
  PROVE  Implemented
  <1> DEFINE t == get_var(o)
  <1>1. status = "run" /\ status' = "run" /\ set_reg(r, t) /\ Readable(o)
        /\ UNCHANGED <<heap, toSpace, frames, currentFrame, currentFunction, fresh>>
    BY DEF op_mov, Runs, SetsOnly, vmVars
  <1>2. RestingView
    BY <1>1, MutatorView
  <1>3. ValueOf(t) \in Objects!Held \cup Objects!Caught
    BY <1>1, <1>2, OperandSeen DEF Sound
  <1> HIDE DEF t
  <1> QED BY <1>1, <1>3, ComputeStep

\* OP_TUPLE_NTH: an element, or nil.
LEMMA TupleNthStep ==
  ASSUME Sound, NEW r \in Regs, NEW o \in Regs, NEW index \in 0 .. MaxArgs, op_tuple_nth(r, o, index)
  PROVE  Implemented
  <1> DEFINE t == get_var(o)
             m == Len(BlockOf(t).kids)
             u == IF index < m THEN BlockOf(t).kids[index + 1] ELSE Nil
  <1>1. status = "run" /\ status' = "run" /\ set_reg(r, u) /\ t.tag = "TUPLE"
        /\ UNCHANGED <<heap, toSpace, frames, currentFrame, currentFunction, fresh>>
    BY DEF op_tuple_nth, Runs, SetsOnly, vmVars
  <1>2. RestingView /\ FrameInv /\ HeapInv /\ WithinLimits /\ TextsFit
    BY <1>1, MutatorView DEF Sound
  <1>3. o \in Operands /\ Readable(o)
    BY RegistersReadable
  <1>4. ValueOf(t) \in Objects!Held /\ ValueIn(heap, t, toSpace)
    BY <1>1, <1>2, <1>3, OperandSeen, OperandValue
  <1>5. CASE index < m
    <2>1. t.space # Off
      BY <1>1, <1>4, MutatorFacts, <1>2, OtherSpace DEF ValueIn, OffValue, RefersTo
    <2>2. m \in Nat
      BY <1>1, <1>2, <1>4, <2>1, KidsSeen, MutatorFacts, HeapTyped DEF BlockOf, Arity
    <2>3. index \in Nat
      BY VmAssumption
    <2> HIDE DEF t, m
    <2>4. index + 1 \in 1 .. m
      BY <1>5, <2>2, <2>3
    <2>5. ValueOf(BlockOf(t).kids[index + 1]) \in Objects!Elems(Objects!Kids(ValueOf(t)))
      BY <1>1, <1>2, <1>4, <2>1, <2>4, KidsSeen DEF m
    <2>6. u = BlockOf(t).kids[index + 1]
      BY <1>5
    <2> HIDE DEF u
    <2>7. Objects!IsPart(ValueOf(u))
      <3>1. ValueOf(t).tag = "TUPLE"
        BY <1>1 DEF ValueOf
      <3> QED BY <1>4, <2>5, <2>6, <3>1 DEF Objects!IsPart
    <2> QED BY <1>1, <2>7, ComputeStep
  <1>6. CASE ~(index < m)
    <2>1. u = Nil
      BY <1>6
    <2> HIDE DEF u
    <2>2. Objects!IsConstant(ValueOf(u))
      BY <2>1 DEF Objects!IsConstant, Objects!NilVal, Objects!Plain, ValueOf, Nil
    <2> QED BY <1>1, <2>2, ComputeStep
  <1> QED BY <1>5, <1>6

\* OP_FUNCTION of a named function, once it is loaded.
LEMMA CaptureStep ==
  ASSUME Sound, load_function_hit, pending.op = "capture"
  PROVE  Implemented
  <1> DEFINE t == Named(pending.fn)
  <1>1. status = "load" /\ status' = "run" /\ set_reg(pending.ret, t)
        /\ UNCHANGED <<heap, toSpace, frames, currentFrame, currentFunction, fresh>>
    BY DEF load_function_hit
  <1>2. pending.ret \in Regs /\ pending.fn \in Functions
    BY <1>1, MutatorFacts DEF Sound, VmTypeOK, Pending
  <1>3. Objects!IsConstant(ValueOf(t))
    BY <1>2 DEF Objects!IsConstant, Objects!Plain, ValueOf, Named
  <1> HIDE DEF t
  <1> QED BY <1>1, <1>2, <1>3, ComputeStep

-----------------------------------------------------------------------------
(* Opcodes that make an object *)

\* What an allocation adds to the objects.
LEMMA ObjectAdded ==
  ASSUME RestingView, RestingView', TextsFit, heap \in Heaps, toSpace \in Spaces,
         NEW bs \in Seq(Block), Len(bs) \in 1 .. 3, owl_alloc(bs), bs[1].kind \in Heads,
         \A i \in 1 .. Len(bs) : i # 1 => bs[i].kind \in {"LEAF", "INTERNAL"}
  PROVE  LET k == Count(heap, toSpace) + 1
         IN  /\ toSpace' = toSpace /\ Allocation(heap, heap', toSpace, bs)
             /\ Closed(heap, toSpace) /\ Closed(heap', toSpace)
             /\ Os = Objs(heap, toSpace) /\ Os' = Objs(heap', toSpace)
             /\ k \in DOMAIN Os' \ DOMAIN Os
             /\ \A l \in DOMAIN Os : Os'[l] = Os[l]
             /\ \A o : o = Os'[k] => Objects!Adds(k, o)
  <1> DEFINE T == toSpace
             k == Count(heap, T) + 1
             g == heap'
  <1>1. Closed(heap, T)
    BY RestingCloses DEF RestingView, Mutating
  <1>2. toSpace' = T /\ g = [heap EXCEPT ![toSpace] = @ \o bs]
    BY DEF owl_alloc
  <1>3. Closed(g, toSpace')
    BY RestingCloses DEF RestingView, Mutating
  <1>4. Closed(g, T)
    BY <1>2, <1>3
  <1>5. Allocation(heap, g, T, bs)
    BY <1>2, Allocated
  <1>6. Os = Objs(heap, T) /\ Os' = Objs(g, T)
    BY <1>2 DEF RestingView
  <1> HIDE DEF g, T, k
  <1>7. Gains(Objs(heap, T), Objs(g, T), k)
    <2>1. Len(bs) \in 1 .. 3 /\ bs[1].kind \in Heads
          /\ \A i \in 1 .. Len(bs) : i # 1 => bs[i].kind \in {"LEAF", "INTERNAL"}
      OBVIOUS
    <2> QED BY <1>1, <1>5, <2>1, ObjectsGrow DEF k
  <1>8. k \in DOMAIN Os' \ DOMAIN Os /\ \A l \in DOMAIN Os : Os'[l] = Os[l]
    BY <1>6, <1>7 DEF Gains
  <1>9. Os' = [l \in DOMAIN Os \cup {k} |-> IF l = k THEN Os'[k] ELSE Os[l]]
    BY <1>6, <1>7 DEF Gains
  <1>10. ASSUME NEW o, o = Os'[k]
         PROVE  Objects!Adds(k, o)
    BY <1>9, <1>10 DEF Objects!Adds, Os
  <1> QED BY <1>1, <1>2, <1>4, <1>5, <1>6, <1>8, <1>10 DEF g, T, k

\* What a block b is made of.
Made(b) == [kind |-> b.kind, kids |-> [n \in 1 .. Len(b.kids) |-> ValueOf(b.kids[n])]]

\* An opcode that makes it, or dies.
LEMMA BuildStep ==
  ASSUME Sound, status = "run", NEW r \in Regs, NEW b \in Block, b.kind \in {"TUPLE", "FUNCTION", "STRING"},
         Build(<<b>>, r, Fresh(b.kind, 1)), UNCHANGED vmVars, Fits(Bytes(<<b>>)) => Objects!Makes(Made(b))
  PROVE  Implemented
  <1>1. CASE ~Fits(Bytes(<<b>>))
    <2>1. status' = "die" /\ UNCHANGED <<heap, toSpace, registers, frames, currentFrame, currentFunction, fresh>>
      BY <1>1 DEF Build, Die, vmVars
    <2> QED BY <2>1, StopStep
  <1>2. CASE Fits(Bytes(<<b>>))
    <2> DEFINE bs == <<b>>
               t == Fresh(b.kind, 1)
               k == Count(heap, toSpace) + 1
    <2>1. /\ owl_alloc(bs) /\ set_reg(r, t) /\ status' = "run"
          /\ UNCHANGED <<frames, currentFrame, currentFunction, fresh, pending>>
      BY <1>2 DEF Build, vmVars
    <2>2. RestingView /\ RestingView' /\ TextsFit
      BY <2>1, MutatorView DEF Sound
    <2>3. /\ heap \in Heaps /\ toSpace \in Spaces /\ registers \in [Frames -> [Regs -> Term]]
          /\ currentFrame \in Frames
      BY MutatorFacts DEF Sound
    <2>4. bs \in Seq(Block) /\ Len(bs) = 1 /\ bs[1] = b
      OBVIOUS
    <2>5. bs[1].kind \in Heads /\ Len(bs) \in 1 .. 3 /\ \A i \in 1 .. Len(bs) : i # 1 => bs[i].kind \in {"LEAF", "INTERNAL"}
      BY <2>4 DEF Heads
    <2> HIDE DEF bs
    <2>6. /\ toSpace' = toSpace /\ Allocation(heap, heap', toSpace, bs)
          /\ Closed(heap', toSpace)
          /\ Os' = Objs(heap', toSpace)
          /\ k \in DOMAIN Os' \ DOMAIN Os
          /\ \A o : o = Os'[k] => Objects!Adds(k, o)
      BY <2>1, <2>2, <2>3, <2>4, <2>5, ObjectAdded
    <2>7. Os'[k] = Made(b)
      <3> DEFINE g == heap'
                 a == Len(b.kids)
      <3>1. Kind(g, toSpace, k) = b.kind /\ Arity(g, toSpace, k) = a
            /\ \A m : Kid(g, toSpace, k, m) = b.kids[m]
        BY <2>4, <2>6 DEF Allocation
      <3>2. k \in DOMAIN Objs(g, toSpace) /\ Closed(g, toSpace)
        BY <2>6
      <3> HIDE DEF g, a, k
      <3>3. Objs(g, toSpace)[k] = CellIn(g, toSpace, k)
        BY <2>2, <3>1, <3>2, ObjectParts
      <3>4. [n \in 1 .. a |-> ValueOf(Kid(g, toSpace, k, n))] = [n \in 1 .. a |-> ValueOf(b.kids[n])]
        BY <3>1
      <3>5. CellIn(g, toSpace, k) = [kind |-> b.kind, kids |-> [n \in 1 .. a |-> ValueOf(b.kids[n])]]
        BY <3>1, <3>4 DEF CellIn
      <3> QED BY <2>6, <3>3, <3>5 DEF Made, g, a
    <2>8. Objects!Adds(k, Made(b)) /\ Objects!Makes(Made(b))
      BY <1>2, <2>6, <2>7
    <2>9. Objects!Sets(r, ValueOf(t))
      BY <2>1, <2>2, <2>3, SetSeen
    <2>10. ValueOf(t) = Objects!To(Made(b).kind, k)
      <3>1. toSpace # Off
        BY <2>3, OtherSpace
      <3>2. t = Ref(b.kind, toSpace, k)
        BY DEF Fresh, Count
      <3>3. Made(b).kind = b.kind
        BY DEF Made
      <3>4. ValueOf(t) = [tag |-> b.kind, on |-> TRUE, id |-> k]
        <4> HIDE DEF k, t
        <4> QED BY <3>1, <3>2 DEF ValueOf, Ref
      <3> HIDE DEF k, t
      <3> QED BY <3>3, <3>4 DEF Objects!To
    <2>11. UNCHANGED <<Rn, Mk, Ph>> /\ Ph = "running"
      BY <2>1, <2>2 DEF RestingView, Null, ValueOf, Ph
    <2> HIDE DEF k, t
    <2>12. Objects!Build
      <3>1. k \in DOMAIN Os' \ DOMAIN Os /\ Os'[k] = Made(b)
        BY <2>6, <2>7
      <3>2. \E q \in Regs : Objects!Sets(q, Objects!To(Os'[k].kind, k))
        BY <2>9, <2>10, <3>1
      <3> QED BY <2>8, <2>11, <3>1, <3>2 DEF Objects!Build, Os, St, Rn, Mk, Ph
    <2> QED BY <2>12 DEF Implemented, Objects!Next
  <1> QED BY <1>1, <1>2

\* As many values as an opcode can have operands.
LEMMA ArgsSeen ==
  ASSUME NEW S, NEW n \in 0 .. MaxArgs, NEW q, q = [k \in 1 .. n |-> q[k]], \A k \in 1 .. n : q[k] \in S
  PROVE  q \in Objects!Args(S)
  <1>1. q \in [1 .. n -> S]
    OBVIOUS
  <1> QED BY <1>1 DEF Objects!Args

\* What the operands of an opcode stand for.
LEMMA OperandsSeen ==
  ASSUME WithinLimits, TextsFit, FrameInv, HeapInv, status \notin {"collect", "die"}, RestingView,
         NEW os \in ArgLists(Operands), \A k \in 1 .. Len(os) : Readable(os[k]),
         NEW q, q = [k \in 1 .. Len(Vals(os)) |-> ValueOf(Vals(os)[k])]
  PROVE  /\ q \in Objects!Args(Objects!Held \cup Objects!Caught)
         /\ os \in ArgLists(Regs) => q \in Objects!Args(Objects!Held)
  <1> DEFINE n == Len(os)
  <1>1. os \in Seq(Operands) /\ n \in 0 .. MaxArgs
    BY ArgsBounded
  <1>2. Len(Vals(os)) = n
    BY OperandValues
  <1>3. \A k \in 1 .. n : Vals(os)[k] = get_var(os[k])
    BY <1>1 DEF Vals
  <1>4. \A k \in 1 .. n : os[k] \in Operands
    BY <1>1
  <1>5. \A k \in 1 .. n : q[k] = ValueOf(get_var(os[k])) /\ q = [i \in 1 .. n |-> q[i]]
    BY <1>2, <1>3
  <1>6. \A k \in 1 .. n : q[k] \in Objects!Held \cup Objects!Caught
    BY <1>4, <1>5, OperandSeen
  <1>7. q = [i \in 1 .. n |-> q[i]]
    BY <1>2
  <1>8. q \in Objects!Args(Objects!Held \cup Objects!Caught)
    BY <1>1, <1>6, <1>7, ArgsSeen
  <1>9. ASSUME os \in ArgLists(Regs)
        PROVE  q \in Objects!Args(Objects!Held)
    <2>1. os \in Seq(Regs)
      BY <1>9, ArgsBounded
    <2>2. \A k \in 1 .. n : os[k] \in Regs
      BY <2>1
    <2>3. \A k \in 1 .. n : q[k] \in Objects!Held
      BY <1>4, <1>5, <2>2, OperandSeen
    <2> QED BY <1>1, <1>7, <2>3, ArgsSeen
  <1> QED BY <1>8, <1>9

\* OP_TUPLE.
LEMMA TupleStep ==
  ASSUME Sound, NEW r \in Regs, NEW os \in ArgLists(Regs), op_tuple(r, os)
  PROVE  Implemented
  <1> DEFINE b == NewBlock("TUPLE", Vals(os), 0)
             q == [k \in 1 .. Len(Vals(os)) |-> ValueOf(Vals(os)[k])]
  <1>1. status = "run" /\ UNCHANGED vmVars /\ Build(<<b>>, r, Fresh("TUPLE", 1))
    BY DEF op_tuple, Runs
  <1>2. os \in ArgLists(Operands) /\ \A k \in 1 .. Len(os) : Readable(os[k])
    BY RegistersReadable
  <1>3. /\ Vals(os) \in Seq(Term)
    BY <1>1, <1>2, OperandValues DEF Sound
  <1>4. /\ b \in Block /\ b.kind = "TUPLE" /\ b.kids = Vals(os)
    BY <1>3, NewBlockOK
  <1> HIDE DEF b
  <1>5. ASSUME Fits(Bytes(<<b>>))
        PROVE  Objects!Makes(Made(b))
    <2>1. status' # "collect"
      BY <1>1, <1>5 DEF Build
    <2>2. RestingView
      BY <1>1, <2>1, MutatorView
    <2>3. q \in Objects!Args(Objects!Held)
      BY <1>1, <1>2, <2>2, OperandsSeen DEF Sound
    <2>4. Made(b).kind = "TUPLE" /\ Made(b).kids = q
      BY <1>4 DEF Made
    <2> HIDE DEF q
    <2> QED BY <2>3, <2>4 DEF Objects!Makes
  <1> QED BY <1>1, <1>4, <1>5, BuildStep

\* OP_ANON_FN.
LEMMA ClosureStep ==
  ASSUME Sound, NEW r \in Regs, NEW os \in ArgLists(Operands), op_anon_fn(r, os)
  PROVE  Implemented
  <1> DEFINE b == NewBlock("FUNCTION", Vals(os), 0)
             q == [k \in 1 .. Len(Vals(os)) |-> ValueOf(Vals(os)[k])]
  <1>1. status = "run" /\ UNCHANGED vmVars /\ Build(<<b>>, r, Fresh("FUNCTION", 1))
    BY DEF op_anon_fn, Runs
  <1>2. \A k \in 1 .. Len(os) : Readable(os[k])
    BY DEF op_anon_fn
  <1>3. /\ Vals(os) \in Seq(Term)
    BY <1>1, <1>2, OperandValues DEF Sound
  <1>4. /\ b \in Block /\ b.kind = "FUNCTION" /\ b.kids = Vals(os)
    BY <1>3, NewBlockOK
  <1> HIDE DEF b
  <1>5. ASSUME Fits(Bytes(<<b>>))
        PROVE  Objects!Makes(Made(b))
    <2>1. status' # "collect"
      BY <1>1, <1>5 DEF Build
    <2>2. RestingView
      BY <1>1, <2>1, MutatorView
    <2>3. q \in Objects!Args(Objects!Held \cup Objects!Caught)
      BY <1>1, <1>2, <2>2, OperandsSeen DEF Sound
    <2>4. Made(b).kind = "FUNCTION" /\ Made(b).kids = q
      BY <1>4 DEF Made
    <2> HIDE DEF q
    <2> QED BY <2>3, <2>4 DEF Objects!Makes
  <1> QED BY <1>1, <1>4, <1>5, BuildStep

\* The terms of a sequence, as values.
Seen(q) == [n \in 1 .. Len(q) |-> ValueOf(q[n])]

AllValues == {ValueOf(t) : t \in Term}

\* They are a sequence of the same length.
LEMMA SeenParts ==
  ASSUME NEW q \in Seq(Term)
  PROVE  /\ Seen(q) \in Seq(AllValues) /\ Len(Seen(q)) = Len(q) /\ Len(q) \in Nat
         /\ \A k \in 1 .. Len(q) : Seen(q)[k] = ValueOf(q[k])
  <1> DEFINE n == Len(q)
             Q == Seen(q)
  <1>1. n \in Nat /\ \A k \in 1 .. n : q[k] \in Term
    OBVIOUS
  <1>2. Q = [k \in 1 .. n |-> ValueOf(q[k])]
    BY DEF Seen
  <1>3. \A t \in Term : ValueOf(t) \in AllValues
    BY DEF AllValues
  <1> HIDE DEF n, Q
  <1>4. Q \in [1 .. n -> AllValues]
    BY <1>1, <1>2, <1>3
  <1>5. Q \in Seq(AllValues) /\ Len(Q) = n
    BY <1>1, <1>4, FunctionSeq
  <1> QED BY <1>1, <1>2, <1>5 DEF n, Q

\* Those of a concatenation.
LEMMA SeenConcat ==
  ASSUME NEW p \in Seq(Term), NEW q \in Seq(Term)
  PROVE  Seen(p \o q) = Seen(p) \o Seen(q)
  <1> DEFINE P == Seen(p)
             Q == Seen(q)
             R == Seen(p \o q)
             m == Len(p)
             n == Len(q)
             pq == p \o q
  <1>1. m \in Nat /\ n \in Nat /\ pq \in Seq(Term) /\ Len(pq) = m + n
        /\ \A k \in 1 .. m : pq[k] = p[k]
    BY ConcatParts
  <1>2. \A k \in 1 .. m + n : k > m => pq[k] = q[k - m] /\ k - m \in 1 .. n
    BY ConcatParts
  <1>3. /\ P \in Seq(AllValues) /\ Len(P) = m /\ \A k \in 1 .. m : P[k] = ValueOf(p[k])
        /\ Q \in Seq(AllValues) /\ Len(Q) = n /\ \A k \in 1 .. n : Q[k] = ValueOf(q[k])
    BY SeenParts
  <1>4. R \in Seq(AllValues) /\ Len(R) = m + n /\ \A k \in 1 .. m + n : R[k] = ValueOf(pq[k])
    <2> HIDE DEF pq, m, n
    <2> QED BY <1>1, SeenParts DEF pq
  <1> HIDE DEF m, n, pq, P, Q, R
  <1>5. /\ P \o Q \in Seq(AllValues) /\ Len(P \o Q) = m + n
        /\ \A k \in 1 .. m : (P \o Q)[k] = P[k]
        /\ \A k \in 1 .. m + n : k > m => (P \o Q)[k] = Q[k - m]
    <2>1. P \in Seq(AllValues) /\ Len(P) = m /\ Q \in Seq(AllValues) /\ Len(Q) = n
      BY <1>3
    <2>2. P \o Q \in Seq(AllValues) /\ Len(P \o Q) = m + n
      BY <2>1, ConcatParts
    <2>3. \A k \in 1 .. m : (P \o Q)[k] = P[k]
      BY <2>1, ConcatParts
    <2>4. \A k \in 1 .. m + n : k > m => (P \o Q)[k] = Q[k - m]
      BY <2>1, ConcatParts
    <2> QED BY <2>2, <2>3, <2>4
  <1>6. \A k \in 1 .. m + n : k > m \/ k \in 1 .. m
    BY <1>1
  <1>7. ASSUME NEW k \in 1 .. m + n
        PROVE  R[k] = (P \o Q)[k]
    <2>1. CASE k \in 1 .. m
      BY <1>1, <1>3, <1>4, <1>5, <2>1
    <2>2. CASE k > m
      <3> DEFINE l == k - m
      <3>1. pq[k] = q[l] /\ l \in 1 .. n
        BY <1>2, <2>2
      <3>2. (P \o Q)[k] = Q[l]
        BY <1>5, <2>2
      <3> HIDE DEF l
      <3> QED BY <1>3, <1>4, <3>1, <3>2
    <2> QED BY <1>6, <2>1, <2>2
  <1>8. R = P \o Q
    BY <1>4, <1>5, <1>7, SeqSame
  <1> QED BY <1>8 DEF P, Q, R, pq

\* A text, as strlen and strcpy find it, is the one the program made.
LEMMA TextIs ==
  ASSUME TextsFit, FrameInv, HeapInv, status \notin {"collect", "die"}, RestingView,
         NEW t, ValueIn(heap, t, toSpace), t.tag = "STRING", NEW s \in CString(t)
  PROVE  s.kids \in Seq(Term) /\ Objects!Chars(ValueOf(t)) = Seen(s.kids)
  <1>1. s.kids \in Seq(Term)
    BY TextOfValue
  <1>2. CASE t.space = Off
    <2>1. s.kids = <<t>>
      BY <1>2 DEF CString, Text
    <2>2. Objects!Chars(ValueOf(t)) = <<ValueOf(t)>>
      BY <1>2 DEF Objects!Chars, ValueOf
    <2>3. Seen(<<t>>) = <<ValueOf(t)>>
      BY DEF Seen
    <2> QED BY <1>1, <2>1, <2>2, <2>3
  <1>3. CASE t.space # Off
    <2> DEFINE k == t.slot
               a == Arity(heap, toSpace, k)
    <2>1. /\ t.space = toSpace /\ k \in 1 .. Count(heap, toSpace) /\ Kind(heap, toSpace, k) = "STRING"
          /\ Objects!Kids(ValueOf(t)) = CellIn(heap, toSpace, k).kids
      BY <1>3, KidsSeen
    <2>2. RefersTo(heap, t, toSpace) /\ heap \in Heaps /\ toSpace \in Spaces
      BY <1>3, MutatorFacts DEF ValueIn, OffValue
    <2>3. /\ BlockOK("STRING", a, Chars(heap, toSpace, k), Size(heap, toSpace, k))
          /\ Whole(heap, toSpace, k, toSpace)
      BY <2>1, MutatorFacts DEF Mutating, Resting
    <2>4. \A n \in 1 .. a : OffText(Kid(heap, toSpace, k, n))
      BY <2>1, <2>3 DEF Whole, Suits
    <2>5. s.kids = heap[toSpace][k].kids
      BY <2>1, <2>2, <2>3, <2>4, TextSeen
    <2>6. Objects!Chars(ValueOf(t)) = CellIn(heap, toSpace, k).kids
      BY <1>3, <2>1 DEF Objects!Chars, Objects!Kids, ValueOf
    <2>7. CellIn(heap, toSpace, k).kids = [n \in 1 .. a |-> ValueOf(Kid(heap, toSpace, k, n))]
      BY DEF CellIn
    <2>8. a = Len(s.kids) /\ \A n : Kid(heap, toSpace, k, n) = s.kids[n]
      BY <2>5 DEF Arity, Kid
    <2> HIDE DEF a, k
    <2> QED BY <1>1, <2>6, <2>7, <2>8 DEF Seen
  <1> QED BY <1>2, <1>3

\* Those of a part.
LEMMA SeenPart ==
  ASSUME NEW p \in Seq(Term), NEW a \in 1 .. Len(p), NEW b \in a .. Len(p)
  PROVE  Seen(SubSeq(p, a, b)) = SubSeq(Seen(p), a, b) /\ Len(Seen(p)) = Len(p)
  <1> DEFINE n == b - a + 1
             q == SubSeq(p, a, b)
             P == Seen(p)
             Q == SubSeq(P, a, b)
             R == Seen(q)
  <1>1. P \in Seq(AllValues) /\ Len(P) = Len(p) /\ \A k \in 1 .. Len(p) : P[k] = ValueOf(p[k])
    BY SeenParts
  <1>2. /\ q \in Seq(Term) /\ Len(q) = n /\ \A k \in 1 .. n : q[k] = p[a + k - 1]
    <2>1. a \in Int /\ b \in Int /\ a <= b /\ \A i \in a .. b : p[i] \in Term
      OBVIOUS
    <2> QED BY <2>1, SubSeqProperties
  <1>3. n \in Nat /\ \A k \in 1 .. n : a + k - 1 \in 1 .. Len(p)
    OBVIOUS
  <1> HIDE DEF P, R
  <1>4. /\ Q \in Seq(AllValues) /\ Len(Q) = n /\ \A k \in 1 .. n : Q[k] = P[a + k - 1]
    <2>1. a \in 1 .. Len(P) /\ b \in a .. Len(P)
      BY <1>1
    <2>2. a \in Int /\ b \in Int /\ a <= b /\ \A i \in a .. b : P[i] \in AllValues
      BY <1>1, <2>1
    <2> QED BY <1>1, <2>2, SubSeqProperties
  <1> HIDE DEF q, n, Q
  <1>5. R \in Seq(AllValues) /\ Len(R) = n /\ \A k \in 1 .. n : R[k] = ValueOf(q[k])
    BY <1>2, SeenParts DEF R
  <1>6. \A k \in 1 .. n : R[k] = Q[k]
    BY <1>1, <1>2, <1>3, <1>4, <1>5
  <1>7. R = Q
    BY <1>4, <1>5, <1>6, SeqSame
  <1> QED BY <1>1, <1>7 DEF P, Q, R, q

\* An opcode that makes a text.
LEMMA MakeTextStep ==
  ASSUME Sound, status = "run", UNCHANGED vmVars, NEW r \in Regs, NEW pieces \in Seq(Term),
         NEW len, NEW bytes \in Nat, MakeText(r, pieces, len, bytes),
         RestingView => Objects!IsText(Seen(pieces))
  PROVE  Implemented
  <1> DEFINE b == [NewBlock("STRING", pieces, len) EXCEPT !.size = align(bytes)]
  <1>1. len \in TextLengths /\ Build(<<b>>, r, Fresh("STRING", 1))
    BY DEF MakeText
  <1>2. len \in Nat /\ align(bytes) \in Nat
    BY <1>1, VmAssumption, Aligned
  <1>3. b = [kind |-> "STRING", kids |-> pieces, len |-> len, size |-> align(bytes), fwd |-> 0]
    BY DEF NewBlock
  <1> HIDE DEF b
  <1>4. b \in Block /\ b.kind = "STRING" /\ b.kids = pieces
    BY <1>2, <1>3 DEF Block, Kinds
  <1>5. ASSUME Fits(Bytes(<<b>>))
        PROVE  Objects!Makes(Made(b))
    <2>1. status' # "collect"
      BY <1>1, <1>5 DEF Build
    <2>2. Objects!IsText(Seen(pieces))
      BY <2>1, MutatorView
    <2>3. Made(b).kind = "STRING" /\ Made(b).kids = Seen(pieces)
      BY <1>4 DEF Made, Seen
    <2> QED BY <2>2, <2>3 DEF Objects!Makes
  <1> QED BY <1>1, <1>4, <1>5, BuildStep

\* An opcode that gives up.
LEMMA GivesUpStep ==
  ASSUME Sound, status = "run", Stop("exit"), UNCHANGED vmVars
  PROVE  Implemented
  <1>1. status' = "exit" /\ UNCHANGED <<heap, toSpace, registers, frames, currentFrame, currentFunction, fresh>>
    BY DEF Stop, vmVars
  <1> QED BY <1>1, StopStep

\* OP_CONCAT.
LEMMA ConcatStep ==
  ASSUME Sound, NEW r \in Regs, NEW o1 \in Regs, NEW o2 \in Regs, op_concat(r, o1, o2)
  PROVE  Implemented
  <1> DEFINE left == get_var(o1)
             right == get_var(o2)
  <1>1. status = "run" /\ UNCHANGED vmVars /\ FrameInv /\ HeapInv /\ WithinLimits /\ TextsFit
    BY DEF op_concat, Runs, Sound
  <1>2. CASE Stop("exit")
    BY <1>1, <1>2, GivesUpStep
  <1>3. CASE ~Stop("exit")
    <2>1. left.tag = "STRING" /\ right.tag = "STRING"
      BY <1>3 DEF op_concat
    <2>2. PICK s1 \in CString(left), s2 \in CString(right) :
            LET s == Join(s1, s2)
            IN  MakeText(r, s.kids, s.len, s.len + 1)
      BY <1>3, <2>1 DEF op_concat
    <2>3. \A o \in {o1, o2} : o \in Operands /\ Readable(o) /\ o \in Regs
      BY RegistersReadable
    <2>4. ValueIn(heap, left, toSpace) /\ ValueIn(heap, right, toSpace)
      BY <1>1, <2>3, OperandValue
    <2>5. s1.kids \in Seq(Term) /\ s2.kids \in Seq(Term)
      BY <1>1, <2>1, <2>4, TextOfValue
    <2> DEFINE kids == s1.kids \o s2.kids
               len == s1.len + s2.len
    <2>6. MakeText(r, kids, len, len + 1)
      BY <2>2 DEF Join, Text
    <2>7. kids \in Seq(Term)
      BY <2>5, ConcatParts
    <2>8. ASSUME RestingView
          PROVE  Objects!IsText(Seen(kids))
      <3>1. Objects!Chars(ValueOf(left)) = Seen(s1.kids) /\ Objects!Chars(ValueOf(right)) = Seen(s2.kids)
        BY <1>1, <2>1, <2>4, <2>8, TextIs
      <3>2. ValueOf(left) \in Objects!Held /\ ValueOf(right) \in Objects!Held
        BY <1>1, <2>3, <2>8, OperandSeen
      <3>3. Seen(kids) = Seen(s1.kids) \o Seen(s2.kids)
        BY <2>5, SeenConcat
      <3>4. ValueOf(left).tag = "STRING" /\ ValueOf(right).tag = "STRING"
        BY <2>1 DEF ValueOf
      <3> HIDE DEF kids, left, right
      <3> QED BY <3>1, <3>2, <3>3, <3>4 DEF Objects!IsText
    <2> HIDE DEF kids, len
    <2>9. len + 1 \in Nat
      BY <2>6, VmAssumption DEF MakeText
    <2> QED BY <1>1, <2>6, <2>7, <2>8, <2>9, MakeTextStep
  <1> QED BY <1>2, <1>3

\* OP_STRING_SLICE.
LEMMA StringSliceStep ==
  ASSUME Sound, NEW r \in Regs, NEW o \in Regs, op_string_slice(r, o)
  PROVE  Implemented
  <1> DEFINE t == get_var(o)
  <1>1. /\ status = "run" /\ UNCHANGED vmVars /\ t.tag = "STRING"
        /\ FrameInv /\ HeapInv /\ WithinLimits /\ TextsFit
    BY DEF op_string_slice, Runs, Sound
  <1>2. CASE Stop("exit")
    BY <1>1, <1>2, GivesUpStep
  <1>3. CASE ~Stop("exit")
    <2>1. PICK s \in CString(t) :
            \E a \in 1 .. Len(s.kids) : \E b \in a .. Len(s.kids) : \E n \in b - a + 1 .. s.len :
              MakeText(r, SubSeq(s.kids, a, b), n, n + 1)
      BY <1>3 DEF op_string_slice
    <2> DEFINE p == s.kids
    <2>2. PICK a \in 1 .. Len(p) : \E b \in a .. Len(p) : \E n \in b - a + 1 .. s.len :
            MakeText(r, SubSeq(p, a, b), n, n + 1)
      BY <2>1
    <2>3. PICK b \in a .. Len(p) : \E n \in b - a + 1 .. s.len :
            MakeText(r, SubSeq(p, a, b), n, n + 1)
      BY <2>2
    <2> DEFINE q == SubSeq(p, a, b)
    <2>4. PICK n : MakeText(r, q, n, n + 1)
      BY <2>3
    <2>5. o \in Operands /\ Readable(o) /\ ValueIn(heap, t, toSpace)
      BY <1>1, RegistersReadable, OperandValue
    <2>6. p \in Seq(Term) /\ \A k \in 1 .. Len(p) : OffText(p[k])
      BY <1>1, <2>5, TextOfValue
    <2> HIDE DEF p
    <2>7. q \in Seq(Term)
      BY <2>6, CutTexts
    <2>8. ASSUME RestingView
          PROVE  Objects!IsText(Seen(q))
      <3>1. Objects!Chars(ValueOf(t)) = Seen(p)
        BY <1>1, <2>5, <2>8, TextIs DEF p
      <3>2. ValueOf(t) \in Objects!Held /\ ValueOf(t).tag = "STRING"
        BY <1>1, <2>5, <2>8, OperandSeen DEF ValueOf
      <3>3. Seen(q) = SubSeq(Seen(p), a, b) /\ Len(Seen(p)) = Len(p)
        BY <2>6, SeenPart
      <3>4. a \in 1 .. Len(Seen(p)) /\ b \in 1 .. Len(Seen(p)) /\ a <= b
        BY <2>6, <3>3
      <3> HIDE DEF q, t
      <3>5. \E v \in Objects!Held : /\ v.tag = "STRING"
               /\ \E x, y \in 1 .. Len(Objects!Chars(v)) : x <= y /\ Seen(q) = SubSeq(Objects!Chars(v), x, y)
        BY <3>1, <3>2, <3>3, <3>4
      <3> QED BY <3>5 DEF Objects!IsText
    <2> HIDE DEF q
    <2>9. n + 1 \in Nat
      BY <2>4, VmAssumption DEF MakeText
    <2> QED BY <1>1, <2>4, <2>7, <2>8, <2>9, MakeTextStep
  <1> QED BY <1>2, <1>3

\* OP_TO_STRING of an integer.
LEMMA ToStringStep ==
  ASSUME Sound, NEW r \in Regs, NEW o \in Regs, op_to_string(r, o)
  PROVE  Implemented
  <1> DEFINE t == get_var(o)
             bytes == INT_MAX_DIGITS + 1
  <1>1. /\ status = "run" /\ UNCHANGED vmVars /\ t.tag = "INT"
        /\ FrameInv /\ HeapInv /\ WithinLimits /\ TextsFit
    BY DEF op_to_string, Runs, Sound
  <1>2. PICK n : MakeText(r, <<t>>, n, bytes)
    BY DEF op_to_string
  <1>3. o \in Operands /\ Readable(o) /\ t \in Term
    BY <1>1, RegistersReadable, OperandValue
  <1>4. <<t>> \in Seq(Term) /\ bytes \in Nat
    BY <1>3 DEF INT_MAX_DIGITS
  <1>5. ASSUME RestingView
        PROVE  Objects!IsText(Seen(<<t>>))
    <2>1. ValueOf(t) \in Objects!Held /\ ValueOf(t).tag = "INT"
      BY <1>1, <1>3, <1>5, OperandSeen DEF ValueOf
    <2>2. Seen(<<t>>) = <<ValueOf(t)>>
      BY DEF Seen
    <2> HIDE DEF t
    <2> QED BY <2>1, <2>2 DEF Objects!IsText
  <1> HIDE DEF t, bytes
  <1> QED BY <1>1, <1>2, <1>4, <1>5, MakeTextStep

\* OP_FILE_PWD.
LEMMA FilePwdStep ==
  ASSUME Sound, NEW r \in Regs, op_file_pwd(r)
  PROVE  Implemented
  <1>1. status = "run" /\ UNCHANGED vmVars
    BY DEF op_file_pwd, Runs
  <1>2. PICK k \in 1 .. Len(LitLen) : MakeText(r, <<Literal(k)>>, LitLen[k], PathMax)
    BY DEF op_file_pwd
  <1> DEFINE t == Literal(k)
  <1>3. <<t>> \in Seq(Term) /\ PathMax \in Nat
    <2>1. t \in Term
      BY LiteralsAreTexts
    <2> HIDE DEF t
    <2> QED BY <2>1, VmAssumption
  <1>4. Objects!IsText(Seen(<<t>>))
    <2>1. ValueOf(t) = Objects!Plain("STRING", k)
      BY DEF Objects!Plain, ValueOf, Literal
    <2> HIDE DEF t
    <2>2. Seen(<<t>>) = <<ValueOf(t)>>
      BY DEF Seen
    <2> QED BY <2>1, <2>2 DEF Objects!IsText
  <1>5. MakeText(r, <<t>>, LitLen[k], PathMax)
    BY <1>2
  <1> HIDE DEF t
  <1> QED BY <1>1, <1>3, <1>4, <1>5, MakeTextStep


-----------------------------------------------------------------------------
(* Calls and returns *)

\* A is a function on the first n numbers.
OnFirst(n, A) == A = [i \in 1 .. n |-> A[i]]

\* A sequence that is longer by one.
LEMMA AppendIs ==
  ASSUME NEW n \in Nat, NEW A, NEW B, NEW f, OnFirst(n, A), OnFirst(n + 1, B),
         \A i \in 1 .. n : B[i] = A[i], B[n + 1] = f
  PROVE  B = Append(A, f)
  <1> DEFINE S == {B[i] : i \in 1 .. n + 1}
  <1>1. \A i \in 1 .. n + 1 : B[i] \in S
    OBVIOUS
  <1>2. f \in S /\ \A i \in 1 .. n : A[i] \in S
    <2>1. f \in S /\ \A i \in 1 .. n : i \in 1 .. n + 1
      OBVIOUS
    <2> HIDE DEF S
    <2> QED BY <1>1, <2>1
  <1> HIDE DEF S
  <1>3. A \in [1 .. n -> S]
    BY <1>2 DEF OnFirst
  <1>4. A \in Seq(S) /\ Len(A) = n
    BY <1>3, FunctionSeq
  <1>5. B \in [1 .. n + 1 -> S]
    BY <1>1 DEF OnFirst
  <1>6. B \in Seq(S) /\ Len(B) = n + 1
    BY <1>5, FunctionSeq
  <1>7. /\ Append(A, f) \in Seq(S) /\ Len(Append(A, f)) = n + 1
        /\ \A i \in 1 .. n : Append(A, f)[i] = A[i]
        /\ Append(A, f)[n + 1] = f
    BY <1>2, <1>4
  <1>8. \A i \in 1 .. n + 1 : i = n + 1 \/ i \in 1 .. n
    OBVIOUS
  <1>9. \A i \in 1 .. n + 1 : Append(A, f)[i] = B[i]
    BY <1>7, <1>8
  <1> DEFINE C == Append(A, f)
  <1> HIDE DEF C
  <1>10. C \in Seq(S) /\ Len(C) = Len(B) /\ \A i \in 1 .. Len(B) : B[i] = C[i]
    BY <1>6, <1>7, <1>9 DEF C
  <1>11. B = C
    BY <1>6, <1>10, SeqSame
  <1> QED BY <1>11 DEF C

\* The frame of a callee: arguments q in the registers 1, 2, ..., and ret.
Entered(q, ret) ==
  [regs |-> [x \in Regs |-> IF x \in 1 .. Len(q) THEN q[x] ELSE Objects!Nothing], ret |-> ret]

\* What setup_next_stackframe does to the frames.
LEMMA FramePushed ==
  ASSUME FrameInv, currentFrame \in Nat, currentFrame + 1 \in Frames,
         registers \in [Frames -> [Regs -> Term]], frames \in [Frames -> Link],
         NEW args \in Seq(Regs), NEW l, NEW q, q = [k \in 1 .. Len(args) |-> ValueOf(registers[currentFrame][args[k]])],
         NEW rs, rs = [registers EXCEPT ![currentFrame + 1] = Arguments(@, args)],
         NEW fr, fr = [frames EXCEPT ![currentFrame + 1] = l]
  PROVE  FramesIn(rs, fr, currentFrame + 1)
           = Append(FramesIn(registers, frames, currentFrame), Entered(q, l.ret))
  <1> DEFINE n == currentFrame + 1
             A == FramesIn(registers, frames, currentFrame)
             B == FramesIn(rs, fr, n)
  <1>1. n \in Nat /\ currentFrame = n - 1 /\ n \in Frames
    OBVIOUS
  <1>2. A = [i \in 1 .. n |-> [regs |-> [r \in Regs |-> ValueOf(registers[i - 1][r])], ret |-> frames[i - 1].ret]]
    BY DEF FramesIn
  <1>3. B = [i \in 1 .. n + 1 |-> [regs |-> [r \in Regs |-> ValueOf(rs[i - 1][r])], ret |-> fr[i - 1].ret]]
    BY DEF FramesIn
  <1>4. \A i \in 1 .. n : rs[i - 1] = registers[i - 1] /\ fr[i - 1] = frames[i - 1]
    BY GcAssumption DEF Frames
  <1>5. rs[n] = Arguments(registers[n], args) /\ fr[n] = l
    BY <1>1
  <1>6. registers[n] = Cleared
    <2>1. n > currentFrame
      OBVIOUS
    <2> QED BY <1>1, <2>1 DEF FrameInv, CleanAbove
  <1>7. \A r \in Regs : ValueOf(rs[n][r]) = IF r \in 1 .. Len(args) THEN q[r] ELSE ValueOf(Null)
    BY <1>5, <1>6 DEF Arguments, Cleared
  <1>8. Objects!Nothing = ValueOf(Null)
    BY DEF Objects!Nothing, Objects!Plain, ValueOf, Null, Off
  <1>9. Len(q) = Len(args)
    OBVIOUS
  <1> DEFINE X == [r \in Regs |-> ValueOf(rs[n][r])]
             Y == [r \in Regs |-> IF r \in 1 .. Len(q) THEN q[r] ELSE Objects!Nothing]
  <1>10. X = Y
    BY <1>7, <1>8, <1>9
  <1>11. B[n + 1] = [regs |-> X, ret |-> l.ret]
    <2>1. n + 1 \in 1 .. n + 1 /\ n + 1 - 1 = n
      BY <1>1
    <2> QED BY <1>3, <1>5, <2>1
  <1>12. Entered(q, l.ret) = [regs |-> Y, ret |-> l.ret]
    BY DEF Entered
  <1> HIDE DEF X, Y
  <1>13. B[n + 1] = Entered(q, l.ret)
    BY <1>10, <1>11, <1>12
  <1>14. \A i \in 1 .. n : i \in 1 .. n + 1
    BY <1>1
  <1>15. ASSUME NEW i \in 1 .. n
         PROVE  B[i] = A[i]
    <2>1. [r \in Regs |-> ValueOf(rs[i - 1][r])] = [r \in Regs |-> ValueOf(registers[i - 1][r])]
      BY <1>4
    <2> QED BY <1>2, <1>3, <1>4, <1>14, <2>1
  <1>16. OnFirst(n, A) /\ OnFirst(n + 1, B)
    <2>1. DOMAIN A = 1 .. n /\ DOMAIN B = 1 .. n + 1
      BY DEF FramesIn
    <2> QED BY <1>2, <1>3 DEF OnFirst
  <1> HIDE DEF A, B, n
  <1>17. B = Append(A, Entered(q, l.ret))
    BY <1>1, <1>13, <1>15, <1>16, AppendIs
  <1> QED BY <1>17 DEF A, B, n

\* The opcodes that call.
LEMMA CallStep ==
  ASSUME Sound, status \in {"run", "load"}, NEW fun, NEW upvals, NEW args \in Seq(Regs), Len(args) <= MaxArgs,
         NEW ret \in Regs, setup_next_stackframe(fun, upvals, args, ret),
         \/ \E f \in Functions : fun = Named(f)
         \/ fun.tag = "FUNCTION" /\ ValueOf(fun) \in Objects!Held \cup Objects!Caught
  PROVE  Implemented
  <1>0. FrameInv /\ HeapInv /\ TextsFit
    BY DEF Sound
  <1>1. CASE ~(currentFrame + 1 < StackDepth)
    <2>1. status' = "die" /\ UNCHANGED <<heap, toSpace, registers, frames, currentFrame, currentFunction, fresh>>
      BY <1>1 DEF setup_next_stackframe, Die, vmVars
    <2> QED BY <2>1, StopStep
  <1>2. CASE currentFrame + 1 < StackDepth
    <2> DEFINE l == [ret |-> ret, fun |-> fun, upvals |-> upvals]
               q == [k \in 1 .. Len(args) |-> ValueOf(registers[currentFrame][args[k]])]
    <2>1. /\ currentFrame' = currentFrame + 1
          /\ registers' = [registers EXCEPT ![currentFrame + 1] = Arguments(@, args)]
          /\ frames' = [frames EXCEPT ![currentFrame + 1] = l]
          /\ currentFunction' = fun /\ fresh' = TRUE /\ status' = "run"
          /\ UNCHANGED <<heap, toSpace>>
      BY <1>2 DEF setup_next_stackframe
    <2>2. RestingView /\ RestingView'
      BY <2>1, MutatorView
    <2>3. /\ registers \in [Frames -> [Regs -> Term]] /\ frames \in [Frames -> Link]
          /\ currentFrame \in Frames /\ currentFrame \in Nat
      BY <1>0, MutatorFacts DEF VmTypeOK
    <2>4. currentFrame + 1 \in Frames
      BY <1>2, <2>3, GcAssumption DEF Frames
    <2>5. St = FramesIn(registers, frames, currentFrame) /\ St' = FramesIn(registers', frames', currentFrame')
      BY <2>2 DEF RestingView
    <2> HIDE DEF l
    <2>6. St' = Append(St, Entered(q, l.ret))
      <3>1. FramesIn(registers', frames', currentFrame + 1)
              = Append(FramesIn(registers, frames, currentFrame), Entered(q, l.ret))
        BY <1>0, <2>1, <2>3, <2>4, FramePushed
      <3> QED BY <2>1, <2>5, <3>1
    <2>7. l.ret = ret
      BY DEF l
    <2>8. Len(St) = currentFrame + 1 /\ Len(St') = currentFrame + 2
      <3>1. Len(St') = currentFrame' + 1
        BY <2>1, <2>3, <2>5 DEF FramesIn
      <3> QED BY <2>1, <2>2, <2>3, <3>1, TopFrame
    <2>9. q \in Objects!Args(Objects!Held)
      <3> DEFINE n == Len(args)
      <3>1. n \in 0 .. MaxArgs /\ \A k \in 1 .. n : args[k] \in Regs
        BY VmAssumption
      <3>2. \A k \in 1 .. n : q[k] \in Objects!Held
        BY <2>2, <2>3, <3>1, RegisterHeld
      <3>3. q = [k \in 1 .. n |-> q[k]]
        OBVIOUS
      <3> HIDE DEF q, n
      <3> QED BY <3>1, <3>2, <3>3, ArgsSeen
    <2>10. UNCHANGED <<Os, Mk>> /\ Rn' = ValueOf(fun)
      BY <2>1, <2>2 DEF RestingView
    <2>11. Ph = "running" /\ Ph' = "running"
      BY <2>1 DEF Ph
    <2>12. \/ Rn' \in {Objects!Plain("FUNCTION", f) : f \in Functions}
           \/ Rn'.tag = "FUNCTION" /\ Rn' \in Objects!Held \cup Objects!Caught
      <3>1. CASE \E f \in Functions : fun = Named(f)
        <4>1. PICK f \in Functions : fun = Named(f)
          BY <3>1
        <4>2. ValueOf(fun) = Objects!Plain("FUNCTION", f)
          BY <4>1 DEF ValueOf, Named, Objects!Plain
        <4> QED BY <2>10, <4>2
      <3>2. CASE fun.tag = "FUNCTION" /\ ValueOf(fun) \in Objects!Held \cup Objects!Caught
        BY <2>10, <3>2 DEF ValueOf
      <3> QED BY <3>1, <3>2
    <2> HIDE DEF q
    <2>13. \E r \in Regs, as \in Objects!Args(Objects!Held) :
             St' = Append(St, [regs |-> [x \in Regs |-> IF x \in 1 .. Len(as) THEN as[x] ELSE Objects!Nothing],
                               ret  |-> r])
      BY <2>6, <2>7, <2>9 DEF Entered
    <2>14. Len(St') = Len(St) + 1
      BY <2>3, <2>8
    <2>15. Objects!Call
      BY <2>10, <2>11, <2>12, <2>13, <2>14 DEF Objects!Call, Os, St, Rn, Mk, Ph
    <2> QED BY <2>15 DEF Implemented, Objects!Next
  <1> QED BY <1>1, <1>2

\* OP_CALL_LOCAL.
LEMMA CallLocalStep ==
  ASSUME Sound, NEW r \in Regs, NEW o \in Operands, NEW args \in CallArgs, op_call_local(r, o, args)
  PROVE  Implemented
  <1> DEFINE fun == get_var(o)
             upvals == IF fun.space = Off THEN 0 ELSE Len(BlockOf(fun).kids)
  <1>1. status = "run" /\ Readable(o)
    BY DEF op_call_local, Runs
  <1>2. CASE fun.tag # "FUNCTION"
    <2>1. status' = "exit" /\ UNCHANGED <<heap, toSpace, registers, frames, currentFrame, currentFunction, fresh>>
      BY <1>2 DEF op_call_local, Stop, vmVars
    <2> QED BY <1>1, <2>1, StopStep
  <1>3. CASE fun.tag = "FUNCTION"
    <2>1. setup_next_stackframe(fun, upvals, args, r)
      BY <1>3 DEF op_call_local
    <2>2. args \in Seq(Regs) /\ Len(args) <= MaxArgs
      BY ArgsBounded, VmAssumption DEF CallArgs
    <2>3. status' # "collect"
      BY <2>1 DEF setup_next_stackframe, Die
    <2>4. RestingView
      BY <1>1, <2>3, MutatorView
    <2>5. ValueOf(fun) \in Objects!Held \cup Objects!Caught
      BY <1>1, <2>4, OperandSeen DEF Sound
    <2> HIDE DEF fun, upvals
    <2> QED BY <1>1, <1>3, <2>1, <2>2, <2>5, CallStep
  <1> QED BY <1>2, <1>3

\* OP_CALL, once the function is loaded.
LEMMA LoadedCallStep ==
  ASSUME Sound, load_function_hit, pending.op = "call"
  PROVE  Implemented
  <1>1. status = "load" /\ setup_next_stackframe(Named(pending.fn), 0, pending.args, pending.ret)
    BY DEF load_function_hit
  <1>2. pending.fn \in Functions /\ pending.args \in Seq(Regs) /\ pending.ret \in Regs /\ Len(pending.args) <= MaxArgs
    BY <1>1, MutatorFacts DEF Sound, VmTypeOK, Pending, PendingOK
  <1> QED BY <1>1, <1>2, CallStep

\* All frames but the last of n + 1.
LEMMA FramesBelow ==
  ASSUME NEW n \in Nat, NEW A, NEW R, NEW X, X = Tower(n + 1, A, R)
  PROVE  SubSeq(X, 1, n) = Tower(n, A, R)
  <1> DEFINE Y == Tower(n, A, R)
             S == {X[i] : i \in 1 .. n}
  <1>1. \A i \in 1 .. n : X[i] \in S /\ i \in 1 .. n + 1
    OBVIOUS
  <1>2. \A i \in 1 .. n : Y[i] = X[i]
    BY <1>1 DEF Tower
  <1>3. Y = [i \in 1 .. n |-> Y[i]]
    BY DEF Tower
  <1> HIDE DEF S, Y
  <1>4. Y \in [1 .. n -> S]
    BY <1>1, <1>2, <1>3
  <1>5. Y \in Seq(S) /\ Len(Y) = n
    BY <1>4, FunctionSeq
  <1> DEFINE Z == SubSeq(X, 1, n)
  <1>6. /\ Z \in Seq(S) /\ Len(Z) = n /\ \A i \in 1 .. n : Z[i] = X[i]
    <2>1. 1 \in Int /\ n \in Int /\ \A i \in 1 .. n : X[i] \in S
      BY <1>1
    <2>2. /\ Z \in Seq(S)
          /\ Len(Z) = IF 1 <= n THEN n - 1 + 1 ELSE 0
          /\ \A i \in 1 .. n - 1 + 1 : Z[i] = X[1 + i - 1]
      BY <2>1, SubSeqProperties
    <2> HIDE DEF Z
    <2> QED BY <2>2
  <1> HIDE DEF Z
  <1>7. Z = Y
    BY <1>2, <1>5, <1>6, SeqSame
  <1> QED BY <1>7 DEF Y, Z

\* OP_RETURN.
LEMMA ReturnStep ==
  ASSUME Sound, op_return
  PROVE  Implemented
  <1> DEFINE n == currentFrame
             q == frames[n].ret
             t == registers[n][0]
             rs == [registers EXCEPT ![n - 1][q] = t, ![n] = Cleared]
             fr == [frames EXCEPT ![n] = NoLink]
             A == [i \in 1 .. n + 1 |-> [r \in Regs |-> ValueOf(registers[i - 1][r])]]
             B == [i \in 1 .. n |-> [r \in Regs |-> ValueOf(rs[i - 1][r])]]
             R == [i \in 1 .. n + 1 |-> frames[i - 1].ret]
             x == ValueOf(t)
  <1>1. /\ status = "run" /\ status' = "run" /\ n > 0
        /\ registers' = rs /\ frames' = fr /\ currentFrame' = n - 1 /\ fresh' = FALSE
        /\ UNCHANGED <<heap, toSpace, pending>>
    BY DEF op_return, Runs, ClearRegisters
  <1>2. /\ n \in Nat /\ n \in Frames
        /\ registers \in [Frames -> [Regs -> Term]] /\ frames \in [Frames -> Link]
    BY <1>1, MutatorFacts DEF Sound, VmTypeOK
  <1>3. n - 1 \in Nat /\ n - 1 \in Frames /\ n - 1 # n /\ \A i \in 1 .. n : i - 1 \in Frames /\ i - 1 # n
    BY <1>1, <1>2, GcAssumption DEF Frames
  <1>4. q \in Regs
    BY <1>2 DEF Link
  <1>5. RestingView /\ RestingView'
    BY <1>1, MutatorView
  <1>6. St = FramesIn(registers, frames, n) /\ St' = FramesIn(rs, fr, n - 1)
    BY <1>1, <1>5 DEF RestingView
  <1>7. St = Tower(n + 1, A, R)
    BY <1>6 DEF FramesIn, Tower
  <1>8. St' = Tower(n, B, R)
    <2>1. \A i \in 1 .. n : fr[i - 1] = frames[i - 1] /\ i \in 1 .. n + 1
      BY <1>2, <1>3
    <2>2. n - 1 + 1 = n
      BY <1>2
    <2>3. St' = [i \in 1 .. n |-> [regs |-> [r \in Regs |-> ValueOf(rs[i - 1][r])], ret |-> fr[i - 1].ret]]
      BY <1>6, <2>2 DEF FramesIn
    <2> HIDE DEF rs, fr
    <2>4. \A i \in 1 .. n : R[i] = fr[i - 1].ret
      BY <2>1
    <2> HIDE DEF R
    <2> QED BY <2>3, <2>4 DEF Tower
  <1>9. ASSUME NEW i \in 1 .. n, NEW r \in Regs
        PROVE  B[i][r] = IF i = n /\ r = q THEN x ELSE A[i][r]
    <2>1. rs[i - 1][r] = IF i - 1 = n - 1 /\ r = q THEN t ELSE registers[i - 1][r]
      BY <1>2, <1>3
    <2>2. (i - 1 = n - 1 <=> i = n) /\ i \in 1 .. n + 1
      BY <1>2
    <2> HIDE DEF rs, t, q
    <2> QED BY <2>1, <2>2
  <1>10. Len(St) = n + 1 /\ St[n + 1].regs = [r \in Regs |-> ValueOf(registers[n][r])] /\ St[n + 1].ret = q
    <2>1. Len(St) = n + 1
      BY <1>2, <1>5, TopFrame
    <2>2. St[n + 1] = [regs |-> [r \in Regs |-> ValueOf(registers[n][r])], ret |-> q]
      BY <1>2, <1>5, <2>1, TopFrame
    <2> QED BY <2>1, <2>2
  <1>11. St[n + 1].regs[0] = x
    <2>1. 0 \in Regs
      BY GcAssumption DEF Regs
    <2> QED BY <1>10, <2>1
  <1>12. UNCHANGED <<Os, Mk>> /\ Rn' = ValueOf(Null)
    BY <1>1, <1>5 DEF RestingView
  <1>13. Ph = "running" /\ Ph' = "running"
    BY <1>1 DEF Ph
  <1> HIDE DEF A, B, R, x, q, t, rs, fr, n
  <1>14. SubSeq(St, 1, n) = Tower(n, A, R)
    BY <1>2, <1>7, FramesBelow
  <1>15. St' = SetLast(SubSeq(St, 1, n), q, x)
    <2>1. Tower(n, B, R) = SetLast(Tower(n, A, R), q, x)
      BY <1>1, <1>2, <1>4, <1>9, TowerSet
    <2> QED BY <1>8, <1>14, <2>1
  <1>16. Len(SubSeq(St, 1, n)) = n /\ Len(St') = n
    BY <1>2, <1>8, <1>14 DEF Tower
  <1>17. Len(St) - 1 = n /\ Len(St) = Len(St') + 1 /\ Len(St) > 1
    BY <1>1, <1>2, <1>10, <1>16
  <1>18. Rn' = Objects!Nothing
    BY <1>12 DEF Objects!Nothing, Objects!Plain, ValueOf, Null, Off
  <1>19. St' = [SubSeq(St, 1, Len(St) - 1) EXCEPT ![Len(St) - 1].regs[q] = x]
    BY <1>15, <1>16, <1>17 DEF SetLast
  <1>20. q = St[Len(St)].ret /\ x = St[Len(St)].regs[0]
    BY <1>10, <1>11
  <1>21. Objects!Return
    BY <1>12, <1>13, <1>17, <1>18, <1>19, <1>20 DEF Objects!Return, Objects!Frame, Os, St, Rn, Mk, Ph
  <1> QED BY <1>21 DEF Implemented, Objects!Next

-----------------------------------------------------------------------------
(* Lists in the making *)

\* An opcode, or the loader, begins a list of the values vs.
LEMMA BeginListStep ==
  ASSUME Sound, status \in {"run", "load"}, status' = "push", pending'.list = EmptyList,
         UNCHANGED <<heap, toSpace, registers, frames, currentFrame, currentFunction, fresh>>,
         NEW vs, vs = [n \in 1 .. Len(pending'.todo) |-> ValueOf(pending'.todo[n])],
         NEW kept \in BOOLEAN, kept <=> pending'.op \in {"list", "file_ls", "code_load"},
         NEW read \in BOOLEAN, read <=> pending'.op = "file_ls",
         \/ kept /\ ~read /\ vs \in Objects!Args(Objects!Held)
         \/ kept /\ read /\ \E ls \in Objects!Args(1 .. Len(LitLen)) : vs = Objects!Entries(ls)
         \/ ~read /\ \E fs \in {Module[f] : f \in Functions} : vs = Objects!Defined(fs)
  PROVE  Implemented
  <1>1. RestingView /\ RestingView'
    BY MutatorView
  <1>2. UNCHANGED <<Os, St, Rn>>
    BY <1>1 DEF RestingView, Null, ValueOf
  <1>3. Ph = "running" /\ Ph' = "making"
    BY DEF Ph
  <1>4. Objects!NoElement = ValueOf(EmptyList)
    BY DEF Objects!NoElement, Objects!Plain, ValueOf, EmptyList, Off
  <1>5. Mk' = Objects!Making(Objects!NoElement, vs, kept, read)
    <2>1. Mk' = [list |-> ValueOf(EmptyList), todo |-> vs,
                 kept |-> pending'.op \in {"list", "file_ls", "code_load"},
                 read |-> pending'.op = "file_ls"]
      BY <1>1 DEF RestingView, ListMade
    <2>2. (pending'.op \in {"list", "file_ls", "code_load"}) = kept /\ (pending'.op = "file_ls") = read
      OBVIOUS
    <2> QED BY <1>4, <2>1, <2>2 DEF Objects!Making
  <1>6. \/ \E q \in Objects!Args(Objects!Held) : Mk' = Objects!Making(Objects!NoElement, q, TRUE, FALSE)
        \/ \E ls \in Objects!Args(1 .. Len(LitLen)) :
             Mk' = Objects!Making(Objects!NoElement, Objects!Entries(ls), TRUE, TRUE)
        \/ \E fs \in {Module[f] : f \in Functions}, k \in BOOLEAN :
             Mk' = Objects!Making(Objects!NoElement, Objects!Defined(fs), k, FALSE)
    <2>1. CASE kept /\ ~read /\ vs \in Objects!Args(Objects!Held)
      <3>1. kept = TRUE /\ read = FALSE
        BY <2>1
      <3> QED BY <1>5, <2>1, <3>1
    <2>2. CASE kept /\ read /\ \E ls \in Objects!Args(1 .. Len(LitLen)) : vs = Objects!Entries(ls)
      <3>1. kept = TRUE /\ read = TRUE
        BY <2>2
      <3> QED BY <1>5, <2>2, <3>1
    <2>3. CASE ~read /\ \E fs \in {Module[f] : f \in Functions} : vs = Objects!Defined(fs)
      <3>1. read = FALSE
        BY <2>3
      <3> QED BY <1>5, <2>3, <3>1
    <2> QED BY <2>1, <2>2, <2>3
  <1>7. Objects!BeginList
    BY <1>2, <1>3, <1>6 DEF Objects!BeginList, Os, St, Rn, Mk, Ph
  <1> QED BY <1>7 DEF Implemented, Objects!Next

\* OP_LIST.
LEMMA ListStep ==
  ASSUME Sound, NEW r \in Regs, NEW os \in ArgLists(Regs), op_list(r, os)
  PROVE  Implemented
  <1> DEFINE vs == [n \in 1 .. Len(Vals(os)) |-> ValueOf(Vals(os)[n])]
  <1>1. /\ status = "run" /\ status' = "push"
        /\ UNCHANGED <<heap, toSpace, registers, frames, currentFrame, currentFunction, fresh>>
    BY DEF op_list, Runs, Stop
  <1>2. pending' = [Idle EXCEPT !.op = "list", !.ret = r, !.todo = Vals(os)]
    BY DEF op_list
  <1>3. pending'.list = EmptyList /\ pending'.todo = Vals(os) /\ pending'.op = "list"
    BY <1>2 DEF Idle
  <1>4. os \in ArgLists(Operands) /\ \A k \in 1 .. Len(os) : Readable(os[k])
    BY RegistersReadable
  <1>5. RestingView
    BY <1>1, MutatorView
  <1>6. vs \in Objects!Args(Objects!Held)
    BY <1>1, <1>4, <1>5, OperandsSeen DEF Sound
  <1>7. vs = [n \in 1 .. Len(pending'.todo) |-> ValueOf(pending'.todo[n])]
    BY <1>3
  <1> HIDE DEF vs
  <1>8. (TRUE <=> pending'.op \in {"list", "file_ls", "code_load"}) /\ (FALSE <=> pending'.op = "file_ls")
    BY <1>3
  <1> QED BY <1>1, <1>3, <1>6, <1>7, <1>8, BeginListStep

\* OP_FILE_LS, up to its loop.
LEMMA FileLsStep ==
  ASSUME Sound, NEW r \in Regs, NEW o, op_file_ls(r, o)
  PROVE  Implemented
  <1> DEFINE S == {k \in 1 .. Len(LitLen) : LitLen[k] \in TextLengths}
  <1>1. /\ status = "run" /\ status' = "push"
        /\ UNCHANGED <<heap, toSpace, registers, frames, currentFrame, currentFunction, fresh>>
    BY DEF op_file_ls, Runs, Stop
  <1>2. PICK names \in {<<>>} \cup ArgLists(S) :
          pending' = [Idle EXCEPT !.op = "file_ls", !.ret = r,
                                  !.todo = [n \in 1 .. Len(names) |-> Literal(names[n])]]
    BY DEF op_file_ls
  <1>3. names \in Seq(S) /\ Len(names) \in 0 .. MaxArgs
    <2>1. CASE names = <<>>
      BY <2>1, VmAssumption
    <2>2. CASE names \in ArgLists(S)
      <3> HIDE DEF S
      <3> QED BY <2>2, ArgsBounded
    <2> QED BY <1>2, <2>1, <2>2
  <1>4. pending'.list = EmptyList /\ pending'.op = "file_ls"
        /\ pending'.todo = [n \in 1 .. Len(names) |-> Literal(names[n])]
    BY <1>2 DEF Idle
  <1> DEFINE vs == [n \in 1 .. Len(pending'.todo) |-> ValueOf(pending'.todo[n])]
  <1>5. vs = Objects!Entries(names)
    <2>1. \A k : ValueOf(Literal(k)) = Objects!Plain("STRING", k)
      BY DEF ValueOf, Literal, Objects!Plain
    <2>2. /\ Len(pending'.todo) = Len(names)
          /\ \A n \in 1 .. Len(names) : pending'.todo[n] = Literal(names[n])
      BY <1>3, <1>4
    <2> QED BY <2>1, <2>2 DEF Objects!Entries
  <1>6. names \in Objects!Args(1 .. Len(LitLen))
    <2>1. \A n \in 1 .. Len(names) : names[n] \in 1 .. Len(LitLen)
      BY <1>3
    <2>2. names = [n \in 1 .. Len(names) |-> names[n]]
      BY <1>3
    <2> QED BY <1>3, <2>1, <2>2, ArgsSeen
  <1>7. (TRUE <=> pending'.op \in {"list", "file_ls", "code_load"}) /\ (TRUE <=> pending'.op = "file_ls")
    BY <1>4
  <1>8. \E ls \in Objects!Args(1 .. Len(LitLen)) : vs = Objects!Entries(ls)
    BY <1>5, <1>6
  <1> HIDE DEF vs
  <1> QED BY <1>1, <1>4, <1>7, <1>8, BeginListStep DEF vs

\* The names of a module's functions are values of the program.
LEMMA NamesSeen ==
  ASSUME NEW fs \in Seq(Functions)
  PROVE  [n \in 1 .. Len(Names(fs)) |-> ValueOf(Names(fs)[n])]
           = Objects!Defined(fs)
  <1>1. Len(Names(fs)) = Len(fs) /\ \A n \in 1 .. Len(fs) : Names(fs)[n] = Named(fs[n])
    BY DEF Names
  <1>2. \A f : ValueOf(Named(f)) = Objects!Plain("FUNCTION", f)
    BY DEF ValueOf, Named, Objects!Plain
  <1>3. \A n \in 1 .. Len(fs) : ValueOf(Names(fs)[n]) = Objects!Plain("FUNCTION", fs[n])
    BY <1>1, <1>2
  <1> QED BY <1>1, <1>3 DEF Objects!Defined

\* OP_CODE_LOAD, up to its loop.
LEMMA CodeLoadStep ==
  ASSUME Sound, NEW r \in Regs, NEW o, NEW f \in Functions, op_code_load(r, o, f)
  PROVE  Implemented
  <1> DEFINE fs == Module[f]
             vs == [n \in 1 .. Len(pending'.todo) |-> ValueOf(pending'.todo[n])]
  <1>1. /\ status = "run" /\ status' = "push"
        /\ UNCHANGED <<heap, toSpace, registers, frames, currentFrame, currentFunction, fresh>>
    BY DEF op_code_load, Runs, Stop
  <1>2. pending'.list = EmptyList /\ pending'.op = "code_load" /\ pending'.todo = Names(fs)
    BY DEF op_code_load, Idle
  <1>3. fs \in Seq(Functions) /\ fs \in {Module[g] : g \in Functions}
    BY VmAssumption
  <1> HIDE DEF fs
  <1>4. vs = Objects!Defined(fs)
    BY <1>2, <1>3, NamesSeen
  <1>5. \E x \in {Module[g] : g \in Functions} : vs = Objects!Defined(x)
    BY <1>3, <1>4
  <1>6. (TRUE <=> pending'.op \in {"list", "file_ls", "code_load"}) /\ (FALSE <=> pending'.op = "file_ls")
    BY <1>2
  <1> HIDE DEF vs
  <1> QED BY <1>1, <1>2, <1>5, <1>6, BeginListStep DEF vs

\* A module is loaded for an opcode that names a function.
LoadsFor == status = "load" => pending.op \in {"call", "capture"}

\* No module is loaded for an opcode yet.
LEMMA LoadsForInit ==
  ASSUME Init
  PROVE  LoadsFor
  BY DEF Init, LoadsFor

\* Only op_call, op_capture and the loader lead there.
LEMMA LoadsForNext ==
  ASSUME TextsFit, FrameInv, HeapInv, LoadsFor, [Next]_vars
  PROVE  LoadsFor'
  <1>1. CASE UNCHANGED vars
    BY <1>1 DEF LoadsFor, vars, gcVars, vmVars
  <1>2. CASE Next
    <2> SUFFICES ASSUME status' = "load"
                 PROVE  pending'.op \in {"call", "capture"}
      BY DEF LoadsFor
    <2>1. CASE Opcode
      <3>1. \/ \E r \in Regs :
                 \/ \E f \in Functions, args \in CallArgs : op_call(r, f, args)
                 \/ \E f \in Functions : op_capture(r, f)
            \/ \E r \in Regs :
                 \/ \E i \in Immediates : op_store(r, Immediate(i))
                 \/ \E k \in 1 .. Len(LitLen) : op_store(r, Literal(k))
                 \/ \E o \in Operands : op_mov(r, o)
                 \/ \E os \in ArgLists(Regs) : op_tuple(r, os)
                 \/ \E o \in Regs, index \in 0 .. MaxArgs : op_tuple_nth(r, o, index)
                 \/ \E o \in Regs, index \in 0 .. 3 * Branching : op_list_nth(r, o, index)
                 \/ \E o1, o2 \in Regs : op_concat(r, o1, o2)
                 \/ \E o \in Regs : op_string_slice(r, o)
                 \/ \E o \in Regs : op_to_string(r, o)
                 \/ op_file_pwd(r)
                 \/ \E os \in ArgLists(Operands) : op_anon_fn(r, os)
                 \/ \E o \in Operands, args \in CallArgs : op_call_local(r, o, args)
                 \/ \E os \in ArgLists(Regs) : op_list(r, os)
                 \/ \E o \in Regs : op_file_ls(r, o)
                 \/ \E o \in Regs, f \in Functions : op_code_load(r, o, f)
                 \/ op_gc_collect(r)
            \/ op_return \/ op_exit
        BY <2>1 DEF Opcode
      <3>2. ASSUME NEW r \in Regs, NEW f \in Functions,
                   op_capture(r, f) \/ \E args \in CallArgs : op_call(r, f, args)
            PROVE  pending'.op \in {"call", "capture"}
        BY <3>2 DEF op_capture, op_call, Call, Idle
      <3>3. ASSUME NEW r \in Regs,
                   \/ \E i \in Immediates : op_store(r, Immediate(i))
                   \/ \E k \in 1 .. Len(LitLen) : op_store(r, Literal(k))
                   \/ \E o \in Operands : op_mov(r, o)
                   \/ \E os \in ArgLists(Regs) : op_tuple(r, os)
                   \/ \E o \in Regs, index \in 0 .. MaxArgs : op_tuple_nth(r, o, index)
                   \/ \E o \in Regs, index \in 0 .. 3 * Branching : op_list_nth(r, o, index)
            PROVE  FALSE
        BY <3>3 DEF op_store, op_mov, op_tuple, op_tuple_nth, op_list_nth, SetsOnly, Build, Die, Runs
      <3>4. ASSUME NEW r \in Regs,
                   \/ \E o1, o2 \in Regs : op_concat(r, o1, o2)
                   \/ \E o \in Regs : op_string_slice(r, o)
                   \/ \E o \in Regs : op_to_string(r, o)
                   \/ op_file_pwd(r)
            PROVE  FALSE
        <4>1. status = "run"
          BY <3>4 DEF op_concat, op_string_slice, op_to_string, op_file_pwd, Runs
        <4>2. \A ps, len, bytes : ~MakeText(r, ps, len, bytes)
          <5> SUFFICES ASSUME NEW ps, NEW len, NEW bytes, MakeText(r, ps, len, bytes)
                       PROVE  FALSE
            OBVIOUS
          <5> DEFINE bs == <<[NewBlock("STRING", ps, len) EXCEPT !.size = align(bytes)]>>
          <5>1. Build(bs, r, Fresh("STRING", 1))
            BY DEF MakeText
          <5> QED BY <4>1, <5>1 DEF Build, Die
        <4>3. ~Stop("exit")
          BY DEF Stop
        <4>4. \A o1, o2 : ~op_concat(r, o1, o2)
          BY <4>2, <4>3 DEF op_concat
        <4>5. \A o : ~op_string_slice(r, o)
          BY <4>2, <4>3 DEF op_string_slice
        <4>6. ~op_file_pwd(r) /\ \A o : ~op_to_string(r, o)
          BY <4>2 DEF op_to_string, op_file_pwd
        <4> QED BY <3>4, <4>4, <4>5, <4>6
      <3>5. ASSUME NEW r \in Regs,
                   \/ \E os \in ArgLists(Operands) : op_anon_fn(r, os)
                   \/ \E o \in Operands, args \in CallArgs : op_call_local(r, o, args)
                   \/ \E os \in ArgLists(Regs) : op_list(r, os)
                   \/ \E o \in Regs : op_file_ls(r, o)
                   \/ \E o \in Regs, f \in Functions : op_code_load(r, o, f)
                   \/ op_gc_collect(r)
            PROVE  FALSE
        BY <3>5 DEF op_anon_fn, op_call_local, op_list, op_file_ls, op_code_load, op_gc_collect, setup_next_stackframe,
                    StartCollect, Stop, Build, Die, Runs
      <3>6. ~op_return /\ ~op_exit
        BY DEF op_return, op_exit, Runs, Stop
      <3> QED BY <3>1, <3>2, <3>3, <3>4, <3>5, <3>6
    <2>2. CASE Within
      <3>1. CASE vm_run_function
        BY <3>1 DEF vm_run_function, Call, Stop, Idle
      <3>2. CASE AfterSafepoint
        BY <3>2 DEF AfterSafepoint, vmVars
      <3>3. CASE ModuleDone
        <4>1. pending'.op = pending.op /\ (pending.op = "boot" => status' = "boot") /\ pending.op \in {"boot", "call", "capture"}
          BY <3>3, MutatorFacts DEF ModuleDone, Stop, VmTypeOK, Pending
        <4> QED BY <4>1
      <3>4. ~(load_function_miss \/ load_function_hit \/ ListDone \/ AfterCollect)
        BY DEF load_function_miss, load_function_hit, ListDone, AfterCollect, Stop, EndCollect,
               setup_next_stackframe, Die
      <3>5. ~owl_list_push /\ ~ReadEntry
        BY DEF owl_list_push, ReadEntry, Die
      <3>6. ~(CollectStep /\ UNCHANGED vmVars)
        BY CollectorCollects, CollectorSafe
      <3> QED BY <2>2, <3>1, <3>2, <3>3, <3>4, <3>5, <3>6 DEF Within
    <2>3. CASE Stopped
      BY <2>3 DEF Stopped, vars, gcVars
    <2> QED BY <1>2, <2>1, <2>2, <2>3 DEF Next
  <1> QED BY <1>1, <1>2

\* The module of a function is loaded.
LEMMA LoadMissStep ==
  ASSUME Sound, LoadsFor, load_function_miss
  PROVE  Implemented
  <1> DEFINE fs == Module[pending.fn]
             vs == [n \in 1 .. Len(pending'.todo) |-> ValueOf(pending'.todo[n])]
  <1>1. /\ status = "load" /\ status' = "push" /\ pending' = [pending EXCEPT !.todo = Names(fs)]
        /\ UNCHANGED <<heap, toSpace, registers, frames, currentFrame, currentFunction, fresh>>
    BY DEF load_function_miss, Stop
  <1>2. pending \in Pending /\ pending.list = EmptyList
    BY <1>1, MutatorFacts DEF Sound, VmTypeOK, PendingOK
  <1>3. pending.op \in {"call", "capture"} /\ pending.fn \in Functions
    BY <1>1, <1>2 DEF LoadsFor, Pending
  <1>4. fs \in Seq(Functions) /\ fs \in {Module[f] : f \in Functions}
    BY <1>3, VmAssumption
  <1> HIDE DEF fs
  <1>5. pending'.list = EmptyList /\ pending'.op \in {"call", "capture"} /\ pending'.todo = Names(fs)
    BY <1>1, <1>2, <1>3 DEF Pending
  <1>6. vs = Objects!Defined(fs)
    BY <1>4, <1>5, NamesSeen
  <1>7. \E x \in {Module[f] : f \in Functions} : vs = Objects!Defined(x)
    BY <1>4, <1>6
  <1>8. (FALSE <=> pending'.op \in {"list", "file_ls", "code_load"}) /\ (FALSE <=> pending'.op = "file_ls")
    BY <1>5
  <1> HIDE DEF vs
  <1> QED BY <1>1, <1>5, <1>7, <1>8, BeginListStep DEF vs

\* What is pushed is there, and there is room for it.
LEMMA ReadyToPush ==
  ASSUME FrameInv, HeapInv, status = "push", pending.todo # <<>>
  PROVE  /\ pending \in Pending /\ pending.todo \in Seq(Term) /\ ListIn(heap, toSpace, pending.list)
         /\ Head(pending.todo) \in Term /\ ValueIn(heap, Head(pending.todo), toSpace)
         /\ ListRoom(heap, toSpace, pending.list) >= 1
  <1> DEFINE p == pending.todo
             room == ListRoom(heap, toSpace, pending.list)
  <1>1. /\ pending \in Pending /\ p \in Seq(Term)
        /\ ListIn(heap, toSpace, pending.list) /\ ValuesIn(heap, toSpace, p) /\ Len(p) <= room
    BY MutatorFacts DEF VmTypeOK, PendingOK, Pending
  <1>2. room \in Int
    <2>1. Branching \in Nat
      BY VmAssumption
    <2>2. ASSUME NEW x, x = Arity(heap, toSpace, Kid(heap, toSpace, pending.list.slot, 2).slot),
                 pending.list # EmptyList
          PROVE  x \in Nat
      BY <1>1, <2>2, ListParts DEF ListIn, Arity
    <2> QED BY <2>1, <2>2 DEF ListRoom, Room
  <1>3. p # <<>>
    OBVIOUS
  <1> HIDE DEF p, room
  <1>4. Len(p) \in Nat /\ Len(p) >= 1 /\ Head(p) = p[1] /\ 1 \in 1 .. Len(p) /\ p[1] \in Term
    BY <1>1, <1>3
  <1>5. ValueIn(heap, Head(p), toSpace)
    BY <1>1, <1>4 DEF ValuesIn
  <1>6. room >= 1
    BY <1>1, <1>2, <1>4
  <1> QED BY <1>1, <1>4, <1>5, <1>6 DEF p, room

\* A push allocates a head and nodes.
LEMMA BlocksPushed ==
  ASSUME FrameInv, HeapInv, status = "push", pending.todo # <<>>,
         NEW bs, bs = PushBlocks(pending.list, Head(pending.todo))
  PROVE  /\ bs \in Seq(Block) /\ Len(bs) \in 1 .. 3 /\ bs[1].kind \in Heads
         /\ \A i \in 1 .. Len(bs) : i # 1 => bs[i].kind \in {"LEAF", "INTERNAL"}
         /\ 1 \in 1 .. Len(bs) /\ 2 \in 1 .. Len(bs)
  <1>1. /\ ListIn(heap, toSpace, pending.list) /\ ValueIn(heap, Head(pending.todo), toSpace)
        /\ ListRoom(heap, toSpace, pending.list) >= 1
    BY ReadyToPush
  <1>2. PICK rt, es, ns : PushedOK(heap, toSpace, bs, rt, es, ns)
    BY <1>1, PushBlocksOK
  <1>3. bs \in Seq(Block) /\ Len(bs) \in {2, 3} /\ bs[1].kind = "RRB"
    BY <1>2, MutatorFacts, PushedFits
  <1>4. bs[2].kind = "LEAF" /\ (Len(bs) = 3 => bs[3].kind = "INTERNAL")
    <2>1. \A k, q, x : NewBlock(k, q, x).kind = k
      BY DEF NewBlock
    <2>2. CASE bs = <<bs[1], bs[2]>>
      <3>1. Len(bs) = 2
        BY <2>2
      <3> QED BY <1>2, <2>1, <3>1 DEF PushedOK
    <2>3. CASE bs = <<bs[1], bs[2], NewBlock("INTERNAL", ns, 0)>>
      <3>1. bs[3] = NewBlock("INTERNAL", ns, 0)
        BY <2>3
      <3> QED BY <1>2, <2>1, <3>1 DEF PushedOK
    <2> QED BY <1>2, <2>2, <2>3 DEF PushedOK
  <1>5. \A m \in {2, 3} : /\ m \in 1 .. 3 /\ 1 \in 1 .. m /\ 2 \in 1 .. m
                          /\ \A i \in 1 .. m : i = 1 \/ i = 2 \/ (i = 3 /\ m = 3)
    OBVIOUS
  <1> QED BY <1>3, <1>4, <1>5 DEF Heads

\* The elements in a leaf.
LEMMA LeafSeen ==
  ASSUME NEW g, NEW T, NEW k, NEW q \in Seq(Term), Arity(g, T, k) = Len(q), \A m : Kid(g, T, k, m) = q[m]
  PROVE  CellIn(g, T, k).kids = Seen(q)
  BY DEF CellIn, Seen

\* The elements below a node.
NE(g, T, t) == NodeElems(CellsIn(g, T), ValueOf(t))

\* An allocation does not touch those that are there.
LEMMA NodeElemsSame ==
  ASSUME NEW h, NEW g, NEW T, Closed(h, T), Closed(g, T), TextsFit, NEW bs, Len(bs) \in Nat,
         Allocation(h, g, T, bs), NEW t, t = Null \/ NodeIn(h, t, T)
  PROVE  /\ t # Null => NodeIn(g, t, T) /\ Kind(g, T, t.slot) = Kind(h, T, t.slot)
         /\ \A k \in 1 .. Count(h, T) : CellIn(g, T, k) = CellIn(h, T, k)
         /\ NE(g, T, t) = NE(h, T, t)
  <1> DEFINE k == t.slot
             c == Count(h, T)
             l == Kid(h, T, k, 1).slot
             r == Kid(h, T, k, 2).slot
  <1>1. c \in Nat /\ Count(g, T) = c + Len(bs) /\ T \in Spaces
    BY HeapTyped DEF Closed, Allocation
  <1>2. \A n \in 1 .. c : /\ Kind(g, T, n) = Kind(h, T, n) /\ Arity(g, T, n) = Arity(h, T, n)
                          /\ \A m : Kid(g, T, n, m) = Kid(h, T, n, m)
    BY <1>1 DEF Allocation, SameBut
  <1>3. \A n \in 1 .. c : CellIn(g, T, n) = CellIn(h, T, n)
    BY <1>2 DEF CellIn
  <1>4. CASE t = Null
    <2>1. ~ValueOf(t).on
      BY <1>4 DEF ValueOf, Null
    <2> QED BY <1>3, <1>4, <2>1 DEF NE, NodeElems
  <1>5. CASE t # Null
    <2>1. NodeIn(h, t, T) /\ k \in 1 .. c /\ Kind(h, T, k) \in {"LEAF", "INTERNAL"}
      BY <1>5, NodeCell
    <2>2. NodeIn(g, t, T) /\ Kind(g, T, k) = Kind(h, T, k)
      <3>1. k \in 1 .. Count(g, T)
        BY <1>1, <2>1
      <3> QED BY <1>2, <2>1, <3>1 DEF NodeIn, RefersTo
    <2>3. CASE Kind(h, T, k) = "LEAF"
      <3>1. NE(h, T, t) = CellIn(h, T, k).kids
        BY <1>5, <2>1, <2>3, NodeElemsParts DEF NE
      <3>2. NE(g, T, t) = CellIn(g, T, k).kids
        BY <1>5, <2>2, <2>3, NodeElemsParts DEF NE
      <3> QED BY <1>3, <1>5, <2>1, <2>2, <3>1, <3>2
    <2>4. CASE Kind(h, T, k) = "INTERNAL"
      <3>1. /\ l \in 1 .. c /\ r \in 1 .. c
            /\ NE(h, T, t) = CellIn(h, T, l).kids \o CellIn(h, T, r).kids
        BY <2>1, <2>4, InternalParts DEF NE
      <3>2. NE(g, T, t) = CellIn(g, T, Kid(g, T, k, 1).slot).kids \o CellIn(g, T, Kid(g, T, k, 2).slot).kids
        BY <2>2, <2>4, InternalParts DEF NE
      <3>3. Kid(g, T, k, 1).slot = l /\ Kid(g, T, k, 2).slot = r
        BY <1>2, <2>1
      <3>4. CellIn(g, T, l) = CellIn(h, T, l) /\ CellIn(g, T, r) = CellIn(h, T, r)
        BY <1>3, <3>1
      <3> QED BY <1>3, <1>5, <2>2, <3>1, <3>2, <3>3, <3>4
    <2> QED BY <2>1, <2>3, <2>4
  <1> QED BY <1>4, <1>5

\* The first blocks of a list with the root rt and the tail es.
HeadAndTail(bs, h, T, rt, es) ==
  /\ bs[1] = NewBlock("RRB", <<rt, Ref("NODE", T, Count(h, T) + 2)>>, 0)
  /\ bs[2] = NewBlock("LEAF", es, 0)

\* A new list: what is below its root, and the leaf that is its tail.
LEMMA NewList ==
  ASSUME NEW h, NEW g, NEW T, Closed(g, T), TextsFit, NEW bs, Allocation(h, g, T, bs), Count(h, T) \in Nat,
         1 \in 1 .. Len(bs), 2 \in 1 .. Len(bs), Count(h, T) + 1 \in DOMAIN Objs(g, T),
         NEW rt, NEW es \in Seq(Term), HeadAndTail(bs, h, T, rt, es)
  PROVE  /\ rt = Null \/ NodeIn(g, rt, T)
         /\ Objs(g, T)[Count(h, T) + 1] = [kind |-> "LIST", kids |-> NE(g, T, rt) \o Seen(es)]
  <1> DEFINE c == Count(h, T)
             k == c + 1
             m == c + 2
             r2 == Ref("NODE", T, m)
             o == Objs(g, T)[k]
  <1>1. bs[1].kind = "RRB" /\ bs[1].kids = <<rt, r2>> /\ bs[2].kind = "LEAF" /\ bs[2].kids = es
    BY DEF NewBlock, HeadAndTail
  <1>2. Kind(g, T, k) = "RRB" /\ \A n : Kid(g, T, k, n) = bs[1].kids[n]
    BY <1>1 DEF Allocation
  <1>3. Arity(g, T, m) = Len(es) /\ \A n : Kid(g, T, m, n) = es[n]
    BY <1>1 DEF Allocation
  <1>4. r2.slot = m
    BY DEF Ref
  <1> HIDE DEF r2, m, k, c
  <1>5. Kid(g, T, k, 1) = rt /\ Kid(g, T, k, 2) = r2
    BY <1>1, <1>2
  <1>6. k \in DOMAIN Objs(g, T)
    BY DEF k, c
  <1>7. /\ rt = Null \/ NodeIn(g, rt, T)
        /\ o = [kind |-> "LIST", kids |-> NE(g, T, rt) \o CellIn(g, T, r2.slot).kids]
    BY <1>2, <1>5, <1>6, ObjectParts DEF NE
  <1>8. CellIn(g, T, m).kids = Seen(es)
    BY <1>3, LeafSeen
  <1> QED BY <1>4, <1>7, <1>8 DEF k, c

\* One more element.
LEMMA AppendConcat ==
  ASSUME NEW S, NEW p \in Seq(S), NEW q \in Seq(S), NEW v \in S
  PROVE  /\ p \o Append(q, v) = Append(p \o q, v)
         /\ <<>> \o q = q /\ q \o <<v>> = Append(q, v) /\ <<>> \o <<v>> = Append(<<>>, v)
  <1>1. <<>> \o q = q /\ q \o <<v>> = Append(q, v) /\ <<>> \o <<v>> = Append(<<>>, v)
    OBVIOUS
  <1> DEFINE a == p \o Append(q, v)
             b == Append(p \o q, v)
             m == Len(p)
             n == Len(q)
             pq == p \o q
             qv == Append(q, v)
  <1>2. /\ m \in Nat /\ n \in Nat /\ pq \in Seq(S) /\ Len(pq) = m + n
        /\ \A i \in 1 .. m : pq[i] = p[i]
    BY ConcatParts
  <1>3. \A i \in 1 .. m + n : i > m => pq[i] = q[i - m]
    BY ConcatParts
  <1>4. qv \in Seq(S) /\ Len(qv) = n + 1 /\ (\A i \in 1 .. n : qv[i] = q[i]) /\ qv[n + 1] = v
    OBVIOUS
  <1> HIDE DEF pq, qv
  <1>5. /\ b \in Seq(S) /\ Len(b) = m + n + 1
        /\ \A i \in 1 .. m + n : b[i] = pq[i]
        /\ b[m + n + 1] = v
    <2>1. b = Append(pq, v)
      BY DEF pq
    <2> HIDE DEF b, m, n
    <2> QED BY <1>2, <2>1
  <1>6. a \in Seq(S) /\ Len(a) = m + (n + 1)
    <2>1. a = p \o qv
      BY DEF qv
    <2> QED BY <1>4, <2>1, ConcatParts
  <1>7. \A i \in 1 .. m : a[i] = p[i]
    <2>1. a = p \o qv
      BY DEF qv
    <2> QED BY <1>4, <2>1, ConcatParts
  <1>8. \A i \in 1 .. m + (n + 1) : i > m => a[i] = qv[i - m]
    <2>1. a = p \o qv
      BY DEF qv
    <2> QED BY <1>4, <2>1, ConcatParts
  <1> HIDE DEF a, b, m, n
  <1>9. ASSUME NEW i \in 1 .. m + n + 1
        PROVE  a[i] = b[i]
    <2>0. m + (n + 1) = m + n + 1 /\ i \in Int
      BY <1>2
    <2>1. CASE i <= m
      <3>1. i \in 1 .. m /\ i \in 1 .. m + n
        BY <1>2, <2>1
      <3> QED BY <1>2, <1>5, <1>7, <3>1
    <2>2. CASE i > m /\ i <= m + n
      <3>1. i \in 1 .. m + n /\ i - m \in 1 .. n /\ i \in 1 .. m + (n + 1)
        BY <1>2, <2>2
      <3> QED BY <1>3, <1>4, <1>5, <1>8, <2>2, <3>1
    <2>3. CASE i = m + n + 1
      <3>1. i > m /\ i - m = n + 1 /\ i \in 1 .. m + (n + 1)
        BY <1>2, <2>3
      <3> QED BY <1>4, <1>5, <1>8, <2>3, <3>1
    <2> QED BY <1>2, <2>0, <2>1, <2>2, <2>3
  <1>10. Len(a) = Len(b)
    BY <1>2, <1>5, <1>6
  <1>11. a = b
    BY <1>5, <1>6, <1>9, <1>10, SeqSame
  <1> QED BY <1>1, <1>11 DEF a, b

\* The elements below a node are values.
LEMMA NodeElemsValues ==
  ASSUME NEW h, NEW T, Closed(h, T), TextsFit, NEW t, t = Null \/ NodeIn(h, t, T)
  PROVE  NE(h, T, t) \in Seq(AllValues) /\ (t = Null => NE(h, T, t) = <<>>)
  <1> DEFINE q == NodeElems(CellsIn(h, T), ValueOf(t))
             V == Values(h, T)
  <1>1. q \in Seq(V) /\ (t = Null => q = <<>>)
    BY NodeElemsParts
  <1>2. V \subseteq AllValues
    BY DEF Values, AllValues
  <1> HIDE DEF q, V
  <1>3. q \in Seq(AllValues)
    BY <1>1, <1>2
  <1> QED BY <1>1, <1>3 DEF NE, q

\* A new element, as a value.
LEMMA SeenAppend ==
  ASSUME NEW q \in Seq(Term), NEW t \in Term
  PROVE  /\ Seen(Append(q, t)) = Append(Seen(q), ValueOf(t)) /\ Append(q, t) \in Seq(Term)
         /\ Seen(<<t>>) = <<ValueOf(t)>> /\ <<t>> \in Seq(Term)
  <1>1. <<t>> \in Seq(Term) /\ Append(q, t) = q \o <<t>> /\ Append(q, t) \in Seq(Term)
    OBVIOUS
  <1>2. Seen(<<t>>) = <<ValueOf(t)>>
    BY DEF Seen
  <1>3. Seen(q \o <<t>>) = Seen(q) \o Seen(<<t>>)
    BY <1>1, SeenConcat
  <1>4. Seen(q) \in Seq(AllValues) /\ ValueOf(t) \in AllValues
    BY SeenParts DEF AllValues
  <1>5. Seen(q) \o <<ValueOf(t)>> = Append(Seen(q), ValueOf(t))
    BY <1>4, AppendConcat
  <1> QED BY <1>1, <1>2, <1>3, <1>5

\* The list there was.
LEMMA ListSeen ==
  ASSUME FrameInv, HeapInv, status \notin {"collect", "die"}, RestingView, TextsFit,
         NEW t, RefersTo(heap, t, toSpace), t.tag = "LIST"
  PROVE  Objects!Kids(ValueOf(t)) = NE(heap, toSpace, BlockOf(t).kids[1]) \o Seen(BlockOf(BlockOf(t).kids[2]).kids)
  <1> DEFINE T == toSpace
             k == t.slot
             root == BlockOf(t).kids[1]
             tail == BlockOf(t).kids[2]
             es == BlockOf(tail).kids
  <1>1. /\ root = Kid(heap, T, k, 1) /\ tail = Kid(heap, T, k, 2)
        /\ es \in Seq(Term) /\ es = heap[T][tail.slot].kids
    BY ListParts
  <1>2. Closed(heap, T) /\ Os = Objs(heap, T)
    BY RestingCloses DEF RestingView, Mutating
  <1>3. t.space = T /\ T # Off /\ ValueIn(heap, t, T)
    BY MutatorFacts, OtherSpace DEF RefersTo, ValueIn
  <1>4. k \in 1 .. Count(heap, T) /\ Kind(heap, T, k) = "RRB" /\ k \in DOMAIN Objs(heap, T)
    <2>1. k \in 1 .. Count(heap, T) /\ Kind(heap, T, k) \in Heads /\ t.tag = TagOf(Kind(heap, T, k))
          /\ k \in DOMAIN Objs(heap, T)
      BY <1>2, <1>3, ValuesAreObjects
    <2> QED BY <2>1 DEF Heads, TagOf
  <1>5. Arity(heap, T, tail.slot) = Len(es) /\ \A m : Kid(heap, T, tail.slot, m) = es[m]
    BY <1>1 DEF Arity, Kid
  <1>6. ValueOf(t).on /\ ValueOf(t).id = k
    BY <1>3 DEF ValueOf
  <1> HIDE DEF root, tail, es, k
  <1>7. Objs(heap, T)[k] = [kind |-> "LIST", kids |-> NE(heap, T, root) \o CellIn(heap, T, tail.slot).kids]
    BY <1>1, <1>2, <1>4, ObjectParts DEF NE
  <1>8. CellIn(heap, T, tail.slot).kids = Seen(es)
    BY <1>1, <1>5, LeafSeen
  <1>9. Objects!Kids(ValueOf(t)) = Os[k].kids
    BY <1>6 DEF Objects!Kids, Os
  <1> QED BY <1>2, <1>7, <1>8, <1>9 DEF root, tail, es, k

\* What rrb_nth finds below a node is what is seen there.
LEMMA BelowSeen ==
  ASSUME FrameInv, HeapInv, status \notin {"collect", "die"}, TextsFit, Closed(heap, toSpace),
         NEW t, t = Null \/ NodeIn(heap, t, toSpace)
  PROVE  NE(heap, toSpace, t) = Seen(Below(t)) /\ Below(t) \in Seq(Term)
  <1> DEFINE T == toSpace
             k == t.slot
             x == BlockOf(t).kids[1]
             y == BlockOf(t).kids[2]
  <1>1. heap \in Heaps /\ T \in Spaces /\ Below(t) \in Seq(Term)
    BY MutatorFacts, ElementsBelow
  <1>2. ASSUME NEW m \in 1 .. Count(heap, T), NEW u, u.space = T, u.slot = m
        PROVE  BlockOf(u).kids \in Seq(Term) /\ CellIn(heap, T, m).kids = Seen(BlockOf(u).kids)
               /\ BlockOf(u).kind = Kind(heap, T, m)
    <2>1. BlockOf(u) = heap[T][m] /\ heap[T][m] \in Block
      BY <1>1, <1>2, HeapTyped DEF BlockOf
    <2>2. BlockOf(u).kids \in Seq(Term)
      BY <2>1 DEF Block
    <2>3. Arity(heap, T, m) = Len(BlockOf(u).kids) /\ \A n : Kid(heap, T, m, n) = BlockOf(u).kids[n]
      BY <2>1 DEF Arity, Kid
    <2>4. CellIn(heap, T, m).kids = Seen(BlockOf(u).kids)
      BY <2>2, <2>3, LeafSeen
    <2> QED BY <2>1, <2>2, <2>4 DEF Kind
  <1>3. CASE t = Null
    <2>1. Below(t) = <<>> /\ NE(heap, T, t) = <<>>
      BY <1>3, NodeElemsValues DEF Below
    <2>2. Seen(<<>>) = <<>>
      BY DEF Seen
    <2> QED BY <1>1, <2>1, <2>2
  <1>4. CASE t # Null
    <2>1. /\ NodeIn(heap, t, T) /\ k \in 1 .. Count(heap, T) /\ t.space = T
          /\ Kind(heap, T, k) \in {"LEAF", "INTERNAL"}
      BY <1>4, NodeCell
    <2>2. CASE Kind(heap, T, k) = "LEAF"
      <3>1. NE(heap, T, t) = CellIn(heap, T, k).kids
        BY <1>4, <2>2, NodeElemsParts DEF NE
      <3>2. Below(t) = BlockOf(t).kids
        BY <1>2, <1>4, <2>1, <2>2 DEF Below
      <3> QED BY <1>1, <1>2, <2>1, <3>1, <3>2
    <2>3. CASE Kind(heap, T, k) = "INTERNAL"
      <3> DEFINE l == Kid(heap, T, k, 1)
                 r == Kid(heap, T, k, 2)
      <3>1. /\ l.slot \in 1 .. Count(heap, T) /\ r.slot \in 1 .. Count(heap, T)
            /\ NE(heap, T, t) = CellIn(heap, T, l.slot).kids \o CellIn(heap, T, r.slot).kids
        BY <2>1, <2>3, InternalParts DEF NE
      <3>2. l.space = T /\ r.space = T
        BY <2>1, <2>3, ClosedKids, NodeCell
      <3>3. x = l /\ y = r
        BY <2>1 DEF BlockOf, Kid
      <3>4. Below(t) = BlockOf(x).kids \o BlockOf(y).kids
        BY <1>2, <1>4, <2>1, <2>3 DEF Below
      <3> HIDE DEF l, r, x, y
      <3>5. /\ BlockOf(x).kids \in Seq(Term) /\ CellIn(heap, T, l.slot).kids = Seen(BlockOf(x).kids)
            /\ BlockOf(y).kids \in Seq(Term) /\ CellIn(heap, T, r.slot).kids = Seen(BlockOf(y).kids)
        BY <1>2, <3>1, <3>2, <3>3
      <3>6. Seen(BlockOf(x).kids \o BlockOf(y).kids) = Seen(BlockOf(x).kids) \o Seen(BlockOf(y).kids)
        BY <3>5, SeenConcat
      <3> QED BY <1>1, <3>1, <3>4, <3>5, <3>6
    <2> QED BY <2>1, <2>2, <2>3
  <1> QED BY <1>3, <1>4

\* What op_list_nth finds for all indices is what the list is made of.
LEMMA ElemsSeen ==
  ASSUME FrameInv, HeapInv, status \notin {"collect", "die"}, RestingView, TextsFit,
         NEW t, RefersTo(heap, t, toSpace), t.tag = "LIST"
  PROVE  Objects!Kids(ValueOf(t)) = Seen(ListElems(t)) /\ ListElems(t) \in Seq(Term)
  <1> DEFINE T == toSpace
             root == BlockOf(t).kids[1]
             tail == BlockOf(t).kids[2]
             es == BlockOf(tail).kids
  <1>1. /\ (root = Null \/ NodeIn(heap, root, T)) /\ NodeIn(heap, tail, T)
        /\ Kind(heap, T, tail.slot) = "LEAF" /\ es \in Seq(Term) /\ es = heap[T][tail.slot].kids
    BY ListParts
  <1>2. Objects!Kids(ValueOf(t)) = NE(heap, T, root) \o Seen(es)
    BY ListSeen
  <1>3. Closed(heap, T)
    BY RestingCloses DEF RestingView, Mutating
  <1>4. t.space # Off
    BY MutatorFacts, OtherSpace DEF RefersTo
  <1>5. ListElems(t) = Below(root) \o Below(tail)
    BY <1>4 DEF ListElems
  <1>6. tail # Null /\ tail.space = T
    BY <1>1, <1>3, NodeCell DEF Null, ValueOf
  <1>7. Below(tail) = es
    <2>1. BlockOf(tail).kind = "LEAF"
      BY <1>1, <1>6 DEF BlockOf, Kind
    <2> QED BY <1>6, <2>1 DEF Below
  <1> HIDE DEF root, tail, es
  <1>8. NE(heap, T, root) = Seen(Below(root)) /\ Below(root) \in Seq(Term)
    BY <1>1, <1>3, BelowSeen
  <1>9. Seen(Below(root) \o es) = Seen(Below(root)) \o Seen(es) /\ Below(root) \o es \in Seq(Term)
    BY <1>1, <1>8, SeenConcat, ConcatParts
  <1> QED BY <1>2, <1>5, <1>7, <1>8, <1>9

\* OP_LIST_NTH: an element, or nil.
LEMMA ListNthStep ==
  ASSUME Sound, NEW r \in Regs, NEW o \in Regs, NEW index \in 0 .. 3 * Branching, op_list_nth(r, o, index)
  PROVE  Implemented
  <1> DEFINE t == get_var(o)
             q == ListElems(t)
             u == Nth(q, index)
  <1>1. status = "run" /\ status' = "run" /\ set_reg(r, u) /\ t.tag = "LIST"
        /\ UNCHANGED <<heap, toSpace, frames, currentFrame, currentFunction, fresh>>
    BY DEF op_list_nth, Runs, SetsOnly, vmVars
  <1>2. RestingView /\ FrameInv /\ HeapInv /\ WithinLimits /\ TextsFit
    BY <1>1, MutatorView DEF Sound
  <1>3. o \in Operands /\ Readable(o)
    BY RegistersReadable
  <1>4. ValueOf(t) \in Objects!Held /\ ValueIn(heap, t, toSpace)
    BY <1>1, <1>2, <1>3, OperandSeen, OperandValue
  <1>5. CASE u = Nil
    <2> HIDE DEF u
    <2>1. Objects!IsConstant(ValueOf(u))
      BY <1>5 DEF Objects!IsConstant, Objects!NilVal, Objects!Plain, ValueOf, Nil
    <2> QED BY <1>1, <2>1, ComputeStep
  <1>6. CASE u # Nil
    <2>1. index < Len(q) /\ u = q[index + 1]
      BY <1>6 DEF Nth
    <2>2. t.space # Off
      <3>1. CASE t.space = Off
        <4>1. q = <<>>
          BY <3>1 DEF ListElems
        <4>2. index \in Nat
          BY VmAssumption
        <4> HIDE DEF q
        <4> QED BY <2>1, <4>1, <4>2
      <3> QED BY <3>1
    <2>3. RefersTo(heap, t, toSpace)
      BY <1>4, <2>2 DEF ValueIn, OffValue
    <2>4. Objects!Kids(ValueOf(t)) = Seen(q) /\ q \in Seq(Term)
      BY <1>1, <1>2, <2>3, ElemsSeen
    <2> HIDE DEF t, q
    <2>5. index + 1 \in 1 .. Len(q)
      BY <2>1, <2>4, VmAssumption
    <2>6. Seen(q)[index + 1] = ValueOf(u) /\ Len(Seen(q)) = Len(q)
      BY <2>1, <2>4, <2>5, SeenParts
    <2> HIDE DEF u
    <2>7. ValueOf(u) \in Objects!Elems(Objects!Kids(ValueOf(t)))
      BY <2>4, <2>5, <2>6 DEF Objects!Elems
    <2>8. ValueOf(t).tag = "LIST"
      BY <1>1 DEF ValueOf
    <2>9. Objects!IsPart(ValueOf(u))
      BY <1>4, <2>7, <2>8 DEF Objects!IsPart
    <2> QED BY <1>1, <2>9, ComputeStep
  <1> QED BY <1>5, <1>6

\* A list that nothing was pushed onto is no object.
LEMMA NothingPushed == ~ValueOf(EmptyList).on
  BY DEF ValueOf, EmptyList

\* A pushed list has the elements of the old one, and the new one.
LEMMA PushedSeen ==
  ASSUME Sound, status = "push", RestingView, pending.todo # <<>>,
         NEW bs, bs = PushBlocks(pending.list, Head(pending.todo)),
         NEW g, Allocation(heap, g, toSpace, bs), Closed(heap, toSpace), Closed(g, toSpace),
         Count(heap, toSpace) + 1 \in DOMAIN Objs(g, toSpace)
  PROVE  Objs(g, toSpace)[Count(heap, toSpace) + 1]
           = [kind |-> "LIST", kids |-> Append(Objects!Kids(ValueOf(pending.list)), ValueOf(Head(pending.todo)))]
  <1> DEFINE list == pending.list
             elem == Head(pending.todo)
             T    == toSpace
             c    == Count(heap, T)
             root == BlockOf(list).kids[1]
             tail == BlockOf(list).kids[2]
             es   == BlockOf(tail).kids
             hd(rt) == NewBlock("RRB", <<rt, Ref("NODE", T, c + 2)>>, 0)
             lf(q)  == NewBlock("LEAF", q, 0)
             v    == ValueOf(elem)
             K    == Objects!Kids(ValueOf(list))
             o    == Objs(g, T)[c + 1]
  <1>1. FrameInv /\ HeapInv /\ TextsFit
    BY DEF Sound
  <1>2. /\ elem \in Term /\ ListIn(heap, T, list)
        /\ 1 \in 1 .. Len(bs) /\ 2 \in 1 .. Len(bs) /\ Len(bs) \in Nat
    BY <1>1, ReadyToPush, BlocksPushed
  <1>3. \A k : Fresh("NODE", k) = Ref("NODE", T, c + k)
    BY DEF Fresh, Count
  <1>4. c \in Nat /\ T \in Spaces
    BY HeapTyped DEF Closed
  <1>5. v \in AllValues /\ <<>> \in Seq(AllValues) /\ <<>> \in Seq(Term)
    BY <1>2 DEF AllValues
  <1>6. ASSUME NEW rt, NEW q \in Seq(Term), bs[1] = hd(rt), bs[2] = lf(q)
        PROVE  /\ rt = Null \/ NodeIn(g, rt, T)
               /\ o = [kind |-> "LIST", kids |-> NE(g, T, rt) \o Seen(q)]
    <2>1. HeadAndTail(bs, heap, T, rt, q) /\ TextsFit
      BY <1>1, <1>6 DEF HeadAndTail
    <2>2. c + 1 \in DOMAIN Objs(g, T) /\ Closed(g, T) /\ Allocation(heap, g, T, bs)
      OBVIOUS
    <2>3. 1 \in 1 .. Len(bs) /\ 2 \in 1 .. Len(bs)
      BY <1>2
    <2> HIDE DEF hd, lf, T, c, elem, list, root, tail, es, v, K, o
    <2>4. /\ rt = Null \/ NodeIn(g, rt, T)
          /\ Objs(g, T)[c + 1] = [kind |-> "LIST", kids |-> NE(g, T, rt) \o Seen(q)]
      BY <1>4, <2>1, <2>2, <2>3, NewList DEF c
    <2> QED BY <2>4 DEF o
  <1>7. Seen(<<elem>>) = <<v>> /\ <<elem>> \in Seq(Term)
    <2> HIDE DEF elem
    <2> QED BY <1>2, <1>5, SeenAppend
  <1>8. CASE list = EmptyList
    <2> DEFINE h1 == hd(Null)
               l1 == lf(<<elem>>)
    <2>1. bs = <<h1, l1>>
      BY <1>3, <1>8 DEF PushBlocks
    <2>2. h1 = hd(Null) /\ l1 = lf(<<elem>>)
      OBVIOUS
    <2> HIDE DEF h1, l1
    <2>3. bs[1] = h1 /\ bs[2] = l1
      BY <2>1
    <2> HIDE DEF hd, lf, o, v
    <2>4. o = [kind |-> "LIST", kids |-> NE(g, T, Null) \o Seen(<<elem>>)]
      BY <1>6, <1>7, <2>2, <2>3
    <2>5. NE(g, T, Null) = <<>>
      BY <1>1, NodeElemsValues
    <2>6. K = <<>>
      <3>1. ~ValueOf(list).on
        BY <1>8, NothingPushed
      <3> QED BY <3>1 DEF Objects!Kids
    <2>7. <<>> \o <<v>> = Append(<<>>, v)
      BY <1>5, AppendConcat
    <2> QED BY <1>7, <2>4, <2>5, <2>6, <2>7 DEF o, v
  <1>9. CASE list # EmptyList
    <2>1. RefersTo(heap, list, T) /\ list.tag = "LIST"
      BY <1>2, <1>9 DEF ListIn
    <2>2. /\ root \in Term /\ (root = Null \/ NodeIn(heap, root, T))
          /\ NodeIn(heap, tail, T) /\ Kind(heap, T, tail.slot) = "LEAF"
          /\ es \in Seq(Term) /\ es = heap[T][tail.slot].kids
      BY <1>1, <2>1, ListParts
    <2>3. K = NE(heap, T, root) \o Seen(es)
      BY <1>1, <2>1, ListSeen
    <2> DEFINE r3 == Ref("NODE", T, c + 3)
               in == NewBlock("INTERNAL", <<root, tail, Null>>, 0)
    <2>4. bs = IF Len(es) < Branching THEN <<hd(root), lf(Append(es, elem))>>
               ELSE IF root = Null THEN <<hd(tail), lf(<<elem>>)>>
               ELSE <<hd(r3), lf(<<elem>>), in>>
      BY <1>3, <1>9 DEF PushBlocks, Grown
    <2>5. tail # Null /\ tail.slot \in 1 .. c
      BY <2>2, NodeCell DEF Null, ValueOf
    <2> HIDE DEF list, elem, K, o, v, root, tail, es, c, hd, lf, in, r3
    <2>6. NE(heap, T, root) \in Seq(AllValues) /\ (root = Null => NE(heap, T, root) = <<>>)
          /\ Seen(es) \in Seq(AllValues)
      BY <1>1, <2>2, NodeElemsValues, SeenParts
    <2>7. NE(heap, T, tail) = Seen(es)
      <3>1. NE(heap, T, tail) = CellIn(heap, T, tail.slot).kids
        BY <1>1, <2>2, <2>5, NodeElemsParts DEF NE
      <3>2. Arity(heap, T, tail.slot) = Len(es) /\ \A m : Kid(heap, T, tail.slot, m) = es[m]
        BY <2>2 DEF Arity, Kid
      <3> QED BY <2>2, <3>1, <3>2, LeafSeen
    <2>8. /\ NE(g, T, root) = NE(heap, T, root) /\ NE(g, T, tail) = NE(heap, T, tail)
          /\ CellIn(g, T, tail.slot) = CellIn(heap, T, tail.slot)
          /\ root # Null => NodeIn(g, root, T) /\ Kind(g, T, root.slot) = Kind(heap, T, root.slot)
          /\ NodeIn(g, tail, T) /\ Kind(g, T, tail.slot) = "LEAF"
      BY <1>1, <1>2, <2>2, <2>5, NodeElemsSame DEF c
    <2>9. CASE Len(es) < Branching
      <3> DEFINE q == Append(es, elem)
                 h1 == hd(root)
                 l1 == lf(q)
      <3>1. q \in Seq(Term) /\ Seen(q) = Append(Seen(es), v)
        BY <1>2, <2>2, SeenAppend DEF v
      <3>2. bs = <<h1, l1>>
        BY <2>4, <2>9
      <3>3. h1 = hd(root) /\ l1 = lf(q)
        OBVIOUS
      <3> HIDE DEF h1, l1, q
      <3>4. bs[1] = h1 /\ bs[2] = l1
        BY <3>2
      <3>5. o = [kind |-> "LIST", kids |-> NE(g, T, root) \o Seen(q)]
        BY <1>6, <3>1, <3>3, <3>4
      <3>6. NE(heap, T, root) \o Append(Seen(es), v) = Append(K, v)
        BY <1>5, <2>3, <2>6, AppendConcat
      <3> QED BY <2>8, <3>1, <3>5, <3>6 DEF o, v, K, list, elem, c
    <2>10. CASE ~(Len(es) < Branching) /\ root = Null
      <3> DEFINE h1 == hd(tail)
                 l1 == lf(<<elem>>)
      <3>2. bs = <<h1, l1>>
        BY <2>4, <2>10
      <3>3. h1 = hd(tail) /\ l1 = lf(<<elem>>)
        OBVIOUS
      <3> HIDE DEF h1, l1
      <3>4. bs[1] = h1 /\ bs[2] = l1
        BY <3>2
      <3>5. o = [kind |-> "LIST", kids |-> NE(g, T, tail) \o <<v>>]
        BY <1>6, <1>7, <3>3, <3>4
      <3>6. <<>> \o Seen(es) = Seen(es) /\ Seen(es) \o <<v>> = Append(Seen(es), v)
        BY <1>5, <2>6, AppendConcat
      <3> QED BY <2>3, <2>6, <2>7, <2>8, <2>10, <3>5, <3>6 DEF o, v, K, list, elem, c
    <2>11. CASE ~(Len(es) < Branching) /\ root # Null
      <3> DEFINE h1 == hd(r3)
                 l1 == lf(<<elem>>)
      <3>2. bs = <<h1, l1, in>>
        BY <2>4, <2>11
      <3>3. h1 = hd(r3) /\ l1 = lf(<<elem>>)
        OBVIOUS
      <3> HIDE DEF h1, l1
      <3>4. bs[1] = h1 /\ bs[2] = l1 /\ bs[3] = in /\ 3 \in 1 .. Len(bs)
        BY <3>2
      <3>5. o = [kind |-> "LIST", kids |-> NE(g, T, r3) \o <<v>>] /\ (r3 = Null \/ NodeIn(g, r3, T))
        BY <1>6, <1>7, <3>3, <3>4
      <3>6. r3.slot = c + 3 /\ r3 # Null
        BY <1>4, OtherSpace DEF r3, Ref, Null
      <3>7. in.kind = "INTERNAL" /\ in.kids = <<root, tail, Null>>
        BY DEF in, NewBlock
      <3>8. Kind(g, T, c + 3) = "INTERNAL" /\ \A m : Kid(g, T, c + 3, m) = in.kids[m]
        BY <3>4, <3>7 DEF Allocation, c
      <3>9. Kid(g, T, c + 3, 1) = root /\ Kid(g, T, c + 3, 2) = tail
        BY <3>7, <3>8
      <3>10. Kind(g, T, root.slot) = "LEAF" /\ NE(g, T, r3) = CellIn(g, T, root.slot).kids \o CellIn(g, T, tail.slot).kids
        BY <1>1, <3>5, <3>6, <3>8, <3>9, InternalParts DEF NE
      <3>11. CellIn(g, T, root.slot).kids = NE(g, T, root) /\ CellIn(g, T, tail.slot).kids = NE(g, T, tail)
        BY <1>1, <2>5, <2>8, <2>11, <3>10, NodeElemsParts DEF NE
      <3>12. NE(g, T, r3) = K
        BY <2>3, <2>7, <2>8, <3>10, <3>11
      <3>13. K \in Seq(AllValues)
        BY <2>3, <2>6, ConcatParts
      <3>14. K \o <<v>> = Append(K, v)
        BY <1>5, <3>13, AppendConcat
      <3> QED BY <3>5, <3>12, <3>14 DEF o, v, K, list, elem, c
    <2> QED BY <2>9, <2>10, <2>11
  <1> QED BY <1>8, <1>9

\* The first of the values to come, and the others.
LEMMA SeenRest ==
  ASSUME NEW q \in Seq(Term), q # <<>>
  PROVE  Seen(q) # <<>> /\ Head(Seen(q)) = ValueOf(Head(q)) /\ Tail(Seen(q)) = Seen(Tail(q))
  <1> DEFINE n == Len(q)
             r == Tail(q)
             Q == Seen(q)
             R == Seen(r)
  <1>1. /\ n \in Nat /\ n >= 1 /\ r \in Seq(Term) /\ Len(r) = n - 1 /\ Head(q) = q[1]
        /\ \A k \in 1 .. n - 1 : r[k] = q[k + 1]
    OBVIOUS
  <1>2. Q \in Seq(AllValues) /\ Len(Q) = n /\ \A k \in 1 .. n : Q[k] = ValueOf(q[k])
    BY SeenParts
  <1>3. R \in Seq(AllValues) /\ Len(R) = Len(r) /\ \A k \in 1 .. Len(r) : R[k] = ValueOf(r[k])
    <2>1. r \in Seq(Term)
      BY <1>1
    <2> HIDE DEF r
    <2> QED BY <2>1, SeenParts
  <1> HIDE DEF n, r, Q, R
  <1>4. Q # <<>> /\ Head(Q) = Q[1] /\ 1 \in 1 .. n
    BY <1>1, <1>2
  <1>5. /\ Tail(Q) \in Seq(AllValues) /\ Len(Tail(Q)) = n - 1
        /\ \A k \in 1 .. n - 1 : Tail(Q)[k] = Q[k + 1]
    BY <1>1, <1>2
  <1>6. \A k \in 1 .. n - 1 : k + 1 \in 1 .. n
    BY <1>1
  <1>7. \A k \in 1 .. n - 1 : Tail(Q)[k] = R[k]
    BY <1>1, <1>2, <1>3, <1>5, <1>6
  <1> DEFINE X == Tail(Q)
  <1> HIDE DEF X
  <1>8. X = R
    <2>1. X \in Seq(AllValues) /\ Len(X) = Len(R) /\ \A k \in 1 .. Len(X) : X[k] = R[k]
      BY <1>1, <1>3, <1>5, <1>7 DEF X
    <2> QED BY <1>3, <2>1, SeqSame
  <1> QED BY <1>1, <1>2, <1>4, <1>8 DEF X, Q, R, r

\* The list in the making, before and after a push or the text of a name.
LEMMA ListInProgress ==
  ASSUME RestingView, RestingView', status = "push", status' = "push", pending'.op = pending.op
  PROVE  /\ Mk.list = ValueOf(pending.list) /\ Mk.todo = Seen(pending.todo)
         /\ Mk.read <=> pending.op = "file_ls"
         /\ Mk' = [Mk EXCEPT !.list = ValueOf(pending'.list), !.todo = Seen(pending'.todo)]
         /\ DOMAIN Mk = {"list", "todo", "kept", "read"}
  <1> DEFINE given == pending.op \in {"list", "file_ls", "code_load"}
             named == pending.op = "file_ls"
  <1>1. Mk = [list |-> ValueOf(pending.list), todo |-> Seen(pending.todo), kept |-> given, read |-> named]
    BY DEF RestingView, ListMade, Seen
  <1>2. Mk' = [list |-> ValueOf(pending'.list), todo |-> Seen(pending'.todo),
               kept |-> pending'.op \in {"list", "file_ls", "code_load"},
               read |-> pending'.op = "file_ls"]
    BY DEF RestingView, ListMade, Seen
  <1>3. (pending'.op \in {"list", "file_ls", "code_load"}) = given /\ (pending'.op = "file_ls") = named
    OBVIOUS
  <1>4. Mk' = [list |-> ValueOf(pending'.list), todo |-> Seen(pending'.todo), kept |-> given, read |-> named]
    BY <1>2, <1>3
  <1>5. Mk.read <=> named
    BY <1>1
  <1> HIDE DEF given, named
  <1>6. Mk' = [Mk EXCEPT !.list = ValueOf(pending'.list), !.todo = Seen(pending'.todo)]
    <2> DEFINE l == ValueOf(pending'.list)
               q == Seen(pending'.todo)
               M == [Mk EXCEPT !.list = l]
    <2> HIDE DEF l, q
    <2>1. M = [list |-> l, todo |-> Seen(pending.todo), kept |-> given, read |-> named]
      BY <1>1
    <2>2. [Mk EXCEPT !.list = l, !.todo = q] = [M EXCEPT !.todo = q]
      OBVIOUS
    <2> HIDE DEF M
    <2>3. [M EXCEPT !.todo = q] = [list |-> l, todo |-> q, kept |-> given, read |-> named]
      BY <2>1
    <2>4. Mk' = [list |-> l, todo |-> q, kept |-> given, read |-> named]
      BY <1>4 DEF l, q
    <2>5. Mk' = [Mk EXCEPT !.list = l, !.todo = q]
      BY <2>2, <2>3, <2>4
    <2> QED BY <2>5 DEF l, q
  <1> QED BY <1>1, <1>5, <1>6 DEF named

\* The next name has no text of its own yet.
LEMMA UnreadSeen ==
  ASSUME RestingView, RestingView', status = "push", status' = "push", pending'.op = pending.op,
         pending.todo \in Seq(Term), pending.todo # <<>>
  PROVE  Unread <=> Mk.read /\ Mk.todo # <<>> /\ ~Head(Mk.todo).on
  <1> DEFINE t == Head(pending.todo)
  <1>1. Mk.todo = Seen(pending.todo) /\ (Mk.read <=> pending.op = "file_ls")
    BY ListInProgress
  <1>2. Mk.todo # <<>> /\ Head(Mk.todo) = ValueOf(t)
    BY <1>1, SeenRest
  <1>3. ValueOf(t).on <=> t.space # Off
    BY DEF ValueOf
  <1> HIDE DEF t
  <1> QED BY <1>1, <1>2, <1>3 DEF Unread, t

\* A sequence of terms with another first one, as values.
LEMMA SeenFirst ==
  ASSUME NEW p \in Seq(Term), p # <<>>, NEW t \in Term
  PROVE  Seen([p EXCEPT ![1] = t]) = [Seen(p) EXCEPT ![1] = ValueOf(t)]
  <1> DEFINE q == [p EXCEPT ![1] = t]
             n == Len(p)
             P == Seen(p)
             Q == Seen(q)
             R == [P EXCEPT ![1] = ValueOf(t)]
  <1>1. n \in Nat /\ 1 \in 1 .. n /\ q \in Seq(Term) /\ Len(q) = n
        /\ q[1] = t /\ \A k \in 1 .. n : k # 1 => q[k] = p[k]
    OBVIOUS
  <1>2. P \in Seq(AllValues) /\ Len(P) = n /\ \A k \in 1 .. n : P[k] = ValueOf(p[k])
    BY SeenParts
  <1> HIDE DEF q, P
  <1>3. Q \in Seq(AllValues) /\ Len(Q) = n /\ \A k \in 1 .. n : Q[k] = ValueOf(q[k])
    BY <1>1, SeenParts
  <1>4. ValueOf(t) \in AllValues
    BY DEF AllValues
  <1> HIDE DEF n, Q
  <1> DEFINE v == ValueOf(t)
  <1> HIDE DEF v
  <1>5. R \in Seq(AllValues) /\ Len(R) = n /\ R[1] = v /\ \A k \in 1 .. n : k # 1 => R[k] = P[k]
    BY <1>1, <1>2, <1>4 DEF v
  <1> HIDE DEF R
  <1>6. \A k \in 1 .. n : Q[k] = R[k]
    <2> SUFFICES ASSUME NEW k \in 1 .. n
                 PROVE  Q[k] = R[k]
      OBVIOUS
    <2>1. CASE k = 1
      BY <1>1, <1>3, <1>5, <2>1 DEF v
    <2>2. CASE k # 1
      BY <1>1, <1>2, <1>3, <1>5, <2>2
    <2> QED BY <2>1, <2>2
  <1>7. Q = R
    BY <1>3, <1>5, <1>6, SeqSame
  <1> QED BY <1>7 DEF P, Q, R, q

\* A name in the directory becomes a text.
LEMMA ReadStep ==
  ASSUME Sound, ReadEntry
  PROVE  Implemented
  <1> DEFINE p    == pending.todo
             name == Head(p)
             len  == LitLen[name.slot]
             b    == NewBlock("STRING", <<name>>, len)
             bs   == <<b>>
             t    == Fresh("STRING", 1)
             k    == Count(heap, toSpace) + 1
  <1>0. FrameInv /\ HeapInv /\ TextsFit
    BY DEF Sound
  <1>1. /\ status = "push" /\ p # <<>> /\ pending.op = "file_ls" /\ name.space = Off /\ Unread
        /\ UNCHANGED <<frames, currentFunction, fresh, loaded>>
    BY DEF ReadEntry, Unread
  <1>2. CASE Die
    <2>1. status' = "die" /\ UNCHANGED <<heap, toSpace, registers, frames, currentFrame, currentFunction, fresh>>
      BY <1>1, <1>2 DEF Die
    <2> QED BY <1>1, <2>1, StopStep
  <1>3. CASE ~Die
    <2>1. /\ owl_alloc(bs) /\ pending' = [pending EXCEPT !.todo[1] = t]
          /\ UNCHANGED <<registers, currentFrame, status>>
      BY <1>3 DEF ReadEntry
    <2>2. RestingView /\ RestingView'
      BY <1>1, <2>1, MutatorView
    <2>3. /\ pending \in Pending /\ p \in Seq(Term) /\ name \in Term
          /\ heap \in Heaps /\ toSpace \in Spaces /\ name = p[1] /\ 1 \in 1 .. Len(p)
      BY <1>0, <1>1, ReadyToPush, MutatorFacts
    <2>4. len \in Nat
      <3>1. EntriesOK(pending)
        BY <1>0, <1>1, MutatorFacts DEF PendingOK
      <3>2. len \in TextLengths
        BY <1>1, <2>3, <3>1 DEF EntriesOK
      <3> QED BY <3>2, VmAssumption
    <2> HIDE DEF name, len
    <2>5. b = [kind |-> "STRING", kids |-> <<name>>, len |-> len, size |-> align(len + 1), fwd |-> 0]
      BY DEF NewBlock, BytesOf
    <2> HIDE DEF b
    <2>6. b \in Block /\ b.kind = "STRING" /\ b.kids = <<name>>
      <3>1. align(len + 1) \in Nat /\ <<name>> \in Seq(Term)
        BY <2>3, <2>4, Aligned
      <3> QED BY <2>4, <2>5, <3>1 DEF Block, Kinds
    <2>7. bs \in Seq(Block) /\ Len(bs) = 1 /\ bs[1] = b
      BY <2>6
    <2>8. bs[1].kind \in Heads /\ Len(bs) \in 1 .. 3
          /\ \A i \in 1 .. Len(bs) : i # 1 => bs[i].kind \in {"LEAF", "INTERNAL"}
      BY <2>6, <2>7 DEF Heads
    <2> HIDE DEF bs
    <2>9. /\ toSpace' = toSpace /\ Allocation(heap, heap', toSpace, bs)
          /\ Closed(heap', toSpace)
          /\ Os' = Objs(heap', toSpace)
          /\ k \in DOMAIN Os' \ DOMAIN Os
          /\ \A o : o = Os'[k] => Objects!Adds(k, o)
      BY <1>0, <2>1, <2>2, <2>3, <2>7, <2>8, ObjectAdded
    <2> DEFINE g == heap'
               o == Objects!Object("STRING", <<ValueOf(name)>>)
    <2>10. Os'[k] = o
      <3>1. Kind(g, toSpace, k) = "STRING" /\ Arity(g, toSpace, k) = Len(<<name>>)
            /\ \A m : Kid(g, toSpace, k, m) = <<name>>[m]
        <4>1. 1 \in 1 .. Len(bs)
          BY <2>7
        <4>2. Kind(g, toSpace, k) = b.kind /\ Arity(g, toSpace, k) = Len(b.kids)
              /\ \A m : Kid(g, toSpace, k, m) = b.kids[m]
          BY <2>7, <2>9, <4>1 DEF Allocation
        <4> HIDE DEF g, k, name
        <4> QED BY <2>6, <4>2
      <3>2. k \in DOMAIN Objs(g, toSpace) /\ Closed(g, toSpace)
        BY <2>9
      <3> HIDE DEF g, k
      <3>3. Objs(g, toSpace)[k] = CellIn(g, toSpace, k)
        BY <1>0, <3>1, <3>2, ObjectParts
      <3>4. CellIn(g, toSpace, k).kids = Seen(<<name>>)
        <4>1. <<name>> \in Seq(Term)
          BY <2>3
        <4> QED BY <3>1, <4>1, LeafSeen
      <3>5. Seen(<<name>>) = <<ValueOf(name)>>
        BY DEF Seen
      <3>6. CellIn(g, toSpace, k) = [kind |-> "STRING", kids |-> CellIn(g, toSpace, k).kids]
        BY <3>1 DEF CellIn
      <3>7. Objs(g, toSpace)[k] = o
        BY <3>3, <3>4, <3>5, <3>6 DEF Objects!Object
      <3> QED BY <2>9, <3>7 DEF g
    <2>11. Objects!Adds(k, o)
      BY <2>9, <2>10
    <2>12. ValueOf(t) = Objects!To("STRING", k) /\ t \in Term
      <3>1. toSpace # Off /\ Count(heap, toSpace) \in Nat
        BY <2>3, OtherSpace, HeapTyped
      <3>2. t = Ref("STRING", toSpace, k) /\ k \in Nat
        BY <3>1 DEF Fresh, Count
      <3> HIDE DEF k, t
      <3> QED BY <2>3, <3>1, <3>2 DEF ValueOf, Ref, Objects!To, Term, Tags, Spaces
    <2> DEFINE q == [p EXCEPT ![1] = t]
    <2>13. pending'.list = pending.list /\ pending'.todo = q /\ pending'.op = pending.op
      BY <2>1, <2>3 DEF Pending
    <2> HIDE DEF k, t
    <2>14. Seen(q) = [Seen(p) EXCEPT ![1] = ValueOf(t)]
      <3> HIDE DEF p
      <3> QED BY <1>1, <2>3, <2>12, SeenFirst
    <2>15. Head(Seen(p)) = ValueOf(name)
      <3> HIDE DEF p
      <3> QED BY <1>1, <2>3, SeenRest DEF name
    <2> HIDE DEF q
    <2>16. /\ Mk.list = ValueOf(pending.list) /\ Mk.todo = Seen(p)
           /\ Mk' = [Mk EXCEPT !.list = ValueOf(pending.list), !.todo = Seen(q)]
           /\ DOMAIN Mk = {"list", "todo", "kept", "read"}
      BY <1>1, <2>1, <2>2, <2>13, ListInProgress
    <2>17. Mk' = [Mk EXCEPT !.todo[1] = Objects!To("STRING", k)]
      <3>1. Mk = [list |-> Mk.list, todo |-> Mk.todo, kept |-> Mk.kept, read |-> Mk.read]
        BY <1>1, <2>2 DEF RestingView, ListMade
      <3> HIDE DEF p
      <3>2. Mk' = [Mk EXCEPT !.todo = [Mk.todo EXCEPT ![1] = Objects!To("STRING", k)]]
        BY <2>12, <2>14, <2>16, <3>1
      <3> QED BY <3>2
    <2>18. Mk.read /\ Mk.todo # <<>> /\ ~Head(Mk.todo).on
      <3>1. p \in Seq(Term) /\ p # <<>> /\ status' = "push" /\ Unread
        BY <1>1, <2>1, <2>3
      <3> QED BY <1>1, <2>2, <2>13, <3>1, UnreadSeen
    <2>19. UNCHANGED <<St, Rn, Ph>> /\ Ph = "making"
      BY <1>1, <2>1, <2>2 DEF RestingView, Null, ValueOf, Ph
    <2>20. Objects!Adds(k, Objects!Object("STRING", <<Head(Mk.todo)>>))
      BY <2>11, <2>15, <2>16
    <2>21. Objects!Read
      BY <2>9, <2>17, <2>18, <2>19, <2>20 DEF Objects!Read, Objects!Unread, Os, St, Rn, Mk, Ph
    <2> QED BY <2>21 DEF Implemented, Objects!Next
  <1> QED BY <1>2, <1>3

\* owl_list_push.
LEMMA PushStep ==
  ASSUME Sound, owl_list_push
  PROVE  Implemented
  <1> DEFINE bs == PushBlocks(pending.list, Head(pending.todo))
             t  == Fresh("LIST", 1)
             k  == Count(heap, toSpace) + 1
             p  == pending.todo
             v  == ValueOf(Head(pending.todo))
             K  == Objects!Kids(ValueOf(pending.list))
  <1>0. FrameInv /\ HeapInv /\ TextsFit
    BY DEF Sound
  <1>1. status = "push" /\ p # <<>> /\ ~Unread /\ UNCHANGED <<frames, currentFunction, fresh, loaded>>
    BY DEF owl_list_push
  <1>2. CASE Die
    <2>1. status' = "die" /\ UNCHANGED <<heap, toSpace, registers, frames, currentFrame, currentFunction, fresh>>
      BY <1>1, <1>2 DEF Die
    <2> QED BY <1>1, <2>1, StopStep
  <1>3. CASE ~Die
    <2>1. /\ owl_alloc(bs) /\ pending' = [pending EXCEPT !.todo = Tail(@), !.list = t]
          /\ UNCHANGED <<registers, currentFrame, status>>
      BY <1>3 DEF owl_list_push
    <2>2. RestingView /\ RestingView'
      BY <1>1, <2>1, MutatorView
    <2>3. pending \in Pending /\ p \in Seq(Term) /\ heap \in Heaps /\ toSpace \in Spaces
      BY <1>0, <1>1, ReadyToPush, MutatorFacts
    <2>4. bs = PushBlocks(pending.list, Head(pending.todo))
      OBVIOUS
    <2> HIDE DEF bs
    <2>5. /\ bs \in Seq(Block) /\ Len(bs) \in 1 .. 3 /\ bs[1].kind \in Heads
          /\ \A i \in 1 .. Len(bs) : i # 1 => bs[i].kind \in {"LEAF", "INTERNAL"}
      BY <1>0, <1>1, <2>4, BlocksPushed
    <2>6. /\ toSpace' = toSpace /\ Allocation(heap, heap', toSpace, bs)
          /\ Closed(heap, toSpace) /\ Closed(heap', toSpace)
          /\ Os' = Objs(heap', toSpace)
          /\ k \in DOMAIN Os' \ DOMAIN Os
          /\ \A o : o = Os'[k] => Objects!Adds(k, o)
      BY <1>0, <2>1, <2>2, <2>3, <2>5, ObjectAdded
    <2> DEFINE g == heap'
               o == Objects!Object("LIST", Append(K, v))
    <2>7. Os'[k] = o
      <3>1. k \in DOMAIN Objs(g, toSpace) /\ Allocation(heap, g, toSpace, bs) /\ Closed(g, toSpace)
        BY <2>6
      <3>2. o = [kind |-> "LIST", kids |-> Append(K, v)]
        BY DEF Objects!Object
      <3> HIDE DEF g, o
      <3>3. Objs(g, toSpace)[Count(heap, toSpace) + 1]
              = [kind |-> "LIST", kids |-> Append(Objects!Kids(ValueOf(pending.list)), ValueOf(Head(pending.todo)))]
        BY <1>1, <2>2, <2>4, <2>6, <3>1, PushedSeen
      <3>4. Objs(g, toSpace)[k] = o
        BY <3>2, <3>3
      <3> QED BY <2>6, <3>4 DEF g
    <2>8. Objects!Adds(k, o)
      BY <2>6, <2>7
    <2>9. ValueOf(t) = Objects!To("LIST", k)
      <3>1. toSpace # Off
        BY <2>3, OtherSpace
      <3>2. t = Ref("LIST", toSpace, k)
        BY DEF Fresh, Count
      <3> HIDE DEF k, t
      <3> QED BY <3>1, <3>2 DEF ValueOf, Ref, Objects!To
    <2>10. pending'.list = t /\ pending'.todo = Tail(p) /\ pending'.op = pending.op
      BY <2>1, <2>3 DEF Pending
    <2>11. Seen(p) # <<>> /\ Head(Seen(p)) = v /\ Tail(Seen(p)) = Seen(Tail(p))
      <3> HIDE DEF p
      <3>1. Seen(p) # <<>> /\ Head(Seen(p)) = ValueOf(Head(p)) /\ Tail(Seen(p)) = Seen(Tail(p))
        BY <1>1, <2>3, SeenRest
      <3> QED BY <3>1 DEF p
    <2> HIDE DEF k, K, v, t
    <2>12. /\ Mk.list = ValueOf(pending.list) /\ Mk.todo = Seen(p)
           /\ Mk' = [Mk EXCEPT !.list = ValueOf(t), !.todo = Seen(Tail(p))]
      BY <1>1, <2>1, <2>2, <2>10, ListInProgress
    <2>13. ~(Mk.read /\ Mk.todo # <<>> /\ ~Head(Mk.todo).on)
      <3>1. p \in Seq(Term) /\ p # <<>> /\ status' = "push" /\ ~Unread
        BY <1>1, <2>1, <2>3
      <3> QED BY <1>1, <2>2, <2>10, <3>1, UnreadSeen
    <2>14. UNCHANGED <<St, Rn, Ph>> /\ Ph = "making"
      BY <1>1, <2>1, <2>2 DEF RestingView, Null, ValueOf, Ph
    <2> HIDE DEF p
    <2>15. /\ Mk.todo # <<>> /\ Head(Mk.todo) = v /\ Objects!Kids(Mk.list) = K
           /\ Mk' = [Mk EXCEPT !.list = Objects!To("LIST", k), !.todo = Tail(@)]
      BY <2>9, <2>11, <2>12 DEF K
    <2>16. Objects!Adds(k, Objects!Object("LIST", Append(Objects!Kids(Mk.list), Head(Mk.todo))))
      BY <2>8, <2>15
    <2>17. Objects!Push
      BY <2>6, <2>13, <2>14, <2>15, <2>16 DEF Objects!Push, Objects!Unread, Os, St, Rn, Mk, Ph
    <2> QED BY <2>17 DEF Implemented, Objects!Next
  <1> QED BY <1>2, <1>3

\* OP_LIST, OP_FILE_LS or OP_CODE_LOAD ends: the program gets the list.
LEMMA ListDoneStep ==
  ASSUME Sound, ListDone
  PROVE  Implemented
  <1> DEFINE t == pending.list
             r == pending.ret
  <1>1. /\ status = "push" /\ status' = "run" /\ pending.todo = <<>> /\ set_reg(r, t)
        /\ pending.op \in {"list", "file_ls", "code_load"}
        /\ UNCHANGED <<heap, toSpace, frames, currentFrame, currentFunction, fresh>>
    BY DEF ListDone
  <1>2. RestingView /\ RestingView'
    BY <1>1, MutatorView
  <1>3. registers \in [Frames -> [Regs -> Term]] /\ currentFrame \in Frames /\ r \in Regs
    BY <1>1, MutatorFacts DEF Sound, VmTypeOK, Pending
  <1> HIDE DEF t, r
  <1>4. Objects!Sets(r, ValueOf(t))
    BY <1>1, <1>2, <1>3, SetSeen
  <1>5. UNCHANGED <<Os, Rn>>
    BY <1>1, <1>2 DEF RestingView, Null, ValueOf
  <1>6. Ph = "making" /\ Ph' = "running"
    BY <1>1 DEF Ph
  <1>7. Mk.todo = Seen(<<>>) /\ Mk.kept /\ Mk.list = ValueOf(t) /\ Mk' = NoList
    <2>1. Mk = [list |-> ValueOf(pending.list), todo |-> Seen(pending.todo),
                kept |-> pending.op \in {"list", "file_ls", "code_load"},
                read |-> pending.op = "file_ls"]
      BY <1>1, <1>2 DEF RestingView, ListMade, Seen
    <2>2. Mk' = NoList
      BY <1>1, <1>2 DEF RestingView
    <2> QED BY <1>1, <2>1, <2>2 DEF t
  <1>8. Seen(<<>>) = <<>>
    BY DEF Seen
  <1>9. NoList = Objects!NotMaking
    BY DEF NoList, Objects!NotMaking, Objects!Making, Objects!NoElement, Objects!Plain, ValueOf, EmptyList
  <1>10. Objects!EndList
    BY <1>3, <1>4, <1>5, <1>6, <1>7, <1>8, <1>9 DEF Objects!EndList, Os, St, Rn, Mk, Ph
  <1> QED BY <1>10 DEF Implemented, Objects!Next

\* The loader forgets its list.
LEMMA ModuleDoneStep ==
  ASSUME Sound, ModuleDone
  PROVE  Implemented
  <1>1. /\ status = "push" /\ pending.todo = <<>> /\ pending.op \in {"boot", "call", "capture"}
        /\ UNCHANGED <<heap, toSpace, registers, frames, currentFrame, currentFunction, fresh>>
        /\ status' \in {"boot", "load", "exit"}
    BY DEF ModuleDone, Stop, AfterLoad
  <1>2. CASE status' = "exit"
    BY <1>1, <1>2, StopStep
  <1>3. CASE status' # "exit"
    <2>1. RestingView /\ RestingView'
      BY <1>1, MutatorView
    <2>2. UNCHANGED <<Os, St, Rn>>
      BY <1>1, <2>1 DEF RestingView, Null, ValueOf
    <2>3. Ph = "making" /\ Ph' = "running"
      BY <1>1, <1>3 DEF Ph
    <2>4. /\ Mk = [list |-> ValueOf(pending.list), todo |-> Seen(<<>>), kept |-> FALSE, read |-> FALSE]
          /\ Mk' = NoList
      <3>1. Mk = [list |-> ValueOf(pending.list), todo |-> Seen(pending.todo),
                  kept |-> pending.op \in {"list", "file_ls", "code_load"},
                  read |-> pending.op = "file_ls"]
        BY <1>1, <2>1 DEF RestingView, ListMade, Seen
      <3>2. Mk' = NoList
        BY <1>1, <2>1 DEF RestingView
      <3>3. (pending.op \in {"list", "file_ls", "code_load"}) = FALSE /\ (pending.op = "file_ls") = FALSE
        BY <1>1
      <3> QED BY <1>1, <3>1, <3>2, <3>3
    <2>5. Seen(<<>>) = <<>>
      BY DEF Seen
    <2>6. NoList = Objects!NotMaking
      BY DEF NoList, Objects!NotMaking, Objects!Making, Objects!NoElement, Objects!Plain, ValueOf, EmptyList
    <2>7. Mk.todo = <<>> /\ ~Mk.kept
      BY <2>4, <2>5
    <2>8. Objects!EndList
      BY <2>2, <2>3, <2>4, <2>6, <2>7 DEF Objects!EndList, Os, St, Rn, Mk, Ph
    <2> QED BY <2>8 DEF Implemented, Objects!Next
  <1> QED BY <1>2, <1>3

\* OP_CALL without a collection, OP_CAPTURE and the call of the entry function: what
\* is to be done next changes, the program's objects do not.
LEMMA WaitingStep ==
  ASSUME Sound, status \in {"run", "boot"}, status' = "load",
         UNCHANGED <<heap, toSpace, registers, frames, currentFrame, currentFunction, fresh>>
  PROVE  Implemented
  <1>1. RestingView /\ RestingView'
    BY MutatorView
  <1>2. UNCHANGED <<Os, St, Rn>>
    BY <1>1 DEF RestingView, Null, ValueOf
  <1>3. UNCHANGED Mk
    <2>1. Mk = NoList
      BY <1>1 DEF RestingView
    <2>2. Mk' = NoList
      BY <1>1 DEF RestingView
    <2> QED BY <2>1, <2>2
  <1>4. UNCHANGED Ph
    BY DEF Ph
  <1> QED BY <1>2, <1>3, <1>4 DEF Implemented

\* An opcode that may load code.
LEMMA CallOpStep ==
  ASSUME Sound, Next, status \in {"run", "boot"}, NEW r, NEW f, NEW args, Call(r, f, args)
  PROVE  Implemented
  <1>1. CASE NeedsCollect
    <2>1. status' = "collect"
      BY <1>1 DEF Call, StartCollect
    <2> QED BY <2>1, BeginCollectStep
  <1>2. CASE ~NeedsCollect
    <2>1. /\ status' = "load"
          /\ UNCHANGED <<heap, toSpace, registers, frames, currentFrame, currentFunction, fresh>>
      BY <1>2 DEF Call, Stop
    <2> QED BY <2>1, WaitingStep
  <1> QED BY <1>1, <1>2

\* OP_CAPTURE, as far as the lookup of the function.
LEMMA CaptureOpStep ==
  ASSUME Sound, NEW r, NEW f, op_capture(r, f)
  PROVE  Implemented
  <1>1. /\ status = "run" /\ status' = "load"
        /\ UNCHANGED <<heap, toSpace, registers, frames, currentFrame, currentFunction, fresh>>
    BY DEF op_capture, Runs, Stop
  <1> QED BY <1>1, WaitingStep

\* OP_GC_COLLECT, as far as its collection.
LEMMA GcOpStep ==
  ASSUME Sound, Next, NEW r, op_gc_collect(r)
  PROVE  Implemented
  <1>1. status = "run" /\ status' = "collect"
    BY DEF op_gc_collect, Runs, StartCollect
  <1> QED BY <1>1, BeginCollectStep

\* OP_EXIT.
LEMMA ExitStep ==
  ASSUME Sound, op_exit
  PROVE  Implemented
  <1>1. /\ status = "run" /\ status' = "exit"
        /\ UNCHANGED <<heap, toSpace, registers, frames, currentFrame, currentFunction, fresh>>
    BY DEF op_exit, Stop, vmVars
  <1> QED BY <1>1, StopStep

\* Every opcode.
LEMMA OpcodeStep ==
  ASSUME Sound, Next, Opcode
  PROVE  Implemented
  <1>1. ASSUME NEW r \in Regs, NEW i \in Immediates, op_store(r, Immediate(i))
        PROVE  Implemented
    <2> DEFINE t == Immediate(i)
    <2>1. op_store(r, t) /\ (\/ \E j \in Immediates : t = Immediate(j)
                             \/ \E k \in 1 .. Len(LitLen) : t = Literal(k))
      BY <1>1
    <2> HIDE DEF t
    <2> QED BY <2>1, StoreStep
  <1>2. ASSUME NEW r \in Regs, NEW k \in 1 .. Len(LitLen), op_store(r, Literal(k))
        PROVE  Implemented
    <2> DEFINE t == Literal(k)
    <2>1. op_store(r, t) /\ (\/ \E j \in Immediates : t = Immediate(j)
                             \/ \E l \in 1 .. Len(LitLen) : t = Literal(l))
      BY <1>2
    <2> HIDE DEF t
    <2> QED BY <2>1, StoreStep
  <1>3. ASSUME NEW r \in Regs, NEW f \in Functions, NEW args \in CallArgs, op_call(r, f, args)
        PROVE  Implemented
    <2>1. status = "run" /\ Call(r, f, args)
      BY <1>3 DEF op_call, Runs
    <2> QED BY <2>1, CallOpStep
  <1>4. CASE op_return
    BY <1>4, ReturnStep
  <1>5. CASE op_exit
    BY <1>5, ExitStep
  <1>6. ASSUME NEW r \in Regs,
               \/ \E o \in Operands : op_mov(r, o)
               \/ \E os \in ArgLists(Regs) : op_tuple(r, os)
               \/ \E o \in Regs, index \in 0 .. MaxArgs : op_tuple_nth(r, o, index)
               \/ \E o \in Regs, index \in 0 .. 3 * Branching : op_list_nth(r, o, index)
               \/ \E o1, o2 \in Regs : op_concat(r, o1, o2)
               \/ \E o \in Regs : op_string_slice(r, o)
               \/ \E o \in Regs : op_to_string(r, o)
               \/ op_file_pwd(r)
               \/ \E os \in ArgLists(Operands) : op_anon_fn(r, os)
               \/ \E o \in Operands, args \in CallArgs : op_call_local(r, o, args)
               \/ \E f \in Functions : op_capture(r, f)
               \/ \E os \in ArgLists(Regs) : op_list(r, os)
               \/ \E o \in Regs : op_file_ls(r, o)
               \/ \E o \in Regs, f \in Functions : op_code_load(r, o, f)
               \/ op_gc_collect(r)
        PROVE  Implemented
    <2>1. CASE \E o \in Operands : op_mov(r, o)
      BY <2>1, MovStep
    <2>2. CASE \E os \in ArgLists(Regs) : op_tuple(r, os)
      BY <2>2, TupleStep
    <2>3. CASE \E o \in Regs, index \in 0 .. MaxArgs : op_tuple_nth(r, o, index)
      BY <2>3, TupleNthStep
    <2>4. CASE \E o1, o2 \in Regs : op_concat(r, o1, o2)
      BY <2>4, ConcatStep
    <2>5. CASE \E os \in ArgLists(Operands) : op_anon_fn(r, os)
      BY <2>5, ClosureStep
    <2>6. CASE \E o \in Operands, args \in CallArgs : op_call_local(r, o, args)
      BY <2>6, CallLocalStep
    <2>7. CASE \E f \in Functions : op_capture(r, f)
      BY <2>7, CaptureOpStep
    <2>8. CASE \E os \in ArgLists(Regs) : op_list(r, os)
      BY <2>8, ListStep
    <2>9. CASE op_gc_collect(r)
      BY <2>9, GcOpStep
    <2>10. CASE \E o \in Regs, index \in 0 .. 3 * Branching : op_list_nth(r, o, index)
      BY <2>10, ListNthStep
    <2>11. CASE \E o \in Regs : op_string_slice(r, o)
      BY <2>11, StringSliceStep
    <2>12. CASE \E o \in Regs : op_to_string(r, o)
      BY <2>12, ToStringStep
    <2>13. CASE op_file_pwd(r)
      BY <2>13, FilePwdStep
    <2>14. CASE \E o \in Regs : op_file_ls(r, o)
      BY <2>14, FileLsStep
    <2>15. CASE \E o \in Regs, f \in Functions : op_code_load(r, o, f)
      BY <2>15, CodeLoadStep
    <2> QED BY <1>6, <2>1, <2>2, <2>3, <2>4, <2>5, <2>6, <2>7, <2>8, <2>9, <2>10, <2>11, <2>12, <2>13,
               <2>14, <2>15
  <1> QED BY <1>1, <1>2, <1>3, <1>4, <1>5, <1>6 DEF Opcode

\* The call of the entry function.
LEMMA RunFunctionStep ==
  ASSUME Sound, Next, vm_run_function
  PROVE  Implemented
  <1>1. status = "boot"
    BY DEF vm_run_function
  <1>2. CASE 1 \in loaded
    <2> DEFINE args == <<>>
    <2>1. Call(0, 1, args)
      BY <1>2 DEF vm_run_function
    <2> HIDE DEF args
    <2> QED BY <1>1, <2>1, CallOpStep
  <1>3. CASE 1 \notin loaded
    <2>1. /\ status' = "exit"
          /\ UNCHANGED <<heap, toSpace, registers, frames, currentFrame, currentFunction, fresh>>
      BY <1>3 DEF vm_run_function, Stop, vmVars
    <2> QED BY <1>1, <2>1, StopStep
  <1> QED BY <1>2, <1>3

\* Every other step.
LEMMA WithinStep ==
  ASSUME Sound, CopiesInv, LoadsFor, Next, Within
  PROVE  Implemented
  <1>1. CASE load_function_hit
    <2>1. pending.op = "call" \/ pending.op = "capture"
      BY <1>1 DEF load_function_hit
    <2> QED BY <1>1, <2>1, LoadedCallStep, CaptureStep
  <1>2. CASE CollectStep /\ UNCHANGED vmVars
    <2>1. status = "collect" /\ status' = "collect"
      BY <1>2, CollectorCollects, CollectorSafe DEF Sound
    <2> QED BY <2>1, CollectingStep
  <1>3. CASE vm_run_function
    BY <1>3, RunFunctionStep
  <1>4. CASE load_function_miss
    BY <1>4, LoadMissStep
  <1>5. CASE owl_list_push
    BY <1>5, PushStep
  <1>6. CASE ListDone
    BY <1>6, ListDoneStep
  <1>7. CASE ModuleDone
    BY <1>7, ModuleDoneStep
  <1>8. CASE AfterCollect \/ AfterSafepoint
    BY <1>8, EndCollectStep
  <1>9. CASE ReadEntry
    BY <1>9, ReadStep
  <1> QED BY <1>1, <1>2, <1>3, <1>4, <1>5, <1>6, <1>7, <1>8, <1>9 DEF Within

\* A step that changes nothing changes nothing that is seen.
LEMMA StutterStep ==
  ASSUME UNCHANGED vars
  PROVE  Implemented
  <1>1. /\ UNCHANGED <<heap, toSpace, allocPtr, registers, currentFrame, scan, calls, status>>
        /\ UNCHANGED <<frames, currentFunction, fresh, pending, loaded>>
    BY DEF vars, gcVars, vmVars
  <1>2. Graph' = Graph /\ Roots' = Roots
    BY <1>1 DEF Graph, Roots, Content, Original, Copies, Slots, OriginSpace, FromSpace
  <1>3. UNCHANGED <<Os, St>>
    BY <1>1, <1>2, SameGraph
  <1>4. \A t : Value(t)' = Value(t)
    BY <1>1 DEF Value, Valued, Original, Copies, Slots, OriginSpace, FromSpace
  <1>5. UNCHANGED <<Rn, Mk, Ph>>
    BY <1>1, <1>4 DEF Rn, Mk, Ph, Null, EmptyList
  <1> QED BY <1>3, <1>5 DEF Implemented

\* Every step of the VM is one of OwlObjects, or is not seen.
LEMMA StepImplemented ==
  ASSUME Sound, CopiesInv, LoadsFor, [Next]_vars
  PROVE  Implemented
  BY OpcodeStep, WithinStep, StutterStep DEF Next, Stopped

-----------------------------------------------------------------------------
(* The program starts *)

\* There is one frame, with nothing in its registers.
LEMMA StartFrames ==
  ASSUME Init
  PROVE  FramesIn(registers, frames, currentFrame)
           = <<[regs |-> [r \in Regs |-> Objects!Nothing], ret |-> 0]>>
  <1> DEFINE A == [r \in Regs |-> ValueOf(registers[0][r])]
             B == [r \in Regs |-> Objects!Nothing]
  <1>1. /\ currentFrame = 0 /\ registers = [i \in Frames |-> Cleared] /\ frames = [i \in Frames |-> NoLink]
        /\ 0 \in Frames
    BY GcAssumption DEF Init, Frames
  <1>2. frames[0].ret = 0
    BY <1>1 DEF NoLink
  <1>3. ValueOf(Null) = Objects!Nothing
    BY DEF Objects!Nothing, Objects!Plain, ValueOf, Null, Off
  <1>4. \A r \in Regs : registers[0][r] = Null
    BY <1>1 DEF Cleared
  <1>5. A = B
    BY <1>3, <1>4
  <1>6. FramesIn(registers, frames, currentFrame)
          = [i \in 1 .. 1 |-> [regs |-> [r \in Regs |-> ValueOf(registers[i - 1][r])], ret |-> frames[i - 1].ret]]
    BY <1>1 DEF FramesIn
  <1>7. \A i \in 1 .. 1 : i - 1 = 0
    OBVIOUS
  <1>8. FramesIn(registers, frames, currentFrame) = [i \in 1 .. 1 |-> [regs |-> A, ret |-> 0]]
    BY <1>2, <1>6, <1>7
  <1> HIDE DEF A, B
  <1>9. [i \in 1 .. 1 |-> [regs |-> A, ret |-> 0]] = <<[regs |-> A, ret |-> 0]>>
    OBVIOUS
  <1> QED BY <1>5, <1>8, <1>9 DEF B

\* There are no objects.
LEMMA StartObjects ==
  ASSUME Init, RestingView
  PROVE  Os = [k \in {} |-> Objects!Nothing]
  <1>1. Count(heap, toSpace) = 0
    BY DEF Init, Count, Spaces, Low
  <1>2. DOMAIN Objs(heap, toSpace) = {}
    <2>1. 1 .. 0 = {}
      OBVIOUS
    <2>2. DOMAIN CellsIn(heap, toSpace) = {}
      BY <1>1, <2>1 DEF CellsIn
    <2> QED BY <2>2 DEF Objs, ObjectsOf
  <1>3. Objs(heap, toSpace) = [k \in DOMAIN Objs(heap, toSpace) |-> Objs(heap, toSpace)[k]]
    BY DEF Objs, ObjectsOf
  <1> QED BY <1>2, <1>3 DEF RestingView

\* The list of the names of the entry function's module is in the making.
LEMMA StartImplemented ==
  ASSUME TextsFit, Init
  PROVE  Objects!Init
  <1> DEFINE fs == Module[1]
  <1>1. FrameInv /\ HeapInv /\ status = "push"
    BY FrameInvInit, HeapInvInit DEF Init
  <1>2. RestingView
    BY <1>1, RestingState
  <1>3. fs \in Seq(Functions) /\ fs \in {Module[f] : f \in Functions}
    BY VmAssumption
  <1>4. pending.list = EmptyList /\ pending.todo = Names(fs) /\ pending.op = "boot" /\ fresh = FALSE
    BY DEF Init, Idle
  <1> HIDE DEF fs
  <1>5. Mk = [list |-> ValueOf(EmptyList),
              todo |-> [n \in 1 .. Len(Names(fs)) |-> ValueOf(Names(fs)[n])],
              kept |-> FALSE, read |-> FALSE]
    <2>1. (pending.op \in {"list", "file_ls", "code_load"}) = FALSE /\ (pending.op = "file_ls") = FALSE
      BY <1>4
    <2> QED BY <1>1, <1>2, <1>4, <2>1 DEF RestingView, ListMade
  <1>6. [n \in 1 .. Len(Names(fs)) |-> ValueOf(Names(fs)[n])]
          = Objects!Defined(fs)
    BY <1>3, NamesSeen
  <1>7. ValueOf(EmptyList) = Objects!NoElement /\ ValueOf(Null) = Objects!Nothing
    BY DEF Objects!NoElement, Objects!Nothing, Objects!Plain, ValueOf, EmptyList, Null, Off
  <1>8. Mk = Objects!Making(Objects!NoElement, Objects!Defined(fs), FALSE, FALSE)
    BY <1>5, <1>6, <1>7 DEF Objects!Making
  <1>9. St = <<[regs |-> [r \in Regs |-> Objects!Nothing], ret |-> 0]>>
    BY <1>2, StartFrames DEF RestingView
  <1>10. Rn = Objects!Nothing
    BY <1>2, <1>4, <1>7 DEF RestingView
  <1>11. Ph = "making"
    BY <1>1 DEF Ph
  <1>12. Os = [k \in {} |-> Objects!Nothing]
    BY <1>2, StartObjects
  <1> QED BY <1>3, <1>8, <1>9, <1>10, <1>11, <1>12 DEF Objects!Init, Os, St, Rn, Mk, Ph

-----------------------------------------------------------------------------
(* The refinement *)

\* What holds of every state, besides the invariants of the VM.
LEMMA ViewInvariant ==
  ASSUME WithinLimits, TextsFit
  PROVE  Spec => [](FrameInv /\ HeapInv /\ CopiesInv /\ LoadsFor)
  <1>1. Init => FrameInv /\ HeapInv /\ CopiesInv /\ LoadsFor
    BY FrameInvInit, HeapInvInit, CopiesInvInit, LoadsForInit
  <1>2. FrameInv /\ HeapInv /\ CopiesInv /\ LoadsFor /\ [Next]_vars
          => (FrameInv /\ HeapInv /\ CopiesInv /\ LoadsFor)'
    <2> SUFFICES ASSUME FrameInv, HeapInv, CopiesInv, LoadsFor, [Next]_vars
                 PROVE  FrameInv' /\ HeapInv' /\ CopiesInv' /\ LoadsFor'
      OBVIOUS
    <2>1. FrameInv'
      BY FrameInvNext
    <2>2. HeapInv'
      BY HeapInvNext
    <2>3. CopiesInv'
      BY CopiesInvNext
    <2>4. LoadsFor'
      BY LoadsForNext
    <2> QED BY <2>1, <2>2, <2>3, <2>4
  <1> QED BY <1>1, <1>2, PTL DEF Spec

\* The VM implements OwlObjects, whatever the program, the heap, the registers and
\* the stack: every opcode makes exactly the object it stands for out of the values
\* at hand, lists that share nodes stay what they are, no object changes or goes
\* while the program can reach it, and a collection is a renaming of exactly the
\* objects that are referred to (opcodes.c, alloc.c:47-209, owl_list.c:200-330).
THEOREM ObjectsAreKept == ASSUME WithinLimits, TextsFit PROVE Spec => ImplementsObjects
  <1>1. Init => Objects!Init
    BY StartImplemented
  <1>2. /\ FrameInv /\ HeapInv /\ CopiesInv /\ LoadsFor
        /\ (FrameInv /\ HeapInv /\ CopiesInv /\ LoadsFor)'
        /\ [Next]_vars
        => [Objects!Next]_<<Os, St, Rn, Mk, Ph>>
    <2> SUFFICES ASSUME FrameInv, HeapInv, CopiesInv, LoadsFor, FrameInv', HeapInv', [Next]_vars
                 PROVE  Implemented
      BY DEF Implemented
    <2>1. Sound
      BY DEF Sound
    <2> QED BY <2>1, StepImplemented
  <1>3. [Objects!Next]_<<Os, St, Rn, Mk, Ph>> => [Objects!Next]_(Objects!objectVars)
    BY DEF Objects!objectVars, Os, St, Rn, Mk, Ph
  <1> QED BY <1>1, <1>2, <1>3, ViewInvariant, PTL DEF Spec, ImplementsObjects, Objects!Spec
=============================================================================
