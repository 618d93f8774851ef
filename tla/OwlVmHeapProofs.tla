---------------------------- MODULE OwlVmHeapProofs ----------------------------
(***************************************************************************)
(* OwlVmInvariant!HeapInv is inductive, and with it what the runs check of *)
(* the heap holds for every value of the constants.                        *)
(***************************************************************************)
EXTENDS OwlVmInvariant, OwlVmProofs, OwlGcStepProofs

-----------------------------------------------------------------------------
(* gc_collect begins and ends *)

\* When the half-spaces are swapped every block is white, and what is in use
\* fits what is free.
LEMMA CollectionStarts ==
  ASSUME NEW h, NEW T, NEW ptr, NEW rank, Resting(h, T, ptr, rank),
         NEW regs \in [Frames -> [Regs -> Term]], NEW cf \in Frames, RegistersIn(h, T, regs, cf),
         NEW sc, sc = [i |-> 0, j |-> 0], NEW limit \in {ptr, HalfSize}
  PROVE  /\ Collecting(h, Other(T), <<>>, regs, sc, cf, rank)
         /\ AllReached(h, Other(T), <<>>, regs, cf)
         /\ Accounts(h, Other(T), <<>>, 0, limit)
  <1> DEFINE U == Other(T)
  <1>1. /\ h \in Heaps /\ T \in Spaces /\ rank \in Ranks /\ ptr \in Nat
        /\ (TextsFit => ptr <= HalfSize)
        /\ Count(h, U) = 0 /\ Total(Taken(h, T), Count(h, T), ptr)
    BY DEF Resting
  <1>2. U \in Spaces /\ Other(U) = T /\ U # T /\ (\A s \in Spaces : s = T \/ s = U)
        /\ T # Off /\ U # Off
    BY <1>1, OtherSpace
  <1>3. /\ \A i : i \notin 1 .. 0 /\ (\A cs : cs = <<>> => Depth(cs) = 0)
        /\ <<>> \in Seq(Activation) /\ Depth(<<>>) = 0
    BY DEF Depth
  <1>4. \A k \in 1 .. Count(h, T) :
          /\ BlockOK(Kind(h, T, k), Arity(h, T, k), Chars(h, T, k), Size(h, T, k))
          /\ Fwd(h, T, k) = 0
          /\ Whole(h, T, k, T)
          /\ \A n \in 1 .. Arity(h, T, k) : Kid(h, T, k, n).space # Off =>
               Rank(rank, T, Kid(h, T, k, n).slot) < Rank(rank, T, k)
    BY DEF Resting
  <1> HIDE DEF U
  <1>5. Typed(h, U, <<>>, regs, sc, cf, rank)
    BY <1>1, <1>2, <1>3, GcAssumption DEF Typed, Regs
  <1>6. BlocksOK(h)
    BY <1>1, <1>2, <1>3, <1>4 DEF BlocksOK
  <1>7. RegistersOK(h, U, regs, sc, cf)
    <2>1. \A i \in 0 .. cf, j \in Regs : ~Scanned(sc, i, j)
      BY DEF Scanned, Regs
    <2> QED BY <1>2, <2>1 DEF RegistersOK, RegistersIn
  <1>8. WhiteOK(h, U, <<>>)
    BY <1>2, <1>4 DEF WhiteOK
  <1>9. BlackOK(h, U, <<>>)
    BY <1>1, <1>3 DEF BlackOK
  <1>10. MovedOK(h, U, <<>>)
    BY <1>2, <1>4 DEF MovedOK
  <1>11. GreyOK(h, U, <<>>) /\ StackOK(h, U, <<>>, regs, sc) /\ CopiesApart(<<>>)
    BY <1>3 DEF GreyOK, StackOK, CopiesApart
  <1>12. RankedBlocks(h, U, rank)
    <2> SUFFICES ASSUME NEW s \in Spaces, NEW k \in 1 .. Count(h, s), NEW n \in 1 .. Arity(h, s, k),
                        Kid(h, s, k, n).space # Off
                 PROVE  Rank(rank, Kid(h, s, k, n).space, Kid(h, s, k, n).slot) < Rank(rank, s, k)
      BY DEF RankedBlocks
    <2>1. s = T
      BY <1>1, <1>2, <1>3
    <2>2. Kid(h, T, k, n).space = T
      <3>1. Kind(h, T, k) \in Kinds \ {"TABLE"}
        BY <1>1, <1>4, <2>1, HeapTyped DEF BlockOK
      <3> QED BY <1>1, <1>4, <2>1, <3>1, SuitsTyped DEF Whole, RefersTo
    <2> QED BY <1>4, <2>1, <2>2
  <1>13. RankedCopies(h, U, <<>>, rank) /\ RankedCalls(U, <<>>, rank)
    BY <1>2, <1>3, <1>4 DEF RankedCopies, RankedCalls
  <1>14. RanksBounded(h, rank)
    <2>1. PICK r \in Nat : \A k \in 1 .. Count(h, T) : Rank(rank, T, k) < r
      BY DEF Resting
    <2> QED BY <1>1, <1>2, <1>3, <2>1 DEF RanksBounded
  <1>15. AllReached(h, U, <<>>, regs, cf)
    BY <1>1, <1>3 DEF AllReached
  <1>16. Accounts(h, U, <<>>, 0, limit)
    <2>1. Total(Taken(h, U), Count(h, U), 0)
      BY <1>1, TotalEmpty
    <2>2. Total(Owed(h, U, <<>>), Count(h, T), ptr)
      <3>1. \A k \in 1 .. Count(h, T) : Taken(h, T)[k] = Size(h, T, k) + 1
        BY <1>1, TakenOwed
      <3>2. \A k : ~InCopy(<<>>, k)
        BY <1>3 DEF InCopy
      <3>3. \A k \in 1 .. Count(h, T) : Owed(h, U, <<>>)[k] = Size(h, T, k) + 1
        BY <1>1, <1>2, <1>4, <3>2, TakenOwed
      <3>4. Count(h, T) \in Nat
        BY <1>1, HeapTyped
      <3> QED BY <1>1, <3>1, <3>3, <3>4, TotalSame
    <2>3. 0 + ptr = ptr /\ (TextsFit => limit \in Nat /\ ptr <= limit /\ limit <= HalfSize)
      BY <1>1, HeapAssumption
    <2> QED BY <1>1, <1>2, <2>1, <2>2, <2>3 DEF Accounts
  <1>17. Collecting(h, U, <<>>, regs, sc, cf, rank)
    BY <1>5, <1>6, <1>7, <1>8, <1>9, <1>10, <1>11, <1>12, <1>13, <1>14 DEF Collecting
  <1> QED BY <1>15, <1>16, <1>17 DEF U

\* When every register was visited all copies are black: from_space can go.
LEMMA CollectionEnds ==
  ASSUME NEW h, NEW T, NEW cs, cs = <<>>, NEW regs, NEW sc, NEW cf, NEW rank,
         Collecting(h, T, cs, regs, sc, cf, rank), sc.i > cf, NEW ptr, NEW limit,
         Accounts(h, T, cs, ptr, limit),
         NEW g, g = [h EXCEPT ![Other(T)] = <<>>]
  PROVE  Resting(g, T, ptr, rank) /\ RegistersIn(g, T, regs, cf)
  <1> DEFINE F == Other(T)
  <1>1. /\ h \in Heaps /\ T \in Spaces /\ rank \in Ranks /\ sc \in [i : Nat, j : Regs] /\ cf \in Frames
        /\ BlocksOK(h) /\ BlackOK(h, T, cs) /\ RegistersOK(h, T, regs, sc, cf)
        /\ RankedBlocks(h, T, rank) /\ RanksBounded(h, rank)
    BY DEF Collecting, Typed
  <1>2. F \in Spaces /\ F # T
    BY <1>1, OtherSpace
  <1>3. \A k : ~CopyAt(cs, k)
    BY DEF CopyAt, Depth
  <1>4. g[T] = h[T] /\ g[F] = <<>> /\ g \in Heaps
    BY <1>1, <1>2 DEF Heaps
  <1>5. /\ Count(g, T) = Count(h, T) /\ Count(g, F) = 0
        /\ \A k : /\ Kind(g, T, k) = Kind(h, T, k) /\ Arity(g, T, k) = Arity(h, T, k)
                  /\ Chars(g, T, k) = Chars(h, T, k) /\ Size(g, T, k) = Size(h, T, k)
                  /\ Fwd(g, T, k) = Fwd(h, T, k)
                  /\ \A n : Kid(g, T, k, n) = Kid(h, T, k, n)
    BY <1>4 DEF Count, Kind, Arity, Chars, Size, Fwd, Kid
  <1> HIDE DEF F
  <1>6. \A t : RefersTo(h, t, T) => RefersTo(g, t, T)
    BY <1>5 DEF RefersTo
  <1>7. /\ \A t : ValueIn(h, t, T) => ValueIn(g, t, T)
        /\ \A t : NodeIn(h, t, T) => NodeIn(g, t, T)
    BY <1>6 DEF ValueIn, NodeIn
  <1>8. ASSUME NEW k \in 1 .. Count(g, T)
        PROVE  /\ BlockOK(Kind(g, T, k), Arity(g, T, k), Chars(g, T, k), Size(g, T, k))
               /\ Fwd(g, T, k) = 0
               /\ Whole(g, T, k, T)
    <2>1. /\ BlockOK(Kind(h, T, k), Arity(h, T, k), Chars(h, T, k), Size(h, T, k))
          /\ Fwd(h, T, k) = 0 /\ Whole(h, T, k, T)
      BY <1>1, <1>3, <1>5, <1>8 DEF BlocksOK, BlackOK
    <2>2. ASSUME NEW kind, NEW m, NEW n, NEW t, Suits(h, kind, m, n, t, T)
          PROVE  Suits(g, kind, m, n, t, T)
      <3>1. Kind(g, T, t.slot) = Kind(h, T, t.slot)
        BY <1>5
      <3> QED BY <1>7, <2>2, <3>1 DEF Suits
    <2>3. Whole(g, T, k, T)
      BY <1>5, <2>1, <2>2 DEF Whole
    <2> QED BY <1>5, <2>1, <2>3
  <1>9. ASSUME NEW k \in 1 .. Count(g, T), NEW n \in 1 .. Arity(g, T, k), Kid(g, T, k, n).space # Off
        PROVE  Rank(rank, T, Kid(g, T, k, n).slot) < Rank(rank, T, k)
    <2>1. Kind(g, T, k) \in Kinds \ {"TABLE"}
      BY <1>1, <1>4, <1>8, <1>9, HeapTyped DEF BlockOK
    <2>2. Suits(g, Kind(g, T, k), Arity(g, T, k), n, Kid(g, T, k, n), T)
      BY <1>8, <1>9 DEF Whole
    <2>3. Kid(g, T, k, n).space = T
      BY <1>1, <1>9, <2>1, <2>2, SuitsTyped DEF RefersTo
    <2> QED BY <1>1, <1>5, <1>9, <2>3 DEF RankedBlocks
  <1>10. \E r \in Nat : \A k \in 1 .. Count(g, T) : Rank(rank, T, k) < r
    BY <1>1, <1>5 DEF RanksBounded
  <1>11. /\ Total(Taken(g, T), Count(g, T), ptr) /\ ptr \in Nat
         /\ TextsFit => ptr <= HalfSize
    <2>1. Taken(g, T) = Taken(h, T)
      BY <1>5 DEF Taken
    <2>2. TextsFit => ptr <= HalfSize
      BY HeapAssumption DEF Accounts
    <2> QED BY <1>5, <2>1, <2>2 DEF Accounts
  <1>12. RegistersIn(g, T, regs, cf)
    <2>1. \A i \in 0 .. cf, j \in Regs : Scanned(sc, i, j)
      BY <1>1 DEF Scanned, Frames
    <2> QED BY <1>1, <1>7, <2>1 DEF RegistersIn, RegistersOK
  <1>13. Resting(g, T, ptr, rank)
    BY <1>1, <1>4, <1>5, <1>8, <1>9, <1>10, <1>11 DEF Resting, F
  <1> QED BY <1>12, <1>13

-----------------------------------------------------------------------------
(* owl_alloc *)

\* The bytes of one to three blocks.
LEMMA BytesTyped ==
  ASSUME NEW bs \in Seq(Block), Len(bs) \in 1 .. 3
  PROVE  /\ Bytes(bs) \in Nat
         /\ Len(bs) = 1 => Bytes(bs) = bs[1].size + 1
         /\ Len(bs) = 2 => Bytes(bs) = bs[1].size + 1 + (bs[2].size + 1)
         /\ Len(bs) = 3 => Bytes(bs) = bs[1].size + 1 + (bs[2].size + 1) + (bs[3].size + 1)
  <1>1. \A i \in 1 .. Len(bs) : bs[i].size \in Nat
    <2>1. \A i \in 1 .. Len(bs) : bs[i] \in Block
      OBVIOUS
    <2> QED BY <2>1 DEF Block
  <1>2. CASE Len(bs) = 1
    BY <1>1, <1>2 DEF Bytes, BlockSize
  <1>3. CASE Len(bs) = 2
    BY <1>1, <1>3 DEF Bytes, BlockSize
  <1>4. CASE Len(bs) = 3
    <2>1. bs[1].size \in Nat /\ bs[2].size \in Nat /\ bs[3].size \in Nat
      BY <1>1, <1>4
    <2>2. Bytes(bs) = bs[1].size + 1 + (bs[2].size + 1) + (bs[3].size + 1)
      BY <1>4 DEF Bytes, BlockSize
    <2>3. Bytes(bs) \in Nat
      <3>1. \A x, y, z \in Nat : x + 1 + (y + 1) + (z + 1) \in Nat
        OBVIOUS
      <3> QED BY <2>1, <2>2, <3>1
    <2> QED BY <1>4, <2>2, <2>3
  <1> QED BY <1>2, <1>3, <1>4

\* The new blocks are taken from the free bytes.
LEMMA TakenAllocated ==
  ASSUME NEW h \in Heaps, NEW T \in Spaces, NEW ptr \in Nat, Total(Taken(h, T), Count(h, T), ptr),
         NEW bs \in Seq(Block), Len(bs) \in 1 .. 3, NEW g, Allocation(h, g, T, bs)
  PROVE  Total(Taken(g, T), Count(g, T), ptr + Bytes(bs))
  <1> DEFINE c == Count(h, T)
             v == Taken(g, T)
             w(i) == bs[i].size + 1
  <1>1. c \in Nat /\ g \in Heaps /\ Count(g, T) = c + Len(bs)
    BY HeapTyped DEF Allocation
  <1>2. \A i \in 1 .. Len(bs) : w(i) \in Nat
    <2>1. \A i \in 1 .. Len(bs) : bs[i] \in Block
      OBVIOUS
    <2> QED BY <2>1 DEF Block
  <1>3. \A k \in 1 .. c : v[k] = Taken(h, T)[k]
    <2>1. \A k \in 1 .. c : Taken(h, T)[k] = Size(h, T, k) + 1
      BY TakenOwed
    <2>2. \A k \in 1 .. Count(g, T) : v[k] = Size(g, T, k) + 1
      BY <1>1, TakenOwed
    <2>3. \A k \in 1 .. c : k \in 1 .. Count(g, T) /\ Size(g, T, k) = Size(h, T, k)
      BY <1>1 DEF Allocation, SameBut
    <2> QED BY <2>1, <2>2, <2>3
  <1>4. \A i \in 1 .. Len(bs) : v[c + i] = w(i)
    <2>1. \A k \in 1 .. Count(g, T) : v[k] = Size(g, T, k) + 1
      BY <1>1, TakenOwed
    <2>2. \A i \in 1 .. Len(bs) : c + i \in 1 .. Count(g, T) /\ Size(g, T, c + i) = bs[i].size
      BY <1>1 DEF Allocation
    <2> QED BY <2>1, <2>2
  <1> HIDE DEF v, w, c
  <1>5. Total(v, c, ptr)
    BY <1>1, <1>3, TotalSame DEF c
  <1>6. Total(v, c + 1, ptr + w(1)) /\ 1 \in 1 .. Len(bs) /\ c + 1 \in Nat /\ ptr + w(1) \in Nat
    <2>0. 1 \in 1 .. Len(bs)
      OBVIOUS
    <2>1. 1 \in 1 .. Len(bs) /\ w(1) \in Nat /\ v[c + 1] = w(1)
      BY <1>2, <1>4, <2>0
    <2> QED BY <1>1, <1>5, <2>1, TotalExtended
  <1>7. ASSUME Len(bs) >= 2
        PROVE  Total(v, c + 1 + 1, ptr + w(1) + w(2)) /\ c + 1 + 1 \in Nat /\ ptr + w(1) + w(2) \in Nat
               /\ w(2) \in Nat
    <2>1. 2 \in 1 .. Len(bs) /\ w(2) \in Nat /\ v[c + 2] = w(2) /\ c + 2 = c + 1 + 1
      BY <1>1, <1>2, <1>4, <1>7
    <2> QED BY <1>6, <2>1, TotalExtended
  <1>8. ASSUME Len(bs) >= 3
        PROVE  Total(v, c + 1 + 1 + 1, ptr + w(1) + w(2) + w(3)) /\ w(3) \in Nat
    <2>1. 3 \in 1 .. Len(bs) /\ w(3) \in Nat /\ v[c + 3] = w(3) /\ c + 3 = c + 1 + 1 + 1 /\ Len(bs) >= 2
      BY <1>1, <1>2, <1>4, <1>8
    <2> QED BY <1>7, <2>1, TotalExtended
  <1>9. /\ Len(bs) = 1 => Bytes(bs) = w(1)
        /\ Len(bs) = 2 => Bytes(bs) = w(1) + w(2)
        /\ Len(bs) = 3 => Bytes(bs) = w(1) + w(2) + w(3)
    BY BytesTyped DEF w
  <1>10. w(1) \in Nat
    BY <1>2, <1>6
  <1>11. Total(v, c + Len(bs), ptr + Bytes(bs))
    <2>1. CASE Len(bs) = 1
      BY <1>1, <1>6, <1>9, <2>1
    <2>2. CASE Len(bs) = 2
      <3>1. c + 2 = c + 1 + 1 /\ ptr + (w(1) + w(2)) = ptr + w(1) + w(2)
        BY <1>1, <1>7, <1>10, <2>2
      <3> QED BY <1>7, <1>9, <2>2, <3>1
    <2>3. CASE Len(bs) = 3
      <3>1. c + 3 = c + 1 + 1 + 1 /\ ptr + (w(1) + w(2) + w(3)) = ptr + w(1) + w(2) + w(3)
        BY <1>1, <1>7, <1>8, <1>10, <2>3
      <3> QED BY <1>8, <1>9, <2>3, <3>1
    <2> QED BY <2>1, <2>2, <2>3
  <1> QED BY <1>1, <1>11 DEF v

\* A heap only grows.
LEMMA AllocationGrows ==
  ASSUME NEW h \in Heaps, NEW T \in Spaces, NEW bs \in Seq(Block), NEW g, Allocation(h, g, T, bs)
  PROVE  Grows(h, g)
  <1> SUFFICES ASSUME NEW s \in Spaces
               PROVE  /\ Count(h, s) \in Nat /\ Count(g, s) \in Nat
                      /\ Count(h, s) <= Count(g, s)
                      /\ \A k \in 1 .. Count(h, s) : Kind(g, s, k) = Kind(h, s, k)
    BY DEF Grows
  <1>1. Count(h, s) \in Nat /\ Len(bs) \in Nat
    BY HeapTyped
  <1>2. Count(g, s) = Count(h, s) \/ Count(g, s) = Count(h, s) + Len(bs)
    BY DEF Allocation
  <1> QED BY <1>1, <1>2 DEF Allocation, SameBut

\* The first block of an allocation may refer to the others, and all of them
\* to what was there before.
LEMMA AllocationRests ==
  ASSUME NEW h, NEW T, NEW ptr, NEW rank, Resting(h, T, ptr, rank),
         NEW bs \in Seq(Block), Len(bs) \in 1 .. 3, NEW g, Allocation(h, g, T, bs),
         ptr + Bytes(bs) <= HalfSize,
         \A i \in 1 .. Len(bs) :
           /\ bs[i].fwd = 0
           /\ BlockOK(bs[i].kind, Len(bs[i].kids), bs[i].len, bs[i].size)
           /\ \A n \in 1 .. Len(bs[i].kids) :
                /\ Suits(g, bs[i].kind, Len(bs[i].kids), n, bs[i].kids[n], T)
                /\ bs[i].kids[n].space # Off =>
                     bs[i].kids[n].slot \in 1 .. Count(h, T) + (IF i = 1 THEN Len(bs) ELSE 0)
                       \ {Count(h, T) + 1}
  PROVE  \E rank2 : Resting(g, T, ptr + Bytes(bs), rank2)
  <1> DEFINE c == Count(h, T)
             d == Len(bs)
  <1>1. /\ h \in Heaps /\ T \in Spaces /\ rank \in Ranks /\ ptr \in Nat
        /\ Count(h, Other(T)) = 0
    BY DEF Resting
  <1>2. PICK r \in Nat : \A k \in 1 .. c : Rank(rank, T, k) < r
    BY DEF Resting
  <1>3. c \in Nat /\ d \in 1 .. 3 /\ g \in Heaps /\ Count(g, T) = c + d /\ Count(g, Other(T)) = 0
    BY <1>1, OtherSpace, HeapTyped DEF Allocation
  <1> DEFINE rt == [k \in Nat |-> IF k <= c THEN Rank(rank, T, k) ELSE IF k = c + 1 THEN r + 1 ELSE r]
             rank2 == [rank EXCEPT ![T] = rt]
  <1>4. \A k \in Nat : Rank(rank, T, k) \in Nat
    BY <1>1 DEF Ranks, Rank
  <1>5. rank2 \in Ranks /\ \A k \in Nat : Rank(rank2, T, k) = rt[k]
    <2>1. rt \in [Nat -> Nat]
      BY <1>2, <1>4
    <2> HIDE DEF rt
    <2> QED BY <1>1, <2>1 DEF Ranks, Rank
  <1>6. /\ \A k \in 1 .. c : Rank(rank2, T, k) = Rank(rank, T, k)
        /\ Rank(rank2, T, c + 1) = r + 1
        /\ \A k \in 1 .. c + d : k > c + 1 => Rank(rank2, T, k) = r
    <2> HIDE DEF c, d, rank2
    <2>1. \A k \in 1 .. c : k \in Nat /\ k <= c
      BY <1>3
    <2>2. c + 1 \in Nat /\ ~(c + 1 <= c)
      BY <1>3
    <2>3. \A k \in 1 .. c + d : k > c + 1 => k \in Nat /\ ~(k <= c) /\ k # c + 1
      BY <1>3
    <2> QED BY <1>5, <2>1, <2>2, <2>3
  <1> HIDE DEF rank2, rt
  <1>7. ASSUME NEW k \in 1 .. c
        PROVE  /\ BlockOK(Kind(g, T, k), Arity(g, T, k), Chars(g, T, k), Size(g, T, k))
               /\ Fwd(g, T, k) = 0
               /\ Whole(g, T, k, T)
               /\ \A n \in 1 .. Arity(g, T, k) : Kid(g, T, k, n).space # Off =>
                    Rank(rank2, T, Kid(g, T, k, n).slot) < Rank(rank2, T, k)
    <2>1. /\ SameBut(h, g, T, k) /\ Fwd(g, T, k) = Fwd(h, T, k)
          /\ \A n : Kid(g, T, k, n) = Kid(h, T, k, n)
      BY <1>1, <1>7 DEF Allocation
    <2>2. /\ BlockOK(Kind(h, T, k), Arity(h, T, k), Chars(h, T, k), Size(h, T, k))
          /\ Fwd(h, T, k) = 0 /\ Whole(h, T, k, T)
          /\ \A n \in 1 .. Arity(h, T, k) : Kid(h, T, k, n).space # Off =>
               Rank(rank, T, Kid(h, T, k, n).slot) < Rank(rank, T, k)
      BY <1>7 DEF Resting
    <2>3. Grows(h, g)
      BY <1>1, AllocationGrows
    <2>4. Whole(g, T, k, T)
      BY <1>1, <2>1, <2>2, <2>3, WholeGrows DEF SameBut
    <2>5. \A n \in 1 .. Arity(h, T, k) : Kid(h, T, k, n).space # Off => Kid(h, T, k, n).slot \in 1 .. c
      <3>1. Kind(h, T, k) \in Kinds \ {"TABLE"}
        BY <1>1, <1>7, <2>2, HeapTyped DEF BlockOK
      <3> QED BY <1>1, <2>2, <3>1, SuitsTyped DEF Whole, RefersTo
    <2> QED BY <1>6, <1>7, <2>1, <2>2, <2>4, <2>5 DEF SameBut
  <1>8. ASSUME NEW i \in 1 .. d
        PROVE  /\ BlockOK(Kind(g, T, c + i), Arity(g, T, c + i), Chars(g, T, c + i), Size(g, T, c + i))
               /\ Fwd(g, T, c + i) = 0
               /\ Whole(g, T, c + i, T)
               /\ \A n \in 1 .. Arity(g, T, c + i) : Kid(g, T, c + i, n).space # Off =>
                    Rank(rank2, T, Kid(g, T, c + i, n).slot) < Rank(rank2, T, c + i)
    <2>1. /\ Kind(g, T, c + i) = bs[i].kind /\ Arity(g, T, c + i) = Len(bs[i].kids)
          /\ Chars(g, T, c + i) = bs[i].len /\ Size(g, T, c + i) = bs[i].size
          /\ Fwd(g, T, c + i) = bs[i].fwd
          /\ \A n : Kid(g, T, c + i, n) = bs[i].kids[n]
      BY DEF Allocation
    <2>2. Whole(g, T, c + i, T)
      BY <2>1 DEF Whole
    <2>3. ASSUME NEW n \in 1 .. Arity(g, T, c + i), Kid(g, T, c + i, n).space # Off
          PROVE  Rank(rank2, T, Kid(g, T, c + i, n).slot) < Rank(rank2, T, c + i)
      <3> DEFINE q == Kid(g, T, c + i, n).slot
      <3>1. q \in 1 .. c + (IF i = 1 THEN d ELSE 0) \ {c + 1}
        BY <2>1, <2>3
      <3> HIDE DEF q, c, d
      <3>2. q \in 1 .. c \/ (i = 1 /\ q \in 1 .. c + d /\ q > c + 1)
        BY <1>3, <3>1
      <3>3. \A k \in 1 .. c : Rank(rank2, T, k) \in Nat /\ Rank(rank2, T, k) < r
        BY <1>2, <1>4, <1>6
      <3>4. Rank(rank2, T, q) \in Nat /\ (Rank(rank2, T, q) < r \/ (i = 1 /\ Rank(rank2, T, q) = r))
        BY <1>2, <1>6, <3>2, <3>3
      <3>5. i \in Nat /\ (i # 1 => c + i \in 1 .. c + d /\ c + i > c + 1)
        BY <1>3, <1>8
      <3>6. (i = 1 => Rank(rank2, T, c + i) = r + 1) /\ (i # 1 => Rank(rank2, T, c + i) = r)
        BY <1>6, <3>5
      <3>7. Rank(rank2, T, q) < Rank(rank2, T, c + i)
        BY <1>2, <3>4, <3>6
      <3> QED BY <3>7 DEF q
    <2> QED BY <2>1, <2>2, <2>3
  <1>9. \A k \in 1 .. c + d : k \in 1 .. c \/ \E i \in 1 .. d : k = c + i
    <2> SUFFICES ASSUME NEW k \in 1 .. c + d, k \notin 1 .. c PROVE \E i \in 1 .. d : k = c + i
      OBVIOUS
    <2>1. k - c \in 1 .. d /\ k = c + (k - c)
      BY <1>3
    <2> QED BY <2>1
  <1>10. \A k \in 1 .. c + d : Rank(rank2, T, k) < r + 2
    <2> HIDE DEF c, d
    <2>1. ASSUME NEW k \in 1 .. c
          PROVE  Rank(rank2, T, k) \in Nat /\ Rank(rank2, T, k) < r
      <3>1. c \in Nat
        BY <1>3
      <3>2. k \in Nat
        BY <3>1
      <3>3. Rank(rank, T, k) \in Nat
        BY <1>4, <3>2
      <3>4. Rank(rank, T, k) < r
        BY <1>2, <2>1
      <3> QED BY <1>6, <3>3, <3>4
    <2> QED BY <1>2, <1>3, <1>6, <2>1
  <1>11. Total(Taken(g, T), Count(g, T), ptr + Bytes(bs)) /\ ptr + Bytes(bs) \in Nat
    BY <1>1, TakenAllocated, BytesTyped DEF Resting
  <1> HIDE DEF c, d
  <1>12. \A k \in 1 .. Count(g, T) :
           /\ BlockOK(Kind(g, T, k), Arity(g, T, k), Chars(g, T, k), Size(g, T, k))
           /\ Fwd(g, T, k) = 0
           /\ Whole(g, T, k, T)
           /\ \A n \in 1 .. Arity(g, T, k) : Kid(g, T, k, n).space # Off =>
                Rank(rank2, T, Kid(g, T, k, n).slot) < Rank(rank2, T, k)
    <2> SUFFICES ASSUME NEW k \in 1 .. c + d
                 PROVE  /\ BlockOK(Kind(g, T, k), Arity(g, T, k), Chars(g, T, k), Size(g, T, k))
                        /\ Fwd(g, T, k) = 0
                        /\ Whole(g, T, k, T)
                        /\ \A n \in 1 .. Arity(g, T, k) : Kid(g, T, k, n).space # Off =>
                             Rank(rank2, T, Kid(g, T, k, n).slot) < Rank(rank2, T, k)
      BY <1>3
    <2>1. CASE k \in 1 .. c
      BY <1>7, <2>1
    <2>2. CASE \E i \in 1 .. d : k = c + i
      BY <1>8, <2>2
    <2> QED BY <1>9, <2>1, <2>2
  <1>13. r + 2 \in Nat /\ \A k \in 1 .. Count(g, T) : Rank(rank2, T, k) < r + 2
    BY <1>2, <1>3, <1>10
  <1>14. Resting(g, T, ptr + Bytes(bs), rank2)
    BY <1>1, <1>3, <1>5, <1>11, <1>12, <1>13 DEF Resting
  <1> QED BY <1>14

-----------------------------------------------------------------------------
(* What the VM holds on to *)

\* A value is a term.
LEMMA ValueTyped ==
  ASSUME NEW h, NEW t, NEW T, ValueIn(h, t, T)
  PROVE  t \in Term
  BY DEF ValueIn, OffValue, RefersTo

\* A value is written to a register of the current frame.
LEMMA RegisterSet ==
  ASSUME NEW h, NEW T, NEW regs \in [Frames -> [Regs -> Term]], NEW cf \in Frames,
         RegistersIn(h, T, regs, cf), NEW r \in Regs, NEW t, ValueIn(h, t, T),
         NEW rs, rs = [regs EXCEPT ![cf][r] = t]
  PROVE  rs \in [Frames -> [Regs -> Term]] /\ RegistersIn(h, T, rs, cf)
  <1>1. rs \in [Frames -> [Regs -> Term]]
    BY ValueTyped
  <1>2. ASSUME NEW i \in 0 .. cf, NEW j \in Regs
        PROVE  ValueIn(h, Reg(rs, i, j), T)
    <2>1. i \in Frames
      BY GcAssumption DEF Frames
    <2>2. Reg(rs, i, j) = IF i = cf /\ j = r THEN t ELSE Reg(regs, i, j)
      BY <2>1 DEF Reg
    <2> QED BY <2>2 DEF RegistersIn
  <1> QED BY <1>1, <1>2 DEF RegistersIn

\* What was in to_space is still there when more was allocated.
LEMMA HeldWhenAllocated ==
  ASSUME NEW h \in Heaps, NEW T \in Spaces, NEW bs \in Seq(Block), NEW g, Allocation(h, g, T, bs)
  PROVE  /\ \A t : ValueIn(h, t, T) => ValueIn(g, t, T)
         /\ \A regs, cf : RegistersIn(h, T, regs, cf) => RegistersIn(g, T, regs, cf)
         /\ \A fun, n : ClosureIn(h, T, fun, n) => ClosureIn(g, T, fun, n)
         /\ \A q : ValuesIn(h, T, q) => ValuesIn(g, T, q)
  <1>1. Grows(h, g)
    BY AllocationGrows
  <1>2. ASSUME NEW t, ValueIn(h, t, T) PROVE ValueIn(g, t, T)
    BY <1>1, <1>2, ValueInGrows
  <1>3. ASSUME NEW fun, NEW n, ClosureIn(h, T, fun, n) PROVE ClosureIn(g, T, fun, n)
    <2>1. RefersTo(h, fun, T) => RefersTo(g, fun, T)
      BY <1>1, RefersToGrows
    <2>2. RefersTo(h, fun, T) => Arity(g, T, fun.slot) = Arity(h, T, fun.slot)
      BY DEF RefersTo, Allocation, SameBut
    <2>3. ValueIn(g, fun, T)
      BY <1>2, <1>3 DEF ClosureIn
    <2> QED BY <1>3, <2>1, <2>2, <2>3 DEF ClosureIn
  <1> QED BY <1>2, <1>3 DEF RegistersIn, ValuesIn

\* owl_alloc of blocks that may stay.
LEMMA MutatorAllocates ==
  ASSUME NEW rank, Resting(heap, toSpace, allocPtr, rank),
         NEW bs \in Seq(Block), Len(bs) \in 1 .. 3, Fits(Bytes(bs)), owl_alloc(bs),
         NEW g, g = [heap EXCEPT ![toSpace] = @ \o bs],
         \A i \in 1 .. Len(bs) :
           /\ bs[i].fwd = 0
           /\ BlockOK(bs[i].kind, Len(bs[i].kids), bs[i].len, bs[i].size)
           /\ \A n \in 1 .. Len(bs[i].kids) :
                /\ Suits(g, bs[i].kind, Len(bs[i].kids), n, bs[i].kids[n], toSpace)
                /\ bs[i].kids[n].space # Off =>
                     bs[i].kids[n].slot \in 1 .. Count(heap, toSpace) + (IF i = 1 THEN Len(bs) ELSE 0)
                       \ {Count(heap, toSpace) + 1}
  PROVE  heap' = g /\ toSpace' = toSpace /\ \E rank2 : Resting(g, toSpace, allocPtr', rank2)
  <1>1. /\ heap \in Heaps /\ toSpace \in Spaces /\ allocPtr \in Nat
    BY DEF Resting
  <1>2. heap' = g /\ toSpace' = toSpace /\ allocPtr' = allocPtr + Bytes(bs)
    BY DEF owl_alloc
  <1>3. Allocation(heap, g, toSpace, bs)
    BY <1>1, Allocated
  <1>4. allocPtr + Bytes(bs) <= HalfSize
    BY DEF Fits
  <1> HIDE DEF owl_alloc
  <1> QED BY <1>2, <1>3, <1>4, AllocationRests

\* The sizes owl_alloc is asked for.
LEMMA NewBlockOK ==
  ASSUME NEW kind \in {"TUPLE", "FUNCTION", "RRB", "LEAF", "INTERNAL"}, NEW kids \in Seq(Term),
         kind = "RRB" => Len(kids) = 2, kind = "INTERNAL" => Len(kids) = 3
  PROVE  LET b == NewBlock(kind, kids, 0)
         IN  /\ b \in Block /\ b.kind = kind /\ b.kids = kids /\ b.len = 0 /\ b.fwd = 0
             /\ BlockOK(b.kind, Len(b.kids), b.len, b.size)
  <1> DEFINE a == Len(kids)
             z == BytesOf(kind, kids, 0)
  <1>1. a \in Nat
    OBVIOUS
  <1>2. /\ kind = "TUPLE" => z = 8 * (a + 1)
        /\ kind = "FUNCTION" => z = 24 + 8 * a
        /\ kind = "RRB" => z = 32
        /\ kind = "LEAF" => z = 16 + 8 * a
        /\ kind = "INTERNAL" => z = 24 + 8 * (a - 1)
    BY DEF BytesOf
  <1> HIDE DEF a, z
  <1>3. z \in Nat
    BY <1>1, <1>2 DEF a
  <1>4. align(z) \in Nat /\ z <= align(z)
    BY <1>3, Aligned
  <1>5. BlockOK(kind, a, 0, align(z))
    BY <1>1, <1>2, <1>3, <1>4 DEF BlockOK, a
  <1>6. 0 \in Nat /\ kind \in Kinds
    BY DEF Kinds
  <1> DEFINE b == NewBlock(kind, kids, 0)
  <1>7. b.kind = kind /\ b.kids = kids /\ b.len = 0 /\ b.fwd = 0 /\ b.size = align(z)
    BY DEF NewBlock, z
  <1>8. b \in Block
    BY <1>4, <1>6 DEF NewBlock, z, Block
  <1> QED BY <1>5, <1>7, <1>8 DEF a

-----------------------------------------------------------------------------
(* Steps of the opcodes that are one step *)

\* The VM between two steps that are not the collector's.
LEMMA MutatorFacts ==
  ASSUME FrameInv, HeapInv, status \notin {"collect", "die"}
  PROVE  /\ Mutating /\ VmTypeOK /\ ClosureOK /\ PendingOK
         /\ currentFrame \in Frames /\ currentFrame \in Nat
         /\ heap \in Heaps /\ toSpace \in Spaces /\ allocPtr \in Nat
         /\ registers \in [Frames -> [Regs -> Term]]
         /\ RegistersIn(heap, toSpace, registers, currentFrame)
         /\ calls = <<>>
  BY GcAssumption DEF HeapInv, Mutating, Resting, FrameInv, FrameShape, Frames

\* An opcode that sets a register.
LEMMA SetsOnlySafe ==
  ASSUME FrameInv, HeapInv, status \notin {"collect", "die"}, NEW r \in Regs, NEW t,
         ValueIn(heap, t, toSpace), SetsOnly(r, t)
  PROVE  HeapInv'
  <1>1. /\ registers' = [registers EXCEPT ![currentFrame][r] = t]
        /\ UNCHANGED <<heap, toSpace, allocPtr, currentFrame, calls, status>>
        /\ UNCHANGED <<frames, currentFunction, fresh, pending, loaded>>
    BY DEF SetsOnly, set_reg, vmVars
  <1>2. /\ registers' \in [Frames -> [Regs -> Term]]
        /\ RegistersIn(heap, toSpace, registers', currentFrame)
    BY <1>1, MutatorFacts, RegisterSet
  <1>3. Mutating'
    BY <1>1, <1>2, MutatorFacts DEF Mutating, Frames, Regs, Term, Tags, Spaces, Off
  <1>4. VmTypeOK'
    BY <1>1, MutatorFacts DEF VmTypeOK
  <1>5. ClosureOK' /\ PendingOK'
    BY <1>1, MutatorFacts DEF ClosureOK, PendingOK, EmptyList
  <1> QED BY <1>1, <1>3, <1>4, <1>5 DEF HeapInv

\* exit() and die().
LEMMA StopSafe ==
  ASSUME FrameInv, HeapInv, status \notin {"collect", "die"}, NEW s \in {"exit", "die"}, Stop(s) \/ (Die /\ s = "die"),
         UNCHANGED vmVars
  PROVE  HeapInv'
  <1>1. /\ status' = s
        /\ UNCHANGED <<heap, toSpace, allocPtr, registers, currentFrame, calls>>
        /\ UNCHANGED <<frames, currentFunction, fresh, pending, loaded>>
    BY DEF Stop, Die, vmVars
  <1>2. Mutating'
    BY <1>1, MutatorFacts DEF Mutating, Frames, Regs, Term, Tags, Spaces, Off
  <1>3. VmTypeOK'
    BY <1>1, MutatorFacts DEF VmTypeOK
  <1>4. ClosureOK' /\ PendingOK'
    BY <1>1, MutatorFacts DEF ClosureOK, PendingOK, EmptyList
  <1> QED BY <1>1, <1>2, <1>3, <1>4 DEF HeapInv

\* An opcode that allocates one block, all of whose children are there already.
LEMMA BuildSafe ==
  ASSUME FrameInv, HeapInv, status = "run", NEW r \in Regs, NEW b \in Block,
         b.fwd = 0, b.kind \in {"TUPLE", "FUNCTION", "STRING"},
         Fits(Bytes(<<b>>)) => BlockOK(b.kind, Len(b.kids), b.len, b.size),
         \A n \in 1 .. Len(b.kids) : Suits(heap, b.kind, Len(b.kids), n, b.kids[n], toSpace),
         Build(<<b>>, r, Fresh(b.kind, 1)), UNCHANGED vmVars
  PROVE  HeapInv'
  <1>1. CASE ~Fits(Bytes(<<b>>))
    BY <1>1, StopSafe DEF Build
  <1>2. CASE Fits(Bytes(<<b>>))
    <2> DEFINE bs == <<b>>
               g == [heap EXCEPT ![toSpace] = @ \o bs]
               t == Fresh(b.kind, 1)
               c == Count(heap, toSpace)
    <2>1. /\ owl_alloc(bs) /\ registers' = [registers EXCEPT ![currentFrame][r] = t]
          /\ UNCHANGED <<currentFrame, calls, status>>
          /\ UNCHANGED <<frames, currentFunction, fresh, pending, loaded>>
      BY <1>2 DEF Build, set_reg, vmVars
    <2>2. bs \in Seq(Block) /\ Len(bs) = 1 /\ bs[1] = b
      OBVIOUS
    <2>3. /\ heap \in Heaps /\ toSpace \in Spaces /\ c \in Nat
      BY MutatorFacts, HeapTyped
    <2> HIDE DEF bs, g, t, c
    <2>4. Allocation(heap, g, toSpace, bs)
      BY <2>2, <2>3, Allocated DEF g
    <2>5. Grows(heap, g)
      BY <2>2, <2>3, <2>4, AllocationGrows
    <2>6. ASSUME NEW n \in 1 .. Len(b.kids)
          PROVE  /\ Suits(g, b.kind, Len(b.kids), n, b.kids[n], toSpace)
                 /\ b.kids[n].space # Off => b.kids[n].slot \in 1 .. c
      <3>1. Suits(heap, b.kind, Len(b.kids), n, b.kids[n], toSpace)
        OBVIOUS
      <3>2. b.kind \in Kinds \ {"TABLE"}
        BY DEF Kinds
      <3> QED BY <2>3, <2>5, <3>1, <3>2, SuitsGrows, SuitsTyped DEF RefersTo, c
    <2>7. \A i \in 1 .. Len(bs) : i = 1
      BY <2>2
    <2>8. PICK rank : Resting(heap, toSpace, allocPtr, rank)
      BY MutatorFacts DEF Mutating
    <2>9. \A k \in 1 .. c : k \in 1 .. c + (IF 1 = 1 THEN Len(bs) ELSE 0) \ {c + 1}
      BY <2>2, <2>3
    <2>10. heap' = g /\ toSpace' = toSpace /\ \E rank2 : Resting(g, toSpace, allocPtr', rank2)
      <3>1. \A i \in 1 .. Len(bs) :
              /\ bs[i].fwd = 0
              /\ BlockOK(bs[i].kind, Len(bs[i].kids), bs[i].len, bs[i].size)
              /\ \A n \in 1 .. Len(bs[i].kids) :
                   /\ Suits(g, bs[i].kind, Len(bs[i].kids), n, bs[i].kids[n], toSpace)
                   /\ bs[i].kids[n].space # Off =>
                        bs[i].kids[n].slot \in 1 .. Count(heap, toSpace) + (IF i = 1 THEN Len(bs) ELSE 0)
                          \ {Count(heap, toSpace) + 1}
        BY <1>2, <2>2, <2>6, <2>7, <2>9 DEF c, bs
      <3>2. Fits(Bytes(bs)) /\ Len(bs) \in 1 .. 3
        BY <1>2, <2>2 DEF bs
      <3> QED BY <2>1, <2>2, <2>8, <3>1, <3>2, MutatorAllocates DEF g
    <2>11. ValueIn(g, t, toSpace)
      <3>1. Kind(g, toSpace, c + 1) = b.kind /\ Count(g, toSpace) = c + 1
        BY <2>2, <2>3, <2>4 DEF Allocation, c
      <3>2. t = Ref(b.kind, toSpace, c + 1)
        BY DEF t, Fresh, Count, c
      <3>3. t.tag = TagOf(b.kind) /\ t.tag # "NODE" /\ t \in Term
        BY <2>3, <3>2 DEF TagOf, Ref, Term, Tags
      <3> QED BY <2>3, <3>1, <3>2, <3>3 DEF ValueIn, RefersTo, Ref
    <2>12. /\ RegistersIn(g, toSpace, registers, currentFrame)
           /\ \A n : ClosureIn(heap, toSpace, currentFunction, n) => ClosureIn(g, toSpace, currentFunction, n)
           /\ ValuesIn(heap, toSpace, pending.todo) => ValuesIn(g, toSpace, pending.todo)
      BY <2>2, <2>3, <2>4, HeldWhenAllocated, MutatorFacts
    <2>13. /\ registers' \in [Frames -> [Regs -> Term]]
           /\ RegistersIn(g, toSpace, registers', currentFrame)
      BY <2>1, <2>11, <2>12, MutatorFacts, RegisterSet
    <2>14. Mutating'
      BY <2>1, <2>10, <2>13, MutatorFacts DEF Mutating, Frames, Regs, Term, Tags, Spaces, Off
    <2>15. VmTypeOK'
      BY <2>1, MutatorFacts DEF VmTypeOK
    <2>16. ClosureOK'
      BY <2>1, <2>10, <2>12, MutatorFacts DEF ClosureOK
    <2>17. PendingOK'
      BY <2>1, MutatorFacts DEF PendingOK, EmptyList
    <2> QED BY <2>1, <2>14, <2>15, <2>16, <2>17 DEF HeapInv
  <1> QED BY <1>1, <1>2

\* What an operand stands for.
LEMMA OperandValue ==
  ASSUME WithinLimits, FrameInv, HeapInv, status \notin {"collect", "die"}, NEW o \in Operands, Readable(o)
  PROVE  ValueIn(heap, get_var(o), toSpace) /\ get_var(o) \in Term
  <1>1. CASE o \in Regs
    <2>1. o \in Nat /\ ~(o >= UpvalueFlag)
      BY <1>1, VmAssumption, GcAssumption DEF Regs, UpvalueFlag
    <2>2. get_var(o) = Reg(registers, currentFrame, o)
      BY <2>1 DEF get_var, Reg
    <2>3. currentFrame \in 0 .. currentFrame
      BY MutatorFacts
    <2>4. ValueIn(heap, get_var(o), toSpace)
      BY <1>1, <2>2, <2>3, MutatorFacts DEF RegistersIn
    <2> QED BY <2>4, ValueTyped
  <1>2. CASE o \notin Regs
    <2> DEFINE n == frames[currentFrame].upvals
               k == o - UpvalueFlag + 1
               f == currentFunction
    <2>1. /\ o \in Int /\ k \in Nat /\ 1 <= k /\ o >= UpvalueFlag
      BY <1>2, VmAssumption DEF Operands, UpvalueFlag
    <2>2. /\ o - UpvalueFlag < n /\ fresh
      BY <1>2 DEF Readable, WithinLimits
    <2>3. n \in Nat
      BY MutatorFacts DEF VmTypeOK, Link
    <2>4. n > 0 /\ k \in 1 .. n
      <3> HIDE DEF n
      <3> QED BY <2>1, <2>2, <2>3 DEF UpvalueFlag
    <2>5. /\ RefersTo(heap, f, toSpace) /\ f.tag = "FUNCTION" /\ Arity(heap, toSpace, f.slot) = n
      BY <2>2, <2>4, MutatorFacts DEF ClosureOK, ClosureIn
    <2>6. /\ f.space = toSpace /\ f.slot \in 1 .. Count(heap, toSpace)
          /\ Kind(heap, toSpace, f.slot) = "FUNCTION"
      <3>1. Kind(heap, toSpace, f.slot) \in Kinds
        BY <2>5, MutatorFacts, HeapTyped DEF RefersTo
      <3> QED BY <2>5, <3>1 DEF RefersTo, TagOf, Kinds
    <2>7. get_var(o) = Kid(heap, toSpace, f.slot, k)
      BY <2>1, <2>6 DEF get_var, BlockOf, Kid
    <2>8. Whole(heap, toSpace, f.slot, toSpace)
      BY <2>6, MutatorFacts DEF Mutating, Resting
    <2>9. ValueIn(heap, Kid(heap, toSpace, f.slot, k), toSpace)
      <3> HIDE DEF k, n, f
      <3> QED BY <2>4, <2>5, <2>6, <2>8 DEF Whole, Suits
    <2> QED BY <2>7, <2>9, ValueTyped
  <1> QED BY <1>1, <1>2

\* A list of operands.
LEMMA OperandValues ==
  ASSUME WithinLimits, FrameInv, HeapInv, status \notin {"collect", "die"}, NEW os \in ArgLists(Operands),
         \A k \in 1 .. Len(os) : Readable(os[k])
  PROVE  /\ Vals(os) \in Seq(Term) /\ Len(Vals(os)) = Len(os)
         /\ ValuesIn(heap, toSpace, Vals(os))
  <1>1. os \in Seq(Operands) /\ Len(os) \in Nat
    <2>1. PICK n \in Arities : os \in [1 .. n -> Operands]
      BY DEF ArgLists
    <2>2. n \in Nat
      BY <2>1, VmAssumption
    <2> QED BY <2>1, <2>2
  <1>2. \A k \in 1 .. Len(os) : ValueIn(heap, get_var(os[k]), toSpace) /\ get_var(os[k]) \in Term
    BY <1>1, OperandValue
  <1>3. Vals(os) \in Seq(Term) /\ Len(Vals(os)) = Len(os)
    BY <1>1, <1>2 DEF Vals
  <1>4. \A k \in 1 .. Len(os) : Vals(os)[k] = get_var(os[k])
    BY <1>1 DEF Vals
  <1> QED BY <1>2, <1>3, <1>4 DEF ValuesIn

\* Registers are operands, and can always be read.
LEMMA RegistersReadable ==
  /\ Regs \subseteq Operands
  /\ ArgLists(Regs) \subseteq ArgLists(Operands)
  /\ \A o \in Regs : Readable(o)
  /\ \A os \in ArgLists(Regs) : os \in Seq(Regs) /\ \A k \in 1 .. Len(os) : Readable(os[k])
  <1>1. Regs \subseteq Operands /\ \A o \in Regs : Readable(o)
    BY DEF Operands, Readable
  <1>2. ASSUME NEW os \in ArgLists(Regs)
        PROVE  os \in ArgLists(Operands) /\ os \in Seq(Regs) /\ \A k \in 1 .. Len(os) : Readable(os[k])
    <2>1. PICK n \in Arities : os \in [1 .. n -> Regs]
      BY DEF ArgLists
    <2>2. n \in Nat
      BY <2>1, VmAssumption
    <2>3. os \in [1 .. n -> Operands]
      BY <1>1, <2>1
    <2>4. os \in Seq(Regs) /\ Len(os) = n
      BY <2>1, <2>2
    <2>5. \A k \in 1 .. Len(os) : os[k] \in Regs
      BY <2>4
    <2> QED BY <1>1, <2>1, <2>3, <2>4, <2>5 DEF ArgLists
  <1> QED BY <1>1, <1>2

\* op_tuple and op_anon_fn.
LEMMA BuildOperandsSafe ==
  ASSUME WithinLimits, FrameInv, HeapInv, status = "run", NEW r \in Regs,
         NEW os \in ArgLists(Operands), \A k \in 1 .. Len(os) : Readable(os[k]),
         NEW kind \in {"TUPLE", "FUNCTION"},
         Build(<<NewBlock(kind, Vals(os), 0)>>, r, Fresh(kind, 1)), UNCHANGED vmVars
  PROVE  HeapInv'
  <1> DEFINE b == NewBlock(kind, Vals(os), 0)
  <1>1. /\ Vals(os) \in Seq(Term) /\ ValuesIn(heap, toSpace, Vals(os))
    BY OperandValues
  <1>2. /\ b \in Block /\ b.kind = kind /\ b.kids = Vals(os) /\ b.fwd = 0
        /\ BlockOK(b.kind, Len(b.kids), b.len, b.size)
    BY <1>1, NewBlockOK
  <1>3. \A n \in 1 .. Len(b.kids) : Suits(heap, b.kind, Len(b.kids), n, b.kids[n], toSpace)
    BY <1>1, <1>2 DEF ValuesIn, Suits
  <1> HIDE DEF b
  <1> QED BY <1>2, <1>3, BuildSafe DEF b

\* An element of a tuple is a value.
LEMMA TupleElement ==
  ASSUME FrameInv, HeapInv, status \notin {"collect", "die"}, NEW t, ValueIn(heap, t, toSpace), t.tag = "TUPLE",
         NEW n \in 1 .. Len(BlockOf(t).kids)
  PROVE  ValueIn(heap, BlockOf(t).kids[n], toSpace)
  <1>1. RefersTo(heap, t, toSpace)
    BY DEF ValueIn, OffValue
  <1>2. /\ t.space = toSpace /\ t.slot \in 1 .. Count(heap, toSpace)
        /\ Kind(heap, toSpace, t.slot) = "TUPLE"
    <2>1. Kind(heap, toSpace, t.slot) \in Kinds
      BY <1>1, MutatorFacts, HeapTyped DEF RefersTo
    <2> QED BY <1>1, <2>1 DEF RefersTo, TagOf, Kinds
  <1>3. Whole(heap, toSpace, t.slot, toSpace)
    BY <1>2, MutatorFacts DEF Mutating, Resting
  <1>4. /\ BlockOf(t).kids[n] = Kid(heap, toSpace, t.slot, n)
        /\ n \in 1 .. Arity(heap, toSpace, t.slot)
    BY <1>2 DEF BlockOf, Kid, Arity
  <1> QED BY <1>2, <1>3, <1>4 DEF Whole, Suits

\* op_tuple_nth.
LEMMA TupleNthSafe ==
  ASSUME WithinLimits, FrameInv, HeapInv, NEW r \in Regs, NEW o \in Regs, NEW index \in 0 .. MaxArgs,
         op_tuple_nth(r, o, index)
  PROVE  HeapInv'
  <1> DEFINE t == get_var(o)
             m == Len(BlockOf(t).kids)
             u == IF index < m THEN BlockOf(t).kids[index + 1] ELSE Nil
  <1>1. status = "run" /\ t.tag = "TUPLE" /\ SetsOnly(r, u)
    BY DEF op_tuple_nth, Runs
  <1>2. ValueIn(heap, t, toSpace)
    BY <1>1, RegistersReadable, OperandValue
  <1>3. ValueIn(heap, u, toSpace)
    <2>1. CASE index < m
      <3>1. t.space = toSpace /\ t.slot \in 1 .. Count(heap, toSpace)
        BY <1>1, <1>2 DEF ValueIn, OffValue, RefersTo
      <3>2. m \in Nat
        BY <1>1, <3>1, MutatorFacts, HeapTyped DEF BlockOf, Arity
      <3>3. index \in Nat
        BY VmAssumption
      <3> HIDE DEF t, m
      <3>4. index + 1 \in 1 .. m
        BY <2>1, <3>2, <3>3
      <3>5. ValueIn(heap, BlockOf(t).kids[index + 1], toSpace)
        BY <1>1, <1>2, <3>4, TupleElement DEF m
      <3> QED BY <2>1, <3>5
    <2>2. CASE ~(index < m)
      <3>1. OffValue(Nil)
        BY DEF OffValue, Nil, Term, Tags
      <3> QED BY <2>2, <3>1 DEF ValueIn
    <2> QED BY <2>1, <2>2
  <1> HIDE DEF u
  <1> QED BY <1>1, <1>3, SetsOnlySafe

\* What is in two sequences is all there is in them put together.
LEMMA JoinedParts ==
  ASSUME NEW p \in Seq(Term), NEW q \in Seq(Term), NEW n \in 1 .. Len(p \o q)
  PROVE  (\E k \in 1 .. Len(p) : (p \o q)[n] = p[k]) \/ (\E k \in 1 .. Len(q) : (p \o q)[n] = q[k])
  <1>1. /\ Len(p \o q) = Len(p) + Len(q)
        /\ \A m \in 1 .. Len(p) + Len(q) : (p \o q)[m] = IF m <= Len(p) THEN p[m] ELSE q[m - Len(p)]
    BY ConcatProperties
  <1>2. Len(p) \in Nat /\ Len(q) \in Nat
    OBVIOUS
  <1>3. CASE n <= Len(p)
    BY <1>1, <1>2, <1>3
  <1>4. CASE ~(n <= Len(p))
    <2>1. n - Len(p) \in 1 .. Len(q)
      BY <1>1, <1>2, <1>4
    <2> QED BY <1>1, <1>4, <2>1
  <1> QED BY <1>3, <1>4

\* Two sequences of values put together are one.
LEMMA JoinedValues ==
  ASSUME NEW p \in Seq(Term), NEW q \in Seq(Term),
         ValuesIn(heap, toSpace, p), ValuesIn(heap, toSpace, q)
  PROVE  p \o q \in Seq(Term) /\ ValuesIn(heap, toSpace, p \o q)
  <1>1. p \o q \in Seq(Term)
    BY ConcatProperties
  <1> QED BY <1>1, JoinedParts DEF ValuesIn

\* A text made of one piece.
LEMMA OnePiece ==
  ASSUME NEW t \in Term, OffText(t)
  PROVE  <<t>> \in Seq(Term) /\ \A n \in 1 .. Len(<<t>>) : OffText(<<t>>[n])
  <1>1. <<t>> \in Seq(Term) /\ Len(<<t>>) = 1 /\ <<t>>[1] = t
    OBVIOUS
  <1>2. \A n \in 1 .. 1 : n = 1
    OBVIOUS
  <1> QED BY <1>1, <1>2

\* More bytes are not rounded up to fewer.
LEMMA AlignedOrder ==
  ASSUME NEW m \in Nat, NEW n \in Nat, m < n
  PROVE  align(n) \in Nat /\ align(m) <= align(n)
  BY DEF align

\* A list on the heap is a head, its tail is a leaf of values.
LEMMA ListParts ==
  ASSUME FrameInv, HeapInv, status \notin {"collect", "die"}, NEW t, RefersTo(heap, t, toSpace), t.tag = "LIST"
  PROVE  LET root == BlockOf(t).kids[1]
             tail == BlockOf(t).kids[2]
             es   == BlockOf(tail).kids
         IN  /\ root \in Term /\ (root = Null \/ NodeIn(heap, root, toSpace))
             /\ NodeIn(heap, tail, toSpace) /\ Kind(heap, toSpace, tail.slot) = "LEAF"
             /\ es = heap[toSpace][tail.slot].kids
             /\ root = Kid(heap, toSpace, t.slot, 1) /\ tail = Kid(heap, toSpace, t.slot, 2)
             /\ es \in Seq(Term) /\ ValuesIn(heap, toSpace, es)
  <1> DEFINE root == BlockOf(t).kids[1]
             tail == BlockOf(t).kids[2]
             es   == BlockOf(tail).kids
  <1>1. /\ t.space = toSpace /\ t.slot \in 1 .. Count(heap, toSpace)
        /\ Kind(heap, toSpace, t.slot) = "RRB"
    <2>1. Kind(heap, toSpace, t.slot) \in Kinds
      BY MutatorFacts, HeapTyped DEF RefersTo
    <2> QED BY <2>1 DEF RefersTo, TagOf, Kinds
  <1>2. /\ Whole(heap, toSpace, t.slot, toSpace) /\ Arity(heap, toSpace, t.slot) = 2
    BY <1>1, MutatorFacts DEF Mutating, Resting, BlockOK
  <1>3. /\ root = Kid(heap, toSpace, t.slot, 1) /\ tail = Kid(heap, toSpace, t.slot, 2)
    BY <1>1 DEF BlockOf, Kid
  <1>4. /\ Suits(heap, "RRB", 2, 1, root, toSpace) /\ Suits(heap, "RRB", 2, 2, tail, toSpace)
    BY <1>1, <1>2, <1>3 DEF Whole
  <1> HIDE DEF root, tail
  <1>5. /\ root = Null \/ NodeIn(heap, root, toSpace)
        /\ NodeIn(heap, tail, toSpace) /\ Kind(heap, toSpace, tail.slot) = "LEAF"
    BY <1>4 DEF Suits
  <1>6. root \in Term
    BY <1>5 DEF NodeIn, RefersTo, Null, Term, Tags
  <1>7. tail.space = toSpace /\ tail.slot \in 1 .. Count(heap, toSpace)
    BY <1>5 DEF NodeIn, RefersTo
  <1>8. Whole(heap, toSpace, tail.slot, toSpace)
    BY <1>7, MutatorFacts DEF Mutating, Resting
  <1>9. es = heap[toSpace][tail.slot].kids /\ heap[toSpace][tail.slot] \in Block
    BY <1>7, MutatorFacts, HeapTyped DEF BlockOf
  <1>10. es \in Seq(Term)
    BY <1>9 DEF Block
  <1>11. ASSUME NEW n \in 1 .. Len(es)
         PROVE  ValueIn(heap, es[n], toSpace)
    <2>1. Suits(heap, "LEAF", Len(es), n, es[n], toSpace)
      BY <1>5, <1>8, <1>9 DEF Whole, Kid, Arity
    <2> QED BY <2>1 DEF Suits
  <1> QED BY <1>3, <1>5, <1>6, <1>9, <1>10, <1>11 DEF ValuesIn, root, tail

\* What rrb_nth finds below a node.
LEMMA ElementsBelow ==
  ASSUME FrameInv, HeapInv, status \notin {"collect", "die"}, NEW node, node = Null \/ NodeIn(heap, node, toSpace)
  PROVE  Below(node) \in Seq(Term) /\ ValuesIn(heap, toSpace, Below(node))
  <1>1. CASE node = Null
    <2>1. Below(node) = <<>>
      BY <1>1 DEF Below
    <2> QED BY <2>1 DEF ValuesIn
  <1>2. ASSUME NEW x, NodeIn(heap, x, toSpace), Kind(heap, toSpace, x.slot) = "LEAF"
        PROVE  /\ BlockOf(x).kids \in Seq(Term) /\ ValuesIn(heap, toSpace, BlockOf(x).kids)
               /\ x.space = toSpace /\ BlockOf(x).kind = "LEAF"
    <2>1. x.space = toSpace /\ x.slot \in 1 .. Count(heap, toSpace)
      BY <1>2 DEF NodeIn, RefersTo
    <2>2. BlockOf(x) = heap[toSpace][x.slot] /\ heap[toSpace][x.slot] \in Block
      BY <2>1, MutatorFacts, HeapTyped DEF BlockOf
    <2>3. Whole(heap, toSpace, x.slot, toSpace)
      BY <2>1, MutatorFacts DEF Mutating, Resting
    <2>4. \A n \in 1 .. Len(BlockOf(x).kids) : ValueIn(heap, BlockOf(x).kids[n], toSpace)
      BY <1>2, <2>2, <2>3 DEF Whole, Kid, Arity, Suits
    <2> QED BY <1>2, <2>1, <2>2, <2>4 DEF Block, ValuesIn, Kind
  <1>3. CASE node # Null
    <2>1. /\ NodeIn(heap, node, toSpace) /\ node.space = toSpace
          /\ node.slot \in 1 .. Count(heap, toSpace)
      BY <1>3 DEF NodeIn, RefersTo
    <2>2. /\ Kind(heap, toSpace, node.slot) \in {"LEAF", "INTERNAL"}
          /\ BlockOf(node).kind = Kind(heap, toSpace, node.slot)
      <3>1. Kind(heap, toSpace, node.slot) \in Kinds /\ Kind(heap, toSpace, node.slot) # "TABLE"
        BY <2>1, MutatorFacts, HeapTyped DEF Mutating, Resting, BlockOK
      <3> QED BY <2>1, <3>1 DEF NodeIn, RefersTo, TagOf, Kinds, BlockOf, Kind
    <2>3. CASE Kind(heap, toSpace, node.slot) = "LEAF"
      <3>1. Below(node) = BlockOf(node).kids
        BY <1>3, <2>2, <2>3 DEF Below
      <3> QED BY <1>2, <2>1, <2>3, <3>1
    <2>4. CASE Kind(heap, toSpace, node.slot) = "INTERNAL"
      <3> DEFINE x == BlockOf(node).kids[1]
                 y == BlockOf(node).kids[2]
      <3>1. Below(node) = BlockOf(x).kids \o BlockOf(y).kids
        BY <1>3, <2>2, <2>4 DEF Below
      <3>2. /\ Whole(heap, toSpace, node.slot, toSpace) /\ Arity(heap, toSpace, node.slot) = 3
            /\ x = Kid(heap, toSpace, node.slot, 1) /\ y = Kid(heap, toSpace, node.slot, 2)
        BY <2>1, <2>4, MutatorFacts DEF Mutating, Resting, BlockOK, Kid, BlockOf
      <3>3. /\ Suits(heap, "INTERNAL", 3, 1, x, toSpace) /\ Suits(heap, "INTERNAL", 3, 2, y, toSpace)
        BY <2>4, <3>2 DEF Whole
      <3> HIDE DEF x, y
      <3>4. /\ NodeIn(heap, x, toSpace) /\ Kind(heap, toSpace, x.slot) = "LEAF"
            /\ NodeIn(heap, y, toSpace) /\ Kind(heap, toSpace, y.slot) = "LEAF"
        BY <3>3 DEF Suits
      <3>5. /\ BlockOf(x).kids \in Seq(Term) /\ ValuesIn(heap, toSpace, BlockOf(x).kids)
            /\ BlockOf(y).kids \in Seq(Term) /\ ValuesIn(heap, toSpace, BlockOf(y).kids)
        BY <1>2, <3>4
      <3> QED BY <3>1, <3>5, JoinedValues
    <2> QED BY <2>2, <2>3, <2>4
  <1> QED BY <1>1, <1>3

\* What op_list_nth finds in a list, for all indices.
LEMMA ListValues ==
  ASSUME FrameInv, HeapInv, status \notin {"collect", "die"}, NEW t, ValueIn(heap, t, toSpace), t.tag = "LIST"
  PROVE  ListElems(t) \in Seq(Term) /\ ValuesIn(heap, toSpace, ListElems(t))
  <1>1. CASE t.space = Off
    <2>1. ListElems(t) = <<>>
      BY <1>1 DEF ListElems
    <2> QED BY <2>1 DEF ValuesIn
  <1>2. CASE t.space # Off
    <2> DEFINE x == BlockOf(t).kids[1]
               y == BlockOf(t).kids[2]
    <2>1. RefersTo(heap, t, toSpace)
      BY <1>2 DEF ValueIn, OffValue
    <2>2. (x = Null \/ NodeIn(heap, x, toSpace)) /\ NodeIn(heap, y, toSpace)
      BY <2>1, ListParts
    <2>3. ListElems(t) = Below(x) \o Below(y)
      BY <1>2 DEF ListElems
    <2> HIDE DEF x, y
    <2>4. /\ Below(x) \in Seq(Term) /\ ValuesIn(heap, toSpace, Below(x))
          /\ Below(y) \in Seq(Term) /\ ValuesIn(heap, toSpace, Below(y))
      BY <2>2, ElementsBelow
    <2> QED BY <2>3, <2>4, JoinedValues
  <1> QED BY <1>1, <1>2

\* What op_list_nth puts in the register is a value.
LEMMA NthValue ==
  ASSUME NEW es \in Seq(Term), ValuesIn(heap, toSpace, es), NEW index \in Nat
  PROVE  ValueIn(heap, Nth(es, index), toSpace)
  <1>1. CASE index < Len(es) /\ es[index + 1] # Null
    <2>1. index + 1 \in 1 .. Len(es) /\ Nth(es, index) = es[index + 1]
      BY <1>1 DEF Nth
    <2> QED BY <2>1 DEF ValuesIn
  <1>2. CASE ~(index < Len(es) /\ es[index + 1] # Null)
    <2>1. OffValue(Nil)
      BY DEF OffValue, Nil, Term, Tags
    <2> QED BY <1>2, <2>1 DEF Nth, ValueIn
  <1> QED BY <1>1, <1>2

\* op_list_nth.
LEMMA ListNthSafe ==
  ASSUME WithinLimits, FrameInv, HeapInv, NEW r \in Regs, NEW o \in Regs, NEW index \in Nat,
         op_list_nth(r, o, index)
  PROVE  HeapInv'
  <1> DEFINE t == get_var(o)
             u == Nth(ListElems(t), index)
  <1>1. status = "run" /\ t.tag = "LIST" /\ SetsOnly(r, u)
    BY DEF op_list_nth, Runs
  <1>2. ValueIn(heap, t, toSpace)
    BY <1>1, RegistersReadable, OperandValue
  <1>3. ValueIn(heap, u, toSpace)
    BY <1>1, <1>2, ListValues, NthValue
  <1> HIDE DEF u
  <1> QED BY <1>1, <1>3, SetsOnlySafe

-----------------------------------------------------------------------------
(* Texts *)

\* What strlen and strcpy see of a value is a text put together from others.
LEMMA TextOfValue ==
  ASSUME FrameInv, HeapInv, status \notin {"collect", "die"},
         NEW t, ValueIn(heap, t, toSpace), t.tag = "STRING", NEW s \in CString(t)
  PROVE  s.kids \in Seq(Term) /\ \A n \in 1 .. Len(s.kids) : OffText(s.kids[n])
  <1>1. CASE OffValue(t)
    <2>1. s.kids = <<t>>
      BY <1>1 DEF CString, OffValue, Text
    <2>2. t \in Term /\ OffText(t)
      BY <1>1 DEF OffValue, OffText
    <2> QED BY <2>1, <2>2, OnePiece
  <1>2. CASE RefersTo(heap, t, toSpace)
    <2>1. t.slot \in 1 .. Count(heap, toSpace) /\ Kind(heap, toSpace, t.slot) = "STRING"
      <3>1. t.slot \in 1 .. Count(heap, toSpace)
        BY <1>2 DEF RefersTo
      <3>2. Kind(heap, toSpace, t.slot) \in Kinds
        BY <3>1, MutatorFacts, HeapTyped
      <3> QED BY <1>2, <3>1, <3>2 DEF RefersTo, TagOf, Kinds
    <2>2. /\ BlockOK("STRING", Arity(heap, toSpace, t.slot), Chars(heap, toSpace, t.slot),
                     Size(heap, toSpace, t.slot))
          /\ Whole(heap, toSpace, t.slot, toSpace)
      BY <2>1, MutatorFacts DEF Mutating, Resting
    <2>3. \A n \in 1 .. Arity(heap, toSpace, t.slot) : OffText(Kid(heap, toSpace, t.slot, n))
      BY <2>1, <2>2 DEF Whole, Suits
    <2> QED BY <1>2, <2>1, <2>2, <2>3, MutatorFacts, TextSeen
  <1> QED BY <1>1, <1>2 DEF ValueIn

\* A text put together from two is one.
LEMMA JoinedTexts ==
  ASSUME NEW p \in Seq(Term), NEW q \in Seq(Term),
         \A n \in 1 .. Len(p) : OffText(p[n]), \A n \in 1 .. Len(q) : OffText(q[n])
  PROVE  p \o q \in Seq(Term) /\ \A n \in 1 .. Len(p \o q) : OffText((p \o q)[n])
  <1>1. p \o q \in Seq(Term)
    BY ConcatProperties
  <1>2. \A n \in 1 .. Len(p \o q) :
          (\E k \in 1 .. Len(p) : (p \o q)[n] = p[k]) \/ (\E k \in 1 .. Len(q) : (p \o q)[n] = q[k])
    BY JoinedParts
  <1> QED BY <1>1, <1>2

\* So is a part of a text.
LEMMA CutTexts ==
  ASSUME NEW p \in Seq(Term), \A n \in 1 .. Len(p) : OffText(p[n]),
         NEW a \in 1 .. Len(p), NEW b \in a .. Len(p)
  PROVE  SubSeq(p, a, b) \in Seq(Term) /\ \A n \in 1 .. Len(SubSeq(p, a, b)) : OffText(SubSeq(p, a, b)[n])
  <1>1. /\ SubSeq(p, a, b) \in Seq(Term) /\ Len(SubSeq(p, a, b)) = b - a + 1
        /\ \A n \in 1 .. b - a + 1 : SubSeq(p, a, b)[n] = p[a + n - 1]
    <2>1. a \in Int /\ b \in Int /\ a <= b /\ \A i \in a .. b : p[i] \in Term
      OBVIOUS
    <2> QED BY <2>1, SubSeqProperties
  <1>2. \A n \in 1 .. b - a + 1 : a + n - 1 \in 1 .. Len(p)
    OBVIOUS
  <1> QED BY <1>1, <1>2

\* An opcode that makes a text in a buffer with room for it.
LEMMA MakeTextSafe ==
  ASSUME WithinLimits, FrameInv, HeapInv, status = "run", NEW r \in Regs,
         NEW pieces \in Seq(Term), \A n \in 1 .. Len(pieces) : OffText(pieces[n]),
         NEW len, NEW bytes \in Nat, len < bytes,
         MakeText(r, pieces, len, bytes), UNCHANGED vmVars
  PROVE  HeapInv'
  <1> DEFINE b == [NewBlock("STRING", pieces, len) EXCEPT !.size = align(bytes)]
  <1>1. len \in TextLengths /\ Build(<<b>>, r, Fresh("STRING", 1))
    BY DEF MakeText
  <1>2. len \in Nat /\ len > 0 /\ (TextsFit => len % 8 # 0)
    BY <1>1, VmAssumption DEF WithinLimits, TextsFit
  <1>3. align(bytes) \in Nat /\ align(len) <= align(bytes)
    BY <1>2, AlignedOrder
  <1>4. /\ b.kind = "STRING" /\ b.kids = pieces /\ b.len = len /\ b.fwd = 0
        /\ b.size = align(bytes)
    BY DEF NewBlock
  <1>5. b = [kind |-> "STRING", kids |-> pieces, len |-> len, size |-> align(bytes), fwd |-> 0]
    BY DEF NewBlock
  <1> HIDE DEF b
  <1>6. b \in Block
    BY <1>2, <1>3, <1>5 DEF Block, Kinds
  <1>7. BlockOK(b.kind, Len(b.kids), b.len, b.size)
    BY <1>2, <1>3, <1>4 DEF BlockOK
  <1>8. \A n \in 1 .. Len(b.kids) : Suits(heap, b.kind, Len(b.kids), n, b.kids[n], toSpace)
    BY <1>4 DEF Suits
  <1> QED BY <1>1, <1>4, <1>6, <1>7, <1>8, BuildSafe

\* op_concat.
LEMMA ConcatSafe ==
  ASSUME WithinLimits, FrameInv, HeapInv, NEW r \in Regs, NEW o1 \in Regs, NEW o2 \in Regs,
         op_concat(r, o1, o2)
  PROVE  HeapInv'
  <1> DEFINE left == get_var(o1)
             right == get_var(o2)
  <1>1. status = "run" /\ UNCHANGED vmVars
    BY DEF op_concat, Runs
  <1>2. ValueIn(heap, left, toSpace) /\ ValueIn(heap, right, toSpace)
    BY <1>1, RegistersReadable, OperandValue
  <1>3. CASE Stop("exit")
    BY <1>1, <1>3, StopSafe
  <1>4. CASE ~Stop("exit")
    <2>1. left.tag = "STRING" /\ right.tag = "STRING"
      BY <1>4 DEF op_concat
    <2>2. PICK s1 \in CString(left), s2 \in CString(right) :
            LET s == Join(s1, s2)
            IN  MakeText(r, s.kids, s.len, s.len + 1)
      BY <1>4, <2>1 DEF op_concat
    <2> DEFINE kids == s1.kids \o s2.kids
               len == s1.len + s2.len
    <2>3. MakeText(r, kids, len, len + 1)
      BY <2>2 DEF Join, Text
    <2>4. /\ s1.kids \in Seq(Term) /\ \A n \in 1 .. Len(s1.kids) : OffText(s1.kids[n])
          /\ s2.kids \in Seq(Term) /\ \A n \in 1 .. Len(s2.kids) : OffText(s2.kids[n])
      BY <1>1, <1>2, <2>1, TextOfValue
    <2>5. kids \in Seq(Term) /\ \A n \in 1 .. Len(kids) : OffText(kids[n])
      BY <2>4, JoinedTexts
    <2> HIDE DEF kids, len
    <2>6. len \in Nat
      BY <2>3, VmAssumption DEF MakeText
    <2>7. len + 1 \in Nat /\ len < len + 1
      BY <2>6
    <2> QED BY <1>1, <2>3, <2>5, <2>7, MakeTextSafe
  <1> QED BY <1>3, <1>4

\* op_string_slice.
LEMMA StringSliceSafe ==
  ASSUME WithinLimits, FrameInv, HeapInv, NEW r \in Regs, NEW o \in Regs, op_string_slice(r, o)
  PROVE  HeapInv'
  <1> DEFINE t == get_var(o)
  <1>1. status = "run" /\ UNCHANGED vmVars /\ t.tag = "STRING"
    BY DEF op_string_slice, Runs
  <1>2. ValueIn(heap, t, toSpace)
    BY <1>1, RegistersReadable, OperandValue
  <1>3. CASE Stop("exit")
    BY <1>1, <1>3, StopSafe
  <1>4. CASE ~Stop("exit")
    <2>1. PICK s \in CString(t) :
            \E a \in 1 .. Len(s.kids) : \E b \in a .. Len(s.kids) : \E n \in b - a + 1 .. s.len :
              MakeText(r, SubSeq(s.kids, a, b), n, n + 1)
      BY <1>4 DEF op_string_slice
    <2>2. s.kids \in Seq(Term) /\ \A n \in 1 .. Len(s.kids) : OffText(s.kids[n])
      BY <1>1, <1>2, TextOfValue
    <2>3. PICK a \in 1 .. Len(s.kids) : \E b \in a .. Len(s.kids) : \E n \in b - a + 1 .. s.len :
            MakeText(r, SubSeq(s.kids, a, b), n, n + 1)
      BY <2>1
    <2>4. PICK b \in a .. Len(s.kids) : \E n \in b - a + 1 .. s.len :
            MakeText(r, SubSeq(s.kids, a, b), n, n + 1)
      BY <2>3
    <2>5. PICK n : MakeText(r, SubSeq(s.kids, a, b), n, n + 1)
      BY <2>4
    <2> DEFINE q == SubSeq(s.kids, a, b)
    <2>6. q \in Seq(Term) /\ \A k \in 1 .. Len(q) : OffText(q[k])
      BY <2>2, CutTexts
    <2>7. n \in Nat
      BY <2>5, VmAssumption DEF MakeText
    <2>8. n + 1 \in Nat /\ n < n + 1 /\ MakeText(r, q, n, n + 1)
      BY <2>5, <2>7
    <2> HIDE DEF q
    <2> QED BY <1>1, <2>6, <2>8, MakeTextSafe
  <1> QED BY <1>3, <1>4

\* op_to_string: the digits of an integer fit the buffer.
LEMMA ToStringSafe ==
  ASSUME WithinLimits, FrameInv, HeapInv, NEW r \in Regs, NEW o \in Regs, op_to_string(r, o)
  PROVE  HeapInv'
  <1> DEFINE t == get_var(o)
             bytes == INT_MAX_DIGITS + 1
  <1>1. status = "run" /\ UNCHANGED vmVars /\ t.tag = "INT"
    BY DEF op_to_string, Runs
  <1>2. PICK n \in 1 .. INT_MAX_DIGITS : MakeText(r, <<t>>, n, bytes)
    BY DEF op_to_string
  <1>3. bytes \in Nat /\ n < bytes
    BY DEF INT_MAX_DIGITS
  <1>4. ValueIn(heap, t, toSpace)
    BY <1>1, RegistersReadable, OperandValue
  <1>5. OffValue(t)
    <2>1. ~RefersTo(heap, t, toSpace)
      <3>1. ASSUME RefersTo(heap, t, toSpace) PROVE FALSE
        <4>1. Kind(heap, toSpace, t.slot) \in Kinds
          BY <1>1, <3>1, MutatorFacts, HeapTyped DEF RefersTo
        <4> QED BY <1>1, <3>1, <4>1 DEF RefersTo, TagOf, Kinds
      <3> QED BY <3>1
    <2> QED BY <1>4, <2>1 DEF ValueIn
  <1>6. t \in Term /\ OffText(t)
    BY <1>5 DEF OffValue, OffText
  <1> HIDE DEF t, bytes
  <1>7. <<t>> \in Seq(Term) /\ \A k \in 1 .. Len(<<t>>) : OffText(<<t>>[k])
    BY <1>6, OnePiece
  <1> QED BY <1>1, <1>2, <1>3, <1>7, MakeTextSafe

\* The literals are texts off the heap.
LEMMA LiteralsAreTexts ==
  ASSUME NEW k \in 1 .. Len(LitLen)
  PROVE  Literal(k) \in Term /\ OffValue(Literal(k)) /\ OffText(Literal(k)) /\ LitLen[k] \in Nat
  <1>1. OffValue(Literal(k)) /\ LitLen[k] \in Nat
    BY HeapAssumption DEF OffValue, Literal, Term, Tags
  <1> QED BY <1>1 DEF OffValue, OffText

\* op_file_pwd: the path fits the buffer.
LEMMA FilePwdSafe ==
  ASSUME WithinLimits, FrameInv, HeapInv, NEW r \in Regs, op_file_pwd(r)
  PROVE  HeapInv'
  <1>1. status = "run" /\ UNCHANGED vmVars
    BY DEF op_file_pwd, Runs
  <1>2. PICK k \in 1 .. Len(LitLen) : /\ LitLen[k] < PathMax
                                     /\ MakeText(r, <<Literal(k)>>, LitLen[k], PathMax)
    BY DEF op_file_pwd
  <1>3. Literal(k) \in Term /\ OffText(Literal(k)) /\ PathMax \in Nat
    BY LiteralsAreTexts, VmAssumption
  <1>4. <<Literal(k)>> \in Seq(Term) /\ \A n \in 1 .. Len(<<Literal(k)>>) : OffText(<<Literal(k)>>[n])
    BY <1>3, OnePiece
  <1> QED BY <1>1, <1>2, <1>3, <1>4, MakeTextSafe

-----------------------------------------------------------------------------
(* Calls *)

\* Nothing is in progress.
LEMMA IdleTyped ==
  /\ Idle \in Pending /\ Idle.list = EmptyList /\ Len(Idle.args) <= MaxArgs /\ EntriesOK(Idle)
  /\ 0 \in Regs /\ OffValue(Null) /\ Null \in Term /\ EmptyList \in Term
  <1>1. 0 \in Regs /\ 1 \in Functions /\ EmptyList \in Term
    BY GcAssumption, VmAssumption DEF Regs, EmptyList, Term, Tags
  <1>2. Idle \in Pending
    BY <1>1 DEF Idle, Pending
  <1>3. Idle.args = <<>> /\ Len(<<>>) = 0 /\ 0 <= MaxArgs /\ EntriesOK(Idle)
    BY VmAssumption DEF Idle, EntriesOK
  <1> QED BY <1>1, <1>2, <1>3 DEF Idle, OffValue, Null, Term, Tags

\* setup_next_stackframe: the callee finds its arguments and nothing else.
LEMMA CallFrameSafe ==
  ASSUME FrameInv, HeapInv, status \notin {"collect", "die"}, NEW fun \in Term, NEW upvals \in Nat,
         NEW args \in Seq(Regs), NEW ret \in Regs, ClosureIn(heap, toSpace, fun, upvals),
         setup_next_stackframe(fun, upvals, args, ret)
  PROVE  HeapInv'
  <1>1. CASE ~(currentFrame + 1 < StackDepth)
    BY <1>1, StopSafe DEF setup_next_stackframe
  <1>2. CASE currentFrame + 1 < StackDepth
    <2> DEFINE n == currentFrame + 1
               rs == Arguments(registers[n], args)
               link == [ret |-> ret, fun |-> fun, upvals |-> upvals]
    <2>1. /\ currentFrame' = n /\ registers' = [registers EXCEPT ![n] = rs]
          /\ frames' = [frames EXCEPT ![n] = link] /\ currentFunction' = fun
          /\ pending' = Idle /\ fresh' = TRUE /\ status' = "run"
          /\ UNCHANGED <<heap, toSpace, allocPtr, calls, loaded>>
      BY <1>2 DEF setup_next_stackframe
    <2>2. n \in Frames /\ currentFrame \in Nat /\ currentFrame \in Frames /\ n > currentFrame
      BY <1>2, MutatorFacts, GcAssumption DEF Frames
    <2>3. registers[n] = Cleared
      BY <2>2 DEF FrameInv, CleanAbove
    <2>4. ASSUME NEW r \in Regs
          PROVE  ValueIn(heap, rs[r], toSpace)
      <3>1. CASE r \in 1 .. Len(args)
        <4>1. args[r] \in Regs /\ currentFrame \in 0 .. currentFrame
          BY <2>2, <3>1
        <4>2. rs[r] = Reg(registers, currentFrame, args[r])
          BY <3>1 DEF Arguments, Reg
        <4> QED BY <4>1, <4>2, MutatorFacts DEF RegistersIn
      <3>2. CASE r \notin 1 .. Len(args)
        <4>1. rs[r] = Null
          BY <2>3, <3>2 DEF Arguments, Cleared
        <4> QED BY <4>1, IdleTyped DEF ValueIn
      <3> QED BY <3>1, <3>2
    <2>5. rs \in [Regs -> Term]
      <3>1. rs = [r \in Regs |-> rs[r]]
        BY DEF Arguments
      <3>2. \A r \in Regs : rs[r] \in Term
        BY <2>4, ValueTyped
      <3> HIDE DEF rs
      <3> QED BY <3>1, <3>2
    <2> HIDE DEF rs, link, n
    <2>6. registers' \in [Frames -> [Regs -> Term]]
      BY <2>1, <2>5, MutatorFacts
    <2>7. RegistersIn(heap, toSpace, registers', n)
      <3> SUFFICES ASSUME NEW i \in 0 .. n, NEW j \in Regs
                   PROVE  ValueIn(heap, Reg(registers', i, j), toSpace)
        BY DEF RegistersIn
      <3>1. i \in Frames
        BY <2>2, GcAssumption DEF Frames
      <3>2. CASE i = n
        <4>1. Reg(registers', i, j) = rs[j]
          BY <2>1, <3>1, <3>2, MutatorFacts DEF Reg
        <4> QED BY <2>4, <4>1
      <3>3. CASE i # n
        <4>1. Reg(registers', i, j) = Reg(registers, i, j)
          BY <2>1, <3>1, <3>3, MutatorFacts DEF Reg
        <4>2. i \in 0 .. currentFrame
          BY <2>2, <3>3 DEF n
        <4> QED BY <4>1, <4>2, MutatorFacts DEF RegistersIn
      <3> QED BY <3>2, <3>3
    <2>8. Mutating'
      BY <2>1, <2>6, <2>7, MutatorFacts DEF Mutating, Frames, Regs, Term, Tags, Spaces, Off
    <2>9. frames' \in [Frames -> Link] /\ frames'[n].upvals = upvals
      <3>1. link \in Link /\ link.upvals = upvals
        BY DEF link, Link
      <3> QED BY <2>1, <2>2, <3>1, MutatorFacts DEF VmTypeOK
    <2>10. VmTypeOK'
      BY <2>1, <2>9, IdleTyped, MutatorFacts DEF VmTypeOK
    <2>11. ClosureOK'
      BY <2>1, <2>9 DEF ClosureOK
    <2>12. PendingOK'
      BY <2>1, IdleTyped DEF PendingOK
    <2> QED BY <2>1, <2>8, <2>10, <2>11, <2>12 DEF HeapInv
  <1> QED BY <1>1, <1>2

\* op_call_local.
LEMMA CallLocalSafe ==
  ASSUME WithinLimits, FrameInv, HeapInv, NEW r \in Regs, NEW o \in Operands, NEW args \in CallArgs,
         op_call_local(r, o, args)
  PROVE  HeapInv'
  <1> DEFINE fun == get_var(o)
             n == IF fun.space = Off THEN 0 ELSE Len(BlockOf(fun).kids)
  <1>1. status = "run" /\ Readable(o)
    BY DEF op_call_local, Runs
  <1>2. ValueIn(heap, fun, toSpace) /\ fun \in Term
    BY <1>1, OperandValue
  <1>3. CASE fun.tag # "FUNCTION"
    BY <1>1, <1>3, StopSafe DEF op_call_local
  <1>4. CASE fun.tag = "FUNCTION"
    <2>1. setup_next_stackframe(fun, n, args, r)
      BY <1>4 DEF op_call_local
    <2>2. n \in Nat /\ ClosureIn(heap, toSpace, fun, n)
      <3>1. CASE fun.space = Off
        BY <1>2, <3>1 DEF ClosureIn
      <3>2. CASE fun.space # Off
        <4>1. RefersTo(heap, fun, toSpace)
          BY <1>2, <3>2 DEF ValueIn, OffValue
        <4>2. n = Arity(heap, toSpace, fun.slot)
          BY <3>2, <4>1 DEF BlockOf, Arity, RefersTo
        <4>3. n \in Nat
          BY <4>1, <4>2, MutatorFacts, HeapTyped DEF RefersTo
        <4> HIDE DEF n
        <4> QED BY <1>2, <1>4, <4>1, <4>2, <4>3 DEF ClosureIn
      <3> QED BY <3>1, <3>2
    <2>3. args \in Seq(Regs)
      BY RegistersReadable DEF CallArgs
    <2> HIDE DEF n, fun
    <2> QED BY <1>1, <1>2, <2>1, <2>2, <2>3, CallFrameSafe
  <1> QED BY <1>3, <1>4

\* op_return: what is left in the frame is cleared.
LEMMA OpReturnSafe ==
  ASSUME FrameInv, HeapInv, op_return
  PROVE  HeapInv'
  <1> DEFINE c == currentFrame
             d == currentFrame - 1
             q == frames[c].ret
             t == registers[c][0]
             rs == [registers EXCEPT ![d][q] = t]
  <1>1. /\ status = "run" /\ c > 0
        /\ registers' = [registers EXCEPT ![d][q] = t, ![c] = Cleared]
        /\ frames' = [frames EXCEPT ![c] = NoLink] /\ currentFrame' = d /\ fresh' = FALSE
        /\ UNCHANGED <<heap, toSpace, allocPtr, calls, status, currentFunction, pending, loaded>>
    BY DEF op_return, Runs, ClearRegisters
  <1>2. /\ c \in Nat /\ c \in Frames /\ d \in Nat /\ d \in Frames /\ q \in Regs
        /\ \A i \in 0 .. d : i \in 0 .. c /\ i # c /\ i \in Frames
    <2>1. c \in Nat /\ c \in Frames /\ d \in Nat /\ d \in Frames
          /\ \A i \in 0 .. d : i \in 0 .. c /\ i # c /\ i \in Frames
      BY <1>1, MutatorFacts, GcAssumption DEF Frames
    <2> QED BY <1>1, <2>1, MutatorFacts DEF VmTypeOK, Link
  <1>3. ValueIn(heap, t, toSpace)
    <2>1. t = Reg(registers, c, 0) /\ c \in 0 .. c
      BY <1>2 DEF Reg
    <2> QED BY <1>1, <2>1, MutatorFacts, IdleTyped DEF RegistersIn
  <1>4. registers' = [rs EXCEPT ![c] = Cleared]
    BY <1>1
  <1> HIDE DEF t, q
  <1>5. rs \in [Frames -> [Regs -> Term]] /\ RegistersIn(heap, toSpace, rs, d)
    <2>1. RegistersIn(heap, toSpace, registers, d)
      BY <1>1, <1>2, MutatorFacts DEF RegistersIn
    <2> QED BY <1>1, <1>2, <1>3, <2>1, MutatorFacts, RegisterSet
  <1> HIDE DEF rs, c, d
  <1>6. registers' \in [Frames -> [Regs -> Term]]
    <2>1. Cleared \in [Regs -> Term]
      BY IdleTyped DEF Cleared
    <2> QED BY <1>4, <1>5, <2>1
  <1>7. RegistersIn(heap, toSpace, registers', d)
    <2> SUFFICES ASSUME NEW i \in 0 .. d, NEW j \in Regs
                 PROVE  ValueIn(heap, Reg(registers', i, j), toSpace)
      BY DEF RegistersIn
    <2>1. Reg(registers', i, j) = Reg(rs, i, j)
      BY <1>2, <1>4, <1>5 DEF Reg
    <2> QED BY <1>5, <2>1 DEF RegistersIn
  <1>8. Mutating'
    BY <1>1, <1>6, <1>7, MutatorFacts DEF Mutating, Frames, Regs, Term, Tags, Spaces, Off, c, d
  <1>9. VmTypeOK'
    <2>1. NoLink \in Link
      BY IdleTyped DEF NoLink, Link
    <2> QED BY <1>1, <2>1, MutatorFacts DEF VmTypeOK
  <1>10. ClosureOK' /\ PendingOK'
    BY <1>1, MutatorFacts DEF ClosureOK, PendingOK, EmptyList
  <1> QED BY <1>1, <1>8, <1>9, <1>10 DEF HeapInv

-----------------------------------------------------------------------------
(* Collections *)

\* The half-spaces are swapped; what is in progress waits.
LEMMA StartCollectSafe ==
  ASSUME FrameInv, HeapInv, status \notin {"collect", "die"}, StartCollect, fresh' = FALSE,
         pending' \in Pending, pending'.list = EmptyList, Len(pending'.args) <= MaxArgs,
         EntriesOK(pending'), pending'.op = "gc_collect" => pending'.before = allocPtr,
         UNCHANGED <<frames, currentFunction, loaded>>
  PROVE  HeapInv'
  <1> DEFINE sc == [i |-> 0, j |-> 0]
  <1>1. /\ toSpace' = Other(toSpace) /\ allocPtr' = 0 /\ scan' = sc /\ calls' = <<>>
        /\ status' = "collect" /\ UNCHANGED <<heap, registers, currentFrame>>
    BY DEF StartCollect, FromSpace, Other
  <1>2. PICK rank : Resting(heap, toSpace, allocPtr, rank)
    BY MutatorFacts DEF Mutating
  <1> HIDE DEF sc
  <1>3. Limit' \in {allocPtr, HalfSize}
    BY DEF Limit
  <1>4. CollectInv'
    <2>1. /\ Collecting(heap, Other(toSpace), <<>>, registers, sc, currentFrame, rank)
          /\ AllReached(heap, Other(toSpace), <<>>, registers, currentFrame)
          /\ Accounts(heap, Other(toSpace), <<>>, 0, Limit')
      BY <1>2, <1>3, MutatorFacts, CollectionStarts DEF sc
    <2> QED BY <1>1, <2>1 DEF CollectInv
  <1>5. VmTypeOK'
    BY MutatorFacts DEF VmTypeOK
  <1>6. ClosureOK' /\ PendingOK'
    BY <1>1 DEF ClosureOK, PendingOK, EmptyList
  <1> QED BY <1>1, <1>4, <1>5, <1>6 DEF HeapInv

\* The copies are all there is.
LEMMA EndCollectFacts ==
  ASSUME FrameInv, HeapInv, NEW next, EndCollect(next)
  PROVE  /\ VmTypeOK /\ PendingOK /\ ~fresh /\ status = "collect" /\ status' = next
         /\ toSpace' = toSpace /\ currentFrame' = currentFrame /\ calls' = <<>>
         /\ currentFrame \in Frames /\ allocPtr \in Nat
         /\ \E rank : Resting(heap', toSpace, allocPtr', rank)
         /\ registers \in [Frames -> [Regs -> Term]]
         /\ RegistersIn(heap', toSpace, registers, currentFrame)
  <1>1. /\ status = "collect" /\ calls = <<>> /\ LoopDone(calls) /\ status' = next
        /\ heap' = [heap EXCEPT ![Other(toSpace)] = <<>>]
        /\ UNCHANGED <<toSpace, allocPtr, currentFrame, calls>>
    BY DEF EndCollect, FromSpace, Other
  <1>2. VmTypeOK /\ PendingOK /\ ~fresh /\ CollectInv
    BY <1>1 DEF HeapInv
  <1>3. PICK rank : Collecting(heap, toSpace, calls, registers, scan, currentFrame, rank)
    BY <1>2 DEF CollectInv
  <1>4. registers \in [Frames -> [Regs -> Term]] /\ currentFrame \in Frames
    BY <1>3 DEF Collecting, Typed
  <1>5. Accounts(heap, toSpace, calls, allocPtr, Limit) /\ allocPtr \in Nat
    BY <1>2 DEF CollectInv, Accounts
  <1>6. scan.i > currentFrame
    BY <1>1 DEF LoopDone
  <1>7. Resting(heap', toSpace, allocPtr, rank) /\ RegistersIn(heap', toSpace, registers, currentFrame)
    BY <1>1, <1>3, <1>5, <1>6, CollectionEnds
  <1> QED BY <1>1, <1>2, <1>4, <1>5, <1>7

\* op_gc_collect goes on.
LEMMA AfterCollectSafe ==
  ASSUME FrameInv, HeapInv, AfterCollect
  PROVE  HeapInv'
  <1> DEFINE t == Immediate(IF allocPtr <= pending.before THEN 0 ELSE 1)
  <1>1. /\ EndCollect("run") /\ registers' = [registers EXCEPT ![currentFrame][pending.ret] = t]
        /\ pending' = Idle /\ UNCHANGED <<frames, currentFunction, fresh, loaded>>
    BY DEF AfterCollect, set_reg
  <1>2. OffValue(t)
    BY DEF Immediate, OffValue, Term, Tags
  <1>3. pending.ret \in Regs
    BY <1>1, EndCollectFacts DEF VmTypeOK, Pending
  <1> HIDE DEF t
  <1>4. registers' \in [Frames -> [Regs -> Term]] /\ RegistersIn(heap', toSpace, registers', currentFrame)
    BY <1>1, <1>2, <1>3, EndCollectFacts, RegisterSet DEF ValueIn
  <1>5. Mutating'
    BY <1>1, <1>4, EndCollectFacts DEF Mutating, Frames, Regs, Term, Tags, Spaces, Off
  <1>6. VmTypeOK'
    BY <1>1, EndCollectFacts, IdleTyped DEF VmTypeOK
  <1>7. ClosureOK' /\ PendingOK'
    BY <1>1, EndCollectFacts, IdleTyped DEF ClosureOK, PendingOK, EmptyList
  <1> QED BY <1>1, <1>5, <1>6, <1>7, EndCollectFacts DEF HeapInv

\* op_call goes on.
LEMMA AfterSafepointSafe ==
  ASSUME FrameInv, HeapInv, AfterSafepoint
  PROVE  HeapInv'
  <1>1. /\ EndCollect("load") /\ UNCHANGED registers
        /\ pending.op = "call" /\ UNCHANGED <<frames, currentFunction, fresh, pending, loaded>>
    BY DEF AfterSafepoint, vmVars
  <1>2. Mutating'
    BY <1>1, EndCollectFacts DEF Mutating, Frames, Regs, Term, Tags, Spaces, Off
  <1>3. VmTypeOK'
    BY <1>1, EndCollectFacts DEF VmTypeOK
  <1>4. ClosureOK' /\ PendingOK'
    BY <1>1, EndCollectFacts DEF ClosureOK, PendingOK, EmptyList
  <1> QED BY <1>1, <1>2, <1>3, <1>4, EndCollectFacts DEF HeapInv

\* A step of the collector.
LEMMA CollectorSafe ==
  ASSUME FrameInv, HeapInv, status = "collect", CollectStep, UNCHANGED vmVars
  PROVE  HeapInv' /\ (TextsFit => status' = "collect")
  <1>1. /\ CollectInv /\ VmTypeOK /\ PendingOK /\ ~fresh
        /\ UNCHANGED <<frames, currentFunction, fresh, pending, loaded>>
    BY DEF HeapInv, vmVars
  <1>2. VmTypeOK'
    BY <1>1 DEF VmTypeOK
  <1>3. CASE CollectInv' /\ UNCHANGED <<toSpace, currentFrame, status>>
    <2>1. ClosureOK' /\ PendingOK'
      BY <1>1, <1>3 DEF ClosureOK, PendingOK, EmptyList
    <2> QED BY <1>1, <1>2, <1>3, <2>1 DEF HeapInv
  <1>4. CASE ~TextsFit /\ Die
    <2>1. status' = "die" /\ UNCHANGED <<heap, toSpace, allocPtr, registers, currentFrame, scan, calls>>
      BY <1>4 DEF Die
    <2>2. CollectInv'
      BY <1>1, <2>1 DEF CollectInv, Limit
    <2>3. ClosureOK' /\ PendingOK'
      BY <1>1, <2>1 DEF ClosureOK, PendingOK
    <2> QED BY <1>2, <1>4, <2>1, <2>2, <2>3 DEF HeapInv
  <1> QED BY <1>1, <1>3, <1>4, CollectStepSafe

-----------------------------------------------------------------------------
(* What is in progress between opcodes *)

\* The VM stops in the middle of an opcode, or goes from one part of it to the
\* next, without touching the heap or a register.
LEMMA PendingSafe ==
  ASSUME FrameInv, HeapInv, status \notin {"collect", "die"}, NEW s \in Statuses \ {"collect"}, Stop(s),
         pending' \in Pending, Len(pending'.args) <= MaxArgs, EntriesOK(pending'), loaded' \subseteq Functions,
         UNCHANGED <<frames, currentFunction, fresh>>,
         s = "load" => pending'.op # "file_ls",
         s # "push" => pending'.list = EmptyList,
         s = "push" => /\ ListIn(heap, toSpace, pending'.list)
                       /\ ValuesIn(heap, toSpace, pending'.todo)
                       /\ Len(pending'.todo) <= ListRoom(heap, toSpace, pending'.list)
  PROVE  HeapInv'
  <1>1. /\ status' = s /\ UNCHANGED <<heap, toSpace, allocPtr, registers, currentFrame, calls>>
    BY DEF Stop
  <1>2. Mutating'
    BY <1>1, MutatorFacts DEF Mutating, Frames, Regs, Term, Tags, Spaces, Off
  <1>3. VmTypeOK'
    BY <1>1, MutatorFacts DEF VmTypeOK
  <1>4. ClosureOK' /\ PendingOK'
    BY <1>1, MutatorFacts DEF ClosureOK, PendingOK, EmptyList, ListRoom, Room, Null, Off
  <1> QED BY <1>1, <1>2, <1>3, <1>4 DEF HeapInv

\* The operands of one opcode.
LEMMA ArgsBounded ==
  ASSUME NEW S, NEW os \in ArgLists(S)
  PROVE  os \in Seq(S) /\ Len(os) \in 0 .. MaxArgs /\ os = [k \in 1 .. Len(os) |-> os[k]]
  <1>1. PICK n \in Arities : os \in [1 .. n -> S]
    BY DEF ArgLists
  <1>2. n \in 0 .. MaxArgs /\ n \in Nat
    BY <1>1, VmAssumption
  <1> QED BY <1>1, <1>2

\* op_call and the call of the entry function.
LEMMA CallSafe ==
  ASSUME FrameInv, HeapInv, status \in {"run", "boot"}, NEW r \in Regs, NEW f \in Functions,
         NEW args \in Seq(Regs), Len(args) <= MaxArgs, Call(r, f, args)
  PROVE  HeapInv'
  <1>1. /\ pending' \in Pending /\ pending'.list = EmptyList /\ pending'.op = "call"
        /\ pending'.args = args /\ EntriesOK(pending')
    BY IdleTyped DEF Call, Idle, Pending, EntriesOK
  <1>2. CASE NeedsCollect
    BY <1>1, <1>2, StartCollectSafe DEF Call
  <1>3. CASE ~NeedsCollect
    <2>1. loaded' \subseteq Functions
      BY MutatorFacts DEF Call, VmTypeOK
    <2> QED BY <1>1, <1>3, <2>1, PendingSafe DEF Call, Statuses
  <1> QED BY <1>2, <1>3

\* op_capture.
LEMMA CaptureSafe ==
  ASSUME FrameInv, HeapInv, NEW r \in Regs, NEW f \in Functions, op_capture(r, f)
  PROVE  HeapInv'
  <1>1. /\ pending' \in Pending /\ pending'.list = EmptyList /\ pending'.args = Idle.args
        /\ pending'.op = "capture" /\ EntriesOK(pending')
    BY IdleTyped DEF op_capture, Idle, Pending, EntriesOK
  <1>2. status = "run" /\ Stop("load") /\ UNCHANGED <<frames, currentFunction, fresh, loaded>>
    BY DEF op_capture, Runs
  <1>3. loaded' \subseteq Functions
    BY <1>2, MutatorFacts DEF VmTypeOK
  <1> QED BY <1>1, <1>2, <1>3, IdleTyped, PendingSafe DEF Statuses

\* The names of functions are values wherever they are.
LEMMA NamesAreValues ==
  ASSUME NEW fs \in Seq(Functions), NEW h, NEW T
  PROVE  Names(fs) \in Seq(Term) /\ ValuesIn(h, T, Names(fs)) /\ \A f \in Functions : OffValue(Named(f))
  <1>1. \A f \in Functions : OffValue(Named(f)) /\ Named(f) \in Term
    BY VmAssumption DEF OffValue, Named, Term, Tags
  <1>2. Names(fs) \in Seq(Term) /\ Len(Names(fs)) = Len(fs)
    BY <1>1 DEF Names
  <1>3. \A k \in 1 .. Len(fs) : Names(fs)[k] = Named(fs[k]) /\ fs[k] \in Functions
    BY DEF Names
  <1> QED BY <1>1, <1>2, <1>3 DEF ValuesIn, ValueIn

\* An opcode that begins to make a list of what is in q.
LEMMA BeginsSafe ==
  ASSUME FrameInv, HeapInv, status = "run",
         NEW op \in {"list", "file_ls", "code_load"}, NEW q \in Seq(Term), ValuesIn(heap, toSpace, q),
         Len(q) <= 3 * Branching,
         op = "file_ls" => \A k \in 1 .. Len(q) :
           q[k].space = Off => q[k].tag = "STRING" /\ LitLen[q[k].slot] \in TextLengths,
         pending' \in Pending, pending'.op = op, pending'.todo = q, pending'.list = EmptyList,
         pending'.args = Idle.args, Stop("push"), UNCHANGED <<frames, currentFunction, fresh, loaded>>
  PROVE  HeapInv'
  <1>1. EntriesOK(pending')
    BY DEF EntriesOK
  <1>2. loaded' \subseteq Functions
    BY MutatorFacts DEF VmTypeOK
  <1>3. ListIn(heap, toSpace, pending'.list) /\ 3 * Branching = ListRoom(heap, toSpace, pending'.list)
    BY DEF ListIn, ListRoom
  <1> QED BY <1>1, <1>2, <1>3, IdleTyped, PendingSafe DEF Statuses

\* op_list.
LEMMA ListSafe ==
  ASSUME WithinLimits, FrameInv, HeapInv, NEW r \in Regs, NEW os \in ArgLists(Regs), op_list(r, os)
  PROVE  HeapInv'
  <1> DEFINE q == Vals(os)
  <1>1. status = "run" /\ Stop("push") /\ UNCHANGED <<frames, currentFunction, fresh, loaded>>
    BY DEF op_list, Runs
  <1>2. q \in Seq(Term) /\ ValuesIn(heap, toSpace, q)
    BY <1>1, RegistersReadable, OperandValues
  <1>3. Len(q) <= 3 * Branching
    <2>1. Len(q) = Len(os) /\ Len(os) \in 0 .. MaxArgs
      BY <1>1, RegistersReadable, OperandValues, ArgsBounded
    <2> QED BY <2>1, VmAssumption
  <1>4. pending' = [Idle EXCEPT !.op = "list", !.ret = r, !.todo = q]
    BY DEF op_list
  <1> HIDE DEF q
  <1>5. /\ pending' \in Pending /\ pending'.op = "list" /\ pending'.todo = q
        /\ pending'.list = EmptyList /\ pending'.args = Idle.args
    BY <1>2, <1>4, IdleTyped DEF Idle, Pending
  <1> QED BY <1>1, <1>2, <1>3, <1>5, BeginsSafe

\* op_file_ls: the names are texts off the heap.
LEMMA FileLsSafe ==
  ASSUME FrameInv, HeapInv, NEW r \in Regs, NEW o, op_file_ls(r, o)
  PROVE  HeapInv'
  <1> DEFINE S == {k \in 1 .. Len(LitLen) : LitLen[k] \in TextLengths}
  <1>1. status = "run" /\ Stop("push") /\ UNCHANGED <<frames, currentFunction, fresh, loaded>>
    BY DEF op_file_ls, Runs
  <1>2. PICK names \in {<<>>} \cup ArgLists(S) :
          pending' = [Idle EXCEPT !.op = "file_ls", !.ret = r,
                                  !.todo = [n \in 1 .. Len(names) |-> Literal(names[n])]]
    BY DEF op_file_ls
  <1>3. names \in Seq(S) /\ Len(names) \in 0 .. MaxArgs
    <2>1. CASE names = <<>>
      BY <2>1, VmAssumption
    <2>2. CASE names \in ArgLists(S)
      <3> HIDE DEF S
      <3> QED BY <2>2, ArgsBounded
    <2> QED BY <1>2, <2>1, <2>2
  <1> DEFINE q == [n \in 1 .. Len(names) |-> Literal(names[n])]
  <1>4. \A n \in 1 .. Len(names) : /\ q[n] = Literal(names[n]) /\ names[n] \in 1 .. Len(LitLen)
                                   /\ LitLen[names[n]] \in TextLengths
    BY <1>3
  <1>5. \A n \in 1 .. Len(names) : q[n] \in Term /\ OffValue(q[n])
    BY <1>4, LiteralsAreTexts
  <1>6. Len(q) = Len(names) /\ Len(names) \in Nat
    BY <1>3
  <1>7. q \in Seq(Term)
    BY <1>5, <1>6
  <1>8. pending' = [Idle EXCEPT !.op = "file_ls", !.ret = r, !.todo = q]
    BY <1>2
  <1> HIDE DEF q, S
  <1>9. ValuesIn(heap, toSpace, q)
    BY <1>5, <1>6 DEF ValuesIn, ValueIn
  <1>10. \A k \in 1 .. Len(q) : q[k].tag = "STRING" /\ LitLen[q[k].slot] \in TextLengths
    <2>1. \A k \in 1 .. Len(LitLen) : Literal(k).tag = "STRING" /\ Literal(k).slot = k
      BY DEF Literal
    <2> QED BY <1>4, <1>6, <2>1
  <1>11. Len(q) <= 3 * Branching
    BY <1>3, <1>6, VmAssumption
  <1>12. /\ pending' \in Pending /\ pending'.op = "file_ls" /\ pending'.todo = q
         /\ pending'.list = EmptyList /\ pending'.args = Idle.args
    BY <1>7, <1>8, IdleTyped DEF Idle, Pending
  <1> QED BY <1>1, <1>7, <1>9, <1>10, <1>11, <1>12, BeginsSafe

\* op_code_load.
LEMMA CodeLoadSafe ==
  ASSUME FrameInv, HeapInv, NEW r \in Regs, NEW o, NEW f \in Functions, op_code_load(r, o, f)
  PROVE  HeapInv'
  <1> DEFINE q == Names(Module[f])
  <1>1. status = "run" /\ Stop("push") /\ UNCHANGED <<frames, currentFunction, fresh, loaded>>
    BY DEF op_code_load, Runs
  <1>2. Module[f] \in Seq(Functions) /\ Len(Module[f]) <= 3 * Branching
    BY VmAssumption
  <1>3. q \in Seq(Term) /\ ValuesIn(heap, toSpace, q) /\ Len(q) <= 3 * Branching
    <2>1. Len(q) = Len(Module[f])
      BY <1>2 DEF Names
    <2> QED BY <1>2, <2>1, NamesAreValues
  <1>4. pending' = [Idle EXCEPT !.op = "code_load", !.ret = r, !.fn = f, !.todo = q]
    BY DEF op_code_load
  <1> HIDE DEF q
  <1>5. /\ pending' \in Pending /\ pending'.op = "code_load" /\ pending'.todo = q
        /\ pending'.list = EmptyList /\ pending'.args = Idle.args
    BY <1>3, <1>4, IdleTyped DEF Idle, Pending
  <1> QED BY <1>1, <1>3, <1>5, BeginsSafe

\* op_gc_collect.
LEMMA GcCollectSafe ==
  ASSUME FrameInv, HeapInv, NEW r \in Regs, op_gc_collect(r)
  PROVE  HeapInv'
  <1>1. status = "run" /\ StartCollect /\ fresh' = FALSE /\ UNCHANGED <<frames, currentFunction, loaded>>
    BY DEF op_gc_collect, Runs
  <1>2. /\ pending' \in Pending /\ pending'.list = EmptyList /\ pending'.before = allocPtr
        /\ pending'.args = Idle.args /\ EntriesOK(pending')
    BY <1>1, IdleTyped, MutatorFacts DEF op_gc_collect, Idle, Pending, EntriesOK
  <1> QED BY <1>1, <1>2, IdleTyped, StartCollectSafe

\* Whatever the next opcode is.
LEMMA OpcodeSafe ==
  ASSUME WithinLimits, FrameInv, HeapInv, Opcode
  PROVE  HeapInv'
  <1>1. CASE op_return \/ op_exit
    BY <1>1, OpReturnSafe, StopSafe DEF op_exit
  <1>2. CASE ~(op_return \/ op_exit)
    <2>1. PICK r \in Regs :
            \/ \E i \in Immediates : op_store(r, Immediate(i))
            \/ \E k \in 1 .. Len(LitLen) : op_store(r, Literal(k))
            \/ \E o \in Operands : op_mov(r, o)
            \/ \E os \in ArgLists(Regs) : op_tuple(r, os)
            \/ \E o \in Regs, index \in 0 .. MaxArgs : op_tuple_nth(r, o, index)
            \/ \E o \in Regs, index \in 0 .. 3 * Branching : op_list_nth(r, o, index)
            \/ \E o1, o2 \in Regs : op_concat(r, o1, o2)
            \/ \E o \in Regs : op_string_slice(r, o)
            \/ \E o \in Regs : op_to_string(r, o)
            \/ op_file_pwd(r)
            \/ \E os \in ArgLists(Operands) : op_anon_fn(r, os)
            \/ \E o \in Operands, args \in CallArgs : op_call_local(r, o, args)
            \/ \E f \in Functions, args \in CallArgs : op_call(r, f, args)
            \/ \E f \in Functions : op_capture(r, f)
            \/ \E os \in ArgLists(Regs) : op_list(r, os)
            \/ \E o \in Regs : op_file_ls(r, o)
            \/ \E o \in Regs, f \in Functions : op_code_load(r, o, f)
            \/ op_gc_collect(r)
      BY <1>2 DEF Opcode
    <2>2. ASSUME NEW i \in Immediates, op_store(r, Immediate(i)) PROVE HeapInv'
      <3>1. OffValue(Immediate(i))
        BY VmAssumption DEF OffValue, Immediate, Term, Tags
      <3> QED BY <2>2, <3>1, SetsOnlySafe DEF op_store, Runs, ValueIn
    <2>3. ASSUME NEW k \in 1 .. Len(LitLen), op_store(r, Literal(k)) PROVE HeapInv'
      <3>1. OffValue(Literal(k))
        BY HeapAssumption DEF OffValue, Literal, Term, Tags
      <3> QED BY <2>3, <3>1, SetsOnlySafe DEF op_store, Runs, ValueIn
    <2>4. ASSUME NEW o \in Operands, op_mov(r, o) PROVE HeapInv'
      BY <2>4, OperandValue, SetsOnlySafe DEF op_mov, Runs
    <2>5. ASSUME NEW os \in ArgLists(Regs), op_tuple(r, os) PROVE HeapInv'
      BY <2>5, RegistersReadable, BuildOperandsSafe DEF op_tuple, Runs
    <2>6. ASSUME NEW os \in ArgLists(Operands), op_anon_fn(r, os) PROVE HeapInv'
      BY <2>6, BuildOperandsSafe DEF op_anon_fn, Runs
    <2>7. ASSUME NEW f \in Functions, NEW args \in CallArgs, op_call(r, f, args) PROVE HeapInv'
      <3>1. args \in Seq(Regs) /\ Len(args) <= MaxArgs
        BY ArgsBounded, VmAssumption DEF CallArgs
      <3> QED BY <2>7, <3>1, CallSafe DEF op_call, Runs
    <2>8. ASSUME NEW o \in Regs, NEW index \in 0 .. 3 * Branching, op_list_nth(r, o, index) PROVE HeapInv'
      BY <2>8, VmAssumption, ListNthSafe
    <2>9. CASE \/ \E o \in Regs : op_string_slice(r, o) \/ op_to_string(r, o)
               \/ op_file_pwd(r)
      BY <2>9, StringSliceSafe, ToStringSafe, FilePwdSafe
    <2>10. CASE \/ \E os \in ArgLists(Regs) : op_list(r, os)
                \/ \E o \in Regs : op_file_ls(r, o)
                \/ \E o \in Regs, f \in Functions : op_code_load(r, o, f)
      BY <2>10, ListSafe, FileLsSafe, CodeLoadSafe
    <2> QED BY <2>1, <2>2, <2>3, <2>4, <2>5, <2>6, <2>7, <2>8, <2>9, <2>10, TupleNthSafe, ConcatSafe,
               CallLocalSafe, CaptureSafe, GcCollectSafe
  <1> QED BY <1>1, <1>2

\* load_function does not know the function yet.
LEMMA LoadMissSafe ==
  ASSUME FrameInv, HeapInv, load_function_miss
  PROVE  HeapInv'
  <1> DEFINE q == Names(Module[pending.fn])
  <1>1. /\ status = "load" /\ Stop("push") /\ pending' = [pending EXCEPT !.todo = q]
        /\ UNCHANGED <<frames, currentFunction, fresh, loaded>>
    BY DEF load_function_miss
  <1>2. /\ pending \in Pending /\ loaded \subseteq Functions /\ pending.list = EmptyList
        /\ Len(pending.args) <= MaxArgs /\ pending.op # "file_ls"
    BY <1>1, MutatorFacts DEF VmTypeOK, PendingOK
  <1>3. Module[pending.fn] \in Seq(Functions)
    BY <1>2, VmAssumption DEF Pending
  <1>4. q \in Seq(Term) /\ ValuesIn(heap, toSpace, q)
    BY <1>3, NamesAreValues
  <1>6. Len(q) <= 3 * Branching /\ 3 * Branching = ListRoom(heap, toSpace, EmptyList)
    <2>1. Len(q) = Len(Module[pending.fn])
      BY <1>3 DEF Names
    <2> QED BY <1>2, <2>1, VmAssumption DEF ListRoom, Pending
  <1> HIDE DEF q
  <1>5. /\ pending' \in Pending /\ pending'.todo = q /\ pending'.list = EmptyList
        /\ pending'.args = pending.args /\ EntriesOK(pending')
    BY <1>1, <1>2, <1>4 DEF Pending, EntriesOK
  <1> QED BY <1>1, <1>2, <1>4, <1>5, <1>6, PendingSafe DEF Statuses, ListIn

\* A register is set and the opcode is over.
LEMMA OpcodeDone ==
  ASSUME FrameInv, HeapInv, status \notin {"collect", "die"}, NEW t, ValueIn(heap, t, toSpace),
         set_reg(pending.ret, t), pending' = Idle, status' = "run",
         loaded' \subseteq Functions,
         UNCHANGED <<heap, toSpace, allocPtr, currentFrame, calls, frames, currentFunction, fresh>>
  PROVE  HeapInv'
  <1>1. registers' = [registers EXCEPT ![currentFrame][pending.ret] = t] /\ pending.ret \in Regs
    BY MutatorFacts DEF set_reg, VmTypeOK, Pending
  <1>2. registers' \in [Frames -> [Regs -> Term]] /\ RegistersIn(heap, toSpace, registers', currentFrame)
    BY <1>1, MutatorFacts, RegisterSet
  <1>3. Mutating'
    BY <1>2, MutatorFacts DEF Mutating, Frames, Regs, Term, Tags, Spaces, Off
  <1>4. VmTypeOK'
    BY MutatorFacts, IdleTyped DEF VmTypeOK
  <1>5. ClosureOK' /\ PendingOK'
    BY MutatorFacts, IdleTyped DEF ClosureOK, PendingOK, EmptyList
  <1> QED BY <1>3, <1>4, <1>5 DEF HeapInv

\* load_function knows the function.
LEMMA LoadHitSafe ==
  ASSUME FrameInv, HeapInv, load_function_hit
  PROVE  HeapInv'
  <1> DEFINE fun == Named(pending.fn)
  <1>1. status = "load" /\ pending.fn \in Functions /\ pending.args \in Seq(Regs) /\ pending.ret \in Regs
    BY MutatorFacts DEF load_function_hit, VmTypeOK, Pending
  <1>2. OffValue(fun) /\ fun \in Term /\ ValueIn(heap, fun, toSpace)
    <2>1. OffValue(fun)
      BY <1>1, VmAssumption DEF OffValue, Named, Term, Tags
    <2> QED BY <2>1 DEF ValueIn, OffValue
  <1>3. ClosureIn(heap, toSpace, fun, 0)
    BY <1>2 DEF ClosureIn
  <1> HIDE DEF fun
  <1>4. CASE setup_next_stackframe(fun, 0, pending.args, pending.ret)
    BY <1>1, <1>2, <1>3, <1>4, CallFrameSafe
  <1>5. CASE /\ set_reg(pending.ret, fun) /\ pending' = Idle /\ status' = "run"
             /\ UNCHANGED <<heap, toSpace, allocPtr, currentFrame, scan, calls,
                            frames, currentFunction, fresh, loaded>>
    <2>1. loaded' \subseteq Functions
      BY <1>1, <1>5, MutatorFacts DEF VmTypeOK
    <2> QED BY <1>1, <1>2, <1>5, <2>1, OpcodeDone
  <1> QED BY <1>4, <1>5 DEF load_function_hit, fun

\* The functions of a module are functions.
LEMMA DefinesFunctions ==
  ASSUME VmTypeOK, Defines(pending.fn)
  PROVE  loaded' \subseteq Functions
  <1>1. pending.fn \in Functions /\ loaded \subseteq Functions
    BY DEF VmTypeOK, Pending
  <1>2. Module[pending.fn] \in Seq(Functions)
    BY <1>1, VmAssumption
  <1> QED BY <1>1, <1>2 DEF Defines

\* op_list, op_file_ls or op_code_load has its list.
LEMMA ListDoneSafe ==
  ASSUME FrameInv, HeapInv, ListDone
  PROVE  HeapInv'
  <1>1. status = "push" /\ ListIn(heap, toSpace, pending.list)
    BY MutatorFacts DEF ListDone, PendingOK
  <1>2. ValueIn(heap, pending.list, toSpace)
    BY <1>1, IdleTyped DEF ListIn, ValueIn, OffValue, EmptyList
  <1>3. loaded' \subseteq Functions
    <2>1. VmTypeOK /\ loaded \subseteq Functions
      BY <1>1, MutatorFacts DEF VmTypeOK
    <2> QED BY <2>1, DefinesFunctions DEF ListDone
  <1> QED BY <1>1, <1>2, <1>3, OpcodeDone DEF ListDone

\* A module is loaded, and its list of functions is forgotten.
LEMMA ModuleDoneSafe ==
  ASSUME FrameInv, HeapInv, ModuleDone
  PROVE  HeapInv'
  <1> DEFINE s == IF pending.op = "boot" THEN "boot" ELSE AfterLoad(pending.fn, loaded')
  <1>1. /\ status = "push" /\ pending' = [pending EXCEPT !.list = EmptyList] /\ Stop(s)
        /\ pending.op # "file_ls"
        /\ UNCHANGED <<frames, currentFunction, fresh>>
    BY DEF ModuleDone
  <1>2. pending \in Pending /\ loaded \subseteq Functions /\ Len(pending.args) <= MaxArgs
    BY <1>1, MutatorFacts DEF VmTypeOK, PendingOK
  <1>3. loaded' \subseteq Functions
    <2>1. VmTypeOK
      BY <1>1, MutatorFacts
    <2> QED BY <2>1, DefinesFunctions DEF ModuleDone
  <1>4. s \in {"boot", "load", "exit"}
    BY DEF AfterLoad
  <1>5. /\ pending' \in Pending /\ pending'.list = EmptyList /\ pending'.args = pending.args
        /\ pending'.op # "file_ls" /\ EntriesOK(pending')
    BY <1>1, <1>2, IdleTyped DEF Pending, EntriesOK
  <1> HIDE DEF s
  <1> QED BY <1>1, <1>2, <1>3, <1>4, <1>5, PendingSafe DEF Statuses

-----------------------------------------------------------------------------
(* owl_list_push *)

\* What rrb_push_single puts on the heap behind the h there is: a head, the leaf
\* es and, when the tree grows a level, a node for the old tree and the old tail.
PushedOK(h, T, bs, rt, es, ns) ==
  /\ es \in Seq(Term) /\ ValuesIn(h, T, es)
  /\ rt \in Term
  /\ bs[1] = NewBlock("RRB", <<rt, Ref("NODE", T, Count(h, T) + 2)>>, 0)
  /\ bs[2] = NewBlock("LEAF", es, 0)
  /\ \/ bs = <<bs[1], bs[2]>> /\ (rt = Null \/ NodeIn(h, rt, T))
     \/ /\ bs = <<bs[1], bs[2], NewBlock("INTERNAL", ns, 0)>>
        /\ rt = Ref("NODE", T, Count(h, T) + 3)
        /\ ns \in Seq(Term) /\ Len(ns) = 3
        /\ NodeIn(h, ns[1], T) /\ NodeIn(h, ns[2], T) /\ ns[3] = Null
        /\ Kind(h, T, ns[1].slot) = "LEAF" /\ Kind(h, T, ns[2].slot) = "LEAF"

\* Of the three cases of rrb_push_single each makes such blocks.
LEMMA PushBlocksOK ==
  ASSUME FrameInv, HeapInv, status \notin {"collect", "die"}, NEW list, ListIn(heap, toSpace, list),
         NEW elem, ValueIn(heap, elem, toSpace), ListRoom(heap, toSpace, list) >= 1
  PROVE  \E rt, es, ns : /\ PushedOK(heap, toSpace, PushBlocks(list, elem), rt, es, ns)
                         /\ Room(heap, toSpace, rt, Len(es)) >= ListRoom(heap, toSpace, list) - 1
  <1> DEFINE root == BlockOf(list).kids[1]
             tail == BlockOf(list).kids[2]
             es   == BlockOf(tail).kids
             T    == toSpace
             c    == Count(heap, toSpace)
             bs   == PushBlocks(list, elem)
             hd(rt) == NewBlock("RRB", <<rt, Ref("NODE", T, c + 2)>>, 0)
             lf(q)  == NewBlock("LEAF", q, 0)
             in   == NewBlock("INTERNAL", <<root, tail, Null>>, 0)
             b    == Branching
             old  == ListRoom(heap, toSpace, list)
  <1>1. elem \in Term
    BY ValueTyped
  <1>2. \A k : Fresh("NODE", k) = Ref("NODE", T, c + k)
    BY DEF Fresh, Count
  <1>3. <<elem>> \in Seq(Term) /\ ValuesIn(heap, T, <<elem>>)
    <2>1. <<elem>> \in Seq(Term) /\ Len(<<elem>>) = 1 /\ \A k \in 1 .. 1 : <<elem>>[k] = elem
      BY <1>1
    <2> QED BY <2>1 DEF ValuesIn
  <1>6. b \in Nat /\ Len(<<elem>>) = 1
    BY VmAssumption
  <1>4. CASE list = EmptyList
    <2>1. bs = <<hd(Null), lf(<<elem>>)>>
      BY <1>2, <1>4 DEF PushBlocks
    <2> HIDE DEF bs, c
    <2>2. PushedOK(heap, T, bs, Null, <<elem>>, <<>>)
      <3> DEFINE h1 == hd(Null)
                 l1 == lf(<<elem>>)
      <3>1. h1 = NewBlock("RRB", <<Null, Ref("NODE", T, c + 2)>>, 0) /\ l1 = NewBlock("LEAF", <<elem>>, 0)
        OBVIOUS
      <3>2. bs = <<h1, l1>>
        BY <2>1
      <3> HIDE DEF h1, l1
      <3>3. bs[1] = h1 /\ bs[2] = l1
        BY <3>2
      <3> QED BY <1>3, <3>1, <3>2, <3>3, IdleTyped DEF PushedOK, c
    <2>3. Room(heap, T, Null, 1) = b - 1 + 2 * b /\ old = 3 * b
      BY <1>4 DEF Room, ListRoom
    <2>4. Room(heap, T, Null, 1) >= old - 1
      BY <1>6, <2>3
    <2> QED BY <1>6, <2>2, <2>4 DEF bs
  <1>5. CASE list # EmptyList
    <2>1. RefersTo(heap, list, toSpace) /\ list.tag = "LIST"
      BY <1>5 DEF ListIn
    <2>2. /\ root \in Term /\ (root = Null \/ NodeIn(heap, root, T))
          /\ NodeIn(heap, tail, T) /\ Kind(heap, T, tail.slot) = "LEAF"
          /\ es \in Seq(Term) /\ ValuesIn(heap, T, es)
      BY <2>1, ListParts
    <2>3. tail \in Term /\ tail # Null /\ tail.slot \in 1 .. c
      BY <2>2 DEF NodeIn, RefersTo, Null
    <2>8. old = Room(heap, T, root, Len(es))
      <3>1. /\ root = Kid(heap, T, list.slot, 1) /\ tail = Kid(heap, T, list.slot, 2)
            /\ es = heap[T][tail.slot].kids
        BY <2>1, ListParts
      <3>2. Arity(heap, T, tail.slot) = Len(es)
        BY <3>1 DEF Arity
      <3> HIDE DEF root, tail, es
      <3> QED BY <1>5, <3>1, <3>2 DEF ListRoom
    <2>9. Len(es) \in Nat
      BY <2>2
    <2>4. bs = IF Len(es) < Branching THEN <<hd(root), lf(Append(es, elem))>>
               ELSE IF root = Null THEN <<hd(tail), lf(<<elem>>)>>
               ELSE <<hd(Ref("NODE", T, c + 3)), lf(<<elem>>), in>>
      BY <1>2, <1>5 DEF PushBlocks, Grown
    <2> HIDE DEF bs, c, root, tail, es, old, b
    <2>5. CASE Len(es) < Branching
      <3> DEFINE h1 == hd(root)
                 q  == Append(es, elem)
                 l1 == lf(q)
      <3>1. q \in Seq(Term) /\ ValuesIn(heap, T, q)
        <4>1. /\ q \in Seq(Term) /\ Len(q) = Len(es) + 1 /\ Len(es) \in Nat
              /\ \A k \in 1 .. Len(es) : q[k] = es[k]
              /\ q[Len(es) + 1] = elem
          BY <1>1, <2>2
        <4> HIDE DEF q
        <4>2. \A k \in 1 .. Len(q) : k \in 1 .. Len(es) \/ k = Len(es) + 1
          BY <4>1
        <4> QED BY <2>2, <4>1, <4>2 DEF ValuesIn
      <3>2. h1 = NewBlock("RRB", <<root, Ref("NODE", T, c + 2)>>, 0) /\ l1 = NewBlock("LEAF", q, 0)
        OBVIOUS
      <3>3. bs = <<h1, l1>>
        BY <2>4, <2>5
      <3> HIDE DEF h1, l1, q
      <3>4. bs[1] = h1 /\ bs[2] = l1
        BY <3>3
      <3>5. PushedOK(heap, T, bs, root, q, <<>>)
        BY <2>2, <3>1, <3>2, <3>3, <3>4 DEF PushedOK, c
      <3>6. Len(q) = Len(es) + 1
        BY <2>2 DEF q
      <3>7. \E x \in {0, b, 2 * b} : /\ Room(heap, T, root, Len(q)) = b - (Len(es) + 1) + x
                                     /\ old = b - Len(es) + x
        BY <2>8, <3>6 DEF Room, b
      <3>8. Room(heap, T, root, Len(q)) >= old - 1
        BY <1>6, <2>9, <3>7
      <3> QED BY <3>5, <3>8 DEF bs, old
    <2>6. CASE ~(Len(es) < Branching) /\ root = Null
      <3> DEFINE h1 == hd(tail)
                 l1 == lf(<<elem>>)
      <3>2. h1 = NewBlock("RRB", <<tail, Ref("NODE", T, c + 2)>>, 0) /\ l1 = NewBlock("LEAF", <<elem>>, 0)
        OBVIOUS
      <3>3. bs = <<h1, l1>>
        BY <2>4, <2>6
      <3> HIDE DEF h1, l1
      <3>4. bs[1] = h1 /\ bs[2] = l1
        BY <3>3
      <3>5. PushedOK(heap, T, bs, tail, <<elem>>, <<>>)
        BY <1>3, <2>2, <2>3, <3>2, <3>3, <3>4 DEF PushedOK, c
      <3>6. Room(heap, T, tail, 1) = b - 1 + b /\ old = b - Len(es) + 2 * b
        BY <2>2, <2>3, <2>6, <2>8 DEF Room, b, c
      <3>7. Room(heap, T, tail, 1) >= old - 1
        BY <1>6, <2>6, <2>9, <3>6 DEF b
      <3> QED BY <1>6, <3>5, <3>7 DEF bs, old
    <2>7. CASE ~(Len(es) < Branching) /\ root # Null
      <3> DEFINE r3 == Ref("NODE", T, c + 3)
                 ns == <<root, tail, Null>>
                 h1 == hd(r3)
                 l1 == lf(<<elem>>)
                 i1 == NewBlock("INTERNAL", ns, 0)
      <3>1. /\ ns \in Seq(Term) /\ Len(ns) = 3 /\ ns[1] = root /\ ns[2] = tail /\ ns[3] = Null
        BY <2>2, <2>3, IdleTyped
      <3>2. h1 = NewBlock("RRB", <<r3, Ref("NODE", T, c + 2)>>, 0) /\ l1 = NewBlock("LEAF", <<elem>>, 0)
            /\ i1 = NewBlock("INTERNAL", ns, 0)
        OBVIOUS
      <3>3. bs = <<h1, l1, i1>>
        BY <2>4, <2>7
      <3>4. r3 \in Term
        <4>1. c \in Nat /\ T \in Spaces
          BY MutatorFacts, HeapTyped DEF c
        <4> QED BY <4>1 DEF Ref, Term, Tags
      <3> HIDE DEF h1, l1, i1, ns
      <3>5. bs[1] = h1 /\ bs[2] = l1
        BY <3>3
      <3>7. /\ Kind(heap, T, root.slot) = "LEAF"
            /\ old = b - Len(es) + b
        <4>1. old = b - Len(es) + (IF root.slot \in 1 .. c /\ Kind(heap, T, root.slot) = "LEAF"
                                   THEN b ELSE 0)
          BY <2>7, <2>8 DEF Room, b, c
        <4>2. old >= 1
          BY DEF old
        <4>3. ~(Len(es) < b)
          BY <2>7 DEF b
        <4> QED BY <1>6, <2>9, <4>1, <4>2, <4>3
      <3>6. PushedOK(heap, T, bs, r3, <<elem>>, ns)
        BY <1>3, <2>2, <2>7, <3>1, <3>2, <3>3, <3>4, <3>5, <3>7 DEF PushedOK, c
      <3>8. Room(heap, T, r3, 1) = b - 1 + 0
        <4>1. c \in Nat
          BY MutatorFacts, HeapTyped DEF c
        <4>2. c + 3 \notin 1 .. c /\ r3.slot = c + 3 /\ r3 # Null
          BY <4>1, MutatorFacts DEF Ref, Null, Spaces, Low, High, Off
        <4> QED BY <4>2 DEF Room, b, c
      <3>9. Room(heap, T, r3, 1) >= old - 1
        BY <1>6, <2>7, <2>9, <3>7, <3>8 DEF b
      <3> QED BY <1>6, <3>6, <3>9 DEF bs, old
    <2> QED BY <2>5, <2>6, <2>7
  <1> QED BY <1>4, <1>5

\* They may stay: the head refers to the leaf and to the node behind it, the
\* others to what was there before.
LEMMA PushedFits ==
  ASSUME NEW h \in Heaps, NEW T \in Spaces, NEW bs, NEW rt, NEW es, NEW ns,
         PushedOK(h, T, bs, rt, es, ns)
  PROVE  /\ bs \in Seq(Block) /\ Len(bs) \in {2, 3} /\ bs[1].kind = "RRB"
         /\ \A g : Allocation(h, g, T, bs) =>
              \A i \in 1 .. Len(bs) :
                /\ bs[i].fwd = 0
                /\ BlockOK(bs[i].kind, Len(bs[i].kids), bs[i].len, bs[i].size)
                /\ \A n \in 1 .. Len(bs[i].kids) :
                     /\ Suits(g, bs[i].kind, Len(bs[i].kids), n, bs[i].kids[n], T)
                     /\ bs[i].kids[n].space # Off =>
                          bs[i].kids[n].slot \in 1 .. Count(h, T) + (IF i = 1 THEN Len(bs) ELSE 0)
                            \ {Count(h, T) + 1}
  <1> DEFINE c  == Count(h, T)
             r2 == Ref("NODE", T, c + 2)
             hk == <<rt, r2>>
             hd == NewBlock("RRB", hk, 0)
             lf == NewBlock("LEAF", es, 0)
             in == NewBlock("INTERNAL", ns, 0)
             Three == bs = <<hd, lf, in>>
             Fine(g, b, m) ==
               /\ b.fwd = 0
               /\ BlockOK(b.kind, Len(b.kids), b.len, b.size)
               /\ \A n \in 1 .. Len(b.kids) :
                    /\ Suits(g, b.kind, Len(b.kids), n, b.kids[n], T)
                    /\ b.kids[n].space # Off => b.kids[n].slot \in 1 .. m \ {c + 1}
  <1>1. /\ es \in Seq(Term) /\ ValuesIn(h, T, es) /\ rt \in Term
        /\ \/ bs = <<hd, lf>> /\ (rt = Null \/ NodeIn(h, rt, T))
           \/ Three /\ rt = Ref("NODE", T, c + 3) /\ ns \in Seq(Term) /\ Len(ns) = 3
              /\ NodeIn(h, ns[1], T) /\ NodeIn(h, ns[2], T) /\ ns[3] = Null
              /\ Kind(h, T, ns[1].slot) = "LEAF" /\ Kind(h, T, ns[2].slot) = "LEAF"
    <2>1. bs[1] = hd /\ bs[2] = lf
      BY DEF PushedOK
    <2> QED BY <2>1 DEF PushedOK
  <1>2. c \in Nat
    BY HeapTyped
  <1>3. r2 \in Term /\ r2.space = T /\ r2.slot = c + 2 /\ r2.tag = "NODE"
    BY <1>2 DEF Ref, Term, Tags
  <1>4. hk \in Seq(Term) /\ Len(hk) = 2 /\ hk[1] = rt /\ hk[2] = r2
    BY <1>1, <1>3
  <1> HIDE DEF hk, r2
  <1>5. hd \in Block /\ hd.kind = "RRB" /\ hd.kids = hk /\ hd.fwd = 0
        /\ BlockOK(hd.kind, Len(hd.kids), hd.len, hd.size)
    BY <1>4, NewBlockOK
  <1>6. lf \in Block /\ lf.kind = "LEAF" /\ lf.kids = es /\ lf.fwd = 0
        /\ BlockOK(lf.kind, Len(lf.kids), lf.len, lf.size)
    BY <1>1, NewBlockOK
  <1>7. Three => in \in Block /\ in.kind = "INTERNAL" /\ in.kids = ns /\ in.fwd = 0
                 /\ BlockOK(in.kind, Len(in.kids), in.len, in.size)
    <2>1. bs = <<hd, lf>> => ~Three
      <3> HIDE DEF hd, lf, in
      <3>1. Len(<<hd, lf>>) = 2 /\ Len(<<hd, lf, in>>) = 3
        OBVIOUS
      <3> QED BY <3>1
    <2>2. Three => ns \in Seq(Term) /\ Len(ns) = 3
      BY <1>1, <2>1
    <2> QED BY <2>2, NewBlockOK
  <1> HIDE DEF hd, lf, in
  <1>8. \/ bs = <<hd, lf>> /\ Len(bs) = 2 /\ ~Three
        \/ bs = <<hd, lf, in>> /\ Len(bs) = 3 /\ Three
    <2>1. Len(<<hd, lf>>) = 2 /\ Len(<<hd, lf, in>>) = 3
      OBVIOUS
    <2> QED BY <1>1, <2>1
  <1>9. /\ bs[1] = hd /\ bs[2] = lf /\ (Three => bs[3] = in)
        /\ bs \in Seq(Block)
    <2>1. CASE bs = <<hd, lf>> /\ ~Three
      <3>1. bs \in Seq(Block) /\ bs[1] = hd /\ bs[2] = lf
        BY <1>5, <1>6, <2>1
      <3> QED BY <2>1, <3>1
    <2>2. CASE bs = <<hd, lf, in>>
      <3>1. bs \in Seq(Block) /\ bs[1] = hd /\ bs[2] = lf /\ bs[3] = in
        BY <1>5, <1>6, <1>7, <2>2
      <3> QED BY <3>1
    <2> QED BY <1>8, <2>1, <2>2
  <1>10. Len(bs) \in Nat /\ (Len(bs) = 2 \/ Len(bs) = 3) /\ (Three => Len(bs) = 3) /\ (Len(bs) = 3 => Three)
    <2>1. CASE Len(bs) = 2 /\ ~Three
      BY <2>1
    <2>2. CASE Len(bs) = 3 /\ Three
      BY <2>2
    <2> QED BY <1>8, <2>1, <2>2
  <1> HIDE DEF Three
  <1>11. ASSUME NEW g, Allocation(h, g, T, bs)
         PROVE  /\ Fine(g, hd, c + Len(bs))
                /\ Fine(g, lf, c)
                /\ Three => Fine(g, in, c)
    <2>1. Grows(h, g)
      BY <1>9, <1>11, AllocationGrows
    <2>2. /\ \A i \in 1 .. Len(bs) : Kind(g, T, c + i) = bs[i].kind
          /\ Count(g, T) = c + Len(bs)
      BY <1>11 DEF Allocation
    <2>3. NodeIn(g, r2, T) /\ Kind(g, T, r2.slot) = "LEAF"
      <3>1. 2 \in 1 .. Len(bs) /\ c + 2 \in 1 .. Count(g, T)
        BY <1>2, <1>9, <1>10, <2>2
      <3>2. Kind(g, T, c + 2) = "LEAF"
        BY <1>6, <1>9, <2>2, <3>1
      <3> QED BY <1>3, <3>1, <3>2 DEF NodeIn, RefersTo, TagOf
    <2>4. rt = Null \/ (NodeIn(g, rt, T) /\ rt.slot \in (1 .. c) \cup {c + 3}
                        /\ rt.slot \in 1 .. c + Len(bs))
      <3>1. CASE NodeIn(h, rt, T)
        <4>1. NodeIn(g, rt, T)
          BY <2>1, <3>1, RefersToGrows DEF NodeIn
        <4>2. rt.slot \in 1 .. c
          BY <3>1 DEF NodeIn, RefersTo
        <4> QED BY <1>2, <1>10, <4>1, <4>2
      <3>2. CASE Three /\ rt = Ref("NODE", T, c + 3)
        <4>0. Len(bs) = 3 /\ bs \in Seq(Block)
          BY <1>9, <1>10, <3>2
        <4>1. 3 \in 1 .. Len(bs) /\ c + 3 \in 1 .. Count(g, T) /\ Len(bs) = 3
          BY <1>2, <2>2, <4>0
        <4>2. Kind(g, T, c + 3) = "INTERNAL"
          BY <1>7, <1>9, <2>2, <3>2, <4>1
        <4>3. rt.space = T /\ rt.slot = c + 3 /\ rt.tag = "NODE"
          BY <3>2 DEF Ref
        <4> QED BY <1>1, <2>2, <4>1, <4>2, <4>3 DEF NodeIn, RefersTo, TagOf
      <3> QED BY <1>1, <1>8, <3>1, <3>2 DEF Three
    <2>5. Fine(g, hd, c + Len(bs))
      <3>1. /\ Suits(g, "RRB", 2, 1, rt, T) /\ Suits(g, "RRB", 2, 2, r2, T)
        BY <2>3, <2>4 DEF Suits
      <3>2. /\ rt.space # Off => rt.slot \in 1 .. c + Len(bs) \ {c + 1}
            /\ r2.slot \in 1 .. c + Len(bs) \ {c + 1}
        <4>1. r2.slot \in 1 .. c + Len(bs) \ {c + 1}
          BY <1>2, <1>3, <1>9, <1>10
        <4>2. Null.space = Off
          BY DEF Null
        <4> QED BY <1>2, <2>4, <4>1, <4>2
      <3>3. \A n \in 1 .. 2 : n = 1 \/ n = 2
        OBVIOUS
      <3> QED BY <1>4, <1>5, <3>1, <3>2, <3>3
    <2>6. \A t : ValueIn(h, t, T) \/ NodeIn(h, t, T) \/ t = Null =>
            (t.space # Off => t.slot \in 1 .. c \ {c + 1})
      <3>1. \A k \in 1 .. c : k \in 1 .. c \ {c + 1}
        BY <1>2
      <3> QED BY <3>1 DEF ValueIn, OffValue, NodeIn, RefersTo, Null
    <2>7. Fine(g, lf, c)
      <3>1. ASSUME NEW n \in 1 .. Len(es)
            PROVE  /\ Suits(g, "LEAF", Len(es), n, es[n], T)
                   /\ es[n].space # Off => es[n].slot \in 1 .. c \ {c + 1}
        <4>1. ValueIn(h, es[n], T)
          BY <1>1 DEF ValuesIn
        <4>2. ValueIn(g, es[n], T)
          BY <2>1, <4>1, ValueInGrows
        <4> QED BY <2>6, <4>1, <4>2 DEF Suits
      <3> QED BY <1>6, <3>1
    <2>8. Three => Fine(g, in, c)
      <3> SUFFICES ASSUME Three PROVE Fine(g, in, c)
        OBVIOUS
      <3>1. /\ Len(ns) = 3 /\ NodeIn(h, ns[1], T) /\ NodeIn(h, ns[2], T) /\ ns[3] = Null
            /\ Kind(h, T, ns[1].slot) = "LEAF" /\ Kind(h, T, ns[2].slot) = "LEAF"
        BY <1>1, <1>8 DEF Three
      <3>2. /\ NodeIn(g, ns[1], T) /\ NodeIn(g, ns[2], T)
            /\ Kind(g, T, ns[1].slot) = "LEAF" /\ Kind(g, T, ns[2].slot) = "LEAF"
        <4>1. ASSUME NEW x, NodeIn(h, x, T)
              PROVE  NodeIn(g, x, T) /\ Kind(g, T, x.slot) = Kind(h, T, x.slot)
          <5>1. x.slot \in 1 .. Count(h, T)
            BY <4>1 DEF NodeIn, RefersTo
          <5>2. Kind(g, T, x.slot) = Kind(h, T, x.slot)
            BY <2>1, <5>1 DEF Grows
          <5> QED BY <2>1, <4>1, <5>2, RefersToGrows DEF NodeIn
        <4> QED BY <3>1, <4>1
      <3>3. /\ Suits(g, "INTERNAL", 3, 1, ns[1], T) /\ Suits(g, "INTERNAL", 3, 2, ns[2], T)
            /\ Suits(g, "INTERNAL", 3, 3, ns[3], T)
        BY <3>1, <3>2 DEF Suits
      <3>4. \A n \in 1 .. 3 : n = 1 \/ n = 2 \/ n = 3
        OBVIOUS
      <3>5. \A n \in 1 .. 3 : ns[n].space # Off => ns[n].slot \in 1 .. c \ {c + 1}
        BY <2>6, <3>1, <3>4
      <3> QED BY <1>7, <3>1, <3>3, <3>4, <3>5
    <2> QED BY <2>5, <2>7, <2>8
  <1>12. ASSUME NEW g, Allocation(h, g, T, bs), NEW i \in 1 .. Len(bs)
         PROVE  Fine(g, bs[i], c + (IF i = 1 THEN Len(bs) ELSE 0))
    <2>1. i = 1 \/ i = 2 \/ (i = 3 /\ Three)
      <3> DEFINE m == Len(bs)
      <3>1. (m = 2 \/ m = 3) /\ i \in 1 .. m
        BY <1>10
      <3> HIDE DEF m
      <3>2. i = 1 \/ i = 2 \/ (i = 3 /\ m = 3)
        BY <3>1
      <3> QED BY <1>10, <3>2 DEF m
    <2>2. c + 0 = c
      BY <1>2
    <2> HIDE DEF Fine
    <2> QED BY <1>9, <1>11, <1>12, <2>1, <2>2
  <1> QED BY <1>5, <1>10, <1>9, <1>12 DEF c

\* owl_list_push: the new list is on the heap, or the memory ran out.
LEMMA ListPushSafe ==
  ASSUME FrameInv, HeapInv, owl_list_push
  PROVE  HeapInv'
  <1> DEFINE bs == PushBlocks(pending.list, Head(pending.todo))
             g  == [heap EXCEPT ![toSpace] = @ \o bs]
             t  == Fresh("LIST", 1)
             q  == Tail(pending.todo)
             c  == Count(heap, toSpace)
  <1>1. status = "push" /\ pending.todo # <<>> /\ UNCHANGED <<frames, currentFunction, fresh, loaded>>
    BY DEF owl_list_push
  <1>2. /\ pending \in Pending /\ pending.todo \in Seq(Term)
        /\ ListIn(heap, toSpace, pending.list) /\ ValuesIn(heap, toSpace, pending.todo)
    BY <1>1, MutatorFacts DEF VmTypeOK, PendingOK, Pending
  <1>3. CASE Die /\ UNCHANGED pending
    BY <1>1, <1>3, StopSafe DEF vmVars
  <1>4. CASE /\ Fits(Bytes(bs)) /\ owl_alloc(bs)
             /\ pending' = [pending EXCEPT !.todo = Tail(@), !.list = Fresh("LIST", 1)]
             /\ UNCHANGED <<registers, currentFrame, scan, calls, status>>
    <2>1. /\ q \in Seq(Term) /\ ValueIn(heap, Head(pending.todo), toSpace) /\ ValuesIn(heap, toSpace, q)
      <3> DEFINE p == pending.todo
      <3>1. p \in Seq(Term) /\ p # <<>> /\ ValuesIn(heap, toSpace, p)
        BY <1>1, <1>2
      <3> HIDE DEF p
      <3>2. /\ Tail(p) \in Seq(Term) /\ Len(p) \in Nat /\ Len(p) > 0 /\ Len(Tail(p)) = Len(p) - 1
            /\ Head(p) = p[1] /\ \A k \in 1 .. Len(Tail(p)) : Tail(p)[k] = p[k + 1]
        BY <3>1
      <3>3. \A k \in 1 .. Len(Tail(p)) : k + 1 \in 1 .. Len(p)
        BY <3>2
      <3>4. 1 \in 1 .. Len(p)
        BY <3>2
      <3> QED BY <3>1, <3>2, <3>3, <3>4 DEF ValuesIn, p
    <2>2. heap \in Heaps /\ toSpace \in Spaces /\ c \in Nat
      BY <1>1, MutatorFacts, HeapTyped
    <2> DEFINE room == ListRoom(heap, toSpace, pending.list)
    <2>17. room >= Len(q) + 1 /\ room \in Int /\ Len(q) \in Nat
      <3>1. Len(q) = Len(pending.todo) - 1 /\ Len(q) \in Nat /\ Len(pending.todo) <= room
        BY <1>1, <1>2, <2>1, MutatorFacts DEF PendingOK
      <3>2. room \in Int
        <4>1. Branching \in Nat
          BY VmAssumption
        <4>2. ASSUME NEW x, x = Arity(heap, toSpace, Kid(heap, toSpace, pending.list.slot, 2).slot),
                     pending.list # EmptyList
              PROVE  x \in Nat
          BY <1>1, <1>2, <4>2, ListParts DEF ListIn, Arity
        <4> QED BY <4>1, <4>2 DEF ListRoom, Room
      <3> HIDE DEF q, room
      <3> QED BY <3>1, <3>2
    <2>18. ListRoom(heap, toSpace, pending.list) >= 1
      <3> HIDE DEF q
      <3> QED BY <2>17
    <2> HIDE DEF room
    <2>3. PICK rt, es, ns : /\ PushedOK(heap, toSpace, bs, rt, es, ns)
                            /\ Room(heap, toSpace, rt, Len(es)) >= room - 1
      BY <1>1, <1>2, <2>1, <2>18, PushBlocksOK DEF room
    <2> HIDE DEF bs, g, t, q
    <2>4. /\ bs \in Seq(Block) /\ Len(bs) \in {2, 3} /\ bs[1].kind = "RRB"
      BY <2>2, <2>3, PushedFits
    <2>5. Allocation(heap, g, toSpace, bs)
      BY <2>2, <2>4, Allocated DEF g
    <2>6. PICK rank : Resting(heap, toSpace, allocPtr, rank)
      BY <1>1, MutatorFacts DEF Mutating
    <2>7. heap' = g /\ toSpace' = toSpace /\ \E rank2 : Resting(g, toSpace, allocPtr', rank2)
      <3>1. \A i \in 1 .. Len(bs) :
              /\ bs[i].fwd = 0
              /\ BlockOK(bs[i].kind, Len(bs[i].kids), bs[i].len, bs[i].size)
              /\ \A n \in 1 .. Len(bs[i].kids) :
                   /\ Suits(g, bs[i].kind, Len(bs[i].kids), n, bs[i].kids[n], toSpace)
                   /\ bs[i].kids[n].space # Off =>
                        bs[i].kids[n].slot \in 1 .. Count(heap, toSpace) + (IF i = 1 THEN Len(bs) ELSE 0)
                          \ {Count(heap, toSpace) + 1}
        BY <2>2, <2>3, <2>5, PushedFits
      <3>2. Fits(Bytes(bs)) /\ Len(bs) \in 1 .. 3 /\ owl_alloc(bs)
        BY <1>4, <2>4 DEF bs
      <3> QED BY <2>4, <2>6, <3>1, <3>2, MutatorAllocates DEF g
    <2>8. Grows(heap, g)
      BY <2>2, <2>4, <2>5, AllocationGrows
    <2>9. ListIn(g, toSpace, t) /\ t \in Term
      <3>1. 1 \in 1 .. Len(bs) /\ c + 1 \in 1 .. c + Len(bs)
        BY <2>2, <2>4
      <3>2. Kind(g, toSpace, c + 1) = "RRB" /\ Count(g, toSpace) = c + Len(bs)
        BY <2>4, <2>5, <3>1 DEF Allocation
      <3>3. t = Ref("LIST", toSpace, c + 1)
        BY DEF t, Fresh, Count
      <3>4. t.tag = "LIST" /\ t \in Term /\ t.space = toSpace /\ t.slot = c + 1
        BY <2>2, <3>3 DEF Ref, Term, Tags
      <3> QED BY <3>1, <3>2, <3>4 DEF ListIn, RefersTo, TagOf
    <2>10. /\ RegistersIn(g, toSpace, registers, currentFrame)
           /\ \A n : ClosureIn(heap, toSpace, currentFunction, n) => ClosureIn(g, toSpace, currentFunction, n)
           /\ ValuesIn(g, toSpace, q)
      BY <1>1, <2>1, <2>2, <2>4, <2>5, HeldWhenAllocated, MutatorFacts
    <2>11. pending' \in Pending /\ pending'.todo = q /\ pending'.list = t
           /\ pending'.args = pending.args /\ pending'.op = pending.op
      BY <1>2, <1>4, <2>1, <2>9 DEF Pending, q, t
    <2>20. EntriesOK(pending')
      <3>1. \A k \in 1 .. Len(q) : k + 1 \in 1 .. Len(pending.todo) /\ q[k] = pending.todo[k + 1]
        BY <1>1, <1>2 DEF q
      <3>2. EntriesOK(pending)
        BY <1>1, MutatorFacts DEF PendingOK
      <3> QED BY <2>11, <3>1, <3>2 DEF EntriesOK
    <2>12. /\ UNCHANGED <<registers, currentFrame, calls, status>>
      BY <1>4
    <2>13. Mutating'
      BY <1>1, <2>7, <2>10, <2>12, MutatorFacts DEF Mutating, Frames, Regs, Term, Tags, Spaces, Off
    <2>14. VmTypeOK'
      BY <1>1, <2>11, MutatorFacts DEF VmTypeOK
    <2>15. ClosureOK'
      BY <1>1, <2>7, <2>10, <2>12, MutatorFacts DEF ClosureOK
    <2>19. Len(q) <= ListRoom(g, toSpace, t)
      <3>1. 1 \in 1 .. Len(bs) /\ 2 \in 1 .. Len(bs)
        <4>1. \A m \in {2, 3} : 1 \in 1 .. m /\ 2 \in 1 .. m
          OBVIOUS
        <4> QED BY <2>4, <4>1
      <3>2. /\ t.slot = c + 1 /\ t # EmptyList
        BY <2>2 DEF t, Fresh, Ref, Count, EmptyList, Spaces, Low, High, Off
      <3>3. /\ bs[1] = NewBlock("RRB", <<rt, Ref("NODE", toSpace, c + 2)>>, 0)
            /\ bs[2] = NewBlock("LEAF", es, 0)
        BY <2>3 DEF PushedOK
      <3>4. Kid(g, toSpace, c + 1, 1) = rt /\ Kid(g, toSpace, c + 1, 2) = Ref("NODE", toSpace, c + 2)
        <4>1. \A n : Kid(g, toSpace, c + 1, n) = bs[1].kids[n]
          BY <2>5, <3>1 DEF Allocation
        <4>2. bs[1].kids = <<rt, Ref("NODE", toSpace, c + 2)>>
          BY <3>3 DEF NewBlock
        <4> HIDE DEF c
        <4> QED BY <4>1, <4>2
      <3>5. Arity(g, toSpace, c + 2) = Len(es)
        BY <2>5, <3>1, <3>3 DEF Allocation, NewBlock
      <3>6. ListRoom(g, toSpace, t) = Room(g, toSpace, rt, Len(es))
        BY <3>2, <3>4, <3>5 DEF ListRoom, Ref
      <3>7. /\ Len(es) \in Nat /\ rt \in Term
            /\ rt = Null \/ rt.slot \in 1 .. c \/ (rt.slot = c + 3 /\ Len(bs) = 3 /\ bs[3].kind = "INTERNAL")
        <4>1. Len(es) \in Nat /\ rt \in Term
          BY <2>3 DEF PushedOK
        <4>2. CASE rt = Null \/ NodeIn(heap, rt, toSpace)
          BY <4>1, <4>2 DEF NodeIn, RefersTo
        <4>3. CASE /\ bs = <<bs[1], bs[2], NewBlock("INTERNAL", ns, 0)>>
                   /\ rt = Ref("NODE", toSpace, c + 3)
          <5> DEFINE i1 == NewBlock("INTERNAL", ns, 0)
          <5>1. i1.kind = "INTERNAL"
            BY DEF NewBlock
          <5> HIDE DEF i1
          <5>2. Len(bs) = 3 /\ bs[3] = i1
            BY <4>3 DEF i1
          <5> QED BY <4>1, <4>3, <5>1, <5>2 DEF Ref
        <4> QED BY <2>3, <4>2, <4>3 DEF PushedOK
      <3>8. Room(g, toSpace, rt, Len(es)) = Room(heap, toSpace, rt, Len(es))
        <4>1. Count(g, toSpace) = c + Len(bs) /\ Len(bs) \in Nat
          BY <2>4, <2>5 DEF Allocation
        <4>2. CASE rt = Null
          BY <4>2 DEF Room
        <4>3. CASE rt.slot \in 1 .. c
          <5>1. rt.slot \in 1 .. Count(g, toSpace) /\ Kind(g, toSpace, rt.slot) = Kind(heap, toSpace, rt.slot)
            BY <2>2, <2>8, <4>1, <4>3 DEF Grows
          <5> QED BY <4>3, <5>1 DEF Room
        <4>4. CASE rt.slot = c + 3 /\ Len(bs) = 3 /\ bs[3].kind = "INTERNAL"
          <5>1. Kind(g, toSpace, c + 3) = "INTERNAL"
            BY <2>5, <4>4 DEF Allocation
          <5>2. c + 3 \notin 1 .. c
            BY <2>2
          <5> QED BY <4>4, <5>1, <5>2 DEF Room
        <4> QED BY <3>7, <4>2, <4>3, <4>4
      <3>9. Room(heap, toSpace, rt, Len(es)) \in Int
        BY <3>7, VmAssumption DEF Room
      <3>10. \A x \in Int : x >= room - 1 => Len(q) <= x
        BY <2>17
      <3> QED BY <2>3, <3>6, <3>8, <3>9, <3>10
    <2>16. PendingOK'
      BY <1>1, <2>7, <2>19, MutatorFacts, <2>9, <2>10, <2>11, <2>12, <2>20 DEF PendingOK
    <2> QED BY <1>1, <2>12, <2>13, <2>14, <2>15, <2>16 DEF HeapInv
  <1> QED BY <1>3, <1>4 DEF owl_list_push

\* The list in the making is not touched when something else is allocated.
LEMMA RoomKept ==
  ASSUME FrameInv, HeapInv, status \notin {"collect", "die"}, NEW list, ListIn(heap, toSpace, list),
         NEW bs \in Seq(Block), Len(bs) = 1, NEW g, Allocation(heap, g, toSpace, bs)
  PROVE  ListRoom(g, toSpace, list) = ListRoom(heap, toSpace, list)
  <1> DEFINE T == toSpace
             c == Count(heap, T)
             root == Kid(heap, T, list.slot, 1)
             tail == Kid(heap, T, list.slot, 2)
  <1>1. CASE list = EmptyList
    BY <1>1 DEF ListRoom
  <1>2. CASE list # EmptyList
    <2>1. RefersTo(heap, list, T) /\ list.tag = "LIST" /\ list.slot \in 1 .. c
      BY <1>2 DEF ListIn, RefersTo
    <2>2. /\ root = Null \/ NodeIn(heap, root, T)
          /\ NodeIn(heap, tail, T)
      BY <2>1, ListParts
    <2>3. heap \in Heaps /\ T \in Spaces /\ c \in Nat
      BY MutatorFacts, HeapTyped
    <2> HIDE DEF root, tail, c
    <2>4. tail.slot \in 1 .. c /\ (root # Null => root.slot \in 1 .. c)
      BY <2>2 DEF NodeIn, RefersTo, c
    <2>5. /\ \A k \in 1 .. c : Kind(g, T, k) = Kind(heap, T, k) /\ Arity(g, T, k) = Arity(heap, T, k)
                            /\ \A n : Kid(g, T, k, n) = Kid(heap, T, k, n)
          /\ Count(g, T) = c + 1
      BY <2>3 DEF Allocation, SameBut, c
    <2>6. /\ Kid(g, T, list.slot, 1) = root /\ Kid(g, T, list.slot, 2) = tail
          /\ Arity(g, T, tail.slot) = Arity(heap, T, tail.slot)
      BY <2>1, <2>4, <2>5 DEF root, tail, c
    <2>7. Room(g, T, root, Arity(heap, T, tail.slot)) = Room(heap, T, root, Arity(heap, T, tail.slot))
      <3>1. root # Null => root.slot \in 1 .. Count(g, T) /\ Kind(g, T, root.slot) = Kind(heap, T, root.slot)
        BY <2>3, <2>4, <2>5
      <3> QED BY <2>4, <3>1 DEF Room, c
    <2> QED BY <1>2, <2>6, <2>7 DEF ListRoom, root, tail
  <1> QED BY <1>1, <1>2

\* owl_file_ls: the text of the entry is on the heap, or the memory ran out.
LEMMA ReadEntrySafe ==
  ASSUME WithinLimits, FrameInv, HeapInv, ReadEntry
  PROVE  HeapInv'
  <1> DEFINE name == Head(pending.todo)
             len == LitLen[name.slot]
             b  == NewBlock("STRING", <<name>>, len)
             bs == <<b>>
             g  == [heap EXCEPT ![toSpace] = @ \o bs]
             t  == Fresh("STRING", 1)
             p  == pending.todo
             q  == [p EXCEPT ![1] = t]
             c  == Count(heap, toSpace)
  <1>1. /\ status = "push" /\ p # <<>> /\ pending.op = "file_ls" /\ name.space = Off
        /\ UNCHANGED <<frames, currentFunction, fresh, loaded>>
    BY DEF ReadEntry, Unread
  <1>2. /\ pending \in Pending /\ p \in Seq(Term)
        /\ ListIn(heap, toSpace, pending.list) /\ ValuesIn(heap, toSpace, p)
        /\ EntriesOK(pending)
    BY <1>1, MutatorFacts DEF VmTypeOK, PendingOK, Pending
  <1>3. CASE Die /\ UNCHANGED pending
    BY <1>1, <1>3, StopSafe DEF vmVars
  <1>4. CASE /\ Fits(Bytes(bs)) /\ owl_alloc(bs)
             /\ pending' = [pending EXCEPT !.todo[1] = Fresh("STRING", 1)]
             /\ UNCHANGED <<registers, currentFrame, scan, calls, status>>
    <2>1. 1 \in 1 .. Len(p) /\ name = p[1]
      BY <1>1, <1>2
    <2>2. /\ OffValue(name) /\ name \in Term /\ OffText(name)
          /\ len \in TextLengths
      <3>1. ValueIn(heap, name, toSpace) /\ name.tag = "STRING" /\ len \in TextLengths
        BY <1>1, <1>2, <2>1 DEF ValuesIn, EntriesOK
      <3>2. toSpace # Off
        BY <1>1, MutatorFacts DEF Spaces, Low, High, Off
      <3> QED BY <1>1, <3>1, <3>2 DEF ValueIn, RefersTo, OffValue, OffText
    <2> HIDE DEF name, len
    <2>3. len \in Nat /\ len > 0 /\ (TextsFit => len % 8 # 0)
      BY <2>2, VmAssumption DEF WithinLimits, TextsFit
    <2>4. <<name>> \in Seq(Term) /\ \A n \in 1 .. Len(<<name>>) : OffText(<<name>>[n])
      BY <2>2, OnePiece
    <2>5. align(len + 1) \in Nat /\ align(len) <= align(len + 1)
      BY <2>3, AlignedOrder
    <2>6. b = [kind |-> "STRING", kids |-> <<name>>, len |-> len, size |-> align(len + 1), fwd |-> 0]
      BY DEF NewBlock, BytesOf
    <2> HIDE DEF b
    <2>7. /\ b \in Block /\ b.kind = "STRING" /\ b.fwd = 0
          /\ BlockOK(b.kind, Len(b.kids), b.len, b.size)
      BY <2>3, <2>4, <2>5, <2>6 DEF Block, Kinds, BlockOK
    <2>8. bs \in Seq(Block) /\ Len(bs) = 1 /\ bs[1] = b /\ \A i \in 1 .. Len(bs) : i = 1
      BY <2>7
    <2>9. /\ heap \in Heaps /\ toSpace \in Spaces /\ c \in Nat
      BY <1>1, MutatorFacts, HeapTyped
    <2> HIDE DEF bs, g, t, c
    <2>10. Allocation(heap, g, toSpace, bs)
      BY <2>8, <2>9, Allocated DEF g
    <2>11. \A n \in 1 .. Len(b.kids) :
             Suits(g, b.kind, Len(b.kids), n, b.kids[n], toSpace) /\ b.kids[n].space = Off
      BY <2>4, <2>6, <2>7 DEF Suits, OffText
    <2>12. PICK rank : Resting(heap, toSpace, allocPtr, rank)
      BY <1>1, MutatorFacts DEF Mutating
    <2>13. heap' = g /\ toSpace' = toSpace /\ \E rank2 : Resting(g, toSpace, allocPtr', rank2)
      <3>1. \A i \in 1 .. Len(bs) :
              /\ bs[i].fwd = 0
              /\ BlockOK(bs[i].kind, Len(bs[i].kids), bs[i].len, bs[i].size)
              /\ \A n \in 1 .. Len(bs[i].kids) :
                   /\ Suits(g, bs[i].kind, Len(bs[i].kids), n, bs[i].kids[n], toSpace)
                   /\ bs[i].kids[n].space # Off =>
                        bs[i].kids[n].slot \in 1 .. Count(heap, toSpace) + (IF i = 1 THEN Len(bs) ELSE 0)
                          \ {Count(heap, toSpace) + 1}
        BY <2>7, <2>8, <2>11
      <3>2. Fits(Bytes(bs)) /\ Len(bs) \in 1 .. 3 /\ owl_alloc(bs)
        BY <1>4, <2>8
      <3> QED BY <2>8, <2>12, <3>1, <3>2, MutatorAllocates DEF g
    <2>14. Grows(heap, g)
      BY <2>8, <2>9, <2>10, AllocationGrows
    <2>15. ValueIn(g, t, toSpace) /\ t \in Term /\ t.space # Off
      <3>1. Kind(g, toSpace, c + 1) = "STRING" /\ Count(g, toSpace) = c + 1
        BY <2>7, <2>8, <2>9, <2>10 DEF Allocation, c
      <3>2. t = Ref("STRING", toSpace, c + 1)
        BY DEF t, Fresh, Count, c
      <3>3. t.tag = "STRING" /\ t \in Term /\ t.space # Off
        BY <2>9, <3>2 DEF Ref, Term, Tags, Spaces, Low, High, Off
      <3> QED BY <2>9, <3>1, <3>2, <3>3 DEF ValueIn, RefersTo, Ref, TagOf
    <2>16. /\ RegistersIn(g, toSpace, registers, currentFrame)
           /\ \A n : ClosureIn(heap, toSpace, currentFunction, n) => ClosureIn(g, toSpace, currentFunction, n)
           /\ ValuesIn(g, toSpace, p)
      BY <1>1, <1>2, <2>8, <2>9, <2>10, HeldWhenAllocated, MutatorFacts
    <2>17. /\ q \in Seq(Term) /\ Len(q) = Len(p) /\ q[1] = t
           /\ \A k \in 1 .. Len(p) : k # 1 => q[k] = p[k]
      BY <1>2, <2>1, <2>15
    <2>18. pending' = [pending EXCEPT !.todo = q]
      BY <1>2, <1>4 DEF t
    <2> HIDE DEF q, p
    <2>19. /\ pending' \in Pending /\ pending'.todo = q /\ pending'.list = pending.list
           /\ pending'.args = pending.args
      BY <1>2, <2>17, <2>18 DEF Pending
    <2>20. ValuesIn(g, toSpace, q) /\ EntriesOK(pending')
      BY <1>2, <2>15, <2>16, <2>17, <2>18, <2>19 DEF ValuesIn, EntriesOK, p
    <2>21. ListIn(g, toSpace, pending.list)
      BY <1>2, <2>9, <2>14, RefersToGrows DEF ListIn
    <2>22. Len(q) <= ListRoom(g, toSpace, pending.list)
      <3>1. Len(q) <= ListRoom(heap, toSpace, pending.list)
        BY <1>1, <2>17, MutatorFacts DEF PendingOK, p
      <3>2. ListRoom(g, toSpace, pending.list) = ListRoom(heap, toSpace, pending.list)
        BY <1>1, <1>2, <2>8, <2>9, <2>10, RoomKept
      <3> QED BY <3>1, <3>2
    <2>23. UNCHANGED <<registers, currentFrame, calls, status>>
      BY <1>4
    <2>24. Mutating'
      BY <1>1, <2>13, <2>16, <2>23, MutatorFacts DEF Mutating, Frames, Regs, Term, Tags, Spaces, Off
    <2>25. VmTypeOK'
      BY <1>1, <2>19, MutatorFacts DEF VmTypeOK
    <2>26. ClosureOK'
      BY <1>1, <2>13, <2>16, <2>23, MutatorFacts DEF ClosureOK
    <2>27. PendingOK'
      BY <1>1, <2>13, <2>19, <2>20, <2>21, <2>22, <2>23, MutatorFacts DEF PendingOK
    <2> QED BY <1>1, <2>23, <2>24, <2>25, <2>26, <2>27 DEF HeapInv
  <1> QED BY <1>3, <1>4 DEF ReadEntry

-----------------------------------------------------------------------------
(* Every step *)

\* A step of the collector is taken when there is a collection.
LEMMA CollectorCollects ==
  ASSUME CollectStep
  PROVE  status = "collect"
  BY DEF CollectStep, ReturnAsIs, ReturnForwarded, EnterCopy, LeaveCopy, EnterNode, LeaveNode, Visiting

\* The call of the entry function.
LEMMA RunFunctionSafe ==
  ASSUME FrameInv, HeapInv, vm_run_function
  PROVE  HeapInv'
  <1>1. status = "boot" /\ 0 \in Regs /\ 1 \in Functions /\ <<>> \in Seq(Regs)
    BY IdleTyped, VmAssumption DEF vm_run_function
  <1>2. CASE 1 \in loaded
    <2>1. Len(<<>>) <= MaxArgs
      BY VmAssumption
    <2> QED BY <1>1, <1>2, <2>1, CallSafe DEF vm_run_function
  <1>3. CASE 1 \notin loaded
    BY <1>1, <1>3, StopSafe DEF vm_run_function
  <1> QED BY <1>2, <1>3

\* What is in progress goes on.
LEMMA WithinSafe ==
  ASSUME WithinLimits, FrameInv, HeapInv, Within
  PROVE  HeapInv'
  BY RunFunctionSafe, LoadMissSafe, LoadHitSafe, ReadEntrySafe, ListPushSafe, ListDoneSafe, ModuleDoneSafe,
     AfterCollectSafe, AfterSafepointSafe, CollectorCollects, CollectorSafe DEF Within

\* The heap of a program that has just started is empty.
LEMMA HeapInvInit ==
  ASSUME Init
  PROVE  HeapInv
  <1> DEFINE rank == [s \in Spaces |-> [n \in Nat |-> 0]]
  <1>1. heap \in Heaps /\ toSpace \in Spaces /\ \A s \in Spaces : Count(heap, s) = 0
    BY DEF Init, Heaps, Count, Spaces, Low
  <1>2. rank \in Ranks
    BY DEF Ranks
  <1> HIDE DEF rank
  <1>3. Other(toSpace) \in Spaces
    BY <1>1, OtherSpace
  <1>4. Total(Taken(heap, toSpace), Count(heap, toSpace), 0)
    BY <1>1, TotalEmpty
  <1>5. allocPtr = 0 /\ calls = <<>> /\ status = "push" /\ currentFrame = 0 /\ fresh = FALSE
    BY DEF Init
  <1>6. \A k \in 1 .. 0 : FALSE
    OBVIOUS
  <1>7. Resting(heap, toSpace, allocPtr, rank)
    BY <1>1, <1>2, <1>3, <1>4, <1>5, <1>6, HeapAssumption DEF Resting
  <1>8. 0 \in Frames /\ Regs # {}
    BY GcAssumption DEF Frames, Regs
  <1>9. registers \in [Frames -> [Regs -> Term]] /\ RegistersIn(heap, toSpace, registers, currentFrame)
    <2>1. registers = [i \in Frames |-> Cleared]
      BY DEF Init
    <2>2. Cleared \in [Regs -> Term] /\ \A j \in Regs : Cleared[j] = Null
      BY IdleTyped DEF Cleared
    <2>3. ASSUME NEW i \in 0 .. currentFrame, NEW j \in Regs
          PROVE  ValueIn(heap, Reg(registers, i, j), toSpace)
      <3>1. i = 0
        BY <1>5
      <3>2. Reg(registers, i, j) = Null
        BY <1>8, <2>1, <2>2, <3>1 DEF Reg
      <3> QED BY <3>2, IdleTyped DEF ValueIn
    <2> QED BY <2>1, <2>2, <2>3 DEF RegistersIn
  <1>10. Mutating
    BY <1>5, <1>7, <1>9 DEF Mutating
  <1>11. Module[1] \in Seq(Functions)
    BY VmAssumption
  <1> DEFINE q == Names(Module[1])
  <1>12. q \in Seq(Term) /\ ValuesIn(heap, toSpace, q)
    BY <1>11, NamesAreValues
  <1>17. Len(q) <= 3 * Branching /\ 3 * Branching = ListRoom(heap, toSpace, EmptyList)
    <2>1. Len(q) = Len(Module[1])
      BY <1>11 DEF Names
    <2> QED BY <2>1, VmAssumption DEF ListRoom
  <1>13. pending = [Idle EXCEPT !.op = "boot", !.todo = q]
    BY DEF Init
  <1> HIDE DEF q
  <1>14. /\ pending \in Pending /\ pending.todo = q /\ pending.list = EmptyList
         /\ pending.args = Idle.args /\ pending.op = "boot"
    BY <1>12, <1>13, IdleTyped DEF Pending, Idle
  <1>15. VmTypeOK
    <2>1. NoLink \in Link
      BY IdleTyped DEF NoLink, Link
    <2> QED BY <1>14, <2>1, IdleTyped DEF VmTypeOK, Init
  <1>16. ClosureOK /\ PendingOK
    BY <1>5, <1>12, <1>14, <1>17, IdleTyped DEF ClosureOK, PendingOK, EntriesOK, ListIn
  <1> QED BY <1>5, <1>10, <1>15, <1>16 DEF HeapInv

\* A stuttering step.
LEMMA StutterSafe ==
  ASSUME HeapInv, UNCHANGED vars
  PROVE  HeapInv'
  <1>1. /\ UNCHANGED <<heap, toSpace, allocPtr, registers, currentFrame, scan, calls, status>>
        /\ UNCHANGED <<frames, currentFunction, fresh, pending, loaded>>
    BY DEF vars, gcVars, vmVars
  <1>2. VmTypeOK' /\ ClosureOK' /\ PendingOK'
    BY <1>1 DEF HeapInv, VmTypeOK, ClosureOK, PendingOK, EmptyList
  <1>3. CollectInv => CollectInv'
    BY <1>1 DEF CollectInv, Limit
  <1>4. Mutating => Mutating'
    BY <1>1 DEF Mutating, Frames, Regs, Term, Tags, Spaces, Off
  <1> QED BY <1>1, <1>2, <1>3, <1>4 DEF HeapInv

\* Whatever the step, by the program, its runtime or the collector.
LEMMA HeapInvNext ==
  ASSUME WithinLimits, FrameInv, HeapInv, [Next]_vars
  PROVE  HeapInv'
  BY OpcodeSafe, WithinSafe, StutterSafe DEF Next, Stopped

-----------------------------------------------------------------------------
(* What follows of the invariant *)

\* A collection goes on, or died of the lack of memory; otherwise the VM rests.
LEMMA Modes ==
  ASSUME HeapInv
  PROVE  /\ CollectInv \/ Mutating
         /\ status = "collect" => CollectInv
         /\ TextsFit /\ status # "collect" => Mutating
         /\ status \notin {"collect", "die"} => Mutating
  BY DEF HeapInv

\* The VM at rest.
LEMMA RestingFacts ==
  ASSUME Mutating
  PROVE  /\ heap \in Heaps /\ toSpace \in Spaces /\ allocPtr \in Nat
         /\ registers \in [Frames -> [Regs -> Term]] /\ calls = <<>>
         /\ TextsFit => allocPtr <= HalfSize
         /\ \A k \in 1 .. Count(heap, toSpace) :
              /\ Whole(heap, toSpace, k, toSpace)
              /\ Kind(heap, toSpace, k) # "TABLE"
  BY DEF Mutating, Resting, BlockOK

\* The collector, between two of its steps.
LEMMA CollectorFacts ==
  ASSUME CollectInv
  PROVE  /\ heap \in Heaps /\ toSpace \in Spaces /\ calls \in Seq(Activation)
         /\ registers \in [Frames -> [Regs -> Term]]
         /\ BlocksOK(heap) /\ GreyOK(heap, toSpace, calls) /\ BlackOK(heap, toSpace, calls)
         /\ MovedOK(heap, toSpace, calls)
         /\ AllReached(heap, toSpace, calls, registers, currentFrame)
         /\ allocPtr \in Nat
         /\ TextsFit => allocPtr <= Limit /\ allocPtr <= HalfSize
  <1>1. PICK rank : Collecting(heap, toSpace, calls, registers, scan, currentFrame, rank)
    BY DEF CollectInv
  <1>2. /\ allocPtr \in Nat
        /\ TextsFit => /\ Limit \in Nat /\ Limit <= HalfSize
                       /\ \E n \in Nat : allocPtr + n <= Limit
    BY DEF CollectInv, Accounts
  <1>3. TextsFit => allocPtr <= Limit /\ allocPtr <= HalfSize
    BY <1>2, HeapAssumption
  <1> QED BY <1>1, <1>2, <1>3 DEF CollectInv, Collecting, Typed

\* The types.
LEMMA TypesHold ==
  ASSUME FrameInv, HeapInv
  PROVE  TypeOK
  <1>1. heap \in Heaps /\ toSpace \in Spaces /\ allocPtr \in Nat /\ calls \in Seq(Activation)
        /\ registers \in [Frames -> [Regs -> Term]]
    <2>1. CASE CollectInv
      BY <2>1, CollectorFacts
    <2>2. CASE Mutating
      BY <2>2, RestingFacts
    <2> QED BY <2>1, <2>2, Modes
  <1>2. GcTypeOK
    BY <1>1 DEF FrameInv, FrameShape, GcTypeOK, HeapTypeOK, Heaps
  <1>3. VmTypeOK
    BY DEF HeapInv
  <1> QED BY <1>2, <1>3 DEF TypeOK, VmTypeOK

\* Outside a collection all references are into to_space.
LEMMA ReferencesClosed ==
  ASSUME FrameInv, HeapInv
  PROVE  HeapClosed
  <1> SUFFICES ASSUME status \notin {"collect", "die"} PROVE HeapClosed
    BY DEF HeapClosed
  <1>1. ASSUME NEW t, t.space = Off \/ RefersTo(heap, t, toSpace)
        PROVE  PointsInto(t, toSpace)
    BY <1>1 DEF PointsInto, RefersTo, Slots, Count, Kind
  <1>2. ASSUME NEW i \in 0 .. currentFrame, NEW j \in Regs
        PROVE  PointsInto(registers[i][j], toSpace)
    <2>1. ValueIn(heap, registers[i][j], toSpace)
      BY MutatorFacts DEF RegistersIn, Reg
    <2> QED BY <1>1, <2>1 DEF ValueIn, OffValue
  <1>3. ASSUME NEW k \in Slots(toSpace), NEW n \in 1 .. Len(heap[toSpace][k].kids)
        PROVE  PointsInto(heap[toSpace][k].kids[n], toSpace)
    <2> DEFINE t == heap[toSpace][k].kids[n]
    <2>1. k \in 1 .. Count(heap, toSpace) /\ n \in 1 .. Arity(heap, toSpace, k)
      BY DEF Slots, Count, Arity
    <2>2. /\ Suits(heap, Kind(heap, toSpace, k), Arity(heap, toSpace, k), n, t, toSpace)
          /\ Kind(heap, toSpace, k) # "TABLE"
      BY <2>1, MutatorFacts DEF Mutating, Resting, Whole, Kid, BlockOK
    <2>3. Kind(heap, toSpace, k) \in Kinds /\ toSpace \in Spaces
      BY <2>1, MutatorFacts, HeapTyped
    <2> HIDE DEF t
    <2>4. t.space = Off \/ RefersTo(heap, t, toSpace)
      BY <2>2, <2>3, SuitsTyped
    <2> QED BY <1>1, <2>4 DEF t
  <1> QED BY <1>2, <1>3 DEF HeapClosed

\* Forwarded originals have copies of their own.
LEMMA ForwardingSound ==
  ASSUME HeapInv
  PROVE  ForwardSound
  <1> SUFFICES ASSUME status = "collect" PROVE ForwardSound
    BY DEF ForwardSound
  <1> DEFINE F == Other(toSpace)
  <1>1. FromSpace = F
    BY DEF FromSpace, Other
  <1>2. ASSUME NEW k \in Slots(FromSpace), heap[FromSpace][k].fwd # 0
        PROVE  /\ heap[FromSpace][k].fwd \in Slots(toSpace)
               /\ heap[toSpace][heap[FromSpace][k].fwd].kind = heap[FromSpace][k].kind
               /\ \A l \in Slots(FromSpace) :
                    heap[FromSpace][l].fwd = heap[FromSpace][k].fwd => l = k
    <2>1. k \in 1 .. Count(heap, F) /\ Fwd(heap, F, k) # 0
      BY <1>1, <1>2 DEF Slots, Count, Fwd
    <2>2. /\ Fwd(heap, F, k) \in 1 .. Count(heap, toSpace)
          /\ Kind(heap, toSpace, Fwd(heap, F, k)) = Kind(heap, F, k)
          /\ \A l \in 1 .. Count(heap, F) : Fwd(heap, F, l) = Fwd(heap, F, k) => l = k
      BY <2>1, Modes, CollectorFacts DEF MovedOK
    <2> QED BY <1>1, <2>2 DEF Slots, Count, Fwd, Kind
  <1> QED BY <1>2 DEF ForwardSound

\* The allocation pointer stays in its half-space.
LEMMA AllocationFits ==
  ASSUME TextsFit, HeapInv
  PROVE  HeapFits
  <1>1. CASE CollectInv
    BY <1>1, CollectorFacts DEF HeapFits
  <1>2. CASE Mutating
    BY <1>2, RestingFacts DEF HeapFits
  <1> QED BY <1>1, <1>2, Modes

\* A collection by op_gc_collect uses no more than there was in use before.
LEMMA UsageFalls ==
  ASSUME TextsFit, HeapInv
  PROVE  UsageNeverGrows
  BY Modes, CollectorFacts DEF UsageNeverGrows, Limit

\* What was copied is referred to.
LEMMA NothingDeadCopied ==
  ASSUME HeapInv
  PROVE  NoGarbage
  <1> SUFFICES ASSUME status = "collect", calls = <<>>, NEW k \in Slots(toSpace)
               PROVE  \/ \E i \in 0 .. currentFrame, j \in Regs :
                           registers[i][j].space = toSpace /\ registers[i][j].slot = k
                      \/ \E l \in Slots(toSpace) : \E n \in 1 .. Len(heap[toSpace][l].kids) :
                           /\ heap[toSpace][l].kids[n].space = toSpace
                           /\ heap[toSpace][l].kids[n].slot = k
    BY DEF NoGarbage
  <1>1. Reached(heap, toSpace, calls, registers, currentFrame, k)
    BY Modes, CollectorFacts DEF AllReached, Slots, Count
  <1>2. Depth(calls) = 0
    BY Modes, CollectorFacts, StackTyped
  <1>3. ~CopyAt(calls, k) /\ ~\E i \in 1 .. Depth(calls) : TRUE
    BY <1>2 DEF CopyAt
  <1> QED BY <1>1, <1>3 DEF Reached, RefersToCopy, Reg, Slots, Count, Arity, Kid

\* A step during a collection does not end in die().
LEMMA CollectionLives ==
  ASSUME TextsFit, FrameInv, HeapInv, Next
  PROVE  status = "collect" => status' # "die"
  <1> SUFFICES ASSUME status = "collect" PROVE status' # "die"
    OBVIOUS
  <1>1. ~Opcode /\ ~Stopped
    BY DEF Opcode, Stopped, Runs, op_store, op_mov, op_tuple, op_tuple_nth, op_list_nth, op_concat,
           op_string_slice, op_to_string, op_file_pwd, op_anon_fn, op_call_local, op_call, op_capture,
           op_list, op_file_ls, op_code_load, op_gc_collect, op_return, op_exit
  <1>2. CASE AfterCollect \/ AfterSafepoint
    BY <1>2 DEF AfterCollect, AfterSafepoint, EndCollect
  <1>3. CASE CollectStep /\ UNCHANGED vmVars
    BY <1>3, CollectorSafe
  <1>4. ~vm_run_function /\ ~load_function_miss /\ ~load_function_hit /\ ~ReadEntry /\ ~owl_list_push
        /\ ~ListDone /\ ~ModuleDone
    BY DEF vm_run_function, load_function_miss, load_function_hit, ReadEntry, owl_list_push, ListDone, ModuleDone
  <1> QED BY <1>1, <1>2, <1>3, <1>4 DEF Next, Within

-----------------------------------------------------------------------------
\* Both invariants of the VM are inductive together.
LEMMA VmInvariant ==
  ASSUME WithinLimits
  PROVE  Spec => [](FrameInv /\ HeapInv)
  <1>1. Init => FrameInv /\ HeapInv
    BY FrameInvInit, HeapInvInit
  <1>2. FrameInv /\ HeapInv /\ [Next]_vars => (FrameInv /\ HeapInv)'
    BY FrameInvNext, HeapInvNext
  <1> QED BY <1>1, <1>2, PTL DEF Spec

\* The types of all the variables of the VM: no step of the interpreter, of the
\* module loader or of the collector leaves a value of another type behind
\* (opcodes.c, vm.c, alloc.c).
THEOREM TypesAreRespected == ASSUME WithinLimits PROVE Spec => []TypeOK
  <1>1. FrameInv /\ HeapInv => TypeOK
    BY TypesHold
  <1> QED BY <1>1, VmInvariant, PTL

\* Outside a collection every register of a frame in use and every block of
\* to_space, live or dead, refers only into to_space, to a block of the type the
\* tag says: no opcode and no collection leaves a dangling or a stale pointer
\* behind, although gc_collect looks at nothing but registers (alloc.c:201-208).
THEOREM NothingDangles == ASSUME WithinLimits PROVE Spec => []HeapClosed
  <1>1. FrameInv /\ HeapInv => HeapClosed
    BY ReferencesClosed
  <1> QED BY <1>1, VmInvariant, PTL

\* A forward address leads to a copy of the same type as the original, and no two
\* originals share a copy, between any two calls of the recursive functions of the
\* collector (copy, copy_list_node and bump_cpy in alloc.c).
THEOREM ForwardingIsSound == ASSUME WithinLimits PROVE Spec => []ForwardSound
  <1>1. FrameInv /\ HeapInv => ForwardSound
    BY ForwardingSound
  <1> QED BY <1>1, VmInvariant, PTL

\* alloc_ptr never leaves its half-space, although copy's own overflow check is a
\* byte short (alloc.c:174-177), as long as no text is read with bytes behind it
\* and grows when it is copied.
THEOREM HeapNeverOverruns == ASSUME WithinLimits, TextsFit PROVE Spec => []HeapFits
  <1>1. FrameInv /\ HeapInv => HeapFits
    BY AllocationFits
  <1> QED BY <1>1, VmInvariant, PTL

\* A collection by OP_GC_COLLECT leaves no more bytes in use than it found, whatever
\* is shared, so the difference it gives the program never wraps around
\* (opcodes.c:538-541), as long as texts fit.
THEOREM CollectionsNeverGrow == ASSUME WithinLimits, TextsFit PROVE Spec => []UsageNeverGrows
  <1>1. FrameInv /\ HeapInv => UsageNeverGrows
    BY UsageFalls
  <1> QED BY <1>1, VmInvariant, PTL

\* When gc_collect has visited every register, each block it copied is referred to
\* by a register of a frame in use or by another block it copied: it keeps nothing
\* that is dead and copies nothing twice (gc_collect in alloc.c).
THEOREM NothingDeadIsKept == ASSUME WithinLimits PROVE Spec => []NoGarbage
  <1>1. FrameInv /\ HeapInv => NoGarbage
    BY NothingDeadCopied
  <1> QED BY <1>1, VmInvariant, PTL

\* A collection never runs out of memory: whatever is live in one half-space, its
\* copies, with the sizes copy and bump_cpy give them, fit the other, as long as
\* texts fit (the die() of gc_check_overlflow in alloc.c is not reached from copy
\* or bump_cpy).
THEOREM CollectionsFit == ASSUME WithinLimits, TextsFit PROVE Spec => CollectFits
  <1>1. FrameInv /\ HeapInv /\ [Next]_vars => [status = "collect" => status' # "die"]_gcVars
    BY CollectionLives DEF vars
  <1> QED BY <1>1, VmInvariant, PTL DEF Spec, CollectFits
=============================================================================
