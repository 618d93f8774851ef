--------------------------- MODULE OwlGcSpaceProofs ---------------------------
(***************************************************************************)
(* The steps of a collection preserve OwlGcInvariant!Accounts, so that the *)
(* live part of a half-space always fits the other one, and                *)
(* OwlGcInvariant!AllReached, so that nothing else is copied.              *)
(***************************************************************************)
EXTENDS OwlGcProofs

-----------------------------------------------------------------------------
(* Sums *)

\* Nothing adds up to nothing.
LEMMA TotalEmpty ==
  ASSUME NEW w PROVE Total(w, 0, 0)
  <1> DEFINE off == [k \in Nat |-> 0]
  <1>1. off \in [Nat -> Nat] /\ \A k \in Nat : off[k] = 0
    OBVIOUS
  <1> HIDE DEF off
  <1> QED BY <1>1 DEF Total

\* Only the values that are added up matter.
LEMMA TotalSame ==
  ASSUME NEW c \in Nat, NEW w, NEW n, Total(w, c, n), NEW v,
         \A k \in 1 .. c : v[k] = w[k]
  PROVE  Total(v, c, n)
  BY DEF Total

\* One more value.
LEMMA TotalExtended ==
  ASSUME NEW c \in Nat, NEW w, NEW n \in Nat, Total(w, c, n), NEW v, NEW x \in Nat,
         \A k \in 1 .. c : v[k] = w[k], v[c + 1] = x
  PROVE  Total(v, c + 1, n + x)
  <1>1. PICK off \in [Nat -> Nat] :
          /\ off[0] = 0
          /\ \A k \in 1 .. c : off[k] = off[k - 1] + w[k]
          /\ \A i, j \in 0 .. c : i <= j => off[i] <= off[j]
          /\ off[c] = n
    BY DEF Total
  <1> DEFINE new == [off EXCEPT ![c + 1] = n + x]
  <1>2. /\ new \in [Nat -> Nat] /\ new[c + 1] = n + x
        /\ \A k \in Nat : k # c + 1 => new[k] = off[k]
    BY <1>1
  <1> HIDE DEF new
  <1>3. new[0] = 0 /\ new[c + 1] = n + x
    BY <1>1, <1>2
  <1>4. ASSUME NEW k \in 1 .. c + 1
        PROVE  new[k] = new[k - 1] + v[k]
    <2>1. CASE k = c + 1
      BY <1>1, <1>2, <2>1
    <2>2. CASE k # c + 1
      <3>1. k \in 1 .. c /\ k - 1 \in Nat /\ k - 1 # c + 1 /\ k \in Nat
        BY <2>2
      <3> QED BY <1>1, <1>2, <2>2, <3>1
    <2> QED BY <2>1, <2>2
  <1>5. ASSUME NEW i \in 0 .. c + 1, NEW j \in 0 .. c + 1, i <= j
        PROVE  new[i] <= new[j]
    <2>1. CASE j = c + 1 /\ i # c + 1
      <3>1. i \in 0 .. c /\ c \in 0 .. c /\ i <= c
        BY <2>1
      <3>2. off[i] <= off[c] /\ off[i] \in Nat /\ new[i] = off[i]
        BY <1>1, <1>2, <2>1, <3>1
      <3> QED BY <1>1, <1>2, <2>1, <3>2
    <2>2. CASE j # c + 1
      <3>1. i \in 0 .. c /\ j \in 0 .. c /\ i # c + 1
        BY <1>5, <2>2
      <3> QED BY <1>1, <1>2, <1>5, <2>2, <3>1
    <2>3. CASE i = c + 1
      <3>1. j = i
        BY <1>5, <2>3
      <3> QED BY <1>2, <2>3, <3>1
    <2> QED BY <2>1, <2>2, <2>3
  <1> QED BY <1>2, <1>3, <1>4, <1>5 DEF Total

\* One of the values becomes zero.
LEMMA TotalCleared ==
  ASSUME NEW c \in Nat, NEW w \in [Nat -> Nat], NEW n \in Nat, Total(w, c, n),
         NEW k \in 1 .. c, NEW v, v[k] = 0, \A l \in 1 .. c : l # k => v[l] = w[l]
  PROVE  w[k] \in Nat /\ w[k] <= n /\ Total(v, c, n - w[k])
  <1>1. PICK off \in [Nat -> Nat] :
          /\ off[0] = 0
          /\ \A l \in 1 .. c : off[l] = off[l - 1] + w[l]
          /\ \A i, j \in 0 .. c : i <= j => off[i] <= off[j]
          /\ off[c] = n
    BY DEF Total
  <1> DEFINE x == w[k]
             new == [l \in Nat |-> IF l < k THEN off[l] ELSE IF l <= c THEN off[l] - x ELSE 0]
  <1>2. k \in Nat /\ k - 1 \in Nat /\ k <= c /\ c \in 0 .. c /\ k \in 0 .. c /\ k - 1 \in 0 .. c
        /\ 0 < k
    OBVIOUS
  <1>3. x \in Nat /\ off[k] = off[k - 1] + x
    BY <1>1, <1>2
  <1> HIDE DEF x
  <1>4. \A l \in Nat : off[l] \in Nat
    BY <1>1
  <1>5. \A l \in 0 .. c : ~(l < k) => x <= off[l]
    <2> SUFFICES ASSUME NEW l \in 0 .. c, ~(l < k) PROVE x <= off[l]
      OBVIOUS
    <2>1. off[k] <= off[l]
      BY <1>1, <1>2
    <2> QED BY <1>2, <1>3, <1>4, <2>1
  <1>6. \A l \in Nat : new[l] = IF l < k THEN off[l] ELSE IF l <= c THEN off[l] - x ELSE 0
    OBVIOUS
  <1>7. new \in [Nat -> Nat]
    <2> SUFFICES ASSUME NEW l \in Nat
                 PROVE  (IF l < k THEN off[l] ELSE IF l <= c THEN off[l] - x ELSE 0) \in Nat
      OBVIOUS
    <2> QED BY <1>2, <1>3, <1>4, <1>5
  <1> HIDE DEF new
  <1>8. new[0] = 0 /\ new[c] = n - x
    BY <1>1, <1>2, <1>6
  <1>9. ASSUME NEW l \in 1 .. c
        PROVE  new[l] = new[l - 1] + v[l]
    <2>1. off[l] = off[l - 1] + w[l] /\ l \in Nat /\ l - 1 \in Nat /\ l <= c /\ l - 1 <= c
          /\ off[l] \in Nat /\ off[l - 1] \in Nat
      BY <1>1
    <2>2. CASE l = k
      BY <1>2, <1>3, <1>6, <2>1, <2>2
    <2>3. CASE l < k
      BY <1>2, <1>6, <2>1, <2>3
    <2>4. CASE k < l
      <3>1. ~(l < k) /\ ~(l - 1 < k) /\ v[l] = w[l]
        BY <1>2, <2>1, <2>4
      <3>2. new[l] = off[l] - x /\ new[l - 1] = off[l - 1] - x
        BY <1>6, <2>1, <3>1
      <3>3. w[l] \in Nat
        BY <2>1
      <3> QED BY <1>3, <2>1, <3>1, <3>2, <3>3
    <2> QED BY <1>2, <2>1, <2>2, <2>3, <2>4
  <1>10. ASSUME NEW i \in 0 .. c, NEW j \in 0 .. c, i <= j
         PROVE  new[i] <= new[j]
    <2>1. off[i] <= off[j] /\ i \in Nat /\ j \in Nat /\ off[i] \in Nat /\ off[j] \in Nat
          /\ i <= c /\ j <= c
      BY <1>1, <1>10
    <2>2. CASE i < k /\ ~(j < k)
      <3>1. i <= k - 1 /\ k <= j
        BY <1>2, <2>1, <2>2
      <3>2. off[i] <= off[k - 1] /\ off[k] <= off[j]
        BY <1>1, <1>2, <3>1
      <3>3. off[k] \in Nat /\ off[k - 1] \in Nat
        BY <1>2, <1>4
      <3> QED BY <1>3, <1>6, <2>1, <2>2, <3>2, <3>3
    <2> QED BY <1>2, <1>3, <1>6, <1>10, <2>1, <2>2
  <1>11. x <= n
    BY <1>1, <1>2, <1>5
  <1>12. Total(v, c, n - x)
    BY <1>7, <1>8, <1>9, <1>10 DEF Total
  <1> QED BY <1>3, <1>11, <1>12 DEF x

-----------------------------------------------------------------------------
(* What fits *)

\* The bytes taken and owed are functions, equal when their parts are.
LEMMA TakenOwed ==
  ASSUME NEW h \in Heaps, NEW T \in Spaces, NEW cs
  PROVE  /\ Taken(h, T) \in [Nat -> Nat] /\ Owed(h, T, cs) \in [Nat -> Nat]
         /\ \A k \in 1 .. Count(h, T) : Taken(h, T)[k] = Size(h, T, k) + 1
         /\ \A k \in 1 .. Count(h, Other(T)) :
              Owed(h, T, cs)[k] = IF Fwd(h, Other(T), k) = 0 /\ ~InCopy(cs, k)
                                  THEN Size(h, Other(T), k) + 1 ELSE 0
  <1> DEFINE F == Other(T)
  <1>1. F \in Spaces
    BY OtherSpace
  <1>2. /\ Count(h, T) \in Nat /\ Count(h, F) \in Nat
        /\ \A k \in 1 .. Count(h, T) : Size(h, T, k) \in Nat
        /\ \A k \in 1 .. Count(h, F) : Size(h, F, k) \in Nat
    BY <1>1, HeapTyped
  <1> HIDE DEF F
  <1>3. \A k \in 1 .. Count(h, T) : k \in Nat
    BY <1>2
  <1>4. \A k \in 1 .. Count(h, F) : k \in Nat
    BY <1>2
  <1>5. Taken(h, T) \in [Nat -> Nat]
    BY <1>2 DEF Taken
  <1>6. Owed(h, T, cs) \in [Nat -> Nat]
    <2>1. \A k \in Nat : (IF k \in 1 .. Count(h, F) /\ Fwd(h, F, k) = 0 /\ ~InCopy(cs, k)
                          THEN Size(h, F, k) + 1 ELSE 0) \in Nat
      BY <1>2
    <2> QED BY <2>1 DEF Owed, F
  <1>7. \A k \in 1 .. Count(h, T) : Taken(h, T)[k] = Size(h, T, k) + 1
    BY <1>3 DEF Taken
  <1>8. \A k \in 1 .. Count(h, F) :
          Owed(h, T, cs)[k] = IF Fwd(h, F, k) = 0 /\ ~InCopy(cs, k)
                              THEN Size(h, F, k) + 1 ELSE 0
    BY <1>4 DEF Owed, F
  <1> QED BY <1>5, <1>6, <1>7, <1>8 DEF F

\* A step that copies nothing: what there was no copy of has none yet, and
\* what is forwarded had one.
LEMMA AccountsSame ==
  ASSUME NEW h \in Heaps, NEW T \in Spaces, NEW cs, NEW ptr, NEW limit, Accounts(h, T, cs, ptr, limit),
         NEW g \in Heaps, NEW ds,
         \A x \in Spaces : Count(g, x) = Count(h, x),
         \A x \in Spaces : \A k \in 1 .. Count(h, x) : Size(g, x, k) = Size(h, x, k),
         \A k \in 1 .. Count(h, Other(T)) :
           (Fwd(g, Other(T), k) = 0 /\ ~InCopy(ds, k)) <=> (Fwd(h, Other(T), k) = 0 /\ ~InCopy(cs, k))
  PROVE  Accounts(g, T, ds, ptr, limit)
  <1> DEFINE F == Other(T)
             C == Count(h, T)
             D == Count(h, F)
  <1>1. F \in Spaces /\ Count(g, T) = C /\ Count(g, F) = D
    BY OtherSpace
  <1>2. C \in Nat /\ D \in Nat
    BY <1>1, HeapTyped
  <1>3. \A k \in 1 .. C : Taken(g, T)[k] = Taken(h, T)[k]
    BY <1>1, TakenOwed
  <1>4. \A k \in 1 .. D : Owed(g, T, ds)[k] = Owed(h, T, cs)[k]
    <2> SUFFICES ASSUME NEW k \in 1 .. D PROVE Owed(g, T, ds)[k] = Owed(h, T, cs)[k]
      OBVIOUS
    <2>1. Size(g, F, k) = Size(h, F, k)
      BY <1>1
    <2>2. (Fwd(g, F, k) = 0 /\ ~InCopy(ds, k)) <=> (Fwd(h, F, k) = 0 /\ ~InCopy(cs, k))
      OBVIOUS
    <2>3. Owed(g, T, ds)[k] = IF Fwd(g, F, k) = 0 /\ ~InCopy(ds, k) THEN Size(g, F, k) + 1 ELSE 0
      BY <1>1, TakenOwed
    <2>4. Owed(h, T, cs)[k] = IF Fwd(h, F, k) = 0 /\ ~InCopy(cs, k) THEN Size(h, F, k) + 1 ELSE 0
      BY TakenOwed
    <2> HIDE DEF F, C, D
    <2> QED BY <2>1, <2>2, <2>3, <2>4
  <1>5. TextsFit => /\ limit \in Nat /\ limit <= HalfSize
                    /\ \E n \in Nat : Total(Owed(h, T, cs), D, n) /\ ptr + n <= limit
    BY DEF Accounts
  <1>6. Total(Taken(h, T), C, ptr) /\ ptr \in Nat
    BY DEF Accounts
  <1> HIDE DEF F, C, D
  <1>7. Total(Taken(g, T), C, ptr)
    BY <1>2, <1>3, <1>6, TotalSame
  <1>8. ASSUME TextsFit
        PROVE  \E n \in Nat : Total(Owed(g, T, ds), D, n) /\ ptr + n <= limit
    <2>1. PICK n \in Nat : Total(Owed(h, T, cs), D, n) /\ ptr + n <= limit
      BY <1>5, <1>8
    <2>2. Total(Owed(g, T, ds), D, n)
      BY <1>2, <1>4, <2>1, TotalSame
    <2> QED BY <2>1, <2>2
  <1> QED BY <1>1, <1>5, <1>6, <1>7, <1>8 DEF Accounts, F

\* A step that copies original k: to a block that is no larger, it fits.
LEMMA AccountsCopied ==
  ASSUME NEW h \in Heaps, NEW T \in Spaces, NEW cs, NEW ptr, NEW limit, Accounts(h, T, cs, ptr, limit),
         NEW k \in 1 .. Count(h, Other(T)), Fwd(h, Other(T), k) = 0, ~InCopy(cs, k),
         NEW size \in Nat, TextsFit => size <= Size(h, Other(T), k)
  PROVE  /\ TextsFit => ptr + size + 1 <= HalfSize
         /\ \A g \in Heaps : \A ds :
              /\ Count(g, T) = Count(h, T) + 1 /\ Count(g, Other(T)) = Count(h, Other(T))
              /\ \A x \in Spaces : \A l \in 1 .. Count(h, x) : Size(g, x, l) = Size(h, x, l)
              /\ Size(g, T, Count(h, T) + 1) = size
              /\ ~(Fwd(g, Other(T), k) = 0 /\ ~InCopy(ds, k))
              /\ \A l \in 1 .. Count(h, Other(T)) : l # k =>
                   ((Fwd(g, Other(T), l) = 0 /\ ~InCopy(ds, l))
                      <=> (Fwd(h, Other(T), l) = 0 /\ ~InCopy(cs, l)))
              => Accounts(g, T, ds, ptr + size + 1, limit)
  <1> DEFINE F == Other(T)
             C == Count(h, T)
             D == Count(h, F)
             w == Owed(h, T, cs)
  <1>1. F \in Spaces
    BY OtherSpace
  <1>2. C \in Nat /\ D \in Nat /\ C + 1 \in Nat /\ C + 1 \in 1 .. C + 1 /\ \A l \in 1 .. C : l \in 1 .. C + 1
    BY <1>1, HeapTyped
  <1>3. Total(Taken(h, T), C, ptr) /\ ptr \in Nat
    BY DEF Accounts
  <1>4. ptr + size + 1 \in Nat /\ ptr + (size + 1) = ptr + size + 1
    BY <1>3
  <1>5. w \in [Nat -> Nat] /\ w[k] = Size(h, F, k) + 1
    BY TakenOwed
  <1>6. Size(h, F, k) \in Nat
    BY <1>1, HeapTyped
  <1>7. k \in 1 .. D /\ (TextsFit => size <= Size(h, F, k))
    OBVIOUS
  <1>8. TextsFit => /\ limit \in Nat /\ limit <= HalfSize
                    /\ \E n \in Nat : Total(w, D, n) /\ ptr + n <= limit
    BY DEF Accounts
  <1> HIDE DEF F, C, D, w
  <1>9. ASSUME TextsFit
        PROVE  \E n \in Nat : /\ ptr + size + 1 + n <= limit
                              /\ \A v : v[k] = 0 /\ (\A l \in 1 .. D : l # k => v[l] = w[l])
                                        => Total(v, D, n)
    <2>1. PICK n \in Nat : Total(w, D, n) /\ ptr + n <= limit
      BY <1>8, <1>9
    <2>2. ASSUME NEW v, v[k] = 0, \A l \in 1 .. D : l # k => v[l] = w[l]
          PROVE  w[k] <= n /\ Total(v, D, n - w[k])
      BY <1>2, <1>5, <1>7, <2>1, <2>2, TotalCleared
    <2>3. w[k] <= n
      <3> DEFINE v == [l \in Nat |-> IF l = k THEN 0 ELSE w[l]]
      <3>1. k \in Nat /\ \A l \in 1 .. D : l \in Nat
        BY <1>2, <1>7
      <3>2. v[k] = 0 /\ \A l \in 1 .. D : l # k => v[l] = w[l]
        BY <3>1
      <3> HIDE DEF v
      <3> QED BY <2>2, <3>2
    <2>4. ptr + size + 1 + (n - w[k]) <= limit /\ n - w[k] \in Nat
      <3> DEFINE x == w[k]
                 y == Size(h, F, k)
      <3>1. x = y + 1 /\ y \in Nat /\ x <= n /\ size <= y /\ size \in Nat
        BY <1>5, <1>6, <1>7, <1>9, <2>3
      <3> HIDE DEF x, y
      <3>2. ptr + size + 1 + (n - x) <= limit /\ n - x \in Nat
        BY <1>3, <1>8, <1>9, <2>1, <3>1
      <3> QED BY <3>2 DEF x
    <2> QED BY <2>2, <2>4
  <1>10. ASSUME NEW g \in Heaps, NEW ds,
                Count(g, T) = C + 1, Count(g, F) = D,
                \A x \in Spaces : \A l \in 1 .. Count(h, x) : Size(g, x, l) = Size(h, x, l),
                Size(g, T, C + 1) = size,
                ~(Fwd(g, F, k) = 0 /\ ~InCopy(ds, k)),
                \A l \in 1 .. D : l # k =>
                  ((Fwd(g, F, l) = 0 /\ ~InCopy(ds, l)) <=> (Fwd(h, F, l) = 0 /\ ~InCopy(cs, l)))
         PROVE  Accounts(g, T, ds, ptr + size + 1, limit)
    <2>1. \A l \in 1 .. C : Taken(g, T)[l] = Taken(h, T)[l]
      <3> SUFFICES ASSUME NEW l \in 1 .. C PROVE Taken(g, T)[l] = Taken(h, T)[l]
        OBVIOUS
      <3>1. Taken(h, T)[l] = Size(h, T, l) + 1
        BY TakenOwed DEF C
      <3>2. Taken(g, T)[l] = Size(g, T, l) + 1
        BY <1>2, <1>10, TakenOwed
      <3> QED BY <1>10, <3>1, <3>2 DEF C
    <2>2. Taken(g, T)[C + 1] = size + 1
      BY <1>2, <1>10, TakenOwed
    <2>3. Total(Taken(g, T), C + 1, ptr + (size + 1))
      BY <1>2, <1>3, <2>1, <2>2, TotalExtended
    <2>4. \A l \in 1 .. D :
            Owed(g, T, ds)[l] = IF Fwd(g, F, l) = 0 /\ ~InCopy(ds, l) THEN Size(g, F, l) + 1 ELSE 0
      BY <1>10, TakenOwed DEF F
    <2>5. \A l \in 1 .. D : w[l] = IF Fwd(h, F, l) = 0 /\ ~InCopy(cs, l) THEN Size(h, F, l) + 1 ELSE 0
      BY TakenOwed DEF F, w, D
    <2>6. \A l \in 1 .. D : Size(g, F, l) = Size(h, F, l)
      BY <1>1, <1>10 DEF D
    <2>7. Owed(g, T, ds)[k] = 0 /\ \A l \in 1 .. D : l # k => Owed(g, T, ds)[l] = w[l]
      BY <1>7, <1>10, <2>4, <2>5, <2>6
    <2>8. TextsFit => \E n \in Nat : Total(Owed(g, T, ds), D, n) /\ ptr + size + 1 + n <= limit
      BY <1>9, <2>7
    <2> QED BY <1>4, <1>8, <1>10, <2>3, <2>8 DEF Accounts, F
  <1>11. TextsFit => ptr + size + 1 <= HalfSize
    BY <1>4, <1>8, <1>9, HeapAssumption
  <1> QED BY <1>10, <1>11 DEF F, C, D

-----------------------------------------------------------------------------
(* What is copied is referred to *)

AllReachedBut(h, T, cs, regs, cf, c) ==
  \A k \in 1 .. Count(h, T) : k = c \/ Reached(h, T, cs, regs, cf, k)

\* The reference to a copy that is returned reaches it, and what it takes the
\* place of was none to a copy: in a block,
LEMMA ReachedByKid ==
  ASSUME NEW h, NEW T, NEW cs, NEW regs, NEW sc, NEW cf, NEW rank,
         Collecting(h, T, cs, regs, sc, cf, rank), AtChild(h, T, cs), NEW t,
         MovesTo(h, T, OperandAt(h, T, cs, regs, sc, Depth(cs)), t),
         NEW c, AllReachedBut(h, T, cs, regs, cf, c), c = 0 \/ t = Ref(t.tag, T, c),
         NEW g, KidChange(h, g, HomeSpace(T, cs, Depth(cs)), HomeSlot(cs, Depth(cs)),
                          Child(cs, Depth(cs)), t)
  PROVE  AllReached(g, T, Stepped(cs), regs, cf)
  <1> DEFINE z  == Depth(cs)
             p  == HomeSpace(T, cs, z)
             q  == HomeSlot(cs, z)
             n  == Child(cs, z)
             u  == OperandAt(h, T, cs, regs, sc, z)
             ds == Stepped(cs)
             F  == Other(T)
  <1>1. h \in Heaps /\ T \in Spaces /\ cs \in Seq(Activation) /\ cs # <<>> /\ StackOK(h, T, cs, regs, sc)
    BY DEF Collecting, Typed, AtChild
  <1>2. F \in Spaces /\ F # T /\ T # Off
    BY <1>1, OtherSpace
  <1>3. z \in 1 .. z
    BY <1>1, StackTyped
  <1>4. /\ p \in Spaces /\ q \in 1 .. Count(h, p)
        /\ p # T => p = F /\ Fn(cs, z) = "copy_list_node" /\ q = Old(cs, z)
        /\ n \in 1 .. Arity(h, p, q)
    <2>1. n <= Loop(h, p, q)
      BY DEF AtChild
    <2> QED BY <1>3, <2>1, HomeOnHeap
  <1>5. /\ Depth(ds) = z /\ \A i \in 1 .. z : SameCall(cs, ds, i)
    BY <1>1, SteppedFacts
  <1>6. u = Kid(h, p, q, n)
    <2>1. z # 0
      BY <1>3
    <2> QED BY <2>1 DEF OperandAt
  <1>7. MovesTo(h, T, u, t) /\ KidChange(h, g, p, q, n, t)
    OBVIOUS
  <1>8. \A i \in 1 .. z : Old(cs, i) \in 1 .. Count(h, F)
    BY <1>1 DEF StackOK, ActivationOK
  <1> HIDE DEF z, p, q, n, u, ds, F
  <1>9. u.space # T
    BY <1>2, <1>7 DEF MovesTo, RefersTo, F
  <1>10. /\ \A x \in Spaces : Count(g, x) = Count(h, x)
         /\ \A x \in Spaces : \A l \in 1 .. Count(h, x) :
              /\ Arity(g, x, l) = Arity(h, x, l)
              /\ \A m \in 1 .. Arity(h, x, l) :
                   (x # p \/ l # q \/ m # n) => Kid(g, x, l, m) = Kid(h, x, l, m)
         /\ Kid(g, p, q, n) = t
    BY <1>7 DEF KidChange, SameBut
  <1>11. \A x \in Spaces : \A l \in 1 .. Count(h, x) : \A k :
           RefersToCopy(h, x, l, T, k) => RefersToCopy(g, x, l, T, k)
    BY <1>6, <1>9, <1>10 DEF RefersToCopy
  <1>12. \A k : CopyAt(ds, k) <=> CopyAt(cs, k)
    BY <1>5 DEF CopyAt, SameCall, z
  <1>13. ASSUME NEW k \in 1 .. Count(h, T), k # c
         PROVE  Reached(g, T, ds, regs, cf, k)
    <2>1. Reached(h, T, cs, regs, cf, k)
      BY <1>13 DEF AllReachedBut
    <2>2. CASE \E l \in 1 .. Count(h, T) : RefersToCopy(h, T, l, T, k)
      BY <1>1, <1>10, <1>11, <2>2 DEF Reached
    <2>3. CASE \E i \in 1 .. z : Fn(cs, i) = "copy_list_node" /\ RefersToCopy(h, F, Old(cs, i), T, k)
      BY <1>2, <1>5, <1>8, <1>11, <2>3 DEF Reached, SameCall, F
    <2> QED BY <1>12, <2>1, <2>2, <2>3 DEF Reached, F, z
  <1>14. ASSUME c \in 1 .. Count(h, T)
         PROVE  Reached(g, T, ds, regs, cf, c)
    <2>1. t.space = T /\ t.slot = c
      BY <1>14 DEF Ref
    <2>2. RefersToCopy(g, p, q, T, c)
      BY <1>4, <1>10, <2>1 DEF RefersToCopy
    <2>3. CASE p = T
      BY <1>4, <1>10, <2>2, <2>3 DEF Reached
    <2>4. CASE p # T
      BY <1>3, <1>4, <1>5, <2>2, <2>4 DEF Reached, SameCall, F
    <2> QED BY <2>3, <2>4
  <1>15. AllReached(g, T, ds, regs, cf)
    BY <1>1, <1>10, <1>13, <1>14 DEF AllReached
  <1> QED BY <1>15 DEF ds

\* and in a register.
LEMMA ReachedByRegister ==
  ASSUME NEW h, NEW T, NEW cs, NEW regs, NEW sc, NEW cf, NEW rank,
         Collecting(h, T, cs, regs, sc, cf, rank), cs = <<>>, sc.i <= cf, NEW t,
         MovesTo(h, T, Reg(regs, sc.i, sc.j), t),
         NEW c, AllReachedBut(h, T, cs, regs, cf, c), c = 0 \/ t = Ref(t.tag, T, c)
  PROVE  AllReached(h, T, cs, [regs EXCEPT ![sc.i][sc.j] = t], cf)
  <1> DEFINE rs == [regs EXCEPT ![sc.i][sc.j] = t]
  <1>1. /\ T \in Spaces /\ sc.i \in Nat /\ sc.j \in Regs /\ cf \in Frames
        /\ regs \in [Frames -> [Regs -> Term]]
    BY DEF Collecting, Typed
  <1>2. sc.i \in 0 .. cf /\ \A i \in 0 .. cf : i \in Frames
    BY <1>1, GcAssumption DEF Frames
  <1>3. /\ Reg(rs, sc.i, sc.j) = t
        /\ \A i \in Frames, j \in Regs : (i # sc.i \/ j # sc.j) => Reg(rs, i, j) = Reg(regs, i, j)
    BY <1>1, <1>2 DEF Reg
  <1>4. Reg(regs, sc.i, sc.j).space # T
    <2>1. Other(T) # T /\ T # Off
      BY <1>1, OtherSpace
    <2> QED BY <2>1 DEF MovesTo, RefersTo
  <1> HIDE DEF rs
  <1> SUFFICES ASSUME NEW k \in 1 .. Count(h, T)
               PROVE  Reached(h, T, cs, rs, cf, k)
    BY DEF AllReached, rs
  <1>5. CASE k = c
    <2>1. 0 \notin 1 .. Count(h, T)
      OBVIOUS
    <2>2. t.space = T /\ t.slot = k
      BY <1>5, <2>1 DEF Ref
    <2> QED BY <1>1, <1>2, <1>3, <2>2 DEF Reached
  <1>6. CASE k # c
    <2>1. Reached(h, T, cs, regs, cf, k)
      BY <1>6 DEF AllReachedBut
    <2>2. CASE \E i \in 0 .. cf, j \in Regs : Reg(regs, i, j).space = T /\ Reg(regs, i, j).slot = k
      BY <1>2, <1>3, <1>4, <2>2 DEF Reached
    <2> QED BY <2>1, <2>2 DEF Reached
  <1> QED BY <1>5, <1>6

-----------------------------------------------------------------------------
(* The steps that enter and leave *)

\* copy_list_node is called.
LEMMA EnterNodeSpace ==
  ASSUME NEW h \in Heaps, NEW T \in Spaces, NEW cs \in Seq(Activation), NEW regs, NEW cf, NEW ptr, NEW limit,
         AllReached(h, T, cs, regs, cf), Accounts(h, T, cs, ptr, limit),
         NEW a \in Activation, a.fn = "copy_list_node"
  PROVE  /\ AllReached(h, T, Append(cs, a), regs, cf)
         /\ Accounts(h, T, Append(cs, a), ptr, limit)
  <1> DEFINE z  == Depth(cs)
             ds == Append(cs, a)
             y  == Depth(ds)
  <1>1. /\ y = z + 1 /\ \A i \in 1 .. z : SameCall(cs, ds, i)
        /\ Fn(ds, y) = "copy_list_node"
    BY PushedFacts
  <1>2. z \in Nat
    BY StackTyped
  <1> HIDE DEF z, ds, y
  <1>3. \A i \in 1 .. y : i = y \/ i \in 1 .. z
    BY <1>1, <1>2
  <1>4. \A i \in 1 .. z : i \in 1 .. y
    BY <1>1, <1>2
  <1>5. \A k : (CopyAt(ds, k) <=> CopyAt(cs, k)) /\ (InCopy(ds, k) <=> InCopy(cs, k))
    BY <1>1, <1>3, <1>4 DEF CopyAt, InCopy, SameCall, y, z
  <1>6. Accounts(h, T, ds, ptr, limit)
    BY <1>5, AccountsSame
  <1>7. AllReached(h, T, ds, regs, cf)
    <2> SUFFICES ASSUME NEW k \in 1 .. Count(h, T) PROVE Reached(h, T, ds, regs, cf, k)
      BY DEF AllReached
    <2>1. Reached(h, T, cs, regs, cf, k)
      BY DEF AllReached
    <2>2. (\E i \in 1 .. z : Fn(cs, i) = "copy_list_node" /\ RefersToCopy(h, Other(T), Old(cs, i), T, k))
          => \E i \in 1 .. y : Fn(ds, i) = "copy_list_node" /\ RefersToCopy(h, Other(T), Old(ds, i), T, k)
      BY <1>1, <1>4 DEF SameCall
    <2> QED BY <1>5, <2>1, <2>2 DEF Reached, y, z
  <1> QED BY <1>6, <1>7 DEF ds

\* copy is called: the copy is that of the activation that made it.
LEMMA EnterCopySpace ==
  ASSUME NEW h \in Heaps, NEW T \in Spaces, NEW cs \in Seq(Activation), NEW regs, NEW cf, NEW ptr, NEW limit,
         AllReached(h, T, cs, regs, cf), Accounts(h, T, cs, ptr, limit),
         \A i \in 1 .. Depth(cs) : Old(cs, i) \in 1 .. Count(h, Other(T)),
         NEW k \in 1 .. Count(h, Other(T)), Fwd(h, Other(T), k) = 0, ~InCopy(cs, k),
         NEW chars, NEW size \in Nat, TextsFit => size <= Size(h, Other(T), k),
         NEW a \in Activation, a.fn = "copy", a.old = k, a.new = Count(h, T) + 1
  PROVE  /\ TextsFit => ptr + size + 1 <= HalfSize
         /\ \A g : Copied(h, g, T, k, chars, size, 0) =>
              /\ AllReached(g, T, Append(cs, a), regs, cf)
              /\ Accounts(g, T, Append(cs, a), ptr + size + 1, limit)
  <1> DEFINE z  == Depth(cs)
             ds == Append(cs, a)
             y  == Depth(ds)
             F  == Other(T)
             c  == Count(h, T) + 1
  <1>1. /\ y = z + 1 /\ \A i \in 1 .. z : SameCall(cs, ds, i)
        /\ Fn(ds, y) = a.fn /\ Old(ds, y) = a.old /\ New(ds, y) = a.new
    BY PushedFacts
  <1>2. z \in Nat /\ F \in Spaces /\ F # T
    BY StackTyped, OtherSpace
  <1>3. Count(h, T) \in Nat
    BY HeapTyped
  <1>4. k \in 1 .. Count(h, F) /\ Fwd(h, F, k) = 0 /\ a.new = c
        /\ \A i \in 1 .. z : Old(cs, i) \in 1 .. Count(h, F)
    OBVIOUS
  <1>5. TextsFit => ptr + size + 1 <= HalfSize
    BY AccountsCopied
  <1> HIDE DEF z, ds, y, F
  <1>6. \A i \in 1 .. y : i = y \/ i \in 1 .. z
    BY <1>1, <1>2
  <1>7. y \in 1 .. y /\ \A i \in 1 .. z : i \in 1 .. y
    BY <1>1, <1>2
  <1>8. \A l : /\ CopyAt(ds, l) <=> CopyAt(cs, l) \/ l = c
               /\ InCopy(ds, l) <=> InCopy(cs, l) \/ l = k
    BY <1>1, <1>6, <1>7 DEF CopyAt, InCopy, SameCall, y, z
  <1>9. ASSUME NEW g, Copied(h, g, T, k, chars, size, 0)
        PROVE  /\ AllReached(g, T, ds, regs, cf)
               /\ Accounts(g, T, ds, ptr + size + 1, limit)
    <2>1. /\ g \in Heaps /\ Count(g, T) = c /\ Count(g, F) = Count(h, F)
          /\ \A x \in Spaces : \A l \in 1 .. Count(h, x) :
               /\ SameBut(h, g, x, l)
               /\ Fwd(g, x, l) = Fwd(h, x, l)
               /\ \A m : Kid(g, x, l, m) = Kid(h, x, l, m)
          /\ Size(g, T, c) = size
      BY <1>4, <1>9 DEF Copied, F
    <2>2. Accounts(g, T, ds, ptr + size + 1, limit)
      <3>1. \A x \in Spaces : \A l \in 1 .. Count(h, x) : Size(g, x, l) = Size(h, x, l)
        BY <2>1 DEF SameBut
      <3>2. ~(Fwd(g, F, k) = 0 /\ ~InCopy(ds, k))
        BY <1>8
      <3>3. \A l \in 1 .. Count(h, F) : l # k =>
              ((Fwd(g, F, l) = 0 /\ ~InCopy(ds, l)) <=> (Fwd(h, F, l) = 0 /\ ~InCopy(cs, l)))
        BY <1>2, <1>8, <2>1
      <3> QED BY <2>1, <3>1, <3>2, <3>3, AccountsCopied DEF F
    <2>3. \A x \in Spaces : \A l \in 1 .. Count(h, x) : \A m :
            RefersToCopy(h, x, l, T, m) => RefersToCopy(g, x, l, T, m)
      BY <2>1 DEF RefersToCopy, SameBut
    <2>4. ASSUME NEW m \in 1 .. c
          PROVE  Reached(g, T, ds, regs, cf, m)
      <3>1. CASE m = c
        BY <1>8, <3>1 DEF Reached
      <3>2. CASE m # c
        <4>1. m \in 1 .. Count(h, T)
          BY <1>3, <3>2
        <4>2. Reached(h, T, cs, regs, cf, m)
          BY <4>1 DEF AllReached
        <4>3. CASE \E l \in 1 .. Count(h, T) : RefersToCopy(h, T, l, T, m)
          <5>1. \A l \in 1 .. Count(h, T) : l \in 1 .. c
            BY <1>3
          <5> QED BY <2>1, <2>3, <4>3, <5>1 DEF Reached
        <4>4. CASE \E i \in 1 .. z : Fn(cs, i) = "copy_list_node" /\ RefersToCopy(h, F, Old(cs, i), T, m)
          BY <1>1, <1>2, <1>4, <1>7, <2>3, <4>4 DEF Reached, SameCall, F, y
        <4> QED BY <1>8, <4>2, <4>3, <4>4 DEF Reached, F, z
      <3> QED BY <3>1, <3>2
    <2> QED BY <2>1, <2>2, <2>4 DEF AllReached
  <1> QED BY <1>5, <1>9 DEF ds

\* copy returns: its copy is about to be referred to.
LEMMA LeaveCopySpace ==
  ASSUME NEW h \in Heaps, NEW T \in Spaces, NEW cs \in Seq(Activation), NEW regs, NEW cf, NEW ptr, NEW limit,
         AllReached(h, T, cs, regs, cf), Accounts(h, T, cs, ptr, limit),
         cs # <<>>, Fn(cs, Depth(cs)) = "copy",
         \A i \in 1 .. Depth(cs) : Old(cs, i) \in 1 .. Count(h, Other(T)),
         New(cs, Depth(cs)) # 0, NEW g,
         FwdChange(h, g, Other(T), Old(cs, Depth(cs)), New(cs, Depth(cs)))
  PROVE  /\ AllReachedBut(g, T, Pop(cs), regs, cf, New(cs, Depth(cs)))
         /\ Accounts(g, T, Pop(cs), ptr, limit)
  <1> DEFINE z  == Depth(cs)
             ds == Pop(cs)
             y  == Depth(ds)
             F  == Other(T)
             o  == Old(cs, z)
             c  == New(cs, z)
  <1>1. /\ y = z - 1 /\ \A i \in 1 .. y : SameCall(cs, ds, i)
    BY PoppedFacts
  <1>2. z \in Nat /\ z # 0 /\ F \in Spaces /\ F # T
    BY StackTyped, OtherSpace
  <1>3. /\ Fn(cs, z) = "copy" /\ c # 0 /\ FwdChange(h, g, F, o, c)
        /\ \A i \in 1 .. z : Old(cs, i) \in 1 .. Count(h, F)
    OBVIOUS
  <1> HIDE DEF z, ds, y, F, o, c
  <1>4. \A i \in 1 .. z : i = z \/ i \in 1 .. y
    BY <1>1, <1>2
  <1>5. z \in 1 .. z /\ \A i \in 1 .. y : i \in 1 .. z
    BY <1>1, <1>2
  <1>6. \A l : /\ CopyAt(cs, l) <=> CopyAt(ds, l) \/ l = c
               /\ InCopy(cs, l) <=> InCopy(ds, l) \/ l = o
    BY <1>1, <1>3, <1>4, <1>5 DEF CopyAt, InCopy, SameCall, y, z, c, o
  <1>7. /\ g \in Heaps /\ \A x \in Spaces : Count(g, x) = Count(h, x)
        /\ \A x \in Spaces : \A l \in 1 .. Count(h, x) :
             /\ SameBut(h, g, x, l)
             /\ \A m : Kid(g, x, l, m) = Kid(h, x, l, m)
             /\ (x # F \/ l # o) => Fwd(g, x, l) = Fwd(h, x, l)
        /\ Fwd(g, F, o) = c
    BY <1>3 DEF FwdChange
  <1>8. Accounts(g, T, ds, ptr, limit)
    <2>1. \A l \in 1 .. Count(h, F) :
            (Fwd(g, F, l) = 0 /\ ~InCopy(ds, l)) <=> (Fwd(h, F, l) = 0 /\ ~InCopy(cs, l))
      BY <1>2, <1>3, <1>6, <1>7
    <2>2. \A x \in Spaces : \A l \in 1 .. Count(h, x) : Size(g, x, l) = Size(h, x, l)
      BY <1>7 DEF SameBut
    <2> QED BY <1>7, <2>1, <2>2, AccountsSame DEF F
  <1>9. \A x \in Spaces : \A l \in 1 .. Count(h, x) : \A m :
          RefersToCopy(h, x, l, T, m) => RefersToCopy(g, x, l, T, m)
    BY <1>7 DEF RefersToCopy, SameBut
  <1>10. AllReachedBut(g, T, ds, regs, cf, c)
    <2> SUFFICES ASSUME NEW m \in 1 .. Count(h, T), m # c
                 PROVE  Reached(g, T, ds, regs, cf, m)
      BY <1>7 DEF AllReachedBut
    <2>1. Reached(h, T, cs, regs, cf, m)
      BY DEF AllReached
    <2>2. CASE \E l \in 1 .. Count(h, T) : RefersToCopy(h, T, l, T, m)
      BY <1>7, <1>9, <2>2 DEF Reached
    <2>3. CASE \E i \in 1 .. z : Fn(cs, i) = "copy_list_node" /\ RefersToCopy(h, F, Old(cs, i), T, m)
      BY <1>1, <1>2, <1>3, <1>4, <1>9, <2>3 DEF Reached, SameCall, F, y
    <2> QED BY <1>6, <2>1, <2>2, <2>3 DEF Reached, F, z
  <1> QED BY <1>8, <1>10 DEF ds, c, z

\* copy_list_node returns.
LEMMA LeaveNodeSpace ==
  ASSUME NEW h \in Heaps, NEW T \in Spaces, NEW cs \in Seq(Activation), NEW regs, NEW cf, NEW ptr, NEW limit,
         AllReached(h, T, cs, regs, cf), Accounts(h, T, cs, ptr, limit),
         cs # <<>>, Fn(cs, Depth(cs)) = "copy_list_node",
         NEW o, Old(cs, Depth(cs)) = o, Kind(h, Other(T), o) # "STRING", Fwd(h, Other(T), o) = 0, ~InCopy(cs, o),
         \A i \in 1 .. Depth(cs) : Old(cs, i) \in 1 .. Count(h, Other(T)),
         NEW chars, NEW size \in Nat, TextsFit => size <= Size(h, Other(T), o)
  PROVE  /\ TextsFit => ptr + size + 1 <= HalfSize
         /\ \A g : Copied(h, g, T, o, chars, size, Count(h, T) + 1) =>
              /\ AllReachedBut(g, T, Pop(cs), regs, cf, Count(h, T) + 1)
              /\ Accounts(g, T, Pop(cs), ptr + size + 1, limit)
  <1> DEFINE z  == Depth(cs)
             ds == Pop(cs)
             y  == Depth(ds)
             F  == Other(T)
             c  == Count(h, T) + 1
  <1>1. /\ y = z - 1 /\ \A i \in 1 .. y : SameCall(cs, ds, i)
    BY PoppedFacts
  <1>2. z \in Nat /\ z # 0 /\ F \in Spaces /\ F # T /\ z \in 1 .. z
    BY StackTyped, OtherSpace
  <1>3. Count(h, T) \in Nat
    BY HeapTyped
  <1>4. /\ Kind(h, F, o) # "STRING" /\ Fn(cs, z) = "copy_list_node" /\ Old(cs, z) = o /\ ~InCopy(cs, o)
        /\ \A i \in 1 .. z : Old(cs, i) \in 1 .. Count(h, F)
    OBVIOUS
  <1>5. o \in 1 .. Count(h, F)
    BY <1>2, <1>4
  <1>6. TextsFit => ptr + size + 1 <= HalfSize
    BY <1>5, AccountsCopied
  <1> HIDE DEF z, ds, y, F
  <1>7. \A i \in 1 .. z : i = z \/ i \in 1 .. y
    BY <1>1, <1>2
  <1>8. \A i \in 1 .. y : i \in 1 .. z
    BY <1>1, <1>2
  <1>9. \A l : (CopyAt(cs, l) <=> CopyAt(ds, l)) /\ (InCopy(cs, l) <=> InCopy(ds, l))
    BY <1>1, <1>4, <1>7, <1>8 DEF CopyAt, InCopy, SameCall, y, z
  <1>10. c \in Nat /\ c # 0
    BY <1>3
  <1>11. ASSUME NEW g, Copied(h, g, T, o, chars, size, c)
         PROVE  /\ AllReachedBut(g, T, ds, regs, cf, c)
                /\ Accounts(g, T, ds, ptr + size + 1, limit)
    <2>1. /\ g \in Heaps /\ Count(g, T) = c /\ Count(g, F) = Count(h, F)
          /\ \A x \in Spaces : \A l \in 1 .. Count(h, x) :
               /\ SameBut(h, g, x, l)
               /\ (x # F \/ l # o) => Fwd(g, x, l) = Fwd(h, x, l)
               /\ \A m : Kid(g, x, l, m) = Kid(h, x, l, m)
          /\ Size(g, T, c) = size
          /\ Fwd(g, F, o) = c
          /\ Arity(g, T, c) = Arity(h, F, o)
          /\ \A n \in 1 .. Arity(h, F, o) : Kid(g, T, c, n) = Kid(h, F, o, n)
      BY <1>4, <1>11 DEF Copied, F
    <2>2. Accounts(g, T, ds, ptr + size + 1, limit)
      <3>1. \A x \in Spaces : \A l \in 1 .. Count(h, x) : Size(g, x, l) = Size(h, x, l)
        BY <2>1 DEF SameBut
      <3>2. ~(Fwd(g, F, o) = 0 /\ ~InCopy(ds, o))
        BY <1>10, <2>1
      <3>3. \A l \in 1 .. Count(h, F) : l # o =>
              ((Fwd(g, F, l) = 0 /\ ~InCopy(ds, l)) <=> (Fwd(h, F, l) = 0 /\ ~InCopy(cs, l)))
        BY <1>2, <1>9, <2>1
      <3> QED BY <1>5, <2>1, <3>1, <3>2, <3>3, AccountsCopied DEF F
    <2>3. \A x \in Spaces : \A l \in 1 .. Count(h, x) : \A m :
            RefersToCopy(h, x, l, T, m) => RefersToCopy(g, x, l, T, m)
      BY <2>1 DEF RefersToCopy, SameBut
    <2>4. \A m : RefersToCopy(h, F, o, T, m) => RefersToCopy(g, T, c, T, m)
      BY <2>1 DEF RefersToCopy
    <2>5. c \in 1 .. c /\ \A l \in 1 .. Count(h, T) : l \in 1 .. c
      BY <1>3
    <2>6. ASSUME NEW m \in 1 .. Count(h, T)
          PROVE  Reached(g, T, ds, regs, cf, m)
      <3>1. Reached(h, T, cs, regs, cf, m)
        BY DEF AllReached
      <3>2. CASE \E l \in 1 .. Count(h, T) : RefersToCopy(h, T, l, T, m)
        BY <2>1, <2>3, <2>5, <3>2 DEF Reached
      <3>3. CASE \E i \in 1 .. z : Fn(cs, i) = "copy_list_node" /\ RefersToCopy(h, F, Old(cs, i), T, m)
        <4>1. PICK i \in 1 .. z : Fn(cs, i) = "copy_list_node" /\ RefersToCopy(h, F, Old(cs, i), T, m)
          BY <3>3
        <4>2. CASE i = z
          BY <1>4, <2>1, <2>4, <2>5, <4>1, <4>2 DEF Reached
        <4>3. CASE i \in 1 .. y
          BY <1>1, <1>2, <1>4, <2>3, <4>1, <4>3 DEF Reached, SameCall, F, y
        <4> QED BY <1>7, <4>2, <4>3
      <3> QED BY <1>9, <3>1, <3>2, <3>3 DEF Reached, F, z
    <2>7. \A m \in 1 .. c : m = c \/ m \in 1 .. Count(h, T)
      BY <1>3
    <2> HIDE DEF c
    <2> QED BY <2>1, <2>2, <2>6, <2>7 DEF AllReachedBut
  <1> QED BY <1>6, <1>11 DEF ds

=============================================================================
