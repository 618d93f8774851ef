------------------------------ MODULE OwlVmStore ------------------------------
(***************************************************************************)
(* The VM implements OwlStore: the values of its registers, read off the   *)
(* heap through the forward addresses, behave as if there were no heap.    *)
(***************************************************************************)
EXTENDS OwlVm

Val(t, i, ks) == [tag |-> t, id |-> i, kids |-> ks]

\* Where a term points to now, were the collector done with it.
Resolve(t) == IF t.space # Off /\ BlockOf(t).fwd # 0
              THEN Ref(t.tag, 1 - t.space, BlockOf(t).fwd) ELSE t

RECURSIVE Unfold(_), Elements(_)

\* The value a term stands for.
Unfold(t) ==
  LET u == Resolve(t)
      b == BlockOf(u)
  IN  IF u.space = Off
      THEN CASE u.tag = "STRING" -> Val("STRING", 0, <<Val("STRING", u.slot, <<>>)>>)
             [] OTHER            -> Val(u.tag, u.slot, <<>>)
      ELSE CASE b.kind = "STRING" -> Val("STRING", 0, [k \in 1 .. Len(b.kids) |->
                                              Val(b.kids[k].tag, b.kids[k].slot, <<>>)])
             [] b.kind = "RRB"    -> Val("LIST", 0, Elements(b.kids[1]) \o Elements(b.kids[2]))
             [] OTHER             -> Val(u.tag, 0, [k \in 1 .. Len(b.kids) |-> Unfold(b.kids[k])])

\* The elements below a node of an RRB tree, in order.
Elements(n) ==
  LET b == BlockOf(Resolve(n))
  IN  IF n = Null THEN <<>>
      ELSE IF b.kind = "LEAF" THEN [k \in 1 .. Len(b.kids) |-> Unfold(b.kids[k])]
      ELSE LET upTo[k \in 0 .. Len(b.kids) - 1] ==
                 IF k = 0 THEN <<>> ELSE upTo[k - 1] \o Elements(b.kids[k])
           IN  upTo[Len(b.kids) - 1]

FrameValues(i) == [regs |-> [r \in Regs |-> Unfold(registers[i][r])],
                   ret  |-> frames[i].ret]

Store == INSTANCE OwlStore WITH
           Literals <- 1 .. Len(LitLen),
           Modules  <- {Module[f] : f \in Functions},
           stack    <- [k \in 1 .. currentFrame + 1 |-> FrameValues(k - 1)],
           current  <- IF fresh THEN Unfold(currentFunction) ELSE Val("POINTER", 0, <<>>),
           phase    <- CASE status = "collect" -> "collecting"
                         [] status \in {"exit", "die"} -> "stopped"
                         [] OTHER -> "running"

\* The values a program computes are those of a VM without a heap: no step
\* of the collector (alloc.c:156-209) changes the value of any register, and
\* every opcode reads back what was built.
ImplementsStore == Store!Spec
=============================================================================
