-------------------------------- MODULE OwlGc --------------------------------
(***************************************************************************)
(* The copying collector of vm/src/alloc.c, one step per entry to and      *)
(* return from its recursive functions.                                    *)
(*                                                                         *)
(* gc_collect walks the registers of frames 0..current_frame; for each it  *)
(* calls copy, which allocates in to_space, memcpys the payload, visits    *)
(* what the COPY refers to (copy_refs) and only then sets the forward flag *)
(* of the original.  Under a list head, copy_list_node instead visits and  *)
(* updates the children in the ORIGINAL node and copies it last.  `calls'  *)
(* is the C stack of those functions, `scan' the two loop counters of      *)
(* gc_collect.                                                             *)
(***************************************************************************)
EXTENDS OwlHeap

CONSTANTS RegisterCount,   \* REGISTER_COUNT
          StackDepth       \* STACK_DEPTH

ASSUME GcAssumption == /\ RegisterCount \in Nat \ {0}
                       /\ StackDepth \in Nat \ {0}

VARIABLES registers,     \* registers[i][j] is vm->frames[i].registers[j]
          currentFrame,  \* vm->current_frame
          scan,          \* gc_collect's i and j
          calls,         \* activations of copy and copy_list_node, innermost last
          status         \* what the VM is in the middle of

gcVars == <<heap, toSpace, allocPtr, registers, currentFrame, scan, calls, status>>

Frames == 0 .. StackDepth - 1
Regs   == 0 .. RegisterCount - 1

\* boot: main has loaded the program; run: between two opcodes; collect: in
\* gc_collect; load: at load_function; push: in a loop that pushes onto a
\* list; exit: exit() by an opcode; die: die() or a failed assert.
Statuses == {"boot", "run", "collect", "load", "push", "exit", "die"}

\* old: slot of the original; new: slot of its copy (copy only, else 0);
\* next: the child the loop is at.
Activation == [fn : {"copy", "copy_list_node"}, old : Nat, new : Nat, next : Nat]

-----------------------------------------------------------------------------
FromSpace == 1 - toSpace

\* ON_HEAP: the range starts at from_space but is size, not size / 2, long.
OnHeap(t) == t.space = FromSpace \/ (FromSpace = Low /\ t.space = High)

BlockOf(t) == heap[t.space][t.slot]

Forwarded(t) == BlockOf(t).fwd # 0

-----------------------------------------------------------------------------
(* The caller at the top of a stack of activations (gc_collect when there  *)
(* is none) and the place whose term it is replacing.                      *)

Top(cs) == cs[Len(cs)]
Pop(cs) == SubSeq(cs, 1, Len(cs) - 1)

\* Bug: copy_refs is handed the original instead of the copy.
PlaceInOriginal(a) == <<FromSpace, a.old>>

\* The block whose children activation a visits and updates.
Place(a) == IF a.fn = "copy" THEN <<toSpace, a.new>> ELSE <<FromSpace, a.old>>
Home(a)  == heap[Place(a)[1]][Place(a)[2]]

\* Bug: the loops stop one child short.
VisitsButLast(b) == CASE b.kind \in {"STRING", "TABLE"} -> 0
                      [] OTHER -> Len(b.kids) - 1

\* The children its loop visits; a size_table is not visited.
Visits(b) == CASE b.kind \in {"STRING", "TABLE"} -> 0
               [] b.kind = "INTERNAL" -> Len(b.kids) - 1
               [] OTHER -> Len(b.kids)

\* The term the caller is about to replace.
Operand(cs) == IF cs = <<>> THEN registers[scan.i][scan.j]
               ELSE Home(Top(cs)).kids[Top(cs).next]

\* Bug: `<' for `<=' in the loop over the frames.
LoopDoneBeforeTopFrame(cs) == IF cs = <<>> THEN scan.i >= currentFrame
                              ELSE Top(cs).next > Visits(Home(Top(cs)))

LoopDone(cs) == IF cs = <<>> THEN scan.i > currentFrame
                ELSE Top(cs).next > Visits(Home(Top(cs)))

\* The callee is copy_list_node rather than copy.
VisitsNode(cs) == cs # <<>> /\ Home(Top(cs)).kind \in {"RRB", "INTERNAL"}

\* Bug: one register too many.
NextRegisterTooFar == IF scan.j < RegisterCount THEN [scan EXCEPT !.j = @ + 1]
                      ELSE [i |-> scan.i + 1, j |-> 0]

NextRegister == IF scan.j < RegisterCount - 1 THEN [scan EXCEPT !.j = @ + 1]
                ELSE [i |-> scan.i + 1, j |-> 0]

\* A callee returns t to the caller at the top of cs, the heap being h.
Return(h, cs, t) ==
  IF cs = <<>>
  THEN /\ heap' = h
       /\ calls' = cs
       /\ registers' = [registers EXCEPT ![scan.i][scan.j] = t]
       /\ scan' = NextRegister
  ELSE /\ heap' = [h EXCEPT ![Place(Top(cs))[1]][Place(Top(cs))[2]].kids[Top(cs).next] = t]
       /\ calls' = [cs EXCEPT ![Len(cs)].next = @ + 1]
       /\ UNCHANGED <<registers, scan>>

\* Bug: the flag of the original is not set.
ForwardNothing(h, old, new) == h

\* Bug: the address is where alloc_ptr stands, past the children just copied.
ForwardToLast(h, old, new) == [h EXCEPT ![FromSpace][old].fwd = Len(h[toSpace])]

forward(h, old, new) == [h EXCEPT ![FromSpace][old].fwd = new]

-----------------------------------------------------------------------------
Die == /\ status' = "die"
       /\ UNCHANGED <<heap, toSpace, allocPtr, registers, currentFrame, scan, calls>>

\* gc_collect up to its loops.
StartCollect == /\ toSpace' = FromSpace
                /\ allocPtr' = 0
                /\ scan' = [i |-> 0, j |-> 0]
                /\ calls' = <<>>
                /\ status' = "collect"
                /\ UNCHANGED <<heap, registers, currentFrame>>

\* The loops are about to hand a term to copy or copy_list_node.
Visiting == status = "collect" /\ ~LoopDone(calls)

\* A register or child that is null, or a term copy returns as it is.  Unlike
\* copy, copy_list_node takes any node but a null root to be on the heap: the
\* model stops in a deadlock if one is not.
ReturnAsIs ==
  /\ Visiting
  /\ LET t == Operand(calls)
     IN  /\ \/ ~OnHeap(t) /\ (VisitsNode(calls) => t = Null)
            \/ /\ ~VisitsNode(calls)
               /\ OnHeap(t)
               /\ ~Forwarded(t)
               /\ BlockOf(t).kind = "STRING"
               /\ \E s \in CString(t) : heap_size_of("STRING", s.kids, s.len) = 0
         /\ Return(heap, calls, t)
  /\ UNCHANGED <<toSpace, allocPtr, currentFrame, status>>

ReturnForwarded ==
  /\ Visiting
  /\ LET t == Operand(calls)
     IN  /\ OnHeap(t)
         /\ Forwarded(t)
         /\ Return(heap, calls, Ref(t.tag, toSpace, BlockOf(t).fwd))
  /\ UNCHANGED <<toSpace, allocPtr, currentFrame, status>>

\* copy as far as copy_refs.  The overflow check forgets the flag byte.
EnterCopy ==
  /\ Visiting
  /\ ~VisitsNode(calls)
  /\ LET t == Operand(calls)
     IN  /\ OnHeap(t)
         /\ ~Forwarded(t)
         /\ \E s \in IF BlockOf(t).kind = "STRING" THEN CString(t)
                     ELSE {Text(BlockOf(t).kids, 0)} :
              LET size   == heap_size_of(BlockOf(t).kind, s.kids, s.len)
                  copied == [kind |-> BlockOf(t).kind, kids |-> s.kids,
                             len |-> s.len, size |-> size, fwd |-> 0]
              IN  /\ size # 0
                  /\ \/ /\ ~Fits(size)
                        /\ Die
                     \/ /\ Fits(size)
                        /\ owl_alloc(<<copied>>)
                        /\ calls' = Append(calls,
                             [fn |-> "copy", old |-> t.slot,
                              new |-> Len(heap[toSpace]) + 1, next |-> 1])
                        /\ UNCHANGED <<registers, currentFrame, scan, status>>

\* The rest of copy: forward, and return the tagged copy.
LeaveCopy ==
  /\ status = "collect"
  /\ calls # <<>>
  /\ LoopDone(calls)
  /\ Top(calls).fn = "copy"
  /\ LET a == Top(calls)
     IN  Return(forward(heap, a.old, a.new), Pop(calls),
                Ref(Operand(Pop(calls)).tag, toSpace, a.new))
  /\ UNCHANGED <<toSpace, allocPtr, currentFrame, status>>

EnterNode ==
  /\ Visiting
  /\ VisitsNode(calls)
  /\ LET t == Operand(calls)
     IN  /\ OnHeap(t)
         /\ ~Forwarded(t)
         /\ calls' = Append(calls, [fn |-> "copy_list_node", old |-> t.slot,
                                    new |-> 0, next |-> 1])
  /\ UNCHANGED <<heap, toSpace, allocPtr, registers, currentFrame, scan, status>>

\* Bug: a leaf gets no forward address.
BumpLeafUnforwarded(h, o, n) ==
  LET b    == h[FromSpace][o]
      kids == SubSeq(b.kids, 1, n)
      grown == [h EXCEPT ![toSpace] =
                  Append(@, [b EXCEPT !.kids = kids, !.size = BytesOf(b.kind, kids, 0), !.fwd = 0])]
  IN  IF b.kind = "LEAF" THEN grown ELSE forward(grown, o, Len(h[toSpace]) + 1)

\* bump_cpy of the first n children of original o, in the heap h.
bump_cpy(h, o, n) ==
  LET b    == h[FromSpace][o]
      kids == SubSeq(b.kids, 1, n)
  IN  forward([h EXCEPT ![toSpace] =
                 Append(@, [b EXCEPT !.kids = kids, !.size = BytesOf(b.kind, kids, 0), !.fwd = 0])],
              o, Len(h[toSpace]) + 1)

HasTable(b) == b.kind = "INTERNAL" /\ b.kids[Len(b.kids)] # Null

\* Bug: as many bytes as there are entries, of four bytes each, are copied.
EntriesAsBytes(node) == (Len(node.kids) - 1) \div 4

\* internal->len: of a size_table longer than its node, the rest is left behind.
EntriesCopied(node) == Len(node.kids) - 1

\* Bug: the copy of the node keeps the size_table of the original.
TableLeftBehind(o) ==
  LET node == heap[FromSpace][o]
  IN  bump_cpy(heap, node.kids[Len(node.kids)].slot, EntriesCopied(node))

\* The size_table is bumped without a look at its forward flag.
CopyTable(o) ==
  LET node  == heap[FromSpace][o]
      table == node.kids[Len(node.kids)]
  IN  [bump_cpy(heap, table.slot, EntriesCopied(node)) EXCEPT
         ![FromSpace][o].kids[Len(node.kids)] = Fresh("NODE", 1)]

\* The rest of copy_list_node: copy the size_table, then the node itself.
LeaveNode ==
  /\ status = "collect"
  /\ calls # <<>>
  /\ LoopDone(calls)
  /\ Top(calls).fn = "copy_list_node"
  /\ LET o        == Top(calls).old
         node     == heap[FromSpace][o]
         withTab  == IF HasTable(node) THEN CopyTable(o) ELSE heap
         tabBytes == IF HasTable(node)
                     THEN withTab[toSpace][Len(withTab[toSpace])].size + 1 ELSE 0
         bytes    == tabBytes + BytesOf(node.kind, node.kids, 0) + 1
     IN  \/ /\ ~Fits(bytes)
            /\ Die
         \/ /\ Fits(bytes)
            /\ allocPtr' = allocPtr + bytes
            /\ Return(bump_cpy(withTab, o, Len(node.kids)), Pop(calls),
                      Ref("NODE", toSpace, Len(withTab[toSpace]) + 1))
            /\ UNCHANGED <<toSpace, currentFrame, status>>

\* gc_collect returns.  The originals are left where they are; nothing reads
\* them again, so the model drops them here.
EndCollect(next) ==
  /\ status = "collect"
  /\ calls = <<>>
  /\ LoopDone(calls)
  /\ heap' = [heap EXCEPT ![FromSpace] = <<>>]
  /\ status' = next
  /\ scan' = [i |-> 0, j |-> 0]
  /\ UNCHANGED <<toSpace, allocPtr, currentFrame, calls>>

CollectStep == \/ ReturnAsIs
               \/ ReturnForwarded
               \/ EnterCopy
               \/ LeaveCopy
               \/ EnterNode
               \/ LeaveNode

-----------------------------------------------------------------------------
GcTypeOK == /\ HeapTypeOK
            /\ registers \in [Frames -> [Regs -> Term]]
            /\ currentFrame \in Frames
            /\ scan \in [i : Nat, j : Regs]
            /\ calls \in Seq(Activation)
            /\ status \in Statuses

Slots(s) == 1 .. Len(heap[s])

TagOf(kind) == CASE kind = "RRB" -> "LIST"
                 [] kind \in {"LEAF", "INTERNAL", "TABLE"} -> "NODE"
                 [] OTHER -> kind

\* t is not a heap pointer, or the address of a block of its type in s.
PointsInto(t, s) == \/ t.space = Off
                    \/ /\ t.space = s
                       /\ t.slot \in Slots(s)
                       /\ TagOf(heap[s][t.slot].kind) = t.tag

\* Outside a collection nothing points out of to_space: not a register of a
\* frame in use, which is all gc_collect looks at (alloc.c:201-208), and not a
\* block, live or dead.  A collection that dies never ends.
HeapClosed ==
  status \notin {"collect", "die"} =>
    /\ \A i \in 0 .. currentFrame, j \in Regs : PointsInto(registers[i][j], toSpace)
    /\ \A k \in Slots(toSpace) :
         \A n \in 1 .. Len(heap[toSpace][k].kids) :
           PointsInto(heap[toSpace][k].kids[n], toSpace)

\* A forwarded original leads to a copy of the same type, and two originals
\* never to the same copy (alloc.c:40-44, 80-89, 163-182).
ForwardSound ==
  status = "collect" =>
    LET moved == {k \in Slots(FromSpace) : heap[FromSpace][k].fwd # 0}
    IN  \A k \in moved :
          /\ heap[FromSpace][k].fwd \in Slots(toSpace)
          /\ heap[toSpace][heap[FromSpace][k].fwd].kind = heap[FromSpace][k].kind
          /\ \A l \in moved \ {k} : heap[FromSpace][k].fwd # heap[FromSpace][l].fwd

\* When gc_collect has visited every register, what it copied is exactly what
\* can be reached: each block of to_space is referred to by a register of a
\* frame in use or by another such block, so nothing dead was kept and nothing
\* was copied twice (alloc.c:156-209).
NoGarbage ==
  status = "collect" /\ calls = <<>> /\ LoopDone(calls) =>
    \A k \in Slots(toSpace) :
      \/ \E i \in 0 .. currentFrame, j \in Regs :
           registers[i][j].space = toSpace /\ registers[i][j].slot = k
      \/ \E l \in Slots(toSpace) : \E n \in 1 .. Len(heap[toSpace][l].kids) :
           /\ heap[toSpace][l].kids[n].space = toSpace
           /\ heap[toSpace][l].kids[n].slot = k

\* alloc_ptr stays in its half-space, although copy's own overflow check
\* (alloc.c:174-177) leaves out the flag byte it then adds: what is copied was
\* allocated once and cannot have grown.
HeapFits == allocPtr <= HalfSize

\* A collection never runs out of memory (alloc.c:34-38 is never reached from
\* copy or bump_cpy), since the live part of a half-space fits a half-space.
CollectFits == [][status = "collect" => status' # "die"]_gcVars
-----------------------------------------------------------------------------
(* What the VM holds, named by the originals: a reference to a copy is one *)
(* to its original, and an original is what its copy is once it has one.   *)

\* The half-space of the originals, or of all there is between collections.
OriginSpace == IF status = "collect" THEN FromSpace ELSE toSpace

\* The copies of original k, also one that copy is still in.
Copies(k) ==
  {c \in Slots(1 - OriginSpace) :
     \/ heap[OriginSpace][k].fwd = c
     \/ \E i \in 1 .. Len(calls) :
          calls[i].fn = "copy" /\ calls[i].old = k /\ calls[i].new = c}

\* What t refers to.
Original(t) ==
  [tag   |-> t.tag,
   space |-> IF t.space = Off THEN Off ELSE OriginSpace,
   slots |-> IF t.space = 1 - OriginSpace
             THEN {k \in Slots(OriginSpace) : t.slot \in Copies(k)} ELSE {t.slot}]

Content(b) == [kind |-> b.kind, kids |-> [n \in 1 .. Len(b.kids) |-> Original(b.kids[n])]]

Graph ==
  [k \in Slots(OriginSpace) |->
     IF Copies(k) = {} THEN {Content(heap[OriginSpace][k])}
     ELSE {Content(heap[1 - OriginSpace][c]) : c \in Copies(k)}]

Roots == [i \in 0 .. currentFrame |-> [j \in Regs |-> Original(registers[i][j])]]

\* No step that begins or continues a collection changes what a program can
\* see: the registers and the blocks stay the same graph of values, with the
\* same sharing, although copy updates copies, copy_list_node originals, and
\* every step in between leaves references into both half-spaces
\* (alloc.c:47-209).
CollectKeepsGraph ==
  [][status' = "collect" => Graph' = Graph /\ Roots' = Roots]_gcVars
=============================================================================
