-------------------------------- MODULE OwlVm --------------------------------
(***************************************************************************)
(* The Owl VM: the stack of frames, the opcodes that move, build and read  *)
(* owl_terms, calls, closures and their upvalues, the lazy loading of      *)
(* modules, and the two places a collection starts from (op_call's         *)
(* safepoint and OP_GC_COLLECT).  vm/src/opcodes.c, vm/src/vm.c and the    *)
(* parts of vm/src/std they call.                                          *)
(*                                                                         *)
(* The program is any sequence of opcodes the compiler can emit: registers *)
(* as operands everywhere, upvalues only where it emits them (OP_MOV, the  *)
(* callee of OP_CALL_LOCAL, the captures of OP_ANON_FN).  An opcode that   *)
(* cannot allocate in a loop, load code or collect is one step; the others *)
(* leave `pending' behind and go through `status'.                         *)
(***************************************************************************)
EXTENDS OwlGc

CONSTANTS Opcodes,       \* the opcodes the program is made of
          Branching,     \* RRB_BRANCHING
          Functions,     \* ids of the named functions; 1 is the entry function
          Module,        \* Module[f]: the functions of the module that defines f
          Immediates,    \* the integers the program stores
          MaxArgs,       \* the most operands of one opcode
          Arities,       \* the numbers of arguments, elements, captures in use
          TextLengths,   \* the lengths of the texts the program makes as it runs
          PathMax,       \* PATH_MAX
          ClosureReads   \* "fresh": closures read upvalues only before they
                         \* call or collect; "anytime": no such restriction

\* The bit that makes an operand an upvalue.
UpvalueFlag == 128

ASSUME VmAssumption ==
  /\ RegisterCount <= UpvalueFlag
  /\ Branching \in Nat \ {0}
  /\ Functions \subseteq Nat /\ 1 \in Functions
  /\ Module \in [Functions -> Seq(Functions)]
  /\ \A f \in Functions : Len(Module[f]) <= 3 * Branching
  /\ Immediates \subseteq Nat
  /\ MaxArgs \in Nat /\ MaxArgs <= 3 * Branching
  /\ Arities \subseteq 0 .. MaxArgs
  /\ TextLengths \subseteq Nat
  /\ PathMax \in Nat
  /\ StackDepth > 1
  /\ ClosureReads \in {"fresh", "anytime"}

VARIABLES frames,           \* ret_register and function of each frame
          currentFunction,  \* vm->current_function
          fresh,            \* the running function neither called nor collected yet
          pending,          \* the opcode in progress, when status is not "run"
          loaded            \* the functions with an entry in vm->functions

vmVars == <<frames, currentFunction, fresh, pending, loaded>>
vars   == <<gcVars, vmVars>>

\* upvals is the number of upvalues the code that runs in the frame captures.
Link == [ret : Regs, fun : Term, upvals : Nat]

\* todo: the elements still to push onto list, for file_ls the names of those
\* that have no text of their own yet; before: usage_before.
Pending == [op : {"none", "boot", "call", "capture", "list", "file_ls", "code_load",
                  "gc_collect"},
            ret : Regs, fn : Functions, args : Seq(Regs),
            todo : Seq(Term), list : Term, before : Nat]

Idle == [op |-> "none", ret |-> 0, fn |-> 1, args |-> <<>>,
         todo |-> <<>>, list |-> EmptyList, before |-> 0]

Cleared == [r \in Regs |-> Null]
NoLink  == [ret |-> 0, fun |-> Null, upvals |-> 0]

Names(fs) == [k \in 1 .. Len(fs) |-> Named(fs[k])]

-----------------------------------------------------------------------------
(* Operands *)

Operands    == Regs \cup {UpvalueFlag + k : k \in 0 .. MaxArgs - 1}

ArgLists(S) == UNION {[1 .. n -> S] : n \in Arities}

\* A callee has a register for each of its parameters.
CallArgs == {args \in ArgLists(Regs) : Len(args) < RegisterCount}

get_var(o) == IF o >= UpvalueFlag
              THEN BlockOf(currentFunction).kids[o - UpvalueFlag + 1]
              ELSE registers[currentFrame][o]

\* The operands compiled code can name in the running function.
Readable(o) == \/ o \in Regs
               \/ /\ o - UpvalueFlag < frames[currentFrame].upvals
                  /\ ClosureReads = "fresh" => fresh

Vals(os) == [k \in 1 .. Len(os) |-> get_var(os[k])]

\* Frame 0 runs nothing but the entry call and OP_EXIT.
Runs(op) == status = "run" /\ currentFrame > 0 /\ op \in Opcodes

set_reg(r, t) == registers' = [registers EXCEPT ![currentFrame][r] = t]

\* An opcode that allocates blocks bs and sets r to t, or dies of the lack
\* of memory.
Build(bs, r, t) == \/ /\ ~Fits(Bytes(bs))
                      /\ Die
                   \/ /\ Fits(Bytes(bs))
                      /\ owl_alloc(bs)
                      /\ set_reg(r, t)
                      /\ UNCHANGED <<currentFrame, scan, calls, status>>

Stop(s) == /\ status' = s
           /\ UNCHANGED <<heap, toSpace, allocPtr, registers, currentFrame, scan, calls>>

\* An opcode that only sets a register.
SetsOnly(r, t) == /\ set_reg(r, t)
                  /\ UNCHANGED <<heap, toSpace, allocPtr, currentFrame, scan, calls, status>>
                  /\ UNCHANGED vmVars

-----------------------------------------------------------------------------
(* Opcodes of one step *)

\* OP_STORE_INT, OP_STORE_TRUE, OP_STORE_FALSE, OP_STORE_NIL, OP_LOAD_STRING,
\* and those that compute such a term: OP_ADD, OP_SUB, OP_EQ, OP_NOT, OP_LIST_COUNT,
\* OP_STRING_COUNT, OP_STRING_CONTAINS, OP_FUNCTION_NAME...
op_store(r, t) == Runs("store") /\ SetsOnly(r, t)

op_mov(r, o) == Runs("mov") /\ Readable(o) /\ SetsOnly(r, get_var(o))

op_tuple(r, os) ==
  /\ Runs("tuple")
  /\ Build(<<NewBlock("TUPLE", Vals(os), 0)>>, r, Fresh("TUPLE", 1))
  /\ UNCHANGED vmVars

\* index is what the index register holds; past the end the result is nil.
op_tuple_nth(r, o, index) ==
  /\ Runs("tuple_nth")
  /\ get_var(o).tag = "TUPLE"
  /\ LET b == BlockOf(get_var(o))
     IN  SetsOnly(r, IF index < Len(b.kids) THEN b.kids[index + 1] ELSE Nil)

\* The elements below a node, which is a leaf or has two leaves (see PushBlocks).
Below(node) == IF node = Null THEN <<>>
               ELSE IF BlockOf(node).kind = "LEAF" THEN BlockOf(node).kids
               ELSE BlockOf(BlockOf(node).kids[1]).kids \o BlockOf(BlockOf(node).kids[2]).kids

\* What rrb_nth finds for the indices 0, 1, ...
ListElems(t) == IF t.space = Off THEN <<>>
                ELSE Below(BlockOf(t).kids[1]) \o Below(BlockOf(t).kids[2])

\* An element that is NULL, a register nothing was stored in, counts as none.
Nth(es, index) == IF index < Len(es) /\ es[index + 1] # Null THEN es[index + 1] ELSE Nil

op_list_nth(r, o, index) ==
  /\ Runs("list_nth")
  /\ get_var(o).tag = "LIST"
  /\ SetsOnly(r, Nth(ListElems(get_var(o)), index))

\* An opcode that makes a text of len characters in a buffer of that many bytes.
MakeText(r, pieces, len, bytes) ==
  /\ len \in TextLengths
  /\ Build(<<[NewBlock("STRING", pieces, len) EXCEPT !.size = align(bytes)]>>, r,
           Fresh("STRING", 1))

\* Bug: strcat for strcpy, behind what the memory held.
JoinAppended(s1, s2) == Text(s1.kids \o <<Junk>> \o s2.kids, s1.len + s2.len)

Join(s1, s2) == Text(s1.kids \o s2.kids, s1.len + s2.len)

\* owl_concat, for anything but two lists.
op_concat(r, o1, o2) ==
  /\ Runs("concat")
  /\ LET left  == get_var(o1)
         right == get_var(o2)
     IN  /\ ~(left.tag = "LIST" /\ right.tag = "LIST")
         /\ IF left.tag = "STRING" /\ right.tag = "STRING"
            THEN \E s1 \in CString(left), s2 \in CString(right) :
                   LET s == Join(s1, s2)
                   IN  MakeText(r, s.kids, s.len, s.len + 1)
            ELSE Stop("exit")
  /\ UNCHANGED vmVars

\* n characters of the text, from its pieces a to b; from is not negative.
op_string_slice(r, o) ==
  /\ Runs("string_slice")
  /\ get_var(o).tag = "STRING"
  /\ \/ Stop("exit")
     \/ \E s \in CString(get_var(o)) :
          \E a \in 1 .. Len(s.kids) : \E b \in a .. Len(s.kids) : \E n \in b - a + 1 .. s.len :
            MakeText(r, SubSeq(s.kids, a, b), n, n + 1)
  /\ UNCHANGED vmVars

INT_MAX_DIGITS == 20

\* Of an integer.  A text is returned as it is (op_mov), nil, a boolean and a
\* function have literals (op_store), and the text of a tuple or list is put
\* together as by op_tuple_nth or op_list_nth, op_to_string and op_concat in turn.
op_to_string(r, o) ==
  /\ Runs("to_string")
  /\ get_var(o).tag = "INT"
  /\ \E n \in 1 .. INT_MAX_DIGITS : MakeText(r, <<get_var(o)>>, n, INT_MAX_DIGITS + 1)
  /\ UNCHANGED vmVars

\* The path is as long as one of the literals, or getcwd would fail.
op_file_pwd(r) ==
  /\ Runs("file_pwd")
  /\ \E k \in 1 .. Len(LitLen) : /\ LitLen[k] < PathMax
                                /\ MakeText(r, <<Literal(k)>>, LitLen[k], PathMax)
  /\ UNCHANGED vmVars

op_anon_fn(r, os) ==
  /\ Runs("anon_fn")
  /\ \A k \in 1 .. Len(os) : Readable(os[k])
  /\ Build(<<NewBlock("FUNCTION", Vals(os), 0)>>, r, Fresh("FUNCTION", 1))
  /\ UNCHANGED vmVars

op_exit == status = "run" /\ Stop("exit") /\ UNCHANGED vmVars

-----------------------------------------------------------------------------
(* Frames *)

\* Bug: the arguments start at register 0.
ArgumentsFromZero(rs, args) ==
  [r \in Regs |-> IF r < Len(args) THEN registers[currentFrame][args[r + 1]] ELSE rs[r]]

\* The registers rs of the next frame with the arguments in 1, 2, ...
Arguments(rs, args) ==
  [r \in Regs |-> IF r \in 1 .. Len(args) THEN registers[currentFrame][args[r]] ELSE rs[r]]

\* From the assignment to vm->current_function to the new frame.
setup_next_stackframe(fun, upvals, args, ret) ==
  IF currentFrame + 1 < StackDepth
  THEN /\ currentFrame' = currentFrame + 1
       /\ registers' = [registers EXCEPT ![currentFrame + 1] = Arguments(@, args)]
       /\ frames' = [frames EXCEPT ![currentFrame + 1] =
                       [ret |-> ret, fun |-> fun, upvals |-> upvals]]
       /\ currentFunction' = fun
       /\ fresh' = TRUE
       /\ pending' = Idle
       /\ status' = "run"
       /\ UNCHANGED <<heap, toSpace, allocPtr, scan, calls, loaded>>
  ELSE Die /\ UNCHANGED vmVars

op_call_local(r, o, args) ==
  /\ Runs("call_local")
  /\ Readable(o)
  /\ LET fun == get_var(o)
     IN  IF fun.tag # "FUNCTION" THEN Stop("exit") /\ UNCHANGED vmVars
         ELSE setup_next_stackframe(fun,
                IF fun.space = Off THEN 0 ELSE Len(BlockOf(fun).kids), args, r)

\* Bug: no memset.
LeaveRegisters(rs) == rs

\* The memset of the registers rs of the frame that returns.
ClearRegisters(rs) == Cleared

\* current_function stays what it was.  The next call overwrites the whole
\* link of the frame, so the model drops it already here.
op_return ==
  /\ Runs("return")
  /\ registers' = [registers EXCEPT
       ![currentFrame - 1][frames[currentFrame].ret] = registers[currentFrame][0],
       ![currentFrame] = ClearRegisters(@)]
  /\ frames' = [frames EXCEPT ![currentFrame] = NoLink]
  /\ currentFrame' = currentFrame - 1
  /\ fresh' = FALSE
  /\ UNCHANGED <<heap, toSpace, allocPtr, scan, calls, status,
                 currentFunction, pending, loaded>>

-----------------------------------------------------------------------------
(* op_call, op_capture, op_list and op_gc_collect, and main *)

\* gc_safepoint: BUFFER_PERCENT of the half-space should be free.
Buffer        == (HalfSize * 10) \div 100
NeedsCollect  == allocPtr + Buffer > HalfSize

Call(r, f, args) ==
  /\ pending' = [Idle EXCEPT !.op = "call", !.ret = r, !.fn = f, !.args = args]
  /\ IF NeedsCollect THEN StartCollect /\ fresh' = FALSE
     ELSE Stop("load") /\ UNCHANGED fresh
  /\ UNCHANGED <<frames, currentFunction, loaded>>

op_call(r, f, args) == Runs("call") /\ Call(r, f, args)

\* The code it appends calls the entry function from frame 0.
vm_run_function ==
  /\ status = "boot"
  /\ IF 1 \in loaded THEN Call(0, 1, <<>>) ELSE Stop("exit") /\ UNCHANGED vmVars

op_capture(r, f) ==
  /\ Runs("capture")
  /\ pending' = [Idle EXCEPT !.op = "capture", !.ret = r, !.fn = f]
  /\ Stop("load")
  /\ UNCHANGED <<frames, currentFunction, fresh, loaded>>

op_list(r, os) ==
  /\ Runs("list")
  /\ pending' = [Idle EXCEPT !.op = "list", !.ret = r, !.todo = Vals(os)]
  /\ Stop("push")
  /\ UNCHANGED <<frames, currentFunction, fresh, loaded>>

\* The names are what readdir finds, if the directory can be opened.
op_file_ls(r, o) ==
  /\ Runs("file_ls")
  /\ get_var(o).tag = "STRING"
  /\ \E names \in {<<>>} \cup ArgLists({k \in 1 .. Len(LitLen) : LitLen[k] \in TextLengths}) :
       pending' = [Idle EXCEPT !.op = "file_ls", !.ret = r,
                               !.todo = [n \in 1 .. Len(names) |-> Literal(names[n])]]
  /\ Stop("push")
  /\ UNCHANGED <<frames, currentFunction, fresh, loaded>>

\* The file is the one of the module that defines f.
op_code_load(r, o, f) ==
  /\ Runs("code_load")
  /\ get_var(o).tag = "STRING"
  /\ pending' = [Idle EXCEPT !.op = "code_load", !.ret = r, !.fn = f,
                             !.todo = Names(Module[f])]
  /\ Stop("push")
  /\ UNCHANGED <<frames, currentFunction, fresh, loaded>>

op_gc_collect(r) ==
  /\ Runs("gc_collect")
  /\ pending' = [Idle EXCEPT !.op = "gc_collect", !.ret = r, !.before = allocPtr]
  /\ StartCollect
  /\ fresh' = FALSE
  /\ UNCHANGED <<frames, currentFunction, loaded>>

\* The rest of op_gc_collect.  The number of bytes is abstracted to 0; the
\* unsigned difference wraps around, here to 1, if the usage grew.
AfterCollect ==
  /\ pending.op = "gc_collect"
  /\ EndCollect("run")
  /\ set_reg(pending.ret, Immediate(IF allocPtr <= pending.before THEN 0 ELSE 1))
  /\ pending' = Idle
  /\ UNCHANGED <<frames, currentFunction, fresh, loaded>>

\* gc_safepoint returns to op_call.
AfterSafepoint ==
  /\ pending.op = "call"
  /\ EndCollect("load")
  /\ UNCHANGED registers
  /\ UNCHANGED vmVars

\* load_function finds no entry and loads the module, whose function list
\* is built on the heap and thrown away.
load_function_miss ==
  /\ status = "load"
  /\ pending.fn \notin loaded
  /\ pending' = [pending EXCEPT !.todo = Names(Module[pending.fn])]
  /\ Stop("push")
  /\ UNCHANGED <<frames, currentFunction, fresh, loaded>>

\* load_function returns to op_call or op_capture.
load_function_hit ==
  /\ status = "load"
  /\ pending.fn \in loaded
  /\ \/ /\ pending.op = "call"
        /\ setup_next_stackframe(Named(pending.fn), 0, pending.args, pending.ret)
     \/ /\ pending.op = "capture"
        /\ set_reg(pending.ret, Named(pending.fn))
        /\ pending' = Idle
        /\ status' = "run"
        /\ UNCHANGED <<heap, toSpace, allocPtr, currentFrame, scan, calls,
                       frames, currentFunction, fresh, loaded>>

-----------------------------------------------------------------------------
(* rrb_push: the head of the new list comes first, then its tail; a full   *)
(* tail goes down into the tree.  Only lists of up to 3 * Branching        *)
(* elements are built here, whose tree has at most one internal node.      *)

\* Bug: a tree that is there already is kept as it is.
GrownNot(root, tail) == IF root = Null THEN tail ELSE root

\* The root of the new list when the full tail went down.
Grown(root, tail) == IF root = Null THEN tail ELSE Fresh("NODE", 3)

PushBlocks(list, elem) ==
  LET rrb  == BlockOf(list)
      root == rrb.kids[1]
      tail == rrb.kids[2]
      head(rt) == NewBlock("RRB", <<rt, Fresh("NODE", 2)>>, 0)
      leaf(es) == NewBlock("LEAF", es, 0)
  IN  IF list = EmptyList THEN <<head(Null), leaf(<<elem>>)>>
      ELSE IF Len(BlockOf(tail).kids) < Branching
      THEN <<head(root), leaf(Append(BlockOf(tail).kids, elem))>>
      ELSE IF root = Null THEN <<head(Grown(root, tail)), leaf(<<elem>>)>>
      ELSE <<head(Grown(root, tail)), leaf(<<elem>>),
             NewBlock("INTERNAL", <<root, tail, Null>>, 0)>>

\* The next name has no text on the heap yet.
Unread == pending.op = "file_ls" /\ pending.todo # <<>> /\ Head(pending.todo).space = Off

\* owl_file_ls: the text of the next entry.
ReadEntry ==
  /\ status = "push"
  /\ Unread
  /\ LET name == Head(pending.todo)
         bs   == <<NewBlock("STRING", <<name>>, LitLen[name.slot])>>
     IN  \/ /\ ~Fits(Bytes(bs))
            /\ Die
            /\ UNCHANGED pending
         \/ /\ Fits(Bytes(bs))
            /\ owl_alloc(bs)
            /\ pending' = [pending EXCEPT !.todo[1] = Fresh("STRING", 1)]
            /\ UNCHANGED <<registers, currentFrame, scan, calls, status>>
  /\ UNCHANGED <<frames, currentFunction, fresh, loaded>>

owl_list_push ==
  /\ status = "push"
  /\ pending.todo # <<>>
  /\ ~Unread
  /\ LET bs == PushBlocks(pending.list, Head(pending.todo))
     IN  \/ /\ ~Fits(Bytes(bs))
            /\ Die
            /\ UNCHANGED pending
         \/ /\ Fits(Bytes(bs))
            /\ owl_alloc(bs)
            /\ pending' = [pending EXCEPT !.todo = Tail(@), !.list = Fresh("LIST", 1)]
            /\ UNCHANGED <<registers, currentFrame, scan, calls, status>>
  /\ UNCHANGED <<frames, currentFunction, fresh, loaded>>

\* The functions of the module of f have an entry.
Defines(f) == loaded' = loaded \cup {Module[f][k] : k \in 1 .. Len(Module[f])}

\* The rest of op_list, op_file_ls and op_code_load.
ListDone ==
  /\ status = "push"
  /\ pending.todo = <<>>
  /\ pending.op \in {"list", "file_ls", "code_load"}
  /\ set_reg(pending.ret, pending.list)
  /\ pending' = Idle
  /\ status' = "run"
  /\ IF pending.op = "code_load" THEN Defines(pending.fn) ELSE UNCHANGED loaded
  /\ UNCHANGED <<heap, toSpace, allocPtr, currentFrame, scan, calls,
                 frames, currentFunction, fresh>>

\* Bug: a function the module does not define is looked up again.
AfterLoadUnchecked(f, fs) == "load"

\* load_function checks for an entry again, and gives up.
AfterLoad(f, fs) == IF f \in fs THEN "load" ELSE "exit"

\* The rest of owl_load_module, back in load_function or in main.
ModuleDone ==
  /\ status = "push"
  /\ pending.todo = <<>>
  /\ pending.op \in {"boot", "call", "capture"}
  /\ Defines(pending.fn)
  /\ pending' = [pending EXCEPT !.list = EmptyList]
  /\ Stop(IF pending.op = "boot" THEN "boot"
          ELSE AfterLoad(pending.fn, loaded'))
  /\ UNCHANGED <<frames, currentFunction, fresh>>

-----------------------------------------------------------------------------
Init == /\ heap = [s \in Spaces |-> <<>>]
        /\ toSpace = Low
        /\ allocPtr = 0
        /\ registers = [i \in Frames |-> Cleared]
        /\ currentFrame = 0
        /\ scan = [i |-> 0, j |-> 0]
        /\ calls = <<>>
        /\ status = "push"
        /\ frames = [i \in Frames |-> NoLink]
        /\ currentFunction = Null
        /\ fresh = FALSE
        /\ pending = [Idle EXCEPT !.op = "boot", !.todo = Names(Module[1])]
        /\ loaded = {}

Opcode == \/ \E r \in Regs :
               \/ \E i \in Immediates : op_store(r, Immediate(i))
               \/ \E k \in 1 .. Len(LitLen) : op_store(r, Literal(k))
               \/ \E o \in Operands : op_mov(r, o)
               \/ \E os \in ArgLists(Regs) : op_tuple(r, os)
               \/ \E o \in Regs, index \in 0 .. MaxArgs : op_tuple_nth(r, o, index)
               \/ \E o \in Regs, index \in 0 .. 3 * Branching : op_list_nth(r, o, index)
               \/ \E o1, o2 \in Regs : op_concat(r, o1, o2)
               \/ \E o \in Regs : op_string_slice(r, o)
               \/ \E o \in Regs : op_to_string(r, o)
               \/ op_file_pwd(r)
               \/ \E os \in ArgLists(Operands) : op_anon_fn(r, os)
               \/ \E o \in Operands, args \in CallArgs : op_call_local(r, o, args)
               \/ \E f \in Functions, args \in CallArgs : op_call(r, f, args)
               \/ \E f \in Functions : op_capture(r, f)
               \/ \E os \in ArgLists(Regs) : op_list(r, os)
               \/ \E o \in Regs : op_file_ls(r, o)
               \/ \E o \in Regs, f \in Functions : op_code_load(r, o, f)
               \/ op_gc_collect(r)
          \/ op_return
          \/ op_exit

Within == \/ vm_run_function
          \/ load_function_miss
          \/ load_function_hit
          \/ ReadEntry
          \/ owl_list_push
          \/ ListDone
          \/ ModuleDone
          \/ AfterCollect
          \/ AfterSafepoint
          \/ CollectStep /\ UNCHANGED vmVars

\* The process is gone; without this step every run would end in a deadlock.
Stopped == status \in {"exit", "die"} /\ UNCHANGED vars

Next == Opcode \/ Within \/ Stopped

\* vm_run never waits: what is in progress goes on.
Spec == Init /\ [][Next]_vars /\ WF_vars(Within)

-----------------------------------------------------------------------------
TypeOK == /\ GcTypeOK
          /\ frames \in [Frames -> Link]
          /\ currentFunction \in Term
          /\ fresh \in BOOLEAN
          /\ pending \in Pending
          /\ loaded \subseteq Functions

\* The registers of every frame above the current one are null: gc_collect
\* does not update them (alloc.c:201), so a callee that found an old term in a
\* register it has not set would hold a dangling pointer (opcodes.c:74-77, 187).
CleanAbove == \A i \in Frames : i > currentFrame => registers[i] = Cleared

\* Compiled code in a frame reads the upvalues of the function the frame runs:
\* vm->current_function is that function (opcodes.c:37-45).
RunsOwnUpvalues ==
  status = "run" /\ frames[currentFrame].upvals > 0 =>
    currentFunction = frames[currentFrame].fun

\* A collection by OP_GC_COLLECT never uses more of to_space than was in use before,
\* so that usage_before - usage_after does not wrap around (opcodes.c:538-541): a
\* block that many others share is copied once, and to no larger one.
UsageNeverGrows ==
  status = "collect" /\ pending.op = "gc_collect" => allocPtr <= pending.before

\* No string is read with bytes that are not its own: what owl_string_concat
\* joined is what strlen finds (owl_string.c:32-43), across collections.
StringsIntact ==
  \A k \in Slots(toSpace) : \A n \in 1 .. Len(heap[toSpace][k].kids) :
    heap[toSpace][k].kids[n] # Junk

\* Every opcode comes to an end: a collection, the loading of a module, a loop
\* of pushes do not go on for ever (opcodes.c:163-178, 230-244, 534-546).
OpcodeEnds == status \in {"collect", "load", "push"} ~> status \in {"run", "boot", "exit", "die"}
=============================================================================
