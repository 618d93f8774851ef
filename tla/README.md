# A verification of the Owl virtual machine

Owl is a small functional language. A compiler in Rust (`compiler/`) turns a
module into bytecode; a virtual machine in C (`vm/`) loads the bytecode, runs it,
and manages memory with a copying collector. This directory holds TLA+ modules
that model both, TLC configurations that check them on small instances, and
TLAPS proofs.

## 1. The system

| Part | Source | State it keeps | Operations |
|---|---|---|---|
| Memory and collector | `vm/src/alloc.c`, `gc_init` in `vm/src/vm.c` | two half-spaces, `alloc_ptr`, a forward flag and address in each block | `owl_alloc`, `gc_safepoint`, `gc_collect` (`copy`, `copy_refs`, `copy_list_node`, `bump_cpy`, `forward`) |
| Interpreter | `vm/src/opcodes.c`, `vm/src/vm.c`, `vm/src/owl.h` | 300 frames of 100 registers, `current_frame`, `current_function`, `ip` | one C function per opcode, called from the loop of `vm_run` |
| Closures | `vm/src/std/owl_function.c` | `Function` blocks: `malloc`'d for named functions, on the heap for anonymous ones, with upvalues | `OP_ANON_FN`, `OP_CAPTURE`, `OP_CALL_LOCAL`, upvalue operands |
| Module loader | `vm/src/std/owl_code.c`, `vm/src/vm.c:55-117`, `vm/src/main.c` | `functions[]`, `code[]`, interned names | `load_function` loads a module at the first call or capture of one of its functions |
| Lists | `vm/src/std/owl_list.c` | RRB trees with a tail and optional size tables, on the heap, persistent | push, nth, concat, slice, count, eq |
| Strings | `vm/src/std/owl_string.c` | C strings, interned or on the heap | concat, slice, count, contains |
| Terms | `vm/src/term.c`, `vm/src/term.h` | 64-bit words with a 3-bit tag | equality, conversion, printing, `owl_tuple_nth`, `owl_concat` |
| Files | `vm/src/std/owl_file.c` | none | `getcwd`, `readdir` |
| Parser | `compiler/src/parser.rs`, `ast.rs` | none | text to syntax tree |
| Bytecode generator | `compiler/src/bytecode/` | per function: register counter, environment, upvalues | syntax tree to instructions to bytes |
| Driver, FFI | `compiler/src/compiler.rs`, `main.rs`, `lib.rs` | none | files and memory in and out |
| Library, tests | `stdlib/*.owl`, `test_cases/*.owl` | none | programs of the machine |
| Interning | `vm/lib/intern`, a submodule that is not in this repository | string to id | external |

The machine is one thread. The parts interact by calls, over shared memory:
every opcode reads and writes the frames; those that build a term call
`owl_alloc`; `op_call` may collect and may load a module before it makes a
frame; loading a module pushes onto a list, which allocates. What is hard in
it is therefore not concurrency but *protocol*: which of these steps may follow
which, and what each must leave true for the next. In particular

* a collection moves everything, so a pointer kept anywhere but in the registers
  of a frame in use is stale after it (`current_function`, registers above
  `current_frame`, C locals);
* the collector itself is a deep recursion that updates copies in one place
  (`copy_refs`) and originals in the other (`copy_list_node`), over a graph with
  sharing, and the forward address overwrites the first word of the original;
* sizes are computed twice, by the code that allocates and by `heap_size_of`;
* memory can run out at any allocation, and then the process ends.

`PROJECT.json` lists these hazards at their lines, with the properties that cover
them.

### What makes each part correct

* Collector: it copies what can be reached, exactly once; nothing points out of
  the half-space in use afterwards; it never runs out of memory; it ends. To a
  program it does not exist.
* Interpreter: a program sees its own values; a call starts with its arguments
  and nothing else; a closure reads its own upvalues; each opcode ends.
* Loader: a call goes to the function of that name, or the process gives up.
* Lists: every operation agrees with the same operation on plain sequences.
* Generator: the code of an expression computes its value; jumps land where the
  source says; what is written is what the loader reads.

## 2. Modules

```
OwlHeap   memory: terms, blocks, sizes, owl_alloc
  OwlGc   gc_collect as a machine with an explicit C stack
    OwlVm   frames, opcodes, loader, safepoints: the specification Spec
      OwlVmStore   the values of the registers; OwlVm implements OwlStore
      OwlVmObjects the objects in memory; OwlVm implements OwlObjects
        MCOwlVm      constants for TLC (extends both)
      OwlGcInvariant       what holds between two steps of a collection
        OwlGcProofs        lemmas: every step keeps the colours, in terms of graphs
          OwlGcSpaceProofs   ... what was copied is referred to, and the rest fits
            OwlGcStepProofs  one lemma for each action of the collector
        OwlVmInvariant     what holds between two steps of the machine
      OwlVmProofs          theorem on the frames
        OwlVmHeapProofs    one lemma for each opcode, and the theorems on the heap
          OwlVmGraphProofs   theorem: a collection keeps the graph of values
            OwlVmViewProofs    the objects of a half-space, allocated and renamed
              OwlVmObjectsProofs theorem: OwlVm implements OwlObjects
    OwlGcLists   the trees of OwlList in that memory; implements OwlSequences
      MCOwlGcLists
OwlStore      what the machine promises: values, no memory
OwlObjects    what it promises of them: objects, made once, shared, never changed
OwlSequences  what lists and the collector promise: sequences

OwlRrb             list nodes, sizes, rrb_nth
  OwlRrbConcat     push, push_down_tail, the concatenation plan, rrb_concat
  OwlRrbSlice      slice_right, promote_rightmost_leaf, slice_left
    OwlList        the lists a program can make, against sequences

OwlAst             syntax trees
  OwlCompiler      the generator: registers, environments, jumps, sizes
    OwlBytecode    the bytes of a module file, and owl_load_module
  OwlTerm          terms as words and values; their operations
    OwlRun         main, vm_run and every opcode; implements OwlSource
      MCOwlRun     programs for TLC
OwlSource          what a program means
```

Three compositions meet in the middle. `OwlVm` has memory and any program;
`OwlRun` has real programs, from their syntax tree on, and values instead of
memory, which `ImplementsStore` and `ImplementsObjects` of `OwlVm` justify (a register
keeps its value across collections) together with the theorem on `CleanAbove` (a new frame is
clear); `OwlGcLists` has real lists in real memory.

**OwlHeap.** A term is a tag, a half-space (or `Off`: an immediate, an interned
string, a `malloc`'d `Function`, the empty list) and a slot. A half-space is a
sequence of blocks in address order. Each block carries its children, its
payload size and its forward address; the overwritten first word is not modelled
separately, because the code reads nothing of a forwarded block but that word.
`allocPtr` counts bytes, so that memory runs out when it does in the code:
`BytesOf` is what the allocating code asks for, `heap_size_of` what the collector
believes, and they differ for strings. A text is the sequence of literals it was
put together from; `CString` is what `strlen` and `memcpy` find, and runs on
into the next block (`Junk`) when the block has no byte left for a NUL.

**OwlGc.** `calls` is the C stack of `copy` and `copy_list_node` (`copy_refs` and
`copy` are one activation), `scan` the loop counters of `gc_collect`. `EnterCopy`
is `copy` up to `copy_refs`: check, bump, `memcpy`; `LeaveCopy` is what follows:
set the flag, return the address to the caller, who stores it in the register or
child it was visiting (`Return`). `EnterNode` and `LeaveNode` do the same for
`copy_list_node`, where the *original* is updated and copied last. `ReturnAsIs`
and `ReturnForwarded` are the early returns. The size of a block the collector
makes is what the collector computed for it.

**OwlVm.** One action per opcode, named as in `opcodes.c`. Opcodes that cannot
loop, load or collect are one step. `op_call`, `op_capture`, `op_list`,
`op_file_ls`, `op_code_load` and `op_gc_collect` leave their locals in `pending` and
continue with the actions of `Within`, in the order of the code: safepoint, lookup,
load, lookup again, new frame; the text of a directory entry, its push, the next
entry. `main` is the initial state (the entry module is being loaded) followed
by `vm_run_function`. The program is *any* sequence of opcodes whose operands
the compiler can emit; jumps and tests add nothing to that and are left out. An
immediate stands for every integer; `op_store` also stands for the opcodes that
compute an immediate or load an interned string. `TextLengths` is the data of texts:
the lengths the program gives to those it makes as it runs, by joining, cutting,
`to_string` of a number, or from the directory. Where the code takes more memory than
the text needs (`INT_MAX_DIGITS + 1` bytes for a number, `PATH_MAX` for a path), so
does the model.

Every opcode that allocates, fetches a term, moves, calls, returns, loads code or
collects is an action, with two exceptions. `++` of two lists and `op_list_slice`
build trees that need `OwlRrb*`; they are in `OwlGcLists`, on the same memory and
collector. `op_to_string` of a tuple or list does nothing that `op_tuple_nth` or
`op_list_nth`, `op_to_string` and `op_concat` do not do one after the other, with no
collection in between; its result is in `OwlTerm`.

Three abstractions of the interpreter matter:

* `op_return` forgets `ret_register` and `function` of the frame it leaves (the
  next call overwrites them before they are read), and a collection that ends
  forgets the originals (nothing reads them again, except through
  `current_function`, see section 5). This only merges states.
* `fresh` and `ClosureReads` restrict *which programs* are considered. With
  `"anytime"`, compiled closures read upvalues whenever they like; with `"fresh"`,
  only before their first call or collection. The second class is the one in
  which the machine is correct, the first the one in which section 5 shows it is
  not.
* Lists have at most `3 * Branching` elements and are not concatenated or sliced:
  what these operations compute is in `OwlList`.

**OwlStore** is the abstract specification: a stack of register files that hold
values. **OwlVmStore** unfolds each register to its value, through the forward
addresses while a collection is going on, and `ImplementsStore` says that the
machine then only does what the store does: collector steps change nothing, and
an opcode sets one register to a result of its operation on values at hand, calls
with arguments at hand, or returns register 0 to the register the call named.
Because the program is arbitrary, the store does not say *which* operands: that
a concatenation puts the left text first is not visible to it.

**OwlObjects** is the other abstract specification of the machine, and the stronger one:
there is no memory either, but a tuple, text, closure or list is an *object*, with an
identity, that is made once and never changes, so that sharing is part of the promise.
An opcode adds at most one object, made of values at hand (a text: of the pieces of two
texts in a row, of a part of one, of a number); a call starts with its
arguments in registers 1, 2, ... and nothing else; a list in the making grows by new
lists, one element each, and those that are there stay what they are. A collection has
a beginning and an end, and no steps: it forgets objects, keeps those that are
referred to, and gives them new identities, one to one. **OwlVmObjects** reads this
off the machine: the identity of an object is the slot of its block or of its original
while a collection goes on (`Graph` of OwlGc); the nodes of a list are no objects,
`NodeElems` reads the list through them. As in `OwlStore`, *which* operands an opcode
has is not visible, but the whole object is: what is in it, in which order, and which
others it shares.

**OwlRrb, OwlRrbConcat, OwlRrbSlice** are `owl_list.c` as operators, one per C
function, with its name; their helpers name the parts of the long ones. Nodes are
values, because the code copies whatever it changes; the one exception, the end of
`slice_left`, which writes into the head it was given, is what `HeadUntouched` is
about. Shifts are counted in levels instead of bits. `tail_len` is the length of
the tail. A loop of the code that walks down a tree is a recursive operator, so
these modules are checked by TLC and not proved about. What lies behind the last child
of a node, where `push_down_tail` may look, is a constant, `PastEnd`: a `NULL`, as the
code expects, or another block. A `Wild` node stands for what is found there, `Junk` for
an element read through it. Inside a block there is no such memory: `owl_alloc` clears
it (`alloc.c:232`), so the `RRB` of a slice of the tail, whose `root` and `shift` nobody
sets (`owl_list.c:1080-1084`), has no root.
`rrb_update`, `rrb_pop` and `rrb_peek` have no opcode and are left out.

**OwlList** is the state machine over them: a program that keeps some lists, and
joins and slices them and its literals in any order. `rrb_push` is reached through
literals (`op_list`), as in the machine. No operation looks at an element, so after
each one the elements are renumbered from 1: two lists of the same shape are one
state, while `ConcatAgrees` and `SliceAgrees` still see every element that is lost,
doubled or out of place. Two constants select the programs considered, because the
code is wrong for the others (section 5): `AppendShort`, whether they append to a
list of at most `Branching` elements that has a tree, and `CutTall`, where they cut
lists of three or more levels on the left: `"never"`, where the last leaf of its
parent is kept or dropped `"whole"`, or `"anywhere"`.

**OwlGcLists** puts the trees of `OwlList` into the memory of `OwlGc`: after each
operation `Lay` allocates the nodes of the result that its operands do not have
already, with a block for each size table, and from then on the collector has
them. `Tree` reads a tree back through the forward addresses, so that the next
operation works on what the collector left. A size table that is longer than its
node, as `internal_node_dec` leaves it, is laid out in full and loses its end in
the first collection. Left out are the nodes that an operation makes and drops,
which occupy memory until the next collection and nothing more. **OwlSequences**
is what this amounts to for a program: sequences, joined and cut.

**OwlAst, OwlCompiler** are the generator as operators, one per method, on a
sequence of `FnGenerator`s, one for each function around the expression. Each
operator returns the code and the generators it leaves; the environment, the
count of registers and the registers that were pushed are theirs, as in the code.
A panic is an instruction, and a program that contains one does not compile; the
build is a debug build (`Makefile:6`), so a sum of sizes beyond a byte panics too.

**OwlBytecode** writes what `emit` writes and reads it as `owl_load_module` does:
a byte is a number, a name or literal is one byte of the file and becomes one
byte of code, its id. The loader knows by itself how long each instruction is
(`CopiedBytes`, `CountedBytes`), which is one of three places that must agree; the
others are `byte_size` in the generator and the `ip` of each opcode.

**OwlTerm** has the operations on terms. A term is a tag with a number, or with
the block it points to; `true`, `false` and `nil` are words that carry the tags of
a string and a tuple, as in `term.h`. `Fatal` is an operation that ends with
`exit(1)`, `Wild` one that reads memory outside its operands.

**OwlRun** is `main`, `vm_load_module`, `vm_run_function` and one action for every
opcode. Its `files` are the module files as the compiler has written them, before
the machine starts; the machine works on code as bytes: `next_byte`, `next_int`,
jumps, frames with return addresses, the lazy load in `load_function`, and
`owl_code_load`, which loads a module again. A run ends as `exit` (by a program),
`error` (`exit(1)` by the machine), `die` (a failed assertion or `die`) or `wild`.
`op_print` records the value it would print.

**OwlSource** is the meaning of a program without registers, jumps or code: an
evaluator in environments, with the values that are printed and the way the
program ends. As an abstract specification it prints what the meaning prints, one
value after the other, and then ends; `ImplementsSource` says that `OwlRun` does so
for every program, and that it does end.

## 3. What is checked

### The machine

The runs `vm_*` and `upvalue_*` use module `MCOwlVm` and the specification `Spec`
of `OwlVm`.

| Run | Program and memory | Properties |
|---|---|---|
| `vm_values` | tuples; texts from a path of 19 characters, from numbers, joined to 38 and cut to 19; moves, `tuple_nth`, returns, collections; 60 bytes hold three one-element tuples (17 bytes each), two texts of 19 (25), or one of 38 (41) and a tuple, so safepoints collect and memory runs out | `TypeOK`, `HeapClosed`, `ForwardSound`, `NoGarbage`, `HeapFits`, `UsageNeverGrows`, `CollectFits`, `CollectKeepsGraph`, `ImplementsStore` |
| `vm_calls` | closures with one upvalue, called through registers and upvalues, and named functions in three modules: the entry, one that is loaded on demand, one that does not define its function; two frames for functions, collections at the safepoint, closures alive across it and the load | `CleanAbove`, `HeapClosed`, `ImplementsObjects`, `OpcodeEnds` |
| `vm_lists` | three-element lists with `Branching = 1`: the first push makes a tail, the second makes it the root, the third an internal node. Lists of values, of directory entries, of the functions of a module that `code_load` loads; `list_nth`, captures, collections | `HeapClosed`, `NoGarbage`, `CollectKeepsGraph`, `ImplementsObjects` |

* `HeapClosed`: outside a collection, no register of a frame in use and no block
  points out of the half-space in use, and a pointer leads to a block of the
  type its tag names. (A process that died in the middle of a collection is as a
  collection left it, and reads no pointer any more.)
* `ForwardSound`: during a collection, a forward address leads to a copy of the
  same type, and no two originals share one.
* `NoGarbage`: when the collector has visited all registers, every block it made
  is referred to. With `HeapClosed` this says it copied exactly what is reachable.
* `CollectKeepsGraph`: no step that starts or continues a collection changes the
  graph that the registers and blocks stand for. The graph is named by the
  originals: a reference to a copy counts as one to its original, and what an
  original contains is what its copy contains, from the moment `copy` or
  `bump_cpy` makes it. When the last register is visited, the graph is that of
  the copies, each of one original (`ForwardSound`), which are then all there is
  (`HeapClosed`). Unlike `ImplementsStore`, which unfolds values, it sees
  *sharing*: with two copies of one original `Graph` has two contents at its
  place, or a register that stands for two originals.
* `CollectFits`, `HeapFits`: a collection never ends in "Insufficient memory",
  and `alloc_ptr` never leaves its half-space although `copy` checks one byte
  less than it takes (`alloc.c:174-177`).
* `UsageNeverGrows`: a collection that `OP_GC_COLLECT` asked for never takes more
  than was in use before it, not even while it copies, so the unsigned difference
  that `op_gc_collect` returns does not wrap (`opcodes.c:538-541`).
* `CleanAbove`: frames above the current one hold only null registers.
* `ImplementsStore`, `ImplementsObjects`: see section 2. The second sees what the first
  does not: an object that is copied twice, and one that goes although it is referred
  to or stays although it is not.
* `OpcodeEnds`: collections, loads and pushes end.

**Bounds.** Two registers are enough for sharing, for a caller's and a callee's register
of the same number, and for the loop over registers to end and start a frame;
`vm_lists` has one, and its sharing inside the lists. `StackDepth` 2 or 3: frame 0
runs only the entry call, so one or two functions are active, and the assert on the
stack depth fails in both. `HalfSize` is chosen per run so that
two or three of the largest terms fit: memory runs out, safepoints trigger (the
buffer is 10 % of the half-space, as in the code) and dead blocks coexist with
live ones. `Arities` fixes how many operands an opcode has. `Branching = 1`
keeps the shape of the tree (tail, root leaf, internal node) with few elements.
`TextLengths` has no multiple of eight and no zero, where the code goes wrong
(section 5). `PATH_MAX` is 32, so the block of a path of 19 characters is larger than
its copy. In `vm_calls` a call through a register or upvalue meets closures only: a
named function that was captured is a value in `vm_lists`, which has no calls, and is
called in the programs of the theorems (section 4).
`LastByte` is what lies behind the last block of a half-space: a zero, or what an
earlier use left there.

**Fairness.** `WF_vars(Within)`: whatever an opcode has begun goes on, since
`vm_run` is a loop of calls that waits for nothing. Nothing is assumed about the
program. `OpcodeEnds` also holds only because the collector's loops and
`load_function` make progress: that is what it checks.

`Stopped` is a stutter after `exit` or `die`, so that deadlock can be checked in
all the rest.

### The list

The runs `list_*` use module `OwlList`.

| Run | Lists | Properties |
|---|---|---|
| `list_narrow` | two children per node, literals of 1, 2, 5 and 7, up to 10 elements | `WellFormed`, `SizesExact`, `UnsizedFull`, `HeadUntouched`, `ConcatAgrees`, `SliceAgrees` |
| `list_wide` | four children per node, literals of 1 and 6, up to 10 elements, tall lists cut on the left at whole leaves | `ConcatAgrees`, `SliceAgrees` |

* `ConcatAgrees`, `SliceAgrees`: `++` and `List.slice`, read with `rrb_nth`, are
  concatenation and subsequence, for every reachable list and every operand.
* `WellFormed`: leaves are as deep as `shift` says, no node is empty or too long,
  `cnt` is the number of elements there are.
* `SizesExact`: each size table counts the elements below its node, whichever of
  the five functions that compute one made it.
* `UnsizedFull`: in a node without a size table all children but the last are full.
  This is the assumption under which the code computes an index instead of
  looking it up.
* `HeadUntouched`: `slice_left` never writes into a list that others hold.

**Bounds.** `RRB_BITS` is 5; the code uses it only through `RRB_BITS`,
`RRB_BRANCHING` and `RRB_MASK`, so the same code with one or two bits is what the
model is. Two children per node reach trees of several levels, and with
`RRB_EXTRAS = 2`, chains of nodes with one child; four reach nodes that are short
but not empty, where the plan has a choice. `MaxCount` stays below the size
at which `push_down_tail` follows a pointer behind the last child (13 elements
with two children per node, 2080 with 32). There is no fairness and no liveness
here: an operation is one step.

### Lists in memory

`gc_tables` uses module `MCOwlGcLists`: literals of six elements, four children per
node, concatenations up to twelve elements, slices that end after 10 or 11.

* `ImplementsSequences`: a program that joins, cuts and collects its lists sees
  sequences, and a collection ends.
* `HeapClosed`, `NoGarbage`: as above, here with size tables.
* `UsageShrinks`: a collection never makes the heap larger, so `op_gc_collect`
  never gives a number that has wrapped around, and no collection runs out of
  memory. This depends on size tables having one owner each: `bump_cpy` does not
  look at their forward flag. The one function that shares one,
  `internal_node_dec`, shares it with a node that `slice_right_rec` has just
  made and that is dropped at once (`owl_list.c:919`). That part is read off the
  code, not checked: each sized node of the model has its own table.

**Bounds.** 340 bytes hold a list of twelve, the literal it was made of, and a slice
of it: the heap then has two heads on one tree, a tree of three leaves with
a size table, and, after the slice after 10 elements, a table with one entry
more than its node has children. A second concatenation or slice works on the
lists that a collection has moved. Slices start at 0, where nodes are shared most (those
that do not are the subject of `list_*`), and there is one frame: others are the subject
of `vm_*`.
**Fairness**: weak, on the steps of a collection, as above.

### Programs

The runs `code_*` use module `MCOwlRun` and the specification `Spec` of `OwlRun`.

`code_programs` runs some three thousand programs: `main` with a body from a small
grammar, eight helper functions beside it, and a second module that is loaded when
it is first needed. The grammar nests operators, calls, tuples, lists, `if`s,
bindings, closures in closures and captures, and has programs that recurse, exit,
overflow the stack, call functions and modules that are not there, load a module
again while closures of it are alive, and end with a type error.

* `ImplementsSource`: see section 2. It covers the generator's choice of registers
  and upvalues, the encoding, the loader and the opcodes at once.
* `AtInstruction`: jumps, calls and returns go to the first byte of an instruction.
* `ReadsOnlyWritten`: no opcode reads a register that was not written in this call,
  or an upvalue that the function does not have.

**Bounds.** `StackDepth = 6` lets recursion go deep enough to return through several
frames, and the next call fails the assertion. `RegisterCount = 12` is more than
any program needs. `IntBits = 20` keeps the two bytes of a literal and the
wrap-around of `1 - 2`. Each module has fewer than 250 names.

**What the programs do not contain**, because the code goes wrong there (section 5)
or because nothing defines what they should do: an `if` or a binding inside an operand; a capture
under a jump; a closure that reads an upvalue after a call; literals of 250 or
more; an `exit` with another number than that of its register; a name bound in the
other branch; the value of a binding or a `print`; `true` or `false` compared or
joined with a string or a tuple; a string slice from a negative index; `==` of
functions; arithmetic on what is no number; a closure called with the wrong number
of arguments.

**Fairness**: weak, on `main \/ vm_run`: the loop of `vm_run` waits for nothing.
`Fairness` spells it out, so that TLC need not compute `ENABLED`. That a program
ends is then a matter of its code: the language has no loop but recursion, which
ends by itself or at the assertion on the stack.

## 4. What is proved

Ten theorems about `Spec` of `OwlVm`, for every size of memory, stack and register
file, every branching factor, every set of opcodes, functions and literals, every
set of text lengths and every number of operands.

| Theorem | States | Programs |
|---|---|---|
| `FramesAboveAreClean` (`OwlVmProofs`) | `Spec => []CleanAbove` | all |
| `TypesAreRespected` (`OwlVmHeapProofs`) | `Spec => []TypeOK` | `WithinLimits` |
| `NothingDangles` | `Spec => []HeapClosed` | `WithinLimits` |
| `ForwardingIsSound` | `Spec => []ForwardSound` | `WithinLimits` |
| `NothingDeadIsKept` | `Spec => []NoGarbage` | `WithinLimits` |
| `HeapNeverOverruns` | `Spec => []HeapFits` | `WithinLimits`, `TextsFit` |
| `CollectionsFit` | `Spec => CollectFits` | `WithinLimits`, `TextsFit` |
| `CollectionsNeverGrow` | `Spec => []UsageNeverGrows` | `WithinLimits`, `TextsFit` |
| `CollectionsKeepValues` (`OwlVmGraphProofs`) | `Spec => CollectKeepsGraph` | `WithinLimits`, `TextsFit` |
| `ObjectsAreKept` (`OwlVmObjectsProofs`) | `Spec => ImplementsObjects` | `WithinLimits`, `TextsFit` |

### From which assumptions

The assumptions on the constants are `HeapAssumption`, `GcAssumption` and
`VmAssumption`, which TLC evaluates on every run of the machine. The last has
`RegisterCount <= UpvalueFlag`: an operand of 128 and more is an upvalue
(`opcodes.c:39`), and the machine has 100 registers.

The two other hypotheses are the three places of section 5 where the code goes
wrong in this part of the machine, and no more than that:

* `WithinLimits`: upvalues are read before the first call or collection of the
  closure that reads them (`ClosureReads = "fresh"`), because
  `vm->current_function` is no root; and the program makes no empty text
  (`0 \notin TextLengths`), because `copy` takes a text of size 0 for a value that is
  not on the heap.
* `TextsFit`: the program makes no text whose length is a multiple of eight (no such
  number is in `TextLengths`), because the copy of such a text has no NUL: the next
  collection finds a longer text, which has bytes that are not its own, and is larger
  than what it is copied from.

Both are about what a program does, and any half-space has programs that satisfy them
and fill it with texts: those of `vm_values` have texts of 19 and 38 characters. A
literal may be of any length: it is on the heap only when something is made of it.
Without `TextsFit` pointers, types and forward addresses are still right, as the first
four theorems on the heap say: a text that runs on is a text of another length, and a
collection that runs out of memory ends the process. That texts keep their contents,
where they fit, is part of `ObjectsAreKept`: a text is an object, which is made of
pieces and never changes. TLC finds the counterexamples of section 5 as soon as one of
the three is given up.

### Along which argument

**Frames.** `CleanAbove` alone is not inductive: the collector writes
`registers[scan.i]`, also when it returns from a copy it entered long before. The
invariant `FrameInv` adds that `scan.i` is a frame in use whenever the C stack of the
collector is not empty, that this stack is empty outside a collection, and the
shape of the variables involved. One lemma shows that it is preserved for each way
a step touches the frames: not at all, one register of the current frame, a call,
a return, and the return of a collector function.

**Heap.** `HeapClosed` speaks of the moments between collections, so nearly all of
its inductive invariant, `HeapInv`, is about the inside of one. The recursion of the
collector is the stack `calls`, and `OwlGcInvariant!CollectInv` says of every block
where its children are, by the place the block is in:

* *white*, an original that no `copy_list_node` is in: all its children are
  originals (`WhiteOK`);
* *black*, a copy that no `copy` is in: all its children are copies (`BlackOK`);
* *grey*, the block of an activation: children below the loop counter are copies, the
  others originals (`GreyOK`). The block is the copy if `copy` runs, but the *original*
  if `copy_list_node` does, which updates in place and copies last;
* *moved*, a forwarded original: it leads to a black copy of its kind, of its own
  (`MovedOK`). Nothing is said of its children: `copy_list_node` leaves copies in them;
* the registers are scanned or not (`RegistersOK`), and each activation is there for
  the term its caller is about to replace (`StackOK`).

That is not inductive yet. When an activation returns, it must be the only one in its
block, or the block would become black under another's feet. Two of `copy` have copies
of their own (`CopiesApart`); two of `copy_list_node` could meet in one node if a node
could be below itself. It cannot, since a block refers only to blocks that were there
before it or made with it, but addresses do not tell: a collection does not keep
their order. So `CollectInv` says that there *is* a rank for each block, above the
ranks of its children, the same for original and copy (`RankedBlocks`,
`RankedCopies`), that falls along the stack (`RankedCalls`).

Three more parts follow the quantities. `AllReached`: each copy is referred to by a
register, by a copy, by a node a `copy_list_node` is in, or is what a `copy` is about
to return; `NoGarbage` is what is left of it at the end. `Accounts`: the bytes in use
are the sum over the copies, and with the bytes *owed*, the sum over the originals that
are not copied yet, they fit `Limit`: what `op_gc_collect` found in use if the collection
is one of its own, the half-space otherwise. This needs that no copy is larger than its
original (`BlockOK`), and gives `HeapFits`, `CollectFits` and `UsageNeverGrows`. Sums are functions with their
partial sums as a witness (`Total`), since the recursive sum of the libraries cannot
be reasoned about without induction.

Outside a collection `Mutating` says the same of one half-space at rest (`Resting`), of
the registers of all frames in use, and that `from_space` is empty. `ClosureOK` and
`PendingOK` say it of what the machine holds besides: the function that runs, as long
as it is `fresh`, and the list that `op_list`, `op_file_ls` or the loader is pushing
to, with the elements to come, of which those that `op_file_ls` has not read yet are
names of lengths that texts may have (`EntriesOK`). The first is where a collection may not come between, the second
where none can: `rrb_push` allocates without a safepoint. That a list has one internal
node at most, of two leaves, is part of it: the elements to come always have room
(`ListRoom`) in the tail, in the leaf that becomes the root, and in the second one.

`OwlGcProofs` shows, for the four kinds of change (enter and leave, `copy` and
`copy_list_node`), that the graph part is preserved; `OwlGcSpaceProofs` the same for
`AllReached` and `Accounts`; `OwlGcStepProofs` puts them together to one lemma for each
action of `OwlGc`. `OwlVmHeapProofs` has the start of a collection (what rests is white,
and nothing else is there) and its end (no activations, all registers scanned: what is
copied is black, and rests), an allocation of one to three blocks, one lemma per opcode,
and one per property for what the invariant implies.

**The graph.** `CollectionsKeepValues` is the safety core of `ImplementsStore`, as far
as the collector goes, without unfolding. Its steps are of three sorts.

* A callee returns (`ReturnKeeps`): the caller replaces a term by itself or by the
  address of its finished copy. Both have one original, because `MovedOK` gives each
  copy one original (`OriginalMoved`), so nothing changes, wherever the place is.
* A copy is made (`CopyKeeps`, `GraphGrown`). It is the first of its original: the
  original is neither forwarded nor in a `copy`. At that moment the block that is
  copied has the children the graph gives it: originals, for `copy`, because a `memcpy`
  of a white block comes before `copy_refs`; copies, for `copy_list_node`, because its
  block is updated before it is copied. The old children of no other block can refer to
  the new slot, which is in use by nobody (`KidRefers`).
* An original is forwarded (`ForwardKeeps`): the copy was one of it already, as the
  block of the activation that ends.

A start of a collection changes names only (`StartKeepsGraph`). The theorem needs
`TextsFit`, because a text that runs on is copied with what it runs into.

**The refinement.** `ObjectsAreKept` maps every step of the machine to one of
`OwlObjects`, or to none (`Implemented`). Two more invariants are needed: each copy that
is there has an original (`CopiesInv`), from `EnterCopy` and `LeaveNode` on to the end of
the collection, and a function is looked up for a call or a capture only (`LoadsFor`).

* The steps of a collection are not seen, since `Graph` and the roots stay, which is
  `CollectionsKeepValues` (`BeginCollectStep`, `CollectingStep`).
* When it ends the originals go, and every name changes. `NameIn` gives each copy its
  original: there is one (`CopiesInv`) and one only (`MovedOK`, `NamesOriginals`).
  `RenamedObjects` shows that such a renaming of blocks is one of objects, through the
  nodes of lists; `ReachedObjects` that what `AllReached` says of blocks holds of
  objects: a copied node is referred to by another node or a list head, so no list is
  kept for nothing (`EndCollectStep`).
* Between collections the objects are read off one half-space (`RestingState`). An
  allocation adds blocks behind the others, whose first one is the object made, and
  leaves the rest as it was (`ObjectsGrow`, `BuildStep`); what is in it are values of
  registers and upvalues at hand (`OperandsSeen`).
* A call and a return rearrange the frames (`CallStep`, `ReturnStep`). That the frame of
  a call has *nothing* but the arguments is `CleanAbove`.
* A push makes a new list of new and old nodes (`PushStep`). Its elements are those of
  the old list and the new one, in each of the four shapes of `PushBlocks`: no tree,
  room in the tail, a tail that becomes the root, a root that gets a second leaf
  (`PushedSeen`). The last is the case for which the invariant has to know that an old
  root is a leaf, or that the old internal node is not full.

### What stays with TLC

* `OpcodeEnds`, and the ends of collections and programs: liveness under fairness is
  beyond the proof system.
* `ImplementsStore`, `ImplementsSequences`, `ImplementsSource`: a value is what a term
  unfolds to, and the meaning of a program is an evaluator; both are recursive, and
  that two of them agree is an induction over data. `ImplementsObjects` is what is
  proved instead of the first: a value is what an object unfolds to, and `OwlObjects`
  says of each step which objects there are, without unfolding any.
* The list: `WellFormed`, `SizesExact`, `UnsizedFull`, `ConcatAgrees`, `SliceAgrees`
  and `HeadUntouched` are about recursive functions of the code, modelled as such; so
  is `UsageShrinks`, whose memory holds their trees (`UsageNeverGrows` is proved of
  the machine without size tables).
* `AtInstruction` and `ReadsOnlyWritten`: that the generator writes such code is an
  induction over syntax trees.
* Size tables in the collector: the machine of the theorems builds none (`BlockOK`),
  only concatenations and slices do, and `gc_tables` has those.

## 5. Where the code does not do what it says

Five runs are expected to be violated; each checks one property.

* `upvalue_after_call` (`RunsOwnUpvalues`): `op_return` does not restore
  `vm->current_function`, so a closure that calls a function and then reads an
  upvalue reads the callee's.
* `text_without_nul` (`StringsIntact`: no text in memory has bytes that are not its
  own): `heap_size_of` "Returns the number of bytes that this term takes up on the heap"
  (`alloc.c:46`), but leaves out the NUL that `owl_string_concat` has allocated. The run
  joins two texts of four characters: the text of eight is in a block of 16 bytes, its
  copy in one of 8. Behind the copy lies the forward flag of the next block: a zero, which
  ends the text, until the next collection forwards that block, and then `strlen` reads
  on. The passing runs and the theorems have texts of other lengths.
* `list_append_short` (`ConcatAgrees`): `push_down_tail` takes a list of at most
  `RRB_BRANCHING` elements to be a tail without a tree. A slice leaves lists with
  few elements and a tree of short leaves; appending to one drops the tree. The
  passing runs have `AppendShort = FALSE`.
* `code_if_operand` (`ImplementsSource`): the register of an `if`'s condition is
  pushed and never popped, but a call takes its operands to be in the registers
  pushed last: `add(1, if true { 2 } else { 1 })` adds two other registers.
* `code_capture_jump` (`AtInstruction`): `byte_size` counts four bytes for a
  capture, the loader makes it three, and a jump over one lands on an operand.

These places are modelled as the code has them and left out of the passing runs
by their constants or programs. With the constant or program in question, what is
named fails.

| Where | What | Fails |
|---|---|---|
| `alloc.c:201` | `vm->current_function` is no root: a closure that collects reads its upvalues from the old half-space. `ClosureReads = "anytime"` in `vm_calls` | TLC stops at the read of an upvalue, whose block is gone |
| `alloc.c:169-172` | the concatenation of two empty strings has heap size 0, and `copy` takes it for a value that is not on the heap. A literal of length 0 and 0 in `TextLengths` | `HeapClosed` |
| `owl_list.c:686` | `push_down_tail` follows a child index that may be the number of children. `PastEnd = "wild"` and lists of 13 elements | `ConcatAgrees` |
| `owl_list.c:1185` | the parent of a leaf that `slice_left_rec` has cut gets no size table. `CutTall = "anywhere"` | `UnsizedFull` |
| `instruction.rs:89` | integers are written in base 250 and read in base 256. A literal of 250 | `ImplementsSource` |
| `opcodes.c:99` | `op_exit` exits with the register's number, not with what it holds | `ImplementsSource` |
| `term.c:33` | the index of a tuple is cut to a byte. An index of 256 | `ImplementsSource` |
| `mod.rs:206`, `mod.rs:200` | a name bound in one branch is known in the other; a binding has no value | `ReadsOnlyWritten` |

## 6. Not modelled

* The parser's text side, the driver, and the files it reads and writes: sequential,
  without state, covered by `parser_test.rs`. `OwlAst` has the trees the parser
  makes; a module's file is there or it is not.
* Jumps and the values of integers in `OwlVm`, whose program is arbitrary: they are
  in `OwlRun`. Memory in `OwlRun`: it is in `OwlVm` and `OwlGcLists`.
* What a value looks like when it is printed (`owl_term_print`), apart from
  `term_to_string`, whose result a program can read.
* `ON_HEAP` beyond the arena: with `from_space` in the upper half the range ends
  half an arena behind it. The model covers the part inside the arena; whether
  `malloc` puts a `Function` behind it is not a property of this code.
* `rrb_update`, `rrb_pop`, `rrb_peek`: no opcode reaches them.
* The interning library, which is not in the repository: its ids are numbers, given
  in the order in which names are first met.

## 7. Plan

Every part that keeps state is modelled, the memory of the machine is proved to be
safe and to keep a program's objects. What follows, in this order:

1. Size tables in `CollectInv`, so that the lemmas on the collector hold for
   `OwlGcLists` too: each table belongs to one node (it would be grey with its owner),
   and may be longer than what is copied of it.
2. Lemmas about the plan of a concatenation, written as recursive functions.
3. Larger programs for `OwlRun`: 255 names in a module, branches of 255 bytes, more
   variables than registers.
