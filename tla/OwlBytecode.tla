----------------------------- MODULE OwlBytecode -----------------------------
(***************************************************************************)
(* The bytes of a module file, as the compiler writes them                 *)
(* (compiler/src/bytecode/instruction.rs, function.rs, module.rs), and     *)
(* what the loader of the machine makes of them (vm/src/std/owl_code.c).   *)
(*                                                                         *)
(* A name or a literal is one byte of the file here: its length, its       *)
(* characters and its NUL.  In the code that is loaded it is one byte too, *)
(* the id it is interned under.                                            *)
(***************************************************************************)
EXTENDS OwlCompiler

\* The opcodes are numbered from 0 in this order.
OpcodeNames ==
  <<"EXIT", "STORE_INT", "PRINT", "ADD", "SUB", "CALL", "RETURN", "MOV", "JMP", "TUPLE",
    "TUPLE_NTH", "LIST", "PUB_FN", "STORE_TRUE", "STORE_FALSE", "TEST", "EQ", "NOT_EQ",
    "NOT", "STORE_NIL", "GREATER_THAN", "LOAD_STRING", "FILE_PWD", "CONCAT", "FILE_LS",
    "CAPTURE", "CALL_LOCAL", "LIST_NTH", "LIST_COUNT", "LIST_SLICE", "STRING_SLICE",
    "CODE_LOAD", "FUNCTION_NAME", "STRING_COUNT", "STRING_CONTAINS", "TO_STRING",
    "ANON_FN", "GC_COLLECT">>

OpcodeOf == [name \in ToSet(OpcodeNames) |->
               CHOOSE n \in 0 .. Len(OpcodeNames) - 1 : OpcodeNames[n + 1] = name]

\* The name of an opcode, of 255 if there is none of that number.
NameOf(b) == IF b < Len(OpcodeNames) THEN OpcodeNames[b + 1] ELSE "UNKNOWN"

-----------------------------------------------------------------------------
(* Writing *)

emit(i) ==
  LET op     == OpcodeOf[i.op]
      r      == [k \in 1 .. Len(i.regs) |-> byte(i.regs[k])]
      from(k) == SubSeq(r, k, Len(r))
  IN  CASE i.op = "STORE_INT"         -> <<op, r[1], i.val % 250, i.val \div 250>>
        [] i.op = "CALL"              -> <<op, r[1], i.name, Len(r) - 1>> \o from(2)
        [] i.op = "CALL_LOCAL"        -> <<op, r[1], r[2], Len(r) - 2>> \o from(3)
        [] i.op = "CAPTURE"           -> <<op, r[1], i.name>>
        [] i.op = "LOAD_STRING"       -> <<op, r[1], i.text>>
        [] i.op \in {"TEST", "JMP"}   -> <<op>> \o Append(r, i.jump)
        [] i.op \in {"TUPLE", "LIST"} -> <<op, r[1], Len(r) - 1>> \o from(2)
        [] i.op = "ANON_FN"           -> <<op, r[1], i.jump, i.arity, Len(i.upvals)>>
                                         \o [k \in 1 .. Len(i.upvals) |-> byte(i.upvals[k])]
        [] OTHER                      -> <<op>> \o r

emit_all(code) == FlattenSeq([k \in 1 .. Len(code) |-> emit(code[k])])

emit_function(here, f) ==
  <<OpcodeOf["PUB_FN"], Name(here, f.name, Len(f.args))>> \o emit_all(generate(here, f))

\* The file of module m.
emit_module(program, m) ==
  FlattenSeq([k \in 1 .. Len(program[m]) |-> emit_function(m, program[m][k])])

-----------------------------------------------------------------------------
(* Loading *)

\* The intern library: the id of what is new is one more than those in use.
strings_intern(pool, s) == IF s \in ToSet(pool) THEN pool ELSE Append(pool, s)
strings_lookup(pool, s) == IF s \in ToSet(pool) THEN CHOOSE k \in 1 .. Len(pool) : pool[k] = s
                           ELSE 0

MAX_FUNCTIONS == 255

\* The opcodes by the number of bytes the loader copies behind them.
CopiedBytes ==
  [op \in {"RETURN"} |-> 0]
  @@ [op \in {"EXIT", "PRINT", "FILE_PWD", "STORE_TRUE", "STORE_FALSE", "STORE_NIL", "JMP",
              "GC_COLLECT"} |-> 1]
  @@ [op \in {"MOV", "FILE_LS", "NOT", "LIST_COUNT", "STRING_COUNT", "CODE_LOAD", "TEST",
              "FUNCTION_NAME", "TO_STRING"} |-> 2]
  @@ [op \in {"TUPLE_NTH", "STORE_INT", "ADD", "SUB", "EQ", "NOT_EQ", "GREATER_THAN",
              "LIST_NTH", "CONCAT", "STRING_CONTAINS"} |-> 3]
  @@ [op \in {"LIST_SLICE", "STRING_SLICE"} |-> 4]

\* The same, for the opcodes that say themselves how many operands follow.
CountedBytes(bytes, i, op) ==
  CASE op \in {"TUPLE", "LIST"}      -> 2 + bytes[i + 2]
    [] op \in {"CALL_LOCAL", "CALL"} -> 3 + bytes[i + 3]
    [] op = "ANON_FN"                -> 4 + bytes[i + 4]
    [] op \in {"CAPTURE", "LOAD_STRING"} -> 2

\* ld is the part of the machine that loading changes: code, functions (by id),
\* function_names, intern_pool, the list of the functions loaded, and whether
\* loading has ended the process: with a failed assertion ("die") or with
\* exit(1) ("error").
Copied(ld, cells) == [ld EXCEPT !.code = @ \o cells]

\* Bug: the first definition of a function stays.
PublishOnce(ld, name) ==
  LET names == strings_intern(ld.function_names, name)
      id    == strings_lookup(names, name)
      fun   == [location |-> Len(ld.code), name |-> name, upvalues |-> <<>>]
  IN  [ld EXCEPT !.function_names = names, !.functions = @ @@ (id :> fun),
                 !.list = Append(@, fun)]

PublishFunction(ld, name) ==
  LET names == strings_intern(ld.function_names, name)
      id    == strings_lookup(names, name)
      fun   == [location |-> Len(ld.code), name |-> name, upvalues |-> <<>>]
  IN  [ld EXCEPT !.function_names = names, !.functions = (id :> fun) @@ @,
                 !.list = Append(@, fun), !.fails = IF id < MAX_FUNCTIONS THEN @ ELSE "die"]

\* The third byte of CALL and CAPTURE is a name.
NameCopied(ld, cells) ==
  LET names == strings_intern(ld.function_names, cells[3])
      id    == strings_lookup(names, cells[3])
  IN  Copied([ld EXCEPT !.function_names = names,
                        !.fails = IF NameOf(cells[1]) = "CALL" /\ id >= MAX_FUNCTIONS
                                  THEN "die" ELSE @],
             [cells EXCEPT ![3] = id % 256])

TextCopied(ld, cells) ==
  LET pool == strings_intern(ld.intern_pool, cells[3])
      id   == strings_lookup(pool, cells[3])
  IN  Copied([ld EXCEPT !.intern_pool = pool, !.fails = IF id < MaxByte THEN @ ELSE "die"],
             [cells EXCEPT ![3] = id])

\* The loop of owl_load_module from byte i on.
RECURSIVE LoadFrom(_, _, _)
LoadFrom(ld, bytes, i) ==
  LET op    == NameOf(bytes[i])
      n     == 1 + IF op \in DOMAIN CopiedBytes THEN CopiedBytes[op]
                   ELSE CountedBytes(bytes, i, op)
      cells == SubSeq(bytes, i, i + n - 1)
  IN  IF i > Len(bytes) \/ ld.fails # "no" THEN ld
      ELSE CASE op = "UNKNOWN"     -> [ld EXCEPT !.fails = "error"]
             [] op = "PUB_FN"      -> LoadFrom(PublishFunction(ld, bytes[i + 1]), bytes, i + 2)
             [] op \in {"CALL", "CAPTURE"} -> LoadFrom(NameCopied(ld, cells), bytes, i + n)
             [] op = "LOAD_STRING" -> LoadFrom(TextCopied(ld, cells), bytes, i + n)
             [] OTHER              -> LoadFrom(Copied(ld, cells), bytes, i + n)

owl_load_module(ld, bytes) == LoadFrom([ld EXCEPT !.list = <<>>], bytes, 1)

NothingLoaded == [code |-> <<>>, functions |-> <<>>, function_names |-> <<>>,
                  intern_pool |-> <<>>, list |-> <<>>, fails |-> "no"]
=============================================================================
