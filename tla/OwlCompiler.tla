----------------------------- MODULE OwlCompiler -----------------------------
(***************************************************************************)
(* The bytecode generator, compiler/src/bytecode: from a syntax tree to    *)
(* instructions, and from instructions to the bytes of a module file.      *)
(*                                                                         *)
(* The state of the generator is a sequence gs, one FnGenerator for each   *)
(* function around the expression, the innermost last.  Every operator     *)
(* named after a method returns the code it makes and the state it leaves. *)
(* A panic is an instruction: a program whose code has one is rejected.    *)
(* Built-in functions are given as many arguments as they have.            *)
(***************************************************************************)
EXTENDS OwlAst, SequencesExt

Register(n) == <<"R", n>>
Upvalue(n)  == <<"U", n>>

UpvalueFlag == 128
byte(v)     == IF v[1] = "R" THEN v[2] ELSE v[2] + UpvalueFlag

\* Every instruction has its operands in the order they are written.
Instr(op, regs) == [op |-> op, regs |-> regs]
Return          == Instr("RETURN", <<>>)
Panic           == <<Instr("PANIC", <<>>)>>
Test(v, j)      == [op |-> "TEST", regs |-> <<v>>, jump |-> j]
Jmp(j)          == [op |-> "JMP", regs |-> <<>>, jump |-> j]

Panics(code) == \E k \in 1 .. Len(code) : code[k].op = "PANIC"

-----------------------------------------------------------------------------
(* Sizes *)

byte_size(i) ==
  CASE i.op = "CAPTURE"           -> 4
    [] i.op = "LOAD_STRING"       -> 3
    [] i.op = "STORE_INT"         -> 4
    [] i.op = "CALL"              -> 3 + Len(i.regs)
    [] i.op = "CALL_LOCAL"        -> 2 + Len(i.regs)
    [] i.op \in {"TUPLE", "LIST"} -> 2 + Len(i.regs)
    [] i.op = "ANON_FN"           -> 5 + Len(i.upvals)
    [] i.op \in {"TEST", "JMP"}   -> 2 + Len(i.regs)
    [] OTHER                      -> 1 + Len(i.regs)

byte_size_of(code) == FoldLeft(LAMBDA n, i : n + byte_size(i), 0, code)

\* A size is a u8, and the build checks the sums.
MaxByte == 255

-----------------------------------------------------------------------------
(* Registers and names *)

NewGenerator(xs) == [var_count |-> Len(xs),
                     env       |-> [x \in Names(xs) |-> Register(PositionOf(x, xs))],
                     upvals    |-> <<>>]

Inner(gs)    == gs[Len(gs)]
push(gs)     == [gs EXCEPT ![Len(gs)].var_count = @ + 1]
pop(gs, n)   == [gs EXCEPT ![Len(gs)].var_count = @ - n]
Pushed(gs)   == Register(Inner(gs).var_count)

\* Bug: the registers above those in use.
PoppedAbove(gs, n) == [k \in 1 .. n |-> Register(Inner(gs).var_count + k)]

\* The registers that n pops return, in the order they were pushed.
Popped(gs, n) == [k \in 1 .. n |-> Register(Inner(gs).var_count - n + k)]

insert_env(gs, x, v) == [gs EXCEPT ![Len(gs)].env = (x :> v) @@ @]

identifier_exists_in_scope(gs, x) == \E d \in 1 .. Len(gs) : x \in DOMAIN gs[d].env

push_upval(gs, d, v) ==
  LET existing == SelectInSeq(gs[d].upvals, LAMBDA u : u = v)
  IN  IF existing > 0
      THEN [ref |-> Upvalue(existing - 1), gs |-> gs]
      ELSE [ref |-> Upvalue(Len(gs[d].upvals)),
            gs  |-> [gs EXCEPT ![d].upvals = Append(@, v)]]

Undefined == <<"undefined">>

\* The generator at depth d looks for x in its own names, then in its
\* parent's; every generator on the way takes it over as an upvalue.
RECURSIVE search_env(_, _, _)
search_env(gs, d, x) ==
  IF d = 0 THEN [ref |-> Undefined, gs |-> gs]
  ELSE IF x \in DOMAIN gs[d].env THEN [ref |-> gs[d].env[x], gs |-> gs]
  ELSE LET up == search_env(gs, d - 1, x)
       IN  IF up.ref = Undefined THEN up ELSE push_upval(up.gs, d, up.ref)

-----------------------------------------------------------------------------
(* Code *)

Gen(code, gs) == [code |-> code, gs |-> gs]

\* Bug: the jump over the then part does not count its own last byte.
BranchJumpsShort(v, then_branch, else_branch) ==
  LET else_code == IF then_branch = <<>> THEN else_branch
                   ELSE Append(else_branch, Jmp(byte_size_of(then_branch)))
  IN  <<Test(v, byte_size_of(else_code) + 1)>> \o else_code \o then_branch

\* The code of a branch on v; the else part comes first and jumps over the
\* then part, if there is one.
gen_branch_into(v, then_branch, else_branch) ==
  LET then_size == byte_size_of(then_branch)
      else_code == IF then_size > 0 THEN Append(else_branch, Jmp(then_size + 1))
                   ELSE else_branch
      else_size == byte_size_of(else_code)
  IN  IF then_size >= MaxByte \/ else_size >= MaxByte THEN Panic
      ELSE <<Test(v, else_size + 1)>> \o else_code \o then_branch

\* The instructions of the built-in functions of the language.
BuiltinOp ==
  "+" :> "ADD" @@ "++" :> "CONCAT" @@ "-" :> "SUB" @@ "==" :> "EQ" @@ "!=" :> "NOT_EQ"
  @@ "!" :> "NOT" @@ ">" :> "GREATER_THAN" @@ "exit" :> "EXIT" @@ "print" :> "PRINT"
  @@ "file_pwd" :> "FILE_PWD" @@ "file_ls" :> "FILE_LS" @@ "tuple_nth" :> "TUPLE_NTH"
  @@ "list_nth" :> "LIST_NTH" @@ "list_count" :> "LIST_COUNT" @@ "list_slice" :> "LIST_SLICE"
  @@ "string_slice" :> "STRING_SLICE" @@ "string_count" :> "STRING_COUNT"
  @@ "code_load" :> "CODE_LOAD" @@ "function_name" :> "FUNCTION_NAME"
  @@ "string_contains" :> "STRING_CONTAINS" @@ "term_to_string" :> "TO_STRING"
  @@ "gc_collect" :> "GC_COLLECT"

\* A name the program has a variable for is called through the variable.
\* The variable is looked up, and captured, also when a module is given.
generic_apply(gs, here, e, out, args) ==
  LET local == search_env(gs, Len(gs), e.name)
  IN  IF e.module = NoModule /\ local.ref # Undefined
      THEN Gen(<<Instr("CALL_LOCAL", <<out, local.ref>> \o args)>>, local.gs)
      ELSE Gen(<<[op   |-> "CALL", regs |-> <<out>> \o args,
                  name |-> Name(Resolve(e.module, here), e.name, Len(args))]>>, local.gs)

apply_op(gs, here, e, out, args) ==
  IF e.name \notin DOMAIN BuiltinOp THEN generic_apply(gs, here, e, out, args)
  ELSE IF e.name \in {"exit", "print"} THEN Gen(<<Instr(BuiltinOp[e.name], args)>>, gs)
  ELSE Gen(<<Instr(BuiltinOp[e.name], <<out>> \o args)>>, gs)

RECURSIVE generate_expr(_, _, _, _), generate_each(_, _, _), generate_all(_, _, _, _)

\* The loop of generate_block: every expression of es into out.
generate_all(gs, here, out, es) ==
  IF es = <<>> THEN Gen(<<>>, gs)
  ELSE LET first == generate_expr(gs, here, out, Head(es))
           rest  == generate_all(first.gs, here, out, Tail(es))
       IN  Gen(first.code \o rest.code, rest.gs)

generate_block(gs, here, out, es) ==
  IF es = <<>> THEN Gen(<<Instr("STORE_NIL", <<out>>)>>, gs) ELSE generate_all(gs, here, out, es)

\* Each operand of es into a register that is pushed for it.
generate_each(gs, here, es) ==
  IF es = <<>> THEN Gen(<<>>, gs)
  ELSE LET pushed == push(gs)
           first  == generate_expr(pushed, here, Pushed(pushed), Head(es))
           rest   == generate_each(first.gs, here, Tail(es))
       IN  Gen(first.code \o rest.code, rest.gs)

OperandsOf(e) == IF e.kind = "apply" THEN e.args ELSE e.elems

\* The instruction of a tuple, a list or a call whose operands are in args.
instruction_of(gs, here, e, out, args) ==
  CASE e.kind = "tuple" -> Gen(<<Instr("TUPLE", <<out>> \o args)>>, gs)
    [] e.kind = "list"  -> Gen(<<Instr("LIST", <<out>> \o args)>>, gs)
    [] e.kind = "apply" -> apply_op(gs, here, e, out, args)

\* The operands of e, then its instruction.
generate_with_operands(gs, here, out, e) ==
  LET count    == Len(OperandsOf(e))
      operands == generate_each(gs, here, OperandsOf(e))
      me       == instruction_of(pop(operands.gs, count), here, e, out, Popped(operands.gs, count))
  IN  Gen(operands.code \o me.code, me.gs)

generate_code(gs, here, body) ==
  LET block == generate_block(gs, here, Register(0), body)
  IN  Gen(Append(block.code, Return), block.gs)

generate_and_and(gs, here, out, left, right) ==
  LET l == generate_expr(gs, here, out, left)
      r == generate_expr(l.gs, here, out, right)
  IN  Gen(l.code \o gen_branch_into(out, r.code, <<>>), r.gs)

generate_or_or(gs, here, out, left, right) ==
  LET l == generate_expr(gs, here, out, left)
      r == generate_expr(l.gs, here, out, right)
  IN  Gen(l.code \o gen_branch_into(out, <<>>, r.code), r.gs)

\* The register of the condition is pushed above whatever is in use, and
\* nothing pops it.
generate_if(gs, here, out, e) ==
  LET then_branch == generate_block(gs, here, out, e.body)
      else_branch == generate_block(then_branch.gs, here, out, e.else_body)
      pushed      == push(else_branch.gs)
      condition   == generate_expr(pushed, here, Pushed(pushed), e.condition)
  IN  Gen(condition.code \o gen_branch_into(Pushed(pushed), then_branch.code, else_branch.code),
          condition.gs)

\* The variable has a register of its own; out stays as it was.
generate_let(gs, here, e) ==
  LET pushed == push(gs)
      right  == generate_expr(pushed, here, Pushed(pushed), e.right)
  IN  IF identifier_exists_in_scope(gs, e.x) THEN Gen(Panic, gs)
      ELSE Gen(right.code, insert_env(right.gs, e.x, Pushed(pushed)))

\* The body of the function follows the instruction, which jumps over it.
generate_anon_fn(gs, here, out, e) ==
  LET inner == generate_code(Append(gs, NewGenerator(e.params)), here, e.body)
      size  == byte_size_of(inner.code)
  IN  IF size >= MaxByte THEN Gen(Panic, gs)
      ELSE Gen(<<[op    |-> "ANON_FN", regs |-> <<out>>, jump |-> size + 1,
                  arity |-> Len(e.params), upvals |-> Inner(inner.gs).upvals]>> \o inner.code,
               Front(inner.gs))

generate_expr(gs, here, out, e) ==
  CASE e.kind = "int"   -> Gen(<<[op |-> "STORE_INT", regs |-> <<out>>, val |-> e.n]>>, gs)
    [] e.kind = "true"  -> Gen(<<Instr("STORE_TRUE", <<out>>)>>, gs)
    [] e.kind = "false" -> Gen(<<Instr("STORE_FALSE", <<out>>)>>, gs)
    [] e.kind = "nil"   -> Gen(<<Instr("STORE_NIL", <<out>>)>>, gs)
    [] e.kind = "str"   -> Gen(<<[op |-> "LOAD_STRING", regs |-> <<out>>, text |-> e.chars]>>, gs)
    [] e.kind = "ident" ->
         LET found == search_env(gs, Len(gs), e.x)
         IN  IF found.ref = Undefined THEN Gen(Panic, gs)
             ELSE Gen(<<Instr("MOV", <<out, found.ref>>)>>, found.gs)
    [] e.kind = "capture" ->
         Gen(<<[op   |-> "CAPTURE", regs |-> <<out>>,
                name |-> Name(Resolve(e.module, here), e.name, e.arity)]>>, gs)
    [] e.kind = "let"   -> generate_let(gs, here, e)
    [] e.kind = "if"    -> generate_if(gs, here, out, e)
    [] e.kind = "anon"  -> generate_anon_fn(gs, here, out, e)
    [] e.kind = "apply" /\ e.name = "&&" ->
         generate_and_and(gs, here, out, e.args[1], e.args[2])
    [] e.kind = "apply" /\ e.name = "||" ->
         generate_or_or(gs, here, out, e.args[1], e.args[2])
    [] OTHER -> generate_with_operands(gs, here, out, e)

\* The instructions of one function, and of one module.
generate(here, f) == generate_code(<<NewGenerator(f.args)>>, here, f.body).code

Compiles(program) ==
  \A m \in DOMAIN program : \A k \in 1 .. Len(program[m]) : ~Panics(generate(m, program[m][k]))
=============================================================================
