-------------------------------- MODULE OwlRun --------------------------------
(***************************************************************************)
(* A program from its syntax tree to its exit: main.c and vm.c load the    *)
(* module of main, and vm_run executes what the compiler wrote, one action *)
(* for each function of opcodes.c.  Modules are loaded when a function of  *)
(* theirs is first called or captured, and again by code_load.             *)
(*                                                                         *)
(* Memory is not here: a term holds its value (OwlVm shows that the heap   *)
(* and its collector keep values, and that a new frame is clear).          *)
(***************************************************************************)
EXTENDS OwlBytecode, OwlTerm

CONSTANTS Programs,         \* programs, as syntax trees
          Main,             \* the module on the command line
          StackDepth, RegisterCount

VARIABLES program,
          files,            \* its modules, as the compiler has written them
          ld,               \* what is loaded: code, functions, interned strings
          frames,           \* frames 0 .. current_frame
          current_function, ip,
          status, exit_code, printed

vars == <<program, files, ld, frames, current_function, ip, status, exit_code, printed>>

Registers == 0 .. RegisterCount - 1
Current   == frames[Len(frames)]
NewFrame(regs, ret_address, ret_register) ==
  [regs |-> regs, ret_address |-> ret_address, ret_register |-> ret_register]

\* Code is memory set to zero before anything is loaded.
code_at(i)   == IF i < Len(ld.code) THEN ld.code[i + 1] ELSE 0
next_byte(k) == code_at(ip + k)
next_int(k)  == owl_int_from((next_byte(k) + 256 * next_byte(k + 1)) % 2 ^ 16)

\* get_var while fun is the current function.
VarOf(fun, reg) ==
  IF reg \in Registers THEN Current.regs[reg]
  ELSE IF reg - UpvalueFlag \in 0 .. Len(fun.upvalues) - 1
       THEN fun.upvalues[reg - UpvalueFlag + 1]
       ELSE Wild

get_var(k) == VarOf(current_function, next_byte(k))
Vals(k, n) == [j \in 1 .. n |-> get_var(k + j - 1)]

-----------------------------------------------------------------------------
(* How opcodes end *)

AtOpcode(op) == status = "run" /\ NameOf(code_at(ip)) = op

Quit(how, code) ==
  /\ status' = how
  /\ exit_code' = code
  /\ UNCHANGED <<program, files, ld, frames, current_function, ip, printed>>

Goto(i) == ip' = i /\ UNCHANGED <<program, files, status, exit_code>>

\* No program here has more variables than registers (behind the last one lies
\* the next frame).
set_reg(reg, t) == frames' = [frames EXCEPT ![Len(frames)].regs[reg] = t]

\* An opcode of n bytes with the result t, for the register in byte 1.
Gives(t, n) ==
  CASE t = Fatal -> Quit("error", 1)
    [] t = Wild  -> Quit("wild", 0)
    [] OTHER     -> /\ set_reg(next_byte(1), t)
                    /\ Goto(ip + n)
                    /\ UNCHANGED <<ld, current_function, printed>>

\* An opcode that only goes to another place.
Jumps(i) == Goto(i) /\ UNCHANGED <<ld, frames, current_function, printed>>

-----------------------------------------------------------------------------
(* Computing *)

op_store_int    == AtOpcode("STORE_INT") /\ Gives(next_int(2), 4)
op_store_true   == AtOpcode("STORE_TRUE") /\ Gives(OWL_TRUE, 2)
op_store_false  == AtOpcode("STORE_FALSE") /\ Gives(OWL_FALSE, 2)
op_store_nil    == AtOpcode("STORE_NIL") /\ Gives(OWL_NIL, 2)
op_load_string  == AtOpcode("LOAD_STRING") /\ Gives(StringTerm(ld.intern_pool[next_byte(2)]), 3)
op_mov          == AtOpcode("MOV") /\ Gives(get_var(2), 3)
op_add          == AtOpcode("ADD") /\ Gives(owl_add(get_var(2), get_var(3)), 4)
op_sub          == AtOpcode("SUB") /\ Gives(owl_sub(get_var(2), get_var(3)), 4)
op_greater_than == AtOpcode("GREATER_THAN") /\ Gives(owl_greater_than(get_var(2), get_var(3)), 4)
op_not          == AtOpcode("NOT") /\ Gives(owl_negate(get_var(2)), 3)
op_eq           == AtOpcode("EQ") /\ Gives(Equality(get_var(2), get_var(3), TRUE), 4)
op_not_eq       == AtOpcode("NOT_EQ") /\ Gives(Equality(get_var(2), get_var(3), FALSE), 4)
op_concat       == AtOpcode("CONCAT") /\ Gives(owl_concat(get_var(2), get_var(3)), 4)
op_to_string    == AtOpcode("TO_STRING") /\ Gives(owl_term_to_string(get_var(2)), 3)

op_tuple == AtOpcode("TUPLE") /\ Gives(TupleTerm(Vals(3, next_byte(2))), 3 + next_byte(2))
op_list  == AtOpcode("LIST") /\ Gives(ListTerm(Vals(3, next_byte(2))), 3 + next_byte(2))

op_tuple_nth  == AtOpcode("TUPLE_NTH") /\ Gives(owl_tuple_nth(get_var(2), get_var(3)), 4)
op_list_nth   == AtOpcode("LIST_NTH") /\ Gives(owl_list_nth(get_var(2), get_var(3)), 4)
op_list_count == AtOpcode("LIST_COUNT") /\ Gives(owl_list_count(get_var(2)), 3)
op_list_slice == AtOpcode("LIST_SLICE")
                 /\ Gives(owl_list_slice(get_var(2), get_var(3), get_var(4)), 5)

op_string_count    == AtOpcode("STRING_COUNT") /\ Gives(owl_string_count(get_var(2)), 3)
op_string_contains == AtOpcode("STRING_CONTAINS")
                      /\ Gives(owl_string_contains(get_var(2), get_var(3)), 4)
op_string_slice    == AtOpcode("STRING_SLICE")
                      /\ Gives(owl_string_slice(get_var(2), get_var(3), get_var(4)), 5)

op_function_name == AtOpcode("FUNCTION_NAME") /\ Gives(owl_function_name(get_var(2)), 3)

op_file_pwd == AtOpcode("FILE_PWD") /\ Gives(StringTerm(Cwd), 2)
op_file_ls  == AtOpcode("FILE_LS")
               /\ Gives(ListTerm([k \in 1 .. Len(Entries) |-> StringTerm(Entries[k])]), 3)

\* What a collection frees is the business of OwlVm; nothing, here.
op_gc_collect == AtOpcode("GC_COLLECT") /\ Gives(owl_int_from(0), 2)

\* The body of the function lies behind the instruction.
op_anon_fn ==
  /\ AtOpcode("ANON_FN")
  /\ LET n_upvals == next_byte(4)
         fun      == [location |-> ip + 4 + n_upvals + 1, name |-> Anonymous,
                      upvalues |-> Vals(5, n_upvals)]
     IN  Gives(FunctionTerm(fun), 4 + n_upvals + next_byte(2))

op_test == AtOpcode("TEST")
           /\ Jumps(ip + 2 + IF owl_term_truthy(get_var(1)) THEN next_byte(2) ELSE 1)
op_jmp  == AtOpcode("JMP") /\ Jumps(ip + 1 + next_byte(1))

\* The exit code is the byte, not the value of the register it names.
op_exit == AtOpcode("EXIT") /\ Quit("exit", next_byte(1))

-----------------------------------------------------------------------------
(* Loading *)

\* Loading has ended the process.
LoadFailed(now) == Quit(now.fails, IF now.fails = "error" THEN 1 ELSE 0)

vm_load_module(now, m) ==
  IF m \in DOMAIN files THEN owl_load_module(now, files[m]) ELSE now

\* What is loaded when function id has been looked for.
load_function(id) ==
  IF id \in DOMAIN ld.functions THEN ld ELSE vm_load_module(ld, ld.function_names[id].module)

op_capture ==
  /\ AtOpcode("CAPTURE")
  /\ LET id  == next_byte(2)
         now == load_function(id)
     IN  IF now.fails # "no" THEN LoadFailed(now)
         ELSE IF id \notin DOMAIN now.functions THEN Quit("error", 1)
         ELSE /\ set_reg(next_byte(1), FunctionTerm(now.functions[id]))
              /\ ld' = now
              /\ Goto(ip + 3)
              /\ UNCHANGED <<current_function, printed>>

\* The module is named by the file.
op_code_load ==
  /\ AtOpcode("CODE_LOAD")
  /\ LET now == vm_load_module(ld, Head(get_var(2).chars))
     IN  IF now.fails # "no" THEN LoadFailed(now)
         ELSE /\ set_reg(next_byte(1), ListTerm([k \in 1 .. Len(now.list) |->
                                                   FunctionTerm(now.list[k])]))
              /\ ld' = now
              /\ Goto(ip + 3)
              /\ UNCHANGED <<current_function, printed>>

-----------------------------------------------------------------------------
(* Calling.  The arguments are read when fun is already the current        *)
(* function.                                                               *)

setup_next_stackframe(fun, arity, ret_reg) ==
  LET args == [j \in 1 .. arity |-> VarOf(fun, next_byte(3 + j))]
      regs == [r \in Registers |-> IF r \in 1 .. arity THEN args[r] ELSE Zero]
  IN  frames' = Append(frames, NewFrame(regs, ip + 4 + arity, ret_reg))

Call(fun, now) ==
  IF Len(frames) = StackDepth THEN Quit("die", 0)
  ELSE /\ current_function' = fun
       /\ setup_next_stackframe(fun, next_byte(3), next_byte(1))
       /\ ld' = now
       /\ Goto(fun.location)
       /\ UNCHANGED printed

op_call ==
  /\ AtOpcode("CALL")
  /\ LET id  == next_byte(2)
         now == load_function(id)
     IN  IF now.fails # "no" THEN LoadFailed(now)
         ELSE IF id \notin DOMAIN now.functions THEN Quit("error", 1)
         ELSE Call(now.functions[id], now)

op_call_local ==
  /\ AtOpcode("CALL_LOCAL")
  /\ IF get_var(2).tag # "FUNCTION" THEN Quit("error", 1)
     ELSE Call(get_var(2).fun, ld)

\* current_function stays what it was.
op_return ==
  /\ AtOpcode("RETURN")
  /\ frames' = [Front(frames) EXCEPT
                  ![Len(frames) - 1].regs[Current.ret_register] = Current.regs[0]]
  /\ Goto(Current.ret_address)
  /\ UNCHANGED <<ld, current_function, printed>>

-----------------------------------------------------------------------------
(* What is seen of a term *)

RECURSIVE View(_)
View(t) ==
  CASE t = Zero      -> Unset
    [] t = OWL_TRUE  -> Truth(TRUE)
    [] t = OWL_FALSE -> Truth(FALSE)
    [] t = OWL_NIL   -> NilValue
    [] t.tag = "INT" -> [int |-> int_from_owl_int(t)]
    [] t.tag = "STRING"   -> Text(t.chars)
    [] t.tag = "FUNCTION" -> [fun |-> t.fun.name]
    [] t.tag = "TUPLE"    -> [tuple |-> [k \in 1 .. Len(t.elems) |-> View(t.elems[k])]]
    [] t.tag = "LIST"     -> [list |-> [k \in 1 .. Len(t.elems) |-> View(t.elems[k])]]

op_print ==
  /\ AtOpcode("PRINT")
  /\ printed' = Append(printed, View(get_var(1)))
  /\ Goto(ip + 2)
  /\ UNCHANGED <<ld, frames, current_function>>

-----------------------------------------------------------------------------
(* Running *)

Init ==
  /\ program \in Programs /\ Compiles(program)
  /\ files = [m \in DOMAIN program |-> emit_module(program, m)]
  /\ ld = NothingLoaded
  /\ frames = <<NewFrame([r \in Registers |-> Zero], 0, 0)>>
  /\ current_function = [location |-> 0, name |-> Anonymous, upvalues |-> <<>>]
  /\ ip = 0
  /\ status = "boot"
  /\ exit_code = 0
  /\ printed = <<>>

\* main: load the module, then vm_run_function, which puts a call of the main
\* function and an exit behind the code.
main ==
  /\ status = "boot"
  /\ LET now == vm_load_module(NothingLoaded, Main)
         id  == strings_lookup(now.function_names, Name(Main, "main", 0))
     IN  IF now.fails # "no" THEN LoadFailed(now)
         ELSE IF id = 0 THEN Quit("error", 1)
         ELSE /\ ld' = Copied(now, <<OpcodeOf["CALL"], 0, id, 0, OpcodeOf["EXIT"], 0>>)
              /\ ip' = Len(now.code)
              /\ status' = "run"
              /\ UNCHANGED <<program, files, frames, current_function, exit_code, printed>>

Computes ==
  \/ op_store_int \/ op_store_true \/ op_store_false \/ op_store_nil \/ op_load_string
  \/ op_mov \/ op_add \/ op_sub \/ op_greater_than \/ op_not \/ op_eq \/ op_not_eq
  \/ op_concat \/ op_to_string \/ op_tuple \/ op_list \/ op_tuple_nth \/ op_list_nth
  \/ op_list_count \/ op_list_slice \/ op_string_count \/ op_string_contains
  \/ op_string_slice \/ op_function_name \/ op_file_pwd \/ op_file_ls \/ op_gc_collect

vm_run ==
  \/ Computes
  \/ op_anon_fn \/ op_test \/ op_jmp \/ op_exit
  \/ op_capture \/ op_code_load \/ op_call \/ op_call_local \/ op_return \/ op_print

Stopped == status \notin {"boot", "run"} /\ UNCHANGED vars

Next == main \/ vm_run \/ Stopped

\* The loop of vm_run waits for nothing: this is WF_vars(main \/ vm_run), with
\* what enables those written out (an opcode is always enabled while the machine
\* runs, or TLC reports a deadlock), which spares TLC from working out ENABLED.
Fairness == []<><<main \/ vm_run>>_vars \/ []<>(status \notin {"boot", "run"})

Spec == Init /\ [][Next]_vars /\ Fairness

-----------------------------------------------------------------------------
(* Properties *)

result == IF status \in {"boot", "run"} THEN Running
          ELSE Outcome(status, exit_code, View(frames[1].regs[0]))

Source == INSTANCE OwlSource

\* Every program prints what it means, in order, and ends as it means to: the
\* generator's registers and jumps, the encoding, the loader and the opcodes
\* together are the language.
ImplementsSource == Source!Spec

\* Where instructions begin in the code that is loaded.
RECURSIVE StartsFrom(_, _)
StartsFrom(code, i) ==
  IF i > Len(code) THEN {}
  ELSE LET op == NameOf(code[i])
       IN  {i - 1} \cup StartsFrom(code, i + 1 + IF op \in DOMAIN CopiedBytes THEN CopiedBytes[op]
                                                 ELSE CountedBytes(code, i, op))

\* Every jump, call and return goes to the first byte of an instruction: the
\* sizes the generator counts, those the loader copies and those the opcodes
\* step over are the same.
AtInstruction ==
  status = "run" =>
    LET starts == StartsFrom(ld.code, 1)
    IN  /\ ip \in starts
        /\ \A k \in 2 .. Len(frames) : frames[k].ret_address \in starts

\* The operand registers the opcode at ip reads.
OperandsRead ==
  LET op    == NameOf(code_at(ip))
      at(S) == {next_byte(k) : k \in S}
  IN  CASE op \in {"PRINT", "TEST"} -> at({1})
        [] op \in {"MOV", "NOT", "LIST_COUNT", "STRING_COUNT", "FILE_LS", "CODE_LOAD",
                   "FUNCTION_NAME", "TO_STRING"} -> at({2})
        [] op \in {"ADD", "SUB", "EQ", "NOT_EQ", "GREATER_THAN", "CONCAT", "TUPLE_NTH",
                   "LIST_NTH", "STRING_CONTAINS"} -> at({2, 3})
        [] op \in {"LIST_SLICE", "STRING_SLICE"} -> at({2, 3, 4})
        [] op \in {"TUPLE", "LIST"} -> at(3 .. 2 + next_byte(2))
        [] op = "CALL"       -> at(4 .. 3 + next_byte(3))
        [] op = "CALL_LOCAL" -> at({2} \cup 4 .. 3 + next_byte(3))
        [] op = "ANON_FN"    -> at(5 .. 4 + next_byte(4))
        [] op = "RETURN"     -> {0}
        [] OTHER             -> {}

\* No opcode reads a register that nothing has written in this call, or an
\* upvalue the current function does not have.
ReadsOnlyWritten ==
  status = "run" =>
    \A reg \in OperandsRead : VarOf(current_function, reg) \notin {Zero, Wild}
=============================================================================
