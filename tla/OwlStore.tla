------------------------------- MODULE OwlStore -------------------------------
(***************************************************************************)
(* What the VM promises a program about its data: a stack of register      *)
(* files that hold VALUES.  There is no memory: building a term yields its *)
(* value, reading it gives the value back, and a collection is nothing at  *)
(* all.  Strings are the literals they were put together from, lists and   *)
(* tuples their elements, closures the values they captured.               *)
(***************************************************************************)
EXTENDS Integers, Sequences

CONSTANTS Opcodes,    \* the opcodes the program is made of
          Regs,       \* the registers of a frame
          Immediates, \* the integers the program stores
          Literals,   \* its string literals
          Functions,  \* its named functions
          Arities,    \* the numbers of operands of one opcode
          Modules     \* the sequences of functions that are loaded together

VARIABLES stack,      \* the frames, innermost last: registers and ret_register
          current,    \* the function whose upvalues can be read, or Unset
          phase       \* "running", "collecting" or "stopped"

storeVars == <<stack, current, phase>>

Value(t, i, ks) == [tag |-> t, id |-> i, kids |-> ks]

Unset       == Value("POINTER", 0, <<>>)
IntVal(i)   == Value("INT", i, <<>>)
Piece(l)    == Value("STRING", l, <<>>)
StrVal(ps)  == Value("STRING", 0, ps)
NilVal      == Value("POINTER", 6, <<>>)
FunVal(f)   == Value("FUNCTION", f, <<>>)

NewRegs(args) == [r \in Regs |-> IF r \in 1 .. Len(args) THEN args[r] ELSE Unset]

-----------------------------------------------------------------------------
(* One action per kind of opcode, for the values vs in the registers of    *)
(* the innermost frame and us among the upvalues of the running function.  *)

ArgLists(S) == UNION {[1 .. n -> S] : n \in Arities}

Tuples(vs)       == {Value("TUPLE", 0, es) : es \in ArgLists(vs)}
Lists(vs)        == {Value("LIST", 0, es) : es \in ArgLists(vs)}
AnonFns(vs, us)  == {Value("FUNCTION", 0, es) : es \in ArgLists(vs \cup us)}
Nths(vs, tag)    == {NilVal} \cup
                    UNION {{v.kids[i] : i \in 1 .. Len(v.kids)} :
                           v \in {w \in vs : w.tag = tag}}
Texts(vs)        == {v \in vs : v.tag = "STRING"}
Concats(vs)      == {StrVal(v.kids \o w.kids) : v, w \in Texts(vs)}
Cuts(ps)         == {StrVal(SubSeq(ps, cut[1], cut[2])) :
                     cut \in {c \in (1 .. Len(ps)) \X (1 .. Len(ps)) : c[1] <= c[2]}}
Slices(vs)       == UNION {Cuts(v.kids) : v \in Texts(vs)}
Digits(vs)       == {StrVal(<<v>>) : v \in {w \in vs : w.tag = "INT"}}
Path             == {StrVal(<<Piece(l)>>) : l \in Literals}
Directories      == {Value("LIST", 0, ps) : ps \in {<<>>} \cup ArgLists(Path)}
Defined          == {Value("LIST", 0, [n \in 1 .. Len(fs) |-> FunVal(fs[n])]) : fs \in Modules}
\* What an opcode that sets a register can set it to, by opcode.
Of(op, values)  == IF op \in Opcodes THEN values ELSE {}

Results(vs, us) ==
  UNION {Of("store", {IntVal(i) : i \in Immediates} \cup Path),
         Of("capture", {FunVal(f) : f \in Functions}),
         Of("mov", vs \cup us),
         Of("tuple", Tuples(vs)),
         Of("tuple_nth", Nths(vs, "TUPLE")),
         Of("list", Lists(vs)),
         Of("list_nth", Nths(vs, "LIST")),
         Of("anon_fn", AnonFns(vs, us)),
         Of("concat", Concats(vs)),
         Of("string_slice", Slices(vs)),
         Of("to_string", Digits(vs)),
         Of("file_pwd", Path),
         Of("file_ls", Directories),
         Of("code_load", Defined)}

Compute(s, s2, vs, us) ==
  \E r \in Regs :
    LET v == s2[Len(s2)].regs[r]
    IN  /\ Len(s2) = Len(s)
        /\ s2 = [s EXCEPT ![Len(s)].regs[r] = v]
        /\ v \in Results(vs, us)

Call(s, s2, c2, vs, us) ==
  /\ Len(s2) = Len(s) + 1
  /\ c2 \in {FunVal(f) : f \in Functions} \cup {v \in vs \cup us : v.tag = "FUNCTION"}
  /\ \E r \in Regs, args \in ArgLists(vs) :
       s2 = Append(s, [regs |-> NewRegs(args), ret |-> r])

Return(s, s2) ==
  LET f == s[Len(s)]
  IN  /\ Len(s2) = Len(s) - 1
      /\ Len(s2) > 0
      /\ s2 = [SubSeq(s, 1, Len(s) - 1) EXCEPT ![Len(s) - 1].regs[f.ret] = f.regs[0]]

Init == /\ stack = <<[regs |-> NewRegs(<<>>), ret |-> 0]>>
        /\ current = Unset
        /\ phase = "running"

Step(s, s2, c, c2) ==
  LET vs == {s[Len(s)].regs[r] : r \in Regs}
      us == {c.kids[k] : k \in 1 .. Len(c.kids)}
  IN  \/ c2 = c /\ Compute(s, s2, vs, us)
      \/ Call(s, s2, c2, vs, us)
      \/ c2 = Unset /\ Return(s, s2)

\* The program is one that no longer reads the upvalues it captured.
Forget == stack' = stack /\ current' = Unset

\* VM.gc_collect() yields the number of bytes collected, abstracted to 0.
Collected(s, s2) ==
  \E r \in Regs : s2 = [s EXCEPT ![Len(s)].regs[r] = IntVal(0)]

Run     == /\ phase = "running" /\ phase' = "running"
           /\ Forget \/ Step(stack, stack', current, current')

\* A collection: no register has another value while it lasts.
Begin   == phase = "running" /\ phase' = "collecting" /\ Forget
End     == /\ phase = "collecting" /\ phase' = "running"
           /\ UNCHANGED current
           /\ stack' = stack \/ Collected(stack, stack')

Stop    == phase # "stopped" /\ phase' = "stopped" /\ UNCHANGED <<stack, current>>

Next == Run \/ Begin \/ End \/ Stop

Spec == Init /\ [][Next]_storeVars
=============================================================================
