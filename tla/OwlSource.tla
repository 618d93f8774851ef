------------------------------ MODULE OwlSource ------------------------------
(***************************************************************************)
(* What an Owl program means, and the abstract specification of running    *)
(* one: it prints what its meaning prints, in that order, and ends as its  *)
(* meaning ends.  No registers, no jumps, no code: expressions are         *)
(* evaluated in an environment, as its tests and its library expect.       *)
(*                                                                         *)
(* Values have fields of different names, so any two can be compared.      *)
(***************************************************************************)
EXTENDS OwlAst, SequencesExt

CONSTANTS Programs, Main, IntBits, StackDepth

VARIABLES program, printed, result

srcVars == <<program, printed, result>>

Number(n) == [int |-> n % 2 ^ IntBits]
Truthy(v) == v # Truth(FALSE) /\ v # NilValue

\* A function has the module it is written in and, if it is a closure, the
\* environment it was made in; seen from outside, it is its name.
Closure(e, here, env) == [fun |-> Anonymous, here |-> here, params |-> e.params,
                          body |-> e.body, env |-> env]
Global(name, f)       == [fun |-> name, here |-> name.module, params |-> f.args,
                          body |-> f.body, env |-> <<>>]

RECURSIVE Seen(_)
Seen(v) == CASE "tuple" \in DOMAIN v -> [tuple |-> [k \in DOMAIN v.tuple |-> Seen(v.tuple[k])]]
             [] "list" \in DOMAIN v  -> [list |-> [k \in DOMAIN v.list |-> Seen(v.list[k])]]
             [] "fun" \in DOMAIN v   -> [fun |-> v.fun]
             [] OTHER                -> v

\* The functions of p called name; the last definition of one counts.
Defined(p, name) == IF name.module \notin DOMAIN p THEN {}
                    ELSE {k \in DOMAIN p[name.module] :
                            /\ p[name.module][k].name = name.name
                            /\ Len(p[name.module][k].args) = name.arity}
Lookup(p, name)  == LET ks == Defined(p, name)
                    IN  Global(name, p[name.module][CHOOSE k \in ks : \A j \in ks : j <= k])

-----------------------------------------------------------------------------
(* Built-in functions that give a value, or end the program with an error.  *)

Failed == [failed |-> 0]

RECURSIVE Decimal(_), Spelled(_)
Decimal(n) == IF n < 10 THEN <<ToString(n)>> ELSE Append(Decimal(n \div 10), ToString(n % 10))
Spelled(v) ==
  CASE "int" \in DOMAIN v   -> Decimal(v.int)
    [] "bool" \in DOMAIN v  -> IF v.bool THEN <<"t", "r", "u", "e">>
                               ELSE <<"f", "a", "l", "s", "e">>
    [] "nil" \in DOMAIN v   -> <<"n", "i", "l">>
    [] "str" \in DOMAIN v   -> v.str
    [] "fun" \in DOMAIN v   -> <<v.fun.name>>
    [] "tuple" \in DOMAIN v -> FlattenSeq([k \in DOMAIN v.tuple |-> Spelled(v.tuple[k])])
    [] "list" \in DOMAIN v  ->
         <<"[">> \o FlattenSeq([k \in DOMAIN v.list |->
                      Spelled(v.list[k]) \o IF k < Len(v.list) THEN <<",", " ">> ELSE <<>>])
         \o <<"]">>

Element(s, n)    == IF n < Len(s) THEN s[n + 1] ELSE NilValue
Part(s, from, to) == SubSeq(s, from + 1, IF to < Len(s) THEN to ELSE Len(s))
Joined(l, r)     == CASE "str" \in DOMAIN l /\ "str" \in DOMAIN r   -> Text(l.str \o r.str)
                      [] "list" \in DOMAIN l /\ "list" \in DOMAIN r -> [list |-> l.list \o r.list]
                      [] OTHER -> Failed

Builtin(p, f, v) ==
  CASE f = "+"  -> Number(v[1].int + v[2].int)
    [] f = "-"  -> Number(v[1].int - v[2].int)
    [] f = ">"  -> Truth(v[1].int > v[2].int)
    [] f = "==" -> Truth(Seen(v[1]) = Seen(v[2]))
    [] f = "!=" -> Truth(Seen(v[1]) # Seen(v[2]))
    [] f = "!"  -> Truth(~Truthy(v[1]))
    [] f = "++" -> Joined(v[1], v[2])
    [] f = "tuple_nth"  -> Element(v[1].tuple, v[2].int)
    [] f = "list_nth"   -> Element(v[1].list, v[2].int)
    [] f = "list_count" -> Number(Len(v[1].list))
    [] f = "list_slice" -> [list |-> Part(v[1].list, v[2].int, v[3].int)]
    [] f = "string_slice" -> LET s == Part(v[1].str, v[2].int, v[3].int)
                             IN  IF s = <<>> THEN Failed ELSE Text(s)
    [] f = "string_count"    -> Number(Len(v[1].str))
    [] f = "string_contains" -> Truth(\E from, to \in 0 .. Len(v[1].str) :
                                        SubSeq(v[1].str, from + 1, to) = v[2].str)
    [] f = "function_name"   -> Text(<<v[1].fun.name>>)
    [] f = "term_to_string"  -> Text(Spelled(v[1]))
    [] f = "code_load"  -> LET m == v[1].str[1]
                           IN  [list |-> [k \in DOMAIN p[m] |->
                                  Global(Name(m, p[m][k].name, Len(p[m][k].args)), p[m][k])]]
    [] f = "file_pwd"   -> Text(Cwd)
    [] f = "file_ls"    -> [list |-> [k \in DOMAIN Entries |-> Text(Entries[k])]]
    [] f = "gc_collect" -> Number(0)
    [] OTHER -> Failed

BuiltinNames == {"+", "-", ">", "==", "!=", "!", "++", "tuple_nth", "list_nth", "list_count",
                 "list_slice", "string_slice", "string_count", "string_contains",
                 "function_name", "term_to_string", "code_load", "file_pwd", "file_ls",
                 "gc_collect"}

-----------------------------------------------------------------------------
(* Evaluation threads a state: the environment, the value of the last      *)
(* expression, what was printed, the depth of calls, and how the program   *)
(* stopped if it did.                                                      *)

Start == [env |-> <<>>, val |-> Unset, out |-> <<>>, depth |-> 0, stop |-> "no", code |-> 0]

Stopping(st, how, code) == [st EXCEPT !.stop = how, !.code = code]
Error(st)               == Stopping(st, "error", 1)
Valued(st, v)           == IF v = Failed THEN Error(st) ELSE [st EXCEPT !.val = v]

RECURSIVE Eval(_, _, _, _), EvalAll(_, _, _, _), EvalEach(_, _, _, _, _), CallValue(_, _, _, _)

EvalAll(p, here, st, es) ==
  IF es = <<>> \/ st.stop # "no" THEN st
  ELSE EvalAll(p, here, Eval(p, here, st, Head(es)), Tail(es))

EvalBlock(p, here, st, es) == IF es = <<>> THEN Valued(st, NilValue) ELSE EvalAll(p, here, st, es)

\* The values of es behind vs, and the state afterwards.
EvalEach(p, here, st, es, vs) ==
  IF es = <<>> \/ st.stop # "no" THEN [vals |-> vs, st |-> st]
  ELSE LET first == Eval(p, here, st, Head(es))
       IN  EvalEach(p, here, first, Tail(es), Append(vs, first.val))

CallValue(p, st, f, vs) ==
  IF "fun" \notin DOMAIN f THEN Error(st)
  ELSE IF st.depth + 1 = StackDepth THEN Stopping(st, "die", 0)
  ELSE LET args  == [x \in Names(f.params) |-> vs[PositionOf(x, f.params)]]
           inner == EvalBlock(p, f.here,
                      [st EXCEPT !.env = args @@ f.env, !.depth = @ + 1, !.val = Unset], f.body)
       IN  IF inner.stop # "no" THEN inner
           ELSE [inner EXCEPT !.env = st.env, !.depth = st.depth]

CallNamed(p, st, name, vs) ==
  IF Defined(p, name) = {} THEN Error(st) ELSE CallValue(p, st, Lookup(p, name), vs)

Applied(p, here, st, e, vs) ==
  CASE e.name = "print" -> [st EXCEPT !.out = Append(@, Seen(vs[1]))]
    [] e.name = "exit"  -> Stopping(st, "exit", vs[1].int)
    [] e.name \in BuiltinNames -> Valued(st, Builtin(p, e.name, vs))
    [] e.module = NoModule /\ e.name \in DOMAIN st.env -> CallValue(p, st, st.env[e.name], vs)
    [] OTHER -> CallNamed(p, st, Name(Resolve(e.module, here), e.name, Len(vs)), vs)

\* A let has no value of its own, and neither has a print.
Eval(p, here, st, e) ==
  CASE e.kind = "int"   -> Valued(st, Number(e.n))
    [] e.kind = "true"  -> Valued(st, Truth(TRUE))
    [] e.kind = "false" -> Valued(st, Truth(FALSE))
    [] e.kind = "nil"   -> Valued(st, NilValue)
    [] e.kind = "str"   -> Valued(st, Text(e.chars))
    [] e.kind = "ident" -> Valued(st, st.env[e.x])
    [] e.kind = "anon"  -> Valued(st, Closure(e, here, st.env))
    [] e.kind = "capture" ->
         LET name == Name(Resolve(e.module, here), e.name, e.arity)
         IN  IF Defined(p, name) = {} THEN Error(st) ELSE Valued(st, Lookup(p, name))
    [] e.kind = "let"   ->
         LET right == Eval(p, here, st, e.right)
         IN  IF right.stop # "no" THEN right
             ELSE [right EXCEPT !.env = (e.x :> right.val) @@ @, !.val = st.val]
    [] e.kind = "if"    ->
         LET c == Eval(p, here, st, e.condition)
         IN  IF c.stop # "no" THEN c
             ELSE EvalBlock(p, here, c, IF Truthy(c.val) THEN e.body ELSE e.else_body)
    [] e.kind \in {"tuple", "list"} ->
         LET each == EvalEach(p, here, st, e.elems, <<>>)
         IN  IF each.st.stop # "no" THEN each.st
             ELSE Valued(each.st, IF e.kind = "tuple" THEN [tuple |-> each.vals]
                                  ELSE [list |-> each.vals])
    [] e.kind = "apply" /\ e.name \in {"&&", "||"} ->
         LET left == Eval(p, here, st, e.args[1])
         IN  IF left.stop = "no" /\ Truthy(left.val) = (e.name = "&&")
             THEN Eval(p, here, left, e.args[2]) ELSE left
    [] OTHER ->
         LET each == EvalEach(p, here, st, e.args, <<>>)
         IN  IF each.st.stop # "no" THEN each.st ELSE Applied(p, here, each.st, e, each.vals)

Meaning(p) == CallNamed(p, Start, Name(Main, "main", 0), <<>>)

Ending(m) == IF m.stop = "no" THEN Outcome("exit", 0, Seen(m.val))
             ELSE Outcome(m.stop, m.code, Unset)

-----------------------------------------------------------------------------
Init == program \in Programs /\ printed = <<>> /\ result = Running

PrintOne == /\ result = Running
            /\ Len(printed) < Len(Meaning(program).out)
            /\ printed' = Append(printed, Meaning(program).out[Len(printed) + 1])
            /\ UNCHANGED <<program, result>>

Finish == /\ result = Running
          /\ printed = Meaning(program).out
          /\ result' = Ending(Meaning(program))
          /\ UNCHANGED <<program, printed>>

Next == PrintOne \/ Finish

\* No program runs for ever: the stack ends what does not end by itself.
Spec == Init /\ [][Next]_srcVars /\ <>(result # Running)
=============================================================================
