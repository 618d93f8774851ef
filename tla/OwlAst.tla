-------------------------------- MODULE OwlAst --------------------------------
(***************************************************************************)
(* Syntax trees of Owl programs, compiler/src/ast.rs: what the parser      *)
(* hands to the generator.  A program is a function from module names to   *)
(* sequences of functions.                                                 *)
(***************************************************************************)
EXTENDS Integers, Sequences, TLC

mk_int(n)            == [kind |-> "int", n |-> n]
mk_true              == [kind |-> "true"]
mk_false             == [kind |-> "false"]
mk_nil               == [kind |-> "nil"]
mk_string(chars)     == [kind |-> "str", chars |-> chars]
mk_ident(x)          == [kind |-> "ident", x |-> x]
mk_let(x, right)     == [kind |-> "let", x |-> x, right |-> right]
mk_if(c, th, el)     == [kind |-> "if", condition |-> c, body |-> th, else_body |-> el]
mk_tuple(es)         == [kind |-> "tuple", elems |-> es]
mk_list(es)          == [kind |-> "list", elems |-> es]
mk_anon_fn(xs, es)   == [kind |-> "anon", params |-> xs, body |-> es]
mk_function(f, xs, es) == [name |-> f, args |-> xs, body |-> es]

\* A name is qualified with a module or with none.
NoModule             == ""
mk_apply(m, f, es)   == [kind |-> "apply", module |-> m, name |-> f, args |-> es]
mk_capture(m, f, a)  == [kind |-> "capture", module |-> m, name |-> f, arity |-> a]

\* The name a function is known by at run time: "Module.name\arity".
Name(m, f, a) == [module |-> m, name |-> f, arity |-> a]
Anonymous     == Name(NoModule, "Anonymous", 0)

Resolve(m, here) == IF m = NoModule THEN here ELSE m

\* Where x was last inserted among the parameters xs.
PositionOf(x, xs) == CHOOSE k \in 1 .. Len(xs) :
                       xs[k] = x /\ \A j \in k + 1 .. Len(xs) : xs[j] # x

Names(xs) == {xs[k] : k \in 1 .. Len(xs)}

-----------------------------------------------------------------------------
(* What can be seen of a run: the values it prints, and how it ends.        *)

Truth(b)    == [bool |-> b]
NilValue    == [nil |-> 0]
Unset       == [unset |-> 0]
Text(chars) == [str |-> chars]

\* With an exit code (and main's value, if main returned), with an error
\* message ("error"), of a failed assertion ("die"), or in memory that is not
\* the program's ("wild").
Outcome(how, code, val) == [how |-> how, code |-> code, val |-> val]
Running == Outcome("running", 0, Unset)

\* The directory the program runs in, and what is in it.
Cwd     == <<"/">>
Entries == <<<<"a">>, <<"b">>>>
=============================================================================
