------------------------------ MODULE MCOwlRun ------------------------------
(* Programs for TLC.  x, y, f, g are variables; M is the module of main, L one  *)
(* that is loaded on demand.                                                    *)
EXTENDS OwlRun

Do(f, es)     == mk_apply(NoModule, f, es)
Call1(f, e)   == mk_apply(NoModule, f, <<e>>)
One           == mk_int(1)
Two           == mk_int(2)
Str(chars)    == mk_string(chars)
X             == mk_ident("x")
Y             == mk_ident("y")
Fn(xs, es)    == mk_anon_fn(xs, es)

\* Expressions with a hole for a number, that give a number,
Numbers(e) ==
  {Do("+", <<One, e>>), Do("-", <<e, One>>), Call1("id", e), Do("add", <<Two, e>>),
   Call1("add", e), mk_apply("L", "g", <<e>>),
   Do("tuple_nth", <<mk_tuple(<<e, Two>>), mk_int(0)>>),
   Do("list_nth", <<mk_list(<<Two, e>>), One>>),
   Do("list_count", <<mk_list(<<e>>)>>)}
\* or a truth value,
Truths(e) ==
  {Do(">", <<e, One>>), Do("==", <<e, Two>>), Do("!=", <<Two, e>>),
   Do("==", <<mk_list(<<e, One>>), mk_list(<<Two, One>>)>>),
   Do("!=", <<mk_tuple(<<One, e>>), mk_tuple(<<One, Two>>)>>)}
\* or something else.
Others(e) ==
  {mk_tuple(<<mk_nil, e, Str(<<"a">>)>>), Do("++", <<mk_list(<<e>>), mk_list(<<One, e>>)>>),
   Do("list_slice", <<mk_list(<<One, e, Two>>), One, mk_int(3)>>),
   Do("term_to_string", <<mk_list(<<e, mk_tuple(<<e, mk_true>>)>>)>>),
   Do("++", <<Str(<<"a">>), Do("term_to_string", <<e>>)>>),
   Do("string_slice", <<Str(<<"a", "b", "c">>), e, mk_int(3)>>)}

\* Expressions with a hole for a truth value that give one.
Logic(b) ==
  {Do("!", <<b>>), Do("&&", <<b, Call1("id", mk_true)>>), Do("&&", <<mk_nil, b>>),
   Do("||", <<b, Call1("id", mk_nil)>>), Do("||", <<mk_false, b>>),
   Do("&&", <<Call1("id", b), Do("||", <<mk_false, b>>)>>)}

Ints0  == {One, Two}
Ints1  == UNION {Numbers(e) : e \in Ints0}
Ints2  == UNION {Numbers(e) : e \in Ints1}
Bools1 == UNION {Truths(e) : e \in Ints0 \cup {Call1("id", Two)}}
Values == UNION {Numbers(e) \cup Others(e) : e \in Ints0 \cup Ints1} \cup UNION {Truths(e) : e \in Ints1}
            \cup UNION {Logic(b) : b \in Bools1}

If(c, th, el)  == mk_if(c, <<th>>, <<el>>)
Conditionals ==
  {If(b, e, Two) : b \in Bools1 \cup UNION {Logic(c) : c \in {mk_true, mk_nil}}, e \in Ints1}
    \cup {mk_if(b, <<>>, <<e>>) : b \in {mk_true, mk_false}, e \in Ints0}
    \cup {If(b, One, If(c, e, mk_nil)) : b, c \in {mk_true, mk_false}, e \in Ints0}
    \cup {If(If(b, c, mk_true), One, Two) : b, c \in {mk_true, mk_false}}

-----------------------------------------------------------------------------
(* Bodies of main *)

Let(x, e) == mk_let(x, e)
Show(e)   == Call1("print", e)
Pair      == mk_tuple(<<X, Y>>)

Lets(e) ==
  {<<Let("x", e), Do("+", <<X, X>>)>>,
   <<Let("x", e), Show(X), Let("y", Call1("id", X)), Show(Pair), Y>>,
   <<Let("x", If(mk_true, e, Two)), Do("-", <<X, One>>)>>,
   <<Show(e), mk_if(Do(">", <<e, Two>>), <<Let("x", e), X>>, <<Let("y", e), mk_tuple(<<Y, One>>)>>)>>,
   <<mk_if(mk_false, <<Let("x", e), X>>, <<Show(e), Let("y", e), Y>>)>>}

Closures(e) ==
  {<<Let("x", e), Let("f", Fn(<<"y">>, <<Do("+", <<Y, X>>)>>)), Call1("f", Two)>>,
   <<Let("x", e), Let("y", Two), Let("f", Fn(<<>>, <<mk_list(<<Y, X, Y>>)>>)), Do("f", <<>>)>>,
   <<Let("x", e), Let("f", Fn(<<>>, <<Fn(<<"y">>, <<Pair>>)>>)), Let("g", Do("f", <<>>)),
     Call1("g", Two)>>,
   <<Let("x", e), Let("f", Fn(<<"y">>, <<Let("g", Fn(<<>>, <<Pair>>)), Do("g", <<>>)>>)),
     Call1("f", Two), Call1("f", One)>>,
   <<Let("f", Fn(<<"y">>, <<If(Do(">", <<Y, One>>), Y, e)>>)), Call1("f", One)>>,
   <<Let("x", e), Let("f", Fn(<<>>, <<X>>)), Let("g", Fn(<<"y">>, <<Do("f", <<>>)>>)),
     Show(Call1("g", One)), Do("+", <<X, Do("f", <<>>)>>)>>,
   <<Let("x", e), Do("call", <<Fn(<<"y">>, <<mk_tuple(<<Y, X>>)>>), Two>>)>>,
   <<If(mk_true, Fn(<<"y">>, <<Y>>), e), Fn(<<>>, <<>>)>>,
   <<Let("f", e), Do("f", <<>>)>>}

Captures(e) ==
  {<<Let("f", mk_capture(NoModule, "id", 1)), Call1("f", e)>>,
   <<Do("call", <<mk_capture("L", "g", 1), e>>)>>,
   <<mk_capture(NoModule, "missing", 0), e>>}

\* A block with its own variables in a branch, and in a closure.
Nested(body, e) ==
  {<<mk_if(b, body, <<e>>)>> : b \in {mk_true, mk_false}}
    \cup {<<Let("h", Fn(<<>>, body)), Do("h", <<>>)>>, <<If(mk_nil, e, One)>> \o body}

Calls(e) ==
  {<<Call1("sum", e)>>, <<Show(e), Do("main", <<>>)>>, <<Show(e), Do("quit", <<>>), e>>,
   <<Show(e), Do("missing", <<e>>)>>, <<Show(e), mk_apply("L", "missing", <<>>)>>,
   <<Show(e), mk_apply("K", "g", <<e>>)>>,
   <<mk_apply("L", "again", <<e>>)>>, <<Call1("twice", e)>>}

Loads ==
  {<<Let("x", Call1("code_load", Str(<<"L">>))), Let("f", Do("list_nth", <<X, mk_int(k)>>)),
     Show(Call1("function_name", mk_ident("f"))), Call1("f", e)>> : e \in Ints1, k \in {0, 1}}
    \cup {<<Show(Call1("code_load", Str(<<"L">>))), mk_apply("L", "g", <<e>>),
            Call1("code_load", Str(<<"L">>)), mk_apply("L", "again", <<e>>)>> : e \in Ints0}

Texts ==
  {<<Do("string_contains", <<Str(<<"a", "b">>), Str(s)>>)>> : s \in {<<"b">>, <<"b", "a">>}}
    \cup {<<Call1("string_count", Do("++", <<Str(<<"a">>), Do("file_pwd", <<>>)>>))>>,
          <<Call1("file_ls", Str(<<"/">>))>>, <<Do("gc_collect", <<>>)>>,
          <<Call1("term_to_string", mk_tuple(<<mk_capture(NoModule, "id", 1), mk_list(<<>>)>>))>>,
          <<Do("string_slice", <<Str(<<"a">>), One, Two>>)>>,
          <<Do("++", <<Str(<<"a">>), mk_list(<<>>)>>)>>}

Bodies == {<<e>> : e \in Values \cup Conditionals}
            \cup {<<Show(e), e>> : e \in Bools1}
            \cup UNION {Lets(e) : e \in Ints0 \cup Ints1 \cup Ints2}
            \cup UNION {Closures(e) \cup Captures(e) : e \in Ints0 \cup Ints1}
            \cup UNION {UNION {Nested(body, e) : body \in Lets(e) \cup Closures(e)} :
                          e \in Ints0 \cup Ints1}
            \cup UNION {Calls(e) : e \in Ints0 \cup {mk_int(5), Call1("id", Two)}}
            \cup Loads \cup Texts

-----------------------------------------------------------------------------
(* The functions of M behind main, and those of L *)

Helpers ==
  <<mk_function("id", <<"x">>, <<X>>),
    mk_function("add", <<"x", "y">>, <<Do("+", <<X, Y>>)>>),
    mk_function("add", <<"x">>, <<Do("add", <<X, One>>)>>),
    mk_function("call", <<"f", "x">>, <<Call1("f", X)>>),
    mk_function("quit", <<>>, <<Call1("exit", One)>>),
    mk_function("sum", <<"x">>, <<If(Do(">", <<X, mk_int(0)>>),
                                     Do("add", <<X, Call1("sum", Do("-", <<X, One>>))>>), X)>>),
    mk_function("twice", <<"x">>, <<X>>),
    mk_function("twice", <<"x">>, <<Do("+", <<X, X>>)>>)>>

Lib == <<mk_function("g", <<"x">>, <<mk_apply("M", "id", <<X>>)>>),
         mk_function("again", <<"y">>, <<Call1("g", Y)>>)>>

Called(body) == "M" :> (<<mk_function("main", <<>>, body)>> \o Helpers) @@ "L" :> Lib

AllPrograms == {Called(body) : body \in Bodies} \cup {"M" :> Helpers @@ "L" :> Lib}

\* An operand that is an if.
IfPrograms == {Called(<<Do("add", <<One, If(b, Two, One)>>)>>) : b \in {mk_true, mk_false}}

\* A capture in a branch.
CapturePrograms == {Called(<<If(b, mk_capture(NoModule, "id", 1), e), e>>) :
                      b \in {mk_true, mk_false}, e \in Ints0}
=============================================================================
