------------------------------- MODULE OwlTerm -------------------------------
(***************************************************************************)
(* The values of the machine, vm/src/term.h, vm/src/term.c and             *)
(* vm/src/std/owl_string.c.  An owl_term is a tag and, above it, either a  *)
(* number (`bits') or the address of a block, for which the model has what *)
(* the block holds.  true, false and nil are the words 4, 2 and 6: no      *)
(* block, but the tags of a string, of a tuple and of nothing.             *)
(*                                                                         *)
(* An operation that the code ends with exit(1) gives Fatal; one that      *)
(* reads memory outside of the blocks of its operands gives Wild.          *)
(***************************************************************************)
EXTENDS OwlAst, SequencesExt

CONSTANT IntBits      \* the bits of an integer: 61

ASSUME TermAssumption == IntBits \in Nat \ {0}

Word(tag, n) == [tag |-> tag, bits |-> n]
Points(t)    == "bits" \notin DOMAIN t

OWL_FALSE == Word("TUPLE", 0)
OWL_TRUE  == Word("STRING", 0)
OWL_NIL   == Word("SIX", 0)
Zero      == Word("POINTER", 0)
Fatal     == Word("FATAL", 0)
Wild      == Word("WILD", 0)

IntCount == 2 ^ IntBits
owl_int_from(n)     == Word("INT", n % IntCount)
int_from_owl_int(t) == t.bits

StringTerm(chars) == [tag |-> "STRING", chars |-> chars]
TupleTerm(es)     == [tag |-> "TUPLE", elems |-> es]
ListTerm(es)      == [tag |-> "LIST", elems |-> es]
FunctionTerm(fun) == [tag |-> "FUNCTION", fun |-> fun]

owl_term_truthy(t) == t # OWL_FALSE /\ t # OWL_NIL
owl_bool(b)        == IF b THEN OWL_TRUE ELSE OWL_FALSE
owl_negate(t)      == owl_bool(~owl_term_truthy(t))

-----------------------------------------------------------------------------
(* Integers are unsigned. *)

owl_add(l, r)          == owl_int_from(int_from_owl_int(l) + int_from_owl_int(r))
owl_sub(l, r)          == owl_int_from(int_from_owl_int(l) - int_from_owl_int(r))
owl_greater_than(l, r) == owl_bool(int_from_owl_int(l) > int_from_owl_int(r))

\* What is left of an integer in a C int.
AsInt(n) == IF n >= IntCount \div 2 THEN n - IntCount ELSE n

-----------------------------------------------------------------------------
(* Tuples and lists.  A list is the sequence of its elements, which is what *)
(* OwlList shows of the trees.                                              *)

\* The index is a uint8_t.
owl_tuple_nth(t, index) ==
  LET i == int_from_owl_int(index) % 256
  IN  IF ~Points(t) THEN Wild
      ELSE IF i < Len(t.elems) THEN t.elems[i + 1] ELSE OWL_NIL

owl_list_nth(t, index) ==
  LET i == int_from_owl_int(index)
  IN  IF i < Len(t.elems) THEN t.elems[i + 1] ELSE OWL_NIL

owl_list_count(t) == owl_int_from(Len(t.elems))

Smallest(m, n) == IF m < n THEN m ELSE n

owl_list_slice(t, from, to) ==
  ListTerm(SubSeq(t.elems, int_from_owl_int(from) + 1,
                  Smallest(int_from_owl_int(to), Len(t.elems))))

\* The result is "equal", "different", or "wild" if the code follows true or
\* false as a pointer.  Functions are compared by address, which terms do not
\* have here: no program compares functions.
RECURSIVE owl_terms_eq(_, _), ElementsEq(_, _)
owl_terms_eq(l, r) ==
  IF l = r THEN "equal"
  ELSE IF l.tag # r.tag \/ l.tag \notin {"TUPLE", "LIST", "STRING"} THEN "different"
  ELSE IF ~Points(l) \/ ~Points(r) THEN "wild"
  ELSE IF l.tag = "STRING" \/ Len(l.elems) # Len(r.elems) THEN "different"
  ELSE ElementsEq(l.elems, r.elems)

ElementsEq(ls, rs) ==
  IF ls = <<>> THEN "equal"
  ELSE LET first == owl_terms_eq(Head(ls), Head(rs))
       IN  IF first = "equal" THEN ElementsEq(Tail(ls), Tail(rs)) ELSE first

Equality(l, r, if_equal) ==
  LET eq == owl_terms_eq(l, r)
  IN  IF eq = "wild" THEN Wild ELSE owl_bool((eq = "equal") = if_equal)

-----------------------------------------------------------------------------
(* Strings are sequences of characters; the name of a function is one. *)

owl_function_name(t) == StringTerm(<<t.fun.name.name>>)
owl_string_count(t)  == owl_int_from(Len(t.chars))

owl_string_contains(t, sub) ==
  owl_bool(\E k \in 0 .. Len(t.chars) - Len(sub.chars) :
             SubSeq(t.chars, k + 1, k + Len(sub.chars)) = sub.chars)

\* from becomes a signed int, which nothing keeps from being negative.
owl_string_slice(t, from, to) ==
  LET from_int == AsInt(int_from_owl_int(from))
      to_int   == Smallest(int_from_owl_int(to), Len(t.chars))
  IN  IF to_int - from_int < 1 THEN Fatal
      ELSE IF from_int < 0 THEN Wild
      ELSE StringTerm(SubSeq(t.chars, from_int + 1, to_int))

owl_concat(l, r) ==
  IF l.tag # r.tag \/ l.tag \notin {"STRING", "LIST"} THEN Fatal
  ELSE IF ~Points(l) \/ ~Points(r) THEN Wild
  ELSE IF l.tag = "STRING" THEN StringTerm(l.chars \o r.chars)
  ELSE ListTerm(l.elems \o r.elems)

RECURSIVE Digits(_), owl_term_to_string(_)
Digits(n) == IF n < 10 THEN <<ToString(n)>> ELSE Append(Digits(n \div 10), ToString(n % 10))

\* Elements of a list are separated and in brackets, those of a tuple are not.
owl_term_to_string(t) ==
  LET texts == [k \in 1 .. Len(t.elems) |-> owl_term_to_string(t.elems[k]).chars]
  IN  CASE t = OWL_TRUE       -> StringTerm(<<"t", "r", "u", "e">>)
        [] t = OWL_FALSE      -> StringTerm(<<"f", "a", "l", "s", "e">>)
        [] t = OWL_NIL        -> StringTerm(<<"n", "i", "l">>)
        [] t.tag = "INT"      -> StringTerm(Digits(int_from_owl_int(t)))
        [] t.tag = "TUPLE"    -> StringTerm(FlattenSeq(texts))
        [] t.tag = "LIST"     -> StringTerm(<<"[">> \o FlattenSeq(
             [k \in 1 .. Len(texts) |-> IF k = Len(texts) THEN texts[k]
                                        ELSE texts[k] \o <<",", " ">>]) \o <<"]">>)
        [] t.tag = "STRING"   -> t
        [] t.tag = "FUNCTION" -> owl_function_name(t)
        [] OTHER              -> Fatal
=============================================================================
