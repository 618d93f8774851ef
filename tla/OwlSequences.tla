----------------------------- MODULE OwlSequences -----------------------------
(***************************************************************************)
(* What lists and the collector promise together: a program that holds     *)
(* finite sequences.  There are no trees, no size tables, and no memory;   *)
(* op_list, op_concat and op_list_slice put a sequence in a register, and  *)
(* a collection changes nothing but the register of its result.            *)
(***************************************************************************)
EXTENDS Naturals, Sequences

CONSTANTS Registers,        \* the registers of the running function
          LiteralLengths   \* the lengths of its list literals

VARIABLES values,  \* what each register holds
          phase    \* "running", "collecting" or "stopped"

sequenceVars == <<values, phase>>

NoList   == [list |-> FALSE, elements |-> <<>>]
List(es) == [list |-> TRUE, elements |-> es]

Lists == {v \in {values[r] : r \in Registers} : v.list}

\* What the opcodes make: literals, ...
LiteralValues == {List([i \in 1 .. n |-> i]) : n \in LiteralLengths}

\* ... left ++ right, ...
Concatenations == {List(a.elements \o b.elements) : a, b \in Lists}

\* ... and the elements from .. to - 1, counted from 0, as far as there are any.
Slices == UNION {{List(SubSeq(a.elements, from + 1, to)) : from, to \in 0 .. Len(a.elements)} :
                 a \in Lists}

Init == values = [r \in Registers |-> NoList] /\ phase = "running"

\* An opcode sets one register.
Operation(r) == /\ phase = "running"
                /\ values' = [values EXCEPT ![r] = values'[r]]
                /\ values'[r] \in LiteralValues \cup Concatenations \cup Slices
                /\ UNCHANGED phase

Collect == /\ phase = "running"
           /\ phase' = "collecting"
           /\ UNCHANGED values

Collected(r) == /\ phase = "collecting"
                /\ phase' = "running"
                /\ values' = [values EXCEPT ![r] = NoList]

\* Memory is not unlimited, so the program may be stopped.
Stop == phase' = "stopped" /\ UNCHANGED values

Next == Collect \/ Stop \/ \E r \in Registers : Operation(r) \/ Collected(r)

CollectionsEnd == phase = "collecting" ~> phase # "collecting"

Spec == Init /\ [][Next]_sequenceVars /\ CollectionsEnd
=============================================================================
