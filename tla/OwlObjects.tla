------------------------------ MODULE OwlObjects ------------------------------
(***************************************************************************)
(* What the VM promises about the objects a program makes: tuples, texts,  *)
(* closures and lists that are made once, never change, and are known by   *)
(* an identity, so that sharing is part of the promise.  There is no       *)
(* memory.  A collection has an end but no steps: it forgets objects that  *)
(* nothing refers to, and gives the others new identities.                 *)
(***************************************************************************)
EXTENDS Integers, Sequences

CONSTANTS Regs,        \* the registers of a frame
          Immediates,  \* the integers the program stores
          Literals,    \* its string literals
          Functions,   \* its named functions
          MaxArgs,     \* the most operands of one opcode
          Modules      \* the sequences of functions that are loaded together

VARIABLES objects,  \* objects[k] is the object with identity k
          stack,    \* the frames, innermost last: registers and ret_register
          running,  \* the function whose upvalues can be read, or Nothing
          making,   \* the list in the making: see Making
          phase     \* "running", "making", "collecting" or "stopped"

objectVars == <<objects, stack, running, making, phase>>

Plain(t, i) == [tag |-> t, on |-> FALSE, id |-> i]
To(t, k)    == [tag |-> t, on |-> TRUE, id |-> k]

Nothing   == Plain("POINTER", 0)
NilVal    == Plain("POINTER", 6)
NoElement == Plain("LIST", 0)

Object(x, vs) == [kind |-> x, kids |-> vs]

Kids(v)  == IF v.on THEN objects[v.id].kids ELSE <<>>
Chars(v) == IF v.on THEN objects[v.id].kids ELSE <<v>>

\* The list so far, the values to come, whether the program gets the list, and
\* whether those to come that are no objects are names to be read first.
Making(l, vs, kept, read) == [list |-> l, todo |-> vs, kept |-> kept, read |-> read]
NotMaking == Making(NoElement, <<>>, FALSE, FALSE)

-----------------------------------------------------------------------------
(* What is at hand *)

Elems(s) == {s[n] : n \in 1 .. Len(s)}
Args(S)  == UNION {[1 .. n -> S] : n \in 0 .. MaxArgs}

Frame  == stack[Len(stack)]
Held   == {Frame.regs[r] : r \in Regs}
Caught == Elems(Kids(running))

IsConstant(v) == \/ v = NilVal
                 \/ v \in {Plain("INT", i) : i \in Immediates}
                 \/ v \in {Plain("STRING", l) : l \in Literals}
                 \/ v \in {Plain("FUNCTION", f) : f \in Functions}

\* An element of a tuple or list.
IsPart(v) == \E w \in Held : w.tag \in {"TUPLE", "LIST"} /\ v \in Elems(Kids(w))

\* Two texts in a row, a part of one, an integer or the working directory.
IsText(chars) ==
  \/ \E v, w \in Held : v.tag = "STRING" /\ w.tag = "STRING" /\ chars = Chars(v) \o Chars(w)
  \/ \E v \in Held : /\ v.tag = "STRING"
                    /\ \E a, b \in 1 .. Len(Chars(v)) : a <= b /\ chars = SubSeq(Chars(v), a, b)
  \/ \E v \in Held : v.tag = "INT" /\ chars = <<v>>
  \/ \E l \in Literals : chars = <<Plain("STRING", l)>>

\* What an opcode can make of what is at hand.
Makes(o) ==
  \/ o.kind = "TUPLE" /\ o.kids \in Args(Held)
  \/ o.kind = "FUNCTION" /\ o.kids \in Args(Held \cup Caught)
  \/ o.kind = "STRING" /\ IsText(o.kids)

-----------------------------------------------------------------------------
Adds(k, o) ==
     objects' = [l \in DOMAIN objects \cup {k} |-> IF l = k THEN o ELSE objects[l]]

Sets(r, v) == stack' = [stack EXCEPT ![Len(stack)].regs[r] = v]

\* An opcode that sets a register to a value it has.
Compute == /\ phase = "running" /\ phase' = "running"
           /\ Len(stack') = Len(stack)
           /\ \E r \in Regs :
                LET v == stack'[Len(stack)].regs[r]
                IN  /\ Sets(r, v)
                    /\ IsConstant(v) \/ v \in Held \/ v \in Caught \/ IsPart(v)
           /\ UNCHANGED <<objects, running, making>>

\* An opcode that sets a register to an object it makes.
Build == /\ phase = "running" /\ phase' = "running"
         /\ \E k \in DOMAIN objects' \ DOMAIN objects :
              LET o == objects'[k]
              IN  /\ Makes(o)
                  /\ Adds(k, o)
                  /\ \E r \in Regs : Sets(r, To(o.kind, k))
         /\ UNCHANGED <<running, making>>

\* A call starts with its arguments in registers 1, 2, ... and nothing else.
Call == /\ phase = "running" /\ phase' = "running"
        /\ Len(stack') = Len(stack) + 1
        /\ \/ running' \in {Plain("FUNCTION", f) : f \in Functions}
           \/ running'.tag = "FUNCTION" /\ running' \in Held \cup Caught
        /\ \E r \in Regs, args \in Args(Held) :
             stack' = Append(stack,
               [regs |-> [q \in Regs |-> IF q \in 1 .. Len(args) THEN args[q] ELSE Nothing],
                ret  |-> r])
        /\ UNCHANGED <<objects, making>>

Return == /\ phase = "running" /\ phase' = "running"
          /\ Len(stack) = Len(stack') + 1
          /\ Len(stack) > 1
          /\ stack' = [SubSeq(stack, 1, Len(stack) - 1) EXCEPT
                         ![Len(stack) - 1].regs[Frame.ret] = Frame.regs[0]]
          /\ running' = Nothing
          /\ UNCHANGED <<objects, making>>

Defined(fs)  == [n \in 1 .. Len(fs) |-> Plain("FUNCTION", fs[n])]
Entries(ls)  == [n \in 1 .. Len(ls) |-> Plain("STRING", ls[n])]

\* A list of values at hand, of the names in a directory or of the functions of a
\* module; the program does not get the functions of one it did not ask for.
BeginList == /\ phase = "running" /\ phase' = "making"
             /\ \/ \E vs \in Args(Held) : making' = Making(NoElement, vs, TRUE, FALSE)
                \/ \E ls \in Args(Literals) : making' = Making(NoElement, Entries(ls), TRUE, TRUE)
                \/ \E fs \in Modules, kept \in BOOLEAN :
                     making' = Making(NoElement, Defined(fs), kept, FALSE)
             /\ UNCHANGED <<objects, stack, running>>

\* The next element is a name.
Unread == making.read /\ making.todo # <<>> /\ ~Head(making.todo).on

\* A name becomes a text of its own.
Read == /\ phase = "making" /\ Unread
        /\ \E k \in DOMAIN objects' \ DOMAIN objects :
             /\ Adds(k, Object("STRING", <<Head(making.todo)>>))
             /\ making' = [making EXCEPT !.todo[1] = To("STRING", k)]
        /\ UNCHANGED <<stack, running, phase>>

\* Lists that were there stay what they are: the longer list is a new one.
Push == /\ phase = "making" /\ making.todo # <<>> /\ ~Unread
        /\ \E k \in DOMAIN objects' \ DOMAIN objects :
             /\ Adds(k, Object("LIST", Append(Kids(making.list), Head(making.todo))))
             /\ making' = [making EXCEPT !.list = To("LIST", k), !.todo = Tail(@)]
        /\ UNCHANGED <<stack, running, phase>>

EndList == /\ phase = "making" /\ making.todo = <<>> /\ phase' = "running"
           /\ IF making.kept THEN \E r \in Regs : Sets(r, making.list) ELSE UNCHANGED stack
           /\ making' = NotMaking
           /\ UNCHANGED <<objects, running>>

-----------------------------------------------------------------------------
(* Collections *)

\* The program is one that no longer reads the upvalues it captured.
BeginCollect == /\ phase = "running" /\ phase' = "collecting"
                /\ running' = Nothing
                /\ UNCHANGED <<objects, stack, making>>

Renamed(v, name) == IF v.on THEN To(v.tag, name[v.id]) ELSE v

RenamedObject(o, name) == [o EXCEPT !.kids = [n \in DOMAIN o.kids |-> Renamed(o.kids[n], name)]]

RenamedFrame(f, name) == [f EXCEPT !.regs = [r \in Regs |-> Renamed(f.regs[r], name)]]

Refers(vs, k) == \E v \in vs : v.on /\ v.id = k

\* name gives the objects that are kept the identities they had.  The program
\* gets the number of bytes, abstracted to 0, if it asked for the collection.
EndCollect ==
  /\ phase = "collecting" /\ phase' = "running"
  /\ \E name \in [DOMAIN objects' -> DOMAIN objects] :
       /\ \A k, l \in DOMAIN objects' : name[k] = name[l] => k = l
       /\ \A k \in DOMAIN objects' : RenamedObject(objects'[k], name) = objects[name[k]]
       /\ \A k \in DOMAIN objects' :
            \/ \E i \in 1 .. Len(stack) : Refers({stack[i].regs[r] : r \in Regs}, name[k])
            \/ \E l \in DOMAIN objects' : Refers(Elems(objects[name[l]].kids), name[k])
       /\ LET renamed == [i \in 1 .. Len(stack') |-> RenamedFrame(stack'[i], name)]
          IN  \/ renamed = stack
              \/ \E r \in Regs : renamed = [stack EXCEPT ![Len(stack)].regs[r] = Plain("INT", 0)]
  /\ UNCHANGED <<running, making>>

Stop == /\ phase # "stopped" /\ phase' = "stopped"
        /\ making' = NotMaking
        /\ UNCHANGED <<objects, stack, running>>

-----------------------------------------------------------------------------
Init == /\ objects = [k \in {} |-> Nothing]
        /\ stack = <<[regs |-> [r \in Regs |-> Nothing], ret |-> 0]>>
        /\ running = Nothing
        /\ \E fs \in Modules :
             making = Making(NoElement, Defined(fs), FALSE, FALSE)
        /\ phase = "making"

Next == \/ Compute \/ Build \/ Call \/ Return
        \/ BeginList \/ Read \/ Push \/ EndList
        \/ BeginCollect \/ EndCollect
        \/ Stop

Spec == Init /\ [][Next]_objectVars
=============================================================================
