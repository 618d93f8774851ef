----------------------------- MODULE OwlVmProofs -----------------------------
(***************************************************************************)
(* Theorems of OwlVm for every value of its constants.                     *)
(*                                                                         *)
(* The registers of the frames above the current one are null.  Every      *)
(* opcode writes its own frame or the next one; what needs an argument is  *)
(* the collector, which writes registers[scan.i], and does so also when it *)
(* returns from a copy it entered many steps before.  The strengthening is *)
(* therefore about the C stack of the collector: it is empty outside a     *)
(* collection, and while it is not empty scan.i is a frame in use.         *)
(***************************************************************************)
EXTENDS OwlVm, TLAPS

FrameShape == /\ DOMAIN registers = Frames
              /\ currentFrame \in Frames
              /\ scan \in [i : Nat, j : Regs]
              /\ status \in Statuses

ScanInUse == /\ calls # <<>> => scan.i <= currentFrame
             /\ status \notin {"collect", "die"} => calls = <<>>

FrameInv == FrameShape /\ CleanAbove /\ ScanInUse

-----------------------------------------------------------------------------
\* A program starts in frame 0, with nothing in any register.
LEMMA FrameInvInit == Init => FrameInv
  <1> SUFFICES ASSUME Init PROVE FrameInv
    OBVIOUS
  <1>1. FrameShape
    BY GcAssumption DEF Init, FrameShape, Frames, Regs, Statuses
  <1>2. CleanAbove
    BY DEF Init, CleanAbove
  <1>3. ScanInUse
    BY DEF Init, ScanInUse
  <1> QED BY <1>1, <1>2, <1>3 DEF FrameInv

\* A step that leaves the frames and the collector's counters alone.
LEMMA FrameInvSame ==
  ASSUME FrameInv, UNCHANGED <<registers, currentFrame, scan, calls>>,
         status' \in Statuses,
         status' \in {"collect", "die"} \/ status \notin {"collect", "die"}
  PROVE  FrameInv'
  BY DEF FrameInv, FrameShape, CleanAbove, ScanInUse, Frames, Regs, Cleared

\* A step that sets registers of the current frame.
LEMMA FrameInvSet ==
  ASSUME FrameInv, NEW r, NEW t, set_reg(r, t), UNCHANGED <<currentFrame, scan, calls>>,
         status' \in Statuses, status \notin {"collect", "die"}
  PROVE  FrameInv'
  <1>1. \A i \in Frames : i # currentFrame => registers'[i] = registers[i]
    BY DEF FrameInv, FrameShape, set_reg
  <1>2. DOMAIN registers' = Frames
    BY DEF FrameInv, FrameShape, set_reg
  <1> QED BY <1>1, <1>2 DEF FrameInv, FrameShape, CleanAbove, ScanInUse, Frames, Regs, Cleared

\* A call: the arguments go into the frame that becomes the current one.
LEMMA FrameInvCall ==
  ASSUME FrameInv, NEW fun, NEW upvals, NEW args, NEW ret,
         setup_next_stackframe(fun, upvals, args, ret), status \notin {"collect", "die"}
  PROVE  FrameInv'
  <1>1. CASE currentFrame + 1 < StackDepth
    <2>1. /\ currentFrame' = currentFrame + 1
          /\ registers' = [registers EXCEPT ![currentFrame + 1] = Arguments(@, args)]
          /\ status' = "run" /\ UNCHANGED <<scan, calls>>
      BY <1>1 DEF setup_next_stackframe
    <2>2. \A i \in Frames : i # currentFrame' => registers'[i] = registers[i]
      BY <2>1 DEF FrameInv, FrameShape
    <2>3. DOMAIN registers' = Frames
      BY <2>1 DEF FrameInv, FrameShape
    <2>4. currentFrame' \in Frames
      BY <1>1, <2>1, GcAssumption DEF FrameInv, FrameShape, Frames
    <2>5. CleanAbove'
      <3> SUFFICES ASSUME NEW i \in Frames, i > currentFrame'
                   PROVE  registers'[i] = Cleared
        BY DEF CleanAbove, Cleared, Regs, Null
      <3>1. i > currentFrame /\ i # currentFrame'
        BY <2>1 DEF FrameInv, FrameShape, Frames
      <3> QED BY <3>1, <2>2 DEF FrameInv, CleanAbove
    <2>6. FrameShape' /\ ScanInUse'
      BY <2>1, <2>3, <2>4 DEF FrameInv, FrameShape, ScanInUse, Statuses
    <2> QED BY <2>5, <2>6 DEF FrameInv
  <1>2. CASE ~(currentFrame + 1 < StackDepth)
    BY <1>2, FrameInvSame DEF setup_next_stackframe, Die, Statuses
  <1> QED BY <1>1, <1>2

\* The frame that returns becomes one above the current frame and is cleared.
LEMMA FrameInvOpReturn ==
  ASSUME FrameInv, op_return
  PROVE  FrameInv'
  <1>1. /\ currentFrame > 0 /\ status = "run"
        /\ currentFrame' = currentFrame - 1
        /\ UNCHANGED <<scan, calls, status>>
    BY DEF op_return, Runs
  <1>2. currentFrame \in Frames /\ DOMAIN registers = Frames
    BY DEF FrameInv, FrameShape
  <1>3. registers' = [registers EXCEPT
          ![currentFrame - 1][frames[currentFrame].ret] = registers[currentFrame][0],
          ![currentFrame] = Cleared]
    BY DEF op_return, ClearRegisters
  <1>4. /\ DOMAIN registers' = Frames
        /\ registers'[currentFrame] = Cleared
        /\ \A i \in Frames : i \notin {currentFrame, currentFrame - 1} =>
              registers'[i] = registers[i]
    BY <1>2, <1>3
  <1>5. currentFrame' \in Frames
    BY <1>1, <1>2, GcAssumption DEF Frames
  <1> QED
    BY <1>1, <1>2, <1>4, <1>5
    DEF FrameInv, FrameShape, CleanAbove, ScanInUse, Frames, Regs, Cleared

-----------------------------------------------------------------------------
(* The collector *)

\* A callee returns to gc_collect or to another copy.
LEMMA FrameInvReturn ==
  ASSUME FrameInv, NEW h, NEW cs, NEW t, Return(h, cs, t), status = "collect",
         scan.i <= currentFrame, UNCHANGED <<currentFrame, status>>
  PROVE  FrameInv'
  <1>1. CASE cs = <<>>
    <2>1. /\ registers' = [registers EXCEPT ![scan.i][scan.j] = t]
          /\ scan' = NextRegister
          /\ calls' = <<>>
      BY <1>1 DEF Return
    <2>2. DOMAIN registers' = Frames
      BY <2>1 DEF FrameInv, FrameShape
    <2>3. \A i \in Frames : i > currentFrame => registers'[i] = registers[i]
      BY <2>1 DEF FrameInv, FrameShape, Frames
    <2>4. scan' \in [i : Nat, j : Regs]
      BY <2>1, GcAssumption DEF FrameInv, FrameShape, NextRegister, Regs
    <2> QED
      BY <2>1, <2>2, <2>3, <2>4
      DEF FrameInv, FrameShape, CleanAbove, ScanInUse, Frames, Regs, Cleared
  <1>2. CASE cs # <<>>
    <2>1. UNCHANGED <<registers, scan>>
      BY <1>2 DEF Return
    <2> QED
      BY <2>1 DEF FrameInv, FrameShape, CleanAbove, ScanInUse, Frames, Regs, Cleared
  <1> QED BY <1>1, <1>2

\* While the collector is inside a loop, the frame it is at is in use.
LEMMA VisitingInUse ==
  ASSUME FrameInv, Visiting
  PROVE  status = "collect" /\ scan.i <= currentFrame
  BY DEF Visiting, LoopDone, FrameInv, FrameShape, ScanInUse, Frames

\* A step of the collector writes no register above the frames in use.
LEMMA FrameInvCollectStep ==
  ASSUME FrameInv, CollectStep
  PROVE  FrameInv'
  <1>1. CASE ReturnAsIs
    BY <1>1, VisitingInUse, FrameInvReturn DEF ReturnAsIs
  <1>2. CASE ReturnForwarded
    BY <1>2, VisitingInUse, FrameInvReturn DEF ReturnForwarded
  <1>3. CASE EnterCopy
    <2>1. status = "collect" /\ scan.i <= currentFrame
      BY <1>3, VisitingInUse DEF EnterCopy
    <2>2. /\ UNCHANGED <<registers, currentFrame, scan>>
          /\ status' \in {"collect", "die"}
          /\ status' = "die" => UNCHANGED calls
      BY <1>3, <2>1 DEF EnterCopy, Die
    <2> QED
      BY <2>1, <2>2
      DEF FrameInv, FrameShape, CleanAbove, ScanInUse, Statuses, Frames, Regs, Cleared
  <1>4. CASE LeaveCopy
    <2>1. scan.i <= currentFrame /\ status = "collect"
      BY <1>4 DEF LeaveCopy, FrameInv, ScanInUse
    <2> QED
      BY <1>4, <2>1, FrameInvReturn DEF LeaveCopy
  <1>5. CASE EnterNode
    <2>1. status = "collect" /\ scan.i <= currentFrame
      BY <1>5, VisitingInUse DEF EnterNode
    <2>2. UNCHANGED <<registers, currentFrame, scan, status>>
      BY <1>5 DEF EnterNode
    <2> QED
      BY <2>1, <2>2
      DEF FrameInv, FrameShape, CleanAbove, ScanInUse, Frames, Regs, Cleared
  <1>6. CASE LeaveNode
    <2>1. scan.i <= currentFrame /\ status = "collect"
      BY <1>6 DEF LeaveNode, FrameInv, ScanInUse
    <2>2. CASE Die
      BY <2>1, <2>2, FrameInvSame DEF Die, Statuses
    <2>3. CASE ~Die
      <3>1. PICK h, cs, t : Return(h, cs, t) /\ UNCHANGED <<currentFrame, status>>
        BY <1>6, <2>3 DEF LeaveNode
      <3> QED BY <2>1, <3>1, FrameInvReturn
    <2> QED BY <2>2, <2>3
  <1> QED BY <1>1, <1>2, <1>3, <1>4, <1>5, <1>6 DEF CollectStep

\* gc_collect starts and returns; either way its counters are at the start.
LEMMA FrameInvStartCollect ==
  ASSUME FrameInv, StartCollect
  PROVE  FrameInv'
  BY GcAssumption
  DEF StartCollect, FrameInv, FrameShape, CleanAbove, ScanInUse, Statuses, Frames, Regs, Cleared

\* Nor does what follows a collection.
LEMMA FrameInvEndCollect ==
  ASSUME FrameInv, NEW next \in {"run", "load"}, EndCollect(next),
         \/ UNCHANGED registers
         \/ \E r, t : set_reg(r, t)
  PROVE  FrameInv'
  <1>1. /\ scan' = [i |-> 0, j |-> 0] /\ calls' = <<>>
        /\ status' = next /\ UNCHANGED currentFrame
    BY DEF EndCollect
  <1>2. /\ DOMAIN registers' = Frames
        /\ \A i \in Frames : i # currentFrame => registers'[i] = registers[i]
    BY DEF FrameInv, FrameShape, set_reg
  <1> QED
    BY <1>1, <1>2, GcAssumption
    DEF FrameInv, FrameShape, CleanAbove, ScanInUse, Statuses, Frames, Regs, Cleared

-----------------------------------------------------------------------------
(* The opcodes *)

\* Every opcode preserves the invariant.
LEMMA FrameInvOpcode ==
  ASSUME FrameInv, Opcode
  PROVE  FrameInv'
  <1>1. ASSUME NEW r, NEW t, SetsOnly(r, t), status = "run"
        PROVE  FrameInv'
    BY <1>1, FrameInvSet DEF SetsOnly, Statuses
  <1>2. ASSUME NEW bs, NEW r, NEW t, Build(bs, r, t), status = "run"
        PROVE  FrameInv'
    BY <1>2, FrameInvSet, FrameInvSame DEF Build, Die, Statuses
  <1>3. ASSUME NEW s \in Statuses \ {"collect"}, Stop(s), status = "run"
        PROVE  FrameInv'
    BY <1>3, FrameInvSame DEF Stop
  <1>4. ASSUME NEW r, NEW f, NEW args, Call(r, f, args), status = "run"
        PROVE  FrameInv'
    BY <1>4, <1>3, FrameInvStartCollect DEF Call, Statuses
  <1>5. ASSUME NEW r, NEW i, op_store(r, Immediate(i)) PROVE FrameInv'
    BY <1>5, <1>1 DEF op_store, Runs
  <1>6. ASSUME NEW r, NEW k, op_store(r, Literal(k)) PROVE FrameInv'
    BY <1>6, <1>1 DEF op_store, Runs
  <1>7. ASSUME NEW r, NEW o, op_mov(r, o) PROVE FrameInv'
    BY <1>7, <1>1 DEF op_mov, Runs
  <1>8. ASSUME NEW r, NEW os, op_tuple(r, os) PROVE FrameInv'
    BY <1>8, <1>2 DEF op_tuple, Runs
  <1>9. ASSUME NEW r, NEW o, NEW index, op_tuple_nth(r, o, index) PROVE FrameInv'
    BY <1>9, <1>1 DEF op_tuple_nth, Runs
  <1>10. ASSUME NEW r, NEW ps, NEW len, NEW bytes, MakeText(r, ps, len, bytes), status = "run"
         PROVE  FrameInv'
    BY <1>10, <1>2 DEF MakeText
  <1>11. ASSUME NEW r, NEW os, op_anon_fn(r, os) PROVE FrameInv'
    BY <1>11, <1>2 DEF op_anon_fn, Runs
  <1>12. ASSUME NEW r, NEW o, NEW args, op_call_local(r, o, args) PROVE FrameInv'
    BY <1>12, <1>3, FrameInvCall DEF op_call_local, Runs, Statuses
  <1>13. ASSUME NEW r, NEW f, NEW args, op_call(r, f, args) PROVE FrameInv'
    BY <1>13, <1>4 DEF op_call, Runs
  <1>14. ASSUME NEW r, NEW f, op_capture(r, f) PROVE FrameInv'
    BY <1>14, <1>3 DEF op_capture, Runs, Statuses
  <1>15. ASSUME NEW r, NEW os, op_list(r, os) PROVE FrameInv'
    BY <1>15, <1>3 DEF op_list, Runs, Statuses
  <1>16. ASSUME NEW r, op_gc_collect(r) PROVE FrameInv'
    BY <1>16, FrameInvStartCollect DEF op_gc_collect
  <1>17. ASSUME op_exit PROVE FrameInv'
    BY <1>17, <1>3 DEF op_exit, Statuses
  <1>18. ASSUME NEW r, NEW o1, NEW o2, op_concat(r, o1, o2) PROVE FrameInv'
    BY <1>18, <1>10, <1>3 DEF op_concat, Runs, Statuses
  <1>19. ASSUME NEW r, NEW o, NEW index, op_list_nth(r, o, index) PROVE FrameInv'
    BY <1>19, <1>1 DEF op_list_nth, Runs
  <1>20. ASSUME NEW r, NEW o, op_string_slice(r, o) PROVE FrameInv'
    BY <1>20, <1>10, <1>3 DEF op_string_slice, Runs, Statuses
  <1>21. ASSUME NEW r, NEW o, op_to_string(r, o) PROVE FrameInv'
    BY <1>21, <1>10 DEF op_to_string, Runs
  <1>22. ASSUME NEW r, op_file_pwd(r) PROVE FrameInv'
    BY <1>22, <1>10 DEF op_file_pwd, Runs
  <1>23. ASSUME NEW r, NEW o, op_file_ls(r, o) PROVE FrameInv'
    BY <1>23, <1>3 DEF op_file_ls, Runs, Statuses
  <1>24. ASSUME NEW r, NEW o, NEW f, op_code_load(r, o, f) PROVE FrameInv'
    BY <1>24, <1>3 DEF op_code_load, Runs, Statuses
  <1> QED
    BY <1>5, <1>6, <1>7, <1>8, <1>9, <1>11, <1>12, <1>13, <1>14, <1>15, <1>16, <1>17,
       <1>18, <1>19, <1>20, <1>21, <1>22, <1>23, <1>24, FrameInvOpReturn DEF Opcode

\* So does every step that carries on with an opcode in progress.
LEMMA FrameInvWithin ==
  ASSUME FrameInv, Within
  PROVE  FrameInv'
  <1>1. ASSUME NEW s \in Statuses \ {"collect"}, Stop(s), status \notin {"collect", "die"}
        PROVE  FrameInv'
    BY <1>1, FrameInvSame DEF Stop
  <1>2. CASE vm_run_function
    <2>1. CASE Call(0, 1, <<>>)
      BY <1>2, <2>1, <1>1, FrameInvStartCollect DEF vm_run_function, Call, Statuses
    <2>2. CASE Stop("exit")
      BY <1>2, <2>2, <1>1 DEF vm_run_function, Statuses
    <2> QED BY <1>2, <2>1, <2>2 DEF vm_run_function
  <1>3. CASE load_function_miss
    BY <1>3, <1>1 DEF load_function_miss, Statuses
  <1>4. CASE load_function_hit
    <2>1. CASE pending.op = "call" /\ setup_next_stackframe(Named(pending.fn), 0, pending.args, pending.ret)
      BY <1>4, <2>1, FrameInvCall DEF load_function_hit
    <2>2. CASE /\ set_reg(pending.ret, Named(pending.fn))
               /\ status' = "run" /\ UNCHANGED <<currentFrame, scan, calls>>
      BY <1>4, <2>2, FrameInvSet DEF load_function_hit, Statuses
    <2> QED BY <1>4, <2>1, <2>2 DEF load_function_hit
  <1>5. CASE owl_list_push
    <2>1. /\ UNCHANGED <<registers, currentFrame, scan, calls>>
          /\ status = "push" /\ status' \in {"push", "die"}
      BY <1>5 DEF owl_list_push, Die
    <2> QED BY <2>1, FrameInvSame DEF Statuses
  <1>6. CASE ListDone
    BY <1>6, FrameInvSet DEF ListDone, Statuses
  <1>7. CASE ModuleDone
    <2>1. AfterLoad(pending.fn, loaded') \in {"load", "exit"}
      BY DEF AfterLoad
    <2> QED BY <1>7, <2>1, <1>1 DEF ModuleDone, Statuses
  <1>8. CASE AfterCollect
    <2>1. \E r, t : set_reg(r, t)
      BY <1>8 DEF AfterCollect
    <2> QED BY <1>8, <2>1, FrameInvEndCollect DEF AfterCollect
  <1>9. CASE AfterSafepoint
    BY <1>9, FrameInvEndCollect DEF AfterSafepoint
  <1>10. CASE ReadEntry
    <2>1. /\ UNCHANGED <<registers, currentFrame, scan, calls>>
          /\ status = "push" /\ status' \in {"push", "die"}
      BY <1>10 DEF ReadEntry, Die
    <2> QED BY <2>1, FrameInvSame DEF Statuses
  <1> QED
    BY <1>2, <1>3, <1>4, <1>5, <1>6, <1>7, <1>8, <1>9, <1>10,
       FrameInvCollectStep DEF Within

-----------------------------------------------------------------------------
\* The invariant is inductive.
LEMMA FrameInvNext ==
  ASSUME FrameInv, [Next]_vars
  PROVE  FrameInv'
  <1>1. CASE Stopped \/ UNCHANGED vars
    BY <1>1 DEF Stopped, vars, gcVars, FrameInv, FrameShape, CleanAbove, ScanInUse,
                Frames, Regs, Cleared
  <1> QED BY <1>1, FrameInvOpcode, FrameInvWithin DEF Next

\* The registers of every frame above the current one are null, so a function
\* starts with nothing in them but its arguments: no term that an earlier
\* collection did not update can come back to life in a later call
\* (setup_next_stackframe and op_return in opcodes.c, gc_collect in alloc.c).
THEOREM FramesAboveAreClean == Spec => []CleanAbove
  <1>1. Init => FrameInv
    BY FrameInvInit
  <1>2. FrameInv /\ [Next]_vars => FrameInv'
    BY FrameInvNext
  <1>3. FrameInv => CleanAbove
    BY DEF FrameInv
  <1> QED BY <1>1, <1>2, <1>3, PTL DEF Spec
=============================================================================
