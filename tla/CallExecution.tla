--------------------------- MODULE CallExecution ---------------------------
(***************************************************************************)
(* One call of a MiniAPL function from its compilation (TensorCalls) to    *)
(* its execution.  The code of exp is the only one with a loop, which runs *)
(* (Exp) when the call has been compiled, on the cells of its argument and *)
(* with the constant of the call.                                          *)
(***************************************************************************)
EXTENDS TensorCalls, Exp

callvars == <<vars, loopvars>>

CallInit ==
    /\ Init
    /\ LoopInit
    /\ IF call.callee = "exp"
       THEN Len(arg0) = Cells(Dims(1)) /\ call.scalars = <<power>>
       ELSE arg0 = << >>

CompileCall == Next /\ UNCHANGED loopvars

(* FP(): the compiled code runs. *)
RunLoop ==
    /\ call.callee = "exp"
    /\ done = "printed"
    /\ LoopNext
    /\ UNCHANGED vars

CallNext == CompileCall \/ RunLoop

CallSpec == CallInit /\ [][CallNext]_callvars /\ WF_callvars(CallNext)
============================================================================
