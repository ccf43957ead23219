---------------------------- MODULE MCProcSched ----------------------------
(***************************************************************************)
(* ProcSched for TLC: the liveness of system calls, with the fairness they *)
(* need, beside the refinement of TermStacks.                              *)
(***************************************************************************)
EXTENDS ProcStacks

-----------------------------------------------------------------------------
(* Liveness                                                                *)

(* keyboard_handler has no loop that could keep it from returning.  The    *)
(* kernel code of a terminal advances if that terminal keeps being run:    *)
(* key presses are slow, so they cannot stop every instruction for ever.   *)
Fairness ==
    /\ WF_vars(HandlerStep)
    /\ \A t \in Terms : SF_vars(running_terminal = t /\ KernelStep)

FairSpec == Spec /\ Fairness

(* A call of execute or halt is under way on terminal t.                   *)
Busy(t) == Ctx(t).at # "run"

(* Every execute and every halt comes to an end, however often the user    *)
(* switches away in the middle of it, as long as its terminal is shown     *)
(* again and again.                                                        *)
CallsEnd ==
    \A t \in Terms :
        []<>(display_terminal = t) =>
            ((HasCtx(t) /\ Busy(t)) ~> (HasCtx(t) /\ ~Busy(t)))

(* A terminal that is shown without a program gets a shell: at boot, on    *)
(* Alt+Fn, and when its last program halts.                                *)
EmptyTerminalGetsShell ==
    \A t \in Terms :
        (running_terminal = t /\ running_procs[t] < 0) ~> (running_procs[t] >= 0)
=============================================================================
