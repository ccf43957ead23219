----------------------------- MODULE ProcStacks -----------------------------
(***************************************************************************)
(* How the state of ProcSched is read as the stacks of TermStacks: the     *)
(* tables of sched.c and the parents in the PCBs, with what a half-done    *)
(* add_process or delete_process is about to write.                        *)
(***************************************************************************)
EXTENDS ProcSched, Sequences

(* The context that will run when terminal t is shown.                     *)
Ctx(t) == IF t = running_terminal THEN cpu ELSE saved[running_procs[t]]

HasCtx(t) == t = running_terminal \/ running_procs[t] \in Pids

(* term_procs, as add_process will have written it.                        *)
TermOf == [p \in Pids |-> IF cpu.at = "attach" /\ p = cpu.pid
                          THEN running_terminal ELSE term_procs[p]]

(* running_procs, as delete_process will have written it.                  *)
Front == [t \in Terms |-> IF cpu.at = "h_par" /\ t = running_terminal
                          THEN cpu.par ELSE running_procs[t]]

(* The execute that creates p has not come past the points of S.           *)
Starting(p, S) ==
    /\ TermOf[p] \in Terms
    /\ Front[TermOf[p]] = p
    /\ Ctx(TermOf[p]).at \in S

(* par_p_id, as Load will have written it: until then the parent is still  *)
(* a local variable of the execute that creates p.                         *)
ParOf == [p \in Pids |-> IF Starting(p, {"attach", "load"})
                         THEN Ctx(TermOf[p]).par ELSE par_p_id[p]]

-----------------------------------------------------------------------------
(* s runs from a process without a parent up to f, from parent to child.   *)
Lineage(s, P, f) ==
    /\ f = IF s = <<>> THEN NoPid ELSE s[Len(s)]
    /\ \A i \in 1 .. Len(s) : P[s[i]] = IF i = 1 THEN NoPid ELSE s[i - 1]

(* There are no more processes than slots.                                 *)
Lineages == UNION {[1 .. n -> Pids] : n \in 0 .. MAX_DEVICES}

LineageOf(P, f) == CHOOSE s \in Lineages : Lineage(s, P, f)

(* The processes of terminal t, from the first shell to the foremost.      *)
StackOf(t) == LineageOf(ParOf, Front[t])

Abstract == INSTANCE TermStacks WITH stacks <- [t \in Terms |-> StackOf(t)],
                                     shown <- display_terminal

(* With interrupts only at the safe points, execute, halt and the keyboard *)
(* handler together behave as stacks of programs, one per terminal, with   *)
(* no process on two of them.                                              *)
ImplementsStacks == Abstract!Spec
=============================================================================
