-------------------------- MODULE ProcSched_proofs --------------------------
(***************************************************************************)
(* Proofs about ProcSched, for any number of process slots and terminals.  *)
(***************************************************************************)
EXTENDS ProcSched, FiniteSetTheorems, TLAPS

-----------------------------------------------------------------------------
(* Type correctness, for every choice of interruptible points.             *)

(* What a context's locals hold at the points that use them.               *)
CtxOK(c) ==
    /\ c.at \in {"take", "attach", "load", "tss", "save", "iret"} \cup HaltPoints
         => c.pid \in Pids
    /\ c.at \in {"h_map", "h_tss"} => c.par \in Pids
    /\ c.at \in {"h_del", "h_par"} /\ c.par >= 0 => c.esp \in Pids
    /\ c.at = "h_close" => c.esp \in Pids

(* The running terminal has a foremost process, except while its last      *)
(* program is being replaced or its first one is being started.            *)
HasForemost ==
    \/ Foremost \in Pids
    \/ cpu.at \in {"x_ret", "h_close", "take"}
    \/ cpu.at \in {"add", "scan"} /\ cpu.par < 0

TypeInv ==
    /\ TypeOK
    /\ DisplayedIsRunning
    /\ HasForemost
    /\ CtxOK(cpu)
    /\ \A p \in Pids : CtxOK(saved[p])

(* The points are the strings listed.                                      *)
LEMMA SizeFacts ==
    /\ MAX_DEVICES \in Nat \ {0}
    /\ MAX_TERMINAL_NUM \in Nat \ {0}
    /\ 0 \in Pids
    /\ 0 \in Terms
    /\ Pids \subseteq Nat
    /\ Terms \subseteq Nat
    /\ -1 \notin Terms
    /\ \A x \in PidOrNone : (x >= 0 <=> x \in Pids) /\ (x < 0 <=> x = NoPid)
BY SizeAssumption DEF Pids, Terms, PidOrNone, NoPid

(* Contexts built by execute and by the return to user mode.               *)
LEMMA NewContexts ==
    /\ \A s \in Pids : Running(s) \in Context /\ CtxOK(Running(s))
    /\ \A s \in Pids, p \in PidOrNone, i \in BOOLEAN :
          StartShell(s, p, i) \in Context /\ CtxOK(StartShell(s, p, i))
BY DEF Running, StartShell, Context, CtxOK, Labels, ExecPoints, HaltPoints,
       PidOrNone, NoPid

LEMMA TypeInit == Init => TypeInv
<1> SUFFICES ASSUME Init PROVE TypeInv
  OBVIOUS
<1> USE SizeFacts DEF Init
<1>1. cpu \in Context /\ CtxOK(cpu)
  BY NewContexts, Zenon DEF PidOrNone
<1>2. \A p \in Pids : saved[p] \in Context /\ CtxOK(saved[p])
  BY NewContexts
<1>3. TypeOK
  BY <1>1, <1>2, Zenon DEF TypeOK, PidOrNone, VIDEO
<1>4. HasForemost
  BY DEF HasForemost, StartShell, NoPid
<1> QED
  BY <1>1, <1>2, <1>3, <1>4, Zenon DEF TypeInv, DisplayedIsRunning

(* A context that only moves to another point keeps its locals.            *)
LEMMA MoveContext ==
    ASSUME NEW c \in Context, NEW l \in Labels
    PROVE  /\ [c EXCEPT !.at = l] \in Context
           /\ [c EXCEPT !.at = l].at = l
           /\ [c EXCEPT !.at = l].pid = c.pid
           /\ [c EXCEPT !.at = l].par = c.par
           /\ [c EXCEPT !.at = l].esp = c.esp
           /\ [c EXCEPT !.at = l].stk = c.stk
BY DEF Context

(* execute gives up only with the types of the scheduler intact.           *)
LEMMA GiveUpType ==
    ASSUME TypeInv, GiveUp, cpu.at \in {"add", "scan"}
    PROVE  /\ cpu' \in Context /\ CtxOK(cpu')
           /\ fault' \in {"none", "no_shell", "page_fault"}
           /\ Foremost \in Pids \/ cpu' = cpu
<1> USE DEF TypeInv, TypeOK
<1>1. CASE cpu.par >= 0
  <2>1. cpu' = Running(esp0) /\ fault' = fault
    BY <1>1 DEF GiveUp
  <2>2. Foremost \in Pids
    BY <1>1, SizeFacts DEF HasForemost, Context, NoPid
  <2> QED
    BY <2>1, <2>2, NewContexts
<1>2. CASE ~(cpu.par >= 0)
  BY <1>2 DEF GiveUp
<1> QED
  BY <1>1, <1>2

(* switch_running_terminal keeps the types, whoever calls it.              *)
LEMMA SwitchType ==
    ASSUME TypeInv, NEW t \in Terms, SwitchToProc(t, t)
    PROVE  /\ running_procs[t] \in Pids
           /\ running_terminal' = t
           /\ saved' \in [Pids -> Context] /\ \A p \in Pids : CtxOK(saved'[p])
           /\ cpu' \in Context /\ CtxOK(cpu')
           /\ upage' \in PidOrNone /\ esp0' \in Pids
           /\ video_mem' \in Terms \cup {VIDEO, BadAddr}
           /\ fault' \in {"none", "no_shell", "page_fault"}
<1> USE SizeFacts DEF TypeInv, TypeOK
<1> DEFINE cur == running_procs[running_terminal]
           nxt == running_procs[t]
<1>1. nxt \in Pids /\ running_terminal' = t
  BY DEF SwitchToProc
<1>2. CASE cur < 0
  BY <1>1, <1>2 DEF SwitchToProc
<1>3. CASE ~(cur < 0)
  <2>1. cur \in Pids
    BY <1>3 DEF PidOrNone, NoPid
  <2>2. /\ saved' = [saved EXCEPT ![cur] = cpu]
        /\ upage' = nxt
        /\ video_mem' = IF term_procs[nxt] = t THEN VIDEO
                        ELSE get_term_vid_addr(term_procs[nxt])
        /\ esp0' = saved'[nxt].stk
        /\ cpu' = saved'[nxt]
        /\ fault' = fault
    BY <1>3 DEF SwitchToProc
  <2>3. saved' \in [Pids -> Context] /\ \A p \in Pids : CtxOK(saved'[p])
    BY <2>1, <2>2
  <2>4. esp0' \in Pids
    BY <1>1, <2>2, <2>3, Zenon DEF Context
  <2>5. video_mem' \in Terms \cup {VIDEO, BadAddr}
    BY <2>2, Zenon DEF get_term_vid_addr
  <2> QED
    BY <1>1, <2>2, <2>3, <2>4, <2>5 DEF PidOrNone
<1> QED
  BY <1>2, <1>3

LEMMA TypeStep == TypeInv /\ [Next]_vars => TypeInv'
<1> SUFFICES ASSUME TypeInv, [Next]_vars PROVE TypeInv'
  OBVIOUS
<1> USE SizeFacts DEF TypeInv, TypeOK, At, DisplayedIsRunning
<1> USE DEF procVars, memVars, termVars, irqVars, vars
<1>1. CASE Execute
  <2> USE <1>1 DEF Execute
  <2>1. cpu' \in Context
    BY Zenon DEF Context, Labels, ExecPoints
  <2>2. CtxOK(cpu')
    BY DEF Context, CtxOK, HaltPoints
  <2>3. HasForemost'
    BY DEF HasForemost, Foremost
  <2> QED
    BY <2>1, <2>2, <2>3
<1>2. CASE CheckRoom
  <2> USE <1>2 DEF CheckRoom
  <2>1. CASE GiveUp
    <3>1. /\ cpu' \in Context /\ CtxOK(cpu')
          /\ fault' \in {"none", "no_shell", "page_fault"}
          /\ Foremost \in Pids \/ cpu' = cpu
      BY <2>1, GiveUpType
    <3>2. HasForemost'
      BY <3>1 DEF HasForemost, Foremost
    <3> QED
      BY <3>1, <3>2
  <2>2. CASE Goto("scan") /\ UNCHANGED fault
    <3>1. cpu' \in Context /\ CtxOK(cpu')
      BY <2>2 DEF Goto, Context, CtxOK, Labels, ExecPoints, HaltPoints
    <3>2. HasForemost'
      BY <2>2 DEF HasForemost, Foremost, Goto, Context
    <3> QED
      BY <2>2, <3>1, <3>2
  <2> QED
    BY <2>1, <2>2
<1>3. CASE ScanSlots
  <2> USE <1>3 DEF ScanSlots
  <2>1. CASE GiveUp
    <3>1. /\ cpu' \in Context /\ CtxOK(cpu')
          /\ fault' \in {"none", "no_shell", "page_fault"}
          /\ Foremost \in Pids \/ cpu' = cpu
      BY <2>1, GiveUpType, Zenon
    <3>2. HasForemost'
      BY <3>1, Zenon DEF HasForemost, Foremost
    <3> QED
      BY <3>1, <3>2, Zenon
  <2>2. ASSUME NEW i \in FreeSlots,
               cpu' = [cpu EXCEPT !.at = "take", !.pid = i], UNCHANGED fault
        PROVE  TypeInv'
    <3>1. i \in Pids
      BY Zenon DEF FreeSlots
    <3>2. cpu' \in Context /\ CtxOK(cpu')
      BY <2>2, <3>1, Zenon DEF Context, CtxOK, Labels, ExecPoints, HaltPoints, PidOrNone
    <3>3. HasForemost'
      BY <2>2, Zenon DEF HasForemost, Context
    <3> QED
      BY <2>2, <3>2, <3>3, Zenon
  <2> QED
    BY <2>1, <2>2, Zenon
<1>4. CASE TakeSlot
  <2> USE <1>4 DEF TakeSlot
  <2>1. cpu' \in Context /\ CtxOK(cpu')
    BY DEF Goto, Context, CtxOK, Labels, ExecPoints, HaltPoints
  <2>2. HasForemost'
    BY DEF HasForemost, Foremost, CtxOK
  <2> QED
    BY <2>1, <2>2 DEF CtxOK, PidOrNone
<1>5. CASE Attach
  <2> USE <1>5 DEF Attach
  <2>1. cpu' \in Context /\ CtxOK(cpu')
    BY DEF Goto, Context, CtxOK, Labels, ExecPoints, HaltPoints
  <2>2. HasForemost'
    BY DEF HasForemost, Foremost, Goto, Context
  <2> QED
    BY <2>1, <2>2, Zenon
<1>6. CASE Load
  <2> USE <1>6 DEF Load
  <2>1. cpu' \in Context /\ CtxOK(cpu')
    BY DEF Goto, Context, CtxOK, Labels, ExecPoints, HaltPoints
  <2>2. HasForemost'
    BY DEF HasForemost, Foremost, Goto, Context
  <2> QED
    BY <2>1, <2>2 DEF CtxOK, PidOrNone, Context
<1>7. CASE SetTss
  <2> USE <1>7 DEF SetTss
  <2>1. cpu' \in Context /\ CtxOK(cpu')
    BY DEF Goto, Context, CtxOK, Labels, ExecPoints, HaltPoints
  <2>2. HasForemost'
    BY DEF HasForemost, Foremost, Goto, Context
  <2> QED
    BY <2>1, <2>2 DEF CtxOK
<1>8. CASE SaveParent
  <2> USE <1>8 DEF SaveParent
  <2>1. cpu' \in Context /\ CtxOK(cpu')
    BY DEF Goto, Context, CtxOK, Labels, ExecPoints, HaltPoints
  <2>2. HasForemost'
    BY DEF HasForemost, Foremost, Goto, Context
  <2>3. [cpu EXCEPT !.at = "x_ret"] \in Context /\ CtxOK([cpu EXCEPT !.at = "x_ret"])
    BY DEF Context, CtxOK, Labels, HaltPoints
  <2>4. saved' \in [Pids -> Context] /\ \A p \in Pids : CtxOK(saved'[p])
    BY <2>3, Zenon
  <2> QED
    BY <2>1, <2>2, <2>4
<1>9. CASE Iret
  BY <1>9, NewContexts, Zenon DEF Iret, HasForemost, Foremost, Running
<1>10. CASE ExecRet
  <2> USE <1>10 DEF ExecRet
  <2>1. cpu' \in Context /\ CtxOK(cpu')
    <3>1. running_procs[running_terminal] \in PidOrNone /\ cpu.stk \in Pids
          /\ cpu.ints \in BOOLEAN
      BY DEF Context
    <3>2. CASE running_procs[display_terminal] < 0
      BY <3>1, <3>2, NewContexts, Zenon
    <3>3. CASE ~(running_procs[display_terminal] < 0)
      BY <3>3, NewContexts
    <3> QED
      BY <3>2, <3>3
  <2>2. HasForemost'
    <3>1. CASE running_procs[display_terminal] < 0
      <4>1. cpu'.at = "add" /\ cpu'.par < 0
        BY <3>1 DEF StartShell
      <4> QED
        BY <4>1 DEF HasForemost
    <3>2. CASE ~(running_procs[display_terminal] < 0)
      <4>1. running_procs[running_terminal] \in Pids
        BY <3>2 DEF PidOrNone, NoPid
      <4> QED
        BY <4>1 DEF HasForemost, Foremost
    <3> QED
      BY <3>1, <3>2
  <2> QED
    BY <2>1, <2>2
<1>11. CASE Halt
  <2> USE <1>11 DEF Halt
  <2>1. Foremost \in Pids
    BY DEF HasForemost
  <2>2. par_p_id[Foremost] \in PidOrNone
    BY <2>1
  <2>3. cpu' = [cpu EXCEPT !.at = IF par_p_id[Foremost] >= 0 THEN "h_map" ELSE "h_del",
                           !.pid = Foremost, !.par = par_p_id[Foremost]]
    BY DEF Foremost
  <2>4. cpu' \in Context /\ CtxOK(cpu')
    BY <2>1, <2>2, <2>3, Zenon DEF Context, CtxOK, Labels, HaltPoints, PidOrNone
  <2>5. HasForemost'
    BY <2>1 DEF HasForemost, Foremost
  <2> QED
    BY <2>4, <2>5
<1>12. CASE MapParent
  <2> USE <1>12 DEF MapParent
  <2>1. cpu' \in Context /\ CtxOK(cpu')
    BY DEF Goto, Context, CtxOK, Labels, ExecPoints, HaltPoints
  <2>2. HasForemost'
    BY DEF HasForemost, Foremost, Goto, Context
  <2> QED
    BY <2>1, <2>2 DEF CtxOK, PidOrNone
<1>13. CASE ParentTss
  <2> USE <1>13 DEF ParentTss
  <2>1. cpu.par \in Pids
    BY DEF CtxOK
  <2>2. saved[cpu.par].stk \in Pids
    BY <2>1 DEF Context
  <2>3. cpu' \in Context /\ CtxOK(cpu')
    BY <2>2, Zenon DEF Context, CtxOK, Labels, HaltPoints, PidOrNone
  <2>4. HasForemost'
    BY DEF HasForemost, Foremost
  <2> QED
    BY <2>1, <2>3, <2>4
<1>14. CASE FreeSlot
  <2> USE <1>14 DEF FreeSlot
  <2>1. cpu' \in Context /\ CtxOK(cpu')
    BY DEF Goto, Context, CtxOK, Labels, ExecPoints, HaltPoints
  <2>2. HasForemost'
    BY DEF HasForemost, Foremost, Goto, Context
  <2> QED
    BY <2>1, <2>2, Zenon
<1>15. CASE ForemostIsParent
  <2> USE <1>15 DEF ForemostIsParent
  <2>1. cpu' \in Context /\ CtxOK(cpu')
    BY DEF Goto, Context, CtxOK, Labels, ExecPoints, HaltPoints
  <2>2. HasForemost'
    BY DEF HasForemost, Goto, Context
  <2> QED
    BY <2>1, <2>2, Zenon DEF CtxOK, HaltPoints
<1>16. CASE ResumeParent
  <2> USE <1>16 DEF ResumeParent
  <2>1. cpu' \in Context /\ CtxOK(cpu')
    BY Zenon DEF Goto, Context, CtxOK, Labels, ExecPoints, HaltPoints, PidOrNone
  <2>2. HasForemost'
    BY DEF HasForemost, Foremost, Goto, Context
  <2> QED
    BY <2>1, <2>2
<1>17. CASE KeyIrq
  <2> USE <1>17 DEF KeyIrq
  <2>1. CASE SwitchToEmpty(display_terminal, display_terminal) /\ UNCHANGED cpu
    <3>1. HasForemost'
      BY <2>1 DEF HasForemost, Foremost, SwitchToEmpty
    <3> QED
      BY <2>1, <3>1 DEF SwitchToEmpty
  <2>2. CASE SwitchToProc(display_terminal, display_terminal)
    BY <2>2, SwitchType DEF HasForemost, Foremost
  <2> QED
    BY <2>1, <2>2
<1>18. CASE KeyOther
  BY <1>18, Zenon DEF KeyOther, HasForemost, Foremost
<1>19. ASSUME NEW t \in Terms, KeyAltFn(t) PROVE TypeInv'
  <2> USE <1>19 DEF KeyAltFn
  <2>1. CASE /\ SwitchToEmpty(t, t)
             /\ cpu' = StartShell(cpu.stk, running_procs[t], FALSE)
             /\ in_service' = (t = 0)
    <3> USE <2>1 DEF SwitchToEmpty
    <3>1. running_procs[t] \in PidOrNone /\ cpu.stk \in Pids
      BY DEF Context
    <3>2. cpu' \in Context /\ CtxOK(cpu')
      BY <3>1, NewContexts, Zenon
    <3>3. HasForemost'
      BY DEF HasForemost, StartShell
    <3>4. in_service' \in BOOLEAN
      OBVIOUS
    <3>5. video_mem' = VIDEO
      OBVIOUS
    <3> QED
      BY <3>2, <3>3, <3>4, <3>5, Zenon
  <2>2. CASE SwitchToProc(t, t) /\ in_service' = FALSE
    BY <2>2, SwitchType, Zenon DEF HasForemost, Foremost
  <2> QED
    BY <2>1, <2>2, Zenon
<1>20. CASE Frozen \/ UNCHANGED vars
  BY <1>20 DEF Frozen, HasForemost, Foremost
<1> QED
  BY <1>1, <1>2, <1>3, <1>4, <1>5, <1>6, <1>7, <1>8, <1>9, <1>10, <1>11, <1>12,
     <1>13, <1>14, <1>15, <1>16, <1>17, <1>18, <1>19, <1>20
     DEF Next, ProgramStep, KernelStep, ExecuteStep, HaltStep, HandlerStep

(* Every variable of the scheduler keeps its type, wherever key presses    *)
(* interrupt execute and halt.                                             *)
THEOREM TypeCorrect == Spec => []TypeOK
<1>1. TypeInv => TypeOK
  BY DEF TypeInv
<1> QED
  BY <1>1, TypeInit, TypeStep, PTL DEF Spec

(* The CPU runs the terminal that is shown, wherever key presses interrupt *)
(* execute and halt.                                                       *)
THEOREM RunsDisplayed == Spec => []DisplayedIsRunning
<1>1. TypeInv => DisplayedIsRunning
  BY DEF TypeInv
<1> QED
  BY <1>1, TypeInit, TypeStep, PTL DEF Spec

(* A running program always has a PCB: get_current_PCB never follows -1    *)
(* on behalf of a program.                                                 *)
THEOREM ProgramsHavePcb == Spec => []ProgramHasPcb
<1>1. TypeInv => ProgramHasPcb
  BY DEF TypeInv, HasForemost, ProgramHasPcb, UserMode
<1> QED
  BY <1>1, TypeInit, TypeStep, PTL DEF Spec

(* No step changes which process is foremost on a terminal that is not     *)
(* running.                                                                *)
THEOREM NoInterference == Spec => OthersUndisturbed
<1>1. TypeInv /\ [Next]_vars
        => [\A t \in Terms \ {running_terminal} :
               running_procs'[t] = running_procs[t]]_vars
  <2> SUFFICES ASSUME TypeInv, Next, NEW t \in Terms \ {running_terminal}
               PROVE  running_procs'[t] = running_procs[t]
    OBVIOUS
  <2>1. CASE TakeSlot \/ ForemostIsParent
    BY <2>1 DEF TypeInv, TypeOK, DisplayedIsRunning, TakeSlot, ForemostIsParent
  <2>2. CASE ~(TakeSlot \/ ForemostIsParent)
    BY <2>2, Zenon DEF Next, ProgramStep, KernelStep, ExecuteStep, HaltStep, HandlerStep,
        Execute, Halt, CheckRoom, ScanSlots, Attach, Load, SetTss, SaveParent,
        Iret, ExecRet, MapParent, ParentTss, FreeSlot, ResumeParent, KeyIrq,
        KeyOther, KeyAltFn, Frozen, procVars, vars
  <2> QED
    BY <2>1, <2>2
<1> QED
  BY <1>1, TypeInit, TypeStep, PTL DEF Spec, OthersUndisturbed

-----------------------------------------------------------------------------
(* The slots kept back for shells, when add_process and delete_process     *)
(* are not interrupted while they hold the slot table.                     *)

(* add_process may still claim a slot for the running terminal.            *)
Room == ProcsOn(running_terminal) = {} \/ num_procs_virt < MAX_DEVICES

(* No context is suspended while it holds the slot table.                  *)
NoneSuspended ==
    /\ \A p \in Pids : saved[p].at \notin SlotPoints
    /\ kbd = "handle" => cpu.at \notin SlotPoints

(* procs and term_procs agree, except on the slot being claimed.           *)
TablesAgree ==
    /\ \A p \in Pids :
          (procs[p] = 1 <=> term_procs[p] \in Terms) \/ (cpu.at = "attach" /\ cpu.pid = p)
    /\ cpu.at = "take" => procs[cpu.pid] = 0
    /\ cpu.at = "attach" => procs[cpu.pid] = 1 /\ term_procs[cpu.pid] = -1
    /\ cpu.at = "h_par" => procs[cpu.pid] = 0

SlotInv ==
    /\ NoneSuspended
    /\ TablesAgree
    /\ cpu.at \in ClaimPoints => Room
    /\ ShellReserve

(* The processes that have a terminal, and the terminals that have none.   *)
Attached == {p \in Pids : term_procs[p] >= 0}
EmptyTerms == {t \in Terms : ProcsOn(t) = {}}

LEMMA CountFacts ==
    /\ IsFiniteSet(Pids) /\ Cardinality(Pids) = MAX_DEVICES
    /\ IsFiniteSet(Terms) /\ Cardinality(Terms) = MAX_TERMINAL_NUM
    /\ IsFiniteSet(Attached) /\ Cardinality(Attached) \in Nat
    /\ IsFiniteSet(EmptyTerms) /\ Cardinality(EmptyTerms) \in Nat
    /\ num_procs_virt = Cardinality(Attached) + Cardinality(EmptyTerms)
<1>1. IsFiniteSet(Pids) /\ Cardinality(Pids) = MAX_DEVICES
  BY SizeFacts, FS_Interval DEF Pids
<1>2. IsFiniteSet(Terms) /\ Cardinality(Terms) = MAX_TERMINAL_NUM
  BY SizeFacts, FS_Interval DEF Terms
<1>3. IsFiniteSet(Attached) /\ IsFiniteSet(EmptyTerms)
  <2>1. Attached \subseteq Pids /\ EmptyTerms \subseteq Terms
    BY DEF Attached, EmptyTerms
  <2> QED
    BY <1>1, <1>2, <2>1, FS_Subset
<1>4. num_procs_virt = Cardinality(Attached) + Cardinality(EmptyTerms)
  BY DEF num_procs_virt, Attached, EmptyTerms
<1> QED
  BY <1>1, <1>2, <1>3, <1>4, FS_CardinalityType

(* A process that gets a terminal costs at most one place, and none when   *)
(* the terminal was empty.                                                 *)
LEMMA AttachCount ==
    ASSUME TypeOK, Attach, cpu.pid \in Pids, term_procs[cpu.pid] = -1, Room, ShellReserve
    PROVE  ShellReserve'
<1> USE SizeFacts DEF TypeOK, Attach
<1> DEFINE q == cpu.pid
           t == running_terminal
<1>1. Attached' = Attached \cup {q} /\ q \notin Attached
  BY DEF Attached
<1>2. Cardinality(Attached') = Cardinality(Attached) + 1
  BY <1>1, CountFacts, FS_AddElement, Zenon
<1>3. EmptyTerms' = EmptyTerms \ {t}
  <2>1. \A u \in Terms : ProcsOn(u)' = IF u = t THEN ProcsOn(u) \cup {q} ELSE ProcsOn(u)
    BY DEF ProcsOn
  <2> QED
    BY <2>1, Zenon DEF EmptyTerms
<1>4. num_procs_virt' = Cardinality(Attached') + Cardinality(EmptyTerms')
  BY DEF num_procs_virt, Attached, EmptyTerms
<1>5. CASE ProcsOn(t) = {}
  <2>1. Cardinality(EmptyTerms') = Cardinality(EmptyTerms) - 1
    <3>1. t \in EmptyTerms
      BY <1>5 DEF EmptyTerms
    <3> HIDE DEF TypeOK, Attach
    <3> QED
      BY <1>3, <3>1, CountFacts, FS_RemoveElement, Zenon
  <2> QED
    BY <1>2, <1>4, <2>1, CountFacts DEF ShellReserve
<1>6. CASE ProcsOn(t) # {}
  <2>1. EmptyTerms' = EmptyTerms
    BY <1>3, <1>6 DEF EmptyTerms
  <2> QED
    BY <1>2, <1>4, <1>6, <2>1, CountFacts DEF ShellReserve, Room
<1> QED
  BY <1>5, <1>6

(* A process that loses its terminal frees a place, or leaves it to the    *)
(* shell its terminal now needs.                                           *)
LEMMA DetachCount ==
    ASSUME TypeOK, NEW q \in Pids, term_procs' = [term_procs EXCEPT ![q] = -1], ShellReserve
    PROVE  ShellReserve'
<1> USE SizeFacts DEF TypeOK
<1> DEFINE t == term_procs[q]
<1>1. CASE t = -1
  <2>1. term_procs' = term_procs
    BY <1>1
  <2> QED
    BY <2>1 DEF ShellReserve, num_procs_virt, ProcsOn
<1>2. CASE t # -1
  <2>1. t \in Terms
    BY <1>2
  <2>2. Attached' = Attached \ {q} /\ q \in Attached
    <3>1. \A p \in Pids : term_procs'[p] = IF p = q THEN -1 ELSE term_procs[p]
      OBVIOUS
    <3>2. q \in Attached
      <4>1. term_procs[q] \in Nat
        BY <2>1, Zenon
      <4> HIDE DEF TypeOK
      <4> QED
        BY <4>1 DEF Attached
    <3>3. \A p \in Pids : term_procs'[p] >= 0 <=> term_procs[p] >= 0 /\ p # q
      BY <3>1
    <3> HIDE DEF TypeOK
    <3> QED
      BY <3>2, <3>3 DEF Attached
  <2>3. Cardinality(Attached') = Cardinality(Attached) - 1
    BY <2>2, CountFacts, FS_RemoveElement, Zenon
  <2>4. EmptyTerms' \subseteq EmptyTerms \cup {t}
    BY DEF EmptyTerms, ProcsOn
  <2>5. /\ IsFiniteSet(EmptyTerms \cup {t})
        /\ Cardinality(EmptyTerms \cup {t}) <= Cardinality(EmptyTerms) + 1
    <3> HIDE DEF TypeOK
    <3>1. /\ IsFiniteSet(EmptyTerms \cup {t})
          /\ Cardinality(EmptyTerms \cup {t})
               = IF t \in EmptyTerms THEN Cardinality(EmptyTerms)
                 ELSE Cardinality(EmptyTerms) + 1
      BY CountFacts, FS_AddElement, Zenon
    <3> QED
      BY <3>1, CountFacts
  <2>6. Cardinality(EmptyTerms') <= Cardinality(EmptyTerms \cup {t})
    BY <2>4, <2>5, FS_Subset
  <2>7. num_procs_virt' = Cardinality(Attached') + Cardinality(EmptyTerms')
    BY DEF num_procs_virt, Attached, EmptyTerms
  <2>8. /\ Cardinality(EmptyTerms') \in Nat
        /\ Cardinality(EmptyTerms \cup {t}) \in Nat
    BY <2>4, <2>5, FS_Subset, FS_CardinalityType
  <2> QED
    BY <2>3, <2>5, <2>6, <2>7, <2>8, CountFacts DEF ShellReserve
<1> QED
  BY <1>1, <1>2

LEMMA SlotInit == Init => SlotInv
<1> SUFFICES ASSUME Init PROVE SlotInv
  OBVIOUS
<1> USE SizeFacts DEF Init
<1>1. NoneSuspended
  BY DEF NoneSuspended, Running, SlotPoints, ClaimPoints
<1>2. cpu.at = "add"
  BY DEF StartShell
<1>3. TablesAgree
  <2>1. \A p \in Pids : procs[p] # 1 /\ term_procs[p] \notin Terms
    OBVIOUS
  <2> QED
    BY <1>2, <2>1, Zenon DEF TablesAgree
<1>4. ShellReserve
  <2>1. Attached = {}
    BY DEF Attached
  <2>2. EmptyTerms \subseteq Terms
    BY DEF EmptyTerms
  <2>3. Cardinality(EmptyTerms) <= MAX_TERMINAL_NUM
    BY <2>2, CountFacts, FS_Subset, Zenon
  <2>4. Cardinality(Attached) = 0
    BY <2>1, FS_EmptySet
  <2> QED
    BY <2>3, <2>4, CountFacts, SizeAssumption DEF ShellReserve
<1> QED
  BY <1>1, <1>2, <1>3, <1>4, Zenon DEF SlotInv, ClaimPoints

(* The steps that leave both tables and the running terminal alone keep    *)
(* the counts.                                                             *)
LEMMA SameCounts ==
    ASSUME term_procs' = term_procs
    PROVE  /\ num_procs_virt' = num_procs_virt
           /\ \A t \in Terms : ProcsOn(t)' = ProcsOn(t)
           /\ ShellReserve => ShellReserve'
           /\ Room /\ running_terminal' = running_terminal => Room'
BY DEF num_procs_virt, ProcsOn, ShellReserve, Room

(* An interrupt never finds the slot table in use.                         *)
LEMMA IrqOutside ==
    ASSUME KeyPoints \subseteq OpenPoints, KeyIrq
    PROVE  cpu.at \notin SlotPoints
BY DEF KeyIrq, PointOf, OpenPoints, Points, SlotPoints, ClaimPoints

(* A step inside execute or halt that does not touch the tables and ends   *)
(* at a point that promises nothing about them.                            *)
LEMMA QuietStep ==
    ASSUME TypeInv, SlotInv, kbd = "idle", kbd' = "idle",
           procs' = procs, term_procs' = term_procs,
           saved' = saved, cpu.at # "attach", cpu'.at \notin SlotPoints
    PROVE  SlotInv'
<1>1. NoneSuspended'
  BY DEF SlotInv, NoneSuspended
<1>2. cpu'.at \notin {"take", "attach", "h_par"}
  BY DEF SlotPoints, ClaimPoints
<1>3. TablesAgree'
  BY <1>2 DEF SlotInv, TablesAgree
<1>4. ShellReserve' /\ cpu'.at \notin ClaimPoints
  BY SameCounts DEF SlotInv, SlotPoints
<1> QED
  BY <1>1, <1>3, <1>4 DEF SlotInv

(* A switch between terminals that finds the slot table at rest.           *)
LEMMA SwitchOutside ==
    ASSUME TypeInv, SlotInv, NEW t \in Terms, SwitchToProc(t, t),
           cpu.at \notin SlotPoints, procs' = procs, term_procs' = term_procs
    PROVE  SlotInv'
<1>1. \A p \in Pids : saved'[p] = saved[p] \/ saved'[p] = cpu
  BY DEF SwitchToProc, TypeInv, TypeOK
<1>2. running_procs[t] \in Pids
  BY SwitchType
<1>3. cpu' = cpu \/ cpu' = saved'[running_procs[t]]
  BY DEF SwitchToProc
<1>4. (\A p \in Pids : saved'[p].at \notin SlotPoints) /\ cpu'.at \notin SlotPoints
  BY <1>1, <1>2, <1>3 DEF SlotInv, NoneSuspended
<1>5. NoneSuspended'
  BY <1>4 DEF NoneSuspended
<1>6. TablesAgree'
  BY <1>4 DEF SlotInv, TablesAgree, SlotPoints, ClaimPoints
<1> QED
  BY <1>4, <1>5, <1>6, SameCounts DEF SlotInv, SlotPoints

LEMMA SlotStep ==
    ASSUME KeyPoints \subseteq OpenPoints
    PROVE  TypeInv /\ SlotInv /\ [Next]_vars => SlotInv'
<1> SUFFICES ASSUME TypeInv, SlotInv, [Next]_vars PROVE SlotInv'
  OBVIOUS
<1> USE DEF At, procVars, memVars, termVars, irqVars, vars
<1>a. cpu \in Context /\ esp0 \in Pids
  BY DEF TypeInv, TypeOK
<1>1. CASE Execute
  BY <1>1, <1>a, QuietStep DEF Execute, Context, SlotPoints, ClaimPoints
<1>2. CASE CheckRoom
  <2> USE <1>2 DEF CheckRoom
  <2>1. CASE GiveUp
    <3>1. cpu'.at \in {"add", "run"}
      BY <2>1 DEF GiveUp, Running
    <3> QED
      BY <3>1, QuietStep DEF SlotPoints, ClaimPoints
  <2>2. CASE ~(ProcsOn(running_terminal) # {} /\ num_procs_virt >= MAX_DEVICES)
    <3>1. cpu'.at = "scan"
      BY <1>a, <2>2 DEF Goto, Context
    <3>2. Room
      BY <2>2, CountFacts, SizeFacts DEF Room
    <3>3. Room' /\ ShellReserve'
      BY <3>2, SameCounts DEF SlotInv
    <3> QED
      BY <3>1, <3>3 DEF SlotInv, NoneSuspended, TablesAgree
  <2> QED
    BY <2>1, <2>2
<1>3. CASE ScanSlots
  <2> USE <1>3 DEF ScanSlots
  <2>1. CASE GiveUp
    <3>1. cpu' = Running(esp0) \/ cpu' = cpu
      BY <2>1, Zenon DEF GiveUp
    <3>2. CASE cpu' = Running(esp0)
      BY <3>2, QuietStep, Zenon DEF SlotPoints, ClaimPoints, Running
    <3>3. CASE cpu' = cpu
      BY <3>3, SameCounts, Zenon DEF SlotInv, NoneSuspended, TablesAgree
    <3> QED
      BY <3>1, <3>2, <3>3, Zenon
  <2>2. ASSUME NEW i \in FreeSlots, cpu' = [cpu EXCEPT !.at = "take", !.pid = i]
        PROVE  SlotInv'
    <3>1. cpu'.at = "take" /\ cpu'.pid = i /\ procs[i] = 0
      BY <1>a, <2>2, Zenon DEF Context, FreeSlots
    <3>2. Room' /\ ShellReserve'
      BY SameCounts, Zenon DEF SlotInv, ClaimPoints
    <3> QED
      BY <3>1, <3>2, Zenon DEF SlotInv, NoneSuspended, TablesAgree
  <2> QED
    BY <2>1, <2>2, Zenon
<1>4. CASE TakeSlot
  <2> USE <1>4 DEF TakeSlot
  <2>1. cpu'.at = "attach" /\ cpu'.pid = cpu.pid /\ cpu.pid \in Pids
    BY <1>a DEF Goto, Context, TypeInv, CtxOK
  <2>2. \A p \in Pids : procs'[p] = IF p = cpu.pid THEN 1 ELSE procs[p]
    BY DEF TypeInv, TypeOK
  <2>3. term_procs[cpu.pid] = -1
    BY <2>1 DEF TypeInv, TypeOK, SlotInv, TablesAgree
  <2>4. TablesAgree'
    BY <2>1, <2>2, <2>3 DEF SlotInv, TablesAgree
  <2>5. Room' /\ ShellReserve'
    BY SameCounts DEF SlotInv, ClaimPoints
  <2> QED
    BY <2>4, <2>5 DEF SlotInv, NoneSuspended
<1>5. CASE Attach
  <2> USE <1>5 DEF Attach
  <2>1. cpu'.at = "load" /\ cpu.pid \in Pids /\ running_terminal \in Terms
    BY <1>a DEF Goto, Context, TypeInv, TypeOK, CtxOK
  <2>2. \A p \in Pids :
          term_procs'[p] = IF p = cpu.pid THEN running_terminal ELSE term_procs[p]
    BY DEF TypeInv, TypeOK
  <2>3. TablesAgree'
    BY <2>1, <2>2 DEF SlotInv, TablesAgree
  <2>4. ShellReserve'
    BY <2>1, AttachCount DEF SlotInv, TablesAgree, TypeInv, ClaimPoints
  <2> QED
    BY <2>1, <2>3, <2>4 DEF SlotInv, NoneSuspended, ClaimPoints
<1>6. CASE Load \/ SetTss
  <2>1. cpu'.at \in {"tss", "save"}
    BY <1>6, <1>a DEF Load, SetTss, Goto, Context
  <2> QED
    BY <1>6, <2>1, QuietStep DEF Load, SetTss, SlotPoints, ClaimPoints
<1>7. CASE SaveParent
  <2> USE <1>7 DEF SaveParent
  <2>1. cpu'.at = "iret"
    BY <1>a DEF Goto, Context
  <2>2. \A p \in Pids : saved'[p] = saved[p] \/ saved'[p] = [cpu EXCEPT !.at = "x_ret"]
    BY DEF TypeInv, TypeOK
  <2>3. [cpu EXCEPT !.at = "x_ret"].at = "x_ret"
    BY <1>a DEF Context
  <2>4. NoneSuspended'
    BY <2>1, <2>2, <2>3 DEF SlotInv, NoneSuspended, SlotPoints, ClaimPoints
  <2> QED
    BY <2>1, <2>4, SameCounts DEF SlotInv, TablesAgree, ClaimPoints
<1>8. CASE Iret \/ ExecRet
  <2>1. cpu'.at \in {"run", "add"}
    BY <1>8 DEF Iret, ExecRet, Running, StartShell
  <2> QED
    BY <1>8, <2>1, QuietStep DEF Iret, ExecRet, SlotPoints, ClaimPoints
<1>9. CASE Halt
  <2>1. cpu'.at \in {"h_map", "h_del"}
    BY <1>9, <1>a DEF Halt, Context
  <2> QED
    BY <1>9, <2>1, QuietStep DEF Halt, SlotPoints, ClaimPoints
<1>10. CASE MapParent \/ ParentTss \/ ResumeParent
  <2>1. cpu'.at \in {"h_tss", "h_del", "x_ret"}
    BY <1>10, <1>a, Zenon DEF MapParent, ParentTss, ResumeParent, Goto, Context
  <2> QED
    BY <1>10, <2>1, QuietStep
       DEF MapParent, ParentTss, ResumeParent, SlotPoints, ClaimPoints
<1>11. CASE FreeSlot
  <2> USE <1>11 DEF FreeSlot
  <2>1. cpu'.at = "h_par" /\ cpu'.pid = cpu.pid /\ cpu.pid \in Pids
    BY <1>a DEF Goto, Context, TypeInv, CtxOK, HaltPoints
  <2>2. \A p \in Pids : /\ procs'[p] = IF p = cpu.pid THEN 0 ELSE procs[p]
                        /\ term_procs'[p] = IF p = cpu.pid THEN -1 ELSE term_procs[p]
    BY DEF TypeInv, TypeOK
  <2>3. TablesAgree'
    <3>1. \A p \in Pids : procs'[p] = 1 <=> term_procs'[p] \in Terms
      <4> SUFFICES ASSUME NEW p \in Pids PROVE procs'[p] = 1 <=> term_procs'[p] \in Terms
        OBVIOUS
      <4>1. procs[p] = 1 <=> term_procs[p] \in Terms
        BY DEF SlotInv, TablesAgree
      <4>2. -1 \notin Terms
        BY SizeFacts
      <4> QED
        BY <2>2, <4>1, <4>2
    <3>2. procs'[cpu'.pid] = 0
      BY <2>1, <2>2
    <3> QED
      BY <2>1, <3>1, <3>2 DEF TablesAgree
  <2>4. ShellReserve'
    BY <2>1, DetachCount, Zenon DEF SlotInv, TypeInv
  <2> QED
    BY <2>1, <2>3, <2>4 DEF SlotInv, NoneSuspended, ClaimPoints
<1>12. CASE ForemostIsParent
  <2> USE <1>12 DEF ForemostIsParent
  <2>1. cpu'.at \in {"h_close", "x_ret"} /\ cpu.pid \in Pids
    BY <1>a DEF Goto, Context, TypeInv, CtxOK, HaltPoints
  <2>2. \A p \in Pids : term_procs'[p] = IF p = cpu.pid THEN -1 ELSE term_procs[p]
    BY DEF TypeInv, TypeOK
  <2>3. TablesAgree'
    BY <2>1, <2>2, SizeFacts DEF SlotInv, TablesAgree
  <2>4. ShellReserve'
    BY <2>1, DetachCount, Zenon DEF SlotInv, TypeInv
  <2> QED
    BY <2>1, <2>3, <2>4 DEF SlotInv, NoneSuspended, ClaimPoints
<1>13. CASE KeyIrq
  <2>1. cpu.at \notin SlotPoints
    BY <1>13, IrqOutside
  <2>2. ASSUME SwitchToProc(display_terminal, display_terminal)
        PROVE  SlotInv'
    BY <1>13, <2>1, <2>2, SwitchOutside DEF KeyIrq, TypeInv, TypeOK
  <2>3. CASE SwitchToEmpty(display_terminal, display_terminal) /\ UNCHANGED cpu
    BY <1>13, <2>1, <2>3, SameCounts DEF KeyIrq, SwitchToEmpty, SlotInv,
       NoneSuspended, TablesAgree, SlotPoints
  <2> QED
    BY <1>13, <2>2, <2>3 DEF KeyIrq
<1>14. CASE KeyOther
  BY <1>14, SameCounts DEF KeyOther, SlotInv, NoneSuspended, TablesAgree
<1>15. ASSUME NEW t \in Terms, KeyAltFn(t) PROVE SlotInv'
  <2> USE <1>15 DEF KeyAltFn
  <2>1. cpu.at \notin SlotPoints
    BY DEF SlotInv, NoneSuspended
  <2>2. ASSUME SwitchToProc(t, t) PROVE SlotInv'
    BY <2>1, <2>2, SwitchOutside
  <2>3. CASE SwitchToEmpty(t, t) /\ cpu' = StartShell(cpu.stk, running_procs[t], FALSE)
    <3>1. cpu'.at = "add"
      BY <2>3 DEF StartShell
    <3> QED
      BY <2>1, <2>3, <3>1, SameCounts, Zenon DEF SwitchToEmpty, SlotInv,
         NoneSuspended, TablesAgree, SlotPoints, ClaimPoints
  <2> QED
    BY <2>2, <2>3, Zenon
<1>16. CASE Frozen \/ UNCHANGED vars
  BY <1>16, SameCounts DEF Frozen, SlotInv, NoneSuspended, TablesAgree
<1> QED
  BY <1>1, <1>2, <1>3, <1>4, <1>5, <1>6, <1>7, <1>8, <1>9, <1>10, <1>11, <1>12,
     <1>13, <1>14, <1>15, <1>16
     DEF Next, ProgramStep, KernelStep, ExecuteStep, HaltStep, HandlerStep

(* add_process never gives away the slot an empty terminal's shell will    *)
(* need, for any number of slots and terminals, if neither it nor          *)
(* delete_process is interrupted between its reads and writes of the slot  *)
(* table and a terminal's restart is not interrupted.                      *)
THEOREM ReserveKept ==
    ASSUME KeyPoints \subseteq OpenPoints
    PROVE  Spec => []ShellReserve
<1>1. SlotInv => ShellReserve
  BY DEF SlotInv
<1> QED
  BY <1>1, TypeInit, TypeStep, SlotInit, SlotStep, PTL DEF Spec

(* A slot is free while any terminal is empty.                             *)
LEMMA SlotForShell == TypeInv /\ SlotInv => ReservedSlotFree
<1> SUFFICES ASSUME TypeInv, SlotInv, NEW t \in Terms, ProcsOn(t) = {},
                    cpu.at # "attach"
             PROVE  FreeSlots # {}
  BY DEF ReservedSlotFree
<1>1. t \in EmptyTerms
  BY DEF EmptyTerms
<1>2. Cardinality(EmptyTerms) > 0
  BY <1>1, CountFacts, FS_EmptySet
<1>3. Cardinality(Attached) < MAX_DEVICES
  BY <1>2, CountFacts, SizeFacts DEF SlotInv, ShellReserve
<1>4. Attached # Pids
  BY <1>3, CountFacts, SizeFacts
<1>5. PICK p \in Pids : ~(term_procs[p] >= 0)
  BY <1>4 DEF Attached
<1>6. procs[p] # 1
  <2>1. ASSUME term_procs[p] \in Terms PROVE FALSE
    <3>1. term_procs[p] \in Nat
      BY <2>1, SizeFacts, Zenon
    <3> QED
      BY <1>5, <3>1
  <2> QED
    BY <2>1 DEF SlotInv, TablesAgree
<1>7. procs[p] = 0
  BY <1>6 DEF TypeInv, TypeOK
<1> QED
  BY <1>7 DEF FreeSlots

(* So a shell for an empty terminal finds a free slot.                     *)
THEOREM ShellFindsSlot ==
    ASSUME KeyPoints \subseteq OpenPoints
    PROVE  Spec => []ReservedSlotFree
BY SlotForShell, TypeInit, TypeStep, SlotInit, SlotStep, PTL DEF Spec
=============================================================================
