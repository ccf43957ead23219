-------------------------- MODULE Ownership_proofs --------------------------
(***************************************************************************)
(* Proofs about ProcSched with interrupts at the safe points only: every   *)
(* program runs on its own memory, kernel stack and screen, and the whole  *)
(* implements TermStacks, for any number of process slots and terminals.   *)
(***************************************************************************)
EXTENDS Stacks_proofs

-----------------------------------------------------------------------------
(* Steps that push and pop                                                 *)

(* A step that pushes or pops leaves the other terminals alone.            *)
LEMMA StackStep ==
    ASSUME TypeInv, OwnInv, kbd = "idle",
           UNCHANGED <<par_p_id, saved, termVars, irqVars, fault>>,
           \A t \in Terms \ {running_terminal} : running_procs'[t] = running_procs[t],
           Front' \in [Terms -> PidOrNone],
           Stacked', ParentsKept', MemoryOwn',
           CtxOwn(cpu', Front'[running_terminal]), ParLocal(cpu)',
           \A t \in Terms \ {running_terminal} : Front'[t] = Front[t]
    PROVE  OwnInv'
<1> USE DEF termVars, irqVars
<1>1. ASSUME NEW t \in Terms, HasCtx(t)'
      PROVE  CtxOwn(Ctx(t), Front[t])' /\ ParLocal(Ctx(t))'
  <2>1. CASE t = running_terminal
    BY <2>1 DEF Ctx, CtxOwn, ParLocal
  <2>2. CASE t # running_terminal
    <3>1. Ctx(t)' = Ctx(t) /\ HasCtx(t)
      BY <1>1, <2>2 DEF Ctx, HasCtx
    <3>2. CtxOwn(Ctx(t), Front[t]) /\ ParLocal(Ctx(t))
      BY <3>1 DEF OwnInv, ContextsOwn
    <3> QED
      BY <2>2, <3>1, <3>2 DEF CtxOwn, ParLocal
  <2> QED
    BY <2>1, <2>2
<1>2. ContextsOwn'
  BY <1>1 DEF ContextsOwn
<1>3. OthersQuiet'
  BY DEF OwnInv, OthersQuiet, Quiet
<1>4. HandlerOwn'
  BY SizeFacts DEF OwnInv, HandlerOwn
<1> QED
  BY <1>2, <1>3, <1>4 DEF OwnInv

(* Process q comes on top of the stack of terminal t.                      *)
Pushed(t, q) ==
    /\ q \in Pids \ Live /\ Live' = Live \cup {q}
    /\ Front'[t] = q /\ \A u \in Terms \ {t} : Front'[u] = Front[u]
    /\ TermOf'[q] = t /\ ParOf'[q] = Front[t]
    /\ \A p \in Live : TermOf'[p] = TermOf[p] /\ ParOf'[p] = ParOf[p]

(* The process on top of the stack of terminal t goes.                     *)
Popped(t) ==
    /\ Front[t] \in Pids /\ Live' = Live \ {Front[t]}
    /\ Front'[t] = ParOf[Front[t]] /\ \A u \in Terms \ {t} : Front'[u] = Front[u]
    /\ \A p \in Live \ {Front[t]} : TermOf'[p] = TermOf[p] /\ ParOf'[p] = ParOf[p]

(* add_process pushes the new process.                                     *)
LEMMA TakeOwn ==
    ASSUME TypeInv, TypeInv', SlotInv, OwnInv, TakeSlot
    PROVE  OwnInv' /\ Pushed(running_terminal, cpu.pid)
<1> USE DEF At, TakeSlot
<1> SUFFICES ASSUME NEW r, r = running_terminal, NEW q, q = cpu.pid
             PROVE  OwnInv' /\ Pushed(r, q)
  OBVIOUS
<1>a. /\ cpu \in Context /\ q \in Pids /\ r \in Terms
      /\ cpu.par = Front[r] /\ (cpu.par \in Pids => cpu.stk = cpu.par)
      /\ fault = "none" /\ video_mem = VIDEO
  BY CpuFacts, ViewTypes DEF CtxOwn, CtxOK, ExecPoints
<1>b. procs[q] = 0
  BY DEF SlotInv, TablesAgree
<1>1. /\ cpu'.at = "attach" /\ cpu'.pid = q /\ cpu'.par = cpu.par /\ cpu'.stk = cpu.stk
  BY <1>a DEF Goto, Context
<1>2. q \notin Live /\ Live' = Live \cup {q} /\ Live \in SUBSET Pids
  BY <1>a, <1>b DEF Live, TypeInv, TypeOK
<1>3. Front = running_procs /\ Front' = running_procs'
  <2>1. running_procs \in [Terms -> PidOrNone] /\ running_procs' \in [Terms -> PidOrNone]
    BY DEF TypeInv, TypeOK
  <2> QED
    BY <1>1, <2>1, Zenon DEF Front
<1>4. Front' = [Front EXCEPT ![r] = q]
  BY <1>3
<1>5. TermOf'[q] = r /\ \A p \in Live : TermOf'[p] = TermOf[p]
  BY <1>a, <1>1, <1>2 DEF TermOf, termVars
<1>6. Front \in [Terms -> PidOrNone] /\ Front' \in [Terms -> PidOrNone]
  BY <1>3 DEF TypeInv, TypeOK
<1>7. \A p \in Live : TermOf[p] \in Terms
  BY FrontFacts DEF OwnInv
<1>8. ASSUME NEW p \in Live, NEW S, {"run", "take"} \cap S = {}
      PROVE  Starting(p, S)' <=> Starting(p, S)
  <2>1. p \in Pids /\ p # q /\ TermOf'[p] = TermOf[p] /\ TermOf[p] \in Terms
    BY <1>2, <1>5, <1>7
  <2>2. CASE TermOf[p] = r
    <3>1. ~Starting(p, S)
      BY <1>8, <2>2 DEF Starting, Ctx
    <3>2. Front'[r] = q
      BY <1>a, <1>4, <1>6
    <3> QED
      BY <2>1, <2>2, <3>1, <3>2 DEF Starting
  <2>3. CASE TermOf[p] # r
    <3>1. Front'[TermOf[p]] = Front[TermOf[p]]
      BY <1>a, <1>4, <1>6, <2>1, <2>3
    <3>2. Ctx(TermOf[p])' = Ctx(TermOf[p])
      BY <1>3, <2>1, <2>3, <3>1 DEF Ctx, termVars
    <3> QED
      BY <2>1, <3>1, <3>2 DEF Starting
  <2> QED
    BY <2>2, <2>3
<1>9. ASSUME NEW p \in Live PROVE ParOf'[p] = ParOf[p]
  <2>1. p \in Pids /\ TermOf'[p] = TermOf[p] /\ TermOf[p] \in Terms
    BY <1>2, <1>5, <1>7
  <2>2. Starting(p, {"attach", "load"})' <=> Starting(p, {"attach", "load"})
    BY <1>8
  <2>3. ParOf[p] = IF Starting(p, {"attach", "load"})
                   THEN Ctx(TermOf[p]).par ELSE par_p_id[p]
    BY <2>1 DEF ParOf
  <2>4. ParOf'[p] = IF Starting(p, {"attach", "load"})'
                    THEN Ctx(TermOf[p])'.par ELSE par_p_id[p]
    BY <2>1 DEF ParOf
  <2>5. Starting(p, {"attach", "load"}) => Ctx(TermOf[p])' = Ctx(TermOf[p])
    <3>1. Starting(p, {"attach", "load"}) => TermOf[p] # r
      BY DEF Starting, Ctx
    <3> QED
      BY <1>a, <1>3, <1>4, <1>6, <2>1, <3>1 DEF Ctx, termVars
  <2> QED
    BY <2>2, <2>3, <2>4, <2>5
<1>10. Starting(q, {"attach", "load"})' /\ Starting(q, StartPoints)'
  BY <1>a, <1>1, <1>4, <1>5, <1>6 DEF Starting, Ctx, StartPoints, termVars
<1>11. ParOf'[q] = Front[r]
  BY <1>a, <1>1, <1>5, <1>10 DEF ParOf, Ctx, termVars
<1>12. Front'[r] = q /\ \A t \in Terms \ {r} : Front'[t] = Front[t]
  BY <1>a, <1>4, <1>6
<1>13. Stacked'
  <2>1. Stacks(Live, TermOf, ParOf, Front)
    BY DEF OwnInv, Stacked
  <2>2. \A p \in Live : TermOf'[p] = TermOf[p] /\ ParOf'[p] = ParOf[p]
    BY <1>5, <1>9
  <2>3. q \in Pids \ Live /\ r \in Terms /\ Live \in SUBSET Pids
    BY <1>a, <1>2
  <2>4. TermOf'[q] = r /\ ParOf'[q] = Front[r]
    BY <1>5, <1>11
  <2> HIDE DEF At, TakeSlot
  <2>5. Stacks(Live \cup {q}, TermOf', ParOf', Front')
    BY <1>6, <1>12, <2>1, <2>2, <2>3, <2>4, Push
  <2> QED
    BY <1>2, <2>5 DEF Stacked
<1>14. ParentsKept'
  <2>1. ASSUME NEW p \in Live, ParOf[p] \in Pids, ~Starting(p, StartPoints)'
        PROVE  saved'[ParOf[p]].stk = ParOf[p]
    <3>1. ~Starting(p, StartPoints)
      BY <1>8, <2>1 DEF StartPoints
    <3> QED
      BY <2>1, <3>1 DEF OwnInv, ParentsKept, StartPoints
  <2> SUFFICES ASSUME NEW p \in Live', ParOf'[p] \in Pids, ~Starting(p, StartPoints)'
               PROVE  saved'[ParOf'[p]].stk = ParOf'[p]
    BY DEF ParentsKept, StartPoints
  <2>2. p \in Live
    BY <1>2, <1>10
  <2> QED
    BY <1>9, <2>1, <2>2
<1>15. MemoryOwn'
  BY <1>a, <1>1 DEF MemoryOwn, MemOwn, memVars, VIDEO
<1>16. CtxOwn(cpu', Front'[r]) /\ ParLocal(cpu)'
  BY <1>a, <1>1, <1>12 DEF CtxOwn, ParLocal, ExecPoints
<1>17. Pushed(r, q)
  BY <1>a, <1>2, <1>5, <1>9, <1>11, <1>12 DEF Pushed
<1> QED
  BY <1>3, <1>6, <1>12, <1>13, <1>14, <1>15, <1>16, <1>17, StackStep DEF memVars

(* delete_process pops the halting process.                                *)
LEMMA FreeOwn ==
    ASSUME TypeInv, TypeInv', OwnInv, FreeSlot
    PROVE  OwnInv' /\ Popped(running_terminal)
<1> USE DEF At, FreeSlot
<1> SUFFICES ASSUME NEW r, r = running_terminal, NEW q, q = cpu.pid
             PROVE  OwnInv' /\ Popped(r)
  OBVIOUS
<1>a. /\ cpu \in Context /\ q \in Pids /\ r \in Terms
      /\ q = Front[r] /\ cpu.par = par_p_id[q] /\ cpu.par \in PidOrNone
      /\ cpu.par \in Pids => cpu.esp = cpu.par /\ upage = cpu.par /\ esp0 = cpu.par
      /\ fault = "none" /\ video_mem = VIDEO
  BY CpuFacts, ViewTypes
     DEF CtxOwn, CtxOK, HaltPoints, ParLocal, OwnInv, MemoryOwn, MemOwn, Context
<1>b. q \in Live /\ TermOf[q] = r
  BY <1>a, FrontFacts DEF OwnInv
<1>c. ParOf[q] = cpu.par
  BY <1>a, <1>b, ParValue
<1>1. /\ cpu'.at = "h_par" /\ cpu'.pid = q /\ cpu'.par = cpu.par /\ cpu'.esp = cpu.esp
  BY <1>a, Zenon DEF Goto, Context
<1>2. Live' = Live \ {q} /\ Live \in SUBSET Pids
  BY <1>a DEF Live, TypeInv, TypeOK
<1>3. Front \in [Terms -> PidOrNone] /\ Front' \in [Terms -> PidOrNone]
  BY ViewTypes DEF Front, TypeInv, TypeOK, Context
<1>4. Front'[r] = cpu.par /\ \A t \in Terms \ {r} : Front'[t] = Front[t]
  BY <1>a, <1>1 DEF Front, termVars
<1>5. \A p \in Live \ {q} : TermOf'[p] = TermOf[p] /\ TermOf[p] \in Terms
  <2>1. \A p \in Live \ {q} : TermOf'[p] = TermOf[p]
    BY <1>1, <1>2 DEF TermOf, TypeInv, TypeOK
  <2> QED
    BY <2>1, FrontFacts DEF OwnInv
<1>6. ASSUME NEW p \in Live \ {q}, NEW S, S \subseteq StartPoints
      PROVE  /\ Starting(p, S)' <=> Starting(p, S)
             /\ Starting(p, S) => Ctx(TermOf[p])' = Ctx(TermOf[p])
  <2>1. p \in Pids /\ TermOf'[p] = TermOf[p] /\ TermOf[p] \in Terms
    BY <1>2, <1>5
  <2>2. CASE TermOf[p] = r
    <3>1. ~Starting(p, S)
      BY <1>6, <2>2 DEF Starting, Ctx, StartPoints
    <3>2. ~Starting(p, S)'
      BY <1>1, <1>6, <2>1, <2>2 DEF Starting, Ctx, StartPoints, termVars
    <3> QED
      BY <3>1, <3>2
  <2>3. CASE TermOf[p] # r
    BY <1>4, <2>1, <2>3 DEF Starting, Ctx, termVars
  <2> QED
    BY <2>2, <2>3
<1>7. ASSUME NEW p \in Live \ {q} PROVE ParOf'[p] = ParOf[p]
  <2>1. p \in Pids /\ TermOf'[p] = TermOf[p]
    BY <1>2, <1>5
  <2>2. /\ Starting(p, {"attach", "load"})' <=> Starting(p, {"attach", "load"})
        /\ Starting(p, {"attach", "load"}) => Ctx(TermOf[p])' = Ctx(TermOf[p])
    BY <1>6 DEF StartPoints
  <2>3. ParOf[p] = IF Starting(p, {"attach", "load"})
                   THEN Ctx(TermOf[p]).par ELSE par_p_id[p]
    BY <2>1 DEF ParOf
  <2>4. ParOf'[p] = IF Starting(p, {"attach", "load"})'
                    THEN Ctx(TermOf[p])'.par ELSE par_p_id[p]
    BY <2>1 DEF ParOf
  <2> QED
    BY <2>2, <2>3, <2>4
<1>8. Stacked'
  <2>1. Stacks(Live, TermOf, ParOf, Front)
    BY DEF OwnInv, Stacked
  <2>2. \A p \in Live \ {Front[r]} : TermOf'[p] = TermOf[p] /\ ParOf'[p] = ParOf[p]
    BY <1>a, <1>5, <1>7
  <2>3. r \in Terms /\ Front[r] \in Pids /\ Front'[r] = ParOf[Front[r]]
    BY <1>a, <1>c, <1>4
  <2>4. Live \in SUBSET Pids /\ \A t \in Terms \ {r} : Front'[t] = Front[t]
    BY <1>2, <1>4
  <2> HIDE DEF At, FreeSlot
  <2>5. Stacks(Live \ {Front[r]}, TermOf', ParOf', Front')
    BY <1>3, <2>1, <2>2, <2>3, <2>4, Pop, SMTT(30)
  <2> QED
    BY <1>a, <1>2, <2>5 DEF Stacked
<1>9. ParentsKept'
  <2> SUFFICES ASSUME NEW p \in Live \ {q}, ParOf[p] \in Pids, ~Starting(p, StartPoints)'
               PROVE  saved[ParOf[p]].stk = ParOf[p]
    BY <1>2, <1>7 DEF ParentsKept, StartPoints
  <2>1. ~Starting(p, StartPoints)
    BY <1>6
  <2> QED
    BY <2>1 DEF OwnInv, ParentsKept, StartPoints
<1>10. MemoryOwn'
  BY <1>a, <1>1, <1>4 DEF MemoryOwn, MemOwn, memVars, termVars, VIDEO
<1>11. CtxOwn(cpu', Front'[r]) /\ ParLocal(cpu)'
  BY <1>a, <1>1, <1>4 DEF CtxOwn, ParLocal, ExecPoints
<1>12. Popped(r)
  BY <1>a, <1>c, <1>2, <1>4, <1>5, <1>7 DEF Popped
<1> QED
  BY <1>3, <1>4, <1>8, <1>9, <1>10, <1>11, <1>12, StackStep DEF memVars

-----------------------------------------------------------------------------
(* Key presses                                                             *)

(* A key press finds the running terminal with a foremost process.         *)
LEMMA QuietCpu ==
    ASSUME TypeInv, OwnInv, Quiet(cpu)
    PROVE  /\ Foremost \in Pids /\ Foremost \in Live
           /\ term_procs[Foremost] = running_terminal
           /\ cpu.at \notin {"attach", "h_par"}
<1>1. cpu.at \notin {"attach", "h_par"} /\ cpu.at \in SafePoints
  BY DEF Quiet, SafePoints
<1>2. Front[running_terminal] = Foremost /\ CtxOwn(cpu, Foremost) /\ CtxOK(cpu)
      /\ (cpu.at = "run" => Foremost \in Pids)
  BY <1>1, CpuFacts
<1>3. Foremost \in Pids
  BY <1>1, <1>2 DEF Quiet, SafePoints, CtxOwn, CtxOK, HaltPoints
<1>4. Foremost \in Live /\ TermOf[Foremost] = running_terminal
  BY <1>2, <1>3, FrontFacts, ViewTypes DEF OwnInv
<1> QED
  BY <1>1, <1>3, <1>4 DEF TermOf

(* A switch changes no stack and no context, only which one is the CPU's.  *)
LEMMA SwitchOwn ==
    ASSUME TypeInv, TypeInv', OwnInv, UNCHANGED procVars, Quiet(cpu),
           cpu'.at \notin {"attach", "h_par"},
           \A t \in Terms : running_procs[t] \in Pids => Ctx(t)' = Ctx(t),
           \A p \in Pids : p # Foremost => saved'[p] = saved[p],
           CtxOwn(cpu', running_procs[running_terminal']), ParLocal(cpu)',
           OthersQuiet', MemoryOwn', HandlerOwn'
    PROVE  OwnInv' /\ SameStacks
<1> USE DEF procVars
<1>1. cpu.at \notin {"attach", "h_par"} /\ Foremost \in Pids
  BY QuietCpu
<1>2. TermOf' = TermOf
  BY <1>1 DEF TermOf
<1>3. Front = running_procs /\ Front' = running_procs
  BY <1>1 DEF Front, TypeInv, TypeOK
<1>4. Live' = Live /\ Live \subseteq Pids
  BY Zenon DEF Live
<1>5. ASSUME NEW p \in Live, NEW S
      PROVE  /\ Starting(p, S)' <=> Starting(p, S)
             /\ Starting(p, S) => Ctx(TermOf[p])' = Ctx(TermOf[p])
  <2>1. TermOf[p] \in Terms /\ Front[TermOf[p]] = p => Ctx(TermOf[p])' = Ctx(TermOf[p])
    BY <1>2, <1>3, <1>4 DEF Ctx
  <2>2. (Starting(p, S))' <=> /\ TermOf[p] \in Terms /\ Front[TermOf[p]] = p
                              /\ Ctx(TermOf[p])'.at \in S
    BY <1>2, <1>3 DEF Starting, Ctx
  <2> QED
    BY <2>1, <2>2 DEF Starting
<1>6. ASSUME NEW p \in Live PROVE ParOf'[p] = ParOf[p]
  <2>1. /\ Starting(p, {"attach", "load"})' <=> Starting(p, {"attach", "load"})
        /\ Starting(p, {"attach", "load"}) => Ctx(TermOf[p])' = Ctx(TermOf[p])
    BY <1>5
  <2>2. ParOf[p] = IF Starting(p, {"attach", "load"})
                   THEN Ctx(TermOf[p]).par ELSE par_p_id[p]
    BY <1>4 DEF ParOf
  <2>3. ParOf'[p] = IF Starting(p, {"attach", "load"})'
                    THEN Ctx(TermOf[p])'.par ELSE par_p_id[p]
    BY <1>2, <1>4 DEF ParOf, Ctx
  <2> QED
    BY <2>1, <2>2, <2>3
<1>7. Stacked'
  <2>1. Stacks(Live, TermOf, ParOf, Front)
    BY DEF OwnInv, Stacked
  <2>2. Stacks(Live, TermOf, ParOf', Front)
    BY <1>6, <2>1, SameForest
  <2> QED
    BY <1>2, <1>3, <1>4, <2>2 DEF Stacked
<1>8. ParentsKept'
  <2> SUFFICES ASSUME NEW p \in Live, ParOf[p] \in Pids, ~Starting(p, StartPoints)'
               PROVE  saved'[ParOf[p]].stk = ParOf[p]
    BY <1>4, <1>6 DEF ParentsKept, StartPoints
  <2>1. ~Starting(p, StartPoints)
    BY <1>5
  <2>2. ParOf[p] # Foremost
    BY <1>3, FrontFacts, ViewTypes DEF OwnInv, Foremost
  <2> QED
    BY <2>1, <2>2 DEF OwnInv, ParentsKept, StartPoints
<1>9. ContextsOwn'
  <2> SUFFICES ASSUME NEW t \in Terms, HasCtx(t)'
               PROVE  CtxOwn(Ctx(t)', running_procs[t]) /\ ParLocal(Ctx(t))'
    BY <1>3 DEF ContextsOwn, CtxOwn
  <2>1. CASE t = running_terminal'
    BY <2>1 DEF Ctx, ParLocal
  <2>2. CASE t # running_terminal'
    <3>1. running_procs[t] \in Pids /\ Ctx(t)' = Ctx(t)
      BY <2>2 DEF HasCtx
    <3>2. CtxOwn(Ctx(t), running_procs[t]) /\ ParLocal(Ctx(t))
      BY <1>3, <3>1 DEF OwnInv, ContextsOwn, HasCtx
    <3> QED
      BY <3>1, <3>2 DEF ParLocal
  <2> QED
    BY <2>1, <2>2, Zenon
<1> QED
  BY <1>2, <1>3, <1>4, <1>6, <1>7, <1>8, <1>9, Zenon DEF OwnInv, SameStacks

(* A context that a key press may leave needs nothing but its own page and *)
(* the stack it was on.                                                    *)
LEMMA QuietMemory ==
    ASSUME NEW c, NEW f \in Pids, Quiet(c), CtxOwn(c, f)
    PROVE  MemOwn(c, f, f, c.stk)
BY DEF Quiet, SafePoints, CtxOwn, MemOwn, ExecPoints

(* The interrupt saves the running context where it is and resumes it.     *)
LEMMA IrqOwn ==
    ASSUME KeyPoints \subseteq SafePoints, TypeInv, TypeInv', OwnInv, KeyIrq
    PROVE  OwnInv' /\ SameStacks
<1> USE DEF KeyIrq
<1>1. Quiet(cpu)
  <2>1. cpu \in Context
    BY CpuFacts
  <2>2. cpu.par \in PidOrNone
    BY <2>1 DEF Context
  <2>3. cpu.at \in SafePoints /\ (cpu.at = "run" \/ ~(cpu.par < 0))
    BY Zenon DEF PointOf, SafePoints
  <2> QED
    BY <2>2, <2>3, PidSigns DEF Quiet
<1>2. /\ Foremost \in Pids /\ term_procs[Foremost] = running_terminal
      /\ cpu.at \notin {"attach", "h_par"}
  BY <1>1, QuietCpu
<1>3. /\ display_terminal = running_terminal
      /\ running_procs[display_terminal] = Foremost /\ ~(Foremost < 0)
      /\ running_terminal \in Terms
  BY <1>2, PidSigns, ViewTypes DEF Foremost, TypeInv, DisplayedIsRunning
<1>4. SwitchToProc(display_terminal, display_terminal)
  BY <1>3 DEF SwitchToEmpty
<1>5. /\ running_terminal' = running_terminal
      /\ saved' = [saved EXCEPT ![Foremost] = cpu]
      /\ upage' = Foremost /\ video_mem' = VIDEO
      /\ esp0' = saved'[Foremost].stk /\ cpu' = saved'[Foremost] /\ fault' = fault
  BY <1>2, <1>3, <1>4 DEF SwitchToProc, Foremost
<1>6. cpu' = cpu /\ saved'[Foremost] = cpu /\ \A p \in Pids : p # Foremost => saved'[p] = saved[p]
  BY <1>2, <1>5 DEF TypeInv, TypeOK
<1>7. Front = running_procs /\ Front' = running_procs
  BY <1>2, <1>6 DEF Front, TypeInv, TypeOK, procVars
<1>8. CtxOwn(cpu, Foremost) /\ ParLocal(cpu) /\ fault = "none"
  BY <1>2, CpuFacts
<1>9. \A t \in Terms \ {running_terminal} : running_procs[t] \in Pids =>
         running_procs[t] # Foremost
  BY <1>2, <1>3, <1>7, FrontFacts DEF OwnInv, Foremost
<1>10. \A t \in Terms : running_procs[t] \in Pids => Ctx(t)' = Ctx(t)
  BY <1>5, <1>6, <1>9 DEF Ctx, procVars
<1>11. CtxOwn(cpu', running_procs[running_terminal']) /\ ParLocal(cpu)'
  BY <1>5, <1>6, <1>8 DEF Foremost, ParLocal, procVars
<1>12. OthersQuiet'
  BY <1>5, <1>6, <1>9 DEF OthersQuiet, Quiet, OwnInv, procVars
<1>13. MemoryOwn'
  <2>1. MemOwn(cpu, Foremost, Foremost, cpu.stk)
    BY <1>1, <1>2, <1>8, QuietMemory
  <2>2. Front'[running_terminal'] = Foremost
    BY <1>5, <1>7 DEF Foremost
  <2> QED
    BY <1>5, <1>6, <2>1, <2>2 DEF MemoryOwn, MemOwn, VIDEO
<1>14. HandlerOwn'
  <2>1. Foremost' = Foremost
    BY <1>5 DEF Foremost, procVars
  <2>2. saved'[Foremost'] = cpu' /\ Quiet(cpu')
    BY <1>1, <1>6, <2>1
  <2> QED
    BY <1>2, <1>5, <1>8, <2>1, <2>2 DEF HandlerOwn, Quiet, OwnInv, procVars
<1> QED
  BY <1>1, <1>2, <1>6, <1>10, <1>11, <1>12, <1>13, <1>14, SwitchOwn

(* Any other key: the interrupted context goes on.                         *)
LEMMA OtherKeyOwn ==
    ASSUME TypeInv, TypeInv', OwnInv, KeyOther
    PROVE  OwnInv' /\ SameStacks
<1> USE DEF KeyOther, procVars, termVars, memVars
<1>1. Quiet(cpu) /\ Foremost \in Pids
  BY DEF OwnInv, HandlerOwn
<1>2. cpu.at \notin {"attach", "h_par"}
  BY <1>1, QuietCpu
<1>3. CtxOwn(cpu, Foremost) /\ ParLocal(cpu)
  BY <1>2, CpuFacts
<1>4. \A t \in Terms : Ctx(t)' = Ctx(t)
  BY DEF Ctx
<1>5. CtxOwn(cpu', running_procs[running_terminal']) /\ ParLocal(cpu)'
  BY <1>3 DEF Foremost, ParLocal
<1>6. OthersQuiet'
  BY DEF OwnInv, OthersQuiet, Quiet
<1>7. MemoryOwn'
  <2>1. Front' = Front
    BY <1>2 DEF Front
  <2> QED
    BY <2>1 DEF OwnInv, MemoryOwn, MemOwn, VIDEO
<1>8. HandlerOwn'
  BY DEF OwnInv, HandlerOwn
<1> QED
  BY <1>1, <1>2, <1>4, <1>5, <1>6, <1>7, <1>8, SwitchOwn, Zenon

(* Alt+Fn: another terminal's context, or the start of its shell.          *)
LEMMA AltFnOwn ==
    ASSUME TypeInv, TypeInv', OwnInv, NEW t \in Terms, KeyAltFn(t)
    PROVE  OwnInv' /\ SameStacks
<1> USE DEF KeyAltFn, procVars
<1>1. Quiet(cpu) /\ Foremost \in Pids /\ saved[Foremost] = cpu /\ fault = "none"
  BY DEF OwnInv, HandlerOwn
<1>2. cpu.at \notin {"attach", "h_par"}
  BY <1>1, QuietCpu
<1>3. display_terminal = running_terminal /\ t # running_terminal
      /\ running_terminal \in Terms
  BY ViewTypes DEF TypeInv, DisplayedIsRunning
<1>4. Front = running_procs
  BY <1>2 DEF Front, TypeInv, TypeOK
<1>5. SwitchToEmpty(t, t) \/ SwitchToProc(t, t)
  BY Zenon
<1>6. /\ running_terminal' = t /\ saved' = saved /\ fault' = fault
      /\ running_procs[t] \in PidOrNone
  <2>1. [saved EXCEPT ![Foremost] = cpu] = saved
    BY <1>1 DEF TypeInv, TypeOK
  <2>2. ~(Foremost < 0)
    BY <1>1, PidSigns, Zenon
  <2> QED
    BY <1>5, <2>1, <2>2 DEF SwitchToEmpty, SwitchToProc, Foremost, TypeInv, TypeOK
<1>7. \A u \in Terms \ {running_terminal} : running_procs[u] \in Pids =>
         Quiet(saved[running_procs[u]]) /\ CtxOwn(saved[running_procs[u]], running_procs[u])
         /\ ParLocal(saved[running_procs[u]])
  BY <1>4 DEF OwnInv, OthersQuiet, ContextsOwn, HasCtx, Ctx
<1>8. OthersQuiet'
  BY <1>1, <1>3, <1>6, <1>7, Zenon DEF OthersQuiet, Quiet, Foremost
<1>9. CASE running_procs[t] \in Pids
  <2> DEFINE nxt == running_procs[t]
  <2>1. ~(nxt < 0) /\ ~(Foremost < 0)
    BY <1>1, <1>9, PidSigns
  <2>2. SwitchToProc(t, t) /\ in_service' = FALSE
    BY <2>1, Zenon DEF SwitchToEmpty
  <2>3. term_procs[nxt] = t
    BY <1>2, <1>4, <1>9, FrontFacts, Zenon DEF OwnInv, TermOf
  <2>4. /\ upage' = nxt /\ video_mem' = VIDEO
        /\ esp0' = saved[nxt].stk /\ cpu' = saved[nxt]
    BY <1>6, <2>1, <2>2, <2>3, Zenon DEF SwitchToProc, Foremost
  <2>5. Quiet(cpu') /\ CtxOwn(cpu', nxt) /\ ParLocal(saved[nxt])
    BY <1>3, <1>7, <1>9, <2>4, Zenon
  <2>6. ParLocal(cpu)'
    BY <2>4, <2>5, Zenon DEF ParLocal
  <2>7. cpu'.at \notin {"attach", "h_par"}
    BY <2>5, Zenon DEF Quiet, SafePoints
  <2>8. \A u \in Terms : running_procs[u] \in Pids => Ctx(u)' = Ctx(u)
    BY <1>1, <1>3, <1>6, <2>4, Zenon DEF Ctx, Foremost
  <2>9. MemoryOwn'
    <3>1. MemOwn(cpu', nxt, upage', esp0')
      BY <1>9, <2>4, <2>5, QuietMemory, Zenon
    <3>2. Front'[running_terminal'] = nxt
      BY <1>6, <2>7, Zenon DEF Front
    <3> QED
      BY <2>4, <3>1, <3>2, Zenon DEF MemoryOwn, VIDEO
  <2>10. HandlerOwn'
    BY <1>1, <1>6, <1>9, <2>2, Zenon DEF OwnInv, HandlerOwn, Foremost
  <2> QED
    BY <1>1, <1>6, <1>8, <2>5, <2>6, <2>7, <2>8, <2>9, <2>10, SwitchOwn, Zenon
<1>10. CASE running_procs[t] \notin Pids
  <2>1. running_procs[t] = NoPid /\ ~(running_procs[t] >= 0) /\ NoPid \notin Pids
    BY <1>6, <1>10, SizeFacts, Zenon DEF PidOrNone
  <2>2. /\ SwitchToEmpty(t, t) /\ in_service' = (t = 0)
        /\ cpu' = StartShell(cpu.stk, running_procs[t], FALSE)
    BY <2>1, Zenon DEF SwitchToProc
  <2>3. video_mem' = VIDEO
    BY <2>2 DEF SwitchToEmpty
  <2>4. cpu'.at = "add" /\ cpu'.par = NoPid
    BY <2>1, <2>2 DEF StartShell
  <2>5. CtxOwn(cpu', running_procs[t]) /\ ParLocal(cpu)'
    BY <2>1, <2>4, Zenon DEF CtxOwn, ParLocal
  <2>6. \A u \in Terms : running_procs[u] \in Pids => Ctx(u)' = Ctx(u)
    BY <1>1, <1>3, <1>6, <1>10 DEF Ctx, Foremost
  <2>7. MemoryOwn'
    <3>1. Front'[running_terminal'] = NoPid
      BY <1>6, <2>1, <2>4 DEF Front
    <3> QED
      BY <2>1, <2>3, <2>4, <3>1 DEF MemoryOwn, MemOwn, VIDEO
  <2>8. HandlerOwn'
    <3>1. t # 0
      BY <1>3, <1>10 DEF OwnInv, HandlerOwn
    <3>2. in_service' = FALSE
      BY <2>2, <3>1, Zenon
    <3>3. running_procs[0] \in Pids
      BY <1>1, <1>3 DEF OwnInv, HandlerOwn, Foremost
    <3> QED
      BY <1>1, <1>6, <3>2, <3>3, Zenon DEF HandlerOwn
  <2> QED
    BY <1>1, <1>6, <1>8, <2>4, <2>5, <2>6, <2>7, <2>8, SwitchOwn
<1> QED
  BY <1>9, <1>10

-----------------------------------------------------------------------------
(* Theorems                                                                *)

(* What a step does to the stacks.                                         *)
StackChange ==
    \/ SameStacks
    \/ TakeSlot /\ Pushed(running_terminal, cpu.pid)
    \/ FreeSlot /\ Popped(running_terminal)

(* Every step keeps the invariant and pushes, pops or leaves the stacks.   *)
LEMMA OwnStep ==
    ASSUME KeyPoints \subseteq SafePoints
    PROVE  TypeInv /\ SlotInv /\ OwnInv /\ [Next]_vars => OwnInv' /\ StackChange
<1> SUFFICES ASSUME TypeInv, SlotInv, OwnInv, [Next]_vars PROVE OwnInv' /\ StackChange
  OBVIOUS
<1> USE DEF StackChange
<1>1. TypeInv'
  BY TypeStep
<1>2. CASE ProgramStep \/ KernelStep
  BY <1>1, <1>2, ExecuteOwn, LoadOwn, HaltOwn, ForemostOwn, TakeOwn, FreeOwn
     DEF ProgramStep, KernelStep, ExecuteStep, HaltStep
<1>3. CASE KeyIrq
  BY <1>1, <1>3, IrqOwn
<1>4. CASE HandlerStep
  BY <1>1, <1>4, OtherKeyOwn, AltFnOwn DEF HandlerStep
<1>5. CASE UNCHANGED vars
  <2> USE <1>5 DEF vars, procVars, termVars, memVars, irqVars
  <2>1. Live' = Live /\ TermOf' = TermOf /\ Front' = Front /\ \A t : Ctx(t)' = Ctx(t)
    BY DEF Live, TermOf, Front, Ctx
  <2>2. \A p, S : Starting(p, S)' = Starting(p, S)
    BY <2>1 DEF Starting, Ctx
  <2>3. ParOf' = ParOf
    BY <2>1, <2>2 DEF ParOf, Ctx
  <2>4. Stacked' /\ ParentsKept'
    BY <2>1, <2>2, <2>3, Zenon DEF OwnInv, Stacked, ParentsKept
  <2>5. ContextsOwn'
    BY <2>1, SMTT(30) DEF OwnInv, ContextsOwn, HasCtx, Ctx, CtxOwn, ParLocal
  <2>6. OthersQuiet' /\ MemoryOwn' /\ HandlerOwn'
    BY <2>1 DEF OwnInv, OthersQuiet, Quiet, MemoryOwn, MemOwn, HandlerOwn, Foremost, VIDEO
  <2> QED
    BY <2>1, <2>3, <2>4, <2>5, <2>6, Zenon DEF OwnInv, SameStacks
<1> QED
  BY <1>2, <1>3, <1>4, <1>5 DEF Next, Frozen

(* The safe points leave the slot table alone.                             *)
LEMMA SafeIsOpen ==
    ASSUME KeyPoints \subseteq SafePoints
    PROVE  KeyPoints \subseteq OpenPoints
BY DEF SafePoints, OpenPoints, SlotPoints, ClaimPoints, Points, Labels, ExecPoints,
       HaltPoints

(* The whole invariant, for any number of slots and terminals.             *)
LEMMA OwnAlways ==
    ASSUME KeyPoints \subseteq SafePoints
    PROVE  Spec => [](TypeInv /\ OwnInv)
<1>1. TypeInv /\ SlotInv /\ [Next]_vars => SlotInv'
  BY SafeIsOpen, SlotStep
<1> QED
  BY <1>1, TypeInit, TypeStep, SlotInit, OwnInit, OwnStep, PTL DEF Spec

(* What the invariant says when a program runs.                            *)
LEMMA UserOwns ==
    ASSUME TypeInv, OwnInv, UserMode
    PROVE  upage = Foremost /\ esp0 = Foremost /\ video_mem = VIDEO
<1>1. Foremost \in Pids /\ Front[running_terminal] = Foremost
  BY CpuFacts DEF UserMode
<1> QED
  BY <1>1 DEF OwnInv, MemoryOwn, MemOwn, UserMode

(* If key presses are held back outside the safe points, then whenever a   *)
(* program runs, the page at 128 MB is its own: no sequence of execute,    *)
(* halt and Alt+Fn makes halt or switch_running_terminal resume a program  *)
(* on the memory of another.                                               *)
THEOREM MemoryIsOwn ==
    ASSUME KeyPoints \subseteq SafePoints
    PROVE  Spec => []OwnMemory
<1>1. TypeInv /\ OwnInv => OwnMemory
  BY UserOwns DEF OwnMemory
<1> QED
  BY <1>1, OwnAlways, PTL

(* The TSS then names the kernel stack of the running program, so its next *)
(* system call cannot overwrite the suspended frames of another.           *)
THEOREM KernelStackIsOwn ==
    ASSUME KeyPoints \subseteq SafePoints
    PROVE  Spec => []OwnKernelStack
<1>1. TypeInv /\ OwnInv => OwnKernelStack
  BY UserOwns DEF OwnKernelStack
<1> QED
  BY <1>1, OwnAlways, PTL

(* And putc then writes to the screen for it, not to a terminal's store.   *)
THEOREM ScreenIsOwn ==
    ASSUME KeyPoints \subseteq SafePoints
    PROVE  Spec => []OwnScreen
<1>1. TypeInv /\ OwnInv => OwnScreen
  BY UserOwns DEF OwnScreen
<1> QED
  BY <1>1, OwnAlways, PTL

(* The foremost process of every terminal is then a live process attached  *)
(* to it, outside the windows of add_process and delete_process.           *)
THEOREM ForemostIsAttached ==
    ASSUME KeyPoints \subseteq SafePoints
    PROVE  Spec => []ForemostAttached
<1>1. TypeInv /\ OwnInv => ForemostAttached
  <2> SUFFICES ASSUME TypeInv, OwnInv, NEW t \in Terms, running_procs[t] >= 0,
                      ~(t = running_terminal /\ cpu.at \in {"attach", "h_par"})
               PROVE  /\ procs[running_procs[t]] = 1
                      /\ term_procs[running_procs[t]] = t
    BY DEF ForemostAttached
  <2> DEFINE f == running_procs[t]
  <2>1. f \in Pids
    BY SizeFacts DEF TypeInv, TypeOK
  <2>2. Front[t] = f
    BY DEF Front
  <2>3. f \in Live /\ TermOf[f] = t
    BY <2>1, <2>2, FrontFacts DEF OwnInv
  <2>4. CASE cpu.at = "attach" /\ f = cpu.pid
    <3>1. TermOf[f] = running_terminal
      BY <2>1, <2>4 DEF TermOf
    <3> QED
      BY <2>3, <2>4, <3>1
  <2>5. CASE ~(cpu.at = "attach" /\ f = cpu.pid)
    BY <2>1, <2>3, <2>5 DEF TermOf, Live
  <2> QED
    BY <2>4, <2>5
<1> QED
  BY <1>1, OwnAlways, PTL

(* The kernel then never follows a missing process, and the shell of an    *)
(* empty terminal can always be started.                                   *)
THEOREM NeverFaults ==
    ASSUME KeyPoints \subseteq SafePoints
    PROVE  Spec => []NoFault
<1>1. OwnInv => NoFault
  BY DEF OwnInv, HandlerOwn, NoFault
<1> QED
  BY <1>1, OwnAlways, PTL

(* And no program runs with IRQ1 unacknowledged, although Alt+F1 onto an   *)
(* empty first terminal would leave it so: that terminal is never empty    *)
(* while another one runs.                                                 *)
THEOREM KeyboardStaysAlive ==
    ASSUME KeyPoints \subseteq SafePoints
    PROVE  Spec => []KeyboardAlive
<1>1. OwnInv => KeyboardAlive
  BY DEF OwnInv, HandlerOwn, KeyboardAlive, UserMode
<1> QED
  BY <1>1, OwnAlways, PTL

-----------------------------------------------------------------------------
(* Refinement                                                              *)

(* The stacks of the state are the columns of its processes.               *)
ColumnInv ==
    \A t \in Terms : Column(StackOf(t), t, Live, TermOf, ParOf, Front[t])

(* At boot every stack is empty.                                           *)
LEMMA ColumnInit == Init => ColumnInv /\ Abstract!Init
<1> SUFFICES ASSUME Init PROVE ColumnInv /\ Abstract!Init
  OBVIOUS
<1> USE DEF Init
<1>1. Live = {} /\ cpu.at = "add"
  BY DEF Live, StartShell
<1>2. ASSUME NEW t \in Terms
      PROVE  Column(<<>>, t, Live, TermOf, ParOf, Front[t]) /\ StackOf(t) = <<>>
  <2>1. Front[t] = NoPid
    BY <1>1, Zenon DEF Front
  <2>2. <<>> \in Seq(Pids) /\ Len(<<>>) = 0
    OBVIOUS
  <2>3. Column(<<>>, t, Live, TermOf, ParOf, Front[t])
    BY <1>1, <2>1, <2>2 DEF Column, Lineage
  <2> QED
    BY <2>3, StackIs DEF StackOf
<1>3. ColumnInv
  BY <1>2 DEF ColumnInv
<1>4. [t \in Terms |-> StackOf(t)] = [t \in Terms |-> <<>>]
  BY <1>2
<1> QED
  BY <1>3, <1>4 DEF Abstract!Init, Abstract!Terms, Terms

(* The column of a terminal after the step.                                *)
LEMMA NextColumn ==
    ASSUME NEW t \in Terms, NEW s, Column(s, t, Live', TermOf', ParOf', Front'[t])
    PROVE  StackOf(t)' = s /\ Column(StackOf(t), t, Live, TermOf, ParOf, Front[t])'
<1>1. LineageOf(ParOf', Front'[t]) = s
  BY StackIs
<1>2. StackOf(t)' = s
  BY <1>1 DEF StackOf
<1> QED
  BY <1>2

StackMap == [t \in Terms |-> StackOf(t)]

(* The abstract step, in the terms of the state.                           *)
AbstractStep == [Abstract!Next]_<<StackMap, display_terminal>>

(* A step that leaves the stacks shows a terminal or does nothing.         *)
LEMMA SameRefines ==
    ASSUME TypeInv', ColumnInv, SameStacks
    PROVE  ColumnInv' /\ AbstractStep
<1>1. ASSUME NEW t \in Terms
      PROVE  /\ StackOf(t)' = StackOf(t)
             /\ Column(StackOf(t), t, Live, TermOf, ParOf, Front[t])'
  <2>1. Column(StackOf(t), t, Live, TermOf, ParOf, Front[t])
    BY DEF ColumnInv
  <2>2. Column(StackOf(t), t, Live', TermOf', ParOf', Front'[t])
    BY <2>1, ColumnSame DEF SameStacks
  <2> QED
    BY <2>2, NextColumn
<1>2. ColumnInv'
  BY <1>1 DEF ColumnInv
<1>3. StackMap' = StackMap
  BY <1>1 DEF StackMap
<1>4. display_terminal' \in Abstract!Terms
  BY DEF TypeInv, TypeOK, Terms, Abstract!Terms
<1>5. Abstract!Show(display_terminal')
  BY <1>3 DEF Abstract!Show, StackMap
<1> QED
  BY <1>2, <1>4, <1>5 DEF AbstractStep, Abstract!Next

(* What the abstract specification counts is what add_process counts.      *)
LEMMA SameCount ==
    ASSUME TypeInv, SlotInv, OwnInv, ColumnInv, cpu.at = "take"
    PROVE  /\ Abstract!Live = Live
           /\ \A t \in Terms : StackOf(t) = <<>> <=> ProcsOn(t) = {}
           /\ Cardinality(Abstract!Live) + Cardinality(Abstract!Empty) = num_procs_virt
<1>1. /\ Live \in SUBSET Pids
      /\ \A p \in Pids : TermOf[p] = term_procs[p] /\ term_procs[p] \in Terms \cup {-1}
      /\ \A p \in Pids : p \in Live <=> term_procs[p] \in Terms
  BY Zenon DEF Live, TermOf, TypeInv, TypeOK, SlotInv, TablesAgree
<1>2. ASSUME NEW t \in Terms
      PROVE  /\ StackOf(t) \in Seq(Pids)
             /\ \A i \in 1 .. Len(StackOf(t)) :
                   StackOf(t)[i] \in Live /\ TermOf[StackOf(t)[i]] = t
             /\ \A p \in Live : TermOf[p] = t => \E i \in 1 .. Len(StackOf(t)) : StackOf(t)[i] = p
  BY DEF ColumnInv, Column
<1>3. Abstract!Live = Live
  <2>1. \A x : x \in Abstract!Live <=>
               \E t \in Terms : \E i \in 1 .. Len(StackOf(t)) : x = StackOf(t)[i]
    BY DEF Abstract!Live, Abstract!ProcsIn, Abstract!Terms, Terms
  <2>2. ASSUME NEW x \in Live PROVE x \in Abstract!Live
    <3>1. TermOf[x] \in Terms
      BY <1>1
    <3>2. \E i \in 1 .. Len(StackOf(TermOf[x])) : StackOf(TermOf[x])[i] = x
      BY <1>2, <3>1
    <3> QED
      BY <2>1, <3>1, <3>2
  <2>3. ASSUME NEW x \in Abstract!Live PROVE x \in Live
    BY <1>2, <2>1
  <2> QED
    BY <2>2, <2>3
<1>4. ASSUME NEW t \in Terms PROVE StackOf(t) = <<>> <=> ProcsOn(t) = {}
  <2>1. CASE StackOf(t) = <<>>
    <3>1. \A p \in Live : TermOf[p] # t
      BY <1>2, <2>1
    <3> QED
      BY <1>1, <2>1, <3>1 DEF ProcsOn
  <2>2. CASE StackOf(t) # <<>>
    <3>1. 1 \in 1 .. Len(StackOf(t))
      BY <1>2, <2>2
    <3>2. StackOf(t)[1] \in Live /\ TermOf[StackOf(t)[1]] = t
      BY <1>2, <3>1
    <3>3. StackOf(t)[1] \in ProcsOn(t)
      BY <1>1, <3>2 DEF ProcsOn
    <3> QED
      BY <2>2, <3>3
  <2> QED
    BY <2>1, <2>2
<1>5. Abstract!Empty = EmptyTerms
  BY <1>4 DEF Abstract!Empty, EmptyTerms, Abstract!Terms, Terms
<1>6. Live = Attached
  <2>1. \A x \in Terms \cup {-1} : x \in Terms <=> x >= 0
    BY SizeFacts DEF Terms
  <2> QED
    BY <1>1, <2>1 DEF Attached
<1> QED
  BY <1>3, <1>4, <1>5, <1>6, CountFacts

(* TermStacks counts with the same Cardinality.                            *)
LEMMA CardSame == \A S : Abstract!Cardinality(S) = Cardinality(S)
BY DEF Cardinality, Abstract!Cardinality

(* add_process starts a process.                                           *)
LEMMA TakeRefines ==
    ASSUME TypeInv, SlotInv, OwnInv, ColumnInv, TakeSlot,
           Pushed(running_terminal, cpu.pid)
    PROVE  ColumnInv' /\ AbstractStep
<1> SUFFICES ASSUME NEW r, r = running_terminal, NEW q, q = cpu.pid
             PROVE  ColumnInv' /\ AbstractStep
  OBVIOUS
<1>1. /\ cpu.at = "take" /\ r \in Terms /\ display_terminal = r
      /\ display_terminal' = display_terminal /\ Pushed(r, q)
  BY DEF TakeSlot, At, termVars, TypeInv, TypeOK, DisplayedIsRunning
<1>2. q \in Pids \ Live /\ Live' = Live \cup {q}
  BY <1>1 DEF Pushed
<1>3. /\ StackOf(r)' = Append(StackOf(r), q)
      /\ Column(StackOf(r), r, Live, TermOf, ParOf, Front[r])'
  <2>1. Column(StackOf(r), r, Live, TermOf, ParOf, Front[r])
    BY <1>1, Zenon DEF ColumnInv
  <2>2. Column(Append(StackOf(r), q), r, Live', TermOf', ParOf', Front'[r])
    BY <1>1, <1>2, <2>1, ColumnPush DEF Pushed
  <2> QED
    BY <1>1, <2>2, NextColumn, Zenon
<1>4. ASSUME NEW t \in Terms \ {r}
      PROVE  /\ StackOf(t)' = StackOf(t)
             /\ Column(StackOf(t), t, Live, TermOf, ParOf, Front[t])'
  <2>1. Column(StackOf(t), t, Live, TermOf, ParOf, Front[t])
    BY Zenon DEF ColumnInv
  <2>2. Column(StackOf(t), t, Live', TermOf', ParOf', Front'[t])
    <3>1. /\ \A p \in Live : TermOf[p] = t => p \in Live'
          /\ \A p \in Live' : TermOf'[p] = t => p \in Live
          /\ \A p \in Live \cap Live' : TermOf'[p] = TermOf[p] /\ ParOf'[p] = ParOf[p]
          /\ Front'[t] = Front[t]
      BY <1>1, <1>2 DEF Pushed
    <3> QED
      BY <2>1, <3>1, ColumnSame
  <2> QED
    BY <2>2, NextColumn
<1>5. ColumnInv'
  BY <1>3, <1>4, Zenon DEF ColumnInv
<1>6. StackMap' = [StackMap EXCEPT ![r] = Append(@, q)]
  BY <1>1, <1>3, <1>4, Zenon DEF StackMap
<1>7. q \in Abstract!Pids /\ q \notin Abstract!Live
  BY <1>1, <1>2, SameCount DEF Pids, Abstract!Pids
<1>8. StackMap[r] # <<>> =>
        Cardinality(Abstract!Live) + Cardinality(Abstract!Empty) < MAX_DEVICES
  <2>1. Room
    BY <1>1 DEF SlotInv, ClaimPoints
  <2>2. ProcsOn(r) = {} \/ num_procs_virt < MAX_DEVICES
    BY <2>1 DEF Room
  <2>3. StackOf(r) = <<>> <=> ProcsOn(r) = {}
    BY <1>1, SameCount
  <2>4. StackMap[r] = StackOf(r)
    BY <1>1 DEF StackMap
  <2> QED
    BY <1>1, <2>2, <2>3, <2>4, SameCount
<1>9. Abstract!Start(q)
  BY <1>1, <1>6, <1>7, <1>8, CardSame DEF Abstract!Start, StackMap
<1> QED
  BY <1>5, <1>7, <1>9 DEF AbstractStep, Abstract!Next

(* delete_process stops the one on top.                                    *)
LEMMA FreeRefines ==
    ASSUME TypeInv, OwnInv, ColumnInv, FreeSlot, Popped(running_terminal)
    PROVE  ColumnInv' /\ AbstractStep
<1> SUFFICES ASSUME NEW r, r = running_terminal, NEW f, f = Front[r]
             PROVE  ColumnInv' /\ AbstractStep
  OBVIOUS
<1>1. /\ r \in Terms /\ display_terminal = r
      /\ display_terminal' = display_terminal /\ Popped(r)
  BY DEF FreeSlot, termVars, TypeInv, TypeOK, DisplayedIsRunning
<1>2. f \in Pids /\ f \in Live /\ TermOf[f] = r /\ Live' = Live \ {f}
  BY <1>1, FrontFacts, Zenon DEF Popped, OwnInv
<1>3. /\ StackOf(r) # <<>>
      /\ StackOf(r)' = Rest(StackOf(r))
      /\ Column(StackOf(r), r, Live, TermOf, ParOf, Front[r])'
  <2>1. Column(StackOf(r), r, Live, TermOf, ParOf, f)
    BY <1>1, Zenon DEF ColumnInv
  <2>2. StackOf(r) # <<>> /\ Column(Rest(StackOf(r)), r, Live', TermOf', ParOf', Front'[r])
    <3>1. /\ Live' = Live \ {f} /\ Front'[r] = ParOf[f]
          /\ \A p \in Live' : TermOf'[p] = TermOf[p] /\ ParOf'[p] = ParOf[p]
      BY <1>1, Zenon DEF Popped
    <3>2. Column(Rest(StackOf(r)), r, Live', TermOf', ParOf', ParOf[f])
      BY <1>2, <2>1, <3>1, ColumnPop
    <3>3. StackOf(r) # <<>>
      BY <1>2, <2>1, ColumnTop, Zenon
    <3> QED
      BY <3>1, <3>2, <3>3
  <2> QED
    BY <1>1, <2>2, NextColumn
<1>4. ASSUME NEW t \in Terms \ {r}
      PROVE  /\ StackOf(t)' = StackOf(t)
             /\ Column(StackOf(t), t, Live, TermOf, ParOf, Front[t])'
  <2>1. Column(StackOf(t), t, Live, TermOf, ParOf, Front[t])
    BY Zenon DEF ColumnInv
  <2>2. Column(StackOf(t), t, Live', TermOf', ParOf', Front'[t])
    <3>1. /\ \A p \in Live : TermOf[p] = t => p \in Live'
          /\ \A p \in Live' : TermOf'[p] = t => p \in Live
          /\ \A p \in Live \cap Live' : TermOf'[p] = TermOf[p] /\ ParOf'[p] = ParOf[p]
          /\ Front'[t] = Front[t]
      BY <1>1, <1>2, Zenon DEF Popped
    <3> QED
      BY <2>1, <3>1, ColumnSame
  <2> QED
    BY <2>2, NextColumn
<1>5. ColumnInv'
  BY <1>3, <1>4 DEF ColumnInv
<1>6. /\ StackMap' = [StackMap EXCEPT ![r] = SubSeq(@, 1, Len(@) - 1)]
      /\ StackMap[r] # <<>>
  BY <1>1, <1>3, <1>4, Zenon DEF StackMap, Rest
<1>7. Abstract!Stop
  BY <1>1, <1>6 DEF Abstract!Stop, StackMap
<1> QED
  BY <1>5, <1>7 DEF AbstractStep, Abstract!Next

(* If key presses are held back outside the safe points, execute, halt and *)
(* the keyboard handler implement TermStacks: add_process pushes a process *)
(* that is on no stack, and keeps a slot for every empty terminal;         *)
(* delete_process pops; Alt+Fn changes no stack.                           *)
THEOREM StacksImplemented ==
    ASSUME KeyPoints \subseteq SafePoints
    PROVE  Spec => ImplementsStacks
<1>1. TypeInv /\ SlotInv /\ [Next]_vars => SlotInv'
  BY SafeIsOpen, SlotStep
<1>2. TypeInv /\ SlotInv /\ OwnInv /\ ColumnInv /\ [Next]_vars
        => OwnInv' /\ ColumnInv' /\ AbstractStep
  <2> SUFFICES ASSUME TypeInv, SlotInv, OwnInv, ColumnInv, [Next]_vars
               PROVE  OwnInv' /\ ColumnInv' /\ AbstractStep
    OBVIOUS
  <2>1. OwnInv' /\ StackChange
    BY OwnStep
  <2>2. TypeInv'
    BY TypeStep
  <2> QED
    BY <2>1, <2>2, SameRefines, TakeRefines, FreeRefines DEF StackChange
<1>3. AbstractStep => [Abstract!Next]_<<[t \in Terms |-> StackOf(t)], display_terminal>>
  BY DEF AbstractStep, StackMap
<1> QED
  BY <1>1, <1>2, <1>3, TypeInit, TypeStep, SlotInit, OwnInit, ColumnInit, PTL
     DEF Spec, ImplementsStacks, Abstract!Spec
=============================================================================
