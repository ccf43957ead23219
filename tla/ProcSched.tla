------------------------------ MODULE ProcSched ------------------------------
(***************************************************************************)
(* Processes and terminal scheduling: execute and halt (syscalls.c),       *)
(* switch_running_terminal (sched.c) and the part of keyboard_handler      *)
(* (terminal.c) that switches terminals.                                   *)
(*                                                                         *)
(* One CPU.  A system call runs with interrupts on (sys_call starts with   *)
(* sti), so the keyboard interrupt may cut execute and halt anywhere; the  *)
(* handler itself runs with interrupts off.  The steps of execute and halt *)
(* are separated exactly where an interrupt can tell the difference, and   *)
(* the constant KeyPoints says at which of those points interrupts are     *)
(* delivered: Points is the code as it is, a smaller set is the code with  *)
(* the other points protected by cli/sti.                                  *)
(***************************************************************************)
EXTENDS Integers, FiniteSets

CONSTANTS MAX_DEVICES,       \* process slots (sched.h)
          MAX_TERMINAL_NUM,  \* terminals (sched.h)
          KeyPoints          \* where a key press may interrupt

Pids  == 0 .. MAX_DEVICES - 1
Terms == 0 .. MAX_TERMINAL_NUM - 1
NoPid == -1
PidOrNone == Pids \cup {NoPid}

(* Program points.  run: user mode, or a system call that leaves processes *)
(* alone.  add .. iret: execute.  h_map .. h_close: halt.  x_ret: the      *)
(* label exec_ret inside execute, where halt resumes the parent.           *)
ExecPoints == {"add", "scan", "take", "attach", "load", "tss", "save", "iret"}
HaltPoints == {"h_map", "h_tss", "h_del", "h_par", "h_close"}
Labels == {"run", "x_ret"} \cup ExecPoints \cup HaltPoints

(* "root" stands for every point between the halt of a terminal's last     *)
(* program and the start of the shell that replaces it.                    *)
Points == Labels \cup {"root"}

(* The points at which an interrupt does no harm (shown below); the other  *)
(* points are the critical sections the code leaves open.                  *)
SafePoints == {"run", "add", "load", "tss", "h_map", "x_ret"}

(* add_process between its check and the slot it claims.                   *)
ClaimPoints == {"scan", "take", "attach"}

(* The points at which add_process or delete_process has the slot table in *)
(* its hands, and what remains when only these are closed.                 *)
SlotPoints == ClaimPoints \cup {"h_par"}
OpenPoints == Points \ (SlotPoints \cup {"root"})

ASSUME SizeAssumption ==
    /\ MAX_DEVICES \in Nat
    /\ MAX_TERMINAL_NUM \in Nat \ {0}
    /\ MAX_TERMINAL_NUM <= MAX_DEVICES

ASSUME KeyPointsAssumption == KeyPoints \subseteq Points

(* What the PCB's esp/ebp name: a point of the kernel code, the 8 KB       *)
(* kernel stack (numbered by the process that owns it) it runs on, and the *)
(* locals of execute (pid = process_id, par = parent_process_id) or of     *)
(* halt (pid = the child, par = its parent, esp = the parent's stack).     *)
Context == [at : Labels, stk : Pids, pid : PidOrNone, par : PidOrNone,
            esp : PidOrNone, ints : BOOLEAN]

(* Where video_mem may point: the store of a terminal (its number), the     *)
(* physical screen, or the -1 get_term_vid_addr returns for no terminal.   *)
VIDEO   == MAX_TERMINAL_NUM
BadAddr == -1

VARIABLES
    procs,             \* procs[i] = 1: slot i is taken
    term_procs,        \* the terminal of each process, or -1
    running_procs,     \* the foremost process of each terminal, or -1
    par_p_id,          \* PCB: parent of each process
    saved,             \* PCB: esp/ebp, as a Context
    display_terminal,
    running_terminal,
    cpu,               \* the Context being executed
    upage,             \* the process whose memory is mapped at 128 MB
    esp0,              \* tss.esp0: the stack used on entry from user mode
    video_mem,         \* where putc and friends write
    kbd,               \* "handle" while keyboard_handler runs
    in_service,        \* IRQ1 raised and not yet acknowledged by send_eoi
    fault              \* "none", or why the kernel can no longer go on

procVars == <<procs, term_procs, running_procs, par_p_id>>
memVars  == <<upage, esp0, video_mem>>
termVars == <<display_terminal, running_terminal>>
irqVars  == <<kbd, in_service>>
vars == <<procVars, saved, termVars, cpu, memVars, irqVars, fault>>

-----------------------------------------------------------------------------
(* A context in user mode; the next entry into the kernel uses stack s.    *)
Running(s) == [at |-> "run", stk |-> s, pid |-> NoPid, par |-> NoPid,
               esp |-> NoPid, ints |-> TRUE]

(* execute("shell") called with no parent, on stack s: at boot, for an     *)
(* empty terminal (interrupts off), or to restart a terminal's shell.      *)
StartShell(s, p, i) == [at |-> "add", stk |-> s, pid |-> NoPid, par |-> p,
                        esp |-> NoPid, ints |-> i]

(* sched_init, then execute(dechar("shell")) at the end of entry.  The     *)
(* boot stack, which ends at 8 MB, lies in the slot of process 0.          *)
Init ==
    /\ procs = [p \in Pids |-> 0]
    /\ term_procs = [p \in Pids |-> -1]
    /\ running_procs = [t \in Terms |-> NoPid]
    /\ par_p_id = [p \in Pids |-> NoPid]
    /\ saved = [p \in Pids |-> Running(p)]
    /\ display_terminal = 0
    /\ running_terminal = 0
    /\ cpu = StartShell(0, NoPid, FALSE)
    /\ upage = NoPid
    /\ esp0 = 0
    /\ video_mem = VIDEO
    /\ kbd = "idle"
    /\ in_service = FALSE
    /\ fault = "none"

(* The CPU executes the step of the kernel that follows point l.           *)
At(l) == kbd = "idle" /\ fault = "none" /\ cpu.at = l

Goto(l) == cpu' = [cpu EXCEPT !.at = l]

-----------------------------------------------------------------------------
(* execute                                                                 *)

(* Lines 223-240.  A command that does not parse or is no executable       *)
(* returns without changing anything and is not an action.                 *)
Execute ==
    /\ At("run")
    /\ cpu' = [cpu EXCEPT !.at = "add", !.par = running_procs[running_terminal]]
    /\ UNCHANGED <<procVars, saved, termVars, memVars, irqVars, fault>>

ProcsOn(t) == {p \in Pids : term_procs[p] = t}

(* Wrong variant: empty terminals are not counted.                         *)
BugVirtNoEmpty == Cardinality({p \in Pids : term_procs[p] >= 0})

(* The sum over the terminals of max(1, processes on it): an empty         *)
(* terminal counts as one because it must still get its shell.             *)
num_procs_virt ==
    Cardinality({p \in Pids : term_procs[p] >= 0})
      + Cardinality({t \in Terms : ProcsOn(t) = {}})

(* execute gives up: a program's call returns 0 to it; a call made for an  *)
(* empty terminal leaves that terminal without a shell.                    *)
GiveUp ==
    IF cpu.par >= 0
    THEN cpu' = Running(esp0) /\ UNCHANGED fault
    ELSE fault' = "no_shell" /\ UNCHANGED cpu

(* Wrong variant: > for >=.                                                *)
BugRoomOffByOne ==
    /\ At("add")
    /\ IF ProcsOn(running_terminal) # {} /\ num_procs_virt > MAX_DEVICES
       THEN GiveUp
       ELSE Goto("scan") /\ UNCHANGED fault
    /\ UNCHANGED <<procVars, saved, termVars, memVars, irqVars>>

(* Wrong variant: the limit also applies to the shell of an empty terminal. *)
BugRoomForAll ==
    /\ At("add")
    /\ IF num_procs_virt >= MAX_DEVICES
       THEN GiveUp
       ELSE Goto("scan") /\ UNCHANGED fault
    /\ UNCHANGED <<procVars, saved, termVars, memVars, irqVars>>

(* Wrong variant: wait for room instead of returning.                      *)
BugRoomWaits ==
    /\ At("add")
    /\ ProcsOn(running_terminal) = {} \/ num_procs_virt < MAX_DEVICES
    /\ Goto("scan")
    /\ UNCHANGED <<procVars, saved, termVars, memVars, irqVars>> /\ UNCHANGED fault

(* add_process, lines 62-78: is there room for one more?                   *)
CheckRoom ==
    /\ At("add")
    /\ IF ProcsOn(running_terminal) # {} /\ num_procs_virt >= MAX_DEVICES
       THEN GiveUp
       ELSE Goto("scan") /\ UNCHANGED fault
    /\ UNCHANGED <<procVars, saved, termVars, memVars, irqVars>>

FreeSlots == {p \in Pids : procs[p] = 0}

(* add_process, lines 79-81: the first free slot.                          *)
ScanSlots ==
    /\ At("scan")
    /\ \/ /\ FreeSlots = {}
          /\ GiveUp
       \/ /\ UNCHANGED fault
          /\ \E i \in FreeSlots :
                /\ \A j \in FreeSlots : i <= j
                /\ cpu' = [cpu EXCEPT !.at = "take", !.pid = i]
    /\ UNCHANGED <<procVars, saved, termVars, memVars, irqVars>>

(* add_process, lines 82-84.                                               *)
TakeSlot ==
    /\ At("take")
    /\ procs' = [procs EXCEPT ![cpu.pid] = 1]
    /\ running_procs' = [running_procs EXCEPT ![running_terminal] = cpu.pid]
    /\ Goto("attach")
    /\ UNCHANGED <<term_procs, par_p_id, saved, termVars, memVars, irqVars, fault>>

(* add_process, line 85.                                                   *)
Attach ==
    /\ At("attach")
    /\ term_procs' = [term_procs EXCEPT ![cpu.pid] = running_terminal]
    /\ Goto("load")
    /\ UNCHANGED <<procs, running_procs, par_p_id, saved, termVars, memVars,
                   irqVars, fault>>

(* Wrong variant: the parent is not recorded.                              *)
BugLoadNoParent ==
    /\ At("load")
    /\ upage' = cpu.pid
    /\ Goto("tss")
    /\ UNCHANGED <<procVars, saved, termVars, esp0, video_mem, irqVars, fault>>

(* Lines 247-299: map the new process's page, load the program into it and *)
(* fill its PCB.                                                           *)
Load ==
    /\ At("load")
    /\ upage' = cpu.pid
    /\ par_p_id' = [par_p_id EXCEPT ![cpu.pid] = cpu.par]
    /\ Goto("tss")
    /\ UNCHANGED <<procs, term_procs, running_procs, saved, termVars, esp0,
                   video_mem, irqVars, fault>>

(* Lines 301-302.                                                          *)
SetTss ==
    /\ At("tss")
    /\ esp0' = cpu.pid
    /\ Goto("save")
    /\ UNCHANGED <<procVars, saved, termVars, upage, video_mem, irqVars, fault>>

(* Lines 303-312: the parent's esp/ebp name this frame; halt resumes it at *)
(* exec_ret.                                                               *)
SaveParent ==
    /\ At("save")
    /\ saved' = IF cpu.par >= 0
                THEN [saved EXCEPT ![cpu.par] = [cpu EXCEPT !.at = "x_ret"]]
                ELSE saved
    /\ Goto("iret")
    /\ UNCHANGED <<procVars, termVars, memVars, irqVars, fault>>

(* Lines 315-331: into user mode with IF set.                              *)
Iret ==
    /\ At("iret")
    /\ cpu' = Running(esp0)
    /\ UNCHANGED <<procVars, saved, termVars, memVars, irqVars, fault>>

(* Wrong variant: the last program of a terminal is not replaced.          *)
BugExecRetNoShell ==
    /\ At("x_ret")
    /\ cpu' = Running(esp0)
    /\ UNCHANGED <<procVars, saved, termVars, memVars, irqVars, fault>>

(* Lines 333-346: back in the parent, or, when the terminal has lost its   *)
(* last program, once more into execute.                                   *)
ExecRet ==
    /\ At("x_ret")
    /\ cpu' = IF running_procs[display_terminal] < 0
              THEN StartShell(cpu.stk, running_procs[running_terminal], cpu.ints)
              ELSE Running(esp0)
    /\ UNCHANGED <<procVars, saved, termVars, memVars, irqVars, fault>>

-----------------------------------------------------------------------------
(* halt                                                                    *)

(* Lines 144-148.                                                          *)
Halt ==
    /\ At("run")
    /\ LET child == running_procs[running_terminal] IN
       cpu' = [cpu EXCEPT !.at = IF par_p_id[child] >= 0 THEN "h_map" ELSE "h_del",
                          !.pid = child, !.par = par_p_id[child]]
    /\ UNCHANGED <<procVars, saved, termVars, memVars, irqVars, fault>>

(* Wrong variant: the parent's page is not mapped.                         *)
BugNoMapParent ==
    /\ At("h_map")
    /\ Goto("h_tss")
    /\ UNCHANGED <<procVars, saved, termVars, memVars, irqVars, fault>>

(* Lines 151-152.                                                          *)
MapParent ==
    /\ At("h_map")
    /\ upage' = cpu.par
    /\ Goto("h_tss")
    /\ UNCHANGED <<procVars, saved, termVars, esp0, video_mem, irqVars, fault>>

(* Wrong variant: tss.esp0 is left on the child's stack.                   *)
BugNoParentTss ==
    /\ At("h_tss")
    /\ cpu' = [cpu EXCEPT !.at = "h_del", !.esp = saved[cpu.par].stk]
    /\ UNCHANGED <<procVars, saved, termVars, memVars, irqVars, fault>>

(* Lines 155-160.                                                          *)
ParentTss ==
    /\ At("h_tss")
    /\ esp0' = cpu.par
    /\ cpu' = [cpu EXCEPT !.at = "h_del", !.esp = saved[cpu.par].stk]
    /\ UNCHANGED <<procVars, saved, termVars, upage, video_mem, irqVars, fault>>

(* delete_process, lines 105-106.                                          *)
FreeSlot ==
    /\ At("h_del")
    /\ procs' = [procs EXCEPT ![cpu.pid] = 0]
    /\ term_procs' = [term_procs EXCEPT ![cpu.pid] = -1]
    /\ Goto("h_par")
    /\ UNCHANGED <<running_procs, par_p_id, saved, termVars, memVars, irqVars, fault>>

(* Wrong variants: the entry of terminal 0 is written; none is.            *)
BugForemostOfFirst ==
    /\ At("h_par")
    /\ running_procs' = [running_procs EXCEPT ![0] = par_p_id[cpu.pid]]
    /\ term_procs' = [term_procs EXCEPT ![cpu.pid] = -1]
    /\ Goto(IF cpu.par >= 0 THEN "h_close" ELSE "x_ret")
    /\ UNCHANGED <<procs, par_p_id, saved, termVars, memVars, irqVars, fault>>

BugForemostKept ==
    /\ At("h_par")
    /\ Goto(IF cpu.par >= 0 THEN "h_close" ELSE "x_ret")
    /\ UNCHANGED <<procVars, saved, termVars, memVars, irqVars, fault>>

(* delete_process, lines 108-109, and the branch of halt: a terminal's     *)
(* last program jumps straight to exec_ret on its own stack.               *)
ForemostIsParent ==
    /\ At("h_par")
    /\ running_procs' = [running_procs EXCEPT ![display_terminal] = par_p_id[cpu.pid]]
    /\ term_procs' = [term_procs EXCEPT ![cpu.pid] = -1]
    /\ Goto(IF cpu.par >= 0 THEN "h_close" ELSE "x_ret")
    /\ UNCHANGED <<procs, par_p_id, saved, termVars, memVars, irqVars, fault>>

(* Lines 175-209: close the files, then jump to exec_ret with the parent's *)
(* esp/ebp.                                                                *)
ResumeParent ==
    /\ At("h_close")
    /\ cpu' = [cpu EXCEPT !.at = "x_ret", !.stk = cpu.esp, !.pid = NoPid, !.esp = NoPid]
    /\ UNCHANGED <<procVars, saved, termVars, memVars, irqVars, fault>>

-----------------------------------------------------------------------------
(* Keyboard interrupt                                                      *)

get_term_vid_addr(t) == IF t \in Terms THEN t ELSE BadAddr

(* Wrong variant: the terminal's store although it is displayed.           *)
BugEmptyToStore(next, disp) ==
    /\ running_procs[next] < 0
    /\ running_terminal' = next
    /\ video_mem' = get_term_vid_addr(next)
    /\ UNCHANGED <<saved, upage, esp0, fault>>

(* switch_running_terminal(next), with disp displayed, when next is empty: *)
(* nothing is saved and the caller must start a shell.                     *)
SwitchToEmpty(next, disp) ==
    /\ running_procs[next] < 0
    /\ running_terminal' = next
    /\ video_mem' = IF next = disp THEN VIDEO ELSE get_term_vid_addr(next)
    /\ UNCHANGED <<saved, upage, esp0, fault>>

(* Wrong variant: running_terminal is not updated.                         *)
BugSwitchKeepsTerminal(next, disp) ==
    LET cur == running_procs[running_terminal]
        nxt == running_procs[next]
    IN  /\ nxt >= 0 /\ cur >= 0
        /\ saved' = [saved EXCEPT ![cur] = cpu]
        /\ upage' = nxt
        /\ video_mem' = VIDEO
        /\ esp0' = saved'[nxt].stk
        /\ cpu' = saved'[nxt]
        /\ UNCHANGED <<running_terminal, fault>>

(* switch_running_terminal(next) when next has a foremost process: save    *)
(* into the PCB of the current one, map and resume the next one.  With no  *)
(* current process find_PCB(-1) is 8 MB, which is not mapped.              *)
SwitchToProc(next, disp) ==
    LET cur == running_procs[running_terminal]
        nxt == running_procs[next]
    IN  /\ nxt >= 0
        /\ running_terminal' = next
        /\ IF cur < 0
           THEN /\ fault' = "page_fault"
                /\ UNCHANGED <<saved, upage, esp0, video_mem, cpu>>
           ELSE /\ saved' = [saved EXCEPT ![cur] = cpu]
                /\ upage' = nxt
                /\ video_mem' = IF term_procs[nxt] = disp THEN VIDEO
                                ELSE get_term_vid_addr(term_procs[nxt])
                /\ esp0' = saved'[nxt].stk
                /\ cpu' = saved'[nxt]
                /\ UNCHANGED fault

(* The point the CPU is at, as far as KeyPoints is concerned.              *)
PointOf(c) == IF c.at # "run" /\ c.par < 0 THEN "root" ELSE c.at

(* IRQ1 is delivered; keyboard_handler, line 388.                          *)
KeyIrq ==
    /\ kbd = "idle"
    /\ fault = "none"
    /\ cpu.ints
    /\ PointOf(cpu) \in KeyPoints
    /\ ~in_service
    /\ in_service' = TRUE
    /\ kbd' = "handle"
    /\ \/ SwitchToEmpty(display_terminal, display_terminal) /\ UNCHANGED cpu
       \/ SwitchToProc(display_terminal, display_terminal)
    /\ UNCHANGED <<procVars, display_terminal>>

(* Every key but Alt+Fn of another terminal: nothing more happens here.    *)
KeyOther ==
    /\ kbd = "handle"
    /\ fault = "none"
    /\ kbd' = "idle"
    /\ in_service' = FALSE
    /\ UNCHANGED <<procVars, saved, termVars, cpu, memVars, fault>>

(* Wrong variant: no terminal acknowledges the interrupt before execute.   *)
BugAltFnNoEoi(t) ==
    /\ kbd = "handle"
    /\ fault = "none"
    /\ t # display_terminal
    /\ display_terminal' = t
    /\ kbd' = "idle"
    /\ \/ /\ SwitchToEmpty(t, t)
          /\ cpu' = StartShell(cpu.stk, running_procs[t], FALSE)
          /\ UNCHANGED in_service
       \/ /\ SwitchToProc(t, t)
          /\ in_service' = FALSE
    /\ UNCHANGED procVars

(* Alt+Fn, lines 516-554: show terminal t and run it.  An empty one gets a *)
(* shell from inside the handler; only F2 and F3 acknowledge the interrupt *)
(* before that.                                                            *)
KeyAltFn(t) ==
    /\ kbd = "handle"
    /\ fault = "none"
    /\ t # display_terminal
    /\ display_terminal' = t
    /\ kbd' = "idle"
    /\ \/ /\ SwitchToEmpty(t, t)
          /\ cpu' = StartShell(cpu.stk, running_procs[t], FALSE)
          /\ in_service' = (t = 0)
       \/ /\ SwitchToProc(t, t)
          /\ in_service' = FALSE
    /\ UNCHANGED procVars

(* After a fault the exception handler loops for ever (idt.c).             *)
Frozen ==
    /\ fault # "none"
    /\ UNCHANGED vars

-----------------------------------------------------------------------------
(* What programs choose to do, and what the kernel then does by itself.    *)
ProgramStep == Execute \/ Halt
ExecuteStep == CheckRoom \/ ScanSlots \/ TakeSlot \/ Attach \/ Load \/ SetTss
                 \/ SaveParent \/ Iret \/ ExecRet
HaltStep == MapParent \/ ParentTss \/ FreeSlot \/ ForemostIsParent \/ ResumeParent
KernelStep == ExecuteStep \/ HaltStep
HandlerStep == KeyOther \/ \E t \in Terms : KeyAltFn(t)

Next == ProgramStep \/ KernelStep \/ KeyIrq \/ HandlerStep \/ Frozen

Spec == Init /\ [][Next]_vars

-----------------------------------------------------------------------------
(* Properties                                                              *)

(* The state of the scheduler is well formed.                              *)
TypeOK ==
    /\ procs \in [Pids -> {0, 1}]
    /\ term_procs \in [Pids -> Terms \cup {-1}]
    /\ running_procs \in [Terms -> PidOrNone]
    /\ par_p_id \in [Pids -> PidOrNone]
    /\ saved \in [Pids -> Context]
    /\ display_terminal \in Terms
    /\ running_terminal \in Terms
    /\ cpu \in Context
    /\ upage \in PidOrNone
    /\ esp0 \in Pids
    /\ video_mem \in Terms \cup {VIDEO, BadAddr}
    /\ kbd \in {"idle", "handle"}
    /\ in_service \in BOOLEAN
    /\ fault \in {"none", "no_shell", "page_fault"}

(* A program is running: it is in user mode, or in a system call of its    *)
(* own that does not concern processes.                                    *)
UserMode == cpu.at = "run" /\ kbd = "idle" /\ fault = "none"

(* The process get_current_PCB takes to be the caller.                     *)
Foremost == running_procs[running_terminal]

(* Only a key press moves the CPU to another terminal, and it always moves *)
(* the display with it; delete_process, terminal_read and clear_buffer use *)
(* display_terminal where they mean running_terminal and rely on this.     *)
DisplayedIsRunning == running_terminal = display_terminal

(* Whenever a program runs, get_current_PCB finds a PCB: no system call    *)
(* of a program can follow running_procs[...] = -1 to the unmapped 8 MB.   *)
ProgramHasPcb == UserMode => Foremost \in Pids

(* What one terminal does never changes which process is foremost on       *)
(* another: halt (through display_terminal) and add_process (through       *)
(* running_terminal) write the entry of the calling process's terminal.    *)
OthersUndisturbed ==
    [][\A t \in Terms \ {running_terminal} : running_procs'[t] = running_procs[t]]_vars

(* term_procs and running_procs agree: the foremost process of a terminal  *)
(* is a live process of that terminal, except between the two assignments  *)
(* of add_process and the two of delete_process.                           *)
ForemostAttached ==
    \A t \in Terms :
        /\ running_procs[t] >= 0
        /\ ~(t = running_terminal /\ cpu.at \in {"attach", "h_par"})
        => /\ procs[running_procs[t]] = 1
           /\ term_procs[running_procs[t]] = t

(* No process is foremost on two terminals.                                *)
NoSharedProcess ==
    \A t, u \in Terms :
        t # u /\ running_procs[t] >= 0 => running_procs[t] # running_procs[u]

(* A program runs on its own memory: the page at 128 MB is the one of the  *)
(* process that get_current_PCB names.                                     *)
OwnMemory == UserMode => upage = Foremost

(* A program enters the kernel on its own kernel stack.                    *)
OwnKernelStack == UserMode => esp0 = Foremost

(* A program writes to the screen, not to a terminal's store or to -1.     *)
OwnScreen == UserMode => video_mem = VIDEO

(* No path of keyboard_handler leaves a program running with IRQ1 still in *)
(* service, after which no key would ever be seen again.                   *)
KeyboardAlive == UserMode => ~in_service

(* The kernel never follows running_procs[...] = -1 and never fails to     *)
(* start the shell of an empty terminal.                                   *)
NoFault == fault = "none"

(* add_process keeps one slot back for every terminal that has no program. *)
ShellReserve == num_procs_virt <= MAX_DEVICES

(* So an empty terminal that is about to be given its shell finds a slot.  *)
ReservedSlotFree ==
    (\E t \in Terms : ProcsOn(t) = {}) /\ cpu.at # "attach" => FreeSlots # {}
=============================================================================
