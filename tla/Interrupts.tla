----------------------------- MODULE Interrupts -----------------------------
(***************************************************************************)
(* Interrupts from the reset to the running system: the order in which     *)
(* entry (kernel.c) initialises, the gates of idt.c, the stubs of          *)
(* link_idt.S, the handlers of irq_handle.c, and the two 8259 controllers  *)
(* as i8259.c programs them.                                               *)
(*                                                                         *)
(* Devices, controllers and processor are external: what the code's port   *)
(* writes and gates make them do.  A controller latches a request in irr,  *)
(* hands over the unmasked request of highest priority, and keeps its line *)
(* in isr until an end of interrupt.  A spurious interrupt comes on line 7 *)
(* or 15 without a request.                                                *)
(***************************************************************************)
EXTENDS Integers, Sequences

CONSTANTS
    Devices,      \* the lines whose devices raise requests
    Exceptions,   \* the exceptions programs raise
    EarlyRequests,\* may a device raise a request before i8259_init?
    MAX_NESTED    \* bound: handlers begun and not ended

IRQ_AMNT == 8
IRQ2 == 2
PIT_IRQ == 0
KEYBOARD_IRQ == 1
RTC_IRQ == 8

Lines == 0 .. 2 * IRQ_AMNT - 1

ASSUME IrqAssumption ==
    /\ Devices \subseteq Lines \ {IRQ2}
    /\ Exceptions \subseteq 0 .. 31
    /\ MAX_NESTED \in Nat /\ EarlyRequests \in BOOLEAN

VARIABLES
    boot,      \* the next step of entry; "up" once the first shell runs
    idt,       \* what the gate of each line and exception leads to
    imr,       \* the lines masked
    irr,       \* the requests latched
    isr,       \* the lines in service
    unread,    \* the devices whose data port or register C is not read yet
    periodic,  \* the periodic interrupt of the clock is on
    iflag,     \* the interrupt flag of the processor
    frames,    \* the handlers begun and not ended, the running one first
    frozen     \* in the endless loop of an exception handler

picVars == <<imr, irr, isr, unread, periodic>>
irqVars == <<boot, idt, picVars, iflag, frames, frozen>>

(* setup_idt_exceptions; the numbers are moved past those of the lines.    *)
ExceptionGates == {32 + e : e \in 0 .. 31}

(* setup_idt_interrupts leaves out lines 10, 11 and 12.                    *)
InterruptGates == Lines \ 10 .. 12

Gates == Lines \cup ExceptionGates

(* What boot.S leaves: interrupts off and no gate present; the masks are   *)
(* those of the loader.                                                    *)
PowerOn ==
    /\ boot = "i8259"
    /\ idt = [g \in Gates |-> "absent"]
    /\ imr = {} /\ irr = {} /\ isr = {}
    /\ unread = {} /\ periodic = FALSE
    /\ iflag = FALSE
    /\ frames = <<>>
    /\ frozen = FALSE

-----------------------------------------------------------------------------
(* i8259.c *)

(* enable_irq: a line of the second controller also needs the cascade.     *)
enable_irq(l) == IF l >= IRQ_AMNT THEN imr \ {IRQ2, l} ELSE imr \ {l}

(* Wrong variant: the first controller is not told.                        *)
BugSendEoi(l) == isr \ {l}

(* send_eoi: specific; for the second controller also the cascade's.       *)
send_eoi(l) == IF l >= IRQ_AMNT THEN isr \ {IRQ2, l} ELSE isr \ {l}

(* The end of interrupt 0x20 written to the first controller: its line of  *)
(* highest priority in service.                                            *)
NonSpecificEoi ==
    isr \ {l \in isr : l < IRQ_AMNT /\ \A m \in isr : m < IRQ_AMNT => l <= m}

-----------------------------------------------------------------------------
(* entry (kernel.c) up to the first shell *)

i8259_init ==
    /\ boot = "i8259" /\ boot' = "idt"
    /\ imr' = Lines /\ irr' = {} /\ isr' = {}
    /\ UNCHANGED <<idt, unread, periodic, iflag, frames, frozen>>

(* Provisional gates first, then those of the exceptions and lines.        *)
init_idt ==
    /\ boot = "idt" /\ boot' = "rtc"
    /\ idt' = [g \in Gates |->
                  IF g \in ExceptionGates THEN "exception"
                  ELSE IF g \in InterruptGates THEN "irq" ELSE "provisional"]
    /\ UNCHANGED <<picVars, iflag, frames, frozen>>

(* Wrong variant: the interrupt flag is set when the clock is programmed.  *)
BugRtcInit ==
    /\ boot = "rtc" /\ boot' = "terminal"
    /\ iflag' = TRUE
    /\ periodic' = TRUE
    /\ imr' = enable_irq(RTC_IRQ)
    /\ UNCHANGED <<idt, irr, isr, unread, frames, frozen>>

rtc_init ==
    /\ boot = "rtc" /\ boot' = "terminal"
    /\ iflag' = FALSE
    /\ periodic' = TRUE
    /\ imr' = enable_irq(RTC_IRQ)
    /\ UNCHANGED <<idt, irr, isr, unread, frames, frozen>>

(* Wrong variant: the line is left masked.                                 *)
BugTerminalInit ==
    /\ boot = "terminal" /\ boot' = "shell"
    /\ UNCHANGED <<idt, picVars, iflag, frames, frozen>>

terminal_init ==
    /\ boot = "terminal" /\ boot' = "shell"
    /\ imr' = enable_irq(KEYBOARD_IRQ)
    /\ UNCHANGED <<idt, irr, isr, unread, periodic, iflag, frames, frozen>>

(* sched_init and execute("shell"), whose iret sets the interrupt flag.    *)
FirstShell ==
    /\ boot = "shell" /\ boot' = "up"
    /\ iflag' = TRUE
    /\ UNCHANGED <<idt, picVars, frames, frozen>>

Boot == i8259_init \/ init_idt \/ rtc_init \/ terminal_init \/ FirstShell

-----------------------------------------------------------------------------
(* Devices, controllers and processor *)

(* A device asks again only after its last data has been read: a scan code *)
(* from port 0x60, register C of the clock.                                *)
Raise(l) ==
    /\ l \notin unread
    /\ l = RTC_IRQ => periodic
    /\ boot = "i8259" => EarlyRequests
    /\ unread' = unread \cup {l}
    /\ irr' = irr \cup {l}
    /\ UNCHANGED <<boot, idt, imr, isr, periodic, iflag, frames, frozen>>

(* 0, 1, 2 with the lines of the second controller, 3, ..., 7              *)
Rank(l) == IF l < IRQ_AMNT THEN IRQ_AMNT * l ELSE IRQ_AMNT * IRQ2 + l - IRQ_AMNT

Requests == {l \in irr \ imr : l >= IRQ_AMNT => IRQ2 \notin imr}

(* Wrong variant: the gates are trap gates.                                *)
BugEnter(l, serving) ==
    /\ iflag /\ Len(frames) < MAX_NESTED
    /\ isr' = isr \cup serving
    /\ frames' = <<[line |-> l, at |-> idt[l]]>> \o frames
    /\ UNCHANGED <<boot, idt, imr, unread, periodic, iflag, frozen>>

(* The processor enters the gate of a line, an interrupt gate.             *)
Enter(l, serving) ==
    /\ iflag /\ Len(frames) < MAX_NESTED
    /\ iflag' = FALSE
    /\ isr' = isr \cup serving
    /\ frames' = <<[line |-> l, at |-> idt[l]]>> \o frames
    /\ UNCHANGED <<boot, idt, imr, unread, periodic, frozen>>

Interrupt(l) ==
    /\ l \in Requests
    /\ \A m \in Requests : Rank(l) <= Rank(m)
    /\ \A m \in isr : Rank(l) < Rank(m)
    /\ irr' = irr \ {l}
    /\ Enter(l, IF l >= IRQ_AMNT THEN {IRQ2, l} ELSE {l})

Spurious7 == Enter(7, {}) /\ UNCHANGED irr

Spurious15 ==
    /\ IRQ2 \notin imr
    /\ \A m \in isr : Rank(IRQ2) < Rank(m)
    /\ Enter(15, {IRQ2}) /\ UNCHANGED irr

-----------------------------------------------------------------------------
(* link_idt.S and the handlers *)

(* The stub irqN called its handler.                                       *)
Serving(l) ==
    frames # <<>> /\ Head(frames) = [line |-> l, at |-> "irq"] /\ ~frozen

(* popfl, popal and iret: back to code that could be interrupted.          *)
Iret == iflag' = TRUE /\ frames' = Tail(frames)

(* irq8: rtc_handler reads register C and ends the interrupt.              *)
ClockHandler ==
    /\ Serving(RTC_IRQ)
    /\ unread' = unread \ {RTC_IRQ}
    /\ isr' = send_eoi(RTC_IRQ)
    /\ Iret
    /\ UNCHANGED <<boot, idt, imr, irr, periodic, frozen>>

(* irq1: keyboard_handler reads the scan code, and returns, or resumes     *)
(* another terminal's handler where that left off, or starts a shell: each *)
(* way sends the end of interrupt and ends with interrupts on (Alt+F1 to a *)
(* terminal without a program would not; KeyboardAlive of ProcSched says   *)
(* that terminal 0 is not found so).  On another terminal's stack no       *)
(* handler is left; those that stay behind have ended their interrupts.    *)
KeyHandler ==
    /\ Serving(KEYBOARD_IRQ)
    /\ unread' = unread \ {KEYBOARD_IRQ}
    /\ isr' = send_eoi(KEYBOARD_IRQ)
    /\ iflag' = TRUE
    /\ frames' \in {Tail(frames), <<>>}
    /\ UNCHANGED <<boot, idt, imr, irr, periodic, frozen>>

(* irqN_handler of irq_handle.c: interrupts are on again before the stub   *)
(* has returned.  Nothing unmasks line 0, whose stub calls pit_handler.    *)
OtherHandler ==
    /\ \E l \in Lines \ {PIT_IRQ, KEYBOARD_IRQ, RTC_IRQ} : Serving(l)
    /\ isr' = NonSpecificEoi
    /\ iflag' = TRUE
    /\ frames' = [frames EXCEPT ![1].at = "tail"]
    /\ UNCHANGED <<boot, idt, imr, irr, unread, periodic, frozen>>

OtherReturns ==
    /\ frames # <<>> /\ Head(frames).at = "tail" /\ ~frozen
    /\ Iret
    /\ UNCHANGED <<boot, idt, picVars, frozen>>

(* A program raises an exception: excptN_handler prints and loops, behind  *)
(* an interrupt gate.                                                      *)
Exception(e) ==
    /\ boot = "up" /\ frames = <<>> /\ ~frozen
    /\ idt[32 + e] = "exception"
    /\ frozen' = TRUE
    /\ iflag' = FALSE
    /\ UNCHANGED <<boot, idt, picVars, frames>>

(* while(1);                                                               *)
Loop == frozen /\ UNCHANGED irqVars

Hardware ==
    \/ \E l \in Devices : Raise(l) \/ Interrupt(l)
    \/ Spurious7 \/ Spurious15

Handlers == ClockHandler \/ KeyHandler \/ OtherHandler \/ OtherReturns

IrqNext == Boot \/ Hardware \/ Handlers \/ (\E e \in Exceptions : Exception(e)) \/ Loop

IrqSpec == PowerOn /\ [][IrqNext]_irqVars

-----------------------------------------------------------------------------
(* Types.                                                                  *)
IrqTypeOK ==
    /\ boot \in {"i8259", "idt", "rtc", "terminal", "shell", "up"}
    /\ idt \in [Gates -> {"absent", "provisional", "exception", "irq"}]
    /\ imr \subseteq Lines /\ irr \subseteq Lines /\ isr \subseteq Lines
    /\ unread \subseteq Lines
    /\ periodic \in BOOLEAN /\ iflag \in BOOLEAN /\ frozen \in BOOLEAN
    /\ frames \in Seq([line : Lines, at : {"absent", "provisional", "irq", "tail"}])

(* Interrupts wait for the end of the boot, although rtc_init and          *)
(* terminal_init unmask their lines long before: no handler has begun      *)
(* before the first shell runs, and none begins through a gate that is     *)
(* absent or provisional.                                                  *)
ServedWhenUp ==
    frames # <<>> =>
        /\ boot = "up"
        /\ \A i \in 1 .. Len(frames) : frames[i].at \in {"irq", "tail"}

(* Whenever the processor accepts interrupts, no line is in service: no    *)
(* handler, not even one that enables interrupts early or one that was     *)
(* entered without a request, leaves a line blocked.                       *)
LinesFree == iflag => isr = {}

(* An end of interrupt ends only the service of the handler that sends it, *)
(* also the unspecific one of irqN_handler.                                *)
EoiOwn ==
    [][boot = "up" =>
          \A l \in isr \ isr' :
             \/ l = Head(frames).line
             \/ l = IRQ2 /\ Head(frames).line >= IRQ_AMNT]_irqVars
=============================================================================
