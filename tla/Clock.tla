------------------------------- MODULE Clock -------------------------------
(***************************************************************************)
(* The clock driver (Rtc) on the interrupt system (Interrupts).  A tick    *)
(* reaches rtc_handler only through the device, the two controllers and    *)
(* the gate; the programs run when no handler does, and the keyboard's     *)
(* handler is what changes terminals.                                      *)
(*                                                                         *)
(* The driver's variables have from the start the values rtc_init gives    *)
(* them; nothing reads them before the first shell runs.                   *)
(***************************************************************************)
EXTENDS Rtc, Interrupts

clockVars == <<vars, irqVars>>

ClockInit == Init /\ PowerOn

(* irq8 with all of rtc_handler                                            *)
Tick == ClockHandler /\ Handler

(* irq1; Alt+Fn shows the program of another terminal.                     *)
Key == KeyHandler /\ (UNCHANGED vars \/ \E p \in Procs : Switch(p))

Running == boot = "up" /\ frames = <<>> /\ ~frozen

(* A step of the displayed program, in user mode or in a system call.      *)
Run(Step) == Running /\ Step /\ UNCHANGED irqVars

ClockNext ==
    \/ Tick \/ Key
    \/ Run(Program)
    \/ /\ \/ Boot \/ Hardware \/ OtherHandler \/ OtherReturns \/ Loop
          \/ \E e \in Exceptions : Exception(e)
       /\ UNCHANGED vars

ClockSpec == ClockInit /\ [][ClockNext]_clockVars

(* The boot, the handlers and the clock go on.  Strong fairness says that  *)
(* interrupts are not so frequent that one always comes before the next    *)
(* instruction of what they interrupt, be it a handler or a program, or    *)
(* before the interrupt of the clock or of a key.  Nothing makes a user    *)
(* change terminals or a program make a call.                              *)
ClockFairSpec ==
    /\ ClockSpec
    /\ WF_clockVars(Boot /\ UNCHANGED vars)
    /\ WF_clockVars(Tick \/ Key)
    /\ WF_clockVars(OtherHandler /\ UNCHANGED vars)
    /\ \A n \in 1 .. MAX_NESTED :
          SF_clockVars(OtherReturns /\ Len(frames) = n /\ UNCHANGED vars)
    /\ WF_clockVars(Raise(RTC_IRQ) /\ UNCHANGED vars)
    /\ SF_clockVars(Interrupt(RTC_IRQ) /\ UNCHANGED vars)
    /\ SF_clockVars(Interrupt(KEYBOARD_IRQ) /\ UNCHANGED vars)
    /\ SF_clockVars(Run(Spin)) /\ SF_clockVars(Run(Return))

-----------------------------------------------------------------------------
(* Types.                                                                  *)
ClockTypeOK == TypeOK /\ IrqTypeOK

(* A program that stays displayed while the frequency is not 0 gets out of *)
(* rtc_read, whatever the others did to the flag and the frequency before, *)
(* unless a program has raised an exception.                               *)
ReadReturns ==
    []~frozen => \A p \in Procs :
        <>[](running = p /\ virtual_freq # 0) => (pc[p] # "user" ~> pc[p] = "user")

(* Every key pressed once the controllers are initialised is handled, also *)
(* one pressed during the boot and one that came with the clock's tick,    *)
(* unless a program has raised an exception.                               *)
KeysServed ==
    []~frozen => (KEYBOARD_IRQ \in unread ~> KEYBOARD_IRQ \notin unread)
=============================================================================
