-------------------------------- MODULE Rtc --------------------------------
(***************************************************************************)
(* The real-time clock driver (rtc.c): the handler that turns the physical *)
(* interrupts, MAX_FREQ of them a second, into virtual ones, and the       *)
(* rtc_read and rtc_write of the programs.  All programs share one         *)
(* frequency and one flag.  Only the program of the displayed terminal     *)
(* runs; rtc_read spins with interrupts on, so that an interrupt may come  *)
(* between any two steps here.  Clock says when interrupts come.           *)
(***************************************************************************)
EXTENDS Integers

CONSTANTS MAX_FREQ,     \* 1024
          DEF_FREQ,     \* 2
          BITS,         \* width of an int32_t
          Procs,        \* one program per terminal
          Frequencies   \* what programs pass to rtc_write

(* The powers of 2.                                                        *)
Pow2[k \in Nat] == IF k = 0 THEN 1 ELSE 2 * Pow2[k - 1]

ASSUME RtcAssumption ==
    /\ BITS \in Nat \ {0}
    /\ MAX_FREQ \in {Pow2[k] : k \in 0 .. BITS - 2}
    /\ DEF_FREQ \in {Pow2[k] : k \in 0 .. BITS - 2} /\ DEF_FREQ <= MAX_FREQ
    /\ Frequencies \subseteq -Pow2[BITS - 1] .. Pow2[BITS - 1] - 1

NoGap == -1

VARIABLES
    clk, virtual_freq, IR_flag,
    running,   \* the program of the displayed terminal
    pc,        \* user; wait: in the loop of rtc_read; woken: past it
    gap,       \* history: interrupts since the last virtual one, NoGap if
               \* the frequency has changed in between
    period,    \* history: the last such distance, NoGap if there is none
    fault      \* the handler has divided by zero

prgVars == <<running, pc>>
vars == <<clk, virtual_freq, IR_flag, prgVars, gap, period, fault>>

(* rtc_init, through rtc_open.                                             *)
Init ==
    /\ clk = 0
    /\ virtual_freq = DEF_FREQ
    /\ IR_flag = FALSE
    /\ running \in Procs
    /\ pc = [p \in Procs |-> "user"]
    /\ gap = NoGap
    /\ period = NoGap
    /\ fault = FALSE

(* C's division, which rounds towards zero, for a >= 0.                    *)
Quotient(a, b) == IF b < 0 THEN -(a \div (-b)) ELSE a \div b

(* Wrong variant: one interrupt too many.                                  *)
BugDivisor == Quotient(MAX_FREQ, virtual_freq) + 1

(* Interrupts from one virtual interrupt to the next; C's remainder for a  *)
(* negative divisor is that for its absolute value.                        *)
Divisor ==
    LET d == Quotient(MAX_FREQ, virtual_freq) IN IF d < 0 THEN -d ELSE d

NextClk == (clk + 1) % MAX_FREQ

(* rtc_handler                                                             *)
Handler ==
    /\ ~fault
    /\ clk' = NextClk
    /\ fault' = (virtual_freq # 0 /\ Divisor = 0)
    /\ IF virtual_freq # 0 /\ Divisor # 0 /\ NextClk % Divisor = 0
       THEN /\ IR_flag' = TRUE
            /\ period' = IF gap = NoGap THEN NoGap ELSE gap + 1
            /\ gap' = 0
       ELSE /\ gap' = IF gap = NoGap \/ virtual_freq = 0 THEN NoGap ELSE gap + 1
            /\ UNCHANGED <<IR_flag, period>>
    /\ UNCHANGED <<virtual_freq, running, pc>>

At(label) == ~fault /\ pc[running] = label

Goto(label) == pc' = [pc EXCEPT ![running] = label]

(* rtc_read: entry                                                         *)
Read ==
    /\ At("user")
    /\ Goto("wait")
    /\ UNCHANGED <<clk, virtual_freq, IR_flag, running, gap, period, fault>>

(* Wrong variant: the loop ends on the flag being down.                    *)
BugSpin ==
    /\ At("wait") /\ ~IR_flag
    /\ Goto("woken")
    /\ UNCHANGED <<clk, virtual_freq, IR_flag, running, gap, period, fault>>

(* rtc_read: while(!IR_flag) ends                                          *)
Spin ==
    /\ At("wait") /\ IR_flag
    /\ Goto("woken")
    /\ UNCHANGED <<clk, virtual_freq, IR_flag, running, gap, period, fault>>

(* rtc_read: IR_flag = 0 and return                                        *)
Return ==
    /\ At("woken")
    /\ IR_flag' = FALSE
    /\ Goto("user")
    /\ UNCHANGED <<clk, virtual_freq, running, gap, period, fault>>

(* The words with at most one bit set: (f & (f - 1)) == 0.                 *)
OneBit(f) == f % Pow2[BITS] \in {0} \cup {Pow2[k] : k \in 0 .. BITS - 1}

(* Wrong variant: any frequency up to the largest.                         *)
BugAccepts(f) == f <= MAX_FREQ /\ f # 1

Accepts(f) == f <= MAX_FREQ /\ f # 1 /\ OneBit(f)

(* rtc_write of four bytes; what it does not accept changes nothing.       *)
Write(f) ==
    /\ At("user")
    /\ Accepts(f)
    /\ virtual_freq' = f
    /\ gap' = NoGap
    /\ period' = NoGap
    /\ UNCHANGED <<clk, IR_flag, running, pc, fault>>

(* Alt+Fn                                                                  *)
Switch(p) ==
    /\ ~fault
    /\ p # running
    /\ running' = p
    /\ UNCHANGED <<clk, virtual_freq, IR_flag, pc, gap, period, fault>>

Program == Read \/ Spin \/ Return \/ \E f \in Frequencies : Write(f)

Next == Handler \/ Program \/ \E p \in Procs : Switch(p)

Spec == Init /\ [][Next]_vars

-----------------------------------------------------------------------------
(* Types.                                                                  *)
TypeOK ==
    /\ clk \in 0 .. MAX_FREQ - 1
    /\ virtual_freq \in {DEF_FREQ} \cup Frequencies
    /\ IR_flag \in BOOLEAN /\ fault \in BOOLEAN
    /\ running \in Procs
    /\ pc \in [Procs -> {"user", "wait", "woken"}]
    /\ gap \in Nat \cup {NoGap} /\ period \in Nat \cup {NoGap}

(* At an unchanged frequency f the virtual interrupts come exactly         *)
(* MAX_FREQ / f interrupts apart, also where clk starts again at 0.        *)
EvenTicks == period # NoGap => period * virtual_freq = MAX_FREQ

(* rtc_write lets through only 0 and powers of 2, as its comment says, so  *)
(* that the handler's divisor is never 0.                                  *)
FrequencyValid ==
    virtual_freq \in {0} \cup {Pow2[k] : k \in 0 .. BITS - 2} /\ ~fault
=============================================================================
