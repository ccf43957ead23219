----------------------------- MODULE TermStacks -----------------------------
(***************************************************************************)
(* What execute, halt and Alt+Fn promise together, without PCBs, kernel    *)
(* stacks or interrupts: every terminal has a stack of programs, the one   *)
(* on top runs when the terminal is shown, a program starts another one on *)
(* top of itself and gives way to the one below when it halts.             *)
(***************************************************************************)
EXTENDS Integers, Sequences, FiniteSets

CONSTANTS MAX_DEVICES, MAX_TERMINAL_NUM

VARIABLES stacks,   \* per terminal, its processes from the shell upwards
          shown     \* the terminal on the screen

Pids  == 0 .. MAX_DEVICES - 1
Terms == 0 .. MAX_TERMINAL_NUM - 1

ProcsIn(s) == {s[i] : i \in 1 .. Len(s)}
Live == UNION {ProcsIn(stacks[t]) : t \in Terms}
Empty == {t \in Terms : stacks[t] = <<>>}

Init ==
    /\ stacks = [t \in Terms |-> <<>>]
    /\ shown = 0

(* A new process on the shown terminal.  A terminal that already has one   *)
(* may not use up the places kept for the shells of empty terminals.       *)
Start(p) ==
    /\ p \notin Live
    /\ stacks[shown] # <<>> => Cardinality(Live) + Cardinality(Empty) < MAX_DEVICES
    /\ stacks' = [stacks EXCEPT ![shown] = Append(@, p)]
    /\ UNCHANGED shown

(* The program on top of the shown terminal ends.                          *)
Stop ==
    /\ stacks[shown] # <<>>
    /\ stacks' = [stacks EXCEPT ![shown] = SubSeq(@, 1, Len(@) - 1)]
    /\ UNCHANGED shown

Show(t) ==
    /\ shown' = t
    /\ UNCHANGED stacks

Next == (\E p \in Pids : Start(p)) \/ Stop \/ (\E t \in Terms : Show(t))

Spec == Init /\ [][Next]_<<stacks, shown>>
=============================================================================
