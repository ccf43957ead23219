------------------------------- MODULE KeyMap -------------------------------
(***************************************************************************)
(* From the keys of the keyboard to what keyboard_handler (terminal.c)     *)
(* takes them for: the flags of Shift, Ctrl, Alt and Caps Lock and the     *)
(* index into KEY_TABLE.  What it then does is the subject of Terminal and *)
(* ProcSched.                                                              *)
(*                                                                         *)
(* The keyboard is external.  A key sends its scan code when it is pressed *)
(* or repeats, and RELEASE more when it is let go; the codes wait in the   *)
(* controller, so that a key may be up again when its code is handled.     *)
(***************************************************************************)
EXTENDS Integers, Sequences, FiniteSets

CONSTANTS
    Keys,       \* the keys, by scan code
    Repeating,  \* those that repeat while they are held
    MAX_HELD,   \* bound: keys held at the same time
    MAX_QUEUE   \* bound: codes not yet handled

BACK == 14
TAB == 15
ENTER == 28
CTRL == 29
L_SHIFT == 42
R_SHIFT == 54
ALT == 56
SPACE == 57
CAPS_LOCK == 58
FKeys == <<59, 60, 61>>
INPUT_CUTOFF == 62

RELEASE == 128
TABLE_OFFSET == 2
SHIFT_OFFSET == 52

KEY_TABLE == <<
    "1", "2", "3", "4", "5", "6", "7", "8", "9", "0", "-", "=", " ", " ",
    "q", "w", "e", "r", "t", "y", "u", "i", "o", "p", "[", "]", " ", " ",
    "a", "s", "d", "f", "g", "h", "j", "k", "l", ";", "apostrophe", "backquote", " ", "bslash",
    "z", "x", "c", "v", "b", "n", "m", ",", ".", "/",
    "!", "@", "#", "$", "%", "^", "&", "*", "(", ")", "_", "+", " ", " ",
    "Q", "W", "E", "R", "T", "Y", "U", "I", "O", "P", "{", "}", " ", " ",
    "A", "S", "D", "F", "G", "H", "J", "K", "L", ":", "quote", "~", " ", "|",
    "Z", "X", "C", "V", "B", "N", "M", "<", ">", "?" >>

ASSUME KeyAssumption ==
    /\ Keys \subseteq 0 .. RELEASE - 1 /\ Repeating \subseteq Keys
    /\ MAX_HELD \in Nat /\ MAX_QUEUE \in Nat

VARIABLES
    held, caps,  \* keyboard: the keys down, and is Caps Lock on?
    queue,       \* codes, each with what the user means by it
    L_shift_check, R_shift_check, ctrl_check, alt_check, capslock_check,
    did, meant   \* history: the last code handled, and what it meant

flags == <<L_shift_check, R_shift_check, ctrl_check, alt_check, capslock_check>>
kVars == <<held, caps, queue, flags, did, meant>>

Nothing == <<"nothing">>

KeyInit ==
    /\ held = {} /\ caps = FALSE /\ queue = <<>>
    /\ L_shift_check = FALSE /\ R_shift_check = FALSE
    /\ ctrl_check = FALSE /\ alt_check = FALSE /\ capslock_check = FALSE
    /\ did = Nothing /\ meant = Nothing

-----------------------------------------------------------------------------
(* keyboard_handler *)

Shifted == L_shift_check \/ R_shift_check

(* Wrong variant: one key too far on the middle row.                       *)
BugLetterCode(code) == code \in 16 .. 25 \cup 30 .. 39 \cup 44 .. 50

(* The three rows of letters, by scan code.                                *)
LetterCode(code) == code \in 16 .. 25 \cup 30 .. 38 \cup 44 .. 50

table_index(code) ==
    (code - TABLE_OFFSET)
    + (IF Shifted THEN SHIFT_OFFSET ELSE 0)
    + (IF capslock_check /\ LetterCode(code)
       THEN (IF Shifted THEN -SHIFT_OFFSET ELSE SHIFT_OFFSET) ELSE 0)

Input(code) == KEY_TABLE[table_index(code) + 1]

(* default: a key of the table; releases and keys beyond it do nothing.    *)
Default(code) ==
    IF code >= INPUT_CUTOFF THEN Nothing
    ELSE IF ctrl_check /\ Input(code) \in {"l", "L"} THEN <<"clear">>
    ELSE <<"type", Input(code)>>

(* Fn without Alt does nothing.                                            *)
Dispatch(code) ==
    CASE code \in {CAPS_LOCK, L_SHIFT, R_SHIFT, CTRL, ALT}
         \/ code - RELEASE \in {L_SHIFT, R_SHIFT, CTRL, ALT} -> Nothing
      [] code = SPACE -> <<"type", " ">>
      [] code = TAB -> <<"tab">>
      [] code = BACK -> <<"erase">>
      [] code = ENTER -> <<"enter">>
      [] code = ENTER + RELEASE -> <<"enter up">>
      [] code \in {FKeys[n] : n \in 1 .. 3} ->
            IF alt_check THEN <<"show", code>> ELSE Nothing
      [] OTHER -> Default(code)

Flag(check, code, key) ==
    IF code = key THEN TRUE ELSE IF code = key + RELEASE THEN FALSE ELSE check

keyboard_handler ==
    /\ queue # <<>>
    /\ LET code == Head(queue).code IN
       /\ L_shift_check' = Flag(L_shift_check, code, L_SHIFT)
       /\ R_shift_check' = Flag(R_shift_check, code, R_SHIFT)
       /\ ctrl_check' = Flag(ctrl_check, code, CTRL)
       /\ alt_check' = Flag(alt_check, code, ALT)
       /\ capslock_check' = (capslock_check # (code = CAPS_LOCK))
       /\ did' = Dispatch(code)
    /\ meant' = Head(queue).means
    /\ queue' = Tail(queue)
    /\ UNCHANGED <<held, caps>>

-----------------------------------------------------------------------------
(* The keyboard, and what its user means *)

Lower == {"a", "b", "c", "d", "e", "f", "g", "h", "i", "j", "k", "l", "m", "n",
          "o", "p", "q", "r", "s", "t", "u", "v", "w", "x", "y", "z"}

(* What is printed on a key: Shift chooses between the two signs, and Caps *)
(* Lock exchanges them on a letter, whatever code the key has.             *)
Printed(key) ==
    LET shift == held \cap {L_SHIFT, R_SHIFT} # {}
        plain == KEY_TABLE[key - TABLE_OFFSET + 1]
        other == KEY_TABLE[key - TABLE_OFFSET + SHIFT_OFFSET + 1]
    IN  IF shift # (caps /\ plain \in Lower) THEN other ELSE plain

Means(key) ==
    CASE key \in {CAPS_LOCK, L_SHIFT, R_SHIFT, CTRL, ALT} \/ key >= INPUT_CUTOFF -> Nothing
      [] key = SPACE -> <<"type", " ">>
      [] key = TAB -> <<"tab">>
      [] key = BACK -> <<"erase">>
      [] key = ENTER -> <<"enter">>
      [] key \in {FKeys[n] : n \in 1 .. 3} ->
            IF ALT \in held THEN <<"show", key>> ELSE Nothing
      [] OTHER -> IF CTRL \in held /\ Printed(key) \in {"l", "L"} THEN <<"clear">>
                  ELSE <<"type", Printed(key)>>

Send(code, means) ==
    /\ Len(queue) < MAX_QUEUE
    /\ queue' = Append(queue, [code |-> code, means |-> means])
    /\ UNCHANGED <<flags, did, meant>>

Press(key) ==
    /\ key \notin held /\ Cardinality(held) < MAX_HELD
    /\ held' = held \cup {key}
    /\ caps' = (caps # (key = CAPS_LOCK))
    /\ Send(key, Means(key))

Repeat(key) ==
    /\ key \in held \cap Repeating
    /\ Send(key, Means(key))
    /\ UNCHANGED <<held, caps>>

Release(key) ==
    /\ key \in held
    /\ held' = held \ {key}
    /\ Send(key + RELEASE, IF key = ENTER THEN <<"enter up">> ELSE Nothing)
    /\ UNCHANGED caps

KeyNext ==
    \/ keyboard_handler
    \/ \E key \in Keys : Press(key) \/ Repeat(key) \/ Release(key)

KeySpec == KeyInit /\ [][KeyNext]_kVars

-----------------------------------------------------------------------------
(* Every code is taken for what its key meant when it was pressed, however *)
(* the keys overlap and however late the handler comes: the sign that Shift*)
(* (either or both) and Caps Lock give, Ctrl+L, Alt+Fn, and nothing else.  *)
(* No index falls outside KEY_TABLE, or TLC could not evaluate it.         *)
KeyMeaning == did = meant
=============================================================================
