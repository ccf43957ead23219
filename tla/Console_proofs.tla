--------------------------- MODULE Console_proofs ---------------------------
(***************************************************************************)
(* What a key means, for every sequence of keys, and the program fish, for *)
(* every array, screen and pair of pictures: its list and what it draws.   *)
(***************************************************************************)
EXTENDS KeyMap, Fish, FiniteSetTheorems, TLAPS

(* A set of numbers that is not empty has a least one.                     *)
LEMMA LeastOf ==
    ASSUME NEW T \in SUBSET Nat, T # {}
    PROVE  \E k \in T : \A j \in T : k <= j
  <1>1. PICK k \in T : \A j \in T : ~(<<j, k>> \in OpToRel(<, Nat))
    BY NatLessThanWellFounded, WFMin, Zenon
  <1>2. \A j \in T : ~(j < k)
    BY <1>1, Zenon DEF OpToRel
  <1> QED
    BY <1>2

-----------------------------------------------------------------------------
(* The keyboard.                                                           *)

(* The keys whose plain sign is a small letter are those of the three rows *)
(* that the handler tells apart by their codes.                            *)
LEMMA LettersInRows ==
    ASSUME NEW key \in TABLE_OFFSET .. 53
    PROVE  KEY_TABLE[key - TABLE_OFFSET + 1] \in Lower <=> LetterCode(key)
  <1>1. key \in 2 .. 15 => KEY_TABLE[key - 1] \notin Lower
    <2>1. /\ KEY_TABLE[1] \notin Lower /\ KEY_TABLE[2] \notin Lower
          /\ KEY_TABLE[3] \notin Lower /\ KEY_TABLE[4] \notin Lower
          /\ KEY_TABLE[5] \notin Lower /\ KEY_TABLE[6] \notin Lower
          /\ KEY_TABLE[7] \notin Lower /\ KEY_TABLE[8] \notin Lower
          /\ KEY_TABLE[9] \notin Lower /\ KEY_TABLE[10] \notin Lower
          /\ KEY_TABLE[11] \notin Lower /\ KEY_TABLE[12] \notin Lower
          /\ KEY_TABLE[13] \notin Lower /\ KEY_TABLE[14] \notin Lower
      BY DEF KEY_TABLE, Lower
    <2> QED
      BY <2>1
  <1>2. key \in 16 .. 25 => KEY_TABLE[key - 1] \in Lower
    <2>1. /\ KEY_TABLE[15] \in Lower /\ KEY_TABLE[16] \in Lower
          /\ KEY_TABLE[17] \in Lower /\ KEY_TABLE[18] \in Lower
          /\ KEY_TABLE[19] \in Lower /\ KEY_TABLE[20] \in Lower
          /\ KEY_TABLE[21] \in Lower /\ KEY_TABLE[22] \in Lower
          /\ KEY_TABLE[23] \in Lower /\ KEY_TABLE[24] \in Lower
      BY DEF KEY_TABLE, Lower
    <2> QED
      BY <2>1
  <1>3. key \in 26 .. 29 => KEY_TABLE[key - 1] \notin Lower
    <2>1. /\ KEY_TABLE[25] \notin Lower /\ KEY_TABLE[26] \notin Lower
          /\ KEY_TABLE[27] \notin Lower /\ KEY_TABLE[28] \notin Lower
      BY DEF KEY_TABLE, Lower
    <2> QED
      BY <2>1
  <1>4. key \in 30 .. 38 => KEY_TABLE[key - 1] \in Lower
    <2>1. /\ KEY_TABLE[29] \in Lower /\ KEY_TABLE[30] \in Lower
          /\ KEY_TABLE[31] \in Lower /\ KEY_TABLE[32] \in Lower
          /\ KEY_TABLE[33] \in Lower /\ KEY_TABLE[34] \in Lower
          /\ KEY_TABLE[35] \in Lower /\ KEY_TABLE[36] \in Lower
          /\ KEY_TABLE[37] \in Lower
      BY DEF KEY_TABLE, Lower
    <2> QED
      BY <2>1
  <1>5. key \in 39 .. 43 => KEY_TABLE[key - 1] \notin Lower
    <2>1. /\ KEY_TABLE[38] \notin Lower /\ KEY_TABLE[39] \notin Lower
          /\ KEY_TABLE[40] \notin Lower /\ KEY_TABLE[41] \notin Lower
          /\ KEY_TABLE[42] \notin Lower
      BY DEF KEY_TABLE, Lower
    <2> QED
      BY <2>1
  <1>6. key \in 44 .. 50 => KEY_TABLE[key - 1] \in Lower
    <2>1. /\ KEY_TABLE[43] \in Lower /\ KEY_TABLE[44] \in Lower
          /\ KEY_TABLE[45] \in Lower /\ KEY_TABLE[46] \in Lower
          /\ KEY_TABLE[47] \in Lower /\ KEY_TABLE[48] \in Lower
          /\ KEY_TABLE[49] \in Lower
      BY DEF KEY_TABLE, Lower
    <2> QED
      BY <2>1
  <1>7. key \in 51 .. 53 => KEY_TABLE[key - 1] \notin Lower
    <2>1. /\ KEY_TABLE[50] \notin Lower /\ KEY_TABLE[51] \notin Lower
          /\ KEY_TABLE[52] \notin Lower
      BY DEF KEY_TABLE, Lower
    <2> QED
      BY <2>1
  <1> QED
    BY <1>1, <1>2, <1>3, <1>4, <1>5, <1>6, <1>7 DEF LetterCode, TABLE_OFFSET

(* Shift, Ctrl, Alt and Caps Lock, by their keys.                          *)
Mods == {L_SHIFT, R_SHIFT, CTRL, ALT, CAPS_LOCK}

(* The sign of a key of the table, and what a code means, when the flags   *)
(* in S are up.                                                            *)
Sign(S, code) ==
    IF (L_SHIFT \in S \/ R_SHIFT \in S) <=> (CAPS_LOCK \in S /\ LetterCode(code))
    THEN KEY_TABLE[code - TABLE_OFFSET + 1]
    ELSE KEY_TABLE[code - TABLE_OFFSET + SHIFT_OFFSET + 1]

Meaning(S, code) ==
    IF code = ENTER + RELEASE THEN <<"enter up">>
    ELSE IF code \in Mods \/ code >= INPUT_CUTOFF THEN Nothing
    ELSE IF code = SPACE THEN <<"type", " ">>
    ELSE IF code = TAB THEN <<"tab">>
    ELSE IF code = BACK THEN <<"erase">>
    ELSE IF code = ENTER THEN <<"enter">>
    ELSE IF code \in 59 .. 61 THEN (IF ALT \in S THEN <<"show", code>> ELSE Nothing)
    ELSE IF CTRL \in S /\ Sign(S, code) \in {"l", "L"} THEN <<"clear">>
    ELSE <<"type", Sign(S, code)>>

(* The flags that are up after a code.                                     *)
After(S, code) ==
    {m \in Mods : IF m = CAPS_LOCK THEN m \in S <=> code # CAPS_LOCK
                  ELSE code = m \/ (code # m + RELEASE /\ m \in S)}

(* The flags of the handler, and the keys and the light of the keyboard.   *)
HandlerAt(S) ==
    /\ L_shift_check <=> L_SHIFT \in S
    /\ R_shift_check <=> R_SHIFT \in S
    /\ ctrl_check <=> CTRL \in S
    /\ alt_check <=> ALT \in S
    /\ capslock_check <=> CAPS_LOCK \in S

KeyboardAt(S) ==
    /\ L_SHIFT \in held <=> L_SHIFT \in S
    /\ R_SHIFT \in held <=> R_SHIFT \in S
    /\ CTRL \in held <=> CTRL \in S
    /\ ALT \in held <=> ALT \in S
    /\ caps <=> CAPS_LOCK \in S

(* The codes of keys that have a sign or a meaning of their own.           *)
Codes == (TABLE_OFFSET .. 2 * RELEASE - 1) \ {55}

Entries == {[code |-> x, means |-> Meaning(S, x)] : x \in Codes, S \in SUBSET Mods}

(* The flags before each code that waits and after the last, F, lead from  *)
(* those the handler has to those the keyboard has, and each code means    *)
(* what it does at its place.                                              *)
Chain(F) ==
    /\ F \in [1 .. Len(queue) + 1 -> SUBSET Mods]
    /\ HandlerAt(F[1]) /\ KeyboardAt(F[Len(queue) + 1])
    /\ \A i \in 1 .. Len(queue) : F[i + 1] = After(F[i], queue[i].code)
                                  /\ queue[i].means = Meaning(F[i], queue[i].code)

KeyInv ==
    /\ {caps, L_shift_check, R_shift_check, ctrl_check, alt_check, capslock_check}
           \subseteq BOOLEAN
    /\ queue \in Seq(Entries)
    /\ did = meant
    /\ \E F : Chain(F)

(* The keyboard has no key 0, Esc (1) and keypad * (55), for which         *)
(* KEY_TABLE has no sign, and its Caps Lock does not repeat.               *)
PlainKeys == Keys \cap {0, 1, 55} = {} /\ CAPS_LOCK \notin Repeating

(* What the keys mean is what the table has for the flags at that moment.  *)
LEMMA KeyMeans ==
    ASSUME NEW S \in SUBSET Mods, caps \in BOOLEAN, KeyboardAt(S),
           NEW key \in (TABLE_OFFSET .. RELEASE - 1) \ {55}
    PROVE  Means(key) = Meaning(S, key)
  <1>1. key \in TABLE_OFFSET .. 53 => Printed(key) = Sign(S, key)
    <2> SUFFICES ASSUME key \in TABLE_OFFSET .. 53 PROVE Printed(key) = Sign(S, key)
      OBVIOUS
    <2> DEFINE plain == KEY_TABLE[key - TABLE_OFFSET + 1]
               other == KEY_TABLE[key - TABLE_OFFSET + SHIFT_OFFSET + 1]
    <2>1. plain \in Lower <=> LetterCode(key)
      BY LettersInRows
    <2>2. (held \cap {L_SHIFT, R_SHIFT} # {}) <=> (L_SHIFT \in S \/ R_SHIFT \in S)
      BY DEF KeyboardAt
    <2>3. caps <=> CAPS_LOCK \in S
      BY DEF KeyboardAt
    <2>4. Printed(key) = IF (held \cap {L_SHIFT, R_SHIFT} # {}) # (caps /\ plain \in Lower)
                         THEN other ELSE plain
      BY DEF Printed
    <2>5. Sign(S, key) = IF (L_SHIFT \in S \/ R_SHIFT \in S) <=> (CAPS_LOCK \in S /\ LetterCode(key))
                         THEN plain ELSE other
      BY DEF Sign
    <2> HIDE DEF plain, other
    <2> QED
      BY <2>1, <2>2, <2>3, <2>4, <2>5
  <1>2. ALT \in held <=> ALT \in S
    BY DEF KeyboardAt
  <1>3. CTRL \in held <=> CTRL \in S
    BY DEF KeyboardAt
  <1>4. {FKeys[n] : n \in 1 .. 3} = 59 .. 61
    BY DEF FKeys
  <1> DEFINE none == key \in {CAPS_LOCK, L_SHIFT, R_SHIFT, CTRL, ALT} \/ key >= INPUT_CUTOFF
             fkey == key \in {FKeys[n] : n \in 1 .. 3}
  <1>5. Means(key) =
          IF none THEN Nothing
          ELSE IF key = SPACE THEN <<"type", " ">>
          ELSE IF key = TAB THEN <<"tab">>
          ELSE IF key = BACK THEN <<"erase">>
          ELSE IF key = ENTER THEN <<"enter">>
          ELSE IF fkey THEN IF ALT \in held THEN <<"show", key>> ELSE Nothing
          ELSE IF CTRL \in held /\ Printed(key) \in {"l", "L"} THEN <<"clear">>
          ELSE <<"type", Printed(key)>>
    <2>1. /\ none => key \notin {SPACE, TAB, BACK, ENTER} /\ ~fkey
          /\ key = SPACE => key \notin {TAB, BACK, ENTER} /\ ~fkey
          /\ key = TAB => key \notin {BACK, ENTER} /\ ~fkey
          /\ key = BACK => key # ENTER /\ ~fkey
          /\ key = ENTER => ~fkey
      BY <1>4 DEF CAPS_LOCK, L_SHIFT, R_SHIFT, CTRL, ALT,
       INPUT_CUTOFF, SPACE, TAB, BACK, ENTER, RELEASE, TABLE_OFFSET
    <2> QED
      BY <2>1, Zenon DEF Means
  <1>6. /\ key # ENTER + RELEASE
        /\ none <=> key \in Mods \/ key >= INPUT_CUTOFF
        /\ fkey <=> key \in 59 .. 61
        /\ ~none /\ key # SPACE /\ ~fkey => key \in TABLE_OFFSET .. 53
    BY <1>4 DEF Mods, CAPS_LOCK, L_SHIFT, R_SHIFT, CTRL, ALT,
       INPUT_CUTOFF, SPACE, TAB, BACK, ENTER, RELEASE, TABLE_OFFSET
  <1> HIDE DEF none, fkey
  <1> QED
    BY <1>1, <1>2, <1>3, <1>5, <1>6, Zenon DEF Meaning

(* So does the handler with its own flags.                                 *)
LEMMA CodeDoes ==
    ASSUME NEW S \in SUBSET Mods, HandlerAt(S), NEW code \in Codes
    PROVE  Dispatch(code) = Meaning(S, code)
  <1>1. code \in TABLE_OFFSET .. 53 => Input(code) = Sign(S, code)
    <2> SUFFICES ASSUME code \in TABLE_OFFSET .. 53 PROVE Input(code) = Sign(S, code)
      OBVIOUS
    <2>1. table_index(code) + 1 =
            IF (L_SHIFT \in S \/ R_SHIFT \in S) <=> (CAPS_LOCK \in S /\ LetterCode(code))
            THEN code - TABLE_OFFSET + 1 ELSE code - TABLE_OFFSET + SHIFT_OFFSET + 1
      BY DEF table_index, Shifted, HandlerAt, TABLE_OFFSET, SHIFT_OFFSET
    <2> QED
      BY <2>1 DEF Input, Sign
  <1>2. {FKeys[n] : n \in 1 .. 3} = 59 .. 61
    BY DEF FKeys
  <1> DEFINE none == code \in {CAPS_LOCK, L_SHIFT, R_SHIFT, CTRL, ALT}
                     \/ code - RELEASE \in {L_SHIFT, R_SHIFT, CTRL, ALT}
             fkey == code \in {FKeys[n] : n \in 1 .. 3}
  <1>3. Dispatch(code) =
          IF none THEN Nothing
          ELSE IF code = SPACE THEN <<"type", " ">>
          ELSE IF code = TAB THEN <<"tab">>
          ELSE IF code = BACK THEN <<"erase">>
          ELSE IF code = ENTER THEN <<"enter">>
          ELSE IF code = ENTER + RELEASE THEN <<"enter up">>
          ELSE IF fkey THEN IF alt_check THEN <<"show", code>> ELSE Nothing
          ELSE Default(code)
    <2>1. /\ none => code \notin {SPACE, TAB, BACK, ENTER, ENTER + RELEASE} /\ ~fkey
          /\ code = SPACE => code \notin {TAB, BACK, ENTER, ENTER + RELEASE} /\ ~fkey
          /\ code = TAB => code \notin {BACK, ENTER, ENTER + RELEASE} /\ ~fkey
          /\ code = BACK => code \notin {ENTER, ENTER + RELEASE} /\ ~fkey
          /\ code = ENTER => code # ENTER + RELEASE /\ ~fkey
          /\ code = ENTER + RELEASE => ~fkey
      BY <1>2 DEF Codes, CAPS_LOCK, L_SHIFT, R_SHIFT, CTRL, ALT,
       INPUT_CUTOFF, SPACE, TAB, BACK, ENTER, RELEASE, TABLE_OFFSET
    <2> QED
      BY <2>1, Zenon DEF Dispatch
  <1>4. /\ fkey <=> code \in 59 .. 61
        /\ none => code # ENTER + RELEASE /\ (code \in Mods \/ code >= INPUT_CUTOFF)
        /\ code \in {SPACE, TAB, BACK, ENTER} \cup 59 .. 61 =>
              ~none /\ code \notin Mods /\ ~(code >= INPUT_CUTOFF) /\ code # ENTER + RELEASE
        /\ code \in Mods => none
        /\ code = ENTER + RELEASE => ~none /\ code \notin {SPACE, TAB, BACK, ENTER}
        /\ ~none /\ code # SPACE /\ ~fkey /\ ~(code >= INPUT_CUTOFF) =>
              code \in TABLE_OFFSET .. 53
    BY <1>2 DEF Mods, Codes, CAPS_LOCK, L_SHIFT, R_SHIFT, CTRL, ALT,
       INPUT_CUTOFF, SPACE, TAB, BACK, ENTER, RELEASE, TABLE_OFFSET
  <1>5. ctrl_check <=> CTRL \in S
    BY DEF HandlerAt
  <1>6. alt_check <=> ALT \in S
    BY DEF HandlerAt
  <1> HIDE DEF none, fkey
  <1> QED
    BY <1>1, <1>3, <1>4, <1>5, <1>6, Zenon DEF Default, Meaning

(* The index is one of the table's.                                        *)
LEMMA IndexInTable ==
    ASSUME NEW code \in TABLE_OFFSET .. 53
    PROVE  table_index(code) + 1 \in DOMAIN KEY_TABLE
  <1>1. DOMAIN KEY_TABLE = 1 .. 104
    BY DEF KEY_TABLE
  <1> QED
    BY <1>1 DEF table_index, Shifted, TABLE_OFFSET, SHIFT_OFFSET, LetterCode

(* The handler takes the first code: the flags after it come first now.    *)
LEMMA KeyHandled ==
    ASSUME KeyInv, keyboard_handler
    PROVE  KeyInv'
  <1>0. PICK n, code : n = Len(queue) /\ code = queue[1].code
    BY Zenon
  <1>1. queue \in Seq(Entries) /\ n \in Nat /\ n >= 1 /\ Head(queue) = queue[1]
        /\ queue[1] \in Entries
    BY <1>0 DEF KeyInv, keyboard_handler
  <1>2. code \in Codes
    BY <1>0, <1>1 DEF Entries
  <1>3. PICK F : Chain(F)
    BY DEF KeyInv
  <1>4. /\ F \in [1 .. n + 1 -> SUBSET Mods] /\ HandlerAt(F[1]) /\ KeyboardAt(F[n + 1])
        /\ \A i \in 1 .. n : F[i + 1] = After(F[i], queue[i].code)
                             /\ queue[i].means = Meaning(F[i], queue[i].code)
    BY <1>0, <1>3 DEF Chain
  <1>5. F[1] \in SUBSET Mods /\ F[2] = After(F[1], code) /\ queue[1].means = Meaning(F[1], code)
    BY <1>0, <1>1, <1>4
  <1>6. queue' = Tail(queue) /\ queue' \in Seq(Entries) /\ Len(queue') = n - 1
        /\ \A i \in 1 .. n - 1 : queue'[i] = queue[i + 1]
    BY <1>0, <1>1 DEF keyboard_handler
  <1>7. did' = meant'
    <2>1. did' = Dispatch(code) /\ meant' = queue[1].means
      BY <1>0, <1>1 DEF keyboard_handler
    <2> QED
      BY <1>2, <1>4, <1>5, <2>1, CodeDoes
  <1>8. HandlerAt(F[2])'
    <2>0. PICK S, T : S = F[1] /\ T = F[2]
      OBVIOUS
    <2>1. /\ L_shift_check' = Flag(L_shift_check, code, L_SHIFT)
          /\ R_shift_check' = Flag(R_shift_check, code, R_SHIFT)
          /\ ctrl_check' = Flag(ctrl_check, code, CTRL)
          /\ alt_check' = Flag(alt_check, code, ALT)
          /\ capslock_check' = (capslock_check # (code = CAPS_LOCK))
      BY <1>0, <1>1 DEF keyboard_handler
    <2>2. HandlerAt(S) /\ T = After(S, code)
      BY <1>4, <1>5, <2>0
    <2>3. capslock_check \in BOOLEAN
      BY DEF KeyInv
    <2>4. capslock_check' <=> CAPS_LOCK \in T
      BY <2>1, <2>2, <2>3, Zenon DEF HandlerAt, After, Mods
    <2>5. /\ L_shift_check' <=> L_SHIFT \in T
          /\ R_shift_check' <=> R_SHIFT \in T
          /\ ctrl_check' <=> CTRL \in T
          /\ alt_check' <=> ALT \in T
      BY <2>1, <2>2 DEF HandlerAt, After, Mods, Flag, L_SHIFT, R_SHIFT, CTRL, ALT, CAPS_LOCK, RELEASE
    <2>6. HandlerAt(T)'
      BY <2>4, <2>5 DEF HandlerAt
    <2> QED
      BY <2>0, <2>6
  <1>9. UNCHANGED <<held, caps>>
    BY DEF keyboard_handler
  <1>10. {caps, L_shift_check, R_shift_check, ctrl_check, alt_check, capslock_check}'
            \subseteq BOOLEAN
    BY <1>9, Zenon DEF KeyInv, keyboard_handler, Flag
  <1>11. \E G : Chain(G)'
    <2> DEFINE G == [i \in 1 .. n |-> F[i + 1]]
    <2>1. G \in [1 .. Len(queue') + 1 -> SUBSET Mods]
      BY <1>1, <1>4, <1>6
    <2>2. G[1] = F[2] /\ G[Len(queue') + 1] = F[n + 1]
      BY <1>1, <1>6
    <2>3. KeyboardAt(F[n + 1])'
      BY <1>4, <1>9 DEF KeyboardAt
    <2>4. \A i \in 1 .. Len(queue') : G[i + 1] = After(G[i], queue'[i].code)
                                      /\ queue'[i].means = Meaning(G[i], queue'[i].code)
      BY <1>1, <1>4, <1>6
    <2> HIDE DEF G
    <2>5. Chain(G)'
      BY <1>8, <2>1, <2>2, <2>3, <2>4 DEF Chain
    <2> QED
      BY <2>5
  <1> QED
    BY <1>6, <1>7, <1>10, <1>11 DEF KeyInv

(* A code that is sent comes last, and the keyboard is as it leaves it.    *)
LEMMA KeySent ==
    ASSUME KeyInv, NEW code \in Codes, NEW means, Send(code, means), caps' \in BOOLEAN,
           \A S \in SUBSET Mods : KeyboardAt(S) =>
               means = Meaning(S, code) /\ KeyboardAt(After(S, code))'
    PROVE  KeyInv'
  <1>0. PICK n : n = Len(queue)
    BY Zenon
  <1> DEFINE e == [code |-> code, means |-> means]
  <1>1. queue \in Seq(Entries) /\ n \in Nat
    BY <1>0 DEF KeyInv
  <1>2. PICK F : Chain(F)
    BY DEF KeyInv
  <1>3. /\ F \in [1 .. n + 1 -> SUBSET Mods] /\ HandlerAt(F[1]) /\ KeyboardAt(F[n + 1])
        /\ \A i \in 1 .. n : F[i + 1] = After(F[i], queue[i].code)
                             /\ queue[i].means = Meaning(F[i], queue[i].code)
    BY <1>0, <1>2 DEF Chain
  <1>4. F[n + 1] \in SUBSET Mods
    BY <1>1, <1>3
  <1>5. means = Meaning(F[n + 1], code) /\ KeyboardAt(After(F[n + 1], code))'
    BY <1>3, <1>4
  <1>6. e \in Entries /\ e.code = code /\ e.means = means
    BY <1>4, <1>5, SMTT(30) DEF Entries
  <1>7. queue' \in Seq(Entries) /\ Len(queue') = n + 1 /\ queue'[n + 1] = e
        /\ \A i \in 1 .. n : queue'[i] = queue[i]
    <2> HIDE DEF e
    <2>1. queue' = Append(queue, e)
      BY DEF Send, e
    <2> QED
      BY <1>0, <1>1, <1>6, <2>1
  <1>8. UNCHANGED <<flags, did, meant>>
    BY DEF Send
  <1>9. After(F[n + 1], code) \in SUBSET Mods
    BY DEF After
  <1>10. \E G : Chain(G)'
    <2> DEFINE G == [i \in 1 .. n + 2 |-> IF i <= n + 1 THEN F[i] ELSE After(F[n + 1], code)]
    <2>1. G \in [1 .. Len(queue') + 1 -> SUBSET Mods]
      BY <1>1, <1>3, <1>7, <1>9
    <2>2. G[1] = F[1] /\ G[Len(queue') + 1] = After(F[n + 1], code)
      BY <1>1, <1>7, SMTT(30)
    <2>3. HandlerAt(F[1])'
      BY <1>3, <1>8 DEF HandlerAt, flags
    <2>4. ASSUME NEW i \in 1 .. Len(queue')
          PROVE  G[i + 1] = After(G[i], queue'[i].code)
                 /\ queue'[i].means = Meaning(G[i], queue'[i].code)
      <3>1. CASE i <= n
        <4>1. G[i + 1] = F[i + 1] /\ G[i] = F[i] /\ queue'[i] = queue[i] /\ i \in 1 .. n
          BY <1>1, <1>7, <3>1
        <4> QED
          BY <1>3, <4>1, Zenon
      <3>2. CASE i = n + 1
        <4>1. G[i + 1] = After(F[n + 1], code) /\ G[i] = F[n + 1] /\ queue'[i] = e
          BY <1>1, <1>7, <3>2
        <4> QED
          BY <1>5, <1>6, <4>1
      <3> QED
        BY <1>1, <1>7, <3>1, <3>2, SMTT(30)
    <2> HIDE DEF G
    <2>5. Chain(G)'
      BY <1>5, <2>1, <2>2, <2>3, <2>4 DEF Chain
    <2> QED
      BY <2>5
  <1>11. did' = meant'
    BY <1>8 DEF KeyInv
  <1>12. {caps, L_shift_check, R_shift_check, ctrl_check, alt_check, capslock_check}'
            \subseteq BOOLEAN
    BY <1>8 DEF KeyInv, flags
  <1> QED
    BY <1>7, <1>10, <1>11, <1>12 DEF KeyInv

(* The keys.                                                               *)
LEMMA KeyMoves ==
    ASSUME KeyInv, PlainKeys, NEW key \in Keys, Press(key) \/ Repeat(key) \/ Release(key)
    PROVE  KeyInv'
  <1>1. key \in (TABLE_OFFSET .. RELEASE - 1) \ {55}
    BY KeyAssumption DEF PlainKeys, TABLE_OFFSET, RELEASE
  <1>2. key \in Codes /\ key + RELEASE \in Codes
    BY <1>1 DEF Codes, TABLE_OFFSET, RELEASE
  <1>3. caps \in BOOLEAN
    BY DEF KeyInv
  <1>4. \A S \in SUBSET Mods : KeyboardAt(S) => Means(key) = Meaning(S, key)
    BY <1>1, <1>3, KeyMeans
  <1>5. CASE Press(key)
    <2>1. Send(key, Means(key)) /\ held' = held \cup {key} /\ caps' = (caps # (key = CAPS_LOCK))
      BY <1>5 DEF Press
    <2>2. ASSUME NEW S \in SUBSET Mods, KeyboardAt(S)
          PROVE  KeyboardAt(After(S, key))'
      <3>1. caps' <=> CAPS_LOCK \in After(S, key)
        BY <1>3, <2>1, <2>2, Zenon DEF KeyboardAt, After, Mods
      <3>2. /\ L_SHIFT \in held' <=> L_SHIFT \in After(S, key)
            /\ R_SHIFT \in held' <=> R_SHIFT \in After(S, key)
            /\ CTRL \in held' <=> CTRL \in After(S, key)
            /\ ALT \in held' <=> ALT \in After(S, key)
        BY <1>1, <2>1, <2>2 DEF KeyboardAt, After, Mods, L_SHIFT, R_SHIFT, CTRL, ALT, CAPS_LOCK,
           RELEASE, TABLE_OFFSET
      <3> QED
        BY <3>1, <3>2 DEF KeyboardAt
    <2>3. caps' \in BOOLEAN
      BY <2>1
    <2> QED
      BY <1>2, <1>4, <2>1, <2>2, <2>3, KeySent
  <1>6. CASE Repeat(key)
    <2>1. Send(key, Means(key)) /\ held' = held /\ caps' = caps /\ key \in held
          /\ key # CAPS_LOCK
      BY <1>6 DEF Repeat, PlainKeys
    <2>2. ASSUME NEW S \in SUBSET Mods, KeyboardAt(S)
          PROVE  KeyboardAt(After(S, key))'
      <3>1. caps' <=> CAPS_LOCK \in After(S, key)
        BY <1>3, <2>1, <2>2 DEF KeyboardAt, After, Mods
      <3>2. /\ L_SHIFT \in held' <=> L_SHIFT \in After(S, key)
            /\ R_SHIFT \in held' <=> R_SHIFT \in After(S, key)
            /\ CTRL \in held' <=> CTRL \in After(S, key)
            /\ ALT \in held' <=> ALT \in After(S, key)
        BY <1>1, <2>1, <2>2 DEF KeyboardAt, After, Mods, L_SHIFT, R_SHIFT, CTRL, ALT, CAPS_LOCK,
           RELEASE, TABLE_OFFSET
      <3> QED
        BY <3>1, <3>2 DEF KeyboardAt
    <2> QED
      BY <1>2, <1>3, <1>4, <2>1, <2>2, KeySent
  <1>7. CASE Release(key)
    <2> DEFINE means == IF key = ENTER THEN <<"enter up">> ELSE Nothing
    <2>1. Send(key + RELEASE, means)
      BY <1>7, Zenon DEF Release
    <2>4. held' = held \ {key} /\ caps' = caps
      BY <1>7, Zenon DEF Release
    <2>2. \A S \in SUBSET Mods : means = Meaning(S, key + RELEASE)
      <3>1. /\ key + RELEASE = ENTER + RELEASE <=> key = ENTER
            /\ key + RELEASE >= INPUT_CUTOFF
        BY <1>1 DEF ENTER, RELEASE, INPUT_CUTOFF, TABLE_OFFSET
      <3> QED
        BY <3>1, Zenon DEF Meaning
    <2>3. ASSUME NEW S \in SUBSET Mods, KeyboardAt(S)
          PROVE  KeyboardAt(After(S, key + RELEASE))'
      <3>1. caps' <=> CAPS_LOCK \in After(S, key + RELEASE)
        BY <1>1, <1>3, <2>3, <2>4 DEF KeyboardAt, After, Mods, CAPS_LOCK, RELEASE, TABLE_OFFSET
      <3>2. /\ L_SHIFT \in held' <=> L_SHIFT \in After(S, key + RELEASE)
            /\ R_SHIFT \in held' <=> R_SHIFT \in After(S, key + RELEASE)
            /\ CTRL \in held' <=> CTRL \in After(S, key + RELEASE)
            /\ ALT \in held' <=> ALT \in After(S, key + RELEASE)
        BY <1>1, <2>3, <2>4 DEF KeyboardAt, After, Mods, L_SHIFT, R_SHIFT, CTRL, ALT, CAPS_LOCK,
           RELEASE, TABLE_OFFSET
      <3> QED
        BY <3>1, <3>2 DEF KeyboardAt
    <2> HIDE DEF means
    <2> QED
      BY <1>2, <1>3, <2>1, <2>2, <2>3, <2>4, KeySent
  <1> QED
    BY <1>5, <1>6, <1>7

(* Every code is taken for what its key meant when it was pressed, however *)
(* many codes wait and however the keys overlap, for every keyboard of     *)
(* plain keys: either Shift, Caps Lock, Ctrl+L, Alt+Fn (keyboard_handler). *)
THEOREM KeysKeepMeaning ==
    ASSUME PlainKeys
    PROVE  KeySpec => []KeyMeaning
  <1>1. KeyInit => KeyInv
    <2> SUFFICES ASSUME KeyInit PROVE KeyInv
      OBVIOUS
    <2>1. queue \in Seq(Entries) /\ Len(queue) = 0
      BY DEF KeyInit
    <2> DEFINE G == [i \in 1 .. 1 |-> {}]
    <2>2. G \in [1 .. 1 -> SUBSET Mods] /\ G[1] = {}
      OBVIOUS
    <2> HIDE DEF G
    <2>3. HandlerAt({}) /\ KeyboardAt({})
      BY DEF KeyInit, HandlerAt, KeyboardAt
    <2>4. Chain(G)
      <3>1. 1 .. Len(queue) = {} /\ Len(queue) + 1 = 1
        BY <2>1
      <3> QED
        BY <2>2, <2>3, <3>1, Zenon DEF Chain
    <2>5. {caps, L_shift_check, R_shift_check, ctrl_check, alt_check, capslock_check}
             \subseteq BOOLEAN /\ did = meant
      BY Zenon DEF KeyInit
    <2> QED
      BY <2>1, <2>4, <2>5 DEF KeyInv
  <1>2. KeyInv /\ [KeyNext]_kVars => KeyInv'
    <2> SUFFICES ASSUME KeyInv, [KeyNext]_kVars PROVE KeyInv'
      OBVIOUS
    <2>1. CASE UNCHANGED kVars
      BY <2>1 DEF kVars, flags, KeyInv, Chain, HandlerAt, KeyboardAt
    <2> QED
      BY <2>1, KeyHandled, KeyMoves DEF KeyNext
  <1>3. KeyInv => KeyMeaning
    BY DEF KeyInv, KeyMeaning
  <1> QED
    BY <1>1, <1>2, <1>3, PTL DEF KeySpec

-----------------------------------------------------------------------------
(* The list of fish.                                                       *)

Fields == {"location", "on_char", "off_char", "on_length", "off_length", "countdown",
           "status", "next"}

(* L, of length m, is the list that begins at h in the array b.            *)
Chained(b, h, m, L) ==
    /\ m \in Nat /\ L \in [1 .. m -> Slots]
    /\ \A i, j \in 1 .. m : L[i] = L[j] => i = j
    /\ h = (IF m = 0 THEN NUL ELSE L[1])
    /\ \A i \in 1 .. m : b[L[i]].next = IF i = m THEN NUL ELSE L[i + 1]
    /\ \A s \in Slots : b[s].location # 0 <=> \E i \in 1 .. m : L[i] = s

ListInv ==
    /\ blink = [s \in Slots |-> blink[s]]
    /\ \A s \in Slots : DOMAIN blink[s] = Fields
    /\ \E m, L : Chained(blink, head, m, L)

(* A list without repetition is no longer than the array.                  *)
LEMMA ListFits ==
    ASSUME NEW b, NEW h, NEW m, NEW L, Chained(b, h, m, L)
    PROVE  m <= SLOTS /\ Cardinality({L[i] : i \in 1 .. m}) = m
  <1>1. SLOTS \in Nat /\ m \in Nat
    BY FishAssumption DEF Chained
  <1>2. /\ IsFiniteSet(1 .. m) /\ Cardinality(1 .. m) = m
        /\ IsFiniteSet(Slots) /\ Cardinality(Slots) = SLOTS
    <2>1. IsFiniteSet(1 .. m) /\ Cardinality(1 .. m) = IF 1 > m THEN 0 ELSE m - 1 + 1
      BY <1>1, FS_Interval
    <2>2. IsFiniteSet(1 .. SLOTS) /\ Cardinality(1 .. SLOTS) = IF 1 > SLOTS THEN 0 ELSE SLOTS - 1 + 1
      BY <1>1, FS_Interval
    <2> QED
      BY <1>1, <2>1, <2>2 DEF Slots
  <1>3. L \in Injection(1 .. m, Slots)
    BY DEF Chained, Injection, IsInjective
  <1>4. m <= SLOTS
    BY <1>2, <1>3, FS_Injection
  <1> DEFINE R == {L[i] : i \in 1 .. m}
  <1>5. L \in Bijection(1 .. m, R)
    <2>1. L \in [1 .. m -> R] /\ (\A i, j \in 1 .. m : L[i] = L[j] => i = j)
          /\ \A t \in R : \E i \in 1 .. m : L[i] = t
      BY DEF Chained
    <2> HIDE DEF R
    <2> QED
      BY <2>1 DEF Bijection, Injection, IsInjective, Surjection
  <1>6. ExistsBijection(1 .. m, R)
    BY <1>5 DEF ExistsBijection
  <1> QED
    BY <1>2, <1>4, <1>6, FS_Bijection

(* What the links reach, one after another, is the list.                   *)
LEMMA LinkedIs ==
    ASSUME NEW m, NEW L, Chained(blink, head, m, L)
    PROVE  \A n \in Nat : Linked[n] = IF n < m THEN L[n + 1] ELSE NUL
  <1> DEFINE W == [n \in Nat |-> IF n < m THEN L[n + 1] ELSE NUL]
  <1>1. m \in Nat /\ L \in [1 .. m -> Slots] /\ NUL \notin Slots
    BY DEF Chained, NUL, Slots
  <1>2. ASSUME NEW n \in Nat
        PROVE  W[n] = IF n = 0 THEN head
                      ELSE LET s == W[n - 1] IN IF s = NUL THEN NUL ELSE blink[s].next
    <2>1. CASE n = 0
      BY <1>1, <2>1 DEF Chained
    <2>2. CASE n # 0 /\ n - 1 < m
      <3>1. n \in 1 .. m /\ n - 1 \in Nat /\ W[n - 1] = L[n] /\ L[n] # NUL
        BY <1>1, <2>2
      <3>2. blink[L[n]].next = IF n = m THEN NUL ELSE L[n + 1]
        BY <3>1 DEF Chained
      <3>3. W[n] = IF n = m THEN NUL ELSE L[n + 1]
        BY <1>1, <3>1
      <3> QED
        BY <2>2, <3>1, <3>2, <3>3
    <2>3. CASE n # 0 /\ ~(n - 1 < m)
      <3>1. n - 1 \in Nat /\ W[n - 1] = NUL /\ W[n] = NUL
        BY <1>1, <2>3
      <3> QED
        BY <2>3, <3>1
    <2> QED
      BY <2>1, <2>2, <2>3
  <1>3. W = [n \in Nat |-> IF n = 0 THEN head
                           ELSE LET s == W[n - 1] IN IF s = NUL THEN NUL ELSE blink[s].next]
    BY <1>2
  <1>4. \A n \in Nat : W[n] = IF n < m THEN L[n + 1] ELSE NUL
    OBVIOUS
  <1> HIDE DEF W
  <1>5. \E f : f = [n \in Nat |-> IF n = 0 THEN head
                       ELSE LET s == f[n - 1] IN IF s = NUL THEN NUL ELSE blink[s].next]
    BY <1>3
  <1>6. Linked = [n \in Nat |-> IF n = 0 THEN head
                     ELSE LET s == Linked[n - 1] IN IF s = NUL THEN NUL ELSE blink[s].next]
    BY <1>5, Zenon DEF Linked
  <1>7. \A n \in Nat : Linked[n] = IF n = 0 THEN head
                     ELSE IF Linked[n - 1] = NUL THEN NUL ELSE blink[Linked[n - 1]].next
    BY <1>6
  <1> DEFINE T == {n \in Nat : Linked[n] # W[n]}
  <1>8. SUFFICES ASSUME T # {} PROVE FALSE
    BY <1>4
  <1>9. PICK n \in T : \A k \in T : n <= k
    BY <1>8, LeastOf, Zenon
  <1>10. n \in Nat /\ Linked[n] # W[n] /\ (n # 0 => n - 1 \in Nat /\ Linked[n - 1] = W[n - 1])
    BY <1>9
  <1> QED
    BY <1>2, <1>7, <1>10

(* So Listed is the list.                                                  *)
LEMMA ListedIs ==
    ASSUME NEW m, NEW L, Chained(blink, head, m, L)
    PROVE  Listed = L /\ L \in Seq(Slots) /\ Len(L) = m
  <1>1. m \in Nat /\ L \in [1 .. m -> Slots] /\ NUL \notin Slots
    BY DEF Chained, NUL, Slots
  <1>6. m <= SLOTS /\ SLOTS \in Nat
    BY ListFits, FishAssumption, Zenon
  <1>2. {n \in 0 .. SLOTS - 1 : Linked[n] # NUL} = 0 .. m - 1
    <2>1. ASSUME NEW n \in 0 .. SLOTS - 1 PROVE Linked[n] # NUL <=> n < m
      <3>1. Linked[n] = IF n < m THEN L[n + 1] ELSE NUL
        BY LinkedIs
      <3>2. n < m => L[n + 1] \in Slots
        BY <1>1
      <3> QED
        BY <1>1, <3>1, <3>2
    <2> QED
      BY <1>1, <1>6, <2>1
  <1>3. Cardinality(0 .. m - 1) = m
    <2>1. Cardinality(0 .. m - 1) = IF 0 > m - 1 THEN 0 ELSE m - 1 - 0 + 1
      BY <1>1, FS_Interval
    <2> QED
      BY <1>1, <2>1
  <1>4. Listed = [i \in 1 .. m |-> Linked[i - 1]]
    BY <1>2, <1>3, Zenon DEF Listed
  <1>5. \A i \in 1 .. m : Linked[i - 1] = L[i]
    BY <1>1, LinkedIs
  <1> QED
    BY <1>1, <1>4, <1>5

(* A structure that mp1_find_helper returns is in use, at that place.      *)
LEMMA FindIs ==
    ASSUME NEW m, NEW L, Chained(blink, head, m, L), NEW loc, Find(loc) # NUL
    PROVE  \E i \in 1 .. m : Find(loc) = L[i] /\ blink[L[i]].location = loc
  <1>1. Listed = L /\ Len(L) = m
    BY ListedIs
  <1> DEFINE hits == {i \in 1 .. m : blink[L[i]].location = loc}
  <1>2. Find(loc) = IF hits = {} THEN NUL ELSE L[Min(hits)]
    <2>1. {i \in 1 .. Len(Listed) : blink[Listed[i]].location = loc} = hits
      BY <1>1
    <2> HIDE DEF hits
    <2> QED
      BY <1>1, <2>1, Zenon DEF Find
  <1>3. hits # {}
    BY <1>2
  <1>4. hits \in SUBSET Nat
    BY DEF Chained
  <1>5. \E i \in hits : \A j \in hits : i <= j
    <2> HIDE DEF hits
    <2> QED
      BY <1>3, <1>4, LeastOf
  <1>6. Min(hits) \in hits
    BY <1>5 DEF Min
  <1> QED
    BY <1>2, <1>3, <1>6, Zenon

(* A free structure put in front,                                          *)
LEMMA ChainCons ==
    ASSUME NEW b, NEW h, NEW m, NEW L, Chained(b, h, m, L),
           NEW x \in Slots, b[x].location = 0,
           NEW b2, b2[x].next = h, b2[x].location # 0, \A s \in Slots : s # x => b2[s] = b[s]
    PROVE  Chained(b2, x, m + 1, [i \in 1 .. m + 1 |-> IF i = 1 THEN x ELSE L[i - 1]])
  <1> DEFINE G == [i \in 1 .. m + 1 |-> IF i = 1 THEN x ELSE L[i - 1]]
  <1>1. m \in Nat /\ L \in [1 .. m -> Slots] /\ m + 1 \in Nat
    BY DEF Chained
  <1>2. \A i \in 1 .. m : L[i] # x
    BY DEF Chained
  <1>3. G \in [1 .. m + 1 -> Slots] /\ G[1] = x
        /\ \A i \in 2 .. m + 1 : G[i] = L[i - 1] /\ i - 1 \in 1 .. m
    BY <1>1
  <1> HIDE DEF G
  <1>4. \A i, j \in 1 .. m + 1 : G[i] = G[j] => i = j
    <2> SUFFICES ASSUME NEW i \in 1 .. m + 1, NEW j \in 1 .. m + 1, G[i] = G[j] PROVE i = j
      OBVIOUS
    <2>1. CASE i = 1 \/ j = 1
      BY <1>1, <1>2, <1>3, <2>1
    <2>2. CASE i # 1 /\ j # 1
      <3>1. L[i - 1] = L[j - 1] /\ i - 1 \in 1 .. m /\ j - 1 \in 1 .. m
        BY <1>1, <1>3, <2>2
      <3>2. i - 1 = j - 1
        BY <3>1 DEF Chained
      <3> QED
        BY <1>1, <3>2
    <2> QED
      BY <2>1, <2>2
  <1>5. ASSUME NEW i \in 1 .. m + 1
        PROVE  b2[G[i]].next = IF i = m + 1 THEN NUL ELSE G[i + 1]
    <2>1. CASE i = 1
      <3>1. b2[G[i]].next = h /\ h = IF m = 0 THEN NUL ELSE L[1]
        BY <1>3, <2>1 DEF Chained
      <3>2. m # 0 => G[2] = L[1]
        BY <1>1, <1>3
      <3> QED
        BY <1>1, <2>1, <3>1, <3>2
    <2>2. CASE i # 1
      <3>1. i - 1 \in 1 .. m /\ G[i] = L[i - 1] /\ L[i - 1] \in Slots /\ L[i - 1] # x
        BY <1>1, <1>2, <1>3, <2>2
      <3>2. b2[G[i]].next = IF i - 1 = m THEN NUL ELSE L[i - 1 + 1]
        BY <3>1 DEF Chained
      <3>3. i # m + 1 => G[i + 1] = L[i - 1 + 1]
        BY <1>1, <1>3, <2>2
      <3> QED
        BY <1>1, <3>2, <3>3
    <2> QED
      BY <2>1, <2>2
  <1>6. ASSUME NEW s \in Slots
        PROVE  b2[s].location # 0 <=> \E i \in 1 .. m + 1 : G[i] = s
    <2>1. CASE s = x
      BY <1>1, <1>3, <2>1
    <2>2. CASE s # x
      <3>1. b2[s].location # 0 <=> \E i \in 1 .. m : L[i] = s
        BY <2>2 DEF Chained
      <3>2. ASSUME NEW i \in 1 .. m, L[i] = s PROVE \E j \in 1 .. m + 1 : G[j] = s
        <4>1. i + 1 \in 2 .. m + 1 /\ i + 1 \in 1 .. m + 1 /\ i + 1 - 1 = i
          BY <1>1
        <4> QED
          BY <1>3, <3>2, <4>1
      <3>3. ASSUME NEW j \in 1 .. m + 1, G[j] = s PROVE \E i \in 1 .. m : L[i] = s
        BY <1>1, <1>3, <2>2, <3>3
      <3> QED
        BY <3>1, <3>2, <3>3
    <2> QED
      BY <2>1, <2>2
  <1>7. x = (IF m + 1 = 0 THEN NUL ELSE G[1])
    BY <1>1, <1>3
  <1>8. Chained(b2, x, m + 1, G)
    BY <1>1, <1>3, <1>4, <1>5, <1>6, <1>7 DEF Chained
  <1> QED
    BY <1>8 DEF G

(* The array b2 is b without the structure x, and with the link to it led  *)
(* past it.                                                                *)
Passed(b, b2, x) ==
    /\ b2[x].location = 0
    /\ \A s \in Slots : s # x =>
          /\ b2[s].location = b[s].location
          /\ b2[s].next = IF b[s].location # 0 /\ b[s].next = x THEN b[x].next ELSE b[s].next

(* one taken out,                                                          *)
LEMMA ChainDrop ==
    ASSUME NEW b, NEW h, NEW m, NEW L, Chained(b, h, m, L), NEW k \in 1 .. m,
           NEW b2, Passed(b, b2, L[k]), NEW h2, h2 = IF h = L[k] THEN b[L[k]].next ELSE h
    PROVE  \E G : Chained(b2, h2, m - 1, G)
  <1> DEFINE G == [i \in 1 .. m - 1 |-> IF i < k THEN L[i] ELSE L[i + 1]]
             was(i) == IF i < k THEN i ELSE i + 1
  <1>1. m \in Nat /\ L \in [1 .. m -> Slots] /\ m - 1 \in Nat /\ k \in Nat
    BY DEF Chained
  <1>2. /\ \A i, j \in 1 .. m : L[i] = L[j] => i = j
        /\ \A i \in 1 .. m : b[L[i]].next = IF i = m THEN NUL ELSE L[i + 1]
        /\ \A s \in Slots : b[s].location # 0 <=> \E i \in 1 .. m : L[i] = s
        /\ h = (IF m = 0 THEN NUL ELSE L[1])
    BY DEF Chained
  <1>12. /\ b2[L[k]].location = 0
         /\ \A s \in Slots : s # L[k] =>
              /\ b2[s].location = b[s].location
              /\ b2[s].next = IF b[s].location # 0 /\ b[s].next = L[k] THEN b[L[k]].next
                              ELSE b[s].next
    BY DEF Passed
  <1>3. \A i \in 1 .. m - 1 : was(i) \in 1 .. m /\ was(i) # k /\ G[i] = L[was(i)]
    BY <1>1
  <1>4. G \in [1 .. m - 1 -> Slots]
    BY <1>1
  <1>5. \A i \in 1 .. m : i # k => L[i] # L[k] /\ L[i] \in Slots /\ b[L[i]].location # 0
    BY <1>1, <1>2
  <1>6. NUL \notin Slots
    BY DEF NUL, Slots
  <1>7. \A i, j \in 1 .. m - 1 : G[i] = G[j] => i = j
    <2> SUFFICES ASSUME NEW i \in 1 .. m - 1, NEW j \in 1 .. m - 1, G[i] = G[j] PROVE i = j
      OBVIOUS
    <2>1. was(i) = was(j)
      BY <1>2, <1>3
    <2> QED
      BY <1>1, <2>1
  <1>8. ASSUME NEW i \in 1 .. m - 1
        PROVE  b2[G[i]].next = IF i = m - 1 THEN NUL ELSE G[i + 1]
    <2> DEFINE w == was(i)
    <2>1. w \in 1 .. m /\ w # k /\ G[i] = L[w]
      BY <1>3
    <2>2. L[w] # L[k] /\ L[w] \in Slots /\ b[L[w]].location # 0
      BY <1>5, <2>1
    <2>3. b2[L[w]].next = IF b[L[w]].next = L[k] THEN b[L[k]].next ELSE b[L[w]].next
      BY <1>12, <2>2
    <2>4. b[L[w]].next = IF w = m THEN NUL ELSE L[w + 1]
      BY <1>2, <2>1
    <2>5. b[L[k]].next = IF k = m THEN NUL ELSE L[k + 1]
      BY <1>2
    <2>6. CASE w + 1 = k
      <3>1. w # m /\ b[L[w]].next = L[k] /\ w = i
        BY <1>1, <2>1, <2>4, <2>6, SMTT(30)
      <3>2. b2[G[i]].next = IF k = m THEN NUL ELSE L[k + 1]
        BY <2>1, <2>3, <2>5, <3>1
      <3>3. k # m => G[i + 1] = L[k + 1]
        BY <1>1, <2>6, <3>1, SMTT(30)
      <3> QED
        BY <1>1, <2>6, <3>1, <3>2, <3>3
    <2>7. CASE w + 1 # k
      <3>1. b[L[w]].next # L[k]
        <4>1. CASE w = m
          BY <1>1, <1>6, <2>4, <4>1
        <4>2. CASE w # m
          <5>1. w + 1 \in 1 .. m
            BY <1>1, <2>1, <4>2
          <5> QED
            BY <1>2, <2>4, <2>7, <4>2, <5>1
        <4> QED
          BY <4>1, <4>2
      <3>2. b2[G[i]].next = IF w = m THEN NUL ELSE L[w + 1]
        BY <2>1, <2>3, <2>4, <3>1
      <3>3. w = m <=> i = m - 1
        BY <1>1, <2>1, <2>7
      <3>4. i # m - 1 => G[i + 1] = L[w + 1]
        BY <1>1, <2>1, <2>7
      <3> QED
        BY <3>2, <3>3, <3>4
    <2> QED
      BY <2>6, <2>7
  <1>9. ASSUME NEW s \in Slots
        PROVE  b2[s].location # 0 <=> \E i \in 1 .. m - 1 : G[i] = s
    <2>1. CASE s = L[k]
      BY <1>3, <1>5, <1>12, <2>1
    <2>2. CASE s # L[k]
      <3>1. b2[s].location # 0 <=> \E i \in 1 .. m : L[i] = s
        BY <1>2, <1>12, <2>2
      <3>2. ASSUME NEW j \in 1 .. m, L[j] = s PROVE \E i \in 1 .. m - 1 : G[i] = s
        <4>1. CASE j < k
          <5>1. j \in 1 .. m - 1 /\ G[j] = L[j]
            BY <1>1, <4>1
          <5> QED
            BY <3>2, <5>1
        <4>2. CASE j > k
          <5>1. j - 1 \in 1 .. m - 1 /\ G[j - 1] = L[j]
            BY <1>1, <4>2
          <5> QED
            BY <3>2, <5>1
        <4> QED
          BY <1>1, <2>2, <3>2, <4>1, <4>2
      <3>3. ASSUME NEW i \in 1 .. m - 1, G[i] = s PROVE \E j \in 1 .. m : L[j] = s
        BY <1>3, <3>3
      <3> QED
        BY <3>1, <3>2, <3>3
    <2> QED
      BY <2>1, <2>2
  <1>10. h2 = (IF m - 1 = 0 THEN NUL ELSE G[1])
    <2>1. h = L[1] /\ 1 \in 1 .. m
      BY <1>1, <1>2
    <2>2. CASE k = 1
      <3>1. h2 = IF m = 1 THEN NUL ELSE L[2]
        BY <1>2, <2>1, <2>2
      <3>2. m # 1 => G[1] = L[2]
        BY <1>1, <2>2
      <3> QED
        BY <1>1, <3>1, <3>2
    <2>3. CASE k # 1
      <3>1. h2 = L[1]
        BY <1>5, <2>1, <2>3
      <3>2. m - 1 # 0 /\ G[1] = L[1]
        BY <1>1, <2>3
      <3> QED
        BY <3>1, <3>2
    <2> QED
      BY <2>2, <2>3
  <1> HIDE DEF G, was
  <1>11. Chained(b2, h2, m - 1, G)
    BY <1>1, <1>4, <1>7, <1>8, <1>9, <1>10 DEF Chained
  <1> QED
    BY <1>11

(* and any other change leave a list.                                      *)
LEMMA ChainSame ==
    ASSUME NEW b, NEW h, NEW m, NEW L, Chained(b, h, m, L), NEW b2,
           \A s \in Slots : b2[s].location = b[s].location /\ b2[s].next = b[s].next
    PROVE  Chained(b2, h, m, L)
  <1>1. m \in Nat /\ L \in [1 .. m -> Slots]
    BY DEF Chained
  <1>2. \A i \in 1 .. m : b2[L[i]].next = b[L[i]].next
    BY <1>1
  <1> QED
    BY <1>2 DEF Chained

(* mp1_ioctl_add                                                           *)
LEMMA AddKeeps ==
    ASSUME ListInv, NEW b, DOMAIN b = Fields, b.location # 0, mp1_ioctl_add(b)
    PROVE  ListInv'
  <1>1. CASE UNCHANGED listVars
    BY <1>1, Zenon DEF ListInv, listVars
  <1>2. CASE ~(b.location >= ROWS * COLS \/ Malloc = NUL)
    <2> DEFINE new == [b EXCEPT !.status = 1, !.countdown = b.on_length, !.next = head]
    <2>1. PICK x : x = Malloc
      OBVIOUS
    <2>2. x \in Slots /\ blink[x].location = 0
      <3> DEFINE free == {s \in Slots : blink[s].location = 0}
      <3>1. x = (IF free = {} THEN NUL ELSE Min(free))
        BY <2>1 DEF Malloc
      <3>2. free # {} /\ x = Min(free)
        BY <1>2, <2>1, <3>1
      <3>3. free \in SUBSET Nat
        BY DEF Slots
      <3>4. \E k \in free : \A j \in free : k <= j
        <4> HIDE DEF free
        <4> QED
          BY <3>2, <3>3, LeastOf
      <3>5. Min(free) \in free
        BY <3>4 DEF Min
      <3> QED
        BY <3>2, <3>5
    <2>3. blink' = [blink EXCEPT ![x] = new] /\ head' = x
      BY <1>2, <2>1 DEF mp1_ioctl_add
    <2>4. DOMAIN new = Fields /\ new.next = head /\ new.location = b.location
      BY DEF Fields
    <2> HIDE DEF new
    <2>5. /\ blink' = [s \in Slots |-> blink'[s]] /\ blink'[x] = new
          /\ \A s \in Slots : s # x => blink'[s] = blink[s]
      BY <2>2, <2>3 DEF ListInv
    <2>6. PICK m, L : Chained(blink, head, m, L)
      BY Zenon DEF ListInv
    <2>7. \E n, G : Chained(blink', x, n, G)
      BY <2>2, <2>4, <2>5, <2>6, ChainCons, Zenon
    <2>8. \A s \in Slots : DOMAIN blink'[s] = Fields
      BY <2>4, <2>5 DEF ListInv
    <2> QED
      BY <2>3, <2>5, <2>7, <2>8 DEF ListInv
  <1> QED
    BY <1>1, <1>2 DEF mp1_ioctl_add

(* mp1_ioctl_remove, of a place                                            *)
LEMMA RemoveKeeps ==
    ASSUME ListInv, NEW loc, mp1_ioctl_remove(loc)
    PROVE  ListInv'
  <1>1. CASE Find(loc) = NUL
    BY <1>1 DEF mp1_ioctl_remove, ListInv, listVars
  <1>2. CASE Find(loc) # NUL
    <2>1. PICK m, L : Chained(blink, head, m, L)
      BY Zenon DEF ListInv
    <2>2. PICK k \in 1 .. m : Find(loc) = L[k]
      BY <1>2, <2>1, FindIs
    <2>3. L[k] \in Slots
      BY <2>1 DEF Chained
    <2> DEFINE led(r) == [blink[r] EXCEPT !.next = blink[L[k]].next]
    <2>4. /\ blink' = [r \in Slots |->
                         IF r = L[k] THEN Free
                         ELSE IF blink[r].location # 0 /\ blink[r].next = L[k]
                         THEN led(r) ELSE blink[r]]
          /\ head' = IF head = L[k] THEN blink[L[k]].next ELSE head
      BY <1>2, <2>2 DEF mp1_ioctl_remove
    <2>5. DOMAIN Free = Fields /\ Free.location = 0
      BY DEF Free, Fields
    <2>6. \A r \in Slots : DOMAIN led(r) = Fields /\ led(r).next = blink[L[k]].next
                           /\ led(r).location = blink[r].location
      BY DEF ListInv, Fields
    <2> HIDE DEF led
    <2>7. blink' = [s \in Slots |-> blink'[s]] /\ Passed(blink, blink', L[k])
      BY <2>3, <2>4, <2>5, <2>6 DEF Passed
    <2>8. \E n, G : Chained(blink', head', n, G)
      <3>1. Passed(blink, blink', L[k]) /\ Chained(blink, head, m, L)
        BY <2>1, <2>7
      <3>2. head' = IF head = L[k] THEN blink[L[k]].next ELSE head
        BY <2>4
      <3>3. \E G : Chained(blink', head', m - 1, G)
        BY <3>1, <3>2, ChainDrop
      <3> QED
        BY <3>3
    <2>9. \A s \in Slots : DOMAIN blink'[s] = Fields
      BY <2>4, <2>5, <2>6 DEF ListInv
    <2> QED
      BY <2>7, <2>8, <2>9 DEF ListInv
  <1> QED
    BY <1>1, <1>2

(* A step that leaves places and links alone                               *)
LEMMA OthersKeep ==
    ASSUME ListInv, head' = head, blink' = [s \in Slots |-> blink'[s]],
           \A s \in Slots : /\ DOMAIN blink'[s] = Fields
                            /\ blink'[s].location = blink[s].location
                            /\ blink'[s].next = blink[s].next
    PROVE  ListInv'
  <1>1. PICK m, L : Chained(blink, head, m, L)
    BY Zenon DEF ListInv
  <1>2. Chained(blink', head, m, L)
    BY <1>1, ChainSame
  <1> QED
    BY <1>2 DEF ListInv

(* mp1_ioctl_sync and the tick of the clock leave them alone.              *)
LEMMA SyncKeeps ==
    ASSUME ListInv, NEW from, NEW to, mp1_ioctl_sync(from, to)
    PROVE  ListInv'
  <1>1. CASE Find(from) = NUL \/ Find(to) = NUL
    BY <1>1, Zenon DEF mp1_ioctl_sync, ListInv, listVars
  <1>2. CASE ~(Find(from) = NUL \/ Find(to) = NUL)
    <2>1. PICK x, y : x = Find(from) /\ y = Find(to)
      OBVIOUS
    <2>2. PICK m, L : Chained(blink, head, m, L)
      BY Zenon DEF ListInv
    <2>3. y \in Slots
      <3>1. PICK i \in 1 .. m : y = L[i]
        BY <1>2, <2>1, <2>2, FindIs
      <3> QED
        BY <2>2, <3>1 DEF Chained
    <2>4. /\ head' = head
          /\ blink' = [blink EXCEPT ![y].on_length = blink[x].on_length,
                          ![y].off_length = blink[x].off_length,
                          ![y].countdown = blink[x].countdown, ![y].status = blink[x].status]
      BY <1>2, <2>1 DEF mp1_ioctl_sync
    <2> DEFINE new == [blink[y] EXCEPT !.on_length = blink[x].on_length,
                          !.off_length = blink[x].off_length,
                          !.countdown = blink[x].countdown, !.status = blink[x].status]
    <2>5. blink' = [blink EXCEPT ![y] = new]
      BY <2>3, <2>4, Zenon DEF ListInv
    <2>6. DOMAIN new = Fields /\ new.location = blink[y].location /\ new.next = blink[y].next
      BY <2>3 DEF ListInv, Fields
    <2> HIDE DEF new
    <2> QED
      BY <2>3, <2>4, <2>5, <2>6, OthersKeep, Zenon DEF ListInv
  <1> QED
    BY <1>1, <1>2

LEMMA TickKeeps ==
    ASSUME ListInv, mp1_rtc_tasklet
    PROVE  ListInv'
  <1>1. head' = head
        /\ blink' = [s \in Slots |->
                       IF \E i \in 1 .. Len(Listed) : Listed[i] = s THEN Ticked(blink[s])
                       ELSE blink[s]]
    BY DEF mp1_rtc_tasklet
  <1>2. \A s \in Slots : /\ DOMAIN Ticked(blink[s]) = Fields
                         /\ Ticked(blink[s]).location = blink[s].location
                         /\ Ticked(blink[s]).next = blink[s].next
    BY DEF ListInv, Ticked, Fields
  <1> QED
    BY <1>1, <1>2, OthersKeep, Zenon DEF ListInv
-----------------------------------------------------------------------------
(* The pictures.                                                           *)

(* The line ends among the first bytes are counted,                        *)
LEMMA CountIs ==
    ASSUME NEW f, NEW p \in Nat
    PROVE  IsFiniteSet(Newlines(f, p)) /\ Cardinality(Newlines(f, p)) \in 0 .. p
  <1>1. IsFiniteSet(1 .. p) /\ Cardinality(1 .. p) = p
    <2>1. IsFiniteSet(1 .. p) /\ Cardinality(1 .. p) = IF 1 > p THEN 0 ELSE p - 1 + 1
      BY FS_Interval
    <2> QED
      BY <2>1
  <1>2. Newlines(f, p) \subseteq 1 .. p
    BY DEF Newlines
  <1>3. IsFiniteSet(Newlines(f, p)) /\ Cardinality(Newlines(f, p)) <= p
    BY <1>1, <1>2, FS_Subset
  <1>4. Cardinality(Newlines(f, p)) \in Nat
    BY <1>3, FS_CardinalityType
  <1> QED
    BY <1>3, <1>4

(* one byte further,                                                       *)
LEMMA CountNext ==
    ASSUME NEW f, NEW p \in Nat
    PROVE  /\ f[p + 1] = NEWLINE =>
                Cardinality(Newlines(f, p + 1)) = Cardinality(Newlines(f, p)) + 1
           /\ f[p + 1] # NEWLINE => Cardinality(Newlines(f, p + 1)) = Cardinality(Newlines(f, p))
  <1>1. CASE f[p + 1] = NEWLINE
    <2>1. Newlines(f, p + 1) = Newlines(f, p) \cup {p + 1} /\ p + 1 \notin Newlines(f, p)
      BY <1>1 DEF Newlines
    <2> QED
      BY <1>1, <2>1, CountIs, FS_AddElement
  <1>2. CASE f[p + 1] # NEWLINE
    <2>1. Newlines(f, p + 1) = Newlines(f, p)
      BY <1>2 DEF Newlines
    <2> QED
      BY <1>2, <2>1
  <1> QED
    BY <1>1, <1>2

(* and over several, which may hold a line end.                            *)
LEMMA CountUp ==
    ASSUME NEW f, NEW p \in Nat, NEW q \in Nat, p <= q
    PROVE  /\ Cardinality(Newlines(f, p)) <= Cardinality(Newlines(f, q))
           /\ \A j \in p + 1 .. q : f[j] = NEWLINE =>
                 Cardinality(Newlines(f, p)) < Cardinality(Newlines(f, q))
  <1>1. ASSUME NEW x \in Nat, NEW y \in Nat, x <= y
        PROVE  Cardinality(Newlines(f, x)) <= Cardinality(Newlines(f, y))
    <2>1. Newlines(f, x) \subseteq Newlines(f, y)
      BY <1>1 DEF Newlines
    <2> QED
      BY <2>1, CountIs, FS_Subset
  <1>2. ASSUME NEW j \in p + 1 .. q, f[j] = NEWLINE
        PROVE  Cardinality(Newlines(f, p)) < Cardinality(Newlines(f, q))
    <2>1. PICK i \in Nat : i + 1 = j /\ p <= i
      <3>1. j - 1 \in Nat /\ j - 1 + 1 = j /\ p <= j - 1
        OBVIOUS
      <3> QED
        BY <3>1
    <2>2. Cardinality(Newlines(f, j)) = Cardinality(Newlines(f, i)) + 1
      BY <1>2, <2>1, CountNext
    <2>3. /\ Cardinality(Newlines(f, p)) <= Cardinality(Newlines(f, i))
          /\ Cardinality(Newlines(f, j)) <= Cardinality(Newlines(f, q))
      BY <1>1, <2>1
    <2>4. /\ Cardinality(Newlines(f, p)) \in Nat /\ Cardinality(Newlines(f, i)) \in Nat
          /\ Cardinality(Newlines(f, j)) \in Nat /\ Cardinality(Newlines(f, q)) \in Nat
      BY <2>1, CountIs
    <2> QED
      BY <2>2, <2>3, <2>4
  <1> QED
    BY <1>1, <1>2

(* What add_frames knows of a file f before it turns to the cell in row r  *)
(* and column k, when it has read a bytes of it, the last one is sign and  *)
(* e tells whether the file has ended.                                     *)
LineState(f, r, k, a, sign, e) ==
    /\ r \in Nat /\ k \in Nat /\ a \in 0 .. Len(f)
    /\ sign # NEWLINE =>
          /\ ~e /\ k <= a /\ Cardinality(Newlines(f, a)) = r
          /\ \A j \in a - k + 1 .. a : f[j] # NEWLINE
          /\ a = k \/ f[a - k] = NEWLINE
    /\ sign = NEWLINE =>
          /\ \A j \in Nat : j >= k => Places(f, r, j) = {}
          /\ ~e => a > 0 /\ f[a] = NEWLINE /\ Cardinality(Newlines(f, a)) = r + 1
          /\ e => \A s, j \in Nat : s > r => Places(f, s, j) = {}

ByteOf(f, a, sign) ==
    IF sign = NEWLINE THEN NEWLINE ELSE IF a < Len(f) THEN f[a + 1] ELSE NEWLINE

(* A byte within the line is the sign of its cell.                         *)
LEMMA SignIs ==
    ASSUME NEW f, Len(f) \in Nat, NEW r, NEW k, NEW a, NEW sign, NEW e,
           LineState(f, r, k, a, sign, e), sign # NEWLINE, a < Len(f), f[a + 1] # NEWLINE
    PROVE  Places(f, r, k) = {a + 1}
  <1>1. /\ r \in Nat /\ k \in Nat /\ a \in Nat /\ k <= a /\ Cardinality(Newlines(f, a)) = r
        /\ \A j \in a - k + 1 .. a : f[j] # NEWLINE
        /\ a = k \/ f[a - k] = NEWLINE
    BY DEF LineState
  <1>2. a + 1 \in Places(f, r, k)
    <2>1. PICK p \in Nat : p = a + 1
      BY <1>1
    <2>2. Cardinality(Newlines(f, p)) = r
      BY <1>1, <2>1, CountNext
    <2>3. p \in k + 1 .. Len(f) /\ \A j \in p - k .. p : f[j] # NEWLINE
      BY <1>1, <2>1
    <2>4. p = k + 1 \/ f[p - k - 1] = NEWLINE
      <3>1. p - k - 1 = a - k
        BY <1>1, <2>1
      <3> QED
        BY <1>1, <2>1, <3>1
    <2>5. p \in Places(f, r, k)
      BY <2>2, <2>3, <2>4 DEF Places
    <2> QED
      BY <2>1, <2>5
  <1>3. ASSUME NEW p \in Places(f, r, k) PROVE p = a + 1
    <2>1. /\ p \in k + 1 .. Len(f) /\ Cardinality(Newlines(f, p)) = r
          /\ \A j \in p - k .. p : f[j] # NEWLINE
          /\ p = k + 1 \/ f[p - k - 1] = NEWLINE
      BY DEF Places
    <2>2. p \in Nat /\ a + 1 \in Nat
      BY <1>1, <2>1
    <2>3. CASE p < a + 1
      <3>1. a # k /\ f[a - k] = NEWLINE
        BY <1>1, <2>1, <2>3
      <3>2. a - k \notin p - k .. p
        BY <2>1, <3>1
      <3>3. a - k \in p + 1 .. a /\ p <= a
        BY <1>1, <2>1, <2>3, <3>2
      <3>4. Cardinality(Newlines(f, p)) < Cardinality(Newlines(f, a))
        BY <1>1, <2>2, <3>1, <3>3, CountUp
      <3> QED
        BY <1>1, <2>1, <3>4
    <2>4. CASE p > a + 1
      <3>1. p # k + 1 /\ f[p - k - 1] = NEWLINE
        BY <1>1, <2>1, <2>4
      <3>2. p - k - 1 \in a - k + 1 .. p - 1
        BY <1>1, <2>1, <2>4
      <3>3. p - k - 1 \notin a - k + 1 .. a
        BY <1>1, <3>1
      <3>4. p - k - 1 \in a + 1 .. p /\ a <= p
        BY <1>1, <2>1, <2>4, <3>2, <3>3
      <3>5. Cardinality(Newlines(f, a)) < Cardinality(Newlines(f, p))
        BY <1>1, <2>2, <3>1, <3>4, CountUp
      <3> QED
        BY <1>1, <2>1, <3>5
    <2> QED
      BY <2>2, <2>3, <2>4
  <1> QED
    BY <1>2, <1>3

(* After the end of a line, or of the file, the line has no more signs,    *)
LEMMA LineOver ==
    ASSUME NEW f, Len(f) \in Nat, NEW r, NEW k, NEW a, NEW sign, NEW e,
           LineState(f, r, k, a, sign, e), sign # NEWLINE,
           a = Len(f) \/ f[a + 1] = NEWLINE
    PROVE  \A j \in Nat : j >= k => Places(f, r, j) = {}
  <1> SUFFICES ASSUME NEW h \in Nat, h >= k, NEW p \in Places(f, r, h) PROVE FALSE
    OBVIOUS
  <1>1. /\ r \in Nat /\ k \in Nat /\ a \in Nat /\ k <= a /\ Cardinality(Newlines(f, a)) = r
        /\ a = k \/ f[a - k] = NEWLINE
    BY DEF LineState
  <1>2. /\ p \in h + 1 .. Len(f) /\ Cardinality(Newlines(f, p)) = r
        /\ \A j \in p - h .. p : f[j] # NEWLINE
    BY DEF Places
  <1>3. p \in Nat
    BY <1>2
  <1>4. CASE p <= a
    <2>1. a # k /\ f[a - k] = NEWLINE
      BY <1>1, <1>2, <1>4
    <2>2. a - k \notin p - h .. p
      BY <1>2, <2>1
    <2>3. a - k \in p + 1 .. a
      BY <1>1, <1>2, <1>4, <2>2
    <2>4. Cardinality(Newlines(f, p)) < Cardinality(Newlines(f, a))
      BY <1>1, <1>3, <1>4, <2>1, <2>3, CountUp
    <2> QED
      BY <1>1, <1>2, <2>4
  <1>5. CASE p > a
    <2>1. f[a + 1] = NEWLINE /\ a + 1 \in a + 1 .. p /\ a <= p
      BY <1>1, <1>2, <1>5
    <2>2. Cardinality(Newlines(f, a)) < Cardinality(Newlines(f, p))
      BY <1>1, <1>3, <2>1, CountUp
    <2> QED
      BY <1>1, <1>2, <2>2
  <1> QED
    BY <1>1, <1>3, <1>4, <1>5

(* and after the end of the file there are no more lines.                  *)
LEMMA FileOver ==
    ASSUME NEW f, Len(f) \in Nat, NEW r, NEW k, NEW a, NEW sign, NEW e,
           LineState(f, r, k, a, sign, e), sign # NEWLINE, a = Len(f)
    PROVE  \A s, j \in Nat : s > r => Places(f, s, j) = {}
  <1> SUFFICES ASSUME NEW s \in Nat, NEW j \in Nat, s > r, NEW p \in Places(f, s, j) PROVE FALSE
    OBVIOUS
  <1>1. r \in Nat /\ a \in Nat /\ Cardinality(Newlines(f, a)) = r
    BY DEF LineState
  <1>2. p \in Nat /\ p <= a /\ Cardinality(Newlines(f, p)) = s
    BY <1>1 DEF Places
  <1>3. Cardinality(Newlines(f, p)) <= Cardinality(Newlines(f, a))
    BY <1>1, <1>2, CountUp
  <1> QED
    BY <1>1, <1>2, <1>3

(* Whether a byte is read, and whether the file has ended after it.        *)
More(f, a, sign) == sign # NEWLINE /\ a < Len(f)
Ended(f, a, sign, e) == e \/ (sign # NEWLINE /\ ~More(f, a, sign))

(* One turn for one file: what is shown is the sign of the cell, and the   *)
(* turn leads to the next cell, and to the next row when the line is over. *)
Turned(f, r, k, a, sign, e) ==
    /\ CellOf(f, r, k) = Shown(sign)
    /\ LineState(f, r, k + 1, a, sign, e)
    /\ sign = NEWLINE => LineState(f, r + 1, 0, a, IF e THEN NEWLINE ELSE "0", e)

LEMMA CellTurn ==
    ASSUME NEW f, Len(f) \in Nat, NEW r, NEW k, NEW a, NEW sign, NEW e,
           LineState(f, r, k, a, sign, e),
           NEW b, b = ByteOf(f, a, sign),
           NEW a2, a2 = a + (IF More(f, a, sign) THEN 1 ELSE 0),
           NEW e2, e2 <=> Ended(f, a, sign, e)
    PROVE  Turned(f, r, k, a2, b, e2)
  <1> SUFFICES /\ CellOf(f, r, k) = Shown(b)
               /\ LineState(f, r, k + 1, a2, b, e2)
               /\ b = NEWLINE => LineState(f, r + 1, 0, a2, IF e2 THEN NEWLINE ELSE "0", e2)
    BY DEF Turned
  <1>1. r \in Nat /\ k \in Nat /\ a \in 0 .. Len(f) /\ r + 1 \in Nat /\ k + 1 \in Nat
    BY DEF LineState
  <1>2. NEWLINE # "0"
    BY DEF NEWLINE
  <1>3. CASE sign = NEWLINE
    <2>1. b = NEWLINE /\ a2 = a /\ (e2 <=> e)
      BY <1>1, <1>3 DEF ByteOf, More, Ended
    <2>2. /\ \A j \in Nat : j >= k => Places(f, r, j) = {}
          /\ ~e => a > 0 /\ f[a] = NEWLINE /\ Cardinality(Newlines(f, a)) = r + 1
          /\ e => \A s, j \in Nat : s > r => Places(f, s, j) = {}
      BY <1>3 DEF LineState
    <2>3. CellOf(f, r, k) = Shown(b)
      BY <1>1, <2>1, <2>2 DEF CellOf, Shown
    <2>4. LineState(f, r, k + 1, a2, b, e2)
      BY <1>1, <2>1, <2>2 DEF LineState
    <2>5. LineState(f, r + 1, 0, a2, IF e2 THEN NEWLINE ELSE "0", e2)
      <3>1. CASE e2
        <4>1. LineState(f, r + 1, 0, a2, NEWLINE, e2)
          BY <1>1, <2>1, <2>2, <3>1 DEF LineState
        <4> QED
          BY <3>1, <4>1, Zenon
      <3>2. CASE ~e2
        <4>1. LineState(f, r + 1, 0, a2, "0", e2)
          BY <1>1, <1>2, <2>1, <2>2, <3>2 DEF LineState
        <4> QED
          BY <3>2, <4>1
      <3> QED
        BY <3>1, <3>2
    <2> QED
      BY <2>3, <2>4, <2>5
  <1>4. CASE sign # NEWLINE
    <2>1. /\ ~e /\ k <= a /\ Cardinality(Newlines(f, a)) = r
          /\ \A j \in a - k + 1 .. a : f[j] # NEWLINE
          /\ a = k \/ f[a - k] = NEWLINE
      BY <1>4 DEF LineState
    <2>2. CASE a < Len(f) /\ f[a + 1] # NEWLINE
      <3>1. b = f[a + 1] /\ a2 = a + 1 /\ ~e2 /\ b # NEWLINE
        BY <1>1, <1>4, <2>1, <2>2 DEF ByteOf, More, Ended
      <3>2. Places(f, r, k) = {a + 1}
        BY <1>4, <2>2, SignIs
      <3>3. CellOf(f, r, k) = Shown(b)
        BY <3>1, <3>2 DEF CellOf, Shown
      <3>4. a2 \in 0 .. Len(f) /\ k + 1 <= a2 /\ a2 - (k + 1) = a - k
        BY <1>1, <2>1, <2>2, <3>1
      <3>5. Cardinality(Newlines(f, a2)) = r
        BY <1>1, <2>1, <2>2, <3>1, CountNext
      <3>6. \A j \in a2 - (k + 1) + 1 .. a2 : f[j] # NEWLINE
        BY <1>1, <2>1, <2>2, <3>1, <3>4
      <3>7. a2 = k + 1 \/ f[a2 - (k + 1)] = NEWLINE
        BY <1>1, <2>1, <3>1, <3>4
      <3>8. LineState(f, r, k + 1, a2, b, e2)
        BY <1>1, <3>1, <3>4, <3>5, <3>6, <3>7 DEF LineState
      <3> QED
        BY <3>1, <3>3, <3>8
    <2>3. CASE a < Len(f) /\ f[a + 1] = NEWLINE
      <3>1. b = NEWLINE /\ a2 = a + 1 /\ ~e2
        BY <1>1, <1>4, <2>1, <2>3 DEF ByteOf, More, Ended
      <3>2. \A j \in Nat : j >= k => Places(f, r, j) = {}
        BY <1>4, <2>3, LineOver
      <3>3. CellOf(f, r, k) = Shown(b)
        BY <1>1, <3>1, <3>2 DEF CellOf, Shown
      <3>4. /\ a2 \in 0 .. Len(f) /\ a2 > 0 /\ f[a2] = NEWLINE
            /\ Cardinality(Newlines(f, a2)) = r + 1
        BY <1>1, <2>1, <2>3, <3>1, CountNext
      <3>5. LineState(f, r, k + 1, a2, b, e2)
        BY <1>1, <3>1, <3>2, <3>4 DEF LineState
      <3>6. LineState(f, r + 1, 0, a2, "0", e2)
        BY <1>1, <1>2, <3>1, <3>4 DEF LineState
      <3> QED
        BY <3>1, <3>3, <3>5, <3>6
    <2>4. CASE a = Len(f)
      <3>1. b = NEWLINE /\ a2 = a /\ e2
        BY <1>1, <1>4, <2>1, <2>4 DEF ByteOf, More, Ended
      <3>2. \A j \in Nat : j >= k => Places(f, r, j) = {}
        BY <1>4, <2>4, LineOver
      <3>3. \A s, j \in Nat : s > r => Places(f, s, j) = {}
        BY <1>4, <2>4, FileOver
      <3>4. CellOf(f, r, k) = Shown(b)
        BY <1>1, <3>1, <3>2 DEF CellOf, Shown
      <3>5. LineState(f, r, k + 1, a2, b, e2)
        BY <1>1, <3>1, <3>2, <3>3 DEF LineState
      <3>6. LineState(f, r + 1, 0, a2, NEWLINE, e2)
        BY <1>1, <3>1, <3>3 DEF LineState
      <3> QED
        BY <3>1, <3>4, <3>5, <3>6, Zenon
    <2> QED
      BY <1>1, <2>2, <2>3, <2>4
  <1> QED
    BY <1>3, <1>4

(* So it is when the first cell is turned to.                              *)
LEMMA FirstCell ==
    ASSUME NEW f, Len(f) \in Nat
    PROVE  LineState(f, 0, 0, 0, "0", FALSE)
  <1>1. Newlines(f, 0) = {}
    BY DEF Newlines
  <1>2. Cardinality(Newlines(f, 0)) = 0
    BY <1>1, FS_EmptySet
  <1> QED
    BY <1>2 DEF LineState, NEWLINE

(* A cell with a sign is found among those of the picture.                 *)
LEMMA InkedIs ==
    ASSUME NEW f, Len(f) \in Nat, NEW r \in Nat, NEW k \in Nat, CellOf(f, r, k) # Blank
    PROVE  <<r, k>> \in Inked(f)
  <1>1. PICK p \in Places(f, r, k) : TRUE
    BY DEF CellOf
  <1>2. p \in k + 1 .. Len(f) /\ Cardinality(Newlines(f, p)) = r
    BY <1>1 DEF Places
  <1>3. r \in 0 .. p
    BY <1>2, CountIs
  <1> QED
    BY <1>2, <1>3 DEF Inked

-----------------------------------------------------------------------------
(* The pictures are two files, which add_frames reads together.            *)
LinesRead == \A n \in 1 .. 2 : LineState(frames[n], row, col, at[n], c[n], eof[n])

FishInv ==
    /\ row \in Nat /\ col \in Nat /\ ticks \in 0 .. WAIT
    /\ \A n \in 1 .. 2 : Len(frames[n]) \in Nat
    /\ fpc = "start" => /\ row = 0 /\ col = 0 /\ at = <<0, 0>> /\ c = <<"0", "0">>
                        /\ eof = <<FALSE, FALSE>>
                        /\ blink = [s \in Slots |-> Free] /\ head = NUL
    /\ fpc = "cell" => LinesRead
    /\ Addressable => ListInv

(* A turn for both files.                                                  *)
LEMMA TurnOf ==
    ASSUME FishInv, AddCell
    PROVE  \A n \in 1 .. 2 : Turned(frames[n], row, col, at'[n], Byte(n), eof'[n])
  <1>1. LinesRead /\ \A n \in 1 .. 2 : Len(frames[n]) \in Nat
    BY DEF FishInv, AddCell
  <1>2. /\ at' = <<at[1] + (IF Reads(1) THEN 1 ELSE 0), at[2] + (IF Reads(2) THEN 1 ELSE 0)>>
        /\ eof' = <<eof[1] \/ (c[1] # NEWLINE /\ ~Reads(1)),
                    eof[2] \/ (c[2] # NEWLINE /\ ~Reads(2))>>
    BY DEF AddCell
  <1>3. ASSUME NEW n \in 1 .. 2
        PROVE  Turned(frames[n], row, col, at'[n], Byte(n), eof'[n])
    <2>1. Byte(n) = ByteOf(frames[n], at[n], c[n]) /\ (Reads(n) <=> More(frames[n], at[n], c[n]))
      BY DEF Byte, ByteOf, Reads, More
    <2>2. at'[n] = at[n] + (IF More(frames[n], at[n], c[n]) THEN 1 ELSE 0)
      <3>1. n = 1 \/ n = 2
        OBVIOUS
      <3>2. at'[n] = at[n] + (IF Reads(n) THEN 1 ELSE 0)
        BY <1>2, <3>1
      <3> QED
        BY <2>1, <3>2
    <2>3. eof'[n] <=> Ended(frames[n], at[n], c[n], eof[n])
      <3>1. n = 1 \/ n = 2
        OBVIOUS
      <3>2. \A x, y : <<x, y>>[1] = x /\ <<x, y>>[2] = y
        OBVIOUS
      <3>3. /\ eof'[1] <=> eof[1] \/ (c[1] # NEWLINE /\ ~Reads(1))
            /\ eof'[2] <=> eof[2] \/ (c[2] # NEWLINE /\ ~Reads(2))
        BY <1>2, <3>2, Zenon
      <3>4. eof'[n] <=> eof[n] \/ (c[n] # NEWLINE /\ ~Reads(n))
        BY <3>1, <3>3, Zenon
      <3> QED
        BY <2>1, <3>4 DEF Ended
    <2>4. LineState(frames[n], row, col, at[n], c[n], eof[n])
      BY <1>1 DEF LinesRead
    <2> QED
      BY <1>1, <2>1, <2>2, <2>3, <2>4, CellTurn
  <1> QED
    BY <1>3

(* A number below the modulus is its own remainder.                        *)
LEMMA SmallMod == \A m \in Nat, x \in Nat : x < m => x % m = x
  OBVIOUS

(* What is added in a turn has a place, which is not cut.                  *)
LEMMA PlaceKept ==
    ASSUME FishInv, AddCell, Addressable, NEW n \in 1 .. 2, Shown(Byte(n)) # Blank
    PROVE  /\ Location(row, col) = row * COLS + col + OFFSET
           /\ row * COLS + col + OFFSET \in Nat \ {0}
           /\ <<row, col>> \in Inked(frames[n])
  <1>1. row \in Nat /\ col \in Nat /\ Len(frames[n]) \in Nat
    BY DEF FishInv
  <1>2. COLS \in Nat /\ OFFSET \in Nat \ {0} /\ LOCATIONS \in Nat
    BY FishAssumption
  <1>3. row * COLS \in Nat
    BY <1>1, <1>2
  <1>4. row * COLS + col + OFFSET \in Nat \ {0}
    BY <1>1, <1>2, <1>3
  <1>5. <<row, col>> \in Inked(frames[n])
    BY <1>1, TurnOf, InkedIs DEF Turned
  <1>6. row * COLS + col + OFFSET < LOCATIONS
    <2>1. \A rk \in Inked(frames[n]) : rk[1] * COLS + rk[2] + OFFSET < LOCATIONS
      BY DEF Addressable
    <2> QED
      BY <1>5, <2>1
  <1> QED
    BY <1>2, <1>4, <1>5, <1>6, SmallMod DEF Location

LEMMA FishInvInit == FishInit => FishInv
  <1> SUFFICES ASSUME FishInit PROVE FishInv
    OBVIOUS
  <1>1. blink = [s \in Slots |-> Free] /\ head = NUL /\ row = 0 /\ col = 0 /\ ticks = 0
        /\ fpc = "start" /\ at = <<0, 0>> /\ c = <<"0", "0">> /\ eof = <<FALSE, FALSE>>
        /\ \A n \in 1 .. 2 : Len(frames[n]) \in Nat
    BY DEF FishInit
  <1>2. DOMAIN Free = Fields /\ Free.location = 0
    BY DEF Free, Fields
  <1>3. Chained(blink, head, 0, [i \in 1 .. 0 |-> 1])
    BY <1>1, <1>2 DEF Chained
  <1>4. ListInv
    BY <1>1, <1>2, <1>3 DEF ListInv
  <1>5. WAIT \in Nat
    BY FishAssumption
  <1> QED
    BY <1>1, <1>4, <1>5 DEF FishInv

LEMMA FishInvStep == FishInv /\ [FishNext]_fVars => FishInv'
  <1> SUFFICES ASSUME FishInv, [FishNext]_fVars PROVE FishInv'
    OBVIOUS
  <1>1. /\ row \in Nat /\ col \in Nat /\ ticks \in 0 .. WAIT
        /\ \A n \in 1 .. 2 : Len(frames[n]) \in Nat
        /\ Addressable => ListInv
    BY DEF FishInv
  <1>2. WAIT \in Nat \ {0}
    BY FishAssumption
  <1>3. CASE Start
    <2>1. PICK f0, f1 \in Pictures : frames' = <<f0, f1>>
      BY <1>3 DEF Start
    <2>2. \A n \in 1 .. 2 : Len(frames'[n]) \in Nat
      <3>1. \A f \in Pictures : Len(f) \in Nat
        BY FishAssumption DEF Pictures
      <3> QED
        BY <2>1, <3>1
    <2>3. /\ row = 0 /\ col = 0 /\ at = <<0, 0>> /\ c = <<"0", "0">> /\ eof = <<FALSE, FALSE>>
          /\ blink = [s \in Slots |-> Free] /\ head = NUL
      BY <1>3, Zenon DEF Start, FishInv
    <2>4. fpc' = "cell" /\ UNCHANGED <<blink, head, at, c, eof, row, col, ticks>>
      BY <1>3 DEF Start, listVars, readVars
    <2>5. LinesRead'
      <3>1. \A n \in 1 .. 2 : at'[n] = 0 /\ c'[n] = "0" /\ eof'[n] = FALSE
        <4>1. \A x : <<x, x>>[1] = x /\ <<x, x>>[2] = x
          OBVIOUS
        <4>2. eof'[1] = FALSE /\ eof'[2] = FALSE
          BY <2>3, <2>4, <4>1, Zenon
        <4>3. \A n \in 1 .. 2 : n = 1 \/ n = 2
          OBVIOUS
        <4>4. \A n \in 1 .. 2 : eof'[n] = FALSE
          BY <4>2, <4>3, Zenon
        <4>5. \A n \in 1 .. 2 : at'[n] = 0 /\ c'[n] = "0"
          BY <2>3, <2>4
        <4> QED
          BY <4>4, <4>5, Zenon
      <3> QED
        BY <2>2, <2>3, <2>4, <3>1, FirstCell, Zenon DEF LinesRead
    <2>6. ListInv'
      <3>1. DOMAIN Free = Fields /\ Free.location = 0
        BY DEF Free, Fields
      <3>2. Chained(blink', head', 0, [i \in 1 .. 0 |-> 1])
        BY <2>3, <2>4, <3>1 DEF Chained
      <3> QED
        BY <2>3, <2>4, <3>1, <3>2 DEF ListInv
    <2> QED
      BY <1>1, <2>2, <2>4, <2>5, <2>6 DEF FishInv
  <1>4. CASE AddCell
    <2>1. frames' = frames /\ row' \in Nat /\ col' \in Nat /\ ticks' \in 0 .. WAIT
      BY <1>1, <1>2, <1>4 DEF AddCell
    <2>2. fpc' = "cell" \/ fpc' = "wait1"
      BY <1>4 DEF AddCell
    <2>3. LinesRead'
      <3>1. CASE Byte(1) = NEWLINE /\ Byte(2) = NEWLINE
        <4>1. row' = row + 1 /\ col' = 0
          BY <1>4, <3>1 DEF AddCell
        <4>2. c' = <<IF eof'[1] THEN NEWLINE ELSE "0", IF eof'[2] THEN NEWLINE ELSE "0">>
          BY <1>4, <3>1, Zenon DEF AddCell
        <4>3. ASSUME NEW n \in 1 .. 2
              PROVE  LineState(frames[n], row', col', at'[n], c'[n], eof'[n])
          <5>1. c'[n] = IF eof'[n] THEN NEWLINE ELSE "0"
            BY <4>2
          <5> QED
            BY <1>4, <3>1, <4>1, <5>1, TurnOf DEF Turned
        <4> QED
          BY <2>1, <4>3 DEF LinesRead
      <3>2. CASE ~(Byte(1) = NEWLINE /\ Byte(2) = NEWLINE)
        <4>1. c' = <<Byte(1), Byte(2)>> /\ col' = col + 1 /\ row' = row
          BY <1>4, <3>2 DEF AddCell
        <4>2. \A n \in 1 .. 2 : c'[n] = Byte(n)
          BY <4>1
        <4> QED
          BY <1>4, <2>1, <4>1, <4>2, TurnOf DEF Turned, LinesRead
      <3> QED
        BY <3>1, <3>2
    <2>4. Addressable' => ListInv'
      <3> SUFFICES ASSUME Addressable' PROVE ListInv'
        OBVIOUS
      <3>1. Addressable /\ ListInv
        BY <1>1, <2>1 DEF Addressable
      <3>2. CASE UNCHANGED listVars
        BY <3>1, <3>2, Zenon DEF ListInv, listVars
      <3>3. CASE ~UNCHANGED listVars
        <4> DEFINE cell(p, q) == [Free EXCEPT
                              !.on_char = p, !.off_char = q,
                              !.on_length = BLINK, !.off_length = BLINK,
                              !.location = Location(row, col)]
        <4>1. /\ mp1_ioctl_add(cell(Shown(Byte(1)), Shown(Byte(2))))
              /\ Shown(Byte(1)) # Blank \/ Shown(Byte(2)) # Blank
          BY <1>4, <3>3 DEF AddCell
        <4>2. Location(row, col) # 0
          BY <1>4, <3>1, <4>1, PlaceKept
        <4>3. \A p, q : DOMAIN cell(p, q) = Fields /\ cell(p, q).location = Location(row, col)
          BY DEF Free, Fields
        <4> HIDE DEF cell
        <4> QED
          BY <3>1, <4>1, <4>2, <4>3, AddKeeps
      <3> QED
        BY <3>2, <3>3
    <2> QED
      BY <1>1, <2>1, <2>2, <2>3, <2>4, Zenon DEF FishInv
  <1>5. ASSUME frames' = frames /\ UNCHANGED readVars,
               fpc # "cell" /\ fpc' \notin {"start", "cell"},
               ticks' \in 0 .. WAIT, ListInv => ListInv'
        PROVE  FishInv'
    <2>1. Addressable' => ListInv'
      BY <1>1, <1>5 DEF Addressable
    <2> QED
      BY <1>1, <1>5, <2>1, Zenon DEF FishInv, readVars
  <1>6. CASE Tick
    <2>1. ListInv => ListInv'
      BY <1>6, TickKeeps DEF Tick
    <2> QED
      BY <1>1, <1>2, <1>5, <1>6, <2>1 DEF Tick
  <1>7. CASE AddPlace
    <2> DEFINE place == [Free EXCEPT !.location = PLACE, !.on_char = "I", !.off_char = "M",
                             !.on_length = LENGTHS[1], !.off_length = LENGTHS[2]]
    <2>1. mp1_ioctl_add(place)
      BY <1>7 DEF AddPlace
    <2>2. DOMAIN place = Fields /\ place.location = PLACE
      BY DEF Free, Fields
    <2>3. PLACE # 0
      BY FishAssumption
    <2> HIDE DEF place
    <2>4. ListInv => ListInv'
      BY <2>1, <2>2, <2>3, AddKeeps
    <2> QED
      BY <1>2, <1>5, <1>7, <2>4 DEF AddPlace
  <1>8. CASE Sync
    <2>1. ListInv => ListInv'
      BY <1>8, SyncKeeps DEF Sync
    <2> QED
      BY <1>2, <1>5, <1>8, <2>1 DEF Sync
  <1>9. CASE RemovePlace
    <2>1. ListInv => ListInv'
      BY <1>9, RemoveKeeps DEF RemovePlace
    <2> QED
      BY <1>2, <1>5, <1>9, <2>1 DEF RemovePlace
  <1>10. CASE UNCHANGED fVars
    <2>1. /\ UNCHANGED <<row, col, ticks, frames, fpc, at, c, eof, blink, head>>
      BY <1>10 DEF fVars, listVars, readVars
    <2>2. (LinesRead => LinesRead') /\ (ListInv => ListInv') /\ (Addressable' => Addressable)
      BY <2>1 DEF LinesRead, ListInv, Addressable
    <2> QED
      BY <2>1, <2>2, Zenon DEF FishInv
  <1> QED
    BY <1>3, <1>4, <1>6, <1>7, <1>8, <1>9, <1>10 DEF FishNext

(* The list of fish reaches every structure in use once and no free one,   *)
(* for every array, screen and pair of pictures whose places fit into a    *)
(* location: mp1_malloc, the links of mp1_ioctl_add and mp1_ioctl_remove   *)
(* (blink.S).                                                              *)
THEOREM ListStaysSound == FishSpec => []ListSound
  <1>1. FishInv => ListSound
    <2> SUFFICES ASSUME FishInv, Addressable PROVE ListSound
      BY DEF ListSound
    <2>1. PICK m, L : Chained(blink, head, m, L)
      BY DEF FishInv, ListInv
    <2>2. Listed = L /\ L \in Seq(Slots) /\ Len(L) = m
      BY <2>1, ListedIs
    <2>3. m \in Nat /\ L \in [1 .. m -> Slots]
      BY <2>1 DEF Chained
    <2>4. Range(L) = {L[i] : i \in 1 .. m}
      BY <2>3 DEF Range
    <2>5. Cardinality(Range(L)) = m
      BY <2>1, <2>4, ListFits
    <2>6. Range(L) = {s \in Slots : blink[s].location # 0}
      BY <2>1, <2>3, <2>4 DEF Chained
    <2>7. L # <<>> => blink[L[Len(L)]].next = NUL
      BY <2>1, <2>2, <2>3 DEF Chained
    <2> QED
      BY <2>2, <2>5, <2>6, <2>7 DEF ListSound
  <1> QED
    BY <1>1, FishInvInit, FishInvStep, PTL DEF FishSpec


-----------------------------------------------------------------------------
(* What add_frames draws.                                                  *)

(* The cells of the screen that are not blank in both pictures, those of   *)
(* them before a cell, and their places.                                   *)
Cells(fs) ==
    {p \in (0 .. ROWS - 1) \X (0 .. COLS - OFFSET - 1) :
        \E n \in 1 .. 2 : CellOf(fs[n], p[1], p[2]) # Blank}
CellsBefore(fs, r, k) == {p \in Cells(fs) : p[1] < r \/ (p[1] = r /\ p[2] < k)}
PlaceOf(p) == p[1] * COLS + p[2] + OFFSET

(* The structure x blinks between the signs of the cell p.                 *)
Blinks(fs, x, p) ==
    /\ x.location = PlaceOf(p)
    /\ x.on_char = CellOf(fs[1], p[1], p[2])
    /\ x.off_char = CellOf(fs[2], p[1], p[2])

(* The structures of b in use are those of the cells of S, one for each.   *)
Drawn(b, fs, S) ==
    /\ \A s \in Slots : b[s].location # 0 => \E p \in S : Blinks(fs, b[s], p)
    /\ \A p \in S : \E s \in Slots : Blinks(fs, b[s], p)
    /\ \A s, t \in Slots : b[s].location # 0 /\ b[s].location = b[t].location => s = t

DrawInv ==
    Addressable /\ Narrow =>
        /\ fpc = "cell" => Drawn(blink, frames, CellsBefore(frames, row, col))
        /\ fpc = "wait1" /\ ticks = WAIT => Drawn(blink, frames, Cells(frames))

(* Rows do not overlap,                                                    *)
LEMMA RowsApart ==
    ASSUME NEW w \in Nat, NEW r \in Nat, NEW s \in Nat, r < s
    PROVE  r * w \in Nat /\ s * w \in Nat /\ r * w + w <= s * w
  <1>1. PICK d \in Nat : s = r + 1 + d
    <2>1. s - r - 1 \in Nat /\ s = r + 1 + (s - r - 1)
      OBVIOUS
    <2> QED
      BY <2>1
  <1>2. (r + 1 + d) * w = r * w + w + d * w
    OBVIOUS
  <1>3. d * w \in Nat /\ r * w \in Nat
    OBVIOUS
  <1> QED
    BY <1>1, <1>2, <1>3

(* so a cell of the screen has a place on it, below it has none,           *)
LEMMA PlaceOnScreen ==
    ASSUME NEW r \in Nat, NEW k \in 0 .. COLS - OFFSET - 1
    PROVE  /\ r < ROWS => r * COLS + k + OFFSET \in 1 .. ROWS * COLS - 1
           /\ r >= ROWS => r * COLS + k + OFFSET >= ROWS * COLS
  <1>1. COLS \in Nat /\ ROWS \in Nat /\ OFFSET \in 1 .. COLS - 1
    BY FishAssumption
  <1>2. r * COLS \in Nat /\ ROWS * COLS \in Nat
    BY <1>1
  <1>3. CASE r < ROWS
    <2>1. r * COLS + COLS <= ROWS * COLS
      BY <1>1, <1>3, RowsApart
    <2> QED
      BY <1>1, <1>2, <1>3, <2>1
  <1>4. CASE r > ROWS
    <2>1. ROWS * COLS + COLS <= r * COLS
      BY <1>1, <1>4, RowsApart
    <2> QED
      BY <1>1, <1>2, <1>4, <2>1
  <1>5. CASE r = ROWS
    BY <1>1, <1>2, <1>5
  <1> QED
    BY <1>1, <1>3, <1>4, <1>5

(* and two cells have two places.                                          *)
LEMMA PlacesApart ==
    ASSUME NEW r \in Nat, NEW k \in 0 .. COLS - OFFSET - 1,
           NEW s \in Nat, NEW j \in 0 .. COLS - OFFSET - 1,
           r * COLS + k + OFFSET = s * COLS + j + OFFSET
    PROVE  r = s /\ k = j
  <1>1. COLS \in Nat /\ OFFSET \in 1 .. COLS - 1
    BY FishAssumption
  <1>2. r * COLS \in Nat /\ s * COLS \in Nat
    BY <1>1
  <1>3. CASE r < s
    <2>1. r * COLS + COLS <= s * COLS
      BY <1>1, <1>3, RowsApart
    <2> QED
      BY <1>1, <1>2, <2>1
  <1>4. CASE s < r
    <2>1. s * COLS + COLS <= r * COLS
      BY <1>1, <1>4, RowsApart
    <2> QED
      BY <1>1, <1>2, <2>1
  <1>5. CASE r = s
    BY <1>1, <1>2, <1>5
  <1> QED
    BY <1>3, <1>4, <1>5

(* So while cells of the screen are drawn, the array does not run out.     *)
LEMMA SlotLeft ==
    ASSUME SLOTS >= ROWS * COLS, NEW S \in SUBSET Cells(frames), Drawn(blink, frames, S)
    PROVE  Malloc \in Slots /\ blink[Malloc].location = 0
  <1>1. SLOTS \in Nat /\ ROWS \in Nat /\ COLS \in Nat /\ ROWS * COLS \in Nat /\ OFFSET \in 1 .. COLS - 1
    BY FishAssumption, SMTT(30)
  <1> DEFINE free == {s \in Slots : blink[s].location = 0}
             places == 1 .. ROWS * COLS - 1
             g == [s \in Slots |-> blink[s].location]
  <1>2. free # {}
    <2> SUFFICES ASSUME free = {} PROVE FALSE
      OBVIOUS
    <2>1. \A s \in Slots : blink[s].location # 0
      OBVIOUS
    <2>2. \A s \in Slots : blink[s].location \in places
      <3> SUFFICES ASSUME NEW s \in Slots PROVE blink[s].location \in places
        BY Zenon
      <3>1. PICK p \in S : Blinks(frames, blink[s], p)
        BY <2>1 DEF Drawn
      <3>2. p[1] \in 0 .. ROWS - 1 /\ p[2] \in 0 .. COLS - OFFSET - 1
        BY <3>1 DEF Cells
      <3>3. blink[s].location = p[1] * COLS + p[2] + OFFSET
        BY <3>1 DEF Blinks, PlaceOf
      <3>4. p[1] \in Nat /\ p[1] < ROWS
        BY <1>1, <3>2
      <3> QED
        BY <3>2, <3>3, <3>4, PlaceOnScreen
    <2>3. g \in [Slots -> places]
      BY <2>2
    <2>4. IsFiniteSet(Slots) /\ Cardinality(Slots) = SLOTS
      <3>1. IsFiniteSet(1 .. SLOTS) /\ Cardinality(1 .. SLOTS) = IF 1 > SLOTS THEN 0 ELSE SLOTS - 1 + 1
        BY <1>1, FS_Interval
      <3> QED
        BY <1>1, <3>1 DEF Slots
    <2>5. IsFiniteSet(places) /\ Cardinality(places) < SLOTS
      <3>1. PICK l \in Int : l = ROWS * COLS - 1
        BY <1>1
      <3>2. IsFiniteSet(1 .. l) /\ Cardinality(1 .. l) = IF 1 > l THEN 0 ELSE l - 1 + 1
        <4>1. ASSUME NEW m \in Int
              PROVE  IsFiniteSet(1 .. m) /\ Cardinality(1 .. m) = IF 1 > m THEN 0 ELSE m - 1 + 1
          BY FS_Interval
        <4> QED
          BY <3>1, <4>1
      <3>3. SLOTS > 0
        BY FishAssumption
      <3>4. places = 1 .. l
        BY <3>1
      <3>5. Cardinality(1 .. l) < SLOTS
        BY <1>1, <3>1, <3>2, <3>3
      <3> QED
        BY <3>2, <3>4, <3>5, Zenon
    <2> HIDE DEF places, g
    <2>6. PICK s, t \in Slots : s # t /\ g[s] = g[t]
      BY <2>3, <2>4, <2>5, FS_PigeonHole
    <2>7. blink[s].location = blink[t].location
      BY <2>6, Zenon DEF g
    <2> QED
      BY <2>1, <2>6, <2>7, Zenon DEF Drawn
  <1>3. Malloc = Min(free)
    BY <1>2 DEF Malloc
  <1>4. free \in SUBSET Nat
    BY DEF Slots
  <1>5. \E k \in free : \A j \in free : k <= j
    <2> HIDE DEF free
    <2> QED
      BY <1>2, <1>4, LeastOf
  <1>6. Min(free) \in free
    BY <1>5 DEF Min
  <1> QED
    BY <1>3, <1>6

(* A turn at the end of both lines leaves out only blank cells,            *)
LEMMA LineDrawn ==
    ASSUME FishInv, AddCell, Byte(1) = NEWLINE, Byte(2) = NEWLINE
    PROVE  /\ CellsBefore(frames, row + 1, 0) = CellsBefore(frames, row, col)
           /\ eof'[1] /\ eof'[2] => Cells(frames) = CellsBefore(frames, row, col)
  <1>1. row \in Nat /\ col \in Nat
    BY DEF FishInv
  <1>2. ASSUME NEW n \in 1 .. 2, NEW j \in Nat, j >= col PROVE CellOf(frames[n], row, j) = Blank
    <2>1. CASE j = col
      <3>1. Shown(Byte(n)) = Blank
        BY DEF Shown
      <3> QED
        BY <2>1, <3>1, TurnOf DEF Turned
    <2>2. CASE j # col
      <3>1. LineState(frames[n], row, col + 1, at'[n], NEWLINE, eof'[n])
        BY TurnOf, SMTT(30) DEF Turned
      <3>2. Places(frames[n], row, j) = {}
        BY <1>1, <1>2, <2>2, <3>1 DEF LineState
      <3> QED
        BY <3>2 DEF CellOf
    <2> QED
      BY <2>1, <2>2
  <1>3. ASSUME NEW n \in 1 .. 2, eof'[n], NEW r \in Nat, r > row, NEW j \in Nat
        PROVE  CellOf(frames[n], r, j) = Blank
    <2>1. LineState(frames[n], row, col + 1, at'[n], NEWLINE, eof'[n])
      BY TurnOf, SMTT(30) DEF Turned
    <2>2. Places(frames[n], r, j) = {}
      BY <1>3, <2>1 DEF LineState
    <2> QED
      BY <2>2 DEF CellOf
  <1>4. ASSUME NEW p \in Cells(frames)
        PROVE  /\ p[1] \in Nat /\ p[2] \in Nat /\ ~(p[1] = row /\ p[2] >= col)
               /\ eof'[1] /\ eof'[2] => p[1] <= row
    <2>1. p[1] \in Nat /\ p[2] \in Nat
      BY <1>4 DEF Cells
    <2>2. PICK n \in 1 .. 2 : CellOf(frames[n], p[1], p[2]) # Blank
      BY <1>4 DEF Cells
    <2>3. ~(p[1] = row /\ p[2] >= col)
      BY <1>2, <2>1, <2>2
    <2>4. (eof'[1] /\ eof'[2]) => eof'[n]
      <3>1. n = 1 \/ n = 2
        OBVIOUS
      <3> QED
        BY <3>1, Zenon
    <2>5. eof'[1] /\ eof'[2] => p[1] <= row
      BY <1>1, <1>3, <2>1, <2>2, <2>4
    <2> QED
      BY <2>1, <2>3, <2>5
  <1>5. \A p \in Cells(frames) : p[1] < row + 1 \/ (p[1] = row + 1 /\ p[2] < 0)
                                 <=> p[1] < row \/ (p[1] = row /\ p[2] < col)
    BY <1>1, <1>4
  <1>6. eof'[1] /\ eof'[2] => \A p \in Cells(frames) : p[1] < row \/ (p[1] = row /\ p[2] < col)
    BY <1>1, <1>4
  <1> QED
    BY <1>5, <1>6 DEF CellsBefore

(* one at a cell that is blank in both pictures, or off the screen, too,   *)
LEMMA CellLeftOut ==
    ASSUME row \in Nat, col \in Nat, <<row, col>> \notin Cells(frames)
    PROVE  CellsBefore(frames, row, col + 1) = CellsBefore(frames, row, col)
  <1>1. ASSUME NEW p \in Cells(frames)
        PROVE  p = <<p[1], p[2]>> /\ p[1] \in Nat /\ p[2] \in Nat
    BY <1>1 DEF Cells
  <1>2. \A p \in Cells(frames) : ~(p[1] = row /\ p[2] = col)
    BY <1>1
  <1>3. \A p \in Cells(frames) : (p[1] = row /\ p[2] < col + 1) <=> (p[1] = row /\ p[2] < col)
    BY <1>1, <1>2
  <1> QED
    BY <1>3 DEF CellsBefore

(* and one at any other cell adds it.                                      *)
LEMMA CellTakenIn ==
    ASSUME row \in Nat, col \in Nat, <<row, col>> \in Cells(frames)
    PROVE  CellsBefore(frames, row, col + 1) = CellsBefore(frames, row, col) \cup {<<row, col>>}
  <1>1. ASSUME NEW p \in Cells(frames)
        PROVE  p = <<p[1], p[2]>> /\ p[1] \in Nat /\ p[2] \in Nat
    BY <1>1 DEF Cells
  <1>2. \A p \in Cells(frames) : (p[1] = row /\ p[2] < col + 1)
                                 <=> (p[1] = row /\ p[2] < col) \/ p = <<row, col>>
    BY <1>1
  <1> QED
    BY <1>2 DEF CellsBefore

(* A cell and its place on the screen.                                     *)
LEMMA CellIs ==
    ASSUME NEW fs, NEW p \in Cells(fs)
    PROVE  /\ p = <<p[1], p[2]>> /\ p[1] \in Nat /\ p[2] \in 0 .. COLS - OFFSET - 1
           /\ PlaceOf(p) \in 1 .. ROWS * COLS - 1
  <1>1. ROWS \in Nat
    BY FishAssumption
  <1>2. p = <<p[1], p[2]>> /\ p[1] \in 0 .. ROWS - 1 /\ p[2] \in 0 .. COLS - OFFSET - 1
    BY DEF Cells
  <1>3. p[1] \in Nat /\ p[1] < ROWS
    BY <1>1, <1>2, SMTT(30)
  <1> QED
    BY <1>2, <1>3, PlaceOnScreen DEF PlaceOf

(* A free structure is given to a cell.                                    *)
LEMMA DrawnMore ==
    ASSUME NEW fs, NEW S \in SUBSET Cells(fs), NEW b, Drawn(b, fs, S),
           NEW p \in Cells(fs), p \notin S, NEW x \in Slots, b[x].location = 0,
           NEW b2, Blinks(fs, b2[x], p), \A s \in Slots : s # x => b2[s] = b[s]
    PROVE  Drawn(b2, fs, S \cup {p})
  <1>1. /\ \A s \in Slots : b[s].location # 0 => \E q \in S : Blinks(fs, b[s], q)
        /\ \A q \in S : \E s \in Slots : Blinks(fs, b[s], q)
        /\ \A s, t \in Slots : b[s].location # 0 /\ b[s].location = b[t].location => s = t
    BY Zenon DEF Drawn
  <1>2. \A q \in Cells(fs) : PlaceOf(q) # 0
    BY CellIs
  <1>3. ASSUME NEW q \in Cells(fs), PlaceOf(q) = PlaceOf(p) PROVE q = p
    <2>1. /\ p = <<p[1], p[2]>> /\ p[1] \in Nat /\ p[2] \in 0 .. COLS - OFFSET - 1
          /\ q = <<q[1], q[2]>> /\ q[1] \in Nat /\ q[2] \in 0 .. COLS - OFFSET - 1
      BY CellIs
    <2>2. p[1] * COLS + p[2] + OFFSET = q[1] * COLS + q[2] + OFFSET
      BY <1>3 DEF PlaceOf
    <2>3. p[1] = q[1] /\ p[2] = q[2]
      BY <2>1, <2>2, PlacesApart, SMTT(30)
    <2> QED
      BY <2>1, <2>3, Zenon
  <1>4. ASSUME NEW s \in Slots, b2[s].location # 0
        PROVE  \E q \in S \cup {p} : Blinks(fs, b2[s], q)
    BY <1>1, <1>4, Zenon
  <1>5. ASSUME NEW q \in S \cup {p} PROVE \E s \in Slots : Blinks(fs, b2[s], q)
    <2>1. CASE q = p
      BY <2>1, Zenon
    <2>2. CASE q \in S
      <3>1. PICK s \in Slots : Blinks(fs, b[s], q)
        BY <1>1, <2>2, ZenonT(30)
      <3>2. b[s].location # 0
        BY <1>2, <2>2, <3>1 DEF Blinks
      <3> QED
        BY <3>1, <3>2, Zenon
    <2> QED
      BY <2>1, <2>2, Zenon
  <1>6. ASSUME NEW s \in Slots, s # x PROVE b2[s].location # b2[x].location
    <2> SUFFICES ASSUME b2[s].location = b2[x].location PROVE FALSE
      BY Zenon
    <2>1. b[s].location = PlaceOf(p) /\ b[s].location # 0
      BY <1>2, <1>6, Zenon DEF Blinks
    <2>2. PICK q \in S : Blinks(fs, b[s], q)
      BY <1>1, <2>1, Zenon
    <2>3. PlaceOf(q) = PlaceOf(p)
      BY <2>1, <2>2, Zenon DEF Blinks
    <2> QED
      BY <1>3, <2>2, <2>3, Zenon
  <1>7. ASSUME NEW s \in Slots, NEW t \in Slots, b2[s].location # 0,
               b2[s].location = b2[t].location
        PROVE  s = t
    <2>1. CASE s = x \/ t = x
      BY <1>6, <1>7, <2>1, ZenonT(30)
    <2>2. CASE s # x /\ t # x
      BY <1>1, <1>7, <2>2
    <2> QED
      BY <2>1, <2>2, Zenon
  <1> QED
    BY <1>4, <1>5, <1>7 DEF Drawn

(* A turn draws its cell.                                                  *)
LEMMA TurnDraws ==
    ASSUME SLOTS >= ROWS * COLS, FishInv, AddCell, Addressable, Narrow,
           Drawn(blink, frames, CellsBefore(frames, row, col))
    PROVE  /\ fpc' = "cell" => Drawn(blink', frames, CellsBefore(frames, row', col'))
           /\ fpc' = "wait1" => Drawn(blink', frames, Cells(frames))
  <1>1. row \in Nat /\ col \in Nat /\ ListInv
    BY DEF FishInv
  <1>2. fpc = "cell"
    BY DEF AddCell
  <1>3. CASE Byte(1) = NEWLINE /\ Byte(2) = NEWLINE
    <2>1. row' = row + 1 /\ col' = 0 /\ blink' = blink
      BY <1>3 DEF AddCell, listVars
    <2>2. fpc' = "wait1" => eof'[1] /\ eof'[2]
      <3>1. /\ fpc' = IF eof'[1] /\ eof'[2] THEN "wait1" ELSE "cell"
            /\ "wait1" # "cell"
        BY <1>3, Zenon DEF AddCell
      <3> QED
        BY <3>1, Zenon
    <2> QED
      BY <1>3, <2>1, <2>2, LineDrawn
  <1>4. CASE ~(Byte(1) = NEWLINE /\ Byte(2) = NEWLINE)
    <2>1. row' = row /\ col' = col + 1 /\ fpc' = "cell"
      BY <1>2, <1>4 DEF AddCell
    <2>2. \A n \in 1 .. 2 : CellOf(frames[n], row, col) = Shown(Byte(n))
      BY TurnOf DEF Turned
    <2>3. CASE Shown(Byte(1)) = Blank /\ Shown(Byte(2)) = Blank
      <3>1. blink' = blink
        BY <1>4, <2>3 DEF AddCell, listVars
      <3>2. <<row, col>> \notin Cells(frames)
        BY <2>2, <2>3 DEF Cells
      <3> QED
        BY <1>1, <2>1, <3>1, <3>2, CellLeftOut
    <2>4. CASE ~(Shown(Byte(1)) = Blank /\ Shown(Byte(2)) = Blank)
      <3>1. PICK n \in 1 .. 2 : Shown(Byte(n)) # Blank
        BY <2>4
      <3>2. /\ Location(row, col) = row * COLS + col + OFFSET
            /\ <<row, col>> \in Inked(frames[n])
        BY <3>1, PlaceKept
      <3>3. col \in 0 .. COLS - OFFSET - 1
        <4>1. col < COLS - OFFSET
          BY <3>2 DEF Narrow
        <4>2. COLS \in Nat /\ OFFSET \in Nat
          BY FishAssumption
        <4> QED
          BY <1>1, <4>1, <4>2
      <3> DEFINE cell == [Free EXCEPT
                              !.on_char = Shown(Byte(1)), !.off_char = Shown(Byte(2)),
                              !.on_length = BLINK, !.off_length = BLINK,
                              !.location = Location(row, col)]
                 new == [cell EXCEPT !.status = 1, !.countdown = cell.on_length, !.next = head]
      <3>4. mp1_ioctl_add(cell)
        BY <1>4, <2>4 DEF AddCell
      <3>5. cell.location = row * COLS + col + OFFSET
        BY <3>2 DEF Free
      <3>6. /\ new.location = row * COLS + col + OFFSET
            /\ new.on_char = Shown(Byte(1)) /\ new.off_char = Shown(Byte(2))
        BY <3>2 DEF Free
      <3>7. \/ cell.location >= ROWS * COLS \/ Malloc = NUL
            \/ blink' = [blink EXCEPT ![Malloc] = new]
        BY <3>4 DEF mp1_ioctl_add
      <3>8. cell.location >= ROWS * COLS => blink' = blink
        BY <3>4 DEF mp1_ioctl_add, listVars
      <3> HIDE DEF cell, new
      <3>9. ROWS \in Nat
        BY FishAssumption
      <3>10. CASE row >= ROWS
        <4>1. cell.location >= ROWS * COLS
          BY <1>1, <3>3, <3>5, <3>10, PlaceOnScreen
        <4>2. <<row, col>> \notin Cells(frames)
          BY <1>1, <3>9, <3>10 DEF Cells
        <4> QED
          BY <1>1, <2>1, <3>8, <4>1, <4>2, CellLeftOut
      <3>11. CASE row < ROWS
        <4>1. PICK l : l = row * COLS + col + OFFSET
          OBVIOUS
        <4>2. l \in 1 .. ROWS * COLS - 1
          BY <1>1, <3>3, <3>11, <4>1, PlaceOnScreen
        <4>3. ~(cell.location >= ROWS * COLS)
          <5>1. ROWS * COLS \in Nat
            BY FishAssumption
          <5> QED
            BY <3>5, <4>1, <4>2, <5>1
        <4>4. <<row, col>> \in Cells(frames)
          <5>1. row \in 0 .. ROWS - 1
            BY <1>1, <3>9, <3>11
          <5>2. CellOf(frames[n], row, col) # Blank
            BY <2>2, <3>1
          <5> QED
            BY <3>3, <5>1, <5>2 DEF Cells
        <4>5. CellsBefore(frames, row, col) \in SUBSET Cells(frames)
              /\ <<row, col>> \notin CellsBefore(frames, row, col)
          BY <1>1 DEF CellsBefore
        <4>6. Malloc \in Slots /\ blink[Malloc].location = 0 /\ Malloc # NUL
          <5>1. Malloc \in Slots /\ blink[Malloc].location = 0
            BY <4>5, SlotLeft
          <5> QED
            BY <5>1, SMTT(30) DEF Slots, NUL
        <4>7. PICK x \in Slots : x = Malloc
          BY <4>6
        <4>8. blink' = [blink EXCEPT ![x] = new]
          BY <3>7, <4>3, <4>6, <4>7
        <4>9. blink'[x] = new /\ \A s \in Slots : s # x => blink'[s] = blink[s]
          BY <1>1, <4>7, <4>8, ZenonT(30) DEF ListInv
        <4>10. Blinks(frames, blink'[x], <<row, col>>)
          BY <2>2, <3>6, <4>9 DEF Blinks, PlaceOf
        <4>11. Drawn(blink', frames, CellsBefore(frames, row, col) \cup {<<row, col>>})
          BY <4>4, <4>5, <4>6, <4>7, <4>9, <4>10, DrawnMore, Zenon
        <4> QED
          BY <1>1, <2>1, <4>4, <4>11, CellTakenIn
      <3> QED
        BY <1>1, <3>9, <3>10, <3>11
    <2> QED
      BY <2>3, <2>4
  <1> QED
    BY <1>3, <1>4

(* When add_frames is done, the cells of the screen with a sign in one of  *)
(* the pictures blink between their two signs, and no other place does:    *)
(* for every pair of files whose signs have a location and stay left of    *)
(* the edge, and a blink_array with a structure for every place.           *)
THEOREM FishDraws ==
    ASSUME SLOTS >= ROWS * COLS
    PROVE  FishSpec => []FramesDrawn
  <1>1. FishInit => DrawInv
    BY DEF FishInit, DrawInv
  <1>2. FishInv /\ DrawInv /\ [FishNext]_fVars => DrawInv'
    <2> SUFFICES ASSUME FishInv, DrawInv, [FishNext]_fVars, Addressable', Narrow' PROVE DrawInv'
      BY DEF DrawInv
    <2>1. CASE Start
      <3>1. /\ row = 0 /\ col = 0 /\ blink = [s \in Slots |-> Free]
        BY <2>1 DEF Start, FishInv
      <3>2. fpc' = "cell" /\ row' = 0 /\ col' = 0 /\ blink' = [s \in Slots |-> Free]
        BY <2>1, <3>1 DEF Start, listVars, readVars
      <3>3. CellsBefore(frames', 0, 0) = {}
        <4>1. \A p \in Cells(frames') : p[1] \in Nat /\ p[2] \in 0 .. COLS - OFFSET - 1
          BY CellIs
        <4>2. COLS \in Nat /\ OFFSET \in Nat
          BY FishAssumption
        <4> QED
          BY <4>1, <4>2 DEF CellsBefore
      <3>4. Free.location = 0
        BY DEF Free
      <3>5. Drawn(blink', frames', {})
        BY <3>2, <3>4 DEF Drawn
      <3> QED
        BY <3>2, <3>3, <3>5 DEF DrawInv
    <2>2. CASE AddCell
      <3>1. frames' = frames /\ fpc = "cell"
        BY <2>2 DEF AddCell
      <3>2. Addressable /\ Narrow
        BY <3>1 DEF Addressable, Narrow
      <3>3. Drawn(blink, frames, CellsBefore(frames, row, col))
        BY <3>1, <3>2 DEF DrawInv
      <3> QED
        BY <2>2, <3>1, <3>2, <3>3, TurnDraws DEF DrawInv
    <2>3. CASE Tick
      <3>1. fpc' = fpc /\ fpc # "cell" /\ ticks' = ticks - 1
        BY <2>3 DEF Tick
      <3>2. ticks' # WAIT
        <4>1. ticks \in 0 .. WAIT /\ WAIT \in Nat
          BY FishAssumption DEF FishInv
        <4> QED
          BY <3>1, <4>1
      <3> QED
        BY <3>1, <3>2 DEF DrawInv
    <2>4. CASE AddPlace \/ Sync \/ RemovePlace
      BY <2>4 DEF AddPlace, Sync, RemovePlace, DrawInv
    <2>5. CASE UNCHANGED fVars
      <3>1. UNCHANGED <<frames, fpc, ticks, blink, row, col>>
        BY <2>5 DEF fVars, listVars, readVars
      <3>2. Addressable /\ Narrow
        BY <3>1, Zenon DEF Addressable, Narrow
      <3> QED
        BY <3>1, <3>2 DEF DrawInv
    <2> QED
      BY <2>1, <2>2, <2>3, <2>4, <2>5 DEF FishNext
  <1>3. DrawInv => FramesDrawn
    <2> SUFFICES ASSUME DrawInv, fpc = "wait1", ticks = WAIT, Addressable, Narrow
                 PROVE  FramesDrawn
      BY DEF FramesDrawn
    <2> DEFINE used == {r \in Slots : blink[r].location # 0}
               in_use == {<<blink[s].location, blink[s].on_char, blink[s].off_char>> : s \in used}
               signs == {<<rk[1] * COLS + rk[2] + OFFSET, CellOf(frames[1], rk[1], rk[2]),
                           CellOf(frames[2], rk[1], rk[2])>> : rk \in Cells(frames)}
    <2>1. Drawn(blink, frames, Cells(frames))
      BY Zenon DEF DrawInv
    <2>2. ASSUME NEW s \in used
          PROVE  <<blink[s].location, blink[s].on_char, blink[s].off_char>> \in signs
      <3>1. PICK p \in Cells(frames) : Blinks(frames, blink[s], p)
        BY <2>1, Zenon DEF Drawn
      <3> QED
        BY <3>1 DEF Blinks, PlaceOf
    <2>3. ASSUME NEW p \in Cells(frames)
          PROVE  <<p[1] * COLS + p[2] + OFFSET, CellOf(frames[1], p[1], p[2]),
                   CellOf(frames[2], p[1], p[2])>> \in in_use
      <3>1. PICK s \in Slots : Blinks(frames, blink[s], p)
        BY <2>1 DEF Drawn
      <3>2. PlaceOf(p) # 0
        BY CellIs
      <3>3. s \in used
        BY <3>1, <3>2, ZenonT(30) DEF Blinks
      <3> HIDE DEF used
      <3> QED
        BY <3>1, <3>3, Zenon DEF Blinks, PlaceOf
    <2>4. in_use = signs
      <3> HIDE DEF used
      <3> QED
        BY <2>2, <2>3
    <2> QED
      BY <2>4, Zenon DEF FramesDrawn, Cells
  <1> QED
    BY <1>1, <1>2, <1>3, FishInvInit, FishInvStep, PTL DEF FishSpec
=============================================================================
