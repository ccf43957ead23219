-------------------------- MODULE Terminal_proofs --------------------------
(***************************************************************************)
(* The terminals, for every number of them, every size of the buffer and   *)
(* the screen, and every set of letters.                                   *)
(***************************************************************************)
EXTENDS Terminal, FiniteSetTheorems, TLAPS

Typed == Letters \cup {Space}
Places == [x : Int, y : Int]
Programs == [pc : Labels, nbytes : Nat, i : Nat, count : Nat, drawn : Nat]

TypeInv ==
    /\ term \in Terms
    /\ key_buffer \in [Terms -> [Cols -> Chars]]
    /\ key_index \in [Terms -> Nat]
    /\ clear_offset \in [Terms -> Nat]
    /\ enter_down \in BOOLEAN /\ enter_held \in BOOLEAN
    /\ cursor \in Places
    /\ last_screen \in [Terms -> Places]
    /\ store = [t \in Terms |-> store[t]]
    /\ prog \in [Terms -> Programs]
    /\ got = [t \in Terms |-> got[t]]
    /\ line \in [Terms -> Seq(Typed)]
    /\ entered \in [Terms -> Seq(Typed)]

-----------------------------------------------------------------------------
(* The number of characters putc draws is a number.                        *)
LEMMA ShownNat ==
    ASSUME NEW i \in Nat, NEW n \in Nat
    PROVE  Shown(i, n) \in Nat
  <1> DEFINE S == {k \in 0 .. n - 1 : Room(i + k)}
  <1>1. IsFiniteSet(0 .. n - 1)
    BY FS_Interval
  <1>2. IsFiniteSet(S)
    BY <1>1, FS_Subset
  <1>3. Cardinality(S) \in Nat
    BY <1>2, FS_CardinalityType
  <1> QED
    BY <1>3 DEF Shown

(* While the buffer has room, one character is drawn.                      *)
LEMMA ShownOne ==
    ASSUME NEW i \in 0 .. MAX_BUFF_LENGTH - 1
    PROVE  Shown(i, 1) = 1
  <1>1. MAX_BUFF_LENGTH \in Nat
    BY TermAssumption
  <1>2. {k \in 0 .. 1 - 1 : Room(i + k)} = {0}
    BY <1>1 DEF Room
  <1> QED
    BY <1>2, FS_Singleton, Zenon DEF Shown

(* The functions on the cursor yield places.                               *)
LEMMA CursorTypes ==
    ASSUME NEW c \in Places, NEW n \in Nat
    PROVE  /\ Echo(c, n) \in Places /\ scroll_handle(c) \in Places
           /\ wrap_around(c) \in Places /\ NewLine(c) \in Places
           /\ print_backspace(c) \in Places
  <1> USE TermAssumption DEF Places
  <1>1. Echo(c, n) \in Places
    <2>1. (c.x + n) % NUM_COLS \in Int
      OBVIOUS
    <2>2. Rem(c.y, NUM_ROWS) \in Int
      BY DEF Rem
    <2> QED
      BY <2>1, <2>2 DEF Echo
  <1>2. scroll_handle(c) \in Places /\ wrap_around(c) \in Places
    BY DEF scroll_handle, wrap_around
  <1>3. NewLine(c) \in Places
    BY DEF NewLine, scroll_handle
  <1>4. print_backspace(c) \in Places
    BY DEF print_backspace
  <1> QED
    BY <1>1, <1>2, <1>3, <1>4

(* Storing characters keeps the buffer a buffer.                           *)
LEMMA StoredType ==
    ASSUME TypeInv, NEW t \in Terms, NEW i \in Nat, NEW n \in Nat, NEW c \in Chars
    PROVE  Stored(t, i, n, c) \in [Terms -> [Cols -> Chars]]
  BY DEF Stored, TypeInv

(* What typing does to the types, the cursor aside.                        *)
LEMMA TypeKeeps ==
    ASSUME TypeInv, NEW n \in Nat, NEW c \in Typed, Type(n, c), cursor' \in Places
    PROVE  TypeInv'
  <1> DEFINE i == key_index[term]
  <1>1. term \in Terms /\ i \in Nat /\ c \in Chars /\ WORD \in Nat \ {0}
    BY TermAssumption DEF TypeInv, Typed, Chars, WORD
  <1>2. key_buffer' \in [Terms -> [Cols -> Chars]]
    BY <1>1, StoredType DEF Type
  <1>3. key_index' \in [Terms -> Nat]
    <2>1. (i + n) % WORD \in Nat
      BY <1>1
    <2> QED
      BY <2>1 DEF Type, TypeInv
  <1>4. line' \in [Terms -> Seq(Typed)]
    <2>1. [k \in 1 .. n |-> c] \in Seq(Typed)
      OBVIOUS
    <2>2. line[term] \o [k \in 1 .. n |-> c] \in Seq(Typed)
      BY <1>1, <2>1 DEF TypeInv
    <2> QED
      BY <2>2 DEF Type, TypeInv
  <1> QED
    BY <1>2, <1>3, <1>4 DEF Type, TypeInv

(* So does clearing a row of it.                                           *)
LEMMA ClearedType ==
    ASSUME TypeInv, NEW t \in Terms
    PROVE  Cleared(t) \in [Terms -> [Cols -> Chars]]
  <1>1. [i \in Cols |-> NUL] \in [Cols -> Chars]
    BY DEF Chars
  <1> QED
    BY <1>1 DEF Cleared, TypeInv

(* Going to a label keeps prog a function to programs.                     *)
LEMMA GotoType ==
    ASSUME TypeInv, NEW label \in Labels, Goto(label)
    PROVE  prog' \in [Terms -> Programs]
  <1>1. Idle \in Programs
    BY DEF Idle, Programs, Labels
  <1>2. [prog[term] EXCEPT !.pc = label] \in Programs
    BY Zenon DEF TypeInv, Programs
  <1> QED
    BY <1>1, <1>2 DEF Goto, TypeInv

(* The keys keep the types.                                                *)
LEMMA KeysTyped == TypeInv /\ Keys => TypeInv'
  <1> SUFFICES ASSUME TypeInv, Keys PROVE TypeInv'
    OBVIOUS
  <1>0. /\ term \in Terms /\ key_index[term] \in Nat /\ line[term] \in Seq(Typed)
        /\ {NUL, NL, Space} \subseteq Chars /\ cursor \in Places /\ TAB_WIDTH \in Nat
        /\ Space \in Typed /\ Letters \subseteq Typed
        /\ WORD \in Nat \ {0} /\ TEMP \in Nat \ {0} /\ SHELL_OFFSET \in Int
    BY TermAssumption, SMTT(30) DEF TypeInv, Chars, Typed, WORD, TEMP
  <1>9. \A n \in Nat : Echo(cursor, Shown(key_index[term], n)) \in Places
    <2> TAKE n \in Nat
    <2>1. Shown(key_index[term], n) \in Nat
      BY <1>0, ShownNat, Zenon
    <2> QED
      BY <1>0, <2>1, CursorTypes, Zenon
  <1>1. ASSUME NEW n \in Nat, Spaces(n) PROVE TypeInv'
    <2>1. cursor' \in Places
      BY <1>1, <1>9 DEF Spaces
    <2> QED
      BY <1>0, <1>1, <2>1, TypeKeeps DEF Spaces
  <1>2. ASSUME NEW c \in Letters, LetterWraps(c) PROVE TypeInv'
    <2> DEFINE d == Echo(cursor, Shown(key_index[term], 1))
    <2>1. d \in Places
      BY <1>9
    <2>2. [d EXCEPT !.y = cursor.y + 1] \in Places
      BY <1>0, <2>1 DEF Places
    <2>3. scroll_handle([d EXCEPT !.y = cursor.y + 1]) \in Places /\ wrap_around(d) \in Places
      BY <2>1, <2>2, CursorTypes
    <2>4. cursor' \in Places
      BY <1>2, <2>3 DEF LetterWraps
    <2> QED
      BY <1>0, <1>2, <2>4, TypeKeeps, Zenon DEF LetterWraps
  <1>3. ASSUME NEW c \in Letters, Letter(c) PROVE TypeInv'
    <2>1. cursor' \in Places
      BY <1>3, <1>9 DEF Letter
    <2> QED
      BY <1>0, <1>3, <2>1, TypeKeeps DEF Letter
  <1>4. CASE Backspace
    <2>1. cursor' \in Places
      BY <1>0, <1>4, CursorTypes DEF Backspace
    <2>2. key_buffer' \in [Terms -> [Cols -> Chars]]
      BY <1>0, <1>4, StoredType DEF Backspace
    <2>3. (key_index[term] - 1) % WORD \in Nat
      BY <1>0
    <2>4. (IF line[term] = <<>> THEN <<>> ELSE SubSeq(line[term], 1, Len(line[term]) - 1)) \in Seq(Typed)
      BY <1>0
    <2> QED
      BY <1>4, <2>1, <2>2, <2>3, <2>4 DEF Backspace, TypeInv
  <1>5. CASE Enter
    <2>1. cursor' \in Places
      BY <1>0, <1>5, CursorTypes DEF Enter
    <2>2. key_buffer' \in [Terms -> [Cols -> Chars]]
      BY <1>0, <1>5, StoredType DEF Enter
    <2>3. line' \in [Terms -> Seq(Typed)] /\ entered' \in [Terms -> Seq(Typed)]
      BY <1>5 DEF Enter, TypeInv
    <2> QED
      BY <1>5, <2>1, <2>2, <2>3 DEF Enter, TypeInv
  <1>6. CASE EnterOff
    BY <1>6, Zenon DEF EnterOff, TypeInv, bufVars, scrVars, histVars
  <1>7. CASE CtrlL
    <2>1. cursor' \in Places
      BY <1>0, <1>7 DEF CtrlL, Places
    <2>2. key_buffer' \in [Terms -> [Cols -> Chars]]
      BY <1>0, <1>7, ClearedType DEF CtrlL, TypeInv
    <2>3. clear_offset' \in [Terms -> Nat]
      <3>1. key_index[term] % TEMP \in Nat
        BY <1>0
      <3> QED
        BY <1>7, <3>1, Zenon DEF CtrlL, TypeInv
    <2> QED
      BY <1>7, <2>1, <2>2, <2>3 DEF CtrlL, TypeInv, histVars
  <1>8. ASSUME NEW t \in Terms, Switch(t) PROVE TypeInv'
    <2>1. last_screen' \in [Terms -> Places]
      BY <1>0, <1>8 DEF Switch, TypeInv
    <2>2. store' = [u \in Terms |-> store'[u]]
      BY <1>8, Zenon DEF Switch, Saved, TypeInv
    <2> QED
      BY <1>8, <2>1, <2>2 DEF Switch, TypeInv, bufVars, histVars
  <1> QED
    BY <1>0, <1>1, <1>2, <1>3, <1>4, <1>5, <1>6, <1>7, <1>8 DEF Keys

(* So do the steps of terminal_read.                                       *)
LEMMA ReaderTyped == TypeInv /\ Reader => TypeInv'
  <1> SUFFICES ASSUME TypeInv, Reader PROVE TypeInv'
    OBVIOUS
  <1> USE DEF bufVars, scrVars, histVars
  <1>1. ASSUME NEW n \in Requests, Read(n) PROVE TypeInv'
    <2>1. [Idle EXCEPT !.pc = "wait", !.nbytes = n] \in Programs
      BY TermAssumption, Zenon DEF Idle, Programs, Labels
    <2> QED
      BY <1>1, <2>1, Zenon DEF Read, TypeInv
  <1>2. CASE Wake
    <2>1. prog' \in [Terms -> Programs]
      BY <1>2, GotoType DEF Wake, Labels
    <2>2. entered' \in [Terms -> Seq(Typed)]
      BY <1>2 DEF Wake, TypeInv
    <2> QED
      BY <1>2, <2>1, <2>2, Zenon DEF Wake, TypeInv
  <1>3. CASE Copy
    <2>1. prog' \in [Terms -> Programs]
      BY <1>3, GotoType DEF Copy, Labels
    <2>2. got' = [t \in Terms |-> got'[t]]
      BY <1>3, Zenon DEF Copy, TypeInv
    <2> QED
      BY <1>3, <2>1, <2>2 DEF Copy, TypeInv
  <1>4. CASE Clear
    <2>1. prog' \in [Terms -> Programs]
      BY <1>4, GotoType DEF Clear, Labels
    <2>2. got' = [t \in Terms |-> got'[t]]
      BY <1>4, Zenon DEF Clear, TypeInv
    <2>4. entered' \in [Terms -> Seq(Typed)]
      BY <1>4 DEF Clear, TypeInv
    <2>3. key_buffer' \in [Terms -> [Cols -> Chars]]
      BY <1>4, ClearedType DEF Clear, TypeInv
    <2> QED
      BY <1>4, <2>1, <2>2, <2>3, <2>4 DEF Clear, TypeInv
  <1> QED
    BY <1>1, <1>2, <1>3, <1>4 DEF Reader

(* What Done makes of a program.                                           *)
Dealt(q, label, a, b) ==
    [q EXCEPT !.pc = label, !.i = q.i + 1, !.count = q.count + a, !.drawn = q.drawn + b]

(* Its fields.                                                             *)
LEMMA DealtFields ==
    ASSUME NEW q \in Programs, NEW label \in Labels, NEW a \in Nat, NEW b \in Nat
    PROVE  /\ Dealt(q, label, a, b) \in Programs
           /\ Dealt(q, label, a, b).pc = label /\ Dealt(q, label, a, b).i = q.i + 1
           /\ Dealt(q, label, a, b).count = q.count + a
           /\ Dealt(q, label, a, b).drawn = q.drawn + b
           /\ Dealt(q, label, a, b).nbytes = q.nbytes
  <1>1. q.i + 1 \in Nat /\ q.count + a \in Nat /\ q.drawn + b \in Nat
    BY DEF Programs
  <1>2. ASSUME NEW x \in Nat, NEW y \in Nat, NEW z \in Nat
        PROVE  [q EXCEPT !.pc = label, !.i = x, !.count = y, !.drawn = z] \in Programs
    BY Zenon DEF Programs
  <1>3. Dealt(q, label, a, b) \in Programs
    BY <1>1, <1>2, Zenon DEF Dealt
  <1>4. /\ Dealt(q, label, a, b).pc = label /\ Dealt(q, label, a, b).i = q.i + 1
        /\ Dealt(q, label, a, b).count = q.count + a
        /\ Dealt(q, label, a, b).drawn = q.drawn + b
        /\ Dealt(q, label, a, b).nbytes = q.nbytes
    BY DEF Programs, Dealt
  <1> QED
    BY <1>3, <1>4

(* So do the steps of terminal_write.                                      *)
LEMMA WriterTyped == TypeInv /\ Writer => TypeInv'
  <1> SUFFICES ASSUME TypeInv, Writer PROVE TypeInv'
    OBVIOUS
  <1> USE DEF bufVars, scrVars, histVars
  <1>0. cursor \in Places /\ term \in Terms /\ key_index[term] \in Nat /\ prog[term] \in Programs
    BY DEF TypeInv
  <1>1. ASSUME NEW n \in Requests, Write(n) PROVE TypeInv'
    <2>1. [Idle EXCEPT !.pc = "w_top", !.nbytes = n] \in Programs
      BY TermAssumption, Zenon DEF Idle, Programs, Labels
    <2> QED
      BY <1>1, <2>1 DEF Write, TypeInv
  <1>2. CASE WriteTop
    <2>1. PICK label \in Labels : Goto(label)
      BY <1>2 DEF WriteTop, Labels
    <2>2. prog' \in [Terms -> Programs]
      BY <2>1, GotoType
    <2> QED
      BY <1>2, <2>2 DEF WriteTop, TypeInv
  <1>3. ASSUME NEW from \in Labels, NEW to \in Labels, NEW c \in Places, WriteMove(from, to, c)
        PROVE  TypeInv'
    <2>1. prog' \in [Terms -> Programs]
      BY <1>3, GotoType DEF WriteMove
    <2> QED
      BY <1>3, <2>1 DEF WriteMove, TypeInv
  <1>4. CASE WriteDown \/ WriteUp \/ WriteWrap \/ WriteNewLine
    <2>1. /\ [cursor EXCEPT !.y = @ + 1] \in Places /\ scroll_handle(cursor) \in Places
          /\ wrap_around(cursor) \in Places
      BY <1>0 DEF Places, scroll_handle, wrap_around
    <2>2. {"w_down", "w_up", "w_put", "w_wrap", "w_nl", "w_top"} \subseteq Labels
      BY DEF Labels
    <2> QED
      BY <1>0, <1>3, <1>4, <2>1, <2>2 DEF WriteDown, WriteUp, WriteWrap, WriteNewLine
  <1>5. ASSUME NEW c \in Chars, WritePut(c) PROVE TypeInv'
    <2> DEFINE n == Shown(key_index[term], 1)
    <2>1. n \in Nat
      BY <1>0, ShownNat, Zenon
    <2>2. Echo(cursor, n) \in Places /\ [x |-> 0, y |-> cursor.y + 1] \in Places
      BY <1>0, <2>1, CursorTypes DEF Places
    <2> HIDE DEF n
    <2>3. cursor' \in Places
      BY <1>0, <1>5, <2>2 DEF WritePut, n
    <2>4. ASSUME NEW label \in Labels, NEW a \in Nat, NEW b \in Nat, Done(label, a, b)
          PROVE  prog' \in [Terms -> Programs]
      <3>1. Dealt(prog[term], label, a, b) \in Programs
        BY <1>0, DealtFields, Zenon
      <3> QED
        BY <2>4, <3>1 DEF Done, Dealt, TypeInv
    <2>5. prog' \in [Terms -> Programs]
      <3>1. Done("w_top", 0, 0) \/ Done("w_nl", 1, 1) \/ Done("w_top", 1, n)
        BY <1>5 DEF WritePut, n
      <3>2. "w_top" \in Labels /\ "w_nl" \in Labels
        BY DEF Labels
      <3> QED
        BY <2>1, <2>4, <3>1, <3>2
    <2> QED
      BY <1>5, <2>3, <2>5 DEF WritePut, TypeInv
  <1> QED
    BY <1>1, <1>2, <1>4, <1>5 DEF Writer

(* The types hold from the start.                                          *)
LEMMA TypesInit == Init => TypeInv
  <1> SUFFICES ASSUME Init PROVE TypeInv
    OBVIOUS
  <1>1. 0 \in Terms
    BY TermAssumption DEF Terms
  <1>2. Home \in Places /\ Idle \in Programs /\ NUL \in Chars
    BY DEF Home, Places, Idle, Programs, Labels, Chars
  <1>3. line \in [Terms -> Seq(Typed)] /\ entered \in [Terms -> Seq(Typed)]
    BY DEF Init
  <1> QED
    BY <1>1, <1>2, <1>3 DEF Init, TypeInv

(* Every step keeps them.                                                  *)
LEMMA TypesStep == TypeInv /\ [Next]_vars => TypeInv'
  <1>1. TypeInv /\ UNCHANGED vars => TypeInv'
    BY DEF TypeInv, vars, bufVars, scrVars, histVars
  <1> QED
    BY <1>1, KeysTyped, ReaderTyped, WriterTyped DEF Next

-----------------------------------------------------------------------------
(* No key comes from where Enter has ended the wait up to where            *)
(* terminal_read returns, none while Enter is down, and lines are shorter  *)
(* than the buffer.                                                        *)
EditQuiet ==
    /\ KeyPoints \cap {"woken", "copy", "clear"} = {}
    /\ ~Overlap
    /\ LINE_LIMIT < MAX_BUFF_LENGTH

(* A row of key_buffer begins with a line.                                 *)
Holds(row, l) == \A i \in 1 .. Len(l) : row[i - 1] = l[i]

(* The line in it has been ended.                                          *)
Ended(row, l) == Len(l) < MAX_BUFF_LENGTH /\ Holds(row, l) /\ row[Len(l)] = NL

(* The line being typed on a terminal.                                     *)
LineOK(index, offset, row, l) ==
    /\ index = Len(l) /\ Len(l) <= LINE_LIMIT
    /\ offset <= index
    /\ Holds(row, l)

LinesOK == \A t \in Terms : LineOK(key_index[t], clear_offset[t], key_buffer[t], line[t])

(* The label of each program, and what it says of the line it reads.       *)
ReadOK(pc, down, row, l, e, g) ==
    /\ (pc = "wait" /\ down) \/ pc = "copy" => l = <<>> /\ Ended(row, e)
    /\ pc = "clear" => l = <<>> /\ g = Promised(e)

ReadsOK ==
    /\ enter_down => enter_held
    /\ \A t \in Terms : prog[t].pc \in {"copy", "clear"} => t = term
    /\ ReadOK(prog[term].pc, enter_down, key_buffer[term], line[term], entered[term], got[term])

EditInv == LinesOK /\ ReadsOK

(* An index into the buffer stands for its own row.                        *)
LEMMA CellInRow ==
    ASSUME NEW t \in Terms, NEW i \in Nat, i < MAX_BUFF_LENGTH
    PROVE  Cell(t, i % TEMP) = <<t, i>>
  <1>1. MAX_BUFF_LENGTH \in Nat \ {0} /\ t \in Int
    BY TermAssumption DEF Terms
  <1>2. i % TEMP = i
    BY <1>1 DEF TEMP
  <1>3. i % MAX_BUFF_LENGTH = i /\ i \div MAX_BUFF_LENGTH = 0
    BY <1>1
  <1> QED
    BY <1>1, <1>2, <1>3 DEF Cell

(* No index within the buffer is reduced.                                  *)
LEMMA SmallIndex ==
    ASSUME NEW i \in Nat
    PROVE  (i < WORD => i % WORD = i) /\ (i < TEMP => i % TEMP = i)
  BY TermAssumption DEF WORD, TEMP

(* As long as the characters fit, storing them changes these places only.  *)
LEMMA StoredIs ==
    ASSUME TypeInv, NEW t \in Terms, NEW i \in Nat, NEW n \in Nat, NEW c,
           i + n <= MAX_BUFF_LENGTH
    PROVE  /\ \A j \in Cols : Stored(t, i, n, c)[t][j] =
                   IF j \in i .. i + n - 1 THEN c ELSE key_buffer[t][j]
           /\ \A u \in Terms \ {t} : Stored(t, i, n, c)[u] = key_buffer[u]
  <1> SUFFICES ASSUME NEW u \in Terms
               PROVE  /\ \A j \in Cols : Stored(t, i, n, c)[u][j] =
                             IF u = t /\ j \in i .. i + n - 1 THEN c ELSE key_buffer[u][j]
                      /\ u # t => Stored(t, i, n, c)[u] = key_buffer[u]
    OBVIOUS
  <1>a. ASSUME NEW j \in Cols
        PROVE  Stored(t, i, n, c)[u][j] =
                 IF u = t /\ j \in i .. i + n - 1 THEN c ELSE key_buffer[u][j]
    <2>1. MAX_BUFF_LENGTH \in Nat \ {0} /\ j \in Nat
      BY TermAssumption DEF Cols
    <2>2. \A k \in 0 .. n - 1 : Cell(t, (i + k) % TEMP) = <<t, i + k>>
      <3> TAKE k \in 0 .. n - 1
      <3>1. i + k \in Nat /\ i + k < MAX_BUFF_LENGTH
        BY <2>1
      <3> QED
        BY <3>1, CellInRow
    <2>3. (\E k \in 0 .. n - 1 : Cell(t, (i + k) % TEMP) = <<u, j>>)
            <=> u = t /\ j \in i .. i + n - 1
      <3>1. ASSUME u = t, j \in i .. i + n - 1
            PROVE  \E k \in 0 .. n - 1 : Cell(t, (i + k) % TEMP) = <<u, j>>
        <4>1. j - i \in 0 .. n - 1 /\ i + (j - i) = j
          BY <2>1, <3>1
        <4> QED
          BY <2>2, <3>1, <4>1, Zenon
      <3>2. ASSUME NEW k \in 0 .. n - 1, Cell(t, (i + k) % TEMP) = <<u, j>>
            PROVE  u = t /\ j \in i .. i + n - 1
        <4>1. <<u, j>> = <<t, i + k>>
          BY <2>2, <3>2
        <4>2. u = t /\ j = i + k
          BY <4>1
        <4> QED
          BY <4>2
      <3> QED
        BY <3>1, <3>2
    <2> QED
      BY <2>3 DEF Stored
  <1>b. Stored(t, i, n, c)[u] \in [Cols -> Chars \cup {c}] /\ key_buffer[u] \in [Cols -> Chars \cup {c}]
    BY DEF Stored, TypeInv
  <1> HIDE DEF Stored
  <1> QED
    BY <1>a, <1>b

(* What a step does to the lines of the other terminals: nothing.          *)
OthersKept ==
    \A t \in Terms \ {term} :
        /\ key_buffer'[t] = key_buffer[t] /\ key_index'[t] = key_index[t]
        /\ clear_offset'[t] = clear_offset[t] /\ line'[t] = line[t]

(* The line of the displayed terminal after a step.                        *)
OwnLine == LineOK(key_index'[term], clear_offset'[term], key_buffer'[term], line'[term])

(* If the lines are as they should be, so are their parts.                 *)
LEMMA OwnLineFacts ==
    ASSUME TypeInv, LinesOK
    PROVE  /\ term \in Terms /\ key_index[term] \in Nat /\ line[term] \in Seq(Typed)
           /\ key_index[term] = Len(line[term]) /\ Len(line[term]) \in 0 .. LINE_LIMIT
           /\ clear_offset[term] \in Nat /\ clear_offset[term] <= key_index[term]
           /\ Holds(key_buffer[term], line[term])
  BY DEF TypeInv, LinesOK, LineOK

(* Typing within the limit extends the line and its row alike.             *)
LEMMA TypeExtends ==
    ASSUME TypeInv, LinesOK, EditQuiet, NEW n \in Nat, NEW c \in Typed, Type(n, c),
           Len(line[term]) + n <= LINE_LIMIT
    PROVE  OthersKept /\ OwnLine
  <1> DEFINE i == key_index[term]
             l == line[term]
             m == l \o [k \in 1 .. n |-> c]
             row == Stored(term, i, n, c)[term]
  <1>0. /\ MAX_BUFF_LENGTH \in Nat \ {0} /\ LINE_LIMIT \in Nat
        /\ LINE_LIMIT < MAX_BUFF_LENGTH /\ WORD = 4 * MAX_BUFF_LENGTH
    BY TermAssumption DEF EditQuiet, WORD
  <1>1. /\ term \in Terms /\ i \in Nat /\ l \in Seq(Typed) /\ i = Len(l)
        /\ clear_offset[term] \in Nat /\ clear_offset[term] <= i /\ Holds(key_buffer[term], l)
    BY OwnLineFacts
  <1>2. Len(m) = i + n /\ \A k \in 1 .. i + n : m[k] = IF k <= i THEN l[k] ELSE c
    <2>1. [k \in 1 .. n |-> c] \in Seq(Typed) /\ Len([k \in 1 .. n |-> c]) = n
      OBVIOUS
    <2> HIDE DEF i, l
    <2> QED
      BY <1>1, <2>1
  <1>3. i + n <= MAX_BUFF_LENGTH /\ i + n <= LINE_LIMIT
    BY <1>0, <1>1
  <1>4. (i + n) % WORD = i + n
    <2>1. i + n \in Nat /\ i + n < WORD
      BY <1>0, <1>1, <1>3
    <2> QED
      BY <2>1, SmallIndex
  <1>5. /\ \A j \in Cols : row[j] = IF j \in i .. i + n - 1 THEN c ELSE key_buffer[term][j]
        /\ \A u \in Terms \ {term} : Stored(term, i, n, c)[u] = key_buffer[u]
    BY <1>1, <1>3, StoredIs
  <1>6. Holds(row, m)
    <2> HIDE DEF i, l, m, row
    <2> SUFFICES ASSUME NEW k \in 1 .. i + n PROVE row[k - 1] = m[k]
      BY <1>2 DEF Holds
    <2>1. k - 1 \in Cols
      BY <1>0, <1>1, <1>3 DEF Cols
    <2>2. CASE k <= i
      BY <1>1, <1>2, <1>5, <2>1, <2>2 DEF Holds, l
    <2>3. CASE k > i
      BY <1>1, <1>2, <1>5, <2>1, <2>3
    <2> QED
      BY <1>1, <2>2, <2>3
  <1>7. /\ key_buffer' = Stored(term, i, n, c) /\ key_index'[term] = i + n
        /\ line'[term] = m /\ clear_offset' = clear_offset
        /\ \A t \in Terms \ {term} : key_index'[t] = key_index[t] /\ line'[t] = line[t]
    BY <1>1, <1>4 DEF Type, TypeInv
  <1>8. OthersKept
    BY <1>5, <1>7 DEF OthersKept
  <1>9. OwnLine
    <2> HIDE DEF i, l, m
    <2>1. clear_offset[term] <= i + n
      BY <1>1
    <2> QED
      BY <1>2, <1>3, <1>6, <1>7, <2>1 DEF OwnLine, LineOK
  <1> QED
    BY <1>8, <1>9

(* When a key is handled no Enter is down and no terminal_read is on its   *)
(* way out.                                                                *)
LEMMA KeyFinds ==
    ASSUME TypeInv, ReadsOK, EditQuiet, KeyPress
    PROVE  /\ ~enter_held /\ ~enter_down
           /\ \A t \in Terms : prog[t].pc \notin {"copy", "clear"}
  <1>1. ~enter_held /\ ~enter_down
    BY DEF KeyPress, EditQuiet, ReadsOK
  <1>2. prog[term].pc \notin {"copy", "clear"}
    BY <1>1 DEF KeyPress, PointOf, EditQuiet
  <1> QED
    BY <1>1, <1>2 DEF ReadsOK

(* A key that is not Enter leaves it so.                                   *)
LEMMA KeyLeaves ==
    ASSUME TypeInv, ReadsOK, EditQuiet, KeyPress, term' \in Terms,
           UNCHANGED <<enter_down, enter_held, prog>>
    PROVE  ReadsOK'
  <1>1. ~enter_down /\ \A t \in Terms : prog[t].pc \notin {"copy", "clear"}
    BY KeyFinds
  <1> QED
    BY <1>1 DEF ReadsOK, ReadOK

(* The keys keep the line of each terminal in its row, and disturb no      *)
(* other terminal's.                                                       *)
LEMMA KeysEdit ==
    ASSUME TypeInv, EditInv, EditQuiet, Keys
    PROVE  /\ EditInv' /\ OthersKept
           /\ term' # term => UNCHANGED bufVars
  <1> USE DEF EditInv
  <1>0. /\ MAX_BUFF_LENGTH \in Nat \ {0} /\ LINE_LIMIT \in Nat
        /\ LINE_LIMIT < MAX_BUFF_LENGTH
        /\ WORD = 4 * MAX_BUFF_LENGTH /\ TEMP = 2 * MAX_BUFF_LENGTH
    BY TermAssumption DEF EditQuiet, WORD, TEMP
  <1>1. /\ term \in Terms /\ key_index[term] \in Nat /\ line[term] \in Seq(Typed)
        /\ key_index[term] = Len(line[term]) /\ Len(line[term]) \in 0 .. LINE_LIMIT
        /\ clear_offset[term] \in Nat /\ clear_offset[term] <= key_index[term]
        /\ Holds(key_buffer[term], line[term])
    BY OwnLineFacts
  <1>2. ASSUME OthersKept, OwnLine, term' = term PROVE LinesOK'
    BY <1>2 DEF LinesOK, OthersKept, OwnLine
  <1>3. ASSUME NEW n \in Nat, NEW c \in Typed, Type(n, c), KeyPress,
               Len(line[term]) + n <= LINE_LIMIT
        PROVE  EditInv' /\ OthersKept /\ term' = term
    <2>1. OthersKept /\ OwnLine
      BY <1>3, TypeExtends
    <2>2. term' = term /\ ReadsOK'
      BY <1>1, <1>3, KeyLeaves DEF Type
    <2> QED
      BY <1>2, <2>1, <2>2
  <1>4. CASE Spaces(1) \/ Spaces(TAB_WIDTH)
    <2>1. TAB_WIDTH \in Nat /\ Space \in Typed
      BY TermAssumption DEF Typed
    <2> QED
      BY <1>3, <1>4, <2>1 DEF Spaces
  <1>5. CASE \E c \in Letters : LetterWraps(c) \/ Letter(c)
    <2>1. PICK c \in Letters : LetterWraps(c) \/ Letter(c)
      BY <1>5
    <2>2. c \in Typed /\ Len(line[term]) + 1 <= LINE_LIMIT /\ KeyPress /\ Type(1, c)
      BY <1>0, <1>1, <2>1 DEF LetterWraps, Letter, Typed
    <2> QED
      BY <1>3, <2>2
  <1>6. CASE Backspace
    <2> DEFINE i == key_index[term]
               l == line[term]
               m == SubSeq(l, 1, Len(l) - 1)
               row == Stored(term, i, 1, NUL)[term]
    <2>1. i # clear_offset[term] /\ i > 0 /\ l # <<>> /\ clear_offset[term] <= i - 1
      BY <1>1, <1>6 DEF Backspace, CanErase
    <2>2. Len(m) = i - 1 /\ \A k \in 1 .. i - 1 : m[k] = l[k]
      BY <1>1, <2>1
    <2>3. /\ \A j \in Cols : row[j] = IF j \in i .. i + 1 - 1 THEN NUL ELSE key_buffer[term][j]
          /\ \A u \in Terms \ {term} : Stored(term, i, 1, NUL)[u] = key_buffer[u]
      <3>1. i + 1 <= MAX_BUFF_LENGTH
        BY <1>0, <1>1
      <3> QED
        BY <1>1, <3>1, StoredIs
    <2>4. (i - 1) % WORD = i - 1
      <3>1. i - 1 \in Nat /\ i - 1 < WORD
        BY <1>0, <1>1, <2>1
      <3> QED
        BY <3>1, SmallIndex
    <2>5. Holds(row, m)
      <3> HIDE DEF i, l, m, row
      <3> SUFFICES ASSUME NEW k \in 1 .. i - 1 PROVE row[k - 1] = m[k]
        BY <2>2 DEF Holds
      <3>1. k - 1 \in Cols /\ k - 1 \notin i .. i + 1 - 1
        BY <1>0, <1>1, <2>1 DEF Cols, i, l
      <3>2. k \in 1 .. Len(l)
        BY <1>1, <2>1 DEF i, l
      <3> QED
        BY <1>1, <2>2, <2>3, <3>1, <3>2 DEF Holds, l
    <2>6. /\ key_buffer' = Stored(term, i, 1, NUL) /\ key_index'[term] = i - 1
          /\ line'[term] = m /\ clear_offset' = clear_offset
          /\ \A t \in Terms \ {term} : key_index'[t] = key_index[t] /\ line'[t] = line[t]
      BY <1>1, <1>6, <2>1, <2>4 DEF Backspace, TypeInv
    <2>7. OthersKept
      BY <2>3, <2>6 DEF OthersKept
    <2>8. OwnLine
      <3>1. Len(m) <= LINE_LIMIT
        BY <1>0, <1>1, <2>2
      <3> HIDE DEF i, l, m
      <3> QED
        BY <2>1, <2>2, <2>5, <2>6, <3>1 DEF OwnLine, LineOK
    <2>9. term' = term /\ ReadsOK'
      BY <1>1, <1>6, KeyLeaves DEF Backspace
    <2> QED
      BY <1>2, <2>7, <2>8, <2>9
  <1>7. CASE Enter
    <2> DEFINE i == key_index[term]
               row == Stored(term, i, 1, NL)[term]
    <2>1. /\ \A j \in Cols : row[j] = IF j \in i .. i + 1 - 1 THEN NL ELSE key_buffer[term][j]
          /\ \A u \in Terms \ {term} : Stored(term, i, 1, NL)[u] = key_buffer[u]
      <3>1. i + 1 <= MAX_BUFF_LENGTH
        BY <1>0, <1>1
      <3> QED
        BY <1>1, <3>1, StoredIs
    <2>2. Ended(row, line[term])
      <3> HIDE DEF row
      <3>1. i \in Cols
        BY <1>0, <1>1 DEF Cols
      <3>2. \A k \in 1 .. Len(line[term]) : k - 1 \in Cols /\ k - 1 \notin i .. i + 1 - 1
        BY <1>0, <1>1 DEF Cols
      <3>3. Holds(row, line[term])
        BY <1>1, <2>1, <3>2 DEF Holds
      <3>4. row[Len(line[term])] = NL /\ Len(line[term]) < MAX_BUFF_LENGTH
        BY <1>0, <1>1, <2>1, <3>1
      <3> QED
        BY <3>3, <3>4 DEF Ended
    <2>3. /\ key_buffer' = Stored(term, i, 1, NL) /\ key_index'[term] = 0
          /\ line'[term] = <<>> /\ clear_offset'[term] = 0 /\ term' = term
          /\ \A t \in Terms \ {term} :
                key_index'[t] = key_index[t] /\ line'[t] = line[t] /\ clear_offset'[t] = clear_offset[t]
          /\ enter_down' = TRUE /\ enter_held' = TRUE /\ prog' = prog /\ got' = got
          /\ prog[term].pc = "wait" => entered'[term] = line[term]
      BY <1>1, <1>7, Zenon DEF Enter, TypeInv
    <2>4. OthersKept
      BY <2>1, <2>3 DEF OthersKept
    <2>5. OwnLine
      BY <1>0, <2>3 DEF OwnLine, LineOK, Holds
    <2>6. \A t \in Terms : prog[t].pc \notin {"copy", "clear"}
      BY <1>7, KeyFinds DEF Enter
    <2>7. ReadsOK'
      BY <1>1, <2>2, <2>3, <2>6 DEF ReadsOK, ReadOK
    <2> QED
      BY <1>2, <2>3, <2>4, <2>5, <2>7
  <1>8. CASE EnterOff
    <2>1. UNCHANGED <<term, key_buffer, key_index, clear_offset, prog, got, line, entered>>
          /\ ~enter_down'
      BY <1>8 DEF EnterOff, bufVars, histVars
    <2>2. prog[term].pc \notin {"copy", "clear"}
      BY <1>8 DEF EnterOff, PointOf, EditQuiet
    <2>3. ReadsOK'
      BY <2>1, <2>2 DEF ReadsOK, ReadOK
    <2>4. LinesOK' /\ OthersKept
      BY <2>1 DEF LinesOK, OthersKept
    <2> QED
      BY <2>1, <2>3, <2>4
  <1>9. CASE CtrlL
    <2>1. term' = term /\ ReadsOK'
      BY <1>1, <1>9, KeyLeaves DEF CtrlL
    <2>2. CASE key_index[term] # 0
      <3>0. key_index[term] < TEMP
        BY <1>0, <1>1
      <3>1. key_index[term] % TEMP = key_index[term]
        BY <1>1, <3>0, SmallIndex
      <3>2. /\ clear_offset'[term] = key_index[term]
            /\ \A t \in Terms \ {term} : clear_offset'[t] = clear_offset[t]
            /\ UNCHANGED <<key_buffer, key_index, line>>
        BY <1>1, <1>9, <2>2, <3>1 DEF CtrlL, TypeInv, histVars
      <3>3. OthersKept /\ OwnLine
        BY <1>1, <3>2 DEF OthersKept, OwnLine, LineOK
      <3> QED
        BY <1>2, <2>1, <3>3
    <2>3. CASE key_index[term] = 0
      <3>1. /\ \A t \in Terms \ {term} : key_buffer'[t] = key_buffer[t]
            /\ UNCHANGED <<clear_offset, key_index, line>>
        BY <1>1, <1>9, <2>3 DEF CtrlL, Cleared, TypeInv, histVars
      <3>2. Holds(key_buffer'[term], line[term])
        BY <1>1, <2>3 DEF Holds
      <3>3. OthersKept /\ OwnLine
        BY <1>1, <3>1, <3>2 DEF OthersKept, OwnLine, LineOK
      <3> QED
        BY <1>2, <2>1, <3>3
    <2> QED
      BY <2>1, <2>2, <2>3
  <1>10. ASSUME NEW t \in Terms, Switch(t) PROVE EditInv' /\ OthersKept /\ UNCHANGED bufVars
    <2>1. UNCHANGED <<key_buffer, key_index, clear_offset, line>> /\ term' = t
      BY <1>10 DEF Switch, bufVars, histVars
    <2>2. ReadsOK'
      BY <1>10, <2>1, KeyLeaves DEF Switch
    <2> QED
      BY <2>1, <2>2 DEF LinesOK, OthersKept, bufVars
  <1> QED
    BY <1>4, <1>5, <1>6, <1>7, <1>8, <1>9, <1>10 DEF Keys

(* From a row with an ended line terminal_read returns what it promises.   *)
LEMMA ReturnsEnded ==
    ASSUME NEW row, NEW l \in Seq(Typed), Ended(row, l)
    PROVE  Returned(row) = Promised(l)
  <1> DEFINE ends == {i \in Cols : row[i] = NL}
             first == CHOOSE i \in ends : \A j \in ends : i <= j
             n == IF ends = {} THEN MAX_BUFF_LENGTH ELSE first + 1
             R(k) == IF \E i \in 0 .. k - 1 : row[i] = NUL /\ i # MAX_BUFF_LENGTH - 1 THEN NUL
                     ELSE IF k = n THEN NL ELSE row[k - 1]
  <1>0. MAX_BUFF_LENGTH \in Nat \ {0} /\ Len(l) \in Nat /\ Len(l) < MAX_BUFF_LENGTH
    BY TermAssumption DEF Ended
  <1>a. row[Len(l)] = NL
    BY DEF Ended
  <1>1. \A i \in 0 .. Len(l) - 1 : row[i] = l[i + 1] /\ l[i + 1] \in Typed
    <2> TAKE i \in 0 .. Len(l) - 1
    <2>1. i + 1 \in 1 .. Len(l) /\ (i + 1) - 1 = i
      BY <1>0
    <2> QED
      BY <2>1 DEF Ended, Holds
  <1>2. NL \notin Typed /\ NUL \notin Typed /\ NL # NUL
    BY TermAssumption DEF Typed, NL, NUL, Space
  <1>3. Len(l) \in ends /\ \A j \in ends : Len(l) <= j
    <2>1. Len(l) \in ends
      BY <1>0, <1>a DEF Cols
    <2>2. ASSUME NEW j \in ends, j < Len(l) PROVE FALSE
      <3>1. j \in 0 .. Len(l) - 1 /\ row[j] = NL
        BY <1>0, <2>2 DEF Cols
      <3> QED
        BY <1>1, <1>2, <3>1
    <2>3. ends \subseteq Int
      BY <1>0 DEF Cols
    <2> QED
      BY <1>0, <2>1, <2>2, <2>3
  <1>4. first = Len(l)
    <2>1. ends \subseteq Int
      BY <1>0 DEF Cols
    <2> HIDE DEF ends
    <2>2. first \in ends /\ \A j \in ends : first <= j
      BY <1>3
    <2> HIDE DEF first
    <2> QED
      BY <1>3, <2>1, <2>2
  <1>5. n = Len(l) + 1
    BY <1>3, <1>4, Zenon
  <1>6. \A i \in 0 .. Len(l) : row[i] # NUL
    <2> TAKE i \in 0 .. Len(l)
    <2>1. i = Len(l) \/ i \in 0 .. Len(l) - 1
      BY <1>0
    <2> QED
      BY <1>1, <1>2, <1>a, <2>1
  <1>7. Returned(row) = [k \in 1 .. n |-> R(k)]
    BY DEF Returned
  <1>8. Promised(l) = Append(l, NL)
    BY <1>0 DEF Promised
  <1> HIDE DEF n, ends, first
  <1>9. \A k \in 1 .. Len(l) + 1 : R(k) = Append(l, NL)[k]
    <2> TAKE k \in 1 .. Len(l) + 1
    <2>1. ~\E i \in 0 .. k - 1 : row[i] = NUL /\ i # MAX_BUFF_LENGTH - 1
      BY <1>0, <1>6
    <2>2. CASE k = Len(l) + 1
      BY <1>5, <2>1, <2>2
    <2>3. CASE k # Len(l) + 1
      <3>1. k - 1 \in 0 .. Len(l) - 1 /\ k \in 1 .. Len(l) /\ (k - 1) + 1 = k
        BY <1>0, <2>3
      <3>2. R(k) = row[k - 1]
        BY <1>5, <2>1, <2>3
      <3>3. row[k - 1] = l[k]
        BY <1>1, <3>1
      <3> QED
        BY <3>1, <3>2, <3>3
    <2> QED
      BY <2>2, <2>3
  <1> HIDE DEF R
  <1>10. Append(l, NL) = [k \in 1 .. Len(l) + 1 |-> Append(l, NL)[k]]
    <2>1. l \in Seq(Chars) /\ NL \in Chars
      BY DEF Typed, Chars
    <2> DEFINE m == Append(l, NL)
    <2>2. m \in Seq(Chars) /\ Len(m) = Len(l) + 1
      BY <2>1
    <2> HIDE DEF m
    <2>3. m = [k \in 1 .. Len(m) |-> m[k]]
      BY <2>2
    <2> QED
      BY <2>2, <2>3 DEF m
  <1> QED
    BY <1>5, <1>7, <1>8, <1>9, <1>10

(* Where a step of the program leads.                                      *)
LEMMA GotoIs ==
    ASSUME TypeInv, NEW label \in Labels, Goto(label)
    PROVE  /\ prog'[term].pc = label
           /\ \A t \in Terms \ {term} : prog'[t] = prog[t]
  <1>1. prog[term] \in Programs /\ term \in Terms
    BY DEF TypeInv
  <1>2. Idle.pc = "user" /\ [prog[term] EXCEPT !.pc = label].pc = label
    BY <1>1 DEF Idle, Programs
  <1> QED
    BY <1>1, <1>2 DEF Goto, TypeInv

(* A step of the program moves only its own label, so that only its own    *)
(* part has to be looked at.                                               *)
LEMMA ReadsStep ==
    ASSUME TypeInv, ReadsOK, term' = term, enter_down' => enter_held',
           \A t \in Terms \ {term} : prog'[t] = prog[t],
           ReadOK(prog'[term].pc, enter_down', key_buffer'[term], line'[term], entered'[term],
                  got'[term])
    PROVE  ReadsOK'
  <1>1. \A t \in Terms : prog'[t].pc \in {"copy", "clear"} => t = term
    BY DEF ReadsOK
  <1> QED
    BY <1>1 DEF ReadsOK

(* terminal_read takes the line that was ended, and leaves an empty one.   *)
LEMMA ReaderEdits ==
    ASSUME TypeInv, EditInv, EditQuiet, Reader
    PROVE  EditInv' /\ OthersKept /\ UNCHANGED <<term, last_screen, store>>
  <1> USE DEF EditInv, bufVars, scrVars, histVars
  <1>0. term \in Terms /\ prog[term] \in Programs /\ key_buffer[term] \in [Cols -> Chars]
        /\ LINE_LIMIT \in Nat /\ {"user", "wait", "copy", "clear"} \subseteq Labels
    BY TermAssumption DEF TypeInv, Labels
  <1>1. ASSUME UNCHANGED <<term, key_buffer, key_index, clear_offset, line>>
        PROVE  LinesOK' /\ OthersKept
    BY <1>1 DEF LinesOK, OthersKept
  <1>6. UNCHANGED <<term, last_screen, store>>
    BY Zenon DEF Reader, Read, Wake, Copy, Clear
  <1>2. ASSUME NEW n \in Requests, Read(n) PROVE EditInv' /\ OthersKept
    <2>1. ~enter_down' /\ UNCHANGED <<term, key_buffer, key_index, clear_offset, line>>
      BY <1>2 DEF Read
    <2>2. /\ prog'[term].pc = "wait"
          /\ \A t \in Terms \ {term} : prog'[t] = prog[t]
      BY <1>0, <1>2 DEF Read, TypeInv, Idle
    <2>3. ReadsOK'
      BY <1>0, <2>1, <2>2 DEF ReadsOK, ReadOK
    <2> QED
      BY <1>1, <2>1, <2>3
  <1>3. CASE Wake
    <2>1. /\ ~enter_down' /\ UNCHANGED <<term, key_buffer, key_index, clear_offset, line, got>>
          /\ prog[term].pc = "wait" /\ enter_down
      BY <1>3 DEF Wake, At
    <2>2. line[term] = <<>> /\ Ended(key_buffer[term], entered[term])
      BY <2>1 DEF ReadsOK, ReadOK
    <2>3. /\ prog'[term].pc \in {"user", "copy"}
          /\ \A t \in Terms \ {term} : prog'[t] = prog[t]
          /\ prog'[term].pc = "copy" => entered'[term] = entered[term]
      <3>1. CASE prog[term].nbytes = 0
        BY <1>0, <1>3, <3>1, GotoIs DEF Wake
      <3>2. CASE prog[term].nbytes # 0
        BY <1>0, <1>3, <3>2, GotoIs DEF Wake, TypeInv
      <3> QED
        BY <3>1, <3>2
    <2>5. ReadOK(prog'[term].pc, enter_down', key_buffer'[term], line'[term], entered'[term],
                 got'[term])
      BY <2>1, <2>2, <2>3 DEF ReadOK
    <2>4. ReadsOK'
      BY <2>1, <2>3, <2>5, ReadsStep
    <2> QED
      BY <1>1, <1>6, <2>1, <2>4
  <1>4. CASE Copy
    <2>1. /\ prog[term].pc = "copy" /\ got'[term] = Returned(key_buffer[term])
          /\ UNCHANGED <<term, key_buffer, key_index, clear_offset, line, entered,
                         enter_down, enter_held>>
      BY <1>0, <1>4 DEF Copy, At, TypeInv
    <2>2. line[term] = <<>> /\ Ended(key_buffer[term], entered[term])
      BY <2>1 DEF ReadsOK, ReadOK
    <2>3. entered[term] \in Seq(Typed)
      BY DEF TypeInv
    <2>4. got'[term] = Promised(entered[term])
      BY <2>1, <2>2, <2>3, ReturnsEnded
    <2>5. prog'[term].pc = "clear" /\ \A t \in Terms \ {term} : prog'[t] = prog[t]
      BY <1>0, <1>4, GotoIs DEF Copy
    <2>7. ReadOK(prog'[term].pc, enter_down', key_buffer'[term], line'[term], entered'[term],
                 got'[term])
      BY <2>1, <2>2, <2>4, <2>5 DEF ReadOK
    <2>6. ReadsOK'
      BY <2>1, <2>5, <2>7, ReadsStep DEF ReadsOK
    <2> QED
      BY <1>1, <1>6, <2>1, <2>6
  <1>5. CASE Clear
    <2>1. /\ prog[term].pc = "clear" /\ key_index'[term] = 0
          /\ UNCHANGED <<term, clear_offset, line, enter_down, enter_held>>
          /\ \A t \in Terms \ {term} : key_buffer'[t] = key_buffer[t] /\ key_index'[t] = key_index[t]
      BY <1>0, <1>5, Zenon DEF Clear, At, Cleared, TypeInv
    <2>2. line[term] = <<>>
      BY <2>1 DEF ReadsOK, ReadOK
    <2>3. clear_offset[term] = 0
      BY <1>0, <2>2, OwnLineFacts
    <2>4. OthersKept /\ OwnLine
      BY <1>0, <2>1, <2>2, <2>3 DEF OthersKept, OwnLine, LineOK, Holds
    <2>5. LinesOK'
      BY <2>1, <2>4 DEF LinesOK, OthersKept, OwnLine
    <2>6. prog'[term].pc = "user" /\ \A t \in Terms \ {term} : prog'[t] = prog[t]
      BY <1>0, <1>5, GotoIs DEF Clear
    <2>8. ReadOK(prog'[term].pc, enter_down', key_buffer'[term], line'[term], entered'[term],
                 got'[term])
      BY <2>6, Zenon DEF ReadOK
    <2>7. ReadsOK'
      BY <2>1, <2>6, <2>8, ReadsStep DEF ReadsOK
    <2> QED
      BY <1>6, <2>4, <2>5, <2>7
  <1> QED
    BY <1>2, <1>3, <1>4, <1>5, <1>6 DEF Reader

(* terminal_write touches no line.                                         *)
LEMMA WriterEdits ==
    ASSUME TypeInv, EditInv, Writer
    PROVE  EditInv' /\ OthersKept /\ UNCHANGED <<term, last_screen, store>>
  <1> USE DEF EditInv, bufVars, scrVars, histVars
  <1>0. term \in Terms /\ prog[term] \in Programs /\ prog \in [Terms -> Programs]
    BY DEF TypeInv
  <1>1. UNCHANGED <<term, key_buffer, key_index, clear_offset, line, entered, got,
                    enter_down, enter_held, last_screen, store>>
    BY Zenon DEF Writer, Write, WriteTop, WriteDown, WriteUp, WriteWrap, WriteNewLine, WriteMove,
           WritePut
  <1> DEFINE NotReading == /\ prog'[term].pc \in Labels \ {"wait", "copy", "clear"}
                           /\ \A t \in Terms \ {term} : prog'[t] = prog[t]
  <1>2. NotReading
    <2>1. ASSUME NEW label \in Labels \ {"wait", "copy", "clear"}, Goto(label) PROVE NotReading
      BY <2>1, GotoIs
    <2>2. ASSUME NEW label \in Labels \ {"wait", "copy", "clear"}, NEW a \in Nat, NEW b \in Nat,
                 Done(label, a, b)
          PROVE  NotReading
      <3>1. Dealt(prog[term], label, a, b).pc = label
        BY <1>0, DealtFields
      <3> QED
        BY <1>0, <2>2, <3>1 DEF Done, Dealt
    <2>3. {"user", "w_top", "w_put", "w_down", "w_up", "w_wrap", "w_nl"}
             \subseteq Labels \ {"wait", "copy", "clear"}
      BY DEF Labels
    <2>4. ASSUME NEW n \in Requests, Write(n) PROVE NotReading
      BY <1>0, <2>3, <2>4 DEF Write, Idle
    <2>5. CASE WriteTop
      BY <2>1, <2>3, <2>5 DEF WriteTop
    <2>6. CASE WriteDown \/ WriteUp \/ WriteWrap \/ WriteNewLine
      BY <2>1, <2>3, <2>6 DEF WriteDown, WriteUp, WriteWrap, WriteNewLine, WriteMove
    <2>7. ASSUME NEW c \in Chars, WritePut(c) PROVE NotReading
      <3>1. Shown(key_index[term], 1) \in Nat
        BY ShownNat, Zenon DEF TypeInv
      <3>2. Done("w_top", 0, 0) \/ Done("w_nl", 1, 1) \/ Done("w_top", 1, Shown(key_index[term], 1))
        BY <2>7 DEF WritePut
      <3> QED
        BY <2>2, <2>3, <3>1, <3>2
    <2> QED
      BY <2>4, <2>5, <2>6, <2>7 DEF Writer
  <1>3. ReadsOK'
    BY <1>0, <1>1, <1>2 DEF ReadsOK, ReadOK
  <1>4. LinesOK' /\ OthersKept
    BY <1>1 DEF LinesOK, OthersKept
  <1> QED
    BY <1>1, <1>3, <1>4

-----------------------------------------------------------------------------
(* What a step does to the screens and cursors.                            *)
ScreensKept ==
    \A t \in Terms : (t # term \/ term' # term) =>
        /\ (IF t = term' THEN cursor' ELSE last_screen'[t])
             = (IF t = term THEN cursor ELSE last_screen[t])
        /\ (IF t = term' THEN video' ELSE store'[t]) = (IF t = term THEN video ELSE store[t])

(* No key shows on another terminal's screen.                              *)
LEMMA KeysScreens ==
    ASSUME TypeInv, Keys
    PROVE  ScreensKept
  <1>1. ASSUME NEW u \in Terms, Switch(u) PROVE ScreensKept
    <2>1. /\ last_screen' = [last_screen EXCEPT ![term] = cursor]
          /\ store' = [store EXCEPT ![term] = video]
          /\ video' = store'[u] /\ cursor' = last_screen'[u] /\ term' = u /\ u # term
      BY <1>1 DEF Switch, Saved
    <2> SUFFICES ASSUME NEW t \in Terms
                 PROVE  /\ (IF t = u THEN cursor' ELSE last_screen'[t])
                             = (IF t = term THEN cursor ELSE last_screen[t])
                        /\ (IF t = u THEN video' ELSE store'[t])
                             = (IF t = term THEN video ELSE store[t])
      BY <2>1 DEF ScreensKept
    <2>2. last_screen'[t] = (IF t = term THEN cursor ELSE last_screen[t])
      BY <2>1 DEF TypeInv
    <2>3. store'[t] = (IF t = term THEN video ELSE store[t])
      BY <2>1 DEF TypeInv
    <2> QED
      BY <2>1, <2>2, <2>3
  <1>2. ASSUME UNCHANGED <<term, last_screen, store>> PROVE ScreensKept
    BY <1>2 DEF ScreensKept
  <1>3. CASE Spaces(1) \/ Spaces(TAB_WIDTH) \/ \E c \in Letters : LetterWraps(c) \/ Letter(c)
    BY <1>2, <1>3 DEF Spaces, LetterWraps, Letter, Type
  <1>4. CASE Backspace \/ Enter \/ EnterOff \/ CtrlL
    BY <1>2, <1>4 DEF Backspace, Enter, EnterOff, CtrlL, scrVars
  <1> QED
    BY <1>1, <1>3, <1>4 DEF Keys

(* The edit invariant holds from the start,                                *)
LEMMA EditInit == Init => EditInv
  <1> SUFFICES ASSUME Init PROVE EditInv
    OBVIOUS
  <1>1. LINE_LIMIT \in Nat /\ 0 \in Terms
    BY TermAssumption DEF Terms
  <1>2. LinesOK
    BY <1>1 DEF Init, LinesOK, LineOK, Holds
  <1>3. ReadsOK
    BY <1>1 DEF Init, ReadsOK, ReadOK, Idle
  <1> QED
    BY <1>2, <1>3 DEF EditInv

(* A step keeps the edit invariant, the other terminals' lines and all     *)
(* screens but the displayed one.                                          *)
LEMMA EditStep ==
    ASSUME TypeInv, EditInv, EditQuiet, [Next]_vars
    PROVE  /\ EditInv'
           /\ [OthersKept /\ ScreensKept /\ (term' # term => UNCHANGED bufVars)]_vars
  <1>1. CASE Keys
    BY <1>1, KeysEdit, KeysScreens
  <1>2. ASSUME UNCHANGED <<term, last_screen, store>> PROVE ScreensKept
    BY <1>2 DEF ScreensKept
  <1>3. CASE Reader
    BY <1>2, <1>3, ReaderEdits
  <1>4. CASE Writer
    BY <1>2, <1>4, WriterEdits, Zenon
  <1>5. CASE UNCHANGED vars
    BY <1>5 DEF vars, bufVars, histVars, EditInv, LinesOK, ReadsOK
  <1> QED
    BY <1>1, <1>3, <1>4, <1>5 DEF Next

(* So it holds at every moment.                                            *)
LEMMA EditAlways == ASSUME EditQuiet PROVE Spec => [](TypeInv /\ EditInv)
  <1>1. TypeInv /\ EditInv /\ [Next]_vars => (TypeInv /\ EditInv)'
    BY EditStep, TypesStep
  <1> QED
    BY <1>1, TypesInit, EditInit, PTL DEF Spec

(* Whatever is typed, erased and cleared on however many terminals, each   *)
(* key_buffer and key_index hold the line being typed there, for every     *)
(* length of the buffer, provided that lines are shorter than it and that  *)
(* no key comes while Enter is down or terminal_read is on its way out.    *)
THEOREM LinesMatch == ASSUME EditQuiet PROVE Spec => []EditMatches
  <1>1. TypeInv /\ EditInv => EditMatches
    BY DEF EditInv, LinesOK, LineOK, Holds, EditMatches
  <1> QED
    BY <1>1, EditAlways, PTL

(* Under the same conditions terminal_read returns exactly the line that   *)
(* was ended with Enter on its own terminal while it waited.               *)
THEOREM ReadsOwnLine == ASSUME EditQuiet PROVE Spec => []ReadsLine
  <1>1. TypeInv /\ EditInv => ReadsLine
    BY DEF EditInv, ReadsOK, ReadOK, ReadsLine
  <1> QED
    BY <1>1, EditAlways, PTL

(* Under the same conditions no key, read or write on the displayed        *)
(* terminal touches what another one shows or has been typed, and changing *)
(* terminals changes neither of the two.                                   *)
THEOREM ConsolesStaySeparate == ASSUME EditQuiet PROVE Spec => ConsolesSeparate
  <1> DEFINE Separate == \A t \in Terms : (t # term \/ term' # term) => Console(t)' = Console(t)
  <1>1. TypeInv /\ EditInv /\ [Next]_vars => [Separate]_vars
    <2> SUFFICES ASSUME TypeInv, EditInv, [Next]_vars, ~UNCHANGED vars, NEW t \in Terms,
                        t # term \/ term' # term
                 PROVE  Console(t)' = Console(t)
      OBVIOUS
    <2>1. OthersKept /\ ScreensKept /\ (term' # term => UNCHANGED bufVars)
      BY EditStep
    <2>2. /\ key_buffer'[t] = key_buffer[t] /\ key_index'[t] = key_index[t]
          /\ clear_offset'[t] = clear_offset[t]
      BY <2>1 DEF OthersKept, bufVars
    <2>3. /\ (IF t = term' THEN cursor' ELSE last_screen'[t])
               = (IF t = term THEN cursor ELSE last_screen[t])
          /\ (IF t = term' THEN video' ELSE store'[t]) = (IF t = term THEN video ELSE store[t])
      BY <2>1 DEF ScreensKept
    <2> QED
      BY <2>2, <2>3 DEF Console
  <1>2. TypeInv /\ EditInv /\ [Next]_vars =>
          [\A t \in Terms : (t # term \/ term' # term) => Console(t)' = Console(t)]_vars
    BY <1>1
  <1> QED
    BY <1>2, EditAlways, PTL DEF Spec, ConsolesSeparate

-----------------------------------------------------------------------------
(* No key comes while the cursor is below the screen or about to be moved  *)
(* down on the strength of a test already made.                            *)
CursorQuiet == KeyPoints \cap {"w_up", "w_wrap", "w_nl"} = {}

(* Where the cursor may be at each point of the code.                      *)
OnScreen(c, pc) ==
    /\ c.x \in 0 .. NUM_COLS - 1
    /\ c.y \in IF pc \in {"w_up", "w_nl"} THEN 1 .. NUM_ROWS ELSE 0 .. NUM_ROWS - 1
    /\ pc = "w_wrap" => c.y + 1 < NUM_ROWS

CursorInv ==
    \A t \in Terms : OnScreen(IF t = term THEN cursor ELSE last_screen[t], prog[t].pc)

(* The functions of lib.c keep the cursor on the screen.                   *)
LEMMA CursorMoves ==
    ASSUME NEW c \in Places, c.x \in 0 .. NUM_COLS - 1, c.y \in 0 .. NUM_ROWS - 1, NEW n \in Nat
    PROVE  \A d \in {Echo(c, n), NewLine(c), print_backspace(c)} :
               d.x \in 0 .. NUM_COLS - 1 /\ d.y \in 0 .. NUM_ROWS - 1
  <1>0. NUM_COLS \in Nat \ {0} /\ NUM_ROWS \in Nat \ {0}
    BY TermAssumption
  <1>1. Echo(c, n).x \in 0 .. NUM_COLS - 1 /\ Echo(c, n).y \in 0 .. NUM_ROWS - 1
    <2>1. (c.x + n) % NUM_COLS \in 0 .. NUM_COLS - 1
      BY <1>0
    <2>2. Rem(c.y, NUM_ROWS) = c.y
      BY <1>0 DEF Rem
    <2> QED
      BY <2>1, <2>2 DEF Echo
  <1>2. NewLine(c).x \in 0 .. NUM_COLS - 1 /\ NewLine(c).y \in 0 .. NUM_ROWS - 1
    BY <1>0 DEF NewLine, scroll_handle
  <1>3. print_backspace(c).x \in 0 .. NUM_COLS - 1 /\ print_backspace(c).y \in 0 .. NUM_ROWS - 1
    <2>1. c.x = 0 /\ c.y = 0 => c = Home
      BY DEF Places, Home
    <2>2. CASE c.x = 0 /\ c # Home
      BY <1>0, <2>1, <2>2 DEF print_backspace
    <2>3. CASE c.x # 0
      <3>1. [c EXCEPT !.x = c.x - 1].x = c.x - 1 /\ [c EXCEPT !.x = c.x - 1].y = c.y
        BY DEF Places
      <3>2. c # Home
        BY <2>3 DEF Home
      <3> QED
        BY <1>0, <2>3, <3>1, <3>2 DEF print_backspace
    <2> QED
      BY <2>2, <2>3 DEF print_backspace
  <1> QED
    BY <1>1, <1>2, <1>3

(* A step that changes neither the displayed terminal nor what is kept of  *)
(* the others has to be looked at for the displayed one only.              *)
LEMMA CursorStep ==
    ASSUME TypeInv, CursorInv, UNCHANGED <<term, last_screen>>,
           \A t \in Terms \ {term} : prog'[t] = prog[t],
           OnScreen(cursor', prog'[term].pc)
    PROVE  CursorInv'
  BY DEF CursorInv, TypeInv

(* The keys keep the cursor on the screen.                                 *)
LEMMA KeysCursor ==
    ASSUME TypeInv, CursorInv, CursorQuiet, Keys
    PROVE  CursorInv'
  <1>0. /\ term \in Terms /\ cursor \in Places /\ key_index[term] \in Nat
        /\ NUM_COLS \in Nat \ {0} /\ NUM_ROWS \in Nat \ {0} /\ TAB_WIDTH \in Nat
        /\ SHELL_OFFSET \in 0 .. NUM_COLS - 1
    BY TermAssumption DEF TypeInv
  <1>1. prog[term].pc \notin {"w_up", "w_wrap", "w_nl"}
    BY DEF CursorQuiet, Keys, Spaces, LetterWraps, Letter, Backspace, Enter, EnterOff, CtrlL,
           Switch, KeyPress, PointOf
  <1>2. cursor.x \in 0 .. NUM_COLS - 1 /\ cursor.y \in 0 .. NUM_ROWS - 1
    BY <1>0, <1>1 DEF CursorInv, OnScreen
  <1>3. ASSUME NEW d, d.x \in 0 .. NUM_COLS - 1, d.y \in 0 .. NUM_ROWS - 1
        PROVE  OnScreen(d, prog[term].pc)
    BY <1>1, <1>3, Zenon DEF OnScreen
  <1>4. ASSUME NEW d, d.x \in 0 .. NUM_COLS - 1, d.y \in 0 .. NUM_ROWS - 1, cursor' = d,
               UNCHANGED <<term, last_screen, prog>>
        PROVE  CursorInv'
    BY <1>3, <1>4, CursorStep
  <1>5. ASSUME NEW n \in Nat
        PROVE  \A d \in {Echo(cursor, Shown(key_index[term], n)), NewLine(cursor),
                         print_backspace(cursor)} :
                   d.x \in 0 .. NUM_COLS - 1 /\ d.y \in 0 .. NUM_ROWS - 1
    <2>1. Shown(key_index[term], n) \in Nat
      BY <1>0, ShownNat, Zenon
    <2> QED
      BY <1>0, <1>2, <2>1, CursorMoves
  <1>6. ASSUME NEW n \in Nat, Spaces(n) PROVE CursorInv'
    BY <1>4, <1>5, <1>6 DEF Spaces, Type
  <1>7. ASSUME NEW c \in Letters, LetterWraps(c) PROVE CursorInv'
    <2> DEFINE d == Echo(cursor, Shown(key_index[term], 1))
    <2>1. d.y = cursor.y
      <3>1. Rem(cursor.y, NUM_ROWS) = cursor.y
        BY <1>0, <1>2 DEF Rem
      <3> QED
        BY <3>1 DEF Echo
    <2>2. d \in Places
      BY <1>0, ShownNat, CursorTypes, Zenon
    <2> HIDE DEF d
    <2>3. [d EXCEPT !.y = cursor.y + 1].y = cursor.y + 1
      BY <2>2 DEF Places
    <2>4. cursor'.x = 0 /\ cursor'.y \in 0 .. NUM_ROWS - 1
      <3>1. cursor' = IF cursor.y + 1 = NUM_ROWS THEN scroll_handle([d EXCEPT !.y = cursor.y + 1])
                      ELSE wrap_around(d)
        BY <1>7 DEF LetterWraps, d
      <3> QED
        BY <1>0, <1>2, <2>1, <2>3, <3>1 DEF scroll_handle, wrap_around
    <2> QED
      BY <1>0, <1>4, <1>7, <2>4 DEF LetterWraps, Type
  <1>8. ASSUME NEW c \in Letters, Letter(c) PROVE CursorInv'
    BY <1>4, <1>5, <1>8, Zenon DEF Letter, Type
  <1>9. CASE Backspace \/ Enter
    BY <1>4, <1>5, <1>9 DEF Backspace, Enter
  <1>10. CASE EnterOff
    BY <1>2, <1>4, <1>10 DEF EnterOff, scrVars
  <1>11. CASE CtrlL
    BY <1>0, <1>4, <1>11 DEF CtrlL
  <1>12. ASSUME NEW u \in Terms, Switch(u) PROVE CursorInv'
    <2>1. /\ last_screen' = [last_screen EXCEPT ![term] = cursor]
          /\ cursor' = last_screen'[u] /\ term' = u /\ u # term /\ prog' = prog
      BY <1>12 DEF Switch
    <2>2. \A t \in Terms : last_screen'[t] = IF t = term THEN cursor ELSE last_screen[t]
      BY <2>1 DEF TypeInv
    <2>3. \A t \in Terms : (IF t = term' THEN cursor' ELSE last_screen'[t])
                           = IF t = term THEN cursor ELSE last_screen[t]
      BY <2>1, <2>2
    <2> QED
      BY <2>1, <2>3 DEF CursorInv
  <1> QED
    BY <1>0, <1>6, <1>7, <1>8, <1>9, <1>10, <1>11, <1>12 DEF Keys

(* terminal_read leaves it where it is.                                    *)
LEMMA ReaderCursor ==
    ASSUME TypeInv, CursorInv, Reader
    PROVE  CursorInv'
  <1> USE DEF scrVars
  <1> DEFINE Plain == {"user", "wait", "copy", "clear"}
  <1>0. prog \in [Terms -> Programs] /\ term \in Terms /\ Plain \subseteq Labels
    BY DEF TypeInv, Labels
  <1>1. UNCHANGED <<term, last_screen, cursor>> /\ prog[term].pc \in Plain
    BY Zenon DEF Reader, Read, Wake, Copy, Clear, At
  <1>2. prog'[term].pc \in Plain /\ \A t \in Terms \ {term} : prog'[t] = prog[t]
    <2>1. ASSUME NEW n \in Requests, Read(n)
          PROVE  prog'[term].pc = "wait" /\ \A t \in Terms \ {term} : prog'[t] = prog[t]
      BY <1>0, <2>1 DEF Read, Idle
    <2>2. \A label \in Plain : Goto(label) =>
              prog'[term].pc = label /\ \A t \in Terms \ {term} : prog'[t] = prog[t]
      BY <1>0, GotoIs
    <2>3. CASE Wake \/ Copy \/ Clear
      BY <2>2, <2>3 DEF Wake, Copy, Clear
    <2> QED
      BY <2>1, <2>3 DEF Reader
  <1>3. OnScreen(cursor, prog[term].pc)
    BY <1>0 DEF CursorInv
  <1>4. OnScreen(cursor', prog'[term].pc)
    BY <1>1, <1>2, <1>3 DEF OnScreen
  <1> QED
    BY <1>1, <1>2, <1>4, CursorStep

(* terminal_write and putc keep it on the screen.                          *)
LEMMA WriterCursor ==
    ASSUME TypeInv, CursorInv, Writer
    PROVE  CursorInv'
  <1> USE DEF scrVars
  <1>0. /\ prog \in [Terms -> Programs] /\ prog[term] \in Programs /\ term \in Terms
        /\ cursor \in Places /\ cursor.x \in Int /\ cursor.y \in Int
        /\ key_index[term] \in Nat /\ NUM_COLS \in Nat \ {0} /\ NUM_ROWS \in Nat \ {0}
    BY TermAssumption, Zenon DEF TypeInv, Places
  <1>1. OnScreen(cursor, prog[term].pc)
    BY <1>0 DEF CursorInv
  <1>2. UNCHANGED <<term, last_screen>>
    BY Zenon DEF Writer, Write, WriteTop, WriteDown, WriteUp, WriteWrap, WriteNewLine, WriteMove,
           WritePut
  <1>3. ASSUME NEW label \in Labels, Goto(label), OnScreen(cursor', label) PROVE CursorInv'
    BY <1>2, <1>3, GotoIs, CursorStep
  <1>4. ASSUME NEW label \in Labels, NEW a \in Nat, NEW b \in Nat, Done(label, a, b),
               OnScreen(cursor', label)
        PROVE  CursorInv'
    <2>1. Dealt(prog[term], label, a, b).pc = label
      BY <1>0, DealtFields
    <2>2. prog'[term].pc = label /\ \A t \in Terms \ {term} : prog'[t] = prog[t]
      BY <1>0, <1>4, <2>1 DEF Done, Dealt
    <2> QED
      BY <1>2, <1>4, <2>2, CursorStep
  <1>5. {"user", "w_top", "w_put", "w_down", "w_up", "w_wrap", "w_nl"} \subseteq Labels
    BY DEF Labels
  <1>6. ASSUME NEW n \in Requests, Write(n) PROVE CursorInv'
    <2>1. prog'[term].pc = "w_top" /\ \A t \in Terms \ {term} : prog'[t] = prog[t]
      BY <1>0, <1>6 DEF Write, Idle
    <2>2. OnScreen(cursor', "w_top")
      BY <1>1, <1>6 DEF Write, At, OnScreen
    <2> QED
      BY <1>2, <2>1, <2>2, CursorStep
  <1>7. CASE WriteTop
    <2>1. cursor' = cursor /\ prog[term].pc = "w_top"
      BY <1>7 DEF WriteTop, At
    <2>2. PICK label \in {"user", "w_put", "w_down", "w_wrap"} :
             Goto(label) /\ (label = "w_wrap" => cursor.y + 1 # NUM_ROWS)
      BY <1>7 DEF WriteTop
    <2>3. OnScreen(cursor', label)
      BY <1>0, <1>1, <2>1, <2>2 DEF OnScreen
    <2> QED
      BY <1>3, <1>5, <2>2, <2>3
  <1>8. CASE WriteDown
    <2>1. /\ cursor' = [cursor EXCEPT !.y = cursor.y + 1] /\ prog[term].pc = "w_down"
          /\ Goto("w_up")
      BY <1>8 DEF WriteDown, WriteMove, At
    <2>2. cursor'.x = cursor.x /\ cursor'.y = cursor.y + 1
      BY <1>0, <2>1 DEF Places
    <2>3. OnScreen(cursor', "w_up")
      BY <1>0, <1>1, <2>1, <2>2 DEF OnScreen
    <2> QED
      BY <1>3, <1>5, <2>1, <2>3
  <1>9. CASE WriteUp \/ WriteWrap
    <2>1. Goto("w_put") /\ cursor'.x = 0 /\ cursor'.y \in 0 .. NUM_ROWS - 1
      BY <1>0, <1>1, <1>9 DEF WriteUp, WriteWrap, WriteMove, At, OnScreen, scroll_handle, wrap_around
    <2>2. OnScreen(cursor', "w_put")
      BY <1>0, <2>1 DEF OnScreen
    <2> QED
      BY <1>3, <1>5, <2>1, <2>2
  <1>10. CASE WriteNewLine
    <2>1. /\ Goto("w_top") /\ cursor'.x \in 0 .. NUM_COLS - 1
          /\ cursor'.y \in 0 .. NUM_ROWS - 1
      BY <1>0, <1>1, <1>10 DEF WriteNewLine, WriteMove, At, OnScreen, scroll_handle
    <2>2. OnScreen(cursor', "w_top")
      BY <2>1 DEF OnScreen
    <2> QED
      BY <1>3, <1>5, <2>1, <2>2
  <1>11. ASSUME NEW c \in Chars, WritePut(c) PROVE CursorInv'
    <2> DEFINE n == Shown(key_index[term], 1)
    <2>1. n \in Nat
      BY <1>0, ShownNat, Zenon
    <2>2. cursor.x \in 0 .. NUM_COLS - 1 /\ cursor.y \in 0 .. NUM_ROWS - 1
      BY <1>1, <1>11 DEF WritePut, At, OnScreen
    <2>3. Echo(cursor, n).x \in 0 .. NUM_COLS - 1 /\ Echo(cursor, n).y \in 0 .. NUM_ROWS - 1
      BY <1>0, <2>1, <2>2, CursorMoves
    <2> HIDE DEF n
    <2>4. \/ Done("w_top", 0, 0) /\ cursor' = cursor
          \/ Done("w_nl", 1, 1) /\ cursor' = [x |-> 0, y |-> cursor.y + 1]
          \/ Done("w_top", 1, n) /\ cursor' = Echo(cursor, n)
      BY <1>11 DEF WritePut, n
    <2>5. OnScreen(cursor, "w_top") /\ OnScreen(Echo(cursor, n), "w_top")
      BY <2>2, <2>3 DEF OnScreen
    <2>6. OnScreen([x |-> 0, y |-> cursor.y + 1], "w_nl")
      BY <1>0, <2>2 DEF OnScreen
    <2> QED
      BY <1>4, <1>5, <2>1, <2>4, <2>5, <2>6
  <1> QED
    BY <1>6, <1>7, <1>8, <1>9, <1>10, <1>11 DEF Writer

(* For every size of the screen, the cursor stays on it, at every point of *)
(* terminal_write and whatever is typed meanwhile, provided that no key    *)
(* comes between a test of the row and the move it decides.                *)
THEOREM CursorStays == ASSUME CursorQuiet PROVE Spec => []CursorOnScreen
  <1>1. Init => CursorInv
    BY TermAssumption DEF Init, CursorInv, OnScreen, Home, Idle
  <1>2. TypeInv /\ CursorInv /\ [Next]_vars => (TypeInv /\ CursorInv)'
    <2> SUFFICES ASSUME TypeInv, CursorInv, [Next]_vars PROVE CursorInv'
      BY TypesStep
    <2>1. CASE UNCHANGED vars
      BY <2>1 DEF vars, scrVars, CursorInv
    <2> QED
      BY <2>1, KeysCursor, ReaderCursor, WriterCursor DEF Next
  <1>3. CursorInv => CursorOnScreen
    BY Zenon DEF CursorInv, OnScreen, CursorOnScreen
  <1> QED
    BY <1>1, <1>2, <1>3, TypesInit, PTL DEF Spec

-----------------------------------------------------------------------------
(* A program's count of characters written changes with its count of       *)
(* characters drawn.                                                       *)
LEMMA WrittenStep ==
    ASSUME TypeInv, EditInv, EditQuiet, AllWritten, [Next]_vars
    PROVE  AllWritten'
  <1> USE DEF AllWritten
  <1>0. prog \in [Terms -> Programs] /\ prog[term] \in Programs /\ term \in Terms
    BY DEF TypeInv
  <1>1. ASSUME UNCHANGED prog PROVE AllWritten'
    BY <1>1
  <1>2. ASSUME NEW q, q.drawn = q.count, prog' = [prog EXCEPT ![term] = q] PROVE AllWritten'
    BY <1>0, <1>2
  <1>3. ASSUME NEW label \in Labels, Goto(label) PROVE AllWritten'
    <2>1. /\ Idle.drawn = Idle.count
          /\ [prog[term] EXCEPT !.pc = label].drawn = [prog[term] EXCEPT !.pc = label].count
      BY <1>0 DEF Idle, Programs
    <2> QED
      BY <1>2, <1>3, <2>1 DEF Goto
  <1>4. ASSUME NEW label \in Labels, NEW a \in Nat, Done(label, a, a) PROVE AllWritten'
    <2>1. Dealt(prog[term], label, a, a).drawn = Dealt(prog[term], label, a, a).count
      BY <1>0, DealtFields
    <2> QED
      BY <1>2, <1>4, <2>1 DEF Done, Dealt
  <1>5. CASE Keys \/ UNCHANGED vars
    BY <1>1, <1>5 DEF Keys, Spaces, LetterWraps, Letter, Type, Backspace, Enter, EnterOff, CtrlL,
                      Switch, vars
  <1>6. ASSUME NEW label, NEW n, prog' = [prog EXCEPT ![term] = [Idle EXCEPT !.pc = label, !.nbytes = n]]
        PROVE  AllWritten'
    <2>1. /\ [Idle EXCEPT !.pc = label, !.nbytes = n].drawn = 0
          /\ [Idle EXCEPT !.pc = label, !.nbytes = n].count = 0
      BY DEF Idle
    <2> QED
      BY <1>2, <1>6, <2>1
  <1>7. CASE Reader
    <2>1. CASE Wake \/ Copy \/ Clear
      BY <1>3, <2>1 DEF Wake, Copy, Clear, Labels
    <2> QED
      BY <1>6, <1>7, <2>1, Zenon DEF Reader, Read
  <1>8. CASE Writer
    <2>1. ASSUME NEW n \in Requests, Write(n) PROVE AllWritten'
      BY <1>6, <2>1, Zenon DEF Write
    <2>2. CASE WriteTop
      BY <1>3, <2>2 DEF WriteTop, Labels
    <2>3. CASE WriteDown \/ WriteUp \/ WriteWrap \/ WriteNewLine
      BY <1>3, <2>3 DEF WriteDown, WriteUp, WriteWrap, WriteNewLine, WriteMove, Labels
    <2>4. ASSUME NEW c \in Chars, WritePut(c) PROVE AllWritten'
      <3>1. key_index[term] \in 0 .. MAX_BUFF_LENGTH - 1
        <4>1. key_index[term] \in Nat /\ key_index[term] <= LINE_LIMIT
          BY <1>0 DEF TypeInv, EditInv, LinesOK, LineOK
        <4> QED
          BY <4>1, TermAssumption DEF EditQuiet
      <3>2. Shown(key_index[term], 1) = 1
        BY <3>1, ShownOne
      <3>3. Done("w_top", 0, 0) \/ Done("w_nl", 1, 1) \/ Done("w_top", 1, 1)
        BY <2>4, <3>2 DEF WritePut
      <3>4. "w_top" \in Labels /\ "w_nl" \in Labels
        BY DEF Labels
      <3> QED
        BY <1>4, <3>3, <3>4
    <2> QED
      BY <1>8, <2>1, <2>2, <2>3, <2>4 DEF Writer
  <1> QED
    BY <1>5, <1>7, <1>8 DEF Next

(* While lines are shorter than the buffer, terminal_write draws every     *)
(* character that it counts, though putc looks at the typed line.          *)
THEOREM AllIsWritten == ASSUME EditQuiet PROVE Spec => []AllWritten
  <1>1. Init => AllWritten
    BY DEF Init, AllWritten, Idle
  <1>2. TypeInv /\ EditInv /\ AllWritten /\ [Next]_vars => AllWritten'
    BY WrittenStep
  <1> QED
    BY <1>1, <1>2, EditAlways, PTL DEF Spec
=============================================================================
