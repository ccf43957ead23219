------------------------------ MODULE Terminal ------------------------------
(***************************************************************************)
(* The terminals: line input (keyboard_handler, terminal_read), the cursor *)
(* (putc and friends of lib.c, terminal_write) and the three screens       *)
(* (switch_display_terminal).                                              *)
(*                                                                         *)
(* The running terminal is the displayed one (shown of ProcSched), so one  *)
(* variable stands for both.  The program of a terminal runs only while it *)
(* is displayed; the keyboard interrupts it at the points of KeyPoints.    *)
(***************************************************************************)
EXTENDS Integers, Sequences, FiniteSets

CONSTANTS MAX_TERMINAL_NUM, MAX_BUFF_LENGTH, NUM_COLS, NUM_ROWS, SHELL_OFFSET,
          TAB_WIDTH,    \* spaces of a Tab (4)
          Letters,      \* what KEY_TABLE yields
          Pictures,     \* contents of a screen
          Calls,        \* the system calls programs make: "read", "write"
          Requests,     \* the nbytes they pass
          LINE_LIMIT,   \* bound: characters the user types on one line
          Overlap,      \* may a key be pressed while Enter is still down?
          KeyPoints     \* where a key may interrupt the program

Terms == 0 .. MAX_TERMINAL_NUM - 1
Cols  == 0 .. MAX_BUFF_LENGTH - 1
Space == "space"
NL    == "nl"
NUL   == "nul"
Chars == Letters \cup {Space, NL, NUL}

(* user: not in terminal_read or terminal_write.  wait .. clear:           *)
(* terminal_read; woken is wait with enter_down set.  w_top .. w_nl:       *)
(* terminal_write and the putc it calls.                                   *)
Labels == {"user", "wait", "copy", "clear", "w_top", "w_down", "w_up", "w_wrap",
           "w_put", "w_nl"}
Points == Labels \cup {"woken"}
QuietPoints == {"user", "wait", "w_top", "w_put"}

(* temp and clear_offset are 8 bits where MAX_BUFF_LENGTH is 128; key_index wraps at a       *)
(* larger power of two, 2^32 in the code.                                  *)
TEMP == 2 * MAX_BUFF_LENGTH
WORD == 4 * MAX_BUFF_LENGTH

ASSUME TermAssumption ==
    /\ MAX_TERMINAL_NUM \in Nat \ {0}
    /\ MAX_BUFF_LENGTH \in Nat \ {0}
    /\ NUM_COLS \in Nat \ {0} /\ NUM_ROWS \in Nat \ {0}
    /\ SHELL_OFFSET \in 0 .. NUM_COLS - 1
    /\ TAB_WIDTH \in Nat
    /\ LINE_LIMIT \in Nat
    /\ Requests \subseteq Nat
    /\ Letters \cap {Space, NL, NUL} = {}
    /\ Overlap \in BOOLEAN
    /\ KeyPoints \subseteq Points

VARIABLES
    term,          \* display_terminal and running_terminal
    key_buffer, key_index, clear_offset,   \* per terminal
    enter_down,
    enter_held,    \* the Enter key is physically down
    cursor,        \* screen_x, screen_y
    wrapped,
    last_screen,   \* last_screen_x, last_screen_y
    video,         \* what the screen shows
    store,         \* the 4 KB kept for each terminal
    prog,          \* per terminal: label and locals of its call; drawn is history
    got,           \* what the terminal_read of each terminal is about to return
    line,          \* history: the line being typed, as edited
    entered        \* history: the line ended with Enter for the read waiting for it

bufVars  == <<key_buffer, key_index, clear_offset>>
scrVars  == <<cursor, wrapped, last_screen, video, store>>
histVars == <<line, entered>>
vars == <<term, bufVars, enter_down, enter_held, scrVars, prog, got, histVars>>

Home == [x |-> 0, y |-> 0]
Idle == [pc |-> "user", nbytes |-> 0, i |-> 0, count |-> 0, drawn |-> 0]

(* terminal_init, sched_init                                               *)
Init ==
    /\ term = 0
    /\ key_buffer = [t \in Terms |-> [i \in Cols |-> NUL]]
    /\ key_index = [t \in Terms |-> 0]
    /\ clear_offset = [t \in Terms |-> 0]
    /\ enter_down = FALSE
    /\ enter_held = FALSE
    /\ cursor = Home
    /\ wrapped = FALSE
    /\ last_screen = [t \in Terms |-> Home]
    /\ video \in Pictures
    /\ store = [t \in Terms |-> video]
    /\ prog = [t \in Terms |-> Idle]
    /\ got = [t \in Terms |-> <<>>]
    /\ line = [t \in Terms |-> <<>>]
    /\ entered = [t \in Terms |-> <<>>]

-----------------------------------------------------------------------------
(* lib.c: what the screen functions do to the cursor                       *)

(* Wrong variant: the last place of the buffer counts as full.             *)
BugRoom(index) == index < MAX_BUFF_LENGTH - 1

(* putc draws only while the typed line has not filled its buffer.         *)
Room(index) == index < MAX_BUFF_LENGTH

(* C's remainder, which keeps the sign.                                    *)
Rem(a, b) == IF a < 0 THEN -((-a) % b) ELSE a % b

(* putc of n ordinary characters.  screen_x is reduced before screen_y is  *)
(* computed from it, so the row does not advance.                          *)
Echo(c, n) ==
    IF n = 0 THEN c ELSE [x |-> (c.x + n) % NUM_COLS, y |-> Rem(c.y, NUM_ROWS)]

scroll_handle(c) == [x |-> 0, y |-> c.y - 1]

wrap_around(c) == [x |-> 0, y |-> c.y + 1]

(* Wrong variant: a line feed that does not look for the bottom.           *)
BugNoScroll(c) == [x |-> 0, y |-> c.y + 1]

(* putc('\n')                                                              *)
NewLine(c) ==
    LET d == [x |-> 0, y |-> c.y + 1]
    IN  IF d.y = NUM_ROWS THEN scroll_handle(d) ELSE d

print_backspace(c) ==
    IF c = Home THEN c
    ELSE IF c.x = 0 THEN [x |-> NUM_COLS - 1, y |-> c.y - 1]
    ELSE [c EXCEPT !.x = c.x - 1]

-----------------------------------------------------------------------------
(* keyboard_handler                                                        *)

PointOf(p) == IF p.pc = "wait" /\ enter_down THEN "woken" ELSE p.pc

KeyPress ==
    /\ PointOf(prog[term]) \in KeyPoints
    /\ Overlap \/ ~enter_held

(* key_buffer[t][i], wherever that is: past the end of a row comes the row *)
(* of the next terminal.                                                   *)
Cell(t, i) == <<t + (i \div MAX_BUFF_LENGTH), i % MAX_BUFF_LENGTH>>

(* key_buffer after n characters c have been stored from index i on.       *)
Stored(t, i, n, c) ==
    [u \in Terms |-> [j \in Cols |->
        IF \E k \in 0 .. n - 1 : Cell(t, (i + k) % TEMP) = <<u, j>>
        THEN c ELSE key_buffer[u][j]]]

(* How many of n characters typed from index i on putc draws.              *)
Shown(i, n) == Cardinality({k \in 0 .. n - 1 : Room(i + k)})

(* What n characters c typed at once do, the cursor aside.                 *)
Type(n, c) ==
    LET i == key_index[term]
    IN  /\ key_buffer' = Stored(term, i, n, c)
        /\ key_index' = [key_index EXCEPT ![term] = (i + n) % WORD]
        /\ line' = [line EXCEPT ![term] = @ \o [k \in 1 .. n |-> c]]
        /\ video' \in Pictures
        /\ UNCHANGED <<term, clear_offset, enter_down, enter_held, last_screen,
                       store, prog, got, entered>>

(* SPACE (n = 1) and TAB: no look at the buffer's length.                  *)
Spaces(n) ==
    /\ KeyPress
    /\ Len(line[term]) + n <= LINE_LIMIT
    /\ cursor' = Echo(cursor, Shown(key_index[term], n))
    /\ Type(n, Space)
    /\ UNCHANGED wrapped

(* A key of KEY_TABLE in the last column, for the first time on this line: *)
(* no look at the buffer's length either.                                  *)
LetterWraps(c) ==
    /\ KeyPress
    /\ Len(line[term]) < LINE_LIMIT
    /\ cursor.x + 1 = NUM_COLS /\ ~wrapped
    /\ LET d == Echo(cursor, Shown(key_index[term], 1))
       IN  cursor' = IF cursor.y + 1 = NUM_ROWS
                     THEN scroll_handle([d EXCEPT !.y = cursor.y + 1])
                     ELSE wrap_around(d)
    /\ wrapped' = TRUE
    /\ Type(1, c)

(* Any other key of KEY_TABLE is ignored once the buffer is full.          *)
Letter(c) ==
    /\ KeyPress
    /\ Len(line[term]) < LINE_LIMIT
    /\ ~(cursor.x + 1 = NUM_COLS /\ ~wrapped)
    /\ key_index[term] < MAX_BUFF_LENGTH
    /\ cursor' = Echo(cursor, Shown(key_index[term], 1))
    /\ Type(1, c)
    /\ UNCHANGED wrapped

(* Wrong variant: nothing stops at the start of the line.                  *)
BugErase(t) == TRUE

CanErase(t) == key_index[t] # clear_offset[t]

(* BACK                                                                    *)
Backspace ==
    /\ KeyPress
    /\ CanErase(term)
    /\ LET i == key_index[term]
       IN  /\ key_buffer' = Stored(term, i, 1, NUL)
           /\ key_index' = [key_index EXCEPT ![term] = (i - 1) % WORD]
    /\ cursor' = print_backspace(cursor)
    /\ wrapped' = (wrapped /\ ~(cursor.x = 0 /\ cursor.y # 0))
    /\ video' \in Pictures
    /\ line' = [line EXCEPT ![term] =
                  IF @ = <<>> THEN <<>> ELSE SubSeq(@, 1, Len(@) - 1)]
    /\ UNCHANGED <<term, clear_offset, enter_down, enter_held, last_screen, store,
                   prog, got, entered>>

(* ENTER                                                                   *)
Enter ==
    /\ KeyPress
    /\ key_buffer' = Stored(term, key_index[term], 1, NL)
    /\ key_index' = [key_index EXCEPT ![term] = 0]
    /\ clear_offset' = [clear_offset EXCEPT ![term] = 0]
    /\ cursor' = NewLine(cursor)
    /\ wrapped' = FALSE
    /\ video' \in Pictures
    /\ enter_down' = TRUE
    /\ enter_held' = TRUE
    /\ line' = [line EXCEPT ![term] = <<>>]
    /\ entered' = [entered EXCEPT ![term] =
                     IF prog[term].pc = "wait" THEN line[term] ELSE @]
    /\ UNCHANGED <<term, last_screen, store, prog, got>>

(* ENTER_OFF                                                               *)
EnterOff ==
    /\ PointOf(prog[term]) \in KeyPoints
    /\ enter_held
    /\ enter_down' = FALSE
    /\ enter_held' = FALSE
    /\ UNCHANGED <<term, bufVars, scrVars, prog, got, histVars>>

Cleared(t) == [key_buffer EXCEPT ![t] = [i \in Cols |-> NUL]]

(* Ctrl+L: the screen is redrawn with the prompt; what has been typed so   *)
(* far stays in the buffer but can no longer be erased.                    *)
CtrlL ==
    /\ KeyPress
    /\ IF key_index[term] # 0
       THEN /\ clear_offset' = [clear_offset EXCEPT ![term] = key_index[term] % TEMP]
            /\ UNCHANGED key_buffer
       ELSE /\ key_buffer' = Cleared(term)
            /\ UNCHANGED clear_offset
    /\ cursor' = [x |-> SHELL_OFFSET, y |-> 0]
    /\ video' \in Pictures
    /\ UNCHANGED <<term, key_index, enter_down, enter_held, wrapped, last_screen,
                   store, prog, got, histVars>>

(* Wrong variant: the screen is saved for the terminal being entered.      *)
BugSaved(t) == [store EXCEPT ![t] = video]

(* The first memcpy of switch_display_terminal.                            *)
Saved(t) == [store EXCEPT ![term] = video]

(* Alt+F1 .. Alt+F3: switch_display_terminal(t)                            *)
Switch(t) ==
    /\ KeyPress
    /\ t # term
    /\ last_screen' = [last_screen EXCEPT ![term] = cursor]
    /\ store' = Saved(t)
    /\ video' = store'[t]
    /\ cursor' = last_screen'[t]
    /\ term' = t
    /\ UNCHANGED <<bufVars, enter_down, enter_held, wrapped, prog, got, histVars>>

-----------------------------------------------------------------------------
(* terminal_read, of the program of the displayed terminal                 *)

At(label) == prog[term].pc = label

(* Returning forgets the locals of the call.                               *)
Goto(label) ==
    prog' = [prog EXCEPT ![term] = IF label = "user" THEN Idle
                                   ELSE [@ EXCEPT !.pc = label]]

(* Wrong variant: an Enter pressed before the call is taken for its own.   *)
BugStaleEnter(n) ==
    /\ At("user") /\ "read" \in Calls
    /\ prog' = [prog EXCEPT ![term] = [Idle EXCEPT !.pc = "wait", !.nbytes = n]]
    /\ UNCHANGED <<term, bufVars, enter_down, enter_held, scrVars, got, histVars>>

(* Entry, up to the busy loop.                                             *)
Read(n) ==
    /\ At("user") /\ "read" \in Calls
    /\ enter_down' = FALSE
    /\ prog' = [prog EXCEPT ![term] = [Idle EXCEPT !.pc = "wait", !.nbytes = n]]
    /\ UNCHANGED <<term, bufVars, enter_held, scrVars, got, histVars>>

(* The loop ends; a call for no bytes fails.                               *)
Wake ==
    /\ At("wait") /\ enter_down
    /\ enter_down' = FALSE
    /\ Goto(IF prog[term].nbytes = 0 THEN "user" ELSE "copy")
    /\ entered' = [entered EXCEPT ![term] = IF prog[term].nbytes = 0 THEN <<>> ELSE @]
    /\ UNCHANGED <<term, bufVars, enter_held, scrVars, got, line>>

(* The bytes counted and stored for a row: up to its first line feed, or   *)
(* all of it with the last one made a line feed.  strncpy stops at a NUL.  *)
Returned(row) ==
    LET ends == {i \in Cols : row[i] = NL}
        n == IF ends = {} THEN MAX_BUFF_LENGTH
             ELSE (CHOOSE i \in ends : \A j \in ends : i <= j) + 1
    IN  [k \in 1 .. n |->
           IF \E i \in 0 .. k - 1 : row[i] = NUL /\ i # MAX_BUFF_LENGTH - 1 THEN NUL
           ELSE IF k = n THEN NL
           ELSE row[k - 1]]

Copy ==
    /\ At("copy")
    /\ got' = [got EXCEPT ![term] = Returned(key_buffer[term])]
    /\ Goto("clear")
    /\ UNCHANGED <<term, bufVars, enter_down, enter_held, scrVars, histVars>>

(* clear_buffer, and the return, which forgets the line as well.           *)
Clear ==
    /\ At("clear")
    /\ key_buffer' = Cleared(term)
    /\ key_index' = [key_index EXCEPT ![term] = 0]
    /\ Goto("user")
    /\ got' = [got EXCEPT ![term] = <<>>]
    /\ entered' = [entered EXCEPT ![term] = <<>>]
    /\ UNCHANGED <<term, clear_offset, enter_down, enter_held, scrVars, line>>

-----------------------------------------------------------------------------
(* terminal_write and the putc it calls                                    *)

Write(n) ==
    /\ At("user") /\ "write" \in Calls
    /\ n # 0
    /\ prog' = [prog EXCEPT ![term] = [Idle EXCEPT !.pc = "w_top", !.nbytes = n]]
    /\ UNCHANGED <<term, bufVars, enter_down, enter_held, scrVars, got, histVars>>

(* The loop's test, and the test for the end of a row: of the call's       *)
(* characters, wherever the cursor is.                                     *)
WriteTop ==
    /\ At("w_top")
    /\ LET p == prog[term]
       IN  Goto(IF p.i = p.nbytes THEN "user"
                ELSE IF p.i % NUM_COLS # 0 \/ p.i = 0 THEN "w_put"
                ELSE IF cursor.y + 1 = NUM_ROWS THEN "w_down" ELSE "w_wrap")
    /\ UNCHANGED <<term, bufVars, enter_down, enter_held, scrVars, got, histVars>>

WriteMove(from, to, c) ==
    /\ At(from)
    /\ cursor' = c
    /\ video' \in Pictures
    /\ Goto(to)
    /\ UNCHANGED <<term, bufVars, enter_down, enter_held, wrapped, last_screen, store,
                   got, histVars>>

WriteDown == WriteMove("w_down", "w_up", [cursor EXCEPT !.y = @ + 1])
WriteUp   == WriteMove("w_up", "w_put", scroll_handle(cursor))
WriteWrap == WriteMove("w_wrap", "w_put", wrap_around(cursor))

(* The character x has been dealt with.                                    *)
Done(label, counted, drawn) ==
    LET p == prog[term]
    IN  prog' = [prog EXCEPT ![term] =
                   [p EXCEPT !.pc = label, !.i = p.i + 1, !.count = p.count + counted,
                             !.drawn = p.drawn + drawn]]

(* A character: a NUL is skipped, an ordinary one drawn if there is room,  *)
(* a line feed moves the cursor and leaves the test for the bottom to do.  *)
WritePut(c) ==
    /\ At("w_put")
    /\ LET n == Shown(key_index[term], 1)
       IN  CASE c = NUL -> /\ Done("w_top", 0, 0)
                           /\ UNCHANGED <<cursor, video>>
             [] c = NL  -> /\ cursor' = [x |-> 0, y |-> cursor.y + 1]
                           /\ Done("w_nl", 1, 1)
                           /\ UNCHANGED video
             [] OTHER   -> /\ cursor' = Echo(cursor, n)
                           /\ Done("w_top", 1, n)
                           /\ IF n = 0 THEN UNCHANGED video ELSE video' \in Pictures
    /\ UNCHANGED <<term, bufVars, enter_down, enter_held, wrapped, last_screen, store,
                   got, histVars>>

WriteNewLine ==
    WriteMove("w_nl", "w_top",
              IF cursor.y = NUM_ROWS THEN scroll_handle(cursor) ELSE cursor)

-----------------------------------------------------------------------------
Keys ==
    \/ Spaces(1) \/ Spaces(TAB_WIDTH)
    \/ \E c \in Letters : LetterWraps(c) \/ Letter(c)
    \/ Backspace \/ Enter \/ EnterOff \/ CtrlL
    \/ \E t \in Terms : Switch(t)

Reader == (\E n \in Requests : Read(n)) \/ Wake \/ Copy \/ Clear

Writer ==
    \/ \E n \in Requests : Write(n)
    \/ WriteTop \/ WriteDown \/ WriteUp \/ WriteWrap \/ WriteNewLine
    \/ \E c \in Chars : WritePut(c)

Next == Keys \/ Reader \/ Writer

Spec == Init /\ [][Next]_vars

-----------------------------------------------------------------------------
(* Whatever the user types, erases and clears, and however often they      *)
(* change terminals on the way, key_buffer and key_index of each terminal  *)
(* hold exactly the line being typed there, and clear_offset lies in it.   *)
EditMatches ==
    \A t \in Terms :
        /\ key_index[t] = Len(line[t])
        /\ clear_offset[t] <= key_index[t]
        /\ \A i \in 1 .. Len(line[t]) : key_buffer[t][i - 1] = line[t][i]

(* The line as terminal_read's comment promises it: with its line feed, or *)
(* as much as fits in the buffer.                                          *)
Promised(l) ==
    IF Len(l) < MAX_BUFF_LENGTH THEN Append(l, NL)
    ELSE Append(SubSeq(l, 1, MAX_BUFF_LENGTH - 1), NL)

(* terminal_read returns the line that was ended with Enter on the         *)
(* caller's own terminal: not an older one, not one being typed, not       *)
(* another terminal's.                                                     *)
ReadsLine == \A t \in Terms : prog[t].pc = "clear" => got[t] = Promised(entered[t])

(* What a user sees of terminal t and has typed there.                     *)
Console(t) ==
    <<key_buffer[t], key_index[t], clear_offset[t],
      IF t = term THEN cursor ELSE last_screen[t],
      IF t = term THEN video ELSE store[t]>>

(* No key and no output on the displayed terminal touches the line, cursor *)
(* or screen of another one, and changing terminals changes neither of the *)
(* two: switch_display_terminal loses and mixes up nothing.                *)
ConsolesSeparate ==
    [][\A t \in Terms : (t # term \/ term' # term) => Console(t)' = Console(t)]_vars

(* The cursor, and the saved one of a terminal not displayed, is within a  *)
(* row at every point of the code, and on a row of the screen except       *)
(* between putc's line feed and its scrolling.                             *)
CursorOnScreen ==
    \A t \in Terms :
        LET c == IF t = term THEN cursor ELSE last_screen[t]
        IN  /\ c.x \in 0 .. NUM_COLS - 1
            /\ prog[t].pc \notin {"w_up", "w_nl"} => c.y \in 0 .. NUM_ROWS - 1

(* terminal_write draws every character that it counts as written.         *)
AllWritten == \A t \in Terms : prog[t].drawn = prog[t].count
=============================================================================
