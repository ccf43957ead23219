-------------------------------- MODULE Fish --------------------------------
(***************************************************************************)
(* The program fish (fish.c, blink.S): two pictures that alternate.        *)
(* Every blinking place is a structure of blink_array, in a list; a tick   *)
(* of the clock counts all of them down.  main reads the pictures, waits   *)
(* for ticks, and adds, synchronises and removes one more place.           *)
(*                                                                         *)
(* A slot is a structure's index, counted from 1; a slot whose location is *)
(* 0 is free (mp1_malloc).  The screen is what mp1_poke has written.       *)
(***************************************************************************)
EXTENDS Integers, Sequences, FiniteSetsExt

CONSTANTS
    ROWS, COLS, OFFSET,    \* 25, 80, 40
    SLOTS,                 \* length of blink_array, 80*25
    LOCATIONS,             \* values of a location, an unsigned short: 65536
    Ink,                   \* the signs of a picture, other than the blank
    PLACE, LENGTHS,        \* of the place added last: location, <<on, off>>
    BLINK,                 \* on_length and off_length of the pictures, 15
    WAIT,                  \* ticks of each wait, 100
    MAX_PICTURE            \* bound: bytes of a picture

NUL == 0
Blank == " "
NEWLINE == "newline"
Slots == 1 .. SLOTS

ASSUME FishAssumption ==
    /\ {ROWS, COLS, SLOTS, BLINK} \subseteq Nat \ {0}
    /\ OFFSET \in 1 .. COLS - 1 /\ PLACE \in 1 .. ROWS * COLS - 1
    /\ LOCATIONS \in Nat /\ ROWS * COLS <= LOCATIONS
    /\ WAIT \in Nat \ {0} /\ MAX_PICTURE \in Nat
    /\ Blank \notin Ink /\ NEWLINE \notin Ink

VARIABLES
    blink, head,     \* blink_array and mp1_list_head
    screen,          \* what has been poked, by location
    frames,          \* the two files
    at,              \* bytes read of each
    c, eof,          \* c0 and c1, eof0 and eof1
    row, col,
    fpc, ticks       \* where main is, and the ticks left of its wait

listVars == <<blink, head, screen>>
readVars == <<at, c, eof, row, col>>
fVars == <<listVars, frames, readVars, fpc, ticks>>

Free == [location |-> 0, on_char |-> "zero", off_char |-> "zero", on_length |-> 0,
         off_length |-> 0, countdown |-> 0, status |-> 0, next |-> NUL]

Pictures == UNION {[1 .. n -> Ink \cup {Blank, NEWLINE}] : n \in 0 .. MAX_PICTURE}

FishInit ==
    /\ blink = [s \in Slots |-> Free] /\ head = NUL
    /\ screen = [l \in 0 .. ROWS * COLS - 1 |-> Blank]
    /\ frames = <<<<>>, <<>>>>
    /\ at = <<0, 0>> /\ c = <<"0", "0">> /\ eof = <<FALSE, FALSE>>
    /\ row = 0 /\ col = 0
    /\ fpc = "start" /\ ticks = 0

-----------------------------------------------------------------------------
(* blink.S *)

(* The slot after n links from the head on.                                *)
Linked[n \in Nat] ==
    IF n = 0 THEN head
    ELSE LET s == Linked[n - 1] IN IF s = NUL THEN NUL ELSE blink[s].next

(* The list; one longer than the array is cut there.                       *)
Listed == [i \in 1 .. Cardinality({n \in 0 .. SLOTS - 1 : Linked[n] # NUL}) |-> Linked[i - 1]]

(* mp1_find_helper: the first structure of the list for this place.        *)
Find(loc) ==
    LET hits == {i \in 1 .. Len(Listed) : blink[Listed[i]].location = loc}
    IN  IF hits = {} THEN NUL ELSE Listed[Min(hits)]

(* mp1_malloc                                                              *)
Malloc ==
    LET free == {s \in Slots : blink[s].location = 0}
    IN  IF free = {} THEN NUL ELSE Min(free)

(* mp1_ioctl_add of a structure b: at the front of the list, shown as on.  *)
mp1_ioctl_add(b) ==
    IF b.location >= ROWS * COLS \/ Malloc = NUL THEN UNCHANGED listVars
    ELSE /\ blink' = [blink EXCEPT ![Malloc] =
                        [b EXCEPT !.status = 1, !.countdown = b.on_length, !.next = head]]
         /\ head' = Malloc
         /\ screen' = [screen EXCEPT ![b.location] = b.on_char]

(* Wrong variant: the head of the list still points to the structure.      *)
BugRemove(loc) ==
    IF Find(loc) = NUL THEN UNCHANGED listVars
    ELSE LET s == Find(loc) IN
         /\ blink' = [blink EXCEPT ![s] = Free]
         /\ UNCHANGED <<head, screen>>

(* mp1_ioctl_remove and mp1_free; the screen keeps what it shows.          *)
mp1_ioctl_remove(loc) ==
    IF Find(loc) = NUL THEN UNCHANGED listVars
    ELSE LET s == Find(loc) IN
         /\ blink' = [r \in Slots |->
                        IF r = s THEN Free
                        ELSE IF blink[r].location # 0 /\ blink[r].next = s
                        THEN [blink[r] EXCEPT !.next = blink[s].next]
                        ELSE blink[r]]
         /\ head' = IF head = s THEN blink[s].next ELSE head
         /\ UNCHANGED screen

(* mp1_ioctl_sync.  The test before the conditional move never leaves the  *)
(* flags of a lesser result, so the off character is shown in either case. *)
mp1_ioctl_sync(from, to) ==
    IF Find(from) = NUL \/ Find(to) = NUL THEN UNCHANGED listVars
    ELSE LET a == blink[Find(from)]  s == Find(to) IN
         /\ blink' = [blink EXCEPT ![s].on_length = a.on_length,
                         ![s].off_length = a.off_length,
                         ![s].countdown = a.countdown, ![s].status = a.status]
         /\ screen' = [screen EXCEPT ![to] = blink[s].off_char]
         /\ UNCHANGED head

Due(b) == b.countdown - 1 <= 0

(* One structure at a tick.                                                *)
Ticked(b) ==
    IF ~Due(b) THEN [b EXCEPT !.countdown = @ - 1]
    ELSE [b EXCEPT !.countdown = IF b.status = 1 THEN b.off_length ELSE b.on_length,
                   !.status = 1 - @]

(* mp1_rtc_tasklet; of two structures for one place, the later one is seen.*)
mp1_rtc_tasklet ==
    LET list == Listed
        due(l) == SelectSeq(list, LAMBDA s : blink[s].location = l /\ Due(blink[s]))
        poked(b) == IF b.status = 1 THEN b.off_char ELSE b.on_char
    IN  /\ blink' = [s \in Slots |->
                       IF \E i \in 1 .. Len(list) : list[i] = s THEN Ticked(blink[s])
                       ELSE blink[s]]
        /\ screen' = [l \in DOMAIN screen |->
                        IF due(l) = <<>> THEN screen[l] ELSE poked(blink[due(l)[Len(due(l))]])]
        /\ UNCHANGED head

-----------------------------------------------------------------------------
(* add_frames *)

(* The files are there before fish starts.                                 *)
Start ==
    /\ fpc = "start" /\ fpc' = "cell"
    /\ \E f0, f1 \in Pictures : frames' = <<f0, f1>>
    /\ UNCHANGED <<listVars, readVars, ticks>>

(* Wrong variant: a file is read on after the end of its line.             *)
BugByte(n) == IF at[n] < Len(frames[n]) THEN frames[n][at[n] + 1] ELSE NEWLINE

(* c0 or c1 after its read: none once the line or the file has ended.      *)
Byte(n) ==
    IF c[n] = NEWLINE THEN NEWLINE
    ELSE IF at[n] < Len(frames[n]) THEN frames[n][at[n] + 1] ELSE NEWLINE

Reads(n) == c[n] # NEWLINE /\ at[n] < Len(frames[n])

Shown(sign) == IF sign = NEWLINE THEN Blank ELSE sign

(* The place of a cell, cut to the width of the field location.            *)
Location(r, k) == (r * COLS + k + OFFSET) % LOCATIONS

(* One turn of the inner loop.                                             *)
AddCell ==
    /\ fpc = "cell"
    /\ LET b == <<Byte(1), Byte(2)>>
           ended == <<eof[1] \/ (c[1] # NEWLINE /\ ~Reads(1)),
                      eof[2] \/ (c[2] # NEWLINE /\ ~Reads(2))>>
       IN  /\ at' = <<at[1] + (IF Reads(1) THEN 1 ELSE 0), at[2] + (IF Reads(2) THEN 1 ELSE 0)>>
           /\ eof' = ended
           /\ IF b[1] = NEWLINE /\ b[2] = NEWLINE
              THEN /\ row' = row + 1 /\ col' = 0
                   /\ c' = <<IF ended[1] THEN NEWLINE ELSE "0",
                             IF ended[2] THEN NEWLINE ELSE "0">>
                   /\ fpc' = IF ended[1] /\ ended[2] THEN "wait1" ELSE "cell"
                   /\ ticks' = WAIT
                   /\ UNCHANGED listVars
              ELSE /\ c' = b /\ col' = col + 1
                   /\ IF Shown(b[1]) = Blank /\ Shown(b[2]) = Blank
                      THEN UNCHANGED listVars
                      ELSE mp1_ioctl_add([Free EXCEPT
                              !.on_char = Shown(b[1]), !.off_char = Shown(b[2]),
                              !.on_length = BLINK, !.off_length = BLINK,
                              !.location = Location(row, col)])
                   /\ UNCHANGED <<row, fpc, ticks>>
    /\ UNCHANGED frames

-----------------------------------------------------------------------------
(* main *)

(* A tick; on a list without an end the tasklet never returns.             *)
Tick ==
    /\ fpc \in {"wait1", "wait2", "wait3", "wait4"} /\ ticks > 0
    /\ Linked[SLOTS] = NUL
    /\ mp1_rtc_tasklet
    /\ ticks' = ticks - 1
    /\ UNCHANGED <<frames, readVars, fpc>>

AddPlace ==
    /\ fpc = "wait1" /\ ticks = 0
    /\ mp1_ioctl_add([Free EXCEPT !.location = PLACE, !.on_char = "I", !.off_char = "M",
                         !.on_length = LENGTHS[1], !.off_length = LENGTHS[2]])
    /\ fpc' = "wait2" /\ ticks' = WAIT
    /\ UNCHANGED <<frames, readVars>>

Sync ==
    /\ fpc = "wait2" /\ ticks = 0
    /\ mp1_ioctl_sync(OFFSET, PLACE)
    /\ fpc' = "wait3" /\ ticks' = WAIT
    /\ UNCHANGED <<frames, readVars>>

RemovePlace ==
    /\ fpc = "wait3" /\ ticks = 0
    /\ mp1_ioctl_remove(PLACE)
    /\ fpc' = "wait4" /\ ticks' = WAIT
    /\ UNCHANGED <<frames, readVars>>

FishNext == Start \/ AddCell \/ Tick \/ AddPlace \/ Sync \/ RemovePlace

FishSpec == FishInit /\ [][FishNext]_fVars

-----------------------------------------------------------------------------
(* Reference: the byte of a picture that is the sign in a row and column,  *)
(* both from 0: that many line ends stand before it, and that many bytes   *)
(* between the last of them and it.                                        *)
Newlines(f, p) == {j \in 1 .. p : f[j] = NEWLINE}

Places(f, r, k) ==
    {p \in k + 1 .. Len(f) :
        /\ Cardinality(Newlines(f, p)) = r
        /\ \A j \in p - k .. p : f[j] # NEWLINE
        /\ p = k + 1 \/ f[p - k - 1] = NEWLINE}

CellOf(f, r, k) ==
    IF Places(f, r, k) = {} THEN Blank ELSE f[CHOOSE p \in Places(f, r, k) : TRUE]

Inked(f) == {rk \in (0 .. Len(f)) \X (0 .. Len(f)) : CellOf(f, rk[1], rk[2]) # Blank}

(* No sign of the pictures stands so low or so far to the right that its   *)
(* place does not fit into a location, and                                 *)
Addressable ==
    \A n \in 1 .. 2 : \A rk \in Inked(frames[n]) : rk[1] * COLS + rk[2] + OFFSET < LOCATIONS

(* none is in a column beyond the right edge of the screen.                *)
Narrow == \A n \in 1 .. 2 : \A rk \in Inked(frames[n]) : rk[2] < COLS - OFFSET

(* The list reaches every structure in use exactly once, and no free one:  *)
(* an added structure never replaces one that is still listed, and a       *)
(* removed one leaves no link behind.  (A location cut to 0 would free the *)
(* structure that was just added.)                                         *)
ListSound ==
    Addressable =>
        /\ Cardinality(Range(Listed)) = Len(Listed)
        /\ Range(Listed) = {s \in Slots : blink[s].location # 0}
        /\ Listed # <<>> => blink[Listed[Len(Listed)]].next = NUL

(* When add_frames is done, every cell of the screen that is not blank in  *)
(* both pictures blinks between their signs, and no other does: the two    *)
(* files stay in step whatever the lengths of their lines, and the rows    *)
(* below the screen are left out.                                          *)
FramesDrawn ==
    fpc = "wait1" /\ ticks = WAIT /\ Addressable /\ Narrow =>
        {<<blink[s].location, blink[s].on_char, blink[s].off_char>> :
            s \in {r \in Slots : blink[r].location # 0}}
        = {<<rk[1] * COLS + rk[2] + OFFSET,
             CellOf(frames[1], rk[1], rk[2]), CellOf(frames[2], rk[1], rk[2])>> :
             rk \in {p \in (0 .. ROWS - 1) \X (0 .. COLS - OFFSET - 1) :
                \E n \in 1 .. 2 : CellOf(frames[n], p[1], p[2]) # Blank}}
=============================================================================
