-------------------------------- MODULE Lib --------------------------------
(***************************************************************************)
(* The memory functions of lib.c, instruction by instruction (memcpy,      *)
(* memset and memmove are assembler loops that change between bytes and    *)
(* words), and its conversion of numbers (itoa and the %x, %#x, %u and %d  *)
(* of printf).  One call is made and runs to its end.                      *)
(***************************************************************************)
EXTENDS Integers, Sequences

CONSTANTS
    CELLS,       \* bound: bytes of memory
    BITS,        \* width of an int32_t
    HEX_DIGITS   \* hexadecimal digits of a word, 8

WORD == 4
MemOps == {"memcpy", "memset", "memmove"}
Conversions == {"x", "#x", "u", "d"}

Pow2[n \in Nat] == IF n = 0 THEN 1 ELSE 2 * Pow2[n - 1]

WordValues == 0 .. Pow2[BITS] - 1

ASSUME LibAssumption ==
    CELLS \in Nat /\ HEX_DIGITS \in Nat \ {0} /\ BITS = HEX_DIGITS * 4

VARIABLES
    call,            \* op, dest, src and n; for printf the conversion and the word
    memory,
    esi, edi, ecx, edx, df,
    lpc,             \* the label reached; idle before the call, done after it
    text             \* what printf has put

regs == <<esi, edi, ecx, edx, df>>
lVars == <<call, memory, regs, lpc, text>>

NoCall == [op |-> "none", dest |-> 0, src |-> 0, n |-> 0]

(* Every cell has a content of its own.                                    *)
LibInit ==
    /\ call = NoCall
    /\ memory = [i \in 0 .. CELLS - 1 |-> i]
    /\ esi = 0 /\ edi = 0 /\ ecx = 0 /\ edx = 0 /\ df = FALSE
    /\ lpc = "idle"
    /\ text = <<>>

Fill == -1   \* the byte memset stores

(* Wrong variant: the direction is chosen the other way round.             *)
BugMoveStart(dest, src, n) ==
    IF src <= dest THEN <<src, dest, FALSE>> ELSE <<src + n - 1, dest + n - 1, TRUE>>

(* memmove up to the label .memmove_go                                     *)
MoveStart(dest, src, n) ==
    IF src >= dest THEN <<src, dest, FALSE>> ELSE <<src + n - 1, dest + n - 1, TRUE>>

CallMem(op, dest, src, n) ==
    /\ lpc = "idle"
    /\ call' = [op |-> op, dest |-> dest, src |-> src, n |-> n]
    /\ LET start == IF op = "memmove" THEN MoveStart(dest, src, n) ELSE <<src, dest, FALSE>>
       IN  esi' = start[1] /\ edi' = start[2] /\ df' = start[3]
    /\ ecx' = n /\ edx' = 0
    /\ lpc' = IF op = "memmove" THEN "movsb" ELSE "top"
    /\ UNCHANGED <<memory, text>>

(* k bytes at once from esi, or of the fill, to edi.                       *)
Store(k) ==
    memory' = [i \in DOMAIN memory |->
                 IF i \in edi .. edi + k - 1
                 THEN (IF call.op = "memset" THEN Fill ELSE memory[esi + i - edi])
                 ELSE memory[i]]

Advance(k) ==
    /\ edi' = edi + k
    /\ esi' = IF call.op = "memset" THEN esi ELSE esi + k

(* .memcpy_top, .memset_top: a byte until edi is aligned                   *)
ToAlign ==
    /\ lpc = "top"
    /\ IF ecx = 0 THEN lpc' = "done" /\ UNCHANGED <<memory, regs>>
       ELSE IF edi % WORD = 0
       THEN lpc' = "rep" /\ ecx' = ecx \div WORD /\ edx' = ecx % WORD
            /\ UNCHANGED <<memory, esi, edi, df>>
       ELSE Store(1) /\ Advance(1) /\ ecx' = ecx - 1 /\ UNCHANGED <<lpc, edx, df>>
    /\ UNCHANGED <<call, text>>

(* rep movsl, rep stosl                                                    *)
RepWord ==
    /\ lpc = "rep"
    /\ IF ecx = 0 THEN lpc' = "bottom" /\ UNCHANGED <<memory, regs>>
       ELSE Store(WORD) /\ Advance(WORD) /\ ecx' = ecx - 1 /\ UNCHANGED <<lpc, edx, df>>
    /\ UNCHANGED <<call, text>>

(* .memcpy_bottom, .memset_bottom                                          *)
Bottom ==
    /\ lpc = "bottom"
    /\ IF edx = 0 THEN lpc' = "done" /\ UNCHANGED <<memory, regs>>
       ELSE Store(1) /\ Advance(1) /\ edx' = edx - 1 /\ UNCHANGED <<lpc, ecx, df>>
    /\ UNCHANGED <<call, text>>

(* rep movsb, in the direction of the flag                                 *)
RepByte ==
    /\ lpc = "movsb"
    /\ IF ecx = 0 THEN lpc' = "done" /\ UNCHANGED <<memory, regs>>
       ELSE /\ Store(1)
            /\ esi' = esi + (IF df THEN -1 ELSE 1) /\ edi' = edi + (IF df THEN -1 ELSE 1)
            /\ ecx' = ecx - 1 /\ UNCHANGED <<lpc, edx, df>>
    /\ UNCHANGED <<call, text>>

-----------------------------------------------------------------------------
(* itoa and printf *)

(* strrev: exchange the ends and go inwards; s after so many exchanges,    *)
swapped(s) ==
    LET f[beg \in 0 .. Len(s) \div 2] ==
          IF beg = 0 THEN s
          ELSE LET t == f[beg - 1]  end == Len(s) + 1 - beg
               IN  [i \in 1 .. Len(s) |-> IF i \in {beg, end} THEN t[beg + end - i] ELSE t[i]]
    IN  f

(* and until they meet.                                                    *)
strrev(s) == swapped(s)[Len(s) \div 2]

(* newval of itoa, after so many turns of its loop, and their number.      *)
newval(value, radix) ==
    LET f[k \in Nat] == IF k = 0 THEN value ELSE f[k - 1] \div radix
    IN  f

turns(value, radix) ==
    CHOOSE n \in 0 .. value :
        newval(value, radix)[n] = 0 /\ \A k \in 0 .. n - 1 : newval(value, radix)[k] > 0

(* Digits are numbers.  The lowest comes first, and strrev turns them.     *)
itoa(value, radix) ==
    IF value = 0 THEN <<0>>
    ELSE strrev([i \in 1 .. turns(value, radix) |-> newval(value, radix)[i - 1] % radix])

Minus == -1

(* Wrong variant: one zero too many.                                       *)
BugPad(digits) == [i \in 1 .. HEX_DIGITS + 1 - Len(digits) |-> 0] \o digits

(* conv_buf from starting_index on: zeros up to where the digits are.      *)
Pad(digits) == [i \in 1 .. HEX_DIGITS - Len(digits) |-> 0] \o digits

(* A word as an int32_t, and the negation of one.                          *)
Signed(w) == IF w >= Pow2[BITS - 1] THEN w - Pow2[BITS] ELSE w
Negated(w) == (Pow2[BITS] - w) % Pow2[BITS]

Converted(conv, w) ==
    CASE conv = "x" -> itoa(w, 16)
      [] conv = "#x" -> Pad(itoa(w, 16))
      [] conv = "u" -> itoa(w, 10)
      [] conv = "d" -> IF Signed(w) < 0 THEN <<Minus>> \o itoa(Negated(w), 10)
                       ELSE itoa(w, 10)

printf(conv, w) ==
    /\ lpc = "idle" /\ lpc' = "done"
    /\ call' = [NoCall EXCEPT !.op = conv, !.n = w]
    /\ text' = Converted(conv, w)
    /\ UNCHANGED <<memory, regs>>

LibNext ==
    \/ \E op \in MemOps, dest, src, n \in 0 .. CELLS :
          dest + n <= CELLS /\ src + n <= CELLS /\ CallMem(op, dest, src, n)
    \/ ToAlign \/ RepWord \/ Bottom \/ RepByte
    \/ \E conv \in Conversions, w \in WordValues : printf(conv, w)

LibSpec == LibInit /\ [][LibNext]_lVars

-----------------------------------------------------------------------------
(* At the end of a call the n bytes are those of the source, as they were, *)
(* or the fill, and every other byte is untouched, for every alignment and *)
(* length.  memmove may have its areas overlap in any way, memcpy where    *)
(* the destination begins before the source.                               *)
MemoryMoved ==
    LET d == call.dest  s == call.src  n == call.n IN
    lpc = "done" /\ call.op \in MemOps
    /\ (call.op = "memcpy" => d <= s \/ d >= s + n) =>
        memory = [i \in 0 .. CELLS - 1 |->
                    IF i \notin d .. d + n - 1 THEN i
                    ELSE IF call.op = "memset" THEN Fill ELSE s + i - d]

(* Reference: the number that the first so many digits stand for.          *)
Values(digits, radix) ==
    LET f[k \in 0 .. Len(digits)] == IF k = 0 THEN 0 ELSE f[k - 1] * radix + digits[k]
    IN  f

ValueOf(digits, radix) == Values(digits, radix)[Len(digits)]

(* What printf puts reads as the number it was given, also the most        *)
(* negative one, without superfluous zeros; %#x has all digits of a word.  *)
NumbersPrinted ==
    LET w == call.n
        digits == IF text[1] = Minus THEN Tail(text) ELSE text
    IN  lpc = "done" /\ call.op \in Conversions =>
          /\ CASE call.op = "d" -> Signed(w) = ValueOf(digits, 10) * (IF text[1] = Minus THEN -1 ELSE 1)
               [] call.op = "u" -> w = ValueOf(text, 10)
               [] OTHER -> w = ValueOf(text, 16)
          /\ IF call.op = "#x" THEN Len(text) = HEX_DIGITS
             ELSE Len(digits) = 1 \/ digits[1] # 0
=============================================================================
