------------------------------ MODULE ArgUtil ------------------------------
(***************************************************************************)
(* The splitting of a command line into words (utils/arg_util.c), which    *)
(* execute uses for the program's name and getargs for the rest, checked   *)
(* against a definition of the words of a line.  The only state is the     *)
(* line, which grows by a character at a time.                             *)
(***************************************************************************)
EXTENDS Integers, Sequences, FiniteSets

CONSTANTS Letters, MAX_LENGTH   \* bound: characters of a line

Space == "space"
Chars == Letters \cup {Space}

ASSUME ArgAssumption == MAX_LENGTH \in Nat /\ Space \notin Letters

VARIABLE argument_string

ArgInit == argument_string = <<>>

ArgNext ==
    /\ Len(argument_string) < MAX_LENGTH
    /\ \E c \in Chars : argument_string' = Append(argument_string, c)

ArgSpec == ArgInit /\ [][ArgNext]_argument_string

-----------------------------------------------------------------------------
(* Wrong variant: every space ends a word.                                 *)
BugScan(st, c) ==
    IF c = Space THEN [in_arg |-> FALSE, count |-> st.count + 1]
    ELSE [st EXCEPT !.in_arg = TRUE]

(* The two branches that open each loop: a space ends a word if in one.    *)
Scan(st, c) ==
    IF c = Space /\ st.in_arg THEN [in_arg |-> FALSE, count |-> st.count + 1]
    ELSE IF c # Space THEN [st EXCEPT !.in_arg = TRUE]
    ELSE st

Before == [in_arg |-> FALSE, count |-> 0]

(* in_arg and arg_count, or arg_index, after each turn of the loop.        *)
Scanned(s) ==
    LET f[i \in 0 .. Len(s)] == IF i = 0 THEN Before ELSE Scan(f[i - 1], s[i])
    IN  f

get_argument_count(s) ==
    LET st == Scanned(s)[Len(s)]
    IN  IF st.in_arg THEN st.count + 1 ELSE st.count

(* The characters get_argument copies and get_argument_length counts,      *)
(* after each turn.                                                        *)
Copied(s, index) ==
    LET f[i \in 0 .. Len(s)] ==
          IF i = 0 THEN <<>>
          ELSE IF s[i] # Space /\ Scanned(s)[i].count = index THEN Append(f[i - 1], s[i])
          ELSE f[i - 1]
    IN  f

Picked(s, index) == Copied(s, index)[Len(s)]

Fail == <<"fail">>

(* get_argument: fails beyond the last word.                               *)
get_argument(s, index) ==
    IF index >= get_argument_count(s) THEN Fail ELSE Picked(s, index)

(* get_argument_length                                                     *)
get_argument_length(s, index) ==
    IF index >= get_argument_count(s) \/ Picked(s, index) = <<>> THEN -1
    ELSE Len(Picked(s, index))

(* while (P(s[i])) i++, where the EOS follows the last character.          *)
SkipSpaces(s, i) ==
    CHOOSE j \in i .. Len(s) + 1 :
        /\ j <= Len(s) => s[j] # Space
        /\ \A k \in i .. j - 1 : s[k] = Space

SkipWord(s, i) ==
    CHOOSE j \in i .. Len(s) + 1 :
        /\ j <= Len(s) => s[j] = Space
        /\ \A k \in i .. j - 1 : s[k] # Space

(* get_next_arguments: one word leaves nothing.                            *)
get_next_arguments(s) ==
    IF get_argument_count(s) = 0 THEN Fail
    ELSE IF get_argument_count(s) = 1 THEN <<>>
    ELSE SubSeq(s, SkipSpaces(s, SkipWord(s, SkipSpaces(s, 1))), Len(s))

-----------------------------------------------------------------------------
(* Reference: the words of a line are its longest runs without a space,    *)
(* each an interval of positions.                                          *)
WordSpans(s) ==
    {w \in (1 .. Len(s)) \X (1 .. Len(s)) :
        /\ w[1] <= w[2]
        /\ \A k \in w[1] .. w[2] : s[k] # Space
        /\ w[1] = 1 \/ s[w[1] - 1] = Space
        /\ w[2] = Len(s) \/ s[w[2] + 1] = Space}

WordsBefore(s, w) == Cardinality({v \in WordSpans(s) : v[1] < w[1]})

Words(s) ==
    LET nth(n) == CHOOSE w \in WordSpans(s) : WordsBefore(s, w) = n - 1
    IN  [n \in 1 .. Cardinality(WordSpans(s)) |-> SubSeq(s, nth(n)[1], nth(n)[2])]

(* The functions, which each run their own copy of the scan, agree with    *)
(* each other and with the words of the line: as many as there are, each   *)
(* in full, and a failure beyond the last.  The arguments execute stores   *)
(* for getargs have exactly the words after the first, and start with one. *)
(* Spaces may be anywhere.                                                 *)
SplitsWords ==
    LET s == argument_string
        words == Words(s)
        rest == get_next_arguments(s)
    IN  /\ get_argument_count(s) = Len(words)
        /\ \A n \in 1 .. Len(words) :
              /\ get_argument(s, n - 1) = words[n]
              /\ get_argument_length(s, n - 1) = Len(words[n])
        /\ get_argument(s, Len(words)) = Fail
        /\ get_argument_length(s, Len(words)) = -1
        /\ words # <<>> => /\ Words(rest) = Tail(words)
                           /\ rest # <<>> => rest[1] # Space
=============================================================================
