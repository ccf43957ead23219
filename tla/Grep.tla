-------------------------------- MODULE Grep --------------------------------
(***************************************************************************)
(* The program grep (ece391grep.c): it searches every file of the          *)
(* directory for a pattern, through a buffer in which the beginning of a   *)
(* line is kept while the rest is read.  Files gives the system calls: a   *)
(* read returns what is asked for, up to the end of the file, and then 0.  *)
(***************************************************************************)
EXTENDS Integers, Sequences, FiniteSets, Functions

CONSTANTS
    BUFSIZE,       \* 1024
    Signs,         \* what files hold between the ends of lines
    Patterns,      \* the arguments of grep, not empty
    MAX_TEXT,      \* bound: length of all files together
    MAX_FILES,     \* bound: files of the directory
    Garbage        \* what the buffer may hold before it is written

EOL == "eol"
EOS == "eos"

ASSUME GrepAssumption ==
    /\ BUFSIZE \in Nat \ {0} /\ MAX_TEXT \in Nat /\ MAX_FILES \in Nat
    /\ EOL \notin Signs /\ EOS \notin Signs
    /\ Patterns \subseteq Seq(Signs) \ {<<>>}
    /\ Garbage \subseteq Signs \cup {EOL, EOS}

VARIABLES
    files,      \* the texts, in the order of the directory; Unopenable among them
    search,     \* the pattern
    fno, pos,   \* the file being searched, and the bytes read of it
    data, last, cnt, line_start,   \* locals of do_one_file
    gpc,        \* dir: main's loop; read, scan: the loops of do_one_file; end
    out         \* the lines printed, each with its file

gVars == <<files, search, fno, pos, data, last, cnt, line_start, gpc, out>>

Unopenable == <<EOS>>
Texts == UNION {[1 .. n -> Signs \cup {EOL}] : n \in 0 .. MAX_TEXT}

GrepInit ==
    /\ files = <<>>
    /\ search = <<>>
    /\ fno = 0 /\ pos = 0
    /\ data = [i \in 0 .. BUFSIZE |-> EOS]
    /\ last = 0 /\ cnt = 0 /\ line_start = 0
    /\ gpc = "edit"
    /\ out = <<>>

Size(texts) == FoldFunction(LAMBDA text, n : Len(text) + n, 0, texts)

(* The directory is filled before grep starts.                             *)
Create(t) ==
    /\ gpc = "edit" /\ Len(files) < MAX_FILES
    /\ Size(files) + Len(t) <= MAX_TEXT
    /\ files' = Append(files, t)
    /\ UNCHANGED <<search, fno, pos, data, last, cnt, line_start, gpc, out>>

Begin ==
    /\ gpc = "edit" /\ gpc' = "dir"
    /\ search' \in Patterns
    /\ UNCHANGED <<files, fno, pos, data, last, cnt, line_start, out>>

(* main: the next name of the directory, and the open of do_one_file,      *)
(* whose buffer is not initialised.                                        *)
NextFile ==
    /\ gpc = "dir"
    /\ fno' = fno + 1
    /\ pos' = 0 /\ last' = 0
    /\ \E g \in Garbage : data' = [i \in 0 .. BUFSIZE |-> g]
    /\ gpc' = IF fno = Len(files) \/ files[fno + 1] = Unopenable THEN "end" ELSE "read"
    /\ UNCHANGED <<files, search, cnt, line_start, out>>

(* The read into what is free of the buffer.                               *)
Chunk ==
    /\ gpc = "read"
    /\ LET rest == Len(files[fno]) - pos
           n == IF rest < BUFSIZE - last THEN rest ELSE BUFSIZE - last
       IN  /\ data' = [i \in 0 .. BUFSIZE |->
                         IF i \in last .. last + n - 1
                         THEN files[fno][pos + i - last + 1] ELSE data[i]]
           /\ cnt' = n /\ pos' = pos + n /\ last' = last + n
    /\ line_start' = 0
    /\ gpc' = "scan"
    /\ UNCHANGED <<files, search, fno, out>>

line_end ==
    CHOOSE e \in line_start .. last :
        /\ e = last \/ data[e] = EOL
        /\ \A i \in line_start .. e - 1 : data[i] # EOL

(* Wrong variant: a read of less than the whole buffer is taken for the    *)
(* last one.                                                               *)
BugUnfinished == data[line_end] # EOL /\ cnt = BUFSIZE /\ line_start # 0

(* The line goes on beyond the buffer.                                     *)
Unfinished == data[line_end] # EOL /\ cnt # 0 /\ line_start # 0

(* Wrong variant: the bytes are moved and still counted.                   *)
BugCarry ==
    /\ gpc = "scan" /\ Unfinished
    /\ data' = [i \in 0 .. BUFSIZE |->
                  IF i < line_end - line_start THEN data[line_start + i]
                  ELSE IF i \in {line_end - line_start, line_end} THEN EOS ELSE data[i]]
    /\ gpc' = "read"
    /\ UNCHANGED <<files, search, fno, pos, last, cnt, line_start, out>>

(* strcpy of its beginning to the front.                                   *)
Carry ==
    /\ gpc = "scan" /\ Unfinished
    /\ data' = [i \in 0 .. BUFSIZE |->
                  IF i < line_end - line_start THEN data[line_start + i]
                  ELSE IF i \in {line_end - line_start, line_end} THEN EOS ELSE data[i]]
    /\ last' = last - line_start
    /\ gpc' = "read"
    /\ UNCHANGED <<files, search, fno, pos, cnt, line_start, out>>

(* strncmp (data + check, s, s_len) = 0, with EOS after the line.          *)
MatchAt(line, check) ==
    /\ check + Len(search) - 1 <= Len(line)
    /\ SubSeq(line, check, check + Len(search) - 1) = search

Matches(line) == \E check \in 1 .. Len(line) : MatchAt(line, check)

Line == [i \in 1 .. line_end - line_start |-> data[line_start + i - 1]]

(* Search the line; after the last one of the buffer, read on, or close    *)
(* the file once nothing has been read.                                    *)
Search ==
    /\ gpc = "scan" /\ ~Unfinished
    /\ data' = [data EXCEPT ![line_end] = EOS]
    /\ out' = IF Matches(Line) THEN Append(out, <<fno, Line>>) ELSE out
    /\ line_start' = line_end + 1
    /\ IF line_end + 1 >= last
       THEN last' = 0 /\ gpc' = IF cnt = 0 THEN "dir" ELSE "read"
       ELSE UNCHANGED <<last, gpc>>
    /\ UNCHANGED <<files, search, fno, pos, cnt>>

Grep == NextFile \/ Chunk \/ Carry \/ Search

GrepNext == (\E t \in Texts \cup {Unopenable} : Create(t)) \/ Begin \/ Grep

GrepSpec == GrepInit /\ [][GrepNext]_gVars

-----------------------------------------------------------------------------
(* Reference: the lines of a text, as the positions where each starts and  *)
(* where its end is, and the line at such a place.                         *)
LineSpans(text) ==
    {l \in (1 .. Len(text) + 1) \X (1 .. Len(text) + 1) :
        /\ l[1] <= l[2]
        /\ l[1] = 1 \/ text[l[1] - 1] = EOL
        /\ l[2] = Len(text) + 1 \/ text[l[2]] = EOL
        /\ \A i \in l[1] .. l[2] - 1 : text[i] # EOL}

LineAt(text, l) == SubSeq(text, l[1], l[2] - 1)

Fits(text) == \A l \in LineSpans(text) : l[2] - l[1] < BUFSIZE

(* The lines of file f that have the pattern, and the order of two lines.  *)
HitsOf(f) == {<<f, l>> : l \in {k \in LineSpans(files[f]) : Matches(LineAt(files[f], k))}}

Earlier(g, h) == g[1] < h[1] \/ (g[1] = h[1] /\ g[2][1] < h[2][1])

(* What has been printed are the lines hits, in their order.               *)
HasPrinted(hits) ==
    /\ Len(out) = Cardinality(hits)
    /\ \A h \in hits : out[Cardinality({g \in hits : Earlier(g, h)}) + 1]
                          = <<h[1], LineAt(files[h[1]], h[2])>>

(* grep prints exactly the lines that hold the pattern, each once and in   *)
(* full, wherever in the buffer they begin and end, as long as every line  *)
(* is shorter than the buffer; it stops at a file it cannot open.          *)
GrepPrintsLines ==
    gpc = "end" /\ (\A n \in 1 .. Len(files) : Fits(files[n])) =>
        HasPrinted(UNION {HitsOf(f) : f \in 1 .. fno - 1})

(* Reading never asks for more than what is free of the buffer, and asks   *)
(* for something: a read of nothing would look like the end of the file.   *)
GrepReadsOn == gpc = "read" => last \in 0 .. BUFSIZE - 1
=============================================================================
