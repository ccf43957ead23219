------------------------------- MODULE Paging -------------------------------
(***************************************************************************)
(* Paging (paging.c), with the calls of execute, halt, vidmap and the      *)
(* terminal switch that change it.  The programs are those of TermStacks,  *)
(* which ProcSched implements; a system call is one step here, and the     *)
(* interrupts within one are the subject of ProcSched.                     *)
(*                                                                         *)
(* Addresses and indices are the kernel's own numbers.  A directory or a   *)
(* table has in its domain the entries that are present; every call asks   *)
(* for a writable page open to programs, so these bits are left out.  The  *)
(* translation buffer of the processor is external.                        *)
(***************************************************************************)
EXTENDS TermStacks

KB_4 == 4096
MB_4 == 1024 * KB_4
ENTRIES == 1024

KERNEL_MEMORY_ADDR == MB_4
VIDEO == 184 * KB_4                       \* 0xB8000
TERM_MEM == 208 * KB_4                    \* 0xD0000
USER_VIDMAP == 248 * KB_4                 \* 0xF8000
USER_PROCESS_START_VIRTUAL == 32 * MB_4
USER_PROCESS_START_PHYSICAL == 2 * MB_4

ASSUME PagingAssumption ==
    /\ MAX_DEVICES \in 1 .. ENTRIES - 2
    /\ MAX_TERMINAL_NUM \in 1 .. 3

VARIABLES
    mem,            \* page_dir and page_table
    tlb,            \* translations the processor has kept
    vidmap_called,
    users,          \* history: the programs that have been given the video page
    frozen          \* a program has had a page fault (excpt14_handler)

pgVars == <<mem, tlb, vidmap_called, users, frozen>>
allVars == <<stacks, shown, pgVars>>

-----------------------------------------------------------------------------
(* map_v_p *)

Put(f, i, x) == [j \in DOMAIN f \cup {i} |-> IF j = i THEN x ELSE f[j]]
Drop(f, i) == [j \in DOMAIN f \ {i} |-> f[j]]

DirIndex(addr) == addr \div MB_4

TableIndex(addr) == (addr \div KB_4) % ENTRIES

(* The early returns; kb_or_mb is 0 or 1 in every call.  Large pages, too, *)
(* are only asked to be aligned to 16 KB.                                  *)
Refuses(v, p, kb_or_mb) ==
    \/ v = 0
    \/ kb_or_mb = 0 /\ (v % KB_4 # 0 \/ p % KB_4 # 0)
    \/ kb_or_mb = 1 /\ (v % (4 * KB_4) # 0 \/ p % (4 * KB_4) # 0)
    \/ kb_or_mb = 0 /\ v >= MB_4

ToTable == [page_size |-> 0, ptr |-> 0]

(* Wrong variant: a small page is unmapped with its whole table.           *)
BugMapKb(m, v, p) ==
    IF p = 0 THEN [m EXCEPT !.dir = Drop(@, DirIndex(v))]
    ELSE [dir |-> Put(m.dir, DirIndex(v), ToTable),
          table |-> Put(m.table, TableIndex(v), p \div KB_4)]

(* There is one table, which the entry of the directory comes to point to. *)
MapKb(m, v, p) ==
    [dir |-> Put(m.dir, DirIndex(v), ToTable),
     table |-> IF p = 0 THEN Drop(m.table, TableIndex(v))
               ELSE Put(m.table, TableIndex(v), p \div KB_4)]

MapMb(m, v, p) ==
    [m EXCEPT !.dir =
        IF p = 0 THEN Drop(@, DirIndex(v))
        ELSE Put(@, DirIndex(v), [page_size |-> 1, ptr |-> p \div MB_4])]

map_v_p(m, v, p, kb_or_mb) ==
    IF Refuses(v, p, kb_or_mb) THEN m
    ELSE IF kb_or_mb = 0 THEN MapKb(m, v, p) ELSE MapMb(m, v, p)

Fault == -1

(* Where the processor finds an address in the directory and table.        *)
Translate(m, addr) ==
    IF DirIndex(addr) \notin DOMAIN m.dir THEN Fault
    ELSE LET d == m.dir[DirIndex(addr)] IN
         IF d.page_size = 1 THEN d.ptr * MB_4 + (addr % MB_4)
         ELSE IF TableIndex(addr) \in DOMAIN m.table
              THEN m.table[TableIndex(addr)] * KB_4 + (addr % KB_4)
              ELSE Fault

(* A kept translation is used as it is.                                    *)
Load(t, m, addr) ==
    IF addr \in DOMAIN t \/ Translate(m, addr) = Fault THEN t
    ELSE Put(t, addr, Translate(m, addr))

NoEntries == [i \in {} |-> 0]

(* Wrong variant: the buffer is not flushed.                               *)
Bugflush_tlb(t) == t

(* Loading cr3, at the end of map_v_p and by itself.                       *)
flush_tlb(t) == NoEntries

-----------------------------------------------------------------------------
(* The calls *)

Blank == [dir |-> NoEntries, table |-> NoEntries]

init_paging ==
    map_v_p(map_v_p(Blank, KERNEL_MEMORY_ADDR, KERNEL_MEMORY_ADDR, 1),
            VIDEO, VIDEO, 0)

get_term_vid_addr(t) == TERM_MEM + KB_4 * t

(* sched_init; a number past the last terminal maps nothing.               *)
sched_init(m) ==
    LET map(t, n) == IF t \in Terms
                     THEN map_v_p(n, get_term_vid_addr(t), get_term_vid_addr(t), 0)
                     ELSE n
    IN map(2, map(1, map(0, m)))

PgInit ==
    /\ Init
    /\ mem = sched_init(init_paging)
    /\ tlb = NoEntries
    /\ vidmap_called = FALSE
    /\ users = {}
    /\ frozen = FALSE

Frame(p) == USER_PROCESS_START_PHYSICAL + p * MB_4

Top(s) == s[Len(s)]
Running == stacks[shown] # <<>> /\ ~frozen

(* execute, of a program or of the shell of an empty terminal: the page is *)
(* mapped, and the program copied through it.                              *)
Execute(p) ==
    /\ ~frozen
    /\ Start(p) /\ \A q \in Pids \ Live : p <= q
    /\ mem' = map_v_p(mem, USER_PROCESS_START_VIRTUAL, Frame(p), 1)
    /\ tlb' = Load(flush_tlb(tlb), mem', USER_PROCESS_START_VIRTUAL)
    /\ UNCHANGED <<vidmap_called, users, frozen>>

Unmap(m) == IF vidmap_called THEN map_v_p(m, USER_VIDMAP, 0, 0) ELSE m

(* halt: back to the parent.  A program without one leaves before the      *)
(* video page is unmapped, and execute starts the next shell.              *)
Halt ==
    /\ Running /\ Stop
    /\ LET s == stacks[shown] IN
       IF Len(s) > 1
       THEN /\ mem' = Unmap(map_v_p(mem, USER_PROCESS_START_VIRTUAL, Frame(s[Len(s) - 1]), 1))
            /\ tlb' = flush_tlb(tlb)
       ELSE UNCHANGED <<mem, tlb>>
    /\ users' = users \ {Top(stacks[shown])}
    /\ UNCHANGED <<vidmap_called, frozen>>

(* Wrong variant: the page of the other terminal's program is not mapped.  *)
BugSwitch(t) ==
    /\ Running /\ t # shown /\ Show(t)
    /\ mem' = mem
    /\ tlb' = flush_tlb(tlb)
    /\ UNCHANGED <<vidmap_called, users, frozen>>

(* switch_running_terminal                                                 *)
Switch(t) ==
    /\ Running /\ t # shown /\ Show(t)
    /\ IF stacks[t] = <<>> THEN UNCHANGED <<mem, tlb>>
       ELSE /\ mem' = map_v_p(mem, USER_PROCESS_START_VIRTUAL, Frame(Top(stacks[t])), 1)
            /\ tlb' = flush_tlb(tlb)
    /\ UNCHANGED <<vidmap_called, users, frozen>>

(* vidmap, with an address inside the program.                             *)
vidmap ==
    /\ Running
    /\ vidmap_called' = TRUE
    /\ mem' = map_v_p(mem, USER_VIDMAP, VIDEO, 0)
    /\ tlb' = flush_tlb(tlb)
    /\ users' = users \cup {Top(stacks[shown])}
    /\ UNCHANGED <<stacks, shown, frozen>>

(* The program uses a page it has, or the kernel the screen.               *)
Touch(addr) ==
    /\ Running
    /\ addr = USER_VIDMAP => Top(stacks[shown]) \in users
    /\ tlb' = Load(tlb, mem, addr)
    /\ frozen' = (addr \notin DOMAIN tlb /\ Translate(mem, addr) = Fault)
    /\ UNCHANGED <<stacks, shown, mem, vidmap_called, users>>

(* while(1) of excpt14_handler                                             *)
Loop == frozen /\ UNCHANGED allVars

PgNext ==
    \/ \E p \in Pids : Execute(p)
    \/ Halt \/ vidmap \/ Loop
    \/ \E t \in Terms : Switch(t)
    \/ \E a \in {USER_PROCESS_START_VIRTUAL, USER_VIDMAP, VIDEO} : Touch(a)

PgSpec == PgInit /\ [][PgNext]_allVars

-----------------------------------------------------------------------------
(* Types.                                                                  *)
PgTypeOK ==
    /\ stacks \in [Terms -> Seq(Pids)] /\ shown \in Terms
    /\ DOMAIN mem = {"dir", "table"}
    /\ DOMAIN mem.dir \subseteq 0 .. ENTRIES - 1
    /\ DOMAIN mem.table \subseteq 0 .. ENTRIES - 1
    /\ \A i \in DOMAIN mem.dir :
          mem.dir[i] \in [page_size : {0, 1}, ptr : 0 .. ENTRIES - 1]
    /\ \A i \in DOMAIN mem.table : mem.table[i] \in Nat
    /\ vidmap_called \in BOOLEAN /\ frozen \in BOOLEAN
    /\ users \subseteq Pids

(* The program on top of the displayed terminal finds its own 4 MB behind  *)
(* the program page, after every execute, halt and change of terminal.     *)
OwnFrame ==
    stacks[shown] # <<>> =>
        Translate(mem, USER_PROCESS_START_VIRTUAL) = Frame(Top(stacks[shown]))

(* No call of a program takes away or moves the pages of the kernel, of    *)
(* the screen and of the terminals' saved screens: unmapping the program's *)
(* video page, in the same table, leaves them.                             *)
KernelKept ==
    \A a \in {KERNEL_MEMORY_ADDR, VIDEO} \cup {get_term_vid_addr(t) : t \in Terms} :
        Translate(mem, a) = a

(* The processor never uses a translation that the directory and the table *)
(* no longer have.                                                         *)
TlbCoherent == \A a \in DOMAIN tlb : tlb[a] = Translate(mem, a)

(* A program that has called vidmap finds the screen behind the page it    *)
(* was given, whenever it runs.                                            *)
VidKept ==
    stacks[shown] # <<>> /\ Top(stacks[shown]) \in users =>
        Translate(mem, USER_VIDMAP) = VIDEO
=============================================================================
