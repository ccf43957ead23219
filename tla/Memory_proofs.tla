--------------------------- MODULE Memory_proofs ----------------------------
(***************************************************************************)
(* Proofs about paging, for every number of processes that the directory   *)
(* can hold, and about lib.c: the memory functions, for every size,        *)
(* alignment and length, and the numbers of printf, for every width.  The  *)
(* invariant of paging names the entries the kernel relies on; the lemmas  *)
(* say which entry each call of map_v_p writes.                            *)
(***************************************************************************)
EXTENDS Paging, Lib, WellFoundedInduction, TLAPS

DirEntry == [page_size : {0, 1}, ptr : 0 .. ENTRIES - 1]
Large(n) == [page_size |-> 1, ptr |-> n]

(* The entries of the kernel: its own 4 MB, the table, the screen and the  *)
(* saved screens.                                                          *)
DirOK(d) ==
    /\ DOMAIN d \subseteq 0 .. ENTRIES - 1
    /\ \A i \in DOMAIN d : d[i] \in DirEntry
    /\ 0 \in DOMAIN d /\ d[0] = ToTable
    /\ 1 \in DOMAIN d /\ d[1] = Large(1)

TableOK(tb) ==
    /\ DOMAIN tb \subseteq 0 .. ENTRIES - 1
    /\ \A i \in DOMAIN tb : tb[i] \in Nat
    /\ 184 \in DOMAIN tb /\ tb[184] = 184
    /\ \A t \in Terms : 208 + t \in DOMAIN tb /\ tb[208 + t] = 208 + t

MemOK(m) == m = [dir |-> m.dir, table |-> m.table] /\ DirOK(m.dir) /\ TableOK(m.table)

StacksOK ==
    /\ stacks \in [Terms -> Seq(Pids)] /\ shown \in Terms
    /\ vidmap_called \in BOOLEAN /\ frozen \in BOOLEAN /\ users \subseteq Pids

(* Entry 32 of the directory is the program's.                             *)
Mapped ==
    stacks[shown] # <<>> =>
        32 \in DOMAIN mem.dir /\ mem.dir[32] = Large(2 + Top(stacks[shown]))

PgInv == StacksOK /\ MemOK(mem) /\ Mapped /\ TlbCoherent

-----------------------------------------------------------------------------
(* Mapping a program's frame is accepted and writes entry 32.              *)
LEMMA MapsProgram ==
    ASSUME NEW m, NEW p \in Pids
    PROVE  map_v_p(m, USER_PROCESS_START_VIRTUAL, Frame(p), 1)
             = [m EXCEPT !.dir = Put(m.dir, 32, Large(2 + p))]
  <1> USE DEF USER_PROCESS_START_VIRTUAL, USER_PROCESS_START_PHYSICAL, MB_4, KB_4
  <1>1. p \in Nat
    BY PagingAssumption DEF Pids
  <1>2. Frame(p) = (2 + p) * 4194304
    BY <1>1 DEF Frame
  <1>3. Frame(p) # 0 /\ Frame(p) % 16384 = 0 /\ Frame(p) \div 4194304 = 2 + p
    BY <1>1, <1>2
  <1>4. ~Refuses(USER_PROCESS_START_VIRTUAL, Frame(p), 1)
    BY <1>3 DEF Refuses
  <1>5. DirIndex(USER_PROCESS_START_VIRTUAL) = 32
    BY DEF DirIndex
  <1> HIDE DEF USER_PROCESS_START_VIRTUAL
  <1>6. MapMb(m, USER_PROCESS_START_VIRTUAL, Frame(p))
          = [m EXCEPT !.dir = Put(m.dir, 32, Large(2 + p))]
    BY <1>3, <1>5 DEF MapMb, Large
  <1> QED
    BY <1>4, <1>6 DEF map_v_p

(* vidmap writes entry 248 of the table.                                   *)
LEMMA MapsVideo ==
    ASSUME NEW m
    PROVE  map_v_p(m, USER_VIDMAP, VIDEO, 0)
             = [dir |-> Put(m.dir, 0, ToTable), table |-> Put(m.table, 248, 184)]
  <1> USE DEF USER_VIDMAP, VIDEO, MB_4, KB_4, ENTRIES
  <1>1. ~Refuses(USER_VIDMAP, VIDEO, 0)
    BY DEF Refuses
  <1>2. DirIndex(USER_VIDMAP) = 0 /\ TableIndex(USER_VIDMAP) = 248 /\ VIDEO \div KB_4 = 184
    BY DEF DirIndex, TableIndex
  <1> QED
    BY <1>1, <1>2 DEF map_v_p, MapKb

(* The unmapping of halt removes entry 248 of the table.                   *)
LEMMA UnmapsVideo ==
    ASSUME NEW m
    PROVE  map_v_p(m, USER_VIDMAP, 0, 0)
             = [dir |-> Put(m.dir, 0, ToTable), table |-> Drop(m.table, 248)]
  <1> USE DEF USER_VIDMAP, MB_4, KB_4, ENTRIES
  <1>1. ~Refuses(USER_VIDMAP, 0, 0)
    BY DEF Refuses
  <1>2. DirIndex(USER_VIDMAP) = 0 /\ TableIndex(USER_VIDMAP) = 248
    BY DEF DirIndex, TableIndex
  <1> QED
    BY <1>1, <1>2 DEF map_v_p, MapKb

(* None of the three touches an entry the kernel relies on, and the video  *)
(* page is none of the program's entry either.                             *)
LEMMA ProgramKeepsMem ==
    ASSUME NEW m, MemOK(m), NEW p \in Pids
    PROVE  LET n == map_v_p(m, USER_PROCESS_START_VIRTUAL, Frame(p), 1)
           IN  MemOK(n) /\ 32 \in DOMAIN n.dir /\ n.dir[32] = Large(2 + p)
  <1> DEFINE d == Put(m.dir, 32, Large(2 + p))
  <1>1. map_v_p(m, USER_PROCESS_START_VIRTUAL, Frame(p), 1) = [dir |-> d, table |-> m.table]
    <2>1. m = [dir |-> m.dir, table |-> m.table]
      BY DEF MemOK
    <2>2. [m EXCEPT !.dir = d] = [dir |-> d, table |-> m.table]
      BY <2>1
    <2> QED
      BY <2>2, MapsProgram, Zenon
  <1>2. Large(2 + p) \in DirEntry
    BY PagingAssumption DEF Large, DirEntry, Pids, ENTRIES
  <1>3. DirOK(d) /\ 32 \in DOMAIN d /\ d[32] = Large(2 + p)
    <2>1. /\ DOMAIN d = DOMAIN m.dir \cup {32}
          /\ d[32] = Large(2 + p)
          /\ \A j \in DOMAIN m.dir : j # 32 => d[j] = m.dir[j]
      BY DEF Put
    <2> HIDE DEF d
    <2> QED
      BY <1>2, <2>1 DEF DirOK, MemOK, ENTRIES
  <1> HIDE DEF d
  <1> QED
    BY <1>1, <1>3 DEF MemOK

(* The directory after its first entry has been written again.             *)
LEMMA TableEntryKept ==
    ASSUME NEW d, DirOK(d)
    PROVE  /\ DirOK(Put(d, 0, ToTable))
           /\ 32 \in DOMAIN d => /\ 32 \in DOMAIN Put(d, 0, ToTable)
                                 /\ Put(d, 0, ToTable)[32] = d[32]
  <1>1. /\ DOMAIN Put(d, 0, ToTable) = DOMAIN d \cup {0}
        /\ Put(d, 0, ToTable)[0] = ToTable
        /\ \A j \in DOMAIN d : j # 0 => Put(d, 0, ToTable)[j] = d[j]
    BY DEF Put
  <1> QED
    BY <1>1 DEF DirOK

(* vidmap and the unmapping of halt.                                       *)
LEMMA VideoKeepsMem ==
    ASSUME NEW m, MemOK(m), NEW p \in {0, VIDEO}
    PROVE  LET n == map_v_p(m, USER_VIDMAP, p, 0)
           IN  /\ MemOK(n)
               /\ 32 \in DOMAIN m.dir => 32 \in DOMAIN n.dir /\ n.dir[32] = m.dir[32]
  <1>1. DirOK(m.dir) /\ TableOK(m.table)
    BY DEF MemOK
  <1>2. \A t \in Terms : 208 + t # 248
    BY PagingAssumption DEF Terms
  <1>3. CASE p = VIDEO
    <2> DEFINE tb == Put(m.table, 248, 184)
    <2>1. /\ DOMAIN tb = DOMAIN m.table \cup {248}
          /\ tb[248] = 184
          /\ \A j \in DOMAIN m.table : j # 248 => tb[j] = m.table[j]
      BY DEF Put
    <2> HIDE DEF tb
    <2>2. TableOK(tb)
      BY <1>1, <1>2, <2>1 DEF TableOK, ENTRIES
    <2>3. map_v_p(m, USER_VIDMAP, p, 0) = [dir |-> Put(m.dir, 0, ToTable), table |-> tb]
      BY <1>3, MapsVideo DEF tb
    <2> QED
      BY <1>1, <2>2, <2>3, TableEntryKept DEF MemOK
  <1>4. CASE p = 0
    <2> DEFINE tb == Drop(m.table, 248)
    <2>1. /\ DOMAIN tb = DOMAIN m.table \ {248}
          /\ \A j \in DOMAIN m.table : j # 248 => tb[j] = m.table[j]
      BY DEF Drop
    <2> HIDE DEF tb
    <2>2. TableOK(tb)
      BY <1>1, <1>2, <2>1 DEF TableOK
    <2>3. map_v_p(m, USER_VIDMAP, p, 0) = [dir |-> Put(m.dir, 0, ToTable), table |-> tb]
      BY <1>4, UnmapsVideo DEF tb
    <2> QED
      BY <1>1, <2>2, <2>3, TableEntryKept DEF MemOK
  <1> QED
    BY <1>3, <1>4

(* A page of the table that is mapped to itself.                           *)
LEMMA MapsSmall ==
    ASSUME NEW m, NEW k \in 1 .. ENTRIES - 1
    PROVE  map_v_p(m, k * KB_4, k * KB_4, 0)
             = [dir |-> Put(m.dir, 0, ToTable), table |-> Put(m.table, k, k)]
  <1> USE DEF MB_4, KB_4, ENTRIES
  <1>1. ~Refuses(k * KB_4, k * KB_4, 0) /\ k * KB_4 # 0
    BY DEF Refuses
  <1>2. DirIndex(k * KB_4) = 0 /\ TableIndex(k * KB_4) = k /\ (k * KB_4) \div KB_4 = k
    BY DEF DirIndex, TableIndex
  <1> HIDE DEF KB_4, ENTRIES, MB_4
  <1> QED
    BY <1>1, <1>2 DEF map_v_p, MapKb

(* What init_paging leaves.                                                *)
LEMMA InitPaging ==
    /\ init_paging = [dir |-> init_paging.dir, table |-> init_paging.table]
    /\ DirOK(init_paging.dir)
    /\ DOMAIN init_paging.table = {184} /\ init_paging.table[184] = 184
  <1> DEFINE b == [Blank EXCEPT !.dir = Put(Blank.dir, 1, Large(1))]
  <1>1. map_v_p(Blank, KERNEL_MEMORY_ADDR, KERNEL_MEMORY_ADDR, 1) = b
    <2>1. /\ ~Refuses(KERNEL_MEMORY_ADDR, KERNEL_MEMORY_ADDR, 1)
          /\ KERNEL_MEMORY_ADDR # 0
          /\ DirIndex(KERNEL_MEMORY_ADDR) = 1 /\ KERNEL_MEMORY_ADDR \div MB_4 = 1
      BY DEF Refuses, KERNEL_MEMORY_ADDR, MB_4, KB_4, DirIndex
    <2> QED
      BY <2>1 DEF map_v_p, MapMb, Large
  <1>2. b = [dir |-> Put(NoEntries, 1, Large(1)), table |-> NoEntries]
    BY DEF Blank
  <1>3. init_paging = [dir |-> Put(b.dir, 0, ToTable), table |-> Put(b.table, 184, 184)]
    <2> HIDE DEF b
    <2>1. map_v_p(b, 184 * KB_4, 184 * KB_4, 0)
            = [dir |-> Put(b.dir, 0, ToTable), table |-> Put(b.table, 184, 184)]
      <3>1. 184 \in 1 .. ENTRIES - 1
        BY DEF ENTRIES
      <3> QED
        BY <3>1, MapsSmall, Zenon
    <2> QED
      BY <1>1, <2>1 DEF init_paging, VIDEO
  <1>4. b.dir = Put(NoEntries, 1, Large(1)) /\ b.table = NoEntries
    BY <1>2
  <1> HIDE DEF b
  <1>5. DOMAIN NoEntries = {}
    BY DEF NoEntries
  <1>6. /\ DOMAIN Put(b.dir, 0, ToTable) = {0, 1}
        /\ Put(b.dir, 0, ToTable)[0] = ToTable /\ Put(b.dir, 0, ToTable)[1] = Large(1)
    BY <1>4, <1>5 DEF Put
  <1>7. /\ DOMAIN Put(b.table, 184, 184) = {184}
        /\ Put(b.table, 184, 184)[184] = 184
    BY <1>4, <1>5 DEF Put
  <1>8. DirOK(Put(b.dir, 0, ToTable))
    BY <1>6 DEF DirOK, DirEntry, ToTable, Large, ENTRIES
  <1> QED
    BY <1>3, <1>7, <1>8

(* sched_init adds the pages of the saved screens one after the other;     *)
(* Part(m, n) is what holds when those below n are there.                  *)
Part(m, n) ==
    /\ m = [dir |-> m.dir, table |-> m.table]
    /\ DirOK(m.dir)
    /\ DOMAIN m.table \subseteq 0 .. ENTRIES - 1
    /\ \A i \in DOMAIN m.table : m.table[i] \in Nat
    /\ 184 \in DOMAIN m.table /\ m.table[184] = 184
    /\ \A t \in Terms : t < n => 208 + t \in DOMAIN m.table /\ m.table[208 + t] = 208 + t

StoreMap(t, m) ==
    IF t \in Terms THEN map_v_p(m, get_term_vid_addr(t), get_term_vid_addr(t), 0) ELSE m

(* One more of them.                                                       *)
LEMMA PartStep ==
    ASSUME NEW m, NEW n \in 0 .. 2, Part(m, n)
    PROVE  Part(StoreMap(n, m), n + 1)
  <1>1. CASE n \notin Terms
    <2>1. \A t \in Terms : t < n + 1 => t < n
      BY <1>1, PagingAssumption DEF Terms
    <2> QED
      BY <1>1, <2>1 DEF StoreMap, Part
  <1>2. CASE n \in Terms
    <2> DEFINE d == Put(m.dir, 0, ToTable)
               tb == Put(m.table, 208 + n, 208 + n)
    <2>1. get_term_vid_addr(n) = (208 + n) * KB_4
      BY DEF get_term_vid_addr, TERM_MEM, KB_4
    <2>2. 208 + n \in 1 .. ENTRIES - 1
      BY DEF ENTRIES
    <2>3. map_v_p(m, (208 + n) * KB_4, (208 + n) * KB_4, 0) = [dir |-> d, table |-> tb]
      BY <2>2, MapsSmall, Zenon
    <2>4. StoreMap(n, m) = [dir |-> d, table |-> tb]
      BY <1>2, <2>1, <2>3 DEF StoreMap
    <2>5. DirOK(d)
      BY TableEntryKept DEF Part
    <2>6. /\ DOMAIN tb = DOMAIN m.table \cup {208 + n}
          /\ tb[208 + n] = 208 + n
          /\ \A j \in DOMAIN m.table : j # 208 + n => tb[j] = m.table[j]
      BY DEF Put
    <2> HIDE DEF d, tb
    <2>7. /\ DOMAIN tb \subseteq 0 .. ENTRIES - 1
          /\ \A i \in DOMAIN tb : tb[i] \in Nat
          /\ 184 \in DOMAIN tb /\ tb[184] = 184
      BY <2>2, <2>6 DEF Part
    <2>8. \A t \in Terms : t < n + 1 => 208 + t \in DOMAIN tb /\ tb[208 + t] = 208 + t
      <3>1. \A t \in Terms : t < n + 1 => t = n \/ (t < n /\ 208 + t # 208 + n)
        BY PagingAssumption DEF Terms
      <3> QED
        BY <2>6, <3>1 DEF Part
    <2> QED
      BY <2>4, <2>5, <2>7, <2>8 DEF Part
  <1> QED
    BY <1>1, <1>2

(* The first state has all entries of the kernel.                          *)
LEMMA MemInit == MemOK(sched_init(init_paging))
  <1>1. Part(init_paging, 0)
    BY InitPaging, PagingAssumption DEF Part, Terms, ENTRIES
  <1>2. Part(StoreMap(0, init_paging), 1)
    BY <1>1, PartStep
  <1>3. Part(StoreMap(1, StoreMap(0, init_paging)), 2)
    <2>1. Part(StoreMap(1, StoreMap(0, init_paging)), 1 + 1)
      BY <1>2, PartStep
    <2> QED
      BY <2>1
  <1>4. Part(StoreMap(2, StoreMap(1, StoreMap(0, init_paging))), 3)
    <2>1. Part(StoreMap(2, StoreMap(1, StoreMap(0, init_paging))), 2 + 1)
      BY <1>3, PartStep
    <2> QED
      BY <2>1
  <1>5. sched_init(init_paging) = StoreMap(2, StoreMap(1, StoreMap(0, init_paging)))
    BY Zenon DEF sched_init, StoreMap
  <1>6. \A t \in Terms : t < 3
    BY PagingAssumption DEF Terms
  <1> QED
    <2> DEFINE m == sched_init(init_paging)
    <2>1. Part(m, 3)
      BY <1>4, <1>5
    <2> HIDE DEF m
    <2>2. MemOK(m)
      BY <1>6, <2>1 DEF Part, MemOK, TableOK
    <2> QED
      BY <2>2 DEF m

(* The first state satisfies the invariant.                                *)
LEMMA PgInvInit == PgInit => PgInv
  <1> SUFFICES ASSUME PgInit PROVE PgInv
    OBVIOUS
  <1>1. StacksOK
    <2>1. stacks \in [Terms -> Seq(Pids)]
      BY DEF PgInit, Init
    <2>2. 0 \in Terms
      BY PagingAssumption DEF Terms
    <2> QED
      BY <2>1, <2>2 DEF PgInit, Init, StacksOK
  <1>2. MemOK(mem)
    BY MemInit DEF PgInit
  <1>3. Mapped
    BY <1>1 DEF PgInit, Init, Mapped, StacksOK
  <1>4. TlbCoherent
    BY DEF PgInit, TlbCoherent, NoEntries
  <1> QED
    BY <1>1, <1>2, <1>3, <1>4 DEF PgInv

(* Keeping a translation, and forgetting all, keep the buffer coherent.    *)
LEMMA LoadCoherent ==
    ASSUME NEW t, NEW m, NEW addr, \A a \in DOMAIN t : t[a] = Translate(m, a)
    PROVE  \A a \in DOMAIN Load(t, m, addr) : Load(t, m, addr)[a] = Translate(m, a)
  BY DEF Load, Put

(* Forgetting all translations.                                            *)
LEMMA FlushCoherent == \A t, m : \A a \in DOMAIN flush_tlb(t) : flush_tlb(t)[a] = Translate(m, a)
  BY DEF flush_tlb, NoEntries

(* The steps of programs and of the handler keep the invariant.            *)
LEMMA PgInvStep == PgInv /\ [PgNext]_allVars => PgInv'
  <1> SUFFICES ASSUME PgInv, [PgNext]_allVars PROVE PgInv'
    OBVIOUS
  <1> USE DEF PgInv
  <1>1. ASSUME NEW p \in Pids, Execute(p) PROVE PgInv'
    <2>1. mem' = map_v_p(mem, USER_PROCESS_START_VIRTUAL, Frame(p), 1)
      BY <1>1 DEF Execute
    <2>2. MemOK(mem') /\ 32 \in DOMAIN mem'.dir /\ mem'.dir[32] = Large(2 + p)
      BY <2>1, ProgramKeepsMem
    <2>3. /\ stacks' = [stacks EXCEPT ![shown] = Append(stacks[shown], p)] /\ shown' = shown
          /\ UNCHANGED <<vidmap_called, users, frozen>>
      BY <1>1 DEF Execute, Start
    <2>4. Append(stacks[shown], p) \in Seq(Pids) /\ Top(Append(stacks[shown], p)) = p
      BY DEF StacksOK, Top
    <2>5. StacksOK'
      BY <2>3, <2>4 DEF StacksOK
    <2>6. Mapped'
      BY <2>2, <2>3, <2>4 DEF Mapped, StacksOK
    <2>7. TlbCoherent'
      <3>1. tlb' = Load(flush_tlb(tlb), mem', USER_PROCESS_START_VIRTUAL)
        BY <1>1 DEF Execute
      <3>2. \A a \in DOMAIN flush_tlb(tlb) : flush_tlb(tlb)[a] = Translate(mem', a)
        BY FlushCoherent, Zenon
      <3> QED
        BY <3>1, <3>2, LoadCoherent, SMTT(30) DEF TlbCoherent
    <2> QED
      BY <2>2, <2>5, <2>6, <2>7
  <1>2. CASE Halt
    <2> DEFINE s == stacks[shown]
    <2>1. s # <<>> /\ s \in Seq(Pids) /\ Len(s) >= 1
      BY <1>2 DEF Halt, Stop, StacksOK
    <2>2. /\ stacks' = [stacks EXCEPT ![shown] = SubSeq(s, 1, Len(s) - 1)] /\ shown' = shown
          /\ users' \subseteq users /\ UNCHANGED <<vidmap_called, frozen>>
      BY <1>2 DEF Halt, Stop
    <2>3. SubSeq(s, 1, Len(s) - 1) \in Seq(Pids) /\ Len(SubSeq(s, 1, Len(s) - 1)) = Len(s) - 1
      BY <2>1
    <2>4. stacks'[shown'] = SubSeq(s, 1, Len(s) - 1)
      BY <2>2 DEF StacksOK
    <2>5. StacksOK'
      BY <2>2, <2>3 DEF StacksOK
    <2>6. CASE Len(s) > 1
      <3> DEFINE q == s[Len(s) - 1]
                 m == map_v_p(mem, USER_PROCESS_START_VIRTUAL, Frame(q), 1)
      <3>1. q \in Pids /\ Top(SubSeq(s, 1, Len(s) - 1)) = q
        BY <2>1, <2>6 DEF Top
      <3>2. mem' = Unmap(m) /\ tlb' = flush_tlb(tlb)
        BY <1>2, <2>6 DEF Halt
      <3> HIDE DEF q
      <3>3. MemOK(m) /\ 32 \in DOMAIN m.dir /\ m.dir[32] = Large(2 + q)
        BY <3>1, ProgramKeepsMem
      <3> HIDE DEF m
      <3>4. MemOK(Unmap(m)) /\ 32 \in DOMAIN Unmap(m).dir /\ Unmap(m).dir[32] = Large(2 + q)
        BY <3>3, VideoKeepsMem DEF Unmap
      <3>5. Mapped'
        BY <2>4, <3>1, <3>2, <3>4 DEF Mapped
      <3>6. TlbCoherent'
        BY <3>2, FlushCoherent, Zenon DEF TlbCoherent
      <3> QED
        BY <2>5, <3>2, <3>4, <3>5, <3>6
    <2>7. CASE Len(s) = 1
      <3>1. mem' = mem /\ tlb' = tlb
        BY <1>2, <2>7 DEF Halt
      <3>2. stacks'[shown'] = <<>>
        BY <2>1, <2>3, <2>4, <2>7
      <3> QED
        BY <2>5, <3>1, <3>2 DEF Mapped, TlbCoherent
    <2>8. Len(s) > 1 \/ Len(s) = 1
      <3>1. Len(s) \in Nat /\ Len(s) >= 1
        BY <2>1
      <3>2. \A n \in Nat : n >= 1 => n > 1 \/ n = 1
        OBVIOUS
      <3> QED
        BY <3>1, <3>2, Zenon
    <2> HIDE DEF s
    <2> QED
      BY <2>6, <2>7, <2>8, Zenon
  <1>3. CASE vidmap
    <2>1. /\ mem' = map_v_p(mem, USER_VIDMAP, VIDEO, 0) /\ tlb' = flush_tlb(tlb)
          /\ UNCHANGED <<stacks, shown, frozen>>
      BY <1>3 DEF vidmap
    <2>2. /\ MemOK(mem')
          /\ 32 \in DOMAIN mem.dir => 32 \in DOMAIN mem'.dir /\ mem'.dir[32] = mem.dir[32]
      BY <2>1, VideoKeepsMem
    <2>3. stacks[shown] # <<>> /\ stacks[shown] \in Seq(Pids)
      BY <1>3 DEF vidmap, Running, StacksOK
    <2>4. Top(stacks[shown]) \in Pids
      <3>1. Len(stacks[shown]) \in 1 .. Len(stacks[shown])
        BY <2>3
      <3> QED
        BY <2>3, <3>1 DEF Top
    <2>5. StacksOK'
      <3>1. users' \subseteq Pids
        BY <1>3, <2>4 DEF vidmap, StacksOK
      <3>2. vidmap_called' \in BOOLEAN
        BY <1>3 DEF vidmap
      <3> QED
        BY <2>1, <3>1, <3>2 DEF StacksOK
    <2>6. Mapped'
      BY <2>1, <2>2 DEF Mapped
    <2>7. TlbCoherent'
      BY <2>1, FlushCoherent, Zenon DEF TlbCoherent
    <2> QED
      BY <2>2, <2>5, <2>6, <2>7
  <1>4. ASSUME NEW t \in Terms, Switch(t) PROVE PgInv'
    <2>1. shown' = t /\ UNCHANGED <<stacks, vidmap_called, users, frozen>>
      BY <1>4 DEF Switch, Show
    <2>2. StacksOK'
      BY <2>1 DEF StacksOK
    <2>3. CASE stacks[t] = <<>>
      BY <1>4, <2>1, <2>2, <2>3 DEF Switch, Mapped, TlbCoherent
    <2>4. CASE stacks[t] # <<>>
      <3> DEFINE p == Top(stacks[t])
      <3>1. p \in Pids
        BY <2>4 DEF StacksOK, Top
      <3>2. mem' = map_v_p(mem, USER_PROCESS_START_VIRTUAL, Frame(p), 1) /\ tlb' = flush_tlb(tlb)
        BY <1>4, <2>4 DEF Switch
      <3> HIDE DEF p
      <3>3. MemOK(mem') /\ 32 \in DOMAIN mem'.dir /\ mem'.dir[32] = Large(2 + p)
        BY <3>1, <3>2, ProgramKeepsMem
      <3>4. Mapped'
        BY <2>1, <3>3 DEF Mapped, p
      <3>5. TlbCoherent'
        BY <3>2, FlushCoherent, Zenon DEF TlbCoherent
      <3> QED
        BY <2>2, <3>3, <3>4, <3>5
    <2> QED
      BY <2>3, <2>4
  <1>5. ASSUME NEW a, Touch(a) PROVE PgInv'
    <2>1. tlb' = Load(tlb, mem, a) /\ mem' = mem
      BY <1>5 DEF Touch
    <2>2. TlbCoherent'
      <3>1. \A b \in DOMAIN tlb : tlb[b] = Translate(mem, b)
        BY DEF TlbCoherent
      <3>2. \A b \in DOMAIN Load(tlb, mem, a) : Load(tlb, mem, a)[b] = Translate(mem, b)
        BY <3>1, LoadCoherent, Zenon
      <3> QED
        BY <2>1, <3>2, Zenon DEF TlbCoherent
    <2>3. StacksOK' /\ Mapped'
      BY <1>5 DEF Touch, StacksOK, Mapped
    <2> QED
      BY <2>1, <2>2, <2>3
  <1>6. CASE UNCHANGED allVars
    BY <1>6 DEF allVars, pgVars, StacksOK, Mapped, TlbCoherent
  <1>7. CASE Loop
    BY <1>6, <1>7 DEF Loop
  <1> QED
    BY <1>1, <1>2, <1>3, <1>4, <1>5, <1>6, <1>7 DEF PgNext

(* The invariant holds throughout.                                         *)
THEOREM PgInvariant == PgSpec => []PgInv
  BY PgInvInit, PgInvStep, PTL DEF PgSpec

(* Types are kept, for every number of processes.                          *)
THEOREM PagingTypes == PgSpec => []PgTypeOK
  <1>1. PgInv => PgTypeOK
    <2> SUFFICES ASSUME PgInv PROVE PgTypeOK
      OBVIOUS
    <2>1. StacksOK
      BY DEF PgInv
    <2>2. DOMAIN mem = {"dir", "table"}
      BY DEF PgInv, MemOK
    <2>3. DirOK(mem.dir) /\ TableOK(mem.table)
      BY DEF PgInv, MemOK
    <2> QED
      BY <2>1, <2>2, <2>3 DEF PgTypeOK, StacksOK, DirOK, TableOK, DirEntry
  <1> QED
    BY <1>1, PgInvariant, PTL

(* Whatever programs start, halt or are switched to, the program that runs *)
(* finds its own frame behind the program page.                            *)
THEOREM RunsOnOwnFrame == PgSpec => []OwnFrame
  <1>1. PgInv => OwnFrame
    <2> SUFFICES ASSUME PgInv, stacks[shown] # <<>>
                 PROVE  Translate(mem, USER_PROCESS_START_VIRTUAL) = Frame(Top(stacks[shown]))
      BY DEF OwnFrame
    <2> DEFINE p == Top(stacks[shown])
    <2>1. 32 \in DOMAIN mem.dir /\ mem.dir[32] = Large(2 + p)
      BY DEF PgInv, Mapped
    <2>2. stacks[shown] \in Seq(Pids)
      BY DEF PgInv, StacksOK
    <2>3. p \in Pids
      <3>1. Len(stacks[shown]) \in 1 .. Len(stacks[shown])
        BY <2>2
      <3> QED
        BY <2>2, <3>1 DEF Top
    <2> HIDE DEF p
    <2>4. p \in Nat
      BY <2>3, PagingAssumption DEF Pids
    <2>5. DirIndex(USER_PROCESS_START_VIRTUAL) = 32 /\ USER_PROCESS_START_VIRTUAL % MB_4 = 0
      BY DEF DirIndex, USER_PROCESS_START_VIRTUAL, MB_4, KB_4
    <2>6. Translate(mem, USER_PROCESS_START_VIRTUAL) = (2 + p) * MB_4 + 0
      BY <2>1, <2>5 DEF Translate, Large
    <2>7. (2 + p) * MB_4 + 0 = Frame(p)
      BY <2>4 DEF Frame, USER_PROCESS_START_PHYSICAL, MB_4, KB_4
    <2> QED
      BY <2>6, <2>7 DEF p
  <1> QED
    BY <1>1, PgInvariant, PTL

(* The kernel, the screen and the saved screens stay where they are.       *)
THEOREM KernelStaysMapped == PgSpec => []KernelKept
  <1>1. PgInv => KernelKept
    <2> SUFFICES ASSUME PgInv PROVE KernelKept
      OBVIOUS
    <2>1. DirOK(mem.dir) /\ TableOK(mem.table)
      BY DEF PgInv, MemOK
    <2>2. Translate(mem, KERNEL_MEMORY_ADDR) = KERNEL_MEMORY_ADDR
      <3>1. DirIndex(KERNEL_MEMORY_ADDR) = 1 /\ KERNEL_MEMORY_ADDR % MB_4 = 0
        BY DEF DirIndex, KERNEL_MEMORY_ADDR, MB_4, KB_4
      <3>2. Translate(mem, KERNEL_MEMORY_ADDR) = 1 * MB_4 + 0
        BY <2>1, <3>1 DEF Translate, DirOK, Large
      <3> QED
        BY <3>2 DEF KERNEL_MEMORY_ADDR, MB_4, KB_4
    <2>3. ASSUME NEW k \in 1 .. ENTRIES - 1, k \in DOMAIN mem.table, mem.table[k] = k
          PROVE  Translate(mem, k * KB_4) = k * KB_4
      <3>1. DirIndex(k * KB_4) = 0 /\ TableIndex(k * KB_4) = k /\ (k * KB_4) % KB_4 = 0
        BY DEF DirIndex, TableIndex, MB_4, KB_4, ENTRIES
      <3>2. Translate(mem, k * KB_4) = k * KB_4 + 0
        BY <2>1, <2>3, <3>1, SMTT(30) DEF Translate, DirOK, ToTable
      <3> QED
        BY <3>2 DEF KB_4
    <2>4. Translate(mem, VIDEO) = VIDEO
      BY <2>1, <2>3, SMTT(30) DEF TableOK, VIDEO, ENTRIES
    <2>5. \A t \in Terms : Translate(mem, get_term_vid_addr(t)) = get_term_vid_addr(t)
      <3> TAKE t \in Terms
      <3>1. 208 + t \in 1 .. ENTRIES - 1
        BY PagingAssumption DEF Terms, ENTRIES
      <3>2. get_term_vid_addr(t) = (208 + t) * KB_4
        BY <3>1 DEF get_term_vid_addr, TERM_MEM, KB_4, Terms
      <3>3. Translate(mem, (208 + t) * KB_4) = (208 + t) * KB_4
        BY <2>1, <2>3, <3>1, Zenon DEF TableOK
      <3> QED
        BY <3>2, <3>3
    <2> QED
      BY <2>2, <2>4, <2>5 DEF KernelKept
  <1> QED
    BY <1>1, PgInvariant, PTL

(* No stale translation is ever used.                                      *)
THEOREM NoStaleTranslation == PgSpec => []TlbCoherent
  <1>1. PgInv => TlbCoherent
    BY DEF PgInv
  <1> QED
    BY <1>1, PgInvariant, PTL

-----------------------------------------------------------------------------
(* The memory functions.  A store of several bytes at once, and the two    *)
(* directions of memmove, keep the memory split in the part that is done   *)
(* and the part that is as it was.                                         *)

(* Memory when the bytes from lo up to hi have been stored.                *)
Image(op, d, s, lo, hi) ==
    [i \in 0 .. CELLS - 1 |->
        IF i \notin lo .. hi - 1 THEN i ELSE IF op = "memset" THEN Fill ELSE s + i - d]

(* The call does not copy forwards onto bytes it still has to read.        *)
Apart(op, d, s, n) == op = "memcpy" => d <= s \/ d >= s + n

(* The bytes still to be stored.                                           *)
Left == IF lpc = "rep" THEN WORD * ecx + edx ELSE IF lpc = "bottom" THEN edx ELSE ecx

ForwardInv ==
    LET d == call.dest  s == call.src  n == call.n IN
    /\ call.op \in {"memcpy", "memset"}
    /\ Left = d + n - edi /\ edi >= d
    /\ call.op = "memcpy" => esi - s = edi - d
    /\ Apart(call.op, d, s, n) => memory = Image(call.op, d, s, d, edi)

MoveInv ==
    LET d == call.dest  s == call.src  n == call.n IN
    /\ call.op = "memmove" /\ ecx <= n
    /\ IF df THEN /\ s < d /\ esi = s + ecx - 1 /\ edi = d + ecx - 1
                  /\ memory = Image("memmove", d, s, d + ecx, d + n)
       ELSE /\ d <= s /\ esi = s + n - ecx /\ edi = d + n - ecx
            /\ memory = Image("memmove", d, s, d, edi)

MemInv ==
    LET d == call.dest  s == call.src  n == call.n IN
    /\ lpc \in {"idle", "top", "rep", "bottom", "movsb", "done"}
    /\ lpc = "idle" => memory = [i \in 0 .. CELLS - 1 |-> i]
    /\ lpc \in {"top", "rep", "bottom", "movsb"} =>
          /\ d \in Nat /\ s \in Nat /\ n \in Nat /\ d + n <= CELLS /\ s + n <= CELLS
          /\ esi \in Int /\ edi \in Int /\ ecx \in Nat /\ edx \in Nat
    /\ lpc \in {"top", "rep", "bottom"} => ForwardInv
    /\ lpc = "movsb" => MoveInv
    /\ lpc = "done" /\ call.op \in MemOps /\ Apart(call.op, d, s, n) =>
          /\ memory = Image(call.op, d, s, d, d + n)
          /\ d \in Nat /\ s \in Nat /\ n \in Nat

(* A store of k bytes behind those that are done reads none of them.       *)
LEMMA StoreForward ==
    ASSUME CELLS \in Nat, NEW d \in Nat, NEW s \in Nat, NEW n \in Nat, NEW k \in Nat,
           d + n <= CELLS, s + n <= CELLS, edi \in Int, esi \in Int,
           edi >= d, edi + k <= d + n,
           call.op = "memset" \/ (esi - s = edi - d /\ (d <= s \/ d >= s + n)),
           memory = Image(call.op, d, s, d, edi), Store(k)
    PROVE  memory' = Image(call.op, d, s, d, edi + k)
  <1>1. memory' = [i \in 0 .. CELLS - 1 |->
                     IF i \in edi .. edi + k - 1
                     THEN (IF call.op = "memset" THEN Fill ELSE memory[esi + i - edi])
                     ELSE memory[i]]
    BY DEF Store, Image
  <1>2. ASSUME NEW i \in 0 .. CELLS - 1
        PROVE  memory'[i] = IF i \notin d .. edi + k - 1 THEN i
                            ELSE IF call.op = "memset" THEN Fill ELSE s + i - d
    <2>1. CASE i \in edi .. edi + k - 1 /\ call.op # "memset"
      <3>1. esi + i - edi \in 0 .. CELLS - 1 /\ esi + i - edi \notin d .. edi - 1
            /\ esi + i - edi = s + i - d
        BY <2>1
      <3>2. memory[esi + i - edi] = esi + i - edi
        BY <3>1 DEF Image
      <3>3. memory'[i] = memory[esi + i - edi]
        BY <1>1, <2>1
      <3>4. i \in d .. edi + k - 1
        BY <2>1
      <3> QED
        BY <2>1, <3>1, <3>2, <3>3, <3>4
    <2>2. CASE i \in edi .. edi + k - 1 /\ call.op = "memset"
      BY <1>1, <2>2
    <2>3. CASE i \notin edi .. edi + k - 1
      BY <1>1, <2>3 DEF Image
    <2> QED
      BY <2>1, <2>2, <2>3
  <1> QED
    BY <1>1, <1>2 DEF Image

(* Nor does one before those that are done, when the source is lower.      *)
LEMMA StoreBackward ==
    ASSUME CELLS \in Nat, NEW d \in Nat, NEW s \in Nat, NEW n \in Nat, NEW r \in 1 .. n,
           d + n <= CELLS, s < d, edi = d + r - 1, esi = s + r - 1, call.op = "memmove",
           memory = Image("memmove", d, s, d + r, d + n), Store(1)
    PROVE  memory' = Image("memmove", d, s, d + r - 1, d + n)
  <1>1. memory' = [i \in 0 .. CELLS - 1 |->
                     IF i \in edi .. edi + 1 - 1 THEN memory[esi + i - edi] ELSE memory[i]]
    BY DEF Store, Image
  <1>2. memory[esi] = esi
    BY DEF Image
  <1>3. ASSUME NEW i \in 0 .. CELLS - 1
        PROVE  memory'[i] = IF i \notin d + r - 1 .. d + n - 1 THEN i ELSE s + i - d
    <2>1. CASE i = edi
      BY <1>1, <1>2, <2>1
    <2>2. CASE i # edi
      BY <1>1, <2>2 DEF Image
    <2> QED
      BY <2>1, <2>2
  <1> QED
    BY <1>1, <1>3 DEF Image

(* The loops that go forwards.                                             *)
LEMMA ForwardStep ==
    ASSUME MemInv, ToAlign \/ RepWord \/ Bottom
    PROVE  MemInv'
  <1> DEFINE d == call.dest  s == call.src  n == call.n
  <1>1. CELLS \in Nat
    BY LibAssumption
  <1>2. /\ d \in Nat /\ s \in Nat /\ n \in Nat /\ d + n <= CELLS /\ s + n <= CELLS
        /\ esi \in Int /\ edi \in Int /\ ecx \in Nat /\ edx \in Nat
        /\ lpc \in {"top", "rep", "bottom"} /\ call' = call
    BY DEF MemInv, ToAlign, RepWord, Bottom
  <1>3. /\ call.op \in {"memcpy", "memset"} /\ Left = d + n - edi /\ edi >= d
        /\ call.op = "memcpy" => esi - s = edi - d
        /\ Apart(call.op, d, s, n) => memory = Image(call.op, d, s, d, edi)
    BY <1>2 DEF MemInv, ForwardInv
  <1>4. ASSUME NEW k \in Nat, k <= Left, Store(k), Advance(k), lpc' = lpc,
               ecx' \in Nat, edx' \in Nat, df' = df, Left' = Left - k
        PROVE  MemInv'
    <2>1. Apart(call.op, d, s, n) => memory' = Image(call.op, d, s, d, edi + k)
      <3>1. SUFFICES ASSUME Apart(call.op, d, s, n)
                     PROVE  memory' = Image(call.op, d, s, d, edi + k)
        OBVIOUS
      <3>2. call.op = "memset" \/ (esi - s = edi - d /\ (d <= s \/ d >= s + n))
        BY <1>3, <3>1 DEF Apart
      <3>3. edi + k <= d + n
        BY <1>2, <1>3, <1>4
      <3>4. memory = Image(call.op, d, s, d, edi)
        BY <1>3, <3>1
      <3> HIDE DEF d, s, n
      <3> QED
        BY <1>1, <1>2, <1>3, <1>4, <3>2, <3>3, <3>4, StoreForward, Zenon
    <2>2. edi' = edi + k /\ esi' \in Int /\ (call.op = "memcpy" => esi' = esi + k)
      BY <1>2, <1>4 DEF Advance
    <2>3. ForwardInv'
      BY <1>2, <1>3, <1>4, <2>1, <2>2 DEF ForwardInv
    <2> QED
      BY <1>2, <1>4, <2>2, <2>3 DEF MemInv
  <1>5. ASSUME UNCHANGED <<memory, esi, edi, df>>, lpc' \in {"rep", "bottom"},
               ecx' \in Nat, edx' \in Nat, Left' = Left
        PROVE  MemInv'
    <2>1. ForwardInv'
      BY <1>2, <1>3, <1>5 DEF ForwardInv
    <2> QED
      BY <1>2, <1>5, <2>1 DEF MemInv
  <1>6. ASSUME Left = 0, lpc' = "done", memory' = memory
        PROVE  MemInv'
    <2>1. edi = d + n
      <3> HIDE DEF d, s, n
      <3> QED
        BY <1>2, <1>3, <1>6
    <2> QED
      BY <1>2, <1>3, <1>6, <2>1 DEF MemInv
  <1>7. CASE ToAlign
    <2>1. lpc = "top" /\ Left = ecx
      BY <1>7 DEF ToAlign, Left
    <2>2. CASE ecx = 0
      BY <1>6, <1>7, <2>1, <2>2 DEF ToAlign
    <2>3. CASE ecx # 0 /\ edi % WORD = 0
      <3>1. lpc' = "rep" /\ ecx' = ecx \div 4 /\ edx' = ecx % 4
            /\ UNCHANGED <<memory, esi, edi, df>>
        BY <1>7, <2>3 DEF ToAlign, WORD
      <3>2. ecx' \in Nat /\ edx' \in Nat /\ 4 * ecx' + edx' = ecx
        BY <1>2, <3>1
      <3>3. Left' = Left
        BY <2>1, <3>1, <3>2 DEF Left, WORD
      <3> QED
        BY <1>5, <3>1, <3>2, <3>3
    <2>4. CASE ecx # 0 /\ edi % WORD # 0
      <3>1. Store(1) /\ Advance(1) /\ ecx' = ecx - 1 /\ UNCHANGED <<lpc, edx, df>>
        BY <1>7, <2>4 DEF ToAlign
      <3>2. Left' = Left - 1 /\ 1 <= Left /\ ecx' \in Nat /\ edx' \in Nat
        BY <1>2, <2>1, <2>4, <3>1 DEF Left
      <3> QED
        BY <1>4, <3>1, <3>2
    <2> QED
      BY <2>2, <2>3, <2>4
  <1>8. CASE RepWord
    <2>1. lpc = "rep" /\ Left = 4 * ecx + edx
      BY <1>8 DEF RepWord, Left, WORD
    <2>2. CASE ecx = 0
      <3>1. lpc' = "bottom" /\ UNCHANGED <<memory, regs>>
        BY <1>8, <2>2 DEF RepWord
      <3>2. Left' = Left /\ ecx' \in Nat /\ edx' \in Nat
            /\ UNCHANGED <<memory, esi, edi, df>>
        BY <1>2, <2>1, <2>2, <3>1 DEF Left, regs
      <3> QED
        BY <1>5, <3>1, <3>2
    <2>3. CASE ecx # 0
      <3>1. Store(4) /\ Advance(4) /\ ecx' = ecx - 1 /\ UNCHANGED <<lpc, edx, df>>
        BY <1>8, <2>3 DEF RepWord, WORD
      <3>2. Left' = Left - 4 /\ 4 <= Left /\ ecx' \in Nat /\ edx' \in Nat
        BY <1>2, <2>1, <2>3, <3>1 DEF Left, WORD
      <3> QED
        BY <1>4, <3>1, <3>2
    <2> QED
      BY <2>2, <2>3
  <1>9. CASE Bottom
    <2>1. lpc = "bottom" /\ Left = edx
      BY <1>9 DEF Bottom, Left
    <2>2. CASE edx = 0
      BY <1>6, <1>9, <2>1, <2>2 DEF Bottom
    <2>3. CASE edx # 0
      <3>1. Store(1) /\ Advance(1) /\ edx' = edx - 1 /\ UNCHANGED <<lpc, ecx, df>>
        BY <1>9, <2>3 DEF Bottom
      <3>2. Left' = Left - 1 /\ 1 <= Left /\ ecx' \in Nat /\ edx' \in Nat
        BY <1>2, <2>1, <2>3, <3>1 DEF Left
      <3> QED
        BY <1>4, <3>1, <3>2
    <2> QED
      BY <2>2, <2>3
  <1> QED
    BY <1>7, <1>8, <1>9

(* memmove, in either direction.                                           *)
LEMMA MoveStep ==
    ASSUME MemInv, RepByte
    PROVE  MemInv'
  <1> DEFINE d == call.dest  s == call.src  n == call.n
  <1>1. CELLS \in Nat
    BY LibAssumption
  <1>2. /\ d \in Nat /\ s \in Nat /\ n \in Nat /\ d + n <= CELLS /\ s + n <= CELLS
        /\ esi \in Int /\ edi \in Int /\ ecx \in Nat /\ edx \in Nat
        /\ lpc = "movsb" /\ call' = call /\ call.op = "memmove" /\ ecx <= n /\ MoveInv
    BY DEF MemInv, MoveInv, RepByte
  <1>3. CASE ecx = 0
    <2>1. lpc' = "done" /\ memory' = memory
      BY <1>3 DEF RepByte
    <2>2. memory = Image("memmove", d, s, d, d + n)
      BY <1>2, <1>3 DEF MoveInv
    <2> QED
      BY <1>2, <2>1, <2>2 DEF MemInv
  <1>4. CASE ecx # 0 /\ df
    <2>1. Store(1) /\ esi' = esi - 1 /\ edi' = edi - 1 /\ ecx' = ecx - 1
          /\ UNCHANGED <<lpc, edx, df>>
      BY <1>2, <1>4 DEF RepByte
    <2>2. s < d /\ esi = s + ecx - 1 /\ edi = d + ecx - 1
          /\ memory = Image("memmove", d, s, d + ecx, d + n)
      BY <1>2, <1>4 DEF MoveInv
    <2>3. memory' = Image("memmove", d, s, d + ecx - 1, d + n)
      <3> HIDE DEF d, s, n
      <3>1. ecx \in 1 .. n
        BY <1>2, <1>4
      <3> QED
        BY <1>1, <1>2, <2>1, <2>2, <3>1, StoreBackward, Zenon
    <2>4. MoveInv'
      <3>1. d + (ecx - 1) = d + ecx - 1
        BY <1>2
      <3> QED
        BY <1>2, <1>4, <2>1, <2>2, <2>3, <3>1 DEF MoveInv
    <2> QED
      BY <1>2, <1>4, <2>1, <2>4 DEF MemInv
  <1>5. CASE ecx # 0 /\ ~df
    <2>1. Store(1) /\ esi' = esi + 1 /\ edi' = edi + 1 /\ ecx' = ecx - 1
          /\ UNCHANGED <<lpc, edx, df>>
      BY <1>2, <1>5 DEF RepByte
    <2>2. d <= s /\ esi = s + n - ecx /\ edi = d + n - ecx
          /\ memory = Image("memmove", d, s, d, edi)
      BY <1>2, <1>5 DEF MoveInv
    <2>3. memory' = Image("memmove", d, s, d, edi + 1)
      <3> HIDE DEF d, s, n
      <3>1. edi >= d /\ edi + 1 <= d + n /\ esi - s = edi - d
        BY <1>2, <1>5, <2>2
      <3> QED
        BY <1>1, <1>2, <2>1, <2>2, <3>1, StoreForward
    <2>4. MoveInv'
      BY <1>2, <1>5, <2>1, <2>2, <2>3 DEF MoveInv
    <2> QED
      BY <1>2, <1>5, <2>1, <2>4 DEF MemInv
  <1> QED
    BY <1>3, <1>4, <1>5

(* A call begins with nothing stored.                                      *)
LEMMA MoveCalled ==
    ASSUME MemInv, NEW op \in MemOps, NEW dest \in 0 .. CELLS, NEW src \in 0 .. CELLS,
           NEW n \in 0 .. CELLS, dest + n <= CELLS, src + n <= CELLS,
           CallMem(op, dest, src, n)
    PROVE  MemInv'
  <1>1. CELLS \in Nat
    BY LibAssumption
  <1>2. /\ call'.op = op /\ call'.dest = dest /\ call'.src = src /\ call'.n = n
        /\ memory' = [i \in 0 .. CELLS - 1 |-> i] /\ ecx' = n /\ edx' = 0
    BY DEF CallMem, MemInv
  <1>3. \A d, s \in Nat, lo, hi \in Int : lo >= hi => memory' = Image(op, d, s, lo, hi)
    BY <1>1, <1>2 DEF Image
  <1>4. CASE op = "memmove"
    <2>1. lpc' = "movsb"
      BY <1>4 DEF CallMem
    <2>2. CASE src >= dest
      <3>1. esi' = src /\ edi' = dest /\ df' = FALSE
        BY <1>4, <2>2 DEF CallMem, MoveStart
      <3>2. memory' = Image("memmove", dest, src, dest, dest)
        BY <1>1, <1>3, <1>4
      <3>3. MoveInv'
        BY <1>1, <1>2, <1>4, <2>2, <3>1, <3>2 DEF MoveInv
      <3> QED
        BY <1>1, <1>2, <2>1, <3>1, <3>3 DEF MemInv
    <2>3. CASE ~(src >= dest)
      <3>1. esi' = src + n - 1 /\ edi' = dest + n - 1 /\ df' = TRUE
        BY <1>4, <2>3 DEF CallMem, MoveStart
      <3>2. memory' = Image("memmove", dest, src, dest + n, dest + n)
        BY <1>1, <1>3, <1>4
      <3>3. MoveInv'
        BY <1>1, <1>2, <1>4, <2>3, <3>1, <3>2 DEF MoveInv
      <3> QED
        BY <1>1, <1>2, <2>1, <3>1, <3>3 DEF MemInv
    <2> QED
      BY <2>2, <2>3
  <1>5. CASE op # "memmove"
    <2>1. lpc' = "top" /\ df' = FALSE /\ esi' = src /\ edi' = dest
      BY <1>5 DEF CallMem
    <2>2. memory' = Image(op, dest, src, dest, dest)
      BY <1>1, <1>3
    <2>3. Left' = n
      BY <1>2, <2>1 DEF Left
    <2>4. ForwardInv'
      BY <1>1, <1>2, <1>5, <2>1, <2>2, <2>3 DEF ForwardInv, MemOps
    <2> QED
      BY <1>1, <1>2, <2>1, <2>4 DEF MemInv
  <1> QED
    BY <1>4, <1>5

(* At the end of memcpy, memset and memmove the n bytes are those of the   *)
(* source, as they were, or the fill, and no other byte is touched, for    *)
(* every size of the memory and every alignment, length and overlap that   *)
(* MemoryMoved admits (lib.c).                                             *)
THEOREM MovesExactly == LibSpec => []MemoryMoved
  <1>1. LibInit => MemInv
    BY DEF LibInit, MemInv, NoCall
  <1>2. MemInv /\ [LibNext]_lVars => MemInv'
    <2> SUFFICES ASSUME MemInv, [LibNext]_lVars PROVE MemInv'
      OBVIOUS
    <2>1. ASSUME NEW conv \in Conversions, NEW w \in WordValues, printf(conv, w)
          PROVE  MemInv'
      BY <2>1 DEF printf, MemInv, NoCall, Conversions, MemOps
    <2>2. CASE UNCHANGED lVars
      BY <2>2 DEF lVars, regs, MemInv, MoveInv, ForwardInv, Left
    <2> QED
      BY <2>1, <2>2, MoveCalled, ForwardStep, MoveStep DEF LibNext
  <1>3. MemInv => MemoryMoved
    <2> DEFINE d == call.dest  s == call.src  n == call.n
               moved == [i \in 0 .. CELLS - 1 |->
                           IF i \notin d .. d + n - 1 THEN i
                           ELSE IF call.op = "memset" THEN Fill ELSE s + i - d]
    <2>1. ASSUME MemInv, lpc = "done", call.op \in MemOps,
                 call.op = "memcpy" => d <= s \/ d >= s + n
          PROVE  memory = moved
      <3>1. Apart(call.op, d, s, n)
        BY <2>1 DEF Apart
      <3>2. memory = Image(call.op, d, s, d, d + n) /\ d \in Nat /\ s \in Nat /\ n \in Nat
        BY <2>1, <3>1 DEF MemInv
      <3> HIDE DEF d, s, n
      <3>3. Image(call.op, d, s, d, d + n) = moved
        BY <3>2 DEF Image
      <3> QED
        BY <3>2, <3>3
    <2> QED
      BY <2>1, Zenon DEF MemoryMoved
  <1> QED
    BY <1>1, <1>2, <1>3, PTL DEF LibSpec

-----------------------------------------------------------------------------
(* The numbers that printf puts.                                           *)

(* A set of numbers that is not empty has a least one.                     *)
LEMMA LeastOf ==
    ASSUME NEW T \in SUBSET Nat, T # {}
    PROVE  \E k \in T : \A j \in T : k <= j
  <1>1. PICK k \in T : \A j \in T : ~(<<j, k>> \in OpToRel(<, Nat))
    BY NatLessThanWellFounded, WFMin, Zenon
  <1>2. \A j \in T : ~(j < k)
    BY <1>1, Zenon DEF OpToRel
  <1> QED
    BY <1>2

(* g holds the first n values of the recursion from b on with h.           *)
Begins(n, g, b, h) == g[0] = b /\ \A k \in 1 .. n : g[k] = h[g[k - 1]]

(* f holds all of them.                                                    *)
Recurs(f, b, h) ==
    f = [k \in Nat |-> f[k]] /\ f[0] = b /\ \A k \in Nat \ {0} : f[k] = h[f[k - 1]]

(* Beginnings of every length exist,                                       *)
LEMMA BeginningsExist == \A b, h : \A n \in Nat : \E g : Begins(n, g, b, h)
  <1> SUFFICES ASSUME NEW b, NEW h PROVE \A n \in Nat : \E g : Begins(n, g, b, h)
    OBVIOUS
  <1> DEFINE T == {n \in Nat : ~\E g : Begins(n, g, b, h)}
  <1>1. SUFFICES ASSUME T # {} PROVE FALSE
    OBVIOUS
  <1>2. PICK n \in T : \A m \in T : n <= m
    BY <1>1, LeastOf, Zenon
  <1>3. n \in Nat /\ \A m \in Nat : m < n => \E g : Begins(m, g, b, h)
    BY <1>2
  <1>4. n # 0
    <2>1. Begins(0, [k \in 0 .. 0 |-> b], b, h)
      BY DEF Begins
    <2> QED
      BY <1>2, <2>1
  <1>5. n - 1 \in Nat /\ n - 1 < n
    BY <1>3, <1>4
  <1>6. PICK g : Begins(n - 1, g, b, h)
    BY <1>3, <1>5
  <1>7. Begins(n, [k \in 0 .. n |-> IF k = n THEN h[g[n - 1]] ELSE g[k]], b, h)
    BY <1>3, <1>4, <1>5, <1>6 DEF Begins
  <1> QED
    BY <1>2, <1>7

(* and agree with each other,                                              *)
LEMMA BeginningsAgree ==
    ASSUME NEW b, NEW h, NEW n \in Nat, NEW m \in Nat, n <= m,
           NEW g, NEW e, Begins(n, g, b, h), Begins(m, e, b, h)
    PROVE  \A k \in 0 .. n : g[k] = e[k]
  <1> DEFINE T == {k \in 0 .. n : g[k] # e[k]}
  <1>1. SUFFICES ASSUME T # {} PROVE FALSE
    OBVIOUS
  <1>2. T \in SUBSET Nat
    OBVIOUS
  <1>3. PICK k \in T : \A j \in T : k <= j
    <2> HIDE DEF T
    <2> QED
      BY <1>1, <1>2, LeastOf
  <1>4. k \in 0 .. n /\ g[k] # e[k]
    BY <1>3
  <1>5. k # 0
    BY <1>4 DEF Begins
  <1>6. k - 1 \in 0 .. n /\ k - 1 < k /\ k \in 1 .. n /\ k \in 1 .. m
    BY <1>4, <1>5
  <1>7. g[k - 1] = e[k - 1]
    BY <1>3, <1>4, <1>6
  <1>8. g[k] = h[g[k - 1]] /\ e[k] = h[e[k - 1]]
    BY <1>6 DEF Begins
  <1> QED
    BY <1>4, <1>7, <1>8

(* so that there is a function that the recursion describes.               *)
LEMMA Recursion == \A b, h : \E f : Recurs(f, b, h)
  <1> SUFFICES ASSUME NEW b, NEW h PROVE \E f : Recurs(f, b, h)
    OBVIOUS
  <1> DEFINE G(n) == CHOOSE g : Begins(n, g, b, h)
             W == [k \in Nat |-> G(k)[k]]
  <1>1. \A n \in Nat : Begins(n, G(n), b, h)
    BY BeginningsExist
  <1> HIDE DEF G
  <1>2. ASSUME NEW k \in Nat PROVE W[k] = IF k = 0 THEN b ELSE h[W[k - 1]]
    <2>1. CASE k = 0
      BY <1>1, <2>1 DEF Begins
    <2>2. CASE k # 0
      <3>1. k - 1 \in Nat /\ k - 1 <= k /\ k - 1 \in 0 .. k - 1 /\ k \in 1 .. k
        BY <2>2
      <3>2. G(k - 1)[k - 1] = G(k)[k - 1]
        BY <1>1, <3>1, BeginningsAgree
      <3>3. G(k)[k] = h[G(k)[k - 1]]
        BY <1>1, <3>1 DEF Begins
      <3> QED
        BY <2>2, <3>1, <3>2, <3>3
    <2> QED
      BY <2>1, <2>2
  <1>3. W = [k \in Nat |-> W[k]]
    OBVIOUS
  <1> HIDE DEF W
  <1>4. W[0] = b /\ \A k \in Nat \ {0} : W[k] = h[W[k - 1]]
    BY <1>2
  <1> QED
    BY <1>3, <1>4 DEF Recurs

(* A recursion over numbers stays among them.                              *)
LEMMA RecursionType ==
    ASSUME NEW b \in Nat, NEW h \in [Nat -> Nat], NEW f,
           f[0] = b, \A k \in Nat \ {0} : f[k] = h[f[k - 1]]
    PROVE  \A k \in Nat : f[k] \in Nat
  <1> DEFINE T == {k \in Nat : f[k] \notin Nat}
  <1>1. SUFFICES ASSUME T # {} PROVE FALSE
    OBVIOUS
  <1>2. PICK k \in T : \A j \in T : k <= j
    BY <1>1, LeastOf, Zenon
  <1>3. k \in Nat \ {0}
    BY <1>2
  <1>4. k - 1 \in Nat /\ k - 1 < k
    BY <1>3
  <1>5. f[k - 1] \in Nat
    BY <1>2, <1>3, <1>4
  <1> QED
    BY <1>2, <1>3, <1>5

(* Powers of two.                                                          *)
LEMMA Pow2Is ==
    /\ Pow2[0] = 1
    /\ \A k \in Nat : Pow2[k] \in Nat
    /\ \A k \in Nat : Pow2[k + 1] = 2 * Pow2[k] /\ Pow2[k + 4] = 16 * Pow2[k]
  <1> DEFINE h == [x \in Nat |-> 2 * x]
  <1>1. PICK f : Recurs(f, 1, h)
    BY Recursion, Zenon
  <1>2. f[0] = 1 /\ \A k \in Nat \ {0} : f[k] = h[f[k - 1]]
    <2> HIDE DEF h
    <2> QED
      BY <1>1 DEF Recurs
  <1>3. h \in [Nat -> Nat]
    OBVIOUS
  <1>4. \A k \in Nat : f[k] \in Nat
    <2> HIDE DEF h
    <2> QED
      BY <1>2, <1>3, RecursionType
  <1>5. ASSUME NEW k \in Nat PROVE f[k] = IF k = 0 THEN 1 ELSE 2 * f[k - 1]
    <2>1. k # 0 => k - 1 \in Nat /\ f[k - 1] \in Nat
      BY <1>4
    <2> QED
      BY <1>2, <2>1, Zenon
  <1>6. f = [k \in Nat |-> f[k]]
    BY <1>1 DEF Recurs
  <1>7. f = [k \in Nat |-> IF k = 0 THEN 1 ELSE 2 * f[k - 1]]
    BY <1>5, <1>6, Zenon
  <1>8. \E e : e = [k \in Nat |-> IF k = 0 THEN 1 ELSE 2 * e[k - 1]]
    BY <1>7
  <1>9. Pow2 = [k \in Nat |-> IF k = 0 THEN 1 ELSE 2 * Pow2[k - 1]]
    BY <1>8 DEF Pow2
  <1>10. Pow2[0] = 1 /\ \A k \in Nat \ {0} : Pow2[k] = 2 * Pow2[k - 1]
    BY <1>9
  <1>11. \A k \in Nat : Pow2[k] \in Nat
    <2> DEFINE T == {k \in Nat : Pow2[k] \notin Nat}
    <2>1. SUFFICES ASSUME T # {} PROVE FALSE
      OBVIOUS
    <2>2. PICK k \in T : \A j \in T : k <= j
      BY <2>1, LeastOf, Zenon
    <2>3. k \in Nat \ {0} /\ k - 1 \in Nat /\ k - 1 < k
      BY <1>10, <2>2
    <2>4. Pow2[k - 1] \in Nat
      BY <2>2, <2>3
    <2> QED
      BY <1>10, <2>2, <2>3, <2>4
  <1>12. \A k \in Nat : Pow2[k + 1] = 2 * Pow2[k]
    BY <1>10
  <1>13. ASSUME NEW k \in Nat PROVE Pow2[k + 4] = 16 * Pow2[k]
    <2>1. /\ Pow2[k + 1] = 2 * Pow2[k] /\ Pow2[k + 1 + 1] = 2 * Pow2[k + 1]
          /\ Pow2[k + 1 + 1 + 1] = 2 * Pow2[k + 1 + 1]
          /\ Pow2[k + 1 + 1 + 1 + 1] = 2 * Pow2[k + 1 + 1 + 1]
      BY <1>12
    <2>2. k + 1 + 1 + 1 + 1 = k + 4 /\ Pow2[k] \in Nat
      BY <1>11
    <2> QED
      BY <2>1, <2>2
  <1> QED
    BY <1>10, <1>11, <1>12, <1>13

(* newval, turn after turn.                                                *)
LEMMA NewvalIs ==
    ASSUME NEW v \in Nat, NEW r \in {10, 16}
    PROVE  /\ newval(v, r)[0] = v
           /\ \A k \in Nat : newval(v, r)[k] \in Nat
           /\ \A k \in Nat : newval(v, r)[k + 1] = newval(v, r)[k] \div r
  <1> DEFINE h == [x \in Nat |-> x \div r]
             nv == newval(v, r)
  <1>1. PICK f : Recurs(f, v, h)
    BY Recursion
  <1>2. f[0] = v /\ \A k \in Nat \ {0} : f[k] = h[f[k - 1]]
    <2> HIDE DEF h
    <2> QED
      BY <1>1 DEF Recurs
  <1>3. h \in [Nat -> Nat]
    OBVIOUS
  <1>4. \A k \in Nat : f[k] \in Nat
    <2> HIDE DEF h
    <2> QED
      BY <1>2, <1>3, RecursionType
  <1>5. ASSUME NEW k \in Nat PROVE f[k] = IF k = 0 THEN v ELSE f[k - 1] \div r
    <2>1. k # 0 => k - 1 \in Nat /\ f[k - 1] \in Nat
      BY <1>4
    <2> QED
      BY <1>2, <2>1, Zenon
  <1>6. f = [k \in Nat |-> f[k]]
    BY <1>1 DEF Recurs
  <1>7. f = [k \in Nat |-> IF k = 0 THEN v ELSE f[k - 1] \div r]
    BY <1>5, <1>6
  <1>8. \E e : e = [k \in Nat |-> IF k = 0 THEN v ELSE e[k - 1] \div r]
    BY <1>7
  <1>9. nv = [k \in Nat |-> IF k = 0 THEN v ELSE nv[k - 1] \div r]
    BY <1>8 DEF newval
  <1> HIDE DEF nv
  <1>10. nv[0] = v /\ \A k \in Nat \ {0} : nv[k] = nv[k - 1] \div r
    BY <1>9
  <1>11. \A k \in Nat : nv[k] \in Nat
    <2> DEFINE T == {k \in Nat : nv[k] \notin Nat}
    <2>1. SUFFICES ASSUME T # {} PROVE FALSE
      OBVIOUS
    <2>2. PICK k \in T : \A j \in T : k <= j
      BY <2>1, LeastOf, Zenon
    <2>3. k \in Nat \ {0} /\ k - 1 \in Nat /\ k - 1 < k
      BY <1>10, <2>2
    <2>4. nv[k - 1] \in Nat
      BY <2>2, <2>3
    <2> QED
      BY <1>10, <2>2, <2>3, <2>4
  <1>12. \A k \in Nat : nv[k + 1] = nv[k] \div r
    BY <1>10
  <1> QED
    BY <1>10, <1>11, <1>12 DEF nv

(* The loop of itoa ends: every turn makes newval smaller, until it is 0.  *)
LEMMA TurnsIs ==
    ASSUME NEW v \in Nat, NEW r \in {10, 16}
    PROVE  /\ turns(v, r) \in 0 .. v
           /\ newval(v, r)[turns(v, r)] = 0
           /\ \A k \in 0 .. turns(v, r) - 1 : newval(v, r)[k] > 0
  <1> DEFINE nv == newval(v, r)
  <1>1. /\ nv[0] = v /\ \A k \in Nat : nv[k] \in Nat
        /\ \A k \in Nat : nv[k + 1] = nv[k] \div r
    BY NewvalIs
  <1> HIDE DEF nv
  <1>2. \A k \in Nat : nv[k] = 0 \/ nv[k] + k <= v
    <2> DEFINE T == {k \in Nat : ~(nv[k] = 0 \/ nv[k] + k <= v)}
    <2>1. SUFFICES ASSUME T # {} PROVE FALSE
      OBVIOUS
    <2>2. PICK k \in T : \A j \in T : k <= j
      BY <2>1, LeastOf, Zenon
    <2>3. k \in Nat \ {0} /\ k - 1 \in Nat /\ k - 1 < k /\ (k - 1) + 1 = k
      BY <1>1, <2>2
    <2>4. nv[k - 1] = 0 \/ nv[k - 1] + (k - 1) <= v
      BY <2>2, <2>3
    <2>5. nv[k] = nv[k - 1] \div r /\ nv[k - 1] \in Nat
      BY <1>1, <2>3
    <2>6. \A x \in Nat : (x # 0 => x \div r < x) /\ (x = 0 => x \div r = 0)
      OBVIOUS
    <2>7. nv[k] = 0 \/ nv[k] + k <= v
      BY <1>1, <2>3, <2>4, <2>5, <2>6
    <2> QED
      BY <2>2, <2>7
  <1> DEFINE D == {k \in Nat : nv[k] = 0}
  <1>3. v \in D
    BY <1>1, <1>2
  <1>4. PICK n \in D : \A j \in D : n <= j
    BY <1>3, LeastOf, Zenon
  <1>5. n \in 0 .. v /\ nv[n] = 0
    BY <1>3, <1>4
  <1>6. \A k \in 0 .. n - 1 : nv[k] > 0
    <2> SUFFICES ASSUME NEW k \in 0 .. n - 1 PROVE nv[k] > 0
      OBVIOUS
    <2>1. k \in Nat /\ ~(n <= k)
      BY <1>5
    <2> QED
      BY <1>1, <1>4, <2>1
  <1>7. \E x \in 0 .. v : nv[x] = 0 /\ \A k \in 0 .. x - 1 : nv[k] > 0
    BY <1>5, <1>6
  <1> QED
    BY <1>7 DEF turns, nv

(* strrev reverses.                                                        *)
LEMMA StrrevIs ==
    ASSUME NEW S, NEW s \in Seq(S)
    PROVE  strrev(s) = [i \in 1 .. Len(s) |-> s[Len(s) + 1 - i]]
  <1> DEFINE L == Len(s)
             H == L \div 2
             W == [b \in 0 .. H |->
                     [i \in 1 .. L |-> IF i <= b \/ i >= L + 1 - b THEN s[L + 1 - i] ELSE s[i]]]
             Turned(t, b) == [i \in 1 .. L |-> IF i \in {b, L + 1 - b}
                                               THEN t[b + (L + 1 - b) - i] ELSE t[i]]
  <1>1. L \in Nat /\ H \in Nat /\ 2 * H <= L /\ L <= 2 * H + 1 /\ s = [i \in 1 .. L |-> s[i]]
    OBVIOUS
  <1> HIDE DEF L, H
  <1>2. W[0] = s
    <2>1. W[0] = [i \in 1 .. L |-> s[i]]
      BY <1>1
    <2> HIDE DEF W
    <2> QED
      BY <1>1, <2>1
  <1>3. ASSUME NEW b \in 1 .. H PROVE W[b] = Turned(W[b - 1], b)
    <2>1. b - 1 \in 0 .. H /\ b \in 0 .. H
      BY <1>1
    <2>2. W[b - 1] = [i \in 1 .. L |-> IF i <= b - 1 \/ i >= L + 1 - (b - 1)
                                        THEN s[L + 1 - i] ELSE s[i]]
      BY <2>1
    <2>3. W[b] = [i \in 1 .. L |-> IF i <= b \/ i >= L + 1 - b THEN s[L + 1 - i] ELSE s[i]]
      BY <2>1
    <2> HIDE DEF W
    <2>4. ASSUME NEW i \in 1 .. L PROVE Turned(W[b - 1], b)[i] = W[b][i]
      <3>1. b + (L + 1 - b) - i = L + 1 - i /\ L + 1 - i \in 1 .. L
        BY <1>1
      <3>2. CASE i = b \/ i = L + 1 - b
        <4>1. ~(L + 1 - i <= b - 1 \/ L + 1 - i >= L + 1 - (b - 1))
          BY <1>1, <3>2
        <4>2. W[b - 1][L + 1 - i] = s[L + 1 - i]
          BY <2>2, <3>1, <4>1
        <4> QED
          BY <1>1, <2>3, <3>1, <3>2, <4>2
      <3>3. CASE ~(i = b \/ i = L + 1 - b)
        <4>1. (i <= b <=> i <= b - 1) /\ (i >= L + 1 - b <=> i >= L + 1 - (b - 1))
          <5>1. L \in Nat /\ H \in Nat
            BY <1>1
          <5>2. b \in Nat /\ i \in Nat /\ i # b /\ i # L + 1 - b
            BY <3>3, <5>1
          <5> QED
            BY <5>1, <5>2
        <4>2. Turned(W[b - 1], b)[i] = W[b - 1][i]
          BY <3>3
        <4>3. W[b - 1][i] = IF i <= b - 1 \/ i >= L + 1 - (b - 1) THEN s[L + 1 - i] ELSE s[i]
          BY <2>2
        <4>4. W[b][i] = IF i <= b \/ i >= L + 1 - b THEN s[L + 1 - i] ELSE s[i]
          BY <2>3
        <4> QED
          BY <4>1, <4>2, <4>3, <4>4
      <3> QED
        BY <3>2, <3>3
    <2> QED
      BY <2>3, <2>4
  <1>4. W = [b \in 0 .. H |-> IF b = 0 THEN s ELSE Turned(W[b - 1], b)]
    <2>1. ASSUME NEW b \in 0 .. H PROVE W[b] = IF b = 0 THEN s ELSE Turned(W[b - 1], b)
      <3>1. b # 0 => b \in 1 .. H
        BY <1>1
      <3> HIDE DEF W, Turned
      <3> QED
        BY <1>2, <1>3, <3>1
    <2>2. W = [b \in 0 .. H |-> W[b]]
      OBVIOUS
    <2> HIDE DEF W, Turned
    <2> QED
      BY <2>1, <2>2, Zenon
  <1>5. \E f : f = [b \in 0 .. H |-> IF b = 0 THEN s ELSE Turned(f[b - 1], b)]
    <2> HIDE DEF W
    <2> QED
      BY <1>4, Zenon
  <1> DEFINE sw == swapped(s)
  <1>6. sw = [b \in 0 .. H |-> IF b = 0 THEN s ELSE Turned(sw[b - 1], b)]
    BY <1>5, Zenon DEF swapped, L, H
  <1> HIDE DEF sw
  <1>7. \A b \in 0 .. H : sw[b] = W[b]
    <2> HIDE DEF W, Turned
    <2> DEFINE T == {b \in 0 .. H : sw[b] # W[b]}
    <2>1. SUFFICES ASSUME T # {} PROVE FALSE
      OBVIOUS
    <2>2. T \in SUBSET Nat
      OBVIOUS
    <2>3. PICK b \in T : \A j \in T : b <= j
      <3> HIDE DEF T
      <3> QED
        BY <2>1, <2>2, LeastOf
    <2>4. b \in 0 .. H /\ sw[b] # W[b] /\ b # 0
      BY <1>2, <1>6, <2>3
    <2>5. b - 1 \in 0 .. H /\ b - 1 < b /\ b \in 1 .. H
      BY <1>1, <2>4
    <2>6. sw[b - 1] = W[b - 1]
      BY <1>1, <2>3, <2>4, <2>5
    <2>7. sw[b] = Turned(sw[b - 1], b)
      BY <1>6, <2>4, Zenon
    <2> QED
      BY <1>3, <2>4, <2>5, <2>6, <2>7
  <1>8. W[H] = [i \in 1 .. L |-> s[L + 1 - i]]
    <2>1. \A i \in 1 .. L : i <= H \/ i >= L + 1 - H \/ L + 1 - i = i
      BY <1>1
    <2>2. H \in 0 .. H
      BY <1>1
    <2> QED
      BY <2>1, <2>2
  <1>9. strrev(s) = sw[H]
    BY DEF strrev, sw, H, L
  <1> HIDE DEF W
  <1> QED
    BY <1>1, <1>7, <1>8, <1>9 DEF L

(* W holds the numbers that the first digits of d stand for.               *)
Reads(W, d, r) == W[0] = 0 /\ \A k \in 1 .. Len(d) : W[k] = W[k - 1] * r + d[k]

(* Values is that function.                                                *)
LEMMA ValuesIs ==
    ASSUME NEW d, Len(d) \in Nat, NEW r, NEW W, Reads(W, d, r)
    PROVE  \A k \in 0 .. Len(d) : Values(d, r)[k] = W[k]
  <1> USE DEF Reads
  <1> DEFINE vs == Values(d, r)
             L == Len(d)
             V == [k \in 0 .. L |-> W[k]]
  <1>1. V = [k \in 0 .. L |-> IF k = 0 THEN 0 ELSE V[k - 1] * r + d[k]]
    <2> HIDE DEF L
    <2>1. ASSUME NEW k \in 0 .. L PROVE W[k] = IF k = 0 THEN 0 ELSE V[k - 1] * r + d[k]
      <3>1. k # 0 => k \in 1 .. L /\ k - 1 \in 0 .. L
        BY DEF L
      <3> QED
        BY <3>1 DEF L
    <2> QED
      BY <2>1
  <1>2. \E f : f = [k \in 0 .. L |-> IF k = 0 THEN 0 ELSE f[k - 1] * r + d[k]]
    <2> HIDE DEF V
    <2> QED
      BY <1>1
  <1>3. vs = [k \in 0 .. L |-> IF k = 0 THEN 0 ELSE vs[k - 1] * r + d[k]]
    BY <1>2, Zenon DEF Values
  <1> HIDE DEF vs, L
  <1>4. \A k \in 0 .. L : vs[k] = W[k]
    <2> DEFINE T == {k \in 0 .. L : vs[k] # W[k]}
    <2>1. SUFFICES ASSUME T # {} PROVE FALSE
      OBVIOUS
    <2>2. T \in SUBSET Nat
      OBVIOUS
    <2>3. PICK k \in T : \A j \in T : k <= j
      <3> HIDE DEF T
      <3> QED
        BY <2>1, <2>2, LeastOf
    <2>4. k \in 0 .. L /\ vs[k] # W[k] /\ k # 0
      BY <1>3, <2>3
    <2>5. k - 1 \in 0 .. L /\ k \in 1 .. L /\ ~(k <= k - 1)
      BY <2>4 DEF L
    <2>6. k - 1 \notin T
      <3> HIDE DEF T
      <3> QED
        BY <2>3, <2>5
    <2>7. vs[k - 1] = W[k - 1]
      BY <2>5, <2>6
    <2>8. vs[k] = vs[k - 1] * r + d[k]
      BY <1>3, <2>4, Zenon
    <2> QED
      BY <2>4, <2>5, <2>7, <2>8 DEF L
  <1> QED
    BY <1>4 DEF vs, L

(* A quotient and its remainder.                                           *)
LEMMA Division ==
    ASSUME NEW r \in {10, 16}, NEW x \in Nat, NEW q \in Nat, NEW m \in Nat,
           q = x \div r, m = x % r
    PROVE  x = q * r + m
  <1>1. r = 10 => x = q * 10 + m
    OBVIOUS
  <1>2. r = 16 => x = q * 16 + m
    OBVIOUS
  <1> QED
    BY <1>1, <1>2

(* itoa writes a number in digits of the radix that stand for it, without  *)
(* superfluous zeros; in radix 16 as many as the number needs.             *)
LEMMA ItoaIs ==
    ASSUME NEW v \in Nat, NEW r \in {10, 16}
    PROVE  /\ itoa(v, r) \in Seq(0 .. r - 1)
           /\ Len(itoa(v, r)) = IF v = 0 THEN 1 ELSE turns(v, r)
           /\ Len(itoa(v, r)) \in Nat \ {0}
           /\ \E W : Reads(W, itoa(v, r), r) /\ W[Len(itoa(v, r))] = v
           /\ ValueOf(itoa(v, r), r) = v
           /\ Len(itoa(v, r)) = 1 \/ itoa(v, r)[1] # 0
  <1>1. CASE v = 0
    <2>1. itoa(v, r) = <<0>>
      BY <1>1 DEF itoa
    <2> DEFINE W == [k \in 0 .. 1 |-> 0]
               d == <<0>>
    <2>2. Len(d) = 1 /\ d[1] = 0 /\ d \in Seq(0 .. r - 1)
      OBVIOUS
    <2>3. Reads(W, d, r) /\ W[1] = 0
      BY DEF Reads
    <2> HIDE DEF W, d
    <2>4. Values(d, r)[1] = W[1]
      <3>1. Len(d) \in Nat /\ 1 \in 0 .. Len(d)
        BY <2>2
      <3> QED
        BY <2>3, <3>1, ValuesIs
    <2>5. ValueOf(d, r) = 0
      BY <2>2, <2>3, <2>4 DEF ValueOf
    <2>6. itoa(v, r) = d
      BY <2>1 DEF d
    <2>7. \E X : Reads(X, d, r) /\ X[Len(d)] = 0
      BY <2>2, <2>3
    <2> QED
      <3>1. Len(d) \in Nat \ {0} /\ Len(d) = IF v = 0 THEN 1 ELSE turns(v, r)
        BY <1>1, <2>2
      <3> QED
        BY <1>1, <2>2, <2>5, <2>6, <2>7, <3>1, Zenon
  <1>2. CASE v # 0
    <2> DEFINE nv == newval(v, r)
               N == turns(v, r)
               low == [i \in 1 .. N |-> nv[i - 1] % r]
               d == itoa(v, r)
               W == [k \in 0 .. N |-> nv[N - k]]
    <2>1. /\ nv[0] = v /\ \A k \in Nat : nv[k] \in Nat
          /\ \A k \in Nat : nv[k + 1] = nv[k] \div r
      BY NewvalIs
    <2>2. N \in Nat /\ nv[N] = 0 /\ \A k \in 0 .. N - 1 : nv[k] > 0
      <3>1. N \in 0 .. v /\ nv[N] = 0 /\ \A k \in 0 .. N - 1 : nv[k] > 0
        BY TurnsIs, Zenon
      <3> HIDE DEF nv, N
      <3>2. N \in Nat
        BY <3>1
      <3> QED
        BY <3>1, <3>2, Zenon
    <2>3. d = strrev(low)
      BY <1>2 DEF itoa
    <2> HIDE DEF nv, N, d
    <2>4. N # 0
      BY <1>2, <2>1, <2>2
    <2>5. low \in Seq(0 .. r - 1) /\ Len(low) = N
      <3>1. \A i \in 1 .. N : nv[i - 1] % r \in 0 .. r - 1
        <4> SUFFICES ASSUME NEW i \in 1 .. N PROVE nv[i - 1] % r \in 0 .. r - 1
          OBVIOUS
        <4>1. nv[i - 1] \in Nat
          BY <2>1, <2>2
        <4> QED
          BY <4>1
      <3> QED
        BY <2>2, <3>1
    <2>6. d = [i \in 1 .. N |-> nv[N - i] % r]
      <3>1. d = [i \in 1 .. N |-> low[N + 1 - i]]
        <4> HIDE DEF low
        <4> QED
          BY <2>3, <2>5, StrrevIs
      <3>2. ASSUME NEW i \in 1 .. N PROVE low[N + 1 - i] = nv[N - i] % r
        <4>1. N + 1 - i \in 1 .. N /\ (N + 1 - i) - 1 = N - i
          BY <2>2
        <4> QED
          BY <4>1
      <3> HIDE DEF low
      <3> QED
        BY <3>1, <3>2
    <2>7. \A i \in 1 .. N : nv[N - i] \in Nat /\ nv[N - i] % r \in 0 .. r - 1
      <3> SUFFICES ASSUME NEW i \in 1 .. N
                   PROVE  nv[N - i] \in Nat /\ nv[N - i] % r \in 0 .. r - 1
        OBVIOUS
      <3>1. nv[N - i] \in Nat
        BY <2>1, <2>2
      <3> QED
        BY <3>1
    <2>8. d \in Seq(0 .. r - 1) /\ Len(d) = N
      BY <2>2, <2>6, <2>7
    <2>9. Values(d, r)[N] = W[N] /\ W[N] = v /\ Reads(W, d, r)
      <3>1. W[0] = 0 /\ W[N] = v /\ N \in 0 .. N
        BY <2>1, <2>2
      <3>2. ASSUME NEW k \in 1 .. N PROVE W[k] = W[k - 1] * r + d[k]
        <4>1. /\ k - 1 \in 0 .. N /\ k \in 0 .. N /\ N - k \in Nat
              /\ N - (k - 1) = (N - k) + 1
          BY <2>2
        <4>2. W[k] = nv[N - k] /\ W[k - 1] = nv[N - k] \div r /\ d[k] = nv[N - k] % r
          BY <2>1, <2>6, <4>1, Zenon
        <4>3. W[k] \in Nat /\ W[k - 1] \in Nat /\ d[k] \in Nat
          BY <2>7, <4>2
        <4> HIDE DEF W
        <4> QED
          BY <4>2, <4>3, Division
      <3>3. Reads(W, d, r)
        BY <2>8, <3>1, <3>2, Zenon DEF Reads
      <3> HIDE DEF W
      <3> QED
        BY <2>2, <2>8, <3>1, <3>3, ValuesIs
    <2>10. ValueOf(d, r) = v
      BY <2>1, <2>2, <2>8, <2>9 DEF ValueOf
    <2> HIDE DEF W
    <2>11. d[1] # 0
      <3>1. N - 1 \in Nat /\ (N - 1) + 1 = N /\ N - 1 \in 0 .. N - 1 /\ 1 \in 1 .. N
        BY <2>2, <2>4
      <3>2. nv[N - 1] \in Nat /\ nv[N - 1] > 0 /\ nv[N - 1] \div r = 0
        BY <2>1, <2>2, <3>1
      <3>3. d[1] = nv[N - 1] % r
        BY <2>6, <3>1
      <3> QED
        BY <3>2, <3>3
    <2> QED
      BY <1>2, <2>2, <2>4, <2>8, <2>9, <2>10, <2>11 DEF d, N
  <1> QED
    BY <1>1, <1>2

(* A word has no more hexadecimal digits than HEX_DIGITS.                  *)
LEMMA WordFits ==
    ASSUME NEW w \in Nat, w < Pow2[BITS]
    PROVE  Len(itoa(w, 16)) <= HEX_DIGITS
  <1> DEFINE nv == newval(w, 16)
             N == turns(w, 16)
  <1>1. /\ nv[0] = w /\ \A k \in Nat : nv[k] \in Nat
        /\ \A k \in Nat : nv[k + 1] = nv[k] \div 16
    BY NewvalIs
  <1>2. N \in Nat /\ \A k \in 0 .. N - 1 : nv[k] > 0
    BY TurnsIs
  <1>3. HEX_DIGITS \in Nat \ {0} /\ BITS = 4 * HEX_DIGITS
    BY LibAssumption
  <1>4. Len(itoa(w, 16)) = IF w = 0 THEN 1 ELSE N
    BY ItoaIs
  <1> HIDE DEF nv, N
  <1>5. \A k \in 0 .. HEX_DIGITS : nv[k] < Pow2[4 * (HEX_DIGITS - k)]
    <2> DEFINE T == {k \in 0 .. HEX_DIGITS : ~(nv[k] < Pow2[4 * (HEX_DIGITS - k)])}
    <2>1. SUFFICES ASSUME T # {} PROVE FALSE
      OBVIOUS
    <2>2. T \in SUBSET Nat
      OBVIOUS
    <2>3. PICK k \in T : \A j \in T : k <= j
      <3> HIDE DEF T
      <3> QED
        BY <2>1, <2>2, LeastOf
    <2>4. k \in 0 .. HEX_DIGITS /\ ~(nv[k] < Pow2[4 * (HEX_DIGITS - k)])
      BY <2>3
    <2>5. k # 0
      <3>1. 4 * (HEX_DIGITS - 0) = BITS
        BY <1>3
      <3> QED
        BY <1>1, <2>4, <3>1
    <2> DEFINE e == 4 * (HEX_DIGITS - k)
    <2>6. /\ k - 1 \in 0 .. HEX_DIGITS /\ k - 1 \in Nat /\ ~(k <= k - 1) /\ (k - 1) + 1 = k
          /\ e \in Nat /\ 4 * (HEX_DIGITS - (k - 1)) = e + 4
      BY <1>3, <2>4, <2>5
    <2>7. k - 1 \notin T
      <3> HIDE DEF T
      <3> QED
        BY <2>3, <2>6
    <2> HIDE DEF e
    <2>8. nv[k - 1] < Pow2[e + 4]
      BY <2>6, <2>7
    <2>9. Pow2[e] \in Nat /\ Pow2[e + 4] = 16 * Pow2[e]
      BY <2>6, Pow2Is
    <2>10. nv[k - 1] \in Nat /\ nv[k] = nv[k - 1] \div 16
      BY <1>1, <2>6
    <2>11. \A x, y \in Nat : x < 16 * y => x \div 16 < y
      OBVIOUS
    <2>12. nv[k] < Pow2[e]
      BY <2>8, <2>9, <2>10, <2>11
    <2> QED
      BY <2>4, <2>12 DEF e
  <1>6. nv[HEX_DIGITS] < Pow2[0]
    <2>1. HEX_DIGITS \in 0 .. HEX_DIGITS /\ 4 * (HEX_DIGITS - HEX_DIGITS) = 0
      BY <1>3
    <2> QED
      BY <1>5, <2>1
  <1>7. nv[HEX_DIGITS] = 0
    BY <1>1, <1>3, <1>6, Pow2Is
  <1>8. N <= HEX_DIGITS
    <2> SUFFICES ASSUME ~(N <= HEX_DIGITS) PROVE FALSE
      OBVIOUS
    <2>1. HEX_DIGITS \in 0 .. N - 1
      BY <1>2, <1>3
    <2> QED
      BY <1>2, <1>7, <2>1
  <1> QED
    <2>1. CASE w = 0
      <3>1. Len(itoa(w, 16)) = 1
        BY <1>4, <2>1, Zenon
      <3>2. 1 <= HEX_DIGITS
        BY <1>3
      <3> QED
        BY <3>1, <3>2, Zenon
    <2>2. CASE w # 0
      BY <1>4, <1>8, <2>2
    <2> QED
      BY <2>1, <2>2

(* Zeros in front change nothing but the length.                           *)
LEMMA PadIs ==
    ASSUME NEW d \in Seq(0 .. 15), Len(d) \in Nat, Len(d) <= HEX_DIGITS,
           NEW vs, Reads(vs, d, 16)
    PROVE  Len(Pad(d)) = HEX_DIGITS /\ ValueOf(Pad(d), 16) = vs[Len(d)]
  <1> DEFINE z == HEX_DIGITS - Len(d)
             zeros == [i \in 1 .. z |-> 0]
             p == Pad(d)
             W == [k \in 0 .. HEX_DIGITS |-> IF k <= z THEN 0 ELSE vs[k - z]]
  <1>1. HEX_DIGITS \in Nat /\ z \in Nat
    BY LibAssumption
  <1>2. zeros \in Seq(0 .. 15) /\ Len(zeros) = z
    BY <1>1
  <1>3. p = zeros \o d
    BY DEF Pad
  <1> HIDE DEF p, zeros
  <1>4. p \in Seq(0 .. 15) /\ Len(p) = HEX_DIGITS
    BY <1>1, <1>2, <1>3
  <1>5. ASSUME NEW k \in 1 .. HEX_DIGITS PROVE p[k] = IF k <= z THEN 0 ELSE d[k - z]
    BY <1>1, <1>2, <1>3 DEF zeros
  <1>6. vs[0] = 0 /\ \A k \in 1 .. Len(d) : vs[k] = vs[k - 1] * 16 + d[k]
    BY DEF Reads
  <1>7. Reads(W, p, 16)
    <2>1. W[0] = 0
      BY <1>1
    <2>2. ASSUME NEW k \in 1 .. HEX_DIGITS PROVE W[k] = W[k - 1] * 16 + p[k]
      <3>1. k - 1 \in 0 .. HEX_DIGITS /\ k \in 0 .. HEX_DIGITS
        BY <1>1
      <3>2. CASE k <= z
        BY <1>1, <1>5, <3>1, <3>2
      <3>3. CASE ~(k <= z)
        <4>1. k - z \in 1 .. Len(d) /\ (k - z) - 1 = (k - 1) - z /\ (k - 1 <= z <=> k - z = 1)
          BY <1>1, <3>3
        <4>2. W[k] = vs[k - z] /\ W[k - 1] = vs[(k - z) - 1] /\ p[k] = d[k - z]
          BY <1>1, <1>5, <1>6, <3>1, <3>3, <4>1
        <4> QED
          BY <1>6, <4>1, <4>2
      <3> QED
        BY <3>2, <3>3
    <2> QED
      BY <1>4, <2>1, <2>2, Zenon DEF Reads
  <1>8. W[HEX_DIGITS] = vs[Len(d)]
    <2>1. HEX_DIGITS \in 0 .. HEX_DIGITS /\ HEX_DIGITS - z = Len(d)
      BY <1>1
    <2>2. HEX_DIGITS <= z => Len(d) = 0
      BY <1>1
    <2> QED
      BY <1>6, <2>1, <2>2
  <1> HIDE DEF W
  <1>9. Values(p, 16)[HEX_DIGITS] = W[HEX_DIGITS]
    <2>1. Len(p) \in Nat /\ HEX_DIGITS \in 0 .. Len(p)
      BY <1>1, <1>4
    <2> QED
      BY <1>7, <2>1, ValuesIs
  <1> QED
    BY <1>4, <1>8, <1>9 DEF ValueOf, p

(* What each conversion puts reads as the word.                            *)
LEMMA ConvertedReads ==
    ASSUME NEW w \in WordValues, NEW conv \in Conversions
    PROVE  LET t == Converted(conv, w)
               digits == IF t[1] = Minus THEN Tail(t) ELSE t
           IN  /\ CASE conv = "d" ->
                         Signed(w) = ValueOf(digits, 10) * (IF t[1] = Minus THEN -1 ELSE 1)
                    [] conv = "u" -> w = ValueOf(t, 10)
                    [] OTHER -> w = ValueOf(t, 16)
               /\ IF conv = "#x" THEN Len(t) = HEX_DIGITS
                  ELSE Len(digits) = 1 \/ digits[1] # 0
  <1> DEFINE P == Pow2[BITS]
             half == Pow2[BITS - 1]
             t == Converted(conv, w)
             digits == IF t[1] = Minus THEN Tail(t) ELSE t
  <1>1. P \in Nat /\ half \in Nat /\ P = 2 * half
    <2>1. BITS - 1 \in Nat /\ (BITS - 1) + 1 = BITS /\ BITS \in Nat
      BY LibAssumption
    <2> QED
      BY <2>1, Pow2Is
  <1>2. w \in Nat /\ w < P
    BY <1>1 DEF WordValues
  <1>3. ASSUME NEW v \in Nat, NEW r \in {10, 16}
        PROVE  /\ itoa(v, r) \in Seq(0 .. r - 1) /\ itoa(v, r)[1] # Minus
               /\ Len(itoa(v, r)) \in Nat \ {0} /\ ValueOf(itoa(v, r), r) = v
               /\ Len(itoa(v, r)) = 1 \/ itoa(v, r)[1] # 0
    <2>1. /\ itoa(v, r) \in Seq(0 .. r - 1)
          /\ Len(itoa(v, r)) \in Nat \ {0} /\ ValueOf(itoa(v, r), r) = v
          /\ Len(itoa(v, r)) = 1 \/ itoa(v, r)[1] # 0
      BY ItoaIs, Zenon
    <2>2. 1 \in 1 .. Len(itoa(v, r))
      BY <2>1
    <2>3. itoa(v, r)[1] \in 0 .. r - 1
      BY <2>1, <2>2
    <2> QED
      BY <2>1, <2>3 DEF Minus
  <1> HIDE DEF P, half
  <1>4. CASE conv = "x"
    <2>1. t = itoa(w, 16)
      BY <1>4 DEF Converted
    <2> QED
      BY <1>2, <1>3, <1>4, <2>1
  <1>5. CASE conv = "u"
    <2>1. t = itoa(w, 10)
      BY <1>5 DEF Converted
    <2> QED
      BY <1>2, <1>3, <1>5, <2>1
  <1>6. CASE conv = "#x"
    <2>1. t = Pad(itoa(w, 16))
      BY <1>6 DEF Converted
    <2>2. PICK W : Reads(W, itoa(w, 16), 16) /\ W[Len(itoa(w, 16))] = w
      BY <1>2, ItoaIs
    <2>3. itoa(w, 16) \in Seq(0 .. 15) /\ Len(itoa(w, 16)) \in Nat
      <3>1. itoa(w, 16) \in Seq(0 .. 16 - 1) /\ 16 - 1 = 15
        BY <1>2, <1>3
      <3> QED
        BY <1>2, <1>3, <3>1
    <2>4. Len(itoa(w, 16)) <= HEX_DIGITS
      BY <1>2, WordFits DEF P
    <2>5. Len(t) = HEX_DIGITS /\ ValueOf(t, 16) = w
      BY <2>1, <2>2, <2>3, <2>4, PadIs
    <2> QED
      BY <1>6, <2>5
  <1>7. CASE conv = "d"
    <2>1. Signed(w) = (IF w >= half THEN w - P ELSE w)
      BY DEF Signed, P, half
    <2>2. t = IF Signed(w) < 0 THEN <<Minus>> \o itoa(Negated(w), 10) ELSE itoa(w, 10)
      BY <1>7 DEF Converted
    <2>3. CASE w >= half
      <3>1. Signed(w) = w - P /\ Signed(w) < 0 /\ P - w \in 0 .. P - 1
        BY <1>1, <1>2, <2>1, <2>3
      <3>2. Negated(w) = P - w
        BY <1>1, <3>1 DEF Negated, P
      <3> DEFINE d == itoa(P - w, 10)
      <3>3. /\ d \in Seq(0 .. 9) /\ ValueOf(d, 10) = P - w
            /\ Len(d) = 1 \/ d[1] # 0
        <4>1. P - w \in Nat /\ 10 - 1 = 9
          BY <1>1, <3>1
        <4> QED
          BY <1>3, <4>1, Zenon
      <3>4. t = <<Minus>> \o d
        BY <2>2, <3>1, <3>2
      <3> HIDE DEF d, t
      <3>5. t[1] = Minus /\ Tail(t) = d
        BY <3>3, <3>4 DEF Minus
      <3>6. digits = d
        BY <3>5
      <3>7. Signed(w) = ValueOf(d, 10) * (-1)
        BY <1>1, <1>2, <3>1, <3>3
      <3> QED
        BY <1>7, <3>3, <3>5, <3>6, <3>7, Zenon DEF t
    <2>4. CASE ~(w >= half)
      <3>1. Signed(w) = w /\ t = itoa(w, 10)
        BY <1>1, <1>2, <2>1, <2>2, <2>4
      <3>2. digits = t /\ t[1] # Minus /\ ValueOf(t, 10) = w /\ (Len(t) = 1 \/ t[1] # 0)
        BY <1>2, <1>3, <3>1, Zenon
      <3> HIDE DEF t
      <3> QED
        BY <1>2, <1>7, <3>1, <3>2 DEF t
    <2> QED
      BY <2>3, <2>4, Zenon
  <1> QED
    BY <1>4, <1>5, <1>6, <1>7, Zenon DEF Conversions

(* A call that moves memory is not one of printf.                          *)
NumInv ==
    /\ lpc \in {"top", "rep", "bottom", "movsb"} => call.op \notin Conversions
    /\ NumbersPrinted

(* For every width of a word, what printf puts for %x, %#x, %u and %d      *)
(* reads as the number it was given, the most negative one included,       *)
(* without superfluous zeros, and %#x has all digits of a word (lib.c).    *)
THEOREM PrintsNumbers == LibSpec => []NumbersPrinted
  <1>1. LibInit => NumInv
    BY DEF LibInit, NumInv, NumbersPrinted
  <1>2. NumInv /\ [LibNext]_lVars => NumInv'
    <2> SUFFICES ASSUME NumInv, [LibNext]_lVars PROVE NumInv'
      OBVIOUS
    <2>1. ASSUME NEW conv \in Conversions, NEW w \in WordValues, printf(conv, w)
          PROVE  NumInv'
      <3>1. /\ lpc' = "done" /\ text' = Converted(conv, w)
            /\ call'.op = conv /\ call'.n = w
        BY <2>1 DEF printf, NoCall
      <3> QED
        BY <3>1, ConvertedReads, Zenon DEF NumInv, NumbersPrinted
    <2>2. ASSUME NEW op \in MemOps, NEW dest, NEW src, NEW n, CallMem(op, dest, src, n)
          PROVE  NumInv'
      <3>1. call'.op = op /\ lpc' \in {"movsb", "top"}
        BY <2>2 DEF CallMem
      <3> QED
        BY <3>1 DEF NumInv, NumbersPrinted, MemOps, Conversions
    <2>3. CASE ToAlign \/ RepWord \/ Bottom \/ RepByte
      <3>1. /\ lpc \in {"top", "rep", "bottom", "movsb"} /\ call' = call
            /\ lpc' \in {"top", "rep", "bottom", "movsb", "done"}
        BY <2>3 DEF ToAlign, RepWord, Bottom, RepByte
      <3> QED
        BY <3>1 DEF NumInv, NumbersPrinted
    <2>4. CASE UNCHANGED lVars
      BY <2>4, Zenon DEF lVars, NumInv, NumbersPrinted
    <2> QED
      BY <2>1, <2>2, <2>3, <2>4 DEF LibNext
  <1>3. NumInv => NumbersPrinted
    BY DEF NumInv
  <1> QED
    BY <1>1, <1>2, <1>3, PTL DEF LibSpec
=============================================================================
