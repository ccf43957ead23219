---------------------------- MODULE Stacks_proofs ----------------------------
(***************************************************************************)
(* The invariant behind Ownership_proofs: processes form one stack for     *)
(* each terminal, and every context, PCB and mapping agrees with it.  Here *)
(* what such stacks are as sequences, and the steps of execute and halt    *)
(* that leave them alone.                                                  *)
(***************************************************************************)
EXTENDS ProcSched_proofs, ProcStacks

-----------------------------------------------------------------------------
(* Lineages                                                                *)

(* The code tells a process from none by its sign.                         *)
LEMMA PidSigns ==
    /\ NoPid \notin Pids
    /\ \A x \in Pids : x >= 0 /\ ~(x < 0)
    /\ \A x \in PidOrNone : ~(x < 0) => x \in Pids
BY SizeFacts DEF Pids, PidOrNone, NoPid

(* A set of numbers that is not empty has a least one.                     *)
LEMMA LeastOf ==
    ASSUME NEW T \in SUBSET Nat, T # {}
    PROVE  \E k \in T : \A j \in T : k <= j
<1>1. PICK k \in T : \A j \in T : ~(<<j, k>> \in OpToRel(<, Nat))
  BY NatLessThanWellFounded, WFMin, Zenon
<1>2. \A j \in T : ~(j < k)
  BY <1>1, Zenon DEF OpToRel
<1> QED
  BY <1>2

(* Two lineages of the same process agree from the top down.               *)
LEMMA LineageAgrees ==
    ASSUME NEW P, NEW f, NEW s \in Seq(Pids), NEW z \in Seq(Pids),
           Lineage(s, P, f), Lineage(z, P, f),
           NEW k \in Nat, k < Len(s), k < Len(z)
    PROVE  s[Len(s) - k] = z[Len(z) - k]
<1> DEFINE m == Len(s)
           n == Len(z)
           D == {j \in Nat : j < m /\ j < n /\ s[m - j] # z[n - j]}
<1>1. m \in Nat /\ n \in Nat /\ D \in SUBSET Nat
  OBVIOUS
<1>2. SUFFICES ASSUME D # {} PROVE FALSE
  OBVIOUS
<1>3. PICK j \in D : \A i \in D : j <= i
  BY <1>1, <1>2, LeastOf, Zenon
<1>4. j \in Nat /\ j < m /\ j < n /\ s[m - j] # z[n - j]
  BY <1>3
<1>5. /\ \A i \in 1 .. m : P[s[i]] = IF i = 1 THEN NoPid ELSE s[i - 1]
      /\ \A i \in 1 .. n : P[z[i]] = IF i = 1 THEN NoPid ELSE z[i - 1]
      /\ m # 0 /\ n # 0 => f = s[m] /\ f = z[n]
  BY DEF Lineage
<1>6. j # 0
  BY <1>1, <1>4, <1>5
<1>7. j - 1 \in Nat /\ j - 1 \notin D
  BY <1>3, <1>4, <1>6
<1>8. s[m - (j - 1)] = z[n - (j - 1)]
  BY <1>1, <1>4, <1>7
<1>9. /\ m - (j - 1) \in 2 .. m /\ (m - (j - 1)) - 1 = m - j
      /\ n - (j - 1) \in 2 .. n /\ (n - (j - 1)) - 1 = n - j
  BY <1>1, <1>4, <1>6
<1> HIDE DEF m, n, D
<1>10. P[s[m - (j - 1)]] = s[m - j] /\ P[z[n - (j - 1)]] = z[n - j]
  BY <1>1, <1>5, <1>9
<1> QED
  BY <1>4, <1>8, <1>10

(* And neither ends before the other.                                      *)
LEMMA LineageLength ==
    ASSUME NEW P, NEW f, NEW s \in Seq(Pids), NEW z \in Seq(Pids),
           Lineage(s, P, f), Lineage(z, P, f)
    PROVE  ~(Len(s) < Len(z))
<1> SUFFICES ASSUME Len(s) < Len(z) PROVE FALSE
  OBVIOUS
<1> DEFINE m == Len(s)
           n == Len(z)
<1>1. m \in Nat /\ n \in Nat /\ m < n /\ n # 0
  OBVIOUS
<1>2. NoPid \notin Pids /\ \A i \in 1 .. n : z[i] \in Pids
  BY PidSigns
<1>3. CASE m = 0
  <2>1. f = NoPid /\ f = z[n]
    BY <1>1, <1>3 DEF Lineage
  <2> QED
    BY <1>1, <1>2, <2>1
<1>4. CASE m # 0
  <2>1. m - 1 \in Nat /\ m - 1 < m /\ m - 1 < n /\ m - (m - 1) = 1
    BY <1>1, <1>4
  <2>2. s[1] = z[n - (m - 1)]
    BY <2>1, LineageAgrees
  <2>3. n - (m - 1) \in 2 .. n /\ (n - (m - 1)) - 1 \in 1 .. n /\ 1 \in 1 .. m
    BY <1>1, <1>4
  <2>4. P[s[1]] = NoPid /\ P[z[n - (m - 1)]] = z[(n - (m - 1)) - 1]
    BY <1>1, <2>3 DEF Lineage
  <2> QED
    BY <1>2, <2>2, <2>3, <2>4
<1> QED
  BY <1>3, <1>4

(* So a process has one lineage.                                           *)
LEMMA LineageUnique ==
    ASSUME NEW P, NEW f, NEW s \in Seq(Pids), NEW z \in Seq(Pids),
           Lineage(s, P, f), Lineage(z, P, f)
    PROVE  s = z
<1>1. Len(s) \in Nat /\ Len(z) \in Nat
  OBVIOUS
<1>2. Len(s) = Len(z)
  BY <1>1, LineageLength
<1>3. ASSUME NEW i \in 1 .. Len(s) PROVE s[i] = z[i]
  <2>1. Len(s) - i \in Nat /\ Len(s) - i < Len(s) /\ Len(s) - (Len(s) - i) = i
    BY <1>1, <1>3
  <2> QED
    BY <1>2, <2>1, LineageAgrees
<1> QED
  BY <1>2, <1>3

-----------------------------------------------------------------------------
(* Columns                                                                 *)

(* s holds the processes of terminal t, without repetition, in the order   *)
(* of their descent.                                                       *)
Column(s, t, L, T, P, f) ==
    /\ s \in Seq(Pids)
    /\ Lineage(s, P, f)
    /\ \A i \in 1 .. Len(s) : s[i] \in L /\ T[s[i]] = t
    /\ \A i, j \in 1 .. Len(s) : s[i] = s[j] => i = j
    /\ \A p \in L : T[p] = t => \E i \in 1 .. Len(s) : s[i] = p

(* A column is the one lineage of its top.                                 *)
LEMMA StackIs ==
    ASSUME NEW s, NEW t, NEW L, NEW T, NEW P, NEW f, Column(s, t, L, T, P, f)
    PROVE  LineageOf(P, f) = s
<1> DEFINE n == Len(s)
<1>1. s \in Seq(Pids) /\ n \in Nat /\ s \in [1 .. n -> Pids]
  BY DEF Column
<1>2. n <= MAX_DEVICES
  <2>1. s \in Injection(1 .. n, Pids)
    BY <1>1 DEF Column, Injection, IsInjective
  <2>2. IsFiniteSet(Pids) /\ Cardinality(Pids) = MAX_DEVICES
    BY CountFacts
  <2>3. Cardinality(1 .. n) <= Cardinality(Pids)
    BY <2>1, <2>2, FS_Injection
  <2>4. Cardinality(1 .. n) = IF 1 > n THEN 0 ELSE n - 1 + 1
    BY <1>1, FS_Interval
  <2> QED
    BY <1>1, <2>2, <2>3, <2>4, SizeFacts
<1>3. s \in Lineages /\ Lineage(s, P, f)
  <2>1. n \in 0 .. MAX_DEVICES
    BY <1>1, <1>2, SizeFacts
  <2>2. \E k \in 0 .. MAX_DEVICES : s \in [1 .. k -> Pids]
    BY <1>1, <2>1, Zenon
  <2> QED
    BY <2>2 DEF Lineages, Column
<1>4. ASSUME NEW z \in Lineages PROVE z \in Seq(Pids)
  <2>1. PICK k \in 0 .. MAX_DEVICES : z \in [1 .. k -> Pids]
    BY DEF Lineages
  <2>2. k \in Nat
    BY SizeFacts
  <2> QED
    BY <2>1, <2>2
<1>5. \A z \in Lineages : Lineage(z, P, f) => z = s
  BY <1>1, <1>3, <1>4, LineageUnique
<1> HIDE DEF n
<1> QED
  BY <1>3, <1>5 DEF LineageOf

(* A new process on top of a column.                                       *)
LEMMA ColumnPush ==
    ASSUME NEW s, NEW t, NEW L, NEW T, NEW P, NEW f, Column(s, t, L, T, P, f),
           NEW q \in Pids \ L, NEW T2, NEW P2, T2[q] = t, P2[q] = f,
           \A p \in L : T2[p] = T[p] /\ P2[p] = P[p]
    PROVE  Column(Append(s, q), t, L \cup {q}, T2, P2, q)
<1> DEFINE n == Len(s)
           z == Append(s, q)
<1>1. /\ s \in Seq(Pids) /\ n \in Nat /\ z \in Seq(Pids)
      /\ Len(z) = n + 1 /\ z[n + 1] = q /\ \A i \in 1 .. n : z[i] = s[i]
  BY DEF Column
<1>2. /\ \A i \in 1 .. n : s[i] \in L /\ T[s[i]] = t
      /\ \A i, j \in 1 .. n : s[i] = s[j] => i = j
      /\ \A p \in L : T[p] = t => \E i \in 1 .. n : s[i] = p
      /\ f = IF n = 0 THEN NoPid ELSE s[n]
      /\ \A i \in 1 .. n : P[s[i]] = IF i = 1 THEN NoPid ELSE s[i - 1]
  <2>1. s = <<>> <=> n = 0
    BY <1>1
  <2> QED
    BY <2>1 DEF Column, Lineage
<1>3. z # <<>> /\ \A i \in 1 .. n + 1 : i \in 1 .. n \/ i = n + 1
  BY <1>1
<1> HIDE DEF n, z
<1>4. ASSUME NEW i \in 1 .. n + 1
      PROVE  /\ z[i] \in L \cup {q} /\ T2[z[i]] = t
             /\ P2[z[i]] = IF i = 1 THEN NoPid ELSE z[i - 1]
  <2>1. CASE i = n + 1
    BY <1>1, <1>2, <2>1
  <2>2. CASE i \in 1 .. n
    <3>1. z[i] = s[i] /\ (i # 1 => i - 1 \in 1 .. n /\ z[i - 1] = s[i - 1])
      BY <1>1, <2>2
    <3> QED
      BY <1>2, <2>2, <3>1
  <2> QED
    BY <1>3, <2>1, <2>2
<1>5. ASSUME NEW i \in 1 .. n + 1, NEW j \in 1 .. n + 1, z[i] = z[j] PROVE i = j
  BY <1>1, <1>2, <1>3, <1>5
<1>6. ASSUME NEW p \in L \cup {q}, T2[p] = t PROVE \E i \in 1 .. n + 1 : z[i] = p
  <2>1. CASE p = q
    BY <1>1, <2>1
  <2>2. CASE p \in L
    <3>1. PICK i \in 1 .. n : s[i] = p
      BY <1>2, <1>6, <2>2
    <3> QED
      BY <1>1, <3>1
  <2> QED
    BY <2>1, <2>2
<1>7. Lineage(z, P2, q)
  BY <1>1, <1>3, <1>4 DEF Lineage
<1>8. Column(z, t, L \cup {q}, T2, P2, q)
  BY <1>1, <1>4, <1>5, <1>6, <1>7 DEF Column
<1> QED
  BY <1>8 DEF z

(* What is left of a stack without its top.                                *)
Rest(s) == SubSeq(s, 1, Len(s) - 1)

(* The top of a column gone.                                               *)
LEMMA ColumnPop ==
    ASSUME NEW s, NEW t, NEW L, NEW T, NEW P, NEW f \in Pids, Column(s, t, L, T, P, f),
           NEW M, M = L \ {f}, NEW T2, NEW P2,
           \A p \in M : T2[p] = T[p] /\ P2[p] = P[p]
    PROVE  Column(Rest(s), t, M, T2, P2, P[f])
<1> DEFINE n == Len(s)
           z == SubSeq(s, 1, n - 1)
<1>0. s \in Seq(Pids) /\ n \in Nat /\ n # 0 /\ f = s[n]
  <2>1. s \in Seq(Pids) /\ f # NoPid
    BY PidSigns DEF Column
  <2> QED
    BY <2>1 DEF Column, Lineage
<1>1. /\ z \in Seq(Pids) /\ Len(z) = n - 1 /\ \A i \in 1 .. n - 1 : z[i] = s[i]
  <2>1. 1 \in 1 .. n + 1 /\ n - 1 \in 1 - 1 .. n /\ (n - 1) - 1 + 1 = n - 1
    BY <1>0
  <2>2. /\ z \in Seq(Pids) /\ Len(z) = n - 1
        /\ \A i \in 1 .. n - 1 : z[i] = s[1 + i - 1]
    BY <1>0, <2>1
  <2> QED
    BY <2>2
<1>2. /\ \A i \in 1 .. n : s[i] \in L /\ T[s[i]] = t
      /\ \A i, j \in 1 .. n : s[i] = s[j] => i = j
      /\ \A p \in L : T[p] = t => \E i \in 1 .. n : s[i] = p
      /\ \A i \in 1 .. n : P[s[i]] = IF i = 1 THEN NoPid ELSE s[i - 1]
  BY DEF Column, Lineage
<1> HIDE DEF z
<1>3. /\ z = <<>> <=> n = 1
      /\ n \in 1 .. n /\ \A i \in 1 .. n - 1 : i \in 1 .. n /\ i # n
  <2>1. z = <<>> <=> Len(z) = 0
    BY <1>1
  <2> QED
    BY <1>0, <1>1, <2>1
<1> HIDE DEF n
<1>4. ASSUME NEW i \in 1 .. n - 1
      PROVE  /\ z[i] \in L \ {f} /\ T2[z[i]] = t
             /\ P2[z[i]] = IF i = 1 THEN NoPid ELSE z[i - 1]
  <2>1. s[i] # f
    BY <1>0, <1>2, <1>3
  <2>2. z[i] = s[i] /\ (i # 1 => z[i - 1] = s[i - 1])
    BY <1>0, <1>1
  <2> QED
    BY <1>2, <1>3, <2>1, <2>2
<1>5. \A i, j \in 1 .. n - 1 : z[i] = z[j] => i = j
  BY <1>1, <1>2, <1>3
<1>6. ASSUME NEW p \in L \ {f}, T2[p] = t PROVE \E i \in 1 .. n - 1 : z[i] = p
  <2>1. PICK i \in 1 .. n : s[i] = p
    BY <1>2, <1>6
  <2>2. i \in 1 .. n - 1
    BY <1>0, <1>6, <2>1
  <2> QED
    BY <1>1, <2>1, <2>2
<1>7. P[f] = IF z = <<>> THEN NoPid ELSE z[n - 1]
  <2>1. n # 1 => z[n - 1] = s[n - 1]
    BY <1>0, <1>1
  <2> QED
    BY <1>0, <1>2, <1>3, <2>1
<1>8. Lineage(z, P2, P[f])
  BY <1>1, <1>4, <1>7 DEF Lineage
<1>9. Column(z, t, L \ {f}, T2, P2, P[f])
  BY <1>1, <1>4, <1>5, <1>6, <1>8 DEF Column
<1> QED
  BY <1>9 DEF Rest, z, n

(* A column that ends in a process is not empty.                           *)
LEMMA ColumnTop ==
    ASSUME NEW s, NEW t, NEW L, NEW T, NEW P, NEW f \in Pids, Column(s, t, L, T, P, f)
    PROVE  s # <<>>
BY PidSigns DEF Column, Lineage

(* A column that the step leaves alone: it may add a process q to another  *)
(* terminal or take one from it.                                           *)
LEMMA ColumnSame ==
    ASSUME NEW s, NEW t, NEW L, NEW T, NEW P, NEW f, Column(s, t, L, T, P, f),
           NEW M, NEW T2, NEW P2,
           \A p \in L : T[p] = t => p \in M,
           \A p \in M : T2[p] = t => p \in L,
           \A p \in L \cap M : T2[p] = T[p] /\ P2[p] = P[p]
    PROVE  Column(s, t, M, T2, P2, f)
<1>1. /\ s \in Seq(Pids) /\ Lineage(s, P, f)
      /\ \A i \in 1 .. Len(s) : s[i] \in L /\ T[s[i]] = t
      /\ \A i, j \in 1 .. Len(s) : s[i] = s[j] => i = j
      /\ \A p \in L : T[p] = t => \E i \in 1 .. Len(s) : s[i] = p
  BY DEF Column
<1>2. \A i \in 1 .. Len(s) : s[i] \in M /\ T2[s[i]] = t /\ P2[s[i]] = P[s[i]]
  BY <1>1
<1>3. Lineage(s, P2, f)
  BY <1>1, <1>2 DEF Lineage
<1> QED
  BY <1>1, <1>2, <1>3 DEF Column

-----------------------------------------------------------------------------
(* The inductive invariant                                                 *)

(* The state seen as one stack of processes for each terminal.  execute    *)
(* and halt change it in two steps only: TakeSlot pushes and FreeSlot pops. *)
(* L: the processes; T: the terminal of each; P: the parent of each; F: the *)
(* foremost process of each terminal; d: the depth of each in its stack.   *)
Forest(d, L, T, P, F) ==
    /\ \A t \in Terms : F[t] \in Pids => F[t] \in L /\ T[F[t]] = t
    /\ \A p \in L :
          /\ T[p] \in Terms
          /\ F[T[p]] \in Pids
          /\ p # F[T[p]] => d[p] < d[F[T[p]]]
          /\ P[p] \in Pids => P[p] \in L /\ T[P[p]] = T[p] /\ d[p] = d[P[p]] + 1
          /\ P[p] \notin Pids => d[p] = 0
    /\ \A p, q \in L : T[p] = T[q] /\ d[p] = d[q] => p = q

(* Some depth of the processes makes them stacks.                          *)
Stacks(L, T, P, F) == \E d \in [Pids -> Nat] : Forest(d, L, T, P, F)

Live == {p \in Pids : procs[p] = 1}

Stacked == Stacks(Live, TermOf, ParOf, Front)

(* The PCB of a parent names the parent's own kernel stack, from the time  *)
(* execute has saved it.                                                   *)
ParentsKept ==
    \A p \in Live :
        ParOf[p] \in Pids /\ ~Starting(p, {"attach", "load", "tss", "save"})
        => saved[ParOf[p]].stk = ParOf[p]

(* The locals of a context c of a terminal whose foremost process is f.    *)
CtxOwn(c, f) ==
    /\ c.at = "run" => c.stk = f
    /\ c.at \in {"add", "scan", "take", "h_par", "h_close", "x_ret"} => c.par = f
    /\ c.at \in {"attach", "load", "tss", "save", "iret", "h_map", "h_tss", "h_del"}
         => c.pid = f
    /\ c.at \in ExecPoints \ {"iret"} /\ c.par \in Pids => c.stk = c.par
    /\ c.at \in {"h_del", "h_par", "h_close"} /\ c.par \in Pids => c.esp = c.par
    /\ c.at = "x_ret" /\ f \in Pids => c.stk = f

(* par is the PCB's par_p_id at the points that rely on it.                *)
ParLocal(c) ==
    c.at \in {"tss", "save", "h_map", "h_tss", "h_del", "h_par"}
        => c.par = par_p_id[c.pid]

ContextsOwn ==
    \A t \in Terms : HasCtx(t) => CtxOwn(Ctx(t), Front[t]) /\ ParLocal(Ctx(t))

(* A context in which a key press may leave a terminal.                    *)
Quiet(c) == c.at \in SafePoints /\ (c.at = "run" \/ c.par \in Pids)

OthersQuiet ==
    \A t \in Terms \ {running_terminal} :
        running_procs[t] \in Pids => Quiet(saved[running_procs[t]])

(* What is mapped, u, and which stack the TSS names, e, at each point of a *)
(* context c of a terminal whose foremost process is f.                    *)
MemOwn(c, f, u, e) ==
    /\ c.at \in {"run", "add", "scan", "take", "save", "iret", "h_par", "h_close", "x_ret"}
         /\ f \in Pids => u = f /\ e = f
    /\ c.at = "tss" => u = f
    /\ c.at = "h_tss" => u = c.par
    /\ c.at = "h_del" /\ c.par \in Pids => u = c.par /\ e = c.par

MemoryOwn ==
    /\ MemOwn(cpu, Front[running_terminal], upage, esp0)
    /\ video_mem = VIDEO

(* The keyboard handler has already saved the context it interrupted, the  *)
(* first terminal is never found empty, and nothing has gone wrong.        *)
HandlerOwn ==
    /\ kbd = "handle" => /\ Foremost \in Pids
                         /\ saved[Foremost] = cpu
                         /\ Quiet(cpu)
    /\ in_service => kbd = "handle"
    /\ running_procs[0] \in Pids \/ running_terminal = 0
    /\ fault = "none"

OwnInv ==
    /\ Stacked
    /\ ParentsKept
    /\ ContextsOwn
    /\ OthersQuiet
    /\ MemoryOwn
    /\ HandlerOwn

-----------------------------------------------------------------------------
(* Stacks of processes                                                     *)

(* A new process on top of the stack of terminal t.                        *)
LEMMA Push ==
    ASSUME NEW L \in SUBSET Pids, NEW T, NEW P,
           NEW F \in [Terms -> PidOrNone], Stacks(L, T, P, F),
           NEW t \in Terms, NEW q \in Pids \ L, NEW T2, NEW P2, NEW F2,
           \A p \in L : T2[p] = T[p] /\ P2[p] = P[p],
           T2[q] = t, P2[q] = F[t],
           F2[t] = q, \A u \in Terms \ {t} : F2[u] = F[u]
    PROVE  Stacks(L \cup {q}, T2, P2, F2)
<1>0. PICK d \in [Pids -> Nat] : Forest(d, L, T, P, F)
  BY DEF Stacks
<1> USE <1>0
<1> DEFINE top == IF F[t] \in Pids THEN d[F[t]] + 1 ELSE 0
           d2 == [d EXCEPT ![q] = top]
<1>1. top \in Nat /\ d2 \in [Pids -> Nat]
  OBVIOUS
<1>2. d2[q] = top /\ \A p \in L : d2[p] = d[p] /\ d[p] \in Nat
  OBVIOUS
<1>3. F2[t] = q /\ \A u \in Terms \ {t} : F2[u] = F[u]
  OBVIOUS
<1>4. \A p \in L : T[p] = t => F[t] \in L /\ d[p] < top
  BY DEF Forest
<1> HIDE DEF top, d2
<1>5. \A u \in Terms : F2[u] \in Pids => F2[u] \in L \cup {q} /\ T2[F2[u]] = u
  BY <1>3 DEF Forest
<1>6. ASSUME NEW p \in L
      PROVE  /\ T2[p] \in Terms /\ F2[T2[p]] \in Pids
             /\ p # F2[T2[p]] => d2[p] < d2[F2[T2[p]]]
             /\ P2[p] \in Pids => P2[p] \in L /\ T2[P2[p]] = T2[p]
                                  /\ d2[p] = d2[P2[p]] + 1
             /\ P2[p] \notin Pids => d2[p] = 0
  BY <1>2, <1>3, <1>4 DEF Forest
<1>7. P2[q] \in Pids => P2[q] \in L /\ T2[P2[q]] = T2[q] /\ d2[q] = d2[P2[q]] + 1
  BY <1>2 DEF Forest, top
<1>8. P2[q] \notin Pids => d2[q] = 0
  BY <1>2 DEF top
<1>9. \A p1, p2 \in L \cup {q} : T2[p1] = T2[p2] /\ d2[p1] = d2[p2] => p1 = p2
  <2>1. \A p \in L : T2[p] = T2[q] => d2[p] < d2[q]
    BY <1>2, <1>4
  <2>2. \A p1, p2 \in L : T2[p1] = T2[p2] /\ d2[p1] = d2[p2] => p1 = p2
    BY <1>2 DEF Forest
  <2>3. d2[q] \in Nat /\ \A p \in L : d2[p] \in Nat
    BY <1>1
  <2> QED
    BY <2>1, <2>2, <2>3
<1>10. Forest(d2, L \cup {q}, T2, P2, F2)
  BY <1>3, <1>5, <1>6, <1>7, <1>8, <1>9 DEF Forest
<1> QED
  BY <1>1, <1>10 DEF Stacks

(* The foremost process of terminal t gone, its parent foremost.           *)
LEMMA Pop ==
    ASSUME NEW L \in SUBSET Pids, NEW T, NEW P,
           NEW F \in [Terms -> PidOrNone], Stacks(L, T, P, F),
           NEW t \in Terms, F[t] \in Pids, NEW T2, NEW P2, NEW F2,
           \A p \in L \ {F[t]} : T2[p] = T[p] /\ P2[p] = P[p],
           F2[t] = P[F[t]], \A u \in Terms \ {t} : F2[u] = F[u]
    PROVE  Stacks(L \ {F[t]}, T2, P2, F2)
<1>0. PICK d \in [Pids -> Nat] : Forest(d, L, T, P, F)
  BY DEF Stacks
<1> USE <1>0
<1> DEFINE q == F[t]
           M == L \ {q}
<1>1. q \in L /\ T[q] = t /\ \A p \in L : d[p] \in Nat
  BY DEF Forest
<1>2. F2[t] = P[q] /\ \A u \in Terms \ {t} : F2[u] = F[u]
  OBVIOUS
<1>3. P[q] \in Pids => P[q] \in M /\ T[P[q]] = t /\ d[q] = d[P[q]] + 1
  BY <1>1 DEF Forest
<1>4. \A u \in Terms : F2[u] \in Pids => F2[u] \in M /\ T2[F2[u]] = u
  BY <1>1, <1>2, <1>3 DEF Forest
<1>5. ASSUME NEW p \in M, T[p] = t
      PROVE  P[q] \in Pids /\ (p # P[q] => d[p] < d[P[q]])
  <2>1. d[p] < d[q]
    BY <1>5 DEF Forest
  <2>2. P[q] \in Pids
    BY <1>1, <2>1 DEF Forest
  <2>3. d[p] = d[P[q]] => p = P[q]
    BY <1>3, <1>5, <2>2 DEF Forest
  <2> QED
    BY <1>1, <1>3, <2>1, <2>2, <2>3
<1>6. ASSUME NEW p \in M, P[p] \in Pids
      PROVE  P[p] \in M /\ T[P[p]] = T[p] /\ d[p] = d[P[p]] + 1
  <2>1. P[p] \in L /\ T[P[p]] = T[p] /\ d[p] = d[P[p]] + 1
    BY <1>6 DEF Forest
  <2>2. P[p] # q
    BY <1>1, <2>1 DEF Forest
  <2> QED
    BY <2>1, <2>2
<1>7. \A p \in M : /\ T2[p] \in Terms
                   /\ F2[T2[p]] \in Pids
                   /\ p # F2[T2[p]] => d[p] < d[F2[T2[p]]]
  BY <1>2, <1>5 DEF Forest
<1>8. \A p \in M : /\ P2[p] \in Pids => P2[p] \in M /\ T2[P2[p]] = T2[p]
                                        /\ d[p] = d[P2[p]] + 1
                   /\ P2[p] \notin Pids => d[p] = 0
  BY <1>6 DEF Forest
<1>9. \A p1, p2 \in M : T2[p1] = T2[p2] /\ d[p1] = d[p2] => p1 = p2
  BY DEF Forest
<1>10. Forest(d, M, T2, P2, F2)
  BY <1>4, <1>7, <1>8, <1>9 DEF Forest
<1> QED
  BY <1>10 DEF Stacks

(* Only the parents of processes matter.                                   *)
LEMMA SameForest ==
    ASSUME NEW L, NEW T, NEW P, NEW F, NEW P2, Stacks(L, T, P, F),
           \A p \in L : P2[p] = P[p]
    PROVE  Stacks(L, T, P2, F)
BY DEF Stacks, Forest

-----------------------------------------------------------------------------
(* Steps of the running terminal                                           *)

(* execute between the slot it takes and the parent it saves.              *)
StartPoints == {"attach", "load", "tss", "save"}

(* The step leaves the stacks as they are.                                 *)
SameStacks ==
    /\ Live' = Live /\ Front' = Front
    /\ \A p \in Live : TermOf'[p] = TermOf[p] /\ ParOf'[p] = ParOf[p]

(* The view of the state as stacks is well typed.                          *)
LEMMA ViewTypes ==
    ASSUME TypeInv
    PROVE  /\ Live \in SUBSET Pids
           /\ Front \in [Terms -> PidOrNone]
           /\ running_terminal \in Terms
           /\ \A t \in Terms \ {running_terminal} : Front[t] = running_procs[t]
           /\ \A p \in Pids : TermOf[p] \in Terms \cup {-1}
BY DEF TypeInv, TypeOK, Live, Front, TermOf, Context

(* The parent of p, on the running terminal and on the others.             *)
LEMMA ParValue ==
    ASSUME TypeInv, NEW p \in Pids
    PROVE  ParOf[p] =
             IF TermOf[p] \in Terms /\ Front[TermOf[p]] = p
                /\ (IF TermOf[p] = running_terminal THEN cpu ELSE saved[p]).at
                     \in {"attach", "load"}
             THEN (IF TermOf[p] = running_terminal THEN cpu ELSE saved[p]).par
             ELSE par_p_id[p]
<1>1. ParOf[p] = IF Starting(p, {"attach", "load"})
                 THEN Ctx(TermOf[p]).par ELSE par_p_id[p]
  BY DEF ParOf
<1>2. TermOf[p] \in Terms /\ Front[TermOf[p]] = p =>
        Ctx(TermOf[p]) = IF TermOf[p] = running_terminal THEN cpu ELSE saved[p]
  BY ViewTypes DEF Ctx
<1> QED
  BY <1>1, <1>2 DEF Starting

(* And whether the execute that creates it is under way.                   *)
LEMMA StartValue ==
    ASSUME TypeInv, NEW p \in Pids, NEW S
    PROVE  Starting(p, S) <=>
             /\ TermOf[p] \in Terms /\ Front[TermOf[p]] = p
             /\ (IF TermOf[p] = running_terminal THEN cpu ELSE saved[p]).at \in S
<1>1. TermOf[p] \in Terms /\ Front[TermOf[p]] = p =>
        Ctx(TermOf[p]) = IF TermOf[p] = running_terminal THEN cpu ELSE saved[p]
  BY ViewTypes DEF Ctx
<1> QED
  BY <1>1 DEF Starting

(* What the stacks say of the foremost processes.                          *)
LEMMA FrontFacts ==
    ASSUME TypeInv, Stacked
    PROVE  /\ \A t \in Terms : Front[t] \in Pids => Front[t] \in Live /\ TermOf[Front[t]] = t
           /\ \A p \in Live : TermOf[p] \in Terms /\ Front[TermOf[p]] \in Pids
           /\ \A p \in Live : ParOf[p] \in Pids =>
                 /\ ParOf[p] \in Live
                 /\ TermOf[ParOf[p]] = TermOf[p]
                 /\ \A t \in Terms : Front[t] # ParOf[p]
<1>1. PICK d \in [Pids -> Nat] : Forest(d, Live, TermOf, ParOf, Front)
  BY DEF Stacked, Stacks
<1>2. Live \subseteq Pids
  BY DEF Live
<1>3. ASSUME NEW p \in Live, ParOf[p] \in Pids, NEW t \in Terms, Front[t] = ParOf[p]
      PROVE  FALSE
  <2>1. TermOf[p] = t /\ d[p] = d[Front[t]] + 1
    BY <1>1, <1>3 DEF Forest
  <2>2. p = Front[t] \/ d[p] < d[Front[t]]
    BY <1>1, <2>1 DEF Forest
  <2>3. d[p] \in Nat /\ d[Front[t]] \in Nat
    BY <1>2, <1>3
  <2> QED
    BY <2>1, <2>2, <2>3
<1> QED
  BY <1>1, <1>3 DEF Forest

(* A step of the running terminal that neither pushes nor pops: what it    *)
(* has to show is what becomes of its own context and of the memory.       *)
LEMMA LocalStep ==
    ASSUME TypeInv, TypeInv', OwnInv,
           kbd = "idle", kbd' = "idle", in_service' = in_service, fault' = "none",
           running_terminal' = running_terminal, procs' = procs,
           TermOf' = TermOf, Front' = Front,
           NEW f, f = Front[running_terminal],
           \A p \in Pids : p # f => par_p_id'[p] = par_p_id[p],
           f \in Pids => ParOf'[f] = ParOf[f],
           \A p \in Live : TermOf[p] # running_terminal => saved'[p] = saved[p],
           \A p \in Pids : saved'[p] = saved[p] \/ saved'[p].stk = p,
           \/ f \notin Pids
           \/ cpu'.at \in StartPoints
           \/ cpu.at \notin StartPoints
           \/ ParOf[f] \notin Pids
           \/ saved'[ParOf[f]].stk = ParOf[f],
           CtxOwn(cpu', f), ParLocal(cpu)', MemoryOwn'
    PROVE  OwnInv' /\ SameStacks
<1> DEFINE r == running_terminal
<1>1. Live' = Live /\ Live \subseteq Pids
  BY DEF Live
<1>2. /\ \A t \in Terms : Front[t] \in Pids => Front[t] \in Live /\ TermOf[Front[t]] = t
      /\ \A p \in Live : TermOf[p] \in Terms /\ Front[TermOf[p]] \in Pids
  BY FrontFacts DEF OwnInv
<1>3. /\ r \in Terms
      /\ \A t \in Terms \ {r} : Front[t] = running_procs[t] /\ running_procs'[t] = running_procs[t]
  BY ViewTypes, Zenon DEF Front, TypeInv, TypeOK
<1>4. ASSUME NEW p \in Live, NEW S, p # f
      PROVE  Starting(p, S)' <=> Starting(p, S)
  <2>1. p \in Pids
    BY <1>1
  <2>2. Starting(p, S) <=>
             /\ TermOf[p] \in Terms /\ Front[TermOf[p]] = p
             /\ (IF TermOf[p] = running_terminal THEN cpu ELSE saved[p]).at \in S
    BY <2>1, StartValue
  <2>3. Starting(p, S)' <=>
             /\ TermOf[p] \in Terms /\ Front[TermOf[p]] = p
             /\ (IF TermOf[p] = running_terminal THEN cpu' ELSE saved'[p]).at \in S
    BY <1>2, <1>3, <1>4 DEF Starting, Ctx
  <2> QED
    BY <1>4, <2>2, <2>3
<1>5. ASSUME NEW p \in Live PROVE ParOf'[p] = ParOf[p]
  <2>1. CASE p = f
    BY <1>1, <2>1
  <2>2. CASE p # f
    <3>1. p \in Pids
      BY <1>1
    <3>2. ParOf[p] = IF Starting(p, {"attach", "load"})
                     THEN Ctx(TermOf[p]).par ELSE par_p_id[p]
      BY <3>1 DEF ParOf
    <3>3. ParOf'[p] = IF Starting(p, {"attach", "load"})'
                      THEN Ctx(TermOf[p])'.par ELSE par_p_id'[p]
      BY <3>1 DEF ParOf
    <3>4. Starting(p, {"attach", "load"})' <=> Starting(p, {"attach", "load"})
      BY <1>4, <2>2
    <3>5. Starting(p, {"attach", "load"}) => Ctx(TermOf[p])' = Ctx(TermOf[p])
      BY <1>3, <2>2 DEF Starting, Ctx
    <3> QED
      BY <2>2, <3>1, <3>2, <3>3, <3>4, <3>5, Zenon
  <2> QED
    BY <2>1, <2>2
<1>6. Stacked'
  <2>1. Stacks(Live, TermOf, ParOf, Front)
    BY DEF OwnInv, Stacked
  <2>2. Stacks(Live, TermOf, ParOf', Front)
    BY <1>5, <2>1, SameForest
  <2> QED
    BY <1>1, <2>2 DEF Stacked
<1>7. ParentsKept'
  <2> SUFFICES ASSUME NEW p \in Live, ParOf[p] \in Pids, ~Starting(p, StartPoints)'
               PROVE  saved'[ParOf[p]].stk = ParOf[p]
    BY <1>1, <1>5 DEF ParentsKept, StartPoints
  <2>1. CASE ~Starting(p, StartPoints)
    BY <2>1 DEF OwnInv, ParentsKept, StartPoints
  <2>2. CASE Starting(p, StartPoints)
    <3>1. p = f
      BY <1>4, <2>2
    <3>2. cpu.at \in StartPoints /\ cpu'.at \notin StartPoints
      BY <1>1, <1>2, <1>3, <2>2, <3>1 DEF Starting, Ctx
    <3> QED
      BY <1>1, <3>1, <3>2
  <2> QED
    BY <2>1, <2>2
<1>8. ASSUME NEW t \in Terms \ {r}, running_procs[t] \in Pids
      PROVE  saved'[running_procs[t]] = saved[running_procs[t]]
  BY <1>2, <1>3, <1>8
<1>9. ContextsOwn'
  <2>1. ASSUME NEW t \in Terms \ {r}, running_procs[t] \in Pids
        PROVE  CtxOwn(Ctx(t), Front[t])' /\ ParLocal(Ctx(t))'
    <3> DEFINE c == saved[running_procs[t]]
    <3>1. Ctx(t) = c /\ Ctx(t)' = c
      BY <1>3, <1>8, <2>1 DEF Ctx
    <3>2. CtxOwn(c, Front[t]) /\ ParLocal(c) /\ Quiet(c)
      BY <2>1, <3>1 DEF OwnInv, ContextsOwn, HasCtx, OthersQuiet
    <3>3. Front[t] # f
      BY <1>2, <1>3, <2>1
    <3>4. c.at \in {"tss", "h_map"} => c.pid = Front[t]
      BY <3>2 DEF CtxOwn
    <3>5. Front[t] = running_procs[t]
      BY <1>3
    <3>6. ParLocal(c) <=> (c.at \in {"tss", "h_map"} => c.par = par_p_id[c.pid])
      BY <3>2 DEF ParLocal, Quiet, SafePoints
    <3>7. ParLocal(Ctx(t))' <=> (c.at \in {"tss", "h_map"} => c.par = par_p_id'[c.pid])
      BY <3>1, <3>2 DEF ParLocal, Quiet, SafePoints
    <3> HIDE DEF c
    <3>8. ParLocal(Ctx(t))'
      BY <2>1, <3>2, <3>3, <3>4, <3>5, <3>6, <3>7, Zenon
    <3>9. CtxOwn(Ctx(t), Front[t])'
      BY <3>1, <3>2 DEF CtxOwn
    <3> QED
      BY <3>8, <3>9
  <2>2. CtxOwn(Ctx(r), Front[r])' /\ ParLocal(Ctx(r))'
    BY Zenon DEF Ctx, CtxOwn, ParLocal
  <2> QED
    BY <1>3, <2>1, <2>2 DEF ContextsOwn, HasCtx
<1>10. OthersQuiet'
  BY <1>3, <1>8, SMTT(30) DEF OwnInv, OthersQuiet, Quiet
<1>11. HandlerOwn'
  BY <1>3, SizeFacts DEF OwnInv, HandlerOwn
<1> QED
  BY <1>1, <1>5, <1>6, <1>7, <1>9, <1>10, <1>11 DEF OwnInv, SameStacks

(* A step that touches neither the tables nor the PCBs.                    *)
LEMMA PlainStep ==
    ASSUME TypeInv, TypeInv', OwnInv, kbd = "idle",
           UNCHANGED <<procVars, saved, termVars, irqVars, fault>>,
           {cpu.at, cpu'.at} \cap {"attach", "load", "h_par"} = {},
           cpu.at \in StartPoints => cpu'.at \in StartPoints,
           CtxOwn(cpu', Foremost), ParLocal(cpu)',
           MemOwn(cpu', Foremost, upage', esp0'), video_mem' = VIDEO
    PROVE  OwnInv' /\ SameStacks
<1> USE DEF procVars, termVars, irqVars
<1>1. /\ cpu.at \notin {"attach", "load", "h_par"}
      /\ cpu'.at \notin {"attach", "load", "h_par"}
  BY Zenon
<1>2. TermOf' = TermOf
  BY <1>1 DEF TermOf
<1>3. Front' = Front /\ Front[running_terminal] = Foremost
  BY <1>1, Zenon DEF Front, Foremost, TypeInv, TypeOK
<1>4. Foremost \in Pids => ParOf'[Foremost] = ParOf[Foremost]
  <2> SUFFICES ASSUME NEW f, f = Foremost, f \in Pids PROVE ParOf'[f] = ParOf[f]
    OBVIOUS
  <2>1. f \in Live /\ TermOf[f] = running_terminal
    BY <1>3, FrontFacts, ViewTypes DEF OwnInv
  <2>2. ParOf[f] = par_p_id[f]
    BY <1>1, <2>1, ParValue
  <2>3. ParOf'[f] = par_p_id'[f]
    BY <1>1, <1>2, <2>1 DEF ParOf, Starting, Ctx
  <2> QED
    BY <2>2, <2>3
<1>5. fault = "none"
  BY DEF OwnInv, HandlerOwn
<1>6. MemoryOwn'
  BY <1>3 DEF MemoryOwn, MemOwn, VIDEO
<1> QED
  BY <1>2, <1>3, <1>4, <1>5, <1>6, LocalStep

(* sched_init and the call of execute at boot.                             *)
LEMMA OwnInit == Init => OwnInv
<1> SUFFICES ASSUME Init PROVE OwnInv
  OBVIOUS
<1> USE SizeFacts DEF Init
<1>1. TypeInv
  BY TypeInit
<1>2. /\ cpu.at = "add" /\ cpu.par = NoPid /\ NoPid \notin Pids
      /\ \A t \in Terms : running_procs[t] = NoPid
  BY DEF StartShell, NoPid
<1>3. Live = {}
  BY DEF Live
<1>4. Front = running_procs
  BY <1>2, Zenon DEF Front
<1>5. Stacked
  <2>1. [p \in Pids |-> 0] \in [Pids -> Nat]
    OBVIOUS
  <2>2. Forest([p \in Pids |-> 0], Live, TermOf, ParOf, Front)
    BY <1>2, <1>3, <1>4 DEF Forest
  <2> QED
    BY <2>1, <2>2 DEF Stacked, Stacks
<1>6. ParentsKept
  BY <1>3 DEF ParentsKept
<1>7. ContextsOwn
  <2>1. CtxOwn(cpu, NoPid) /\ ParLocal(cpu)
    BY <1>2, Zenon DEF CtxOwn, ParLocal
  <2> QED
    BY <1>2, <1>4, <2>1, Zenon DEF ContextsOwn, HasCtx, Ctx
<1>8. OthersQuiet /\ HandlerOwn
  BY <1>2 DEF OthersQuiet, HandlerOwn
<1>9. MemoryOwn
  BY <1>2, <1>4, Zenon DEF MemoryOwn, MemOwn
<1> QED
  BY <1>5, <1>6, <1>7, <1>8, <1>9 DEF OwnInv

(* What the invariant says of the CPU at the points where neither table is *)
(* half written.                                                           *)
LEMMA CpuFacts ==
    ASSUME TypeInv, OwnInv
    PROVE  /\ CtxOwn(cpu, Front[running_terminal]) /\ ParLocal(cpu)
           /\ cpu.at # "h_par" => Front[running_terminal] = Foremost
           /\ Foremost \in PidOrNone /\ Front[running_terminal] \in PidOrNone
           /\ cpu \in Context /\ CtxOK(cpu) /\ fault = "none" /\ video_mem = VIDEO
           /\ cpu.at = "run" => Foremost \in Pids
<1>1. running_terminal \in Terms
  BY ViewTypes
<1>2. CtxOwn(cpu, Front[running_terminal]) /\ ParLocal(cpu)
  BY <1>1 DEF OwnInv, ContextsOwn, HasCtx, Ctx
<1>3. cpu.at # "h_par" => Front[running_terminal] = Foremost
  BY <1>1 DEF Front, Foremost
<1>4. Foremost \in PidOrNone /\ Front[running_terminal] \in PidOrNone
  BY <1>1, ViewTypes DEF Foremost, TypeInv, TypeOK
<1> QED
  BY <1>2, <1>3, <1>4 DEF TypeInv, TypeOK, OwnInv, HandlerOwn, MemoryOwn, HasForemost

(* execute never gives up on the shell of an empty terminal.               *)
LEMMA EmptyIsEmpty ==
    ASSUME TypeInv, SlotInv, OwnInv, cpu.at \in {"add", "scan"}, ~(cpu.par >= 0)
    PROVE  ProcsOn(running_terminal) = {}
<1> SUFFICES ASSUME NEW p \in Pids, term_procs[p] = running_terminal PROVE FALSE
  BY DEF ProcsOn
<1>1. running_terminal \in Terms
  BY ViewTypes
<1>2. p \in Live /\ TermOf[p] = running_terminal
  BY <1>1 DEF SlotInv, TablesAgree, Live, TermOf
<1>3. Front[running_terminal] \in Pids
  BY <1>2, FrontFacts DEF OwnInv
<1>4. cpu.par = Front[running_terminal]
  BY CpuFacts DEF CtxOwn
<1>5. cpu.par \in Nat
  BY <1>3, <1>4, SizeFacts, Zenon
<1> QED
  BY <1>5

(* execute gives up: back in the program that called it.                   *)
LEMMA GiveUpOwn ==
    ASSUME TypeInv, TypeInv', OwnInv, kbd = "idle", GiveUp, cpu.par >= 0,
           cpu.at \in {"add", "scan"},
           UNCHANGED <<procVars, saved, termVars, memVars, irqVars>>
    PROVE  OwnInv' /\ SameStacks
<1>1. cpu' = Running(esp0) /\ fault' = fault
  BY DEF GiveUp
<1>2. cpu.par = Foremost /\ Foremost \in Pids /\ Front[running_terminal] = Foremost
  BY CpuFacts, SizeFacts DEF CtxOwn
<1>3. esp0 = Foremost /\ upage = Foremost /\ video_mem = VIDEO
  BY <1>2 DEF OwnInv, MemoryOwn, MemOwn
<1>4. cpu'.at = "run" /\ cpu'.stk = Foremost
  BY <1>1, <1>3 DEF Running
<1>5. CtxOwn(cpu', Foremost) /\ ParLocal(cpu)'
  BY <1>4 DEF CtxOwn, ParLocal, ExecPoints
<1>6. MemOwn(cpu', Foremost, upage', esp0') /\ video_mem' = VIDEO
  BY <1>3, <1>4 DEF MemOwn, memVars
<1> QED
  BY <1>1, <1>4, <1>5, <1>6, PlainStep DEF StartPoints

(* The steps of execute that leave the tables alone.                       *)
LEMMA ExecuteOwn ==
    ASSUME TypeInv, TypeInv', SlotInv, OwnInv,
           Execute \/ CheckRoom \/ ScanSlots \/ SetTss \/ Iret \/ ExecRet
    PROVE  OwnInv' /\ SameStacks
<1> USE DEF At
<1>a. /\ cpu \in Context /\ CtxOK(cpu) /\ video_mem = VIDEO /\ Foremost \in PidOrNone
      /\ ParLocal(cpu)
  BY CpuFacts
<1>b. ASSUME cpu.at # "h_par"
      PROVE  CtxOwn(cpu, Foremost) /\ MemOwn(cpu, Foremost, upage, esp0)
  BY <1>b, CpuFacts DEF OwnInv, MemoryOwn
<1>1. CASE Execute
  <2> USE <1>1 DEF Execute
  <2>1. /\ cpu'.at = "add" /\ cpu'.par = Foremost /\ cpu'.stk = cpu.stk
    BY <1>a DEF Context, Foremost
  <2>2. cpu.stk = Foremost /\ (Foremost \in Pids => upage = Foremost /\ esp0 = Foremost)
    BY <1>b DEF CtxOwn, MemOwn
  <2>3. CtxOwn(cpu', Foremost) /\ ParLocal(cpu)'
    BY <2>1, <2>2 DEF CtxOwn, ParLocal
  <2>4. MemOwn(cpu', Foremost, upage', esp0')
    BY <2>1, <2>2 DEF MemOwn, memVars
  <2> QED
    BY <1>a, <2>1, <2>3, <2>4, PlainStep DEF StartPoints, memVars
<1>2. CASE CheckRoom
  <2> USE <1>2 DEF CheckRoom
  <2>1. CASE ProcsOn(running_terminal) # {} /\ num_procs_virt >= MAX_DEVICES
    <3>1. cpu.par >= 0
      BY <2>1, EmptyIsEmpty
    <3> QED
      BY <2>1, <3>1, GiveUpOwn
  <2>2. CASE ~(ProcsOn(running_terminal) # {} /\ num_procs_virt >= MAX_DEVICES)
    <3>1. /\ cpu'.at = "scan" /\ cpu'.par = cpu.par /\ cpu'.stk = cpu.stk
          /\ UNCHANGED fault
      BY <1>a, <2>2 DEF Goto, Context
    <3>2. CtxOwn(cpu', Foremost) /\ ParLocal(cpu)'
      BY <1>b, <3>1 DEF CtxOwn, ParLocal, ExecPoints
    <3>3. MemOwn(cpu', Foremost, upage', esp0')
      BY <1>b, <3>1 DEF MemOwn, memVars
    <3> QED
      BY <1>a, <3>1, <3>2, <3>3, PlainStep DEF StartPoints, memVars
  <2> QED
    BY <2>1, <2>2
<1>3. CASE ScanSlots
  <2> USE <1>3 DEF ScanSlots
  <2>1. CASE FreeSlots = {} /\ GiveUp
    <3>1. ASSUME ~(cpu.par >= 0) PROVE FALSE
      BY <2>1, <3>1, EmptyIsEmpty, SlotForShell, ViewTypes DEF ReservedSlotFree
    <3> QED
      BY <2>1, <3>1, GiveUpOwn
  <2>2. ASSUME NEW i \in FreeSlots, cpu' = [cpu EXCEPT !.at = "take", !.pid = i],
               UNCHANGED fault
        PROVE  OwnInv' /\ SameStacks
    <3>1. cpu'.at = "take" /\ cpu'.par = cpu.par /\ cpu'.stk = cpu.stk
      BY <1>a, <2>2, Zenon DEF Context
    <3>2. CtxOwn(cpu', Foremost) /\ ParLocal(cpu)'
      BY <1>b, <3>1, Zenon DEF CtxOwn, ParLocal, ExecPoints
    <3>3. MemOwn(cpu', Foremost, upage', esp0')
      BY <1>b, <3>1, Zenon DEF MemOwn, memVars
    <3> QED
      BY <1>a, <2>2, <3>1, <3>2, <3>3, PlainStep, Zenon DEF StartPoints, memVars
  <2> QED
    BY <2>1, <2>2, Zenon
<1>4. CASE SetTss
  <2> USE <1>4 DEF SetTss
  <2>1. /\ cpu'.at = "save" /\ cpu'.par = cpu.par /\ cpu'.stk = cpu.stk
        /\ cpu'.pid = cpu.pid
    BY <1>a DEF Goto, Context
  <2>2. CtxOwn(cpu', Foremost) /\ ParLocal(cpu)'
    BY <1>a, <1>b, <2>1 DEF CtxOwn, ParLocal, ExecPoints, procVars
  <2>3. MemOwn(cpu', Foremost, upage', esp0')
    BY <1>b, <2>1 DEF MemOwn, CtxOwn
  <2> QED
    BY <1>a, <2>1, <2>2, <2>3, PlainStep DEF StartPoints
<1>5. CASE Iret
  <2> USE <1>5 DEF Iret
  <2>1. Foremost \in Pids /\ upage = Foremost /\ esp0 = Foremost
    BY <1>a, <1>b DEF CtxOwn, MemOwn, CtxOK
  <2>2. cpu'.at = "run" /\ cpu'.stk = Foremost
    BY <2>1 DEF Running
  <2>3. CtxOwn(cpu', Foremost) /\ ParLocal(cpu)'
    BY <2>2 DEF CtxOwn, ParLocal, ExecPoints
  <2>4. MemOwn(cpu', Foremost, upage', esp0')
    BY <2>1, <2>2 DEF MemOwn, memVars
  <2> QED
    BY <1>a, <2>2, <2>3, <2>4, PlainStep DEF StartPoints, memVars
<1>6. CASE ExecRet
  <2> USE <1>6 DEF ExecRet
  <2>1. running_procs[display_terminal] = Foremost
    BY DEF Foremost, TypeInv, DisplayedIsRunning
  <2>2. CASE Foremost \in Pids
    <3>1. upage = Foremost /\ esp0 = Foremost /\ ~(Foremost < 0)
      BY <1>b, <2>2, SizeFacts DEF MemOwn, PidOrNone
    <3>2. cpu'.at = "run" /\ cpu'.stk = Foremost
      BY <2>1, <3>1, Zenon DEF Running
    <3>3. CtxOwn(cpu', Foremost) /\ ParLocal(cpu)'
      BY <3>2 DEF CtxOwn, ParLocal, ExecPoints
    <3>4. MemOwn(cpu', Foremost, upage', esp0')
      BY <3>1, <3>2 DEF MemOwn, memVars
    <3> QED
      BY <1>a, <3>2, <3>3, <3>4, PlainStep DEF StartPoints, memVars
  <2>3. CASE Foremost \notin Pids
    <3>1. Foremost < 0
      BY <1>a, <2>3, SizeFacts DEF PidOrNone
    <3>2. cpu'.at = "add" /\ cpu'.par = Foremost
      BY <2>1, <3>1, Zenon DEF StartShell, Foremost
    <3>3. CtxOwn(cpu', Foremost) /\ ParLocal(cpu)'
      BY <2>3, <3>2 DEF CtxOwn, ParLocal
    <3>4. MemOwn(cpu', Foremost, upage', esp0')
      BY <2>3, <3>2 DEF MemOwn
    <3> QED
      BY <1>a, <3>2, <3>3, <3>4, PlainStep DEF StartPoints, memVars
  <2> QED
    BY <2>2, <2>3
<1> QED
  BY <1>1, <1>2, <1>3, <1>4, <1>5, <1>6

(* The steps of execute that fill in the new process and save its parent.  *)
LEMMA LoadOwn ==
    ASSUME TypeInv, TypeInv', OwnInv, Attach \/ Load \/ SaveParent
    PROVE  OwnInv' /\ SameStacks
<1> USE DEF At, termVars, memVars, irqVars
<1> DEFINE f == Foremost
<1>a. /\ cpu \in Context /\ cpu.pid = f /\ f \in Pids /\ cpu.par \in PidOrNone
      /\ cpu.par \in Pids => cpu.stk = cpu.par
      /\ cpu.at \in {"attach", "load", "save"}
      /\ Front[running_terminal] = f /\ fault = "none" /\ ParLocal(cpu)
      /\ running_terminal \in Terms
  BY CpuFacts, ViewTypes
     DEF Attach, Load, SaveParent, CtxOwn, CtxOK, Context, StartPoints, ExecPoints
<1>b. f \in Live /\ TermOf[f] = running_terminal
  BY <1>a, FrontFacts DEF OwnInv
<1>c. ParOf[f] = IF cpu.at \in {"attach", "load"} THEN cpu.par ELSE par_p_id[f]
  BY <1>a, <1>b, ParValue
<1>d. \A p \in Live : ParOf[p] \in Pids => TermOf[ParOf[p]] = TermOf[p]
  BY FrontFacts DEF OwnInv
<1>1. /\ cpu'.pid = f /\ cpu'.par = cpu.par /\ cpu'.stk = cpu.stk
      /\ cpu'.at = IF cpu.at = "attach" THEN "load"
                   ELSE IF cpu.at = "load" THEN "tss" ELSE "iret"
  BY <1>a DEF Attach, Load, SaveParent, Goto, Context
<1>2. TermOf' = TermOf
  <2>1. CASE Attach
    <3>1. \A p \in Pids : term_procs'[p] = IF p = f THEN running_terminal ELSE term_procs[p]
      BY <1>a, <2>1 DEF Attach, TypeInv, TypeOK
    <3> QED
      BY <1>a, <1>1, <2>1, <3>1, Zenon DEF Attach, TermOf
  <2>2. CASE Load \/ SaveParent
    BY <1>1, <2>2 DEF Load, SaveParent, TermOf, procVars
  <2> QED
    BY <2>1, <2>2, Zenon
<1>3. Front' = Front
  BY <1>a, <1>1 DEF Attach, Load, SaveParent, Front, procVars
<1>4. \A p \in Pids : par_p_id'[p] = IF cpu.at = "load" /\ p = f THEN cpu.par ELSE par_p_id[p]
  BY <1>a DEF Attach, Load, SaveParent, procVars, TypeInv, TypeOK
<1>5. ParOf'[f] = ParOf[f]
  <2>1. ParOf'[f] = IF cpu'.at \in {"attach", "load"} THEN cpu'.par ELSE par_p_id'[f]
    BY <1>a, <1>b, <1>2, <1>3 DEF ParOf, Starting, Ctx, Attach, Load, SaveParent
  <2> QED
    BY <1>a, <1>c, <1>1, <1>4, <2>1 DEF Attach, Load, SaveParent
<1>6. cpu.at = "save" => cpu.par = ParOf[f]
  BY <1>a, <1>c DEF ParLocal
<1>7. \A p \in Pids : /\ cpu.at = "save" /\ p = cpu.par => saved'[p].stk = p
                      /\ cpu.at # "save" \/ p # cpu.par => saved'[p] = saved[p]
  <2>1. CASE SaveParent
    <3>1. [cpu EXCEPT !.at = "x_ret"].stk = cpu.stk
      BY <1>a DEF Context
    <3> QED
      BY <1>a, <2>1, <3>1, SizeFacts DEF SaveParent, TypeInv, TypeOK
  <2>2. CASE Attach \/ Load
    BY <2>2 DEF Attach, Load
  <2> QED
    BY <2>1, <2>2
<1>8. \A p \in Live : TermOf[p] # running_terminal => saved'[p] = saved[p]
  BY <1>b, <1>d, <1>6, <1>7 DEF Live
<1>9. CtxOwn(cpu', f) /\ ParLocal(cpu)'
  <2>1. CtxOwn(cpu', f)
    BY <1>a, <1>1 DEF CtxOwn, ExecPoints
  <2>2. ParLocal(cpu)'
    BY <1>a, <1>1, <1>4 DEF ParLocal
  <2> QED
    BY <2>1, <2>2
<1>10. MemoryOwn'
  <2>1. MemOwn(cpu, f, upage, esp0) /\ video_mem = VIDEO
    BY <1>a, Zenon DEF OwnInv, MemoryOwn
  <2>2. CASE Attach
    BY <1>a, <1>1, <2>2 DEF Attach, MemoryOwn, MemOwn, OwnInv, VIDEO
  <2>3. CASE Load
    BY <1>a, <1>1, <1>3, <2>1, <2>3 DEF Load, MemoryOwn, MemOwn, VIDEO
  <2>4. CASE SaveParent
    BY <1>a, <1>1, <1>3, <2>1, <2>4, Zenon DEF SaveParent, MemoryOwn, MemOwn, VIDEO
  <2> QED
    BY <2>2, <2>3, <2>4, Zenon
<1>11. \/ cpu'.at \in StartPoints
       \/ ParOf[f] \notin Pids
       \/ saved'[ParOf[f]].stk = ParOf[f]
  BY <1>a, <1>1, <1>6, <1>7 DEF StartPoints
<1>12. /\ kbd = "idle" /\ kbd' = "idle" /\ in_service' = in_service /\ fault' = "none"
       /\ running_terminal' = running_terminal /\ procs' = procs
  BY <1>a DEF Attach, Load, SaveParent, procVars
<1>13. \A p \in Pids : p # f => par_p_id'[p] = par_p_id[p]
  BY <1>4
<1>14. \A p \in Pids : saved'[p] = saved[p] \/ saved'[p].stk = p
  BY <1>7
<1> HIDE DEF f
<1> QED
  BY <1>a, <1>2, <1>3, <1>5, <1>8, <1>9, <1>10, <1>11, <1>12, <1>13, <1>14, LocalStep

(* The steps of halt that leave the stacks alone.                          *)
LEMMA HaltOwn ==
    ASSUME TypeInv, TypeInv', OwnInv, Halt \/ MapParent \/ ParentTss \/ ResumeParent
    PROVE  OwnInv' /\ SameStacks
<1> USE DEF At, memVars
<1>a. /\ cpu \in Context /\ CtxOK(cpu) /\ video_mem = VIDEO /\ Foremost \in PidOrNone
      /\ ParLocal(cpu)
      /\ cpu.at = "run" => Foremost \in Pids
      /\ running_terminal \in Terms
  BY CpuFacts, ViewTypes
<1>b. /\ CtxOwn(cpu, Foremost) /\ MemOwn(cpu, Foremost, upage, esp0)
      /\ Front[running_terminal] = Foremost
  BY CpuFacts DEF OwnInv, MemoryOwn, Halt, MapParent, ParentTss, ResumeParent
<1>1. CASE Halt
  <2> USE <1>1 DEF Halt
  <2>1. Foremost \in Pids /\ par_p_id[Foremost] \in PidOrNone
    BY <1>a, CpuFacts DEF TypeInv, TypeOK
  <2>2. /\ cpu'.at = IF par_p_id[Foremost] >= 0 THEN "h_map" ELSE "h_del"
        /\ cpu'.pid = Foremost /\ cpu'.par = par_p_id[Foremost]
    BY <1>a DEF Context, Foremost
  <2>3. cpu'.at = "h_del" => cpu'.par \notin Pids
    BY <2>1, <2>2, SizeFacts
  <2>4. CtxOwn(cpu', Foremost)
    BY <2>2, <2>3 DEF CtxOwn, ExecPoints
  <2>5. ParLocal(cpu)'
    BY <2>2 DEF ParLocal, procVars
  <2>6. MemOwn(cpu', Foremost, upage', esp0')
    BY <2>2, <2>3, SMTT(30) DEF MemOwn
  <2> QED
    BY <1>a, <2>2, <2>4, <2>5, <2>6, PlainStep DEF StartPoints
<1>2. CASE MapParent
  <2> USE <1>2 DEF MapParent
  <2>1. /\ cpu'.at = "h_tss" /\ cpu'.pid = cpu.pid /\ cpu'.par = cpu.par
    BY <1>a, Zenon DEF Goto, Context
  <2>2. CtxOwn(cpu', Foremost)
    BY <1>b, <2>1, Zenon DEF CtxOwn, ExecPoints
  <2>3. ParLocal(cpu)'
    BY <1>a, <2>1 DEF ParLocal, procVars
  <2>4. MemOwn(cpu', Foremost, upage', esp0')
    BY <2>1 DEF MemOwn
  <2> QED
    BY <1>a, <2>1, <2>2, <2>3, <2>4, PlainStep DEF StartPoints
<1>3. CASE ParentTss
  <2> USE <1>3 DEF ParentTss
  <2>1. cpu.pid = Foremost /\ Foremost \in Pids /\ cpu.par \in Pids
        /\ cpu.par = par_p_id[Foremost]
    BY <1>a, <1>b DEF CtxOwn, CtxOK, HaltPoints, ParLocal
  <2>2. Foremost \in Live /\ TermOf[Foremost] = running_terminal
    BY <1>a, <1>b, <2>1, FrontFacts DEF OwnInv
  <2>3. ParOf[Foremost] = cpu.par
    BY <2>1, <2>2, ParValue
  <2>4. ~Starting(Foremost, {"attach", "load", "tss", "save"})
    BY <2>2 DEF Starting, Ctx
  <2>5. saved[cpu.par].stk = cpu.par
    BY <2>1, <2>2, <2>3, <2>4 DEF OwnInv, ParentsKept
  <2>6. /\ cpu'.at = "h_del" /\ cpu'.pid = cpu.pid /\ cpu'.par = cpu.par
        /\ cpu'.esp = cpu.par
    BY <1>a, <2>5 DEF Context
  <2>7. CtxOwn(cpu', Foremost)
    BY <2>1, <2>6 DEF CtxOwn, ExecPoints
  <2>8. ParLocal(cpu)'
    BY <2>1, <2>6 DEF ParLocal, procVars
  <2>9. MemOwn(cpu', Foremost, upage', esp0')
    BY <1>b, <2>6 DEF MemOwn
  <2> QED
    BY <1>a, <2>6, <2>7, <2>8, <2>9, PlainStep DEF StartPoints
<1>4. CASE ResumeParent
  <2> USE <1>4 DEF ResumeParent
  <2>1. cpu.par = Foremost /\ (Foremost \in Pids => cpu.esp = Foremost)
    BY <1>b DEF CtxOwn
  <2>2. cpu'.at = "x_ret" /\ cpu'.par = cpu.par /\ cpu'.stk = cpu.esp
    BY <1>a DEF Context
  <2>3. CtxOwn(cpu', Foremost) /\ ParLocal(cpu)'
    BY <2>1, <2>2 DEF CtxOwn, ExecPoints, ParLocal
  <2>4. MemOwn(cpu', Foremost, upage', esp0')
    BY <1>b, <2>2, Zenon DEF MemOwn
  <2> QED
    BY <1>a, <2>2, <2>3, <2>4, PlainStep DEF StartPoints
<1> QED
  BY <1>1, <1>2, <1>3, <1>4

(* delete_process makes the parent foremost.                               *)
LEMMA ForemostOwn ==
    ASSUME TypeInv, TypeInv', SlotInv, OwnInv, ForemostIsParent
    PROVE  OwnInv' /\ SameStacks
<1> USE DEF At, termVars, memVars, irqVars, ForemostIsParent
<1> DEFINE f == Front[running_terminal]
<1>a. /\ cpu \in Context /\ cpu.par = f /\ f \in PidOrNone /\ fault = "none"
      /\ cpu.pid \in Pids /\ f = par_p_id[cpu.pid]
      /\ f \in Pids => cpu.esp = f
      /\ running_terminal \in Terms /\ display_terminal = running_terminal
      /\ MemOwn(cpu, f, upage, esp0) /\ video_mem = VIDEO
  BY CpuFacts, ViewTypes, Zenon
     DEF CtxOwn, CtxOK, HaltPoints, ParLocal, OwnInv, MemoryOwn, TypeInv,
         DisplayedIsRunning
<1>1. /\ cpu'.at \in {"h_close", "x_ret"} /\ cpu'.par = f /\ cpu'.esp = cpu.esp
      /\ cpu'.at = "x_ret" => f \notin Pids
  BY <1>a, SizeFacts DEF Goto, Context
<1>2. TermOf' = TermOf
  <2>1. term_procs[cpu.pid] = -1
    BY <1>a DEF SlotInv, TablesAgree, TypeInv, TypeOK
  <2>2. term_procs' = term_procs
    BY <1>a, <2>1, Zenon DEF TypeInv, TypeOK
  <2> QED
    BY <1>1, <2>2 DEF TermOf
<1>3. Front' = Front
  <2>1. \A t \in Terms : running_procs'[t] = Front[t]
    BY <1>a, Zenon DEF Front, TypeInv, TypeOK
  <2> QED
    BY <1>1, <2>1 DEF Front
<1>4. f \in Pids => ParOf'[f] = ParOf[f]
  <2> SUFFICES ASSUME f \in Pids PROVE ParOf'[f] = ParOf[f]
    BY Zenon
  <2>1. TermOf[f] = running_terminal
    BY <1>a, FrontFacts DEF OwnInv
  <2>2. ParOf[f] = par_p_id[f]
    BY <2>1, ParValue, Zenon
  <2>3. ParOf'[f] = par_p_id'[f]
    BY <1>1, <1>2, <2>1 DEF ParOf, Starting, Ctx
  <2> QED
    BY <2>2, <2>3
<1>5. CtxOwn(cpu', f) /\ ParLocal(cpu)'
  BY <1>a, <1>1 DEF CtxOwn, ParLocal, ExecPoints
<1>6. MemoryOwn'
  BY <1>a, <1>1, <1>3 DEF MemoryOwn, MemOwn, VIDEO
<1>7. cpu.at \notin StartPoints
  BY DEF StartPoints
<1> HIDE DEF f
<1>8. f = Front[running_terminal]
  BY DEF f
<1> QED
  BY <1>a, <1>2, <1>3, <1>4, <1>5, <1>6, <1>7, <1>8, LocalStep
=============================================================================
