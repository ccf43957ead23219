---------------------------- MODULE Files_proofs ----------------------------
(***************************************************************************)
(* The descriptor tables, for every number of terminals, programs,         *)
(* descriptors and files; and the words of a command line, for every line. *)
(***************************************************************************)
EXTENDS Files, ArgUtil, FiniteSetTheorems, TLAPS

(* A set of numbers that is not empty has a least one.                     *)
LEMMA LeastOf ==
    ASSUME NEW T \in SUBSET Nat, T # {}
    PROVE  \E k \in T : \A j \in T : k <= j
  <1>1. PICK k \in T : \A j \in T : ~(<<j, k>> \in OpToRel(<, Nat))
    BY NatLessThanWellFounded, WFMin, Zenon
  <1>2. \A j \in T : ~(j < k)
    BY <1>1, Zenon DEF OpToRel
  <1> QED
    BY <1>2

-----------------------------------------------------------------------------
(* The descriptor tables.                                                  *)

Fields == {"fops", "inode", "pos", "flags"}

(* A descriptor: in use exactly when it has operations.                    *)
FdOK(f) ==
    /\ DOMAIN f = Fields
    /\ f = [x \in Fields |-> f[x]]
    /\ f.flags \in 0 .. 1
    /\ f.fops = "none" <=> f.flags = 0

TableOK(a) == a = [fd \in Fds |-> a[fd]] /\ \A fd \in Fds : FdOK(a[fd])

WhoOK == shown \in Terms /\ depth \in [Terms -> 0 .. DEPTH - 1]

FilesInv ==
    /\ WhoOK
    /\ file_array = [p \in Procs |-> file_array[p]]
    /\ \A p \in Procs : TableOK(file_array[p])
    /\ \A p \in Procs : p[2] <= depth[p[1]] =>
          \A fd \in Fds : fd < MIN_FD => file_array[p][fd] = Stdio
    /\ dr_index \in 0 .. dentry_count

(* A step that writes one descriptor of one process.                       *)
Writes(p, fd, f) ==
    /\ file_array' = [file_array EXCEPT ![p][fd] = f]
    /\ UNCHANGED <<shown, depth>>

-----------------------------------------------------------------------------
(* The current process is one of them.                                     *)
LEMMA CurrentProc == WhoOK => current \in Procs /\ current[1] = shown /\ current[2] = depth[shown]
  BY DEF WhoOK, current, Procs

(* Writing a good descriptor above standard input and output keeps the     *)
(* invariant and leaves the other tables.                                  *)
LEMMA WriteKeeps ==
    ASSUME FilesInv, NEW p \in Procs, NEW fd \in Fds, fd >= MIN_FD, NEW f, FdOK(f),
           Writes(p, fd, f), dr_index' \in 0 .. dentry_count
    PROVE  FilesInv' /\ \A q \in Procs : q # p => file_array'[q] = file_array[q]
  <1> USE DEF FilesInv, Writes
  <1>1. file_array' = [q \in Procs |->
            IF q = p THEN [file_array[p] EXCEPT ![fd] = f] ELSE file_array[q]]
    BY Zenon
  <1>2. \A q \in Procs : q # p => file_array'[q] = file_array[q]
    BY <1>1
  <1>3. file_array[p] = [g \in Fds |-> file_array[p][g]]
    BY DEF TableOK
  <1>4. file_array'[p] = [g \in Fds |-> IF g = fd THEN f ELSE file_array[p][g]]
    BY <1>1, <1>3, Zenon
  <1>5. TableOK(file_array'[p])
    BY <1>4 DEF TableOK
  <1>6. \A q \in Procs : TableOK(file_array'[q])
    BY <1>2, <1>5
  <1>7. \A g \in Fds : g < MIN_FD => file_array'[p][g] = file_array[p][g]
    BY <1>4, FilesAssumption DEF Fds
  <1>8. \A q \in Procs : q[2] <= depth'[q[1]] =>
          \A g \in Fds : g < MIN_FD => file_array'[q][g] = Stdio
    BY <1>2, <1>7
  <1>9. file_array' = [q \in Procs |-> file_array'[q]]
    BY <1>1, Zenon
  <1>10. WhoOK'
    BY DEF WhoOK
  <1> QED
    BY <1>2, <1>6, <1>8, <1>9, <1>10, Zenon

(* A new table is a good one.                                              *)
LEMMA NewIsGood == TableOK(NewFiles) /\ \A fd \in Fds : fd < MIN_FD => NewFiles[fd] = Stdio
  <1>1. FdOK(Stdio) /\ FdOK(Unused)
    BY DEF FdOK, Stdio, Unused, Fields
  <1> QED
    BY <1>1 DEF TableOK, NewFiles

(* A descriptor stays good when it is closed.                              *)
LEMMA ClosedGood ==
    ASSUME NEW f, FdOK(f)
    PROVE  FdOK(ClosedFd(f))
  <1> DEFINE h == ClosedFd(f)
  <1>1. f = [x \in Fields |-> f[x]]
    BY DEF FdOK
  <1>2. h = [x \in Fields |-> IF x = "flags" THEN 0 ELSE IF x = "pos" THEN 0
                               ELSE IF x = "fops" THEN "none" ELSE f[x]]
    BY <1>1, Zenon DEF ClosedFd, Fields
  <1> HIDE DEF h
  <1>3. FdOK(h)
    BY <1>2 DEF FdOK, Fields
  <1> QED
    BY <1>3 DEF h

(* A set of descriptors has a least one.                                   *)
LEMMA LeastFd ==
    ASSUME FreeFds # {}
    PROVE  \E f \in FreeFds : \A g \in FreeFds : f <= g
  <1>1. FreeFds \subseteq Nat
    BY FilesAssumption DEF FreeFds
  <1> QED
    BY <1>1, LeastOf

(* What a step of a process does to the tables of the others.              *)
OthersKept ==
    \A p \in Procs : p # current /\ p[2] <= depth[p[1]] => file_array'[p] = file_array[p]

(* open, close and the reads write one descriptor of the current process.  *)
LEMMA CallKeeps ==
    ASSUME FilesInv,
           \/ \E name \in Names : Open(name)
           \/ \E fd \in Fds : Close(fd) \/ ReadDir(fd) \/ \E n \in Counts : ReadFile(fd, n)
    PROVE  FilesInv' /\ OthersKept
  <1>0. /\ current \in Procs /\ current[1] = shown /\ current[2] = depth[shown] /\ WhoOK
        /\ dr_index \in 0 .. dentry_count
    BY CurrentProc DEF FilesInv
  <1>1. TableOK(files) /\ \A fd \in Fds : FdOK(files[fd])
    BY <1>0 DEF FilesInv, TableOK, files
  <1>2. \A fd \in Fds : fd < MIN_FD => files[fd] = Stdio
    BY <1>0, FilesAssumption DEF FilesInv, files, WhoOK
  <1>3. MIN_FD .. MAX_FD \subseteq Fds /\ \A fd \in MIN_FD .. MAX_FD : fd >= MIN_FD
    BY FilesAssumption DEF Fds
  <1>4. ASSUME NEW fd \in Fds, fd >= MIN_FD, NEW f, FdOK(f), Writes(current, fd, f),
               dr_index' = dr_index
        PROVE  FilesInv' /\ OthersKept
    BY <1>0, <1>4, WriteKeeps DEF OthersKept
  <1>5. ASSUME NEW name \in Names, Open(name) PROVE FilesInv' /\ OthersKept
    <2> DEFINE fd == CHOOSE f \in FreeFds : \A g \in FreeFds : f <= g
    <2>1. fd \in FreeFds
      <3>1. FreeFds # {}
        BY <1>5 DEF Open
      <3>2. \E f \in FreeFds : \A g \in FreeFds : f <= g
        BY <3>1, LeastFd
      <3> QED
        BY <3>2, Zenon
    <2>2. Writes(current, fd, Opened(dentries[name])) /\ dr_index' = dr_index
      BY <1>5 DEF Open, Writes
    <2>3. FdOK(Opened(dentries[name]))
      <3>1. dentries[name].type # "none"
        BY FilesAssumption DEF Types
      <3> QED
        BY <3>1 DEF FdOK, Opened, Fields
    <2> HIDE DEF fd
    <2>4. fd \in MIN_FD .. MAX_FD
      BY <2>1 DEF FreeFds
    <2> QED
      BY <1>3, <1>4, <2>2, <2>3, <2>4
  <1>6. ASSUME NEW fd \in Fds, Close(fd) PROVE FilesInv' /\ OthersKept
    <2>1. FdOK(files[fd]) /\ fd >= MIN_FD
      BY <1>1, <1>3, <1>6 DEF Close
    <2>2. FdOK(ClosedFd(files[fd]))
      BY <2>1, ClosedGood
    <2>3. Writes(current, fd, ClosedFd(files[fd])) /\ dr_index' = dr_index
      BY <1>6 DEF Close, Writes, files
    <2> QED
      BY <1>4, <2>1, <2>2, <2>3
  <1>7. ASSUME NEW fd \in Fds, NEW n \in Counts, ReadFile(fd, n) PROVE FilesInv' /\ OthersKept
    <2> DEFINE g == [files[fd] EXCEPT !.pos = @ + Len(read_data(files[fd].inode, files[fd].pos, n))]
    <2>1. fd >= MIN_FD
      BY <1>2, <1>7, FilesAssumption, SMTT(30) DEF ReadFile, Stdio, Fds
    <2>2. FdOK(g)
      BY <1>1, Zenon DEF FdOK, Fields
    <2>3. Writes(current, fd, g) /\ dr_index' = dr_index
      BY <1>7, Zenon DEF ReadFile, Writes, files
    <2> HIDE DEF g
    <2> QED
      BY <1>4, <2>1, <2>2, <2>3, Zenon
  <1>8. ASSUME NEW fd \in Fds, ReadDir(fd) PROVE FilesInv' /\ OthersKept
    <2>1. dr_index' \in 0 .. dentry_count
      BY <1>0, <1>8, FilesAssumption DEF ReadDir, Names
    <2>2. UNCHANGED <<shown, depth, file_array>>
      BY <1>8 DEF ReadDir
    <2> QED
      BY <2>1, <2>2 DEF FilesInv, WhoOK, OthersKept
  <1> QED
    BY <1>5, <1>6, <1>7, <1>8

(* A process gets a new table, and the terminal's depth comes to be its.   *)
LEMMA NewTableKeeps ==
    ASSUME FilesInv, NEW c \in Procs, c[1] = shown,
           file_array' = [file_array EXCEPT ![c] = NewFiles],
           depth' = [depth EXCEPT ![shown] = c[2]], shown' = shown, dr_index' = dr_index,
           depth[shown] <= c[2], \A p \in Procs : p[1] = shown /\ p[2] <= c[2] =>
                                     p = c \/ p[2] <= depth[shown]
    PROVE  FilesInv' /\ \A q \in Procs : q # c => file_array'[q] = file_array[q]
  <1> USE DEF FilesInv
  <1>1. file_array' = [q \in Procs |-> IF q = c THEN NewFiles ELSE file_array[q]]
    OBVIOUS
  <1>2. \A q \in Procs : TableOK(file_array'[q])
    BY <1>1, NewIsGood
  <1>3. c[2] \in 0 .. DEPTH - 1
    BY DEF Procs
  <1>4. WhoOK'
    BY <1>3 DEF WhoOK
  <1>5. \A q \in Procs : q[2] <= depth'[q[1]] => q = c \/ q[2] <= depth[q[1]]
    <2> TAKE q \in Procs
    <2>1. q[1] \in Terms
      BY DEF Procs
    <2>2. depth'[q[1]] = IF q[1] = shown THEN c[2] ELSE depth[q[1]]
      BY <2>1 DEF WhoOK
    <2> QED
      BY <2>2
  <1>6. \A q \in Procs : q[2] <= depth'[q[1]] =>
          \A fd \in Fds : fd < MIN_FD => file_array'[q][fd] = Stdio
    <2> TAKE q \in Procs
    <2>1. CASE q = c
      BY <1>1, <2>1, NewIsGood
    <2>2. CASE q # c
      BY <1>1, <1>5, <2>2
    <2> QED
      BY <2>1, <2>2
  <1>7. file_array' = [q \in Procs |-> file_array'[q]]
    BY <1>1
  <1> QED
    BY <1>1, <1>2, <1>4, <1>6, <1>7

(* execute and the restart of a shell.                                     *)
LEMMA ExecuteKeeps ==
    ASSUME FilesInv, Execute \/ Restart
    PROVE  FilesInv' /\ OthersKept
  <1>0. /\ current \in Procs /\ current[1] = shown /\ current[2] = depth[shown] /\ WhoOK
        /\ shown \in Terms /\ depth[shown] \in 0 .. DEPTH - 1 /\ DEPTH \in Nat
    BY CurrentProc, FilesAssumption DEF FilesInv, WhoOK
  <1>1. CASE Execute
    <2> DEFINE c == <<shown, depth[shown] + 1>>
    <2>1. c \in Procs /\ c[1] = shown /\ c[2] = depth[shown] + 1
      BY <1>0, <1>1 DEF Execute, Procs
    <2>2. /\ file_array' = [file_array EXCEPT ![c] = NewFiles]
          /\ depth' = [depth EXCEPT ![shown] = depth[shown] + 1]
          /\ shown' = shown /\ dr_index' = dr_index
      BY <1>1 DEF Execute
    <2>3. \A p \in Procs : p[1] = shown /\ p[2] <= depth[shown] + 1 =>
             p = c \/ p[2] <= depth[shown]
      BY <1>0 DEF Procs
    <2>4. c[2] > depth[c[1]]
      BY <1>0, <2>1
    <2> HIDE DEF c
    <2>5. depth[shown] <= c[2]
      BY <1>0, <2>1
    <2>6. FilesInv' /\ \A q \in Procs : q # c => file_array'[q] = file_array[q]
      BY <2>1, <2>2, <2>3, <2>5, NewTableKeeps, Zenon
    <2>7. ~(c[2] <= depth[c[1]])
      BY <1>0, <2>1
    <2> QED
      BY <2>6, <2>7 DEF OthersKept
  <1>2. CASE Restart
    <2>1. /\ file_array' = [file_array EXCEPT ![current] = NewFiles]
          /\ depth' = depth /\ shown' = shown /\ dr_index' = dr_index
      BY <1>2 DEF Restart
    <2>2. depth' = [depth EXCEPT ![shown] = current[2]]
      BY <1>0, <2>1 DEF WhoOK
    <2>3. depth[shown] <= current[2]
      BY <1>0
    <2>4. \A p \in Procs : p[1] = shown /\ p[2] <= current[2] =>
             p = current \/ p[2] <= depth[shown]
      BY <1>0
    <2>5. FilesInv' /\ \A q \in Procs : q # current => file_array'[q] = file_array[q]
      BY <1>0, <2>1, <2>2, <2>3, <2>4, NewTableKeeps, Zenon
    <2> QED
      BY <2>5 DEF OthersKept
  <1> QED
    BY <1>1, <1>2

(* halt; the parent's table is left alone if the child has no file open.   *)
LEMMA HaltKeeps ==
    ASSUME FilesInv, Halt
    PROVE  FilesInv' /\ (Tidy => OthersKept)
  <1> DEFINE c == current
             p == <<shown, depth[shown] - 1>>
             P(fd) == IF fd >= MIN_FD /\ file_array[c][fd].flags = 1 /\ file_array[p][fd].flags = 1
                      THEN ClosedFd(file_array[p][fd]) ELSE file_array[p][fd]
             C(fd) == [file_array[c][fd] EXCEPT !.fops = "none", !.flags = 0]
  <1>0. /\ c \in Procs /\ c[1] = shown /\ c[2] = depth[shown] /\ WhoOK
        /\ shown \in Terms /\ depth[shown] \in 0 .. DEPTH - 1 /\ DEPTH \in Nat
    BY CurrentProc, FilesAssumption DEF FilesInv, WhoOK
  <1>1. depth[shown] > 0 /\ depth' = [depth EXCEPT ![shown] = depth[shown] - 1]
        /\ shown' = shown /\ dr_index' = dr_index
    BY Zenon DEF Halt
  <1>2. p \in Procs /\ p # c /\ p[1] = shown /\ p[2] = depth[shown] - 1
    BY <1>0, <1>1 DEF Procs
  <1>3. file_array' = [file_array EXCEPT ![p] = [fd \in Fds |-> P(fd)], ![c] = [fd \in Fds |-> C(fd)]]
    BY <1>2, Zenon DEF Halt
  <1>4. \A fd \in Fds : FdOK(file_array[c][fd]) /\ FdOK(file_array[p][fd])
    BY <1>0, <1>2 DEF FilesInv, TableOK
  <1>5. \A fd \in Fds : FdOK(P(fd))
    BY <1>4, ClosedGood
  <1>6. ASSUME NEW fd \in Fds PROVE FdOK(C(fd))
    <2> DEFINE f == file_array[c][fd]
    <2>1. f = [x \in Fields |-> f[x]]
      BY <1>4, Zenon DEF FdOK
    <2> HIDE DEF f
    <2> DEFINE g == [f EXCEPT !.fops = "none", !.flags = 0]
    <2>2. g = [x \in Fields |-> IF x = "flags" THEN 0 ELSE IF x = "fops" THEN "none" ELSE f[x]]
      BY <2>1, Zenon DEF Fields
    <2> HIDE DEF g
    <2>3. g.flags = 0 /\ g.fops = "none" /\ DOMAIN g = Fields
      BY <2>2 DEF Fields
    <2>4. g = [x \in Fields |-> g[x]]
      BY <2>2
    <2>5. FdOK(g)
      BY <2>3, <2>4 DEF FdOK
    <2> QED
      BY <2>5 DEF f, g
  <1>7. Tidy => \A fd \in Fds : P(fd) = file_array[p][fd]
    <2> SUFFICES ASSUME Tidy, NEW fd \in Fds PROVE P(fd) = file_array[p][fd]
      OBVIOUS
    <2>1. \A i \in MIN_FD .. MAX_FD : file_array[c][i].flags = 0
      BY Zenon DEF Halt, HaltOK, files
    <2>2. fd >= MIN_FD => fd \in MIN_FD .. MAX_FD
      BY FilesAssumption DEF Fds
    <2>3. fd >= MIN_FD => file_array[c][fd].flags # 1
      BY <2>1, <2>2
    <2> QED
      BY <2>3
  <1>8. \A fd \in Fds : fd < MIN_FD => P(fd) = file_array[p][fd]
    BY FilesAssumption DEF Fds
  <1> HIDE DEF P, C, c, p
  <1>9. file_array' = [q \in Procs |-> IF q = c THEN [fd \in Fds |-> C(fd)]
                          ELSE IF q = p THEN [fd \in Fds |-> P(fd)] ELSE file_array[q]]
    BY <1>2, <1>3 DEF FilesInv
  <1>10. \A q \in Procs : TableOK(file_array'[q])
    BY <1>5, <1>6, <1>9 DEF TableOK, FilesInv
  <1>11. WhoOK'
    BY <1>0, <1>1 DEF WhoOK
  <1>12. \A q \in Procs : q[2] <= depth'[q[1]] => q # c /\ q[2] <= depth[q[1]]
    <2> TAKE q \in Procs
    <2>1. q[1] \in Terms /\ q[2] \in Nat
      BY <1>0 DEF Procs
    <2>2. depth'[q[1]] = IF q[1] = shown THEN depth[shown] - 1 ELSE depth[q[1]]
      BY <1>1, <2>1 DEF WhoOK, FilesInv
    <2> QED
      BY <1>0, <2>1, <2>2 DEF WhoOK
  <1>13. \A q \in Procs : q[2] <= depth'[q[1]] =>
          \A fd \in Fds : fd < MIN_FD => file_array'[q][fd] = Stdio
    <2> TAKE q \in Procs
    <2> HAVE q[2] <= depth'[q[1]]
    <2>1. q # c /\ \A fd \in Fds : fd < MIN_FD => file_array[q][fd] = Stdio
      BY <1>12 DEF FilesInv
    <2>2. CASE q = p
      BY <1>8, <1>9, <2>1, <2>2
    <2>3. CASE q # p
      BY <1>9, <2>1, <2>3
    <2> QED
      BY <2>2, <2>3
  <1>14. file_array' = [q \in Procs |-> file_array'[q]]
    BY <1>9
  <1>15. Tidy => OthersKept
    <2> SUFFICES ASSUME Tidy, NEW q \in Procs, q # c PROVE file_array'[q] = file_array[q]
      BY DEF OthersKept, c
    <2>1. CASE q = p
      <3>1. file_array[p] = [fd \in Fds |-> file_array[p][fd]]
        BY <1>2 DEF FilesInv, TableOK
      <3>2. [fd \in Fds |-> P(fd)] = [fd \in Fds |-> file_array[p][fd]]
        BY <1>7
      <3> QED
        BY <1>9, <2>1, <3>1, <3>2
    <2>2. CASE q # p
      BY <1>9, <2>2
    <2> QED
      BY <2>1, <2>2
  <1> QED
    BY <1>1, <1>10, <1>11, <1>13, <1>14, <1>15 DEF FilesInv

-----------------------------------------------------------------------------
(* Every step keeps the tables good, and, if the programs close their      *)
(* files before they halt, every table but the caller's as it was.         *)
LEMMA StepKeeps ==
    ASSUME FilesInv, [Next]_vars
    PROVE  FilesInv' /\ (Tidy => [OthersKept]_vars)
  <1>1. CASE \/ \E name \in Names : Open(name)
             \/ \E fd \in Fds : Close(fd) \/ ReadDir(fd) \/ \E n \in Counts : ReadFile(fd, n)
    BY <1>1, CallKeeps
  <1>2. CASE Execute \/ Restart
    BY <1>2, ExecuteKeeps
  <1>3. CASE Halt
    BY <1>3, HaltKeeps
  <1>4. CASE \E t \in Terms : Switch(t)
    <2>1. shown' \in Terms /\ UNCHANGED <<depth, file_array, dr_index>>
      BY <1>4 DEF Switch
    <2> QED
      BY <2>1 DEF FilesInv, WhoOK, OthersKept
  <1>5. CASE UNCHANGED vars
    BY <1>5 DEF vars, FilesInv, WhoOK
  <1> QED
    BY <1>1, <1>2, <1>3, <1>4, <1>5 DEF Next

(* The tables of the first shells are good.                                *)
LEMMA InitGood == Init => FilesInv
  <1> SUFFICES ASSUME Init PROVE FilesInv
    OBVIOUS
  <1>1. shown \in Terms /\ depth \in [Terms -> 0 .. DEPTH - 1]
    BY FilesAssumption DEF Init, Terms
  <1>2. file_array = [p \in Procs |-> NewFiles]
    BY DEF Init
  <1>3. \A p \in Procs : file_array[p] = NewFiles
    BY <1>2
  <1>4. dr_index \in 0 .. dentry_count
    BY FilesAssumption DEF Init
  <1> QED
    BY <1>1, <1>2, <1>3, <1>4, NewIsGood DEF FilesInv, WhoOK

(* So they are good at every moment.                                       *)
LEMMA FilesAlways == Spec => []FilesInv
  BY InitGood, StepKeeps, PTL DEF Spec

(* With any number of terminals, programs, descriptors and directory       *)
(* entries, whether or not programs close their files: a descriptor is in  *)
(* use exactly when it has operations, and no call, execute or halt takes  *)
(* standard input or output from a live process.                           *)
THEOREM FilesTyped == Spec => []TypeOK
  <1>1. FilesInv => TypeOK
    BY Zenon DEF FilesInv, WhoOK, TableOK, FdOK, TypeOK
  <1> QED
    BY <1>1, FilesAlways, PTL

(* If programs close their files before they halt, no call of a process    *)
(* changes a descriptor of another live one.                               *)
THEOREM FilesStayPrivate == ASSUME Tidy PROVE Spec => FilesPrivate
  <1>1. FilesInv /\ [Next]_vars => [OthersKept]_vars
    BY StepKeeps
  <1>2. FilesInv /\ [Next]_vars =>
          [\A p \in Procs : p # current /\ p[2] <= depth[p[1]]
             => file_array'[p] = file_array[p]]_vars
    BY <1>1 DEF OthersKept
  <1> QED
    BY <1>2, FilesAlways, PTL DEF Spec, FilesPrivate

-----------------------------------------------------------------------------
(* The inodes of regular files.                                            *)
FileInodes ==
    {dentries[d].inode_index : d \in {e \in Names : dentries[e].type = "file"}}

(* The first n bytes of a file.                                            *)
UpTo(i, n) == [k \in 1 .. n |-> ByteAt(inodes[i], k - 1)]

(* What has been read through a descriptor is the file up to its position. *)
ReadOK(f, b) ==
    f.fops = "file" =>
        /\ f.inode \in FileInodes
        /\ f.pos \in Nat /\ f.pos <= inodes[f.inode].length
        /\ b = UpTo(f.inode, f.pos)

ReadsInv ==
    /\ bytes = [p \in Procs |-> bytes[p]]
    /\ \A p \in Procs : bytes[p] = [fd \in Fds |-> bytes[p][fd]]
    /\ \A p \in Procs : \A fd \in Fds : ReadOK(file_array[p][fd], bytes[p][fd])

(* The inodes of regular files are sound.                                  *)
LEMMA FileInodeSound ==
    ASSUME NEW i \in FileInodes
    PROVE  /\ inodes[i].length \in Nat /\ Len(inodes[i].data_indices) \in Nat
           /\ inodes[i].length <= Len(inodes[i].data_indices) * BLOCK_SIZE
  <1>1. PICK d \in Names : dentries[d].type = "file" /\ dentries[d].inode_index = i
    BY DEF FileInodes
  <1> QED
    BY <1>1, FilesAssumption, Zenon

(* The block and the place read_data takes a byte from are those of the    *)
(* byte in the file: what read_data computes by division is what laying    *)
(* the blocks end to end gives.                                            *)
LEMMA ByteIs ==
    ASSUME NEW i \in FileInodes, NEW k \in Nat, k < inodes[i].length
    PROVE  Contents(inodes[i])[k + 1] = ByteAt(inodes[i], k)
  <1> DEFINE n == Len(inodes[i].data_indices)
             B == BLOCK_SIZE
             q == k \div B
             r == k % B
             Block(c) == (c - 1) * B < k + 1 /\ k + 1 <= c * B
  <1>0. B \in Nat \ {0} /\ n \in Nat /\ inodes[i].length \in Nat /\ inodes[i].length <= n * B
    BY FileInodeSound, FilesAssumption
  <1>1. q \in Nat /\ r \in 0 .. B - 1 /\ k = q * B + r
    BY <1>0
  <1> HIDE DEF n, B, q, r
  <1>2. k + 1 <= n * B
    <2>1. n * B \in Nat
      BY <1>0
    <2> QED
      BY <1>0, <2>1
  <1>3. \A a, b \in Nat : a <= b => a * B <= b * B
    BY <1>0
  <1>4. q + 1 \in 1 .. n /\ Block(q + 1) /\ q * B < k + 1
    <2>1. (q + 1) * B = q * B + B /\ q * B \in Nat
      BY <1>0, <1>1
    <2>2. \A x \in Nat : k = x + r => x < k + 1 /\ k + 1 <= x + B
      BY <1>0, <1>1
    <2>3. q * B < k + 1 /\ k + 1 <= (q + 1) * B
      BY <1>1, <2>1, <2>2
    <2>4. ~(n <= q)
      <3> SUFFICES ASSUME n <= q PROVE FALSE
        OBVIOUS
      <3>1. n * B <= q * B
        BY <1>0, <1>1, <1>3
      <3>2. n * B \in Nat
        BY <1>0
      <3> QED
        BY <1>2, <2>1, <2>3, <3>1, <3>2
    <2> QED
      BY <1>0, <1>1, <2>3, <2>4
  <1>5. ASSUME NEW c \in 1 .. n, Block(c) PROVE c = q + 1
    <2>0. c \in Nat /\ c - 1 \in Nat /\ c * B \in Nat /\ (c - 1) * B \in Nat
          /\ q * B \in Nat /\ (q + 1) * B \in Nat
      BY <1>0, <1>1
    <2>1. ~(c <= q)
      <3> SUFFICES ASSUME c <= q PROVE FALSE
        OBVIOUS
      <3>1. c * B <= q * B
        BY <1>1, <1>3, <2>0
      <3>2. q * B < k + 1
        BY <1>4
      <3> QED
        BY <1>5, <2>0, <3>1, <3>2
    <2>2. ~(q + 1 <= c - 1)
      <3> SUFFICES ASSUME q + 1 <= c - 1 PROVE FALSE
        OBVIOUS
      <3>1. (q + 1) * B <= (c - 1) * B
        BY <1>1, <1>3, <2>0
      <3> QED
        BY <1>4, <1>5, <2>0, <3>1
    <2> QED
      BY <1>1, <2>0, <2>1, <2>2
  <1>7. (k + 1) - ((q + 1) - 1) * B = r + 1
    <2>1. \A x \in Nat : k = x + r => (k + 1) - x = r + 1
      BY <1>1
    <2>2. q * B \in Nat /\ (q + 1) - 1 = q
      BY <1>0, <1>1
    <2> QED
      BY <1>1, <2>1, <2>2
  <1>6. BlockOf(n, k + 1) = q + 1
    <2>1. BlockOf(n, k + 1) \in 1 .. n /\ Block(BlockOf(n, k + 1))
      BY <1>4 DEF BlockOf, B
    <2> QED
      BY <1>5, <2>1
  <1>8. Contents(inodes[i])[k + 1] =
          data_blocks[inodes[i].data_indices[q + 1]][(k + 1) - ((q + 1) - 1) * B]
    BY <1>0, <1>6 DEF Contents, n, B
  <1> QED
    BY <1>7, <1>8 DEF ByteAt, q, r, B

(* A read takes up where the last one stopped.                             *)
LEMMA ReadContinues ==
    ASSUME NEW i \in FileInodes, NEW pos \in Nat, pos <= inodes[i].length, NEW n \in Nat,
           NEW b, b = UpTo(i, pos)
    PROVE  LET data == read_data(i, pos, n)
           IN  /\ Len(data) \in Nat /\ pos + Len(data) <= inodes[i].length
               /\ b \o data = UpTo(i, pos + Len(data))
  <1> USE DEF UpTo
  <1> DEFINE len == inodes[i].length
             left == IF pos < len THEN len - pos ELSE 0
             m == IF n < left THEN n ELSE left
             data == [k \in 1 .. m |-> ByteAt(inodes[i], pos + k - 1)]
             whole == [k \in 1 .. pos + m |-> ByteAt(inodes[i], k - 1)]
  <1>0. len \in Nat
    BY FileInodeSound
  <1>1. m \in Nat /\ pos + m <= len
    BY <1>0
  <1>2. read_data(i, pos, n) = data
    BY DEF read_data
  <1> HIDE DEF m
  <1> DEFINE S == {ByteAt(inodes[i], k) : k \in Nat}
  <1>3. \A k \in Nat : ByteAt(inodes[i], k) \in S
    OBVIOUS
  <1> HIDE DEF S
  <1>4. b \in Seq(S) /\ Len(b) = pos
    <2>1. \A k \in 1 .. pos : k - 1 \in Nat
      OBVIOUS
    <2> QED
      BY <1>3, <2>1
  <1>5. data \in Seq(S) /\ Len(data) = m
    <2>1. \A k \in 1 .. m : pos + k - 1 \in Nat
      BY <1>1
    <2> QED
      BY <1>1, <1>3, <2>1
  <1>6. whole \in Seq(S) /\ Len(whole) = pos + m
    <2>1. \A k \in 1 .. pos + m : k - 1 \in Nat
      BY <1>1
    <2> QED
      BY <1>1, <1>3, <2>1
  <1>7. b \o data \in Seq(S) /\ Len(b \o data) = pos + m
    <2>1. ASSUME NEW s \in Seq(S), NEW t \in Seq(S)
          PROVE  s \o t \in Seq(S) /\ Len(s \o t) = Len(s) + Len(t)
      OBVIOUS
    <2> HIDE DEF data
    <2> QED
      BY <1>4, <1>5, <2>1, Zenon
  <1>8. ASSUME NEW k \in 1 .. pos + m PROVE (b \o data)[k] = whole[k]
    <2>1. CASE k <= pos
      <3>1. (b \o data)[k] = b[k] /\ k \in 1 .. pos
        BY <1>1, <1>4, <1>5, <2>1
      <3> QED
        BY <3>1
    <2>2. CASE k > pos
      <3>1. (b \o data)[k] = data[k - pos] /\ k - pos \in 1 .. m /\ pos + (k - pos) - 1 = k - 1
        BY <1>1, <1>4, <1>5, <2>2
      <3> QED
        BY <3>1, Zenon
    <2> QED
      BY <1>1, <2>1, <2>2
  <1>9. b \o data = whole
    <2> HIDE DEF data, whole
    <2> QED
      BY <1>6, <1>7, <1>8
  <1> HIDE DEF data
  <1> QED
    BY <1>1, <1>2, <1>5, <1>9, Zenon

(* Writing one descriptor and its history keeps what has been read.        *)
LEMMA ReadsWrite ==
    ASSUME FilesInv, ReadsInv, NEW p \in Procs, NEW fd \in Fds, NEW f, NEW b, ReadOK(f, b),
           file_array' = [file_array EXCEPT ![p][fd] = f],
           bytes' = [bytes EXCEPT ![p][fd] = b]
    PROVE  ReadsInv'
  <1>1. /\ file_array[p] = [g \in Fds |-> file_array[p][g]]
        /\ bytes[p] = [g \in Fds |-> bytes[p][g]]
    BY DEF FilesInv, TableOK, ReadsInv
  <1>2. /\ file_array' = [q \in Procs |->
               IF q = p THEN [g \in Fds |-> IF g = fd THEN f ELSE file_array[p][g]]
               ELSE file_array[q]]
        /\ bytes' = [q \in Procs |->
               IF q = p THEN [g \in Fds |-> IF g = fd THEN b ELSE bytes[p][g]] ELSE bytes[q]]
    BY <1>1, Zenon DEF FilesInv, ReadsInv
  <1>3. \A q \in Procs : \A g \in Fds :
          /\ file_array'[q][g] = IF q = p /\ g = fd THEN f ELSE file_array[q][g]
          /\ bytes'[q][g] = IF q = p /\ g = fd THEN b ELSE bytes[q][g]
    BY <1>2
  <1>4. \A q \in Procs : \A g \in Fds : ReadOK(file_array'[q][g], bytes'[q][g])
    BY <1>3 DEF ReadsInv
  <1>5. bytes' = [q \in Procs |-> bytes'[q]]
    BY <1>2, Zenon
  <1>6. \A q \in Procs : bytes'[q] = [g \in Fds |-> bytes'[q][g]]
    BY <1>2, Zenon DEF ReadsInv
  <1> QED
    BY <1>4, <1>5, <1>6, Zenon DEF ReadsInv

(* So does a new table.                                                    *)
LEMMA ReadsNew ==
    ASSUME FilesInv, ReadsInv, NEW p \in Procs,
           file_array' = [file_array EXCEPT ![p] = NewFiles],
           bytes' = [bytes EXCEPT ![p] = NoBytes]
    PROVE  ReadsInv'
  <1>1. \A fd \in Fds : ReadOK(NewFiles[fd], NoBytes[fd])
    BY DEF ReadOK, NewFiles, Stdio, Unused
  <1>2. /\ file_array' = [q \in Procs |-> IF q = p THEN NewFiles ELSE file_array[q]]
        /\ bytes' = [q \in Procs |-> IF q = p THEN NoBytes ELSE bytes[q]]
    BY Zenon DEF FilesInv, ReadsInv
  <1>3. NoBytes = [fd \in Fds |-> NoBytes[fd]]
    BY DEF NoBytes
  <1> QED
    BY <1>1, <1>2, <1>3 DEF ReadsInv

(* And halt, which only closes.                                            *)
LEMMA ReadsHalt ==
    ASSUME FilesInv, ReadsInv, Halt
    PROVE  ReadsInv'
  <1> DEFINE c == current
             p == <<shown, depth[shown] - 1>>
             P(fd) == IF fd >= MIN_FD /\ file_array[c][fd].flags = 1 /\ file_array[p][fd].flags = 1
                      THEN ClosedFd(file_array[p][fd]) ELSE file_array[p][fd]
             C(fd) == [file_array[c][fd] EXCEPT !.fops = "none", !.flags = 0]
  <1>0. /\ c \in Procs /\ c[1] = shown /\ c[2] = depth[shown]
        /\ shown \in Terms /\ depth[shown] \in 0 .. DEPTH - 1 /\ DEPTH \in Nat
    BY CurrentProc, FilesAssumption DEF FilesInv, WhoOK
  <1>1. c \in Procs /\ p \in Procs /\ p # c
    <2>1. depth[shown] > 0
      BY Zenon DEF Halt
    <2> QED
      BY <1>0, <2>1 DEF Procs
  <1>2. file_array' = [file_array EXCEPT ![p] = [fd \in Fds |-> P(fd)], ![c] = [fd \in Fds |-> C(fd)]]
    BY <1>1, Zenon DEF Halt
  <1>3. ASSUME NEW fd \in Fds PROVE C(fd).fops = "none" /\ (P(fd) = file_array[p][fd] \/ P(fd).fops = "none")
    <2>1. ASSUME NEW f, FdOK(f)
          PROVE  ClosedFd(f).fops = "none" /\ [f EXCEPT !.fops = "none", !.flags = 0].fops = "none"
      BY <2>1 DEF FdOK, ClosedFd, Fields
    <2>2. FdOK(file_array[c][fd]) /\ FdOK(file_array[p][fd])
      BY <1>1 DEF FilesInv, TableOK
    <2> QED
      BY <2>1, <2>2
  <1> HIDE DEF P, C, c, p
  <1>4. file_array' = [q \in Procs |-> IF q = c THEN [fd \in Fds |-> C(fd)]
                          ELSE IF q = p THEN [fd \in Fds |-> P(fd)] ELSE file_array[q]]
    BY <1>1, <1>2 DEF FilesInv
  <1>5. bytes' = bytes
    BY Zenon DEF Halt
  <1>6. \A q \in Procs : \A fd \in Fds :
          file_array'[q][fd] = file_array[q][fd] \/ file_array'[q][fd].fops = "none"
    BY <1>3, <1>4
  <1> QED
    BY <1>5, <1>6 DEF ReadsInv, ReadOK

(* Every step keeps what has been read in order.                           *)
LEMMA ReadsStep ==
    ASSUME FilesInv, ReadsInv, [Next]_vars
    PROVE  ReadsInv'
  <1>0. current \in Procs /\ WhoOK
    BY CurrentProc DEF FilesInv
  <1>1. ASSUME UNCHANGED <<file_array, bytes>> PROVE ReadsInv'
    BY <1>1 DEF ReadsInv
  <1>2. ASSUME NEW name \in Names, Open(name) PROVE ReadsInv'
    <2> DEFINE fd == CHOOSE f \in FreeFds : \A g \in FreeFds : f <= g
    <2>1. fd \in FreeFds
      <3>1. FreeFds # {}
        BY <1>2 DEF Open
      <3>2. \E f \in FreeFds : \A g \in FreeFds : f <= g
        BY <3>1, LeastFd
      <3> QED
        BY <3>2, Zenon
    <2>2. /\ file_array' = [file_array EXCEPT ![current][fd] = Opened(dentries[name])]
          /\ bytes' = [bytes EXCEPT ![current][fd] = <<>>]
      BY <1>2 DEF Open, Forget
    <2> HIDE DEF fd
    <2>3. fd \in Fds
      BY <2>1, FilesAssumption DEF FreeFds, Fds
    <2>4. ReadOK(Opened(dentries[name]), <<>>)
      <3> DEFINE d == dentries[name]
      <3> SUFFICES ASSUME d.type = "file" PROVE ReadOK(Opened(d), <<>>)
        BY DEF ReadOK, Opened
      <3>1. d.inode_index \in FileInodes
        BY DEF FileInodes
      <3>2. inodes[d.inode_index].length \in Nat
        BY <3>1, FileInodeSound
      <3>3. <<>> = UpTo(d.inode_index, 0)
        BY DEF UpTo
      <3>4. Opened(d).inode = d.inode_index /\ Opened(d).pos = 0
        BY DEF Opened
      <3> HIDE DEF d
      <3> QED
        BY <3>1, <3>2, <3>3, <3>4 DEF ReadOK
    <2> QED
      BY <1>0, <2>2, <2>3, <2>4, ReadsWrite, Zenon
  <1>3. ASSUME NEW fd \in Fds, Close(fd) PROVE ReadsInv'
    <2>1. FdOK(files[fd])
      BY <1>0 DEF FilesInv, TableOK, files
    <2>2. ReadOK(ClosedFd(files[fd]), <<>>)
      BY <2>1 DEF ReadOK, ClosedFd, FdOK, Fields
    <2>3. /\ file_array' = [file_array EXCEPT ![current][fd] = ClosedFd(files[fd])]
          /\ bytes' = [bytes EXCEPT ![current][fd] = <<>>]
      BY <1>3 DEF Close, Forget, files
    <2> QED
      BY <1>0, <2>2, <2>3, ReadsWrite, Zenon
  <1>4. ASSUME NEW fd \in Fds, NEW n \in Counts, ReadFile(fd, n) PROVE ReadsInv'
    <2> DEFINE f == files[fd]
               b == bytes[current][fd]
               data == read_data(f.inode, f.pos, n)
               g == [f EXCEPT !.pos = f.pos + Len(data)]
    <2>1. /\ file_array' = [file_array EXCEPT ![current][fd] = g]
          /\ bytes' = [bytes EXCEPT ![current][fd] = b \o data]
      BY <1>4 DEF ReadFile, files
    <2>2. f.fops = "file" /\ FdOK(f) /\ ReadOK(f, b)
      BY <1>0, <1>4 DEF ReadFile, FilesInv, ReadsInv, TableOK, files
    <2>3. n \in Nat
      BY FilesAssumption, Zenon
    <2> HIDE DEF f, b
    <2>4. /\ Len(data) \in Nat /\ f.pos + Len(data) <= inodes[f.inode].length
          /\ b \o data = UpTo(f.inode, f.pos + Len(data))
      BY <2>2, <2>3, ReadContinues, Zenon DEF ReadOK
    <2> HIDE DEF data
    <2>5. g.fops = f.fops /\ g.inode = f.inode /\ g.pos = f.pos + Len(data)
      <3>1. f = [x \in Fields |-> f[x]]
        BY <2>2 DEF FdOK
      <3>2. g = [x \in Fields |-> IF x = "pos" THEN f.pos + Len(data) ELSE f[x]]
        BY <3>1 DEF Fields
      <3> HIDE DEF g
      <3> QED
        BY <3>2 DEF Fields
    <2> HIDE DEF g
    <2>6. ReadOK(g, b \o data)
      BY <2>2, <2>4, <2>5 DEF ReadOK
    <2> QED
      BY <1>0, <2>1, <2>6, ReadsWrite, Zenon
  <1>5. CASE (\E fd \in Fds : ReadDir(fd)) \/ (\E t \in Terms : Switch(t)) \/ UNCHANGED vars
    BY <1>1, <1>5 DEF ReadDir, Switch, vars
  <1>6. CASE Execute
    <2>1. <<shown, depth[shown] + 1>> \in Procs
      BY <1>0, <1>6, FilesAssumption DEF Execute, Procs, WhoOK
    <2> QED
      BY <1>6, <2>1, ReadsNew, Zenon DEF Execute
  <1>7. CASE Restart
    BY <1>0, <1>7, ReadsNew, Zenon DEF Restart
  <1> QED
    BY <1>2, <1>3, <1>4, <1>5, <1>6, <1>7, ReadsHalt DEF Next

(* For every image whose inodes have enough blocks, and any number of      *)
(* terminals, programs and descriptors: what a process has read through a  *)
(* descriptor is the beginning of its file, whether or not programs close  *)
(* their files.                                                            *)
THEOREM ReadsStayInOrder == Spec => []ReadsInOrder
  <1>1. Init => ReadsInv
    <2> SUFFICES ASSUME Init PROVE ReadsInv
      OBVIOUS
    <2>1. bytes = [p \in Procs |-> NoBytes] /\ file_array = [p \in Procs |-> NewFiles]
      BY DEF Init
    <2>2. \A fd \in Fds : ReadOK(NewFiles[fd], NoBytes[fd])
      BY DEF ReadOK, NewFiles, Stdio, Unused
    <2>3. NoBytes = [fd \in Fds |-> NoBytes[fd]]
      BY DEF NoBytes
    <2> QED
      BY <2>1, <2>2, <2>3 DEF ReadsInv
  <1>2. ReadsInv => ReadsInOrder
    <2> SUFFICES ASSUME ReadsInv, NEW p \in Procs, NEW fd \in MIN_FD .. MAX_FD,
                        file_array[p][fd].fops = "file"
                 PROVE  LET c == Contents(inodes[file_array[p][fd].inode])
                            b == bytes[p][fd]
                        IN  Len(b) <= Len(c) /\ b = SubSeq(c, 1, Len(b))
      BY DEF ReadsInOrder
    <2> DEFINE i == file_array[p][fd].inode
               pos == file_array[p][fd].pos
               b == bytes[p][fd]
               c == Contents(inodes[i])
    <2>1. fd \in Fds
      BY FilesAssumption DEF Fds
    <2>2. /\ i \in FileInodes /\ pos \in Nat /\ pos <= inodes[i].length
          /\ b = [k \in 1 .. pos |-> ByteAt(inodes[i], k - 1)]
      BY <2>1 DEF ReadsInv, ReadOK, UpTo
    <2> HIDE DEF i, pos, b
    <2>3. inodes[i].length \in Nat
      BY <2>2, FileInodeSound
    <2>4. \A k \in 1 .. pos : b[k] = c[k]
      <3> TAKE k \in 1 .. pos
      <3>1. k - 1 \in Nat /\ k - 1 < inodes[i].length /\ (k - 1) + 1 = k
        BY <2>2, <2>3
      <3>2. Contents(inodes[i])[(k - 1) + 1] = ByteAt(inodes[i], k - 1)
        BY <2>2, <3>1, ByteIs
      <3> QED
        BY <2>2, <3>1, <3>2
    <2> DEFINE S == {c[k] : k \in 1 .. inodes[i].length}
    <2>5. c \in Seq(S) /\ Len(c) = inodes[i].length
      <3>1. c = [k \in 1 .. inodes[i].length |-> c[k]]
        BY DEF Contents
      <3>2. \A k \in 1 .. inodes[i].length : c[k] \in S
        OBVIOUS
      <3> HIDE DEF c, S
      <3>3. c \in [1 .. inodes[i].length -> S]
        BY <3>1, <3>2
      <3> QED
        BY <2>3, <3>3
    <2> HIDE DEF c, S
    <2>6. b = [k \in 1 .. pos |-> c[k]]
      BY <2>2, <2>4
    <2>7. Len(b) = pos
      BY <2>2
    <2>8. SubSeq(c, 1, pos) = [k \in 1 .. pos |-> c[k]]
      BY <2>2, <2>3, <2>5
    <2>9. Len(b) <= Len(c) /\ b = SubSeq(c, 1, Len(b))
      BY <2>2, <2>5, <2>6, <2>7, <2>8
    <2> QED
      BY <2>9 DEF b, c, i
  <1>3. FilesInv /\ ReadsInv /\ [Next]_vars => ReadsInv'
    BY ReadsStep
  <1> QED
    BY <1>1, <1>2, <1>3, FilesAlways, PTL DEF Spec

-----------------------------------------------------------------------------
(* The words of a command line.                                            *)

(* What a word is.                                                         *)
LEMMA SpanIs ==
    ASSUME NEW s, Len(s) \in Nat, NEW w \in WordSpans(s)
    PROVE  /\ w = <<w[1], w[2]>> /\ w[1] \in 1 .. Len(s) /\ w[2] \in 1 .. Len(s)
           /\ w[1] <= w[2] /\ \A k \in w[1] .. w[2] : s[k] # Space
           /\ w[1] = 1 \/ s[w[1] - 1] = Space
           /\ w[2] = Len(s) \/ s[w[2] + 1] = Space
  BY DEF WordSpans

(* Two words do not meet.                                                  *)
LEMMA SpansApart ==
    ASSUME NEW s, Len(s) \in Nat, NEW v \in WordSpans(s), NEW w \in WordSpans(s), v # w
    PROVE  v[2] < w[1] \/ w[2] < v[1]
  <1>1. ASSUME NEW x \in WordSpans(s), NEW y \in WordSpans(s), x[1] < y[1], y[1] <= x[2]
        PROVE  FALSE
    <2>1. y[1] - 1 \in x[1] .. x[2] /\ y[1] # 1
      BY <1>1, SpanIs
    <2> QED
      BY <1>1, <2>1, SpanIs, Zenon
  <1>2. ASSUME NEW x \in WordSpans(s), NEW y \in WordSpans(s), x[1] = y[1], x[2] < y[2]
        PROVE  FALSE
    <2>1. x[2] + 1 \in y[1] .. y[2] /\ x[2] # Len(s)
      BY <1>2, SpanIs
    <2> QED
      BY <1>2, <2>1, SpanIs
  <1>3. /\ v = <<v[1], v[2]>> /\ w = <<w[1], w[2]>>
        /\ v[1] \in Nat /\ v[2] \in Nat /\ w[1] \in Nat /\ w[2] \in Nat
    BY SpanIs
  <1>4. v[1] # w[1] \/ v[2] # w[2]
    BY <1>3
  <1> QED
    BY <1>1, <1>2, <1>3, <1>4

(* A line has finitely many words.                                         *)
LEMMA SpansFinite ==
    ASSUME NEW s, Len(s) \in Nat
    PROVE  /\ IsFiniteSet(WordSpans(s))
           /\ \A A \in SUBSET WordSpans(s) : IsFiniteSet(A) /\ Cardinality(A) \in Nat
  <1>1. IsFiniteSet(1 .. Len(s))
    BY FS_Interval
  <1>2. IsFiniteSet((1 .. Len(s)) \X (1 .. Len(s)))
    BY <1>1, FS_Product
  <1>3. WordSpans(s) \subseteq (1 .. Len(s)) \X (1 .. Len(s))
    BY DEF WordSpans
  <1>4. IsFiniteSet(WordSpans(s))
    BY <1>2, <1>3, FS_Subset
  <1> QED
    BY <1>4, FS_Subset, FS_CardinalityType

(* Every character that is not a space is in a word.                       *)
LEMMA WordThrough ==
    ASSUME NEW s, Len(s) \in Nat, NEW i \in 1 .. Len(s), s[i] # Space
    PROVE  \E w \in WordSpans(s) : w[1] <= i /\ i <= w[2]
  <1> DEFINE B == {p \in 1 .. i : \A k \in p .. i : s[k] # Space}
             E == {q \in i .. Len(s) : q = Len(s) \/ s[q + 1] = Space}
  <1>1. B \in SUBSET Nat /\ i \in B /\ E \in SUBSET Nat /\ Len(s) \in E
    OBVIOUS
  <1>2. PICK p \in B : \A j \in B : p <= j
    <2> HIDE DEF B
    <2> QED
      BY <1>1, LeastOf
  <1>3. PICK q \in E : \A j \in E : q <= j
    <2> HIDE DEF E
    <2> QED
      BY <1>1, LeastOf
  <1>4. p = 1 \/ s[p - 1] = Space
    <2> SUFFICES ASSUME p # 1, s[p - 1] # Space PROVE FALSE
      OBVIOUS
    <2>1. p - 1 \in B
      BY <1>2
    <2> QED
      BY <1>2, <2>1
  <1>5. \A k \in i .. q : s[k] # Space
    <2> SUFFICES ASSUME NEW k \in i .. q, s[k] = Space PROVE FALSE
      OBVIOUS
    <2>1. k # i /\ k \in Nat /\ i \in Nat /\ q \in i .. Len(s)
      BY <1>3
    <2>2. k - 1 \in i .. Len(s) /\ (k - 1) + 1 = k /\ k - 1 < q
      BY <2>1
    <2>3. k - 1 \in E
      BY <2>2
    <2>4. q <= k - 1
      BY <1>3, <2>3, Zenon
    <2> QED
      BY <2>1, <2>2, <2>4
  <1>6. \A k \in p .. q : s[k] # Space
    BY <1>2, <1>3, <1>5
  <1>7. <<p, q>> \in WordSpans(s)
    BY <1>2, <1>3, <1>4, <1>6 DEF WordSpans
  <1> QED
    BY <1>2, <1>3, <1>7
(* The words that have ended before position i.                            *)
Ended(s, i) == {w \in WordSpans(s) : w[2] < i}

(* A word ends at position i - 1 if it is not a space and a space follows. *)
LEMMA EndedNext ==
    ASSUME NEW s, Len(s) \in Nat, NEW i \in 1 .. Len(s) + 1
    PROVE  IF i > 1 /\ s[i - 1] # Space /\ (i = Len(s) + 1 \/ s[i] = Space)
           THEN Cardinality(Ended(s, i)) = Cardinality(Ended(s, i - 1)) + 1
           ELSE Ended(s, i) = Ended(s, i - 1)
  <1>1. \A w \in WordSpans(s) : w[2] \in 1 .. Len(s) /\ (w[2] < i <=> w[2] < i - 1 \/ w[2] = i - 1)
    BY SpanIs
  <1>2. CASE i > 1 /\ s[i - 1] # Space /\ (i = Len(s) + 1 \/ s[i] = Space)
    <2>1. i - 1 \in 1 .. Len(s)
      BY <1>2
    <2>2. PICK w \in WordSpans(s) : w[1] <= i - 1 /\ i - 1 <= w[2]
      BY <1>2, <2>1, WordThrough
    <2>3. w[2] = i - 1
      <3>1. w[1] \in 1 .. Len(s) /\ w[2] \in 1 .. Len(s) /\ \A k \in w[1] .. w[2] : s[k] # Space
        BY SpanIs
      <3>2. ASSUME w[2] # i - 1 PROVE FALSE
        <4>1. i \in w[1] .. w[2] /\ i # Len(s) + 1
          BY <2>1, <2>2, <3>1, <3>2
        <4> QED
          BY <1>2, <3>1, <4>1
      <3> QED
        BY <3>2
    <2>4. \A v \in WordSpans(s) : v[2] = i - 1 => v = w
      <3> SUFFICES ASSUME NEW v \in WordSpans(s), v[2] = i - 1, v # w PROVE FALSE
        OBVIOUS
      <3>1. v[2] < w[1] \/ w[2] < v[1]
        BY SpansApart
      <3> QED
        BY <2>3, <3>1, SpanIs
    <2>5. Ended(s, i) = Ended(s, i - 1) \cup {w} /\ w \notin Ended(s, i - 1)
      BY <1>1, <2>3, <2>4 DEF Ended
    <2>6. IsFiniteSet(Ended(s, i - 1))
      BY SpansFinite DEF Ended
    <2>7. Cardinality(Ended(s, i)) = Cardinality(Ended(s, i - 1)) + 1
      BY <2>5, <2>6, FS_AddElement
    <2> QED
      BY <1>2, <2>7
  <1>3. CASE ~(i > 1 /\ s[i - 1] # Space /\ (i = Len(s) + 1 \/ s[i] = Space))
    <2>1. ASSUME NEW w \in WordSpans(s), w[2] = i - 1 PROVE FALSE
      <3>1. /\ w[1] \in 1 .. Len(s) /\ w[2] \in 1 .. Len(s) /\ w[1] <= w[2]
            /\ \A k \in w[1] .. w[2] : s[k] # Space
            /\ w[2] = Len(s) \/ s[w[2] + 1] = Space
        BY <2>1, SpanIs
      <3>2. i > 1 /\ w[2] + 1 = i /\ s[i - 1] # Space
        BY <2>1, <3>1
      <3> QED
        BY <1>3, <3>1, <3>2
    <2>2. Ended(s, i) = Ended(s, i - 1)
      BY <1>1, <2>1 DEF Ended
    <2> QED
      BY <1>3, <2>2
  <1> QED
    BY <1>2, <1>3

(* The scan: arg_index is the number of words that have ended.             *)
LEMMA ScannedIs ==
    ASSUME NEW s, Len(s) \in Nat
    PROVE  \A i \in 0 .. Len(s) :
              Scanned(s)[i] = [in_arg |-> i > 0 /\ s[i] # Space, count |-> Cardinality(Ended(s, i))]
  <1> DEFINE L == Len(s)
             St(i) == [in_arg |-> i > 0 /\ s[i] # Space, count |-> Cardinality(Ended(s, i))]
             W == [i \in 0 .. L |-> St(i)]
             f == Scanned(s)
  <1>1. St(0) = Before
    <2>1. Ended(s, 0) = {}
      BY SpanIs DEF Ended
    <2>2. Cardinality(Ended(s, 0)) = 0
      BY <2>1, FS_EmptySet
    <2>3. ~(0 > 0)
      OBVIOUS
    <2>4. (0 > 0 /\ s[0] # Space) = FALSE
      BY <2>3, Zenon
    <2> QED
      BY <2>2, <2>4, Zenon DEF Before
  <1>2. ASSUME NEW i \in 1 .. L PROVE St(i) = Scan(St(i - 1), s[i])
    <2>1. i - 1 > 0 <=> i > 1
      OBVIOUS
    <2>2. i # L + 1 /\ i \in 1 .. L + 1 /\ i > 0
      OBVIOUS
    <2>3. IF i > 1 /\ s[i - 1] # Space /\ s[i] = Space
          THEN Cardinality(Ended(s, i)) = Cardinality(Ended(s, i - 1)) + 1
          ELSE Ended(s, i) = Ended(s, i - 1)
      BY <2>2, EndedNext
    <2>4. St(i - 1).in_arg = (i > 1 /\ s[i - 1] # Space) /\ St(i - 1).count = Cardinality(Ended(s, i - 1))
      BY <2>1
    <2>5. CASE s[i] = Space /\ i > 1 /\ s[i - 1] # Space
      BY <2>2, <2>3, <2>4, <2>5, Zenon DEF Scan
    <2>6. CASE s[i] # Space
      BY <2>2, <2>3, <2>4, <2>6, Zenon DEF Scan
    <2>7. CASE s[i] = Space /\ ~(i > 1 /\ s[i - 1] # Space)
      BY <2>2, <2>3, <2>4, <2>7, Zenon DEF Scan
    <2> QED
      BY <2>5, <2>6, <2>7
  <1> HIDE DEF St
  <1>3. W = [i \in 0 .. L |-> IF i = 0 THEN Before ELSE Scan(W[i - 1], s[i])]
    <2>1. ASSUME NEW i \in 0 .. L PROVE W[i] = IF i = 0 THEN Before ELSE Scan(W[i - 1], s[i])
      <3>1. i # 0 => i \in 1 .. L /\ i - 1 \in 0 .. L
        OBVIOUS
      <3>2. i # 0 => W[i - 1] = St(i - 1)
        BY <3>1
      <3> QED
        BY <1>1, <1>2, <3>1, <3>2
    <2>2. W = [i \in 0 .. L |-> W[i]]
      OBVIOUS
    <2> HIDE DEF W
    <2> QED
      BY <2>1, <2>2, Zenon
  <1>4. f = [i \in 0 .. L |-> IF i = 0 THEN Before ELSE Scan(f[i - 1], s[i])]
    <2>1. \E g : g = [i \in 0 .. L |-> IF i = 0 THEN Before ELSE Scan(g[i - 1], s[i])]
      <3> HIDE DEF W
      <3> QED
        BY <1>3
    <2> QED
      BY <2>1 DEF Scanned
  <1> HIDE DEF f
  <1>5. \A i \in 0 .. L : f[i] = St(i)
    <2> DEFINE T == {i \in 0 .. L : f[i] # St(i)}
    <2>1. SUFFICES ASSUME T # {} PROVE FALSE
      OBVIOUS
    <2>2. T \in SUBSET Nat
      OBVIOUS
    <2>3. PICK i \in T : \A j \in T : i <= j
      <3> HIDE DEF T
      <3> QED
        BY <2>1, <2>2, LeastOf
    <2>4. i \in 0 .. L /\ f[i] # St(i) /\ i # 0
      BY <1>1, <1>4, <2>3
    <2>5. i - 1 \in 0 .. L /\ i - 1 < i /\ i \in 1 .. L
      BY <2>4
    <2>6. f[i - 1] = St(i - 1)
      BY <2>3, <2>4, <2>5
    <2>7. f[i] = Scan(f[i - 1], s[i])
      BY <1>4, <2>4
    <2> QED
      BY <1>2, <2>4, <2>5, <2>6, <2>7
  <1> QED
    BY <1>5 DEF f, St
(* get_argument_count counts the words.                                    *)
LEMMA CountIs ==
    ASSUME NEW s, Len(s) \in Nat
    PROVE  get_argument_count(s) = Cardinality(WordSpans(s))
  <1> DEFINE L == Len(s)
  <1>1. Ended(s, L + 1) = WordSpans(s)
    BY SpanIs DEF Ended
  <1>2. (L + 1) - 1 = L /\ L + 1 \in 1 .. L + 1 /\ (L + 1 > 1 <=> L > 0) /\ L \in 0 .. L
    OBVIOUS
  <1>3. IF L > 0 /\ s[L] # Space
        THEN Cardinality(Ended(s, L + 1)) = Cardinality(Ended(s, L)) + 1
        ELSE Ended(s, L + 1) = Ended(s, L)
    BY <1>2, EndedNext
  <1>4. Scanned(s)[L] = [in_arg |-> L > 0 /\ s[L] # Space, count |-> Cardinality(Ended(s, L))]
    BY <1>2, ScannedIs
  <1>5. Scanned(s)[L].in_arg = (L > 0 /\ s[L] # Space) /\ Scanned(s)[L].count = Cardinality(Ended(s, L))
    BY <1>4
  <1> QED
    BY <1>1, <1>3, <1>5, Zenon DEF get_argument_count

(* Sets of which the members correspond have the same size.                *)
LEMMA OneToOne ==
    ASSUME NEW S, IsFiniteSet(S), NEW T, NEW F \in [S -> T],
           \A x, y \in S : F[x] = F[y] => x = y, \A t \in T : \E x \in S : F[x] = t
    PROVE  IsFiniteSet(T) /\ Cardinality(T) = Cardinality(S)
  <1>1. F \in Bijection(S, T)
    BY DEF Bijection, Injection, IsInjective, Surjection
  <1> QED
    BY <1>1, FS_Bijection DEF ExistsBijection

(* Later words have more words before them.                                *)
LEMMA RanksRise ==
    ASSUME NEW s, Len(s) \in Nat, NEW v \in WordSpans(s)
    PROVE  /\ WordsBefore(s, v) \in 0 .. Cardinality(WordSpans(s)) - 1
           /\ \A w \in WordSpans(s) : v[1] < w[1] => WordsBefore(s, v) < WordsBefore(s, w)
           /\ \A w \in WordSpans(s) : WordsBefore(s, v) = WordsBefore(s, w) => v = w
  <1> DEFINE To(w) == {x \in WordSpans(s) : x[1] < w[1]}
             N == Cardinality(WordSpans(s))
  <1>1. ASSUME NEW w \in WordSpans(s)
        PROVE  /\ To(w) \subseteq WordSpans(s) /\ IsFiniteSet(To(w)) /\ Cardinality(To(w)) \in Nat
               /\ w[1] \in Nat /\ w \notin To(w) /\ WordsBefore(s, w) = Cardinality(To(w))
    <2>1. To(w) \subseteq WordSpans(s)
      OBVIOUS
    <2>2. IsFiniteSet(To(w)) /\ Cardinality(To(w)) \in Nat
      BY <2>1, SpansFinite
    <2> QED
      BY <2>1, <2>2, SpanIs DEF WordsBefore
  <1>2. N \in Nat /\ IsFiniteSet(WordSpans(s))
    BY SpansFinite
  <1>3. ASSUME NEW x \in WordSpans(s), NEW y \in WordSpans(s), x[1] < y[1]
        PROVE  Cardinality(To(x)) < Cardinality(To(y))
    <2>1. \A w \in WordSpans(s) : w[1] \in Nat
      BY SpanIs
    <2>2. \A w \in WordSpans(s) : w[1] < x[1] => w[1] < y[1]
      BY <1>3, <2>1
    <2>3. To(x) \subseteq To(y) /\ x \in To(y) /\ x \notin To(x)
      BY <1>3, <2>1, <2>2
    <2>4. To(x) # To(y)
      BY <2>3
    <2> HIDE DEF To
    <2> QED
      BY <1>1, <2>3, <2>4, FS_Subset
  <1>4. Cardinality(To(v)) < N
    <2> HIDE DEF To
    <2> QED
      BY <1>1, <1>2, FS_Subset
  <1>5. \A w \in WordSpans(s) : v[1] = w[1] => v = w
    <2> SUFFICES ASSUME NEW w \in WordSpans(s), v[1] = w[1], v # w PROVE FALSE
      OBVIOUS
    <2> QED
      BY SpansApart, SpanIs
  <1> HIDE DEF To, N
  <1>6. WordsBefore(s, v) \in 0 .. N - 1
    BY <1>1, <1>2, <1>4
  <1>7. \A w \in WordSpans(s) : v[1] < w[1] => WordsBefore(s, v) < WordsBefore(s, w)
    BY <1>1, <1>3
  <1>8. \A w \in WordSpans(s) : WordsBefore(s, v) = WordsBefore(s, w) => v = w
    <2> SUFFICES ASSUME NEW w \in WordSpans(s), WordsBefore(s, v) = WordsBefore(s, w), v # w
                 PROVE  FALSE
      OBVIOUS
    <2>1. v[1] < w[1] \/ w[1] < v[1]
      BY <1>1, <1>5
    <2> QED
      BY <1>1, <1>3, <2>1
  <1> QED
    BY <1>6, <1>7, <1>8 DEF N

(* Inside a word arg_index is its number.                                  *)
LEMMA IndexIs ==
    ASSUME NEW s, Len(s) \in Nat, NEW w \in WordSpans(s), NEW i \in 1 .. Len(s)
    PROVE  s[i] # Space /\ Scanned(s)[i].count = WordsBefore(s, w) <=> i \in w[1] .. w[2]
  <1>1. Scanned(s)[i].count = Cardinality(Ended(s, i))
    <2>1. i \in 0 .. Len(s)
      OBVIOUS
    <2>2. Scanned(s)[i] = [in_arg |-> i > 0 /\ s[i] # Space, count |-> Cardinality(Ended(s, i))]
      BY <2>1, ScannedIs
    <2> QED
      BY <2>2
  <1>2. ASSUME NEW v \in WordSpans(s), i \in v[1] .. v[2]
        PROVE  Cardinality(Ended(s, i)) = WordsBefore(s, v) /\ s[i] # Space
    <2>1. ASSUME NEW x \in WordSpans(s) PROVE x[2] < i <=> x[1] < v[1]
      <3>1. /\ x[1] \in Nat /\ x[2] \in Nat /\ x[1] <= x[2]
            /\ v[1] \in Nat /\ v[2] \in Nat /\ v[1] <= i /\ i <= v[2]
        BY <1>2, SpanIs
      <3>2. x = v \/ x[2] < v[1] \/ v[2] < x[1]
        BY SpansApart
      <3> QED
        BY <3>1, <3>2
    <2>2. Ended(s, i) = {x \in WordSpans(s) : x[1] < v[1]}
      BY <2>1 DEF Ended
    <2> QED
      BY <1>2, <2>2, SpanIs DEF WordsBefore
  <1>3. ASSUME s[i] # Space, Scanned(s)[i].count = WordsBefore(s, w) PROVE i \in w[1] .. w[2]
    <2>1. PICK v \in WordSpans(s) : v[1] <= i /\ i <= v[2]
      BY <1>3, WordThrough
    <2>2. v[1] \in Nat /\ v[2] \in Nat
      BY SpanIs
    <2>3. i \in v[1] .. v[2]
      BY <2>1, <2>2
    <2>4. WordsBefore(s, v) = WordsBefore(s, w)
      BY <1>1, <1>2, <1>3, <2>3
    <2> QED
      BY <2>3, <2>4, RanksRise
  <1> QED
    BY <1>1, <1>2, <1>3

(* There is a word of every number.                                        *)
LEMMA NthWord ==
    ASSUME NEW s, Len(s) \in Nat, NEW n \in 0 .. Cardinality(WordSpans(s)) - 1
    PROVE  \E w \in WordSpans(s) : WordsBefore(s, w) = n
  <1> DEFINE N == Cardinality(WordSpans(s))
             R == {WordsBefore(s, w) : w \in WordSpans(s)}
             F == [w \in WordSpans(s) |-> WordsBefore(s, w)]
  <1>1. IsFiniteSet(WordSpans(s)) /\ N \in Nat
    BY SpansFinite
  <1>2. R \subseteq 0 .. N - 1
    BY RanksRise
  <1>3. F \in [WordSpans(s) -> R] /\ \A r \in R : \E w \in WordSpans(s) : F[w] = r
    OBVIOUS
  <1>4. IsFiniteSet(R) /\ Cardinality(R) = N
    <2>1. \A v, w \in WordSpans(s) : F[v] = F[w] => v = w
      BY RanksRise
    <2> HIDE DEF F, R
    <2> QED
      BY <1>1, <1>3, <2>1, OneToOne
  <1>5. IsFiniteSet(0 .. N - 1) /\ Cardinality(0 .. N - 1) = N
    <2>1. 0 \in Int /\ N - 1 \in Int
      BY <1>1
    <2>2. /\ IsFiniteSet(0 .. N - 1)
          /\ Cardinality(0 .. N - 1) = IF 0 > N - 1 THEN 0 ELSE (N - 1) - 0 + 1
      BY <2>1, FS_Interval, Zenon
    <2> QED
      BY <1>1, <2>2
  <1>6. R = 0 .. N - 1
    <2> HIDE DEF R
    <2> QED
      BY <1>2, <1>4, <1>5, FS_Subset, Zenon
  <1> QED
    BY <1>6
(* A function on 1 .. m is a sequence of length m.                         *)
LEMMA ListOf ==
    ASSUME NEW S, NEW m \in Nat, NEW g \in [1 .. m -> S]
    PROVE  g \in Seq(S) /\ Len(g) = m
  OBVIOUS

(* get_argument copies a word in full and nothing else.                    *)
LEMMA PickedIs ==
    ASSUME NEW s \in Seq(Chars), NEW w \in WordSpans(s)
    PROVE  Picked(s, WordsBefore(s, w)) = SubSeq(s, w[1], w[2])
  <1> DEFINE L == Len(s)
             n == WordsBefore(s, w)
             Up(i) == IF i < w[1] THEN 0 ELSE IF i <= w[2] THEN i - w[1] + 1 ELSE w[2] - w[1] + 1
             St(i) == [k \in 1 .. Up(i) |-> s[w[1] + k - 1]]
             W == [i \in 0 .. L |-> St(i)]
             f == Copied(s, n)
             Takes(i) == s[i] # Space /\ Scanned(s)[i].count = n
  <1>1. /\ L \in Nat /\ w[1] \in 1 .. L /\ w[2] \in 1 .. L /\ w[1] <= w[2]
        /\ \A i \in 1 .. L : s[i] \in Chars
    BY SpanIs
  <1>2. \A i \in 1 .. L : Takes(i) <=> i \in w[1] .. w[2]
    BY IndexIs
  <1> HIDE DEF L, n, Takes
  <1>3. St(0) = <<>>
    BY <1>1
  <1>4. ASSUME NEW i \in 1 .. L PROVE St(i) = IF Takes(i) THEN Append(St(i - 1), s[i]) ELSE St(i - 1)
    <2>1. i \in Nat /\ i - 1 \in Nat /\ w[1] \in Nat /\ w[2] \in Nat /\ Up(i) \in Nat /\ Up(i - 1) \in Nat
      BY <1>1, SMTT(30)
    <2>2. CASE i \in w[1] .. w[2]
      <3>1. Up(i) = i - w[1] + 1 /\ Up(i - 1) = i - w[1] /\ w[1] + (i - w[1] + 1) - 1 = i
        BY <2>1, <2>2
      <3>2. St(i - 1) \in Seq(Chars) /\ Len(St(i - 1)) = i - w[1]
        <4>1. \A k \in 1 .. Up(i - 1) : w[1] + k - 1 \in 1 .. L
          <5> HIDE DEF Up
          <5> QED
            BY <1>1, <2>1, <2>2, <3>1, SMTT(30)
        <4>2. St(i - 1) \in [1 .. Up(i - 1) -> Chars]
          BY <1>1, <4>1
        <4> HIDE DEF St, Up
        <4>3. St(i - 1) \in Seq(Chars) /\ Len(St(i - 1)) = Up(i - 1)
          BY <2>1, <4>2, ListOf
        <4> QED
          BY <3>1, <4>3
      <3>3. Append(St(i - 1), s[i]) = [k \in 1 .. i - w[1] + 1 |->
                                          IF k = i - w[1] + 1 THEN s[i] ELSE St(i - 1)[k]]
        <4> HIDE DEF St
        <4> QED
          BY <3>2
      <3>4. ASSUME NEW k \in 1 .. i - w[1] + 1
            PROVE  s[w[1] + k - 1] = IF k = i - w[1] + 1 THEN s[i] ELSE St(i - 1)[k]
        <4>1. CASE k = i - w[1] + 1
          BY <3>1, <4>1
        <4>2. CASE k # i - w[1] + 1
          <5>1. k \in 1 .. Up(i - 1)
            BY <2>1, <2>2, <3>1, <4>2
          <5> QED
            BY <4>2, <5>1
        <4> QED
          BY <4>1, <4>2
      <3>5. St(i) = [k \in 1 .. i - w[1] + 1 |-> s[w[1] + k - 1]]
        BY <3>1
      <3> HIDE DEF St
      <3> QED
        BY <1>2, <2>2, <3>3, <3>4, <3>5, Zenon
    <2>3. CASE i \notin w[1] .. w[2]
      <3>1. Up(i) = Up(i - 1)
        BY <1>1, <2>1, <2>3
      <3> HIDE DEF Up
      <3> QED
        BY <1>2, <2>3, <3>1
    <2> QED
      BY <2>2, <2>3
  <1>5. St(L) = SubSeq(s, w[1], w[2])
    <2>1. Up(L) = w[2] - w[1] + 1
      BY <1>1
    <2>2. SubSeq(s, w[1], w[2]) = [k \in 1 .. w[2] - w[1] + 1 |-> s[w[1] + k - 1]]
      BY <1>1 DEF L
    <2> HIDE DEF Up
    <2> QED
      BY <2>1, <2>2
  <1> HIDE DEF St
  <1>6. W = [i \in 0 .. L |-> IF i = 0 THEN <<>>
                              ELSE IF Takes(i) THEN Append(W[i - 1], s[i]) ELSE W[i - 1]]
    <2>1. ASSUME NEW i \in 0 .. L
          PROVE  W[i] = IF i = 0 THEN <<>> ELSE IF Takes(i) THEN Append(W[i - 1], s[i]) ELSE W[i - 1]
      <3>1. i # 0 => i \in 1 .. L /\ i - 1 \in 0 .. L
        BY <1>1
      <3>2. i # 0 => W[i - 1] = St(i - 1)
        BY <3>1
      <3> QED
        BY <1>3, <1>4, <3>1, <3>2
    <2>2. W = [i \in 0 .. L |-> W[i]]
      OBVIOUS
    <2> HIDE DEF W
    <2> QED
      BY <2>1, <2>2, Zenon
  <1>7. f = [i \in 0 .. L |-> IF i = 0 THEN <<>>
                              ELSE IF Takes(i) THEN Append(f[i - 1], s[i]) ELSE f[i - 1]]
    <2>1. \E g : g = [i \in 0 .. L |-> IF i = 0 THEN <<>>
                              ELSE IF Takes(i) THEN Append(g[i - 1], s[i]) ELSE g[i - 1]]
      <3> HIDE DEF W
      <3> QED
        BY <1>6, Zenon
    <2> QED
      BY <2>1, Zenon DEF Copied, Takes, L
  <1> HIDE DEF f
  <1>8. \A i \in 0 .. L : f[i] = St(i)
    <2> DEFINE T == {i \in 0 .. L : f[i] # St(i)}
    <2>1. SUFFICES ASSUME T # {} PROVE FALSE
      OBVIOUS
    <2>2. T \in SUBSET Nat
      OBVIOUS
    <2>3. PICK i \in T : \A j \in T : i <= j
      <3> HIDE DEF T
      <3> QED
        BY <2>1, <2>2, LeastOf
    <2>4. i \in 0 .. L /\ f[i] # St(i) /\ i # 0
      BY <1>3, <1>7, <2>3
    <2>5. i - 1 \in 0 .. L /\ i - 1 < i /\ i \in 1 .. L
      BY <1>1, <2>4
    <2>6. f[i - 1] = St(i - 1)
      BY <2>3, <2>4, <2>5
    <2>7. f[i] = IF Takes(i) THEN Append(f[i - 1], s[i]) ELSE f[i - 1]
      BY <1>7, <2>4
    <2> QED
      BY <1>4, <2>4, <2>5, <2>6, <2>7
  <1>9. Picked(s, n) = f[L]
    BY DEF Picked, f, L
  <1>10. f[L] = St(L)
    BY <1>1, <1>8
  <1> QED
    BY <1>5, <1>9, <1>10 DEF n

(* The n-th word, its number and what it is.                               *)
LEMMA WordsAre ==
    ASSUME NEW s \in Seq(Chars)
    PROVE  /\ Words(s) \in Seq(Seq(Chars)) /\ Len(Words(s)) = Cardinality(WordSpans(s))
           /\ \A n \in 1 .. Len(Words(s)) : \E w \in WordSpans(s) :
                 WordsBefore(s, w) = n - 1 /\ Words(s)[n] = SubSeq(s, w[1], w[2])
           /\ \A w \in WordSpans(s) : Words(s)[WordsBefore(s, w) + 1] = SubSeq(s, w[1], w[2])
  <1> DEFINE N == Cardinality(WordSpans(s))
             nth(n) == CHOOSE w \in WordSpans(s) : WordsBefore(s, w) = n - 1
  <1>1. N \in Nat /\ Len(s) \in Nat
    BY SpansFinite
  <1>2. Words(s) = [n \in 1 .. N |-> SubSeq(s, nth(n)[1], nth(n)[2])]
    BY DEF Words
  <1>3. ASSUME NEW n \in 1 .. N PROVE nth(n) \in WordSpans(s) /\ WordsBefore(s, nth(n)) = n - 1
    <2>1. n - 1 \in 0 .. N - 1
      BY <1>1
    <2>2. \E w \in WordSpans(s) : WordsBefore(s, w) = n - 1
      BY <1>1, <2>1, NthWord
    <2> QED
      BY <2>2
  <1> HIDE DEF nth
  <1>4. ASSUME NEW w \in WordSpans(s) PROVE SubSeq(s, w[1], w[2]) \in Seq(Chars)
    BY <1>1, SpanIs
  <1>5. Words(s) \in [1 .. N -> Seq(Chars)]
    BY <1>2, <1>3, <1>4
  <1> HIDE DEF N
  <1>6. Words(s) \in Seq(Seq(Chars)) /\ Len(Words(s)) = N
    BY <1>1, <1>5
  <1>7. ASSUME NEW w \in WordSpans(s)
        PROVE  Words(s)[WordsBefore(s, w) + 1] = SubSeq(s, w[1], w[2])
    <2>1. WordsBefore(s, w) \in 0 .. N - 1
      BY <1>1, RanksRise DEF N
    <2>2. WordsBefore(s, w) + 1 \in 1 .. N /\ (WordsBefore(s, w) + 1) - 1 = WordsBefore(s, w)
      BY <1>1, <2>1
    <2>3. nth(WordsBefore(s, w) + 1) = w
      BY <1>1, <1>3, <2>2, RanksRise
    <2> QED
      BY <1>2, <2>2, <2>3, Zenon
  <1> QED
    BY <1>2, <1>3, <1>6, <1>7, Zenon DEF N
(* Where the loops of get_next_arguments stop: behind the spaces,          *)
LEMMA SpacesSkipped ==
    ASSUME NEW s, Len(s) \in Nat, NEW i \in Nat, NEW j \in i .. Len(s) + 1,
           j <= Len(s) => s[j] # Space, \A k \in i .. j - 1 : s[k] = Space
    PROVE  SkipSpaces(s, i) = j
  <1>1. ASSUME NEW h \in i .. Len(s) + 1, h <= Len(s) => s[h] # Space,
               \A k \in i .. h - 1 : s[k] = Space
        PROVE  h = j
    <2>1. ~(h < j)
      <3>1. h < j => h \in i .. j - 1 /\ h <= Len(s)
        OBVIOUS
      <3> QED
        BY <1>1, <3>1
    <2>2. ~(j < h)
      <3>1. j < h => j \in i .. h - 1 /\ j <= Len(s)
        OBVIOUS
      <3> QED
        BY <1>1, <3>1
    <2> QED
      BY <2>1, <2>2
  <1> QED
    BY <1>1 DEF SkipSpaces

(* and behind the word.                                                    *)
LEMMA WordSkipped ==
    ASSUME NEW s, Len(s) \in Nat, NEW i \in Nat, NEW j \in i .. Len(s) + 1,
           j <= Len(s) => s[j] = Space, \A k \in i .. j - 1 : s[k] # Space
    PROVE  SkipWord(s, i) = j
  <1>1. ASSUME NEW h \in i .. Len(s) + 1, h <= Len(s) => s[h] = Space,
               \A k \in i .. h - 1 : s[k] # Space
        PROVE  h = j
    <2>1. ~(h < j)
      <3>1. h < j => h \in i .. j - 1 /\ h <= Len(s)
        OBVIOUS
      <3> QED
        BY <1>1, <3>1
    <2>2. ~(j < h)
      <3>1. j < h => j \in i .. h - 1 /\ j <= Len(s)
        OBVIOUS
      <3> QED
        BY <1>1, <3>1
    <2> QED
      BY <2>1, <2>2
  <1> QED
    BY <1>1 DEF SkipWord

(* get_next_arguments begins with the second word.                         *)
LEMMA RestIs ==
    ASSUME NEW s \in Seq(Chars), NEW u \in WordSpans(s), NEW v \in WordSpans(s),
           WordsBefore(s, u) = 0, WordsBefore(s, v) = 1
    PROVE  /\ get_next_arguments(s) = SubSeq(s, v[1], Len(s))
           /\ v[1] \in 2 .. Len(s) /\ s[v[1] - 1] = Space /\ s[v[1]] # Space
           /\ u[1] < v[1]
           /\ \A w \in WordSpans(s) : w # u <=> w[1] >= v[1]
  <1> DEFINE L == Len(s)
  <1>1. /\ L \in Nat /\ u[1] \in 1 .. L /\ u[2] \in 1 .. L /\ u[1] <= u[2]
        /\ v[1] \in 1 .. L /\ v[2] \in 1 .. L /\ v[1] <= v[2]
        /\ v[1] = 1 \/ s[v[1] - 1] = Space
        /\ u[2] = L \/ s[u[2] + 1] = Space
        /\ \A k \in u[1] .. u[2] : s[k] # Space
    BY SpanIs
  <1>2. u # v
    OBVIOUS
  <1>3. \A w \in WordSpans(s) : /\ w[1] \in 1 .. L /\ w[2] \in 1 .. L /\ w[1] <= w[2]
                                /\ WordsBefore(s, w) \in Nat
    BY <1>1, SpanIs, RanksRise
  <1>4. ~(v[1] < u[1])
    <2>1. v[1] < u[1] => WordsBefore(s, v) < WordsBefore(s, u)
      BY <1>1, RanksRise
    <2> QED
      BY <2>1
  <1>5. u[2] < v[1]
    BY <1>1, <1>2, <1>4, SpansApart
  <1>6. s[v[1]] # Space
    BY <1>1, SpanIs
  <1>7. ASSUME NEW w \in WordSpans(s), w # u PROVE w[1] >= v[1]
    <2>1. WordsBefore(s, w) # 0
      BY <1>1, <1>7, RanksRise
    <2>2. w[1] < v[1] => WordsBefore(s, w) < WordsBefore(s, v)
      BY <1>1, RanksRise
    <2> QED
      BY <1>1, <1>3, <2>1, <2>2
  <1>8. ASSUME NEW i \in 1 .. L, i < v[1], i \notin u[1] .. u[2] PROVE s[i] = Space
    <2> SUFFICES ASSUME s[i] # Space PROVE FALSE
      OBVIOUS
    <2>1. PICK w \in WordSpans(s) : w[1] <= i /\ i <= w[2]
      BY <1>1, WordThrough
    <2>2. w = u
      BY <1>1, <1>3, <1>7, <1>8, <2>1
    <2> QED
      BY <1>1, <1>8, <2>1, <2>2
  <1>9. SkipSpaces(s, 1) = u[1]
    <2>1. u[1] \in 1 .. L + 1 /\ s[u[1]] # Space
      BY <1>1
    <2>2. \A k \in 1 .. u[1] - 1 : s[k] = Space
      BY <1>1, <1>5, <1>8, SMTT(30)
    <2> QED
      BY <1>1, <2>1, <2>2, SpacesSkipped
  <1> DEFINE e == u[2] + 1
  <1>10. /\ e \in Nat /\ e \in u[1] .. L + 1 /\ s[e] = Space /\ v[1] \in e .. L + 1
         /\ \A k \in u[1] .. e - 1 : s[k] # Space
    <2>1. e - 1 = u[2] /\ e \in u[1] .. L + 1 /\ v[1] \in e .. L + 1 /\ e \in Nat
      BY <1>1, <1>5
    <2> QED
      BY <1>1, <1>5, <2>1
  <1>11. \A k \in e .. v[1] - 1 : s[k] = Space
    <2> SUFFICES ASSUME NEW k \in e .. v[1] - 1 PROVE s[k] = Space
      OBVIOUS
    <2>1. k \in 1 .. L /\ k < v[1] /\ k \notin u[1] .. u[2]
      BY <1>1, <1>10
    <2> QED
      BY <1>8, <2>1
  <1> HIDE DEF e
  <1>12. SkipWord(s, u[1]) = e
    BY <1>1, <1>10, WordSkipped
  <1>13. SkipSpaces(s, e) = v[1]
    BY <1>1, <1>6, <1>10, <1>11, SpacesSkipped
  <1>14. get_argument_count(s) \in Nat /\ get_argument_count(s) > 1
    <2>1. WordsBefore(s, v) \in 0 .. Cardinality(WordSpans(s)) - 1 /\ Cardinality(WordSpans(s)) \in Nat
      BY <1>1, RanksRise, SpansFinite
    <2>2. get_argument_count(s) = Cardinality(WordSpans(s))
      BY <1>1, CountIs
    <2>3. 1 \in 0 .. Cardinality(WordSpans(s)) - 1
      BY <2>1
    <2> QED
      BY <2>1, <2>2, <2>3
  <1>15. get_next_arguments(s) = SubSeq(s, v[1], L)
    <2>1. get_argument_count(s) # 0 /\ get_argument_count(s) # 1
      BY <1>14
    <2> QED
      BY <1>9, <1>12, <1>13, <2>1, Zenon DEF get_next_arguments
  <1>16. v[1] \in 2 .. L /\ s[v[1] - 1] = Space /\ u[1] < v[1]
    BY <1>1, <1>5
  <1>17. \A w \in WordSpans(s) : w # u <=> w[1] >= v[1]
    BY <1>1, <1>7, <1>16
  <1> QED
    BY <1>6, <1>15, <1>16, <1>17
(* r is the end of s from k on, and has the words of s that are there.     *)
EndOf(r, s, k) ==
    /\ r \in Seq(Chars) /\ Len(r) = Len(s) - k + 1
    /\ \A i \in 1 .. Len(r) : r[i] = s[i + k - 1]
    /\ \A x \in WordSpans(r) : <<x[1] + k - 1, x[2] + k - 1>> \in WordSpans(s)
    /\ \A w \in WordSpans(s) : w[1] >= k => <<w[1] - k + 1, w[2] - k + 1>> \in WordSpans(r)

(* No word is lost or cut where the line is cut behind a space.            *)
LEMMA ShiftedWords ==
    ASSUME NEW s \in Seq(Chars), NEW k \in 2 .. Len(s), s[k - 1] = Space,
           NEW r, r = SubSeq(s, k, Len(s))
    PROVE  EndOf(r, s, k)
  <1> DEFINE L == Len(s)
             M == Len(r)
  <1>1. L \in Nat /\ k \in Nat /\ r \in Seq(Chars) /\ M = L - k + 1 /\ M \in Nat
    OBVIOUS
  <1>2. ASSUME NEW i \in 1 .. M PROVE r[i] = s[i + k - 1]
    <2>1. r = [h \in 1 .. L - k + 1 |-> s[k + h - 1]]
      OBVIOUS
    <2>2. k + i - 1 = i + k - 1 /\ i \in 1 .. L - k + 1
      BY <1>1
    <2> HIDE DEF L, M
    <2> QED
      BY <2>1, <2>2
  <1> HIDE DEF L, M
  <1>3. ASSUME NEW x \in WordSpans(r) PROVE <<x[1] + k - 1, x[2] + k - 1>> \in WordSpans(s)
    <2>1. /\ x[1] \in 1 .. M /\ x[2] \in 1 .. M /\ x[1] <= x[2]
          /\ \A i \in x[1] .. x[2] : r[i] # Space
          /\ x[1] = 1 \/ r[x[1] - 1] = Space
          /\ x[2] = M \/ r[x[2] + 1] = Space
      BY <1>1, SpanIs, Zenon DEF L, M
    <2>2. x[1] \in 1 .. M /\ x[2] \in 1 .. M /\ M \in Nat /\ k \in Nat
      BY <1>1, <2>1
    <2> DEFINE a == x[1] + k - 1
               b == x[2] + k - 1
    <2>3. a \in 1 .. L /\ b \in 1 .. L /\ a <= b
      BY <1>1, <2>1, SMTT(30)
    <2>4. ASSUME NEW i \in a .. b PROVE s[i] # Space
      <3>1. i - k + 1 \in x[1] .. x[2] /\ i - k + 1 \in 1 .. M /\ (i - k + 1) + k - 1 = i
        BY <1>1, <2>1, SMTT(30)
      <3> QED
        BY <1>2, <2>1, <3>1, Zenon
    <2>5. a = 1 \/ s[a - 1] = Space
      <3>1. CASE x[1] = 1
        BY <1>1, <3>1
      <3>2. CASE x[1] # 1
        <4>1. x[1] - 1 \in 1 .. M /\ (x[1] - 1) + k - 1 = a - 1
          BY <2>2, <3>2, SMTT(30)
        <4> QED
          BY <1>2, <2>1, <3>2, <4>1, Zenon
      <3> QED
        BY <3>1, <3>2
    <2>6. b = L \/ s[b + 1] = Space
      <3>1. CASE x[2] = M
        BY <1>1, <3>1
      <3>2. CASE x[2] # M
        <4>1. x[2] + 1 \in 1 .. M /\ (x[2] + 1) + k - 1 = b + 1
          BY <2>2, <3>2
        <4> QED
          BY <1>2, <2>1, <3>2, <4>1, Zenon
      <3> QED
        BY <3>1, <3>2
    <2> HIDE DEF a, b
    <2>7. <<a, b>> \in WordSpans(s)
      BY <2>3, <2>4, <2>5, <2>6, Zenon DEF WordSpans, L, M
    <2> QED
      BY <2>7 DEF a, b
  <1>4. ASSUME NEW w \in WordSpans(s), w[1] >= k
        PROVE  <<w[1] - k + 1, w[2] - k + 1>> \in WordSpans(r)
    <2>1. /\ w[1] \in 1 .. L /\ w[2] \in 1 .. L /\ w[1] <= w[2]
          /\ \A i \in w[1] .. w[2] : s[i] # Space
          /\ w[1] = 1 \/ s[w[1] - 1] = Space
          /\ w[2] = L \/ s[w[2] + 1] = Space
      BY <1>1, SpanIs DEF L, M
    <2>2. /\ w[1] \in k .. L /\ w[2] \in k .. L /\ M \in Nat /\ k \in Nat /\ L \in Nat
          /\ k > 1 /\ M = L - k + 1
      BY <1>1, <1>4, <2>1
    <2> DEFINE a == w[1] - k + 1
               b == w[2] - k + 1
    <2>3. a \in 1 .. M /\ b \in 1 .. M /\ a <= b
      BY <1>1, <1>4, <2>1, SMTT(30)
    <2>4. ASSUME NEW i \in a .. b PROVE r[i] # Space
      <3>1. i + k - 1 \in w[1] .. w[2] /\ i \in 1 .. M
        BY <2>2, <2>3, SMTT(30)
      <3> QED
        BY <1>2, <2>1, <3>1, Zenon
    <2>5. a = 1 \/ r[a - 1] = Space
      <3>1. w[1] # 1 /\ (a - 1) + k - 1 = w[1] - 1
        BY <2>2
      <3>2. a # 1 => a - 1 \in 1 .. M
        <4> HIDE DEF a
        <4> QED
          BY <2>3, <2>2
      <3>3. a - 1 \in 1 .. M => r[a - 1] = s[w[1] - 1]
        BY <1>2, <3>1, Zenon
      <3> HIDE DEF a
      <3> QED
        BY <2>1, <3>1, <3>2, <3>3, Zenon
    <2>6. b = M \/ r[b + 1] = Space
      <3>1. (b + 1) + k - 1 = w[2] + 1
        <4>1. b + k - 1 = w[2]
          <5>1. \A p, q \in Int : p - q + 1 + q - 1 = p
            OBVIOUS
          <5>2. w[2] \in Int /\ k \in Int
            BY <2>2
          <5> QED
            BY <5>1, <5>2
        <4> HIDE DEF b
        <4> QED
          BY <2>3, <2>2, <4>1
      <3>2. w[2] = L => b = M
        BY <2>2
      <3>3. b # M => b + 1 \in 1 .. M
        <4> HIDE DEF b
        <4> QED
          BY <2>3, <2>2
      <3>4. b + 1 \in 1 .. M => r[b + 1] = s[w[2] + 1]
        BY <1>2, <3>1, Zenon
      <3> HIDE DEF b
      <3> QED
        BY <2>1, <3>3, <3>4, <3>2, Zenon
    <2> HIDE DEF a, b
    <2>7. <<a, b>> \in WordSpans(r)
      BY <2>3, <2>4, <2>5, <2>6, Zenon DEF WordSpans, L, M
    <2> QED
      BY <2>7 DEF a, b
  <1> QED
    BY <1>1, <1>2, <1>3, <1>4 DEF EndOf, L, M

(* What get_next_arguments leaves has the words after the first.           *)
LEMMA RestWords ==
    ASSUME NEW s \in Seq(Chars), NEW u \in WordSpans(s), NEW v \in WordSpans(s),
           WordsBefore(s, u) = 0, WordsBefore(s, v) = 1
    PROVE  Words(get_next_arguments(s)) = Tail(Words(s))
  <1> DEFINE r == get_next_arguments(s)
             k == v[1]
             S == WordSpans(s)
             R == WordSpans(r)
             U == S \ {u}
             F == [x \in R |-> <<x[1] + k - 1, x[2] + k - 1>>]
             N == Cardinality(S)
  <1>1. /\ r = SubSeq(s, k, Len(s)) /\ k \in 2 .. Len(s) /\ s[k - 1] = Space
        /\ u[1] < k /\ \A w \in S : w # u <=> w[1] >= k
    BY RestIs
  <1>2. /\ r \in Seq(Chars) /\ Len(r) = Len(s) - k + 1
        /\ \A i \in 1 .. Len(r) : r[i] = s[i + k - 1]
        /\ \A x \in R : <<x[1] + k - 1, x[2] + k - 1>> \in S
        /\ \A w \in S : w[1] >= k => <<w[1] - k + 1, w[2] - k + 1>> \in R
    <2> HIDE DEF r, k
    <2>1. r = SubSeq(s, k, Len(s)) /\ k \in 2 .. Len(s) /\ s[k - 1] = Space
      BY <1>1
    <2>2. EndOf(r, s, k)
      BY <2>1, ShiftedWords, Zenon
    <2> QED
      BY <2>2 DEF EndOf
  <1>3. Len(r) \in Nat /\ Len(s) \in Nat /\ k \in Nat /\ N \in Nat /\ IsFiniteSet(S) /\ IsFiniteSet(R)
    <2> HIDE DEF r, k
    <2>1. Len(s) \in Nat
      OBVIOUS
    <2>2. Len(r) \in Nat /\ k \in Nat
      BY <1>1, <1>2, <2>1
    <2> QED
      BY <2>1, <2>2, SpansFinite
  <1> HIDE DEF r, k
  <1>4. /\ \A x \in R : x = <<x[1], x[2]>> /\ x[1] \in 1 .. Len(r) /\ x[2] \in 1 .. Len(r) /\ x[1] <= x[2]
        /\ \A w \in S : w = <<w[1], w[2]>> /\ w[1] \in 1 .. Len(s) /\ w[2] \in 1 .. Len(s) /\ w[1] <= w[2]
    BY <1>3, SpanIs
  <1>5. ASSUME NEW x \in R
        PROVE  /\ F[x] = <<x[1] + k - 1, x[2] + k - 1>> /\ F[x] \in U
               /\ F[x][1] = x[1] + k - 1 /\ F[x][2] = x[2] + k - 1
    <2>1. F[x] = <<x[1] + k - 1, x[2] + k - 1>>
      OBVIOUS
    <2>2. x[1] + k - 1 >= k
      BY <1>3, <1>4
    <2> HIDE DEF F
    <2> QED
      BY <1>1, <1>2, <2>1, <2>2
  <1>6. ASSUME NEW x \in R, NEW y \in R, F[x] = F[y] PROVE x = y
    <2>1. x[1] + k - 1 = y[1] + k - 1 /\ x[2] + k - 1 = y[2] + k - 1
      BY <1>5, <1>6
    <2>2. x[1] = y[1] /\ x[2] = y[2]
      BY <1>3, <1>4, <2>1, SMTT(30)
    <2> QED
      BY <1>4, <2>2
  <1>7. ASSUME NEW w \in U PROVE \E x \in R : F[x] = w
    <2> DEFINE x == <<w[1] - k + 1, w[2] - k + 1>>
    <2>1. x \in R
      BY <1>1, <1>2
    <2>2. x[1] + k - 1 = w[1] /\ x[2] + k - 1 = w[2]
      <3>1. \A p, q \in Int : p - q + 1 + q - 1 = p
        OBVIOUS
      <3>2. w[1] \in Int /\ w[2] \in Int /\ k \in Int
        BY <1>3, <1>4
      <3> QED
        BY <3>1, <3>2
    <2>3. w = <<w[1], w[2]>>
      BY <1>4
    <2> HIDE DEF x
    <2> QED
      BY <1>5, <2>1, <2>2, <2>3
  <1>8. Cardinality(R) = N - 1
    <2>1. IsFiniteSet(U) /\ Cardinality(U) = N - 1
      BY <1>3, FS_RemoveElement
    <2>2. F \in [R -> U]
      BY <1>5
    <2> HIDE DEF F, R, U
    <2>3. Cardinality(U) = Cardinality(R)
      BY <1>3, <1>6, <1>7, <2>2, OneToOne
    <2> QED
      BY <2>1, <2>3
  <1>9. ASSUME NEW x \in R PROVE WordsBefore(s, F[x]) = WordsBefore(r, x) + 1
    <2> DEFINE A == {y \in R : y[1] < x[1]}
               B == {w \in S : w[1] < F[x][1]}
               G == [y \in A |-> F[y]]
    <2>1. A \subseteq R /\ B \subseteq S /\ u \in B
      BY <1>1, <1>3, <1>4, <1>5
    <2>2. /\ IsFiniteSet(A) /\ IsFiniteSet(B)
          /\ Cardinality(A) \in Nat /\ Cardinality(B) \in Nat
      <3> HIDE DEF A, B
      <3> QED
        BY <1>3, <2>1, SpansFinite
    <2>3. IsFiniteSet(B \ {u}) /\ Cardinality(B \ {u}) = Cardinality(B) - 1
      <3> HIDE DEF A, B
      <3> QED
        BY <2>1, <2>2, FS_RemoveElement
    <2>4. ASSUME NEW y \in R PROVE F[y] \in B \ {u} <=> y \in A
      <3>1. F[y] \in U /\ F[y][1] = y[1] + k - 1 /\ F[x][1] = x[1] + k - 1
        BY <1>5
      <3>2. y[1] + k - 1 < x[1] + k - 1 <=> y[1] < x[1]
        BY <1>3, <1>4
      <3> HIDE DEF F
      <3> QED
        BY <3>1, <3>2
    <2>5. G \in [A -> B \ {u}]
      <3> HIDE DEF F, B
      <3> QED
        BY <2>1, <2>4
    <2>6. \A y, z \in A : G[y] = G[z] => y = z
      <3> HIDE DEF F
      <3> QED
        BY <1>6, <2>1
    <2>7. \A w \in B \ {u} : \E y \in A : G[y] = w
      <3> SUFFICES ASSUME NEW w \in B \ {u} PROVE \E y \in A : G[y] = w
        OBVIOUS
      <3>1. PICK y \in R : F[y] = w
        BY <1>7, <2>1
      <3> HIDE DEF F, A, B
      <3>2. y \in A
        BY <2>4, <3>1
      <3> QED
        BY <3>1, <3>2
    <2>8. Cardinality(B \ {u}) = Cardinality(A)
      <3> HIDE DEF A, B, G
      <3> QED
        BY <2>2, <2>5, <2>6, <2>7, OneToOne
    <2>9. WordsBefore(s, F[x]) = Cardinality(B) /\ WordsBefore(r, x) = Cardinality(A)
      BY DEF WordsBefore
    <2> HIDE DEF A, B
    <2> QED
      BY <2>2, <2>3, <2>8, <2>9
  <1> HIDE DEF F, S, R, N, U
  <1>10. /\ Words(s) \in Seq(Seq(Chars)) /\ Len(Words(s)) = N
         /\ Words(r) \in Seq(Seq(Chars)) /\ Len(Words(r)) = N - 1
    BY <1>2, <1>8, WordsAre DEF N, S, R
  <1>11. ASSUME NEW n \in 1 .. N - 1 PROVE Words(r)[n] = Words(s)[n + 1]
    <2>1. PICK x \in R : WordsBefore(r, x) = n - 1 /\ Words(r)[n] = SubSeq(r, x[1], x[2])
      <3>1. r \in Seq(Chars) /\ n \in 1 .. Len(Words(r))
        BY <1>2, <1>10
      <3> QED
        BY <3>1, WordsAre, Zenon DEF R
    <2>2. F[x] \in S /\ WordsBefore(s, F[x]) + 1 = n + 1
      BY <1>3, <1>5, <1>9, <2>1 DEF U
    <2>3. Words(s)[n + 1] = SubSeq(s, F[x][1], F[x][2])
      BY <2>2, WordsAre, Zenon DEF S
    <2> DEFINE a == x[1]
               b == x[2]
               p == F[x][1]
               q == F[x][2]
    <2>4. /\ a \in 1 .. Len(r) /\ b \in 1 .. Len(r) /\ a <= b
          /\ p \in 1 .. Len(s) /\ q \in 1 .. Len(s) /\ p <= q
          /\ p = a + k - 1 /\ q = b + k - 1
      BY <1>4, <1>5, <2>2
    <2> HIDE DEF a, b, p, q
    <2>5. SubSeq(r, a, b) = [i \in 1 .. b - a + 1 |-> r[a + i - 1]]
      <3>1. r \in Seq(Chars) /\ a \in 1 .. Len(r) /\ b \in 1 .. Len(r)
        BY <1>2, <2>4
      <3> QED
        BY <3>1
    <2>6. SubSeq(s, p, q) = [i \in 1 .. q - p + 1 |-> s[p + i - 1]]
      BY <1>3, <2>4
    <2>7. b - a + 1 = q - p + 1
      BY <1>3, <2>4
    <2>8. ASSUME NEW i \in 1 .. b - a + 1 PROVE r[a + i - 1] = s[p + i - 1]
      <3>1. a + i - 1 \in 1 .. Len(r) /\ (a + i - 1) + k - 1 = p + i - 1
        BY <1>3, <2>4
      <3> QED
        BY <1>2, <3>1
    <2>9. SubSeq(r, a, b) = SubSeq(s, p, q)
      BY <2>5, <2>6, <2>7, <2>8
    <2> QED
      BY <2>1, <2>3, <2>9 DEF a, b, p, q
  <1>12. N \in Nat /\ N > 0
    <2>1. 0 \in 0 .. N - 1
      BY <1>3, RanksRise DEF N, S
    <2> QED
      BY <1>3, <2>1
  <1>13. Words(s) # <<>>
    BY <1>10, <1>12
  <1>14. /\ Tail(Words(s)) \in Seq(Seq(Chars)) /\ Len(Tail(Words(s))) = N - 1
         /\ \A n \in 1 .. N - 1 : Tail(Words(s))[n] = Words(s)[n + 1]
    BY <1>10, <1>12, <1>13
  <1>15. Words(r) = Tail(Words(s))
    BY <1>10, <1>11, <1>14
  <1> QED
    BY <1>15 DEF r
(* A sequence without members is empty.                                    *)
LEMMA NoneLeft == \A S : \A q \in Seq(S) : Len(q) = 0 => q = <<>>
  OBVIOUS

(* Every line is split as SplitsWords says.                                *)
LEMMA EveryLineSplit ==
    ASSUME argument_string \in Seq(Chars)
    PROVE  SplitsWords
  <1> DEFINE s == argument_string
             N == Cardinality(WordSpans(s))
             words == Words(s)
             rest == get_next_arguments(s)
  <1>1. s \in Seq(Chars) /\ Len(s) \in Nat
    OBVIOUS
  <1> HIDE DEF s
  <1>2. N \in Nat /\ get_argument_count(s) = N
    BY <1>1, SpansFinite, CountIs
  <1>3. words \in Seq(Seq(Chars)) /\ Len(words) = N
    BY <1>1, WordsAre
  <1>4. ASSUME NEW n \in 1 .. N
        PROVE  get_argument(s, n - 1) = words[n] /\ get_argument_length(s, n - 1) = Len(words[n])
    <2>1. PICK w \in WordSpans(s) : WordsBefore(s, w) = n - 1 /\ words[n] = SubSeq(s, w[1], w[2])
      BY <1>1, <1>3, WordsAre, Zenon
    <2>2. Picked(s, n - 1) = words[n]
      BY <1>1, <2>1, PickedIs
    <2>3. ~(n - 1 >= N)
      BY <1>2
    <2>4. words[n] # <<>>
      <3>1. w[1] \in 1 .. Len(s) /\ w[2] \in 1 .. Len(s) /\ w[1] <= w[2]
        BY <1>1, SpanIs
      <3>2. Len(SubSeq(s, w[1], w[2])) = w[2] - w[1] + 1
        BY <1>1, <3>1
      <3>3. Len(words[n]) # 0
        BY <1>1, <2>1, <3>1, <3>2
      <3> QED
        BY <3>3
    <2> HIDE DEF N, words
    <2> QED
      BY <1>2, <2>2, <2>3, <2>4 DEF get_argument, get_argument_length
  <1>5. get_argument(s, N) = Fail /\ get_argument_length(s, N) = -1
    <2>1. N >= get_argument_count(s)
      BY <1>2
    <2> HIDE DEF N
    <2> QED
      BY <2>1 DEF get_argument, get_argument_length
  <1>6. ASSUME words # <<>> PROVE Words(rest) = Tail(words) /\ (rest # <<>> => rest[1] # Space)
    <2>1. N # 0
      BY <1>3, <1>6
    <2>2. CASE N = 1
      <3>1. rest = <<>>
        <4>1. get_argument_count(s) # 0 /\ get_argument_count(s) = 1
          BY <1>2, <2>2
        <4> QED
          BY <4>1, Zenon DEF get_next_arguments
      <3>2. <<>> \in Seq(Chars) /\ Len(<<>>) = 0
        OBVIOUS
      <3>3. WordSpans(<<>>) = {}
        BY <3>2 DEF WordSpans
      <3>4. Words(<<>>) \in Seq(Seq(Chars)) /\ Len(Words(<<>>)) = 0
        <4>1. Words(<<>>) \in Seq(Seq(Chars)) /\ Len(Words(<<>>)) = Cardinality(WordSpans(<<>>))
          BY <3>2, WordsAre, Zenon
        <4>2. Cardinality({}) = 0
          BY FS_EmptySet
        <4> QED
          BY <3>3, <4>1, <4>2, Zenon
      <3>5. Words(<<>>) = <<>>
        BY <3>4
      <3>6. Tail(words) = <<>>
        <4> HIDE DEF words, N
        <4>1. words \in Seq(Seq(Chars)) /\ Len(words) = 1 /\ words # <<>>
          BY <1>3, <1>6, <2>2
        <4>2. Tail(words) \in Seq(Seq(Chars)) /\ Len(Tail(words)) = 0
          BY <4>1
        <4> QED
          BY <4>2, NoneLeft, Zenon
      <3> QED
        BY <3>1, <3>5, <3>6, Zenon
    <2>3. CASE N # 1
      <3>1. 0 \in 0 .. N - 1 /\ 1 \in 0 .. N - 1
        BY <1>2, <2>1, <2>3
      <3>2. PICK u \in WordSpans(s) : WordsBefore(s, u) = 0
        BY <1>1, <3>1, NthWord
      <3>3. PICK v \in WordSpans(s) : WordsBefore(s, v) = 1
        BY <1>1, <3>1, NthWord
      <3>4. Words(rest) = Tail(words)
        BY <1>1, <3>2, <3>3, RestWords
      <3>5. rest = SubSeq(s, v[1], Len(s)) /\ v[1] \in 2 .. Len(s) /\ s[v[1]] # Space
        BY <1>1, <3>2, <3>3, RestIs
      <3>6. rest[1] = s[v[1]]
        <4> HIDE DEF rest
        <4> DEFINE k == v[1]
        <4>1. k \in 2 .. Len(s) /\ Len(s) \in 2 .. Len(s) /\ rest = SubSeq(s, k, Len(s))
          BY <1>1, <3>5
        <4> HIDE DEF k
        <4>2. SubSeq(s, k, Len(s))[1] = s[k]
          BY <1>1, <4>1
        <4> QED
          BY <4>1, <4>2 DEF k
      <3> QED
        BY <3>4, <3>5, <3>6
    <2> QED
      BY <2>2, <2>3
  <1> HIDE DEF N, words, rest
  <1> QED
    BY <1>2, <1>3, <1>4, <1>5, <1>6 DEF SplitsWords, s, words, rest

(* For every line, however long and wherever its spaces are, the functions *)
(* of arg_util.c find exactly its words, and what execute keeps for        *)
(* getargs are the words after the first.                                  *)
THEOREM LinesSplit == ArgSpec => []SplitsWords
  <1>1. ArgInit => argument_string \in Seq(Chars)
    BY DEF ArgInit
  <1>2. argument_string \in Seq(Chars) /\ [ArgNext]_argument_string => (argument_string \in Seq(Chars))'
    BY DEF ArgNext
  <1>3. argument_string \in Seq(Chars) => SplitsWords
    BY EveryLineSplit
  <1> QED
    BY <1>1, <1>2, <1>3, PTL DEF ArgSpec
=============================================================================
