------------------------------- MODULE Files -------------------------------
(***************************************************************************)
(* The file descriptors of the processes (open, close, read of syscalls.c  *)
(* and what execute and halt do to them) and the read-only file system     *)
(* below (filesys.c).                                                      *)
(*                                                                         *)
(* A process is a terminal and a depth: the shell of terminal t is <<t, 0>>*)
(* and the program it runs is <<t, 1>>.  The program displayed runs; as    *)
(* every file call works on its own process's PCB and ends, calls are      *)
(* single steps, whatever terminal is shown between them.                  *)
(***************************************************************************)
EXTENDS Integers, Sequences

CONSTANTS
    MAX_TERMINAL_NUM,
    DEPTH,            \* bound: programs on one terminal
    MIN_FD, MAX_FD,   \* 2 and 7
    BLOCK_SIZE,
    dentry_count,
    dentries,         \* the directory: [type, inode_index] of each entry
    inodes,           \* [length, data_indices] of each inode
    data_blocks,      \* the bytes of each block
    Counts,           \* the nbytes passed to read
    Tidy              \* do programs close their files before they halt?

Terms == 0 .. MAX_TERMINAL_NUM - 1
Procs == Terms \X (0 .. DEPTH - 1)
Fds == 0 .. MAX_FD
Names == 0 .. dentry_count - 1
Types == {"rtc", "dir", "file"}

ASSUME FilesAssumption ==
    /\ MAX_TERMINAL_NUM \in Nat \ {0} /\ DEPTH \in Nat \ {0}
    /\ MIN_FD \in Nat /\ MAX_FD \in Nat /\ MIN_FD <= MAX_FD
    /\ BLOCK_SIZE \in Nat \ {0}
    /\ dentry_count \in Nat /\ DOMAIN dentries = Names
    /\ \A d \in Names : dentries[d].type \in Types
    /\ \A d \in Names : dentries[d].type = "file" =>    \* a sound image
          LET inode == inodes[dentries[d].inode_index]
          IN  /\ inode.length \in Nat /\ Len(inode.data_indices) \in Nat
              /\ inode.length <= Len(inode.data_indices) * BLOCK_SIZE
    /\ Counts \subseteq Nat
    /\ Tidy \in BOOLEAN

VARIABLES
    shown,       \* the displayed terminal
    depth,       \* of the foremost process of each terminal
    file_array,  \* of every process
    dr_index,
    bytes,       \* history: what has been read through each descriptor
    listed,      \* history: the entries read through each descriptor
    early        \* history: the last directory read reported a false end

vars == <<shown, depth, file_array, dr_index, bytes, listed, early>>

Unused == [fops |-> "none", inode |-> 0, pos |-> 0, flags |-> 0]
Stdio  == [fops |-> "terminal", inode |-> 0, pos |-> 0, flags |-> 1]

(* The table execute gives a new process.                                  *)
NewFiles == [fd \in Fds |-> IF fd < MIN_FD THEN Stdio ELSE Unused]

NoBytes == [fd \in Fds |-> <<>>]
NoNames == [fd \in Fds |-> {}]

Init ==
    /\ shown = 0
    /\ depth = [t \in Terms |-> 0]
    /\ file_array = [p \in Procs |-> NewFiles]
    /\ dr_index = 0
    /\ bytes = [p \in Procs |-> NoBytes]
    /\ listed = [p \in Procs |-> NoNames]
    /\ early = FALSE

(* get_current_PCB                                                         *)
current == <<shown, depth[shown]>>
files == file_array[current]

-----------------------------------------------------------------------------
(* filesys.c *)

(* Wrong variant: every byte is taken from the first block.                *)
BugByteAt(inode, k) == data_blocks[inode.data_indices[1]][(k % BLOCK_SIZE) + 1]

(* The byte at offset k of a file: its block, and the place in it.         *)
ByteAt(inode, k) ==
    data_blocks[inode.data_indices[(k \div BLOCK_SIZE) + 1]][(k % BLOCK_SIZE) + 1]

(* read_data: at most length bytes from offset, up to the end.             *)
read_data(i, offset, length) ==
    LET inode == inodes[i]
        left == IF offset < inode.length THEN inode.length - offset ELSE 0
        n == IF length < left THEN length ELSE left
    IN  [k \in 1 .. n |-> ByteAt(inode, offset + k - 1)]

-----------------------------------------------------------------------------
(* System calls of the current process *)

FreeFds == {fd \in MIN_FD .. MAX_FD : files[fd].flags = 0}

(* The history of a descriptor starts and ends with it.                    *)
Forget(fd) ==
    /\ bytes' = [bytes EXCEPT ![current][fd] = <<>>]
    /\ listed' = [listed EXCEPT ![current][fd] = {}]

(* What open writes to the descriptor for an entry d.                      *)
Opened(d) ==
    [fops |-> d.type, inode |-> IF d.type = "file" THEN d.inode_index ELSE 0,
     pos |-> 0, flags |-> 1]

(* open: the lowest free descriptor.  The open of the type is not called.  *)
Open(name) ==
    /\ FreeFds # {}
    /\ LET fd == CHOOSE f \in FreeFds : \A g \in FreeFds : f <= g
       IN  /\ file_array' = [file_array EXCEPT ![current][fd] = Opened(dentries[name])]
           /\ Forget(fd)
    /\ UNCHANGED <<shown, depth, dr_index, early>>

(* Wrong variant: the descriptor stays in use.                             *)
BugClosedFd(f) == [f EXCEPT !.fops = "none", !.pos = 0]

(* close: the inode stays.                                                 *)
ClosedFd(f) == [f EXCEPT !.fops = "none", !.pos = 0, !.flags = 0]

(* Wrong variant: the descriptor of the first terminal's process.          *)
BugClose(fd) ==
    /\ fd \in MIN_FD .. MAX_FD /\ files[fd].flags = 1
    /\ file_array' = [file_array EXCEPT ![<<0, depth[0]>>][fd] = ClosedFd(@)]
    /\ Forget(fd)
    /\ UNCHANGED <<shown, depth, dr_index, early>>

Close(fd) ==
    /\ fd \in MIN_FD .. MAX_FD /\ files[fd].flags = 1
    /\ file_array' = [file_array EXCEPT ![current][fd] = ClosedFd(@)]
    /\ Forget(fd)
    /\ UNCHANGED <<shown, depth, dr_index, early>>

(* read of a regular file: file_read                                       *)
ReadFile(fd, n) ==
    /\ files[fd].fops = "file"
    /\ LET data == read_data(files[fd].inode, files[fd].pos, n)
       IN  /\ file_array' = [file_array EXCEPT ![current][fd].pos = @ + Len(data)]
           /\ bytes' = [bytes EXCEPT ![current][fd] = @ \o data]
    /\ UNCHANGED <<shown, depth, dr_index, listed, early>>

(* read of the directory: dir_read; one dr_index for all of them.          *)
ReadDir(fd) ==
    /\ files[fd].fops = "dir"
    /\ IF dr_index \in Names
       THEN /\ dr_index' = dr_index + 1
            /\ listed' = [listed EXCEPT ![current][fd] = @ \cup {dr_index}]
            /\ early' = FALSE
       ELSE /\ dr_index' = 0
            /\ listed' = [listed EXCEPT ![current][fd] = {}]
            /\ early' = (listed[current][fd] # Names)
    /\ UNCHANGED <<shown, depth, file_array, bytes>>

-----------------------------------------------------------------------------
(* execute, as far as it concerns files                                    *)
Execute ==
    /\ depth[shown] + 1 < DEPTH
    /\ LET child == <<shown, depth[shown] + 1>>
       IN  /\ file_array' = [file_array EXCEPT ![child] = NewFiles]
           /\ bytes' = [bytes EXCEPT ![child] = NoBytes]
           /\ listed' = [listed EXCEPT ![child] = NoNames]
    /\ depth' = [depth EXCEPT ![shown] = @ + 1]
    /\ UNCHANGED <<shown, dr_index, early>>

HaltOK == Tidy => \A fd \in MIN_FD .. MAX_FD : files[fd].flags = 0

(* halt of a program with a parent.  get_current_PCB already names the     *)
(* parent when the loop calls close(i) for the child's open files, so that *)
(* the parent's are closed; the child's are only marked unused.            *)
Halt ==
    /\ depth[shown] > 0
    /\ HaltOK
    /\ LET child == current
           parent == <<shown, depth[shown] - 1>>
       IN  file_array' = [file_array EXCEPT
             ![parent] = [fd \in Fds |->
                IF fd >= MIN_FD /\ file_array[child][fd].flags = 1 /\ @[fd].flags = 1
                THEN ClosedFd(@[fd]) ELSE @[fd]],
             ![child] = [fd \in Fds |-> [@[fd] EXCEPT !.fops = "none", !.flags = 0]]]
    /\ depth' = [depth EXCEPT ![shown] = @ - 1]
    /\ UNCHANGED <<shown, dr_index, bytes, listed, early>>

(* halt of a first shell, which starts again with a new table.             *)
Restart ==
    /\ depth[shown] = 0
    /\ HaltOK
    /\ file_array' = [file_array EXCEPT ![current] = NewFiles]
    /\ bytes' = [bytes EXCEPT ![current] = NoBytes]
    /\ listed' = [listed EXCEPT ![current] = NoNames]
    /\ UNCHANGED <<shown, depth, dr_index, early>>

(* Alt+Fn                                                                  *)
Switch(t) ==
    /\ t # shown
    /\ shown' = t
    /\ UNCHANGED <<depth, file_array, dr_index, bytes, listed, early>>

Next ==
    \/ \E name \in Names : Open(name)
    \/ \E fd \in Fds : Close(fd) \/ ReadDir(fd) \/ \E n \in Counts : ReadFile(fd, n)
    \/ Execute \/ Halt \/ Restart
    \/ \E t \in Terms : Switch(t)

Spec == Init /\ [][Next]_vars

-----------------------------------------------------------------------------
(* Types; standard input and output of a live process are always open.     *)
TypeOK ==
    /\ shown \in Terms
    /\ depth \in [Terms -> 0 .. DEPTH - 1]
    /\ \A p \in Procs : \A fd \in Fds :
          /\ file_array[p][fd].flags \in 0 .. 1
          /\ (file_array[p][fd].fops = "none") <=> (file_array[p][fd].flags = 0)
          /\ fd < MIN_FD /\ p[2] <= depth[p[1]] => file_array[p][fd] = Stdio
    /\ dr_index \in 0 .. dentry_count

(* The block, of n laid end to end, in which byte k is, from 1 on.         *)
BlockOf(n, k) == CHOOSE c \in 1 .. n : (c - 1) * BLOCK_SIZE < k /\ k <= c * BLOCK_SIZE

(* The contents of a file: its blocks one after the other, to its length.  *)
Contents(inode) ==
    [k \in 1 .. inode.length |->
       LET b == BlockOf(Len(inode.data_indices), k)
       IN  data_blocks[inode.data_indices[b]][k - (b - 1) * BLOCK_SIZE]]

(* However reads of several descriptors, processes and terminals are       *)
(* mixed, what a process has read through one descriptor since opening it  *)
(* is the beginning of that file, across block boundaries and at its end.  *)
ReadsInOrder ==
    \A p \in Procs : \A fd \in MIN_FD .. MAX_FD :
        file_array[p][fd].fops = "file" =>
            LET c == Contents(inodes[file_array[p][fd].inode])
                b == bytes[p][fd]
            IN  Len(b) <= Len(c) /\ b = SubSeq(c, 1, Len(b))

(* No call of one process changes the descriptors of another live one: not *)
(* of another terminal, and not of the parent when a program ends.         *)
FilesPrivate ==
    [][\A p \in Procs : p # current /\ p[2] <= depth[p[1]]
          => file_array'[p] = file_array[p]]_vars

(* A directory read reports the end only after it has given every entry    *)
(* through the same descriptor.                                            *)
EndMeansAll == ~early
=============================================================================
