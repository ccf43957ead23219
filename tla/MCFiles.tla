------------------------------ MODULE MCFiles ------------------------------
(***************************************************************************)
(* Files for TLC: a directory of two entries, itself and a file of three   *)
(* bytes in two blocks that are not in order.                              *)
(***************************************************************************)
EXTENDS Files

TwoEntries ==
    [d \in 0 .. 1 |-> IF d = 0 THEN [type |-> "dir", inode_index |-> 0]
                     ELSE [type |-> "file", inode_index |-> 1]]

(* The same with the clock's entry.                                        *)
ThreeEntries ==
    [d \in 0 .. 2 |-> IF d = 2 THEN [type |-> "rtc", inode_index |-> 0]
                     ELSE TwoEntries[d]]

Inodes ==
    [i \in 0 .. 1 |-> IF i = 0 THEN [length |-> 0, data_indices |-> <<>>]
                     ELSE [length |-> 3, data_indices |-> <<1, 0>>]]

Blocks == [b \in 0 .. 1 |-> IF b = 0 THEN <<"y", "z">> ELSE <<"v", "w">>]
=============================================================================
