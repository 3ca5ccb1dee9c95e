------------------------------ MODULE SparseStore ------------------------------
(***************************************************************************)
(* What treedisk.h promises of a file system of inodes: an inode grows     *)
(* when it is written beyond its end, blocks never written read as zeros,  *)
(* and only setsize to 0 shrinks an inode.  A server that stops in the     *)
(* middle of a write may leave the block it was writing, the size and the  *)
(* holes of that inode unsettled; written blocks and other inodes stay.    *)
(* Nothing more is promised once the store is lost, which takes such a     *)
(* stop first.                                                             *)
(***************************************************************************)
EXTENDS Naturals

CONSTANTS Inodes, Offsets, Data, Zero

VARIABLES size, data,
          torn,     \* whether an operation was ever cut short
          lost      \* whether the store is damaged

vars == <<size, data, torn, lost>>

Init ==
    /\ size = [i \in Inodes |-> 0]
    /\ data = [i \in Inodes |-> [o \in Offsets |-> Zero]]
    /\ torn = FALSE /\ lost = FALSE

Grown(i, o) == IF o >= size[i] THEN o + 1 ELSE size[i]

Write(i, o, b) ==
    /\ size' = [size EXCEPT ![i] = Grown(i, o)]
    /\ data' = [data EXCEPT ![i][o] = b]

Clear(i) ==
    /\ size' = [size EXCEPT ![i] = 0]
    /\ data' = [data EXCEPT ![i] = [o \in Offsets |-> Zero]]

SameExcept(i) ==
    /\ DOMAIN size' = Inodes
    /\ DOMAIN data' = Inodes
    /\ \A j \in Inodes \ {i} : size'[j] = size[j] /\ data'[j] = data[j]

\* A stop during a write of block o of inode i.
TornWrite(i, o) ==
    /\ SameExcept(i)
    /\ size'[i] \in {size[i], Grown(i, o)}
    /\ \A p \in Offsets \ {o} : data[i][p] # Zero => data'[i][p] = data[i][p]

\* A stop while inode i is being emptied.
TornClear(i) == SameExcept(i) /\ size'[i] \in {size[i], 0}

\* Damage left by an earlier stop: no promise is left.
Lose == torn /\ lost'

Complete ==
    /\ ~lost /\ UNCHANGED <<torn, lost>>
    /\ \E i \in Inodes :
          \/ \E o \in Offsets, b \in Data : Write(i, o, b)
          \/ Clear(i)

Torn ==
    /\ ~lost /\ torn' /\ UNCHANGED lost
    /\ \E i \in Inodes :
          \/ \E o \in Offsets : TornWrite(i, o)
          \/ TornClear(i)

Next == Complete \/ Torn \/ Lose

Spec == Init /\ [][Next]_vars
===============================================================================
