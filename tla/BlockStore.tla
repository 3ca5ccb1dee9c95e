------------------------------ MODULE BlockStore ------------------------------
(***************************************************************************)
(* What a block store promises its client: the interface documented in     *)
(* src/src/h/egos/block_store.h, for a store whose inodes are arrays of    *)
(* blocks kept on a device that survives a restart of the block server.    *)
(*                                                                         *)
(* The client sees `data`; after a restart it sees `disk`.  A store is     *)
(* free to bring any block of `disk` up to date with `data` at any moment  *)
(* (Persist), must do so for an inode when that inode is synced, and may   *)
(* never put anything else there.                                          *)
(***************************************************************************)
EXTENDS Naturals

CONSTANTS Inodes,     \* inode numbers
          MaxSize,    \* bound on the number of blocks of an inode
          Block,      \* block contents
          Zero,       \* contents of a block that was never written
          Err         \* the result -1

VARIABLES size,       \* size[i]: number of blocks of inode i
          data,       \* data[i][o]: what a read of block o of inode i returns
          disk,       \* disk[i][o]: what a read would return after a restart
          out         \* the last operation and its result

vars == <<size, data, disk, out>>

Offsets == 0 .. MaxSize - 1

Contents == [Inodes -> [Offsets -> Block]]

Init ==
    /\ size \in [Inodes -> 0 .. MaxSize]
    /\ data \in Contents
    /\ disk = data
    /\ out = [op |-> "init"]

\* Blocks that are written back on the way: each is either left alone or
\* brought up to date.
Persist ==
    /\ disk' \in Contents
    /\ \A i \in Inodes, o \in Offsets :
          disk'[i][o] \in {disk[i][o], data[i][o]}

GetSize(i) ==
    /\ out' = [op |-> "getsize", ino |-> i, ret |-> size[i]]
    /\ UNCHANGED <<size, data, disk>>

\* A read never changes what later reads return, hit or miss.
Read(i, o) ==
    /\ out' = [op |-> "read", ret |-> IF o < size[i] THEN data[i][o] ELSE Err]
    /\ Persist
    /\ UNCHANGED <<size, data>>

Write(i, o, b) ==
    /\ o < size[i]
    /\ data' = [data EXCEPT ![i][o] = b]
    /\ out' = [op |-> "write", ret |-> 0]
    /\ Persist
    /\ UNCHANGED size

\* Blocks below the new size keep their contents; nothing is promised about
\* the others.
SetSize(i, n) ==
    /\ size' = [size EXCEPT ![i] = n]
    /\ data' \in Contents
    /\ \A j \in Inodes, o \in Offsets :
          j # i \/ o < n => data'[j][o] = data[j][o]
    /\ out' = [op |-> "setsize", ret |-> size[i]]
    /\ UNCHANGED disk

\* After a sync of the inodes in I every one of their blocks is on the disk.
Sync(I) ==
    /\ Persist
    /\ \A i \in I, o \in Offsets : o < size[i] => disk'[i][o] = data[i][o]
    /\ out' = [op |-> "sync", ret |-> 0]
    /\ UNCHANGED <<size, data>>

\* The server stops and is started again: only the disk is left.
Restart ==
    /\ data' = disk
    /\ out' = [op |-> "init"]
    /\ UNCHANGED <<size, disk>>

Next ==
    \/ \E i \in Inodes : GetSize(i)
    \/ \E i \in Inodes, o \in Offsets : Read(i, o)
    \/ \E i \in Inodes, o \in Offsets, b \in Block : Write(i, o, b)
    \/ \E i \in Inodes, n \in 0 .. MaxSize : SetSize(i, n)
    \/ \E I \in SUBSET Inodes : Sync(I)
    \/ Restart

Spec == Init /\ [][Next]_vars
===============================================================================
