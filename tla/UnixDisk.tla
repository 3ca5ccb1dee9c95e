-------------------------------- MODULE UnixDisk --------------------------------
(***************************************************************************)
(* The file system of src/src/block/unixdisk.c: inodes with NDirect direct *)
(* pointers and a single, a double and a triple indirect pointer, and a    *)
(* free list of blocks that are full of block numbers.                     *)
(*                                                                         *)
(* Block numbers count from the first data block, as in the pointers on    *)
(* the disk; the number None stands for (unsigned int) -1.  A block holds  *)
(* client data, pointers, or a node of the free list; a block of one kind  *)
(* read as another gives None for every pointer.  Client data are the      *)
(* inode and offset they were written to, so that a read of the wrong      *)
(* block shows.  Calls are atomic and the store below does not fail.       *)
(***************************************************************************)
EXTENDS Integers, Sequences, FiniteSets, SequencesExt

CONSTANTS NInodes, NData,  \* number of inodes and of data blocks
          NDirect, EPB,    \* 12 and ENTRIES_PER_BLOCK
          EPFB,            \* ENTRIES_PER_FREE_BLOCK
          MaxSize,         \* bound on the size of an inode
          MaxFrees         \* bound on the number of inodes emptied

\* unixdisk_create runs off the end of an array if the last part of the
\* assumption fails.
UnixDiskAssumption ==
    /\ {NInodes, NData, NDirect, EPB, EPFB, MaxSize, MaxFrees} \subseteq Nat \ {0}
    /\ NData % (EPFB + 1) # 0

Inodes == 0 .. NInodes - 1
Blocks == 0 .. NData - 1
None   == NData
Digits == 0 .. EPB - 1

VARIABLES super,    \* free_list and free_offset
          inode,    \* the inodes
          blk,      \* the data blocks
          written,  \* history: the offsets of each inode that were written
          frees,    \* number of inodes emptied so far
          out       \* whether the last call failed (-1), and whether it ran out of blocks

vars == <<super, inode, blk, written, frees, out>>

Ind(e)     == [kind |-> "ind", e |-> e]
Free(n, e) == [kind |-> "free", next |-> n, e |-> e]
Client(i, o) == [kind |-> "data", tag |-> <<i, o>>]

Entries(b) == IF b.kind = "ind" THEN b.e ELSE [d \in Digits |-> None]

-------------------------------------------------------------------------------
(* unixdisk_create *)

Remainder == NData % (EPFB + 1)

IsHead(b) == b = 0 \/ (b >= Remainder /\ (b - Remainder) % (EPFB + 1) = 0)

NextHead(b) ==
    LET n == IF b = 0 THEN Remainder ELSE b + EPFB + 1 IN IF n < NData THEN n ELSE None

EmptyInode ==
    [nblocks |-> 0, direct |-> [o \in 0 .. NDirect - 1 |-> 0],
     root |-> [l \in 1 .. 3 |-> 0]]

Init ==
    /\ super = [free_list |-> 0, free_offset |-> Remainder - 1]
    /\ inode = [i \in Inodes |-> EmptyInode]
    /\ blk = [b \in Blocks |->
                IF IsHead(b) THEN Free(NextHead(b), [k \in 0 .. EPFB - 1 |-> b + k + 1])
                ELSE [kind |-> "zero"]]
    /\ written = [i \in Inodes |-> {}]
    /\ frees = 0
    /\ out = [ret |-> 0, full |-> FALSE]

-------------------------------------------------------------------------------
(* The free list. s is the file system during a call: super, the inode,    *)
(* the blocks, and the block number that was popped.                       *)

unixdisk_popfree(s) ==
    IF s.super.free_list = None THEN [s EXCEPT !.got = None, !.full = TRUE]
    ELSE LET head == s.blk[s.super.free_list]
         IN IF s.super.free_offset > 0
            THEN [s EXCEPT !.got = head.e[s.super.free_offset - 1], !.super.free_offset = @ - 1]
            ELSE [s EXCEPT !.got = s.super.free_list,
                           !.super = [free_list |-> head.next, free_offset |-> EPFB]]

\* When the list is empty free_offset is EPFB and b becomes its only node.
unixdisk_pushfree(s, b) ==
    IF s.super.free_offset < EPFB
    THEN [s EXCEPT !.blk[s.super.free_list].e[s.super.free_offset] = b,
                   !.super.free_offset = @ + 1]
    ELSE [s EXCEPT !.blk[b] = Free(s.super.free_list, [k \in 0 .. EPFB - 1 |-> None]),
                   !.super = [free_list |-> b, free_offset |-> 0]]

-------------------------------------------------------------------------------
(* The tree of an inode.  Level 0 are the direct pointers, level l > 0 the *)
(* blocks under l blocks of pointers.                                      *)

Power == [n \in 0 .. 3 |-> IF n = 0 THEN 1 ELSE IF n = 1 THEN EPB ELSE IF n = 2 THEN EPB * EPB ELSE EPB * EPB * EPB]

First(l) == CASE l = 0 -> 0 [] l = 1 -> NDirect [] l = 2 -> NDirect + EPB
              [] l = 3 -> NDirect + EPB + Power[2]

Level(o) == CASE o < First(1) -> 0 [] o < First(2) -> 1 [] o < First(3) -> 2 [] OTHER -> 3

\* Index in the block of pointers at depth d - 1.
Digit(o, l, d) == ((o - First(l)) \div Power[l - d]) % EPB

\* Mutated form: the second level enters through the single indirect pointer.
Entry_single(node, o, l) ==
    CASE l = 0 -> node.direct[o] [] OTHER -> node.root[1]

\* The pointer where the code enters the tree of level l: for the third level
\* it reads double_indirect.
Entry(node, o, l) ==
    CASE l = 0 -> node.direct[o] [] l = 3 -> node.root[2] [] OTHER -> node.root[l]

\* Follows pointers to depth d; the block at depth l is data.
Walk(b, node, o, d) ==
    LET l == Level(o)
        Down(p, k) == IF p = None THEN None ELSE Entries(b[p])[Digit(o, l, k)]
    IN FoldLeft(Down, Entry(node, o, l), [k \in 1 .. d |-> k])

unixdisk_traverse(b, node, o) == Walk(b, node, o, Level(o))

\* The block at depth d is new with offset o if o is the first offset below.
Starts(o, l, d) == (o - First(l)) % Power[l - d] = 0

SetEntry(node, o, l, p) ==
    IF l = 0 THEN [node EXCEPT !.direct[o] = p] ELSE [node EXCEPT !.root[l] = p]

Point(b, p, digit, q) ==
    IF p = None THEN b ELSE [b EXCEPT ![p] = Ind([Entries(@) EXCEPT ![digit] = q])]

\* The rounds of the loops of unixdisk_alloc for one offset: the blocks of
\* pointers that start here, then the block itself.
AllocOne(s, o) ==
    LET l == Level(o)
        Step(t, d) ==
            LET up == IF d = 0 THEN None ELSE Walk(t.blk, t.inode, o, d - 1)
                u  == unixdisk_popfree(t)
            IN IF ~Starts(o, l, d) THEN t
               ELSE IF d = 0 THEN [u EXCEPT !.inode = SetEntry(@, o, l, u.got)]
               ELSE [u EXCEPT !.blk = Point(@, up, Digit(o, l, d), u.got)]
    IN FoldLeft(Step, s, [d \in 1 .. l + 1 |-> d - 1])

unixdisk_alloc(s, o) ==
    LET n == s.inode.nblocks
        t == FoldLeft(AllocOne, s, [k \in 1 .. o + 1 - n |-> n + k - 1])
    IN [t EXCEPT !.inode.nblocks = o + 1]

Snapshot(i) == [super |-> super, inode |-> inode[i], blk |-> blk, got |-> None, full |-> FALSE]

\* A call that ran out of blocks goes on with the pointer -1, which is the
\* last block of inodes: what the disk then holds is not modelled.
unixdisk_write(i, o) ==
    LET n == inode[i].nblocks
        s == IF o >= n THEN unixdisk_alloc(Snapshot(i), o) ELSE Snapshot(i)
        p == unixdisk_traverse(s.blk, s.inode, o)
    IN /\ super' = s.super
       /\ inode' = [inode EXCEPT ![i] = s.inode]
       /\ blk' = IF p = None THEN s.blk ELSE [s.blk EXCEPT ![p] = Client(i, o)]
       /\ written' = [written EXCEPT ![i] = @ \cup {o}]
       /\ out' = [ret |-> 0, full |-> s.full]
       /\ UNCHANGED frees

\* What unixdisk_read returns; like unixdisk_getsize it changes nothing.
unixdisk_read(i, o) ==
    IF o >= inode[i].nblocks THEN None
    ELSE LET p == unixdisk_traverse(blk, inode[i], o) IN IF p = None THEN None ELSE blk[p]

\* The blocks of an inode in the order in which unixdisk_free_file frees them:
\* each block of pointers after the last block below it.
FreedWith(node, o) ==
    LET l == Level(o)
        Ends(d) == (o + 1 - First(l)) % Power[l - d] = 0 \/ o = node.nblocks - 1
        depths  == SelectSeq([k \in 1 .. l |-> l - k], Ends)
        Node(d) == IF d = 0 THEN node.root[l] ELSE Walk(blk, node, o, d)
    IN <<unixdisk_traverse(blk, node, o)>> \o [k \in DOMAIN depths |-> Node(depths[k])]

unixdisk_free_file(i) ==
    LET node  == inode[i]
        freed == FlattenSeq([k \in 1 .. node.nblocks |-> FreedWith(node, k - 1)])
    IN FoldLeft(unixdisk_pushfree, Snapshot(i), freed)

unixdisk_setsize(i, n) ==
    \/ /\ n = inode[i].nblocks
       /\ out' = [ret |-> 0, full |-> FALSE]
       /\ UNCHANGED <<super, inode, blk, written, frees>>
    \/ /\ n # inode[i].nblocks /\ n > 0
       /\ out' = [ret |-> -1, full |-> FALSE]
       /\ UNCHANGED <<super, inode, blk, written, frees>>
    \/ /\ n # inode[i].nblocks /\ n = 0
       /\ frees < MaxFrees /\ frees' = frees + 1
       /\ LET s == unixdisk_free_file(i) IN super' = s.super /\ blk' = s.blk
       /\ inode' = [inode EXCEPT ![i].nblocks = 0]
       /\ written' = [written EXCEPT ![i] = {}]
       /\ out' = [ret |-> 0, full |-> FALSE]

Undefined == out.full

Offsets == 0 .. MaxSize - 1

AnyNext ==
    /\ ~Undefined
    /\ \E i \in Inodes :
          \/ \E o \in Offsets : unixdisk_write(i, o)
          \/ \E n \in 0 .. MaxSize : unixdisk_setsize(i, n)

OpenSpec == Init /\ [][AnyNext]_vars

\* A client that leaves enough blocks.
Next == AnyNext /\ ~Undefined'

Spec == Init /\ [][Next]_vars

-------------------------------------------------------------------------------
(* Properties. *)

\* The nodes of the free list, from the head.
Heads ==
    LET More(h, k) == IF Last(h) = None THEN h ELSE Append(h, blk[Last(h)].next)
    IN FoldLeft(More, <<super.free_list>>, [k \in 1 .. NData |-> k])

FreeList ==
    LET hs == SelectSeq(Heads, LAMBDA h : h # None)
        Slots(k) == IF k = 1 THEN super.free_offset ELSE EPFB
    IN hs \o FlattenSeq([k \in DOMAIN hs |-> [j \in 1 .. Slots(k) |-> blk[hs[k]].e[j - 1]]])

Tree(i) == FlattenSeq([k \in 1 .. inode[i].nblocks |-> FreedWith(inode[i], k - 1)])

\* unixdisk_popfree, unixdisk_pushfree and the trees account for every data
\* block: each is in the free list or in one inode, once.
AllAccounted ==
    LET all == FreeList \o FlattenSeq([k \in 1 .. NInodes |-> Tree(k - 1)])
    IN Len(all) = NData /\ ToSet(all) = Blocks

\* Every block of an inode that was written since the inode was last emptied
\* still holds what unixdisk_write put there, whatever was written, grown or
\* freed in other places of the tree or in other inodes.
KeepsWrites ==
    \A i \in Inodes : \A o \in written[i] :
        unixdisk_read(i, o) = Client(i, o)

\* The type of superblock, inodes and blocks (unixdisk.h).
TypeOK ==
    /\ super \in [free_list : Blocks \cup {None}, free_offset : 0 .. EPFB]
    /\ \A i \in Inodes : inode[i].nblocks \in 0 .. MaxSize
    /\ DOMAIN blk = Blocks

\* unixdisk.c:286, "Returns (unsigned int)-1 on error": a write that finds the
\* disk full fails.
FullIsAnError == out.full => out.ret = -1
===============================================================================
