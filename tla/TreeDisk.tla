------------------------------- MODULE TreeDisk -------------------------------
(***************************************************************************)
(* The tree file system of src/src/block/treedisk.c on one inode of the    *)
(* store below, and the integrity check of treedisk_chk.c.                 *)
(*                                                                         *)
(* `disk` is the store below: the superblock (n_inodeblocks, free_list),   *)
(* the inodes, and the other blocks, which hold references or data (a      *)
(* block of zeros is both).  An operation is a series of writes; it is     *)
(* computed as the series of disk images after each of its writes          *)
(* (`images`) and the writes are done one at a time, so that the server    *)
(* can stop between any two.  panic() is such a stop.                      *)
(***************************************************************************)
EXTENDS Naturals, Sequences, SequencesExt, FiniteSetsExt

CONSTANTS NBlocks,         \* size of the store below
          NInodeBlocks,    \* blocks that hold inodes
          InodesPerBlock,  \* INODES_PER_BLOCK
          RefsPerBlock,    \* REFS_PER_BLOCK, a power of 2
          Modulus,         \* 2^32: the values of block_no and unsigned int wrap
          MaxOffset,       \* bound on the offsets that clients write
          Data,            \* contents of data blocks, other than zeros
          Zero,            \* a block of zeros read as data
          Garbage,         \* references read as data
          MaxStops         \* bound on the stops that are followed by a restart

ASSUME TreeDiskAssumption ==
    /\ NBlocks \in Nat /\ NBlocks >= NInodeBlocks + 2
    /\ NInodeBlocks \in Nat \ {0} /\ InodesPerBlock \in Nat \ {0}
    /\ RefsPerBlock \in Nat /\ RefsPerBlock > 1
    /\ MaxOffset \in Nat /\ MaxOffset + 1 < Modulus
    /\ Modulus \in Nat
    /\ Zero \notin Data /\ Garbage \notin Data \cup {Zero}
    /\ MaxStops \in Nat

VARIABLES disk,     \* the store below
          images,   \* the disk after each write the operation has yet to do
          op,       \* the operation being done
          phase,    \* "idle", "busy", "down" (stopped), "hang" (in a loop for ever),
                    \* or "damaged": what follows is not determined by the tree
          base,     \* the disk when the last operation ended
          stops     \* the number of operations cut short, by a stop or a panic

vars == <<disk, images, op, phase, base, stops>>

Inodes  == 0 .. NInodeBlocks * InodesPerBlock - 1
Blocks  == 0 .. NBlocks - 1
Offsets == 0 .. MaxOffset
Slots   == 0 .. RefsPerBlock - 1

ZeroRefs  == [s \in Slots |-> 0]
ZeroBlock == [refs |-> ZeroRefs, data |-> Zero]
RefBlock(r)  == [refs |-> r, data |-> Zero]
DataBlock(d) == [refs |-> ZeroRefs, data |-> d]

EmptyInode == [root |-> 0, nblocks |-> 0]

NoOp == [kind |-> "none"]

\* The type of the disk: superblock, inodes, references and data (treedisk.h).
TypeOK ==
    /\ disk.free_list \in Blocks
    /\ disk.n_inodeblocks \in Blocks
    /\ disk.inode \in [Inodes -> [root : Blocks, nblocks : 0 .. Modulus - 1]]
    /\ disk.blk \in [Blocks -> [refs : [Slots -> Blocks], data : Data \cup {Zero}]]
    /\ stops \in 0 .. MaxStops + 1
    /\ phase \in {"idle", "busy", "down", "hang", "damaged"}
    /\ images # <<>> => phase = "busy"

-------------------------------------------------------------------------------
(* Writes of an operation, threaded through a record with the disk as the   *)
(* operation sees it, the copy of the superblock in its snapshot, the       *)
(* images so far, and whether it has panicked.                              *)

Begin(d) ==
    [disk |-> d, free_list |-> d.free_list, n_inodeblocks |-> d.n_inodeblocks,
     images |-> <<>>, panic |-> FALSE, got |-> 0]

Put(s, d) == IF s.panic THEN s ELSE [s EXCEPT !.disk = d, !.images = Append(@, d)]

\* Block 0 is the superblock: its first two words are n_inodeblocks and
\* free_list, whatever the block was written as.
PutBlock(s, b, c) ==
    IF b = 0 THEN Put(s, [s.disk EXCEPT !.n_inodeblocks = c.refs[0], !.free_list = c.refs[1]])
    ELSE Put(s, [s.disk EXCEPT !.blk[b] = c])

\* The superblock is written from the snapshot, not changed in place.
PutFreeList(s, b) ==
    Put([s EXCEPT !.free_list = b],
        [s.disk EXCEPT !.free_list = b, !.n_inodeblocks = s.n_inodeblocks])

PutInode(s, i, r) == Put(s, [s.disk EXCEPT !.inode[i] = r])

Refs(d, b) == d.blk[b].refs

\* The last reference of the first free list block, or that block itself.
treedisk_alloc_block(s) ==
    LET b == s.free_list
        used == {k \in Slots \ {0} : Refs(s.disk, b)[k] # 0}
        i == Max(used)
    IN IF s.panic \/ b = 0 THEN [s EXCEPT !.panic = TRUE]
       ELSE IF used = {}
       THEN [PutFreeList(s, Refs(s.disk, b)[0]) EXCEPT !.got = b]
       ELSE [PutBlock(s, b, RefBlock([Refs(s.disk, b) EXCEPT ![i] = 0]))
               EXCEPT !.got = Refs(s.disk, b)[i]]

\* Mutated form: the new head of the free list forgets the old one.
treedisk_free_block_drop(s, target) ==
    LET s0 == PutBlock(s, target, ZeroBlock)
        b == s.free_list
        free == {k \in Slots \ {0} : Refs(s0.disk, b)[k] = 0}
    IN IF b = 0 \/ free = {} THEN PutFreeList(s0, target)
       ELSE PutBlock(s0, b, RefBlock([Refs(s0.disk, b) EXCEPT ![Min(free)] = target]))

\* The block is zeroed and put in the first free list block, or before it.
treedisk_free_block(s, target) ==
    LET s0 == PutBlock(s, target, ZeroBlock)
        b == s.free_list
        free == {k \in Slots \ {0} : Refs(s0.disk, b)[k] = 0}
    IN IF b = 0 THEN PutFreeList(s0, target)
       ELSE IF free # {}
       THEN PutBlock(s0, b, RefBlock([Refs(s0.disk, b) EXCEPT ![Min(free)] = target]))
       ELSE PutBlock(PutFreeList(s0, target), target,
                     RefBlock([ZeroRefs EXCEPT ![0] = b]))

-------------------------------------------------------------------------------
(* Levels of the tree. *)

\* Levels needed to reach offset o: the loops over log_shift_r.
Levels(o) == Min({l \in 0 .. Modulus : o \div RefsPerBlock ^ l = 0})

LevelsOfSize(n) == IF n = 0 THEN 0 ELSE Levels(n - 1)

\* Index of offset o in an indirect block with l levels below it.
Index(o, l) == (o \div RefsPerBlock ^ l) % RefsPerBlock

\* treedisk_free_file multiplies the capacity until it covers the file; the
\* product wraps, and once it is 0 the loop does not end.
Capacity[l \in Nat] ==
    IF l <= 1 THEN RefsPerBlock % Modulus ELSE (Capacity[l - 1] * RefsPerBlock) % Modulus

FreeLevels(n) ==
    LET enough == {l \in 1 .. Modulus : Capacity[l] >= n}
    IN IF enough = {} THEN 0 ELSE Min(enough)

FreeFileHangs(n) == n > 1 /\ FreeLevels(n) = 0

-------------------------------------------------------------------------------
(* Reading. *)

\* Mutated form: the index is taken at the wrong level.
Walk_off(d, root, o, levels) ==
    LET at[k \in 0 .. levels] ==
          IF k = 0 \/ at[k - 1] = 0 THEN root ELSE Refs(d, at[k - 1])[Index(o, k - 1)]
    IN at[levels]

\* The block that holds offset o, 0 for a hole.
Walk(d, root, o, levels) ==
    LET at[k \in 0 .. levels] ==
          IF k = 0 THEN root
          ELSE IF at[k - 1] = 0 THEN 0
          ELSE Refs(d, at[k - 1])[Index(o, levels - k)]
    IN at[levels]

treedisk_getsize(d, i) == d.inode[i].nblocks

\* Zero for a hole and, in this model, for what a read refuses.
treedisk_read(d, i, o) ==
    LET n == d.inode[i].nblocks
        b == Walk(d, d.inode[i].root, o, LevelsOfSize(n))
    IN IF o >= n \/ b = 0 THEN Zero
       ELSE IF d.blk[b].data # Zero \/ d.blk[b].refs = ZeroRefs THEN d.blk[b].data
       ELSE Garbage

-------------------------------------------------------------------------------
(* Writing. *)

\* Indirect blocks inserted above the root, n of them.
GrowTree(s, n) ==
    LET grown[k \in 0 .. n] ==
          IF k = 0 THEN s
          ELSE LET p == grown[k - 1]
                   a == treedisk_alloc_block(p)
               IN [PutBlock(a, a.got, RefBlock([ZeroRefs EXCEPT ![0] = p.ino.root]))
                     EXCEPT !.ino.root = a.got]
    IN grown[n]

\* One round of the loop that walks down: the next block is read, or
\* allocated and entered in its parent, the inode or the indirect block b.
Descend(s, i, o, isRoot, level, last) ==
    LET idx == Index(o, level)
        next == IF isRoot THEN s.ino.root ELSE s.tib[idx]
        a == treedisk_alloc_block(s)
        linked == IF isRoot
                  THEN [PutInode(a, i, [s.ino EXCEPT !.root = a.got])
                          EXCEPT !.ino.root = a.got]
                  ELSE PutBlock(a, s.b, RefBlock([s.tib EXCEPT ![idx] = a.got]))
    IN IF next = 0
       THEN [linked EXCEPT !.b = a.got, !.tib = ZeroRefs]
       ELSE [s EXCEPT !.b = next, !.tib = IF last THEN @ ELSE Refs(s.disk, next)]

\* The inode is written once, when the new indirect blocks are in place.
GrowInode(s, i, n) == LET t == GrowTree(s, n) IN PutInode(t, i, t.ino)

treedisk_write(d, i, o, block) ==
    LET old    == d.inode[i]
        grows  == o >= old.nblocks
        now    == LevelsOfSize(old.nblocks)
        after  == IF grows THEN Levels(o) ELSE now
        start  == [ino |-> [old EXCEPT !.nblocks = IF grows THEN (o + 1) % Modulus ELSE @],
                   b |-> 0, tib |-> ZeroRefs] @@ Begin(d)
        listed == IF grows THEN GrowInode(start, i, after - now) ELSE start
        walk[k \in 0 .. after] ==
            IF k = 0 THEN Descend(listed, i, o, TRUE, 0, after = 0)
            ELSE Descend(walk[k - 1], i, o, FALSE, after - k, k = after)
        s == walk[after]
    IN PutBlock(s, s.b, DataBlock(block))

-------------------------------------------------------------------------------
(* Freeing. *)

\* What is below a block that has l levels below it is freed before the block.
RECURSIVE recursive_free_file(_, _, _)
recursive_free_file(s, b, l) ==
    LET below(t, r) == IF r = 0 THEN t ELSE recursive_free_file(t, r, l - 1)
        refs == [k \in 1 .. RefsPerBlock |-> Refs(s.disk, b)[k - 1]]
    IN treedisk_free_block(IF l = 0 THEN s ELSE FoldLeft(below, s, refs), b)

treedisk_free_file(s, i) ==
    LET ino == s.disk.inode[i]
    IN IF ino.nblocks = 0 THEN s
       ELSE recursive_free_file(s, ino.root,
                                IF ino.nblocks = 1 THEN 0 ELSE FreeLevels(ino.nblocks))

\* setsize to 0: everything is freed, then the inode is emptied.
treedisk_setsize(d, i) == PutInode(treedisk_free_file(Begin(d), i), i, EmptyInode)

-------------------------------------------------------------------------------
(* Creating. *)

\* setup_freelist: block after block becomes a free list block that refers to
\* the following ones and to the free list block before it.
setup_freelist(d) ==
    LET first == NInodeBlocks + 1
        n == (NBlocks - first + RefsPerBlock - 1) \div RefsPerBlock
        head(k) == first + (k - 1) * RefsPerBlock
        list[k \in 0 .. n] ==
            IF k = 0 THEN Begin(d)
            ELSE PutBlock(list[k - 1], head(k),
                   RefBlock([s \in Slots |->
                      IF s = 0 THEN (IF k = 1 THEN 0 ELSE head(k - 1))
                      ELSE IF head(k) + s < NBlocks THEN head(k) + s ELSE 0]))
    IN [list[n] EXCEPT !.got = head(n)]

\* The superblock is written after the free list, in one write.
treedisk_create(d) ==
    LET s == setup_freelist(d)
        t == Put(s, [s.disk EXCEPT !.free_list = s.got, !.n_inodeblocks = NInodeBlocks])
    IN Put(t, [t.disk EXCEPT !.inode = [i \in Inodes |-> EmptyInode]])

BlankDisk ==
    [free_list |-> 0, n_inodeblocks |-> 0, inode |-> [i \in Inodes |-> EmptyInode],
     blk |-> [b \in Blocks |-> ZeroBlock]]

-------------------------------------------------------------------------------
(* treedisk_check: every block that the check visits, in its order. *)

\* check_inode below node b with l levels, of a file whose part in reach has
\* n blocks; references beyond the end of the file are not followed.
check_inode(d, root, n) ==
    LET levels == LevelsOfSize(n)
        visit[l \in 0 .. levels] ==
          [b \in Blocks, off \in 0 .. n - 1 |->
             IF b = 0 THEN <<>>
             ELSE IF l = 0 THEN <<b>>
             ELSE <<b>> \o FlattenSeq([k \in 1 .. RefsPerBlock |->
                    LET at == off + (k - 1) * RefsPerBlock ^ (l - 1)
                    IN IF k > 1 /\ at >= n THEN <<>>
                       ELSE visit[l - 1][Refs(d, b)[k - 1], at]])]
    IN IF n = 0 THEN <<>> ELSE visit[levels][root, 0]

\* The free list from block b on; more than NBlocks rounds visit one twice.
FreeListBlocks(d) ==
    LET chain[k \in 0 .. NBlocks] ==
          IF k = 0 THEN d.free_list
          ELSE IF chain[k - 1] = 0 THEN 0 ELSE Refs(d, chain[k - 1])[0]
    IN SelectSeq([k \in 1 .. NBlocks + 1 |-> chain[k - 1]], LAMBDA b : b # 0)

FreeBlocks(d) ==
    FlattenSeq([k \in DOMAIN FreeListBlocks(d) |->
        <<FreeListBlocks(d)[k]>> \o
        SelectSeq([s \in 1 .. RefsPerBlock - 1 |-> Refs(d, FreeListBlocks(d)[k])[s]],
                  LAMBDA b : b # 0)])

Visited(d) ==
    [b \in 1 .. 1 + NInodeBlocks |-> b - 1]
      \o FlattenSeq([i \in 1 .. NInodeBlocks * InodesPerBlock |->
            check_inode(d, d.inode[i - 1].root, d.inode[i - 1].nblocks)])
      \o FreeBlocks(d)

\* The check accepts if it marks no block twice.
treedisk_check(d) == IsInjective(Visited(d))

Leaked(d) == Blocks \ Range(Visited(d))

-------------------------------------------------------------------------------
(* The server. *)

\* An operation starts: its writes are known, none is done.
Start(o, s) ==
    /\ phase = "idle"
    /\ op' = [o EXCEPT !.panic = s.panic]
    /\ images' = s.images
    /\ phase' = "busy"
    /\ UNCHANGED <<disk, base, stops>>

Write(i, o, b) ==
    Start([kind |-> "write", ino |-> i, offset |-> o, block |-> b, panic |-> FALSE],
          treedisk_write(disk, i, o, b))

\* A size other than 0 and the current one is refused without any change.
SetSize(i) ==
    /\ phase = "idle"
    /\ disk.inode[i].nblocks # 0
    /\ IF FreeFileHangs(disk.inode[i].nblocks)
       THEN /\ phase' = "hang"
            /\ op' = [kind |-> "setsize", ino |-> i, panic |-> FALSE]
            /\ UNCHANGED <<disk, images, base, stops>>
       ELSE Start([kind |-> "setsize", ino |-> i, panic |-> FALSE], treedisk_setsize(disk, i))

Flush ==
    /\ phase = "busy" /\ images # <<>>
    /\ disk' = Head(images)
    /\ images' = Tail(images)
    /\ UNCHANGED <<op, phase, base, stops>>

\* The answer.  An operation that freed block 0 has overwritten the superblock:
\* inode numbers are refused, or blocks of data are taken for inodes.
Done ==
    /\ phase = "busy" /\ images = <<>> /\ ~op.panic
    /\ phase' = IF disk.n_inodeblocks = NInodeBlocks THEN "idle" ELSE "damaged"
    /\ op' = NoOp /\ base' = disk
    /\ UNCHANGED <<disk, images, stops>>

\* The machine stops, or a write below fails and treedisk panics.
Stop ==
    /\ phase = "busy" /\ stops < MaxStops
    /\ phase' = "down" /\ images' = <<>> /\ stops' = stops + 1
    /\ base' = disk
    /\ UNCHANGED <<disk, op>>

\* treedisk_alloc_block finds the free list empty: panic, exit(1).
Panic ==
    /\ phase = "busy" /\ images = <<>> /\ op.panic
    /\ phase' = "down" /\ base' = disk /\ stops' = stops + 1
    /\ UNCHANGED <<disk, images, op>>

\* The server is started again and nothing is checked: treedisk_create finds a
\* file system, or the part of one and makes it again.  When a block has two
\* uses, the server will take data for references and references for data.
Restart ==
    /\ phase = "down" /\ stops <= MaxStops
    /\ op' = IF disk.n_inodeblocks = 0 THEN [kind |-> "create", panic |-> FALSE] ELSE NoOp
    /\ IF disk.n_inodeblocks = 0
       THEN phase' = "busy" /\ images' = treedisk_create(disk).images
       ELSE /\ phase' = IF treedisk_check(disk) THEN "idle" ELSE "damaged"
            /\ UNCHANGED images
    /\ UNCHANGED <<disk, base, stops>>

Init ==
    /\ disk = BlankDisk /\ base = BlankDisk
    /\ images = treedisk_create(BlankDisk).images
    /\ op = [kind |-> "create", panic |-> FALSE]
    /\ phase = "busy" /\ stops = 0

Next ==
    \/ \E i \in Inodes, o \in Offsets, b \in Data : Write(i, o, b)
    \/ \E i \in Inodes : SetSize(i)
    \/ Flush
    \/ Done
    \/ Stop
    \/ Panic
    \/ Restart

Spec == Init /\ [][Next]_vars

-------------------------------------------------------------------------------
(* Properties. *)

\* treedisk_alloc_block, treedisk_free_block and the tree built by
\* treedisk_write fit together: when no operation is in progress and none was
\* cut short, treedisk_check accepts the disk and finds no leak, so that every
\* block is the superblock, an inode block, in exactly one tree, or free.
AllAccounted ==
    /\ TypeOK
    /\ phase = "idle" /\ stops = 0 => treedisk_check(disk) /\ Leaked(disk) = {}

SS == INSTANCE SparseStore WITH
        size <- [i \in Inodes |-> treedisk_getsize(base, i)],
        data <- [i \in Inodes |-> [o \in Offsets |-> treedisk_read(base, i, o)]],
        torn <- stops > 0,
        lost <- phase = "damaged"

\* What treedisk_read returns after treedisk_write, treedisk_setsize, a full
\* disk, stops between any two writes and restarts is what SparseStore allows:
\* a stop costs at most the block being written and the holes of its inode,
\* and the whole file system is lost only after a stop, when the server starts
\* on a disk with a block in two uses or frees block 0 for a block that the
\* stopped write never got.
ImplementsSparseStore == SS!Spec

\* "Set the size of the file": treedisk_setsize returns; the loop of
\* treedisk_free_file that computes the number of levels ends.
SetSizeReturns == phase # "hang"

\* "The remaining slots point to free blocks": also when treedisk_setsize or
\* treedisk_write was cut short, no block on the free list is in a tree.
FreeListHoldsFreeBlocks ==
    \A i \in Inodes :
        Range(FreeBlocks(base)) \cap
            Range(check_inode(base, base.inode[i].root, base.inode[i].nblocks)) = {}
===============================================================================
