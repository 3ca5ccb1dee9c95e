------------------------------- MODULE DiskStack -------------------------------
(***************************************************************************)
(* The block stores that only translate addresses, composed in the ways    *)
(* their interfaces allow:                                                 *)
(*                                                                         *)
(*   checkdisk( combinedisk(                                               *)
(*       raid0disk(mapdisk(partdisk(ramdisk A, PartSizes), 1), ramdisk B), *)
(*       partdisk(ramdisk E, PartSizes),                                   *)
(*       filedisk F ) )                                                    *)
(*                                                                         *)
(* A layer maps an address [ino, offset] to the set of addresses of the    *)
(* call it makes below: a singleton, or {} when it refuses.  The inodes    *)
(* given to combinedisk exist: beyond them its search leaves the array.    *)
(***************************************************************************)
EXTENDS Naturals, Sequences

CONSTANTS PartSizes,  \* partsizes of both partdisks
          MaxSize,    \* bound on the size of an inode and of a disk
          Block, Zero

VARIABLES store,     \* contents of the disks at the bottom
          nblocks,   \* filedisk: desired number of blocks
          current,   \* filedisk: blocks that were written
          bl,        \* checkdisk: blocks read or written, by address
          corrupted  \* checkdisk has reported a corruption and exited

vars == <<store, nblocks, current, bl, corrupted>>

At(i, o) == [ino |-> i, offset |-> o]

\* The loop over partsizes, and the one over the stores of combinedisk.
Before(sizes, ino) ==
    LET sum[i \in 0 .. Len(sizes)] == IF i = 0 THEN 0 ELSE sum[i - 1] + sizes[i]
    IN sum[ino]

PartTotal == Before(PartSizes, Len(PartSizes))

DiskStackAssumption ==
    /\ PartSizes \in Seq(Nat) /\ Len(PartSizes) >= 2
    /\ MaxSize \in Nat \ {0} /\ PartTotal <= MaxSize
    /\ Zero \in Block

partdisk(sizes, a) ==
    IF a.ino < Len(sizes) /\ a.offset < sizes[a.ino + 1]
    THEN {At(0, a.offset + Before(sizes, a.ino))} ELSE {}

mapdisk(ino, a) == IF a.ino = 0 THEN {At(ino, a.offset)} ELSE {}

\* Mutated form: every block goes to the first store below.
raid0disk_first(nbelow, a) ==
    IF a.ino = 0 THEN {At(0, a.offset \div nbelow)} ELSE {}

\* The offset of the address is that of the store below, its inode the store.
raid0disk(nbelow, a) ==
    IF a.ino = 0 THEN {At(a.offset % nbelow, a.offset \div nbelow)} ELSE {}

\* combinedisk_init counts the inodes of the stores below.
Ninodes == <<1, Len(PartSizes), 1>>

NInodes == Before(Ninodes, Len(Ninodes))
Inodes  == 0 .. NInodes - 1
Offsets == 0 .. MaxSize - 1

\* The store below that has inode `ino`.
Below(ino) ==
    CHOOSE i \in 1 .. Len(Ninodes) :
        Before(Ninodes, i - 1) <= ino /\ ino < Before(Ninodes, i)

PartOf(d, a) == {<<d, p.offset>> : p \in partdisk(PartSizes, a)}

\* The block at the bottom that a read or write of block o of inode i is for.
Place(i, o) ==
    LET s == Below(i)
        a == At(i - Before(Ninodes, s - 1), o)
    IN CASE s = 1 -> UNION {IF p.ino = 1 THEN {<<"B", p.offset>>}
                            ELSE UNION {PartOf("A", b) : b \in mapdisk(1, At(0, p.offset))}
                            : p \in raid0disk(2, a)}
         [] s = 2 -> PartOf("E", a)
         [] s = 3 -> {<<"F", a.offset>>}

Places == [a \in Inodes \X Offsets |-> Place(a[1], a[2])]

\* The stores below raid0disk have one size.
RamSize(d) == IF d \in {"A", "E"} THEN PartTotal ELSE PartSizes[2]

\* ramdisk_read, ramdisk_write, filedisk_read and filedisk_write refuse
\* offsets beyond the end.
Accepted(p) == IF p[1] = "F" THEN p[2] < nblocks ELSE p[2] < RamSize(p[1])

Target(i, o) == {p \in Places[<<i, o>>] : Accepted(p)}

Content(p) == IF p[1] = "F" /\ p[2] >= current THEN Zero ELSE store[p[1]][p[2]]

Disks == {"A", "B", "E", "F"}

\* The type of the disks at the bottom and of what checkdisk remembers.
TypeOK ==
    /\ store \in [Disks -> [Offsets -> Block]]
    /\ nblocks \in 0 .. MaxSize /\ current \in 0 .. MaxSize
    /\ DOMAIN bl \subseteq Inodes \X Offsets /\ \A a \in DOMAIN bl : bl[a] \in Block
    /\ corrupted \in BOOLEAN

Init ==
    /\ store = [d \in Disks |-> [o \in Offsets |-> Zero]]
    /\ nblocks = MaxSize /\ current = 0
    /\ bl = << >>
    /\ corrupted = FALSE

Parts == [i \in Inodes |-> Below(i)]

\* raid0disk_getsize adds up the size of the first store below.
getsize(i) ==
    LET s == Parts[i]
    IN CASE s = 1 -> 2 * PartSizes[2]
         [] s = 2 -> PartSizes[i - Ninodes[1] + 1]
         [] s = 3 -> nblocks

Remember(a, b) == bl' = [x \in DOMAIN bl \cup {a} |-> IF x = a THEN b ELSE bl[x]]

\* checkdisk_read compares what it gets with what it knows.
checkdisk_read(i, o) ==
    /\ UNCHANGED <<store, nblocks, current>>
    /\ \/ Target(i, o) = {} /\ UNCHANGED <<bl, corrupted>>
       \/ \E p \in Target(i, o) :
             IF <<i, o>> \in DOMAIN bl
             THEN corrupted' = (bl[<<i, o>>] # Content(p)) /\ UNCHANGED bl
             ELSE Remember(<<i, o>>, Content(p)) /\ UNCHANGED corrupted

\* filedisk_write extends the part of the file that was written.
NewCurrent(p) == IF p[1] = "F" /\ p[2] >= current THEN p[2] + 1 ELSE current

checkdisk_write(i, o, b) ==
    /\ UNCHANGED <<nblocks, corrupted>>
    /\ \/ Target(i, o) = {} /\ UNCHANGED <<store, current, bl>>
       \/ \E p \in Target(i, o) :
             /\ store' = [store EXCEPT ![p[1]][p[2]] = b]
             /\ current' = NewCurrent(p)
             /\ Remember(<<i, o>>, b)

\* checkdisk_setsize drops the addresses beyond the new end, also when the
\* call below is refused.
Forget(i, n) ==
    LET keep == {a \in DOMAIN bl : a[1] # i \/ a[2] < n} IN bl' = [a \in keep |-> bl[a]]

checkdisk_setsize(i, n) ==
    /\ Forget(i, n)
    /\ nblocks' = IF Parts[i] = 3 THEN n ELSE nblocks
    /\ UNCHANGED <<store, current, corrupted>>

\* None of the stores delays a write.
checkdisk_sync == UNCHANGED vars

Next ==
    /\ ~corrupted
    /\ \/ \E i \in Inodes, o \in Offsets : checkdisk_read(i, o)
       \/ \E i \in Inodes, o \in Offsets, b \in Block : checkdisk_write(i, o, b)
       \/ \E i \in Inodes, n \in 0 .. MaxSize : checkdisk_setsize(i, n)
       \/ checkdisk_sync

Spec == Init /\ [][Next]_vars

-------------------------------------------------------------------------------
(* Properties. *)

\* checkdisk_read never finds a block changed behind its back: no two inodes
\* of the composed store share a block and no refused or failing call moves
\* one.  (A run that violates this also deadlocks: checkdisk calls exit.)
NeverCorrupted == ~corrupted

\* The stores agree on where an inode ends: through raid0disk, mapdisk and
\* partdisk a block can be read exactly if it is below what getsize returns.
SizeIsRange == \A i \in Inodes, o \in Offsets : Target(i, o) # {} <=> o < getsize(i)

\* partdisk.c:11-14: "if 'below' has 24 blocks total, and partsizes is
\* [10, 4, 10], then writing to partdisk inode 0 offset 5 results in writing
\* to 'below' inode 0 offset 5, (1, 1) to (0, 10+1=11), and (2, 7) to
\* (0, 10+4+7=21)".
PartExample ==
    LET p == <<10, 4, 10>>
    IN /\ partdisk(p, At(0, 5)) = {At(0, 5)}
       /\ partdisk(p, At(1, 1)) = {At(0, 11)}
       /\ partdisk(p, At(2, 7)) = {At(0, 21)}
       /\ \A i, j \in 0 .. 2, o, q \in 0 .. 9 :
             partdisk(p, At(i, o)) \cap partdisk(p, At(j, q)) # {} => i = j /\ o = q
===============================================================================
