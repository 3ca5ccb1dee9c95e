------------------------------- MODULE ClockDisk -------------------------------
(***************************************************************************)
(* The block cache of src/src/block/clockdisk.c: a fixed number of cache   *)
(* slots in front of another block store, replaced by the CLOCK algorithm. *)
(* A write goes to a slot only; the store below sees it when the slot is   *)
(* reused or the inode is synced.                                          *)
(*                                                                         *)
(* The store below is external to this module.  It is modelled from how    *)
(* clockdisk.c uses it and from the stores the repository puts there:      *)
(* Growable = FALSE is a store of a fixed range, which refuses accesses at *)
(* or beyond its size and accepts every setsize (ramdisk.c, filedisk.c);   *)
(* Growable = TRUE is treedisk.c, which extends an inode that is written   *)
(* beyond its end and refuses every setsize except to 0 or to the current  *)
(* size (treedisk.c:271-297).                                              *)
(***************************************************************************)
EXTENDS Naturals, FiniteSetsExt

CONSTANTS NInodes,    \* number of inodes of the store below
          MaxSize,    \* bound on the number of blocks of an inode
          NCache,     \* nblocks, the number of cache slots
          Block,      \* block contents
          Zero,       \* contents of a block that was never written
          Err,        \* the result -1
          Growable    \* which kind of store is below

ASSUME ClockDiskAssumption ==
    /\ NInodes \in Nat \ {0}
    /\ MaxSize \in Nat \ {0}
    /\ NCache \in Nat \ {0}
    /\ Zero \in Block
    /\ Growable \in BOOLEAN

VARIABLES bsize,      \* sizes of the inodes of the store below
          bdata,      \* their contents
          cache,      \* blocks[] and block_infos[]
          clock_hand, \* next slot the replacement looks at
          out         \* the last operation and its result

vars == <<bsize, bdata, cache, clock_hand, out>>

Inodes  == 0 .. NInodes - 1
Offsets == 0 .. MaxSize - 1
Slots   == 0 .. NCache - 1

Status == {"EMPTY", "OLD", "NEW"}

Slot == [status : Status, dirty : BOOLEAN, ino : Inodes, offset : Offsets,
         block : Block]

\* The type of the slots and of the clock hand (struct clockdisk_state).
TypeOK ==
    /\ bsize \in [Inodes -> 0 .. MaxSize]
    /\ bdata \in [Inodes -> [Offsets -> Block]]
    /\ cache \in [Slots -> Slot]
    /\ clock_hand \in Slots

-------------------------------------------------------------------------------
(* The store below. *)

\* Writing the set of slots W back, in any order: the slots of W hold
\* different blocks (see Coherent), so the order does not matter.  A fixed
\* store refuses a block at or beyond the end and clockdisk.c does not look.
Accepted(W) == {s \in W : Growable \/ cache[s].offset < bsize[cache[s].ino]}

WriteBack(W) ==
    /\ bdata' = [i \in Inodes |-> [o \in Offsets |->
                   IF \E s \in Accepted(W) : cache[s].ino = i /\ cache[s].offset = o
                   THEN cache[CHOOSE s \in Accepted(W) :
                                 cache[s].ino = i /\ cache[s].offset = o].block
                   ELSE bdata[i][o]]]
    /\ bsize' = IF Growable
                THEN [i \in Inodes |->
                        Max({bsize[i]} \cup {cache[s].offset + 1 : s \in {t \in W : cache[t].ino = i}})]
                ELSE bsize

BelowSetSizeOK(i, n) == ~Growable \/ n = 0 \/ n = bsize[i]

-------------------------------------------------------------------------------
(* The cache. *)

\* clockdisk_init: calloc leaves every slot EMPTY.
EmptySlot == [status |-> "EMPTY", dirty |-> FALSE, ino |-> 0, offset |-> 0,
              block |-> Zero]

Init ==
    /\ bsize \in [Inodes -> 0 .. MaxSize]
    /\ bdata = [i \in Inodes |-> [o \in Offsets |-> Zero]]
    /\ cache = [s \in Slots |-> EmptySlot]
    /\ clock_hand = 0
    /\ out = [op |-> "init"]

InUse(s) == cache[s].status # "EMPTY"

Holds(s, i, o) == InUse(s) /\ cache[s].ino = i /\ cache[s].offset = o

Hit(i, o) == \E s \in Slots : Holds(s, i, o)

\* The loops of read and write stop at the first slot that holds the block.
FirstHolding(s, i, o) ==
    Holds(s, i, o) /\ \A t \in Slots : Holds(t, i, o) => s <= t

\* Number of slots the hand passes before it reaches s.
Distance(s) == (s + NCache - clock_hand) % NCache

AllNew == \A s \in Slots : cache[s].status = "NEW"

\* The loop of cache_update stops at the first slot that is not NEW, and
\* after a full turn, which leaves every slot OLD, at the slot where it began.
IsVictim(v) ==
    IF AllNew THEN v = clock_hand
    ELSE /\ cache[v].status # "NEW"
         /\ \A s \in Slots : Distance(s) < Distance(v) => cache[s].status = "NEW"

\* The slots it passes lose their second chance.
Passed(v) == IF AllNew THEN Slots ELSE {s \in Slots : Distance(s) < Distance(v)}

\* Mutated form: the victim's block is dropped, dirty or not.
VictimDropped(v) == {}

\* A dirty victim is written back before its slot is reused.
VictimWrittenBack(v) == IF InUse(v) /\ cache[v].dirty THEN {v} ELSE {}

\* Mutated form: the hand runs off the end of the slots.
NextHandNoWrap(v) == v + 1

NextHand(v) == (v + 1) % NCache

cache_update(i, o, b, dirty) ==
    \E v \in Slots :
        /\ IsVictim(v)
        /\ WriteBack(VictimWrittenBack(v))
        /\ cache' = [s \in Slots |->
              IF s = v
              THEN [status |-> "NEW", dirty |-> dirty, ino |-> i, offset |-> o,
                    block |-> b]
              ELSE IF s \in Passed(v) THEN [cache[s] EXCEPT !.status = "OLD"]
              ELSE cache[s]]
        /\ clock_hand' = NextHand(v)

clockdisk_getsize(i) ==
    /\ out' = [op |-> "getsize", ino |-> i, ret |-> bsize[i]]
    /\ UNCHANGED <<bsize, bdata, cache, clock_hand>>

\* Mutated form: the block at the new end of the inode stays in its slot.
BeyondOffByOne(i, n) == {s \in Slots : InUse(s) /\ cache[s].ino = i /\ cache[s].offset > n}

\* The slots with blocks that are about to be deleted.
Beyond(i, n) == {s \in Slots : InUse(s) /\ cache[s].ino = i /\ cache[s].offset >= n}

\* The slots are emptied, dirty or not, before the store below is asked.
clockdisk_setsize(i, n) ==
    /\ cache' = [s \in Slots |->
          IF s \in Beyond(i, n)
          THEN [cache[s] EXCEPT !.status = "EMPTY"]
          ELSE cache[s]]
    /\ bsize' = IF BelowSetSizeOK(i, n) THEN [bsize EXCEPT ![i] = n] ELSE bsize
    /\ out' = [op |-> "setsize", ret |-> IF BelowSetSizeOK(i, n) THEN bsize[i] ELSE Err]
    /\ UNCHANGED <<bdata, clock_hand>>

ReadHit(i, o) ==
    \E s \in Slots :
        /\ FirstHolding(s, i, o)
        /\ cache' = [cache EXCEPT ![s].status = "NEW"]
        /\ out' = [op |-> "read", ret |-> cache[s].block]
        /\ UNCHANGED <<bsize, bdata, clock_hand>>

ReadMiss(i, o) ==
    /\ ~Hit(i, o)
    /\ o < bsize[i]
    /\ cache_update(i, o, bdata[i][o], FALSE)
    /\ out' = [op |-> "read", ret |-> bdata[i][o]]

ReadBad(i, o) ==
    /\ ~Hit(i, o)
    /\ o >= bsize[i]
    /\ out' = [op |-> "read", ret |-> Err]
    /\ UNCHANGED <<bsize, bdata, cache, clock_hand>>

clockdisk_read(i, o) == ReadHit(i, o) \/ ReadMiss(i, o) \/ ReadBad(i, o)

\* Mutated form: a write hit forgets to mark the slot.
OverwrittenClean(s, b) == [cache[s] EXCEPT !.block = b, !.status = "NEW"]

Overwritten(s, b) == [cache[s] EXCEPT !.block = b, !.status = "NEW", !.dirty = TRUE]

WriteHit(i, o, b) ==
    \E s \in Slots :
        /\ FirstHolding(s, i, o)
        /\ cache' = [cache EXCEPT ![s] = Overwritten(s, b)]
        /\ UNCHANGED <<bsize, bdata, clock_hand>>

WriteMiss(i, o, b) ==
    /\ ~Hit(i, o)
    /\ cache_update(i, o, b, TRUE)

clockdisk_write(i, o, b) ==
    /\ WriteHit(i, o, b) \/ WriteMiss(i, o, b)
    /\ out' = [op |-> "write", ret |-> 0]

\* I is {ino}, or every inode when the argument is (unsigned int) -1.
clockdisk_sync(I) ==
    LET W == {s \in Slots : InUse(s) /\ cache[s].dirty /\ cache[s].ino \in I}
    IN  /\ WriteBack(W)
        /\ cache' = [s \in Slots |->
              IF s \in W THEN [cache[s] EXCEPT !.dirty = FALSE] ELSE cache[s]]
        /\ out' = [op |-> "sync", ret |-> 0]
        /\ UNCHANGED clock_hand

\* The block server dies and a new one calls clockdisk_init: the slots are
\* gone, the store below is not.
Restart ==
    /\ cache' = [s \in Slots |-> EmptySlot]
    /\ clock_hand' = 0
    /\ out' = [op |-> "init"]
    /\ UNCHANGED <<bsize, bdata>>

Common ==
    \/ \E i \in Inodes : clockdisk_getsize(i)
    \/ \E i \in Inodes, n \in 0 .. MaxSize : clockdisk_setsize(i, n)
    \/ \E i \in Inodes, o \in Offsets : clockdisk_read(i, o)
    \/ \E I \in {Inodes} \cup {{i} : i \in Inodes} : clockdisk_sync(I)
    \/ Restart

\* The client the block server puts on top, treedisk.c, writes only blocks
\* below the size of the store.
Next ==
    \/ Common
    \/ \E i \in Inodes, o \in Offsets, b \in Block :
          o < bsize[i] /\ clockdisk_write(i, o, b)

Spec == Init /\ [][Next]_vars

\* Any client of the interface.
OpenNext ==
    \/ Common
    \/ \E i \in Inodes, o \in Offsets, b \in Block : clockdisk_write(i, o, b)

OpenSpec == Init /\ [][OpenNext]_vars

-------------------------------------------------------------------------------
(* Properties. *)

\* What a read of block o of inode i finds: the cached copy if there is one.
View == [i \in Inodes |-> [o \in Offsets |->
            IF Hit(i, o) THEN cache[CHOOSE s \in Slots : Holds(s, i, o)].block
            ELSE bdata[i][o]]]

Store == INSTANCE BlockStore
            WITH size <- bsize, data <- View, disk <- bdata

\* Whatever the hits, misses, evictions, syncs, truncations and restarts, the
\* cache in front of the store is a block store: reads return the last write,
\* only written data reaches the store below, and a synced inode is there
\* completely (clockdisk_read, clockdisk_write, clockdisk_sync).
ImplementsBlockStore == Store!Spec

\* No block is in two slots (the loops of clockdisk_read and clockdisk_write
\* stop at the first one, so a second would be stale), and a slot that is not
\* dirty may be dropped without loss: the store below has the same contents.
Coherent ==
    /\ \A s, t \in Slots :
          InUse(s) /\ Holds(t, cache[s].ino, cache[s].offset) => s = t
    /\ \A s \in Slots :
          InUse(s) /\ ~cache[s].dirty =>
             bdata[cache[s].ino][cache[s].offset] = cache[s].block

\* Every block in a slot lies within its inode, so the store below accepts
\* it when it is written back; clockdisk.c ignores the result of that write
\* (cache_update and clockdisk_sync).
WriteBackAccepted ==
    \A s \in Slots : InUse(s) => cache[s].offset < bsize[cache[s].ino]

\* clockdisk.c:3-4 says the module "contains a write-through cache": the
\* store below always has what the slots have.
CachedBlocksWrittenThrough ==
    \A s \in Slots : InUse(s) => bdata[cache[s].ino][cache[s].offset] = cache[s].block

\* block_store.h:44 says of every operation that it returns -1 upon error: a
\* setsize that did so has deleted nothing (clockdisk_setsize).
RefusedSetSizeKeepsData ==
    [][out'.op = "setsize" /\ out'.ret = Err => View' = View]_vars

\* block_store.h:20-21 says getsize returns the size of the block store at the
\* inode: a block that was written and can be read is within it
\* (clockdisk_getsize).
GetSizeCoversWrites ==
    out.op = "getsize" =>
       \A s \in Slots : InUse(s) /\ cache[s].ino = out.ino => cache[s].offset < out.ret
===============================================================================
