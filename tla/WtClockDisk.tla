------------------------------ MODULE WtClockDisk ------------------------------
(***************************************************************************)
(* The write-through block cache of src/src/block/wtclockdisk.c: the slots *)
(* and the CLOCK replacement of clockdisk.c, but every write goes to the   *)
(* store below at once.  The store below, external to this module, has a   *)
(* fixed range and, if CanFail, may refuse any write.                      *)
(***************************************************************************)
EXTENDS Naturals, FiniteSetsExt

CONSTANTS NInodes, MaxSize, NCache, Block, Zero, Err,
          CanFail     \* whether writes below the end can fail

WtClockDiskAssumption ==
    /\ NInodes \in Nat \ {0} /\ MaxSize \in Nat \ {0} /\ NCache \in Nat \ {0}
    /\ Zero \in Block /\ Err \notin Block /\ CanFail \in BOOLEAN

VARIABLES bsize, bdata,  \* sizes and contents of the inodes of the store below
          cache,         \* blocks[] and block_infos[]
          clock_hand,
          out            \* the last operation and its result

vars == <<bsize, bdata, cache, clock_hand, out>>

Inodes  == 0 .. NInodes - 1
Offsets == 0 .. MaxSize - 1
Slots   == 0 .. NCache - 1

Slot == [status : {"EMPTY", "OLD", "NEW"}, ino : Inodes, offset : Offsets, block : Block]

EmptySlot == [status |-> "EMPTY", ino |-> 0, offset |-> 0, block |-> Zero]

\* The type of the slots and of the store below (struct wtclockdisk_state).
TypeOK ==
    /\ bsize \in [Inodes -> 0 .. MaxSize]
    /\ bdata \in [Inodes -> [Offsets -> Block]]
    /\ cache \in [Slots -> Slot]
    /\ clock_hand \in Slots

Init ==
    /\ bsize \in [Inodes -> 0 .. MaxSize]
    /\ bdata = [i \in Inodes |-> [o \in Offsets |-> Zero]]
    /\ cache = [s \in Slots |-> EmptySlot]
    /\ clock_hand = 0
    /\ out = [op |-> "init"]

Holds(s, i, o) == cache[s].status # "EMPTY" /\ cache[s].ino = i /\ cache[s].offset = o

Hit(i, o) == {s \in Slots : Holds(s, i, o)}

\* Slots that the hand passes, each of which becomes OLD: those before the
\* first that is not NEW, and all of them if there is none.
Distance(s) == (s + NCache - clock_hand) % NCache
Passed == {s \in Slots : \A t \in Slots : Distance(t) <= Distance(s) => cache[t].status = "NEW"}

NextHand(v) == (v + 1) % NCache

Victim == (clock_hand + Cardinality(Passed)) % NCache

cache_update(i, o, b) ==
    /\ cache' = [s \in Slots |->
          IF s = Victim THEN [status |-> "NEW", ino |-> i, offset |-> o, block |-> b]
          ELSE IF s \in Passed THEN [cache[s] EXCEPT !.status = "OLD"]
          ELSE cache[s]]
    /\ clock_hand' = NextHand(Victim)

wtclockdisk_getsize(i) ==
    /\ out' = [op |-> "getsize", ino |-> i, ret |-> bsize[i]]
    /\ UNCHANGED <<bsize, bdata, cache, clock_hand>>

wtclockdisk_setsize(i, n) ==
    /\ cache' = [s \in Slots |->
          IF cache[s].status # "EMPTY" /\ cache[s].ino = i /\ cache[s].offset >= n
          THEN [cache[s] EXCEPT !.status = "EMPTY"] ELSE cache[s]]
    /\ bsize' = [bsize EXCEPT ![i] = n]
    /\ out' = [op |-> "setsize", ret |-> bsize[i]]
    /\ UNCHANGED <<bdata, clock_hand>>

wtclockdisk_read(i, o) ==
    /\ UNCHANGED <<bsize, bdata>>
    /\ \/ /\ Hit(i, o) # {}
          /\ cache' = [cache EXCEPT ![Min(Hit(i, o))].status = "NEW"]
          /\ out' = [op |-> "read", ret |-> cache[Min(Hit(i, o))].block]
          /\ UNCHANGED clock_hand
       \/ /\ Hit(i, o) = {} /\ o < bsize[i]
          /\ cache_update(i, o, bdata[i][o])
          /\ out' = [op |-> "read", ret |-> bdata[i][o]]
       \/ /\ Hit(i, o) = {} /\ o >= bsize[i]
          /\ out' = [op |-> "read", ret |-> Err]
          /\ UNCHANGED <<cache, clock_hand>>

\* Mutated form: a hit changes only the slot.
BelowWrite_hit(i, o, b, ok) ==
    bdata' = IF ok /\ Hit(i, o) = {} THEN [bdata EXCEPT ![i][o] = b] ELSE bdata

\* The write to the store below.
BelowWrite(i, o, b, ok) == bdata' = IF ok THEN [bdata EXCEPT ![i][o] = b] ELSE bdata

\* A hit changes the slot and then the store below; a miss takes a slot only
\* if the write below succeeded.
wtclockdisk_write(i, o, b, ok) ==
    /\ ok => o < bsize[i]
    /\ ~ok => CanFail \/ o >= bsize[i]
    /\ BelowWrite(i, o, b, ok)
    /\ IF Hit(i, o) # {}
       THEN /\ cache' = [cache EXCEPT ![Min(Hit(i, o))].block = b, ![Min(Hit(i, o))].status = "NEW"]
            /\ UNCHANGED clock_hand
       ELSE IF ok THEN cache_update(i, o, b)
       ELSE UNCHANGED <<cache, clock_hand>>
    /\ out' = [op |-> "write", ret |-> IF ok THEN 0 ELSE Err]
    /\ UNCHANGED bsize

wtclockdisk_sync ==
    /\ out' = [op |-> "sync", ret |-> 0]
    /\ UNCHANGED <<bsize, bdata, cache, clock_hand>>

Next ==
    \/ \E i \in Inodes : wtclockdisk_getsize(i)
    \/ \E i \in Inodes, n \in 0 .. MaxSize : wtclockdisk_setsize(i, n)
    \/ \E i \in Inodes, o \in Offsets : wtclockdisk_read(i, o)
    \/ \E i \in Inodes, o \in Offsets, b \in Block, ok \in BOOLEAN : wtclockdisk_write(i, o, b, ok)
    \/ wtclockdisk_sync

Spec == Init /\ [][Next]_vars

-------------------------------------------------------------------------------
(* Properties. *)

View == [i \in Inodes |-> [o \in Offsets |->
            IF Hit(i, o) # {} THEN cache[Min(Hit(i, o))].block ELSE bdata[i][o]]]

\* What wtclockdisk_write promises over clockdisk.c: through any evictions,
\* truncations and hits, each block is in at most one slot and that slot has
\* what the store below has, so that a stop of the server loses nothing.
WrittenThrough ==
    /\ View = bdata
    /\ \A i \in Inodes, o \in Offsets : Cardinality(Hit(i, o)) <= 1
    /\ \A i \in Inodes, o \in Offsets : Hit(i, o) # {} => o < bsize[i]

\* wtclockdisk.c: a cached block is in one slot and has what the store below
\* has, through evictions, truncations and hits.
WtWrittenThrough == TypeOK /\ WrittenThrough

\* block_store.h:44 says an operation returns -1 upon error: a write that did
\* so has not changed what reads return (wtclockdisk_write).
FailedWriteChangesNothing ==
    [][out'.op = "write" /\ out'.ret = Err => View' = View]_vars
===============================================================================
