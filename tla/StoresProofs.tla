----------------------------- MODULE StoresProofs -----------------------------
(***************************************************************************)
(* Proofs about the stores of module Stores, one section for each: for     *)
(* every size, number of mirrors, slots and partitions.                    *)
(***************************************************************************)
EXTENDS Stores, Facts

-------------------------------------------------------------------------------
(* raid1disk.c: for every pattern of failing calls. *)

\* What SurvivorIsUsed needs to be inductive: a mirror that is marked broken
\* failed an operation within its range.
BrokenFailed == broken \subseteq failed

MirrorsInv == MirrorsRight /\ BrokenFailed

\* The first mirror of a set of mirrors is one of them (the loops over below[]).
LEMMA FirstMirror ==
    ASSUME Raid1Assumption, NEW S \in SUBSET Mirrors, S # {}
    PROVE  Min(S) \in S
<1>1. S \in SUBSET Nat
  BY DEF Mirrors, Raid1Assumption
<1>2. QED
  BY <1>1, MinNat

\* raid1disk_create: all mirrors are good and empty.
LEMMA MirrorsInit == ASSUME Raid1Assumption PROVE Init => MirrorsInv
BY DEF Raid1Assumption, Init, MirrorsInv, BrokenFailed, MirrorsRight, TypeOK, MirrorsAgree,
       ReadsLastWrite, SurvivorIsUsed, Mirrors, Offsets, Good

\* Each operation, whichever mirrors fail it, keeps the invariant.
LEMMA MirrorsStep == ASSUME Raid1Assumption, MirrorsInv, [Next]_vars PROVE MirrorsInv'
<1> USE DEF MirrorsInv, MirrorsRight
<1>0. SUFFICES TypeOK' /\ MirrorsAgree' /\ ReadsLastWrite' /\ BrokenFailed'
  BY DEF TypeOK, BrokenFailed, SurvivorIsUsed, Good, Mirrors
<1>1. ASSUME NEW fail \in SUBSET Mirrors, raid1disk_getsize(fail)
      PROVE  TypeOK' /\ MirrorsAgree' /\ ReadsLastWrite' /\ BrokenFailed'
  BY <1>1 DEF raid1disk_getsize, NotAnswering, TypeOK, MirrorsAgree, ReadsLastWrite,
              BrokenFailed, Good
<1>2. ASSUME NEW fail \in SUBSET Mirrors, NEW n \in 0 .. MaxSize, raid1disk_setsize(n, fail)
      PROVE  TypeOK' /\ MirrorsAgree' /\ ReadsLastWrite' /\ BrokenFailed'
  BY <1>2 DEF raid1disk_setsize, TypeOK, MirrorsAgree, ReadsLastWrite, BrokenFailed, Good
<1>3. ASSUME NEW fail \in SUBSET Mirrors, NEW o \in Offsets, raid1disk_read(o, fail)
      PROVE  TypeOK' /\ MirrorsAgree' /\ ReadsLastWrite' /\ BrokenFailed'
  <2>1. TypeOK' /\ MirrorsAgree' /\ BrokenFailed'
    BY <1>3 DEF raid1disk_read, TypeOK, MirrorsAgree, BrokenFailed, Good
  <2> DEFINE ok == {m \in Good \ fail : o < msize[m]}
  <2>2. ok # {} => Min(ok) \in ok
    BY FirstMirror DEF Good
  <2>3. ok # {} => mdata[Min(ok)][o] = last[o]
    BY <2>2 DEF MirrorsAgree, Good
  <2>4. out' = [op |-> "read", off |-> o, ret |-> IF ok = {} THEN Err ELSE mdata[Min(ok)][o]]
        /\ last' = last
    BY <1>3 DEF raid1disk_read
  <2>5. ReadsLastWrite'
    <3> HIDE DEF ok
    <3> QED
      BY <2>3, <2>4 DEF ReadsLastWrite
  <2>6. QED
    BY <2>1, <2>5
<1>4. ASSUME NEW fail \in SUBSET Mirrors, raid1disk_sync(fail)
      PROVE  TypeOK' /\ MirrorsAgree' /\ ReadsLastWrite' /\ BrokenFailed'
  BY <1>4 DEF raid1disk_sync, MarkBroken, TypeOK, MirrorsAgree, ReadsLastWrite,
              BrokenFailed, Good
<1>5. ASSUME NEW fail \in SUBSET Mirrors, NEW o \in Offsets, NEW b \in Block,
             \A m \in Good : o < msize[m], raid1disk_write(o, b, fail)
      PROVE  TypeOK' /\ MirrorsAgree' /\ ReadsLastWrite' /\ BrokenFailed'
  <2> DEFINE ok == {m \in Good \ fail : o < msize[m]}
  <2>1. ok = Good \ fail
    BY <1>5
  <2>2. /\ mdata' = [m \in Mirrors |-> IF m \in Good \ fail
                                       THEN [mdata[m] EXCEPT ![o] = b] ELSE mdata[m]]
        /\ broken' = broken \cup (Good \ (Good \ fail))
        /\ last' = IF Good \ fail # {} THEN [last EXCEPT ![o] = b] ELSE last
        /\ out'.op = "write"
        /\ failed' = failed \cup (fail \cap Good)
        /\ msize' = msize
    BY <1>5, <2>1 DEF raid1disk_write, MarkBroken
  <2>3. Good' = Good \ fail
    BY <2>2 DEF Good
  <2>4. TypeOK'
    BY <2>2 DEF TypeOK, Good
  <2>5. MirrorsAgree'
    BY <2>2, <2>3 DEF MirrorsAgree, TypeOK, Good
  <2>6. QED
    BY <2>2, <2>4, <2>5 DEF ReadsLastWrite, BrokenFailed
<1>6. CASE UNCHANGED vars
  BY <1>6 DEF vars, TypeOK, MirrorsAgree, ReadsLastWrite, BrokenFailed, Good
<1>7. QED
  BY <1>1, <1>2, <1>3, <1>4, <1>5, <1>6 DEF Next, Common

\* Mirroring is correct (raid1disk.c as a whole): whichever calls fail on
\* whichever mirrors, a client that writes within the size it was told reads
\* what it last wrote, or an error, and no mirror that missed a write is used.
THEOREM MirroringCorrect == ASSUME Raid1Assumption PROVE Spec => []MirrorsRight
<1>1. Init => MirrorsInv
  BY MirrorsInit
<1>2. MirrorsInv /\ [Next]_vars => MirrorsInv'
  BY MirrorsStep
<1>3. MirrorsInv => MirrorsRight
  BY DEF MirrorsInv
<1>4. QED
  BY <1>1, <1>2, <1>3, PTL DEF Spec

-------------------------------------------------------------------------------
(* wtclockdisk.c: over a store that accepts the writes within its range.  The *)
(* operators that an instance takes from the library are those of the library. *)

\* Min is the library's.
LEMMA WtMin == ASSUME NEW S PROVE Wt!Min(S) = Min(S)
BY DEF Wt!Min, Min

\* Cardinality is the library's.
LEMMA WtCardinality == ASSUME NEW S PROVE Wt!Cardinality(S) = Cardinality(S)
BY DEF Wt!Cardinality, Cardinality

\* The inductive form of WrittenThrough, slot by slot.
SlotsCoherent ==
    \A s \in Wt!Slots : cache[s].status # "EMPTY" =>
        /\ cache[s].block = bdata[cache[s].ino][cache[s].offset]
        /\ cache[s].offset < bsize[cache[s].ino]
        /\ \A t \in Wt!Slots : (/\ cache[t].status # "EMPTY"
                                /\ cache[t].ino = cache[s].ino
                                /\ cache[t].offset = cache[s].offset)
                               => t = s

CacheInv == Wt!TypeOK /\ SlotsCoherent

\* A block is in no slot or in exactly one, which Min finds (the loop over
\* block_infos[] in wtclockdisk_read and wtclockdisk_write).
LEMMA HitIsOne ==
    ASSUME Wt!WtClockDiskAssumption, CacheInv,
           NEW i \in Wt!Inodes, NEW o \in Wt!Offsets, Wt!Hit(i, o) # {}
    PROVE  \E s \in Wt!Slots : /\ Wt!Hit(i, o) = {s} /\ Wt!Min(Wt!Hit(i, o)) = s
                               /\ cache[s].status # "EMPTY"
                               /\ cache[s].ino = i /\ cache[s].offset = o
<1>1. PICK s \in Wt!Slots : Wt!Holds(s, i, o)
  BY DEF Wt!Hit
<1>2. Wt!Hit(i, o) = {s}
  BY <1>1 DEF Wt!Hit, Wt!Holds, CacheInv, SlotsCoherent
<1>3. Wt!Min({s}) = s
  <2>1. {s} \in SUBSET Nat
    BY DEF Wt!Slots, Wt!WtClockDiskAssumption
  <2>2. QED
    BY <2>1, MinNat, WtMin
<1>4. QED
  BY <1>1, <1>2, <1>3 DEF Wt!Holds

\* The invariant has the form that the property states.
LEMMA InvWrittenThrough == ASSUME Wt!WtClockDiskAssumption, CacheInv PROVE Wt!WrittenThrough
<1>1. ASSUME NEW i \in Wt!Inodes, NEW o \in Wt!Offsets
      PROVE  /\ Wt!View[i][o] = bdata[i][o]
             /\ Cardinality(Wt!Hit(i, o)) <= 1
             /\ Wt!Hit(i, o) # {} => o < bsize[i]
  <2>1. CASE Wt!Hit(i, o) = {}
    BY <2>1, FS_EmptySet DEF Wt!View
  <2>2. CASE Wt!Hit(i, o) # {}
    <3>1. PICK s \in Wt!Slots : /\ Wt!Hit(i, o) = {s} /\ Wt!Min(Wt!Hit(i, o)) = s
                                /\ cache[s].status # "EMPTY"
                                /\ cache[s].ino = i /\ cache[s].offset = o
      BY <2>2, HitIsOne
    <3>2. Cardinality({s}) = 1
      BY FS_Singleton
    <3>3. cache[s].block = bdata[i][o] /\ o < bsize[i]
      BY <3>1 DEF CacheInv, SlotsCoherent
    <3>4. Wt!View[i][o] = cache[s].block
      BY <2>2, <3>1 DEF Wt!View
    <3>5. QED
      BY <3>1, <3>2, <3>3, <3>4
  <2>3. QED
    BY <2>1, <2>2
<1>2. Wt!View = bdata
  <2>1. Wt!View = [i \in Wt!Inodes |-> [o \in Wt!Offsets |-> Wt!View[i][o]]]
    BY DEF Wt!View
  <2>2. bdata = [i \in Wt!Inodes |-> [o \in Wt!Offsets |-> bdata[i][o]]]
    BY DEF CacheInv, Wt!TypeOK
  <2>3. QED
    BY <1>1, <2>1, <2>2
<1>3. QED
  BY <1>1, <1>2, WtCardinality DEF Wt!WrittenThrough

\* The hand stays within the slots (cache_update).
LEMMA VictimIsSlot == ASSUME Wt!WtClockDiskAssumption, CacheInv PROVE Wt!Victim \in Wt!Slots
<1>1. IsFiniteSet(Wt!Slots)
  BY FS_Interval DEF Wt!Slots, Wt!WtClockDiskAssumption
<1>2. Cardinality(Wt!Passed) \in Nat
  BY <1>1, FS_Subset, FS_CardinalityType DEF Wt!Passed
<1>3. clock_hand \in Nat
  BY DEF CacheInv, Wt!TypeOK, Wt!Slots, Wt!WtClockDiskAssumption
<1>4. QED
  BY <1>2, <1>3, WtCardinality DEF Wt!Victim, Wt!Slots, Wt!WtClockDiskAssumption

\* Taking a slot for a block that is in none, and that the store below has
\* with these contents, keeps the invariant; so does writing it there first.
LEMMA UpdateKeepsInv ==
    ASSUME Wt!WtClockDiskAssumption, CacheInv,
           NEW i \in Wt!Inodes, NEW o \in Wt!Offsets, NEW b \in Block,
           Wt!Hit(i, o) = {}, o < bsize[i], Wt!cache_update(i, o, b),
           bsize' = bsize, bdata' = [bdata EXCEPT ![i][o] = b]
    PROVE  CacheInv'
<1>1. Wt!Victim \in Wt!Slots
  BY VictimIsSlot
<1>2. PICK v \in Wt!Slots :
        /\ cache' = [s \in Wt!Slots |->
              IF s = v THEN [status |-> "NEW", ino |-> i, offset |-> o, block |-> b]
              ELSE IF s \in Wt!Passed THEN [cache[s] EXCEPT !.status = "OLD"]
              ELSE cache[s]]
        /\ clock_hand' = Wt!NextHand(v)
  BY <1>1 DEF Wt!cache_update
<1>3. \A s \in Wt!Passed : s \in Wt!Slots /\ cache[s].status = "NEW"
  BY DEF Wt!Passed, Wt!Distance, Wt!Slots, CacheInv, Wt!TypeOK, Wt!WtClockDiskAssumption
<1>4. /\ cache'[v].status = "NEW" /\ cache'[v].ino = i
      /\ cache'[v].offset = o /\ cache'[v].block = b
      /\ \A s \in Wt!Slots \ {v} :
            /\ cache'[s].status # "EMPTY" <=> cache[s].status # "EMPTY"
            /\ cache'[s].ino = cache[s].ino /\ cache'[s].offset = cache[s].offset
            /\ cache'[s].block = cache[s].block
  BY <1>2, <1>3 DEF CacheInv, Wt!TypeOK, Wt!Slot
<1>5. Wt!TypeOK'
  <2>1. cache' \in [Wt!Slots -> Wt!Slot]
    BY <1>2 DEF CacheInv, Wt!TypeOK, Wt!Slot
  <2>2. clock_hand' \in Wt!Slots
    BY <1>2 DEF Wt!NextHand, Wt!Slots, Wt!WtClockDiskAssumption
  <2>3. QED
    BY <2>1, <2>2 DEF CacheInv, Wt!TypeOK
<1>6. SlotsCoherent'
  <2>1. \A s \in Wt!Slots : cache[s].status # "EMPTY" => ~(cache[s].ino = i /\ cache[s].offset = o)
    BY DEF Wt!Hit, Wt!Holds
  <2>2. \A j \in Wt!Inodes, p \in Wt!Offsets :
           bdata'[j][p] = IF j = i /\ p = o THEN b ELSE bdata[j][p]
    BY DEF CacheInv, Wt!TypeOK
  <2>3. \A s \in Wt!Slots : cache[s].ino \in Wt!Inodes /\ cache[s].offset \in Wt!Offsets
    BY DEF CacheInv, Wt!TypeOK, Wt!Slot
  <2>4. QED
    BY <1>4, <2>1, <2>2, <2>3 DEF CacheInv, SlotsCoherent
<1>7. QED
  BY <1>5, <1>6 DEF CacheInv

\* wtclockdisk_init: no slot is in use.
LEMMA CacheInit == ASSUME Wt!WtClockDiskAssumption PROVE Wt!Init => CacheInv
BY DEF Wt!WtClockDiskAssumption, Wt!Init, CacheInv, Wt!TypeOK, SlotsCoherent, Wt!EmptySlot,
       Wt!Slot, Wt!Slots, Wt!Inodes, Wt!Offsets

\* Every operation keeps the invariant.
LEMMA CacheStep ==
    ASSUME Wt!WtClockDiskAssumption, ~CanFail, CacheInv, [Wt!Next]_(Wt!vars)
    PROVE  CacheInv'
<1>1. ASSUME NEW i \in Wt!Inodes, NEW n \in 0 .. MaxSize, Wt!wtclockdisk_setsize(i, n)
      PROVE  CacheInv'
  <2>1. \A s \in Wt!Slots :
           /\ cache'[s].status # "EMPTY" =>
                 cache[s].status # "EMPTY" /\ ~(cache[s].ino = i /\ cache[s].offset >= n)
           /\ cache'[s].ino = cache[s].ino /\ cache'[s].offset = cache[s].offset
           /\ cache'[s].block = cache[s].block
    BY <1>1 DEF Wt!wtclockdisk_setsize, CacheInv, Wt!TypeOK, Wt!Slot
  <2>2. Wt!TypeOK'
    BY <1>1 DEF Wt!wtclockdisk_setsize, CacheInv, Wt!TypeOK, Wt!Slot
  <2>3. bdata' = bdata /\ \A j \in Wt!Inodes : bsize'[j] = IF j = i THEN n ELSE bsize[j]
    BY <1>1 DEF Wt!wtclockdisk_setsize, CacheInv, Wt!TypeOK
  <2>4. \A s \in Wt!Slots : cache[s].ino \in Wt!Inodes /\ cache[s].offset \in Nat
    BY DEF CacheInv, Wt!TypeOK, Wt!Slot, Wt!Offsets, Wt!WtClockDiskAssumption
  <2>5. SlotsCoherent'
    BY <2>1, <2>3, <2>4 DEF CacheInv, SlotsCoherent
  <2>6. QED
    BY <2>2, <2>5 DEF CacheInv
<1>2. ASSUME NEW i \in Wt!Inodes, NEW o \in Wt!Offsets, Wt!wtclockdisk_read(i, o)
      PROVE  CacheInv'
  <2>1. CASE Wt!Hit(i, o) # {}
    <3>1. PICK s \in Wt!Slots : /\ Wt!Min(Wt!Hit(i, o)) = s /\ cache[s].status # "EMPTY"
      BY <2>1, HitIsOne
    <3>2. cache' = [cache EXCEPT ![s].status = "NEW"]
          /\ bsize' = bsize /\ bdata' = bdata /\ clock_hand' = clock_hand
      BY <1>2, <2>1, <3>1 DEF Wt!wtclockdisk_read
    <3>3. QED
      BY <3>1, <3>2 DEF CacheInv, Wt!TypeOK, Wt!Slot, SlotsCoherent
  <2>2. CASE Wt!Hit(i, o) = {} /\ o < bsize[i]
    <3>1. bdata = [bdata EXCEPT ![i][o] = bdata[i][o]] /\ bdata[i][o] \in Block
      BY DEF CacheInv, Wt!TypeOK
    <3>2. Wt!cache_update(i, o, bdata[i][o]) /\ bsize' = bsize /\ bdata' = bdata
      BY <1>2, <2>2 DEF Wt!wtclockdisk_read, CacheInv, Wt!TypeOK, Wt!Offsets
    <3>3. QED
      BY <2>2, <3>1, <3>2, UpdateKeepsInv
  <2>3. CASE Wt!Hit(i, o) = {} /\ ~(o < bsize[i])
    BY <1>2, <2>3 DEF Wt!wtclockdisk_read, CacheInv, Wt!TypeOK, SlotsCoherent
  <2>4. QED
    BY <2>1, <2>2, <2>3
<1>3. ASSUME NEW i \in Wt!Inodes, NEW o \in Wt!Offsets, NEW b \in Block, NEW ok \in BOOLEAN,
             Wt!wtclockdisk_write(i, o, b, ok)
      PROVE  CacheInv'
  <2>0. o \in Nat /\ bsize[i] \in Nat /\ (ok <=> o < bsize[i])
    BY <1>3 DEF Wt!wtclockdisk_write, CacheInv, Wt!TypeOK, Wt!Offsets, Wt!WtClockDiskAssumption
  <2>1. CASE Wt!Hit(i, o) # {}
    <3>1. PICK s \in Wt!Slots : /\ Wt!Min(Wt!Hit(i, o)) = s /\ cache[s].status # "EMPTY"
                                /\ cache[s].ino = i /\ cache[s].offset = o
      BY <2>1, HitIsOne
    <3>2. ok
      BY <2>0, <3>1 DEF CacheInv, SlotsCoherent
    <3>3. /\ cache' = [cache EXCEPT ![s].block = b, ![s].status = "NEW"]
          /\ bsize' = bsize /\ bdata' = [bdata EXCEPT ![i][o] = b]
          /\ clock_hand' = clock_hand
      BY <1>3, <2>1, <3>1, <3>2 DEF Wt!wtclockdisk_write, Wt!BelowWrite
    <3>4. /\ cache'[s].status = "NEW" /\ cache'[s].block = b
          /\ cache'[s].ino = i /\ cache'[s].offset = o
          /\ \A t \in Wt!Slots \ {s} : cache'[t] = cache[t]
          /\ Wt!TypeOK'
      BY <3>1, <3>3 DEF CacheInv, Wt!TypeOK, Wt!Slot
    <3>5. \A j \in Wt!Inodes, p \in Wt!Offsets :
             bdata'[j][p] = IF j = i /\ p = o THEN b ELSE bdata[j][p]
      BY <3>3 DEF CacheInv, Wt!TypeOK
    <3>6. \A t \in Wt!Slots : cache[t].ino \in Wt!Inodes /\ cache[t].offset \in Wt!Offsets
      BY DEF CacheInv, Wt!TypeOK, Wt!Slot
    <3>7. SlotsCoherent'
      <4>1. \A t \in Wt!Slots : /\ cache'[t].ino = cache[t].ino
                                /\ cache'[t].offset = cache[t].offset
                                /\ cache'[t].status # "EMPTY" <=> cache[t].status # "EMPTY"
                                /\ cache'[t].block = IF t = s THEN b ELSE cache[t].block
        BY <3>1, <3>4
      <4>2. bsize' = bsize
        BY <3>3
      <4>3. QED
        BY <3>1, <3>5, <3>6, <4>1, <4>2 DEF CacheInv, SlotsCoherent
    <3>8. QED
      BY <3>4, <3>7 DEF CacheInv
  <2>2. CASE Wt!Hit(i, o) = {} /\ ok
    <3>1. Wt!cache_update(i, o, b) /\ bsize' = bsize /\ bdata' = [bdata EXCEPT ![i][o] = b]
      BY <1>3, <2>2 DEF Wt!wtclockdisk_write, Wt!BelowWrite
    <3>2. QED
      BY <2>0, <2>2, <3>1, UpdateKeepsInv
  <2>3. CASE Wt!Hit(i, o) = {} /\ ~ok
    BY <1>3, <2>3 DEF Wt!wtclockdisk_write, Wt!BelowWrite, CacheInv, Wt!TypeOK, SlotsCoherent
  <2>4. QED
    BY <2>1, <2>2, <2>3
<1>4. CASE UNCHANGED <<bsize, bdata, cache, clock_hand>>
  BY <1>4 DEF CacheInv, Wt!TypeOK, SlotsCoherent
<1>5. QED
  BY <1>1, <1>2, <1>3, <1>4 DEF Wt!Next, Wt!vars, Wt!wtclockdisk_getsize, Wt!wtclockdisk_sync

\* The cache writes through (wtclockdisk.c as a whole): a cached block is in
\* one slot, within its inode, and is what the store below has.
THEOREM WritesThrough ==
    ASSUME Wt!WtClockDiskAssumption, ~CanFail PROVE Wt!Spec => []WtWrittenThrough
<1>1. Wt!Init => CacheInv
  BY CacheInit
<1>2. CacheInv /\ [Wt!Next]_(Wt!vars) => CacheInv'
  BY CacheStep
<1>3. CacheInv => WtWrittenThrough
  BY InvWrittenThrough DEF CacheInv, WtWrittenThrough, Wt!WtWrittenThrough
<1>4. QED
  BY <1>1, <1>2, <1>3, PTL DEF Wt!Spec

-------------------------------------------------------------------------------
(* cipherdisk.c: over a store below of any size, for any passphrases, with    *)
(* any bytes behind key[] at each start.                                      *)

IsData(b) == b = [plain |-> b.plain, streams |-> b.streams]
IsHeader(b) == b = [salt |-> b.salt, hashed |-> b.hashed]

\* The key of the store: what cipherdisk_setup or a matching passphrase gives.
KeyOf(b) == <<b, b.hashed>>

\* Blocks 1 and up are never a superblock; block 0 may be.
BlocksForm ==
    /\ DOMAIN below = 0 .. NBlocks - 1
    /\ \A n \in 1 .. NBlocks - 1 : IsData(below[n])
    /\ IsData(below[0]) \/ IsHeader(below[0])

\* What each place in cipherdisk_init has established.
PlaceForm ==
    /\ pc \in {"unlock", "setup", "retype"} => cd_i \in 0 .. CD!Attempts - 1
    /\ pc \in {"setup", "retype", "encrypt"} => IsData(below[0])
    /\ pc = "encrypt" => IsHeader(sb) /\ key = KeyOf(sb)
    /\ pc = "unlock" => IsHeader(below[0]) /\ sb = below[0]
    /\ pc = "open" => IsHeader(below[0]) /\ key = KeyOf(below[0])

\* A block that the client wrote is below, under the key of the superblock and
\* what lay behind key[] when it was written.
WrittenKept ==
    \A o \in CD!Offsets : cd_last[o] # NoKey =>
        /\ IsHeader(below[0])
        /\ below[o + 1] = [plain |-> cd_last[o], streams |-> {<<KeyOf(below[0]), wtail[o], o>>}]

OutForm == CD!ReadsLastWrite /\ (cd_out # NoKey => cd_out.off \in CD!Offsets)

CipherInv == CD!TypeOK /\ BlocksForm /\ PlaceForm /\ WrittenKept /\ OutForm

\* A superblock is told from the blocks that block_xcrypt makes.
LEMMA Forms ==
    ASSUME NEW b
    PROVE  /\ IsData(b) => ~CD!IsSuper(b)
           /\ IsHeader(b) => CD!IsSuper(b)
<1>1. ASSUME IsData(b) PROVE DOMAIN b = {"plain", "streams"}
  <2> DEFINE d == [plain |-> b.plain, streams |-> b.streams]
  <2>1. DOMAIN d = {"plain", "streams"}
    OBVIOUS
  <2>2. b = d
    BY <1>1 DEF IsData
  <2>3. QED
    BY <2>1, <2>2 DEF d
<1>2. ASSUME IsHeader(b) PROVE DOMAIN b = {"salt", "hashed"}
  <2> DEFINE d == [salt |-> b.salt, hashed |-> b.hashed]
  <2>1. DOMAIN d = {"salt", "hashed"}
    OBVIOUS
  <2>2. b = d
    BY <1>2 DEF IsHeader
  <2>3. QED
    BY <2>1, <2>2 DEF d
<1>3. QED
  BY <1>1, <1>2 DEF CD!IsSuper

\* block_xcrypt keeps the contents and adds or removes one stream.
LEMMA Xcrypt ==
    ASSUME NEW o, NEW b, IsData(b)
    PROVE  /\ IsData(CD!block_xcrypt(o, b))
           /\ CD!block_xcrypt(o, b) =
                 [plain |-> b.plain, streams |-> CD!SymDiff(b.streams, {<<key, tail, o>>})]
<1>1. CD!block_xcrypt(o, b) = [b EXCEPT !.streams = CD!SymDiff(@, {<<key, tail, o>>})]
  BY Forms DEF CD!block_xcrypt
<1> DEFINE T == CD!SymDiff(b.streams, {<<key, tail, o>>})
<1>2. CD!block_xcrypt(o, b) = [plain |-> b.plain, streams |-> T]
  <2> HIDE DEF T
  <2>1. CD!block_xcrypt(o, b) = [b EXCEPT !.streams = T]
    BY <1>1 DEF T
  <2>2. b = [plain |-> b.plain, streams |-> b.streams]
    BY DEF IsData
  <2>3. QED
    BY <2>1, <2>2
<1>3. QED
  <2> HIDE DEF T
  <2>1. IsData([plain |-> b.plain, streams |-> T])
    BY DEF IsData
  <2>2. QED
    BY <1>2, <2>1 DEF T

\* A stream applied to no stream, and applied again.
LEMMA StreamTwice ==
    ASSUME NEW x
    PROVE  CD!SymDiff({}, {x}) = {x} /\ CD!SymDiff({x}, {x}) = {}
BY DEF CD!SymDiff

\* cipherdisk_init over a store that was never encrypted.
LEMMA CipherInit == ASSUME CD!CipherDiskAssumption PROVE CD!Init => CipherInv
<1> SUFFICES ASSUME CD!Init PROVE CipherInv
  OBVIOUS
<1>1. \A n \in 0 .. NBlocks - 1 : IsData(below[n])
  <2>1. \A x \in Block : IsData(CD!Data(x))
    BY DEF IsData, CD!Data
  <2>2. QED
    BY <2>1 DEF CD!Init
<1>2. BlocksForm
  BY <1>1 DEF BlocksForm, CD!Init, CD!CipherDiskAssumption
<1>3. CD!TypeOK /\ PlaceForm /\ WrittenKept /\ OutForm
  BY DEF CD!Init, CD!TypeOK, CD!Attempts, PlaceForm, WrittenKept, OutForm, CD!ReadsLastWrite
<1>4. QED
  BY <1>2, <1>3 DEF CipherInv

\* A step that leaves the blocks and what was written alone needs only what it
\* establishes about its place (the prompts of cipherdisk_init).
LEMMA PromptKeeps ==
    ASSUME CipherInv, CD!TypeOK', PlaceForm', below' = below, cd_last' = cd_last, wtail' = wtail,
           cd_out' = cd_out, tail' = tail
    PROVE  CipherInv'
BY DEF CipherInv, BlocksForm, WrittenKept, OutForm, CD!ReadsLastWrite

\* cipherdisk_init up to the prompts: which of unlock and setup is taken.
LEMMA OpenKeeps ==
    ASSUME CD!CipherDiskAssumption, CipherInv, CD!cipherdisk_open PROVE CipherInv'
<1>1. /\ pc = "start" /\ cd_i' = 0 /\ below' = below /\ cd_last' = cd_last /\ wtail' = wtail
      /\ cd_out' = cd_out /\ tail' = tail
      /\ \/ CD!IsSuper(below[0]) /\ sb' = below[0] /\ pc' = "unlock"
         \/ ~CD!IsSuper(below[0]) /\ pc' = "setup"
  BY DEF CD!cipherdisk_open, CD!Rest, CD!Goto
<1>2. (CD!IsSuper(below[0]) => IsHeader(below[0])) /\ (~CD!IsSuper(below[0]) => IsData(below[0]))
  BY Forms DEF CipherInv, BlocksForm
<1>3. CD!TypeOK' /\ PlaceForm'
  BY <1>1, <1>2 DEF CipherInv, CD!TypeOK, PlaceForm, CD!Attempts
<1>4. QED
  BY <1>1, <1>3, PromptKeeps

\* A round of the loop of cipherdisk_unlock.
LEMMA UnlockKeeps ==
    ASSUME CD!CipherDiskAssumption, CipherInv, CD!cipherdisk_unlock PROVE CipherInv'
<1>1. /\ pc = "unlock" /\ below' = below /\ cd_last' = cd_last /\ wtail' = wtail /\ cd_out' = cd_out
      /\ tail' = tail /\ sb' = sb
      /\ \/ pc' = "failed" /\ cd_i' = cd_i
         \/ cd_i' = cd_i + 1 /\ pc' = IF cd_i + 1 = CD!Attempts THEN "failed" ELSE "unlock"
         \/ pc' = "open" /\ cd_i' = cd_i /\ key' = <<sb, sb.hashed>>
  BY DEF CD!cipherdisk_unlock, CD!Rest, CD!Goto, CD!Again, CD!Matches
<1>2. CD!TypeOK' /\ PlaceForm'
  BY <1>1 DEF CipherInv, CD!TypeOK, PlaceForm, CD!Attempts, KeyOf
<1>3. QED
  BY <1>1, <1>2, PromptKeeps

\* The first line typed in a round of cipherdisk_setup.
LEMMA FirstLineKeeps ==
    ASSUME CD!CipherDiskAssumption, CipherInv, CD!FirstLine PROVE CipherInv'
<1>1. /\ pc = "setup" /\ below' = below /\ cd_last' = cd_last /\ wtail' = wtail /\ cd_out' = cd_out
      /\ tail' = tail
      /\ \/ pc' = "failed" /\ cd_i' = cd_i
         \/ cd_i' = cd_i + 1 /\ pc' = IF cd_i + 1 = CD!Attempts THEN "failed" ELSE "setup"
         \/ pc' = "retype" /\ cd_i' = cd_i
  BY DEF CD!FirstLine, CD!Rest, CD!Goto, CD!Again
<1>2. CD!TypeOK' /\ PlaceForm'
  BY <1>1 DEF CipherInv, CD!TypeOK, PlaceForm, CD!Attempts
<1>3. QED
  BY <1>1, <1>2, PromptKeeps

\* The second line: the same again makes the superblock and the key.
LEMMA SecondLineKeeps ==
    ASSUME CD!CipherDiskAssumption, CipherInv, CD!SecondLine PROVE CipherInv'
<1>1. /\ pc = "retype" /\ below' = below /\ cd_last' = cd_last /\ wtail' = wtail /\ cd_out' = cd_out
      /\ tail' = tail
      /\ \/ pc' = "failed" /\ cd_i' = cd_i
         \/ cd_i' = cd_i + 1 /\ pc' = IF cd_i + 1 = CD!Attempts THEN "failed" ELSE "setup"
         \/ /\ pc' = "encrypt" /\ cd_i' = 0
            /\ \E s \in Salts : sb' = CD!Super(s, pwd) /\ key' = <<CD!Super(s, pwd), pwd>>
  BY DEF CD!SecondLine, CD!Rest, CD!Goto, CD!Again
<1>2. pc' = "encrypt" => IsHeader(sb') /\ key' = KeyOf(sb')
  BY <1>1 DEF IsHeader, KeyOf, CD!Super
<1>3. CD!TypeOK' /\ PlaceForm'
  BY <1>1, <1>2 DEF CipherInv, CD!TypeOK, PlaceForm, CD!Attempts
<1>4. QED
  BY <1>1, <1>3, PromptKeeps

\* One round of "encrypt everything underneath": no block 0 is touched, and the
\* client has written nothing yet.
LEMMA EncryptKeeps ==
    ASSUME CD!CipherDiskAssumption, CipherInv, CD!EncryptBlock
    PROVE  CipherInv' /\ ~CD!IsSuper(below[0])
<1>1. /\ pc = "encrypt" /\ cd_i < NBlocks - 1 /\ cd_i' = cd_i + 1
      /\ below' = [below EXCEPT ![cd_i + 1] = CD!block_xcrypt(cd_i, below[cd_i])]
      /\ UNCHANGED <<pc, pwd, sb, key, tail, cd_last, wtail, cd_out>>
  BY DEF CD!EncryptBlock, CD!Under
<1>2. cd_i \in 0 .. NBlocks - 2
  BY <1>1 DEF CipherInv, CD!TypeOK, CD!Attempts, CD!CipherDiskAssumption
<1>3. IsData(below[0]) /\ IsData(below[cd_i])
  BY <1>1, <1>2 DEF CipherInv, PlaceForm, BlocksForm, CD!CipherDiskAssumption
<1>4. IsData(CD!block_xcrypt(cd_i, below[cd_i]))
  BY <1>3, Xcrypt
<1>5. /\ below'[0] = below[0] /\ \A n \in 1 .. NBlocks - 1 : IsData(below'[n])
      /\ DOMAIN below' = 0 .. NBlocks - 1
  <2> DEFINE c == CD!block_xcrypt(cd_i, below[cd_i])
  <2>1. below' = [below EXCEPT ![cd_i + 1] = c] /\ IsData(c)
    BY <1>1, <1>4
  <2> HIDE DEF c
  <2>2. DOMAIN below = 0 .. NBlocks - 1
        /\ \A n \in 1 .. NBlocks - 1 : IsData(below[n])
    BY DEF CipherInv, BlocksForm
  <2>3. \A n \in 0 .. NBlocks - 1 : below'[n] = IF n = cd_i + 1 THEN c ELSE below[n]
    BY <1>2, <2>1, <2>2 DEF CD!CipherDiskAssumption
  <2>4. DOMAIN below' = 0 .. NBlocks - 1
    BY <2>1, <2>2
  <2>5. QED
    BY <1>2, <2>1, <2>2, <2>3, <2>4 DEF CD!CipherDiskAssumption
<1>6. BlocksForm' /\ PlaceForm'
  BY <1>1, <1>3, <1>5 DEF BlocksForm, CipherInv, PlaceForm
<1>7. CD!TypeOK'
  BY <1>1, <1>2 DEF CipherInv, CD!TypeOK, CD!CipherDiskAssumption
<1>8. ~IsHeader(below[0])
  BY <1>3, Forms
<1>9. WrittenKept' /\ OutForm'
  BY <1>1, <1>8 DEF CipherInv, WrittenKept, OutForm, CD!ReadsLastWrite
<1>10. QED
  BY <1>3, <1>6, <1>7, <1>9, Forms DEF CipherInv

\* The end of cipherdisk_setup: the superblock is written and the store opens.
LEMMA SuperKeeps ==
    ASSUME CD!CipherDiskAssumption, CipherInv, CD!WriteSuper
    PROVE  CipherInv' /\ ~CD!IsSuper(below[0])
<1>1. /\ pc = "encrypt" /\ cd_i = NBlocks - 1 /\ pc' = "open"
      /\ below' = [below EXCEPT ![0] = sb]
      /\ cd_last' = [o \in CD!Offsets |-> NoKey]
      /\ wtail' = cd_last' /\ UNCHANGED <<cd_i, pwd, sb, key, tail, cd_out>>
  BY DEF CD!WriteSuper, CD!Goto
<1>2. IsData(below[0]) /\ IsHeader(sb) /\ key = KeyOf(sb)
  BY <1>1 DEF CipherInv, PlaceForm
<1>3. /\ below'[0] = sb /\ \A n \in 1 .. NBlocks - 1 : below'[n] = below[n]
      /\ DOMAIN below' = 0 .. NBlocks - 1
  BY <1>1 DEF CipherInv, BlocksForm, CD!CipherDiskAssumption
<1>4. BlocksForm' /\ PlaceForm'
  BY <1>1, <1>2, <1>3 DEF BlocksForm, CipherInv, PlaceForm
<1>5. CD!TypeOK' /\ WrittenKept' /\ OutForm'
  BY <1>1 DEF CipherInv, CD!TypeOK, WrittenKept, OutForm, CD!ReadsLastWrite
<1>6. QED
  BY <1>2, <1>4, <1>5, Forms DEF CipherInv

\* cipherdisk_read removes the stream that cipherdisk_write put on.
LEMMA ReadKeeps ==
    ASSUME CD!CipherDiskAssumption, CipherInv, NEW o \in CD!Offsets, CD!cipherdisk_read(o)
    PROVE  CipherInv'
<1>1. /\ pc = "open" /\ cd_out' = [off |-> o, block |-> CD!block_xcrypt(o, below[o + 1])]
      /\ UNCHANGED <<below, pc, cd_i, pwd, sb, key, tail, cd_last, wtail>>
  BY DEF CD!cipherdisk_read, CD!Decrypted, CD!Under
<1>2. cd_last[o] # NoKey =>
        (CD!block_xcrypt(o, below[o + 1]) = CD!Data(cd_last[o]) <=> tail = wtail[o])
  <2> SUFFICES ASSUME cd_last[o] # NoKey
               PROVE  CD!block_xcrypt(o, below[o + 1]) = CD!Data(cd_last[o]) <=> tail = wtail[o]
    OBVIOUS
  <2> DEFINE x == <<key, tail, o>>
  <2> DEFINE w == <<key, wtail[o], o>>
  <2>1. below[o + 1] = [plain |-> cd_last[o], streams |-> {w}]
    BY <1>1 DEF CipherInv, WrittenKept, PlaceForm
  <2>2. IsData(below[o + 1])
    <3> HIDE DEF w
    <3> QED
      BY <2>1 DEF IsData
  <2>3. CD!block_xcrypt(o, below[o + 1]) =
           [plain |-> below[o + 1].plain, streams |-> CD!SymDiff(below[o + 1].streams, {x})]
    BY <2>2, Xcrypt
  <2>4. CD!SymDiff({w}, {x}) = {} <=> w = x
    BY DEF CD!SymDiff
  <2>5. w = x <=> tail = wtail[o]
    OBVIOUS
  <2> DEFINE t == CD!SymDiff({w}, {x})
  <2>6. CD!block_xcrypt(o, below[o + 1]) = [plain |-> cd_last[o], streams |-> t]
    <3> HIDE DEF x, w
    <3>1. below[o + 1].plain = cd_last[o] /\ below[o + 1].streams = {w}
      BY <2>1
    <3>2. QED
      BY <2>3, <3>1
  <2>7. QED
    <3>1. t = {} <=> tail = wtail[o]
      BY <2>4, <2>5
    <3> HIDE DEF t
    <3>2. QED
      BY <2>6, <3>1 DEF CD!Data
<1>3. OutForm'
  <2> DEFINE c == CD!block_xcrypt(o, below[o + 1])
  <2>1. cd_out' = [off |-> o, block |-> c] /\ cd_last' = cd_last
        /\ UNCHANGED <<tail, wtail>>
        /\ (cd_last[o] # NoKey => (c = CD!Data(cd_last[o]) <=> tail = wtail[o]))
    BY <1>1, <1>2
  <2> HIDE DEF c
  <2>2. CD!ReadsLastWrite'
    BY <2>1 DEF CD!ReadsLastWrite, CD!Data
  <2>3. QED
    BY <2>1, <2>2 DEF OutForm
<1>4. CD!TypeOK' /\ BlocksForm' /\ PlaceForm' /\ WrittenKept'
  BY <1>1 DEF CipherInv, CD!TypeOK, BlocksForm, PlaceForm, WrittenKept
<1>5. QED
  BY <1>3, <1>4 DEF CipherInv

\* cipherdisk_write puts the block below under the key of the superblock, and
\* leaves the superblock alone.
LEMMA WriteKeeps ==
    ASSUME CD!CipherDiskAssumption, CipherInv, NEW o \in CD!Offsets, NEW x \in Block,
           CD!cipherdisk_write(o, x)
    PROVE  CipherInv' /\ below'[0] = below[0]
<1>1. /\ pc = "open" /\ cd_out' = NoKey
      /\ below' = [below EXCEPT ![o + 1] = CD!block_xcrypt(o, CD!Data(x))]
      /\ cd_last' = [cd_last EXCEPT ![o] = x] /\ wtail' = [wtail EXCEPT ![o] = tail]
      /\ UNCHANGED <<pc, cd_i, pwd, sb, key, tail>>
  BY DEF CD!cipherdisk_write, CD!Under
<1>2. IsHeader(below[0]) /\ key = KeyOf(below[0])
  BY <1>1 DEF CipherInv, PlaceForm
<1> DEFINE c == CD!block_xcrypt(o, CD!Data(x))
<1> DEFINE y == <<key, tail, o>>
<1>3. c = [plain |-> x, streams |-> {y}]
  <2>1. IsData(CD!Data(x)) /\ CD!Data(x).plain = x /\ CD!Data(x).streams = {}
    BY DEF IsData, CD!Data
  <2>2. c = [plain |-> x, streams |-> CD!SymDiff({}, {y})]
    BY <2>1, Xcrypt
  <2>3. QED
    BY <2>2, StreamTwice
<1>4. o \in 0 .. NBlocks - 2 /\ NBlocks \in Nat
  BY DEF CD!Offsets, CD!CipherDiskAssumption
<1>5. /\ DOMAIN below' = 0 .. NBlocks - 1
      /\ \A n \in 0 .. NBlocks - 1 : below'[n] = IF n = o + 1 THEN c ELSE below[n]
  <2>1. below' = [below EXCEPT ![o + 1] = c] /\ DOMAIN below = 0 .. NBlocks - 1
    BY <1>1 DEF CipherInv, BlocksForm
  <2> HIDE DEF c
  <2>2. QED
    BY <1>4, <2>1
<1>6. below'[0] = below[0] /\ IsData(c)
  <2>1. IsData(c)
    <3> HIDE DEF c, y
    <3> QED
      BY <1>3 DEF IsData
  <2>2. QED
    BY <1>4, <1>5, <2>1
<1>7. BlocksForm'
  <2> HIDE DEF c
  <2> QED
    BY <1>4, <1>5, <1>6 DEF CipherInv, BlocksForm
<1>8. PlaceForm' /\ CD!TypeOK' /\ OutForm'
  BY <1>1, <1>6 DEF CipherInv, PlaceForm, CD!TypeOK, OutForm, CD!ReadsLastWrite
<1>9. WrittenKept'
  <2> SUFFICES ASSUME NEW p \in CD!Offsets, cd_last'[p] # NoKey
               PROVE  /\ IsHeader(below[0])
                      /\ below'[p + 1] = [plain |-> cd_last'[p],
                                          streams |-> {<<KeyOf(below[0]), wtail'[p], p>>}]
    BY <1>1, <1>6 DEF WrittenKept
  <2>0. p \in 0 .. NBlocks - 2
    BY DEF CD!Offsets
  <2>1. CASE p = o
    <3>1. cd_last'[p] = x /\ wtail'[p] = tail
      BY <1>1, <2>1 DEF CipherInv, CD!TypeOK
    <3>2. below'[p + 1] = c
      <4> HIDE DEF c
      <4> QED
        BY <1>4, <1>5, <2>1
    <3>3. QED
      BY <1>2, <1>3, <2>1, <3>1, <3>2
  <2>2. CASE p # o
    <3>1. cd_last'[p] = cd_last[p] /\ wtail'[p] = wtail[p]
      BY <1>1, <2>2 DEF CipherInv, CD!TypeOK
    <3>2. below'[p + 1] = below[p + 1]
      <4> HIDE DEF c
      <4> QED
        BY <1>4, <1>5, <2>0, <2>2
    <3>3. QED
      BY <3>1, <3>2 DEF CipherInv, WrittenKept
  <2>3. QED
    BY <2>1, <2>2
<1>10. QED
  BY <1>6, <1>7, <1>8, <1>9 DEF CipherInv

\* A stop and a start, at any moment, also within cipherdisk_setup.
LEMMA RestartKeeps ==
    ASSUME CD!CipherDiskAssumption, CipherInv, CD!Restart PROVE CipherInv'
<1>2. CD!TypeOK' /\ PlaceForm'
  BY DEF CD!Restart, CipherInv, CD!TypeOK, PlaceForm, CD!Attempts
<1>3. BlocksForm' /\ WrittenKept' /\ OutForm'
  BY DEF CD!Restart, CipherInv, BlocksForm, WrittenKept, OutForm, CD!ReadsLastWrite
<1>4. QED
  BY <1>2, <1>3 DEF CipherInv

\* Every step keeps the invariant, and no step changes a superblock.
LEMMA CipherStep ==
    ASSUME CD!CipherDiskAssumption, CipherInv, [CD!Next]_(CD!vars)
    PROVE  CipherInv' /\ (CD!IsSuper(below[0]) => below'[0] = below[0])
<1>1. CASE CD!cipherdisk_open
  BY <1>1, OpenKeeps DEF CD!cipherdisk_open, CD!Rest
<1>2. CASE CD!cipherdisk_unlock
  BY <1>2, UnlockKeeps DEF CD!cipherdisk_unlock, CD!Rest
<1>3. CASE CD!FirstLine
  BY <1>3, FirstLineKeeps DEF CD!FirstLine, CD!Rest
<1>4. CASE CD!SecondLine
  BY <1>4, SecondLineKeeps DEF CD!SecondLine, CD!Rest
<1>5. CASE CD!EncryptBlock
  BY <1>5, EncryptKeeps
<1>6. CASE CD!WriteSuper
  BY <1>6, SuperKeeps
<1>7. CASE \E o \in CD!Offsets : CD!cipherdisk_read(o)
  BY <1>7, ReadKeeps DEF CD!cipherdisk_read
<1>8. CASE \E o \in CD!Offsets, x \in Block : CD!cipherdisk_write(o, x)
  BY <1>8, WriteKeeps
<1>9. CASE CD!Restart
  BY <1>9, RestartKeeps DEF CD!Restart
<1>10. CASE UNCHANGED CD!vars
  BY <1>10 DEF CD!vars, CipherInv, CD!TypeOK, BlocksForm, PlaceForm, WrittenKept, OutForm,
               CD!ReadsLastWrite
<1>11. QED
  BY <1>1, <1>2, <1>3, <1>4, <1>5, <1>6, <1>7, <1>8, <1>9, <1>10 DEF CD!Next

\* Encryption is correct (cipherdisk.c as a whole), through any number of stops
\* and starts and whatever is typed at the prompts: a store that is open has
\* the key it was set up with, the superblock is never written again, and a
\* read gives back what was last written exactly when the heap behind the key
\* has the bytes it had at the write.
THEOREM EncryptionCorrect ==
    ASSUME CD!CipherDiskAssumption PROVE CD!Spec => CipherRight
<1>1. CD!Init => CipherInv
  BY CipherInit
<1>2. CipherInv /\ [CD!Next]_(CD!vars) => CipherInv'
  BY CipherStep
<1>3. CipherInv => CD!TypeOK /\ CD!ReadsLastWrite /\ CD!OpenWithKey
  BY Forms DEF CipherInv, OutForm, PlaceForm, CD!OpenWithKey, KeyOf
<1>4. CipherInv /\ [CD!Next]_(CD!vars)
         => [CD!IsSuper(below[0]) => below'[0] = below[0]]_(CD!vars)
  BY CipherStep
<1>5. QED
  BY <1>1, <1>2, <1>3, <1>4, PTL DEF CD!Spec, CipherRight, CD!SuperblockKept

-------------------------------------------------------------------------------
(* The mapping layers under checkdisk.c: for every list of partition sizes    *)
(* and every size of the file.                                                *)

\* The loop of partdisk.c and combinedisk.c that adds up sizes.
LEMMA BeforeSums ==
    ASSUME NEW sizes \in Seq(Nat)
    PROVE  /\ DS!Before(sizes, 0) = 0
           /\ \A i \in 1 .. Len(sizes) :
                 DS!Before(sizes, i) = DS!Before(sizes, i - 1) + sizes[i]
           /\ \A i \in 0 .. Len(sizes) : DS!Before(sizes, i) \in Nat
<1> DEFINE n == Len(sizes)
           G == [x \in Nat |-> [i \in 1 .. n |-> x + sizes[i]]]
           f == CHOOSE g : g = [i \in 0 .. n |-> IF i = 0 THEN 0 ELSE g[i - 1] + sizes[i]]
           S == [i \in 0 .. n |-> Nat]
<1>1. \A i \in 0 .. n : DS!Before(sizes, i) = f[i]
  BY DEF DS!Before
<1>2. n \in Nat /\ \A i \in 1 .. n : sizes[i] \in Nat
  OBVIOUS
<1> HIDE DEF n
<1>3. G \in LoopSteps(n, Nat)
  BY <1>2 DEF LoopSteps
<1>4. \E g : LoopRuns(g, n, Nat, 0, G)
  <2> HIDE DEF G
  <2> QED
    BY <1>2, <1>3, LoopExists
<1>5. f = [i \in 0 .. n |-> IF i = 0 THEN 0 ELSE f[i - 1] + sizes[i]]
  <2>1. PICK g : /\ g \in [0 .. n -> Nat] /\ g[0] = 0
                 /\ \A i \in 1 .. n : g[i] = G[g[i - 1]][i]
    BY <1>4 DEF LoopRuns
  <2>2. \A i \in 1 .. n : i - 1 \in 0 .. n /\ g[i - 1] \in Nat
    BY <1>2, <2>1
  <2>3. \A i \in 1 .. n : g[i] = g[i - 1] + sizes[i]
    BY <2>1, <2>2
  <2>4. g = [i \in 0 .. n |-> IF i = 0 THEN 0 ELSE g[i - 1] + sizes[i]]
    BY <1>2, <2>1, <2>3
  <2>5. QED
    BY <2>4
<1> HIDE DEF f, G
<1>6. f[0] = 0 /\ \A i \in 1 .. n : f[i] = f[i - 1] + sizes[i]
  BY <1>2, <1>5
<1>7. \A i \in Nat : i \in {j \in Nat : j <= n => f[j] \in Nat}
  <2> DEFINE T == {j \in Nat : j <= n => f[j] \in Nat}
  <2>1. 0 \in T
    BY <1>6
  <2>2. ASSUME NEW j \in Nat, j \in T PROVE j + 1 \in T
    <3>1. CASE j + 1 <= n
      <4>1. f[j + 1] = f[j] + sizes[j + 1] /\ sizes[j + 1] \in Nat /\ f[j] \in Nat
        BY <1>2, <1>6, <2>2, <3>1
      <4>2. QED
        BY <4>1
    <3>2. QED
      BY <3>1
  <2> HIDE DEF T
  <2>3. QED
    BY <2>1, <2>2, NatSetInduction DEF T
<1>8. \A i \in 1 .. n : i \in 0 .. n /\ i - 1 \in 0 .. n
  BY <1>2
<1>9. \A i \in 1 .. n : DS!Before(sizes, i) = DS!Before(sizes, i - 1) + sizes[i]
  BY <1>1, <1>6, <1>8
<1>10. DS!Before(sizes, 0) = 0 /\ \A i \in 0 .. n : DS!Before(sizes, i) \in Nat
  BY <1>1, <1>2, <1>6, <1>7
<1>11. QED
  BY <1>9, <1>10 DEF n

\* Sizes before a partition and its own fit before any later one.
LEMMA BeforeGrows ==
    ASSUME NEW sizes \in Seq(Nat), NEW i \in 0 .. Len(sizes), NEW j \in 0 .. Len(sizes), i <= j
    PROVE  DS!Before(sizes, i) <= DS!Before(sizes, j)
<1> DEFINE n == Len(sizes)
           f == [k \in 0 .. n |-> DS!Before(sizes, k)]
           T == {k \in Nat : k <= n /\ i <= k => f[i] <= f[k]}
<1>1. n \in Nat /\ \A k \in 1 .. n : sizes[k] \in Nat
  OBVIOUS
<1>2. \A k \in 0 .. n : f[k] \in Nat
  BY BeforeSums
<1>3. \A k \in 1 .. n : f[k] = f[k - 1] + sizes[k]
  BY BeforeSums
<1>4. i \in 0 .. n /\ j \in 0 .. n
  OBVIOUS
<1> HIDE DEF n, f
<1>5. 0 \in T
  BY <1>1, <1>2, <1>4
<1>6. ASSUME NEW k \in Nat, k \in T PROVE k + 1 \in T
  <2> SUFFICES ASSUME k + 1 <= n, i <= k + 1 PROVE f[i] <= f[k + 1]
    OBVIOUS
  <2>1. CASE i = k + 1
    BY <1>2, <1>4, <2>1
  <2>2. CASE i <= k
    <3>1. f[i] <= f[k]
      BY <1>1, <1>6, <2>2
    <3>2. f[k + 1] = f[k] + sizes[k + 1] /\ sizes[k + 1] \in Nat
      BY <1>1, <1>3
    <3>3. f[i] \in Nat /\ f[k] \in Nat
      BY <1>1, <1>2, <1>4
    <3>4. QED
      BY <3>1, <3>2, <3>3
  <2>3. QED
    BY <1>1, <1>4, <2>1, <2>2
<1>7. \A k \in Nat : k \in T
  <2> HIDE DEF T
  <2> QED
    BY <1>5, <1>6, NatSetInduction
<1>8. f[i] <= f[j]
  BY <1>1, <1>4, <1>7
<1>9. QED
  BY <1>4, <1>8 DEF f

\* partdisk: no two addresses share a block of the store below, and all are
\* within the sum of the sizes.
LEMMA PartsApart ==
    ASSUME NEW sizes \in Seq(Nat), NEW i \in 1 .. Len(sizes), NEW j \in 1 .. Len(sizes),
           NEW o \in Nat, NEW q \in Nat, o < sizes[i], q < sizes[j],
           o + DS!Before(sizes, i - 1) = q + DS!Before(sizes, j - 1)
    PROVE  i = j /\ o = q
<1> DEFINE n == Len(sizes)
           f == [k \in 0 .. n |-> DS!Before(sizes, k)]
<1>1. n \in Nat /\ \A k \in 1 .. n : sizes[k] \in Nat
  OBVIOUS
<1>2. \A k \in 0 .. n : f[k] \in Nat
  BY BeforeSums
<1>3. \A k \in 1 .. n : f[k] = f[k - 1] + sizes[k]
  BY BeforeSums
<1>4. \A k, l \in 0 .. n : k <= l => f[k] <= f[l]
  BY BeforeGrows
<1>5. o + f[i - 1] = q + f[j - 1] /\ i \in 1 .. n /\ j \in 1 .. n
  OBVIOUS
<1> HIDE DEF n, f
<1>6. /\ i - 1 \in 0 .. n /\ j - 1 \in 0 .. n /\ i \in 0 .. n /\ j \in 0 .. n
      /\ f[i] \in Nat /\ f[j] \in Nat /\ f[i - 1] \in Nat /\ f[j - 1] \in Nat
      /\ f[i] = f[i - 1] + sizes[i] /\ f[j] = f[j - 1] + sizes[j]
  BY <1>1, <1>2, <1>3, <1>5
<1>7. sizes[i] \in Nat /\ sizes[j] \in Nat
  BY <1>1, <1>5
<1>8. ASSUME NEW a \in Nat, NEW b \in Nat, NEW s \in Nat, NEW x \in Nat, NEW y \in Nat,
              x < s, x + a = y + b, a + s <= b
       PROVE  FALSE
  BY <1>8
<1>9. ~(i < j)
  <2> SUFFICES ASSUME i <= j - 1 PROVE FALSE
    BY <1>1, <1>5
  <2>1. f[i] <= f[j - 1]
    BY <1>4, <1>6
  <2>2. QED
    BY <1>5, <1>6, <1>7, <1>8, <2>1
<1>10. ~(j < i)
  <2> SUFFICES ASSUME j <= i - 1 PROVE FALSE
    BY <1>1, <1>5
  <2>1. f[j] <= f[i - 1]
    BY <1>4, <1>6
  <2>2. QED
    BY <1>5, <1>6, <1>7, <1>8, <2>1
<1>11. i = j
  BY <1>1, <1>5, <1>9, <1>10
<1>12. QED
  BY <1>5, <1>6, <1>11

\* An address of partdisk is within the sum of the sizes.
LEMMA PartsWithin ==
    ASSUME NEW sizes \in Seq(Nat), NEW i \in 1 .. Len(sizes), NEW o \in Nat, o < sizes[i]
    PROVE  /\ o + DS!Before(sizes, i - 1) \in Nat
           /\ o + DS!Before(sizes, i - 1) < DS!Before(sizes, Len(sizes))
<1>1. Len(sizes) \in Nat /\ sizes[i] \in Nat /\ i \in 0 .. Len(sizes)
      /\ i - 1 \in 0 .. Len(sizes) /\ Len(sizes) \in 0 .. Len(sizes) /\ i <= Len(sizes)
  OBVIOUS
<1>2. DS!Before(sizes, i - 1) \in Nat /\ DS!Before(sizes, Len(sizes)) \in Nat
  BY <1>1, BeforeSums
<1>3. DS!Before(sizes, i) = DS!Before(sizes, i - 1) + sizes[i]
  BY BeforeSums
<1>4. DS!Before(sizes, i) <= DS!Before(sizes, Len(sizes))
  BY <1>1, BeforeGrows
<1>5. QED
  BY <1>1, <1>2, <1>3, <1>4

NParts == Len(PartSizes)

\* combinedisk: which store below has an inode.
LEMMA BelowIs ==
    ASSUME DS!DiskStackAssumption
    PROVE  /\ NParts \in Nat /\ NParts >= 2 /\ DS!NInodes = NParts + 2
           /\ DS!Before(DS!Ninodes, 0) = 0 /\ DS!Before(DS!Ninodes, 1) = 1
           /\ DS!Before(DS!Ninodes, 2) = NParts + 1
           /\ DS!Below(0) = 1 /\ DS!Below(NParts + 1) = 3
           /\ \A i \in 1 .. NParts : DS!Below(i) = 2
<1>1. NParts \in Nat /\ NParts >= 2
  BY DEF DS!DiskStackAssumption, NParts
<1>2. /\ DS!Ninodes \in Seq(Nat) /\ Len(DS!Ninodes) = 3
      /\ DS!Ninodes[1] = 1 /\ DS!Ninodes[2] = NParts /\ DS!Ninodes[3] = 1
  BY <1>1 DEF DS!Ninodes, NParts
<1>3. /\ DS!Before(DS!Ninodes, 0) = 0
      /\ \A i \in 1 .. 3 : DS!Before(DS!Ninodes, i) = DS!Before(DS!Ninodes, i - 1) + DS!Ninodes[i]
  BY <1>2, BeforeSums
<1>4. /\ DS!Before(DS!Ninodes, 1) = 1
      /\ DS!Before(DS!Ninodes, 2) = NParts + 1
      /\ DS!Before(DS!Ninodes, 3) = NParts + 2
  <2>1. DS!Before(DS!Ninodes, 1) = DS!Before(DS!Ninodes, 1 - 1) + DS!Ninodes[1]
    BY <1>3
  <2>2. DS!Before(DS!Ninodes, 2) = DS!Before(DS!Ninodes, 2 - 1) + DS!Ninodes[2]
    BY <1>3
  <2>3. DS!Before(DS!Ninodes, 3) = DS!Before(DS!Ninodes, 3 - 1) + DS!Ninodes[3]
    BY <1>3
  <2>4. DS!Before(DS!Ninodes, 1) = 1
    BY <1>2, <1>3, <2>1
  <2>5. DS!Before(DS!Ninodes, 2) = NParts + 1
    BY <1>1, <1>2, <2>2, <2>4
  <2>6. QED
    BY <1>1, <1>2, <2>3, <2>4, <2>5
<1> DEFINE B == [k \in 0 .. 3 |-> DS!Before(DS!Ninodes, k)]
<1>5. B[0] = 0 /\ B[1] = 1 /\ B[2] = NParts + 1 /\ B[3] = NParts + 2
  BY <1>3, <1>4
<1>6. ASSUME NEW ino
      PROVE  DS!Below(ino) = CHOOSE i \in 1 .. 3 : B[i - 1] <= ino /\ ino < B[i]
  BY <1>2 DEF DS!Below
<1> HIDE DEF B
<1>7. DS!Below(0) = 1
  <2>1. B[1 - 1] <= 0 /\ 0 < B[1] /\ \A i \in 1 .. 3 : B[i - 1] <= 0 /\ 0 < B[i] => i = 1
    BY <1>1, <1>5
  <2>2. QED
    BY <1>6, <2>1
<1>8. DS!Below(NParts + 1) = 3
  <2>1. /\ B[3 - 1] <= NParts + 1 /\ NParts + 1 < B[3]
        /\ \A i \in 1 .. 3 : B[i - 1] <= NParts + 1 /\ NParts + 1 < B[i] => i = 3
    BY <1>1, <1>5
  <2>2. QED
    BY <1>6, <2>1
<1>9. ASSUME NEW k \in 1 .. NParts PROVE DS!Below(k) = 2
  <2>1. /\ B[2 - 1] <= k /\ k < B[2]
        /\ \A i \in 1 .. 3 : B[i - 1] <= k /\ k < B[i] => i = 2
    BY <1>1, <1>5
  <2>2. QED
    BY <1>6, <2>1
<1>10. DS!NInodes = NParts + 2
  BY <1>2, <1>4 DEF DS!NInodes
<1>11. QED
  BY <1>1, <1>3, <1>4, <1>7, <1>8, <1>9, <1>10

\* A partition of a disk: what partdisk maps to, with the disk's name.
LEMMA PartOfIs ==
    ASSUME NEW d, NEW a, NEW n
    PROVE  /\ DS!partdisk(PartSizes, a) = {} => DS!PartOf(d, a) = {}
           /\ DS!partdisk(PartSizes, a) = {[ino |-> 0, offset |-> n]}
                 => DS!PartOf(d, a) = {<<d, n>>}
<1> DEFINE r == [ino |-> 0, offset |-> n]
<1>1. r.offset = n
  OBVIOUS
<1> HIDE DEF r
<1>2. {<<d, p.offset>> : p \in {r}} = {<<d, n>>}
  BY <1>1
<1>3. {<<d, p.offset>> : p \in {}} = {}
  OBVIOUS
<1>4. QED
  BY <1>2, <1>3 DEF DS!PartOf, r

\* The blocks of inode 0: every other one on B, the rest on partition 1 of A
\* (raid0disk over mapdisk over partdisk, and a ramdisk).
LEMMA PlaceStriped ==
    ASSUME DS!DiskStackAssumption, NEW o \in Nat
    PROVE  DS!Place(0, o) =
             IF o % 2 = 1 THEN {<<"B", o \div 2>>}
             ELSE IF o \div 2 < PartSizes[2]
             THEN {<<"A", o \div 2 + DS!Before(PartSizes, 1)>>} ELSE {}
<1>1. DS!Below(0) = 1 /\ DS!Before(DS!Ninodes, 0) = 0 /\ NParts \in Nat /\ NParts >= 2
  BY BelowIs
<1> DEFINE a == [ino |-> 0, offset |-> o]
           r == [ino |-> o % 2, offset |-> o \div 2]
           m == [ino |-> 1, offset |-> o \div 2]
<1>2. DS!Place(0, o) =
         UNION {IF p.ino = 1 THEN {<<"B", p.offset>>}
                ELSE UNION {DS!PartOf("A", b) : b \in DS!mapdisk(1, DS!At(0, p.offset))}
                : p \in DS!raid0disk(2, a)}
  BY <1>1 DEF DS!Place, DS!At
<1>3. DS!raid0disk(2, a) = {r}
  BY DEF DS!raid0disk, DS!At
<1>4. DS!mapdisk(1, DS!At(0, r.offset)) = {m}
  BY DEF DS!mapdisk, DS!At
<1>5. DS!PartOf("A", m) = IF o \div 2 < PartSizes[2]
                          THEN {<<"A", o \div 2 + DS!Before(PartSizes, 1)>>} ELSE {}
  <2>1. DS!partdisk(PartSizes, m) =
          IF o \div 2 < PartSizes[2]
          THEN {[ino |-> 0, offset |-> o \div 2 + DS!Before(PartSizes, 1)]} ELSE {}
    <3>1. m.ino = 1 /\ m.offset = o \div 2 /\ 1 < Len(PartSizes)
      BY <1>1 DEF NParts
    <3> HIDE DEF m
    <3>2. QED
      BY <3>1 DEF DS!partdisk, DS!At
  <2>2. QED
    <3> HIDE DEF m
    <3> QED
      BY <2>1, PartOfIs
<1>6. r.ino = o % 2 /\ r.offset = o \div 2
  OBVIOUS
<1> HIDE DEF r, m, a
<1>7. DS!Place(0, o) = IF r.ino = 1 THEN {<<"B", r.offset>>} ELSE DS!PartOf("A", m)
  BY <1>2, <1>3, <1>4
<1>8. QED
  BY <1>5, <1>6, <1>7

\* The blocks of the inodes after it: partition by partition of E.
LEMMA PlacePart ==
    ASSUME DS!DiskStackAssumption, NEW i \in 1 .. NParts, NEW o \in Nat
    PROVE  DS!Place(i, o) =
             IF o < PartSizes[i] THEN {<<"E", o + DS!Before(PartSizes, i - 1)>>} ELSE {}
<1>1. DS!Below(i) = 2 /\ DS!Before(DS!Ninodes, 1) = 1 /\ NParts \in Nat
  BY BelowIs
<1> DEFINE a == [ino |-> i - 1, offset |-> o]
<1>2. DS!Place(i, o) = DS!PartOf("E", a)
  BY <1>1 DEF DS!Place, DS!At
<1>3. a.ino = i - 1 /\ a.offset = o /\ i - 1 < Len(PartSizes) /\ (i - 1) + 1 = i
  BY <1>1 DEF NParts
<1> HIDE DEF a
<1>4. DS!partdisk(PartSizes, a) =
        IF o < PartSizes[i] THEN {[ino |-> 0, offset |-> o + DS!Before(PartSizes, i - 1)]} ELSE {}
  BY <1>3 DEF DS!partdisk, DS!At
<1>5. QED
  BY <1>2, <1>4, PartOfIs

\* The blocks of the last inode: those of the file F.
LEMMA PlaceFile ==
    ASSUME DS!DiskStackAssumption, NEW o \in Nat
    PROVE  DS!Place(NParts + 1, o) = {<<"F", o>>}
<1>1. DS!Below(NParts + 1) = 3 /\ DS!Before(DS!Ninodes, 2) = NParts + 1 /\ NParts \in Nat
  BY BelowIs
<1>2. QED
  BY <1>1 DEF DS!Place, DS!At

\* The inodes: 0, the partitions of E, and the file.
LEMMA InodeCases ==
    ASSUME DS!DiskStackAssumption, NEW i \in DS!Inodes
    PROVE  i = 0 \/ i \in 1 .. NParts \/ i = NParts + 1
<1>1. NParts \in Nat /\ DS!NInodes = NParts + 2
  BY BelowIs
<1>2. QED
  BY <1>1 DEF DS!Inodes

\* Where a block of inode i can be: the disk tells the kind of inode.
LEMMA PlaceCases ==
    ASSUME DS!DiskStackAssumption, NEW i \in DS!Inodes, NEW o \in Nat, NEW p \in DS!Place(i, o)
    PROVE  \/ i = 0 /\ o % 2 = 1 /\ p = <<"B", o \div 2>>
           \/ i = 0 /\ o % 2 # 1 /\ o \div 2 < PartSizes[2]
              /\ p = <<"A", o \div 2 + DS!Before(PartSizes, 1)>>
           \/ i \in 1 .. NParts /\ o < PartSizes[i] /\ p = <<"E", o + DS!Before(PartSizes, i - 1)>>
           \/ i = NParts + 1 /\ p = <<"F", o>>
<1>1. CASE i = 0
  BY <1>1, PlaceStriped
<1>2. CASE i \in 1 .. NParts
  BY <1>2, PlacePart
<1>3. CASE i = NParts + 1
  BY <1>3, PlaceFile
<1>4. QED
  BY <1>1, <1>2, <1>3, InodeCases

\* A block of the composed store is one block at the bottom.
LEMMA PlaceOne ==
    ASSUME DS!DiskStackAssumption, NEW i \in DS!Inodes, NEW o \in Nat,
           NEW p \in DS!Place(i, o), NEW q \in DS!Place(i, o)
    PROVE  p = q
<1>1. CASE i = 0
  BY <1>1, PlaceStriped
<1>2. CASE i \in 1 .. NParts
  BY <1>2, PlacePart
<1>3. CASE i = NParts + 1
  BY <1>3, PlaceFile
<1>4. QED
  BY <1>1, <1>2, <1>3, InodeCases

\* No two blocks of the composed store share a block at the bottom.
LEMMA PlacesApart ==
    ASSUME DS!DiskStackAssumption, NEW i \in DS!Inodes, NEW j \in DS!Inodes,
           NEW o \in Nat, NEW u \in Nat, NEW p, p \in DS!Place(i, o), p \in DS!Place(j, u)
    PROVE  i = j /\ o = u
<1>0. PartSizes \in Seq(Nat) /\ NParts \in Nat /\ NParts >= 2 /\ NParts = Len(PartSizes)
  BY BelowIs DEF DS!DiskStackAssumption, NParts
<1>1. CASE i = 0 /\ o % 2 = 1 /\ p = <<"B", o \div 2>>
  <2>1. j = 0 /\ u % 2 = 1 /\ p = <<"B", u \div 2>>
    BY <1>1, PlaceCases
  <2>2. o \div 2 = u \div 2
    BY <1>1, <2>1
  <2>3. QED
    BY <1>1, <2>1, <2>2
<1>2. CASE i = 0 /\ o % 2 # 1 /\ p = <<"A", o \div 2 + DS!Before(PartSizes, 1)>>
  <2>1. j = 0 /\ u % 2 # 1 /\ p = <<"A", u \div 2 + DS!Before(PartSizes, 1)>>
    BY <1>2, PlaceCases
  <2>2. DS!Before(PartSizes, 1) \in Nat
    BY <1>0, BeforeSums
  <2>3. o \div 2 + DS!Before(PartSizes, 1) = u \div 2 + DS!Before(PartSizes, 1)
    BY <1>2, <2>1
  <2>4. o \div 2 = u \div 2
    BY <2>2, <2>3
  <2>5. QED
    BY <1>2, <2>1, <2>4
<1>3. CASE /\ i \in 1 .. NParts /\ o < PartSizes[i]
           /\ p = <<"E", o + DS!Before(PartSizes, i - 1)>>
  <2>1. /\ j \in 1 .. NParts /\ u < PartSizes[j]
        /\ p = <<"E", u + DS!Before(PartSizes, j - 1)>>
    BY <1>3, PlaceCases
  <2>2. o + DS!Before(PartSizes, i - 1) = u + DS!Before(PartSizes, j - 1)
    BY <1>3, <2>1
  <2>3. QED
    BY <1>0, <1>3, <2>1, <2>2, PartsApart
<1>4. CASE i = NParts + 1 /\ p = <<"F", o>>
  <2>1. j = NParts + 1 /\ p = <<"F", u>>
    BY <1>4, PlaceCases
  <2>2. QED
    BY <1>4, <2>1
<1>5. QED
  BY <1>1, <1>2, <1>3, <1>4, PlaceCases

\* A block of the composed store that has a place has it within the disks.
LEMMA PlaceWithin ==
    ASSUME DS!DiskStackAssumption,
           NEW i \in DS!Inodes, NEW o \in DS!Offsets, NEW p \in DS!Place(i, o)
    PROVE  /\ o \in Nat /\ p = <<p[1], p[2]>> /\ p[1] \in DS!Disks /\ p[2] \in DS!Offsets
<1>1. PartSizes \in Seq(Nat) /\ NParts \in Nat /\ NParts >= 2 /\ NParts = Len(PartSizes)
      /\ DS!Before(PartSizes, Len(PartSizes)) <= MaxSize /\ MaxSize \in Nat /\ o \in Nat
  BY BelowIs DEF DS!DiskStackAssumption, NParts, DS!PartTotal, DS!Offsets
<1>2. DS!Before(PartSizes, Len(PartSizes)) \in Nat
  BY <1>1, BeforeSums
<1>3. ASSUME NEW k \in 1 .. NParts, NEW q \in Nat, q < PartSizes[k]
      PROVE  /\ q + DS!Before(PartSizes, k - 1) \in DS!Offsets /\ q \in DS!Offsets
  <2>1. /\ q + DS!Before(PartSizes, k - 1) \in Nat
        /\ q + DS!Before(PartSizes, k - 1) < DS!Before(PartSizes, Len(PartSizes))
    BY <1>1, <1>3, PartsWithin
  <2>2. k - 1 \in 0 .. Len(PartSizes)
    BY <1>1
  <2>3. DS!Before(PartSizes, k - 1) \in Nat
    BY <1>1, <2>2, BeforeSums
  <2>4. QED
    BY <1>1, <1>2, <2>1, <2>3 DEF DS!Offsets
<1>4. CASE i = 0 /\ o % 2 = 1 /\ p = <<"B", o \div 2>>
  <2>1. o \div 2 \in DS!Offsets
    BY <1>1 DEF DS!Offsets
  <2>2. QED
    BY <1>1, <1>4, <2>1 DEF DS!Disks
<1>5. CASE i = 0 /\ o \div 2 < PartSizes[2] /\ p = <<"A", o \div 2 + DS!Before(PartSizes, 1)>>
  <2>1. o \div 2 \in Nat /\ 2 \in 1 .. NParts /\ 2 - 1 = 1
    BY <1>1
  <2>2. o \div 2 + DS!Before(PartSizes, 2 - 1) \in DS!Offsets
    BY <1>3, <1>5, <2>1
  <2>3. QED
    BY <1>1, <1>5, <2>1, <2>2 DEF DS!Disks
<1>6. CASE /\ i \in 1 .. NParts /\ o < PartSizes[i]
           /\ p = <<"E", o + DS!Before(PartSizes, i - 1)>>
  BY <1>1, <1>3, <1>6 DEF DS!Disks
<1>7. CASE i = NParts + 1 /\ p = <<"F", o>>
  BY <1>1, <1>7 DEF DS!Disks
<1>8. QED
  BY <1>1, <1>4, <1>5, <1>6, <1>7, PlaceCases

\* The layers agree on where an inode ends.
LEMMA SizesAgree ==
    ASSUME DS!DiskStackAssumption, nblocks \in 0 .. MaxSize
    PROVE  DS!SizeIsRange
<1>0. PartSizes \in Seq(Nat) /\ NParts \in Nat /\ NParts >= 2 /\ NParts = Len(PartSizes)
      /\ MaxSize \in Nat /\ DS!Inodes = 0 .. NParts + 1 /\ nblocks \in Nat
      /\ \A k \in 1 .. NParts : PartSizes[k] \in Nat
  BY BelowIs DEF DS!DiskStackAssumption, NParts, DS!Inodes
<1> SUFFICES ASSUME NEW i \in DS!Inodes, NEW o \in DS!Offsets
             PROVE  DS!Target(i, o) # {} <=> o < DS!getsize(i)
  BY DEF DS!SizeIsRange
<1>1. o \in Nat /\ DS!Target(i, o) = {p \in DS!Place(i, o) : DS!Accepted(p)}
      /\ DS!Parts[i] = DS!Below(i)
  BY <1>0 DEF DS!Offsets, DS!Target, DS!Places, DS!Parts
<1>2. CASE i = 0
  <2>1. DS!getsize(i) = 2 * PartSizes[2] /\ PartSizes[2] \in Nat
    BY <1>0, <1>1, <1>2, BelowIs DEF DS!getsize
  <2>2. o < 2 * PartSizes[2] <=> o \div 2 < PartSizes[2]
    BY <1>1, <2>1
  <2>3. DS!Target(i, o) # {} <=> o \div 2 < PartSizes[2]
    <3>1. CASE o % 2 = 1
      <4>1. DS!Place(i, o) = {<<"B", o \div 2>>}
        BY <1>1, <1>2, <3>1, PlaceStriped
      <4>2. DS!Accepted(<<"B", o \div 2>>) <=> o \div 2 < PartSizes[2]
        BY DEF DS!Accepted, DS!RamSize
      <4>3. QED
        BY <1>1, <4>1, <4>2
    <3>2. CASE o % 2 # 1 /\ o \div 2 < PartSizes[2]
      <4>1. DS!Place(i, o) = {<<"A", o \div 2 + DS!Before(PartSizes, 1)>>}
        BY <1>1, <1>2, <3>2, PlaceStriped
      <4>2. o \div 2 + DS!Before(PartSizes, 2 - 1) < DS!Before(PartSizes, Len(PartSizes))
        <5>1. 2 \in 1 .. Len(PartSizes) /\ o \div 2 \in Nat
          BY <1>0, <1>1
        <5>2. QED
          BY <1>0, <3>2, <5>1, PartsWithin
      <4>3. DS!Accepted(<<"A", o \div 2 + DS!Before(PartSizes, 1)>>)
        BY <4>2 DEF DS!Accepted, DS!RamSize, DS!PartTotal
      <4>4. QED
        BY <1>1, <3>2, <4>1, <4>3
    <3>3. CASE o % 2 # 1 /\ ~(o \div 2 < PartSizes[2])
      BY <1>1, <1>2, <3>3, PlaceStriped
    <3>4. QED
      BY <3>1, <3>2, <3>3
  <2>4. QED
    BY <2>1, <2>2, <2>3
<1>3. CASE i \in 1 .. NParts
  <2>1. DS!getsize(i) = PartSizes[i]
    <3>1. DS!Below(i) = 2 /\ DS!Ninodes[1] = 1 /\ i - 1 + 1 = i
      BY <1>0, <1>3, BelowIs DEF DS!Ninodes
    <3>2. QED
      BY <1>1, <3>1 DEF DS!getsize
  <2>2. CASE o < PartSizes[i]
    <3>1. DS!Place(i, o) = {<<"E", o + DS!Before(PartSizes, i - 1)>>}
      BY <1>1, <1>3, <2>2, PlacePart
    <3>2. o + DS!Before(PartSizes, i - 1) < DS!Before(PartSizes, Len(PartSizes))
      BY <1>0, <1>1, <1>3, <2>2, PartsWithin
    <3>3. DS!Accepted(<<"E", o + DS!Before(PartSizes, i - 1)>>)
      BY <3>2 DEF DS!Accepted, DS!RamSize, DS!PartTotal
    <3>4. QED
      BY <1>1, <2>1, <2>2, <3>1, <3>3
  <2>3. CASE ~(o < PartSizes[i])
    BY <1>1, <1>3, <2>1, <2>3, PlacePart
  <2>4. QED
    BY <2>2, <2>3
<1>4. CASE i = NParts + 1
  <2>1. DS!getsize(i) = nblocks
    BY <1>0, <1>1, <1>4, BelowIs DEF DS!getsize
  <2>2. DS!Place(i, o) = {<<"F", o>>} /\ (DS!Accepted(<<"F", o>>) <=> o < nblocks)
    BY <1>1, <1>4, PlaceFile DEF DS!Accepted
  <2>3. QED
    BY <1>1, <2>1, <2>2
<1>5. QED
  BY <1>2, <1>3, <1>4, InodeCases

\* What checkdisk remembers of a block is what is at its place, whether or not
\* the disks accept it now, and the file has nothing beyond what was written.
Remembered ==
    \A a \in DOMAIN bl : \A p \in DS!Place(a[1], a[2]) : bl[a] = DS!Content(p)

NothingBeyond == \A o \in DS!Offsets : o >= current => store["F"][o] = Zero

StackInv == DS!TypeOK /\ DS!NeverCorrupted /\ Remembered /\ NothingBeyond

\* checkdisk_init over empty disks.
LEMMA StackInit == ASSUME DS!DiskStackAssumption PROVE DS!Init => StackInv
<1> SUFFICES ASSUME DS!Init PROVE StackInv
  OBVIOUS
<1>1. bl = << >> /\ DOMAIN << >> = {}
  BY DEF DS!Init
<1>2. DOMAIN bl = {}
  BY <1>1
<1>3. Remembered
  BY <1>2 DEF Remembered
<1>4. store["F"] = [o \in DS!Offsets |-> Zero]
  BY DEF DS!Init, DS!Disks
<1>5. NothingBeyond
  BY <1>4 DEF NothingBeyond
<1>6. DS!TypeOK /\ DS!NeverCorrupted
  <2>1. store \in [DS!Disks -> [DS!Offsets -> Block]]
    BY DEF DS!Init, DS!DiskStackAssumption
  <2>2. nblocks \in 0 .. MaxSize /\ current \in 0 .. MaxSize
    BY DEF DS!Init, DS!DiskStackAssumption
  <2>3. corrupted = FALSE
    BY DEF DS!Init
  <2>4. QED
    BY <1>2, <2>1, <2>2, <2>3 DEF DS!TypeOK, DS!NeverCorrupted
<1>7. QED
  BY <1>3, <1>5, <1>6 DEF StackInv

\* Remembering a block keeps what is remembered a function on addresses.
LEMMA RememberType ==
    ASSUME DS!TypeOK, NEW i \in DS!Inodes, NEW o \in DS!Offsets, NEW b \in Block,
           DS!Remember(<<i, o>>, b)
    PROVE  /\ DOMAIN bl' = DOMAIN bl \cup {<<i, o>>}
           /\ \A x \in DOMAIN bl' : bl'[x] = IF x = <<i, o>> THEN b ELSE bl[x]
           /\ DOMAIN bl' \subseteq DS!Inodes \X DS!Offsets
           /\ \A a \in DOMAIN bl' : bl'[a] \in Block
<1> DEFINE a == <<i, o>>
<1>1. bl' = [x \in DOMAIN bl \cup {a} |-> IF x = a THEN b ELSE bl[x]]
  BY DEF DS!Remember
<1>2. a \in DS!Inodes \X DS!Offsets
  OBVIOUS
<1> HIDE DEF a
<1>3. DOMAIN bl' = DOMAIN bl \cup {a} /\ \A x \in DOMAIN bl' : bl'[x] = IF x = a THEN b ELSE bl[x]
  BY <1>1
<1>4. DOMAIN bl' \subseteq DS!Inodes \X DS!Offsets /\ \A x \in DOMAIN bl' : bl'[x] \in Block
  BY <1>2, <1>3 DEF DS!TypeOK
<1>5. QED
  BY <1>3, <1>4 DEF a

\* checkdisk_read finds what it remembers.
LEMMA StackRead ==
    ASSUME DS!DiskStackAssumption, StackInv, NEW i \in DS!Inodes, NEW o \in DS!Offsets,
           DS!checkdisk_read(i, o)
    PROVE  StackInv'
<1>1. store' = store /\ nblocks' = nblocks /\ current' = current
  BY DEF DS!checkdisk_read
<1>2. \A p : DS!Content(p)' = DS!Content(p)
  BY <1>1 DEF DS!Content
<1>3. NothingBeyond'
  BY <1>1 DEF StackInv, NothingBeyond
<1>4. CASE bl' = bl /\ corrupted' = corrupted
  BY <1>1, <1>2, <1>3, <1>4 DEF StackInv, DS!TypeOK, DS!NeverCorrupted, Remembered
<1>5. ASSUME NEW p \in DS!Target(i, o), <<i, o>> \in DOMAIN bl,
             corrupted' = (bl[<<i, o>>] # DS!Content(p)), bl' = bl
      PROVE  StackInv'
  <2>1. p \in DS!Place(i, o)
    BY DEF DS!Target, DS!Places
  <2>2. bl[<<i, o>>] = DS!Content(p)
    BY <1>5, <2>1 DEF StackInv, Remembered
  <2>3. corrupted' = FALSE
    BY <1>5, <2>2
  <2>4. QED
    BY <1>1, <1>2, <1>3, <1>5, <2>3 DEF StackInv, DS!TypeOK, DS!NeverCorrupted, Remembered
<1>6. ASSUME NEW p \in DS!Target(i, o), DS!Remember(<<i, o>>, DS!Content(p)),
             corrupted' = corrupted
      PROVE  StackInv'
  <2>1. p \in DS!Place(i, o)
    BY DEF DS!Target, DS!Places
  <2>2. p[1] \in DS!Disks /\ p[2] \in DS!Offsets /\ o \in Nat
    BY <2>1, PlaceWithin
  <2>3. DS!Content(p) \in Block
    BY <2>2 DEF DS!Content, StackInv, DS!TypeOK, DS!DiskStackAssumption
  <2>4. /\ DOMAIN bl' = DOMAIN bl \cup {<<i, o>>}
        /\ \A x \in DOMAIN bl' : bl'[x] = IF x = <<i, o>> THEN DS!Content(p) ELSE bl[x]
        /\ DOMAIN bl' \subseteq DS!Inodes \X DS!Offsets
        /\ \A a \in DOMAIN bl' : bl'[a] \in Block
    BY <1>6, <2>3, RememberType DEF StackInv
  <2>5. Remembered'
    <3> SUFFICES ASSUME NEW a \in DOMAIN bl', NEW q \in DS!Place(a[1], a[2])
                 PROVE  bl'[a] = DS!Content(q)
      BY <1>2 DEF Remembered, DS!Place
    <3>1. CASE a = <<i, o>>
      <4>1. q = p
        BY <2>1, <2>2, <3>1, PlaceOne
      <4>2. QED
        BY <2>4, <3>1, <4>1
    <3>2. CASE a # <<i, o>>
      <4>1. a \in DOMAIN bl /\ bl'[a] = bl[a]
        BY <2>4, <3>2
      <4>2. QED
        BY <4>1 DEF StackInv, Remembered
    <3>3. QED
      BY <3>1, <3>2
  <2>6. DS!TypeOK' /\ DS!NeverCorrupted'
    BY <1>1, <1>6, <2>4 DEF StackInv, DS!TypeOK, DS!NeverCorrupted
  <2>7. QED
    BY <1>3, <2>5, <2>6 DEF StackInv
<1>7. QED
  BY <1>4, <1>5, <1>6 DEF DS!checkdisk_read

\* checkdisk_write changes the contents of one place, and no other place of a
\* block that is remembered.
LEMMA StackWrite ==
    ASSUME DS!DiskStackAssumption, StackInv, NEW i \in DS!Inodes, NEW o \in DS!Offsets,
           NEW b \in Block, DS!checkdisk_write(i, o, b)
    PROVE  StackInv'
<1>1. nblocks' = nblocks /\ corrupted' = corrupted
  BY DEF DS!checkdisk_write
<1>2. CASE store' = store /\ current' = current /\ bl' = bl
  <2>1. \A p : DS!Content(p)' = DS!Content(p)
    BY <1>2 DEF DS!Content
  <2>2. QED
    BY <1>1, <1>2, <2>1 DEF StackInv, DS!TypeOK, DS!NeverCorrupted, Remembered, NothingBeyond
<1>3. ASSUME NEW p \in DS!Target(i, o), store' = [store EXCEPT ![p[1]][p[2]] = b],
             current' = DS!NewCurrent(p), DS!Remember(<<i, o>>, b)
      PROVE  StackInv'
  <2>0. p \in DS!Place(i, o)
    BY DEF DS!Target, DS!Places
  <2>1. /\ p \in DS!Place(i, o) /\ p[1] \in DS!Disks /\ p[2] \in DS!Offsets /\ o \in Nat
        /\ p = <<p[1], p[2]>>
    BY <2>0, PlaceWithin
  <2>2. /\ DOMAIN bl' = DOMAIN bl \cup {<<i, o>>}
        /\ \A x \in DOMAIN bl' : bl'[x] = IF x = <<i, o>> THEN b ELSE bl[x]
        /\ DOMAIN bl' \subseteq DS!Inodes \X DS!Offsets
        /\ \A a \in DOMAIN bl' : bl'[a] \in Block
    BY <1>3, RememberType DEF StackInv
  <2>3. /\ store' \in [DS!Disks -> [DS!Offsets -> Block]]
        /\ \A d \in DS!Disks, u \in DS!Offsets :
              store'[d][u] = IF d = p[1] /\ u = p[2] THEN b ELSE store[d][u]
    BY <1>3, <2>1 DEF StackInv, DS!TypeOK
  <2>4. MaxSize \in Nat /\ DS!Offsets = 0 .. MaxSize - 1 /\ current \in 0 .. MaxSize
    BY DEF StackInv, DS!TypeOK, DS!DiskStackAssumption, DS!Offsets
  <2>5. /\ current' \in 0 .. MaxSize /\ current' >= current
        /\ p[1] = "F" => current' > p[2]
        /\ p[1] # "F" => current' = current
    BY <1>3, <2>1, <2>4 DEF DS!NewCurrent
  <2>6. NothingBeyond'
    <3>1. "F" \in DS!Disks
      BY DEF DS!Disks
    <3>2. QED
      BY <2>3, <2>4, <2>5, <3>1 DEF StackInv, NothingBeyond
  <2>7. DS!Content(p)' = b
    BY <2>1, <2>3, <2>4, <2>5 DEF DS!Content
  <2>8. ASSUME NEW d \in DS!Disks, NEW u \in DS!Offsets, <<d, u>> # p
        PROVE  DS!Content(<<d, u>>)' = DS!Content(<<d, u>>)
    <3>1. CASE d # "F"
      BY <2>1, <2>3, <2>8, <3>1 DEF DS!Content
    <3>2. CASE d = "F" /\ u >= current'
      BY <2>4, <2>5, <3>2 DEF DS!Content
    <3>3. CASE d = "F" /\ ~(u >= current') /\ u >= current
      <4>1. store'[d][u] = store[d][u] /\ store[d][u] = Zero
        BY <2>1, <2>3, <2>8, <3>3 DEF StackInv, NothingBeyond
      <4>2. QED
        BY <3>3, <4>1 DEF DS!Content
    <3>4. CASE d = "F" /\ ~(u >= current') /\ ~(u >= current)
      <4>1. store'[d][u] = store[d][u]
        BY <2>1, <2>3, <2>8
      <4>2. QED
        BY <3>4, <4>1 DEF DS!Content
    <3>5. QED
      BY <3>1, <3>2, <3>3, <3>4
  <2>9. Remembered'
    <3> SUFFICES ASSUME NEW a \in DOMAIN bl', NEW q \in DS!Place(a[1], a[2])
                 PROVE  bl'[a] = DS!Content(q)'
      BY DEF Remembered, DS!Place
    <3>1. CASE a = <<i, o>>
      <4>1. q = p
        BY <2>1, <3>1, PlaceOne
      <4>2. QED
        BY <2>2, <2>7, <3>1, <4>1
    <3>2. CASE a # <<i, o>>
      <4>1. a \in DOMAIN bl /\ bl'[a] = bl[a]
        BY <2>2, <3>2
      <4>2. bl[a] = DS!Content(q)
        BY <4>1 DEF StackInv, Remembered
      <4>3. PICK j \in DS!Inodes, u \in DS!Offsets : a = <<j, u>>
        BY <2>2
      <4>4. q \in DS!Place(j, u) /\ u \in Nat
        BY <2>4, <4>3
      <4>5. q # p
        BY <2>1, <3>2, <4>3, <4>4, PlacesApart
      <4>6. DS!Content(q)' = DS!Content(q)
        <5>1. PICK d \in DS!Disks, v \in DS!Offsets : q = <<d, v>>
          BY <4>3, <4>4, PlaceWithin
        <5>2. QED
          BY <2>8, <4>5, <5>1
      <4>7. QED
        BY <4>1, <4>2, <4>6
    <3>3. QED
      BY <3>1, <3>2
  <2>10. DS!TypeOK' /\ DS!NeverCorrupted'
    BY <1>1, <2>2, <2>3, <2>5 DEF StackInv, DS!TypeOK, DS!NeverCorrupted
  <2>11. QED
    BY <2>6, <2>9, <2>10 DEF StackInv
<1>4. QED
  BY <1>2, <1>3 DEF DS!checkdisk_write

\* checkdisk_setsize forgets blocks and moves no contents.
LEMMA StackSetsize ==
    ASSUME DS!DiskStackAssumption, StackInv, NEW i \in DS!Inodes, NEW n \in 0 .. MaxSize,
           DS!checkdisk_setsize(i, n)
    PROVE  StackInv'
<1>1. /\ store' = store /\ current' = current /\ corrupted' = corrupted
      /\ nblocks' \in 0 .. MaxSize
  BY DEF DS!checkdisk_setsize, StackInv, DS!TypeOK
<1>2. DOMAIN bl' \subseteq DOMAIN bl /\ \A a \in DOMAIN bl' : bl'[a] = bl[a]
  BY DEF DS!checkdisk_setsize, DS!Forget
<1>3. \A p : DS!Content(p)' = DS!Content(p)
  BY <1>1 DEF DS!Content
<1>4. Remembered'
  BY <1>2, <1>3 DEF StackInv, Remembered, DS!Place
<1>5. DS!TypeOK' /\ DS!NeverCorrupted' /\ NothingBeyond'
  BY <1>1, <1>2 DEF StackInv, DS!TypeOK, DS!NeverCorrupted, NothingBeyond
<1>6. QED
  BY <1>4, <1>5 DEF StackInv

\* Every operation keeps the invariant.
LEMMA StackStep ==
    ASSUME DS!DiskStackAssumption, StackInv, [DS!Next]_(DS!vars) PROVE StackInv'
<1>1. CASE UNCHANGED DS!vars
  <2>1. \A p : DS!Content(p)' = DS!Content(p)
    BY <1>1 DEF DS!Content, DS!vars
  <2>2. QED
    BY <1>1, <2>1 DEF DS!vars, StackInv, DS!TypeOK, DS!NeverCorrupted, Remembered, NothingBeyond
<1>2. QED
  BY <1>1, StackRead, StackWrite, StackSetsize DEF DS!Next, DS!checkdisk_sync

\* The mapping layers are correct together (raid0disk.c, mapdisk.c, partdisk.c,
\* combinedisk.c, ramdisk.c and filedisk.c under checkdisk.c): checkdisk never
\* finds a block changed behind its back, and a block can be read exactly if it
\* is below what getsize returns.
THEOREM LayersCorrect == ASSUME DS!DiskStackAssumption PROVE DS!Spec => []StackRight
<1>1. DS!Init => StackInv
  BY StackInit
<1>2. StackInv /\ [DS!Next]_(DS!vars) => StackInv'
  BY StackStep
<1>3. StackInv => StackRight
  BY SizesAgree DEF StackInv, StackRight, DS!TypeOK
<1>4. QED
  BY <1>1, <1>2, <1>3, PTL DEF DS!Spec
===============================================================================
