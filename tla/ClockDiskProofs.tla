--------------------------- MODULE ClockDiskProofs ---------------------------
(***************************************************************************)
(* Proofs about ClockDisk, for every number of inodes, blocks and cache    *)
(* slots, over a store of a fixed range.                                   *)
(***************************************************************************)
EXTENDS ClockDisk, TLAPS

\* The inductive invariant.  Coherent alone is not inductive: a block beyond
\* the end of its inode would be refused when it is written back, and the slot
\* would be clean without being on the disk.
IInv == TypeOK /\ Coherent /\ WriteBackAccepted

\* Contents that agree on every block are equal (a fact about functions).
LEMMA SameContents ==
    ASSUME NEW I, NEW O, NEW B,
           NEW f \in [I -> [O -> B]], NEW g \in [I -> [O -> B]],
           \A i \in I, o \in O : f[i][o] = g[i][o]
    PROVE  f = g
<1>1. \A i \in I : f[i] = g[i]
  <2>1. \A i \in I : f[i] \in [O -> B] /\ g[i] \in [O -> B]
    OBVIOUS
  <2>2. QED
    BY <2>1
<1>2. QED
  BY <1>1

\* Writing back slots that are in use puts exactly their blocks below
\* (the calls of below->write in cache_update and clockdisk_sync).
LEMMA WriteBackEffect ==
    ASSUME IInv, ~Growable,
           NEW W \in SUBSET {s \in Slots : InUse(s)}, WriteBack(W)
    PROVE  /\ bsize' = bsize
           /\ bdata' \in [Inodes -> [Offsets -> Block]]
           /\ \A s \in W : bdata'[cache[s].ino][cache[s].offset] = cache[s].block
           /\ \A i \in Inodes, o \in Offsets :
                 (\A s \in W : ~(cache[s].ino = i /\ cache[s].offset = o))
                    => bdata'[i][o] = bdata[i][o]
<1>1. Accepted(W) = W
  BY DEF IInv, TypeOK, WriteBackAccepted, Accepted, Slot, InUse
<1>2. bsize' = bsize
  BY DEF WriteBack
<1>3. \A s \in W : /\ s \in Slots /\ InUse(s)
                   /\ cache[s].ino \in Inodes /\ cache[s].offset \in Offsets
                   /\ cache[s].block \in Block
  BY DEF IInv, TypeOK, Slot
<1>4. bdata' \in [Inodes -> [Offsets -> Block]]
  BY <1>1, <1>3 DEF WriteBack, IInv, TypeOK
<1>5. ASSUME NEW s \in W
      PROVE  bdata'[cache[s].ino][cache[s].offset] = cache[s].block
  <2>1. \A t \in W : cache[t].ino = cache[s].ino /\ cache[t].offset = cache[s].offset
                        => t = s
    BY <1>3 DEF IInv, Coherent, Holds
  <2>2. (CHOOSE t \in W : cache[t].ino = cache[s].ino
                             /\ cache[t].offset = cache[s].offset) = s
    BY <2>1
  <2>3. QED
    BY <1>1, <1>3, <2>2 DEF WriteBack
<1>6. ASSUME NEW i \in Inodes, NEW o \in Offsets,
             \A s \in W : ~(cache[s].ino = i /\ cache[s].offset = o)
      PROVE  bdata'[i][o] = bdata[i][o]
  BY <1>1, <1>6 DEF WriteBack
<1>7. QED
  BY <1>2, <1>4, <1>5, <1>6

\* The hand only passes slots that are NEW, hence in use (cache_update).
LEMMA PassedNew ==
    ASSUME NEW v \in Slots, IsVictim(v)
    PROVE  \A s \in Passed(v) : s \in Slots /\ InUse(s)
BY DEF IsVictim, Passed, AllNew, InUse

\* What cache_update has done when it returns: slot v holds the new block and
\* every other slot holds what it held; the block that was in v, if dirty, is
\* the only one written to the store below.
Replaced(v, i, o, b, dirty) ==
    LET W == VictimWrittenBack(v)
    IN  /\ bsize' = bsize
        /\ bdata' \in [Inodes -> [Offsets -> Block]]
        /\ \A s \in W : bdata'[cache[s].ino][cache[s].offset] = cache[s].block
        /\ \A j \in Inodes, p \in Offsets :
              (\A s \in W : ~(cache[s].ino = j /\ cache[s].offset = p))
                 => bdata'[j][p] = bdata[j][p]
        /\ cache' \in [Slots -> Slot]
        /\ clock_hand' \in Slots
        /\ cache'[v].status = "NEW" /\ cache'[v].dirty = dirty
        /\ cache'[v].ino = i /\ cache'[v].offset = o /\ cache'[v].block = b
        /\ \A s \in Slots \ {v} :
              /\ cache'[s].dirty = cache[s].dirty /\ cache'[s].ino = cache[s].ino
              /\ cache'[s].offset = cache[s].offset
              /\ cache'[s].block = cache[s].block
              /\ InUse(s)' <=> InUse(s)

\* The effect of cache_update on the slots and on the store below.
LEMMA UpdateEffect ==
    ASSUME IInv, ~Growable,
           NEW i \in Inodes, NEW o \in Offsets, NEW b \in Block,
           NEW dirty \in BOOLEAN, cache_update(i, o, b, dirty)
    PROVE  \E v \in Slots : Replaced(v, i, o, b, dirty)
<1>1. PICK v \in Slots :
        /\ IsVictim(v)
        /\ WriteBack(VictimWrittenBack(v))
        /\ cache' = [s \in Slots |->
              IF s = v
              THEN [status |-> "NEW", dirty |-> dirty, ino |-> i, offset |-> o,
                    block |-> b]
              ELSE IF s \in Passed(v) THEN [cache[s] EXCEPT !.status = "OLD"]
              ELSE cache[s]]
        /\ clock_hand' = NextHand(v)
  BY DEF cache_update
<1>2. VictimWrittenBack(v) \in SUBSET {s \in Slots : InUse(s)}
  BY DEF VictimWrittenBack
<1> DEFINE W == VictimWrittenBack(v)
<1>3. /\ bsize' = bsize
      /\ bdata' \in [Inodes -> [Offsets -> Block]]
      /\ \A s \in W : bdata'[cache[s].ino][cache[s].offset] = cache[s].block
      /\ \A j \in Inodes, p \in Offsets :
            (\A s \in W : ~(cache[s].ino = j /\ cache[s].offset = p))
               => bdata'[j][p] = bdata[j][p]
  BY <1>1, <1>2, WriteBackEffect
<1>4. clock_hand' \in Slots
  BY <1>1, ClockDiskAssumption DEF NextHand, Slots
<1>5. cache' \in [Slots -> Slot]
  BY <1>1, ClockDiskAssumption DEF IInv, TypeOK, Slot, Status
<1>6. /\ cache'[v].status = "NEW" /\ cache'[v].dirty = dirty
      /\ cache'[v].ino = i /\ cache'[v].offset = o /\ cache'[v].block = b
  BY <1>1
<1>7. \A s \in Passed(v) : s \in Slots /\ InUse(s)
  BY <1>1, PassedNew
<1>8. \A s \in Slots \ {v} :
         /\ cache'[s].dirty = cache[s].dirty /\ cache'[s].ino = cache[s].ino
         /\ cache'[s].offset = cache[s].offset /\ cache'[s].block = cache[s].block
         /\ InUse(s)' <=> InUse(s)
  BY <1>1, <1>7 DEF IInv, TypeOK, Slot, InUse
<1>9. QED
  BY <1>3, <1>4, <1>5, <1>6, <1>8 DEF Replaced

\* Replacing a block keeps the invariant when the block is not cached yet,
\* lies within its inode and, if clean, is what the store below has
\* (cache_update, called by clockdisk_read and clockdisk_write).
LEMMA UpdateKeepsInv ==
    ASSUME IInv, ~Growable,
           NEW i \in Inodes, NEW o \in Offsets, NEW b \in Block,
           NEW dirty \in BOOLEAN,
           ~Hit(i, o), o < bsize[i], dirty \/ b = bdata[i][o],
           cache_update(i, o, b, dirty)
    PROVE  IInv'
<1>1. PICK v \in Slots : Replaced(v, i, o, b, dirty)
  BY UpdateEffect
<1> DEFINE W == VictimWrittenBack(v)
<1>2. TypeOK'
  BY <1>1 DEF Replaced, IInv, TypeOK
<1>3. WriteBackAccepted'
  BY <1>1 DEF Replaced, WriteBackAccepted, IInv, InUse
<1>4. \A s, t \in Slots :
         InUse(s)' /\ Holds(t, cache[s].ino, cache[s].offset)' => s = t
  BY <1>1 DEF Replaced, IInv, Coherent, Hit, Holds, InUse
<1>5. ASSUME NEW s \in Slots, InUse(s)', ~cache'[s].dirty
      PROVE  bdata'[cache'[s].ino][cache'[s].offset] = cache'[s].block
  <2>1. W \subseteq {v} /\ (v \in W => InUse(v))
    BY DEF VictimWrittenBack
  <2>2. CASE s = v
    <3>1. \A t \in W : ~(cache[t].ino = i /\ cache[t].offset = o)
      BY <2>1 DEF Hit, Holds
    <3>2. bdata'[i][o] = bdata[i][o]
      BY <1>1, <3>1 DEF Replaced
    <3>3. QED
      BY <1>1, <1>5, <2>2, <3>2 DEF Replaced
  <2>3. CASE s # v
    <3>1. InUse(s) /\ ~cache[s].dirty /\ cache[s].ino \in Inodes /\ cache[s].offset \in Offsets
      BY <1>1, <1>5, <2>3 DEF Replaced, IInv, TypeOK, Slot
    <3>2. \A t \in W : ~(cache[t].ino = cache[s].ino /\ cache[t].offset = cache[s].offset)
      BY <2>1, <2>3, <3>1 DEF IInv, Coherent, Holds
    <3>3. bdata'[cache[s].ino][cache[s].offset] = bdata[cache[s].ino][cache[s].offset]
      BY <1>1, <3>1, <3>2 DEF Replaced
    <3>4. QED
      BY <1>1, <2>3, <3>1, <3>3 DEF Replaced, IInv, Coherent
  <2>4. QED
    BY <2>2, <2>3
<1>6. QED
  BY <1>2, <1>3, <1>4, <1>5 DEF IInv, Coherent

\* The initial state, after clockdisk_init.
LEMMA InitInv == Init => IInv
BY ClockDiskAssumption
   DEF Init, IInv, TypeOK, Coherent, WriteBackAccepted, EmptySlot, Slot, Status,
       InUse, Holds, Inodes, Offsets, Slots

\* Every operation of the cache keeps the invariant.
LEMMA NextInv ==
    ASSUME IInv, ~Growable, [Next]_vars
    PROVE  IInv'
<1>1. ASSUME NEW i \in Inodes, clockdisk_getsize(i)
      PROVE  IInv'
  BY <1>1 DEF clockdisk_getsize, IInv, TypeOK, Coherent, WriteBackAccepted, InUse, Holds
<1>2. ASSUME NEW i \in Inodes, NEW n \in 0 .. MaxSize, clockdisk_setsize(i, n)
      PROVE  IInv'
  <2>1. /\ bsize' = [bsize EXCEPT ![i] = n] /\ bdata' = bdata
        /\ clock_hand' = clock_hand
    BY <1>2 DEF clockdisk_setsize, BelowSetSizeOK
  <2>2. cache' \in [Slots -> Slot]
    BY <1>2 DEF clockdisk_setsize, IInv, TypeOK, Slot, Status
  <2>3. \A s \in Slots :
           /\ cache'[s].dirty = cache[s].dirty /\ cache'[s].ino = cache[s].ino
           /\ cache'[s].offset = cache[s].offset /\ cache'[s].block = cache[s].block
           /\ InUse(s)' => InUse(s) /\ s \notin Beyond(i, n)
    BY <1>2 DEF clockdisk_setsize, IInv, TypeOK, Slot, InUse
  <2>4. TypeOK'
    BY <2>1, <2>2 DEF IInv, TypeOK
  <2>5. Coherent'
    BY <2>1, <2>3 DEF IInv, Coherent, Holds
  <2>6. WriteBackAccepted'
    <3>1. \A s \in Slots : InUse(s)' => InUse(s) /\ (cache[s].ino # i \/ cache[s].offset < n)
      BY <2>3 DEF Beyond, IInv, TypeOK, Slot, Offsets
    <3>2. QED
      BY <2>1, <2>3, <3>1 DEF IInv, TypeOK, WriteBackAccepted, Slot
  <2>7. QED
    BY <2>4, <2>5, <2>6 DEF IInv
<1>3. ASSUME NEW i \in Inodes, NEW o \in Offsets, ReadHit(i, o)
      PROVE  IInv'
  <2>1. PICK s \in Slots : FirstHolding(s, i, o) /\ cache' = [cache EXCEPT ![s].status = "NEW"]
    BY <1>3 DEF ReadHit
  <2>2. UNCHANGED <<bsize, bdata, clock_hand>>
    BY <1>3 DEF ReadHit
  <2>3. \A t \in Slots :
           /\ cache'[t].dirty = cache[t].dirty /\ cache'[t].ino = cache[t].ino
           /\ cache'[t].offset = cache[t].offset /\ cache'[t].block = cache[t].block
           /\ InUse(t)' => InUse(t)
    BY <2>1 DEF IInv, TypeOK, Slot, InUse, FirstHolding, Holds
  <2>4. TypeOK'
    BY <2>1, <2>2 DEF IInv, TypeOK, Slot, Status
  <2>5. QED
    BY <2>2, <2>3, <2>4 DEF IInv, Coherent, WriteBackAccepted, Holds
<1>4. ASSUME NEW i \in Inodes, NEW o \in Offsets, ReadMiss(i, o)
      PROVE  IInv'
  <2>1. bdata[i][o] \in Block
    BY DEF IInv, TypeOK
  <2>2. QED
    BY <1>4, <2>1, UpdateKeepsInv DEF ReadMiss
<1>5. ASSUME NEW i \in Inodes, NEW o \in Offsets, ReadBad(i, o)
      PROVE  IInv'
  BY <1>5 DEF ReadBad, IInv, TypeOK, Coherent, WriteBackAccepted, InUse, Holds
<1>6. ASSUME NEW i \in Inodes, NEW o \in Offsets, NEW b \in Block,
             o < bsize[i], clockdisk_write(i, o, b)
      PROVE  IInv'
  <2>1. CASE WriteHit(i, o, b)
    <3>1. PICK s \in Slots : FirstHolding(s, i, o) /\ cache' = [cache EXCEPT ![s] = Overwritten(s, b)]
      BY <2>1 DEF WriteHit
    <3>2. UNCHANGED <<bsize, bdata, clock_hand>>
      BY <2>1 DEF WriteHit
    <3>3. \A t \in Slots :
             /\ cache'[t].ino = cache[t].ino /\ cache'[t].offset = cache[t].offset
             /\ InUse(t)' => InUse(t)
             /\ t # s => cache'[t] = cache[t]
      BY <3>1 DEF IInv, TypeOK, Slot, InUse, FirstHolding, Holds, Overwritten
    <3>4. cache'[s].dirty = TRUE
      BY <3>1 DEF IInv, TypeOK, Slot, Overwritten
    <3>5. TypeOK'
      BY <3>1, <3>2 DEF IInv, TypeOK, Slot, Status, Overwritten
    <3>6. QED
      BY <3>2, <3>3, <3>4, <3>5 DEF IInv, Coherent, WriteBackAccepted, Holds
  <2>2. CASE WriteMiss(i, o, b)
    BY <1>6, <2>2, UpdateKeepsInv DEF WriteMiss
  <2>3. QED
    BY <1>6, <2>1, <2>2 DEF clockdisk_write
<1>7. ASSUME NEW I \in SUBSET Inodes, clockdisk_sync(I)
      PROVE  IInv'
  <2> DEFINE W == {s \in Slots : InUse(s) /\ cache[s].dirty /\ cache[s].ino \in I}
  <2>1. WriteBack(W) /\ clock_hand' = clock_hand
    BY <1>7 DEF clockdisk_sync
  <2>2. /\ bsize' = bsize
        /\ bdata' \in [Inodes -> [Offsets -> Block]]
        /\ \A s \in W : bdata'[cache[s].ino][cache[s].offset] = cache[s].block
        /\ \A j \in Inodes, p \in Offsets :
              (\A s \in W : ~(cache[s].ino = j /\ cache[s].offset = p))
                 => bdata'[j][p] = bdata[j][p]
    BY <2>1, WriteBackEffect
  <2>3. cache' = [s \in Slots |->
           IF s \in W THEN [cache[s] EXCEPT !.dirty = FALSE] ELSE cache[s]]
    BY <1>7 DEF clockdisk_sync
  <2>4. \A s \in Slots :
           /\ cache'[s].status = cache[s].status /\ cache'[s].ino = cache[s].ino
           /\ cache'[s].offset = cache[s].offset /\ cache'[s].block = cache[s].block
           /\ ~cache'[s].dirty => s \in W \/ ~cache[s].dirty
    BY <2>3 DEF IInv, TypeOK, Slot
  <2>5. TypeOK'
    <3>1. \A s \in Slots : cache[s] \in Slot /\ [cache[s] EXCEPT !.dirty = FALSE] \in Slot
      BY DEF IInv, TypeOK, Slot
    <3>2. cache' \in [Slots -> Slot]
      BY <2>3, <3>1
    <3>3. QED
      BY <2>1, <2>2, <3>2 DEF IInv, TypeOK
  <2>6. ASSUME NEW s \in Slots, InUse(s)', ~cache'[s].dirty
        PROVE  bdata'[cache'[s].ino][cache'[s].offset] = cache'[s].block
    <3>1. InUse(s) /\ cache[s].ino \in Inodes /\ cache[s].offset \in Offsets
      BY <2>4, <2>6 DEF InUse, IInv, TypeOK, Slot
    <3>2. CASE s \in W
      BY <2>2, <2>4, <3>2
    <3>3. CASE s \notin W
      <4>1. \A t \in W : ~(cache[t].ino = cache[s].ino /\ cache[t].offset = cache[s].offset)
        BY <3>1, <3>3 DEF IInv, Coherent, Holds
      <4>2. bdata'[cache[s].ino][cache[s].offset] = bdata[cache[s].ino][cache[s].offset]
        BY <2>2, <3>1, <4>1
      <4>3. QED
        BY <2>4, <2>6, <3>1, <3>3, <4>2 DEF IInv, Coherent
    <3>4. QED
      BY <3>2, <3>3
  <2>7. QED
    BY <2>2, <2>4, <2>5, <2>6 DEF IInv, Coherent, WriteBackAccepted, InUse, Holds
<1>8. CASE Restart
  BY <1>8, ClockDiskAssumption
     DEF Restart, IInv, TypeOK, Coherent, WriteBackAccepted, EmptySlot, Slot, Status,
         InUse, Holds, Inodes, Offsets, Slots
<1>9. CASE UNCHANGED vars
  BY <1>9 DEF vars, IInv, TypeOK, Coherent, WriteBackAccepted, InUse, Holds
<1>10. QED
  <2>1. \A I \in {Inodes} \cup {{i} : i \in Inodes} : I \in SUBSET Inodes
    OBVIOUS
  <2>2. QED
    BY <1>1, <1>2, <1>3, <1>4, <1>5, <1>6, <1>7, <1>8, <1>9, <2>1
       DEF Next, Common, clockdisk_read

\* The cache and the store below keep their types, whatever the operations
\* (the indices computed by cache_update stay within the slots).
THEOREM TypeCorrect == ASSUME ~Growable PROVE Spec => []TypeOK
<1>1. IInv /\ [Next]_vars => IInv'
  BY NextInv
<1>2. IInv => TypeOK
  BY DEF IInv
<1>3. QED
  BY <1>1, <1>2, InitInv, PTL DEF Spec

\* The cache never holds a block twice, and never holds a clean block that
\* differs from the store below (cache_update, clockdisk_sync).
THEOREM CacheCorrect == ASSUME ~Growable PROVE Spec => []Coherent
<1>1. IInv /\ [Next]_vars => IInv'
  BY NextInv
<1>2. IInv => Coherent
  BY DEF IInv
<1>3. QED
  BY <1>1, <1>2, InitInv, PTL DEF Spec

\* The cache never holds a block that the store below would refuse when it is
\* evicted or synced (clockdisk_setsize, clockdisk_write).
THEOREM EvictionsAccepted == ASSUME ~Growable PROVE Spec => []WriteBackAccepted
<1>1. IInv /\ [Next]_vars => IInv'
  BY NextInv
<1>2. IInv => WriteBackAccepted
  BY DEF IInv
<1>3. QED
  BY <1>1, <1>2, InitInv, PTL DEF Spec

\* What a client sees: the block in the slot that holds it, otherwise the
\* block below (the loop and the miss path of clockdisk_read).
ViewOK ==
    /\ View \in [Inodes -> [Offsets -> Block]]
    /\ \A i \in Inodes, o \in Offsets :
          /\ \A s \in Slots : Holds(s, i, o) => View[i][o] = cache[s].block
          /\ ~Hit(i, o) => View[i][o] = bdata[i][o]

\* The invariant makes the cached copy of a block unique (clockdisk_read).
LEMMA ViewCorrect == IInv => ViewOK
<1> SUFFICES ASSUME IInv PROVE ViewOK
  OBVIOUS
<1>1. ASSUME NEW i \in Inodes, NEW o \in Offsets, NEW s \in Slots, Holds(s, i, o)
      PROVE  View[i][o] = cache[s].block
  <2>1. \A t \in Slots : Holds(t, i, o) => t = s
    BY <1>1 DEF IInv, Coherent, Holds
  <2>2. (CHOOSE t \in Slots : Holds(t, i, o)) = s
    BY <1>1, <2>1
  <2>3. Hit(i, o)
    BY <1>1 DEF Hit
  <2>4. QED
    BY <2>2, <2>3 DEF View
<1>2. ASSUME NEW i \in Inodes, NEW o \in Offsets, ~Hit(i, o)
      PROVE  View[i][o] = bdata[i][o]
  BY <1>2 DEF View
<1>3. ASSUME NEW i \in Inodes, NEW o \in Offsets
      PROVE  View[i][o] \in Block
  <2>1. CASE Hit(i, o)
    BY <1>1, <2>1 DEF Hit, IInv, TypeOK, Slot
  <2>2. CASE ~Hit(i, o)
    BY <1>2, <2>2 DEF IInv, TypeOK
  <2>3. QED
    BY <2>1, <2>2
<1>4. View \in [Inodes -> [Offsets -> Block]]
  BY <1>3 DEF View
<1>5. QED
  BY <1>1, <1>2, <1>4 DEF ViewOK

\* The same of the state after a step (clockdisk_read).
LEMMA ViewCorrectNext == IInv' => ViewOK'
BY ViewCorrect, PTL

\* To a client, replacing a block is writing it, and the only other effect is
\* that a written block reaches the disk (cache_update).
LEMMA UpdateView ==
    ASSUME IInv, IInv', ~Growable,
           NEW i \in Inodes, NEW o \in Offsets, NEW b \in Block,
           NEW dirty \in BOOLEAN,
           ~Hit(i, o), cache_update(i, o, b, dirty)
    PROVE  View' = [View EXCEPT ![i][o] = b] /\ bsize' = bsize /\ Store!Persist
<1>1. PICK v \in Slots : Replaced(v, i, o, b, dirty)
  BY UpdateEffect
<1>2. ViewOK /\ ViewOK'
  BY ViewCorrect, ViewCorrectNext
<1> DEFINE W == VictimWrittenBack(v)
<1>3. W \subseteq {v} /\ (v \in W <=> InUse(v) /\ cache[v].dirty)
  BY DEF VictimWrittenBack
<1>4. View'[i][o] = b
  BY <1>1, <1>2 DEF Replaced, ViewOK, Holds, InUse
<1>5. ASSUME NEW j \in Inodes, NEW p \in Offsets, ~(j = i /\ p = o)
      PROVE  View'[j][p] = View[j][p] /\ bdata'[j][p] \in {bdata[j][p], View[j][p]}
  <2>1. CASE \E s \in Slots \ {v} : Holds(s, j, p)
    <3>1. PICK s \in Slots \ {v} : Holds(s, j, p)
      BY <2>1
    <3>2. Holds(s, j, p)' /\ cache'[s].block = cache[s].block
      BY <1>1, <3>1 DEF Replaced, Holds
    <3>3. ~Holds(v, j, p)
      BY <3>1 DEF IInv, Coherent, Holds
    <3>4. bdata'[j][p] = bdata[j][p]
      BY <1>1, <1>3, <3>3 DEF Replaced, Holds
    <3>5. QED
      BY <1>2, <3>1, <3>2, <3>4 DEF ViewOK
  <2>2. CASE Holds(v, j, p)
    <3>1. \A s \in Slots : ~Holds(s, j, p)'
      BY <1>1, <1>5, <2>2 DEF Replaced, Holds, IInv, Coherent
    <3>2. View'[j][p] = bdata'[j][p]
      BY <1>2, <3>1 DEF ViewOK, Hit
    <3>3. View[j][p] = cache[v].block
      BY <1>2, <2>2 DEF ViewOK
    <3>4. bdata'[j][p] = cache[v].block
      <4>1. CASE cache[v].dirty
        BY <1>1, <1>3, <2>2, <4>1 DEF Replaced, Holds
      <4>2. CASE ~cache[v].dirty
        BY <1>1, <1>3, <2>2, <4>2 DEF Replaced, Holds, IInv, Coherent
      <4>3. QED
        BY <4>1, <4>2
    <3>5. QED
      BY <3>2, <3>3, <3>4
  <2>3. CASE ~Hit(j, p)
    <3>1. ~Hit(j, p)'
      BY <1>1, <1>5, <2>3 DEF Replaced, Holds, Hit
    <3>2. bdata'[j][p] = bdata[j][p]
      BY <1>1, <1>3, <2>3 DEF Replaced, Holds, Hit
    <3>3. QED
      BY <1>2, <2>3, <3>1, <3>2 DEF ViewOK
  <2>4. QED
    BY <2>1, <2>2, <2>3 DEF Hit
<1>6. bdata'[i][o] = bdata[i][o]
  BY <1>1, <1>3 DEF Replaced, Hit, Holds
<1>7. View' = [View EXCEPT ![i][o] = b]
  BY <1>2, <1>4, <1>5 DEF ViewOK
<1>8. Store!Persist
  BY <1>1, <1>5, <1>6 DEF Store!Persist, Store!Contents, Store!Offsets, Replaced, Offsets
<1>9. QED
  BY <1>1, <1>7, <1>8 DEF Replaced

\* An empty cache shows the store below (clockdisk_init).
LEMMA EmptyView ==
    ASSUME IInv, \A s \in Slots : ~InUse(s)
    PROVE  View = bdata
<1>1. \A i \in Inodes, o \in Offsets : ~Hit(i, o)
  BY DEF Hit, Holds
<1>2. QED
  BY <1>1 DEF View, IInv, TypeOK

\* The same of the state after a step: a new block server starts with an empty
\* cache (clockdisk_init).
LEMMA EmptyViewNext ==
    ASSUME IInv', \A s \in Slots : ~InUse(s)'
    PROVE  View' = bdata'
<1>1. \A i \in Inodes, o \in Offsets : ~Hit(i, o)'
  BY DEF Hit, Holds
<1>2. QED
  BY <1>1 DEF View, IInv, TypeOK

\* A step that leaves the blocks in the slots and the store below alone changes
\* nothing a client sees (clockdisk_getsize, clockdisk_read).
LEMMA SameView ==
    ASSUME UNCHANGED bdata,
           \A s \in Slots : /\ InUse(s)' <=> InUse(s)
                            /\ cache'[s].ino = cache[s].ino
                            /\ cache'[s].offset = cache[s].offset
                            /\ cache'[s].block = cache[s].block,
           IInv, IInv'
    PROVE  View' = View
<1>1. ViewOK /\ ViewOK'
  BY ViewCorrect, ViewCorrectNext
<1>2. ASSUME NEW i \in Inodes, NEW o \in Offsets
      PROVE  View'[i][o] = View[i][o]
  <2>1. CASE Hit(i, o)
    <3>1. PICK s \in Slots : Holds(s, i, o)
      BY <2>1 DEF Hit
    <3>2. Holds(s, i, o)'
      BY <3>1 DEF Holds
    <3>3. QED
      BY <1>1, <3>1, <3>2 DEF ViewOK
  <2>2. CASE ~Hit(i, o)
    <3>1. ~Hit(i, o)'
      BY <2>2 DEF Hit, Holds
    <3>2. QED
      BY <1>1, <2>2, <3>1 DEF ViewOK
  <2>3. QED
    BY <2>1, <2>2
<1>3. QED
  BY <1>1, <1>2 DEF ViewOK

\* Every step of the cache is a step of the block store, or changes nothing a
\* client sees.
LEMMA StepImplements ==
    ASSUME IInv, IInv', ~Growable, [Next]_vars
    PROVE  [Store!Next]_(Store!vars)
<1>a. Store!Offsets = Offsets
  BY DEF Store!Offsets, Offsets
<1> USE <1>a
<1>0. ViewOK /\ ViewOK'
  BY ViewCorrect, ViewCorrectNext
<1>1. ASSUME NEW i \in Inodes, clockdisk_getsize(i)
      PROVE  Store!GetSize(i)
  <2>1. View' = View
    BY <1>1, SameView DEF clockdisk_getsize, InUse
  <2>2. QED
    BY <1>1, <2>1 DEF clockdisk_getsize, Store!GetSize
<1>2. ASSUME NEW i \in Inodes, NEW n \in 0 .. MaxSize, clockdisk_setsize(i, n)
      PROVE  Store!SetSize(i, n)
  <2>1. /\ bsize' = [bsize EXCEPT ![i] = n] /\ bdata' = bdata
        /\ out' = [op |-> "setsize", ret |-> bsize[i]]
    BY <1>2 DEF clockdisk_setsize, BelowSetSizeOK
  <2>2. \A s \in Slots :
           /\ cache'[s].ino = cache[s].ino /\ cache'[s].offset = cache[s].offset
           /\ cache'[s].block = cache[s].block
           /\ InUse(s)' <=> InUse(s) /\ s \notin Beyond(i, n)
    BY <1>2 DEF clockdisk_setsize, IInv, TypeOK, Slot, InUse, Beyond
  <2>3. ASSUME NEW j \in Inodes, NEW o \in Offsets, j # i \/ o < n
        PROVE  View'[j][o] = View[j][o]
    <3>1. \A s \in Slots : Holds(s, j, o)' <=> Holds(s, j, o)
      BY <2>2, <2>3 DEF Holds, Beyond, Offsets
    <3>2. CASE Hit(j, o)
      BY <1>0, <2>2, <3>1, <3>2 DEF ViewOK, Hit
    <3>3. CASE ~Hit(j, o)
      BY <1>0, <2>1, <3>1, <3>3 DEF ViewOK, Hit
    <3>4. QED
      BY <3>2, <3>3
  <2>4. QED
    BY <1>0, <2>1, <2>3 DEF Store!SetSize, Store!Contents, ViewOK
<1>3. ASSUME NEW i \in Inodes, NEW o \in Offsets, clockdisk_read(i, o)
      PROVE  Store!Read(i, o)
  <2>1. CASE ReadHit(i, o)
    <3>1. PICK s \in Slots : /\ FirstHolding(s, i, o)
                             /\ cache' = [cache EXCEPT ![s].status = "NEW"]
                             /\ out' = [op |-> "read", ret |-> cache[s].block]
                             /\ UNCHANGED <<bsize, bdata, clock_hand>>
      BY <2>1 DEF ReadHit
    <3>2. View' = View
      BY <3>1, SameView DEF IInv, TypeOK, Slot, InUse, FirstHolding, Holds
    <3>3. View[i][o] = cache[s].block /\ o < bsize[i]
      BY <1>0, <3>1 DEF FirstHolding, ViewOK, IInv, WriteBackAccepted, Holds
    <3>4. Store!Persist
      BY <3>1 DEF Store!Persist, Store!Contents, IInv, TypeOK
    <3>5. QED
      BY <3>1, <3>2, <3>3, <3>4 DEF Store!Read
  <2>2. CASE ReadMiss(i, o)
    <3>1. View[i][o] = bdata[i][o] /\ bdata[i][o] \in Block
      BY <1>0, <2>2 DEF ReadMiss, ViewOK, IInv, TypeOK
    <3>2. View' = [View EXCEPT ![i][o] = bdata[i][o]] /\ bsize' = bsize /\ Store!Persist
      BY <2>2, <3>1, UpdateView DEF ReadMiss
    <3>3. View' = View
      BY <1>0, <3>1, <3>2 DEF ViewOK
    <3>4. QED
      BY <2>2, <3>1, <3>2, <3>3 DEF Store!Read, ReadMiss
  <2>3. CASE ReadBad(i, o)
    <3>1. View' = View
      BY <2>3, SameView DEF ReadBad, InUse
    <3>2. Store!Persist
      BY <2>3 DEF ReadBad, Store!Persist, Store!Contents, IInv, TypeOK
    <3>3. ~(o < bsize[i])
      BY <2>3 DEF ReadBad, IInv, TypeOK, Offsets
    <3>4. QED
      BY <2>3, <3>1, <3>2, <3>3 DEF ReadBad, Store!Read
  <2>4. QED
    BY <1>3, <2>1, <2>2, <2>3 DEF clockdisk_read
<1>4. ASSUME NEW i \in Inodes, NEW o \in Offsets, NEW b \in Block,
             o < bsize[i], clockdisk_write(i, o, b)
      PROVE  Store!Write(i, o, b)
  <2>1. ASSUME WriteHit(i, o, b)
        PROVE  View' = [View EXCEPT ![i][o] = b] /\ bsize' = bsize /\ Store!Persist
    <3>1. PICK s \in Slots : /\ FirstHolding(s, i, o)
                             /\ cache' = [cache EXCEPT ![s] = Overwritten(s, b)]
                             /\ UNCHANGED <<bsize, bdata, clock_hand>>
      BY <2>1 DEF WriteHit
    <3>2. \A t \in Slots : /\ cache'[t].ino = cache[t].ino
                           /\ cache'[t].offset = cache[t].offset
                           /\ InUse(t)' <=> InUse(t)
                           /\ cache'[t].block = IF t = s THEN b ELSE cache[t].block
      BY <3>1 DEF IInv, TypeOK, Slot, InUse, FirstHolding, Holds, Overwritten
    <3>3. \A t \in Slots, j \in Inodes, p \in Offsets : Holds(t, j, p)' <=> Holds(t, j, p)
      BY <3>2 DEF Holds
    <3>4. View'[i][o] = b
      BY <1>0, <3>1, <3>2, <3>3 DEF ViewOK, FirstHolding
    <3>5. ASSUME NEW j \in Inodes, NEW p \in Offsets, ~(j = i /\ p = o)
          PROVE  View'[j][p] = View[j][p]
      <4>1. ~Holds(s, j, p)
        BY <3>1, <3>5 DEF FirstHolding, Holds
      <4>2. CASE Hit(j, p)
        BY <1>0, <3>2, <3>3, <4>1, <4>2 DEF ViewOK, Hit
      <4>3. CASE ~Hit(j, p)
        BY <1>0, <3>1, <3>3, <4>3 DEF ViewOK, Hit
      <4>4. QED
        BY <4>2, <4>3
    <3>6. View' = [View EXCEPT ![i][o] = b]
      <4>1. /\ View \in [Inodes -> [Offsets -> Block]]
            /\ View' \in [Inodes -> [Offsets -> Block]]
        BY <1>0 DEF ViewOK
      <4>2. /\ [View EXCEPT ![i][o] = b] \in [Inodes -> [Offsets -> Block]]
            /\ \A j \in Inodes, p \in Offsets :
                  View'[j][p] = [View EXCEPT ![i][o] = b][j][p]
        BY <3>4, <3>5, <4>1
      <4>3. QED
        BY <4>1, <4>2, SameContents
    <3>7. QED
      BY <3>1, <3>6 DEF Store!Persist, Store!Contents, IInv, TypeOK
  <2>2. ASSUME WriteMiss(i, o, b)
        PROVE  View' = [View EXCEPT ![i][o] = b] /\ bsize' = bsize /\ Store!Persist
    BY <2>2, UpdateView DEF WriteMiss
  <2>3. QED
    BY <1>4, <2>1, <2>2 DEF clockdisk_write, Store!Write
<1>5. ASSUME NEW I \in SUBSET Inodes, clockdisk_sync(I)
      PROVE  Store!Sync(I)
  <2> DEFINE W == {s \in Slots : InUse(s) /\ cache[s].dirty /\ cache[s].ino \in I}
  <2>1. WriteBack(W)
    BY <1>5 DEF clockdisk_sync
  <2>2. /\ bsize' = bsize
        /\ bdata' \in [Inodes -> [Offsets -> Block]]
        /\ \A s \in W : bdata'[cache[s].ino][cache[s].offset] = cache[s].block
        /\ \A j \in Inodes, p \in Offsets :
              (\A s \in W : ~(cache[s].ino = j /\ cache[s].offset = p))
                 => bdata'[j][p] = bdata[j][p]
    BY <2>1, WriteBackEffect
  <2>3. \A s \in Slots :
           /\ cache'[s].status = cache[s].status /\ cache'[s].ino = cache[s].ino
           /\ cache'[s].offset = cache[s].offset /\ cache'[s].block = cache[s].block
    BY <1>5 DEF clockdisk_sync, IInv, TypeOK, Slot
  <2>4. \A t \in Slots, j \in Inodes, p \in Offsets : Holds(t, j, p)' <=> Holds(t, j, p)
    BY <2>3 DEF Holds, InUse
  <2>5. ASSUME NEW j \in Inodes, NEW p \in Offsets
        PROVE  /\ View'[j][p] = View[j][p]
               /\ bdata'[j][p] \in {bdata[j][p], View[j][p]}
               /\ j \in I => bdata'[j][p] = View[j][p]
    <3>1. CASE Hit(j, p)
      <4>1. PICK s \in Slots : Holds(s, j, p)
        BY <3>1 DEF Hit
      <4>2. View[j][p] = cache[s].block /\ View'[j][p] = View[j][p]
        BY <1>0, <2>3, <2>4, <4>1 DEF ViewOK
      <4>3. CASE s \in W
        BY <2>2, <4>1, <4>2, <4>3 DEF Holds
      <4>4. CASE s \notin W
        <5>1. \A t \in W : ~(cache[t].ino = j /\ cache[t].offset = p)
          BY <4>1, <4>4 DEF IInv, Coherent, Holds
        <5>2. bdata'[j][p] = bdata[j][p]
          BY <2>2, <5>1
        <5>3. j \in I => ~cache[s].dirty
          BY <4>1, <4>4 DEF Holds
        <5>4. j \in I => bdata[j][p] = cache[s].block
          BY <4>1, <5>3 DEF IInv, Coherent, Holds
        <5>5. QED
          BY <4>2, <5>2, <5>4
      <4>5. QED
        BY <4>3, <4>4
    <3>2. CASE ~Hit(j, p)
      <4>1. bdata'[j][p] = bdata[j][p]
        BY <2>2, <3>2 DEF Hit, Holds
      <4>2. QED
        BY <1>0, <2>4, <3>2, <4>1 DEF ViewOK, Hit
    <3>3. QED
      BY <3>1, <3>2
  <2>6. View' = View
    <3>1. /\ View \in [Inodes -> [Offsets -> Block]]
          /\ View' \in [Inodes -> [Offsets -> Block]]
      BY <1>0 DEF ViewOK
    <3>2. \A j \in Inodes, p \in Offsets : View'[j][p] = View[j][p]
      BY <2>5
    <3>3. QED
      BY <3>1, <3>2, SameContents
  <2>7. out' = [op |-> "sync", ret |-> 0]
    BY <1>5 DEF clockdisk_sync
  <2>8. QED
    BY <2>2, <2>5, <2>6, <2>7 DEF Store!Sync, Store!Persist, Store!Contents
<1>6. ASSUME Restart
      PROVE  Store!Restart
  <2>1. \A s \in Slots : ~InUse(s)'
    BY <1>6 DEF Restart, InUse, EmptySlot
  <2>2. QED
    BY <1>6, <2>1, EmptyViewNext DEF Restart, Store!Restart
<1>7. CASE UNCHANGED vars
  <2>1. View' = View
    BY <1>7 DEF vars, View, Hit, Holds, InUse
  <2>2. QED
    BY <1>7, <2>1 DEF vars, Store!vars
<1>8. QED
  <2>1. \A I \in {Inodes} \cup {{i} : i \in Inodes} : I \in SUBSET Inodes
    OBVIOUS
  <2>2. CASE Common
    BY <1>1, <1>2, <1>3, <1>5, <1>6, <2>1, <2>2 DEF Common, Store!Next
  <2>3. CASE \E i \in Inodes, o \in Offsets, b \in Block :
                o < bsize[i] /\ clockdisk_write(i, o, b)
    BY <1>4, <2>3 DEF Store!Next
  <2>4. QED
    BY <1>7, <2>2, <2>3 DEF Next

\* The cache is a block store (clockdisk.c as a whole): through any hits,
\* misses, evictions, syncs, truncations and restarts it implements the
\* interface of block_store.h with the view of the slots as the contents.
THEOREM Implements == ASSUME ~Growable PROVE Spec => ImplementsBlockStore
<1>1. Init => Store!Init
  <2> SUFFICES ASSUME Init PROVE Store!Init
    OBVIOUS
  <2>1. View = bdata
    BY InitInv, EmptyView DEF Init, InUse, EmptySlot
  <2>2. QED
    BY <2>1, InitInv DEF Init, Store!Init, Store!Contents, Store!Offsets, IInv, TypeOK, Offsets
<1>2. IInv /\ [Next]_vars => IInv'
  BY NextInv
<1>3. IInv /\ IInv' /\ [Next]_vars => [Store!Next]_(Store!vars)
  BY StepImplements
<1>4. QED
  BY <1>1, <1>2, <1>3, InitInv, PTL DEF Spec, ImplementsBlockStore, Store!Spec
===============================================================================
