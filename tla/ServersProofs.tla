----------------------------- MODULE ServersProofs -----------------------------
(***************************************************************************)
(* The servers of blocks, files and directories do what Servers says, for  *)
(* every value of their constants.                                         *)
(*                                                                         *)
(* First the block server over the disk server: a sync that was answered   *)
(* is on the disk, and a block that is read has its last value, on a       *)
(* device whose writes do not fail.  The RAM file server, the block file   *)
(* server and the directory server follow, each with its invariant and its *)
(* theorem.                                                                *)
(*                                                                         *)
(* The block server waits in the middle of an access while the disk server *)
(* and the device work.  The invariant says what the request at the disk   *)
(* server is about while it is on its way: a block that is not in the      *)
(* cache, to be read, or one that is and has the same value, to be written *)
(* back, and that no dirty block is left once the sync is sent below.      *)
(***************************************************************************)
EXTENDS Servers, Facts

Clean == \A b \in DOMAIN cache : ~cache[b].dirty

\* A block in the cache has its last value, and so has one on the disk that
\* is not dirty in the cache.
CacheHolds == \A b \in DOMAIN cache : cache[b].val = data[b]
DiskHolds  == \A b \in Blk : b \notin DOMAIN cache \/ ~cache[b].dirty => disk[b] = data[b]

\* The values a block may have on the disk.
MayHolds == \A b \in Blk : disk[b] \in may[b] /\ data[b] \in may[b]

\* The access of the inode store.
AccessHolds ==
    /\ cur = None => access.op = "none"
    /\ access.op \in {"read", "write", "keep", "put", "done"} => access.blk \in Blk
    /\ access.op \in {"keep", "put"} => access.blk \notin DOMAIN cache
    /\ access.op \in {"keep", "done"} => access.val = data[access.blk]

\* The request at the disk server.
OnItsWay == dreq.st # "idle"
Carried  == dreq.st \in {"event", "reply"}

DreqHolds ==
    /\ OnItsWay => access.op \in {"read", "keep", "put", "flush"}
    /\ OnItsWay /\ dreq.op = "read" =>
          /\ access.op = "read" /\ dreq.blk = access.blk /\ dreq.blk \notin DOMAIN cache
          /\ Carried /\ dreq.ok => dreq.val = data[dreq.blk]
    /\ OnItsWay /\ dreq.op = "write" =>
          /\ access.op # "read" /\ dreq.blk \in DOMAIN cache /\ dreq.val = cache[dreq.blk].val
          /\ Carried => disk[dreq.blk] = data[dreq.blk]
    /\ OnItsWay /\ dreq.op = "sync" => access.op = "flush" /\ Clean

\* A sync: nothing is dirty once it is done.
Syncing == cur # None /\ cur.req = Request("sync", -1)

SyncHolds ==
    /\ access.op = "flush" => Syncing
    /\ Syncing => access.op = "flush" \/ (access.op = "none" /\ Clean)
    /\ cur # None /\ cur.req.op = "sync" => access.op \in {"none", "flush"}

IInv == TypeOK /\ CacheHolds /\ DiskHolds /\ MayHolds /\ AccessHolds /\ DreqHolds /\ SyncHolds

\* The empty function, which an empty cache is.
LEMMA EmptyCache ==
  ASSUME NEW S
  PROVE  <<>> \in [{} -> S] /\ DOMAIN <<>> = {}
OBVIOUS

\* block_init on a device that was just created.
LEMMA InitIInv == StoragePathAssumption /\ Init => IInv
<1> SUFFICES ASSUME StoragePathAssumption, Init PROVE IInv
  OBVIOUS
<1> USE DEF StoragePathAssumption, Init, NoAccess, Access, Idle
<1>1. DOMAIN cache = {} /\ cache \in [{} -> [val : Val, dirty : BOOLEAN]]
  BY EmptyCache
<1>2. <<>> \in Seq([src : Client, req : Requests])
  OBVIOUS
<1>3. TypeOK BY <1>1, <1>2 DEF TypeOK
<1>4. CacheHolds /\ DiskHolds /\ MayHolds BY <1>1 DEF CacheHolds, DiskHolds, MayHolds
<1>5. AccessHolds /\ DreqHolds /\ SyncHolds
  BY DEF AccessHolds, DreqHolds, SyncHolds, OnItsWay, Syncing
<1> QED BY <1>3, <1>4, <1>5 DEF IInv

\* disk_proc, with a device whose writes do not fail.
LEMMA DiskProcKeeps ==
  ASSUME StoragePathAssumption, "write" \notin FailingOps, IInv, disk_proc
  PROVE  IInv'
<1> USE DEF IInv, Above
<1>1. CASE disk_do_read
  <2> PICK ok \in BOOLEAN : HostDoes("read", ok) /\ dev_disk_read(dreq.blk, ok)
    BY <1>1 DEF disk_do_read
  <2>1. dreq.st = "sent" /\ dreq.op = "read" /\ UNCHANGED <<disk, Above>>
    BY <1>1 DEF disk_do_read, disk_proc, dev_disk_read
  <2>2. dreq' = [dreq EXCEPT !.st = "event", !.val = IF ok THEN disk[dreq.blk] ELSE 0, !.ok = ok]
    BY DEF dev_disk_read
  <2>3. access.op = "read" /\ dreq.blk \in Blk /\ dreq.blk \notin DOMAIN cache
        /\ dreq.blk = access.blk
    BY <2>1 DEF DreqHolds, OnItsWay, AccessHolds
  <2>4. disk[dreq.blk] = data[dreq.blk] /\ disk[dreq.blk] \in Val
    BY <2>3 DEF DiskHolds, TypeOK
  <2>5. dreq' \in [st : {"idle", "sent", "event", "reply"}, op : {"read", "write", "sync"},
                   blk : Blk \cup {None}, val : Val, ok : BOOLEAN]
    BY <2>2, <2>4 DEF TypeOK, StoragePathAssumption
  <2>6. nfaults' \in Nat BY DEF HostDoes, TypeOK
  <2>7. TypeOK' BY <2>1, <2>5, <2>6 DEF TypeOK
  <2>8. CacheHolds' /\ DiskHolds' /\ MayHolds' /\ AccessHolds' /\ SyncHolds'
    BY <2>1 DEF CacheHolds, DiskHolds, MayHolds, AccessHolds, SyncHolds, Syncing, Clean
  <2>9. /\ dreq'.op = "read" /\ dreq'.blk = dreq.blk
        /\ dreq'.ok => dreq'.val = disk[dreq.blk]
    BY <2>1, <2>2 DEF TypeOK
  <2>10. DreqHolds'
    BY <2>1, <2>3, <2>4, <2>9 DEF DreqHolds
  <2> QED BY <2>7, <2>8, <2>10
<1>2. CASE disk_do_write
  <2> PICK ok \in BOOLEAN : HostDoes("write", ok) /\ dev_disk_write(dreq.blk, dreq.val, ok)
    BY <1>2 DEF disk_do_write
  <2>1. dreq.st = "sent" /\ dreq.op = "write" /\ UNCHANGED <<nfaults, Above>> /\ ok
    BY <1>2 DEF disk_do_write, disk_proc, HostDoes
  <2>2. /\ access.op # "read" /\ dreq.blk \in DOMAIN cache /\ dreq.blk \in Blk
        /\ dreq.val = data[dreq.blk] /\ dreq.val \in Val
    BY <2>1 DEF DreqHolds, OnItsWay, CacheHolds, TypeOK
  <2>3. /\ disk' = [disk EXCEPT ![dreq.blk] = dreq.val]
        /\ dreq' = [dreq EXCEPT !.st = "event", !.ok = TRUE]
    BY <2>1 DEF dev_disk_write
  <2>4. disk' \in [Blk -> Val] BY <2>2, <2>3 DEF TypeOK
  <2>5. \A b \in Blk : disk'[b] = IF b = dreq.blk THEN data[b] ELSE disk[b]
    BY <2>2, <2>3 DEF TypeOK
  <2>6. dreq' \in [st : {"idle", "sent", "event", "reply"}, op : {"read", "write", "sync"},
                   blk : Blk \cup {None}, val : Val, ok : BOOLEAN]
    BY <2>3 DEF TypeOK
  <2>7. TypeOK' BY <2>1, <2>4, <2>6 DEF TypeOK
  <2>8. CacheHolds' /\ DiskHolds' /\ MayHolds' /\ AccessHolds' /\ SyncHolds'
    BY <2>1, <2>5 DEF CacheHolds, DiskHolds, MayHolds, AccessHolds, SyncHolds, Syncing, Clean
  <2>9. dreq'.op = "write" /\ dreq'.blk = dreq.blk /\ dreq'.val = dreq.val
    BY <2>1, <2>3 DEF TypeOK
  <2>10. DreqHolds'
    BY <2>1, <2>2, <2>5, <2>9 DEF DreqHolds, OnItsWay
  <2> QED BY <2>7, <2>8, <2>10
<1>3. CASE disk_do_sync
  <2>1. /\ dreq.st = "sent" /\ dreq.op = "sync" /\ UNCHANGED <<disk, nfaults, Above>>
        /\ dreq' = [dreq EXCEPT !.st = "reply"]
    BY <1>3 DEF disk_do_sync, disk_proc
  <2>2. dreq' \in [st : {"idle", "sent", "event", "reply"}, op : {"read", "write", "sync"},
                   blk : Blk \cup {None}, val : Val, ok : BOOLEAN]
    BY <2>1 DEF TypeOK
  <2>3. TypeOK' BY <2>1, <2>2 DEF TypeOK
  <2>4. CacheHolds' /\ DiskHolds' /\ MayHolds' /\ AccessHolds' /\ SyncHolds'
    BY <2>1 DEF CacheHolds, DiskHolds, MayHolds, AccessHolds, SyncHolds, Syncing, Clean
  <2>5. dreq'.op = "sync" BY <2>1 DEF TypeOK
  <2>6. DreqHolds' BY <2>1, <2>5 DEF DreqHolds, OnItsWay, Clean
  <2> QED BY <2>3, <2>4, <2>6
<1> QED BY <1>1, <1>2, <1>3 DEF disk_proc

\* dev_disk_complete.
LEMMA CompleteKeeps ==
  ASSUME IInv, dev_disk_complete
  PROVE  IInv'
<1> USE DEF IInv, Above
<1>1. /\ dreq.st = "event" /\ UNCHANGED <<disk, nfaults, Above>>
      /\ dreq' = [dreq EXCEPT !.st = "reply"]
  BY DEF dev_disk_complete
<1>2. dreq' \in [st : {"idle", "sent", "event", "reply"}, op : {"read", "write", "sync"},
                 blk : Blk \cup {None}, val : Val, ok : BOOLEAN]
  BY <1>1 DEF TypeOK
<1>3. TypeOK' BY <1>1, <1>2 DEF TypeOK
<1>4. CacheHolds' /\ DiskHolds' /\ MayHolds' /\ AccessHolds' /\ SyncHolds'
  BY <1>1 DEF CacheHolds, DiskHolds, MayHolds, AccessHolds, SyncHolds, Syncing, Clean
<1>5. dreq'.op = dreq.op /\ dreq'.blk = dreq.blk /\ dreq'.val = dreq.val /\ dreq'.ok = dreq.ok
      /\ dreq'.st = "reply"
  BY <1>1 DEF TypeOK
<1>6. DreqHolds' BY <1>1, <1>5 DEF DreqHolds, OnItsWay, Carried, Clean
<1> QED BY <1>3, <1>4, <1>6

\* The calls of the clients.
LEMMA CallKeeps ==
  ASSUME IInv, NEW c \in Client, NEW r \in Requests, Call(c, r)
  PROVE  IInv'
<1> USE DEF IInv
<1>1. /\ UNCHANGED <<disk, cache, cur, access, dreq, up, data, may, nfaults, nstops>>
      /\ ncalls' = ncalls + 1 /\ wait' = [wait EXCEPT ![c] = r]
      /\ queue' = Append(queue, [src |-> c, req |-> r])
  BY DEF Call
<1>2. queue' \in Seq([src : Client, req : Requests]) BY <1>1 DEF TypeOK
<1>3. wait' \in [Client -> Requests \cup {None}] /\ ncalls' \in Nat BY <1>1 DEF TypeOK
<1>4. TypeOK' BY <1>1, <1>2, <1>3 DEF TypeOK
<1>5. CacheHolds' /\ DiskHolds' /\ MayHolds' /\ AccessHolds' /\ DreqHolds' /\ SyncHolds'
  BY <1>1 DEF CacheHolds, DiskHolds, MayHolds, AccessHolds, DreqHolds, SyncHolds, Syncing, Clean,
              OnItsWay, Carried
<1> QED BY <1>4, <1>5

\* What a step of the cache leaves alone.
CacheFrame == UNCHANGED <<disk, cur, queue, wait, up, ncalls, nfaults, nstops>>

\* The cache takes a block that is written, in a slot that it has or a new one.
LEMMA TakeKeeps ==
  ASSUME StoragePathAssumption, IInv, CacheFrame, Busy, access.op \in {"write", "put"},
         Take(access.blk, access.val)
  PROVE  IInv'
<1> USE DEF IInv, CacheFrame
<1> DEFINE B == access.blk
           V == access.val
<1>1. B \in Blk /\ V \in Val BY DEF AccessHolds, TypeOK
<1>2. /\ data' = [data EXCEPT ![B] = V] /\ may' = [may EXCEPT ![B] = @ \cup {V}]
      /\ cache' = SetSlot(B, Slot(V, TRUE)) /\ access' = [access EXCEPT !.op = "done"]
      /\ UNCHANGED <<disk, cur, queue, wait, up, ncalls, nfaults, nstops, dreq>>
  BY DEF Take
<1>3. /\ data' \in [Blk -> Val] /\ may' \in [Blk -> SUBSET Val]
      /\ \A b \in Blk : data'[b] = IF b = B THEN V ELSE data[b]
      /\ \A b \in Blk : may'[b] = IF b = B THEN may[b] \cup {V} ELSE may[b]
  BY <1>1, <1>2 DEF TypeOK
<1>4. /\ DOMAIN cache' = DOMAIN cache \cup {B}
      /\ \A b \in DOMAIN cache' : cache'[b] = IF b = B THEN Slot(V, TRUE) ELSE cache[b]
  BY <1>2 DEF SetSlot
<1>5. DOMAIN cache' \subseteq Blk /\ cache' \in [DOMAIN cache' -> [val : Val, dirty : BOOLEAN]]
  BY <1>1, <1>2 DEF SetSlot, TypeOK, Slot
<1>6. /\ access'.op = "done" /\ access'.blk = B /\ access'.val = V
      /\ access' \in [op : {"none", "read", "write", "keep", "put", "flush", "done", "failed"},
                      blk : Blk \cup {None}, val : Val]
  BY <1>2 DEF TypeOK
<1>7. TypeOK' BY <1>2, <1>3, <1>5, <1>6 DEF TypeOK
<1>8. DOMAIN cache \subseteq Blk BY DEF TypeOK
<1>9. CacheHolds' /\ DiskHolds' /\ MayHolds'
  <2>1. CacheHolds'
    <3> SUFFICES ASSUME NEW b \in DOMAIN cache' PROVE cache'[b].val = data'[b]
      BY DEF CacheHolds
    <3>1. CASE b = B BY <1>1, <1>3, <1>4, <3>1 DEF Slot
    <3>2. CASE b # B BY <1>3, <1>4, <1>8, <3>2 DEF CacheHolds
    <3> QED BY <3>1, <3>2
  <2>2. cache'[B].dirty BY <1>4 DEF Slot
  <2>3. \A b \in Blk : b # B =>
           (b \in DOMAIN cache' <=> b \in DOMAIN cache) /\ (b \in DOMAIN cache => cache'[b] = cache[b])
    BY <1>4
  <2>4. DiskHolds' BY <1>2, <1>3, <1>4, <2>2, <2>3 DEF DiskHolds
  <2>5. MayHolds' BY <1>1, <1>2, <1>3 DEF MayHolds
  <2> QED BY <2>1, <2>4, <2>5
<1>10. AccessHolds' BY <1>1, <1>2, <1>3, <1>6 DEF AccessHolds
<1>11. dreq.st = "idle" BY DEF Busy, Idle
<1>12. DreqHolds' BY <1>2, <1>11 DEF DreqHolds, OnItsWay
<1>13. ~Syncing /\ (cur # None => cur.req.op # "sync") BY DEF SyncHolds
<1>14. SyncHolds' BY <1>2, <1>6, <1>13 DEF SyncHolds, Syncing
<1> QED BY <1>7, <1>9, <1>10, <1>12, <1>14

\* A step of the cache that only moves the access on, without a request at
\* the disk server.
LEMMA AccessKeeps ==
  ASSUME StoragePathAssumption, IInv, CacheFrame, UNCHANGED <<cache, dreq, data, may>>,
         dreq.st = "idle", access.op \in {"read", "write"}, AccessHolds',
         access' \in [op : {"done", "put"}, blk : Blk, val : Val]
  PROVE  IInv'
<1> USE DEF IInv, CacheFrame
<1>1. TypeOK' BY DEF TypeOK
<1>2. CacheHolds' /\ DiskHolds' /\ MayHolds' BY DEF CacheHolds, DiskHolds, MayHolds
<1>3. DreqHolds' BY DEF DreqHolds, OnItsWay
<1>4. SyncHolds' BY DEF SyncHolds, Syncing
<1> QED BY <1>1, <1>2, <1>3, <1>4

\* clockdisk_read and clockdisk_write, with the block in the cache or not.
LEMMA ReadHitKeeps == StoragePathAssumption /\ IInv /\ CacheFrame /\ ReadHit => IInv'
<1> SUFFICES ASSUME StoragePathAssumption, IInv, CacheFrame, ReadHit PROVE IInv'
  OBVIOUS
<1> USE DEF IInv
<1>1. /\ access.op = "read" /\ access.blk \in DOMAIN cache /\ dreq.st = "idle"
      /\ access' = [access EXCEPT !.op = "done", !.val = cache[access.blk].val]
      /\ UNCHANGED <<cache, dreq, data, may>> /\ UNCHANGED cur
  BY DEF ReadHit, Busy, Idle, CacheFrame
<1>2. access.blk \in Blk /\ cache[access.blk].val \in Val
      /\ cache[access.blk].val = data[access.blk]
  BY <1>1 DEF TypeOK, CacheHolds
<1>3. /\ access'.op = "done" /\ access'.blk = access.blk /\ access'.val = cache[access.blk].val
      /\ access' \in [op : {"done", "put"}, blk : Blk, val : Val]
  BY <1>1, <1>2 DEF TypeOK
<1>4. AccessHolds' BY <1>1, <1>2, <1>3 DEF AccessHolds
<1> QED BY <1>1, <1>3, <1>4, AccessKeeps

\* A write that misses goes on without reading.
LEMMA WriteMissKeeps == StoragePathAssumption /\ IInv /\ CacheFrame /\ WriteMiss => IInv'
<1> SUFFICES ASSUME StoragePathAssumption, IInv, CacheFrame, WriteMiss PROVE IInv'
  OBVIOUS
<1> USE DEF IInv
<1>1. /\ access.op = "write" /\ access.blk \notin DOMAIN cache /\ dreq.st = "idle"
      /\ access' = [access EXCEPT !.op = "put"]
      /\ UNCHANGED <<cache, dreq, data, may>> /\ UNCHANGED cur
  BY DEF WriteMiss, Busy, Idle, CacheFrame
<1>2. access.blk \in Blk BY <1>1 DEF AccessHolds
<1>3. /\ access'.op = "put" /\ access'.blk = access.blk
      /\ access' \in [op : {"done", "put"}, blk : Blk, val : Val]
  BY <1>1, <1>2 DEF TypeOK
<1>4. AccessHolds' BY <1>1, <1>2, <1>3 DEF AccessHolds
<1> QED BY <1>1, <1>3, <1>4, AccessKeeps

\* cache_update with a block that was read.
LEMMA KeepKeeps == StoragePathAssumption /\ IInv /\ CacheFrame /\ Keep => IInv'
<1> SUFFICES ASSUME StoragePathAssumption, IInv, CacheFrame, Keep PROVE IInv'
  OBVIOUS
<1> USE DEF IInv, CacheFrame
<1> DEFINE B == access.blk
           V == access.val
<1>1. /\ access.op = "keep" /\ dreq.st = "idle" /\ B \in Blk /\ V \in Val
      /\ V = data[B] /\ B \notin DOMAIN cache
  BY DEF Keep, Busy, Idle, AccessHolds, TypeOK
<1>2. /\ cache' = SetSlot(B, Slot(V, FALSE)) /\ access' = [access EXCEPT !.op = "done"]
      /\ UNCHANGED <<disk, cur, queue, wait, up, ncalls, nfaults, nstops, dreq, data, may>>
  BY DEF Keep
<1>3. /\ DOMAIN cache' = DOMAIN cache \cup {B}
      /\ \A b \in DOMAIN cache' : cache'[b] = IF b = B THEN Slot(V, FALSE) ELSE cache[b]
  BY <1>2 DEF SetSlot
<1>4. DOMAIN cache' \subseteq Blk /\ cache' \in [DOMAIN cache' -> [val : Val, dirty : BOOLEAN]]
  BY <1>1, <1>2 DEF SetSlot, TypeOK, Slot
<1>5. /\ access'.op = "done" /\ access'.blk = B /\ access'.val = V
      /\ access' \in [op : {"none", "read", "write", "keep", "put", "flush", "done", "failed"},
                      blk : Blk \cup {None}, val : Val]
  BY <1>2 DEF TypeOK
<1>6. TypeOK' BY <1>2, <1>4, <1>5 DEF TypeOK
<1>7. CacheHolds' /\ DiskHolds' /\ MayHolds'
  <2>1. CacheHolds'
    <3> SUFFICES ASSUME NEW b \in DOMAIN cache' PROVE cache'[b].val = data'[b]
      BY DEF CacheHolds
    <3>1. CASE b = B
      <4>1. cache'[b] = [val |-> V, dirty |-> FALSE] BY <1>3, <3>1 DEF Slot
      <4>2. data'[b] = V BY <1>1, <1>2, <3>1
      <4> QED BY <4>1, <4>2
    <3>2. CASE b # B BY <1>2, <1>3, <3>2 DEF CacheHolds
    <3> QED BY <3>1, <3>2
  <2>2. \A b \in Blk : b # B =>
           (b \in DOMAIN cache' <=> b \in DOMAIN cache) /\ (b \in DOMAIN cache => cache'[b] = cache[b])
    BY <1>3
  <2>3. disk[B] = data[B] BY <1>1 DEF DiskHolds
  <2>4. DiskHolds' BY <1>2, <2>2, <2>3 DEF DiskHolds
  <2>5. MayHolds' BY <1>2 DEF MayHolds
  <2> QED BY <2>1, <2>4, <2>5
<1>8. AccessHolds' BY <1>1, <1>2, <1>5 DEF AccessHolds
<1>9. DreqHolds' BY <1>1, <1>2 DEF DreqHolds, OnItsWay
<1>10. SyncHolds' BY <1>1, <1>2, <1>5 DEF SyncHolds, Syncing
<1> QED BY <1>6, <1>7, <1>8, <1>9, <1>10

\* A request that the cache sends to the disk server.
LEMMA SendKeeps ==
  ASSUME StoragePathAssumption, IInv, CacheFrame, UNCHANGED <<cache, access, data, may>>,
         dreq' \in [st : {"sent"}, op : {"read", "write", "sync"}, blk : Blk \cup {None},
                    val : Val, ok : BOOLEAN],
         DreqHolds'
  PROVE  IInv'
<1> USE DEF IInv, CacheFrame
<1>1. TypeOK' BY DEF TypeOK
<1>2. CacheHolds' /\ DiskHolds' /\ MayHolds' BY DEF CacheHolds, DiskHolds, MayHolds
<1>3. AccessHolds' /\ SyncHolds' BY DEF AccessHolds, SyncHolds, Syncing, Clean
<1> QED BY <1>1, <1>2, <1>3

\* A read that misses asks the disk server.
LEMMA ReadMissKeeps == StoragePathAssumption /\ IInv /\ CacheFrame /\ ReadMiss => IInv'
<1> SUFFICES ASSUME StoragePathAssumption, IInv, CacheFrame, ReadMiss PROVE IInv'
  OBVIOUS
<1>1. /\ access.op = "read" /\ access.blk \notin DOMAIN cache
      /\ UNCHANGED <<cache, access, data, may>>
      /\ dreq' = [st |-> "sent", op |-> "read", blk |-> access.blk, val |-> 0, ok |-> TRUE]
  BY DEF ReadMiss, protdisk_rpc
<1>2. access.blk \in Blk BY <1>1 DEF IInv, AccessHolds
<1>3. DreqHolds' BY <1>1 DEF DreqHolds, OnItsWay, Carried
<1> QED BY <1>1, <1>2, <1>3, SendKeeps DEF StoragePathAssumption

\* A block is written back, to replace it or for a sync.
LEMMA WriteBackKeeps ==
  ASSUME StoragePathAssumption, IInv, CacheFrame, UNCHANGED <<cache, access, data, may>>,
         access.op \in {"keep", "put", "flush"},
         NEW b \in DOMAIN cache, protdisk_rpc("write", b, cache[b].val)
  PROVE  IInv'
<1>1. dreq' = [st |-> "sent", op |-> "write", blk |-> b, val |-> cache[b].val, ok |-> TRUE]
  BY DEF protdisk_rpc
<1>2. b \in Blk /\ cache[b].val \in Val BY DEF IInv, TypeOK
<1>3. DreqHolds' BY <1>1 DEF DreqHolds, OnItsWay, Carried
<1> QED BY <1>1, <1>2, <1>3, SendKeeps

\* A block leaves the cache that is on the disk.
LEMMA DropKeeps ==
  ASSUME StoragePathAssumption, IInv, CacheFrame, UNCHANGED <<access, data, may>>,
         access.op \in {"keep", "put"}, dreq' = dreq \/ dreq' = Idle, dreq'.st = "idle",
         NEW b \in DOMAIN cache, disk[b] = data[b], cache' = Without(b)
  PROVE  IInv'
<1> USE DEF IInv, CacheFrame
<1>1. /\ DOMAIN cache' = DOMAIN cache \ {b}
      /\ \A x \in DOMAIN cache' : cache'[x] = cache[x]
  BY DEF Without
<1>2. DOMAIN cache' \subseteq Blk /\ cache' \in [DOMAIN cache' -> [val : Val, dirty : BOOLEAN]]
  BY DEF Without, TypeOK
<1>3. dreq' \in [st : {"idle", "sent", "event", "reply"}, op : {"read", "write", "sync"},
                 blk : Blk \cup {None}, val : Val, ok : BOOLEAN]
  <2>1. CASE dreq' = dreq BY <2>1 DEF TypeOK
  <2>2. CASE dreq' = Idle BY <2>2 DEF Idle, StoragePathAssumption
  <2> QED BY <2>1, <2>2
<1>4. TypeOK' BY <1>2, <1>3 DEF TypeOK
<1>5. CacheHolds' /\ DiskHolds' /\ MayHolds'
  BY <1>1 DEF CacheHolds, DiskHolds, MayHolds
<1>6. AccessHolds' BY <1>1 DEF AccessHolds
<1>7. DreqHolds' BY DEF DreqHolds, OnItsWay
<1>8. SyncHolds' BY DEF SyncHolds, Syncing
<1> QED BY <1>4, <1>5, <1>6, <1>7, <1>8

\* cache_update on a full cache.
LEMMA EvictKeeps == StoragePathAssumption /\ IInv /\ CacheFrame /\ Evict => IInv'
<1> SUFFICES ASSUME StoragePathAssumption, IInv, CacheFrame, Evict PROVE IInv'
  OBVIOUS
<1>1. PICK b \in DOMAIN cache :
         IF cache[b].dirty THEN protdisk_rpc("write", b, cache[b].val) /\ UNCHANGED cache
         ELSE cache' = Without(b) /\ UNCHANGED dreq
  BY DEF Evict
<1>2. /\ access.op \in {"keep", "put"} /\ dreq.st = "idle"
      /\ UNCHANGED access /\ UNCHANGED data /\ UNCHANGED may
  BY DEF Evict, Busy, Idle
<1>3. CASE cache[b].dirty
  BY <1>1, <1>2, <1>3, WriteBackKeeps
<1>4. CASE ~cache[b].dirty
  <2>1. b \in Blk /\ disk[b] = data[b] BY <1>4 DEF IInv, TypeOK, DiskHolds
  <2> QED BY <1>1, <1>2, <1>4, <2>1, DropKeeps
<1> QED BY <1>3, <1>4

\* clockdisk_sync.
LEMMA FlushKeeps == StoragePathAssumption /\ IInv /\ CacheFrame /\ Flush => IInv'
<1> SUFFICES ASSUME StoragePathAssumption, IInv, CacheFrame, Flush PROVE IInv'
  OBVIOUS
<1>1. access.op = "flush" /\ UNCHANGED <<cache, access, data, may>>
  BY DEF Flush
<1>2. CASE Dirty # {}
  <2>1. PICK b \in Dirty : protdisk_rpc("write", b, cache[b].val) BY <1>2 DEF Flush
  <2>2. b \in DOMAIN cache BY DEF Dirty
  <2> QED BY <1>1, <2>1, <2>2, WriteBackKeeps
<1>3. CASE Dirty = {}
  <2>1. dreq' = [st |-> "sent", op |-> "sync", blk |-> None, val |-> 0, ok |-> TRUE]
    BY <1>3 DEF Flush, protdisk_rpc
  <2>2. Clean BY <1>3 DEF Dirty, Clean
  <2>3. DreqHolds' BY <1>1, <2>1, <2>2 DEF DreqHolds, OnItsWay, Clean
  <2> QED BY <1>1, <2>1, <2>3, SendKeeps DEF StoragePathAssumption
<1> QED BY <1>2, <1>3

\* A block that was written back for a sync is clean.
LEMMA CleanedKeeps ==
  ASSUME StoragePathAssumption, IInv, CacheFrame, UNCHANGED <<access, data, may>>,
         access.op = "flush", dreq' = Idle,
         NEW b \in DOMAIN cache, disk[b] = data[b], cache' = SetSlot(b, Slot(cache[b].val, FALSE))
  PROVE  IInv'
<1> USE DEF IInv, CacheFrame
<1>1. b \in Blk /\ cache[b].val \in Val /\ cache[b].val = data[b] /\ DOMAIN cache \subseteq Blk
  BY DEF TypeOK, CacheHolds
<1>2. /\ DOMAIN cache' = DOMAIN cache
      /\ \A x \in DOMAIN cache : x # b => cache'[x] = cache[x]
      /\ cache'[b] = Slot(cache[b].val, FALSE)
  BY DEF SetSlot
<1>3. cache' \in [DOMAIN cache' -> [val : Val, dirty : BOOLEAN]]
  BY <1>1, <1>2 DEF SetSlot, TypeOK, Slot
<1>4. dreq' \in [st : {"idle", "sent", "event", "reply"}, op : {"read", "write", "sync"},
                 blk : Blk \cup {None}, val : Val, ok : BOOLEAN] /\ dreq'.st = "idle"
  BY DEF Idle, StoragePathAssumption
<1>5. TypeOK' BY <1>1, <1>2, <1>3, <1>4 DEF TypeOK
<1>6. cache'[b].val = data[b] /\ ~cache'[b].dirty BY <1>1, <1>2 DEF Slot
<1>7. CacheHolds' BY <1>2, <1>6 DEF CacheHolds
<1>8. DiskHolds' BY <1>1, <1>2 DEF DiskHolds
<1>9. MayHolds' BY DEF MayHolds
<1>10. AccessHolds' BY <1>2 DEF AccessHolds
<1>11. DreqHolds' BY <1>4 DEF DreqHolds, OnItsWay
<1>12. SyncHolds' BY DEF SyncHolds, Syncing
<1> QED BY <1>5, <1>7, <1>8, <1>9, <1>10, <1>11, <1>12

\* The reply to a read or a sync: the cache is as it was.
LEMMA ReplyKeeps ==
  ASSUME StoragePathAssumption, IInv, CacheFrame, UNCHANGED <<cache, data, may>>, dreq' = Idle,
         access' \in [op : {"none", "keep", "failed"}, blk : Blk \cup {None}, val : Val],
         AccessHolds', SyncHolds'
  PROVE  IInv'
<1> USE DEF IInv, CacheFrame
<1>1. dreq' \in [st : {"idle", "sent", "event", "reply"}, op : {"read", "write", "sync"},
                 blk : Blk \cup {None}, val : Val, ok : BOOLEAN] /\ dreq'.st = "idle"
  BY DEF Idle, StoragePathAssumption
<1>2. access' \in [op : {"none", "read", "write", "keep", "put", "flush", "done", "failed"},
                   blk : Blk \cup {None}, val : Val]
  OBVIOUS
<1>3. TypeOK' BY <1>1, <1>2 DEF TypeOK
<1>4. CacheHolds' /\ DiskHolds' /\ MayHolds' BY DEF CacheHolds, DiskHolds, MayHolds
<1>5. DreqHolds' BY <1>1 DEF DreqHolds, OnItsWay
<1> QED BY <1>3, <1>4, <1>5

\* The disk server has replied.
LEMMA DiskReplyKeeps == StoragePathAssumption /\ IInv /\ CacheFrame /\ DiskReply => IInv'
<1> SUFFICES ASSUME StoragePathAssumption, IInv, CacheFrame, DiskReply PROVE IInv'
  OBVIOUS
<1>1. /\ dreq.st = "reply" /\ dreq' = Idle /\ UNCHANGED cur
      /\ UNCHANGED data /\ UNCHANGED may /\ dreq.op \in {"read", "write", "sync"}
  BY DEF DiskReply, CacheFrame, IInv, TypeOK
<1>2. OnItsWay /\ Carried BY <1>1 DEF OnItsWay, Carried
<1>3. CASE dreq.op = "read"
  <2>1. /\ UNCHANGED cache
        /\ access' = IF dreq.ok THEN [access EXCEPT !.op = "keep", !.val = dreq.val]
                     ELSE [access EXCEPT !.op = "failed"]
    BY <1>3 DEF DiskReply
  <2>2. /\ access.op = "read" /\ dreq.blk = access.blk /\ dreq.blk \notin DOMAIN cache
        /\ dreq.ok => dreq.val = data[dreq.blk]
    BY <1>2, <1>3 DEF IInv, DreqHolds
  <2>3. cur # None /\ ~Syncing /\ cur.req.op # "sync"
    BY <2>2 DEF IInv, AccessHolds, SyncHolds
  <2>4. access.blk \in Blk /\ dreq.val \in Val BY <2>2 DEF IInv, AccessHolds, TypeOK
  <2>5. /\ access' \in [op : {"none", "keep", "failed"}, blk : Blk \cup {None}, val : Val]
        /\ access'.blk = access.blk /\ access'.op \in {"keep", "failed"}
        /\ access'.op = "keep" => dreq.ok /\ access'.val = dreq.val
    <3>1. CASE dreq.ok BY <2>1, <2>4, <3>1 DEF IInv, TypeOK
    <3>2. CASE ~dreq.ok BY <2>1, <2>4, <3>2 DEF IInv, TypeOK
    <3> QED BY <3>1, <3>2
  <2>6. AccessHolds' BY <1>1, <2>1, <2>2, <2>3, <2>4, <2>5 DEF AccessHolds
  <2>7. SyncHolds' BY <1>1, <2>3, <2>5 DEF SyncHolds, Syncing
  <2> QED BY <1>1, <2>1, <2>5, <2>6, <2>7, ReplyKeeps
<1>4. CASE dreq.op = "write"
  <2>1. /\ UNCHANGED access
        /\ cache' = IF access.op = "flush" THEN SetSlot(dreq.blk, Slot(dreq.val, FALSE))
                    ELSE Without(dreq.blk)
    BY <1>4 DEF DiskReply
  <2>2. /\ access.op \in {"keep", "put", "flush"} /\ dreq.blk \in DOMAIN cache
        /\ dreq.val = cache[dreq.blk].val /\ disk[dreq.blk] = data[dreq.blk]
    BY <1>2, <1>4 DEF IInv, DreqHolds
  <2>3. CASE access.op = "flush"
    BY <1>1, <2>1, <2>2, <2>3, CleanedKeeps
  <2>4. CASE access.op # "flush"
    <3>1. dreq'.st = "idle" BY <1>1 DEF Idle
    <3> QED BY <1>1, <2>1, <2>2, <2>4, <3>1, DropKeeps
  <2> QED BY <2>3, <2>4
<1>5. CASE dreq.op = "sync"
  <2>1. UNCHANGED cache /\ access' = NoAccess
    BY <1>5 DEF DiskReply
  <2>2. access.op = "flush" /\ Clean BY <1>2, <1>5 DEF IInv, DreqHolds
  <2>3. access'.op = "none" /\ access' \in [op : {"none", "keep", "failed"}, blk : Blk \cup {None}, val : Val]
    BY <2>1 DEF NoAccess, Access, StoragePathAssumption
  <2>4. AccessHolds' BY <2>3 DEF AccessHolds
  <2>5. SyncHolds' BY <2>1, <2>2, <2>3 DEF SyncHolds, Syncing, Clean
  <2> QED BY <1>1, <2>1, <2>3, <2>4, <2>5, ReplyKeeps
<1> QED BY <1>1, <1>3, <1>4, <1>5

\* Every step of the cache.
LEMMA CacheKeeps == StoragePathAssumption /\ IInv /\ Cache => IInv'
<1> SUFFICES ASSUME StoragePathAssumption, IInv, Cache PROVE IInv'
  OBVIOUS
<1>1. CacheFrame BY DEF Cache, CacheFrame
<1>2. CASE ReadHit \/ ReadMiss BY <1>1, <1>2, ReadHitKeeps, ReadMissKeeps
<1>3. CASE WriteHit BY <1>1, <1>3, TakeKeeps DEF WriteHit
<1>4. CASE Put BY <1>1, <1>4, TakeKeeps DEF Put
<1>5. CASE WriteMiss \/ Keep BY <1>1, <1>5, WriteMissKeeps, KeepKeeps
<1>6. CASE Evict \/ Flush BY <1>1, <1>6, EvictKeeps, FlushKeeps
<1>7. CASE DiskReply BY <1>1, <1>7, DiskReplyKeeps
<1> QED BY <1>2, <1>3, <1>4, <1>5, <1>6, <1>7 DEF Cache

\* The accesses that a request starts with or goes on to, and the end of it.
LEMMA TurnKeeps ==
  ASSUME StoragePathAssumption, IInv, UNCHANGED <<disk, cache, dreq, data>>,
         dreq.st = "idle", TypeOK', MayHolds', AccessHolds', SyncHolds'
  PROVE  IInv'
<1> USE DEF IInv
<1>1. CacheHolds' /\ DiskHolds' BY DEF CacheHolds, DiskHolds
<1>2. DreqHolds' BY DEF DreqHolds, OnItsWay
<1> QED BY <1>1, <1>2

\* block_proc takes the next request.
LEMMA BlockProcKeeps == StoragePathAssumption /\ IInv /\ block_proc => IInv'
<1> SUFFICES ASSUME StoragePathAssumption, IInv, block_proc PROVE IInv'
  OBVIOUS
<1> DEFINE q == Head(queue)
<1>1. /\ cur = None /\ queue # <<>> /\ queue' = Tail(queue)
      /\ cur' = [src |-> q.src, req |-> q.req, n |-> 0]
      /\ access' = IF q.req = Request("sync", -1) THEN Access("flush", None, 0) ELSE NoAccess
      /\ UNCHANGED <<disk, cache, dreq, wait, up, data, may, ncalls, nfaults, nstops>>
  BY DEF block_proc
<1>2. q \in [src : Client, req : Requests] /\ queue' \in Seq([src : Client, req : Requests])
  <2>1. queue \in Seq([src : Client, req : Requests]) BY DEF IInv, TypeOK
  <2> QED BY <1>1, <2>1, TailQueue
<1> HIDE DEF q
<1>3. access.op = "none" /\ dreq.st = "idle"
  BY <1>1 DEF IInv, AccessHolds, DreqHolds, OnItsWay
<1>4. cur' \in Served /\ cur' # None /\ cur'.req = q.req
  BY <1>1, <1>2 DEF Served, StoragePathAssumption
<1>5. /\ access' \in [op : {"none", "flush"}, blk : {None}, val : Val]
      /\ access'.op = "flush" <=> q.req = Request("sync", -1)
  BY <1>1 DEF Access, NoAccess, StoragePathAssumption
<1>6. TypeOK' BY <1>1, <1>2, <1>4, <1>5 DEF IInv, TypeOK
<1>7. MayHolds' BY <1>1 DEF IInv, MayHolds
<1>8. AccessHolds' BY <1>4, <1>5 DEF AccessHolds
<1>9. SyncHolds' BY <1>4, <1>5 DEF SyncHolds, Syncing
<1> QED BY <1>1, <1>3, <1>6, <1>7, <1>8, <1>9, TurnKeeps

\* An access of the inode store.
LEMMA StepKeeps ==
  ASSUME StoragePathAssumption, IInv, NEW op \in {"read", "write"}, NEW b \in Blk, NEW v \in Val,
         Step(op, b, v), cur.req.op # "sync"
  PROVE  IInv'
<1>1. /\ cur # None /\ access.op \in {"none", "done", "failed"} /\ cur.n < MaxAccesses
      /\ cur' = [cur EXCEPT !.n = @ + 1] /\ access' = Access(op, b, v)
      /\ UNCHANGED <<disk, cache, dreq, data, may, queue, wait, up, ncalls, nfaults, nstops>>
  BY DEF Step, Returned, Rest
<1>2. dreq.st = "idle" BY <1>1 DEF IInv, DreqHolds, OnItsWay
<1>3. cur \in Served BY <1>1 DEF IInv, TypeOK
<1>4. cur' \in Served /\ cur' # None /\ cur'.req = cur.req
  BY <1>1, <1>3 DEF Served, StoragePathAssumption
<1>5. access'.op = op /\ access'.blk = b /\ access' \in [op : {"read", "write"}, blk : Blk, val : Val]
  BY <1>1 DEF Access
<1>6. TypeOK' BY <1>1, <1>4, <1>5 DEF IInv, TypeOK
<1>7. MayHolds' BY <1>1 DEF IInv, MayHolds
<1>8. AccessHolds' BY <1>4, <1>5 DEF AccessHolds
<1>9. ~Syncing' BY <1>4 DEF Syncing, Request
<1>10. SyncHolds' BY <1>4, <1>5, <1>9 DEF SyncHolds
<1> QED BY <1>1, <1>2, <1>6, <1>7, <1>8, <1>10, TurnKeeps

\* block_respond: after a sync every block is on the disk.
LEMMA RespondKeeps == StoragePathAssumption /\ IInv /\ block_respond => IInv'
<1> SUFFICES ASSUME StoragePathAssumption, IInv, block_respond PROVE IInv'
  OBVIOUS
<1>1. /\ cur # None /\ access.op \in {"none", "done", "failed"}
      /\ wait' = [wait EXCEPT ![cur.src] = None] /\ cur' = None /\ access' = NoAccess
      /\ UNCHANGED <<disk, cache, dreq, data, queue, up, ncalls, nfaults, nstops>>
  BY DEF block_respond, Returned, Rest
<1>2. PICK status \in Answers(cur.req) :
         may' = IF cur.req.op = "sync" /\ status = "OK" THEN [b \in Blk |-> {data[b]}] ELSE may
  BY DEF block_respond
<1>3. dreq.st = "idle" BY <1>1 DEF IInv, DreqHolds, OnItsWay
<1>4. cur \in Served BY <1>1 DEF IInv, TypeOK
<1>5. may' \in [Blk -> SUBSET Val] BY <1>2 DEF IInv, TypeOK
<1>6. wait' \in [Client -> Requests \cup {None}] BY <1>1, <1>4 DEF IInv, TypeOK, Served
<1>7. access'.op = "none" /\ access' \in [op : {"none"}, blk : {None}, val : Val]
  BY <1>1 DEF NoAccess, Access, StoragePathAssumption
<1>8. TypeOK' BY <1>1, <1>5, <1>6, <1>7 DEF IInv, TypeOK
<1>9. MayHolds'
  <2>1. CASE cur.req.op = "sync" /\ status = "OK"
    <3>1. Answers(cur.req) = IF cur.req.ino = -1 THEN {"OK"} ELSE {"ERROR"}
      BY <2>1 DEF Answers
    <3>2. cur.req = Request("sync", -1)
      BY <1>4, <2>1, <3>1 DEF Served, Requests, Request
    <3>3. Clean BY <1>1, <3>2 DEF IInv, SyncHolds, Syncing
    <3>4. \A b \in Blk : disk[b] = data[b] BY <3>3 DEF Clean, IInv, DiskHolds
    <3>5. \A b \in Blk : may'[b] = {data[b]} BY <1>2, <2>1
    <3> QED BY <1>1, <3>4, <3>5 DEF MayHolds
  <2>2. CASE ~(cur.req.op = "sync" /\ status = "OK")
    BY <1>1, <1>2, <2>2 DEF IInv, MayHolds
  <2> QED BY <2>1, <2>2
<1>10. AccessHolds' BY <1>7 DEF AccessHolds
<1>11. SyncHolds' BY <1>1, <1>7 DEF SyncHolds, Syncing
<1> QED BY <1>1, <1>3, <1>8, <1>9, <1>10, <1>11, TurnKeeps

\* The server has no cache and no request: after panic and after a stop.
LEMMA FreshKeeps ==
  ASSUME StoragePathAssumption, IInv, UNCHANGED <<disk, ncalls, nfaults>>, nstops' \in Nat,
         cache' = <<>>, cur' = None, access' = NoAccess, queue' = <<>>,
         wait' = [c \in Client |-> None], up' \in BOOLEAN, data' = disk, dreq' = dreq \/ dreq' = Idle,
         dreq'.st = "idle", may' = may \/ may' = [b \in Blk |-> {disk[b]}]
  PROVE  IInv'
<1> USE DEF StoragePathAssumption, NoAccess, Access
<1>1. DOMAIN cache' = {} /\ cache' \in [{} -> [val : Val, dirty : BOOLEAN]]
  BY EmptyCache
<1>2. <<>> \in Seq([src : Client, req : Requests])
  OBVIOUS
<1>3. dreq' \in [st : {"idle", "sent", "event", "reply"}, op : {"read", "write", "sync"},
                 blk : Blk \cup {None}, val : Val, ok : BOOLEAN]
  <2>1. CASE dreq' = dreq BY <2>1 DEF IInv, TypeOK
  <2>2. CASE dreq' = Idle BY <2>2 DEF Idle
  <2> QED BY <2>1, <2>2
<1>4. may' \in [Blk -> SUBSET Val] /\ \A b \in Blk : disk[b] \in may'[b]
  <2>1. CASE may' = may BY <2>1 DEF IInv, TypeOK, MayHolds
  <2>2. CASE may' = [b \in Blk |-> {disk[b]}] BY <2>2 DEF IInv, TypeOK
  <2> QED BY <2>1, <2>2
<1>5. TypeOK' BY <1>1, <1>2, <1>3, <1>4 DEF IInv, TypeOK
<1>6. CacheHolds' /\ DiskHolds' /\ MayHolds' BY <1>1, <1>4 DEF CacheHolds, DiskHolds, MayHolds
<1>7. AccessHolds' /\ DreqHolds' /\ SyncHolds'
  BY DEF AccessHolds, DreqHolds, SyncHolds, OnItsWay, Syncing
<1> QED BY <1>5, <1>6, <1>7 DEF IInv

\* treedisk.c exits.
LEMMA PanicKeeps == StoragePathAssumption /\ IInv /\ panic => IInv'
<1> SUFFICES ASSUME StoragePathAssumption, IInv, panic PROVE IInv'
  OBVIOUS
<1>1. dreq.st = "idle" BY DEF panic, Returned, IInv, DreqHolds, OnItsWay
<1> QED BY <1>1, FreshKeeps DEF panic, IInv, TypeOK

\* The machine stops and starts.
LEMMA StopKeeps == StoragePathAssumption /\ IInv /\ Stop => IInv'
<1> SUFFICES ASSUME StoragePathAssumption, IInv, Stop PROVE IInv'
  OBVIOUS
<1>1. nstops' \in Nat BY DEF Stop, IInv, TypeOK
<1>2. dreq'.st = "idle" BY DEF Stop, Idle
<1> QED BY <1>1, <1>2, FreshKeeps DEF Stop

\* Every step of the block server and the inode store.
LEMMA ServeKeeps == StoragePathAssumption /\ IInv /\ Serve => IInv'
<1> SUFFICES ASSUME StoragePathAssumption, IInv, Serve PROVE IInv'
  OBVIOUS
<1>1. ASSUME NEW b \in Blk, tree_read(b) PROVE IInv'
  <2>1. Step("read", b, 0) /\ cur.req.op # "sync" BY <1>1 DEF tree_read
  <2> QED BY <2>1, StepKeeps DEF StoragePathAssumption
<1>2. ASSUME NEW b \in Blk, NEW v \in Val, tree_write(b, v) PROVE IInv'
  <2>1. Step("write", b, v) /\ cur.req.op # "sync" BY <1>2 DEF tree_write
  <2> QED BY <2>1, StepKeeps
<1>3. CASE block_respond BY <1>3, RespondKeeps
<1>4. CASE panic BY <1>4, PanicKeeps
<1> QED BY <1>1, <1>2, <1>3, <1>4 DEF Serve

\* The clients.
LEMMA ClientKeeps ==
  ASSUME IInv, NEW c \in Client, ClientNext(c)
  PROVE  IInv'
<1>1. \E op \in Ops, i \in {-1, 0} : Call(c, Request(op, i))
  BY DEF ClientNext, block_read, block_write, block_sync, block_getsize, block_setsize,
         block_getninodes, Ops
<1>2. PICK op \in Ops, i \in {-1, 0} : Call(c, Request(op, i)) BY <1>1
<1>3. Request(op, i) \in Requests BY DEF Request, Requests
<1> QED BY <1>2, <1>3, CallKeeps

\* The invariant is preserved by every step.
LEMMA NextKeeps ==
  ASSUME StoragePathAssumption, "write" \notin FailingOps, IInv, [Next]_vars
  PROVE  IInv'
<1>1. ASSUME NEW c \in Client, ClientNext(c) PROVE IInv' BY <1>1, ClientKeeps
<1>2. CASE block_proc \/ Serve BY <1>2, BlockProcKeeps, ServeKeeps
<1>3. CASE Cache \/ Stop BY <1>3, CacheKeeps, StopKeeps
<1>4. CASE disk_proc \/ dev_disk_complete BY <1>4, DiskProcKeeps, CompleteKeeps
<1>5. CASE UNCHANGED vars
  BY <1>5 DEF vars, IInv, TypeOK, CacheHolds, DiskHolds, MayHolds, AccessHolds, DreqHolds, SyncHolds,
              Syncing, Clean, OnItsWay, Carried
<1> QED BY <1>1, <1>2, <1>3, <1>4, <1>5 DEF Next

\* blocksvr.c over clockdisk.c, disksvr.c and devdisk.c, on a device that may
\* fail to read but not to write: whichever blocks the inode store accesses,
\* what it wrote to the disk blocks before a sync that returned OK is on the
\* disk whenever the machine stops, and a block that it reads has its last
\* value.
THEOREM SyncsStayDurable ==
  ASSUME StoragePathAssumption, "write" \notin FailingOps
  PROVE  Spec => []StorageRight
<1>1. Init => IInv BY InitIInv
<1>2. IInv /\ [Next]_vars => IInv' BY NextKeeps
<1>3. IInv => StorageRight
  BY DEF IInv, MayHolds, AccessHolds, StorageRight, SyncIsDurable, ReadsLatest
<1> QED BY <1>1, <1>2, <1>3, PTL DEF Spec

-------------------------------------------------------------------------------
(* The RAM file server. *)

RamByte == Ram!Bytes \cup {0, Ram!Junk}

RamFcb == [alloc : BOOLEAN, mode : SUBSET {"or", "ow", "tr", "tw"}, uid : Users,
           bytes : Seq(RamByte), modtime : Nat]

\* A file, allocated or not, has the bytes that were written to it.
RamInv ==
    /\ files \in [Ram!Fno -> RamFcb]
    /\ now \in Nat
    /\ reply.status \in {"ok", "error"}
    /\ want \in [Ram!Fno -> Seq(RamByte)]
    /\ \A f \in Ram!Fno :
          /\ Len(files[f].bytes) <= MaxSize
          /\ want[f] = files[f].bytes
          /\ ~files[f].alloc => files[f].bytes = <<>>

\* What ChangesAllowed says of one step.
RamStep ==
    \A f \in Ram!Fno : files[f].alloc =>
        /\ (files'[f].bytes # files[f].bytes \/ ~files'[f].alloc) =>
              /\ asked'.fno = f
              /\ \/ asked'.uid = 0
                 \/ asked'.uid = files[f].uid /\ "ow" \in files[f].mode
                 \/ asked'.uid # files[f].uid /\ "tw" \in files[f].mode
        /\ files'[f].uid # files[f].uid => asked'.uid = 0
        /\ files'[f].mode # files[f].mode => asked'.uid \in {0, files[f].uid}

\* Putting data into a file that ends at or behind the offset leaves no byte of
\* the heap in it: those behind the old end are all overwritten.
LEMMA PutSame ==
    ASSUME NEW s \in Seq(RamByte), NEW o \in Nat, NEW d \in Seq(RamByte), o <= Len(s),
           o + Len(d) <= MaxSize, Len(s) <= MaxSize, MaxSize \in Nat
    PROVE  LET t == IF o + Len(d) > Len(s) THEN Ram!m_realloc(s, o + Len(d)) ELSE s
               z == IF o + Len(d) > Len(s) THEN s \o Ram!Zeroes(o + Len(d) - Len(s)) ELSE s
           IN /\ Ram!Overlay(t, o, d) = Ram!Overlay(z, o, d)
              /\ Ram!Overlay(t, o, d) \in Seq(RamByte)
              /\ Len(Ram!Overlay(t, o, d)) <= MaxSize
<1> DEFINE n == o + Len(d)
           t == IF n > Len(s) THEN Ram!m_realloc(s, n) ELSE s
           z == IF n > Len(s) THEN s \o Ram!Zeroes(n - Len(s)) ELSE s
           k == IF n > Len(s) THEN n ELSE Len(s)
<1>1. n \in Nat /\ k \in Nat /\ k <= MaxSize /\ 0 \in RamByte /\ Ram!Junk \in RamByte
  BY DEF RamByte
<1>2. t \in Seq(RamByte) /\ Len(t) = k /\ \A i \in 1 .. Len(s) : t[i] = s[i]
  <2>1. CASE n > Len(s)
    <3>1. t = [i \in 1 .. n |-> IF i <= Len(s) THEN s[i] ELSE Ram!Junk]
      BY <2>1 DEF Ram!m_realloc
    <3>2. \A i \in 1 .. n : (IF i <= Len(s) THEN s[i] ELSE Ram!Junk) \in RamByte
      BY <1>1
    <3> HIDE DEF t, n
    <3> QED BY <1>1, <2>1, <3>1, <3>2
  <2>2. CASE ~(n > Len(s))
    BY <2>2, <1>1
  <2> QED BY <2>1, <2>2
<1>3. z \in Seq(RamByte) /\ Len(z) = k /\ \A i \in 1 .. Len(s) : z[i] = s[i]
  <2>1. CASE n > Len(s)
    <3>1. n - Len(s) \in Nat /\ Ram!Zeroes(n - Len(s)) \in Seq(RamByte)
          /\ Len(Ram!Zeroes(n - Len(s))) = n - Len(s)
      BY <1>1, <2>1 DEF Ram!Zeroes
    <3> QED BY <3>1, <2>1, <1>1
  <2>2. CASE ~(n > Len(s))
    BY <2>2, <1>1
  <2> QED BY <2>1, <2>2
<1> HIDE DEF t, z
<1>4. \A i \in 1 .. k : i <= Len(s) \/ (i > o /\ i <= o + Len(d))
  BY <1>1
<1>5. Ram!Overlay(t, o, d) = Ram!Overlay(z, o, d)
  BY <1>2, <1>3, <1>4 DEF Ram!Overlay
<1>6. Ram!Overlay(t, o, d) \in Seq(RamByte) /\ Len(Ram!Overlay(t, o, d)) = k
  <2>1. \A i \in 1 .. k : (i > o /\ i <= o + Len(d)) => i - o \in 1 .. Len(d)
    BY <1>1
  <2> QED BY <1>1, <1>2, <2>1 DEF Ram!Overlay
<1> QED BY <1>1, <1>5, <1>6 DEF t, z

\* A request that is refused changes no file.
LEMMA RefuseKeeps ==
    ASSUME RamInv, NEW uid, NEW op, NEW f, Ram!Refuse(uid, op, f)
    PROVE  RamInv' /\ RamStep
  BY DEF RamInv, RamStep, Ram!Refuse, Ram!Respond, Ram!Error, Ram!Fno

\* A request that only reads the table.
LEMMA LookKeeps ==
    ASSUME RamInv, NEW uid, NEW op, NEW f, NEW x, Ram!Respond(uid, op, f, files, Ram!OK(x)),
           UNCHANGED want
    PROVE  RamInv' /\ RamStep
  BY DEF RamInv, RamStep, Ram!Respond, Ram!OK, Ram!Fno

\* A request that replaces file f by b and is allowed to.
LEMMA RamReplaceKeeps ==
    ASSUME RamInv, NEW uid, NEW op, NEW f \in Ram!Fno, NEW b \in RamFcb, NEW x,
           Ram!Respond(uid, op, f, [files EXCEPT ![f] = b], Ram!OK(x)), Len(b.bytes) <= MaxSize, ~b.alloc => b.bytes = <<>>,
           want' = [want EXCEPT ![f] = b.bytes],
           files[f].alloc =>
              /\ \/ b.bytes = files[f].bytes /\ b.alloc
                 \/ Ram!ramfile_write_allowed(f, uid)
              /\ b.uid # files[f].uid => uid = 0
              /\ b.mode # files[f].mode => uid \in {0, files[f].uid}
    PROVE  RamInv' /\ RamStep
<1>1. files' = [files EXCEPT ![f] = b] /\ asked'.uid = uid /\ asked'.fno = f /\ now' = now /\ reply'.status = "ok"
  BY DEF Ram!Respond, Ram!OK
<1>2. RamInv'
  <2>2. want' \in [Ram!Fno -> Seq(RamByte)]
    BY DEF RamInv, RamFcb
  <2>3. ASSUME NEW g \in Ram!Fno
        PROVE  /\ Len(files'[g].bytes) <= MaxSize
               /\ want'[g] = files'[g].bytes
               /\ ~files'[g].alloc => files'[g].bytes = <<>>
    BY <1>1, <2>2 DEF RamInv
  <2> QED BY <1>1, <2>2, <2>3 DEF RamInv, Ram!Fno
<1>3. RamStep
  BY <1>1 DEF RamInv, RamStep, Ram!ramfile_write_allowed
<1> QED BY <1>2, <1>3

\* The fields of a file that exists.
LEMMA RamFields ==
    ASSUME RamInv, NEW f \in Ram!Fno
    PROVE  /\ files[f] = [alloc |-> files[f].alloc, mode |-> files[f].mode, uid |-> files[f].uid,
                          bytes |-> files[f].bytes, modtime |-> files[f].modtime]
           /\ files[f].alloc \in BOOLEAN /\ files[f].mode \in SUBSET {"or", "ow", "tr", "tw"}
           /\ files[f].uid \in Users /\ files[f].bytes \in Seq(RamByte)
           /\ files[f].modtime \in Nat /\ Len(files[f].bytes) <= MaxSize
           /\ want[f] = files[f].bytes /\ DOMAIN want = Ram!Fno /\ DOMAIN files = Ram!Fno
           /\ Ram!Stamp \in Nat /\ 1000 * now \in Nat /\ files \in [Ram!Fno -> RamFcb]
  BY DEF RamInv, RamFcb, Ram!Stamp, Ram!Base

\* The table has its type, and the times it is stamped with are numbers.
LEMMA RamTyped ==
    ASSUME RamInv
    PROVE  files \in [Ram!Fno -> RamFcb] /\ Ram!Stamp \in Nat /\ 1000 * now \in Nat
  BY DEF RamInv, Ram!Stamp, Ram!Base

\* The bytes of a file are the wanted ones, and not too many.
LEMMA RamBytes ==
    ASSUME RamInv, NEW f \in Ram!Fno
    PROVE  /\ want[f] = files[f].bytes /\ files[f].bytes \in Seq(RamByte)
           /\ Len(files[f].bytes) <= MaxSize
  BY RamFields, Zenon

\* The handlers, one after the other.
LEMMA RamCreate ==
    ASSUME RamInv, Ram!RamFileConstants, NEW uid \in Users, NEW m \in RamModes,
           Ram!ramfile_do_create(uid, m)
    PROVE  RamInv' /\ RamStep
<1> DEFINE room == {f \in Ram!Fno : ~files[f].alloc}
           f == CHOOSE x \in room : \A y \in room : x <= y
<1>1. CASE room = {} /\ Ram!Refuse(uid, "create", 0)
  BY <1>1, RefuseKeeps
<1>2. CASE room # {}
  <2> DEFINE b == [files[f] EXCEPT !.alloc = TRUE, !.mode = m, !.uid = uid, !.modtime = Ram!Stamp]
  <2>1. Ram!Fno \in SUBSET Nat /\ room \in SUBSET Nat
    BY DEF Ram!Fno, Ram!RamFileConstants
  <2>2. f \in room
    <3>1. PICK x \in room : \A y \in room : x <= y
      BY <1>2, <2>1, LeastNat
    <3> QED BY <3>1
  <2>3. /\ Ram!Respond(uid, "create", f, [files EXCEPT ![f] = b], Ram!OK(f))
        /\ want' = [want EXCEPT ![f] = <<>>]
    BY <1>2 DEF Ram!ramfile_do_create, Ram!Refuse
  <2> HIDE DEF f
  <2>4. f \in Ram!Fno /\ ~files[f].alloc /\ files[f].bytes = <<>>
    BY <2>2 DEF RamInv
  <2>5. files[f] \in RamFcb /\ Ram!Stamp \in Nat
    BY <2>4, RamFields
  <2>8. m \in SUBSET {"or", "ow", "tr", "tw"}
    BY DEF Ram!RamFileConstants
  <2>6. b \in RamFcb /\ b.alloc /\ b.bytes = <<>>
    BY <2>4, <2>5, <2>8 DEF RamFcb
  <2>7. Len(b.bytes) <= MaxSize
    BY <2>6 DEF Ram!RamFileConstants
  <2> HIDE DEF b
  <2> QED BY <2>3, <2>4, <2>6, <2>7, RamReplaceKeeps
<1> QED BY <1>1, <1>2 DEF Ram!ramfile_do_create

\* Reads, stats and unknown requests change no file.
LEMMA RamLook ==
    ASSUME RamInv, NEW uid, NEW f,
           \/ \E offset, size : Ram!ramfile_do_read(uid, f, offset, size)
           \/ Ram!ramfile_do_stat(uid, f)
           \/ Ram!BadRequest(uid)
    PROVE  RamInv' /\ RamStep
  BY RefuseKeeps, LookKeeps DEF Ram!ramfile_do_read, Ram!ramfile_do_stat, Ram!BadRequest

\* A write changes the bytes of one file, as the reference does.
LEMMA RamWrite ==
    ASSUME RamInv, Ram!RamFileConstants, MaxGap = 0, NEW uid \in Users, NEW f,
           NEW b \in Ram!Bytes, NEW n \in 1 .. MaxSize, NEW o \in 0 .. MaxSize,
           Ram!Exists(f) => o <= Len(files[f].bytes) + MaxGap, o + n <= MaxSize,
           Ram!ramfile_do_write(uid, f, o, [i \in 1 .. n |-> b])
    PROVE  RamInv' /\ RamStep
<1> DEFINE d == [i \in 1 .. n |-> b]
<1>1. CASE Ram!Refuse(uid, "write", f)
  BY <1>1, RefuseKeeps
<1>2. CASE ~Ram!Refuse(uid, "write", f)
  <2> DEFINE s == files[f].bytes
             t == IF o + Len(d) > Len(s) THEN Ram!m_realloc(s, o + Len(d)) ELSE s
             z == IF o + Len(d) > Len(s) THEN s \o Ram!Zeroes(o + Len(d) - Len(s)) ELSE s
             e == [files[f] EXCEPT !.bytes = Ram!ramfile_put(f, o, d), !.modtime = Ram!Stamp]
  <2>1. f \in Ram!Fno /\ files[f].alloc /\ Ram!ramfile_write_allowed(f, uid)
    BY <1>2 DEF Ram!ramfile_do_write, Ram!Exists
  <2>2. /\ Ram!Respond(uid, "write", f, [files EXCEPT ![f] = e], Ram!OK(<<>>))
        /\ want' = [want EXCEPT ![f] = Ram!Overlay(
              IF o + Len(d) > Len(want[f])
              THEN want[f] \o Ram!Zeroes(o + Len(d) - Len(want[f])) ELSE want[f], o, d)]
    BY <1>2 DEF Ram!ramfile_do_write
  <2>3. Ram!ramfile_put(f, o, d) = Ram!Overlay(t, o, d)
    BY DEF Ram!ramfile_put
  <2>4. want[f] = s /\ s \in Seq(RamByte) /\ Len(s) <= MaxSize
    BY <2>1, RamFields
  <2>5. d \in Seq(RamByte) /\ Len(d) = n /\ o \in Nat /\ MaxSize \in Nat /\ o <= Len(s)
    BY <2>1, <2>4 DEF RamByte, Ram!RamFileConstants, Ram!Exists
  <2> HIDE DEF d
  <2>6. /\ Ram!Overlay(t, o, d) = Ram!Overlay(z, o, d)
        /\ Ram!Overlay(t, o, d) \in Seq(RamByte)
        /\ Len(Ram!Overlay(t, o, d)) <= MaxSize
    <3> HIDE DEF s
    <3> QED BY <2>4, <2>5, PutSame
  <2>7. want' = [want EXCEPT ![f] = Ram!Overlay(z, o, d)]
    BY <2>2, <2>4
  <2> HIDE DEF t, z
  <2>8. files[f] \in RamFcb /\ Ram!Stamp \in Nat
    <3>1. f \in Ram!Fno
      BY <2>1
    <3>2. files \in [Ram!Fno -> RamFcb] /\ Ram!Stamp \in Nat
      BY RamTyped
    <3> QED BY <3>1, <3>2, Zenon
  <2>9. /\ e \in RamFcb /\ e.bytes = Ram!Overlay(t, o, d) /\ e.alloc
        /\ e.uid = files[f].uid /\ e.mode = files[f].mode
    BY <2>1, <2>3, <2>6, <2>8 DEF RamFcb
  <2>10. Len(e.bytes) <= MaxSize /\ want' = [want EXCEPT ![f] = e.bytes]
    BY <2>6, <2>7, <2>9
  <2>11. Ram!Respond(uid, "write", f, [files EXCEPT ![f] = e], Ram!OK(<<>>))
    BY <2>2
  <2> HIDE DEF e
  <2> QED BY <2>1, <2>9, <2>10, <2>11, RamReplaceKeeps
<1> QED BY <1>1, <1>2

\* A change of size cuts the file off, or changes nothing.
LEMMA RamSetSize ==
    ASSUME RamInv, Ram!RamFileConstants, NEW uid \in Users, NEW f, NEW n \in 0 .. MaxSize,
           Ram!ramfile_do_setsize(uid, f, n)
    PROVE  RamInv' /\ RamStep
<1>1. CASE Ram!Refuse(uid, "setsize", f)
  BY <1>1, RefuseKeeps
<1>2. CASE ~Ram!Refuse(uid, "setsize", f)
  <2> DEFINE s == files[f].bytes
             t == Ram!m_realloc(s, n)
             e == [files[f] EXCEPT !.bytes = t, !.modtime = 1000 * now]
  <2>1. f \in Ram!Fno /\ files[f].alloc /\ Ram!ramfile_write_allowed(f, uid) /\ n <= Len(s)
    BY <1>2 DEF Ram!ramfile_do_setsize, Ram!Exists
  <2>2. /\ Ram!Respond(uid, "setsize", f, [files EXCEPT ![f] = e], Ram!OK(<<>>))
        /\ want' = [want EXCEPT ![f] = SubSeq(want[f], 1, n)]
    BY <1>2 DEF Ram!ramfile_do_setsize
  <2>3. files[f] \in RamFcb /\ 1000 * now \in Nat /\ want[f] = s /\ s \in Seq(RamByte)
        /\ Len(s) <= MaxSize
    <3>1. f \in Ram!Fno
      BY <2>1
    <3>2. files[f] \in RamFcb /\ 1000 * now \in Nat
      BY <3>1, RamTyped
    <3>3. want[f] = s /\ s \in Seq(RamByte) /\ Len(s) <= MaxSize
      BY <3>1, RamBytes, Zenon
    <3> QED BY <3>2, <3>3, Zenon
  <2>8. MaxSize \in Nat
    BY DEF Ram!RamFileConstants
  <2>4. t = SubSeq(s, 1, n) /\ t \in Seq(RamByte) /\ Len(t) <= MaxSize
    <3> HIDE DEF s
    <3>1. t = [i \in 1 .. n |-> s[i]]
      BY <2>1, <2>3 DEF Ram!m_realloc
    <3>2. SubSeq(s, 1, n) = [i \in 1 .. n |-> s[i]]
      BY <2>1, <2>3
    <3>3. t \in Seq(RamByte) /\ Len(t) = n
      <4>1. n \in Nat /\ \A i \in 1 .. n : s[i] \in RamByte
        BY <2>1, <2>3
      <4> HIDE DEF t
      <4> QED BY <3>1, <4>1
    <3> QED BY <3>1, <3>2, <3>3, <2>1, <2>3, <2>8
  <2> HIDE DEF t
  <2> DEFINE w == 1000 * now
  <2>9. w \in Nat
    BY <2>3
  <2> HIDE DEF w
  <2>5. /\ e \in RamFcb /\ e.bytes = t /\ e.alloc
        /\ e.uid = files[f].uid /\ e.mode = files[f].mode
    <3>1. [files[f] EXCEPT !.bytes = t, !.modtime = w] \in RamFcb
      BY <2>1, <2>3, <2>4, <2>9 DEF RamFcb
    <3>2. e = [files[f] EXCEPT !.bytes = t, !.modtime = w]
      BY DEF w
    <3> QED BY <3>1, <3>2, <2>1, <2>3, <2>4, <2>9 DEF RamFcb
  <2>6. Len(e.bytes) <= MaxSize /\ want' = [want EXCEPT ![f] = e.bytes]
    BY <2>2, <2>3, <2>4, <2>5
  <2>7. Ram!Respond(uid, "setsize", f, [files EXCEPT ![f] = e], Ram!OK(<<>>))
    BY <2>2
  <2> HIDE DEF e
  <2> QED BY <2>1, <2>5, <2>6, <2>7, RamReplaceKeeps
<1> QED BY <1>1, <1>2

\* A deletion leaves the number with no bytes for the next file.
LEMMA RamDelete ==
    ASSUME RamInv, Ram!RamFileConstants, NEW uid \in Users, NEW f, Ram!ramfile_do_delete(uid, f)
    PROVE  RamInv' /\ RamStep
<1>1. CASE Ram!Refuse(uid, "delete", f)
  BY <1>1, RefuseKeeps
<1>2. CASE ~Ram!Refuse(uid, "delete", f)
  <2> DEFINE e == [files[f] EXCEPT !.alloc = FALSE, !.bytes = <<>>]
  <2>1. f \in Ram!Fno /\ files[f].alloc /\ Ram!ramfile_write_allowed(f, uid)
    BY <1>2 DEF Ram!ramfile_do_delete, Ram!Exists
  <2>2. /\ Ram!Respond(uid, "delete", f, [files EXCEPT ![f] = e], Ram!OK(<<>>))
        /\ want' = [want EXCEPT ![f] = <<>>]
    BY <1>2 DEF Ram!ramfile_do_delete
  <2>3. files[f] \in RamFcb
    BY <2>1, RamFields
  <2>4. <<>> \in Seq(RamByte)
    OBVIOUS
  <2>5. /\ e \in RamFcb /\ e.bytes = <<>> /\ ~e.alloc
        /\ e.uid = files[f].uid /\ e.mode = files[f].mode
    BY <2>1, <2>3, <2>4 DEF RamFcb
  <2>6. Len(e.bytes) <= MaxSize /\ want' = [want EXCEPT ![f] = e.bytes]
    BY <2>2, <2>5 DEF Ram!RamFileConstants
  <2>7. Ram!Respond(uid, "delete", f, [files EXCEPT ![f] = e], Ram!OK(<<>>))
    BY <2>2
  <2> HIDE DEF e
  <2> QED BY <2>1, <2>5, <2>6, <2>7, RamReplaceKeeps
<1> QED BY <1>1, <1>2

\* The owner or the mode of a file changes, its bytes do not.
LEMMA RamOwner ==
    ASSUME RamInv, Ram!RamFileConstants, NEW uid \in Users, NEW f,
           \/ \E u \in Users : Ram!ramfile_do_chown(uid, f, u)
           \/ \E m \in RamModes : Ram!ramfile_do_chmod(uid, f, m)
    PROVE  RamInv' /\ RamStep
<1>1. CASE Ram!Refuse(uid, "chown", f) \/ Ram!Refuse(uid, "chmod", f)
  BY <1>1, RefuseKeeps
<1>2. CASE ~(Ram!Refuse(uid, "chown", f) \/ Ram!Refuse(uid, "chmod", f))
  <2>1. f \in Ram!Fno /\ files[f].alloc /\ want' = want
    BY <1>2 DEF Ram!ramfile_do_chown, Ram!ramfile_do_chmod, Ram!Exists
  <2>2. files[f] \in RamFcb /\ want[f] = files[f].bytes /\ Len(files[f].bytes) <= MaxSize
    BY <2>1, RamFields
  <2>3. PICK u \in Users, m \in SUBSET {"or", "ow", "tr", "tw"}, op \in {"chown", "chmod"} :
           /\ Ram!Respond(uid, op, f, [files EXCEPT ![f] = [@ EXCEPT !.uid = u, !.mode = m]],
                          Ram!OK(<<>>))
           /\ u # files[f].uid => uid = 0
           /\ m # files[f].mode => uid \in {0, files[f].uid}
    <3>1. CASE \E u \in Users : Ram!ramfile_do_chown(uid, f, u)
      <4>1. PICK u \in Users : Ram!ramfile_do_chown(uid, f, u)
        BY <3>1
      <4>2. uid = 0 /\ Ram!Respond(uid, "chown", f, [files EXCEPT ![f].uid = u], Ram!OK(<<>>))
        BY <4>1, <1>2 DEF Ram!ramfile_do_chown
      <4>3. [files EXCEPT ![f].uid = u]
               = [files EXCEPT ![f] = [@ EXCEPT !.uid = u, !.mode = files[f].mode]]
        BY <2>1, <2>2 DEF RamFcb
      <4> QED BY <4>2, <4>3, <2>2 DEF RamFcb
    <3>2. CASE \E m \in RamModes : Ram!ramfile_do_chmod(uid, f, m)
      <4>1. PICK m \in RamModes : Ram!ramfile_do_chmod(uid, f, m)
        BY <3>2
      <4>2. /\ uid \in {0, files[f].uid}
            /\ Ram!Respond(uid, "chmod", f, [files EXCEPT ![f].mode = m], Ram!OK(<<>>))
        BY <4>1, <1>2 DEF Ram!ramfile_do_chmod
      <4>3. [files EXCEPT ![f].mode = m]
               = [files EXCEPT ![f] = [@ EXCEPT !.uid = files[f].uid, !.mode = m]]
        BY <2>1, <2>2 DEF RamFcb
      <4>4. m \in SUBSET {"or", "ow", "tr", "tw"}
        BY DEF Ram!RamFileConstants
      <4> QED BY <4>2, <4>3, <4>4, <2>2 DEF RamFcb
    <3> QED BY <3>1, <3>2
  <2> DEFINE e == [files[f] EXCEPT !.uid = u, !.mode = m]
  <2>4. e \in RamFcb /\ e.bytes = files[f].bytes /\ e.alloc /\ e.uid = u /\ e.mode = m
    BY <2>1, <2>2 DEF RamFcb
  <2>5. Ram!Respond(uid, op, f, [files EXCEPT ![f] = e], Ram!OK(<<>>))
    BY <2>3
  <2> HIDE DEF e
  <2>6. want' = [want EXCEPT ![f] = e.bytes]
    BY <2>1, <2>2, <2>4 DEF RamInv
  <2> QED BY <2>1, <2>2, <2>3, <2>4, <2>5, <2>6, RamReplaceKeeps
<1> QED BY <1>1, <1>2

\* Every request keeps the invariant and changes only what it may.
LEMMA RamRequest ==
    ASSUME RamInv, Ram!RamFileConstants, MaxGap = 0, NEW uid \in Users, Ram!Request(uid)
    PROVE  RamInv' /\ RamStep
  BY RamCreate, RamLook, RamWrite, RamSetSize, RamDelete, RamOwner DEF Ram!Request

\* ramfilesvr.c, for any number of files, users and requests, as long as clients
\* do not write behind the end of a file (MaxGap = 0): a file has the bytes
\* written to it since it was created, and data, mode and owner change only by
\* requests that are allowed (ramfile_put, ramfile_do_setsize, ramfile_do_delete).
THEOREM RamFilesStayRight ==
    ASSUME Ram!RamFileConstants, MaxGap = 0
    PROVE  Ram!Spec => RamFilesRight
<1>1. Ram!Init => RamInv
  BY DEF Ram!RamFileConstants, Ram!Init, RamInv, RamFcb, Ram!NoFile, Ram!Error, Ram!Fno
<1>2. RamInv /\ [Ram!Next]_(Ram!vars) => RamInv' /\ [RamStep]_(Ram!vars)
  <2> SUFFICES ASSUME RamInv, [Ram!Next]_(Ram!vars)
               PROVE  RamInv' /\ [RamStep]_(Ram!vars)
    OBVIOUS
  <2>1. CASE Ram!ramfile_proc
    BY <2>1, RamRequest DEF Ram!ramfile_proc
  <2>2. CASE Ram!Tick
    BY <2>2 DEF Ram!Tick, RamInv, RamStep, Ram!Fno
  <2>3. CASE UNCHANGED Ram!vars
    BY <2>3 DEF Ram!vars, RamInv, Ram!Fno
  <2> QED BY <2>1, <2>2, <2>3 DEF Ram!Next, Ram!Done
<1>3. RamInv => Ram!TypeOK /\ Ram!ContentsRight
  BY DEF RamInv, RamFcb, RamByte, Ram!TypeOK, Ram!ContentsRight
<1> QED BY <1>1, <1>2, <1>3, PTL DEF Ram!Spec, RamFilesRight, Ram!ChangesAllowed, RamStep

-------------------------------------------------------------------------------
(* The block file server. *)

FsBlock == [0 .. BS - 1 -> Byte \cup {0}]

\* The blocks of inode 0: of the array of FCBs, or anything else.
ArrayBlock == {Fs!Scrap} \cup {Fs!FcbBlock(F, b) : F \in [Fs!Files -> Fs!FCB], b \in Nat}

BlockOf(f) == IF f = 0 THEN ArrayBlock ELSE FsBlock

\* What FCB b, inode s and the bytes x written to a file have to do with each other.
FileOK(b, s, x) ==
    /\ ~b.alloc => x = Fs!Unset
    /\ x # Fs!Unset => \A o \in DOMAIN x :
          /\ o \in 0 .. b.size - 1
          /\ o \div BS < Len(s)
          /\ s[o \div BS + 1][o % BS] = x[o]

FsOK(F, I, R) ==
    /\ F \in [Fs!Files -> Fs!FCB]
    /\ DOMAIN I = Fs!Files
    /\ \A f \in Fs!Files : I[f] \in Seq(BlockOf(f))
    /\ DOMAIN R = Fs!Files
    /\ \A f \in Fs!Files : f # 0 => FileOK(F[f], I[f], R[f])

\* The array in inode 0 is the one of the FCBs F.
Saved(F, I) ==
    /\ Len(I[0]) >= Fs!ArrayBlocks
    /\ \A b \in 0 .. Fs!ArrayBlocks - 1 : I[0][b + 1] = Fs!FcbBlock(F, b)

\* A client that was never sent two replies has at most the request at the server
\* that it waits for; a second reply is for a client that gets two.
QueueOK ==
    /\ \A i \in 1 .. Len(queue1) : queue1[i].src \notin twice =>
          /\ wait1[queue1[i].src] = queue1[i].n
          /\ \A j \in 1 .. Len(queue1) : queue1[i].src = queue1[j].src => i = j
    /\ second # <<>> => second[1].src \in twice

FsInv ==
    /\ FsOK(fcb, ino, ref)
    /\ queue1 \in Seq(Fs!Messages)
    /\ wait1 \in [FsClient -> {None} \cup 0 .. FsCalls]
    /\ DOMAIN res1 = FsClient
    /\ ncalls1 \in 0 .. FsCalls
    /\ fails \in Nat
    /\ fails = 0 /\ ~raw => Saved(fcb, ino)
    /\ QueueOK
    /\ Fs!AnswersOwn

\* Division of a byte offset into a block and a place in it.
LEMMA DivMod ==
    ASSUME NEW n \in Nat \ {0}, NEW o \in Nat
    PROVE  /\ o \div n \in Nat /\ o % n \in 0 .. n - 1
           /\ o = n * (o \div n) + (o % n)
  OBVIOUS

\* Facts of division and multiplication.
LEMMA DivUnique ==
    ASSUME NEW n \in Nat \ {0}, NEW q \in Nat, NEW x \in 0 .. n - 1
    PROVE  (q * n + x) \div n = q /\ (q * n + x) % n = x
  OBVIOUS

\* Division keeps the order.
LEMMA DivMono ==
    ASSUME NEW n \in Nat \ {0}, NEW x \in Nat, NEW b \in Nat, x <= b
    PROVE  x \div n <= b \div n
  OBVIOUS

\* Multiplication keeps the order.
LEMMA MulMono ==
    ASSUME NEW n \in Nat, NEW x \in Nat, NEW b \in Nat, x <= b
    PROVE  x * n <= b * n /\ x * n \in Nat /\ b * n \in Nat
  OBVIOUS

\* Where the FCB of a file is in the array.
LEMMA ArrayPlace ==
    ASSUME Fs!BfsAssumption, NEW f \in Fs!Files
    PROVE  /\ Fs!FirstBlock(f) \in Nat /\ Fs!LastBlock(f) \in Nat /\ Fs!ArrayBlocks \in Nat
           /\ Fs!FirstBlock(f) <= Fs!LastBlock(f) /\ Fs!LastBlock(f) < Fs!ArrayBlocks
<1>1. NFcbs \in Nat \ {0, 1} /\ BS \in Nat \ {0} /\ FcbSize \in Nat \ {0} /\ f \in 0 .. NFcbs - 1
  BY DEF Fs!BfsAssumption, Fs!Files
<1>2. f * FcbSize \in Nat /\ (f + 1) * FcbSize <= NFcbs * FcbSize /\ (f + 1) * FcbSize = f * FcbSize + FcbSize
      /\ NFcbs * FcbSize \in Nat
  BY <1>1, MulMono
<1> DEFINE x == f * FcbSize
           y == (f + 1) * FcbSize - 1
           z == NFcbs * FcbSize - 1
<1>3. x \in Nat /\ y \in Nat /\ z \in Nat /\ x <= y /\ y <= z
  BY <1>1, <1>2
<1> HIDE DEF x, y, z
<1>4. x \div BS \in Nat /\ y \div BS \in Nat /\ z \div BS \in Nat
      /\ x \div BS <= y \div BS /\ y \div BS <= z \div BS
  BY <1>1, <1>3, DivMod, DivMono
<1>5. Fs!FirstBlock(f) = x \div BS /\ Fs!LastBlock(f) = y \div BS /\ Fs!ArrayBlocks = z \div BS + 1
  BY DEF Fs!FirstBlock, Fs!LastBlock, Fs!ArrayBlocks, x, y, z
<1> QED BY <1>4, <1>5

\* The last block written of a range.
LEMMA Granted ==
    ASSUME NEW lo \in Nat, NEW hi \in Nat, lo <= hi, NEW k \in Int, k >= -1
    PROVE  /\ Fs!LastGranted(lo, hi, k) \in Int
           /\ lo <= Fs!LastGranted(lo, hi, k) + 1 /\ Fs!LastGranted(lo, hi, k) <= hi
           /\ k = Fs!All => Fs!LastGranted(lo, hi, k) = hi
  BY DEF Fs!LastGranted, Fs!All

\* What the block server may grant.
LEMMA GrantOK ==
    ASSUME Fs!BfsAssumption, NEW g \in Fs!Grants
    PROVE  g.data \in Int /\ g.data >= -1 /\ g.fcbs \in Int /\ g.fcbs >= -1
  BY DEF Fs!BfsAssumption, Fs!Grants, Fs!Refusals, Fs!Everything, Fs!All

\* A function on 1 .. k is a sequence of length k.
LEMMA FunSeq ==
    ASSUME NEW k \in Nat, NEW G, NEW v \in [1 .. k -> G]
    PROVE  v \in Seq(G) /\ Len(v) = k
<1>1. v \in Seq(G)
  BY SeqDef
<1>2. Len(v) \in Nat /\ DOMAIN v = 1 .. Len(v) /\ DOMAIN v = 1 .. k
  BY <1>1
<1> DEFINE n == Len(v)
<1> HIDE DEF n
<1>3. n \in Nat /\ 1 .. n = 1 .. k
  BY <1>2 DEF n
<1>4. n = k
  BY <1>3
<1> QED BY <1>1, <1>4 DEF n

\* A block_write w of the blocks lo .. hi of inode i, and what it leaves: the other
\* blocks stay, and a gap is filled.
Writes(I, i, G, lo, hi, B, w) ==
    /\ i \in DOMAIN I /\ I[i] \in Seq(G)
    /\ lo \in Nat /\ hi \in Int /\ lo <= hi + 1
    /\ B \in [lo .. hi -> G]
    /\ (IF i = 0 THEN Fs!Scrap ELSE Fs!ZeroBlock) \in G
    /\ w = Fs!multiblock_write(I, i, B)
Written(I, i, G, lo, hi, B, w) ==
    /\ DOMAIN w = DOMAIN I
    /\ \A j \in DOMAIN I : j # i => w[j] = I[j]
    /\ w[i] \in Seq(G)
    /\ Len(w[i]) = IF hi >= lo /\ hi + 1 > Len(I[i]) THEN hi + 1 ELSE Len(I[i])
    /\ \A b \in lo .. hi : w[i][b + 1] = B[b]
    /\ \A b \in 0 .. Len(I[i]) - 1 : b \notin lo .. hi => w[i][b + 1] = I[i][b + 1]

\* multiblock_write does that.
LEMMA MultiWrite ==
    ASSUME NEW I, NEW i, NEW G, NEW lo, NEW hi, NEW B, NEW w, Writes(I, i, G, lo, hi, B, w)
    PROVE  Written(I, i, G, lo, hi, B, w)
<1> DEFINE hole == IF i = 0 THEN Fs!Scrap ELSE Fs!ZeroBlock
<1>0. /\ i \in DOMAIN I /\ I[i] \in Seq(G)
      /\ lo \in Nat /\ hi \in Int /\ lo <= hi + 1
      /\ B \in [lo .. hi -> G] /\ hole \in G
      /\ w = Fs!multiblock_write(I, i, B)
  BY DEF Writes
<1> DEFINE S == DOMAIN B \cup {Len(I[i]) - 1}
           top == CHOOSE n \in S : \A b \in S : b <= n
           v == [b \in 1 .. top + 1 |-> IF b - 1 \in DOMAIN B THEN B[b - 1]
                                        ELSE IF b <= Len(I[i]) THEN I[i][b] ELSE hole]
           max == IF hi >= lo /\ hi > Len(I[i]) - 1 THEN hi ELSE Len(I[i]) - 1
<1>1. DOMAIN B = lo .. hi /\ Len(I[i]) \in Nat
  BY <1>0
<1>2. top = max
  <2>1. max \in S /\ \A b \in S : b <= max
    BY <1>0, <1>1
  <2>2. \A n \in S : (\A b \in S : b <= n) => n = max
    <3> HIDE DEF max
    <3>1. \A n \in S : n \in Int
      BY <1>0, <1>1
    <3> QED BY <2>1, <3>1
  <2> HIDE DEF max, S
  <2> QED BY <2>1, <2>2
<1>3. Fs!multiblock_write(I, i, B) = [I EXCEPT ![i] = v]
  BY DEF Fs!multiblock_write
<1>4. max \in Int /\ max + 1 \in Nat /\ (hi >= lo => hi <= max) /\ Len(I[i]) <= max + 1
  BY <1>0, <1>1
<1> HIDE DEF top, hole
<1>5. v \in Seq(G) /\ Len(v) = max + 1
  <2>1. ASSUME NEW b \in 1 .. top + 1
        PROVE  v[b] \in G
    <3>1. CASE b - 1 \in lo .. hi
      BY <3>1, <1>0, <1>1
    <3>2. CASE b - 1 \notin lo .. hi /\ b <= Len(I[i])
      <4>1. v[b] = I[i][b] /\ b \in 1 .. Len(I[i])
        BY <3>2, <1>0, <1>1, <1>2, <1>4
      <4> QED BY <4>1, <1>0
    <3>3. CASE b - 1 \notin lo .. hi /\ ~(b <= Len(I[i]))
      <4>1. v[b] = hole
        BY <3>3, <1>0, <1>1
      <4> QED BY <4>1, <1>0
    <3> QED BY <3>1, <3>2, <3>3
  <2> DEFINE k == top + 1
  <2>2. k \in Nat /\ DOMAIN v = 1 .. k /\ k = max + 1
    BY <1>2, <1>4
  <2>5. v \in [1 .. k -> G]
    BY <2>1, <2>2
  <2> HIDE DEF v, k, max, top
  <2> QED BY <2>2, <2>5, FunSeq
<1>6. /\ \A b \in lo .. hi : v[b + 1] = B[b]
      /\ \A b \in 0 .. Len(I[i]) - 1 : b \notin lo .. hi => v[b + 1] = I[i][b + 1]
  <2> HIDE DEF max
  <2> QED BY <1>0, <1>1, <1>2, <1>4
<1> HIDE DEF v
<1>7. w = [I EXCEPT ![i] = v] /\ max + 1 = IF hi >= lo /\ hi + 1 > Len(I[i]) THEN hi + 1 ELSE Len(I[i])
  BY <1>0, <1>1, <1>3
<1> HIDE DEF max
<1> QED BY <1>0, <1>1, <1>4, <1>5, <1>6, <1>7 DEF Written

\* A block of the array.
LEMMA FcbBlockOK ==
    ASSUME NEW F \in [Fs!Files -> Fs!FCB], NEW b \in Nat
    PROVE  Fs!FcbBlock(F, b) \in ArrayBlock /\ Fs!Scrap \in ArrayBlock
  BY DEF ArrayBlock

\* Writing blocks of the array changes inode 0 only.
Flushes(F, I, lo, hi, k, B, w) ==
    /\ F \in [Fs!Files -> Fs!FCB] /\ DOMAIN I = Fs!Files /\ I[0] \in Seq(ArrayBlock)
    /\ lo \in Nat /\ hi \in Nat /\ lo <= hi /\ k \in Int /\ k >= -1
    /\ B = [b \in lo .. Fs!LastGranted(lo, hi, k) |-> Fs!FcbBlock(F, b)]
    /\ w = Fs!multiblock_write(I, 0, B)
Flushed(F, I, lo, hi, k, w) ==
    /\ DOMAIN w = Fs!Files
    /\ \A g \in Fs!Files : g # 0 => w[g] = I[g]
    /\ w[0] \in Seq(ArrayBlock)
    /\ k = Fs!All =>
         /\ Len(w[0]) >= Len(I[0]) /\ Len(w[0]) >= hi + 1
         /\ \A b \in lo .. hi : w[0][b + 1] = Fs!FcbBlock(F, b)
         /\ \A b \in 0 .. Len(I[0]) - 1 : b \notin lo .. hi => w[0][b + 1] = I[0][b + 1]

\* The first blocks lo .. hi of the array, as many as are granted.
LEMMA FlushWrites ==
    ASSUME Fs!BfsAssumption, NEW F, NEW I, NEW lo, NEW hi, NEW k, NEW B, NEW w,
           Flushes(F, I, lo, hi, k, B, w)
    PROVE  Flushed(F, I, lo, hi, k, w)
<1> DEFINE end == Fs!LastGranted(lo, hi, k)
<1>0. /\ F \in [Fs!Files -> Fs!FCB] /\ DOMAIN I = Fs!Files /\ I[0] \in Seq(ArrayBlock)
      /\ lo \in Nat /\ hi \in Nat /\ lo <= hi /\ k \in Int /\ k >= -1
      /\ B = [b \in lo .. end |-> Fs!FcbBlock(F, b)]
      /\ w = Fs!multiblock_write(I, 0, B)
  BY DEF Flushes
<1>1. end \in Int /\ lo <= end + 1 /\ end <= hi /\ (k = Fs!All => end = hi)
  BY <1>0, Granted
<1> HIDE DEF end
<1>2. \A b \in lo .. end : Fs!FcbBlock(F, b) \in ArrayBlock
  BY <1>0, <1>1, FcbBlockOK
<1>3. B \in [lo .. end -> ArrayBlock] /\ \A b \in lo .. end : B[b] = Fs!FcbBlock(F, b)
  BY <1>0, <1>2
<1>4. 0 \in DOMAIN I /\ Fs!Scrap \in ArrayBlock
  BY <1>0 DEF Fs!Files, Fs!BfsAssumption, ArrayBlock
<1>5. Writes(I, 0, ArrayBlock, lo, end, B, w)
  BY <1>0, <1>1, <1>3, <1>4 DEF Writes
<1>6. Written(I, 0, ArrayBlock, lo, end, B, w)
  BY <1>5, MultiWrite
<1>7. Len(I[0]) \in Nat
  BY <1>0
<1> QED BY <1>0, <1>1, <1>3, <1>6, <1>7 DEF Written, Flushed

\* What the flush of the FCB of f leaves; J are the inodes before it.
LEMMA FsFlush ==
    ASSUME Fs!BfsAssumption, NEW f \in Fs!Files, NEW F \in [Fs!Files -> Fs!FCB], NEW J,
           DOMAIN J = Fs!Files, J[0] \in Seq(ArrayBlock), NEW k \in Int, k >= -1,
           NEW w, w = Fs!flush_fcb_cache(F, J, f, k)
    PROVE  /\ DOMAIN w = Fs!Files /\ w[0] \in Seq(ArrayBlock)
           /\ \A g \in Fs!Files : g # 0 => w[g] = J[g]
<1> DEFINE lo == Fs!FirstBlock(f)
           hi == Fs!FirstBlock(f) + Fs!LastBlock(f)
           B == [b \in lo .. Fs!LastGranted(lo, hi, k) |-> Fs!FcbBlock(F, b)]
<1>1. lo \in Nat /\ hi \in Nat /\ lo <= hi
  BY ArrayPlace
<1>2. w = Fs!multiblock_write(J, 0, B)
  BY DEF Fs!flush_fcb_cache
<1> HIDE DEF lo, hi
<1>4. Flushes(F, J, lo, hi, k, B, w)
  BY <1>1, <1>2 DEF Flushes
<1> HIDE DEF B
<1>3. DOMAIN w = Fs!Files /\ (\A g \in Fs!Files : g # 0 => w[g] = J[g]) /\ w[0] \in Seq(ArrayBlock)
  BY <1>4, FlushWrites DEF Flushed
<1> QED BY <1>3

\* A flush that is granted saves the FCB of f, and the other FCBs stay as they were.
LEMMA FsFlushSaves ==
    ASSUME Fs!BfsAssumption, NEW f \in Fs!Files, NEW F \in [Fs!Files -> Fs!FCB], NEW J,
           DOMAIN J = Fs!Files, J[0] \in Seq(ArrayBlock), J[0] = ino[0], Saved(fcb, ino),
           \A g \in Fs!Files : g # f => F[g] = fcb[g]
    PROVE  Saved(F, Fs!flush_fcb_cache(F, J, f, Fs!All))
<1> DEFINE lo == Fs!FirstBlock(f)
           hi == Fs!FirstBlock(f) + Fs!LastBlock(f)
           k == Fs!All
           w == Fs!flush_fcb_cache(F, J, f, k)
           n == Fs!ArrayBlocks
           B == [b \in lo .. Fs!LastGranted(lo, hi, k) |-> Fs!FcbBlock(F, b)]
<1>1. lo \in Nat /\ hi \in Nat /\ lo <= hi /\ Fs!LastBlock(f) <= hi /\ k \in Int /\ k >= -1 /\ n \in Nat
  BY ArrayPlace DEF Fs!All
<1>2. w = Fs!multiblock_write(J, 0, B)
  BY DEF Fs!flush_fcb_cache
<1>3. Len(J[0]) >= n /\ Len(J[0]) \in Nat /\ \A b \in 0 .. n - 1 : J[0][b + 1] = Fs!FcbBlock(fcb, b)
  BY DEF Saved
<1>4. \A b \in 0 .. n - 1 : b \notin lo .. hi => Fs!FcbBlock(F, b) = Fs!FcbBlock(fcb, b)
  <2>1. SUFFICES ASSUME NEW b \in 0 .. n - 1, b \notin lo .. hi
                 PROVE  Fs!FcbBlock(F, b) = Fs!FcbBlock(fcb, b)
    OBVIOUS
  <2> DEFINE E == {h \in Fs!Files : Fs!FirstBlock(h) <= b /\ b <= Fs!LastBlock(h)}
  <2>2. f \notin E
    <3> SUFFICES ~(lo <= b /\ b <= Fs!LastBlock(f))
      OBVIOUS
    <3>1. Fs!LastBlock(f) \in Nat /\ b \in Nat
      BY <1>1, ArrayPlace
    <3> HIDE DEF lo, hi
    <3> QED BY <1>1, <2>1, <3>1
  <2>3. \A h \in E : F[h] = fcb[h]
    BY <2>2
  <2>4. Fs!FcbBlock(F, b) = [h \in E |-> F[h]] /\ Fs!FcbBlock(fcb, b) = [h \in E |-> fcb[h]]
    BY DEF Fs!FcbBlock
  <2> HIDE DEF E
  <2> QED BY <2>3, <2>4
<1>9. k = Fs!All
  OBVIOUS
<1> HIDE DEF lo, hi, w, k, n
<1>8. Flushes(F, J, lo, hi, k, B, w)
  BY <1>1, <1>2 DEF Flushes
<1> HIDE DEF B
<1>5. /\ Len(w[0]) \in Nat /\ Len(w[0]) >= Len(J[0])
      /\ \A b \in lo .. hi : w[0][b + 1] = Fs!FcbBlock(F, b)
      /\ \A b \in 0 .. Len(J[0]) - 1 : b \notin lo .. hi => w[0][b + 1] = J[0][b + 1]
  <2>1. /\ w[0] \in Seq(ArrayBlock)
        /\ Len(w[0]) >= Len(J[0])
        /\ \A b \in lo .. hi : w[0][b + 1] = Fs!FcbBlock(F, b)
        /\ \A b \in 0 .. Len(J[0]) - 1 : b \notin lo .. hi => w[0][b + 1] = J[0][b + 1]
    BY <1>8, <1>9, FlushWrites DEF Flushed
  <2> QED BY <2>1
<1>6. Len(w[0]) >= n
  BY <1>1, <1>3, <1>5
<1>7. ASSUME NEW b \in 0 .. n - 1
      PROVE  w[0][b + 1] = Fs!FcbBlock(F, b)
  <2>1. CASE b \in lo .. hi
    BY <1>5, <2>1
  <2>2. CASE b \notin lo .. hi
    <3>1. b \in 0 .. Len(J[0]) - 1
      BY <1>1, <1>3
    <3> QED BY <1>3, <1>4, <1>5, <2>2, <3>1
  <2> QED BY <2>1, <2>2
<1> QED BY <1>6, <1>7 DEF Saved, w, n, k

\* A handler that changes the FCB, inode 0, and the inode and the bytes of file f only.
LEMMA FsReplace ==
    ASSUME FsOK(fcb, ino, ref), NEW f \in Fs!Files, NEW F, NEW I, NEW R,
           F \in [Fs!Files -> Fs!FCB], DOMAIN I = Fs!Files, DOMAIN R = Fs!Files,
           I[0] \in Seq(ArrayBlock), f # 0 => I[f] \in Seq(FsBlock) /\ FileOK(F[f], I[f], R[f]),
           \A g \in Fs!Files : (g # 0 /\ g # f) => (F[g] = fcb[g] /\ I[g] = ino[g] /\ R[g] = ref[g])
    PROVE  FsOK(F, I, R)
<1>1. ASSUME NEW g \in Fs!Files, g # 0
      PROVE  I[g] \in Seq(FsBlock) /\ FileOK(F[g], I[g], R[g])
  <2>1. CASE g = f
    BY <1>1, <2>1
  <2>2. CASE g # f
    BY <1>1, <2>2 DEF FsOK, BlockOf
  <2> QED BY <2>1, <2>2
<1> QED BY <1>1 DEF FsOK, BlockOf

\* The fields of an FCB.
LEMMA FsFields ==
    ASSUME FsOK(fcb, ino, ref), NEW f \in Fs!Files, Fs!BfsAssumption
    PROVE  /\ fcb[f] \in Fs!FCB /\ fcb[f].size \in Nat /\ fcb[f].alloc \in BOOLEAN
           /\ DOMAIN ref = Fs!Files /\ DOMAIN ino = Fs!Files
           /\ 0 \in Fs!Files /\ ino[0] \in Seq(ArrayBlock)
           /\ f # 0 => ino[f] \in Seq(FsBlock) /\ FileOK(fcb[f], ino[f], ref[f])
  BY DEF FsOK, Fs!FCB, BlockOf, Fs!Files, Fs!BfsAssumption

\* What a request holds.
LEMMA FsRequest ==
    ASSUME Fs!BfsAssumption, NEW r \in Fs!Requests
    PROVE  /\ r.op \in {"create", "delete", "chown", "chmod", "read", "write", "sync", "stat", "setsize"}
           /\ r.op \in {"create", "chmod"} => r.mode \in SUBSET Fs!Perms
           /\ r.op \notin {"create", "sync"} => r.file \in 0 .. NFcbs
           /\ r.op = "chown" => r.owner \in Fs!Uids
           /\ r.op = "write" => /\ r.offset \in Nat /\ r.size \in Nat \ {0} /\ r.byte \in Byte
                                /\ r.offset + r.size <= MaxBytes
           /\ r.op = "setsize" => r.size \in Sizes /\ r.size \in Nat
<1>1. CASE r \in [op : {"create"}, mode : FsModes]
  BY <1>1 DEF Fs!BfsAssumption
<1>2. CASE r \in [op : {"chown"}, file : Fs!Requested, owner : Fs!Uids]
  BY <1>2 DEF Fs!Requested
<1>3. CASE r \in [op : {"chmod"}, file : Fs!Requested, mode : FsModes]
  BY <1>3 DEF Fs!Requested, Fs!BfsAssumption
<1>4. CASE r \in [op : {"read"}, file : Fs!Requested, offset : 0 .. MaxBytes, size : {0, BS}]
  BY <1>4 DEF Fs!Requested
<1>5. CASE r \in {q \in [op : {"write"}, file : Fs!Requested, offset : 0 .. MaxBytes - 1,
                        byte : Byte, size : Lengths] : q.offset + q.size <= MaxBytes}
  <2>1. /\ r \in [op : {"write"}, file : Fs!Requested, offset : 0 .. MaxBytes - 1, byte : Byte,
                  size : Lengths]
        /\ r.offset + r.size <= MaxBytes
    BY <1>5
  <2>2. MaxBytes \in Nat /\ Lengths \subseteq Nat \ {0}
    BY DEF Fs!BfsAssumption
  <2>3. r.op = "write" /\ r.file \in 0 .. NFcbs
    BY <2>1 DEF Fs!Requested
  <2>4. r.offset \in 0 .. MaxBytes - 1 /\ r.size \in Lengths /\ r.byte \in Byte
    BY <2>1
  <2>5. r.offset \in Nat /\ r.size \in Nat \ {0}
    <3>1. r.offset \in Nat
      BY <2>2, <2>4
    <3>2. r.size \in Lengths
      BY <2>4
    <3>3. \A n \in Lengths : n \in Nat \ {0}
      BY <2>2
    <3> QED BY <3>1, <3>2, <3>3
  <2>6. r.offset + r.size <= MaxBytes
    BY <2>1
  <2> QED BY <2>3, <2>4, <2>5, <2>6
<1>6. CASE r \in [op : {"sync"}, file : {1, -1}]
  BY <1>6
<1>7. CASE r \in [op : {"stat", "delete"}, file : Fs!Requested]
  BY <1>7 DEF Fs!Requested
<1>8. CASE r \in [op : {"setsize"}, file : Fs!Requested, size : Sizes]
  BY <1>8 DEF Fs!Requested, Fs!BfsAssumption
<1> QED BY <1>1, <1>2, <1>3, <1>4, <1>5, <1>6, <1>7, <1>8 DEF Fs!Requests

\* The state that a handler leaves.
Leaves(an) == FsOK(an.fcb, an.ino, an.ref)

\* A request that is refused changes nothing.
LEMMA FsRefuse ==
    ASSUME FsOK(fcb, ino, ref)
    PROVE  Leaves(Fs!Refuse) /\ \A reps : Leaves(Fs!Answer(fcb, ino, reps, ref))
  BY DEF Leaves, Fs!Refuse, Fs!Answer

\* A change of file f: b is its new FCB, x its bytes, and J are the inodes.
Changes(f, b, x, F, J, R) ==
    /\ f \in Fs!Files
    /\ F \in [Fs!Files -> Fs!FCB] /\ F[f] = b /\ \A e \in Fs!Files : e # f => F[e] = fcb[e]
    /\ DOMAIN R = Fs!Files /\ R[f] = x /\ \A e \in Fs!Files : e # f => R[e] = ref[e]
    /\ DOMAIN J = Fs!Files /\ J[0] \in Seq(ArrayBlock)
    /\ \A e \in Fs!Files : (e # 0 /\ e # f) => J[e] = ino[e]
    /\ f # 0 => J[f] \in Seq(FsBlock) /\ FileOK(b, J[f], x)

\* The state after a change that is flushed.
LEMMA FsChange ==
    ASSUME Fs!BfsAssumption, FsOK(fcb, ino, ref), NEW f, NEW b, NEW x, NEW F, NEW J, NEW R,
           Changes(f, b, x, F, J, R), NEW g \in Fs!Grants, NEW I, I = Fs!flush_fcb_cache(F, J, f, g.fcbs)
    PROVE  FsOK(F, I, R)
<1>1. /\ f \in Fs!Files
      /\ F \in [Fs!Files -> Fs!FCB] /\ F[f] = b /\ \A e \in Fs!Files : e # f => F[e] = fcb[e]
      /\ DOMAIN R = Fs!Files /\ R[f] = x /\ \A e \in Fs!Files : e # f => R[e] = ref[e]
      /\ DOMAIN J = Fs!Files /\ J[0] \in Seq(ArrayBlock)
      /\ \A e \in Fs!Files : (e # 0 /\ e # f) => J[e] = ino[e]
      /\ f # 0 => J[f] \in Seq(FsBlock) /\ FileOK(b, J[f], x)
  BY DEF Changes
<1> DEFINE k == g.fcbs
<1>2. k \in Int /\ k >= -1
  BY GrantOK
<1> HIDE DEF k
<1>3. I = Fs!flush_fcb_cache(F, J, f, k)
  BY DEF k
<1>4. DOMAIN I = Fs!Files /\ I[0] \in Seq(ArrayBlock) /\ \A e \in Fs!Files : e # 0 => I[e] = J[e]
  <2>1. f \in Fs!Files /\ F \in [Fs!Files -> Fs!FCB] /\ DOMAIN J = Fs!Files /\ J[0] \in Seq(ArrayBlock)
    BY <1>1
  <2> QED BY <2>1, <1>2, <1>3, FsFlush
<1>5. \A e \in Fs!Files : (e # 0 /\ e # f) => (F[e] = fcb[e] /\ I[e] = ino[e] /\ R[e] = ref[e])
  BY <1>1, <1>4
<1>6. f # 0 => I[f] \in Seq(FsBlock) /\ FileOK(F[f], I[f], R[f])
  BY <1>1, <1>4
<1> QED BY <1>1, <1>4, <1>5, <1>6, FsReplace

\* file_create takes a free FCB; if its size is 0, with no bytes.
LEMMA FsCreate ==
    ASSUME Fs!BfsAssumption, FsOK(fcb, ino, ref), NEW r \in Fs!Requests, r.op = "create",
           NEW u \in Fs!Uids, NEW g \in Fs!Grants
    PROVE  Leaves(Fs!blkfile_do_create(r, u, g))
<1>1. CASE Fs!FreeFiles = {}
  BY <1>1, FsRefuse DEF Fs!blkfile_do_create
<1>2. CASE Fs!FreeFiles # {}
  <2> DEFINE f == CHOOSE e \in Fs!FreeFiles : \A h \in Fs!FreeFiles : e <= h
             b == [fcb[f] EXCEPT !.alloc = TRUE, !.mode = r.mode, !.uid = u]
             F == [fcb EXCEPT ![f] = b]
             x == IF fcb[f].size = 0 THEN <<>> ELSE Fs!Unset
             R == [ref EXCEPT ![f] = x]
             I == Fs!flush_fcb_cache(F, ino, f, g.fcbs)
  <2>1. Fs!FreeFiles \in SUBSET Nat
    BY DEF Fs!FreeFiles, Fs!Files, Fs!BfsAssumption
  <2>2. f \in Fs!FreeFiles
    <3>1. PICK e \in Fs!FreeFiles : \A h \in Fs!FreeFiles : e <= h
      BY <1>2, <2>1, LeastNat
    <3> QED BY <3>1
  <2>3. Fs!blkfile_do_create(r, u, g) = Fs!Answer(F, I, <<Fs!OK>>, R)
    BY <1>2 DEF Fs!blkfile_do_create
  <2> HIDE DEF f
  <2>4. f \in Fs!Files /\ f # 0 /\ ~fcb[f].alloc
    BY <2>2 DEF Fs!FreeFiles
  <2>5. fcb[f] \in Fs!FCB /\ DOMAIN ref = Fs!Files /\ DOMAIN ino = Fs!Files /\ ino[f] \in Seq(FsBlock)
        /\ FileOK(fcb[f], ino[f], ref[f]) /\ ino[0] \in Seq(ArrayBlock)
    BY <2>4, FsFields
  <2>6. b \in Fs!FCB /\ b.alloc /\ b.size = fcb[f].size
    <3>1. r.mode \in SUBSET Fs!Perms
      BY FsRequest
    <3> QED BY <2>5, <3>1 DEF Fs!FCB
  <2>7. FileOK(b, ino[f], x)
    BY <2>5, <2>6 DEF FileOK
  <2>8. F \in [Fs!Files -> Fs!FCB] /\ F[f] = b /\ \A e \in Fs!Files : e # f => F[e] = fcb[e]
    <3> HIDE DEF b
    <3> QED BY <2>4, <2>6 DEF FsOK
  <2> HIDE DEF b, F, I
  <2>9. DOMAIN R = Fs!Files /\ R[f] = x /\ \A e \in Fs!Files : e # f => R[e] = ref[e]
    BY <2>4, <2>5
  <2> HIDE DEF x, R
  <2>10. Changes(f, b, x, F, ino, R)
    BY <2>4, <2>5, <2>7, <2>8, <2>9 DEF Changes
  <2>11. FsOK(F, I, R)
    BY <2>10, FsChange DEF I
  <2> QED BY <2>3, <2>11 DEF Leaves, Fs!Answer
<1> QED BY <1>1, <1>2

\* file_delete frees the FCB and, if that is granted, the blocks of its inode.
LEMMA FsDelete ==
    ASSUME Fs!BfsAssumption, FsOK(fcb, ino, ref), NEW r \in Fs!Requests, r.op = "delete",
           NEW u, NEW g \in Fs!Grants
    PROVE  Leaves(Fs!blkfile_do_delete(r, u, g))
<1> DEFINE f == r.file
           b == [fcb[f] EXCEPT !.alloc = FALSE]
           F == [fcb EXCEPT ![f] = b]
           J == Fs!flush_fcb_cache(F, ino, f, g.fcbs)
           I == [J EXCEPT ![f] = <<>>]
           x == Fs!Unset
           R == [ref EXCEPT ![f] = x]
<1>1. CASE f \notin Fs!Files \/ ~Fs!blkfile_write_allowed(fcb[f], u) \/ ~fcb[f].alloc
  BY <1>1, FsRefuse DEF Fs!blkfile_do_delete
<1>2. CASE ~(f \notin Fs!Files \/ ~Fs!blkfile_write_allowed(fcb[f], u) \/ ~fcb[f].alloc)
  <2>1. Fs!blkfile_do_delete(r, u, g) = IF g.resize THEN Fs!Answer(F, I, <<Fs!OK>>, R)
                                        ELSE Fs!Answer(F, J, <<Fs!ERROR, Fs!OK>>, R)
    BY <1>2 DEF Fs!blkfile_do_delete
  <2> HIDE DEF f
  <2>3. f \in Fs!Files
    BY <1>2
  <2>4. fcb[f] \in Fs!FCB /\ DOMAIN ref = Fs!Files /\ DOMAIN ino = Fs!Files /\ 0 \in Fs!Files
        /\ ino[0] \in Seq(ArrayBlock) /\ (f # 0 => ino[f] \in Seq(FsBlock))
    BY <2>3, FsFields
  <2>5. b \in Fs!FCB /\ ~b.alloc
    BY <2>4 DEF Fs!FCB
  <2>6. (\A s : FileOK(b, s, x)) /\ <<>> \in Seq(FsBlock) /\ <<>> \in Seq(ArrayBlock)
    BY DEF FileOK
  <2>7. F \in [Fs!Files -> Fs!FCB] /\ F[f] = b /\ \A e \in Fs!Files : e # f => F[e] = fcb[e]
    <3> HIDE DEF b
    <3> QED BY <2>3, <2>5 DEF FsOK
  <2> HIDE DEF b, F
  <2>8. DOMAIN R = Fs!Files /\ R[f] = x /\ \A e \in Fs!Files : e # f => R[e] = ref[e]
    BY <2>3, <2>4
  <2> HIDE DEF x, R
  <2>9. Changes(f, b, x, F, ino, R)
    BY <2>3, <2>4, <2>6, <2>7, <2>8 DEF Changes
  <2> HIDE DEF J
  <2>10. FsOK(F, J, R)
    BY <2>9, FsChange DEF J
  <2>11. DOMAIN J = Fs!Files /\ \A e \in Fs!Files : J[e] \in Seq(BlockOf(e))
    BY <2>10 DEF FsOK
  <2>12. DOMAIN I = Fs!Files /\ I[f] = <<>> /\ \A e \in Fs!Files : e # f => I[e] = J[e]
    BY <2>3, <2>11
  <2> HIDE DEF I
  <2>13. \A e \in Fs!Files : I[e] \in Seq(BlockOf(e))
    BY <2>6, <2>11, <2>12 DEF BlockOf
  <2>14. \A e \in Fs!Files : e # 0 => FileOK(F[e], I[e], R[e])
    BY <2>6, <2>7, <2>8, <2>10, <2>12 DEF FsOK
  <2>15. FsOK(F, I, R)
    BY <2>7, <2>8, <2>12, <2>13, <2>14 DEF FsOK
  <2> QED BY <2>1, <2>10, <2>15 DEF Leaves, Fs!Answer
<1> QED BY <1>1, <1>2

\* A new owner or mode: b differs from the FCB of f in them only.
LEMMA FsOwn ==
    ASSUME Fs!BfsAssumption, FsOK(fcb, ino, ref), NEW f \in Fs!Files, NEW F, NEW b \in Fs!FCB,
           F \in [Fs!Files -> Fs!FCB], F[f] = b, \A e \in Fs!Files : e # f => F[e] = fcb[e],
           b.alloc = fcb[f].alloc, b.size = fcb[f].size, NEW g \in Fs!Grants, NEW an, NEW reps,
           an = Fs!Answer(F, Fs!flush_fcb_cache(F, ino, f, g.fcbs), reps, ref)
    PROVE  Leaves(an)
<1> DEFINE I == Fs!flush_fcb_cache(F, ino, f, g.fcbs)
           x == ref[f]
<1>1. DOMAIN ref = Fs!Files /\ DOMAIN ino = Fs!Files /\ ino[0] \in Seq(ArrayBlock)
      /\ (f # 0 => ino[f] \in Seq(FsBlock) /\ FileOK(fcb[f], ino[f], x))
  BY FsFields
<1>2. f # 0 => FileOK(b, ino[f], x)
  BY <1>1 DEF FileOK
<1>3. x = ref[f]
  OBVIOUS
<1> HIDE DEF I, x
<1>4. Changes(f, b, x, F, ino, ref)
  BY <1>1, <1>2, <1>3 DEF Changes
<1>5. FsOK(F, I, ref)
  BY <1>4, FsChange DEF I
<1> QED BY <1>5 DEF Leaves, Fs!Answer, I

\* chown and chmod leave size and bytes.
LEMMA FsOwner ==
    ASSUME Fs!BfsAssumption, FsOK(fcb, ino, ref), NEW r \in Fs!Requests, NEW u, NEW g \in Fs!Grants
    PROVE  /\ r.op = "chown" => Leaves(Fs!blkfile_do_chown(r, u, g))
           /\ r.op = "chmod" => Leaves(Fs!blkfile_do_chmod(r, u, g))
<1> DEFINE f == r.file
<1>1. ASSUME Fs!Known(f)
      PROVE  f \in Fs!Files /\ fcb[f] \in Fs!FCB
  <2> HIDE DEF f
  <2> QED BY <1>1, FsFields DEF Fs!Known
<1>2. ASSUME r.op = "chown", ~(~Fs!Known(f) \/ u # 0)
      PROVE  Leaves(Fs!blkfile_do_chown(r, u, g))
  <2> DEFINE b == [fcb[f] EXCEPT !.uid = r.owner]
             F == [fcb EXCEPT ![f] = b]
  <2>1. Fs!blkfile_do_chown(r, u, g) = Fs!Answer(F, Fs!flush_fcb_cache(F, ino, f, g.fcbs), <<Fs!OK>>, ref)
    BY <1>2 DEF Fs!blkfile_do_chown
  <2>2. f \in Fs!Files /\ fcb[f] \in Fs!FCB /\ r.owner \in Fs!Uids
    BY <1>1, <1>2, FsRequest
  <2>3. b \in Fs!FCB /\ b.size = fcb[f].size /\ b.alloc = fcb[f].alloc
    BY <2>2 DEF Fs!FCB
  <2>4. F \in [Fs!Files -> Fs!FCB] /\ F[f] = b /\ \A e \in Fs!Files : e # f => F[e] = fcb[e]
    <3> HIDE DEF b, f
    <3> QED BY <2>2, <2>3 DEF FsOK
  <2> HIDE DEF b, F, f
  <2> QED BY <2>1, <2>2, <2>3, <2>4, FsOwn
<1>3. ASSUME r.op = "chmod", ~(~Fs!Known(f) \/ u \notin {0, fcb[f].uid})
      PROVE  Leaves(Fs!blkfile_do_chmod(r, u, g))
  <2> DEFINE b == [fcb[f] EXCEPT !.mode = r.mode]
             F == [fcb EXCEPT ![f] = b]
  <2>1. Fs!blkfile_do_chmod(r, u, g) = Fs!Answer(F, Fs!flush_fcb_cache(F, ino, f, g.fcbs), <<Fs!OK>>, ref)
    BY <1>3 DEF Fs!blkfile_do_chmod
  <2>2. f \in Fs!Files /\ fcb[f] \in Fs!FCB /\ r.mode \in SUBSET Fs!Perms
    BY <1>1, <1>3, FsRequest
  <2>3. b \in Fs!FCB /\ b.size = fcb[f].size /\ b.alloc = fcb[f].alloc
    BY <2>2 DEF Fs!FCB
  <2>4. F \in [Fs!Files -> Fs!FCB] /\ F[f] = b /\ \A e \in Fs!Files : e # f => F[e] = fcb[e]
    <3> HIDE DEF b, f
    <3> QED BY <2>2, <2>3 DEF FsOK
  <2> HIDE DEF b, F, f
  <2> QED BY <2>1, <2>2, <2>3, <2>4, FsOwn
<1>4. (~Fs!Known(f) \/ u # 0) => Leaves(Fs!blkfile_do_chown(r, u, g))
  BY FsRefuse DEF Fs!blkfile_do_chown
<1>5. (~Fs!Known(f) \/ u \notin {0, fcb[f].uid}) => Leaves(Fs!blkfile_do_chmod(r, u, g))
  BY FsRefuse DEF Fs!blkfile_do_chmod
<1> HIDE DEF f
<1> QED BY <1>2, <1>3, <1>4, <1>5

\* Requests that change nothing.
LEMMA FsLook ==
    ASSUME FsOK(fcb, ino, ref), NEW r, NEW u
    PROVE  /\ Leaves(Fs!blkfile_do_read(r, u)) /\ Leaves(Fs!blkfile_do_stat(r, u))
           /\ Leaves(Fs!blkfile_do_sync(r, u))
  BY FsRefuse DEF Fs!blkfile_do_read, Fs!blkfile_do_stat, Fs!blkfile_do_sync

\* The shortest and the longest prefix of a sequence.
LEMMA CutEnds ==
    ASSUME NEW S, NEW s \in Seq(S)
    PROVE  SubSeq(s, 1, 0) = <<>> /\ SubSeq(s, 1, Len(s)) = s
<1>1. SubSeq(s, 1, 0) = <<>>
  OBVIOUS
<1>2. SubSeq(s, 1, Len(s)) \in Seq(S) /\ Len(SubSeq(s, 1, Len(s))) = Len(s)
      /\ \A i \in 1 .. Len(s) : SubSeq(s, 1, Len(s))[i] = s[i]
  BY SubSeqProperties
<1> DEFINE t == SubSeq(s, 1, Len(s))
<1> HIDE DEF t
<1>3. t = s
  BY <1>2, SeqEqual DEF t
<1> QED BY <1>1, <1>3 DEF t


\* The bytes behind the new size are no longer part of the file.  The blocks stay
\* as they are unless the size is 0: the block server takes no other size.
LEMMA FsSetSize ==
    ASSUME Fs!BfsAssumption, FsOK(fcb, ino, ref), NEW r \in Fs!Requests, r.op = "setsize",
           NEW u, NEW g \in Fs!Grants
    PROVE  Leaves(Fs!blkfile_do_setsize(r, u, g))
<1> DEFINE f == r.file
           n == IF r.size = 0 THEN 0 ELSE 1 + r.size \div BS
           ok == Fs!SetSizeOK(f, n) /\ g.resize
           b == [fcb[f] EXCEPT !.size = r.size]
           F == [fcb EXCEPT ![f] = b]
           J == IF ok THEN [ino EXCEPT ![f] = SubSeq(ino[f], 1, n)] ELSE ino
           I == Fs!flush_fcb_cache(F, J, f, g.fcbs)
           x == IF r.size = 0 THEN <<>> ELSE IF ref[f] = Fs!Unset THEN ref[f]
                ELSE [o \in {p \in DOMAIN ref[f] : p < r.size} |-> ref[f][o]]
           R == [ref EXCEPT ![f] = x]
           refused == ~Fs!Known(f) \/ r.size > fcb[f].size \/ ~Fs!blkfile_write_allowed(fcb[f], u)
<1>1. CASE refused
  BY <1>1, FsRefuse DEF Fs!blkfile_do_setsize
<1>2. CASE ~refused
  <2>1. Fs!blkfile_do_setsize(r, u, g)
           = Fs!Answer(F, I, IF ok THEN <<Fs!OK>> ELSE <<Fs!ERROR, Fs!OK>>, R)
    BY <1>2 DEF Fs!blkfile_do_setsize
  <2>2. f \in Fs!Files /\ fcb[f].alloc /\ ~(r.size > fcb[f].size) /\ r.size \in Nat
    BY <1>2, FsRequest DEF Fs!Known
  <2> HIDE DEF f, refused
  <2>4. fcb[f] \in Fs!FCB /\ DOMAIN ref = Fs!Files /\ DOMAIN ino = Fs!Files /\ fcb[f].size \in Nat
        /\ ino[0] \in Seq(ArrayBlock) /\ 0 \in Fs!Files /\ ino[f] \in Seq(BlockOf(f))
        /\ (f # 0 => FileOK(fcb[f], ino[f], ref[f]))
    BY <2>2, FsFields DEF FsOK
  <2>5. b \in Fs!FCB /\ b.size = r.size /\ b.alloc
    BY <2>2, <2>4 DEF Fs!FCB
  <2>6. F \in [Fs!Files -> Fs!FCB] /\ F[f] = b /\ \A e \in Fs!Files : e # f => F[e] = fcb[e]
    <3> HIDE DEF b
    <3> QED BY <2>2, <2>5 DEF FsOK
  <2> HIDE DEF b, F
  <2>9. DOMAIN J = Fs!Files /\ \A e \in Fs!Files : e # f => J[e] = ino[e]
    <3> HIDE DEF ok, n
    <3> QED BY <2>2, <2>4
  <2>10. J[f] \in Seq(BlockOf(f)) /\ (r.size # 0 => J[f] = ino[f])
    <3>1. CASE ~ok
      BY <3>1, <2>4
    <3>2. CASE ok /\ r.size = 0
      <4>1. J[f] = SubSeq(ino[f], 1, 0)
        BY <3>2, <2>2, <2>4
      <4>2. J[f] = <<>>
        BY <4>1, <2>4, CutEnds
      <4>3. <<>> \in Seq(BlockOf(f))
        OBVIOUS
      <4> HIDE DEF J, ok, n
      <4> QED BY <4>2, <4>3, <3>2
    <3>3. CASE ok /\ r.size # 0
      <4>1. BS \in Nat \ {0}
        BY DEF Fs!BfsAssumption
      <4>2. r.size \div BS \in Nat
        BY <4>1, <2>2, DivMod
      <4>3. n # 0
        BY <4>2, <3>3
      <4> HIDE DEF n
      <4>4. n = Len(ino[f])
        BY <3>3, <4>3 DEF Fs!SetSizeOK
      <4>5. J[f] = SubSeq(ino[f], 1, Len(ino[f]))
        BY <3>3, <4>4, <2>2, <2>4
      <4>6. J[f] = ino[f]
        BY <4>5, <2>4, CutEnds
      <4> QED BY <4>6, <2>4
    <3> QED BY <3>1, <3>2, <3>3
  <2>11. f # 0 => FileOK(b, J[f], x)
    <3> HIDE DEF J
    <3> SUFFICES ASSUME f # 0 PROVE FileOK(b, J[f], x)
      OBVIOUS
    <3>1. CASE r.size = 0
      BY <3>1, <2>5 DEF FileOK
    <3>2. CASE r.size # 0 /\ ref[f] = Fs!Unset
      BY <3>2, <2>5 DEF FileOK
    <3>3. CASE r.size # 0 /\ ref[f] # Fs!Unset
      <4>1. x = [o \in {p \in DOMAIN ref[f] : p < r.size} |-> ref[f][o]]
        BY <3>3
      <4> HIDE DEF x
      <4>2. ASSUME NEW o \in DOMAIN x
            PROVE  o \in 0 .. b.size - 1 /\ o \div BS < Len(J[f])
                   /\ J[f][o \div BS + 1][o % BS] = x[o]
        <5>1. o \in DOMAIN ref[f] /\ o < r.size /\ x[o] = ref[f][o]
          BY <4>1
        <5>2. o \in 0 .. fcb[f].size - 1 /\ o \div BS < Len(ino[f])
              /\ ino[f][o \div BS + 1][o % BS] = ref[f][o]
          BY <5>1, <3>3, <2>4 DEF FileOK
        <5>3. o \in 0 .. r.size - 1
          BY <5>1, <5>2, <2>2, <2>4
        <5> QED BY <5>1, <5>2, <5>3, <2>5, <2>10, <3>3
      <4> QED BY <4>2, <2>5 DEF FileOK
    <3> QED BY <3>1, <3>2, <3>3
  <2>12. DOMAIN R = Fs!Files /\ R[f] = x /\ \A e \in Fs!Files : e # f => R[e] = ref[e]
    <3> HIDE DEF x
    <3> QED BY <2>2, <2>4
  <2> HIDE DEF J, I, R, x, ok, n
  <2>13. J[0] \in Seq(ArrayBlock) /\ (f # 0 => J[f] \in Seq(FsBlock))
    BY <2>4, <2>9, <2>10 DEF BlockOf
  <2>14. Changes(f, b, x, F, J, R)
    BY <2>2, <2>6, <2>9, <2>11, <2>12, <2>13 DEF Changes
  <2>15. FsOK(F, I, R)
    BY <2>14, FsChange DEF I
  <2> QED BY <2>1, <2>15 DEF Leaves, Fs!Answer
<1> QED BY <1>1, <1>2

\* The blocks of file f after a write of size bytes at off that reads k blocks, of
\* which the blocks up to `last' were granted.
PutBlock(f, b, off, byte, size, rd) ==
    IF f = 0 THEN Fs!Scrap
    ELSE [x \in 0 .. BS - 1 |->
            IF b * BS + x \in off .. off + size - 1 THEN byte
            ELSE IF b \in rd.blocks THEN ino[f][b + 1][x] ELSE 0]
PutBlocks(f, off, byte, size, rd, last) ==
    [b \in off \div BS .. last |-> PutBlock(f, b, off, byte, size, rd)]
PutReads(f, off, size) ==
    Fs!multiblock_read(f, off \div BS,
        IF off \div BS > fcb[f].size \div BS \/ fcb[f].size = 0 THEN 0
        ELSE Fs!BlocksToRead(f, off, size))

\* No byte of the file that the write does not cover is lost, and when it is granted
\* the bytes that it covers are there.
PutKeeps(f, J, off, byte, size, all) ==
    /\ \A o \in Nat :
          o \notin off .. off + size - 1 /\ o < fcb[f].size /\ o \div BS < Len(ino[f]) =>
            /\ o \div BS < Len(J[f])
            /\ J[f][o \div BS + 1][o % BS] = ino[f][o \div BS + 1][o % BS]
    /\ all => \A o \in off .. off + size - 1 :
            o \div BS < Len(J[f]) /\ J[f][o \div BS + 1][o % BS] = byte

\* The blocks of the file that hold bytes of it and that are written have been read.
LEMMA PutHasRead ==
    ASSUME Fs!BfsAssumption, FsOK(fcb, ino, ref), NEW f \in Fs!Files,
           NEW off \in Nat, NEW size \in Nat, NEW o \in Nat, o < fcb[f].size,
           o \div BS \in off \div BS .. (off + size) \div BS, o \div BS < Len(ino[f])
    PROVE  o \div BS \in PutReads(f, off, size).blocks
<1> DEFINE start  == off \div BS
           end    == (off + size) \div BS
           fsize  == fcb[f].size
           direct == start > fsize \div BS \/ fsize = 0
           k      == IF direct THEN 0 ELSE Fs!BlocksToRead(f, off, size)
           rd     == Fs!multiblock_read(f, start, k)
           q      == (IF off + size > fsize THEN fsize ELSE off + size) \div BS
<1>0. BS \in Nat \ {0} /\ fsize \in Nat
  BY FsFields DEF Fs!BfsAssumption
<1>1. start \in Nat /\ end \in Nat
  <2>1. BS \in Nat \ {0} /\ off + size \in Nat
    BY <1>0
  <2>2. start \in Nat
    BY <2>1, DivMod
  <2>3. end \in Nat
    BY <2>1, DivMod
  <2> QED BY <2>2, <2>3
<1>2. o \div BS \in Nat /\ o \div BS <= fsize \div BS /\ fsize \div BS \in Nat
  <2> HIDE DEF fsize
  <2>1. fsize \in Nat /\ o <= fsize
    BY <1>0 DEF fsize
  <2>2. o \div BS \in Nat /\ fsize \div BS \in Nat
    BY <2>1, <1>0, DivMod
  <2>3. o \div BS <= fsize \div BS
    BY <2>1, <1>0, DivMono
  <2> QED BY <2>2, <2>3
<1>3. ~direct
  <2> HIDE DEF end
  <2>1. start <= o \div BS
    BY <1>1
  <2> QED BY <2>1, <1>0, <1>1, <1>2
<1>4. q = (IF off + size > fsize THEN fsize \div BS ELSE end) /\ q \in Nat
  BY <1>1, <1>2
<1>5. k = q - start + 1
  BY <1>3 DEF Fs!BlocksToRead
<1>6. o \div BS <= q
  BY <1>1, <1>2, <1>4
<1>7. PutReads(f, off, size) = rd
  BY DEF PutReads
<1>8. rd.blocks = {b \in start .. start + k - 1 : b < Len(ino[f])}
  BY DEF Fs!multiblock_read
<1> HIDE DEF q, k, rd, start, end, direct
<1>9. start + k - 1 = q
  BY <1>1, <1>4, <1>5
<1>10. o \div BS \in start .. q
  BY <1>1, <1>2, <1>4, <1>6 DEF start, end
<1> QED BY <1>7, <1>8, <1>9, <1>10

\* The blocks are blocks.
LEMMA PutTypes ==
    ASSUME Fs!BfsAssumption, FsOK(fcb, ino, ref), NEW f \in Fs!Files, NEW off \in Nat,
           NEW size \in Nat, NEW byte \in Byte, NEW rd, rd = PutReads(f, off, size),
           NEW b \in Nat
    PROVE  PutBlock(f, b, off, byte, size, rd) \in BlockOf(f)
<1>1. CASE f = 0
  BY <1>1 DEF PutBlock, BlockOf, ArrayBlock
<1>2. CASE f # 0
  <2> DEFINE old(y) == IF b \in rd.blocks THEN ino[f][b + 1][y] ELSE 0
  <2>1. ino[f] \in Seq(FsBlock) /\ Len(ino[f]) \in Nat
    BY <1>2, FsFields
  <2>2. ASSUME NEW y \in 0 .. BS - 1
        PROVE  old(y) \in Byte \cup {0}
    <3>1. CASE b \in rd.blocks
      <4>1. b < Len(ino[f])
        BY <3>1 DEF PutReads, Fs!multiblock_read
      <4>2. b + 1 \in 1 .. Len(ino[f])
        BY <4>1, <2>1
      <4>3. ino[f][b + 1] \in FsBlock
        BY <4>2, <2>1, ElementOfSeq
      <4> QED BY <4>3, <3>1 DEF FsBlock
    <3>2. CASE b \notin rd.blocks
      BY <3>2
    <3> QED BY <3>1, <3>2
  <2>3. PutBlock(f, b, off, byte, size, rd)
          = [y \in 0 .. BS - 1 |-> IF b * BS + y \in off .. off + size - 1 THEN byte ELSE old(y)]
    BY <1>2 DEF PutBlock
  <2> HIDE DEF old
  <2> QED BY <1>2, <2>2, <2>3 DEF BlockOf, FsBlock
<1> QED BY <1>1, <1>2

\* The inodes after the data blocks are written.
LEMMA PutWritten ==
    ASSUME Fs!BfsAssumption, FsOK(fcb, ino, ref), NEW f \in Fs!Files, NEW off \in Nat,
           NEW size \in Nat, NEW byte \in Byte, NEW rd, rd = PutReads(f, off, size),
           NEW last \in Int, off \div BS <= last + 1, NEW B, B = PutBlocks(f, off, byte, size, rd, last),
           NEW J, J = Fs!multiblock_write(ino, f, B)
    PROVE  Written(ino, f, BlockOf(f), off \div BS, last, B, J)
<1> DEFINE start == off \div BS
           G == BlockOf(f)
<1>1. start \in Nat
  BY DivMod DEF Fs!BfsAssumption
<1>2. B = [b \in start .. last |-> PutBlock(f, b, off, byte, size, rd)]
  BY DEF PutBlocks
<1>3. f \in DOMAIN ino /\ ino[f] \in Seq(G)
  BY DEF FsOK
<1>4. (IF f = 0 THEN Fs!Scrap ELSE Fs!ZeroBlock) \in G
  BY DEF BlockOf, ArrayBlock, FsBlock, Fs!ZeroBlock
<1>5. \A b \in Nat : PutBlock(f, b, off, byte, size, rd) \in G
  BY PutTypes
<1> HIDE DEF G, start
<1>6. \A b \in start .. last : b \in Nat
  BY <1>1
<1>7. B \in [start .. last -> G]
  BY <1>2, <1>5, <1>6
<1>8. start <= last + 1
  BY DEF start
<1>9. Writes(ino, f, G, start, last, B, J)
  BY <1>1, <1>3, <1>4, <1>7, <1>8 DEF Writes
<1>10. Written(ino, f, G, start, last, B, J)
  BY <1>9, MultiWrite
<1> QED BY <1>10 DEF G, start

\* A write reads the blocks of which it keeps a part, as far as they are in the
\* file: no byte of the file that it does not cover is lost.
LEMMA PutContents ==
    ASSUME Fs!BfsAssumption, FsOK(fcb, ino, ref), NEW f \in Fs!Files, f # 0, NEW off \in Nat,
           NEW size \in Nat, NEW byte \in Byte, NEW rd, rd = PutReads(f, off, size),
           NEW last \in Int, off \div BS <= last + 1, last <= (off + size) \div BS,
           NEW B, B = PutBlocks(f, off, byte, size, rd, last),
           NEW J, Written(ino, f, BlockOf(f), off \div BS, last, B, J)
    PROVE  PutKeeps(f, J, off, byte, size, last = (off + size) \div BS)
<1> DEFINE start == off \div BS
           end   == (off + size) \div BS
           s     == ino[f]
           rng   == off .. off + size - 1
<1>1. BS \in Nat \ {0} /\ start \in Nat /\ end \in Nat /\ s \in Seq(FsBlock) /\ Len(s) \in Nat
  <2>1. BS \in Nat \ {0} /\ off + size \in Nat
    BY DEF Fs!BfsAssumption
  <2>2. start \in Nat
    BY <2>1, DivMod
  <2>3. end \in Nat
    BY <2>1, DivMod
  <2>4. s \in Seq(FsBlock)
    BY FsFields
  <2> QED BY <2>1, <2>2, <2>3, <2>4
<1>2. /\ Len(J[f]) = IF last >= start /\ last + 1 > Len(s) THEN last + 1 ELSE Len(s)
      /\ \A b \in start .. last : J[f][b + 1] = B[b]
      /\ \A b \in 0 .. Len(s) - 1 : b \notin start .. last => J[f][b + 1] = s[b + 1]
  BY DEF Written
<1>3. \A b \in start .. last : \A y \in 0 .. BS - 1 : B[b][y] =
         IF b * BS + y \in rng THEN byte ELSE IF b \in rd.blocks THEN s[b + 1][y] ELSE 0
  BY DEF PutBlocks, PutBlock
<1>4. ASSUME NEW o \in Nat
      PROVE  o \div BS \in Nat /\ o % BS \in 0 .. BS - 1 /\ (o \div BS) * BS + (o % BS) = o
  <2>1. o \div BS \in Nat /\ o % BS \in 0 .. BS - 1 /\ o = BS * (o \div BS) + (o % BS)
    BY <1>1, DivMod
  <2> QED BY <2>1, <1>1
<1>5. ASSUME NEW o \in Nat, o \notin rng, o < fcb[f].size, o \div BS < Len(s)
      PROVE  o \div BS < Len(J[f]) /\ J[f][o \div BS + 1][o % BS] = s[o \div BS + 1][o % BS]
  <2>1. o \div BS \in Nat /\ o % BS \in 0 .. BS - 1 /\ (o \div BS) * BS + (o % BS) = o
    BY <1>4
  <2>2. o \div BS < Len(J[f])
    <3> HIDE DEF s, start, end
    <3> QED BY <1>1, <1>2, <1>5, <2>1
  <2>3. CASE o \div BS \in start .. last
    <3>1. o \div BS \in start .. end
      BY <1>1, <2>1, <2>3
    <3>2. o \div BS \in rd.blocks
      BY <1>5, <3>1, PutHasRead
    <3>3. J[f][o \div BS + 1] = B[o \div BS]
      BY <1>2, <2>3
    <3>4. B[o \div BS][o % BS] = s[o \div BS + 1][o % BS]
      BY <1>3, <1>5, <2>1, <2>3, <3>2
    <3> QED BY <2>2, <3>3, <3>4
  <2>4. CASE o \div BS \notin start .. last
    <3>1. o \div BS \in 0 .. Len(s) - 1
      BY <1>1, <1>5, <2>1
    <3> QED BY <1>2, <2>2, <2>4, <3>1
  <2> QED BY <2>3, <2>4
<1>6. ASSUME NEW o \in rng, last = end
      PROVE  o \div BS < Len(J[f]) /\ J[f][o \div BS + 1][o % BS] = byte
  <2>1. o \in Nat /\ o >= off /\ o <= off + size
    OBVIOUS
  <2>2. o \div BS \in Nat /\ o % BS \in 0 .. BS - 1 /\ (o \div BS) * BS + (o % BS) = o
    BY <1>4, <2>1
  <2>3. start <= o \div BS
    BY <2>1, <1>1, DivMono
  <2>4. o \div BS <= end
    <3>1. off + size \in Nat
      OBVIOUS
    <3> QED BY <2>1, <3>1, <1>1, DivMono
  <2>5. o \div BS \in start .. last
    BY <1>1, <1>6, <2>2, <2>3, <2>4
  <2>6. J[f][o \div BS + 1] = B[o \div BS]
    BY <1>2, <2>5
  <2>7. B[o \div BS][o % BS] = byte
    BY <1>3, <2>2, <2>5
  <2>8. o \div BS < Len(J[f])
    <3> HIDE DEF s, start, end
    <3> QED BY <1>1, <1>2, <2>2, <2>5
  <2> QED BY <2>6, <2>7, <2>8
<1> QED BY <1>5, <1>6 DEF PutKeeps

\* A write, granted or refused half way.
LEMMA FsPut ==
    ASSUME Fs!BfsAssumption, FsOK(fcb, ino, ref), NEW f \in Fs!Files, fcb[f].alloc,
           NEW off \in Nat, NEW size \in Nat, NEW byte \in Byte, NEW g \in Fs!Grants
    PROVE  Leaves(Fs!blkfile_put(f, off, byte, size, g))
<1> DEFINE start == off \div BS
           end   == (off + size) \div BS
           k     == g.data
           last  == Fs!LastGranted(start, end, k)
           rd    == PutReads(f, off, size)
           rng   == off .. off + size - 1
           fin   == Fs!FinalSize(f, off, size)
           c     == [fcb[f] EXCEPT !.size = fin]
           F     == [fcb EXCEPT ![f] = c]
           B     == PutBlocks(f, off, byte, size, rd, last)
           J     == Fs!multiblock_write(ino, f, B)
           x     == Fs!Overwrite(ref[f], rng, byte)
           y     == Fs!Untouched(ref[f], rng)
           R     == [ref EXCEPT ![f] = x]
           Q     == [ref EXCEPT ![f] = y]
           I     == Fs!flush_fcb_cache(F, J, f, g.fcbs)
           fsize == fcb[f].size
           put   == Fs!blkfile_put(f, off, byte, size, g)
<1>1. put = IF ~rd.ok THEN Fs!Refuse
            ELSE IF last # end THEN Fs!Answer(fcb, J, <<Fs!ERROR>>, Q)
            ELSE Fs!Answer(F, I, <<Fs!OK>>, R)
  BY DEF Fs!blkfile_put, PutReads, PutBlocks, PutBlock
<1> HIDE DEF put
<1>2. BS \in Nat \ {0} /\ off + size \in Nat
  BY DEF Fs!BfsAssumption
<1>3. start \in Nat /\ end \in Nat /\ start <= end
  <2>1. start \in Nat
    BY <1>2, DivMod
  <2>2. end \in Nat
    BY <1>2, DivMod
  <2>3. start <= end
    BY <1>2, DivMono
  <2> QED BY <2>1, <2>2, <2>3
<1>4. fcb[f] \in Fs!FCB /\ DOMAIN ref = Fs!Files /\ DOMAIN ino = Fs!Files /\ fsize \in Nat
      /\ ino[0] \in Seq(ArrayBlock) /\ (f # 0 => FileOK(fcb[f], ino[f], ref[f]))
  BY FsFields
<1>5. last \in Int /\ start <= last + 1 /\ last <= end
  <2>1. k \in Int /\ k >= -1
    BY GrantOK
  <2> HIDE DEF k, start, end
  <2> QED BY <1>3, <2>1, Granted
<1> HIDE DEF last, k
<1>6. Written(ino, f, BlockOf(f), start, last, B, J)
  <2>1. B = PutBlocks(f, off, byte, size, rd, last) /\ rd = PutReads(f, off, size)
        /\ J = Fs!multiblock_write(ino, f, B)
    OBVIOUS
  <2> HIDE DEF B, rd, J
  <2> QED BY <1>5, <2>1, PutWritten
<1>7. f # 0 => PutKeeps(f, J, off, byte, size, last = end)
  <2>1. B = PutBlocks(f, off, byte, size, rd, last) /\ rd = PutReads(f, off, size)
    OBVIOUS
  <2> HIDE DEF B, rd, J
  <2> QED BY <1>5, <1>6, <2>1, PutContents
<1> HIDE DEF B, rd, J
<1>8. /\ DOMAIN J = Fs!Files /\ \A e \in Fs!Files : e # f => J[e] = ino[e]
      /\ J[f] \in Seq(BlockOf(f))
  BY <1>4, <1>6 DEF Written
<1>9. J[0] \in Seq(ArrayBlock) /\ (f # 0 => J[f] \in Seq(FsBlock))
  <2>1. 0 \in Fs!Files
    BY FsFields
  <2> QED BY <1>4, <1>8, <2>1 DEF BlockOf
<1>10. fin \in Nat /\ off + size <= fin /\ fsize <= fin
  BY <1>2, <1>4 DEF Fs!FinalSize
<1> HIDE DEF fin
<1>11. c \in Fs!FCB /\ c.size = fin /\ c.alloc
  BY <1>4, <1>10 DEF Fs!FCB
<1>12. F \in [Fs!Files -> Fs!FCB] /\ F[f] = c /\ \A e \in Fs!Files : e # f => F[e] = fcb[e]
  <2> HIDE DEF c
  <2> QED BY <1>11 DEF FsOK
<1> HIDE DEF c, F
\* The bytes that the write does not cover.
<1>13. ASSUME f # 0, ref[f] # Fs!Unset, NEW o \in DOMAIN ref[f], o \notin rng
       PROVE  o \in Nat /\ o < fsize /\ o \div BS < Len(J[f])
              /\ J[f][o \div BS + 1][o % BS] = ref[f][o]
  <2>1. o \in 0 .. fsize - 1 /\ o \div BS < Len(ino[f]) /\ ino[f][o \div BS + 1][o % BS] = ref[f][o]
    BY <1>4, <1>13 DEF FileOK
  <2>2. o \in Nat /\ o < fsize
    BY <2>1, <1>4
  <2>3. o \div BS < Len(J[f]) /\ J[f][o \div BS + 1][o % BS] = ino[f][o \div BS + 1][o % BS]
    BY <1>7, <1>13, <2>1, <2>2 DEF PutKeeps
  <2> QED BY <2>1, <2>2, <2>3
<1>14. ASSUME f # 0
       PROVE  FileOK(fcb[f], J[f], y)
  <2>1. CASE ref[f] = Fs!Unset
    BY <2>1 DEF Fs!Untouched, FileOK
  <2>2. CASE ref[f] # Fs!Unset
    <3>1. y = [o \in DOMAIN ref[f] \ rng |-> ref[f][o]]
      BY <2>2 DEF Fs!Untouched
    <3> HIDE DEF y, rng, start, end
    <3>2. ASSUME NEW o \in DOMAIN y
          PROVE  o \in 0 .. fsize - 1 /\ o \div BS < Len(J[f])
                 /\ J[f][o \div BS + 1][o % BS] = y[o]
      <4>1. o \in DOMAIN ref[f] /\ o \notin rng /\ y[o] = ref[f][o]
        BY <3>1
      <4>2. o \in Nat /\ o < fsize /\ o \div BS < Len(J[f])
              /\ J[f][o \div BS + 1][o % BS] = ref[f][o]
        BY <4>1, <1>13, <1>14, <2>2
      <4>3. o \in 0 .. fsize - 1
        BY <4>2, <1>4
      <4> QED BY <4>1, <4>2, <4>3
    <3> QED BY <3>2 DEF FileOK
  <2> QED BY <2>1, <2>2
<1>15. ASSUME f # 0, last = end
       PROVE  FileOK(c, J[f], x)
  <2>1. CASE ref[f] = Fs!Unset
    BY <2>1, <1>11 DEF Fs!Overwrite, FileOK
  <2>2. CASE ref[f] # Fs!Unset
    <3>1. x = [o \in DOMAIN ref[f] \cup rng |-> IF o \in rng THEN byte ELSE ref[f][o]]
      BY <2>2 DEF Fs!Overwrite
    <3>2. \A o \in rng : o \in 0 .. fin - 1
      BY <1>10
    <3>3. \A o \in rng : o \div BS < Len(J[f]) /\ J[f][o \div BS + 1][o % BS] = byte
      BY <1>7, <1>15 DEF PutKeeps
    <3> HIDE DEF x, rng, start, end
    <3>4. ASSUME NEW o \in DOMAIN x
          PROVE  o \in 0 .. fin - 1 /\ o \div BS < Len(J[f])
                 /\ J[f][o \div BS + 1][o % BS] = x[o]
      <4>1. CASE o \in rng
        BY <3>1, <3>2, <3>3, <4>1
      <4>2. CASE o \notin rng
        <5>1. o \in DOMAIN ref[f] /\ x[o] = ref[f][o]
          BY <3>1, <4>2
        <5>2. o \in Nat /\ o < fsize /\ o \div BS < Len(J[f])
                /\ J[f][o \div BS + 1][o % BS] = ref[f][o]
          BY <5>1, <4>2, <1>13, <1>15, <2>2
        <5>3. o \in 0 .. fin - 1
          BY <5>2, <1>4, <1>10
        <5> QED BY <5>1, <5>2, <5>3
      <4> QED BY <4>1, <4>2
    <3> QED BY <3>4, <1>11 DEF FileOK
  <2> QED BY <2>1, <2>2
<1> HIDE DEF x, y, rng, fsize
<1>16. DOMAIN R = Fs!Files /\ R[f] = x /\ \A e \in Fs!Files : e # f => R[e] = ref[e]
  BY <1>4
<1>17. DOMAIN Q = Fs!Files /\ Q[f] = y /\ \A e \in Fs!Files : e # f => Q[e] = ref[e]
  BY <1>4
<1> HIDE DEF R, Q
<1>18. FsOK(fcb, J, Q)
  <2>1. \A e \in Fs!Files : (e # 0 /\ e # f) => (fcb[e] = fcb[e] /\ J[e] = ino[e] /\ Q[e] = ref[e])
    BY <1>8, <1>17
  <2>2. f # 0 => J[f] \in Seq(FsBlock) /\ FileOK(fcb[f], J[f], Q[f])
    BY <1>9, <1>14, <1>17
  <2>3. fcb \in [Fs!Files -> Fs!FCB]
    BY DEF FsOK
  <2> QED BY <2>1, <2>2, <2>3, <1>8, <1>9, <1>17, FsReplace
<1>19. ASSUME last = end
       PROVE  FsOK(F, I, R)
  <2>1. Changes(f, c, x, F, J, R)
    BY <1>8, <1>9, <1>12, <1>15, <1>16, <1>19 DEF Changes
  <2> HIDE DEF I
  <2> QED BY <2>1, FsChange DEF I
<1> HIDE DEF I
<1>20. Leaves(put)
  BY <1>1, <1>18, <1>19, FsRefuse DEF Leaves, Fs!Answer
<1> QED BY <1>20 DEF put

\* file_write is refused, or writes.
LEMMA FsWrite ==
    ASSUME Fs!BfsAssumption, FsOK(fcb, ino, ref), NEW r \in Fs!Requests, r.op = "write",
           NEW u, NEW g \in Fs!Grants
    PROVE  Leaves(Fs!blkfile_do_write(r, u, g))
<1>1. CASE ~Fs!Known(r.file) \/ ~Fs!blkfile_write_allowed(fcb[r.file], u)
  BY <1>1, FsRefuse DEF Fs!blkfile_do_write
<1>2. CASE ~(~Fs!Known(r.file) \/ ~Fs!blkfile_write_allowed(fcb[r.file], u))
  <2>1. Fs!blkfile_do_write(r, u, g) = Fs!blkfile_put(r.file, r.offset, r.byte, r.size, g)
    BY <1>2 DEF Fs!blkfile_do_write
  <2>2. r.file \in Fs!Files /\ fcb[r.file].alloc
    BY <1>2 DEF Fs!Known
  <2>3. r.offset \in Nat /\ r.size \in Nat /\ r.byte \in Byte
    BY FsRequest
  <2>4. Leaves(Fs!blkfile_put(r.file, r.offset, r.byte, r.size, g))
    BY <2>2, <2>3, FsPut
  <2> QED BY <2>1, <2>4
<1> QED BY <1>1, <1>2

\* Every request leaves the files right.
LEMMA FsHandle ==
    ASSUME Fs!BfsAssumption, FsOK(fcb, ino, ref), NEW r \in Fs!Requests, NEW u \in Fs!Uids,
           NEW g \in Fs!Grants
    PROVE  Leaves(Fs!Handle(r, u, g))
<1>1. r.op \in {"create", "delete", "chown", "chmod", "read", "write", "sync", "stat", "setsize"}
  BY FsRequest
<1>2. CASE r.op = "create"
  BY <1>2, FsCreate DEF Fs!Handle
<1>3. CASE r.op = "delete"
  BY <1>3, FsDelete DEF Fs!Handle
<1>4. CASE r.op \in {"chown", "chmod"}
  BY <1>4, FsOwner DEF Fs!Handle
<1>5. CASE r.op \in {"read", "stat", "sync"}
  BY <1>5, FsLook DEF Fs!Handle
<1>6. CASE r.op = "write"
  BY <1>6, FsWrite DEF Fs!Handle
<1>7. CASE r.op = "setsize"
  BY <1>7, FsSetSize DEF Fs!Handle
<1> QED BY <1>1, <1>2, <1>3, <1>4, <1>5, <1>6, <1>7

\* A block write to a file leaves the array.
LEMMA DataApart ==
    ASSUME NEW I, NEW f, f # 0, 0 \in DOMAIN I, f \in DOMAIN I, NEW B, NEW J,
           J = Fs!multiblock_write(I, f, B)
    PROVE  DOMAIN J = DOMAIN I /\ J[0] = I[0]
<1>1. PICK v : J = [I EXCEPT ![f] = v]
  BY DEF Fs!multiblock_write
<1> QED BY <1>1

\* What is asked for a block server that grants everything.
LEMMA GrantAll ==
    ASSUME Fs!BfsAssumption
    PROVE  /\ Fs!Everything \in Fs!Grants /\ Fs!Everything.fcbs = Fs!All
           /\ Fs!Everything.data = Fs!All /\ Fs!Everything.resize = TRUE
  BY DEF Fs!Everything, Fs!Grants

\* A request for which every block write is granted, and that does not change the
\* array as file 0, leaves the array saved.
LEMMA FsSaves ==
    ASSUME Fs!BfsAssumption, FsOK(fcb, ino, ref), Saved(fcb, ino), NEW r \in Fs!Requests,
           NEW u \in Fs!Uids, NEW an, an = Fs!Handle(r, u, Fs!Everything), ~Fs!WritesArray(r, an)
    PROVE  Saved(an.fcb, an.ino)
<1> DEFINE g == Fs!Everything
<1>0. /\ g \in Fs!Grants /\ g.fcbs = Fs!All /\ g.data = Fs!All /\ g.resize = TRUE
      /\ 0 \in Fs!Files /\ DOMAIN ino = Fs!Files /\ ino[0] \in Seq(ArrayBlock)
      /\ fcb \in [Fs!Files -> Fs!FCB]
  <2>1. 0 \in Fs!Files
    BY DEF Fs!Files, Fs!BfsAssumption
  <2>2. DOMAIN ino = Fs!Files /\ fcb \in [Fs!Files -> Fs!FCB] /\ ino[0] \in Seq(ArrayBlock)
    BY <2>1 DEF FsOK, BlockOf
  <2> QED BY <2>1, <2>2, GrantAll
<1> HIDE DEF g
<1>1. an = Fs!Handle(r, u, g) /\ Leaves(an)
  BY <1>0, FsHandle DEF g
<1>2. an.fcb \in [Fs!Files -> Fs!FCB]
  BY <1>1 DEF Leaves, FsOK
<1>3. r.op \in {"create", "delete", "chown", "chmod", "read", "write", "sync", "stat", "setsize"}
  BY FsRequest
\* A reply without a change, and one after a change of FCB f and of inodes J.
<1>4. ASSUME NEW reps, NEW R, an = Fs!Answer(fcb, ino, reps, R) \/ an = Fs!Refuse
      PROVE  Saved(an.fcb, an.ino)
  BY <1>4 DEF Fs!Answer, Fs!Refuse
<1>5. ASSUME NEW f \in Fs!Files, NEW b, NEW F, F = [fcb EXCEPT ![f] = b], NEW J, NEW reps, NEW R,
             DOMAIN J = Fs!Files, J[0] = ino[0],
             an = Fs!Answer(F, Fs!flush_fcb_cache(F, J, f, g.fcbs), reps, R)
      PROVE  Saved(an.fcb, an.ino)
  <2>1. an.fcb = F /\ an.ino = Fs!flush_fcb_cache(F, J, f, Fs!All)
    BY <1>0, <1>5 DEF Fs!Answer
  <2>2. F \in [Fs!Files -> Fs!FCB]
    BY <1>2, <2>1
  <2>3. \A e \in Fs!Files : e # f => F[e] = fcb[e]
    BY <1>0, <1>5
  <2>4. J[0] \in Seq(ArrayBlock)
    BY <1>0, <1>5
  <2>5. Saved(F, Fs!flush_fcb_cache(F, J, f, Fs!All))
    BY <1>5, <2>2, <2>3, <2>4, FsFlushSaves
  <2> QED BY <2>1, <2>5
<1>6. CASE r.op = "create"
  <2>1. an = Fs!blkfile_do_create(r, u, g)
    BY <1>1, <1>6 DEF Fs!Handle
  <2>2. CASE Fs!FreeFiles = {}
    BY <1>4, <2>1, <2>2 DEF Fs!blkfile_do_create
  <2>3. CASE Fs!FreeFiles # {}
    <3> DEFINE f == CHOOSE e \in Fs!FreeFiles : \A h \in Fs!FreeFiles : e <= h
               b == [fcb[f] EXCEPT !.alloc = TRUE, !.mode = r.mode, !.uid = u]
               F == [fcb EXCEPT ![f] = b]
               R == [ref EXCEPT ![f] = IF fcb[f].size = 0 THEN <<>> ELSE Fs!Unset]
    <3>1. an = Fs!Answer(F, Fs!flush_fcb_cache(F, ino, f, g.fcbs), <<Fs!OK>>, R)
      BY <2>1, <2>3 DEF Fs!blkfile_do_create
    <3>2. Fs!FreeFiles \in SUBSET Nat
      BY DEF Fs!FreeFiles, Fs!Files, Fs!BfsAssumption
    <3>3. f \in Fs!FreeFiles
      <4>1. PICK e \in Fs!FreeFiles : \A h \in Fs!FreeFiles : e <= h
        BY <2>3, <3>2, LeastNat
      <4> QED BY <4>1
    <3>4. f \in Fs!Files
      BY <3>3 DEF Fs!FreeFiles
    <3>5. F = [fcb EXCEPT ![f] = b]
      OBVIOUS
    <3> HIDE DEF f, b, F, R
    <3> QED BY <1>0, <1>5, <3>1, <3>4, <3>5
  <2> QED BY <2>2, <2>3
<1>7. CASE r.op \in {"read", "stat", "sync"}
  <2>1. CASE r.op = "read"
    <3>1. an = Fs!blkfile_do_read(r, u)
      BY <1>1, <2>1 DEF Fs!Handle
    <3> QED BY <1>4, <3>1 DEF Fs!blkfile_do_read
  <2>2. CASE r.op = "stat"
    <3>1. an = Fs!blkfile_do_stat(r, u)
      BY <1>1, <2>2 DEF Fs!Handle
    <3> QED BY <1>4, <3>1 DEF Fs!blkfile_do_stat
  <2>3. CASE r.op = "sync"
    <3>1. an = Fs!blkfile_do_sync(r, u)
      BY <1>1, <2>3 DEF Fs!Handle
    <3> QED BY <1>4, <3>1 DEF Fs!blkfile_do_sync
  <2> QED BY <1>7, <2>1, <2>2, <2>3
<1> DEFINE f == r.file
<1>8. CASE r.op = "chown"
  <2> DEFINE b == [fcb[f] EXCEPT !.uid = r.owner]
             F == [fcb EXCEPT ![f] = b]
  <2>1. an = Fs!blkfile_do_chown(r, u, g)
    BY <1>1, <1>8 DEF Fs!Handle
  <2>2. CASE ~Fs!Known(f) \/ u # 0
    BY <1>4, <2>1, <2>2 DEF Fs!blkfile_do_chown
  <2>3. CASE ~(~Fs!Known(f) \/ u # 0)
    <3>1. an = Fs!Answer(F, Fs!flush_fcb_cache(F, ino, f, g.fcbs), <<Fs!OK>>, ref)
      BY <2>1, <2>3 DEF Fs!blkfile_do_chown
    <3>2. f \in Fs!Files /\ F = [fcb EXCEPT ![f] = b]
      BY <2>3 DEF Fs!Known
    <3> HIDE DEF f, b, F
    <3> QED BY <1>0, <1>5, <3>1, <3>2
  <2> QED BY <2>2, <2>3
<1>9. CASE r.op = "chmod"
  <2> DEFINE b == [fcb[f] EXCEPT !.mode = r.mode]
             F == [fcb EXCEPT ![f] = b]
             no == ~Fs!Known(f) \/ u \notin {0, fcb[f].uid}
  <2>1. an = Fs!blkfile_do_chmod(r, u, g)
    BY <1>1, <1>9 DEF Fs!Handle
  <2>2. CASE no
    BY <1>4, <2>1, <2>2 DEF Fs!blkfile_do_chmod
  <2>3. CASE ~no
    <3>1. an = Fs!Answer(F, Fs!flush_fcb_cache(F, ino, f, g.fcbs), <<Fs!OK>>, ref)
      BY <2>1, <2>3 DEF Fs!blkfile_do_chmod
    <3>2. f \in Fs!Files /\ F = [fcb EXCEPT ![f] = b]
      BY <2>3 DEF Fs!Known
    <3> HIDE DEF f, b, F, no
    <3> QED BY <1>0, <1>5, <3>1, <3>2
  <2> QED BY <2>2, <2>3
<1>10. CASE r.op = "delete"
  <2> DEFINE b == [fcb[f] EXCEPT !.alloc = FALSE]
             F == [fcb EXCEPT ![f] = b]
             J == Fs!flush_fcb_cache(F, ino, f, g.fcbs)
             I == [J EXCEPT ![f] = <<>>]
             R == [ref EXCEPT ![f] = Fs!Unset]
             no == f \notin Fs!Files \/ ~Fs!blkfile_write_allowed(fcb[f], u) \/ ~fcb[f].alloc
  <2>1. an = Fs!blkfile_do_delete(r, u, g)
    BY <1>1, <1>10 DEF Fs!Handle
  <2>2. CASE no
    BY <1>4, <2>1, <2>2 DEF Fs!blkfile_do_delete
  <2>3. CASE ~no
    <3>1. an = Fs!Answer(F, I, <<Fs!OK>>, R)
      BY <1>0, <2>1, <2>3 DEF Fs!blkfile_do_delete
    <3>2. f \in Fs!Files /\ F = [fcb EXCEPT ![f] = b]
      BY <2>3
    <3>3. an.fcb = F /\ an.ino = I /\ an.reps = <<Fs!OK>>
      BY <3>1 DEF Fs!Answer
    <3>4. <<Fs!OK>> # <<Fs!ERROR>>
      BY DEF Fs!OK, Fs!ERROR
    <3>5. f # 0
      BY <1>10, <3>3, <3>4 DEF Fs!WritesArray
    <3> HIDE DEF f, b, F, no
    <3>6. \A e \in Fs!Files : e # f => F[e] = fcb[e]
      BY <1>0, <3>2
    <3>7. F \in [Fs!Files -> Fs!FCB]
      BY <1>2, <3>3
    <3>8. Saved(F, Fs!flush_fcb_cache(F, ino, f, Fs!All))
      BY <1>0, <3>2, <3>6, <3>7, FsFlushSaves
    <3>9. J = Fs!flush_fcb_cache(F, ino, f, Fs!All)
      BY <1>0
    <3> HIDE DEF J
    <3>10. I[0] = J[0]
      BY <3>5
    <3> QED BY <3>3, <3>8, <3>9, <3>10 DEF Saved
  <2> QED BY <2>2, <2>3
<1>11. CASE r.op = "write"
  <2>1. an = Fs!blkfile_do_write(r, u, g)
    BY <1>1, <1>11 DEF Fs!Handle
  <2>2. CASE ~Fs!Known(f) \/ ~Fs!blkfile_write_allowed(fcb[f], u)
    BY <1>4, <2>1, <2>2 DEF Fs!blkfile_do_write
  <2>3. CASE ~(~Fs!Known(f) \/ ~Fs!blkfile_write_allowed(fcb[f], u))
    <3> DEFINE off == r.offset
               size == r.size
               rd == PutReads(f, off, size)
               end == (off + size) \div BS
               rng == off .. off + size - 1
               b == [fcb[f] EXCEPT !.size = Fs!FinalSize(f, off, size)]
               F == [fcb EXCEPT ![f] = b]
               B == PutBlocks(f, off, r.byte, size, rd, end)
               J == Fs!multiblock_write(ino, f, B)
               R == [ref EXCEPT ![f] = Fs!Overwrite(ref[f], rng, r.byte)]
    <3>1. an = Fs!blkfile_put(f, off, r.byte, size, g)
      BY <2>1, <2>3 DEF Fs!blkfile_do_write
    <3>2. Fs!LastGranted(off \div BS, end, g.data) = end
      BY <1>0 DEF Fs!LastGranted
    <3>3. an = IF ~rd.ok THEN Fs!Refuse
               ELSE Fs!Answer(F, Fs!flush_fcb_cache(F, J, f, g.fcbs), <<Fs!OK>>, R)
      BY <3>1, <3>2 DEF Fs!blkfile_put, PutReads, PutBlocks, PutBlock
    <3>4. CASE ~rd.ok
      BY <1>4, <3>3, <3>4
    <3>5. CASE rd.ok
      <4>1. f \in Fs!Files /\ F = [fcb EXCEPT ![f] = b] /\ J = Fs!multiblock_write(ino, f, B)
            /\ an = Fs!Answer(F, Fs!flush_fcb_cache(F, J, f, g.fcbs), <<Fs!OK>>, R)
        BY <2>3, <3>3, <3>5 DEF Fs!Known
      <4> HIDE DEF F, J, B, R, b
      <4>2. f # 0
        <5>1. an.reps = <<Fs!OK>> /\ <<Fs!OK>> # <<Fs!ERROR>>
          BY <4>1 DEF Fs!Answer, Fs!OK, Fs!ERROR
        <5> QED BY <1>11, <5>1 DEF Fs!WritesArray
      <4> HIDE DEF f
      <4>3. DOMAIN J = Fs!Files /\ J[0] = ino[0]
        BY <1>0, <4>1, <4>2, DataApart
      <4> QED BY <1>5, <4>1, <4>3
    <3> QED BY <3>4, <3>5
  <2> QED BY <2>2, <2>3
<1>12. CASE r.op = "setsize"
  <2> DEFINE n == IF r.size = 0 THEN 0 ELSE 1 + r.size \div BS
             ok == Fs!SetSizeOK(f, n) /\ g.resize
             b == [fcb[f] EXCEPT !.size = r.size]
             F == [fcb EXCEPT ![f] = b]
             J == IF ok THEN [ino EXCEPT ![f] = SubSeq(ino[f], 1, n)] ELSE ino
             R == [ref EXCEPT ![f] = IF r.size = 0 THEN <<>> ELSE IF ref[f] = Fs!Unset THEN ref[f]
                ELSE [o \in {p \in DOMAIN ref[f] : p < r.size} |-> ref[f][o]]]
             reps == IF ok THEN <<Fs!OK>> ELSE <<Fs!ERROR, Fs!OK>>
             no == ~Fs!Known(f) \/ r.size > fcb[f].size \/ ~Fs!blkfile_write_allowed(fcb[f], u)
  <2>1. an = Fs!blkfile_do_setsize(r, u, g)
    BY <1>1, <1>12 DEF Fs!Handle
  <2>2. CASE no
    BY <1>4, <2>1, <2>2 DEF Fs!blkfile_do_setsize
  <2>3. CASE ~no
    <3>1. an = Fs!Answer(F, Fs!flush_fcb_cache(F, J, f, g.fcbs), reps, R)
      BY <2>1, <2>3 DEF Fs!blkfile_do_setsize
    <3>2. f \in Fs!Files /\ F = [fcb EXCEPT ![f] = b]
      BY <2>3 DEF Fs!Known
    <3>3. f # 0
      <4>1. an.reps = reps
        BY <3>1 DEF Fs!Answer
      <4>2. reps # <<Fs!ERROR>>
        BY DEF Fs!OK, Fs!ERROR
      <4> QED BY <1>12, <4>1, <4>2 DEF Fs!WritesArray
    <3> HIDE DEF f, b, F, no, R, reps, ok, n
    <3>4. DOMAIN J = Fs!Files /\ J[0] = ino[0]
      BY <1>0, <3>3
    <3> HIDE DEF J
    <3> QED BY <1>5, <3>1, <3>2, <3>4
  <2> QED BY <2>2, <2>3
<1> QED BY <1>3, <1>6, <1>7, <1>8, <1>9, <1>10, <1>11, <1>12

\* The FCBs of a new array.
LEMMA FsNew ==
    ASSUME Fs!BfsAssumption
    PROVE  Fs!NewFcbs \in [Fs!Files -> Fs!FCB] /\ 0 \in Fs!Files /\ \A f \in Fs!Files : f # 0 => ~Fs!NewFcbs[f].alloc
<1> DEFINE n == BS \div FcbSize
           m == NFcbs * FcbSize
<1>1. BS \in Nat \ {0} /\ FcbSize \in Nat \ {0} /\ FcbSize <= BS /\ NFcbs \in Nat \ {0, 1}
  BY DEF Fs!BfsAssumption
<1>2. FcbSize \div FcbSize = 1
  BY <1>1
<1>3. n \in Nat
  BY <1>1, DivMod
<1>4. FcbSize \div FcbSize <= n
  BY <1>1, DivMono
<1>5. m \in Nat
  BY <1>1, MulMono
<1> HIDE DEF n, m
<1>6. n \in Nat \ {0}
  BY <1>2, <1>3, <1>4
<1>7. m \div n \in Nat
  BY <1>5, <1>6, DivMod
<1>8. 0 \in Fs!Uids /\ {} \in SUBSET Fs!Perms
  BY DEF Fs!Uids
<1>9. Fs!FreeFcb \in Fs!FCB /\ ~Fs!FreeFcb.alloc
      /\ [Fs!FreeFcb EXCEPT !.alloc = TRUE, !.size = m \div n] \in Fs!FCB
  BY <1>7, <1>8 DEF Fs!FreeFcb, Fs!FCB
<1>10. Fs!NewFcbs = [f \in Fs!Files |-> IF f = 0
          THEN [Fs!FreeFcb EXCEPT !.alloc = TRUE, !.size = m \div n] ELSE Fs!FreeFcb]
  BY DEF Fs!NewFcbs, m, n
<1>11. 0 \in Fs!Files
  BY <1>1 DEF Fs!Files
<1> QED BY <1>9, <1>10, <1>11

\* A new array is written to inode 0, and saved when all of it is.
LEMMA FsInstall ==
    ASSUME Fs!BfsAssumption, NEW J, DOMAIN J = Fs!Files, J[0] \in Seq(ArrayBlock),
           NEW F \in [Fs!Files -> Fs!FCB],
           NEW k \in Int, k >= -1, NEW I, I = Fs!flush_stat_cache_all(F, J, k)
    PROVE  /\ DOMAIN I = Fs!Files /\ I[0] \in Seq(ArrayBlock)
           /\ \A e \in Fs!Files : e # 0 => I[e] = J[e]
           /\ k = Fs!All => Saved(F, I)
<1> DEFINE hi == Fs!ArrayBlocks - 1
           B == [b \in 0 .. Fs!LastGranted(0, hi, k) |-> Fs!FcbBlock(F, b)]
<1>1. 0 \in Fs!Files
  BY FsNew
<1>2. hi \in Nat /\ Fs!ArrayBlocks \in Nat
  BY <1>1, ArrayPlace
<1>3. I = Fs!multiblock_write(J, 0, B)
  BY DEF Fs!flush_stat_cache_all
<1>4. Fs!ArrayBlocks = hi + 1
  BY <1>2
<1> HIDE DEF hi
<1>5. Flushes(F, J, 0, hi, k, B, I)
  BY <1>2, <1>3 DEF Flushes
<1> HIDE DEF B
<1>6. Flushed(F, J, 0, hi, k, I)
  BY <1>5, FlushWrites
<1>7. k = Fs!All => Saved(F, I)
  <2> SUFFICES ASSUME k = Fs!All PROVE Saved(F, I)
    OBVIOUS
  <2>1. Len(I[0]) >= hi + 1 /\ \A b \in 0 .. hi : I[0][b + 1] = Fs!FcbBlock(F, b)
    BY <1>6 DEF Flushed
  <2>2. Fs!ArrayBlocks - 1 = hi
    BY DEF hi
  <2> QED BY <1>4, <2>1, <2>2 DEF Saved
<1> QED BY <1>6, <1>7 DEF Flushed

\* The server starts on an empty disk.
LEMMA FsInit ==
    ASSUME Fs!BfsAssumption, Fs!Init
    PROVE  FsInv
<1> DEFINE J == [f \in Fs!Files |-> <<>>]
           F == Fs!NewFcbs
<1>1. 0 \in Fs!Files /\ FsCalls \in Nat /\ F \in [Fs!Files -> Fs!FCB] /\ Fs!All = -1
  BY FsNew DEF Fs!BfsAssumption, Fs!All
<1>2. DOMAIN J = Fs!Files /\ J[0] \in Seq(ArrayBlock) /\ \A f \in Fs!Files : J[f] = <<>>
  BY <1>1
<1>3. fcb = F /\ ino = Fs!flush_stat_cache_all(F, J, Fs!All) /\ DOMAIN ref = Fs!Files
      /\ \A f \in Fs!Files : ref[f] = Fs!Unset
  BY DEF Fs!Init
<1> HIDE DEF J, F
<1>4. DOMAIN ino = Fs!Files /\ ino[0] \in Seq(ArrayBlock) /\ Saved(F, ino)
      /\ \A e \in Fs!Files : e # 0 => ino[e] = J[e]
  <2>1. Fs!All \in Int /\ Fs!All >= -1
    BY DEF Fs!All
  <2> QED BY <1>1, <1>2, <1>3, <2>1, FsInstall
<1>5. \A f \in Fs!Files : ino[f] \in Seq(BlockOf(f))
  <2>1. <<>> \in Seq(FsBlock)
    OBVIOUS
  <2>2. \A f \in Fs!Files : f # 0 => ino[f] = <<>>
    BY <1>2, <1>4
  <2> QED BY <1>4, <2>1, <2>2 DEF BlockOf
<1>6. \A f \in Fs!Files : FileOK(fcb[f], ino[f], ref[f])
  BY <1>3 DEF FileOK
<1>7. FsOK(fcb, ino, ref)
  BY <1>1, <1>3, <1>4, <1>5, <1>6 DEF FsOK
<1>8. queue1 = <<>> /\ second = <<>> /\ wait1 = [c \in FsClient |-> None]
      /\ res1 = [c \in FsClient |-> None] /\ fails = 0 /\ ncalls1 = 0
  BY DEF Fs!Init
<1>9. QueueOK
  BY <1>8 DEF QueueOK
<1>10. Fs!AnswersOwn /\ queue1 \in Seq(Fs!Messages) /\ DOMAIN res1 = FsClient
       /\ wait1 \in [FsClient -> {None} \cup 0 .. FsCalls] /\ ncalls1 \in 0 .. FsCalls
  BY <1>1, <1>8 DEF Fs!AnswersOwn
<1> QED BY <1>3, <1>4, <1>7, <1>8, <1>9, <1>10 DEF FsInv

\* A client that calls has no other request at the server, unless one of its calls
\* was answered twice.
LEMMA FsCall ==
    ASSUME Fs!BfsAssumption, FsInv, NEW c \in FsClient, NEW r \in Fs!Requests, Fs!Call(c, r)
    PROVE  FsInv'
<1> DEFINE q == [src |-> c, n |-> ncalls1, req |-> r]
<1>1. ncalls1 \in 0 .. FsCalls /\ ncalls1 < FsCalls /\ FsCalls \in Nat /\ ncalls1' = ncalls1 + 1
  BY DEF FsInv, Fs!BfsAssumption, Fs!Call
<1>2. q \in Fs!Messages /\ q.src = c /\ q.n = ncalls1
  BY <1>1 DEF Fs!Messages
<1>3. wait1[c] = None /\ wait1' = [wait1 EXCEPT ![c] = ncalls1] /\ queue1' = Append(queue1, q)
      /\ UNCHANGED <<fcb, ino, second, res1, ref, fails, raw, twice>>
  BY DEF Fs!Call
<1> HIDE DEF q
<1>4. queue1 \in Seq(Fs!Messages) /\ Len(queue1) \in Nat
  BY DEF FsInv
<1>5. \A i \in 1 .. Len(queue1) : queue1[i] \in Fs!Messages /\ queue1[i].src \in FsClient
         /\ (queue1[i].src \notin twice => queue1[i].src # c)
  <2> SUFFICES ASSUME NEW i \in 1 .. Len(queue1)
               PROVE  queue1[i] \in Fs!Messages /\ queue1[i].src \in FsClient
                      /\ (queue1[i].src \notin twice => queue1[i].src # c)
    OBVIOUS
  <2>1. queue1[i] \in Fs!Messages
    BY <1>4, ElementOfSeq
  <2>2. queue1[i].src \in FsClient /\ queue1[i].n \in Nat
    BY <1>1, <2>1 DEF Fs!Messages
  <2>3. None \notin Nat
    BY DEF Fs!BfsAssumption
  <2>4. queue1[i].src \notin twice => wait1[queue1[i].src] = queue1[i].n
    BY DEF FsInv, QueueOK
  <2> QED BY <1>3, <2>1, <2>2, <2>3, <2>4
<1>6. /\ queue1' \in Seq(Fs!Messages) /\ Len(queue1') = Len(queue1) + 1
      /\ \A i \in 1 .. Len(queue1) : queue1'[i] = queue1[i]
      /\ queue1'[Len(queue1) + 1] = q
  BY <1>2, <1>3, <1>4
<1>7. /\ wait1' \in [FsClient -> {None} \cup 0 .. FsCalls] /\ wait1'[c] = ncalls1
      /\ \A d \in FsClient : d # c => wait1'[d] = wait1[d]
  BY <1>1, <1>3 DEF FsInv
<1>8. ASSUME NEW i \in 1 .. Len(queue1'), queue1'[i].src \notin twice
      PROVE  /\ wait1'[queue1'[i].src] = queue1'[i].n
             /\ \A j \in 1 .. Len(queue1') : queue1'[i].src = queue1'[j].src => i = j
  <2>1. CASE i \in 1 .. Len(queue1)
    <3>1. queue1[i].src \in FsClient /\ queue1[i].src # c /\ queue1'[i] = queue1[i]
      BY <1>5, <1>6, <1>8, <2>1
    <3>2. wait1[queue1[i].src] = queue1[i].n
          /\ \A j \in 1 .. Len(queue1) : queue1[i].src = queue1[j].src => i = j
      BY <1>8, <2>1, <3>1 DEF FsInv, QueueOK
    <3>3. ASSUME NEW j \in 1 .. Len(queue1'), queue1'[i].src = queue1'[j].src
          PROVE  i = j
      <4>1. j \in 1 .. Len(queue1) \/ j = Len(queue1) + 1
        BY <1>4, <1>6
      <4> QED BY <4>1, <1>2, <1>6, <3>1, <3>2, <3>3
    <3> QED BY <1>7, <3>1, <3>2, <3>3
  <2>2. CASE i = Len(queue1) + 1
    <3>1. queue1'[i] = q
      BY <1>6, <2>2
    <3>2. ASSUME NEW j \in 1 .. Len(queue1'), queue1'[i].src = queue1'[j].src
          PROVE  i = j
      <4>1. j \in 1 .. Len(queue1) \/ j = Len(queue1) + 1
        BY <1>4, <1>6
      <4> QED BY <4>1, <1>2, <1>5, <1>6, <1>8, <2>2, <3>1, <3>2
    <3> QED BY <1>2, <1>7, <3>1, <3>2
  <2> QED BY <2>1, <2>2, <1>4, <1>6
<1>9. QueueOK'
  <2>1. second' # <<>> => second'[1].src \in twice'
    BY <1>3 DEF FsInv, QueueOK
  <2>2. twice' = twice
    BY <1>3
  <2> QED BY <1>8, <2>1, <2>2 DEF QueueOK
<1>10. Fs!AnswersOwn'
  BY <1>3 DEF FsInv, Fs!AnswersOwn
<1>11. FsOK(fcb', ino', ref') /\ (fails' = 0 /\ ~raw' => Saved(fcb', ino')) /\ fails' \in Nat
       /\ DOMAIN res1' = FsClient /\ ncalls1' \in 0 .. FsCalls
  BY <1>1, <1>3 DEF FsInv
<1> QED BY <1>6, <1>7, <1>9, <1>10, <1>11 DEF FsInv

\* The reply goes to the client that waits for it.
LEMMA FsServe ==
    ASSUME Fs!BfsAssumption, FsInv, Fs!blkfile_proc
    PROVE  FsInv'
<1> DEFINE r == Head(queue1)
           u == [c \in FsClient |-> Uid[c]][r.src]
           t == Tail(queue1)
<1>1. PICK g \in Fs!Grants :
        LET a == Fs!Handle(r.req, u, g)
        IN /\ Fs!Grant(a, Fs!Handle(r.req, u, Fs!Everything))
           /\ fcb' = a.fcb /\ ino' = a.ino /\ ref' = a.ref
           /\ Fs!Deliver(r)
           /\ second' = IF Len(a.reps) = 1 THEN <<>> ELSE <<r>>
           /\ twice' = IF Len(a.reps) = 1 THEN twice ELSE twice \cup {r.src}
           /\ raw' = (raw \/ Fs!WritesArray(r.req, a))
  BY DEF Fs!blkfile_proc
<1>2. queue1 # <<>> /\ queue1' = t /\ ncalls1' = ncalls1 /\ second = <<>>
  BY DEF Fs!blkfile_proc
<1> DEFINE an == Fs!Handle(r.req, u, g)
           all == Fs!Handle(r.req, u, Fs!Everything)
<1>3. /\ Fs!Grant(an, all)
      /\ fcb' = an.fcb /\ ino' = an.ino /\ ref' = an.ref
      /\ Fs!Deliver(r)
      /\ \/ second' = <<>> /\ twice' = twice
         \/ second' = <<r>> /\ twice' = twice \cup {r.src}
      /\ raw' = (raw \/ Fs!WritesArray(r.req, an))
  BY <1>1
<1>4. queue1 \in Seq(Fs!Messages) /\ Len(queue1) \in Nat
  BY DEF FsInv
<1>5. r \in Fs!Messages /\ t \in Seq(Fs!Messages) /\ Len(t) = Len(queue1) - 1 /\ Len(queue1) >= 1
      /\ r = queue1[1] /\ \A i \in 1 .. Len(t) : t[i] = queue1[i + 1]
  BY <1>2, <1>4, HeadTailProperties
<1>6. an = Fs!Handle(r.req, u, g) /\ all = Fs!Handle(r.req, u, Fs!Everything)
  OBVIOUS
<1> HIDE DEF r, t
<1>7. r.req \in Fs!Requests /\ r.src \in FsClient /\ r.n \in Nat /\ u \in Fs!Uids /\ None \notin Nat
  <2>1. r.req \in Fs!Requests /\ r.src \in FsClient /\ r.n \in 0 .. FsCalls
    BY <1>5 DEF Fs!Messages
  <2>2. r.n \in Nat /\ None \notin Nat
    BY <2>1 DEF Fs!BfsAssumption
  <2>3. u \in Fs!Uids
    BY <2>1 DEF Fs!Uids
  <2> QED BY <2>1, <2>2, <2>3
<1> HIDE DEF an, all, u
<1>8. FsOK(fcb', ino', ref')
  <2>1. FsOK(fcb, ino, ref)
    BY DEF FsInv
  <2>2. Leaves(an)
    BY <1>6, <1>7, <2>1, FsHandle
  <2> QED BY <1>3, <2>2 DEF Leaves
<1>9. fails' \in Nat /\ (fails' = 0 => fails = 0 /\ an = all)
  BY <1>3 DEF Fs!Grant, FsInv
<1>10. ASSUME fails' = 0, ~raw'
       PROVE  Saved(fcb', ino')
  <2>1. fails = 0 /\ an = all /\ ~raw /\ ~Fs!WritesArray(r.req, an)
    BY <1>3, <1>9, <1>10
  <2>2. FsOK(fcb, ino, ref) /\ Saved(fcb, ino)
    BY <2>1 DEF FsInv
  <2>3. an = Fs!Handle(r.req, u, Fs!Everything)
    BY <1>6, <2>1
  <2>4. Saved(an.fcb, an.ino)
    BY <1>7, <2>1, <2>2, <2>3, FsSaves
  <2> QED BY <1>3, <2>4
<1>11. r.src \notin twice => wait1[r.src] = r.n
  BY <1>4, <1>5 DEF FsInv, QueueOK
<1>12. \/ wait1[r.src] = None /\ wait1' = wait1 /\ res1' = res1
       \/ /\ wait1' = [wait1 EXCEPT ![r.src] = None]
          /\ res1' = [res1 EXCEPT ![r.src] = [call |-> wait1[r.src], to |-> r.n]]
  BY <1>3 DEF Fs!Deliver
<1>13. /\ wait1' \in [FsClient -> {None} \cup 0 .. FsCalls] /\ DOMAIN res1' = FsClient
       /\ \A d \in FsClient : d # r.src => wait1'[d] = wait1[d] /\ res1'[d] = res1[d]
  BY <1>7, <1>12 DEF FsInv
<1>14. \A i \in 1 .. Len(t) : i + 1 \in 1 .. Len(queue1) /\ i + 1 # 1 /\ 1 \in 1 .. Len(queue1)
  BY <1>4, <1>5
<1>15. ASSUME NEW i \in 1 .. Len(t), t[i].src \notin twice'
       PROVE  /\ wait1'[t[i].src] = t[i].n
              /\ \A j \in 1 .. Len(t) : t[i].src = t[j].src => i = j
  <2>1. t[i].src \notin twice /\ t[i] = queue1[i + 1] /\ i + 1 \in 1 .. Len(queue1) /\ i + 1 # 1
        /\ 1 \in 1 .. Len(queue1)
    BY <1>3, <1>5, <1>14, <1>15
  <2>2. wait1[t[i].src] = t[i].n /\ \A j \in 1 .. Len(queue1) : t[i].src = queue1[j].src => i + 1 = j
    BY <2>1 DEF FsInv, QueueOK
  <2>3. t[i].src # r.src
    BY <1>5, <2>1, <2>2
  <2>4. t[i].src \in FsClient
    <3>1. t[i] \in Fs!Messages
      BY <1>5, ElementOfSeq
    <3> QED BY <3>1 DEF Fs!Messages
  <2>5. ASSUME NEW j \in 1 .. Len(t), t[i].src = t[j].src
        PROVE  i = j
    <3>1. t[j] = queue1[j + 1] /\ j + 1 \in 1 .. Len(queue1)
      BY <1>5, <1>14
    <3>2. i + 1 = j + 1
      BY <2>2, <2>5, <3>1
    <3> QED BY <3>2
  <2> QED BY <1>13, <2>2, <2>3, <2>4, <2>5
<1>16. QueueOK'
  <2>1. second' # <<>> => second'[1].src \in twice'
    BY <1>3
  <2> QED BY <1>2, <1>15, <2>1 DEF QueueOK
<1>17. Fs!AnswersOwn'
  <2>1. ASSUME NEW d \in FsClient, d \notin twice', res1'[d] # None
        PROVE  res1'[d].call = res1'[d].to
    <3>0. d \notin twice
      BY <1>3, <2>1
    <3>1. CASE d = r.src
      BY <3>0, <3>1, <1>7, <1>11, <1>12 DEF FsInv
    <3>2. CASE d # r.src
      BY <3>0, <3>2, <1>13, <2>1 DEF FsInv, Fs!AnswersOwn
    <3> QED BY <3>1, <3>2
  <2> QED BY <2>1 DEF Fs!AnswersOwn
<1>18. queue1' \in Seq(Fs!Messages) /\ ncalls1' \in 0 .. FsCalls
  BY <1>2, <1>5 DEF FsInv
<1> QED BY <1>8, <1>9, <1>10, <1>13, <1>16, <1>17, <1>18 DEF FsInv

\* A second reply reaches a client of which nothing is said any more.
LEMMA FsSecond ==
    ASSUME Fs!BfsAssumption, FsInv, Fs!SecondReply
    PROVE  FsInv'
<1> DEFINE q == second[1]
<1>1. second # <<>> /\ Fs!Deliver(q) /\ second' = <<>>
      /\ UNCHANGED <<fcb, ino, queue1, ref, fails, raw, twice, ncalls1>>
  BY DEF Fs!SecondReply
<1>2. q.src \in twice
  BY <1>1 DEF FsInv, QueueOK
<1> HIDE DEF q
<1>3. \/ wait1' = wait1 /\ res1' = res1
      \/ /\ wait1' = [wait1 EXCEPT ![q.src] = None]
         /\ res1' = [res1 EXCEPT ![q.src] = [call |-> wait1[q.src], to |-> q.n]]
  BY <1>1 DEF Fs!Deliver
<1>4. /\ wait1' \in [FsClient -> {None} \cup 0 .. FsCalls] /\ DOMAIN res1' = FsClient
      /\ \A d \in FsClient : d \notin twice => wait1'[d] = wait1[d] /\ res1'[d] = res1[d]
  BY <1>2, <1>3 DEF FsInv
<1>5. \A i \in 1 .. Len(queue1) : queue1[i].src \in FsClient
  <2> SUFFICES ASSUME NEW i \in 1 .. Len(queue1) PROVE queue1[i].src \in FsClient
    OBVIOUS
  <2>1. queue1[i] \in Fs!Messages
    BY ElementOfSeq DEF FsInv
  <2> QED BY <2>1 DEF Fs!Messages
<1>6. QueueOK'
  <2>1. ASSUME NEW i \in 1 .. Len(queue1'), queue1'[i].src \notin twice'
        PROVE  /\ wait1'[queue1'[i].src] = queue1'[i].n
               /\ \A j \in 1 .. Len(queue1') : queue1'[i].src = queue1'[j].src => i = j
    <3>1. queue1' = queue1 /\ twice' = twice
      BY <1>1
    <3>2. i \in 1 .. Len(queue1) /\ queue1[i].src \notin twice
      BY <2>1, <3>1
    <3>3. wait1[queue1[i].src] = queue1[i].n
          /\ \A j \in 1 .. Len(queue1) : queue1[i].src = queue1[j].src => i = j
      BY <3>2 DEF FsInv, QueueOK
    <3>4. wait1'[queue1[i].src] = wait1[queue1[i].src]
      BY <1>4, <1>5, <3>2
    <3> QED BY <3>1, <3>3, <3>4
  <2> QED BY <1>1, <2>1 DEF QueueOK
<1>7. Fs!AnswersOwn'
  BY <1>1, <1>4 DEF FsInv, Fs!AnswersOwn
<1> QED BY <1>1, <1>4, <1>6, <1>7 DEF FsInv

\* A step of a client: its calls, one by one.
LEMMA FsClientStep ==
    ASSUME Fs!BfsAssumption, FsInv, NEW c \in FsClient, Fs!ClientNext(c)
    PROVE  FsInv'
<1>0. BS \in Nat \ {0} /\ MaxBytes \in Nat
  BY DEF Fs!BfsAssumption
<1>1. ASSUME NEW m \in FsModes, Fs!file_create(c, m)
      PROVE  FsInv'
  <2>1. [op |-> "create", mode |-> m] \in Fs!Requests
    BY DEF Fs!Requests
  <2> QED BY <1>1, <2>1, FsCall DEF Fs!file_create
<1>2. ASSUME NEW f \in {1, -1}, Fs!file_sync(c, f)
      PROVE  FsInv'
  <2>1. [op |-> "sync", file |-> f] \in Fs!Requests
    BY DEF Fs!Requests
  <2> QED BY <1>2, <2>1, FsCall DEF Fs!file_sync
<1>3. ASSUME NEW f \in Fs!Requested, NEW u \in Fs!Uids, Fs!file_chown(c, f, u)
      PROVE  FsInv'
  <2>1. [op |-> "chown", file |-> f, owner |-> u] \in Fs!Requests
    BY DEF Fs!Requests
  <2> QED BY <1>3, <2>1, FsCall DEF Fs!file_chown
<1>4. ASSUME NEW f \in Fs!Requested, NEW m \in FsModes, Fs!file_chmod(c, f, m)
      PROVE  FsInv'
  <2>1. [op |-> "chmod", file |-> f, mode |-> m] \in Fs!Requests
    BY DEF Fs!Requests
  <2> QED BY <1>4, <2>1, FsCall DEF Fs!file_chmod
<1>5. ASSUME NEW f \in Fs!Requested, NEW o \in 0 .. MaxBytes, NEW n \in {0, BS},
             Fs!file_read(c, f, o, n)
      PROVE  FsInv'
  <2>1. [op |-> "read", file |-> f, offset |-> o, size |-> n] \in Fs!Requests
    BY DEF Fs!Requests
  <2> QED BY <1>5, <2>1, FsCall DEF Fs!file_read
<1>6. ASSUME NEW f \in Fs!Requested, NEW o \in 0 .. MaxBytes - 1, NEW b \in Byte, NEW n \in Lengths,
             o + n <= MaxBytes, Fs!file_write(c, f, o, b, n)
      PROVE  FsInv'
  <2> DEFINE r == [op |-> "write", file |-> f, offset |-> o, byte |-> b, size |-> n]
  <2>1. r \in [op : {"write"}, file : Fs!Requested, offset : 0 .. MaxBytes - 1, byte : Byte,
               size : Lengths] /\ r.offset + r.size <= MaxBytes
    BY <1>6
  <2> HIDE DEF r
  <2>2. r \in Fs!Requests
    BY <2>1 DEF Fs!Requests
  <2> QED BY <1>6, <2>2, FsCall DEF Fs!file_write, r
<1>7. ASSUME NEW f \in Fs!Requested, Fs!file_stat(c, f) \/ Fs!file_delete(c, f)
      PROVE  FsInv'
  <2>1. [op |-> "stat", file |-> f] \in Fs!Requests /\ [op |-> "delete", file |-> f] \in Fs!Requests
    BY DEF Fs!Requests
  <2> QED BY <1>7, <2>1, FsCall DEF Fs!file_stat, Fs!file_delete
<1>8. ASSUME NEW f \in Fs!Requested, NEW n \in Sizes, Fs!file_setsize(c, f, n)
      PROVE  FsInv'
  <2>1. [op |-> "setsize", file |-> f, size |-> n] \in Fs!Requests
    BY DEF Fs!Requests
  <2> QED BY <1>8, <2>1, FsCall DEF Fs!file_setsize
<1>9. \A f \in Fs!Requested : Fs!file_exist(c, f) => FsInv'
  BY <1>0, <1>5 DEF Fs!file_exist
<1>10. \A f \in Fs!Requested, o \in 0 .. MaxBytes - 1 : Fs!file_read(c, f, o, BS) => FsInv'
  BY <1>0, <1>5
<1> QED BY <1>1, <1>2, <1>3, <1>4, <1>6, <1>7, <1>8, <1>9, <1>10 DEF Fs!ClientNext

\* The FCBs in a saved array are those in memory, and what is loaded are FCBs.
LEMMA FsLoads ==
    ASSUME Fs!BfsAssumption, FsInv, Fs!LoadOK(ino), NEW junk \in [Fs!Files -> ScrapFcbs],
           NEW F, F = Fs!load_fcb_cache(ino, junk)
    PROVE  F \in [Fs!Files -> Fs!FCB] /\ (Saved(fcb, ino) => F = fcb)
<1>1. F = [f \in Fs!Files |-> IF Fs!Intact(ino, f) THEN ino[0][Fs!FirstBlock(f) + 1][f] ELSE junk[f]]
  BY DEF Fs!load_fcb_cache
<1>2. fcb \in [Fs!Files -> Fs!FCB] /\ 0 \in Fs!Files /\ ino[0] \in Seq(ArrayBlock)
  <2>1. 0 \in Fs!Files /\ FsOK(fcb, ino, ref)
    BY FsNew DEF FsInv
  <2> QED BY <2>1 DEF FsOK, BlockOf
<1>3. ASSUME NEW f \in Fs!Files
      PROVE  F[f] \in Fs!FCB
  <2>1. CASE Fs!Intact(ino, f)
    <3> DEFINE b == Fs!FirstBlock(f) + 1
    <3>1. Fs!FirstBlock(f) \in Nat /\ Fs!LastBlock(f) \in Nat /\ Fs!FirstBlock(f) <= Fs!LastBlock(f)
          /\ Fs!LastBlock(f) < Fs!ArrayBlocks /\ Fs!ArrayBlocks \in Nat
      BY ArrayPlace
    <3>2. Fs!FirstBlock(f) \in Fs!FirstBlock(f) .. Fs!LastBlock(f) /\ b \in 1 .. Len(ino[0])
      BY <3>1 DEF Fs!LoadOK
    <3>3. f \in DOMAIN ino[0][b] /\ ino[0][b] # Fs!Scrap
      <4>1. f \in DOMAIN ino[0][b]
        BY <2>1, <3>2 DEF Fs!Intact
      <4> QED BY <4>1 DEF Fs!Scrap
    <3>4. ino[0][b] \in ArrayBlock
      BY <1>2, <3>2, ElementOfSeq
    <3>5. PICK H \in [Fs!Files -> Fs!FCB], n \in Nat : ino[0][b] = Fs!FcbBlock(H, n)
      BY <3>3, <3>4 DEF ArrayBlock
    <3>6. F[f] = ino[0][b][f]
      BY <1>1, <2>1
    <3> HIDE DEF b
    <3>7. F[f] = H[f]
      BY <3>3, <3>5, <3>6 DEF Fs!FcbBlock
    <3> QED BY <3>7
  <2>2. CASE ~Fs!Intact(ino, f)
    <3>1. F[f] = junk[f] /\ junk[f] \in ScrapFcbs
      BY <1>1, <2>2
    <3> QED BY <3>1 DEF Fs!BfsAssumption
  <2> QED BY <2>1, <2>2
<1>4. F \in [Fs!Files -> Fs!FCB]
  BY <1>1, <1>3
<1>5. ASSUME Saved(fcb, ino), NEW f \in Fs!Files
      PROVE  F[f] = fcb[f]
  <2>1. Fs!FirstBlock(f) \in Nat /\ Fs!LastBlock(f) \in Nat /\ Fs!FirstBlock(f) <= Fs!LastBlock(f)
        /\ Fs!LastBlock(f) < Fs!ArrayBlocks /\ Fs!ArrayBlocks \in Nat
    BY ArrayPlace
  <2>2. ASSUME NEW b \in Fs!FirstBlock(f) .. Fs!LastBlock(f)
        PROVE  f \in DOMAIN ino[0][b + 1] /\ ino[0][b + 1][f] = fcb[f]
    <3>1. b \in 0 .. Fs!ArrayBlocks - 1 /\ Fs!FirstBlock(f) <= b /\ b <= Fs!LastBlock(f) /\ b \in Nat
      BY <2>1
    <3>2. ino[0][b + 1] = Fs!FcbBlock(fcb, b)
      BY <1>5, <3>1 DEF Saved
    <3>3. f \in DOMAIN Fs!FcbBlock(fcb, b) /\ Fs!FcbBlock(fcb, b)[f] = fcb[f]
      BY <3>1 DEF Fs!FcbBlock
    <3> QED BY <3>2, <3>3
  <2>3. Fs!FirstBlock(f) \in Fs!FirstBlock(f) .. Fs!LastBlock(f)
    BY <2>1
  <2>4. Fs!Intact(ino, f)
    BY <2>2, <2>3 DEF Fs!Intact
  <2> QED BY <1>1, <2>2, <2>3, <2>4
<1> QED BY <1>1, <1>2, <1>4, <1>5

\* Every byte written is where a read looks for it.
LEMMA FsReads ==
    ASSUME Fs!BfsAssumption, FsInv, NEW f \in Fs!Files, f # 0, ref[f] # Fs!Unset,
           NEW o \in DOMAIN ref[f]
    PROVE  Fs!blkfile_do_read([file |-> f, offset |-> o, size |-> 1], 0).reps
              = << Fs!Data(<<ref[f][o]>>) >>
<1> DEFINE r == [file |-> f, offset |-> o, size |-> 1]
           left == fcb[f].size - o
           n == IF left > 1 THEN 1 ELSE left
           start == o \div BS
           end == (o + n - 1) \div BS
           rd == Fs!multiblock_read(f, start, end - start + 1)
           d == [x \in 1 .. n |-> LET p == o + x - 1
                  IN IF f = 0 THEN Fs!Scrap ELSE ino[f][p \div BS + 1][p % BS]]
<1>1. fcb[f].size \in Nat /\ fcb[f].alloc \in BOOLEAN /\ ino[f] \in Seq(FsBlock)
      /\ FileOK(fcb[f], ino[f], ref[f])
  BY FsFields DEF FsInv
<1>2. fcb[f].alloc /\ o \in 0 .. fcb[f].size - 1 /\ o \div BS < Len(ino[f])
      /\ ino[f][o \div BS + 1][o % BS] = ref[f][o]
  BY <1>1 DEF FileOK
<1>3. o \in Nat /\ o < fcb[f].size /\ BS \in Nat \ {0}
  BY <1>1, <1>2 DEF Fs!BfsAssumption
<1>4. n = 1
  BY <1>1, <1>3
<1>5. start \in Nat /\ end = start
  <2>1. o + 1 - 1 = o
    BY <1>3
  <2> QED BY <1>3, <1>4, <2>1, DivMod
<1>6. rd.blocks = start .. end
  <2> HIDE DEF start, end
  <2>1. rd.blocks = {b \in start .. start + (end - start + 1) - 1 : b < Len(ino[f])}
    BY DEF Fs!multiblock_read
  <2>2. start .. start + (end - start + 1) - 1 = {start} /\ start .. end = {start}
    BY <1>5
  <2>3. start < Len(ino[f])
    BY <1>2 DEF start
  <2> HIDE DEF rd
  <2> QED BY <2>1, <2>2, <2>3
<1>7. Fs!blkfile_do_read(r, 0).reps = << Fs!Data(d) >>
  <2>1. r.file = f /\ r.offset = o /\ r.size = 1
    OBVIOUS
  <2>2. Fs!Known(f) /\ Fs!blkfile_read_allowed(fcb[f], 0)
    BY <1>2 DEF Fs!Known, Fs!blkfile_read_allowed, Fs!Allowed
  <2>3. ~(o >= fcb[f].size)
    BY <1>1, <1>3
  <2>4. Fs!blkfile_do_read(r, 0) = Fs!Answer(fcb, ino, <<Fs!Data(d)>>, ref)
    <3> HIDE DEF r
    <3> QED BY <2>1, <2>2, <2>3, <1>6 DEF Fs!blkfile_do_read
  <2> HIDE DEF d, r
  <2> QED BY <2>4 DEF Fs!Answer
<1>8. d = <<ref[f][o]>>
  <2>1. \A x \in 1 .. 1 : o + x - 1 = o
    BY <1>3
  <2> HIDE DEF n
  <2> QED BY <1>2, <1>4, <2>1
<1> QED BY <1>7, <1>8


\* A restart finds the files whose FCBs it loads, or has none after a new array.
LEMMA FsRestart ==
    ASSUME Fs!BfsAssumption, FsInv, Fs!Restart
    PROVE  FsInv'
<1>0. FsOK(fcb, ino, ref)
  BY DEF FsInv
<1>1. /\ queue1' = <<>> /\ second' = <<>> /\ twice' = {} /\ raw' = raw /\ ncalls1' = ncalls1
      /\ wait1' = [c \in FsClient |-> None] /\ res1' = [c \in FsClient |-> None]
      /\ ref' = [f \in Fs!Files |-> IF fcb'[f] = fcb[f] THEN ref[f] ELSE Fs!Unset]
  BY DEF Fs!Restart, Fs!Boot
<1>2. /\ fcb' \in [Fs!Files -> Fs!FCB] /\ DOMAIN ino' = Fs!Files /\ ino'[0] \in Seq(ArrayBlock)
      /\ \A e \in Fs!Files : e # 0 => ino'[e] = ino[e]
      /\ fails' \in Nat /\ (fails' = 0 /\ ~raw' => Saved(fcb', ino'))
  <2>0. /\ 0 \in Fs!Files /\ DOMAIN ino = Fs!Files /\ ino[0] \in Seq(ArrayBlock) /\ fails \in Nat
        /\ Fs!NewFcbs \in [Fs!Files -> Fs!FCB]
    <3>1. 0 \in Fs!Files /\ Fs!NewFcbs \in [Fs!Files -> Fs!FCB] /\ fails \in Nat
      BY FsNew DEF FsInv
    <3> QED BY <1>0, <3>1 DEF FsOK, BlockOf
  <2>1. CASE Fs!LoadOK(ino)
    <3>1. PICK junk \in [Fs!Files -> ScrapFcbs] : Fs!Boot(Fs!load_fcb_cache(ino, junk), ino)
      BY <2>1 DEF Fs!Restart
    <3>2. fcb' = Fs!load_fcb_cache(ino, junk) /\ ino' = ino /\ fails' = fails
      BY <2>1, <3>1 DEF Fs!Boot, Fs!Restart
    <3>3. fcb' \in [Fs!Files -> Fs!FCB] /\ (Saved(fcb, ino) => fcb' = fcb)
      BY <2>1, <3>2, FsLoads
    <3>4. fails = 0 /\ ~raw => Saved(fcb, ino)
      BY DEF FsInv
    <3> QED BY <1>1, <2>0, <3>2, <3>3, <3>4
  <2>2. CASE ~Fs!LoadOK(ino)
    <3>1. PICK g \in Fs!Grants :
             LET I == Fs!flush_stat_cache_all(Fs!NewFcbs, ino, g.fcbs)
             IN Fs!Grant(I, Fs!flush_stat_cache_all(Fs!NewFcbs, ino, Fs!All)) /\ Fs!Boot(Fs!NewFcbs, I)
      BY <2>2 DEF Fs!Restart
    <3> DEFINE k == g.fcbs
               F == Fs!NewFcbs
               J == Fs!flush_stat_cache_all(F, ino, Fs!All)
    <3>2. k \in Int /\ k >= -1 /\ Fs!All \in Int /\ Fs!All >= -1
      BY GrantOK DEF Fs!All
    <3>3. fcb' = F /\ ino' = Fs!flush_stat_cache_all(F, ino, k) /\ Fs!Grant(ino', J)
      BY <3>1 DEF Fs!Boot
    <3>4. fails' \in Nat /\ (fails' = 0 => ino' = J)
      BY <2>0, <3>3 DEF Fs!Grant
    <3>5. F \in [Fs!Files -> Fs!FCB] /\ J = Fs!flush_stat_cache_all(F, ino, Fs!All)
      BY <2>0
    <3> HIDE DEF k, F, J
    <3>6. DOMAIN ino' = Fs!Files /\ ino'[0] \in Seq(ArrayBlock)
          /\ \A e \in Fs!Files : e # 0 => ino'[e] = ino[e]
      BY <2>0, <3>2, <3>3, <3>5, FsInstall
    <3>7. Saved(F, J)
      BY <2>0, <3>2, <3>5, FsInstall
    <3> QED BY <3>3, <3>4, <3>5, <3>6, <3>7
  <2> QED BY <2>1, <2>2
<1>3. ASSUME NEW f \in Fs!Files, f # 0
      PROVE  ino'[f] \in Seq(FsBlock) /\ FileOK(fcb'[f], ino'[f], ref'[f])
  <2>1. ino[f] \in Seq(FsBlock) /\ FileOK(fcb[f], ino[f], ref[f]) /\ ino'[f] = ino[f]
    BY <1>0, <1>2, <1>3 DEF FsOK, BlockOf
  <2>2. CASE fcb'[f] = fcb[f]
    <3>1. ref'[f] = ref[f]
      BY <1>1, <2>2
    <3> QED BY <2>1, <2>2, <3>1
  <2>3. CASE fcb'[f] # fcb[f]
    <3>1. ref'[f] = Fs!Unset
      BY <1>1, <2>3
    <3> QED BY <2>1, <3>1 DEF FileOK
  <2> QED BY <2>2, <2>3
<1>4. FsOK(fcb', ino', ref')
  <2>1. DOMAIN ref' = Fs!Files
    BY <1>1
  <2>2. \A f \in Fs!Files : ino'[f] \in Seq(BlockOf(f))
    BY <1>2, <1>3 DEF BlockOf
  <2>3. \A f \in Fs!Files : f # 0 => FileOK(fcb'[f], ino'[f], ref'[f])
    BY <1>3
  <2>4. fcb' \in [Fs!Files -> Fs!FCB] /\ DOMAIN ino' = Fs!Files
    BY <1>2
  <2> QED BY <2>1, <2>2, <2>3, <2>4 DEF FsOK
<1>5. QueueOK' /\ Fs!AnswersOwn'
  BY <1>1 DEF QueueOK, Fs!AnswersOwn
<1>6. queue1' \in Seq(Fs!Messages) /\ wait1' \in [FsClient -> {None} \cup 0 .. FsCalls]
      /\ DOMAIN res1' = FsClient /\ ncalls1' \in 0 .. FsCalls
  BY <1>1 DEF FsInv
<1> QED BY <1>2, <1>4, <1>5, <1>6 DEF FsInv

\* Every step keeps FsInv.
LEMMA FsStep ==
    ASSUME Fs!BfsAssumption, FsInv, [Fs!Next]_(Fs!vars)
    PROVE  FsInv'
<1>1. ASSUME NEW c \in FsClient, Fs!ClientNext(c)
      PROVE  FsInv'
  BY <1>1, FsClientStep
<1>2. CASE UNCHANGED Fs!vars
  BY <1>2 DEF Fs!vars, FsInv, QueueOK, Fs!AnswersOwn
<1> QED BY <1>1, <1>2, FsServe, FsSecond, FsRestart DEF Fs!Next

\* The invariant has the properties of BfsRight in it.
LEMMA FsRight ==
    ASSUME Fs!BfsAssumption, FsInv
    PROVE  BfsRight
<1>0. FsOK(fcb, ino, ref)
  BY DEF FsInv
<1>1. Fs!KeepsWrites
  BY FsReads DEF Fs!KeepsWrites
<1>2. Fs!FcbsSaved
  <2> SUFFICES ASSUME fails = 0, ~raw
               PROVE  /\ Len(ino[0]) >= Fs!ArrayBlocks
                      /\ \A f \in Fs!Files : \A b \in Fs!FirstBlock(f) .. Fs!LastBlock(f) :
                             ino[0][b + 1][f] = fcb[f]
    BY DEF Fs!FcbsSaved
  <2>1. Saved(fcb, ino)
    BY DEF FsInv
  <2>2. ASSUME NEW f \in Fs!Files, NEW b \in Fs!FirstBlock(f) .. Fs!LastBlock(f)
        PROVE  ino[0][b + 1][f] = fcb[f]
    <3>1. Fs!FirstBlock(f) \in Nat /\ Fs!LastBlock(f) \in Nat
          /\ Fs!LastBlock(f) < Fs!ArrayBlocks /\ Fs!ArrayBlocks \in Nat
      BY ArrayPlace
    <3>2. b \in 0 .. Fs!ArrayBlocks - 1 /\ Fs!FirstBlock(f) <= b /\ b <= Fs!LastBlock(f)
      BY <3>1
    <3>3. ino[0][b + 1] = Fs!FcbBlock(fcb, b)
      BY <2>1, <3>2 DEF Saved
    <3>4. Fs!FcbBlock(fcb, b)[f] = fcb[f]
      BY <3>2 DEF Fs!FcbBlock
    <3> QED BY <3>3, <3>4
  <2> QED BY <2>1, <2>2 DEF Saved
<1>3. Fs!TypeOK
  <2>1. ASSUME NEW f \in Fs!Files, f # 0
        PROVE  /\ \A b \in DOMAIN ino[f] : ino[f][b] \in FsBlock
               /\ ref[f] # Fs!Unset => DOMAIN ref[f] \subseteq 0 .. fcb[f].size - 1
    <3>1. ino[f] \in Seq(FsBlock) /\ FileOK(fcb[f], ino[f], ref[f])
      BY <1>0, <2>1, FsFields
    <3>2. \A b \in DOMAIN ino[f] : ino[f][b] \in FsBlock
      BY <3>1
    <3> QED BY <3>1, <3>2 DEF FileOK
  <2>2. \A i \in DOMAIN queue1 : queue1[i] \in Fs!Messages
    BY DEF FsInv
  <2>3. fcb \in [Fs!Files -> Fs!FCB]
    BY <1>0 DEF FsOK
  <2>4. \A c \in FsClient : wait1[c] \in {None} \cup 0 .. FsCalls
    BY DEF FsInv
  <2> QED BY <2>1, <2>2, <2>3, <2>4 DEF Fs!TypeOK, FsBlock
<1> QED BY <1>1, <1>2, <1>3 DEF BfsRight, FsInv

\* bfs.c, for any files, block and FCB sizes, requests and clients, with restarts and
\* refused block writes: a read finds the bytes that were written with an OK, the
\* array in inode 0 has every FCB as long as its writes are granted, and no client
\* takes the answer to another call for its own before one of its calls is answered
\* twice (blkfile_put, flush_fcb_cache, blkfile_proc).
THEOREM FilesStayRight ==
    ASSUME Fs!BfsAssumption
    PROVE  Fs!Spec => []BfsRight
<1>1. Fs!Init => FsInv
  BY FsInit
<1>2. FsInv /\ [Fs!Next]_(Fs!vars) => FsInv'
  BY FsStep
<1>3. FsInv => BfsRight
  BY FsRight
<1> QED BY <1>1, <1>2, <1>3, PTL DEF Fs!Spec

-------------------------------------------------------------------------------
(* The directory server: types and names. *)

Blank      == [name |-> None, fid |-> 0]
DirEntry   == {Blank} \cup [name : Dir!Component \cup {Self, Parent}, fid : Dir!Fid]
DirFile    == [alloc : BOOLEAN, uid : Nat, mode : SUBSET Dir!Perms, stale : BOOLEAN,
               dir : Seq(DirEntry)]
CallSteps  == {"lookup", "create", "fill", "insert", "truncate", "delete", "unlink"}
CallOps    == {"w", "a", "mkdir", "remove"}
DirCall    == [op : CallOps, pc : CallSteps,
               path : Seq(Dir!Component), dir : Dir!Fid, fid : 0 .. NFiles]

\* A library call under way.  Only a call that creates comes to an insertion.
CallOK(k) ==
    /\ k \in DirCall /\ k.path # <<>> /\ (k.pc \notin {"lookup", "create"} => k.fid # 0)
    /\ k.pc \in {"create", "fill", "insert"} => k.op # "remove"
    /\ k.op # "remove" => k.path[Len(k.path)] \notin {Self, Parent}

UniqueNames(s) ==
    \A i, j \in 1 .. Len(s) : (i # j /\ s[i] # Blank) => s[i].name # s[j].name

\* The names "..dir" and "...dir" are only in the first two entries, which
\* dir_create2 writes without a look at the others.
Plain(s)  == \A i \in 1 .. Len(s) : i > 2 => s[i].name \notin {Self, Parent}
Orders(s) == s \in Seq(DirEntry) /\ UniqueNames(s) /\ Plain(s)

\* The entry that is free.
LEMMA SameNames == Dir!FreeEntry = Blank
  BY DEF Dir!FreeEntry, Dir!Entry, Blank

\* First picks a member of a set of numbers.
LEMMA FirstIn ==
    ASSUME NEW S \in SUBSET Nat, S # {}
    PROVE  Dir!First(S) \in S
<1>1. \E x \in S : \A y \in S : x <= y
  BY LeastNat
<1> QED BY <1>1 DEF Dir!First

\* t is the directory s with the entry e added, and with entry k made blank.
Inserted(s, e, t) ==
    /\ t \in Seq(DirEntry) /\ Len(s) <= Len(t) /\ Len(t) <= Len(s) + 1
    /\ \E k \in 1 .. Len(t) :
          /\ t[k] = e /\ (k \in 1 .. Len(s) => s[k] = Blank)
          /\ \A i \in 1 .. Len(t) : i # k => i \in 1 .. Len(s) /\ t[i] = s[i]
          /\ \A i \in 1 .. Len(s) : i # k => t[i] = s[i]

Cleared(s, k, t) ==
    /\ t \in Seq(DirEntry) /\ Len(t) = Len(s) /\ k \in 1 .. Len(s) /\ t[k] = Blank
    /\ \A i \in 1 .. Len(s) : i # k => t[i] = s[i]

\* The two ways dir_do_insert adds an entry.
LEMMA InsertsOne ==
    ASSUME NEW s \in Seq(DirEntry), NEW e \in DirEntry
    PROVE  /\ Inserted(s, e, Append(s, e))
           /\ \A k \in 1 .. Len(s) : s[k] = Blank => Inserted(s, e, [s EXCEPT ![k] = e])
<1>1. Inserted(s, e, Append(s, e))
  <2> DEFINE t == Append(s, e)
  <2>1. t \in Seq(DirEntry) /\ Len(t) = Len(s) + 1 /\ t[Len(s) + 1] = e /\ Len(s) \in Nat
        /\ \A i \in 1 .. Len(s) : t[i] = s[i]
    OBVIOUS
  <2> HIDE DEF t
  <2>2. Len(s) + 1 \in 1 .. Len(t) /\ Len(s) + 1 \notin 1 .. Len(s)
    BY <2>1
  <2>3. \A i \in 1 .. Len(t) : i # Len(s) + 1 => i \in 1 .. Len(s)
    BY <2>1
  <2>4. Inserted(s, e, t)
    BY <2>1, <2>2, <2>3 DEF Inserted
  <2> QED BY <2>4 DEF t
<1>2. ASSUME NEW k \in 1 .. Len(s), s[k] = Blank
      PROVE  Inserted(s, e, [s EXCEPT ![k] = e])
  <2> DEFINE t == [s EXCEPT ![k] = e]
  <2>1. t \in Seq(DirEntry) /\ Len(t) = Len(s) /\ t[k] = e /\ Len(s) \in Nat
        /\ \A i \in 1 .. Len(s) : i # k => t[i] = s[i]
    OBVIOUS
  <2> HIDE DEF t
  <2>2. Inserted(s, e, t)
    BY <2>1, <1>2 DEF Inserted
  <2> QED BY <2>2 DEF t
<1> QED BY <1>1, <1>2

\* The way dir_do_remove takes an entry out.
LEMMA ClearsOne ==
    ASSUME NEW s \in Seq(DirEntry), NEW k \in 1 .. Len(s)
    PROVE  Cleared(s, k, [s EXCEPT ![k] = Blank])
<1> DEFINE t == [s EXCEPT ![k] = Blank]
<1>0. Blank \in DirEntry
  BY DEF DirEntry
<1>1. t \in Seq(DirEntry) /\ Len(t) = Len(s) /\ t[k] = Blank
      /\ \A i \in 1 .. Len(s) : i # k => t[i] = s[i]
  BY <1>0
<1> HIDE DEF t
<1>2. Cleared(s, k, t)
  BY <1>1 DEF Cleared
<1> QED BY <1>2 DEF t

\* An entry is blank or has a name and a number.
LEMMA EntryForm ==
    ASSUME Dir!DirSvrAssumption, NEW e \in DirEntry
    PROVE  /\ e # Blank => /\ e.name \in Dir!Component \cup {Self, Parent} /\ e.name # None
                           /\ e.fid \in Dir!Fid /\ e = [name |-> e.name, fid |-> e.fid]
           /\ e = Blank => e.name = None /\ e.fid = 0
<1>1. None \notin Dir!Component /\ None # Self /\ None # Parent
  BY DEF Dir!DirSvrAssumption
<1>2. CASE e = Blank
  BY <1>1, <1>2 DEF Blank
<1>3. CASE e # Blank
  <2>1. e \in [name : Dir!Component \cup {Self, Parent}, fid : Dir!Fid]
    BY <1>3 DEF DirEntry
  <2> QED BY <1>1, <1>3, <2>1
<1> QED BY <1>2, <1>3

\* A name that is not there yet may be inserted, and a blank repeats none.
LEMMA StillUnique ==
    ASSUME Dir!DirSvrAssumption, NEW s \in Seq(DirEntry), UniqueNames(s), NEW t
    PROVE  /\ \A k : Cleared(s, k, t) => UniqueNames(t)
           /\ \A e : (/\ Inserted(s, e, t) /\ e.name # None
                      /\ \A i \in 1 .. Len(s) : s[i].name # e.name) => UniqueNames(t)
<1>1. ASSUME NEW k, Cleared(s, k, t)
      PROVE  UniqueNames(t)
  <2> SUFFICES ASSUME NEW i \in 1 .. Len(t), NEW j \in 1 .. Len(t), i # j, t[i] # Blank
               PROVE  t[i].name # t[j].name
    BY DEF UniqueNames
  <2>1. i \in 1 .. Len(s) /\ j \in 1 .. Len(s) /\ i # k /\ t[i] = s[i]
    BY <1>1 DEF Cleared
  <2>2. CASE j = k
    <3>1. t[j].name = None
      BY <1>1, <2>2 DEF Cleared, Blank
    <3>2. s[i] \in DirEntry /\ s[i] # Blank
      BY <2>1
    <3>3. s[i].name # None
      BY <3>2, EntryForm
    <3> QED BY <2>1, <3>1, <3>3
  <2>3. CASE j # k
    BY <1>1, <2>1, <2>3 DEF Cleared, UniqueNames
  <2> QED BY <2>2, <2>3
<1>2. ASSUME NEW e, Inserted(s, e, t), e.name # None, \A i \in 1 .. Len(s) : s[i].name # e.name
      PROVE  UniqueNames(t)
  <2> SUFFICES ASSUME NEW i \in 1 .. Len(t), NEW j \in 1 .. Len(t), i # j, t[i] # Blank
               PROVE  t[i].name # t[j].name
    BY DEF UniqueNames
  <2>1. PICK k \in 1 .. Len(t) : t[k] = e
          /\ \A l \in 1 .. Len(t) : l # k => l \in 1 .. Len(s) /\ t[l] = s[l]
    BY <1>2 DEF Inserted
  <2>2. CASE i = k
    BY <1>2, <2>1, <2>2
  <2>3. CASE i # k /\ j = k
    BY <1>2, <2>1, <2>3
  <2>4. CASE i # k /\ j # k
    BY <2>1, <2>4 DEF UniqueNames
  <2> QED BY <2>2, <2>3, <2>4
<1> QED BY <1>1, <1>2

\* Insertion, removal and dir_create2's own write keep a directory in order.
LEMMA StillPlain ==
    ASSUME Dir!DirSvrAssumption, NEW s, Orders(s), NEW t
    PROVE  /\ \A k : Cleared(s, k, t) => Plain(t)
           /\ \A e : (Inserted(s, e, t) /\ e.name \notin {Self, Parent}) => Plain(t)
<1>1. ASSUME NEW k, Cleared(s, k, t)
      PROVE  Plain(t)
  <2> SUFFICES ASSUME NEW i \in 1 .. Len(t), i > 2
               PROVE  t[i].name \notin {Self, Parent}
    BY DEF Plain
  <2>1. i \in 1 .. Len(s)
    BY <1>1 DEF Cleared
  <2>2. CASE i = k
    <3>1. t[i].name = None
      BY <1>1, <2>2 DEF Cleared, Blank
    <3> QED BY <3>1 DEF Dir!DirSvrAssumption
  <2>3. CASE i # k
    <3>1. t[i] = s[i]
      BY <1>1, <2>1, <2>3 DEF Cleared
    <3> QED BY <3>1, <2>1 DEF Orders, Plain
  <2> QED BY <2>2, <2>3
<1>2. ASSUME NEW e, Inserted(s, e, t), e.name \notin {Self, Parent}
      PROVE  Plain(t)
  <2> SUFFICES ASSUME NEW i \in 1 .. Len(t), i > 2
               PROVE  t[i].name \notin {Self, Parent}
    BY DEF Plain
  <2>1. PICK k \in 1 .. Len(t) : t[k] = e
          /\ \A l \in 1 .. Len(t) : l # k => l \in 1 .. Len(s) /\ t[l] = s[l]
    BY <1>2 DEF Inserted
  <2>2. CASE i = k
    BY <1>2, <2>1, <2>2
  <2>3. CASE i # k
    <3>1. i \in 1 .. Len(s) /\ t[i] = s[i]
      BY <2>1, <2>3
    <3> QED BY <3>1 DEF Orders, Plain
  <2> QED BY <2>2, <2>3
<1> QED BY <1>1, <1>2

\* The entries that dir_create2 writes over the first two.
LEMMA NewDirectory ==
    ASSUME Dir!DirSvrAssumption, NEW f \in Dir!Fid, NEW d \in Dir!Fid, NEW s, Orders(s), NEW t,
           t = <<Dir!Entry(Self, f), Dir!Entry(Parent, d)>> \o SubSeq(s, 3, Len(s))
    PROVE  Orders(t)
<1> DEFINE x == Dir!Entry(Self, f)
           y == Dir!Entry(Parent, d)
           r == SubSeq(s, 3, Len(s))
<1>1. x \in DirEntry /\ y \in DirEntry /\ x.name = Self /\ y.name = Parent
  BY DEF DirEntry, Dir!Entry
<1>2. Self # Parent /\ None # Self /\ None # Parent
  BY DEF Dir!DirSvrAssumption
<1>3. s \in Seq(DirEntry) /\ Len(s) \in Nat
  BY DEF Orders
<1>4. /\ r \in Seq(DirEntry) /\ Len(r) \in Nat /\ Len(r) = (IF 3 <= Len(s) THEN Len(s) - 2 ELSE 0)
      /\ \A i \in 1 .. Len(r) : r[i] = s[i + 2]
  <2>1. r \in Seq(DirEntry) /\ Len(r) = (IF 3 <= Len(s) THEN Len(s) - 3 + 1 ELSE 0)
        /\ \A i \in 1 .. Len(r) : r[i] = s[3 + i - 1]
    <3>1. \A i \in 3 .. Len(s) : s[i] \in DirEntry
      BY <1>3
    <3> QED BY <1>3, <3>1, SubSeqProperties
  <2> QED BY <2>1, <1>3
<1> HIDE DEF x, y, r
<1>5. <<x, y>> \in Seq(DirEntry) /\ Len(<<x, y>>) = 2 /\ <<x, y>>[1] = x /\ <<x, y>>[2] = y
  BY <1>1
<1>6. t = <<x, y>> \o r
  BY DEF x, y, r
<1> DEFINE q == <<x, y>>
<1>7. q \in Seq(DirEntry) /\ Len(q) = 2 /\ q[1] = x /\ q[2] = y /\ t = q \o r
  BY <1>5, <1>6
<1> HIDE DEF q
<1>8. /\ t \in Seq(DirEntry) /\ Len(t) = 2 + Len(r)
      /\ \A i \in 1 .. Len(t) : t[i] = IF i <= 2 THEN q[i] ELSE r[i - 2]
  <2>1. /\ q \o r \in Seq(DirEntry) /\ Len(q \o r) = Len(q) + Len(r)
        /\ \A i \in 1 .. Len(q) + Len(r) :
              (q \o r)[i] = IF i <= Len(q) THEN q[i] ELSE r[i - Len(q)]
    BY <1>4, <1>7, ConcatProperties
  <2> QED BY <2>1, <1>7
<1>9. ASSUME NEW i \in 1 .. Len(t)
      PROVE  \/ i = 1 /\ t[i] = x
             \/ i = 2 /\ t[i] = y
             \/ i > 2 /\ i \in 1 .. Len(s) /\ t[i] = s[i] /\ t[i].name \notin {Self, Parent}
  <2>1. CASE i <= 2
    <3>1. i = 1 \/ i = 2
      BY <2>1, <1>8
    <3> QED BY <2>1, <3>1, <1>7, <1>8
  <2>2. CASE i > 2
    <3>1. i - 2 \in 1 .. Len(r) /\ i \in 1 .. Len(s) /\ (i - 2) + 2 = i
      BY <2>2, <1>4, <1>8, <1>3
    <3>2. t[i] = r[i - 2] /\ r[i - 2] = s[(i - 2) + 2]
      BY <2>2, <3>1, <1>4, <1>8
    <3>3. t[i] = s[i]
      BY <3>1, <3>2
    <3> QED BY <2>2, <3>1, <3>3 DEF Orders, Plain
  <2>3. i \in Nat
    BY <1>8, <1>4
  <2> QED BY <2>1, <2>2, <2>3
<1>10. UniqueNames(t)
  <2> SUFFICES ASSUME NEW i \in 1 .. Len(t), NEW j \in 1 .. Len(t), i # j, t[i] # Blank
               PROVE  t[i].name # t[j].name
    BY DEF UniqueNames
  <2>1. CASE i > 2 /\ j > 2
    <3>1. i \in 1 .. Len(s) /\ t[i] = s[i] /\ j \in 1 .. Len(s) /\ t[j] = s[j]
      BY <2>1, <1>9
    <3> QED BY <3>1 DEF Orders, UniqueNames
  <2>2. CASE ~(i > 2 /\ j > 2)
    BY <2>2, <1>9, <1>1, <1>2
  <2> QED BY <2>1, <2>2
<1>11. Plain(t)
  <2>1. ASSUME NEW i \in 1 .. Len(t), i > 2
        PROVE  t[i].name \notin {Self, Parent}
    BY <2>1, <1>9
  <2> QED BY <2>1 DEF Plain
<1> QED BY <1>8, <1>10, <1>11 DEF Orders

-------------------------------------------------------------------------------
(* Any clients of the directory server. *)

FilesOK == /\ file \in [Dir!Fid -> DirFile]
           /\ \A f \in Dir!Fid : Orders(file[f].dir) /\ (file[f].stale => file[f].dir = <<>>)
CallsOK == /\ DOMAIN call = DirClient
           /\ \A c \in DirClient : call[c] = Dir!Idle \/ CallOK(call[c])

DirInv == FilesOK /\ CallsOK

UserOf(c) == [x \in DirClient |-> Uid[x]][c]

\* The client c may take the entry e out of the directory d.
TakenBy(c, d, e) ==
    /\ call[c] # Dir!Idle /\ Dir!Writes(d, UserOf(c))
    /\ \/ call[c].pc = "unlink" /\ call[c].dir = d /\ e = Dir!Entry(Dir!Last(c), call[c].fid)
       \/ call[c].pc \in {"delete", "truncate", "fill"} /\ call[c].fid = d

\* The directory t has what the directory s = file[d].dir had, but for c.
Retains(c, d, s, t) ==
    \A i \in 1 .. Len(s) :
        s[i] = Blank \/ (i \in 1 .. Len(t) /\ t[i] = s[i]) \/ TakenBy(c, d, s[i])

Keeps(c) == \A d \in Dir!Fid : Retains(c, d, file[d].dir, file'[d].dir)

\* A step that changes one file, and one that changes none.
LEMMA DirSet ==
    ASSUME FilesOK, NEW c, NEW f \in Dir!Fid, NEW b \in DirFile, Orders(b.dir), b.stale => b.dir = <<>>,
           file' = [file EXCEPT ![f] = b], Retains(c, f, file[f].dir, b.dir)
    PROVE  FilesOK' /\ Keeps(c)
<1>1. file' \in [Dir!Fid -> DirFile] /\ file'[f] = b
      /\ \A g \in Dir!Fid : g # f => file'[g] = file[g]
  BY DEF FilesOK
<1>2. FilesOK'
  BY <1>1 DEF FilesOK
<1>3. ASSUME NEW d \in Dir!Fid
      PROVE  Retains(c, d, file[d].dir, file'[d].dir)
  <2>1. CASE d = f
    BY <2>1, <1>1
  <2>2. CASE d # f
    BY <2>2, <1>1 DEF Retains
  <2> QED BY <2>1, <2>2
<1> QED BY <1>2, <1>3 DEF Keeps

\* The step changes no file.
LEMMA DirSame ==
    ASSUME FilesOK, NEW c, UNCHANGED file
    PROVE  FilesOK' /\ Keeps(c)
  BY DEF FilesOK, Keeps, Retains

\* A step that changes one call.
LEMMA DirGoes ==
    ASSUME CallsOK, NEW c \in DirClient, NEW k, k = Dir!Idle \/ CallOK(k),
           call' = [call EXCEPT ![c] = k]
    PROVE  CallsOK'
  BY DEF CallsOK

\* The fields of a call.
LEMMA CallForm ==
    ASSUME NEW k, CallOK(k)
    PROVE  /\ k.path \in Seq(Dir!Component) /\ Len(k.path) \in Nat /\ Len(k.path) >= 1
           /\ Head(k.path) = k.path[1] /\ k.dir \in Dir!Fid /\ k.fid \in 0 .. NFiles
           /\ \A i \in 1 .. Len(k.path) : k.path[i] \in Dir!Component
           /\ k.pc \in CallSteps /\ k.op \in CallOps
           /\ k.pc \notin {"lookup", "create"} => k.fid \in Dir!Fid
<1>1. k \in DirCall /\ k.path # <<>>
  BY DEF CallOK
<1>2. k.path \in Seq(Dir!Component) /\ k.dir \in Dir!Fid /\ k.fid \in 0 .. NFiles
      /\ k.pc \in CallSteps /\ k.op \in CallOps
  BY <1>1 DEF DirCall
<1>3. k.pc \notin {"lookup", "create"} => k.fid \in Dir!Fid
  BY <1>2 DEF CallOK, Dir!Fid
<1> DEFINE s == k.path
<1>4. s \in Seq(Dir!Component) /\ s # <<>>
  BY <1>1, <1>2
<1> HIDE DEF s
<1>5. Len(s) \in Nat /\ Len(s) >= 1 /\ Head(s) = s[1] /\ \A i \in 1 .. Len(s) : s[i] \in Dir!Component
  BY <1>4
<1> QED BY <1>2, <1>3, <1>5 DEF s

\* The next step of a call, and the next directory of its walk.
Stepped(k, pc, f) == [k EXCEPT !.pc = pc, !.fid = f]
Walked(k, d)      == [k EXCEPT !.dir = d, !.path = Tail(k.path)]

\* A call at its next step.
LEMMA GotoForm ==
    ASSUME NEW k, CallOK(k), NEW pc \in CallSteps,
           NEW f \in 0 .. NFiles, pc \in {"lookup", "create"} \/ f # 0,
           pc \in {"create", "fill", "insert"} => k.op # "remove", NEW h,
           h = Stepped(k, pc, f)
    PROVE  CallOK(h)
<1>1. k \in DirCall
  BY DEF CallOK
<1>2. h \in DirCall /\ h.pc = pc /\ h.fid = f /\ h.path = k.path /\ h.dir = k.dir /\ h.op = k.op
  BY <1>1 DEF DirCall, Stepped
<1> QED BY <1>2 DEF CallOK

\* A call in the next directory of its path.
LEMMA WalkForm ==
    ASSUME NEW k, CallOK(k), Len(k.path) > 1, NEW d \in Dir!Fid, NEW h,
           h = Walked(k, d)
    PROVE  CallOK(h)
<1>1. k \in DirCall /\ k.path \in Seq(Dir!Component) /\ k.path # <<>>
  BY CallForm DEF CallOK
<1> DEFINE s == k.path
           t == Tail(k.path)
<1>2. s \in Seq(Dir!Component) /\ s # <<>> /\ Len(s) > 1
  BY <1>1
<1> HIDE DEF s
<1>3. /\ Tail(s) \in Seq(Dir!Component) /\ Len(Tail(s)) = Len(s) - 1
      /\ \A i \in 1 .. Len(s) - 1 : Tail(s)[i] = s[i + 1]
  BY <1>2
<1>4. Len(s) \in Nat
  BY <1>2
<1>5. Len(s) - 1 \in 1 .. Len(s) - 1 /\ (Len(s) - 1) + 1 = Len(s) /\ Len(s) - 1 # 0
  <2>1. \A n \in Nat : n > 1 => n - 1 \in 1 .. n - 1 /\ (n - 1) + 1 = n /\ n - 1 # 0
    OBVIOUS
  <2> QED BY <2>1, <1>2, <1>4
<1>6. t \in Seq(Dir!Component) /\ Len(t) # 0 /\ t[Len(t)] = s[Len(s)]
  BY <1>3, <1>5 DEF s
<1>7. t # <<>>
  <2>1. Len(<<>>) = 0
    OBVIOUS
  <2> QED BY <2>1, <1>6
<1> HIDE DEF t
<1>8. h \in DirCall /\ h.pc = k.pc /\ h.fid = k.fid /\ h.path = t /\ h.dir = d /\ h.op = k.op
  BY <1>1, <1>6 DEF DirCall, Walked, t
<1> QED BY <1>6, <1>7, <1>8 DEF CallOK, s

\* A new call starts at the root.
LEMMA NewCall ==
    ASSUME Dir!DirSvrAssumption, NEW op \in CallOps, NEW p \in Dir!Paths, NEW k,
           op # "remove" => p \in Opened \cup Made,
           k = [op |-> op, pc |-> "lookup", path |-> p, dir |-> 1, fid |-> 0]
    PROVE  CallOK(k)
<1>1. 1 \in Dir!Fid /\ 0 \in 0 .. NFiles /\ p \in Seq(Dir!Component) /\ p # <<>>
  BY DEF Dir!DirSvrAssumption, Dir!Fid
<1>2. k \in DirCall
  BY <1>1 DEF DirCall, CallSteps
<1>3. op # "remove" => p[Len(p)] \notin {Self, Parent}
  BY DEF Dir!DirSvrAssumption
<1> QED BY <1>1, <1>2, <1>3 DEF CallOK

\* What the requests make of a directory, for any user.
LEMMA DirRequests ==
    ASSUME Dir!DirSvrAssumption, FilesOK, NEW d \in Dir!Fid, NEW n \in Dir!Component,
           NEW f \in Dir!Fid, NEW u
    PROVE  /\ Dir!dir_do_lookup(d, n, u) \in Dir!Fid \/ Dir!dir_do_lookup(d, n, u) = 0
           /\ LET t == Dir!dir_do_insert(d, n, f, u).dir
              IN n \notin {Self, Parent} =>
                   /\ Orders(t) /\ (file[d].stale => t = file[d].dir)
                   /\ \A i \in 1 .. Len(file[d].dir) :
                         file[d].dir[i] = Blank \/ (i \in 1 .. Len(t) /\ t[i] = file[d].dir[i])
           /\ LET t == Dir!dir_do_remove(d, n, f, u)
              IN /\ Orders(t) /\ (file[d].stale => t = file[d].dir)
                 /\ \A i \in 1 .. Len(file[d].dir) :
                       \/ i \in 1 .. Len(t) /\ t[i] = file[d].dir[i]
                       \/ Dir!Writes(d, u) /\ file[d].dir[i] = Dir!Entry(n, f)
<1> DEFINE s == file[d].dir
           M == Dir!Matches(d, n)
           e == [name |-> n, fid |-> f]
<1>1. s \in Seq(DirEntry) /\ UniqueNames(s) /\ Orders(s) /\ n # None
  BY DEF FilesOK, Orders, Dir!DirSvrAssumption
<1>2. DOMAIN s = 1 .. Len(s) /\ Len(s) \in Nat
  BY <1>1
<1>3. \A i \in 1 .. Len(s) : s[i] \in DirEntry
  BY <1>1
<1>4. M \in SUBSET (1 .. Len(s)) /\ (\A i \in M : s[i].name = n) /\ M \in SUBSET Nat
      /\ (\A i \in 1 .. Len(s) : i \notin M => s[i].name # n)
  BY <1>2 DEF Dir!Matches
<1>5. Dir!Free(d) \in SUBSET (1 .. Len(s)) /\ (\A i \in Dir!Free(d) : s[i] = Blank)
      /\ Dir!Free(d) \in SUBSET Nat
  BY <1>2, SameNames DEF Dir!Free
<1>6. e \in DirEntry /\ e.name = n /\ e.fid = f /\ Dir!Entry(n, f) = e
  BY DEF DirEntry, Dir!Entry
<1> HIDE DEF s, M, e
<1>7. Dir!dir_do_lookup(d, n, u) \in Dir!Fid \/ Dir!dir_do_lookup(d, n, u) = 0
  <2>1. ASSUME M # {}
        PROVE  s[Dir!First(M)].fid \in Dir!Fid
    <3>1. Dir!First(M) \in M
      BY <1>4, <2>1, FirstIn
    <3>2. s[Dir!First(M)] \in DirEntry /\ s[Dir!First(M)].name = n
      BY <1>3, <1>4, <3>1
    <3> QED BY <1>1, <3>2, EntryForm
  <2> QED BY <2>1 DEF Dir!dir_do_lookup, s, M
<1>8. ASSUME NEW z, z = Dir!dir_do_insert(d, n, f, u).dir, n \notin {Self, Parent}
      PROVE  /\ Orders(z) /\ (file[d].stale => z = s)
             /\ \A i \in 1 .. Len(s) : s[i] = Blank \/ (i \in 1 .. Len(z) /\ z[i] = s[i])
  <2> DEFINE t == IF Dir!Free(d) = {} THEN Append(s, e) ELSE [s EXCEPT ![Dir!First(Dir!Free(d))] = e]
             no == ~Dir!Writes(d, u) \/ ~Dir!Readable(d) \/ M # {}
  <2>1. z = IF no THEN s ELSE t
    BY <1>6, <1>8 DEF Dir!dir_do_insert, s, M
  <2>2. Inserted(s, e, t)
    <3>1. CASE Dir!Free(d) = {}
      BY <3>1, <1>1, <1>6, InsertsOne
    <3>2. CASE Dir!Free(d) # {}
      <4>1. Dir!First(Dir!Free(d)) \in Dir!Free(d)
        BY <3>2, <1>5, FirstIn
      <4> QED BY <3>2, <4>1, <1>1, <1>5, <1>6, InsertsOne
    <3> QED BY <3>1, <3>2
  <2>3. ASSUME ~no PROVE \A i \in 1 .. Len(s) : s[i].name # e.name
    BY <2>3, <1>4, <1>6
  <2>4. ~no => UniqueNames(t)
    BY <2>2, <2>3, <1>1, <1>6, StillUnique
  <2>5. t \in Seq(DirEntry) /\ Plain(t)
    BY <2>2, <1>1, <1>6, <1>8, StillPlain DEF Inserted
  <2>6. file[d].stale => no
    BY DEF Dir!Readable
  <2>7. \A i \in 1 .. Len(s) : s[i] = Blank \/ (i \in 1 .. Len(t) /\ t[i] = s[i])
    <3>1. PICK k \in 1 .. Len(t) :
              /\ k \in 1 .. Len(s) => s[k] = Blank
              /\ \A i \in 1 .. Len(s) : i # k => t[i] = s[i]
      BY <2>2 DEF Inserted
    <3>2. Len(s) <= Len(t) /\ Len(t) \in Nat
      BY <2>2, <2>5 DEF Inserted
    <3> HIDE DEF t
    <3>3. \A i \in 1 .. Len(s) : i \in 1 .. Len(t)
      BY <3>2, <1>2
    <3> QED BY <3>1, <3>3
  <2> HIDE DEF t, no
  <2> QED BY <2>1, <2>4, <2>5, <2>6, <2>7, <1>1 DEF Orders
<1>9. ASSUME NEW z, z = Dir!dir_do_remove(d, n, f, u)
      PROVE  /\ Orders(z) /\ (file[d].stale => z = s)
             /\ \A i \in 1 .. Len(s) : \/ i \in 1 .. Len(z) /\ z[i] = s[i]
                                       \/ Dir!Writes(d, u) /\ s[i] = e
  <2> DEFINE S == {i \in M : s[i].fid = f}
             t == [s EXCEPT ![Dir!First(S)] = Blank]
             no == ~Dir!Writes(d, u) \/ ~Dir!Readable(d)
  <2>1. z = IF no \/ S = {} THEN s ELSE t
    BY <1>9, SameNames DEF Dir!dir_do_remove, s, M
  <2>2. file[d].stale => no
    BY DEF Dir!Readable
  <2>3. CASE no \/ S = {}
    BY <2>1, <2>3, <1>1
  <2>4. CASE ~no /\ S # {}
    <3> DEFINE k == Dir!First(S)
    <3>1. S \in SUBSET Nat /\ S \in SUBSET (1 .. Len(s))
      BY <1>4
    <3>2. k \in S
      BY <2>4, <3>1, FirstIn
    <3>3. k \in 1 .. Len(s) /\ s[k].name = n /\ s[k].fid = f
      BY <3>1, <3>2, <1>4
    <3>4. s[k] = e
      <4>1. s[k] \in DirEntry /\ s[k] # Blank
        BY <3>3, <1>3, <1>1 DEF Blank
      <4> QED BY <4>1, <3>3, EntryForm DEF e
    <3>5. z = [s EXCEPT ![k] = Blank] /\ Dir!Writes(d, u)
      BY <2>1, <2>4
    <3> HIDE DEF k, S
    <3>6. Cleared(s, k, z)
      BY <3>3, <3>5, <1>1, ClearsOne
    <3>7. Orders(z)
      BY <3>6, <1>1, StillUnique, StillPlain DEF Orders, Cleared
    <3>8. \A i \in 1 .. Len(s) : (i \in 1 .. Len(z) /\ z[i] = s[i]) \/ s[i] = e
      BY <3>4, <3>6 DEF Cleared
    <3> QED BY <3>5, <3>7, <3>8, <2>2, <2>4
  <2> QED BY <2>3, <2>4
<1> QED BY <1>6, <1>7, <1>8, <1>9 DEF s

\* The file b in the place of the file f, with the same owner and mode or new ones.
LEMMA FileForm ==
    ASSUME NEW b \in DirFile
    PROVE  /\ b.dir \in Seq(DirEntry) /\ b.alloc \in BOOLEAN /\ b.stale \in BOOLEAN
           /\ b.mode \in SUBSET Dir!Perms
           /\ \A t \in Seq(DirEntry) : /\ [b EXCEPT !.dir = t] \in DirFile
                                       /\ [b EXCEPT !.dir = t].dir = t
                                       /\ [b EXCEPT !.dir = t].stale = b.stale
  BY DEF DirFile

\* Every step of any client keeps the directories in order, and takes no entry
\* that it must not take.
LEMMA DirStep ==
    ASSUME Dir!DirSvrAssumption, FilesOK, CallsOK, NEW c \in DirClient, Dir!ClientNext(c)
    PROVE  FilesOK' /\ CallsOK' /\ Keeps(c)
<1> DEFINE k == call[c]
           u == UserOf(c)
<1>0. UNCHANGED file => FilesOK' /\ Keeps(c)
  BY DirSame
<1>1. Dir!Return(c) => CallsOK'
  BY DirGoes DEF Dir!Return
<1>2. ASSUME NEW pc
      PROVE  Dir!At(c, pc) => CallOK(k) /\ k.pc = pc /\ k # Dir!Idle
  BY DEF Dir!At, CallsOK
<1>3. ASSUME CallOK(k), NEW pc \in CallSteps,
             NEW f \in 0 .. NFiles, pc \in {"lookup", "create"} \/ f # 0,
             pc \in {"create", "fill", "insert"} => k.op # "remove", Dir!Goto(c, pc, f)
      PROVE  CallsOK'
  <2> DEFINE h == Stepped(k, pc, f)
  <2>2. call' = [call EXCEPT ![c] = h]
    BY <1>3 DEF Dir!Goto, Stepped
  <2>1. CallOK(h)
    BY <1>3, GotoForm
  <2> HIDE DEF h, k
  <2> QED BY <2>1, <2>2, DirGoes
<1>4. ASSUME NEW p \in Dir!Paths, NEW op \in CallOps, op # "remove" => p \in Opened \cup Made,
             Dir!Begin(c, op, p)
      PROVE  FilesOK' /\ CallsOK' /\ Keeps(c)
  <2> DEFINE h == [op |-> op, pc |-> "lookup", path |-> p, dir |-> 1, fid |-> 0]
  <2>1. CallOK(h)
    BY <1>4, NewCall
  <2>2. call' = [call EXCEPT ![c] = h] /\ UNCHANGED file
    BY <1>4 DEF Dir!Begin, Dir!Root
  <2> HIDE DEF h
  <2> QED BY <2>1, <2>2, <1>0, DirGoes
<1>5. CASE Dir!flookup(c)
  <2> DEFINE f == Dir!dir_do_lookup(k.dir, Head(k.path), u)
  <2>1. CallOK(k) /\ UNCHANGED file
    BY <1>2, <1>5 DEF Dir!flookup
  <2>2. k.dir \in Dir!Fid /\ Head(k.path) \in Dir!Component
    BY <2>1, CallForm
  <2>3. \E g : g \in Dir!Fid
    BY <2>2
  <2>4. f \in Dir!Fid \/ f = 0
    BY <2>2, <2>3, DirRequests
  <2>5. f \in 0 .. NFiles /\ 0 \in 0 .. NFiles
    BY <2>4 DEF Dir!Fid, Dir!DirSvrAssumption
  <2>6. \/ Dir!Return(c)
        \/ Len(k.path) > 1 /\ f # 0 /\ call' = [call EXCEPT ![c] = Walked(k, f)]
        \/ k.op # "remove" /\ Dir!Goto(c, "create", 0)
        \/ f # 0 /\ Dir!Goto(c, "delete", f)
        \/ f # 0 /\ Dir!Goto(c, "truncate", f)
    BY <1>5 DEF Dir!flookup, Walked, UserOf
  <2> HIDE DEF f
  <2>7. ASSUME Len(k.path) > 1, f # 0,
               call' = [call EXCEPT ![c] = Walked(k, f)]
        PROVE  CallsOK'
    <3> DEFINE h == Walked(k, f)
    <3>1. CallOK(h)
      BY <2>1, <2>4, <2>7, WalkForm
    <3> HIDE DEF h
    <3>2. call' = [call EXCEPT ![c] = h]
      BY <2>7 DEF h
    <3> QED BY <3>1, <3>2, DirGoes
  <2>8. k.op # "remove" /\ Dir!Goto(c, "create", 0) => CallsOK'
    BY <2>1, <2>5, <1>3 DEF CallSteps
  <2>9. f # 0 /\ Dir!Goto(c, "delete", f) => CallsOK'
    BY <2>1, <2>5, <1>3 DEF CallSteps
  <2>10. f # 0 /\ Dir!Goto(c, "truncate", f) => CallsOK'
    BY <2>1, <2>5, <1>3 DEF CallSteps
  <2> HIDE DEF k
  <2> QED BY <2>1, <2>6, <2>7, <2>8, <2>9, <2>10, <1>0, <1>1
<1>6. CASE Dir!file_create(c)
  <2> DEFINE f == Dir!First(Dir!FreeFids)
             b == [file[f] EXCEPT !.alloc = TRUE, !.uid = u, !.mode = Dir!Default]
             pc == IF k.op = "mkdir" THEN "fill" ELSE "insert"
  <2>1. CallOK(k) /\ k.op # "remove"
    BY <1>2, <1>6 DEF Dir!file_create, CallOK
  <2>2. CASE Dir!FreeFids = {}
    BY <1>0, <1>1, <1>6, <2>2 DEF Dir!file_create
  <2>3. CASE Dir!FreeFids # {}
    <3>1. file' = [file EXCEPT ![f] = b] /\ Dir!Goto(c, pc, f)
      BY <1>6, <2>3 DEF Dir!file_create, UserOf
    <3>2. Dir!FreeFids \in SUBSET Dir!Fid /\ Dir!FreeFids \in SUBSET Nat
      BY DEF Dir!FreeFids, Dir!Fid, Dir!DirSvrAssumption
    <3>3. f \in Dir!Fid
      BY <2>3, <3>2, FirstIn
    <3> HIDE DEF f
    <3>4. f \in 0 .. NFiles /\ f # 0
      BY <3>3 DEF Dir!Fid, Dir!DirSvrAssumption
    <3>5. u \in Nat /\ Dir!Default \in SUBSET Dir!Perms
      BY DEF Dir!DirSvrAssumption, Dir!Default, Dir!Perms, UserOf
    <3> HIDE DEF u
    <3>6. file[f] \in DirFile /\ Orders(file[f].dir) /\ (file[f].stale => file[f].dir = <<>>)
      BY <3>3 DEF FilesOK
    <3>7. b \in DirFile /\ b.dir = file[f].dir /\ b.stale = file[f].stale
      BY <3>5, <3>6 DEF DirFile
    <3> HIDE DEF b
    <3>8. Retains(c, f, file[f].dir, b.dir)
      BY <3>7 DEF Retains
    <3>9. FilesOK' /\ Keeps(c)
      BY <3>1, <3>3, <3>6, <3>7, <3>8, DirSet
    <3>10. CallsOK'
      BY <3>1, <3>4, <2>1, <1>3 DEF CallSteps
    <3> QED BY <3>9, <3>10
  <2> QED BY <2>2, <2>3
<1>7. ASSUME NEW f \in Dir!Fid, f = k.fid, k # Dir!Idle, k.pc \in {"delete", "truncate", "fill"},
             file[f].alloc, Dir!FileWriteAllowed(f, u), NEW t
      PROVE  Retains(c, f, file[f].dir, t)
  <2>1. Dir!Writes(f, u)
    BY <1>7 DEF Dir!Writes, Dir!Allowed, Dir!FileWriteAllowed
  <2> QED BY <2>1, <1>7 DEF Retains, TakenBy
<1>8. CASE Dir!dir_create2(c)
  <2> DEFINE f == k.fid
             t == <<Dir!Entry(Self, f), Dir!Entry(Parent, k.dir)>> \o SubSeq(file[f].dir, 3, Len(file[f].dir))
             b == [file[f] EXCEPT !.dir = t]
  <2>1. CallOK(k) /\ k.pc = "fill" /\ k # Dir!Idle
    BY <1>2, <1>8 DEF Dir!dir_create2
  <2>2. f \in Dir!Fid /\ k.dir \in Dir!Fid /\ f \in 0 .. NFiles /\ f # 0 /\ k.op # "remove"
    BY <2>1, CallForm DEF CallOK
  <2>3. CASE Dir!Readable(f) /\ Dir!FileWriteAllowed(f, u)
    <3>1. file' = [file EXCEPT ![f] = b] /\ Dir!Goto(c, "insert", f)
      BY <1>8, <2>3 DEF Dir!dir_create2, UserOf
    <3>2. file[f] \in DirFile /\ Orders(file[f].dir) /\ file[f].alloc /\ ~file[f].stale
      BY <2>2, <2>3 DEF FilesOK, Dir!Readable
    <3>3. Orders(t)
      BY <2>2, <3>2, NewDirectory
    <3> HIDE DEF t
    <3>4. b \in DirFile /\ b.dir = t /\ b.stale = file[f].stale
      BY <3>2, <3>3, FileForm DEF Orders
    <3>5. Retains(c, f, file[f].dir, b.dir)
      BY <2>1, <2>2, <2>3, <3>2, <1>7
    <3> HIDE DEF b, f
    <3>6. FilesOK' /\ Keeps(c)
      BY <2>2, <3>1, <3>2, <3>3, <3>4, <3>5, DirSet
    <3>7. CallsOK'
      BY <2>1, <2>2, <3>1, <1>3 DEF CallSteps
    <3> QED BY <3>6, <3>7
  <2>4. CASE ~(Dir!Readable(f) /\ Dir!FileWriteAllowed(f, u))
    BY <1>8, <2>4, <1>0, <1>1 DEF Dir!dir_create2, UserOf
  <2> QED BY <2>3, <2>4
<1>9. ASSUME NEW pc \in {"insert", "unlink"}, Dir!At(c, pc)
      PROVE  /\ CallOK(k) /\ k # Dir!Idle /\ k.pc = pc
             /\ k.dir \in Dir!Fid /\ Dir!Last(c) \in Dir!Component /\ k.fid \in Dir!Fid
             /\ k.fid \in 0 .. NFiles /\ k.fid # 0
             /\ pc = "insert" => Dir!Last(c) \notin {Self, Parent}
  <2>1. CallOK(k) /\ k.pc = pc /\ k # Dir!Idle
    BY <1>2, <1>9
  <2>2. Len(k.path) \in 1 .. Len(k.path) /\ k.dir \in Dir!Fid /\ k.fid \in Dir!Fid
        /\ \A i \in 1 .. Len(k.path) : k.path[i] \in Dir!Component
    <3>1. Len(k.path) \in Nat /\ Len(k.path) >= 1
      BY <2>1, CallForm
    <3>2. \A n \in Nat : n >= 1 => n \in 1 .. n
      OBVIOUS
    <3> QED BY <2>1, <3>1, <3>2, CallForm
  <2>3. pc = "insert" => k.path[Len(k.path)] \notin {Self, Parent}
    BY <2>1 DEF CallOK
  <2>4. k.fid \in 0 .. NFiles /\ k.fid # 0
    BY <2>1, CallForm DEF CallOK
  <2> QED BY <2>1, <2>2, <2>3, <2>4 DEF Dir!Last
<1>10. ASSUME NEW d \in Dir!Fid, NEW t, Orders(t), file[d].stale => t = file[d].dir,
              Retains(c, d, file[d].dir, t), file' = [file EXCEPT ![d] = [file[d] EXCEPT !.dir = t]]
       PROVE  FilesOK' /\ Keeps(c)
  <2> DEFINE b == [file[d] EXCEPT !.dir = t]
  <2>1. file[d] \in DirFile /\ (file[d].stale => file[d].dir = <<>>)
    BY DEF FilesOK
  <2>2. b \in DirFile /\ b.dir = t /\ b.stale = file[d].stale
    BY <2>1, <1>10, FileForm DEF Orders
  <2>3. file' = [file EXCEPT ![d] = b]
    BY <1>10
  <2> HIDE DEF b
  <2> QED BY <2>1, <2>2, <2>3, <1>10, DirSet
<1>11. CASE Dir!dir_insert(c)
  <2> DEFINE r == Dir!dir_do_insert(k.dir, Dir!Last(c), k.fid, u)
  <2>1. Dir!At(c, "insert") /\ (Dir!Goto(c, "truncate", k.fid) \/ Dir!Return(c))
        /\ file' = [file EXCEPT ![k.dir] = [file[k.dir] EXCEPT !.dir = r.dir]]
    BY <1>11 DEF Dir!dir_insert, UserOf
  <2>2. CallOK(k) /\ k.dir \in Dir!Fid /\ Dir!Last(c) \in Dir!Component /\ k.fid \in Dir!Fid
        /\ Dir!Last(c) \notin {Self, Parent} /\ k.fid \in 0 .. NFiles /\ k.fid # 0
    BY <2>1, <1>9
  <2>3. /\ Orders(r.dir) /\ (file[k.dir].stale => r.dir = file[k.dir].dir)
        /\ \A i \in 1 .. Len(file[k.dir].dir) :
              file[k.dir].dir[i] = Blank \/ (i \in 1 .. Len(r.dir) /\ r.dir[i] = file[k.dir].dir[i])
    BY <2>2, DirRequests
  <2>4. Retains(c, k.dir, file[k.dir].dir, r.dir)
    BY <2>3 DEF Retains
  <2> HIDE DEF r
  <2>5. FilesOK' /\ Keeps(c)
    BY <2>1, <2>2, <2>3, <2>4, <1>10
  <2>6. Dir!Goto(c, "truncate", k.fid) => CallsOK'
    BY <2>2, <1>3 DEF CallSteps
  <2> QED BY <2>1, <2>5, <2>6, <1>1
<1>12. CASE Dir!dir_remove(c)
  <2> DEFINE t == Dir!dir_do_remove(k.dir, Dir!Last(c), k.fid, u)
  <2>1. Dir!At(c, "unlink") /\ Dir!Return(c)
        /\ file' = [file EXCEPT ![k.dir] = [file[k.dir] EXCEPT !.dir = t]]
    BY <1>12 DEF Dir!dir_remove, UserOf
  <2>2. k.dir \in Dir!Fid /\ Dir!Last(c) \in Dir!Component /\ k.fid \in Dir!Fid
        /\ k # Dir!Idle /\ k.pc = "unlink"
    BY <2>1, <1>9
  <2>3. /\ Orders(t) /\ (file[k.dir].stale => t = file[k.dir].dir)
        /\ \A i \in 1 .. Len(file[k.dir].dir) :
              \/ i \in 1 .. Len(t) /\ t[i] = file[k.dir].dir[i]
              \/ Dir!Writes(k.dir, u) /\ file[k.dir].dir[i] = Dir!Entry(Dir!Last(c), k.fid)
    BY <2>2, DirRequests
  <2>4. Retains(c, k.dir, file[k.dir].dir, t)
    BY <2>2, <2>3 DEF Retains, TakenBy
  <2> HIDE DEF t
  <2> QED BY <2>1, <2>2, <2>3, <2>4, <1>1, <1>10
<1>13. ASSUME NEW f \in Dir!Fid, f = k.fid, k # Dir!Idle, k.pc \in {"delete", "truncate"},
              file[f].alloc, Dir!FileWriteAllowed(f, u), NEW a \in BOOLEAN, NEW s \in BOOLEAN,
              NEW b, b = [file[f] EXCEPT !.alloc = a, !.dir = <<>>, !.stale = s],
              file' = [file EXCEPT ![f] = b]
       PROVE  FilesOK' /\ Keeps(c)
  <2>1. <<>> \in Seq(DirEntry) /\ Len(<<>>) = 0
    OBVIOUS
  <2>2. b \in DirFile /\ b.dir = <<>>
    <3>1. file[f] \in DirFile
      BY DEF FilesOK
    <3> QED BY <3>1, <2>1, <1>13 DEF DirFile
  <2>3. Orders(b.dir)
    BY <2>1, <2>2 DEF Orders, UniqueNames, Plain
  <2>4. Retains(c, f, file[f].dir, b.dir)
    BY <1>7, <1>13
  <2> QED BY <2>2, <2>3, <2>4, <1>13, DirSet
<1>14. CASE Dir!file_setsize(c)
  <2> DEFINE f == k.fid
             b == [file[f] EXCEPT !.alloc = TRUE, !.dir = <<>>, !.stale = FALSE]
  <2>1. CallOK(k) /\ k.pc = "truncate" /\ k # Dir!Idle /\ CallsOK'
    BY <1>1, <1>2, <1>14 DEF Dir!file_setsize
  <2>2. f \in Dir!Fid
    BY <2>1, CallForm
  <2>3. CASE file[f].alloc /\ Dir!FileWriteAllowed(f, u)
    <3>1. file' = [file EXCEPT ![f] = [file[f] EXCEPT !.dir = <<>>, !.stale = FALSE]]
      BY <1>14, <2>3 DEF Dir!file_setsize, UserOf
    <3>2. file[f] \in DirFile
      BY <2>2 DEF FilesOK
    <3>3. [file[f] EXCEPT !.dir = <<>>, !.stale = FALSE] = b
      BY <3>2, <2>3 DEF DirFile
    <3>4. file' = [file EXCEPT ![f] = b]
      BY <3>1, <3>3
    <3> HIDE DEF b
    <3>5. b = [file[f] EXCEPT !.alloc = TRUE, !.dir = <<>>, !.stale = FALSE]
      BY DEF b
    <3> QED BY <2>1, <2>2, <2>3, <3>4, <3>5, <1>13
  <2>4. CASE ~(file[f].alloc /\ Dir!FileWriteAllowed(f, u))
    BY <1>14, <2>1, <2>4, <1>0 DEF Dir!file_setsize, UserOf
  <2> QED BY <2>3, <2>4
<1>15. CASE Dir!file_delete(c)
  <2> DEFINE f == k.fid
  <2>1. CallOK(k) /\ k.pc = "delete" /\ k # Dir!Idle /\ Dir!Goto(c, "unlink", f)
    BY <1>2, <1>15 DEF Dir!file_delete
  <2>2. f \in Dir!Fid /\ f \in 0 .. NFiles /\ f # 0
    BY <2>1, CallForm DEF CallOK
  <2>3. CallsOK'
    BY <2>1, <2>2, <1>3 DEF CallSteps
  <2>4. CASE file[f].alloc /\ Dir!FileWriteAllowed(f, u)
    <3>1. PICK s \in BOOLEAN :
             file' = [file EXCEPT ![f] = [file[f] EXCEPT !.alloc = FALSE, !.dir = <<>>, !.stale = s]]
      BY <1>15, <2>4 DEF Dir!file_delete, UserOf
    <3> DEFINE b == [file[f] EXCEPT !.alloc = FALSE, !.dir = <<>>, !.stale = s]
    <3>2. file' = [file EXCEPT ![f] = b] /\ b = [file[f] EXCEPT !.alloc = FALSE, !.dir = <<>>, !.stale = s]
      BY <3>1
    <3> HIDE DEF b
    <3> QED BY <2>1, <2>2, <2>3, <2>4, <3>2, <1>13
  <2>5. CASE ~(file[f].alloc /\ Dir!FileWriteAllowed(f, u))
    BY <1>15, <2>3, <2>5, <1>0 DEF Dir!file_delete, UserOf
  <2> QED BY <2>4, <2>5
<1>16. Opened \subseteq Dir!Paths /\ Made \subseteq Dir!Paths /\ Removed \subseteq Dir!Paths
  BY DEF Dir!Paths
<1>17. ASSUME \/ \E p \in Opened : Dir!fopen(c, p)
              \/ \E p \in Made : Dir!mkdir(c, p)
              \/ \E p \in Removed : Dir!remove(c, p)
       PROVE  FilesOK' /\ CallsOK' /\ Keeps(c)
  BY <1>4, <1>16, <1>17 DEF Dir!fopen, Dir!mkdir, Dir!remove, CallOps
<1> HIDE DEF k, u
<1> QED BY <1>5, <1>6, <1>8, <1>11, <1>12, <1>14, <1>15, <1>17 DEF Dir!ClientNext

\* Initially there is the root, with its own two entries, and nothing else.
LEMMA DirInit ==
    ASSUME Dir!DirSvrAssumption, Dir!Init
    PROVE  DirInv
<1> DEFINE t == <<Dir!Entry(Self, 1), Dir!Entry(Parent, 1)>>
           r == [alloc |-> TRUE, uid |-> 0, mode |-> DirMode, stale |-> FALSE, dir |-> t]
           z == Dir!Unused
<1>1. 1 \in Dir!Fid /\ DirMode \in SUBSET Dir!Perms
  BY DEF Dir!Fid, Dir!DirSvrAssumption
<1>2. <<>> \in Seq(DirEntry) /\ Len(<<>>) = 0
  OBVIOUS
<1>3. Orders(<<>>)
  BY <1>2 DEF Orders, UniqueNames, Plain
<1>4. Orders(t)
  <2>1. SubSeq(<<>>, 3, Len(<<>>)) = <<>>
    BY <1>2
  <2>2. t \in Seq(DirEntry)
    BY <1>1 DEF DirEntry, Dir!Entry
  <2> DEFINE e == <<>>
  <2>3. t = t \o e
    BY <2>2
  <2>4. t = t \o SubSeq(e, 3, Len(e))
    BY <2>1, <2>3
  <2>5. Orders(e)
    BY <1>3
  <2> HIDE DEF e
  <2>6. t = <<Dir!Entry(Self, 1), Dir!Entry(Parent, 1)>> \o SubSeq(e, 3, Len(e))
    BY <2>4
  <2> HIDE DEF t
  <2> QED BY <1>1, <2>5, <2>6, NewDirectory
<1>5. file = [f \in Dir!Fid |-> IF f = 1 THEN r ELSE z]
  BY DEF Dir!Init, Dir!Root
<1> HIDE DEF t
<1>6. r \in DirFile /\ r.dir = t /\ ~r.stale
  BY <1>1, <1>4 DEF DirFile, Orders
<1>7. z \in DirFile /\ z.dir = <<>> /\ ~z.stale
  BY <1>2 DEF DirFile, Dir!Unused
<1> HIDE DEF r, z
<1>8. FilesOK
  BY <1>3, <1>4, <1>5, <1>6, <1>7 DEF FilesOK
<1>9. CallsOK
  BY DEF CallsOK, Dir!Init
<1> QED BY <1>8, <1>9 DEF DirInv

\* The invariant has TypeOK and NamesUnique in it.
LEMMA DirSays ==
    ASSUME Dir!DirSvrAssumption, DirInv
    PROVE  Dir!TypeOK /\ Dir!NamesUnique
<1>1. DOMAIN file = Dir!Fid /\ Dir!FreeEntry = Blank
  BY SameNames DEF DirInv, FilesOK
<1>2. ASSUME NEW f \in Dir!Fid
      PROVE  /\ file[f].alloc \in BOOLEAN /\ file[f].mode \in SUBSET Dir!Perms
             /\ file[f].stale \in BOOLEAN /\ (file[f].stale => file[f].dir = <<>>)
             /\ UniqueNames(file[f].dir)
             /\ DOMAIN file[f].dir = 1 .. Len(file[f].dir)
             /\ \A i \in 1 .. Len(file[f].dir) : file[f].dir[i] \in DirEntry
  <2>1. file[f] \in DirFile /\ file[f].dir \in Seq(DirEntry) /\ UniqueNames(file[f].dir)
        /\ (file[f].stale => file[f].dir = <<>>)
    BY DEF DirInv, FilesOK, Orders
  <2> QED BY <2>1, FileForm
<1>3. Dir!TypeOK
  <2>1. \A f \in Dir!Fid : \A i \in 1 .. Len(file[f].dir) :
           \/ file[f].dir[i] = Blank
           \/ file[f].dir[i].fid \in Dir!Fid /\ file[f].dir[i].name # None
    BY <1>2, EntryForm
  <2>2. \A c \in DirClient : call[c] # Dir!Idle => call[c].dir \in Dir!Fid
    BY CallForm DEF DirInv, CallsOK
  <2> QED BY <1>1, <1>2, <2>1, <2>2 DEF Dir!TypeOK
<1>4. Dir!NamesUnique
  BY <1>1, <1>2 DEF Dir!NamesUnique, UniqueNames
<1> QED BY <1>3, <1>4

\* The directories stay in order (dirsvr.c, and fopen, mkdir and remove over it),
\* for every number of files and calls, every set of paths and any clients, the
\* calls of which interleave, fail half way and find numbers that are used again:
\* no directory has two entries with one name, and an entry is taken out only by
\* a client that may write the directory and that had found this name with this
\* number, or had found the number of the directory itself as that of a file.
THEOREM DirectoriesStayRight ==
    ASSUME Dir!DirSvrAssumption
    PROVE  Dir!Spec => DirectoriesRight
<1>1. Dir!Init => DirInv
  BY DirInit
<1>2. DirInv /\ [Dir!Next]_(Dir!vars) => DirInv' /\ (Dir!Next => \E c \in DirClient : Keeps(c))
  <2>1. ASSUME DirInv, Dir!Next
        PROVE  DirInv' /\ \E c \in DirClient : Keeps(c)
    BY <2>1, DirStep DEF Dir!Next, DirInv
  <2>2. ASSUME DirInv, UNCHANGED Dir!vars
        PROVE  DirInv'
    BY <2>2 DEF DirInv, FilesOK, CallsOK, Dir!vars
  <2> QED BY <2>1, <2>2
<1>3. ASSUME DirInv, DirInv', [Dir!Next]_(Dir!vars)
      PROVE  [Dir!KeepsEntries]_(Dir!vars)
  <2>1. \A d \in Dir!Fid : /\ DOMAIN file[d].dir = 1 .. Len(file[d].dir)
                           /\ DOMAIN file'[d].dir = 1 .. Len(file'[d].dir)
    <3>1. \A d \in Dir!Fid : file[d].dir \in Seq(DirEntry) /\ file'[d].dir \in Seq(DirEntry)
      BY <1>3 DEF DirInv, FilesOK, Orders
    <3> QED BY <3>1
  <2>2. ASSUME Dir!Next
        PROVE  Dir!KeepsEntries
    <3>1. PICK c \in DirClient : Keeps(c)
      BY <2>2, <1>2, <1>3
    <3> QED BY <2>1, <3>1, SameNames DEF Keeps, Retains, TakenBy, UserOf, Dir!KeepsEntries
  <2> QED BY <2>2, <1>3
<1>4. DirInv => Dir!TypeOK /\ Dir!NamesUnique
  BY DirSays
<1> QED BY <1>1, <1>2, <1>3, <1>4, PTL DEF Dir!Spec, DirectoriesRight, Dir!EntriesKept

===============================================================================
