------------------------------ MODULE StoragePath ------------------------------
(***************************************************************************)
(* The way of a block from a client to the disk and back: the stubs of     *)
(* src/src/lib/block.c, the block server (src/src/apps/blocksvr.c) with    *)
(* its inode store, its write-back cache and protdisk.c, which forwards    *)
(* every access below by RPC, the disk server (src/src/grass/disksvr.c)    *)
(* and the disk device (src/src/earth/devdisk.c), which reports the end of *)
(* an operation with an event.                                             *)
(*                                                                         *)
(* The block server has one thread: it serves one request at a time, and   *)
(* waits for the disk server in each access that the cache cannot answer.  *)
(* The blocks here are those of the disk.  Which of them the inode store   *)
(* reads and writes for a request, superblock, inodes, free list and       *)
(* indirect blocks included, is modelled in TreeDisk: here it may make any *)
(* accesses.  The replacement of the cache is modelled in ClockDisk: here  *)
(* any slot may be replaced.  A machine stop loses everything but the      *)
(* contents of the device.                                                 *)
(***************************************************************************)
EXTENDS Integers, Sequences, FiniteSets

CONSTANTS Blk,         \* blocks of the disk
          Val,         \* block contents, with 0
          NCache,      \* slots of the cache
          Client,
          MaxCalls,    \* bound on the calls of the clients
          MaxAccesses, \* bound on the accesses of the inode store for a request
          FailingOps,  \* operations that may fail on the host: "read", "write"
          MaxFaults,   \* bound on the operations that fail
          MaxStops,    \* bound on machine stops
          None

Ops == {"read", "write", "sync", "getsize", "setsize", "getninodes"}

\* What clients ask for.  Only a sync looks at the inode number itself.
Requests == [op : Ops, ino : {-1, 0}]

\* A request that is served, and the accesses made for it.
Served == [src : Client, req : Requests, n : 0 .. MaxAccesses]

StoragePathAssumption ==
    /\ 0 \in Val /\ NCache \in Nat \ {0} /\ None \notin Blk
    /\ None \notin Requests /\ None \notin Served /\ FailingOps \subseteq {"read", "write"}
    /\ MaxCalls \in Nat /\ MaxAccesses \in Nat /\ MaxFaults \in Nat /\ MaxStops \in Nat

VARIABLES disk,     \* contents of the device
          cache,    \* blocks in the cache: value and dirty bit
          cur,      \* the request the block server serves
          access,   \* the access of the inode store to the cache, or its result
          dreq,     \* the request at the disk server and how far it is
          queue,    \* requests waiting at the block server
          wait,     \* the call each client waits in
          up,       \* the block server has not exited
          data,     \* history: the last value written to each block
          may,      \* history: the values each block may have on the disk
          ncalls, nfaults, nstops

vars == <<disk, cache, cur, access, dreq, queue, wait, up, data, may, ncalls, nfaults, nstops>>

Idle == [st |-> "idle", op |-> "sync", blk |-> None, val |-> 0, ok |-> TRUE]

Slot(v, d)      == [val |-> v, dirty |-> d]
Access(op, b, v) == [op |-> op, blk |-> b, val |-> v]
NoAccess        == Access("none", None, 0)

\* The type of the cache, the disk and the requests on their way.
TypeOK ==
    /\ disk \in [Blk -> Val] /\ data \in [Blk -> Val] /\ may \in [Blk -> SUBSET Val]
    /\ DOMAIN cache \subseteq Blk /\ cache \in [DOMAIN cache -> [val : Val, dirty : BOOLEAN]]
    /\ cur \in Served \cup {None}
    /\ access \in [op : {"none", "read", "write", "keep", "put", "flush", "done", "failed"},
                   blk : Blk \cup {None}, val : Val]
    /\ dreq \in [st : {"idle", "sent", "event", "reply"}, op : {"read", "write", "sync"},
                 blk : Blk \cup {None}, val : Val, ok : BOOLEAN]
    /\ queue \in Seq([src : Client, req : Requests])
    /\ wait \in [Client -> Requests \cup {None}] /\ up \in BOOLEAN
    /\ ncalls \in Nat /\ nfaults \in Nat /\ nstops \in Nat

-------------------------------------------------------------------------------
(* The disk server and its device. *)

\* The stubs of block.c as protdisk.c uses them, with inode 0 of the disk.
protdisk_rpc(op, b, v) ==
    dreq' = [st |-> "sent", op |-> op, blk |-> b, val |-> v, ok |-> TRUE]

\* The host carries out the operation, or fails.
HostDoes(op, ok) ==
    /\ ~ok => op \in FailingOps /\ nfaults < MaxFaults
    /\ nfaults' = IF ok THEN nfaults ELSE nfaults + 1

\* Mutated form: no event is made for a write that failed.
dev_disk_write_noevent(b, v, ok) ==
    /\ disk' = IF ok THEN [disk EXCEPT ![b] = v] ELSE disk
    /\ dreq' = [dreq EXCEPT !.st = IF ok THEN "event" ELSE "lost", !.ok = ok]

\* write() on the host; without the sync flag there is no fsync(), and the
\* contents of the file are what the device holds.
dev_disk_write(b, v, ok) ==
    /\ disk' = IF ok THEN [disk EXCEPT ![b] = v] ELSE disk
    /\ dreq' = [dreq EXCEPT !.st = "event", !.ok = ok]

\* read() on the host.
dev_disk_read(b, ok) ==
    /\ dreq' = [dreq EXCEPT !.st = "event", !.val = IF ok THEN disk[b] ELSE 0, !.ok = ok]
    /\ UNCHANGED disk

Above == <<cache, cur, access, queue, wait, up, data, may, ncalls, nstops>>

disk_do_read  == dreq.op = "read"
                 /\ \E ok \in BOOLEAN : HostDoes("read", ok) /\ dev_disk_read(dreq.blk, ok)
disk_do_write == dreq.op = "write"
                 /\ \E ok \in BOOLEAN : HostDoes("write", ok) /\ dev_disk_write(dreq.blk, dreq.val, ok)

\* Nothing is cached here: the reply is sent at once.
disk_do_sync ==
    /\ dreq.op = "sync"
    /\ dreq' = [dreq EXCEPT !.st = "reply"]
    /\ UNCHANGED <<disk, nfaults>>

disk_proc ==
    /\ dreq.st = "sent"
    /\ disk_do_read \/ disk_do_write \/ disk_do_sync
    /\ UNCHANGED Above

\* The event: disk_read_complete or disk_write_complete sends the reply, with
\* BLOCK_ERROR when the operation failed.
dev_disk_complete ==
    /\ dreq.st = "event"
    /\ dreq' = [dreq EXCEPT !.st = "reply"]
    /\ UNCHANGED <<disk, nfaults>> /\ UNCHANGED Above

-------------------------------------------------------------------------------
(* The clients.  A call of a server that has exited fails at once. *)

Call(c, r) ==
    /\ up /\ wait[c] = None /\ ncalls < MaxCalls
    /\ ncalls' = ncalls + 1
    /\ wait'  = [wait EXCEPT ![c] = r]
    /\ queue' = Append(queue, [src |-> c, req |-> r])
    /\ UNCHANGED <<disk, cache, cur, access, dreq, up, data, may, nfaults, nstops>>

Request(op, i) == [op |-> op, ino |-> i]

block_read(c)       == Call(c, Request("read", 0))
block_write(c)      == Call(c, Request("write", 0))
block_sync(c, i)    == Call(c, Request("sync", i))
block_getsize(c)    == Call(c, Request("getsize", 0))
block_setsize(c)    == Call(c, Request("setsize", 0))
block_getninodes(c) == Call(c, Request("getninodes", 0))

-------------------------------------------------------------------------------
(* The cache of the block server (clockdisk.c). *)

Busy  == access.op \in {"read", "write", "keep", "put", "flush"} /\ dreq = Idle
Dirty == {b \in DOMAIN cache : cache[b].dirty}
Full  == Cardinality(DOMAIN cache) >= NCache

SetSlot(b, s) == [x \in DOMAIN cache \cup {b} |-> IF x = b THEN s ELSE cache[x]]
Without(b)    == [x \in DOMAIN cache \ {b} |-> cache[x]]

\* The cache takes a block that the inode store writes.
Take(b, v) ==
    /\ data' = [data EXCEPT ![b] = v]
    /\ may'  = [may EXCEPT ![b] = @ \cup {v}]
    /\ cache' = SetSlot(b, Slot(v, TRUE))
    /\ access' = [access EXCEPT !.op = "done"]
    /\ UNCHANGED dreq

\* The block is in the cache.
ReadHit ==
    /\ Busy /\ access.op = "read" /\ access.blk \in DOMAIN cache
    /\ access' = [access EXCEPT !.op = "done", !.val = cache[access.blk].val]
    /\ UNCHANGED <<cache, dreq, data, may>>

WriteHit ==
    /\ Busy /\ access.op = "write" /\ access.blk \in DOMAIN cache
    /\ Take(access.blk, access.val)

\* It is read from the store below first; a write does not read.
ReadMiss ==
    /\ Busy /\ access.op = "read" /\ access.blk \notin DOMAIN cache
    /\ protdisk_rpc("read", access.blk, 0)
    /\ UNCHANGED <<cache, access, data, may>>

WriteMiss ==
    /\ Busy /\ access.op = "write" /\ access.blk \notin DOMAIN cache
    /\ access' = [access EXCEPT !.op = "put"]
    /\ UNCHANGED <<cache, dreq, data, may>>

\* cache_update, with a slot free: a block that was read or is written.
Keep ==
    /\ Busy /\ access.op = "keep" /\ ~Full
    /\ cache' = SetSlot(access.blk, Slot(access.val, FALSE))
    /\ access' = [access EXCEPT !.op = "done"]
    /\ UNCHANGED <<dreq, data, may>>

Put == Busy /\ access.op = "put" /\ ~Full /\ Take(access.blk, access.val)

\* Mutated form: the slot is reused without writing its block.
Evict_drop ==
    /\ Busy /\ access.op \in {"keep", "put"} /\ Full
    /\ \E b \in DOMAIN cache : cache' = Without(b)
    /\ UNCHANGED <<dreq, access, data, may>>

\* cache_update: a slot is reused; a dirty one is written back first.
Evict ==
    /\ Busy /\ access.op \in {"keep", "put"} /\ Full
    /\ \E b \in DOMAIN cache :
          IF cache[b].dirty THEN protdisk_rpc("write", b, cache[b].val) /\ UNCHANGED cache
          ELSE cache' = Without(b) /\ UNCHANGED dreq
    /\ UNCHANGED <<access, data, may>>

\* Every dirty block is written back, in any order, then the store below is synced.
Flush ==
    /\ Busy /\ access.op = "flush"
    /\ IF Dirty # {} THEN \E b \in Dirty : protdisk_rpc("write", b, cache[b].val)
       ELSE protdisk_rpc("sync", None, 0)
    /\ UNCHANGED <<cache, access, data, may>>

\* The disk server has replied.  A block that could not be read is not kept.
\* The result of a write is not looked at: the block is clean from here on.
DiskReply ==
    /\ dreq.st = "reply" /\ dreq' = Idle
    /\ CASE dreq.op = "read" ->
              /\ access' = IF dreq.ok THEN [access EXCEPT !.op = "keep", !.val = dreq.val]
                           ELSE [access EXCEPT !.op = "failed"]
              /\ UNCHANGED cache
         [] dreq.op = "write" ->
              /\ cache' = IF access.op = "flush" THEN SetSlot(dreq.blk, Slot(dreq.val, FALSE))
                          ELSE Without(dreq.blk)
              /\ UNCHANGED access
         [] dreq.op = "sync" ->
              /\ access' = NoAccess
              /\ UNCHANGED cache
    /\ UNCHANGED <<data, may>>

Cache ==
    /\ \/ ReadHit \/ WriteHit \/ ReadMiss \/ WriteMiss \/ Keep \/ Put
       \/ Evict \/ Flush \/ DiskReply
    /\ UNCHANGED <<disk, cur, queue, wait, up, ncalls, nfaults, nstops>>

-------------------------------------------------------------------------------
(* The block server and its inode store. *)

\* The start of a turn of the loop of block_proc; a sync of the whole store
\* goes to the cache, that of one inode is refused.
block_proc ==
    /\ up /\ cur = None /\ queue # <<>>
    /\ LET q == Head(queue) IN
          /\ cur' = [src |-> q.src, req |-> q.req, n |-> 0]
          /\ access' = IF q.req = Request("sync", -1) THEN Access("flush", None, 0) ELSE NoAccess
    /\ queue' = Tail(queue)
    /\ UNCHANGED <<disk, cache, dreq, wait, up, data, may, ncalls, nfaults, nstops>>

\* The inode store has the result of its last access.
Returned == cur # None /\ access.op \in {"none", "done", "failed"}
Rest == <<disk, cache, dreq, data, ncalls, nfaults, nstops>>

\* The inode store accesses one more block: only a setsize goes on when a
\* block cannot be read, and only a write and a setsize write.
Step(op, b, v) ==
    /\ Returned /\ cur.n < MaxAccesses
    /\ access.op = "failed" => cur.req.op = "setsize"
    /\ cur' = [cur EXCEPT !.n = @ + 1]
    /\ access' = Access(op, b, v)
    /\ UNCHANGED <<queue, wait, up, may>> /\ UNCHANGED Rest

tree_read(b) ==
    /\ Returned /\ cur.req.op \in {"read", "write", "getsize", "setsize", "getninodes"}
    /\ Step("read", b, 0)

tree_write(b, v) ==
    /\ Returned /\ cur.req.op \in {"write", "setsize"}
    /\ Step("write", b, v)

\* The answers to a request: the sizes always come with BLOCK_OK.
Answers(r) ==
    CASE r.op \in {"getsize", "getninodes"} -> {"OK"}
      [] r.op = "sync" -> IF r.ino = -1 THEN {"OK"} ELSE {"ERROR"}
      [] r.op \in {"read", "write"} -> IF access.op = "failed" THEN {"ERROR"} ELSE {"OK", "ERROR"}
      [] r.op = "setsize" -> {"OK", "ERROR"}

block_respond ==
    /\ Returned
    /\ \E status \in Answers(cur.req) :
          may' = IF cur.req.op = "sync" /\ status = "OK" THEN [b \in Blk |-> {data[b]}] ELSE may
    /\ wait' = [wait EXCEPT ![cur.src] = None]
    /\ cur' = None /\ access' = NoAccess
    /\ UNCHANGED <<queue, up>> /\ UNCHANGED Rest

\* treedisk.c exits when a block it needs cannot be read or the store is
\* full; the clients that wait get an error.
panic ==
    /\ Returned /\ cur.req.op \in {"write", "setsize"}
    /\ up' = FALSE
    /\ cache' = <<>> /\ cur' = None /\ access' = NoAccess /\ queue' = <<>>
    /\ wait' = [c \in Client |-> None]
    /\ data' = disk
    /\ UNCHANGED <<disk, dreq, may, ncalls, nfaults, nstops>>

Serve ==
    \/ \E b \in Blk : tree_read(b)
    \/ \E b \in Blk, v \in Val : tree_write(b, v)
    \/ block_respond
    \/ panic

-------------------------------------------------------------------------------

Init ==
    /\ disk = [b \in Blk |-> 0] /\ data = disk /\ may = [b \in Blk |-> {0}]
    /\ cache = <<>> /\ cur = None /\ access = NoAccess /\ dreq = Idle
    /\ queue = <<>> /\ wait = [c \in Client |-> None] /\ up = TRUE
    /\ ncalls = 0 /\ nfaults = 0 /\ nstops = 0

\* The machine stops at any moment, and starts with an empty cache on what
\* it finds on the disk (block_init).
Stop ==
    /\ nstops < MaxStops /\ nstops' = nstops + 1
    /\ cache' = <<>> /\ cur' = None /\ access' = NoAccess /\ dreq' = Idle /\ queue' = <<>>
    /\ wait' = [c \in Client |-> None] /\ up' = TRUE
    /\ data' = disk
    /\ may'  = [b \in Blk |-> {disk[b]}]
    /\ UNCHANGED <<disk, ncalls, nfaults>>

ClientNext(c) ==
    \/ block_read(c) \/ block_write(c) \/ block_getsize(c) \/ block_setsize(c)
    \/ block_getninodes(c)
    \/ \E i \in {-1, 0} : block_sync(c, i)

Next ==
    \/ \E c \in Client : ClientNext(c)
    \/ block_proc \/ Serve \/ Cache \/ disk_proc \/ dev_disk_complete
    \/ Stop

\* The scheduler runs every process that can run, an event that was scheduled
\* is delivered, and treedisk.c makes finitely many accesses for a request:
\* its loops go down the levels of a tree.
Fairness ==
    /\ WF_vars(block_proc) /\ WF_vars(Serve) /\ WF_vars(Cache)
    /\ WF_vars(disk_proc) /\ WF_vars(dev_disk_complete)

Spec == Init /\ [][Next]_vars /\ Fairness

-------------------------------------------------------------------------------
(* Properties. *)

\* A sync that was answered with OK has put every write made before it on the
\* disk: whenever the machine stops, a disk block has its value of the last
\* sync or one that was written after it.
SyncIsDurable == \A b \in Blk : disk[b] \in may[b]

\* The cache gives the inode store the last value written to a block, whatever
\* was replaced and read back since.
ReadsLatest == access.op = "done" => access.val = data[access.blk]

\* blocksvr.c over clockdisk.c and disksvr.c: what was written before a sync
\* that returned OK survives a stop at any later moment, and a block that is
\* read has the last value written, whatever was replaced in the cache, read
\* back and could not be read since.
StorageRight == TypeOK /\ SyncIsDurable /\ ReadsLatest

\* Every call is answered or ends with an error, also when the device fails
\* and when the block server exits, unless the machine stops.
EveryCallAnswered == \A c \in Client : wait[c] # None ~> wait[c] = None
===============================================================================
