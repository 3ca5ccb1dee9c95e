# EGOS: models, model checking and proofs

EGOS (Earth and Grass Operating System) is a teaching operating system that runs
as one Unix process. *Earth* (`src/src/earth`) simulates the hardware: a
software-loaded TLB, interrupts, a clock, a disk and a terminal. *Grass*
(`src/src/grass`) is the kernel: processes, messages and a few kernel servers.
Everything else is user processes (`src/src/apps`): block server, file server,
directory server, shell. The block server is a stack of block store modules
(`src/src/block`), objects with one common interface.

This directory holds TLA+ models of the parts where order, failure and state
that is maintained in several places make the code hard to test, the TLC
configurations that check them, and proofs checked by TLAPS.

    tlc -workers 2 -config MCProcess.cfg MCProcess     # one run
    tlapm ProcessProofs.tla                            # the proofs of a module

`PROJECT.json` lists components, runs, mutants, the source lines each definition
models, findings, hazards and theorems.

## 1. Inventory

| Component | State | Operations | What is hard | What makes it correct |
|---|---|---|---|---|
| Processes and scheduler (`grass/process.c`, `procsys.c`) | process table, run queue, free list, counters, mailboxes, alarms, frames | send, receive, rpc, exit, create, kill, yield, shutdown, page in | every process can die at every point where it gives up the CPU; device handlers run on the stack of whoever waits | run queue and table agree; calls end with the reply of the server or with its death; nobody starves; the dead stay dead |
| Page faults, TLB (`process.c:697-878`, `earth/tlb.c`, `earth/intr.c`) | page tables, frames, TLB entries, saved contexts | fault, map, sync, flush, unmap, copy to and from user space, interrupt | no address space identifiers; the handler waits for the file server in its middle; processes die while they wait | a process sees its own memory and gets its own registers back |
| Terminal server (`grass/ttysvr.c`) | line being typed, queue of lines, queue of readers | interrupt with characters; read, write, sync, stat, set flags | handler and server share the queues; readers die in the queue; <ctrl>C kills the process the handler runs on | characters in order and once; each request answered once |
| Disk server, disk device (`disksvr.c`, `earth/devdisk.c`) | outstanding requests, event queue | read, write, getsize; completions | completions after the death of client or server; failing host reads and writes | one reply per request, to the caller; what a sync acknowledged is on the disk |
| Spawn server (`spawnsvr.c`) | none of its own | exec, kill, shutdown, getuid, set descr | acts for a client that may be dead, on a process that may be dead | a reply for each request except shutdown |
| Gate server (`gatesvr.c`, `earth/devgate.c`), push, pull | none between calls | pull, push, gettime | files are copied call by call, with others in between and clients that die | a copy that ends is complete |
| RAM file server (`ramfilesvr.c`) | files, contents, owners, modes | create, read, write, stat, setsize, delete, chown, chmod | growth, reuse of numbers, permission checks | a file is what was written to it since its creation |
| Kernel main, init, sync server, mkfs (`main.c`, `init.c`, `syncsvr.c`, `mkfs.c`) | the environment with the servers, the file system on the disk | start the servers, install, make /tmp, sync | stops at any point; process identifiers stored on the disk | every process finds its servers, and entries on the disk name the servers that run |
| Block cache (`block/clockdisk.c`) | slots, dirty bits, clock hand | getsize, setsize, read, write, sync | eviction of dirty slots, truncation, restart | reads return the last write; a sync is durable |
| Write-through cache (`block/wtclockdisk.c`) | slots, hand | the same | failing writes | the same, and slots equal the store below |
| Tree disk (`block/treedisk.c`) | superblock, free list, inodes, indirect blocks on the store below | the same, and create | several writes per operation; overflow in the size computation | inodes disjoint, nothing lost; a stop costs no more than it must |
| Unix disk (`block/unixdisk.c`) | superblock, list of free blocks, inodes with three levels of indirection | the same | boundaries between the levels, a full disk | as the tree disk |
| Cipher disk (`block/cipherdisk.c`) | salt, hash and key; encrypted blocks | set up, unlock, read, write | the key stream must be the same after every start | what was written is read back |
| RAID and maps (`raid0/1disk.c`, `mapdisk.c`, `combinedisk.c`, `partdisk.c`, `checkdisk.c`) | which mirrors are broken; address maps | the same | failure of one of several; composition of the maps | reads return the last write while a mirror is good; no two addresses share a block |
| Block server (`apps/blocksvr.c`, `protdisk.c`) | the stack of stores | read, write, setsize, sync by message | every access below is itself an RPC; failures are not passed up | as the stack, and a sync is durable |
| Block file server (`apps/bfs.c`) | cached file control blocks, on inode 0 | create, delete, read, write, setsize, chown, chmod, sync | control block and data written separately; two replies on failure; flush writes too many blocks | size, data and allocation agree, also after a restart |
| Directory server (`apps/dirsvr.c`) and the calls over it | directories as files | lookup, insert, remove, create; fopen, remove, mkdir | a library call is several requests | a name leads to the file inserted under it |
| Streams and descriptors (`lib/stdio.c`, `lib/unistd.c`) | two buffers and positions per stream, reference counts | open, read, write, seek, flush, dup, close | buffers, positions and the file change at different times | the program sees the file it would see without buffers |
| Allocator (`lib/tlsf.c`) | pool with boundary tags, free lists, bitmaps | malloc, free, realloc, calloc, growth | splitting and merging at the ends of areas | blocks tile the pool; contents are kept; nothing leaks |
| Shell (`apps/shell.c`) | list of processes | foreground, background, wait, exit | deaths arrive in any order and are read by any wait | the prompt returns when, and only when, it should |
| Password server, login, commands, the rest of the library, compiler | - | - | - | not modelled (section 6) |

How they interact. Every service is a process; a client calls it with `sys_rpc`
(a REQUEST, then a wait for the REPLY of that server), and a server replies with
`sys_send`. Kernel servers may reply from an interrupt handler (`proc_send`).
The death of a process is an EVENT to its owner and fails the calls that wait for
it. Block store modules call the module below directly.

Concurrency. There is one CPU, kernel code is not preempted, and user processes
are preempted by the clock. Processes switch inside `proc_yield` (and in
`proc_create_uid`). Device handlers run only in `earth.intr.suspend`, called from
`proc_yield`, on the stack of the process that yields, which may be runnable,
waiting or dead. The hazards that follow are listed with their lines in
`PROJECT.json`.

## 2. Modules

### Process.tla - processes, messages, scheduler

Models `process.c` (page contents and the TLB are in `Paging`) and the system calls of
`procsys.c`. The variables are the globals of `process.c`; a process structure is
a record with the fields that control depends on. `call` stands for the place in
`proc_recv` where a process that is not running will go on. `phase` tells whether
the current process executes or is in `earth.intr.suspend`, where the handlers
run: `IntrReply` (a disk completion or a typed line), `CtrlC`, `proc_shutdown`
(<ctrl>Q) and `OtherInput`.

Kernel routines that call each other (`proc_send`, `proc_wakeup`, `proc_term`,
`proc_zap`, ...) are operators on a record of the tables, so that a routine that
loops over the process table and calls others from the loop is modelled with its
order. An action is one uninterrupted piece of kernel code: a system call up to
its end or to its `proc_yield`, one round of the loop of `proc_yield`, or one
handler. `proc_yield` is the round: the scan that wakes expired alarms or, when
shutting down, zaps every process; the release of zombies at the head of the run
queue; then a switch, a return, the exit of the machine, or another
`earth.intr.suspend` with the time to the next alarm.

Abstractions. A message is its sender. Times are differences to the clock;
`Tick` lets time pass, and `timeout` is what is left of the wait in `poll`, which
ends at 0 or with I/O and, if it is negative, with I/O only. Programs may make
any system call with any arguments; a refused call changes nothing and is left
out. `server` and `exptime` are 0 when nothing can read them. The curfew of a
shutdown may be over at any round (`Curfew`).

### Tty.tla - the terminal server

`ttysvr.c`: `tty_proc` (one action per request) and `tty_deliver` (one action
per interrupt, with several characters, on the stack of any process). The clients
follow the protocol that `Process` establishes: a waiting client gets a reply or
dies. A <ctrl>C that kills the process on whose stack the handler runs ends the
handler, as `proc_kill` does not return. `typed`, `got` and `reader` are history.

### BlockStore.tla, ClockDisk.tla - block stores and the block cache

`BlockStore` states what `block_store.h` promises: reads return the last write; at
a restart the contents fall back to what is on the disk; a sync makes an inode
durable; blocks may reach the disk earlier, and nothing else may reach it.
`ClockDisk` is `clockdisk.c` with one action per operation. The loop of
`cache_update` is given by its result: the first slot from the hand on that is not
NEW, or the first slot if all are. The store below is external; `Growable` selects
a store of fixed range (ramdisk, filedisk, protdisk) or one that grows (treedisk).
`Spec` is the cache as the block server uses it, with writes within the store;
`OpenSpec` has any client. The refinement mapping takes what a read would find
(`View`) for the contents and the store below for the disk.

### WtClockDisk.tla, Raid1.tla, DiskStack.tla, CipherDisk.tla - more block stores

`WtClockDisk` has the slots of `ClockDisk` and writes every block through at once;
`CanFail` lets the store below refuse writes. `Raid1` has several mirrors, and
with every call a set of mirrors that fail it is chosen; `last` is what was
acknowledged. `DiskStack` composes the stores that only translate addresses
(`checkdisk`, `combinedisk`, `raid0disk`, `mapdisk`, `partdisk`, `ramdisk`,
`filedisk`) in one stack: a layer maps an address to the set of addresses it calls
below, empty when it refuses. `checkdisk` remembers every block it has seen and is
its own oracle. `CipherDisk` represents a block by its plain contents and the set
of key streams that are on it, so that encryption undoes itself; the 16 bytes that
`block_xcrypt` hashes beyond the key are heap bytes (`Tails`) and are chosen at every
start. `wtail` is history: those bytes at the last write of each block.

### TreeDisk.tla, SparseStore.tla, UnixDisk.tla - file systems

`TreeDisk` computes an operation of `treedisk.c` as the series of disk images
after each of its writes, and then does the writes one at a time, so that the
server can stop between any two (`Stop`, and `Panic` for a full disk). Superblock,
inode blocks and data live on one disk: block 0 that is freed overwrites the
superblock. Block counts are taken modulo `Modulus`, as 32 bits are in the code.
`Restart` starts the server on whatever is on the disk, as `blocksvr.c` does, which
runs no check. `treedisk_check` is the checker of `treedisk_chk.c`; it serves the
property only, which needs to know whether a restart found a block in two uses
(phase `damaged`). `SparseStore` is the abstract store of inodes that grow: what a
stop may leave unsettled (`Torn`) is part of it, and so is that nothing is promised
any more after a stop has left a damaged disk (`Lose`). `UnixDisk` is
`unixdisk.c` with one direct pointer and small blocks of pointers, so that the
second and third level are reached; data are the address they were written to.

### Bfs.tla, StoragePath.tla, DirSvr.tla, RamFile.tla, Gate.tla - servers

`Bfs` has the handlers of `bfs.c` over an inode store as the tree disk gives it,
and the calls of `lib/file.c`: a reply goes to a client that waits for this
server, whatever it called, and is dropped otherwise. The block server may refuse any
write and any setsize (`Grants`: the blocks before the refused one are written), and a
handler goes on as the code does. The second reply that some error paths send is a
step of its own (`SecondReply`), between which the client can call again. File 0, the
array of FCBs itself, can be requested like any other. `Restart`, at any moment, loads
the array from inode 0, or installs an empty one when inode 0 has not its length; parts
of an FCB that were not written together are read as any of `ScrapFcbs`. A stop in the
middle of a handler leaves the same as refused writes followed by `Restart`. `ref`,
`raw` and `twice` are history: the bytes written, whether file 0 was written to, and
who was sent two replies.

`StoragePath` composes the block server with its cache, `protdisk`, the disk
server and the device, at the level of disk blocks. While the block server serves a
request its inode store accesses blocks of the disk, one after the other; which ones,
and what it writes, is left open (`tree_read`, `tree_write`), so that every layout,
free list and reuse of blocks is included, and `TreeDisk` gives the accesses of the real
one. Each access that misses the cache, and each write-back, is an RPC to the disk
server, which starts the operation and replies when the device reports its end; reads
and writes of the host may fail (`FailingOps`). The slot that is replaced is left open
too (`ClockDisk` has the clock). `Stop` loses everything but the device. `data` and
`may` are history: the last value written to a block, and the values it may have on
the disk by the syncs acknowledged so far.

`DirSvr` has one step per request of the directory and the file server; `fopen`,
`remove` and `mkdir` are sequences of such requests by several processes of several
users, each of which may be refused. A number that is used again keeps the size of the
deleted file (`stale`), so that a directory made under it cannot be written and the
assertion of `dir_create2` ends the process.
`RamFile` has one step per request. `Gate` has the server and the programs `push`
and `pull`; the reply and what the waiting client does with it are one step. The host
may fail a read or a write (`Fails`): the server answers with an error and the program
ends with one.

### Paging.tla - virtual memory

One window of virtual pages, a TLB with no address space identifiers, frames.
`todo` is what is left of a trip into the kernel: copying, faulting a page in,
which waits for the file server, returning. An access of user code either
completes (`Perform`), faults (`PageFault`, with the kind of access unknown to the
handler) or is interrupted. Frames are written back when an entry is flushed.
`mem` and `ran` are history: what the program stored and executed.

### Stdio.tla, Tlsf.tla - library

`Stdio` has the two buffers and the positions of a `FILE`, the descriptors over
it, and a file server that may refuse requests; `ref` is the file and the offset
as they would be without buffers. A `Careful` program seeks between reading and
writing, as the C standard asks. `Tlsf` counts memory in units of 16 bytes and
keeps real headers in it, so that a write of the user to memory that is not his
would destroy them; `RECURSIVE` operators walk lists, so it stays with TLC.

### Boot.tla, Shell.tla - start-up and job control

`Boot` runs `grass_main`, `init` and the sync server over a file system that is a
set of entries with the process identifier each one names. `init` installs row by row,
and looks up, removes and makes /tmp in three steps; a pull, a creation or an insertion
that fails ends it (`Fails`), and results that the code does not look at may be either.
The caches write any entry back at any time (`WriteBack`), a sync returns when all are,
and `Restart`, at any moment, keeps the disk only. `given` records the environment each process was spawned with, `Uses`
the servers its program calls. `Shell` has the list of processes, the mailbox with
the deaths of children, and children that die at any time.

### Stores.tla, Servers.tla - components side by side

A run and a theorem state the same property only if both reach its definition.
`Stores` extends `Raid1` and instantiates `WtClockDisk`, `DiskStack` and `CipherDisk`;
`Servers` extends `StoragePath` and instantiates `Bfs`, `DirSvr` and `RamFile`. Their constants are the
parameters of the instances, with the instances' assumptions, and their properties
(`StackRight`, `CipherRight`, `BfsRight`, ...) are the conjunctions of what the
instantiated modules state. The instances share no variables.

### MCStores.tla, MCServers.tla, MCMemory.tla, MCPrograms.tla - instances together

A run of TLC can look at several components when they share nothing. These four
modules hold small instances of the components side by side; a variable
(`store_kind`, `server`, `part`) names the one that moves, in every initial state
another, and the others keep their initial state. The state space is the sum of
those of the instances, not their product. They extend `Stores`, `Servers`, `Paging`
and `Boot`, so that the run checks the very definition a theorem states, give the
constants of these modules small values, and instantiate what no theorem is about
(`UnixDisk`, `Stdio`, `Tlsf`, `Gate`, `Shell`). `ClockDisk`, `TreeDisk`, `Process` and
`Tty` have runs of their own.

### Facts.tla, ClockDiskProofs.tla, StoresProofs.tla, ProcessProofs.tla, PagingProofs.tla, TtyProofs.tla, ServersProofs.tla, BootProofs.tla - proofs

Each proof module extends the module it is about and, but for one, `Facts`, which has
what the proofs share: least elements of sets of numbers, loops over a table written as
recursive functions (`LoopExists`, `LoopInvariant`), and queues. `ProcessProofs` has
the lemmas about the kernel routines first, then the actions and the theorems;
`StoresProofs` and `ServersProofs` have one part for each store and server.
Section 4 gives the arguments.

## 3. Runs

| Run | Instance | Shows | States |
|---|---|---|---|
| `process` | 3 slots, 3 processes, one request per mailbox, no alarms | TablesConsistent (TypeOK, RunQueue, Counters, WaitConsistent, FramesConserved), CallsRight (RpcServerAlive, ReplyFromServer), RpcFailsOnDeath, ZombiesStayDead, OwnerNotified, ShutdownFinal | 1.06 million |
| `process_reuse` | 2 slots, 3 processes, requests and events, alarms, 2 users, 1 frame | TablesConsistent and CallsRight with slots that are reused; TimeoutValid | 1.7 million |
| `process_live` | 3 slots, alarms up to 2 with a horizon of 1, no messages | RunnableRuns, AlarmsRing, ShutdownEnds | 220,000 |
| `tty` | 2 clients (one interruptable), reads up to 2, 2 keys per interrupt, 3 characters, 3 lines | InOrder, OneRequestEach, ReadersInOrder, OthersAnswered | 197,000 |
| `clockdisk` | 1 inode, 3 blocks, 2 slots, 2 contents | Coherent, WriteBackAccepted, ImplementsBlockStore | 81,000 |
| `treedisk` | 6 blocks, 2 inodes, 2 references per block, offsets to 2, one stop between any two writes, restart on what it leaves | AllAccounted, ImplementsSparseStore | 243,000 |
| `stores` | `MCStores`, below | WtWrittenThrough, MirrorsRight, StackRight, CipherRight, UnixRight | 272,000 |
| `servers` | `MCServers`, below | BfsRight, DirectoriesRight, RamFilesRight, StorageRight, StreamsRight | 940,000 |
| `memory` | `MCMemory`, below | PagingRight, HeapRight | 757,000 |
| `programs` | `MCPrograms`, below, with fairness but for `Boot` | CopiesRight, BootRight, ShellRight, Progress, EveryCallAnswered | 90,000 |

The instances in the four joint runs:

| Property | Instance | Parts |
|---|---|---|
| WtWrittenThrough | 2 inodes of 2 blocks, 2 slots | WrittenThrough |
| MirrorsRight | 3 mirrors of 2 blocks, any call fails on any of them | MirrorsAgree, ReadsLastWrite, SurvivorIsUsed |
| StackRight | five disks of 2 blocks under one stack | NeverCorrupted, SizeIsRange |
| CipherRight | 3 blocks, 2 passphrases, 2 contents of the heap behind the key, stops | ReadsLastWrite, OpenWithKey, SuperblockKept |
| UnixRight | 7 data blocks, 2 inodes of up to 4 blocks, double indirect | AllAccounted, KeepsWrites |
| BfsRight | 2 users, FCBs of 2 bytes in blocks of 3 (one lies across two blocks), 3 calls, one request with a refused block write, setsize to 0 and 2, restarts at any moment | KeepsWrites, FcbsSaved, AnswersOwn |
| DirectoriesRight | the superuser and another user, 4 file numbers that are reused, 5 calls, requests interleaved | NamesUnique, EntriesKept |
| RamFilesRight | the superuser and another user, 3 files, 4 calls | ContentsRight, ChangesAllowed |
| StorageRight | 3 disk blocks, 2 slots, 3 calls with up to 2 accesses each, a failing read, a stop | SyncIsDurable, ReadsLatest |
| StreamsRight | 1 stream, buffer of 3, 5 operations, a refused request; 2 streams, 3 descriptors | ReadsRight, NoLostWrites, OffsetRight, LinesOut, BufferHasRoom; RefcountExact, NoLostWrites |
| PagingRight | 2 processes in turn, 3 pages each, 3 frames, TLB of 2, one kill | MemoryRight, FramesExact, TlbRight, IllmemDeserved, TextKept, ContextRight |
| HeapRight | 3 objects of up to 5 units, a pool that grows once | BoundaryTags, FreeListsExact, ContentsKept, NoLeak, GrowsOnlyWhenFull |
| CopiesRight | 2 pushes of one file and a pull of it; a push, a pull, a gettime; kills and failing host files | PullRight, PushRight, Finishes |
| BootRight | 2 starts after an empty disk or an image, 3 rows, 1 file of a user, stops at any moment | EnvComplete, EntriesResolve |
| ShellRight | 4 commands | ListExact, WaitsForDeath, PromptReturns |
| Progress | TLB of 1, interrupts within instructions, buffers over two pages | Progress |
| EveryCallAnswered | 2 clients, 2 calls, 1 slot, a failing host read or write | EveryCallAnswered |

The type invariants are checked along, as conjuncts.

The bounds. Three processes are a client, a server and a third one that kills,
owns or competes; `RpcFailsOnDeath` and starvation need all three. Reuse of a slot
needs one process more than slots. One message per mailbox is enough to have a
mailbox empty or not, which is all that control depends on; events of deaths are
not bounded. A time-out of 2 against a horizon of 1 exercises waits that are
longer than the 1000 ms of `proc_yield`. In the cache, three blocks and two slots
have hits, misses and evictions of both slots in both orders; the proofs remove
these bounds, and that of one inode. In the terminal, three characters allow two
lines in one interrupt and a line that is read in two parts. Fewer frames than
pages (`PagingRight`) force reuse, a TLB smaller than the working set forces
flushes. Two references per block put the second level of the trees within reach
of three offsets. Buffers, chunks and blocks of two or three bytes have operations
that end before, at and behind a boundary. One stop of the tree disk (`MaxStops`)
comes at every point of every operation, on every disk that the offsets reach, and
what is done after it on a disk that it did not
damage is not bounded. One refused request in `Bfs` (`MaxFails`) with
up to one block before the refused one (`MaxWrites`) covers both ends of a write of
two blocks; the proof has no such bounds. The bounds on calls (`MaxCalls`,
`MaxOps`) keep a joint run at about two minutes.

Deadlock. `Bfs`, `StoragePath`, `DirSvr` and `Stdio` have a bound on the number of
calls and end when it is used up, a tree disk that is full ends in `panic`, and in
`Tty` the user may stop typing: their cfgs (`MCServers`, `MCPrograms`, the tree
disk's and the terminal's) say `CHECK_DEADLOCK FALSE`. All others check; where the
system rests (`Exited`, `Finished`, `Up`, `Elsewhere`) the module has a step for it.

Fairness. `FairSpec` of `Process` assumes that the scheduler loop goes on (stated
as `[]<>~AtScheduler`, which is the weak fairness of `proc_yield`: it is enabled
in exactly these states and leaves them; TLC takes very long to evaluate its
ENABLED), that a process returning from a
receive goes on, that time passes, and that the turn of a process ends
(`proc_got_interrupt`: user processes have the timer of `grass_main`, kernel
processes are loops around `sys_recv`). Nothing is assumed of other processes,
messages or devices. `FairSpec` of `Tty` assumes that the server runs again,
which is `RunnableRuns`. `StoragePath` assumes that the block and the disk
server run again and that an operation that was started is completed by its event.
`Paging` assumes that a process that runs does its next step, that a wait for the
file server and the turn of another process end (strong fairness: a process may be
woken and preempted again and again), and nothing of programs; interrupts within
one instruction are bounded by `MaxTicks`, since the timer of 10 ms cannot expire
in every instruction. `Gate` and `Shell` assume that servers and programs
that can run do; that children of the shell end is not assumed. `Boot` has no
fairness: nothing is claimed of it but safety.

Mutants. For every property of every passing run a mutant of a definition,
named in `PROJECT.json` and kept next to the original, makes TLC report a
violation: a wake-up that queues the current process, a missing zombie check, a
run queue used as a stack, a victim that is not written back, and so on.

Runs that are expected to fail, each showing a disagreement between the code and
its documentation (`PROJECT.json`, findings):

- `treedisk_free` (FreeListHoldsFreeBlocks): a stop inside `treedisk_setsize`, after a
  block was put on the free list and before the inode is emptied (`treedisk.c:288-293`),
  leaves blocks on the free list that the inode still refers to. With offsets 0 and 1
  and 7 blocks this is the shortest violation; with offset 2 there is a second window,
  in `treedisk_write`, where an indirect block that came from the free list is linked
  before it is cleared (`treedisk.c:442-445`).
- `storagepath_fault` (SyncIsDurable): one write of a disk block that fails on the
  host: the sync is answered with OK and the block is neither on the disk nor dirty.

Other disagreements. While modelling, TLC also refuted the following when a
property, a specification or a constant was changed as given; the code comment or
document that says otherwise is quoted or named. The definitions are in the
modules. The passing runs exclude exactly these cases, by the constant named here,
so that the rest of the behaviour is still checked.

| Property, with | What the code does | What is said |
|---|---|---|
| `ClockDisk!CachedBlocksWrittenThrough` | a write stays in the cache until eviction or sync (`clockdisk.c:160`) | "contains a write-through cache" (`clockdisk.c:3-4`) |
| `ClockDisk!WriteBackAccepted`, `OpenSpec` | a write beyond the end of the store returns 0 and is dropped when it is written back (`clockdisk.c:90`) | "All these return -1 upon error" (`block_store.h:44`) |
| `ClockDisk!RefusedSetSizeKeepsData`, `OpenSpec`, Growable = TRUE | a setsize that the store refuses has already thrown away dirty blocks (`clockdisk.c:72`) | the same line |
| `ClockDisk!GetSizeCoversWrites`, `OpenSpec`, Growable = TRUE | the size does not cover blocks that are only in the cache (`clockdisk.c:65`) | `block_store.h:20-21` |
| `Tty!LineReturned` | after an interrupt a full line and a reader can both be left in their queues until the next key or read (`ttysvr.c:150`) | "If there's a full line of input and a request for input is queued, return the line." (`ttysvr.c:93-95`) |
| `Tty!LineReachesReader` | a line goes to the request of a reader that was killed while another waits, and is lost (`ttysvr.c:75`) | the same words |
| `TreeDisk!SetSizeReturns`, NBlocks = 12, MaxOffset = 8, MaxStops = 0 | the capacity computed by `treedisk_free_file` wraps to 0 and the loop never ends (`treedisk.c:241`) | "Set the size of the file" (`treedisk.c:269`) |
| `Raid1!SurvivorIsUsed`, `OpenSpec` | a write beyond the end marks every mirror broken (`raid1disk.c:112`) | "implements RAID1 (basic mirroring)" (`raid1disk.c:3`) |
| `WtClockDisk!FailedWriteChangesNothing`, CanFail = TRUE | after a refused write that hits, reads return the refused block (`wtclockdisk.c:128`) | `block_store.h:44` |
| `CipherDisk!EncryptsUnderneath` | the loop of the set up encrypts its own output: only the first block survives (`cipherdisk.c:241`) | "encrypt everything underneath" (`cipherdisk.c:227`) |
| `UnixDisk!KeepsWrites`, EPB = 1, NData = 10 | the triple indirect level overwrites the pointers of the double indirect one (`unixdisk.c:481`) | "1 triple indirect pointer" (`unixdisk.c:13-18`) |
| `UnixDisk!FullIsAnError`, `OpenSpec` | on a full disk -1 is stored as a pointer, the data go to a block of inodes and 0 is returned (`unixdisk.c:392`) | "Returns (unsigned int)-1 on error" (`unixdisk.c:286`) |
| `Stdio!AppendsAtEnd`, Modes = {"a"} | a stream opened for appending overwrites the beginning (`stdio.c:486`) | "all writes go to end" (`include/stdio.h:28`) |
| `Stdio!TruncatesOnOpen`, Modes = {"w+"} | O_RDWR with O_TRUNC leaves the contents (`unistd.c:127`) | "create empty file" (`ar.c:236`) |
| `Stdio!ReadsRight`, reads of several items of 2 | bytes behind the buffered ones become input (`stdio.c:282`) | "Move what's in the buffer to the beginning." (`stdio.c:279`) |
| `Stdio!OffsetRight`, Careful = FALSE | a seek back to where unflushed output began is ignored (`stdio.c:439`) | "file offset" (`include/stdio.h:42`) |
| `Stdio!BufferHasRoom`, Clears = TRUE | after a refused flush and clearerr, the next fwrite fails its assertion | the assertion (`stdio.c:322`) |
| `Stdio!RefcountExact`, U_NFDS = 2 | dup without a free descriptor counts a reference nobody can close (`unistd.c:238`) | "max. # open files" (`unistd.c:18`) |
| `Paging!TextKept`, CopyPages = {1} | a system call with a buffer in the read-only segment overwrites program text (`procsys.c:124`) | "it must be some illegal access" (`process.c:793`) |
| `Paging!FrameFound`, NFrames = 2 | a legal page fault without a free frame stops the machine (`process.c:691`) | "should either map the address or decide to kill the process" (`docs/overview/paper.tex:316`) |
| `Paging!ExecutableRead`, FileMayGo = TRUE | a page fault whose read of the executable fails stops the machine (`process.c:718`) | the same words |
| `RamFile!ContentsRight`, MaxGap = 1 | a write behind the end leaves heap bytes in the hole (`ramfilesvr.c:153`) | "Should zero-fill if creating a hole" (`ramfilesvr.c:150`) |
| `RamFile!ModtimeRight`, MaxTime = 2 | setsize stores a time of another unit and origin (`ramfilesvr.c:237`) | "last data modification time" (`file.h:37`) |
| `Boot!Installed` | after a stop during the installation the next start takes inode 1 for an installed disk (`init.c:256`) | "initializes file system, runs login process" (`init.c:252`) |
| `Boot!RootUp` | in an image of mkfs the ".." of the root names inode 0 (`mkfs.c:87`) | "Write the initial contents of the root directory." (`init.c:271`) |
| `Gate!LandsAtOffset`, Sharing = TRUE | with two programs that push to one file a chunk is appended, not put at its position (`devgate.c:42`) | "at offset %lu" (`devgate.c:55`) |
| `Gate!PushRight`, HostFull = TRUE | a push succeeds without its data when the host is full (`devgate.c:59`) | "Push part of a file to the underlying operating system." (`gatesvr.c:55`) |

The behaviours below are part of the models of the passing runs. The properties
checked there are stated so that they hold beside them, and say how far they reach.

| Model | What the code does | What is said, and what is checked |
|---|---|---|
| `TreeDisk` | the server starts without a check (`blocksvr.c:131-136`); on a disk that a stop left with a block in two uses later writes lose acknowledged blocks, and a write cut off after the inode was written with its new size and no root (`treedisk.c:424`) makes a later setsize free block 0, the superblock (`treedisk.c:231`, `:151`) | "The remaining slots point to free blocks" (`treedisk.h:30-31`); `ImplementsSparseStore` shows that this takes a stop and that the stop itself costs only the block being written |
| `TreeDisk` over `StoragePath` | the cache writes blocks back in its own order (`clockdisk.c:90`): a block that was synced, freed and handed out again reaches the disk before the inode that no longer has it, and after a stop the synced file shows other contents (`treedisk.c:117`) | "sync all data in the block" (`block_store.h:38`); `SyncIsDurable` is about disk blocks |
| `CipherDisk` | the key stream hashes heap memory behind the key, which can differ after a restart; then nothing can be read back (`cipherdisk.c:299`) | "by using a hash of the salt and offset" (`cipherdisk.c:1-3`); `ReadsLastWrite` says that it is exactly then |
| `Bfs` | a setsize or delete that the block server refuses is answered twice; the second reply answers the next call (`bfs.c:262`, `:556`) | "operation type in request" (`file.h:67`); `AnswersOwn` leaves out the clients in `twice` and no others |
| `Bfs` | flushing an FCB of the upper half of the array makes inode 0 longer than the array and the next start installs an empty one, so that every file is forgotten (`bfs.c:591`) | "They are kept as an array in i-node 0." (`bfs.c:24-26`); `FcbsSaved` is about the blocks of the array |
| `Bfs`, `DirSvr` | a file created under the number of a deleted one has the old size and no blocks (`bfs.c:214`); a directory made so cannot be written, and the assertion ends `mkdir` (`dir.c:107`) | "size of file in bytes" (`file.h:36`); `KeepsWrites` speaks of files that start empty |
| `DirSvr` | `remove()` and `fopen()` interleave: a name is left for a file that does not exist or is another one (`stdio.c:622`) | `docs/overview/paper.tex:585-588`; `EntriesKept` shows that no other entry goes |
| `DirSvr` | a file whose insertion is refused stays allocated without a name (`stdio.c:217`); a user who may not write the directory is enough | nothing undoes the creation; no property |
| `StoragePath` | a sync of one inode is refused (`blocksvr.c:288`) | "sync data in the block at the given inode number" (`block_store.h:37`); `Answers` has it |

## 4. Proofs

All theorems are about `Spec` of their module, or of an instance in it, and hold for
every value of the constants that satisfies the assumption named; none uses a bound
of a cfg. TLC evaluates the assumptions in the runs, and the instances of the runs
satisfy the hypotheses, too. Each theorem but one states a property that a run checks
under the same name: `MemoryStaysRight` is the part of `PagingRight` that needs no
hypothesis on buffers.

| Module | Theorem | States | Assumes |
|---|---|---|---|
| `ClockDiskProofs` | `TypeCorrect` | `[]TypeOK` | `ClockDiskAssumption` |
| | `CacheCorrect` | `[]Coherent` | and `~Growable` |
| | `EvictionsAccepted` | `[]WriteBackAccepted` | and `~Growable` |
| | `Implements` | `ImplementsBlockStore` | and `~Growable` |
| `StoresProofs` | `MirroringCorrect` | `[]MirrorsRight` | `Raid1Assumption` |
| | `WritesThrough` | `[]WtWrittenThrough` | `WtClockDiskAssumption`, `~CanFail` |
| | `EncryptionCorrect` | `CipherRight` (invariants and an action property) | `CipherDiskAssumption` |
| | `LayersCorrect` | `[]StackRight` | `DiskStackAssumption` |
| `ProcessProofs` | `TablesStayConsistent` | `[]TablesConsistent` | `ProcessAssumption` |
| | `CallsStayRight`, `RpcFailsForDeathOnly` | `[]CallsRight`, `[]RpcFailsOnDeath` | the same |
| | `TimeoutStaysValid` | `[]TimeoutValid` | the same |
| | `DeadStayDead`, `OwnersAreNotified`, `ShutdownIsFinal` | `ZombiesStayDead`, `OwnerNotified`, `ShutdownFinal` (action properties) | the same |
| `PagingProofs` | `MemoryStaysRight` | `[](TypeOK /\ MemoryRight /\ FramesExact /\ TlbRight /\ ContextRight)` | `PagingConstants` |
| | `PagingStaysRight` | `[]PagingRight` | and `BuffersOutsideText` |
| `ServersProofs` | `SyncsStayDurable` | `[]StorageRight` | `StoragePathAssumption`, `"write" \notin FailingOps` |
| | `RamFilesStayRight` | `RamFilesRight` (invariants and an action property) | `RamFileConstants`, `MaxGap = 0` |
| | `FilesStayRight` | `[]BfsRight` | `BfsAssumption` |
| | `DirectoriesStayRight` | `DirectoriesRight` (invariants and an action property) | `DirSvrAssumption` |
| `BootProofs` | `BootStaysRight` | `[]BootRight` | `BootConstants` |
| `TtyProofs` | `InputStaysInOrder`, `RequestsStaySingle` | `[]InOrder`, `[]OneRequestEach` | `TtyAssumption` |
| | `ReadersStayInOrder` | `ReadersInOrder` (action property) | the same |

**Block cache.** The store below has a fixed range (`~Growable`), as the block
server uses it; `GetSizeCoversWrites` and `RefusedSetSizeKeepsData` in section 3 show
that the theorems fail without it. The inductive invariant is `TypeOK /\ Coherent /\
WriteBackAccepted`. The three parts need each other: a block that is written back
reaches the disk because it lies within its inode; it is the right one because no
other slot holds the same block; and the victim may be overwritten because a clean
slot equals the store. `UpdateEffect` describes one `cache_update` (which slot
changes, which lose their second chance, what is written back), `UpdateKeepsInv`
uses it for the invariant and `UpdateView` for the refinement; `StepImplements` has
one case per operation.

**Write-through cache.** The invariant says of every slot in use that it equals the
store, lies within its inode and is the only one of its block. Uniqueness is what
makes it inductive: a write looks for one slot and stops. `~CanFail` is needed, as
`FailedWriteChangesNothing` in section 3 shows.

**Mirrors.** `MirrorsRight` and one more conjunct: a mirror that is marked broken did
fail a call within its range (`BrokenFailed`). `SurvivorIsUsed` needs it.

**Encryption.** The invariant says what each place of `cipherdisk_init` has established
(`PlaceForm`: the key in memory is that of the superblock once the store is open), that
only block 0 can be a superblock (`BlocksForm`), and that a block the client wrote is on
the store below under exactly one key stream, that of the superblock, of the bytes behind
the key at that write and of its own offset (`WrittenKept`). Two key streams of one
block cancel exactly when they are equal, so a read gives back what was written when the
bytes behind the key are those of the write, and in no other case; nothing is assumed of
these bytes.

**Layers.** `Remembered`: what `checkdisk` remembers of an address is what is at the one
place below to which the layers lead it, whether or not the disks accept that address
now. It rests on `PlacesApart`: two addresses never lead to one place, since partitions
do not overlap (`BeforeSums`, by a loop over the partitions) and striping is division. `NothingBeyond`: the
file under `filedisk` holds zeros beyond what was written, so that a file that grows
again shows no old data.

**Kernel.** `IInv` is `TypeOK`, `TimeoutValid` and `TablesOK` of the record `K`
of the tables, and that the process that executes is runnable. `TablesOK` says more
than `TablesConsistent`: identifiers are distinct and below `pid_gen`, a process has
the flags and the mailbox its place in `proc_recv` allows, and a client whose call
failed has a dead server. The routines of `process.c` are not atomic with respect to
it: `proc_term` makes a zombie first, then tells the owner, wakes the clients and at
last returns the frames, and calls `proc_send` and `proc_wakeup` on tables in that
condition. `TablesOK(k, c, g, z, w, q)` therefore names what is in progress: a zombie
`z` that is on no queue yet, a dead process `w` that still has its frames, and the
identifier `q` of a dead server that may still have clients. Each routine has a lemma
from one such condition to another; at the end of an action all three are none. The
loops over the table (in `proc_term`, `proc_kill` and `proc_yield`) are
recursive functions on `0 .. NSlots`, and `LoopInvariant` carries a set of tables from
one slot to the next. The action properties follow from the effect of each routine
(`OnlyWakes`, `EventsOK`): who dies, who gets an event, and that nothing revives.

**Virtual memory.** The invariant is stated on a view: the process that runs, the live
processes, page tables, free list, TLB with frames and window, what programs stored,
and the pages that are being read from the executable at this moment. `ViewRight` says
that frames are owned once, that a TLB entry belongs to the process that runs and
agrees with its page table, and where the current contents of each page are: in the
window, if an entry of it may have been written, and in the frame otherwise. Each
routine (`tlb_map`, `tlb_flush`, `proc_frame_alloc`, `proc_term`, ...) takes a right view to
a right view, and an action is one or two of them. `TodosRight` says which
steps may be left of a trip into the kernel, and `ContextsRight` where the registers
of each process are. `PagingStaysRight` adds `Legal`
(what the steps in progress and the TLB entries permit) and `AccessesRight`. It has a
hypothesis that the code does not check, `BuffersOutsideText`: `copy_user` maps the
pages of a buffer writable whatever their segment, so that a system call with a
buffer in the text overwrites it (`TextKept` in section 3). Memory, frames, TLB and
registers are right without it.

**The way to the disk.** The block server changes cache and disk in many steps, each
of which may wait for the disk server, and the machine may stop between any two. The
invariant for `StoragePath` says of the cache that a slot holds the last value written to
its block (`CacheHolds`) and that every block has it on the disk unless its slot is dirty
(`DiskHolds`); of the disk that what is on it, and what was written last, is among the
values a block may have by the syncs answered (`MayHolds`). `DreqHolds` relates the
request at the disk server to the access under way: a block that is read is not in the
cache, one that is written back is in it with the same value until the reply, and the
sync is sent below only when no slot is dirty. `SyncHolds` keeps that until the answer,
which may therefore take away all values but the last. The lemmas go action by action.
No access of the inode store is excluded and reads may fail; that writes do not is needed:
the run `storagepath_fault` is the counterexample.

**RAM files.** A file, allocated or not, has the bytes that its requests make of it, and
a number that is free has none: that is what makes reuse safe. `RamStep` is the step that
`ChangesAllowed` permits; each handler has one lemma for both. `MaxGap = 0` keeps writes
from beginning behind the end of a file, where the code leaves heap bytes
(`RamFile!ContentsRight` in section 3).

**Block files.** `FsInv`. `FileOK` relates the FCB, the inode and the bytes written to a
file: every byte lies within the size and at the place in the blocks that division by the
block size gives. `Saved`: each block of the array holds the FCBs that lie in it, wholly
or in part; it is kept as long as no write was refused and file 0 was not written to.
`QueueOK`: a client that was never sent two replies has no other request at the server
than the one it waits for, and a second reply under way is for a client in `twice`. A
write is a loop over blocks of which the first and last are read before they are changed,
and which a refusal may cut off; the lemmas go from the loop (`MultiWrite`) to one block
and from a block to its bytes. That flushing one FCB writes blocks beyond it does no harm
to the array (`FsFlushSaves`): each of them is written from the cache.

**Directories.** No name is inserted twice because the server looks again; `Orders` adds
that the two reserved names are in the first two entries only, which `dir_create2` writes
without a look at the others. `CallOK` says of a call under way what the lookup before has
found. With it every step keeps each entry or takes it away as `KeepsEntries` permits
(`Keeps`): a directory that is emptied, written anew or deleted is the file that the call
had found, and the entry that `dir_do_remove` clears has the name and the number of the
call. Both hold with any clients and users, calls that are refused at any request, and any
paths of new files that do not end in a reserved name.

**Start-up.** `EnvForm`: identifiers are given out in the same order at every start, so
that place, `pid_gen` and environment determine each other, and the servers that
`grass_main` starts have the same identifiers every time. `FsForm`, of the file system in
use and of that on the disk: every entry names 0 or the identifier that its server has at
every start. Which entries there are does not matter, and so the caches may write them
back in any order and the machine may stop at any moment.

**Terminal.** The invariant is on the record of what server and handler share and on
the mailbox: `Ordered` (what was handed out, the lines in the queue and the line being
typed, one after the other, are what was typed) and `Queued` (at most one request of a
client in both queues together, which of them, and the client's state). Each routine
and each key has a lemma. `FlattenJoins` unfolds the recursive function behind
`FlattenSeq` once; `FlattenAppend` and `FlattenCons` are all that is used of it.

Only model-checked, and why:

- the liveness properties `RunnableRuns`, `AlarmsRing`, `ShutdownEnds`,
  `OthersAnswered`, `Progress`, `EveryCallAnswered` and what
  `CopiesRight` and `ShellRight` say of progress: fairness and ENABLED are out of
  reach of the prover;
- `StreamsRight` and `HeapRight`: `Stdio` and `Tlsf` walk lists with recursive
  operators, which the prover does not take;
- `AllAccounted`, `ImplementsSparseStore` and `UnixRight`: which blocks are reached
  through indirect blocks and through the chain of the free list is computed by folds
  and recursive functions, and that these blocks are disjoint is an induction over the
  depth of the tree and the length of the chain;
- `FreeListHoldsFreeBlocks` and `SyncIsDurable` with faults are refuted.

## 5. Plan

Every safety property of the runs that is within reach of the prover has a theorem.
What could follow:

1. The request loop of the spawn server, composed with `Process`.
2. `TreeDisk` over `StoragePath` in one model: what a stop leaves of a file when the
   cache, and not the tree disk, decides the order of the writes.

## 6. Not modelled, and why

Contents and formatting of messages, echo and terminal output, statistics and
logging do not influence control. Signal stacks and context switches
(`intr.c`, `ctx_*`) are machine code; their effect is the change of `cur`.

- `raid4disk.c` and `fatdisk.c` are templates without their operations, and `mt.c`
  is an empty `main`.
- `statdisk.c` and `debugdisk.c` pass operations through and count or print.
- `login.c`, `pwdsvr.c`, `passwd.c`: lookups in, and a rewrite of, one text file.
- Commands (`ls`, `cat`, `ed`, `ar`, ...) are sequential programs over the library.
- `string.c`, `math.c`, `print.c`, `scanf.c`, `qsort.c`, `sha256.c`, `map.c`,
  `memchan.c`: functions on values, which unit tests reach. `queue.c` appears as
  the sequences of the modules that use it. `malloc.c` is not used by the build.
- The Tiny C Compiler is vendored; `elf.h` holds constants.

Within modelled components: stops inside one call of `unixdisk.c` (the order of writes is
that of the tree disk, where stops are modelled), what clients write into the files that
`DirSvr` opens, accesses outside the disk in `StoragePath`, reads of an existing block
that the block server refuses to `bfs.c`, blocks of `bfs.c` that are still in the cache
of the block server when the machine stops (that loss is in `StoragePath`), programs that remove what `init` installed, the
empty file in `push`, requests that no stub sends, and the conversions of `printf` and `scanf`.
