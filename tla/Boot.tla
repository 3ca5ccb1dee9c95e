-------------------------------- MODULE Boot --------------------------------
(***************************************************************************)
(* Starting the system: the kernel starts its servers one after the other   *)
(* (grass_main), the init process installs the file system if the disk is   *)
(* new, makes a fresh /tmp and starts the servers of user space (init.c);   *)
(* the sync server writes the caches to the disk.  The machine can stop at  *)
(* any time and start again with what the disk holds.                       *)
(*                                                                          *)
(* A process knows the servers from the copy of the environment (struct     *)
(* grass_env) it is given when it is spawned.  A directory entry names the  *)
(* file server of the file by its process identifier; 0, in an image made   *)
(* by mkfs, stands for the server of the directory.                         *)
(***************************************************************************)
EXTENDS Integers, Sequences, FiniteSets

CONSTANTS
    NItems,             \* rows of fs_table
    MaxBoots,           \* bound: how often the machine is started
    MaxFiles,           \* bound: files that users create
    FromMkfs            \* whether the first disk may be an image made by mkfs

BootConstants == {NItems, MaxBoots, MaxFiles} \subseteq Nat /\ FromMkfs \in BOOLEAN

VARIABLES
    pc,         \* how far the start of the system has come
    row,        \* the row of the table, or the device, that is installed next
    pid_gen,    \* the next process identifier (proc_alloc)
    env,        \* env[s]: the process identifier of server s, 0 if unknown
    given,      \* given[p]: the environment process p was spawned with
    fs,         \* the file system as the running system sees it
    disk,       \* the file system as it is on the disk
    sync,       \* the sync server
    boot        \* history: how often the machine has been started

vars == <<pc, row, pid_gen, env, given, fs, disk, sync, boot>>

\* The order of the calls in grass_main, and who reads which entry of its
\* environment.
StartOrder == <<"tty", "spawn", "gate", "ram", "disk_page", "disk_fs", "block",
                "file", "dir", "init">>
Uses == [block |-> {"disk_fs", "spawn"}, file |-> {"block", "gate", "spawn"},
         dir   |-> {"spawn"}, ram |-> {"gate"},
         init  |-> {"file", "ram", "dir", "gate", "spawn", "tty"},
         sync  |-> {"file", "spawn"}, pwd |-> {"file", "dir", "spawn"},
         login |-> {"file", "dir", "spawn", "tty"}]
Servers == {StartOrder[i] : i \in DOMAIN StartOrder} \cup {"sync", "pwd"}
NoEnv   == [s \in Servers |-> 0]

\* A file system: whether inode 1 exists, what the ".." entry of the root
\* names, and the entries of the tree.
Root    == 1
NoFs    == [root |-> FALSE, up |-> 0, tree |-> {}]
Table   == 1 .. NItems                          \* names of entries
DevDir  == -1
Dev     == 0
Tmp     == -2
Entry(name, svr, pid) == [name |-> name, svr |-> svr, pid |-> pid]
MkfsFs  == [root |-> TRUE, up |-> 0, tree |-> {Entry(i, "file", 0) : i \in Table}]

\* The rows of the programs that init starts, and the devices in /dev.
RowOf   == [login |-> 1, pwd |-> 2, sync |-> 3]
Devices == <<"file", "file", "ram", "tty">>

Init ==
    /\ pc = "off" /\ row = 1 /\ pid_gen = 2     \* process 1 is the kernel's main
    /\ env = NoEnv
    /\ given = [p \in DOMAIN Uses |-> NoEnv]
    /\ fs = NoFs /\ disk = NoFs /\ sync = "none"
    /\ boot = 0

\* The disk may be filled by mkfs before the machine is started.
mkfs ==
    /\ pc = "off" /\ FromMkfs /\ disk = NoFs
    /\ disk' = MkfsFs
    /\ UNCHANGED <<pc, row, pid_gen, env, given, fs, sync, boot>>

-----------------------------------------------------------------------------
(* Starting processes.                                                      *)

\* spawn_load_args copies the environment; the new identifier is entered into
\* that of the parent afterwards.
Spawned(s) ==
    /\ env' = IF s \in Servers THEN [env EXCEPT ![s] = pid_gen] ELSE env
    /\ given' = IF s \in DOMAIN given THEN [given EXCEPT ![s] = env] ELSE given
    /\ pid_gen' = pid_gen + 1

Order == StartOrder

grass_main ==
    /\ \E i \in DOMAIN Order :
          /\ pc = Order[i]
          /\ pc' = IF i = Len(Order) THEN "exist" ELSE Order[i + 1]
    /\ Spawned(pc)
    /\ UNCHANGED <<row, fs, disk, sync, boot>>

-----------------------------------------------------------------------------
(* The init process.  While the file server syncs, its clients wait.        *)

At(a, b) == pc = a /\ pc' = b

\* What every step of init leaves alone that starts no process.
Same == UNCHANGED <<pid_gen, env, given, disk, sync, boot>>

Add(e)    == fs' = [fs EXCEPT !.tree = @ \cup {e}]
Remove(e) == fs' = [fs EXCEPT !.tree = @ \ {e}]

OnFileServer(name) == Entry(name, "file", env["file"])

\* Inode 1 exists: the disk is taken to be installed.
file_exist ==
    /\ At("exist", IF fs.root THEN "lookup" ELSE "root")
    /\ Same /\ UNCHANGED <<row, fs>>

\* The root directory begins with the entries of itself only.
CreateRoot ==
    /\ At("root", "devdir")
    /\ fs' = [root |-> TRUE, up |-> Root, tree |-> {}]
    /\ Same /\ UNCHANGED row

\* dir_install of /dev.
DevDirectory ==
    /\ At("devdir", "dev") /\ row' = 1
    /\ Add(OnFileServer(DevDir))
    /\ Same

\* An entry for the next device; that it could not be made is not noticed.
dev_install ==
    /\ pc = "dev" /\ row \in DOMAIN Devices
    /\ LET s == Devices[row] IN
          Add(Entry(Dev, s, env[s])) \/ UNCHANGED fs
    /\ IF row = Len(Devices) THEN pc' = "table" /\ row' = 1 ELSE row' = row + 1 /\ UNCHANGED pc
    /\ Same

\* The next row of fs_table: file_install or dir_install.
fs_init ==
    /\ pc = "table" /\ row \in Table
    /\ Add(OnFileServer(row))
    /\ row' = row + 1
    /\ Same /\ UNCHANGED pc

\* A pull from the host that fails, or a creation or an insertion that is
\* refused, ends init (exit(1) and the assertions); nothing else is started.
Fails ==
    /\ pc \in {"root", "devdir", "table", "mktmp"} /\ pc' = "failed"
    /\ Same /\ UNCHANGED <<row, fs>>

\* fflushsync(0) returns when everything is on the disk.
Flushed ==
    /\ pc = "table" /\ row \notin Table /\ pc' = "lookup"
    /\ disk = fs
    /\ Same /\ UNCHANGED <<row, fs>>

\* /tmp: an entry that is there goes first.  The results are not looked at.
TmpEntries == {e \in fs.tree : e.name = Tmp}

LookupTmp ==
    /\ At("lookup", IF TmpEntries = {} THEN "mktmp" ELSE "rmtmp")
    /\ Same /\ UNCHANGED <<row, fs>>

RemoveTmp ==
    /\ At("rmtmp", "mktmp")
    /\ (\E e \in TmpEntries : Remove(e)) \/ UNCHANGED fs
    /\ Same /\ UNCHANGED row

\* A directory in the RAM file server; a name that is there is refused.
MakeTmp ==
    /\ At("mktmp", "sync")
    /\ \/ TmpEntries = {} /\ Add(Entry(Tmp, "ram", env["ram"]))
       \/ UNCHANGED fs
    /\ Same /\ UNCHANGED row

\* The result is not looked at: without the program file, or with one that is
\* not complete, nothing is started.
spawn_vexec(s, next) ==
    /\ At(s, next)
    /\ \/ /\ \E e \in fs.tree : e.name = RowOf[s]
          /\ Spawned(s)
          /\ sync' = IF s = "sync" THEN "asleep" ELSE sync
       \/ UNCHANGED <<pid_gen, env, given, sync>>
    /\ UNCHANGED <<row, fs, disk, boot>>

StartServers == spawn_vexec("sync", "pwd") \/ spawn_vexec("pwd", "login")
                \/ spawn_vexec("login", "up")

init ==
    /\ sync # "calling"
    /\ \/ file_exist \/ CreateRoot \/ DevDirectory \/ dev_install \/ fs_init \/ Flushed
       \/ LookupTmp \/ RemoveTmp \/ MakeTmp \/ StartServers \/ Fails

-----------------------------------------------------------------------------
(* The running system.                                                      *)

UserFiles == {e \in fs.tree : e.name >= 100}

\* A program creates a file on the server of the parent directory.
CreateFile ==
    /\ pc = "up" /\ sync # "calling" /\ Cardinality(UserFiles) < MaxFiles
    /\ Add(OnFileServer(100 + Cardinality(UserFiles)))
    /\ Same /\ UNCHANGED <<pc, row>>

\* A program removes one; what was installed stays.
RemoveFile ==
    /\ pc = "up" /\ sync # "calling"
    /\ \E e \in UserFiles : Remove(e)
    /\ Same /\ UNCHANGED <<pc, row>>

\* The sync server, where it was started, wakes up and calls the file server,
\* which answers when everything is on the disk.
syncsvr ==
    /\ \/ sync = "asleep" /\ sync' = "calling"
       \/ sync = "calling" /\ disk = fs /\ sync' = "asleep"
    /\ UNCHANGED <<pc, row, pid_gen, env, given, fs, disk, boot>>

\* The cache writes a block to the disk when it needs the slot, or for a sync:
\* that of inode 1, or one with an entry that is new or was removed.
WriteBack ==
    /\ pc # "off"
    /\ \/ disk.root # fs.root /\ disk' = [disk EXCEPT !.root = fs.root, !.up = fs.up]
       \/ \E e \in fs.tree \ disk.tree : disk' = [disk EXCEPT !.tree = @ \cup {e}]
       \/ \E e \in disk.tree \ fs.tree : disk' = [disk EXCEPT !.tree = @ \ {e}]
    /\ UNCHANGED <<pc, row, pid_gen, env, given, fs, sync, boot>>

\* Mutated form: identifiers go on from those of the last start.
CountOn == pid_gen

FirstPid == 2

\* The machine stops, at any time, and is started again.
Restart ==
    /\ boot < MaxBoots /\ boot' = boot + 1
    /\ pc' = Order[1] /\ row' = 1 /\ pid_gen' = FirstPid
    /\ env' = NoEnv
    /\ given' = [p \in DOMAIN Uses |-> NoEnv]
    /\ fs' = disk /\ sync' = "none"
    /\ UNCHANGED disk

Next == mkfs \/ grass_main \/ init \/ CreateFile \/ RemoveFile \/ syncsvr \/ WriteBack \/ Restart
Spec == Init /\ [][Next]_vars

-----------------------------------------------------------------------------
(* Properties.                                                              *)

\* The type of the start-up state; no two servers have one process identifier (proc_alloc).
TypeOK ==
    /\ pid_gen \in Nat /\ boot \in 0 .. MaxBoots /\ row \in Nat
    /\ pc \in Servers \cup {"off", "exist", "root", "devdir", "dev", "table", "lookup", "rmtmp",
                            "mktmp", "login", "up", "failed"}
    /\ Cardinality({env[s] : s \in Servers} \ {0}) = Cardinality({s \in Servers : env[s] # 0})

\* Every process finds the servers it calls in the environment it was given
\* (grass_main, spawn_user_proc, init).
EnvComplete ==
    \A p \in DOMAIN Uses : given[p] # NoEnv => \A s \in Uses[p] : given[p][s] # 0

\* Every entry that survives on the disk names the file server that runs now:
\* the servers have the same identifiers after every start.
EntriesResolve ==
    \A e \in fs.tree : env[e.svr] # 0 => e.pid \in {0, env[e.svr]}

\* main.c, init.c: with stops at any moment, also during the installation,
\* every process gets the servers it calls in its environment, and the entries
\* that survive a stop, whichever they are, name the servers that run now.
BootRight == TypeOK /\ EnvComplete /\ EntriesResolve

\* When init is done, everything in fs_table is in the file system (init).
Installed == pc = "up" => Table \subseteq {e.name : e \in fs.tree}

\* The ".." entry of the root directory names the root directory.
RootUp == fs.root => fs.up = Root
=============================================================================
