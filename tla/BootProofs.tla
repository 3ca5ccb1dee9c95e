------------------------------ MODULE BootProofs ------------------------------
(***************************************************************************)
(* Proofs about Boot, for every length of fs_table, any number of starts   *)
(* and any number of files, on a machine that may stop at any time.        *)
(***************************************************************************)
EXTENDS Boot, Facts

\* The process identifier that a server of the kernel has after every start.
PidOf == [tty |-> 2, spawn |-> 3, gate |-> 4, ram |-> 5, disk_page |-> 6, disk_fs |-> 7,
          block |-> 8, file |-> 9, dir |-> 10, init |-> 11]

Kernel   == {"tty", "spawn", "gate", "ram", "disk_page", "disk_fs", "block", "file", "dir", "init"}
Known    == Kernel \cup {"sync", "pwd"}
Starting == Kernel \cup {"off"}
Running  == {"exist", "root", "devdir", "dev", "table", "lookup", "rmtmp", "mktmp", "sync", "pwd",
             "login", "up", "failed"}
Places   == Starting \cup Running

\* How many processes the kernel has started when it is at a place.
Rank == [p \in Places |-> IF p \in Kernel THEN PidOf[p] - 2 ELSE IF p = "off" THEN 0 ELSE 10]

\* Identifiers are given out in order, those of the kernel's servers in the same
\* order after every start; whether sync and pwd could be started is open.
EnvForm ==
    /\ pc \in Places /\ pid_gen \in Nat /\ pid_gen >= 2 + Rank[pc]
    /\ pc \in Starting => pid_gen = 2 + Rank[pc]
    /\ env \in [Known -> Nat]
    /\ \A s \in Known : env[s] < pid_gen
    /\ \A s, t \in Known : env[s] # 0 /\ env[s] = env[t] => s = t
    /\ \A s \in Kernel : env[s] = IF PidOf[s] < 2 + Rank[pc] THEN PidOf[s] ELSE 0

\* An entry names no server, or the process that the server is after every start.
EntryForm(e) == e.pid = 0 \/ (e.svr \in {"file", "ram", "tty"} /\ e.pid = PidOf[e.svr])

FsForm(f) ==
    /\ f = [root |-> f.root, up |-> f.up, tree |-> f.tree]
    /\ \A e \in f.tree : EntryForm(e) /\ e.svr \in {"file", "ram", "tty"}

GivenForm == given = [p \in DOMAIN Uses |-> given[p]] /\ EnvComplete

IInv ==
    /\ EnvForm /\ FsForm(fs) /\ FsForm(disk) /\ GivenForm
    /\ boot \in 0 .. MaxBoots /\ row \in Nat

\* The servers by name.
LEMMA ServersAre ==
    /\ Servers = Known
    /\ DOMAIN Uses = {"block", "file", "dir", "ram", "init", "sync", "pwd", "login"}
<1>1. DOMAIN StartOrder = 1 .. 10
  BY DEF StartOrder
<1>2. {StartOrder[i] : i \in 1 .. 10} = Kernel
  BY DEF StartOrder, Kernel
<1>3. Servers = Known
  BY <1>1, <1>2 DEF Servers, Known
<1>4. QED
  BY <1>3 DEF Uses

\* The identifiers of the kernel's servers and their places in the order.
LEMMA PidsDiffer ==
    /\ \A s \in Kernel : PidOf[s] \in Nat /\ PidOf[s] >= 2 /\ PidOf[s] <= 11
    /\ \A s, t \in Kernel : PidOf[s] = PidOf[t] => s = t
    /\ \A s \in Kernel : Rank[s] = PidOf[s] - 2
    /\ \A p \in Running : Rank[p] = 10
    /\ Rank["off"] = 0
    /\ \A p \in Places : Rank[p] \in Nat
<1>1. /\ \A s \in Kernel : PidOf[s] \in Nat /\ PidOf[s] >= 2 /\ PidOf[s] <= 11
      /\ \A s, t \in Kernel : PidOf[s] = PidOf[t] => s = t
  BY DEF Kernel, PidOf
<1>2. (\A p \in Running : p \notin Kernel /\ p # "off") /\ "off" \notin Kernel
  BY DEF Running, Kernel
<1>3. QED
  BY <1>1, <1>2 DEF Rank, Places, Starting

\* Types, and as many servers as identifiers.
LEMMA InvTypeOK == ASSUME IInv PROVE TypeOK
<1>1. Servers = Known
  BY ServersAre
<1>2. pid_gen \in Nat /\ boot \in 0 .. MaxBoots /\ row \in Nat
  BY DEF IInv, EnvForm
<1>3. pc \in Servers \cup {"off", "exist", "root", "devdir", "dev", "table", "lookup", "rmtmp",
                            "mktmp", "login", "up", "failed"}
  BY <1>1 DEF IInv, EnvForm, Places, Starting, Running, Known
<1> DEFINE A == {s \in Servers : env[s] # 0}
           B == {env[s] : s \in Servers} \ {0}
           f == [s \in A |-> env[s]]
<1>4. \A s, t \in A : env[s] = env[t] => s = t
  BY <1>1 DEF IInv, EnvForm
<1>5. f \in Bijection(A, B)
  <2>1. f \in [A -> B]
    OBVIOUS
  <2>2. \A b \in B : \E s \in A : f[s] = b
    OBVIOUS
  <2>3. \A s, t \in A : f[s] = f[t] => s = t
    BY <1>4
  <2> HIDE DEF A, B, f
  <2>4. QED
    BY <2>1, <2>2, <2>3 DEF Bijection, Injection, Surjection, IsInjective
<1>6. IsFiniteSet(A)
  <2>1. f \in Injection(A, 0 .. pid_gen)
    <3>1. \A s \in A : env[s] \in 0 .. pid_gen
      BY <1>1, <1>2 DEF IInv, EnvForm
    <3>2. QED
      BY <1>4, <3>1 DEF Injection, IsInjective
  <2>2. IsFiniteSet(0 .. pid_gen)
    <3>1. 0 \in Int /\ pid_gen \in Int
      BY <1>2
    <3>2. QED
      BY <3>1, FS_Interval, Zenon
  <2> HIDE DEF A, f
  <2>3. QED
    BY <2>1, <2>2, FS_Injection
<1>7. Cardinality(A) = Cardinality(B)
  <2> HIDE DEF A, B, f
  <2> QED
    BY <1>5, <1>6, FS_Bijection DEF ExistsBijection
<1>8. QED
  BY <1>2, <1>3, <1>7 DEF TypeOK

\* The invariant has the form that the property states.
LEMMA InvBootRight == ASSUME IInv PROVE BootRight
<1>1. TypeOK /\ EnvComplete
  BY InvTypeOK DEF IInv, GivenForm
<1>2. ASSUME NEW e \in fs.tree, env[e.svr] # 0 PROVE e.pid \in {0, env[e.svr]}
  <2>1. EntryForm(e) /\ e.svr \in Kernel
    BY DEF IInv, FsForm, Kernel
  <2>2. env[e.svr] = PidOf[e.svr]
    BY <1>2, <2>1 DEF IInv, EnvForm
  <2>3. QED
    BY <2>1, <2>2 DEF EntryForm
<1>3. QED
  BY <1>1, <1>2 DEF BootRight, EntriesResolve

\* No server runs when the machine is off or has just been started.
LEMMA NobodyRuns ==
    ASSUME NEW p \in {"off", "tty"}
    PROVE  /\ p \in Places /\ Rank[p] = 0
           /\ NoEnv \in [Known -> Nat] /\ (\A s \in Known : NoEnv[s] = 0)
           /\ \A s \in Kernel : ~(PidOf[s] < 2)
<1>1. NoEnv = [s \in Known |-> 0]
  BY ServersAre DEF NoEnv
<1>2. p \in Places
  BY DEF Places, Starting, Kernel
<1>3. PidOf["tty"] = 2 /\ "tty" \in Kernel
  BY DEF PidOf, Kernel
<1>4. QED
  BY <1>1, <1>2, <1>3, PidsDiffer

\* The machine before its first start.
LEMMA InitInv == ASSUME BootConstants PROVE Init => IInv
<1> SUFFICES ASSUME Init PROVE IInv
  OBVIOUS
<1>1. EnvForm
  <2>1. pc \in {"off", "tty"} /\ pid_gen = 2 /\ env = NoEnv
    BY DEF Init
  <2>2. /\ pc \in Places /\ Rank[pc] = 0
        /\ NoEnv \in [Known -> Nat] /\ (\A s \in Known : NoEnv[s] = 0)
        /\ \A s \in Kernel : ~(PidOf[s] < 2)
    BY <2>1, NobodyRuns
  <2>3. \A s \in Kernel : s \in Known
    BY DEF Known
  <2>4. QED
    BY <2>1, <2>2, <2>3 DEF EnvForm
<1>2. FsForm(fs) /\ FsForm(disk)
  BY DEF Init, FsForm, NoFs
<1>3. GivenForm
  BY DEF Init, GivenForm, EnvComplete
<1>4. QED
  BY <1>1, <1>2, <1>3 DEF IInv, Init, BootConstants

\* The process that is started finds what it calls in its environment.
LEMMA UsesKnown ==
    ASSUME IInv, NEW s \in Kernel \cup {"sync", "pwd", "login"}, pc = s, s \in DOMAIN Uses
    PROVE  \A u \in Uses[s] : env[u] # 0
<1>1. CASE s \in Kernel
  <2>1. \A u \in Uses[s] : u \in Kernel /\ PidOf[u] < PidOf[s]
    BY <1>1 DEF Kernel, PidOf, Uses
  <2>2. 2 + Rank[pc] = PidOf[s]
    BY <1>1, PidsDiffer
  <2>3. QED
    BY <2>1, <2>2, PidsDiffer DEF IInv, EnvForm
<1>2. CASE s \in {"sync", "pwd", "login"}
  <2>1. \A u \in Uses[s] : u \in Kernel
    BY <1>2 DEF Kernel, Uses
  <2>2. Rank[pc] = 10
    BY <1>2, PidsDiffer DEF Running
  <2>3. QED
    BY <2>1, <2>2, PidsDiffer DEF IInv, EnvForm
<1>3. QED
  BY <1>1, <1>2

\* Starting process s at its place: it gets the next identifier.
LEMMA SpawnedKeeps ==
    ASSUME IInv, NEW s \in Kernel \cup {"sync", "pwd", "login"}, pc = s, Spawned(s),
           pc' \in Places, pc' # "off",
           s \in Kernel => Rank[pc'] = Rank[s] + 1,
           s \notin Kernel => pc' \in Running
    PROVE  EnvForm' /\ GivenForm'
<1>1. Servers = Known
  BY ServersAre
<1>2. pid_gen \in Nat /\ env \in [Known -> Nat] /\ pid_gen >= 2 + Rank[pc]
  BY DEF IInv, EnvForm
<1>3. pid_gen' = pid_gen + 1
  BY DEF Spawned
<1>4. Rank[pc] \in Nat /\ Rank[pc'] \in Nat
  BY PidsDiffer DEF IInv, EnvForm
<1>5. pid_gen' >= 2 + Rank[pc'] /\ (pc' \in Starting => pid_gen' = 2 + Rank[pc'])
  <2>1. CASE s \in Kernel
    BY <1>2, <1>3, <1>4, <2>1 DEF IInv, EnvForm, Starting
  <2>2. CASE s \notin Kernel
    <3>1. s \in Running /\ pc' \in Running /\ pc' \notin Starting
      BY <2>2 DEF Running, Starting, Kernel
    <3>2. QED
      BY <1>2, <1>3, <3>1, PidsDiffer
  <2>3. QED
    BY <2>1, <2>2
<1>6. \A t \in Known : env'[t] = IF t = s THEN pid_gen ELSE env[t]
  BY <1>1, <1>2 DEF Spawned
<1>7. env' \in [Known -> Nat]
  BY <1>1, <1>2 DEF Spawned
<1>8. \A t \in Known : env'[t] < pid_gen'
  BY <1>2, <1>3, <1>6 DEF IInv, EnvForm
<1>9. \A t, u \in Known : env'[t] # 0 /\ env'[t] = env'[u] => t = u
  <2>1. \A t \in Known : env[t] < pid_gen /\ env[t] \in Nat
    BY <1>2 DEF IInv, EnvForm
  <2>2. QED
    BY <1>2, <1>6, <2>1 DEF IInv, EnvForm
<1>10. \A t \in Kernel : env'[t] = IF PidOf[t] < 2 + Rank[pc'] THEN PidOf[t] ELSE 0
  <2> TAKE t \in Kernel
  <2>1. t \in Known /\ env[t] = IF PidOf[t] < 2 + Rank[pc] THEN PidOf[t] ELSE 0
    BY DEF IInv, EnvForm, Known
  <2>2. CASE s \in Kernel
    <3>1. pid_gen = 2 + Rank[s] /\ PidOf[s] = 2 + Rank[s] /\ Rank[pc'] = Rank[s] + 1
      BY <2>2, PidsDiffer DEF IInv, EnvForm, Starting
    <3>2. CASE t = s
      BY <1>4, <1>6, <2>1, <3>1, <3>2
    <3>3. CASE t # s
      <4>1. PidOf[t] # PidOf[s] /\ PidOf[t] \in Nat
        BY <2>2, <3>3, PidsDiffer
      <4>2. PidOf[t] < 2 + Rank[pc'] <=> PidOf[t] < 2 + Rank[pc]
        BY <1>4, <3>1, <4>1
      <4>3. QED
        BY <1>6, <2>1, <3>3, <4>2
    <3>4. QED
      BY <3>2, <3>3
  <2>3. CASE s \notin Kernel
    <3>1. t # s /\ Rank[pc] = 10 /\ Rank[pc'] = 10
      BY <2>3, PidsDiffer DEF Running, Kernel
    <3>2. QED
      BY <1>6, <2>1, <3>1
  <2>4. QED
    BY <2>2, <2>3
<1>11. EnvForm'
  BY <1>2, <1>3, <1>5, <1>7, <1>8, <1>9, <1>10 DEF EnvForm
<1>12. GivenForm'
  <2>1. s \in DOMAIN Uses => \A u \in Uses[s] : env[u] # 0
    BY UsesKnown
  <2>2. DOMAIN given = DOMAIN Uses /\ given = [p \in DOMAIN Uses |-> given[p]]
    BY DEF IInv, GivenForm
  <2>3. CASE s \in DOMAIN Uses
    <3>1. given' = [given EXCEPT ![s] = env]
      BY <2>2, <2>3 DEF Spawned
    <3>2. given' = [p \in DOMAIN Uses |-> IF p = s THEN env ELSE given[p]]
      BY <2>2, <2>3, <3>1
    <3>3. QED
      BY <2>1, <3>2 DEF GivenForm, IInv, EnvComplete
  <2>4. CASE s \notin DOMAIN Uses
    <3>1. given' = given
      BY <2>2, <2>4 DEF Spawned
    <3>2. QED
      BY <3>1 DEF GivenForm, IInv, EnvComplete
  <2>5. QED
    BY <2>3, <2>4
<1>13. QED
  BY <1>11, <1>12

\* No process is started, and the place stays one of init's.
Quiet ==
    /\ UNCHANGED <<pid_gen, env, given, boot>>
    /\ pc' = pc \/ (pc \in Running /\ pc' \in Running)

\* A step that starts no process keeps the environments.
LEMMA QuietKeeps ==
    ASSUME IInv, Quiet, row' \in Nat, FsForm(fs'), FsForm(disk') PROVE IInv'
<1>1. Rank[pc'] = Rank[pc] /\ pc' \in Places /\ (pc' \in Starting => pc \in Starting)
  <2>1. \A p \in Running : p \in Places /\ p \notin Starting
    BY DEF Running, Places, Starting, Kernel
  <2>2. QED
    BY <2>1, PidsDiffer DEF Quiet, IInv, EnvForm
<1>2. EnvForm'
  BY <1>1 DEF Quiet, IInv, EnvForm
<1>3. GivenForm'
  BY DEF Quiet, IInv, GivenForm, EnvComplete
<1>4. QED
  BY <1>2, <1>3 DEF IInv, Quiet

\* A tree that has no entries but old ones and well-formed new ones.
LEMMA TreeKeeps ==
    ASSUME NEW f, NEW t, FsForm(f),
           \A e \in t : e \in f.tree \/ (EntryForm(e) /\ e.svr \in {"file", "ram", "tty"})
    PROVE  FsForm([f EXCEPT !.tree = t])
<1> DEFINE g == [f EXCEPT !.tree = t]
<1>1. g = [root |-> f.root, up |-> f.up, tree |-> t]
  BY DEF FsForm
<1>2. \A e \in t : EntryForm(e) /\ e.svr \in {"file", "ram", "tty"}
  BY DEF FsForm
<1> HIDE DEF g
<1>3. g.root = f.root /\ g.up = f.up /\ g.tree = t
  BY <1>1
<1>4. FsForm(g)
  BY <1>1, <1>2, <1>3 DEF FsForm
<1>5. QED
  BY <1>4 DEF g

\* Once the kernel's servers run, a new entry names the process of its server.
LEMMA NewEntry ==
    ASSUME IInv, pc \in Running, NEW n, NEW s \in {"file", "ram", "tty"}
    PROVE  /\ EntryForm(Entry(n, s, env[s])) /\ Entry(n, s, env[s]).svr = s
<1>1. s \in Kernel /\ Rank[pc] = 10
  BY PidsDiffer DEF Kernel
<1>2. env[s] = PidOf[s]
  BY <1>1, PidsDiffer DEF IInv, EnvForm
<1>3. QED
  BY <1>2 DEF EntryForm, Entry

\* Adding an entry, and removing one.
LEMMA AddKeeps ==
    ASSUME IInv, pc \in Running, NEW n, NEW s \in {"file", "ram", "tty"},
           Add(Entry(n, s, env[s]))
    PROVE  FsForm(fs')
<1> DEFINE e == Entry(n, s, env[s])
           t == fs.tree \cup {e}
<1>1. EntryForm(e) /\ e.svr \in {"file", "ram", "tty"}
  BY NewEntry
<1>2. fs' = [fs EXCEPT !.tree = t]
  BY DEF Add
<1> HIDE DEF e
<1>3. \A x \in t : x \in fs.tree \/ (EntryForm(x) /\ x.svr \in {"file", "ram", "tty"})
  BY <1>1
<1> HIDE DEF t
<1>4. QED
  BY <1>2, <1>3, TreeKeeps DEF IInv

\* Removing an entry.
LEMMA RemoveKeeps == ASSUME IInv, NEW e, Remove(e) PROVE FsForm(fs')
<1> DEFINE t == fs.tree \ {e}
<1>1. fs' = [fs EXCEPT !.tree = t]
  BY DEF Remove
<1>2. \A x \in t : x \in fs.tree
  OBVIOUS
<1> HIDE DEF t
<1>3. QED
  BY <1>1, <1>2, TreeKeeps DEF IInv

\* grass_main starts the next server.
LEMMA MainKeeps == ASSUME IInv, grass_main PROVE IInv'
<1>1. PICK i \in 1 .. 10 : pc = StartOrder[i] /\ pc' = IF i = 10 THEN "exist" ELSE StartOrder[i + 1]
  BY DEF grass_main, Order, StartOrder
<1>2. /\ pc \in Kernel /\ pc' \in Places /\ pc' # "off" /\ Rank[pc'] = Rank[pc] + 1
  <2>1. /\ StartOrder[1] = "tty" /\ StartOrder[2] = "spawn" /\ StartOrder[3] = "gate"
        /\ StartOrder[4] = "ram" /\ StartOrder[5] = "disk_page" /\ StartOrder[6] = "disk_fs"
        /\ StartOrder[7] = "block" /\ StartOrder[8] = "file" /\ StartOrder[9] = "dir"
        /\ StartOrder[10] = "init"
    BY DEF StartOrder
  <2>2. \/ pc = "tty" /\ pc' = "spawn"
        \/ pc = "spawn" /\ pc' = "gate"
        \/ pc = "gate" /\ pc' = "ram"
        \/ pc = "ram" /\ pc' = "disk_page"
        \/ pc = "disk_page" /\ pc' = "disk_fs"
        \/ pc = "disk_fs" /\ pc' = "block"
        \/ pc = "block" /\ pc' = "file"
        \/ pc = "file" /\ pc' = "dir"
        \/ pc = "dir" /\ pc' = "init"
        \/ pc = "init" /\ pc' = "exist"
    <3>1. CASE i = 1
      BY <1>1, <2>1, <3>1
    <3>2. CASE i = 2
      BY <1>1, <2>1, <3>2
    <3>3. CASE i = 3
      BY <1>1, <2>1, <3>3
    <3>4. CASE i = 4
      BY <1>1, <2>1, <3>4
    <3>5. CASE i = 5
      BY <1>1, <2>1, <3>5
    <3>6. CASE i = 6
      BY <1>1, <2>1, <3>6
    <3>7. CASE i = 7
      BY <1>1, <2>1, <3>7
    <3>8. CASE i = 8
      BY <1>1, <2>1, <3>8
    <3>9. CASE i = 9
      BY <1>1, <2>1, <3>9
    <3>10. CASE i = 10
      BY <1>1, <2>1, <3>10
    <3>11. QED
      BY <3>1, <3>2, <3>3, <3>4, <3>5, <3>6, <3>7, <3>8, <3>9, <3>10
  <2>3. /\ pc \in Kernel /\ pc' \in Places /\ pc' # "off"
        /\ pc' \in Kernel \/ pc' \in Running
    BY <2>2 DEF Kernel, Places, Starting, Running
  <2>4. \/ pc' \in Kernel /\ PidOf[pc'] = PidOf[pc] + 1
        \/ pc' \in Running /\ PidOf[pc] = 11
    BY <2>2 DEF PidOf, Kernel, Running
  <2>5. QED
    BY <2>3, <2>4, PidsDiffer
<1>3. Spawned(pc) /\ fs' = fs /\ disk' = disk /\ boot' = boot /\ row' = row
  BY DEF grass_main
<1>4. EnvForm' /\ GivenForm'
  BY <1>2, <1>3, SpawnedKeeps
<1>5. QED
  BY <1>3, <1>4 DEF IInv

\* The steps of init that start no process.
InitStep == file_exist \/ CreateRoot \/ DevDirectory \/ dev_install \/ fs_init \/ Flushed
            \/ LookupTmp \/ RemoveTmp \/ MakeTmp \/ Fails

\* init goes from one of its places to another.
LEMMA InitQuiet == ASSUME IInv, InitStep PROVE Quiet /\ pc \in Running /\ row' \in Nat /\ disk' = disk
<1>1. UNCHANGED <<pid_gen, env, given, boot>> /\ disk' = disk
  BY DEF InitStep, file_exist, CreateRoot, DevDirectory, dev_install, fs_init, Flushed, LookupTmp,
         RemoveTmp, MakeTmp, Fails, Same
<1>2. pc \in Running
  BY DEF InitStep, file_exist, CreateRoot, DevDirectory, dev_install, fs_init, Flushed, LookupTmp,
         RemoveTmp, MakeTmp, Fails, At, Running
<1>3. pc' \in Running
  BY <1>2 DEF InitStep, file_exist, CreateRoot, DevDirectory, dev_install, fs_init, Flushed, LookupTmp,
         RemoveTmp, MakeTmp, Fails, At, Running
<1>4. row' \in Nat
  BY DEF InitStep, file_exist, CreateRoot, DevDirectory, dev_install, fs_init, Flushed, LookupTmp,
         RemoveTmp, MakeTmp, Fails, IInv
<1>5. QED
  BY <1>1, <1>2, <1>3, <1>4 DEF Quiet

\* init looks for inode 1, installs the file system, makes /tmp, or gives up.
LEMMA InitKeeps == ASSUME IInv, InitStep PROVE IInv'
<1>1. Quiet /\ pc \in Running /\ row' \in Nat /\ disk' = disk
  BY InitQuiet
<1>2. FsForm(fs')
  <2>1. CASE file_exist \/ Flushed \/ LookupTmp \/ Fails
    BY <2>1 DEF file_exist, Flushed, LookupTmp, Fails, IInv
  <2>2. CASE CreateRoot
    <3>1. fs' = [root |-> TRUE, up |-> Root, tree |-> {}]
      BY <2>2 DEF CreateRoot
    <3>2. QED
      BY <3>1 DEF FsForm
  <2>3. CASE DevDirectory \/ fs_init
    <3>1. PICK n : Add(Entry(n, "file", env["file"]))
      BY <2>3 DEF DevDirectory, fs_init, OnFileServer
    <3>2. QED
      BY <1>1, <3>1, AddKeeps
  <2>4. CASE dev_install
    <3>1. row \in 1 .. 4 /\ (Add(Entry(Dev, Devices[row], env[Devices[row]])) \/ fs' = fs)
      BY <2>4 DEF dev_install, Devices
    <3>2. Devices[row] \in {"file", "ram", "tty"}
      BY <3>1 DEF Devices
    <3>3. QED
      BY <1>1, <3>1, <3>2, AddKeeps DEF IInv
  <2>5. CASE RemoveTmp
    <3>1. (\E e : Remove(e)) \/ fs' = fs
      BY <2>5 DEF RemoveTmp
    <3>2. QED
      BY <3>1, RemoveKeeps DEF IInv
  <2>6. CASE MakeTmp
    <3>1. Add(Entry(Tmp, "ram", env["ram"])) \/ fs' = fs
      BY <2>6 DEF MakeTmp
    <3>2. QED
      BY <1>1, <3>1, AddKeeps DEF IInv
  <2>7. QED
    BY <2>1, <2>2, <2>3, <2>4, <2>5, <2>6 DEF InitStep
<1>3. FsForm(disk')
  BY <1>1 DEF IInv
<1>4. QED
  BY <1>1, <1>2, <1>3, QuietKeeps

\* A server of user space is started, or cannot be.
LEMMA VexecKeeps ==
    ASSUME IInv, NEW s \in {"sync", "pwd", "login"}, NEW n \in {"pwd", "login", "up"},
           spawn_vexec(s, n)
    PROVE  IInv'
<1>1. pc = s /\ pc' = n /\ fs' = fs /\ disk' = disk /\ boot' = boot /\ row' = row
  BY DEF spawn_vexec, At
<1>2. s \in Running /\ n \in Running /\ s \notin Kernel /\ n \in Places /\ n # "off"
  BY DEF Running, Kernel, Places
<1>3. CASE Spawned(s)
  <2>1. EnvForm' /\ GivenForm'
    BY <1>1, <1>2, <1>3, SpawnedKeeps
  <2>2. QED
    BY <1>1, <2>1 DEF IInv
<1>4. CASE UNCHANGED <<pid_gen, env, given>>
  <2>1. Quiet
    BY <1>1, <1>2, <1>4 DEF Quiet
  <2>2. row' \in Nat /\ FsForm(fs') /\ FsForm(disk')
    BY <1>1 DEF IInv
  <2>3. QED
    BY <2>1, <2>2, QuietKeeps
<1>5. QED
  BY <1>3, <1>4 DEF spawn_vexec

\* Files that programs make and remove.
LEMMA UsersKeep == ASSUME IInv, CreateFile \/ RemoveFile PROVE IInv'
<1>1. pc = "up" /\ pc' = pc /\ disk' = disk /\ row' = row /\ Same
  BY DEF CreateFile, RemoveFile, Same
<1>2. Quiet /\ pc \in Running
  BY <1>1 DEF Quiet, Same, Running
<1>3. FsForm(fs')
  <2>1. CASE CreateFile
    <3>1. PICK n : Add(Entry(n, "file", env["file"]))
      BY <2>1 DEF CreateFile, OnFileServer
    <3>2. QED
      BY <1>2, <3>1, AddKeeps
  <2>2. CASE RemoveFile
    BY <2>2, RemoveKeeps DEF RemoveFile
  <2>3. QED
    BY <2>1, <2>2
<1>4. FsForm(disk') /\ row' \in Nat
  BY <1>1 DEF IInv
<1>5. QED
  BY <1>2, <1>3, <1>4, QuietKeeps

\* What is written to the disk are entries that the file system has or had.
LEMMA WriteBackKeeps == ASSUME IInv, WriteBack PROVE IInv'
<1>1. UNCHANGED <<pc, row, pid_gen, env, given, fs, sync, boot>>
  BY DEF WriteBack
<1>2. FsForm(disk')
  <2>1. CASE disk' = [disk EXCEPT !.root = fs.root, !.up = fs.up]
    <3>1. disk' = [root |-> fs.root, up |-> fs.up, tree |-> disk.tree]
      BY <2>1 DEF IInv, FsForm
    <3>2. disk'.root = fs.root /\ disk'.up = fs.up /\ disk'.tree = disk.tree
      BY <3>1
    <3>3. QED
      BY <3>1, <3>2 DEF IInv, FsForm
  <2>2. CASE \E e \in fs.tree \ disk.tree : disk' = [disk EXCEPT !.tree = @ \cup {e}]
    <3>1. PICK e \in fs.tree : disk' = [disk EXCEPT !.tree = @ \cup {e}]
      BY <2>2
    <3> DEFINE t == disk.tree \cup {e}
    <3>2. disk' = [disk EXCEPT !.tree = t]
      BY <3>1
    <3>3. \A x \in t : x \in disk.tree \/ (EntryForm(x) /\ x.svr \in {"file", "ram", "tty"})
      BY DEF IInv, FsForm
    <3> HIDE DEF t
    <3>4. QED
      BY <3>2, <3>3, TreeKeeps DEF IInv
  <2>3. CASE \E e \in disk.tree \ fs.tree : disk' = [disk EXCEPT !.tree = @ \ {e}]
    <3>1. PICK e : disk' = [disk EXCEPT !.tree = @ \ {e}]
      BY <2>3
    <3> DEFINE t == disk.tree \ {e}
    <3>2. disk' = [disk EXCEPT !.tree = t]
      BY <3>1
    <3>3. \A x \in t : x \in disk.tree
      OBVIOUS
    <3> HIDE DEF t
    <3>4. QED
      BY <3>2, <3>3, TreeKeeps DEF IInv
  <2>4. QED
    BY <2>1, <2>2, <2>3 DEF WriteBack
<1>3. Quiet /\ row' \in Nat /\ FsForm(fs')
  BY <1>1 DEF Quiet, IInv
<1>4. QED
  BY <1>2, <1>3, QuietKeeps

\* The sync server calls, and is answered.
LEMMA SyncKeeps == ASSUME IInv, syncsvr PROVE IInv'
<1>1. UNCHANGED <<pc, row, pid_gen, env, given, fs, disk, boot>>
  BY DEF syncsvr
<1>2. Quiet /\ row' \in Nat /\ FsForm(fs') /\ FsForm(disk')
  BY <1>1 DEF Quiet, IInv
<1>3. QED
  BY <1>2, QuietKeeps

\* A disk made by mkfs.
LEMMA MkfsKeeps == ASSUME IInv, mkfs PROVE IInv'
<1>1. UNCHANGED <<pc, row, pid_gen, env, given, fs, sync, boot>> /\ disk' = MkfsFs
  BY DEF mkfs
<1> DEFINE t == {Entry(i, "file", 0) : i \in Table}
<1>2. \A e \in t : EntryForm(e) /\ e.svr \in {"file", "ram", "tty"}
  <2>1. \A i : EntryForm(Entry(i, "file", 0)) /\ Entry(i, "file", 0).svr = "file"
    BY DEF EntryForm, Entry
  <2>2. QED
    BY <2>1
<1>3. MkfsFs = [root |-> TRUE, up |-> 0, tree |-> t]
  BY DEF MkfsFs
<1> HIDE DEF t
<1>4. FsForm(MkfsFs)
  BY <1>2, <1>3 DEF FsForm
<1>5. Quiet /\ row' \in Nat /\ FsForm(fs') /\ FsForm(disk')
  BY <1>1, <1>4 DEF Quiet, IInv
<1>6. QED
  BY <1>5, QuietKeeps

\* A stop, at any place, and a start.
LEMMA RestartKeeps == ASSUME BootConstants, IInv, Restart PROVE IInv'
<1>1. /\ pc' = "tty" /\ pid_gen' = 2 /\ env' = NoEnv /\ row' = 1
      /\ fs' = disk /\ disk' = disk /\ boot < MaxBoots /\ boot' = boot + 1
      /\ given' = [p \in DOMAIN Uses |-> NoEnv]
  BY DEF Restart, FirstPid, Order, StartOrder
<1>2. EnvForm'
  <2>1. pc' \in {"off", "tty"}
    BY <1>1
  <2>2. /\ pc' \in Places /\ Rank[pc'] = 0
        /\ NoEnv \in [Known -> Nat] /\ (\A s \in Known : NoEnv[s] = 0)
        /\ \A s \in Kernel : ~(PidOf[s] < 2)
    BY <2>1, NobodyRuns
  <2>3. \A s \in Kernel : s \in Known
    BY DEF Known
  <2>4. QED
    BY <1>1, <2>2, <2>3 DEF EnvForm
<1>3. GivenForm'
  BY <1>1 DEF GivenForm, EnvComplete
<1>4. boot' \in 0 .. MaxBoots
  BY <1>1 DEF IInv, BootConstants
<1>5. QED
  BY <1>1, <1>2, <1>3, <1>4 DEF IInv

\* Every step keeps the invariant.
LEMMA NextInv == ASSUME BootConstants, IInv, [Next]_vars PROVE IInv'
<1>1. CASE init
  <2>1. CASE StartServers
    BY <2>1, VexecKeeps DEF StartServers
  <2>2. CASE InitStep
    BY <2>2, InitKeeps
  <2>3. QED
    BY <1>1, <2>1, <2>2 DEF init, InitStep
<1>2. CASE UNCHANGED vars
  BY <1>2 DEF vars, IInv, EnvForm, GivenForm, EnvComplete
<1>3. QED
  BY <1>1, <1>2, MkfsKeeps, MainKeeps, UsersKeep, SyncKeeps, WriteBackKeeps, RestartKeeps DEF Next

\* The system comes up as it should (grass_main, init.c): wherever it is
\* stopped, during an installation or between any two writes to the disk, and
\* however often it is started again, every process finds the servers it calls
\* and the entries that survived name the servers of this start.
THEOREM BootStaysRight == ASSUME BootConstants PROVE Spec => []BootRight
<1>1. Init => IInv
  BY InitInv
<1>2. IInv /\ [Next]_vars => IInv'
  BY NextInv
<1>3. IInv => BootRight
  BY InvBootRight
<1>4. QED
  BY <1>1, <1>2, <1>3, PTL DEF Spec
===============================================================================
