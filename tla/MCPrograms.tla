------------------------------- MODULE MCPrograms -------------------------------
(***************************************************************************)
(* What must eventually happen, each in a small instance: programs that    *)
(* push and pull files, the boot sequence, the shell, the page faults of   *)
(* user programs and the calls of the block server.  A behaviour is one of *)
(* a single instance, which `part' names; the others keep their initial    *)
(* state.  Boot is extended, with its constants in the configuration.      *)
(***************************************************************************)
EXTENDS Boot

CONSTANTS Client1, Client2, NoValue      \* the storage path

VARIABLES part,
          host, cl, queue, host2, cl2, queue2,                          \* gatesvr.c
          procs, sh, started, alive, events,                            \* shell.c
          cur, st, todo, acc, pt, frame, free, tlb, tlb_index, window,  \* process.c
          cpu, saved, mem, ran, halt, ops, ticks, spawns, kills,
          sp_disk, cache, sp_cur, access, dreq, sp_queue, wait, up,     \* blocksvr.c
          data, may, ncalls, nfaults, nstops

\* Two pushes of one file and a pull of it; a push, a pull of a file that is
\* there from the start, and a program that asks for the time.
Content == [new |-> <<11, 12, 13>>, old |-> <<21, 22, 23, 24>>]
Push == [op |-> "push", file |-> "new", src |-> Content.new]
Other(op, f) == [op |-> op, file |-> f, src |-> <<>>]
Users == {"c1", "c2", "c3"}
Gate1 == INSTANCE Gate WITH
        Clients <- Users, Present <- {"old"}, BUF_SIZE <- 2, PAGESIZE <- 2,
        Job <- [c1 |-> Push, c2 |-> Push, c3 |-> Other("pull", "new")],
        Fails <- TRUE, HostFull <- FALSE, Sharing <- FALSE
Gate2 == INSTANCE Gate WITH
        Clients <- Users, Present <- {"old"}, BUF_SIZE <- 2, PAGESIZE <- 2,
        Job <- [c1 |-> Push, c2 |-> Other("pull", "old"), c3 |-> Other("time", "old")],
        Fails <- TRUE, HostFull <- FALSE, Sharing <- FALSE, host <- host2, cl <- cl2, queue <- queue2

Shell == INSTANCE Shell WITH MaxProcs <- 4

Paging == INSTANCE Paging WITH
        Procs <- {1, 2}, Text <- {1}, Data <- {2}, Bss <- {3}, Stack <- 3,
        CopyPages <- {2, 3}, NFrames <- 6, TlbSize <- 1, NVals <- 1, MaxOps <- 1,
        MaxTicks <- 2, MaxSpawns <- 2, MaxKills <- 0, FileMayGo <- FALSE

Path == INSTANCE StoragePath WITH
        Blk <- {1, 2}, Val <- {0, 3}, NCache <- 1, Client <- {Client1, Client2}, MaxCalls <- 2,
        MaxAccesses <- 2, FailingOps <- {"read", "write"}, MaxFaults <- 1, MaxStops <- 0,
        None <- NoValue,
        disk <- sp_disk, cur <- sp_cur, queue <- sp_queue

\* The constants of the instances.
ASSUME ProgramsAssumption ==
    /\ Gate1!GateConstants /\ Gate2!GateConstants /\ BootConstants
    /\ Shell!MaxProcsAssumption /\ Paging!PagingConstants /\ Path!StoragePathAssumption

gate_vars  == <<host, cl, queue>>
gate2_vars == <<host2, cl2, queue2>>
boot_vars  == vars
shell_vars == <<procs, sh, started, alive, events>>
page_vars  == <<cur, st, todo, acc, pt, frame, free, tlb, tlb_index, window,
                cpu, saved, mem, ran, halt, ops, ticks, spawns, kills>>
path_vars  == <<sp_disk, cache, sp_cur, access, dreq, sp_queue, wait, up, data, may,
                ncalls, nfaults, nstops>>
mc_vars == <<part, gate_vars, gate2_vars, boot_vars, shell_vars, page_vars, path_vars>>

MCInit ==
    /\ part \in {"gate", "gate, other programs", "boot", "shell", "paging", "storage path"}
    /\ Gate1!Init /\ Gate2!Init /\ Init /\ Shell!Init /\ Paging!Init /\ Path!Init

MCNext ==
    /\ UNCHANGED part
    /\ \/ /\ part = "gate" /\ Gate1!Next
          /\ UNCHANGED <<gate2_vars, boot_vars, shell_vars, page_vars, path_vars>>
       \/ /\ part = "gate, other programs" /\ Gate2!Next
          /\ UNCHANGED <<gate_vars, boot_vars, shell_vars, page_vars, path_vars>>
       \/ /\ part = "boot" /\ Next
          /\ UNCHANGED <<gate_vars, gate2_vars, shell_vars, page_vars, path_vars>>
       \/ /\ part = "shell" /\ Shell!Next
          /\ UNCHANGED <<gate_vars, gate2_vars, boot_vars, page_vars, path_vars>>
       \/ /\ part = "paging" /\ Paging!Next
          /\ UNCHANGED <<gate_vars, gate2_vars, boot_vars, shell_vars, path_vars>>
       \/ /\ part = "storage path" /\ Path!Next
          /\ UNCHANGED <<gate_vars, gate2_vars, boot_vars, shell_vars, page_vars>>

\* The fairness each module states, for the part that runs.
GateFairness ==
    /\ WF_gate_vars(part = "gate" /\ Gate1!gate_proc)
    /\ \A c \in Users : WF_gate_vars(part = "gate" /\ Gate1!Step(c))
    /\ WF_gate2_vars(part = "gate, other programs" /\ Gate2!gate_proc)
    /\ \A c \in Users : WF_gate2_vars(part = "gate, other programs" /\ Gate2!Step(c))

ShellFairness ==
    /\ WF_shell_vars(part = "shell" /\ Shell!AddProc)
    /\ WF_shell_vars(part = "shell" /\ Shell!WaitRound)

PagingFairness ==
    \A p \in {1, 2} :
        /\ WF_page_vars(part = "paging" /\ (Paging!Perform(p) \/ Paging!PageFault(p) \/ Paging!Trap(p)))
        /\ WF_page_vars(part = "paging" /\ Paging!Interrupt(p))
        /\ SF_page_vars(part = "paging" /\ Paging!proc_wakeup(p))
        /\ SF_page_vars(part = "paging" /\ Paging!proc_after_switch(p))

PathFairness ==
    /\ WF_path_vars(part = "storage path" /\ Path!block_proc)
    /\ WF_path_vars(part = "storage path" /\ Path!Serve)
    /\ WF_path_vars(part = "storage path" /\ Path!Cache)
    /\ WF_path_vars(part = "storage path" /\ Path!disk_proc)
    /\ WF_path_vars(part = "storage path" /\ Path!dev_disk_complete)

MCSpec ==
    /\ MCInit /\ [][MCNext]_mc_vars
    /\ GateFairness /\ ShellFairness /\ PagingFairness /\ PathFairness

-----------------------------------------------------------------------------
(* Properties: BootRight of Boot, and those of the other parts.            *)

\* push.c, pull.c, gatesvr.c: a pull copies a beginning of the file, or all of
\* it, a push that ends leaves the file as it should be, and every program that
\* pushes or pulls ends.
CopiesRight ==
    /\ [](part = "gate" => Gate1!TypeOK /\ Gate1!PullRight)
    /\ [](part = "gate, other programs" => Gate2!TypeOK /\ Gate2!PullRight)
    /\ Gate1!PushRight /\ Gate2!PushRight
    /\ part = "gate" => Gate1!Finishes
    /\ part = "gate, other programs" => Gate2!Finishes

\* shell.c: the list has exactly the children not yet known to be dead; the
\* shell leaves a wait only when what it waits for is dead, and then does.
ShellRight ==
    /\ [](part = "shell" => Shell!ListExact)
    /\ Shell!WaitsForDeath
    /\ part = "shell" => Shell!PromptReturns

\* process.c: an access that was started is completed, or its process dies.
Progress == part = "paging" => Paging!Progress

\* blocksvr.c, disksvr.c: every call is answered, also when the device fails.
EveryCallAnswered == part = "storage path" => Path!EveryCallAnswered
===============================================================================
