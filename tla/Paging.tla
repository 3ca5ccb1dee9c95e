------------------------------- MODULE Paging -------------------------------
(***************************************************************************)
(* Virtual memory: the software TLB of the simulated machine (earth/tlb.c), *)
(* the page fault handler (grass/process.c), the copies between kernel and  *)
(* user space made by the system calls (grass/procsys.c), the user process  *)
(* loop (grass/spawnsvr.c) and the saving of user contexts at an interrupt  *)
(* (grass/main.c, earth/intr.c).                                            *)
(*                                                                          *)
(* The machine has one window of virtual pages.  Mapping a page copies its  *)
(* frame into the window; flushing a writable entry copies it back.  The    *)
(* kernel has no preemption: a process leaves the processor only when it    *)
(* waits for a message (among others for the file server, in the middle of  *)
(* a page fault) or when an interrupt finds it in user mode.                *)
(*                                                                          *)
(* A page is one unit of contents; a copy that crosses a page boundary is a *)
(* list of pages.                                                           *)
(***************************************************************************)
EXTENDS Integers, Sequences, FiniteSets, SequencesExt

CONSTANTS
    Procs,          \* slots of user processes, positive numbers
    Text,           \* pages of a read-only, executable segment of the file
    Data,           \* pages of a writable segment of the file
    Bss,            \* the other pages: heap and stack, zero at first
    Stack,          \* the page of the arguments and of the system call record
    CopyPages,      \* pages that system calls name as their buffers
    NFrames,        \* PHYS_FRAMES
    TlbSize,        \* TLB_SIZE
    NVals,          \* bound: number of values a process writes
    MaxOps,         \* bound: instructions and system calls
    MaxTicks,       \* bound: interrupts of a user program
    MaxSpawns,      \* bound: processes created
    MaxKills,       \* bound: processes killed by others
    FileMayGo       \* whether the executable can be deleted while it runs

Kernel  == 0                    \* the kernel processes: they have no pages
Outside == 0                    \* any address outside VIRT_BASE .. VIRT_TOP
NoFrame == 0                    \* status PI_UNINIT; also te->phys = 0
Pages   == Text \cup Data \cup Bss
Frames  == 1 .. NFrames

PagingConstants ==
    /\ Procs \subseteq Nat \ {Kernel} /\ Pages \subseteq Nat \ {Outside}
    /\ IsFiniteSet(Pages) /\ Text \cap (Data \cup Bss) = {} /\ Data \cap Bss = {}
    /\ Stack \in Bss /\ CopyPages \subseteq Pages \cup {Outside}
    /\ {NFrames, TlbSize, NVals, MaxOps, MaxTicks, MaxSpawns, MaxKills} \subseteq Nat
    /\ TlbSize > 0 /\ FileMayGo \in BOOLEAN

VARIABLES
    cur,        \* proc_current
    st,         \* st[p]: where the process is
    todo,       \* todo[p]: what is left of its current trip into the kernel
    acc,        \* acc[p]: the access its next instruction makes
    pt,         \* pt[p][page]: the frame of the page (pages[i].u.frame)
    frame,      \* contents of the frames (proc_frames)
    free,       \* proc_freeframes
    tlb,        \* tlb.entries
    tlb_index,  \* the static variable of proc_pagefault
    window,     \* contents of the virtual pages at VIRT_BASE
    cpu,        \* the registers of the processor in user mode
    saved,      \* saved[p]: sigcontext, intr_ip and intr_sp
    mem,        \* history: mem[p][page], what the program of p stored there
    ran,        \* history: ran[p], the instructions p has completed
    halt,       \* how the machine stopped, if it did
    ops, ticks, spawns, kills

vm     == <<pt, frame, free, tlb, tlb_index, window, mem>>
bounds == <<ops, ticks, spawns, kills>>
vars   == <<cur, st, todo, acc, vm, cpu, saved, ran, halt, bounds>>

None       == [page |-> Outside, op |-> "none", val |-> 0]
NoEntry    == [virt |-> Outside, phys |-> NoFrame, prot |-> {}]
Image(p, g) == IF g \in Bss THEN 0 ELSE 100 * p + g   \* what the file holds
Value(p, v) == 10 * p + v
Step(op, g, v) == [op |-> op, page |-> g, val |-> v]
Do(op)     == Step(op, Outside, 0)

Init ==
    /\ cur = Kernel
    /\ st = [p \in Procs |-> "none"]
    /\ todo = [p \in Procs |-> <<>>]
    /\ acc = [p \in Procs |-> None]
    /\ pt = [p \in Procs |-> [g \in Pages |-> NoFrame]]
    /\ frame = [f \in Frames |-> 0]
    /\ free = [i \in Frames |-> i]
    /\ tlb = [i \in 1 .. TlbSize |-> NoEntry]
    /\ tlb_index = 1
    /\ window = [g \in Pages |-> 0]
    /\ cpu = <<Kernel, 0>>
    /\ saved = [p \in Procs |-> <<Kernel, 0>>]
    /\ mem = [p \in Procs |-> [g \in Pages |-> Image(p, g)]]
    /\ ran = [p \in Procs |-> 0]
    /\ halt = "no"
    /\ ops = 0 /\ ticks = 0 /\ spawns = 0 /\ kills = 0

-----------------------------------------------------------------------------
(* The TLB.  M is the part of the state the TLB operations work on: the     *)
(* entries, the frames and the window.                                      *)

M == [tlb |-> tlb, frame |-> frame, window |-> window]

Entries(t, g) == {i \in 1 .. TlbSize : t[i].virt = g /\ t[i].phys # NoFrame}
tlb_get_entry(g) == Entries(tlb, g)
Prot(g) == UNION {tlb[i].prot : i \in tlb_get_entry(g)}

\* The entries of S that write frame f when they are synced.
Writers(m, S, f) == {i \in S : m.tlb[i].phys = f /\ "w" \in m.tlb[i].prot}

\* The loops go through the entries in order: of two that write one frame the
\* later one counts.
tlb_sync_entry(m, S) ==
    [m EXCEPT !.frame = [f \in Frames |->
        LET W == Writers(m, S, f)
        IN  IF W = {} THEN m.frame[f] ELSE m.window[m.tlb[Max(W)].virt]]]

tlb_flush_entry(m, S) ==
    [tlb_sync_entry(m, S) EXCEPT
        !.tlb = [i \in 1 .. TlbSize |->
                    IF i \in S /\ m.tlb[i].phys # NoFrame THEN NoEntry ELSE m.tlb[i]]]

tlb_unmap(m, G) == tlb_flush_entry(m, {i \in 1 .. TlbSize : m.tlb[i].virt \in G})
tlb_flush(m)    == tlb_flush_entry(m, 1 .. TlbSize)
tlb_sync(m)     == tlb_sync_entry(m, 1 .. TlbSize)

tlb_map(m, i, g, f, prot) ==
    LET n == tlb_flush_entry(m, {i})
    IN  [n EXCEPT !.tlb[i] = [virt |-> g, phys |-> f, prot |-> prot],
                  !.window[g] = n.frame[f]]

Put(m) == tlb' = m.tlb /\ frame' = m.frame /\ window' = m.window

-----------------------------------------------------------------------------
(* The end of a process.  Every valid page is unmapped from the TLB, which  *)
(* holds the pages of the current process, and its frame is freed.          *)

Held(p) == {g \in Pages : pt[p][g] # NoFrame}

proc_term(p, why) ==
    /\ st' = [st EXCEPT ![p] = why]
    /\ Put(tlb_unmap(M, Held(p)))
    /\ \E order \in [1 .. Cardinality(Held(p)) -> Held(p)] :
          /\ \A i, j \in DOMAIN order : i < j => order[i] < order[j]
          /\ free' = free \o [i \in DOMAIN order |-> pt[p][order[i]]]
    /\ UNCHANGED <<pt, mem, tlb_index>>

Dead    == {"none", "exited", "killed", "illmem"}
Live(p) == st[p] \notin Dead

-----------------------------------------------------------------------------
(* The page fault handler.  Only p = proc_current runs it.  The argument    *)
(* `access` is "?" for a fault of the user program.                         *)

Writable(g) == g \notin Text            \* es == NULL or es_prot & P_WRITE

\* An access of unknown kind to a mapped page: it was not allowed by the
\* protection bits of the entry.
Refused(g, access) ==
    access = "?" /\ tlb_get_entry(g) # {} /\ (~Writable(g) \/ "w" \in Prot(g))

\* Mutated form: every access is taken for a read.
ReadAlways(g, access) == IF access # "?" THEN access ELSE "r"

Access(g, access) ==
    IF access # "?" THEN access
    ELSE IF tlb_get_entry(g) # {} THEN "w" ELSE "r"

ProtFor(g, access) ==
    IF access = "w" THEN {"r", "w"}
    ELSE IF g \in Text THEN {"r", "x"} ELSE {"r"}

NextIndex == (tlb_index % TlbSize) + 1

\* Mapping page g of p to frame f, whose contents are now fr[f].
MapPage(p, g, f, access, fr) ==
    LET i == IF tlb_get_entry(g) = {} THEN tlb_index
             ELSE CHOOSE j \in tlb_get_entry(g) : \A k \in tlb_get_entry(g) : j <= k
    IN  /\ Put(tlb_map([M EXCEPT !.frame = fr], i, g, f, ProtFor(g, access)))
        /\ tlb_index' = IF tlb_get_entry(g) = {} THEN NextIndex
                        ELSE tlb_index

\* What frame_init finds: the contents of the file, read through the file
\* server, or zeroes.  The frame is written when the answer is in.
InFile(g) == g \notin Bss
frame_init(g, f) == IF InFile(g) THEN frame ELSE [frame EXCEPT ![f] = 0]

\* The fault of page g; `rest` is what p still has to do afterwards.
proc_pagefault(p, g, access, rest) ==
    \/ /\ g = Outside \/ Refused(g, access)
       /\ proc_term(p, "illmem")
       /\ todo' = [todo EXCEPT ![p] = <<>>]
       /\ UNCHANGED halt
    \/ /\ g # Outside /\ ~Refused(g, access) /\ pt[p][g] = NoFrame /\ free = <<>>
       /\ halt' = "out of frames"                       \* proc_frame_alloc
       /\ UNCHANGED <<st, todo, vm>>
    \/ /\ g # Outside /\ ~Refused(g, access) /\ pt[p][g] = NoFrame /\ free # <<>>
       /\ pt' = [pt EXCEPT ![p][g] = Head(free)]
       /\ free' = Tail(free)
       /\ \/ /\ InFile(g)                               \* file_read blocks
             /\ st' = [st EXCEPT ![p] = "wait"]
             /\ todo' = [todo EXCEPT ![p] = <<Step("fetch", g, Access(g, access))>> \o rest]
             /\ UNCHANGED <<tlb, frame, window, tlb_index>>
          \/ /\ ~InFile(g)
             /\ MapPage(p, g, Head(free), Access(g, access), frame_init(g, Head(free)))
             /\ todo' = [todo EXCEPT ![p] = rest]
             /\ UNCHANGED st
       /\ UNCHANGED <<mem, halt>>
    \/ /\ g # Outside /\ ~Refused(g, access) /\ pt[p][g] # NoFrame
       /\ MapPage(p, g, pt[p][g], Access(g, access), frame)
       /\ todo' = [todo EXCEPT ![p] = rest]
       /\ UNCHANGED <<st, pt, free, mem, halt>>

-----------------------------------------------------------------------------
(* The processor in user mode.                                              *)

Running(p) == cur = p /\ p # Kernel /\ st[p] = "user" /\ halt = "no"

\* The program decides on its next access.
Decide(p) ==
    /\ Running(p) /\ acc[p] = None /\ ops < MaxOps
    /\ ops' = ops + 1
    /\ \/ \E op \in {"r", "x"}, g \in Pages \cup {Outside} :
            acc' = [acc EXCEPT ![p] = [page |-> g, op |-> op, val |-> 0]]
       \/ \E g \in Pages, v \in 1 .. NVals :
            acc' = [acc EXCEPT ![p] = [page |-> g, op |-> "w", val |-> Value(p, v)]]
    /\ UNCHANGED <<cur, st, todo, vm, cpu, saved, ran, halt, ticks, spawns, kills>>

\* The protection bits of the entry allow it.
Perform(p) ==
    /\ Running(p) /\ acc[p] # None
    /\ acc[p].op \in Prot(acc[p].page)
    /\ IF acc[p].op = "w"
       THEN /\ window' = [window EXCEPT ![acc[p].page] = acc[p].val]
            /\ mem' = [mem EXCEPT ![p][acc[p].page] = acc[p].val]
       ELSE UNCHANGED <<window, mem>>
    /\ acc' = [acc EXCEPT ![p] = None]
    /\ ran' = [ran EXCEPT ![p] = @ + 1]
    /\ cpu' = <<cpu[1], cpu[2] + 1>>
    /\ UNCHANGED <<cur, st, todo, pt, frame, free, tlb, tlb_index, saved, halt, bounds>>

\* The handlers of signals and interrupts save the context of the current
\* process and switch to its kernel stack, where user_proc syncs the TLB.
intr_handler(p, context, where, steps) ==
    /\ saved' = [saved EXCEPT ![p] = context]
    /\ st' = [st EXCEPT ![p] = where]
    /\ todo' = [todo EXCEPT ![p] = steps]
    /\ Put(tlb_sync(M))
    /\ UNCHANGED <<cur, pt, free, tlb_index, mem, cpu, halt>>

PageFault(p) ==
    /\ Running(p) /\ acc[p] # None
    /\ acc[p].op \notin Prot(acc[p].page)
    /\ intr_handler(p, cpu, "kernel", <<Step("fault", acc[p].page, 0)>>)
    /\ UNCHANGED <<acc, ran, bounds>>

\* The bound MaxTicks is on the interrupts that come between an attempt of an
\* instruction and its completion.
Interrupt(p) ==                             \* INTR_CLOCK and INTR_IO
    /\ Running(p) /\ (acc[p] # None => ticks < MaxTicks)
    /\ ticks' = IF acc[p] = None THEN ticks ELSE ticks + 1
    /\ intr_handler(p, cpu, "yield", <<>>)
    /\ UNCHANGED <<acc, ran, ops, spawns, kills>>

\* The kernel's part of each system call: the record of the call is on the
\* stack; buf is the buffer sent or received, a list of pages.
Copies(op, buf, v) == [i \in DOMAIN buf |-> Step(op, buf[i], v)]
Return(v) == <<Step("to", Stack, v), Do("sync")>>
SysCall(call, buf, v) ==
    <<Step("from", Stack, 0)>> \o
    CASE call = "exit"                -> <<Do("exit")>>
      [] call \in {"send", "print"}   -> Copies("from", buf, 0) \o Return(v)
      [] call = "recv"                -> <<Do("wait")>> \o Copies("to", buf, v)
                                         \o <<Do("sync")>> \o Return(v)
      [] call = "rpc"                 -> Copies("from", buf, 0) \o <<Do("wait")>>
                                         \o Copies("to", buf, v) \o <<Do("sync")>> \o Return(v)
      [] call = "gettime"             -> Return(v)

Buffers == {<<g>> : g \in CopyPages}
           \cup {<<g, g + 1>> : g \in {h \in CopyPages : h # Outside /\ h + 1 \in CopyPages}}

\* SIGILL: the saved context is the one after the instruction.
proc_syscall(p) ==
    /\ Running(p) /\ acc[p] = None /\ ops < MaxOps
    /\ ops' = ops + 1
    /\ \E call \in {"exit", "send", "recv", "rpc", "gettime"}, v \in 1 .. NVals :
        \E buf \in Buffers :
            /\ call \in {"exit", "gettime"} => buf = <<Stack>>
            /\ call \in {"exit", "send"} => v = 1
            /\ acc' = [acc EXCEPT ![p] = [page |-> buf[1], op |-> "sys", val |-> 0]]
            /\ intr_handler(p, <<cpu[1], cpu[2] + 1>>, "kernel",
                            SysCall(call, buf, Value(p, v)))
    /\ ran' = [ran EXCEPT ![p] = @ + 1]
    /\ UNCHANGED <<ticks, spawns, kills>>

-----------------------------------------------------------------------------
(* The processor in the kernel, on behalf of the current process p.         *)

InKernel(p, op) == /\ cur = p /\ p # Kernel /\ st[p] = "kernel" /\ halt = "no"
                   /\ todo[p] # <<>> /\ Head(todo[p]).op = op

Fault(p) ==
    /\ InKernel(p, "fault")
    /\ proc_pagefault(p, Head(todo[p]).page, "?", Tail(todo[p]))
    /\ UNCHANGED <<cur, acc, cpu, saved, ran, bounds>>

\* The file server has answered: the rest of frame_init and proc_pagefault.
\* A failed read violates assert(success).
Fetched(p) ==
    /\ InKernel(p, "fetch")
    /\ LET g == Head(todo[p]).page
           f == pt[p][g]
       IN  \/ /\ MapPage(p, g, f, Head(todo[p]).val, [frame EXCEPT ![f] = Image(p, g)])
              /\ todo' = [todo EXCEPT ![p] = Tail(@)]
              /\ UNCHANGED halt
           \/ /\ FileMayGo
              /\ halt' = "executable gone"
              /\ UNCHANGED <<todo, tlb, frame, window, tlb_index>>
    /\ UNCHANGED <<cur, st, acc, pt, free, mem, cpu, saved, ran, bounds>>

\* One page of copy_user: a page that is not mapped, or not writable for a
\* copy to user space, is faulted in first.
Accessible(op, g) == IF op = "to" THEN "w" \in Prot(g) ELSE tlb_get_entry(g) # {}

copy_user(p, op) ==
    LET s == Head(todo[p])
    IN  /\ InKernel(p, op)
        /\ \/ /\ ~Accessible(op, s.page)
              /\ proc_pagefault(p, s.page, IF op = "to" THEN "w" ELSE "r", todo[p])
           \/ /\ Accessible(op, s.page)
              /\ IF op = "to" THEN /\ window' = [window EXCEPT ![s.page] = s.val]
                                   /\ mem' = [mem EXCEPT ![p][s.page] = s.val]
                 ELSE UNCHANGED <<window, mem>>
              /\ todo' = [todo EXCEPT ![p] = Tail(@)]
              /\ UNCHANGED <<st, pt, frame, free, tlb, tlb_index, halt>>
        /\ UNCHANGED <<cur, acc, cpu, saved, ran, bounds>>

SyncTlb(p) ==
    /\ InKernel(p, "sync")
    /\ Put(tlb_sync(M))
    /\ todo' = [todo EXCEPT ![p] = Tail(@)]
    /\ UNCHANGED <<cur, st, acc, pt, free, tlb_index, mem, cpu, saved, ran, halt, bounds>>

Wait(p) ==                                  \* proc_recv with nothing there
    /\ InKernel(p, "wait")
    /\ st' = [st EXCEPT ![p] = "wait"]
    /\ todo' = [todo EXCEPT ![p] = Tail(@)]
    /\ UNCHANGED <<cur, acc, vm, cpu, saved, ran, halt, bounds>>

sys_exit(p) ==
    /\ InKernel(p, "exit")
    /\ proc_term(p, "exited")
    /\ todo' = [todo EXCEPT ![p] = <<>>]
    /\ UNCHANGED <<cur, acc, cpu, saved, ran, halt, bounds>>

\* What intr_handler restores into the processor before it returns.
Context(p) == saved[p]

Runnable(p) == st[p] \in {"kernel", "yield"}

\* Back to user mode, unless proc_yield finds another process to run: from the signal stack with the context of p.
ToUser(p) ==
    /\ cur = p /\ p # Kernel /\ halt = "no"
    /\ st[p] \in {"kernel", "yield"} /\ todo[p] = <<>>
    /\ st[p] = "yield" => \A q \in Procs \ {p} : ~Runnable(q)
    /\ st' = [st EXCEPT ![p] = "user"]
    /\ acc' = [acc EXCEPT ![p] = IF @.op = "sys" THEN None ELSE @]
    /\ cpu' = Context(p)
    /\ UNCHANGED <<cur, todo, vm, saved, ran, halt, bounds>>

-----------------------------------------------------------------------------
(* The other processes: switches, wake-ups, creation and kills.             *)

\* The current process is in proc_yield, or a kernel process is.
Yielding == halt = "no" /\ (cur # Kernel => st[cur] \in {"wait", "yield"} \cup Dead)

\* Mutated form: the TLB is not flushed.
NoFlushOnSwitch(q) ==
    /\ Yielding /\ q # cur /\ (q # Kernel => Runnable(q))
    /\ cur' = q
    /\ st' = IF q = Kernel THEN st ELSE [st EXCEPT ![q] = "kernel"]   \* proc_yield returns
    /\ UNCHANGED <<tlb, frame, window, todo, acc, pt, free, tlb_index, mem, cpu, saved, ran, halt, bounds>>

proc_after_switch(q) ==
    /\ Yielding /\ q # cur /\ (q # Kernel => Runnable(q))
    /\ cur' = q
    /\ st' = IF q = Kernel THEN st ELSE [st EXCEPT ![q] = "kernel"]   \* proc_yield returns
    /\ Put(tlb_flush(M))
    /\ UNCHANGED <<todo, acc, pt, free, tlb_index, mem, cpu, saved, ran, halt, bounds>>

\* A message arrives for p: it comes from another process, or p itself is
\* waiting in proc_yield.
proc_wakeup(p) ==
    /\ Yielding /\ st[p] = "wait"
    /\ st' = [st EXCEPT ![p] = "kernel"]
    /\ UNCHANGED <<cur, todo, acc, vm, cpu, saved, ran, halt, bounds>>

\* The spawn server creates a process.  user_proc reads the header of the
\* executable, waiting for the file server, and copies the arguments to the
\* stack.
user_proc(p) ==
    /\ cur = Kernel /\ halt = "no" /\ st[p] \in Dead /\ spawns < MaxSpawns
    /\ spawns' = spawns + 1
    /\ st' = [st EXCEPT ![p] = "kernel"]
    /\ todo' = [todo EXCEPT ![p] = <<Do("wait"), Step("to", Stack, Value(p, 0)), Do("sync")>>]
    /\ acc' = [acc EXCEPT ![p] = None]
    /\ pt' = [pt EXCEPT ![p] = [g \in Pages |-> NoFrame]]
    /\ saved' = [saved EXCEPT ![p] = <<p, 0>>]
    /\ mem' = [mem EXCEPT ![p] = [g \in Pages |-> Image(p, g)]]
    /\ ran' = [ran EXCEPT ![p] = 0]
    /\ UNCHANGED <<cur, frame, free, tlb, tlb_index, window, cpu, halt, ops, ticks, kills>>

\* A kill request to the spawn server, or <ctrl>C while proc_yield looks for
\* input: the victim can be the current process.
proc_kill(p) ==
    /\ Yielding /\ Live(p) /\ kills < MaxKills
    /\ kills' = kills + 1
    /\ proc_term(p, "killed")
    /\ todo' = [todo EXCEPT ![p] = <<>>]
    /\ UNCHANGED <<cur, acc, cpu, saved, ran, halt, ops, ticks, spawns>>

Stopped == halt # "no" /\ UNCHANGED vars
Idle    == (cur = Kernel \/ ops = MaxOps) /\ UNCHANGED vars

Trap(p) == \/ Fault(p) \/ Fetched(p) \/ (\E op \in {"from", "to"} : copy_user(p, op))
           \/ SyncTlb(p) \/ Wait(p) \/ sys_exit(p) \/ ToUser(p)

Next ==
    \/ \E p \in Procs : \/ Decide(p) \/ Perform(p) \/ PageFault(p) \/ Interrupt(p)
                        \/ proc_syscall(p) \/ Trap(p) \/ proc_wakeup(p)
                        \/ user_proc(p) \/ proc_kill(p)
    \/ \E q \in Procs \cup {Kernel} : proc_after_switch(q)
    \/ Stopped \/ Idle

Spec == Init /\ [][Next]_vars

\* The program executes its next instruction, the kernel proceeds, messages
\* arrive, the clock interrupts a program that does not stop, and the run queue is fair to every process on it.
Fairness ==
    \A p \in Procs :
        /\ WF_vars(Perform(p) \/ PageFault(p) \/ Trap(p))
        /\ WF_vars(Interrupt(p)) /\ SF_vars(proc_wakeup(p))
        /\ SF_vars(proc_after_switch(p))

LiveSpec == Spec /\ Fairness

-----------------------------------------------------------------------------
(* Properties.                                                              *)

\* The type of the page tables, frames, TLB entries and saved contexts.
TypeOK ==
    /\ cur \in Procs \cup {Kernel}
    /\ \A p \in Procs : st[p] \in Dead \cup {"user", "kernel", "wait", "yield"}
    /\ pt \in [Procs -> [Pages -> Frames \cup {NoFrame}]]
    /\ \A i \in 1 .. TlbSize : tlb[i].virt \in Pages \cup {Outside}
    /\ tlb_index \in 1 .. TlbSize
    /\ Range(free) \subseteq Frames

\* What page g of process p holds: in the window if it is mapped, in its
\* frame, or still in the file.
Fetching(p, g) == todo[p] # <<>> /\ Head(todo[p]).op = "fetch" /\ Head(todo[p]).page = g
Contents(p, g) ==
    IF cur = p /\ tlb_get_entry(g) # {} THEN window[g]
    ELSE IF pt[p][g] = NoFrame \/ Fetching(p, g) THEN Image(p, g)
    ELSE frame[pt[p][g]]

\* A page of a process holds what that process, or the kernel for it, stored
\* there last, whatever was switched, evicted, killed, created or paged in
\* meanwhile (proc_after_switch, tlb_flush_entry, frame_init): no update is
\* lost and no page shows the data of another process.
MemoryRight ==
    \A p \in Procs : Live(p) => \A g \in Pages : Contents(p, g) = mem[p][g]

\* A frame belongs to one page of one process or is on the free list, once
\* (proc_frame_alloc, proc_term).
FramesExact ==
    \A f \in Frames :
        Cardinality({x \in Procs \X Pages : Live(x[1]) /\ pt[x[1]][x[2]] = f})
        + Cardinality({i \in DOMAIN free : free[i] = f}) = 1

\* The TLB holds pages of the current process only, each once and mapped to
\* its own frame (proc_pagefault, proc_after_switch, proc_term).
TlbRight ==
    \A i \in 1 .. TlbSize : tlb[i].phys # NoFrame =>
        /\ cur # Kernel /\ Live(cur)
        /\ pt[cur][tlb[i].virt] = tlb[i].phys
        /\ Entries(tlb, tlb[i].virt) = {i}

\* A process dies of an illegal access only if it made one: the guesses
\* proc_pagefault makes about a fault of unknown kind never end a legal
\* program.
IllmemDeserved ==
    \A p \in Procs : st[p] = "illmem" =>
        \/ acc[p].page = Outside
        \/ acc[p].op = "w" /\ acc[p].page \in Text
        \/ acc[p].op = "x" /\ acc[p].page \notin Text

\* The pages of a read-only segment hold the contents of the executable for
\* as long as the process lives (es_prot in proc_pagefault).
TextKept ==
    \A p \in Procs : Live(p) => \A g \in Text : mem[p][g] = Image(p, g)

\* In user mode the processor runs in the context of the current process,
\* after the instructions that process has executed (intr_handler).
ContextRight ==
    \A p \in Procs : cur = p /\ st[p] = "user" => cpu = <<p, ran[p]>>

\* All of these.
PagingRight ==
    /\ TypeOK /\ MemoryRight /\ FramesExact /\ TlbRight
    /\ IllmemDeserved /\ TextKept /\ ContextRight

\* A page fault maps the page or ends the process: the machine goes on.
FrameFound == halt # "out of frames"

\* The read of a page of the executable succeeds (assert in frame_init).
ExecutableRead == halt # "executable gone"

\* An access that was started is completed, or the process dies: faults do
\* not repeat forever (proc_pagefault maps read-only first, then writable).
Progress ==
    \A p \in Procs : acc[p] # None ~> (acc[p] = None \/ ~Live(p) \/ halt # "no")
=============================================================================
