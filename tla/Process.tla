-------------------------------- MODULE Process --------------------------------
(***************************************************************************)
(* Processes, messages and the scheduler of the Grass kernel:              *)
(* src/src/grass/process.c and the system calls of procsys.c.              *)
(*                                                                         *)
(* There is one CPU and the kernel is not preempted, so a state is between *)
(* two kernel activities.  `phase` says which one comes next:              *)
(*   "run"      the current process executes and may enter the kernel;     *)
(*   "suspend"  the current process, whatever its state, is in             *)
(*              earth.intr.suspend() inside proc_yield(): device handlers  *)
(*              run on its stack until the scheduler loop goes on;         *)
(*   "halted"   the last process was gone and the machine exited;          *)
(*   "timedout" the machine exited because shutting down took too long;    *)
(*   "panic"    the machine ran out of frames and stopped.                 *)
(* A process that is not current is somewhere inside proc_yield(); `call`  *)
(* is the mailbox of the proc_recv() it will resume in, if any.            *)
(*                                                                         *)
(* Programs are not constrained: a process makes any system call with any  *)
(* arguments.  Message contents are abstracted to the sender, time to the  *)
(* difference between an alarm and the clock.                              *)
(***************************************************************************)
EXTENDS Integers, Sequences, FiniteSetsExt

CONSTANTS NSlots,      \* MAX_PROCS, the size of proc_set[]
          MaxPid,      \* bound on pid_gen
          MaxMsgs,     \* bound, for each type, on the messages in a mailbox
                       \* when a program may send another one
          MaxDelay,    \* bound on the time-out of a receive
          Horizon,     \* the 1000 ms proc_yield waits when no alarm is set
          Uids,        \* user ids, among them 0 (the superuser)
          Frames       \* physical frames; {} leaves out paging

ASSUME ProcessAssumption ==
    /\ NSlots \in Nat \ {0}
    /\ MaxPid \in Nat \ {0}
    /\ MaxMsgs \in [{"REQUEST", "REPLY", "EVENT"} -> Nat]
    /\ MaxDelay \in Nat
    /\ Horizon \in Nat \ {0}
    /\ Uids \subseteq Nat /\ 0 \in Uids

VARIABLES procs,         \* proc_set[]
          runq,          \* proc_runnable
          free,          \* proc_free
          freeframes,    \* proc_freeframes: how often a frame is on the list
          nprocs,        \* proc_nprocs
          nrunnable,     \* proc_nrunnable
          cur,           \* proc_current
          pid_gen,       \* next process id
          shutting_down, \* proc_shutting_down
          phase,         \* see above
          timeout        \* what is left of the earth.intr.suspend(); 0 once
                         \* there was I/O, negative to wait for I/O only

vars == <<procs, runq, free, freeframes, nprocs, nrunnable, cur, pid_gen,
          shutting_down, phase, timeout>>

Slots    == 1 .. NSlots
NoSlot   == 0
Pids     == 1 .. MaxPid
MsgTypes == {"REQUEST", "REPLY", "EVENT"}
States   == {"FREE", "RUNNABLE", "WAITING", "ZOMBIE"}
TtyPid   == 2                \* grass_main starts the terminal server first

Process ==
    [state : States, pid : 0 .. MaxPid, uid : Uids, owner : 0 .. MaxPid,
     mbox : [MsgTypes -> Seq(Pids)], waiting : SUBSET MsgTypes,
     server : 0 .. MaxPid, alarm_set : BOOLEAN, exptime : -1 .. MaxDelay,
     interruptable : BOOLEAN, pages : SUBSET Frames,
     call : MsgTypes \cup {"none"}]

\* The type of the process table, the queues and the clock (process.h).
TypeOK ==
    /\ procs \in [Slots -> Process]
    /\ runq \in Seq(Slots)
    /\ free \in Seq(Slots)
    /\ freeframes \in [Frames -> Nat]
    /\ nprocs \in Nat
    /\ nrunnable \in Nat
    /\ cur \in Slots
    /\ pid_gen \in 1 .. MaxPid + 1
    /\ shutting_down \in BOOLEAN
    /\ phase \in {"run", "suspend", "halted", "timedout", "panic"}
    /\ timeout \in -1 .. Max({MaxDelay, Horizon})

-------------------------------------------------------------------------------
(* Kernel routines as functions on the tables they change.  K is their value *)
(* before the step; Install(k) makes k their value after it.                 *)

K == [procs |-> procs, runq |-> runq, free |-> free, freeframes |-> freeframes,
      nprocs |-> nprocs, nrunnable |-> nrunnable]

Install(k) ==
    /\ procs' = k.procs
    /\ runq' = k.runq
    /\ free' = k.free
    /\ freeframes' = k.freeframes
    /\ nprocs' = k.nprocs
    /\ nrunnable' = k.nrunnable

\* for (p = proc_set; p < &proc_set[MAX_PROCS]; p++) Body(p)
SlotLoop(Body(_, _), k) ==
    LET after[s \in 0 .. NSlots] == IF s = 0 THEN k ELSE Body(after[s - 1], s)
    IN  after[NSlots]

\* A slot that is not in use.  Nothing reads the other fields of a FREE slot,
\* and proc_alloc clears them.
Blank ==
    [state |-> "FREE", pid |-> 0, uid |-> 0, owner |-> 0,
     mbox |-> [t \in MsgTypes |-> <<>>], waiting |-> {}, server |-> 0,
     alarm_set |-> FALSE, exptime |-> 0, interruptable |-> FALSE, pages |-> {},
     call |-> "none"]

proc_find(k, pid) ==
    LET found == {s \in Slots : k.procs[s].state # "FREE" /\ k.procs[s].pid = pid}
    IN  IF found = {} THEN NoSlot ELSE Min(found)

\* The state of a process structure fresh from proc_alloc.
Allocated(pid, owner, uid) ==
    [Blank EXCEPT !.state = "RUNNABLE", !.pid = pid, !.owner = owner, !.uid = uid]

proc_release(k, s) ==
    [k EXCEPT !.procs[s] = Blank, !.nprocs = @ - 1, !.free = Append(@, s)]

\* A mutant of proc_wakeup: the current process is queued too.
WakeupQueuesCurrent(k, s) ==
    [k EXCEPT !.procs[s] = [@ EXCEPT !.state = "RUNNABLE", !.alarm_set = FALSE,
                                     !.exptime = 0, !.waiting = {}],
              !.nrunnable = @ + 1,
              !.runq = Append(@, s)]

\* The expiration time has no meaning without an alarm, and is 0 then.
\* The current process is never put on the run queue when it is woken: it is
\* in earth.intr.suspend() and goes on from there.
proc_wakeup(k, s) ==
    [k EXCEPT !.procs[s] = [@ EXCEPT !.state = "RUNNABLE", !.alarm_set = FALSE,
                                     !.exptime = 0, !.waiting = {}],
              !.nrunnable = @ + 1,
              !.runq = IF s = cur THEN @ ELSE Append(@, s)]

\* Mutants of Refused: no check for a zombie; any process may reply.
RefusedNotZombie(k, src, d, t) ==
    \/ d = NoSlot
    \/ /\ t = "REPLY"
       /\ \/ k.procs[d].state # "WAITING"
          \/ "REPLY" \notin k.procs[d].waiting
          \/ k.procs[d].server # src

RefusedAnyServer(k, src, d, t) ==
    \/ d = NoSlot
    \/ k.procs[d].state = "ZOMBIE"
    \/ t = "REPLY" /\ "REPLY" \notin k.procs[d].waiting

\* The conditions under which proc_send returns false.
Refused(k, src, d, t) ==
    \/ d = NoSlot
    \/ k.procs[d].state = "ZOMBIE"
    \/ /\ t = "REPLY"
       /\ \/ k.procs[d].state # "WAITING"
          \/ "REPLY" \notin k.procs[d].waiting
          \/ k.procs[d].server # src

proc_send(k, src, dst, t) ==
    LET d  == proc_find(k, dst)
        k1 == [k EXCEPT !.procs[d].mbox[t] = Append(@, src)]
    IN  IF Refused(k, src, d, t) THEN k
        ELSE IF t \in k.procs[d].waiting THEN
           [k1 EXCEPT !.procs[d] = [@ EXCEPT !.state = "RUNNABLE", !.alarm_set = FALSE,
                                             !.exptime = 0,
                                             !.waiting = k.procs[d].waiting \ {t}],
                      !.nrunnable = @ + 1,
                      !.runq = IF d = cur THEN @ ELSE Append(@, d)]
        ELSE k1

\* A client of the server that waits for its reply.
WaitsForReply(k, s, server) ==
    /\ k.procs[s].state = "WAITING"
    /\ "REPLY" \in k.procs[s].waiting
    /\ k.procs[s].server = server

\* Mutants of FailClients: the clients are forgotten; every client waiting for
\* any server is failed.
ForgetClients(k, pid) == k

FailAllClients(k, pid) ==
    LET Fail(k1, s) == IF /\ k1.procs[s].state = "WAITING"
                          /\ "REPLY" \in k1.procs[s].waiting
                       THEN proc_wakeup(k1, s) ELSE k1
    IN  SlotLoop(Fail, k)

FailClients(k, pid) ==
    LET Fail(k1, s) == IF WaitsForReply(k1, s, pid) THEN proc_wakeup(k1, s) ELSE k1
    IN  SlotLoop(Fail, k)

\* Every frame of the process goes on the free list; pages[] is not reset.
ReleaseFrames(k, s) ==
    [k EXCEPT !.freeframes =
        [f \in Frames |-> IF f \in k.procs[s].pages THEN @[f] + 1 ELSE @[f]]]

\* A mutant of proc_term: the owner is told about running processes only.
TermQuietWaiting(k, s) ==
    LET p  == k.procs[s]
        k1 == [k EXCEPT !.procs[s].state = "ZOMBIE",
                        !.nrunnable = IF p.state = "RUNNABLE" THEN @ - 1 ELSE @]
        k2 == FailClients(IF p.state = "WAITING" THEN k1
                          ELSE proc_send(k1, p.pid, p.owner, "EVENT"), p.pid)
    IN  ReleaseFrames(IF p.state = "ZOMBIE" THEN k ELSE k2, s)

proc_term(k, s) ==
    LET p  == k.procs[s]
        k1 == [k EXCEPT !.procs[s].state = "ZOMBIE",
                        !.nrunnable = IF p.state = "RUNNABLE" THEN @ - 1 ELSE @]
        k2 == FailClients(proc_send(k1, p.pid, p.owner, "EVENT"), p.pid)
    IN  ReleaseFrames(IF p.state = "ZOMBIE" THEN k ELSE k2, s)

\* A mutant of proc_zap: a zombie is terminated again.
ZapZombie(k, s) ==
    CASE k.procs[s].state = "WAITING" -> IF s = cur THEN proc_term(k, s)
                                         ELSE proc_release(proc_term(k, s), s)
      [] k.procs[s].state = "FREE"    -> k
      [] OTHER                        -> proc_term(k, s)

\* What it takes to kill a process depends on its state.
proc_zap(k, s) ==
    CASE k.procs[s].state = "RUNNABLE" -> proc_term(k, s)
      [] k.procs[s].state = "WAITING"  -> IF s = cur THEN proc_term(k, s)
                                          ELSE proc_release(proc_term(k, s), s)
      [] OTHER                         -> k

MayKill(k, uid, s) == uid = 0 \/ uid = k.procs[s].uid

\* proc_kill with pid == 0: all interruptable processes.
KillInterruptable(k, uid) ==
    LET Zap(k1, s) == IF /\ k1.procs[s].state # "FREE"
                         /\ k1.procs[s].interruptable
                         /\ MayKill(k1, uid, s)
                      THEN proc_zap(k1, s) ELSE k1
    IN  SlotLoop(Zap, k)

-------------------------------------------------------------------------------
(* The system calls of the current process. *)

Init ==
    /\ procs = [s \in Slots |-> IF s = 1 THEN Allocated(1, 1, 0) ELSE Blank]
    /\ runq = <<>>
    /\ free = [s \in 1 .. NSlots - 1 |-> s + 1]
    /\ freeframes = [f \in Frames |-> 1]
    /\ nprocs = 1
    /\ nrunnable = 1
    /\ cur = 1
    /\ pid_gen = 2
    /\ shutting_down = FALSE
    /\ phase = "run"
    /\ timeout = 0

me == procs[cur]

Executing == phase = "run" /\ me.call = "none"

\* The process goes on after a kernel activity that changed the tables to k.
Continue(k) ==
    /\ Install(k)
    /\ UNCHANGED <<cur, phase, timeout>>

\* proc_yield: look for I/O first, without waiting.
Yield(k) ==
    /\ Install(k)
    /\ phase' = "suspend"
    /\ timeout' = 0
    /\ UNCHANGED cur

\* The first half of proc_recv on an empty mailbox.
Block(k, t, alarm) ==
    LET p == k.procs[cur]
    IN  [k EXCEPT !.procs[cur] = [p EXCEPT !.waiting = p.waiting \cup {t},
                                           !.state = "WAITING", !.call = t,
                                           !.alarm_set = alarm # 0, !.exptime = alarm],
                  !.nrunnable = @ - 1]

\* Taking a message, or finding none after a time-out or a failed call.  The
\* server is looked at only while a reply is waited for, and is 0 otherwise.
Take(k, t) ==
    LET p == k.procs[cur]
    IN  [k EXCEPT !.procs[cur] =
            [p EXCEPT !.mbox[t] = IF p.mbox[t] = <<>> THEN <<>> ELSE Tail(p.mbox[t]),
                      !.server = 0, !.call = "none"]]

sys_recv(t, max_time) ==
    /\ Executing
    /\ t \in {"REQUEST", "EVENT"}
    /\ IF me.mbox[t] = <<>> THEN Yield(Block(K, t, max_time))
                            ELSE Continue(Take(K, t))
    /\ UNCHANGED <<pid_gen, shutting_down>>

\* The second half of proc_recv, when the process runs again.
RecvReturn ==
    /\ phase = "run"
    /\ me.call # "none"
    /\ Continue(Take(K, me.call))
    /\ UNCHANGED <<pid_gen, shutting_down>>

HasRoom(pid, t) ==
    LET d == proc_find(K, pid) IN d # NoSlot => Len(procs[d].mbox[t]) < MaxMsgs[t]

sys_send(pid, t) ==
    /\ Executing
    /\ t \in {"REPLY", "EVENT"}
    /\ HasRoom(pid, t)
    /\ ~Refused(K, me.pid, proc_find(K, pid), t)
    /\ Continue(proc_send(K, me.pid, pid, t))
    /\ UNCHANGED <<pid_gen, shutting_down>>

\* The receive of a reply always waits: there is no reply yet (process.c:215,
\* see ReplyFromServer).
sys_rpc(pid) ==
    /\ Executing
    /\ pid # me.pid
    /\ HasRoom(pid, "REQUEST")
    /\ ~Refused(K, me.pid, proc_find(K, pid), "REQUEST")
    /\ LET k == [proc_send(K, me.pid, pid, "REQUEST") EXCEPT !.procs[cur].server = pid]
       IN  Yield(Block(k, "REPLY", 0))
    /\ UNCHANGED <<pid_gen, shutting_down>>

\* sys_exit, and a page fault at an illegal address.
sys_exit ==
    /\ Executing
    /\ Yield(proc_term(K, cur))
    /\ UNCHANGED <<pid_gen, shutting_down>>

\* A clock or I/O interrupt of a user process.
proc_got_interrupt ==
    /\ Executing
    /\ Yield(K)
    /\ UNCHANGED <<pid_gen, shutting_down>>

\* The first access to a page: it gets a frame, if there is one.
proc_frame_alloc(f) ==
    /\ Executing
    /\ freeframes[f] > 0
    /\ Continue([K EXCEPT !.freeframes[f] = @ - 1,
                          !.procs[cur].pages = @ \cup {f}])
    /\ UNCHANGED <<pid_gen, shutting_down>>

OutOfFrames ==
    /\ Executing
    /\ Frames # {}
    /\ \A f \in Frames : freeframes[f] = 0
    /\ phase' = "panic"
    /\ UNCHANGED <<procs, runq, free, freeframes, nprocs, nrunnable, cur, pid_gen,
                   shutting_down, timeout>>

\* proc_create_uid, called by the kernel or by the spawn server for a client:
\* the creator goes to the back of the run queue and the new process, which
\* begins in ctx_entry, runs at once.
proc_create_uid(owner, uid, interruptable) ==
    /\ Executing
    /\ ~shutting_down
    /\ pid_gen <= MaxPid
    /\ free # <<>>
    /\ LET parent == proc_find(K, owner)
           new    == Head(free)
       IN  /\ parent # NoSlot
           /\ Install([K EXCEPT
                 !.procs[new] = [Allocated(pid_gen, owner,
                                    IF procs[parent].uid # 0 THEN procs[parent].uid ELSE uid)
                                 EXCEPT !.interruptable = interruptable],
                 !.free = Tail(@),
                 !.nprocs = @ + 1,
                 !.nrunnable = @ + 1,
                 !.runq = Append(@, cur)])
           /\ cur' = new
    /\ pid_gen' = pid_gen + 1
    /\ UNCHANGED <<shutting_down, phase, timeout>>

\* proc_kill, called by the spawn server on behalf of `killer`; pid 0 stands
\* for all interruptable processes.
proc_kill(killer, pid) ==
    LET k == proc_find(K, killer)
        s == proc_find(K, pid)
    IN  /\ Executing
        /\ k # NoSlot
        /\ \/ /\ pid = 0
              /\ LET k1 == KillInterruptable(K, procs[k].uid)
                 IN  IF k1.procs[cur].state = "ZOMBIE" THEN Yield(k1) ELSE Continue(k1)
           \/ /\ s # NoSlot
              /\ LET k1 == IF MayKill(K, procs[k].uid, s) THEN proc_zap(K, s) ELSE K
                 IN  IF k1.procs[s].state = "ZOMBIE" THEN Yield(k1) ELSE Continue(k1)
        /\ UNCHANGED <<pid_gen, shutting_down>>

\* proc_shutdown, called by the spawn server or for a <ctrl>Q on the terminal.
proc_shutdown ==
    /\ Executing \/ phase = "suspend"
    /\ ~shutting_down
    /\ shutting_down' = TRUE
    /\ timeout' = 0
    /\ UNCHANGED <<procs, runq, free, freeframes, nprocs, nrunnable, cur, pid_gen, phase>>

-------------------------------------------------------------------------------
(* Device handlers, which run inside earth.intr.suspend() on the stack of    *)
(* the current process.  earth.intr.suspend() returns after them.            *)

\* A disk operation is done or a line was typed: the reply to the client.
IntrReply(src, dst) ==
    /\ phase = "suspend"
    /\ src < pid_gen
    /\ ~Refused(K, src, proc_find(K, dst), "REPLY")
    /\ Install(proc_send(K, src, dst, "REPLY"))
    /\ timeout' = 0
    /\ UNCHANGED <<cur, pid_gen, shutting_down, phase>>

\* proc_kill(tty, 0) for a <ctrl>C.  If it kills the current process, this is
\* inside a nested proc_yield() from which nothing returns.
CtrlC ==
    LET tty == proc_find(K, TtyPid)
    IN  /\ phase = "suspend"
        /\ tty # NoSlot
        /\ Install(KillInterruptable(K, procs[tty].uid))
        /\ timeout' = 0
        /\ UNCHANGED <<cur, pid_gen, shutting_down, phase>>

\* Input for which there is no reader.
OtherInput ==
    /\ phase = "suspend"
    /\ timeout # 0
    /\ timeout' = 0
    /\ UNCHANGED <<procs, runq, free, freeframes, nprocs, nrunnable, cur, pid_gen,
                   shutting_down, phase>>

\* The clock.  An alarm that expired remains in the past.
Later(n) == IF n >= 0 THEN n - 1 ELSE n

Tick ==
    /\ phase \in {"run", "suspend"}
    /\ procs' = [s \in Slots |-> IF procs[s].alarm_set
                                 THEN [procs[s] EXCEPT !.exptime = Later(@)]
                                 ELSE procs[s]]
    /\ timeout' = IF timeout > 0 THEN timeout - 1 ELSE timeout
    /\ <<procs, timeout>>' # <<procs, timeout>>
    /\ UNCHANGED <<runq, free, freeframes, nprocs, nrunnable, cur, pid_gen,
                   shutting_down, phase>>

-------------------------------------------------------------------------------
(* One round of the loop of proc_yield(), after earth.intr.suspend(). *)

AlarmSet(k, s) == k.procs[s].state = "WAITING" /\ k.procs[s].alarm_set

Expired(k, s) == AlarmSet(k, s) /\ k.procs[s].exptime <= 0

\* A mutant of WakeExpired: the current process is not looked at.
WakeOthers(k) ==
    LET Wake(k1, s) == IF s # cur /\ Expired(k1, s) THEN proc_wakeup(k1, s) ELSE k1
    IN  SlotLoop(Wake, k)

WakeExpired(k) ==
    LET Wake(k1, s) == IF Expired(k1, s) THEN proc_wakeup(k1, s) ELSE k1
    IN  SlotLoop(Wake, k)

\* A mutant of ZapAll: the current process is spared.
ZapOthers(k) ==
    LET Zap(k1, s) == IF s # cur THEN proc_zap(k1, s) ELSE k1 IN SlotLoop(Zap, k)

ZapAll(k) == SlotLoop(proc_zap, k)

\* How long to wait: until the first alarm of a process that the scan finds
\* waiting, the ones it wakes included.
NextAlarm(k) ==
    Min({Horizon} \cup {k.procs[s].exptime : s \in {p \in Slots : AlarmSet(k, p)}})

\* A mutant of Scan: shutting down is not looked at.
ScanWakesOnly == WakeExpired(K)

Scan == IF shutting_down THEN ZapAll(K) ELSE WakeExpired(K)

\* The processes on the run queue before the first runnable one are zombies:
\* they are released.
Dead(k) ==
    LET live == {i \in DOMAIN k.runq : k.procs[k.runq[i]].state = "RUNNABLE"}
    IN  SubSeq(k.runq, 1, IF live = {} THEN Len(k.runq) ELSE Min(live) - 1)

Reaped(k) ==
    LET dead == Dead(k)
    IN  [k EXCEPT !.procs = [s \in Slots |-> IF \E i \in DOMAIN dead : dead[i] = s
                                             THEN Blank ELSE @[s]],
                  !.nprocs = @ - Len(dead),
                  !.free = @ \o dead,
                  !.runq = SubSeq(@, Len(dead) + 1, Len(@))]

\* A mutant of Switched: the current process goes to the front.
SwitchedLifo(k) ==
    LET k1 == [k EXCEPT !.runq = Tail(@)]
    IN  CASE k.procs[cur].state = "RUNNABLE" -> [k1 EXCEPT !.runq = <<cur>> \o @]
          [] k.procs[cur].state = "ZOMBIE"   -> proc_release(k1, cur)
          [] OTHER                           -> k1

\* The context switch: the current process goes to the back of the run queue,
\* or is released by proc_after_switch() if it is a zombie.
Switched(k) ==
    LET k1 == [k EXCEPT !.runq = Tail(@)]
    IN  CASE k.procs[cur].state = "RUNNABLE" -> [k1 EXCEPT !.runq = Append(@, cur)]
          [] k.procs[cur].state = "ZOMBIE"   -> proc_release(k1, cur)
          [] OTHER                           -> k1

SwitchTo(k) ==
    /\ k.runq # <<>>
    /\ Install(Switched(k))
    /\ cur' = Head(k.runq)
    /\ phase' = "run"
    /\ timeout' = 0

ReturnToCurrent(k) ==
    /\ k.runq = <<>>
    /\ k.procs[cur].state = "RUNNABLE"
    /\ Install(k)
    /\ phase' = "run"
    /\ timeout' = 0
    /\ UNCHANGED cur

\* proc_cleanup empties the lists before the machine exits.
proc_cleanup(k) ==
    Install([k EXCEPT !.runq = <<>>, !.free = <<>>,
                      !.freeframes = [f \in Frames |-> 0]])

Halt(k) ==
    /\ k.runq = <<>>
    /\ k.procs[cur].state # "RUNNABLE"
    /\ k.nprocs = 1 /\ shutting_down
    /\ proc_cleanup(k)
    /\ phase' = "halted"
    /\ UNCHANGED <<cur, timeout>>

WaitLonger(k) ==
    /\ k.runq = <<>>
    /\ k.procs[cur].state # "RUNNABLE"
    /\ ~(k.nprocs = 1 /\ shutting_down)
    /\ Install(k)
    /\ timeout' = NextAlarm(K)
    /\ UNCHANGED <<cur, phase>>

\* The scheduler loop is at its top, when earth.intr.suspend() has returned.
AtScheduler == phase = "suspend" /\ timeout = 0

proc_yield ==
    /\ AtScheduler
    /\ LET k == Reaped(Scan)
       IN  SwitchTo(k) \/ ReturnToCurrent(k) \/ Halt(k) \/ WaitLonger(k)
    /\ UNCHANGED <<pid_gen, shutting_down>>

\* The loop is reached more than three seconds after proc_shutdown().
Curfew ==
    /\ AtScheduler
    /\ shutting_down
    /\ proc_cleanup(K)
    /\ phase' = "timedout"
    /\ UNCHANGED <<cur, pid_gen, shutting_down, timeout>>

Exited ==
    /\ phase \in {"halted", "timedout", "panic"}
    /\ UNCHANGED vars

Next ==
    \/ \E t \in MsgTypes, d \in 0 .. MaxDelay : sys_recv(t, d)
    \/ RecvReturn
    \/ \E p \in Pids, t \in MsgTypes : sys_send(p, t)
    \/ \E p \in Pids : sys_rpc(p)
    \/ sys_exit
    \/ proc_got_interrupt
    \/ \E f \in Frames : proc_frame_alloc(f)
    \/ OutOfFrames
    \/ \E owner \in Pids, uid \in Uids, i \in BOOLEAN : proc_create_uid(owner, uid, i)
    \/ \E killer \in Pids, p \in 0 .. MaxPid : proc_kill(killer, p)
    \/ proc_shutdown
    \/ \E src, dst \in Pids : IntrReply(src, dst)
    \/ CtrlC
    \/ OtherInput
    \/ Tick
    \/ proc_yield
    \/ Curfew
    \/ Exited

Spec == Init /\ [][Next]_vars

\* The CPU goes on: the scheduler loop, a process that returns from a receive,
\* time, and the clock interrupt that ends the turn of a process.  The first
\* conjunct is WF_vars(proc_yield): proc_yield is enabled exactly AtScheduler
\* and its steps leave AtScheduler.
Fairness ==
    /\ []<>~AtScheduler
    /\ WF_vars(RecvReturn)
    /\ WF_vars(Tick)
    /\ WF_vars(proc_got_interrupt)

FairSpec == Spec /\ Fairness

-------------------------------------------------------------------------------
(* What makes it correct. *)

Up == phase \in {"run", "suspend"}

Alive(s) == procs[s].state \in {"RUNNABLE", "WAITING"}

Queued(s) == \E i \in DOMAIN runq : runq[i] = s

Slot(pid) == proc_find(K, pid)

\* Every process that can run, and every zombie left to be released, is on the
\* run queue exactly once, unless it is the current process, which is not on it;
\* a waiting process is not on it either.  The process that executes is
\* runnable.  (The asserts of proc_yield and proc_after_switch, and what keeps
\* a process from being lost, run twice or released twice.)
RunQueue ==
    Up => /\ \A i, j \in DOMAIN runq : runq[i] = runq[j] => i = j
          /\ \A s \in Slots : Queued(s) <=> /\ s # cur
                                            /\ procs[s].state \in {"RUNNABLE", "ZOMBIE"}
          /\ me.state # "FREE"
          /\ phase = "run" => me.state = "RUNNABLE"

\* The counters and the free list that proc_alloc, proc_release, proc_term and
\* the wake-ups maintain separately agree with the process table.
Counters ==
    Up => /\ nprocs = Cardinality({s \in Slots : procs[s].state # "FREE"})
          /\ nrunnable = Cardinality({s \in Slots : procs[s].state = "RUNNABLE"})
          /\ \A i, j \in DOMAIN free : free[i] = free[j] => i = j
          /\ {free[i] : i \in DOMAIN free} = {s \in Slots : procs[s].state = "FREE"}

\* A waiting process waits for one mailbox, that of its proc_recv, which is
\* empty; a runnable one waits for none and has no alarm.  So no message comes
\* without waking the process that waits for it (the asserts of proc_recv and
\* proc_send).
WaitConsistent ==
    \A s \in Slots :
        LET p == procs[s]
        IN  /\ p.state = "WAITING" => /\ p.waiting = {p.call}
                                      /\ p.mbox[p.call] = <<>>
                                      /\ p.alarm_set => p.call # "REPLY"
            /\ p.state = "RUNNABLE" => p.waiting = {} /\ ~p.alarm_set

\* A process that waits for a reply waits for another process that is alive:
\* no client is left behind by a server that dies in any way.
RpcServerAlive ==
    Up => \A s \in Slots :
              procs[s].state = "WAITING" /\ procs[s].call = "REPLY" =>
                  LET server == Slot(procs[s].server)
                  IN  server # NoSlot /\ server # s /\ Alive(server)

\* A reply is in a mailbox only between its arrival and the return of the
\* sys_rpc that waits for it; there is one, and it is from the server called
\* (the asserts at process.c:215 and procsys.c:74).
ReplyFromServer ==
    \A s \in Slots :
        LET p == procs[s]
        IN  Alive(s) /\ p.mbox["REPLY"] # <<>> =>
                p.call = "REPLY" /\ p.mbox["REPLY"] = <<p.server>>

\* A sys_rpc that is about to return without a reply called a server that died.
RpcFailsOnDeath ==
    Up => \A s \in Slots :
              LET p == procs[s]
              IN  /\ p.state = "RUNNABLE"
                  /\ p.call = "REPLY"
                  /\ p.mbox["REPLY"] = <<>>
                  => Slot(p.server) = NoSlot \/ ~Alive(Slot(p.server))

\* proc_yield never asks earth.intr.suspend() for a negative time, which would
\* be taken for a very long one (next - now is unsigned).
TimeoutValid == timeout >= 0

\* A frame is on the free list once, or belongs to one process that is alive.
FramesConserved ==
    Up => \A f \in Frames :
        freeframes[f] + Cardinality({s \in Slots : Alive(s) /\ f \in procs[s].pages}) = 1

\* The tables of process.c agree with each other wherever the kernel gives up
\* the CPU: run queue, counters and free list, waiting flags and mailboxes,
\* frames.
TablesConsistent == TypeOK /\ RunQueue /\ Counters /\ WaitConsistent /\ FramesConserved

\* sys_rpc: a client waits for a server that is alive and gets a reply from no
\* other process.
CallsRight == RpcServerAlive /\ ReplyFromServer

\* A process that was killed does not come back: only its slot does, free.
ZombiesStayDead ==
    [][\A s \in Slots : procs[s].state = "ZOMBIE" => procs'[s].state \in {"ZOMBIE", "FREE"}]_vars

Deaths(box, pid) == Cardinality({i \in DOMAIN box : box[i] = pid})

\* Whenever processes die, however many and in whatever way, each one's owner
\* gets one event for it, unless the owner is dead or dies in the same step.
OwnerNotified ==
    [][\A s \in Slots : Alive(s) /\ ~Alive(s)' =>
          LET o == Slot(procs[s].owner)
          IN  o # NoSlot /\ Alive(o) /\ procs'[o].state \in {"RUNNABLE", "WAITING"} =>
                  Deaths(procs'[o].mbox["EVENT"], procs[s].pid) =
                      Deaths(procs[o].mbox["EVENT"], procs[s].pid) + 1]_vars

\* After proc_shutdown no process gets the CPU any more (the message at
\* process.c:658 is never printed), and when the machine exits in proc_yield
\* no process is left but the one whose stack it is on.
ShutdownFinal ==
    [][shutting_down => /\ cur' = cur
                        /\ phase' = "halted" =>
                              \A s \in Slots : procs'[s].state =
                                  IF s = cur THEN "ZOMBIE" ELSE "FREE"]_vars

\* A process on the run queue gets the CPU unless it is killed or the machine
\* is shut down first.
RunnableRuns ==
    \A s \in Slots : Queued(s) /\ procs[s].state = "RUNNABLE"
                        ~> cur = s \/ procs[s].state # "RUNNABLE" \/ ~Up

\* A receive with a time-out comes to an end.
AlarmsRing ==
    \A s \in Slots : AlarmSet(K, s) ~> ~AlarmSet(K, s) \/ ~Up

\* A shutdown comes to an end.
ShutdownEnds == shutting_down ~> ~Up
===============================================================================
