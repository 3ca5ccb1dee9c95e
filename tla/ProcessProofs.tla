----------------------------- MODULE ProcessProofs -----------------------------
(***************************************************************************)
(* The kernel keeps its tables right, for any number of processes, ids,    *)
(* frames and users and for any bound on messages and alarms.  First the   *)
(* invariant of the tables and a lemma for every kernel routine of Process *)
(* that says it is kept; then the inductive invariant, one lemma for each  *)
(* action, and the theorems.                                               *)
(*                                                                         *)
(* The routines are not atomic with respect to the invariant: proc_term    *)
(* makes a zombie first, then tells the owner, wakes the clients and at    *)
(* last returns the frames, and a zombie that was waiting is on no queue   *)
(* until proc_release.  `z' is such a zombie, `w' a process that is dead   *)
(* and still has its frames, `q' the id of a server that is dead and may   *)
(* still have clients; NoSlot and 0 stand for none.                        *)
(***************************************************************************)
EXTENDS Process, Facts

Tables ==
    [procs : [Slots -> Process], runq : Seq(Slots), free : Seq(Slots),
     freeframes : [Frames -> Nat], nprocs : Int, nrunnable : Int]

Live(k, s) == k.procs[s].state \in {"RUNNABLE", "WAITING"}

Used(k) == {s \in Slots : k.procs[s].state # "FREE"}

Runnable(k) == {s \in Slots : k.procs[s].state = "RUNNABLE"}

\* The run queue, with c the current process.
QueueOK(k, c, z) ==
    /\ c \in Slots
    /\ Distinct(k.runq)
    /\ \A s \in Slots : Has(k.runq, s) <=> /\ s # c /\ s # z
                                           /\ k.procs[s].state \in {"RUNNABLE", "ZOMBIE"}
    /\ k.procs[c].state # "FREE"
    /\ z \in Slots => z # c /\ k.procs[z].state = "ZOMBIE"

\* The counters and the free list.
CountOK(k) ==
    /\ k.nprocs = Cardinality(Used(k))
    /\ k.nrunnable = Cardinality(Runnable(k))
    /\ Distinct(k.free)
    /\ \A s \in Slots : Has(k.free, s) <=> k.procs[s].state = "FREE"

\* The processes that have a frame.
Owners(k, f, w) == {s \in Slots : (Live(k, s) \/ s = w) /\ f \in k.procs[s].pages}

FrameOK(k, w) ==
    /\ w \in Slots => k.procs[w].state = "ZOMBIE"
    /\ \A f \in Frames : k.freeframes[f] + Cardinality(Owners(k, f, w)) = 1

\* Process ids are given once, by pid_gen (g).
PidOK(k, g) ==
    /\ \A s, t \in Used(k) : k.procs[s].pid = k.procs[t].pid => s = t
    /\ \A s \in Used(k) : k.procs[s].pid \in 1 .. g - 1 /\ k.procs[s].server < g

\* A process structure by itself: what it waits for, and what replies it has.
WaitOK(p) ==
    /\ p.state = "WAITING" => /\ p.waiting = {p.call}
                              /\ p.mbox[p.call] = <<>>
                              /\ p.alarm_set => p.call # "REPLY"
    /\ p.state = "RUNNABLE" => p.waiting = {} /\ ~p.alarm_set

ReplyOK(p) ==
    p.state \in {"RUNNABLE", "WAITING"} /\ p.mbox["REPLY"] # <<>> =>
        p.call = "REPLY" /\ p.mbox["REPLY"] = <<p.server>>

SlotsOK(k) == \A s \in Slots : WaitOK(k.procs[s]) /\ ReplyOK(k.procs[s])

\* No process alive has this id.
Gone(k, pid) == \A t \in Slots : Live(k, t) => k.procs[t].pid # pid

\* A process that waits for a reply waits for another one that is alive, ...
CallOK(k, q) ==
    \A s \in Slots : k.procs[s].state = "WAITING" /\ k.procs[s].call = "REPLY" =>
        /\ k.procs[s].server # k.procs[s].pid
        /\ (q # 0 /\ k.procs[s].server = q) \/ ~Gone(k, k.procs[s].server)

\* ... and one whose call failed waited for one that is dead.
FailOK(k) ==
    \A s \in Slots : /\ k.procs[s].state = "RUNNABLE"
                     /\ k.procs[s].call = "REPLY"
                     /\ k.procs[s].mbox["REPLY"] = <<>>
                     => Gone(k, k.procs[s].server)

TablesOK(k, c, g, z, w, q) ==
    /\ k \in Tables
    /\ QueueOK(k, c, z)
    /\ CountOK(k)
    /\ FrameOK(k, w)
    /\ PidOK(k, g)
    /\ SlotsOK(k)
    /\ CallOK(k, q)
    /\ FailOK(k)

\* What a routine that sends and wakes never does: it kills no process, and
\* leaves alone who a process is and what memory it has.
OnlyWakes(k, r) ==
    \A s \in Slots :
        /\ \/ r.procs[s].state = k.procs[s].state
           \/ k.procs[s].state = "WAITING" /\ r.procs[s].state = "RUNNABLE"
        /\ r.procs[s].pid = k.procs[s].pid
        /\ r.procs[s].owner = k.procs[s].owner
        /\ r.procs[s].uid = k.procs[s].uid
        /\ r.procs[s].interruptable = k.procs[s].interruptable
        /\ r.procs[s].pages = k.procs[s].pages

SameEvents(k, r) == \A s \in Slots : r.procs[s].mbox["EVENT"] = k.procs[s].mbox["EVENT"]

\* What a routine that kills and wakes processes never does: it creates none,
\* brings none back to life, and leaves alone who a process is.
OnlyKills(k, r) ==
    \A s \in Slots :
        /\ k.procs[s].state = "FREE" => r.procs[s].state = "FREE"
        /\ k.procs[s].state = "ZOMBIE" => r.procs[s].state \in {"ZOMBIE", "FREE"}
        /\ k.procs[s].state = "RUNNABLE" => r.procs[s].state \in {"RUNNABLE", "ZOMBIE", "FREE"}
        /\ r.procs[s].state # "FREE" => /\ r.procs[s].pid = k.procs[s].pid
                                        /\ r.procs[s].owner = k.procs[s].owner
                                        /\ r.procs[s].uid = k.procs[s].uid
                                        /\ r.procs[s].interruptable = k.procs[s].interruptable
-------------------------------------------------------------------------------
(* Waking a process. *)

\* The tables r are k with slot s woken; the mailboxes of s may have changed.
Wakes(k, r, s) ==
    /\ r \in Tables
    /\ r.procs[s].state = "RUNNABLE"
    /\ r.procs[s].waiting = {} /\ r.procs[s].alarm_set = FALSE
    /\ r.procs[s].pid = k.procs[s].pid /\ r.procs[s].owner = k.procs[s].owner
    /\ r.procs[s].uid = k.procs[s].uid /\ r.procs[s].server = k.procs[s].server
    /\ r.procs[s].interruptable = k.procs[s].interruptable
    /\ r.procs[s].call = k.procs[s].call /\ r.procs[s].pages = k.procs[s].pages
    /\ \A t \in Slots \ {s} : r.procs[t] = k.procs[t]
    /\ r.runq = IF s = cur THEN k.runq ELSE Append(k.runq, s)
    /\ r.free = k.free /\ r.freeframes = k.freeframes
    /\ r.nprocs = k.nprocs /\ r.nrunnable = k.nrunnable + 1

\* Sets of slots are finite, and an element more or less counts as one.
LEMMA SlotSets ==
    ASSUME NEW S \in SUBSET Slots
    PROVE  /\ IsFiniteSet(S) /\ Cardinality(S) \in Nat
           /\ \A x \in Slots \ S : Cardinality(S \cup {x}) = Cardinality(S) + 1
           /\ \A x \in S : Cardinality(S \ {x}) = Cardinality(S) - 1
<1>1. IsFiniteSet(Slots)
  BY FS_Interval, ProcessAssumption DEF Slots
<1>2. IsFiniteSet(S)
  BY <1>1, FS_Subset
<1>3. QED
  BY <1>2, FS_CardinalityType, FS_AddElement, FS_RemoveElement

\* proc_wakeup in terms of the fields it changes.
LEMMA WakeupFields ==
    ASSUME NEW k \in Tables, NEW s \in Slots
    PROVE  /\ Wakes(k, proc_wakeup(k, s), s)
           /\ proc_wakeup(k, s).procs[s].mbox = k.procs[s].mbox
<1> DEFINE p == k.procs[s]
           p2 == [p EXCEPT !.state = "RUNNABLE", !.alarm_set = FALSE,
                           !.exptime = 0, !.waiting = {}]
           r == proc_wakeup(k, s)
<1>1. p \in Process
  BY DEF Tables
<1>2. p2 \in Process
  <2>1. 0 \in -1 .. MaxDelay
    BY ProcessAssumption
  <2>2. QED
    BY <1>1, <2>1 DEF Process, States
<1>3. /\ p2.mbox = p.mbox
      /\ p2.state = "RUNNABLE" /\ p2.waiting = {} /\ p2.alarm_set = FALSE
      /\ p2.pid = p.pid /\ p2.owner = p.owner /\ p2.uid = p.uid /\ p2.server = p.server
      /\ p2.interruptable = p.interruptable /\ p2.call = p.call /\ p2.pages = p.pages
  BY <1>1 DEF Process
<1> DEFINE P == [k.procs EXCEPT ![s] = p2]
           Q == IF s = cur THEN k.runq ELSE Append(k.runq, s)
           n == k.nrunnable + 1
<1>4. r = [k EXCEPT !.procs = P, !.nrunnable = n, !.runq = Q]
  BY DEF proc_wakeup
<1> HIDE DEF p2, r
<1>5. /\ P \in [Slots -> Process] /\ Q \in Seq(Slots) /\ n \in Int
      /\ P[s] = p2 /\ \A t \in Slots \ {s} : P[t] = k.procs[t]
  BY <1>2 DEF Tables
<1> HIDE DEF P, Q, n
<1>6. /\ r.procs = P /\ r.runq = Q
      /\ r.free = k.free /\ r.freeframes = k.freeframes
      /\ r.nprocs = k.nprocs /\ r.nrunnable = n
      /\ r \in Tables
  BY <1>4, <1>5 DEF Tables
<1>7. QED
  BY <1>3, <1>5, <1>6 DEF Wakes, r, Q, n

\* Waking a process that waits keeps the tables right, if its call is answered
\* or its server is dead.
LEMMA WakeKeeps ==
    ASSUME NEW k, NEW r, NEW s \in Slots, NEW z, NEW w, NEW q,
           TablesOK(k, cur, pid_gen, z, w, q), k.procs[s].state = "WAITING",
           Wakes(k, r, s), ReplyOK(r.procs[s]),
           k.procs[s].call = "REPLY" /\ r.procs[s].mbox["REPLY"] = <<>>
              => Gone(k, k.procs[s].server)
    PROVE  TablesOK(r, cur, pid_gen, z, w, q) /\ OnlyWakes(k, r)
<1>0. k \in Tables /\ r \in Tables
  BY DEF TablesOK, Wakes
<1>1. \A t \in Slots : t # s => r.procs[t] = k.procs[t]
  BY DEF Wakes
<1>2. \A t \in Slots : /\ r.procs[t].state = IF t = s THEN "RUNNABLE" ELSE k.procs[t].state
                       /\ r.procs[t].pid = k.procs[t].pid
                       /\ r.procs[t].owner = k.procs[t].owner
                       /\ r.procs[t].uid = k.procs[t].uid
                       /\ r.procs[t].interruptable = k.procs[t].interruptable
                       /\ r.procs[t].server = k.procs[t].server
                       /\ r.procs[t].call = k.procs[t].call
                       /\ r.procs[t].pages = k.procs[t].pages
                       /\ Live(r, t) <=> Live(k, t)
  BY DEF Wakes, Live
<1>3. QueueOK(r, cur, z)
  <2>1. ~Has(k.runq, s) /\ Distinct(k.runq)
    BY DEF TablesOK, QueueOK
  <2>2. CASE s = cur
    <3>1. r.runq = k.runq
      BY <2>2 DEF Wakes
    <3>2. QED
      BY <1>2, <2>2, <3>1 DEF TablesOK, QueueOK
  <2>3. CASE s # cur
    <3>1. r.runq = Append(k.runq, s)
      BY <2>3 DEF Wakes
    <3>2. Distinct(r.runq) /\ \A t : Has(r.runq, t) <=> t = s \/ Has(k.runq, t)
      BY <1>0, <2>1, <3>1, AppendQueue DEF Tables
    <3>3. z # s
      BY DEF TablesOK, QueueOK
    <3>4. QED
      BY <1>2, <2>3, <3>2, <3>3 DEF TablesOK, QueueOK
  <2>4. QED
    BY <2>2, <2>3
<1>4. CountOK(r)
  <2>1. Used(r) = Used(k)
    BY <1>2 DEF Used
  <2>2. Runnable(r) = Runnable(k) \cup {s} /\ s \notin Runnable(k)
    BY <1>2 DEF Runnable
  <2>3. Cardinality(Runnable(r)) = Cardinality(Runnable(k)) + 1
    BY <2>2, SlotSets DEF Runnable
  <2>4. r.nprocs = k.nprocs /\ r.nrunnable = k.nrunnable + 1 /\ r.free = k.free
    BY DEF Wakes
  <2>5. \A t \in Slots : r.procs[t].state = "FREE" <=> k.procs[t].state = "FREE"
    BY <1>2
  <2>6. QED
    BY <2>1, <2>3, <2>4, <2>5 DEF TablesOK, CountOK
<1>5. FrameOK(r, w)
  <2>1. \A f \in Frames : Owners(r, f, w) = Owners(k, f, w)
    BY <1>2 DEF Owners
  <2>2. r.freeframes = k.freeframes
    BY DEF Wakes
  <2>3. QED
    BY <1>2, <2>1, <2>2 DEF TablesOK, FrameOK
<1>6. PidOK(r, pid_gen)
  <2>1. Used(r) = Used(k) /\ Used(r) \subseteq Slots
    BY <1>2 DEF Used
  <2>2. QED
    BY <1>2, <2>1 DEF TablesOK, PidOK
<1>7. SlotsOK(r)
  <2>1. WaitOK(r.procs[s]) /\ ReplyOK(r.procs[s])
    BY DEF Wakes, WaitOK
  <2>2. QED
    BY <1>1, <2>1 DEF TablesOK, SlotsOK
<1>8. \A pid : Gone(r, pid) <=> Gone(k, pid)
  BY <1>2 DEF Gone
<1>9. CallOK(r, q)
  BY <1>2, <1>8 DEF TablesOK, CallOK
<1>10. FailOK(r)
  <2> SUFFICES ASSUME NEW t \in Slots, r.procs[t].state = "RUNNABLE",
                      r.procs[t].call = "REPLY", r.procs[t].mbox["REPLY"] = <<>>
               PROVE  Gone(k, k.procs[t].server)
    BY <1>2, <1>8 DEF FailOK
  <2>1. CASE t = s
    BY <1>2, <2>1
  <2>2. CASE t # s
    BY <1>1, <2>2 DEF TablesOK, FailOK
  <2>3. QED
    BY <2>1, <2>2
<1>11. OnlyWakes(k, r)
  BY <1>2 DEF OnlyWakes
<1>12. QED
  BY <1>0, <1>3, <1>4, <1>5, <1>6, <1>7, <1>9, <1>10, <1>11 DEF TablesOK

\* A time-out, or the death of the server.
LEMMA WakeupKeeps ==
    ASSUME NEW k, NEW s \in Slots, NEW z, NEW w, NEW q,
           TablesOK(k, cur, pid_gen, z, w, q), k.procs[s].state = "WAITING",
           k.procs[s].call = "REPLY" => Gone(k, k.procs[s].server)
    PROVE  /\ TablesOK(proc_wakeup(k, s), cur, pid_gen, z, w, q)
           /\ OnlyWakes(k, proc_wakeup(k, s)) /\ SameEvents(k, proc_wakeup(k, s))
<1> DEFINE r == proc_wakeup(k, s)
<1>1. Wakes(k, r, s) /\ r.procs[s].mbox = k.procs[s].mbox
  BY WakeupFields DEF TablesOK
<1> HIDE DEF r
<1>2. ReplyOK(r.procs[s])
  BY <1>1 DEF ReplyOK, TablesOK, SlotsOK, Wakes
<1>3. SameEvents(k, r)
  BY <1>1 DEF SameEvents, Wakes
<1>4. TablesOK(r, cur, pid_gen, z, w, q) /\ OnlyWakes(k, r)
  BY <1>1, <1>2, WakeKeeps
<1>5. QED
  BY <1>3, <1>4 DEF r

-------------------------------------------------------------------------------
(* Sending. *)

\* proc_find finds the only process that has the id.
LEMMA FindFacts ==
    ASSUME NEW k, NEW pid
    PROVE  LET d == proc_find(k, pid)
           IN  /\ \/ d = NoSlot
                  \/ d \in Slots /\ k.procs[d].state # "FREE" /\ k.procs[d].pid = pid
               /\ d = NoSlot => \A s \in Used(k) : k.procs[s].pid # pid
               /\ PidOK(k, pid_gen) => \A s \in Used(k) : k.procs[s].pid = pid => d = s
<1> DEFINE found == {s \in Slots : k.procs[s].state # "FREE" /\ k.procs[s].pid = pid}
           d == proc_find(k, pid)
<1>1. d = IF found = {} THEN NoSlot ELSE Min(found)
  BY DEF proc_find
<1>2. found # {} => Min(found) \in found
  BY MinNat, ProcessAssumption DEF Slots
<1>3. \A s \in Used(k) : k.procs[s].pid = pid => s \in found
  BY DEF Used
<1>4. \A s \in found : s \in Used(k) /\ s \in Slots /\ s # NoSlot
                          /\ k.procs[s].state # "FREE" /\ k.procs[s].pid = pid
  BY DEF Used, Slots, NoSlot
<1> HIDE DEF found, d
<1>5. d = NoSlot => found = {}
  BY <1>1, <1>2, <1>4
<1>6. PidOK(k, pid_gen) => \A s \in found, t \in found : s = t
  BY <1>4 DEF PidOK
<1>7. QED
  BY <1>1, <1>2, <1>3, <1>4, <1>5, <1>6 DEF d

\* Who gets a message that is not refused.
LEMMA Addressee ==
    ASSUME NEW k, NEW src, NEW dst, NEW t \in MsgTypes, k \in Tables, SlotsOK(k),
           ~Refused(k, src, proc_find(k, dst), t)
    PROVE  LET d == proc_find(k, dst)
           IN  /\ d \in Slots /\ Live(k, d) /\ k.procs[d].pid = dst
               /\ t \in k.procs[d].waiting => k.procs[d].state = "WAITING" /\ k.procs[d].call = t
               /\ t = "REPLY" => t \in k.procs[d].waiting /\ k.procs[d].server = src
<1> DEFINE d == proc_find(k, dst)
<1>1. d \in Slots /\ k.procs[d].state # "FREE" /\ k.procs[d].pid = dst
  BY FindFacts DEF Refused
<1>2. k.procs[d].state \in States
  BY <1>1 DEF Tables, Process
<1>3. Live(k, d)
  BY <1>1, <1>2 DEF Refused, Live, States
<1>4. t \in k.procs[d].waiting => k.procs[d].state = "WAITING" /\ k.procs[d].call = t
  BY <1>1, <1>3 DEF SlotsOK, WaitOK, Live
<1>5. QED
  BY <1>1, <1>3, <1>4 DEF Refused

\* The tables r are k with one more message of type t, from src, in slot d.
Mailed(k, r, src, d, t) ==
    /\ r \in Tables
    /\ r.procs[d].mbox[t] = Append(k.procs[d].mbox[t], src)
    /\ \A u \in MsgTypes \ {t} : r.procs[d].mbox[u] = k.procs[d].mbox[u]
    /\ r.procs[d].state = k.procs[d].state
    /\ r.procs[d].waiting = k.procs[d].waiting
    /\ r.procs[d].alarm_set = k.procs[d].alarm_set
    /\ r.procs[d].pid = k.procs[d].pid /\ r.procs[d].owner = k.procs[d].owner
    /\ r.procs[d].uid = k.procs[d].uid /\ r.procs[d].server = k.procs[d].server
    /\ r.procs[d].interruptable = k.procs[d].interruptable
    /\ r.procs[d].call = k.procs[d].call /\ r.procs[d].pages = k.procs[d].pages
    /\ \A s \in Slots \ {d} : r.procs[s] = k.procs[s]
    /\ r.runq = k.runq /\ r.free = k.free /\ r.freeframes = k.freeframes
    /\ r.nprocs = k.nprocs /\ r.nrunnable = k.nrunnable

\* Adding a message to a mailbox, in terms of the fields it changes.
LEMMA MailFields ==
    ASSUME NEW k \in Tables, NEW src \in Pids, NEW d \in Slots, NEW t \in MsgTypes
    PROVE  Mailed(k, [k EXCEPT !.procs[d].mbox[t] = Append(@, src)], src, d, t)
<1> DEFINE p == k.procs[d]
           m == [p.mbox EXCEPT ![t] = Append(p.mbox[t], src)]
           p2 == [p EXCEPT !.mbox = m]
           P == [k.procs EXCEPT ![d] = p2]
           r == [k EXCEPT !.procs[d].mbox[t] = Append(@, src)]
<1>1. p \in Process /\ p.mbox \in [MsgTypes -> Seq(Pids)]
  BY DEF Tables, Process
<1>2. /\ m \in [MsgTypes -> Seq(Pids)]
      /\ m[t] = Append(p.mbox[t], src)
      /\ \A u \in MsgTypes \ {t} : m[u] = p.mbox[u]
  <2>1. Append(p.mbox[t], src) \in Seq(Pids)
    BY <1>1
  <2>2. QED
    BY <1>1, <2>1
<1>3. r = [k EXCEPT !.procs = P]
  OBVIOUS
<1> HIDE DEF m, r
<1>4. /\ p2 \in Process /\ p2.mbox = m /\ p2.state = p.state /\ p2.waiting = p.waiting
      /\ p2.alarm_set = p.alarm_set /\ p2.pid = p.pid /\ p2.owner = p.owner
      /\ p2.uid = p.uid /\ p2.server = p.server /\ p2.interruptable = p.interruptable
      /\ p2.call = p.call /\ p2.pages = p.pages
  BY <1>1, <1>2 DEF Process
<1> HIDE DEF p2
<1>5. P \in [Slots -> Process] /\ P[d] = p2 /\ \A s \in Slots \ {d} : P[s] = k.procs[s]
  BY <1>4 DEF Tables
<1> HIDE DEF P
<1>6. /\ r \in Tables /\ r.procs = P /\ r.runq = k.runq /\ r.free = k.free
      /\ r.freeframes = k.freeframes /\ r.nprocs = k.nprocs /\ r.nrunnable = k.nrunnable
  BY <1>3, <1>5 DEF Tables
<1>7. QED
  BY <1>2, <1>4, <1>5, <1>6 DEF Mailed, r

\* A message for which the process does not wait keeps the tables right.
LEMMA MailKeeps ==
    ASSUME NEW k, NEW r, NEW src, NEW d \in Slots, NEW t \in {"REQUEST", "EVENT"},
           NEW z, NEW w, NEW q, TablesOK(k, cur, pid_gen, z, w, q),
           t \notin k.procs[d].waiting, Mailed(k, r, src, d, t)
    PROVE  TablesOK(r, cur, pid_gen, z, w, q) /\ OnlyWakes(k, r)
<1>0. k \in Tables /\ r \in Tables
  BY DEF TablesOK, Mailed
<1>1. \A s \in Slots : s # d => r.procs[s] = k.procs[s]
  BY DEF Mailed
<1>2. \A s \in Slots : /\ r.procs[s].state = k.procs[s].state
                       /\ r.procs[s].pid = k.procs[s].pid
                       /\ r.procs[s].owner = k.procs[s].owner
                       /\ r.procs[s].uid = k.procs[s].uid
                       /\ r.procs[s].interruptable = k.procs[s].interruptable
                       /\ r.procs[s].server = k.procs[s].server
                       /\ r.procs[s].call = k.procs[s].call
                       /\ r.procs[s].pages = k.procs[s].pages
                       /\ r.procs[s].mbox["REPLY"] = k.procs[s].mbox["REPLY"]
                       /\ Live(r, s) <=> Live(k, s)
  BY DEF Mailed, Live, MsgTypes
<1>3. QueueOK(r, cur, z)
  BY <1>2 DEF TablesOK, QueueOK, Mailed
<1>4. CountOK(r)
  <2>1. Used(r) = Used(k) /\ Runnable(r) = Runnable(k)
    BY <1>2 DEF Used, Runnable
  <2>2. QED
    BY <1>2, <2>1 DEF TablesOK, CountOK, Mailed
<1>5. FrameOK(r, w)
  <2>1. \A f \in Frames : Owners(r, f, w) = Owners(k, f, w)
    BY <1>2 DEF Owners
  <2>2. QED
    BY <1>2, <2>1 DEF TablesOK, FrameOK, Mailed
<1>6. PidOK(r, pid_gen)
  <2>1. Used(r) = Used(k) /\ Used(r) \subseteq Slots
    BY <1>2 DEF Used
  <2>2. QED
    BY <1>2, <2>1 DEF TablesOK, PidOK
<1>7. SlotsOK(r)
  <2>1. WaitOK(r.procs[d])
    <3>1. k.procs[d].call \in MsgTypes /\ k.procs[d].call # t
            => r.procs[d].mbox[k.procs[d].call] = k.procs[d].mbox[k.procs[d].call]
      BY DEF Mailed
    <3>2. k.procs[d].state = "WAITING" => k.procs[d].call # t /\ k.procs[d].call \in MsgTypes
      BY <1>0 DEF TablesOK, SlotsOK, WaitOK, Tables, Process
    <3>3. QED
      BY <3>1, <3>2 DEF TablesOK, SlotsOK, WaitOK, Mailed
  <2>2. ReplyOK(r.procs[d])
    BY <1>2 DEF TablesOK, SlotsOK, ReplyOK
  <2>3. QED
    BY <1>1, <2>1, <2>2 DEF TablesOK, SlotsOK
<1>8. \A pid : Gone(r, pid) <=> Gone(k, pid)
  BY <1>2 DEF Gone
<1>9. CallOK(r, q) /\ FailOK(r)
  BY <1>2, <1>8 DEF TablesOK, CallOK, FailOK
<1>10. OnlyWakes(k, r)
  BY <1>2 DEF OnlyWakes
<1>11. QED
  BY <1>0, <1>3, <1>4, <1>5, <1>6, <1>7, <1>9, <1>10 DEF TablesOK

\* The tables r are k after a proc_send of src to slot d.
Sent(k, r, src, d, t) ==
    /\ OnlyWakes(k, r)
    /\ \A s \in Slots : s # d => r.procs[s] = k.procs[s]
    /\ t # "EVENT" => SameEvents(k, r)
    /\ t = "EVENT" /\ ~Refused(k, src, d, t) =>
          r.procs[d].mbox["EVENT"] = Append(k.procs[d].mbox["EVENT"], src)

\* proc_send keeps the tables right, and adds no more than one message.
LEMMA SendKeeps ==
    ASSUME NEW k, NEW src \in Pids, NEW dst, NEW t \in MsgTypes, NEW z, NEW w, NEW q,
           TablesOK(k, cur, pid_gen, z, w, q)
    PROVE  /\ TablesOK(proc_send(k, src, dst, t), cur, pid_gen, z, w, q)
           /\ Sent(k, proc_send(k, src, dst, t), src, proc_find(k, dst), t)
<1> DEFINE r == proc_send(k, src, dst, t)
           d == proc_find(k, dst)
           k1 == [k EXCEPT !.procs[d].mbox[t] = Append(@, src)]
<1>0. k \in Tables /\ SlotsOK(k)
  BY DEF TablesOK
<1>1. CASE Refused(k, src, d, t)
  <2>1. r = k
    BY <1>1 DEF proc_send
  <2>2. QED
    BY <1>1, <2>1 DEF Sent, OnlyWakes, SameEvents
<1>2. CASE ~Refused(k, src, d, t)
  <2>1. /\ d \in Slots /\ Live(k, d) /\ k.procs[d].pid = dst
        /\ t \in k.procs[d].waiting => k.procs[d].state = "WAITING" /\ k.procs[d].call = t
        /\ t = "REPLY" => t \in k.procs[d].waiting /\ k.procs[d].server = src
    BY <1>0, <1>2, Addressee
  <2>2. Mailed(k, k1, src, d, t)
    BY <1>0, <2>1, MailFields
  <2>3. CASE t \in k.procs[d].waiting
    <3>1. r = proc_wakeup(k1, d)
      <4>1. k1 \in Tables /\ k1.procs[d].waiting = k.procs[d].waiting
        BY <2>2 DEF Mailed
      <4>2. k.procs[d].waiting = {t}
        BY <1>0, <2>1, <2>3 DEF SlotsOK, WaitOK
      <4>3. r = [k1 EXCEPT !.procs[d] = [@ EXCEPT !.state = "RUNNABLE", !.alarm_set = FALSE,
                                                 !.exptime = 0,
                                                 !.waiting = k.procs[d].waiting \ {t}],
                          !.nrunnable = @ + 1,
                          !.runq = IF d = cur THEN @ ELSE Append(@, d)]
        BY <1>2, <2>3 DEF proc_send
      <4> HIDE DEF k1
      <4> DEFINE p == k1.procs[d]
                 a == [p EXCEPT !.state = "RUNNABLE", !.alarm_set = FALSE,
                                !.exptime = 0, !.waiting = k.procs[d].waiting \ {t}]
                 b == [p EXCEPT !.state = "RUNNABLE", !.alarm_set = FALSE,
                                !.exptime = 0, !.waiting = {}]
      <4>4. p \in Process /\ k.procs[d].waiting \ {t} = {}
        BY <2>1, <4>1, <4>2 DEF Tables
      <4>5. a = b
        BY <4>4 DEF Process
      <4>6. r = [k1 EXCEPT !.procs[d] = a, !.nrunnable = @ + 1,
                           !.runq = IF d = cur THEN @ ELSE Append(@, d)]
        BY <4>3
      <4>7. proc_wakeup(k1, d) = [k1 EXCEPT !.procs[d] = b, !.nrunnable = @ + 1,
                                            !.runq = IF d = cur THEN @ ELSE Append(@, d)]
        BY DEF proc_wakeup
      <4> HIDE DEF a, b
      <4>8. QED
        BY <4>5, <4>6, <4>7
    <3> HIDE DEF k1, r, d
    <3>2. Wakes(k1, r, d) /\ r.procs[d].mbox = k1.procs[d].mbox
      BY <2>1, <2>2, <3>1, WakeupFields DEF Mailed
    <3>3. Wakes(k, r, d)
      BY <2>2, <3>2 DEF Wakes, Mailed
    <3>4. /\ k.procs[d].state = "WAITING" /\ k.procs[d].call = t
          /\ k.procs[d].mbox[t] = <<>>
          /\ t # "REPLY" => k.procs[d].mbox["REPLY"] = <<>>
      BY <1>0, <2>1, <2>3 DEF SlotsOK, WaitOK, ReplyOK
    <3>5. r.procs[d].mbox[t] = <<src>>
      BY <2>2, <3>2, <3>4 DEF Mailed
    <3>6. t # "REPLY" => r.procs[d].mbox["REPLY"] = <<>>
      BY <2>2, <3>2, <3>4 DEF Mailed, MsgTypes
    <3>7. ReplyOK(r.procs[d])
      BY <2>1, <2>3, <3>3, <3>4, <3>5, <3>6 DEF ReplyOK, Wakes
    <3>8. TablesOK(r, cur, pid_gen, z, w, q) /\ OnlyWakes(k, r)
      <4>1. ~(k.procs[d].call = "REPLY" /\ r.procs[d].mbox["REPLY"] = <<>>)
        <5>1. <<src>> # <<>>
          OBVIOUS
        <5>2. QED
          BY <3>4, <3>5, <5>1
      <4>2. QED
        BY <2>1, <3>3, <3>4, <3>7, <4>1, WakeKeeps
    <3>9. \A s \in Slots : s # d => r.procs[s] = k.procs[s]
      BY <3>3 DEF Wakes
    <3>10. t # "EVENT" => SameEvents(k, r)
      BY <2>2, <3>2, <3>9 DEF SameEvents, Mailed, MsgTypes
    <3>11. t = "EVENT" => r.procs[d].mbox["EVENT"] = Append(k.procs[d].mbox["EVENT"], src)
      BY <2>2, <3>2 DEF Mailed
    <3>12. QED
      BY <3>8, <3>9, <3>10, <3>11 DEF Sent, r, d
  <2>4. CASE t \notin k.procs[d].waiting
    <3>1. r = k1
      BY <1>2, <2>4 DEF proc_send
    <3>2. t \in {"REQUEST", "EVENT"}
      BY <2>1, <2>4 DEF MsgTypes
    <3> HIDE DEF k1, r, d
    <3>3. TablesOK(r, cur, pid_gen, z, w, q) /\ OnlyWakes(k, r)
      BY <2>1, <2>2, <2>4, <3>1, <3>2, MailKeeps
    <3>4. \A s \in Slots : s # d => r.procs[s] = k.procs[s]
      BY <2>2, <3>1 DEF Mailed
    <3>5. t # "EVENT" => SameEvents(k, r)
      BY <2>2, <3>1, <3>4 DEF SameEvents, Mailed, MsgTypes
    <3>6. t = "EVENT" => r.procs[d].mbox["EVENT"] = Append(k.procs[d].mbox["EVENT"], src)
      BY <2>2, <3>1 DEF Mailed
    <3>7. QED
      BY <3>3, <3>4, <3>5, <3>6 DEF Sent, r, d
  <2>5. QED
    BY <2>3, <2>4
<1>3. QED
  BY <1>1, <1>2

-------------------------------------------------------------------------------
(* Killing. *)

\* OnlyWakes composes.
LEMMA OnlyWakesTransitive ==
    ASSUME NEW k, NEW x, NEW r, OnlyWakes(k, x), OnlyWakes(x, r)
    PROVE  OnlyWakes(k, r)
BY DEF OnlyWakes

\* Waking processes brings nobody back to life.
LEMMA GoneStays ==
    ASSUME NEW k, NEW r, NEW pid, OnlyWakes(k, r), Gone(k, pid)
    PROVE  Gone(r, pid)
BY DEF OnlyWakes, Gone, Live

\* One round of the loop of proc_term over the clients of a dead server.
FailStep(x, s, q) == IF WaitsForReply(x, s, q) THEN proc_wakeup(x, s) ELSE x

\* The loop of proc_term leaves no client of the dead server waiting.
LEMMA FailClientsKeeps ==
    ASSUME NEW k, NEW z, NEW w, NEW q, TablesOK(k, cur, pid_gen, z, w, q), Gone(k, q)
    PROVE  LET r == FailClients(k, q)
           IN  /\ TablesOK(r, cur, pid_gen, z, w, 0)
               /\ OnlyWakes(k, r) /\ SameEvents(k, r)
<1> DEFINE X == {x \in Tables : /\ TablesOK(x, cur, pid_gen, z, w, q)
                                /\ OnlyWakes(k, x) /\ SameEvents(k, x)}
           G == [x \in X |-> [s \in 1 .. NSlots |-> FailStep(x, s, q)]]
           f == CHOOSE g : g = [s \in 0 .. NSlots |->
                                  IF s = 0 THEN k ELSE FailStep(g[s - 1], s, q)]
           S == [i \in 0 .. NSlots |->
                    {x \in X : \A t \in 1 .. i : ~WaitsForReply(x, t, q)}]
<1>0. NSlots \in Nat /\ Slots = 1 .. NSlots
  BY ProcessAssumption DEF Slots
<1>1. FailClients(k, q) = f[NSlots]
  BY DEF FailClients, SlotLoop, FailStep
<1>2. k \in X
  BY DEF TablesOK, OnlyWakes, SameEvents
<1>3. ASSUME NEW x \in X, NEW s \in Slots
      PROVE  /\ FailStep(x, s, q) \in X
             /\ \A t \in Slots : ~WaitsForReply(x, t, q) =>
                    ~WaitsForReply(FailStep(x, s, q), t, q)
             /\ ~WaitsForReply(FailStep(x, s, q), s, q)
  <2>1. CASE ~WaitsForReply(x, s, q)
    BY <2>1 DEF FailStep
  <2>2. CASE WaitsForReply(x, s, q)
    <3> DEFINE r == proc_wakeup(x, s)
    <3>1. FailStep(x, s, q) = r
      BY <2>2 DEF FailStep
    <3>2. Gone(x, q)
      BY <1>3, GoneStays
    <3>3. x.procs[s].state = "WAITING" /\ x.procs[s].server = q
      BY <2>2 DEF WaitsForReply
    <3>4. TablesOK(r, cur, pid_gen, z, w, q) /\ OnlyWakes(x, r) /\ SameEvents(x, r)
      BY <1>3, <3>2, <3>3, WakeupKeeps
    <3>5. r.procs[s].state = "RUNNABLE" /\ \A t \in Slots : t # s => r.procs[t] = x.procs[t]
      <4>1. x \in Tables
        BY <1>3
      <4>2. Wakes(x, r, s)
        BY <4>1, WakeupFields
      <4> HIDE DEF r, X
      <4>3. QED
        BY <4>2 DEF Wakes
    <3> HIDE DEF r
    <3>6. OnlyWakes(k, r)
      BY <1>3, <3>4, OnlyWakesTransitive
    <3>7. SameEvents(k, r)
      BY <1>3, <3>4 DEF SameEvents
    <3>8. r \in X
      BY <3>4, <3>6, <3>7 DEF TablesOK
    <3>9. \A t \in Slots : ~WaitsForReply(x, t, q) => ~WaitsForReply(r, t, q)
      BY <3>5 DEF WaitsForReply
    <3>10. ~WaitsForReply(r, s, q)
      BY <3>5 DEF WaitsForReply
    <3>11. QED
      BY <3>1, <3>8, <3>9, <3>10
  <2>3. QED
    BY <2>1, <2>2
<1> HIDE DEF X
<1>4. G \in LoopSteps(NSlots, X)
  BY <1>0, <1>3 DEF LoopSteps
<1>5. \E g : LoopRuns(g, NSlots, X, k, G)
  <2> HIDE DEF G
  <2> QED
    BY <1>0, <1>2, <1>4, LoopExists
<1>6. f = [s \in 0 .. NSlots |-> IF s = 0 THEN k ELSE FailStep(f[s - 1], s, q)]
  <2>1. PICK g : /\ g \in [0 .. NSlots -> X] /\ g[0] = k
                 /\ \A s \in 1 .. NSlots : g[s] = G[g[s - 1]][s]
    BY <1>5 DEF LoopRuns
  <2>2. \A s \in 1 .. NSlots : s - 1 \in 0 .. NSlots /\ g[s - 1] \in X
    BY <1>0, <2>1
  <2>3. \A s \in 1 .. NSlots : g[s] = FailStep(g[s - 1], s, q)
    BY <2>1, <2>2
  <2>4. g = [s \in 0 .. NSlots |-> IF s = 0 THEN k ELSE FailStep(g[s - 1], s, q)]
    BY <1>0, <2>1, <2>3
  <2>5. QED
    BY <2>4
<1> HIDE DEF f, G
<1>7. f[0] \in S[0]
  BY <1>0, <1>2, <1>6
<1>8. ASSUME NEW s \in 1 .. NSlots, f[s - 1] \in S[s - 1] PROVE f[s] \in S[s]
  <2>1. f[s] = FailStep(f[s - 1], s, q) /\ s - 1 \in 0 .. NSlots /\ s \in 0 .. NSlots
    BY <1>0, <1>6
  <2>2. f[s - 1] \in X /\ \A t \in 1 .. s - 1 : ~WaitsForReply(f[s - 1], t, q)
    BY <1>8, <2>1
  <2>3. f[s] \in X /\ \A t \in 1 .. s : ~WaitsForReply(f[s], t, q)
    <3>1. \A t \in 1 .. s : t \in Slots /\ (t = s \/ t \in 1 .. s - 1)
      BY <1>0
    <3>2. QED
      BY <1>0, <1>3, <2>1, <2>2, <3>1
  <2>4. QED
    BY <2>1, <2>3
<1>9. f[NSlots] \in S[NSlots]
  <2> HIDE DEF S
  <2> QED
    BY <1>0, <1>7, <1>8, LoopInvariant
<1>10. f[NSlots] \in X /\ \A t \in Slots : ~WaitsForReply(f[NSlots], t, q)
  BY <1>0, <1>9
<1>11. CallOK(f[NSlots], 0)
  BY <1>10 DEF X, TablesOK, CallOK, SlotsOK, WaitOK, WaitsForReply
<1>12. QED
  BY <1>1, <1>10, <1>11 DEF X, TablesOK

\* proc_term, first part: the process is dead, and its clients still wait.
Zombie(k, s) ==
    [k EXCEPT !.procs[s].state = "ZOMBIE",
              !.nrunnable = IF k.procs[s].state = "RUNNABLE" THEN @ - 1 ELSE @]

\* The zombie that proc_zap releases at once, being on no queue.
Unqueued(k, s) == IF k.procs[s].state = "WAITING" /\ s # cur THEN s ELSE NoSlot

\* The first part of proc_term in terms of the fields it changes.
LEMMA ZombieFields ==
    ASSUME NEW k \in Tables, NEW s \in Slots
    PROVE  LET r == Zombie(k, s)
           IN  /\ r \in Tables
               /\ \A t \in Slots : t # s => r.procs[t] = k.procs[t]
               /\ \A t \in Slots :
                     /\ r.procs[t].state = IF t = s THEN "ZOMBIE" ELSE k.procs[t].state
                     /\ r.procs[t].pid = k.procs[t].pid
                     /\ r.procs[t].owner = k.procs[t].owner
                     /\ r.procs[t].uid = k.procs[t].uid
                     /\ r.procs[t].interruptable = k.procs[t].interruptable
                     /\ r.procs[t].server = k.procs[t].server
                     /\ r.procs[t].pages = k.procs[t].pages
                     /\ r.procs[t].mbox = k.procs[t].mbox
               /\ r.runq = k.runq /\ r.free = k.free /\ r.freeframes = k.freeframes
               /\ r.nprocs = k.nprocs
               /\ r.nrunnable = IF k.procs[s].state = "RUNNABLE" THEN k.nrunnable - 1
                                ELSE k.nrunnable
<1> DEFINE p == k.procs[s]
           p2 == [p EXCEPT !.state = "ZOMBIE"]
           P == [k.procs EXCEPT ![s] = p2]
           n == IF k.procs[s].state = "RUNNABLE" THEN k.nrunnable - 1 ELSE k.nrunnable
           r == Zombie(k, s)
<1>1. p \in Process
  BY DEF Tables
<1>2. r = [k EXCEPT !.procs = P, !.nrunnable = n]
  BY DEF Zombie, Tables
<1>3. /\ p2 \in Process /\ p2.state = "ZOMBIE" /\ p2.pid = p.pid /\ p2.owner = p.owner
      /\ p2.uid = p.uid /\ p2.interruptable = p.interruptable /\ p2.server = p.server
      /\ p2.pages = p.pages /\ p2.mbox = p.mbox
  BY <1>1 DEF Process, States
<1> HIDE DEF p2, r
<1>4. P \in [Slots -> Process] /\ n \in Int /\ P[s] = p2
      /\ \A t \in Slots : t # s => P[t] = k.procs[t]
  BY <1>3 DEF Tables
<1> HIDE DEF P, n
<1>5. /\ r \in Tables /\ r.procs = P /\ r.runq = k.runq /\ r.free = k.free
      /\ r.freeframes = k.freeframes /\ r.nprocs = k.nprocs /\ r.nrunnable = n
  BY <1>2, <1>4 DEF Tables
<1>6. QED
  BY <1>3, <1>4, <1>5 DEF r, n

\* A process that dies leaves the tables right but for its clients, its frames and,
\* if it was waiting, the run queue.
LEMMA ZombieKeeps ==
    ASSUME NEW k, NEW s \in Slots, TablesOK(k, cur, pid_gen, NoSlot, NoSlot, 0), Live(k, s)
    PROVE  /\ TablesOK(Zombie(k, s), cur, pid_gen, Unqueued(k, s), s, k.procs[s].pid)
           /\ Gone(Zombie(k, s), k.procs[s].pid)
<1> DEFINE r == Zombie(k, s)
           z == Unqueued(k, s)
           q == k.procs[s].pid
<1>0. k \in Tables /\ NoSlot \notin Slots
  BY DEF TablesOK, NoSlot, Slots
<1>1. /\ r \in Tables
      /\ \A t \in Slots : t # s => r.procs[t] = k.procs[t]
      /\ r.runq = k.runq /\ r.free = k.free /\ r.freeframes = k.freeframes
      /\ r.nprocs = k.nprocs
      /\ r.nrunnable = IF k.procs[s].state = "RUNNABLE" THEN k.nrunnable - 1 ELSE k.nrunnable
  BY <1>0, ZombieFields
<1>2. \A t \in Slots : /\ r.procs[t].state = IF t = s THEN "ZOMBIE" ELSE k.procs[t].state
                       /\ r.procs[t].pid = k.procs[t].pid
                       /\ r.procs[t].server = k.procs[t].server
                       /\ r.procs[t].pages = k.procs[t].pages
                       /\ Live(r, t) <=> Live(k, t) /\ t # s
  BY <1>0, ZombieFields DEF Live
<1> HIDE DEF r
<1>3. QueueOK(r, cur, z)
  <2>1. k.procs[s].state \in {"RUNNABLE", "WAITING"}
    BY DEF Live
  <2>2. QED
    BY <1>0, <1>1, <1>2, <2>1 DEF TablesOK, QueueOK, Unqueued
<1>4. CountOK(r)
  <2>1. Used(r) = Used(k)
    BY <1>2 DEF Used, Live
  <2>2. CASE k.procs[s].state = "RUNNABLE"
    <3>1. Runnable(r) = Runnable(k) \ {s} /\ s \in Runnable(k)
      BY <1>2, <2>2 DEF Runnable
    <3>2. Cardinality(Runnable(r)) = Cardinality(Runnable(k)) - 1
      BY <3>1, SlotSets DEF Runnable
    <3>3. QED
      BY <1>1, <1>2, <2>1, <2>2, <3>2 DEF TablesOK, CountOK, Live
  <2>3. CASE k.procs[s].state # "RUNNABLE"
    <3>1. Runnable(r) = Runnable(k)
      BY <1>2, <2>3 DEF Runnable
    <3>2. QED
      BY <1>1, <1>2, <2>1, <2>3, <3>1 DEF TablesOK, CountOK, Live
  <2>4. QED
    BY <2>2, <2>3
<1>5. FrameOK(r, s)
  <2>1. \A f \in Frames : Owners(r, f, s) = Owners(k, f, NoSlot)
    BY <1>0, <1>2 DEF Owners
  <2>2. QED
    BY <1>1, <1>2, <2>1 DEF TablesOK, FrameOK
<1>6. PidOK(r, pid_gen)
  <2>1. Used(r) = Used(k) /\ Used(r) \subseteq Slots
    BY <1>2 DEF Used, Live
  <2>2. QED
    BY <1>2, <2>1 DEF TablesOK, PidOK
<1>7. SlotsOK(r)
  <2>1. WaitOK(r.procs[s]) /\ ReplyOK(r.procs[s])
    BY <1>2 DEF WaitOK, ReplyOK
  <2>2. QED
    BY <1>1, <2>1 DEF TablesOK, SlotsOK
<1>8. Gone(r, q)
  <2>1. \A t \in Slots : Live(k, t) => t \in Used(k)
    BY DEF Live, Used
  <2>2. QED
    BY <1>2, <2>1 DEF Gone, TablesOK, PidOK
<1>9. \A pid : /\ Gone(k, pid) => Gone(r, pid)
               /\ pid # q /\ Gone(r, pid) => Gone(k, pid)
  BY <1>2 DEF Gone
<1>10. CallOK(r, q)
  <2> SUFFICES ASSUME NEW t \in Slots, r.procs[t].state = "WAITING",
                      r.procs[t].call = "REPLY"
               PROVE  /\ r.procs[t].server # r.procs[t].pid
                      /\ r.procs[t].server = q \/ ~Gone(r, r.procs[t].server)
    <3>1. q # 0
      BY DEF TablesOK, PidOK, Live, Used
    <3>2. QED
      BY <3>1 DEF CallOK
  <2>1. t # s
    BY <1>2
  <2>2. k.procs[t].state = "WAITING" /\ k.procs[t].call = "REPLY" /\ r.procs[t] = k.procs[t]
    BY <1>1, <2>1
  <2>3. k.procs[t].server # k.procs[t].pid
        /\ ~Gone(k, k.procs[t].server)
    BY <2>2 DEF TablesOK, CallOK
  <2>4. QED
    BY <1>9, <2>2, <2>3
<1>11. FailOK(r)
  BY <1>1, <1>2, <1>9 DEF TablesOK, FailOK
<1>12. QED
  BY <1>1, <1>3, <1>4, <1>5, <1>6, <1>7, <1>8, <1>10, <1>11 DEF TablesOK, r

\* proc_term, last part: the frames go back.
LEMMA ReleaseFramesKeeps ==
    ASSUME NEW k, NEW s \in Slots, NEW z, TablesOK(k, cur, pid_gen, z, s, 0)
    PROVE  LET r == ReleaseFrames(k, s)
           IN  TablesOK(r, cur, pid_gen, z, NoSlot, 0) /\ r.procs = k.procs
<1> DEFINE r == ReleaseFrames(k, s)
           H == [f \in Frames |-> IF f \in k.procs[s].pages THEN k.freeframes[f] + 1
                                  ELSE k.freeframes[f]]
<1>0. k \in Tables /\ NoSlot \notin Slots /\ k.procs[s].state = "ZOMBIE"
  BY DEF TablesOK, NoSlot, Slots, FrameOK
<1>1. r = [k EXCEPT !.freeframes = H]
  BY DEF ReleaseFrames
<1>2. H \in [Frames -> Nat]
  BY <1>0 DEF Tables
<1> HIDE DEF r, H
<1>3. /\ r \in Tables /\ r.procs = k.procs /\ r.runq = k.runq /\ r.free = k.free
      /\ r.freeframes = H /\ r.nprocs = k.nprocs /\ r.nrunnable = k.nrunnable
  BY <1>0, <1>1, <1>2 DEF Tables
<1>4. FrameOK(r, NoSlot)
  <2> SUFFICES ASSUME NEW f \in Frames
               PROVE  H[f] + Cardinality(Owners(r, f, NoSlot)) = 1
    BY <1>0, <1>3 DEF FrameOK
  <2>0. k.freeframes[f] + Cardinality(Owners(k, f, s)) = 1 /\ k.freeframes[f] \in Nat
    BY <1>0 DEF TablesOK, FrameOK, Tables
  <2>1. CASE f \in k.procs[s].pages
    <3>1. s \in Owners(k, f, s) /\ Owners(r, f, NoSlot) = Owners(k, f, s) \ {s}
      BY <1>0, <1>3, <2>1 DEF Owners, Live
    <3>2. Cardinality(Owners(r, f, NoSlot)) = Cardinality(Owners(k, f, s)) - 1
          /\ Cardinality(Owners(k, f, s)) \in Nat
      BY <3>1, SlotSets DEF Owners
    <3>3. H[f] = k.freeframes[f] + 1
      BY <2>1 DEF H
    <3>4. QED
      BY <2>0, <3>2, <3>3
  <2>2. CASE f \notin k.procs[s].pages
    <3>1. Owners(r, f, NoSlot) = Owners(k, f, s)
      BY <1>0, <1>3, <2>2 DEF Owners, Live
    <3>2. H[f] = k.freeframes[f]
      BY <2>2 DEF H
    <3>3. QED
      BY <2>0, <3>1, <3>2
  <2>3. QED
    BY <2>1, <2>2
<1>5. /\ QueueOK(r, cur, z) /\ CountOK(r) /\ PidOK(r, pid_gen) /\ SlotsOK(r)
      /\ CallOK(r, 0) /\ FailOK(r)
  BY <1>3 DEF TablesOK, QueueOK, CountOK, Used, Runnable, PidOK, SlotsOK, CallOK, FailOK,
              Gone, Live
<1>6. QED
  BY <1>3, <1>4, <1>5 DEF TablesOK, r

\* The tables r are k after the death of s: s is a zombie, a process alive may
\* have been woken, and the owner of s has one more event.
Killed(k, r, s) ==
    /\ r.procs[s].state = "ZOMBIE"
    /\ \A t \in Slots :
          /\ t # s => \/ r.procs[t].state = k.procs[t].state
                      \/ k.procs[t].state = "WAITING" /\ r.procs[t].state = "RUNNABLE"
          /\ r.procs[t].pid = k.procs[t].pid /\ r.procs[t].owner = k.procs[t].owner
          /\ r.procs[t].uid = k.procs[t].uid
          /\ r.procs[t].interruptable = k.procs[t].interruptable
    /\ \A t \in Slots \ {s} : Live(k, t) =>
          r.procs[t].mbox["EVENT"] =
              IF k.procs[t].pid = k.procs[s].owner
              THEN Append(k.procs[t].mbox["EVENT"], k.procs[s].pid)
              ELSE k.procs[t].mbox["EVENT"]

\* proc_term as a whole.
LEMMA TermKeeps ==
    ASSUME NEW k, NEW s \in Slots, TablesOK(k, cur, pid_gen, NoSlot, NoSlot, 0), Live(k, s)
    PROVE  /\ TablesOK(proc_term(k, s), cur, pid_gen, Unqueued(k, s), NoSlot, 0)
           /\ Killed(k, proc_term(k, s), s)
<1> DEFINE p == k.procs[s]
           z == Unqueued(k, s)
           k1 == Zombie(k, s)
           kk == proc_send(k1, p.pid, p.owner, "EVENT")
           k2 == FailClients(kk, p.pid)
           r == ReleaseFrames(k2, s)
           d == proc_find(k1, p.owner)
<1>0. k \in Tables /\ p.pid \in Pids /\ s \in Used(k)
  <2>1. k \in Tables /\ s \in Used(k)
    BY DEF TablesOK, Used, Live
  <2>2. p.pid \in 0 .. MaxPid
    BY <2>1 DEF Tables, Process
  <2>3. p.pid \in 1 .. pid_gen - 1
    BY <2>1 DEF TablesOK, PidOK
  <2>4. QED
    BY <2>1, <2>2, <2>3 DEF Pids
<1>1. proc_term(k, s) = r
  BY DEF proc_term, Zombie, Live
<1>2. TablesOK(k1, cur, pid_gen, z, s, p.pid) /\ Gone(k1, p.pid)
  BY ZombieKeeps
<1>3. \A t \in Slots : t # s => k1.procs[t] = k.procs[t]
  BY <1>0, ZombieFields
<1>4. \A t \in Slots : /\ k1.procs[t].state = IF t = s THEN "ZOMBIE" ELSE k.procs[t].state
                       /\ k1.procs[t].pid = k.procs[t].pid
                       /\ k1.procs[t].owner = k.procs[t].owner
                       /\ k1.procs[t].uid = k.procs[t].uid
                       /\ k1.procs[t].interruptable = k.procs[t].interruptable
  BY <1>0, ZombieFields
<1> HIDE DEF p, z, k1
<1>5. /\ TablesOK(kk, cur, pid_gen, z, s, p.pid) /\ OnlyWakes(k1, kk)
      /\ \A t \in Slots : t # d => kk.procs[t] = k1.procs[t]
      /\ ~Refused(k1, p.pid, d, "EVENT") =>
            kk.procs[d].mbox["EVENT"] = Append(k1.procs[d].mbox["EVENT"], p.pid)
  <2>1. "EVENT" \in MsgTypes
    BY DEF MsgTypes
  <2>2. TablesOK(kk, cur, pid_gen, z, s, p.pid) /\ Sent(k1, kk, p.pid, d, "EVENT")
    BY <1>0, <1>2, <2>1, SendKeeps
  <2> HIDE DEF kk, d
  <2>3. QED
    BY <2>2 DEF Sent
<1> HIDE DEF kk, d
<1>6. Gone(kk, p.pid)
  BY <1>2, <1>5, GoneStays
<1>7. TablesOK(k2, cur, pid_gen, z, s, 0) /\ OnlyWakes(kk, k2) /\ SameEvents(kk, k2)
  BY <1>5, <1>6, FailClientsKeeps
<1> HIDE DEF k2
<1>8. TablesOK(r, cur, pid_gen, z, NoSlot, 0) /\ r.procs = k2.procs
  BY <1>7, ReleaseFramesKeeps
<1> HIDE DEF r
<1>9. OnlyWakes(k1, r)
  <2>1. OnlyWakes(k1, k2)
    BY <1>5, <1>7, OnlyWakesTransitive
  <2>2. QED
    BY <1>8, <2>1 DEF OnlyWakes
<1>10. ASSUME NEW t \in Slots \ {s}, Live(k, t)
       PROVE  r.procs[t].mbox["EVENT"] = IF k.procs[t].pid = p.owner
                                         THEN Append(k.procs[t].mbox["EVENT"], p.pid)
                                         ELSE k.procs[t].mbox["EVENT"]
  <2>1. r.procs[t].mbox["EVENT"] = kk.procs[t].mbox["EVENT"]
    BY <1>7, <1>8 DEF SameEvents
  <2>2. k1.procs[t] = k.procs[t] /\ t \in Used(k1) /\ k1.procs[t].state # "ZOMBIE"
    BY <1>3, <1>10 DEF Used, Live
  <2>3. CASE k.procs[t].pid = p.owner
    <3>1. d = t
      BY <1>2, <2>2, <2>3, FindFacts DEF d, TablesOK
    <3>2. ~Refused(k1, p.pid, d, "EVENT")
      BY <2>2, <3>1 DEF Refused, NoSlot, Slots
    <3>3. QED
      BY <1>5, <2>1, <2>2, <2>3, <3>1, <3>2
  <2>4. CASE k.procs[t].pid # p.owner
    <3>1. d # t
      BY <1>3, <2>4, FindFacts DEF d, NoSlot, Slots
    <3>2. QED
      BY <1>5, <2>1, <2>2, <2>4, <3>1
  <2>5. QED
    BY <2>3, <2>4
<1>11. Killed(k, r, s)
  <2>1. \A t \in Slots \ {s} : Live(k, t) =>
          r.procs[t].mbox["EVENT"] =
              IF k.procs[t].pid = k.procs[s].owner
              THEN Append(k.procs[t].mbox["EVENT"], k.procs[s].pid)
              ELSE k.procs[t].mbox["EVENT"]
    BY <1>10 DEF p
  <2>2. r.procs[s].state = "ZOMBIE"
    BY <1>4, <1>9 DEF OnlyWakes
  <2>3. \A t \in Slots : t # s => \/ r.procs[t].state = k.procs[t].state
                                  \/ k.procs[t].state = "WAITING" /\ r.procs[t].state = "RUNNABLE"
    BY <1>4, <1>9 DEF OnlyWakes
  <2>4. \A t \in Slots :
          /\ r.procs[t].pid = k.procs[t].pid /\ r.procs[t].owner = k.procs[t].owner
          /\ r.procs[t].uid = k.procs[t].uid
          /\ r.procs[t].interruptable = k.procs[t].interruptable
    BY <1>4, <1>9 DEF OnlyWakes
  <2>5. QED
    BY <2>1, <2>2, <2>3, <2>4 DEF Killed
<1>12. QED
  BY <1>1, <1>8, <1>11 DEF z

\* A slot that is not in use has the type of one.
LEMMA BlankFacts ==
    Blank \in Process /\ Blank.state = "FREE"
<1>1. 0 \in Uids /\ 0 \in 0 .. MaxPid /\ 0 \in -1 .. MaxDelay
  BY ProcessAssumption
<1>2. [t \in MsgTypes |-> <<>>] \in [MsgTypes -> Seq(Pids)]
  OBVIOUS
<1>3. QED
  BY <1>1, <1>2 DEF Blank, Process, States

\* proc_release in terms of the fields it changes.
LEMMA ReleaseFields ==
    ASSUME NEW k \in Tables, NEW s \in Slots
    PROVE  LET r == proc_release(k, s)
           IN  /\ r \in Tables
               /\ r.procs[s] = Blank
               /\ \A t \in Slots : t # s => r.procs[t] = k.procs[t]
               /\ r.runq = k.runq /\ r.free = Append(k.free, s)
               /\ r.freeframes = k.freeframes
               /\ r.nprocs = k.nprocs - 1 /\ r.nrunnable = k.nrunnable
<1> DEFINE P == [k.procs EXCEPT ![s] = Blank]
           F == Append(k.free, s)
           n == k.nprocs - 1
           r == proc_release(k, s)
<1>1. r = [k EXCEPT !.procs = P, !.nprocs = n, !.free = F]
  BY DEF proc_release
<1>2. /\ P \in [Slots -> Process] /\ F \in Seq(Slots) /\ n \in Int
      /\ P[s] = Blank /\ \A t \in Slots : t # s => P[t] = k.procs[t]
  BY BlankFacts DEF Tables
<1> HIDE DEF P, F, n, r
<1>3. /\ r \in Tables /\ r.procs = P /\ r.runq = k.runq /\ r.free = F
      /\ r.freeframes = k.freeframes /\ r.nprocs = n /\ r.nrunnable = k.nrunnable
  BY <1>1, <1>2 DEF Tables
<1>4. QED
  BY <1>2, <1>3 DEF r, F, n

\* Releasing a zombie that is on no queue; c is the current process.
LEMMA ReleaseKeeps ==
    ASSUME NEW k, NEW s \in Slots, NEW c, TablesOK(k, c, pid_gen, s, NoSlot, 0)
    PROVE  /\ TablesOK(proc_release(k, s), c, pid_gen, NoSlot, NoSlot, 0)
           /\ proc_release(k, s).procs[s].state = "FREE"
           /\ \A t \in Slots : t # s => proc_release(k, s).procs[t] = k.procs[t]
<1> DEFINE r == proc_release(k, s)
<1>0. k \in Tables /\ NoSlot \notin Slots /\ k.procs[s].state = "ZOMBIE" /\ c # s
      /\ Blank.state = "FREE"
  BY BlankFacts DEF TablesOK, NoSlot, Slots, QueueOK
<1>1. /\ r \in Tables /\ r.procs[s] = Blank
      /\ r.runq = k.runq /\ r.free = Append(k.free, s)
      /\ r.freeframes = k.freeframes
      /\ r.nprocs = k.nprocs - 1 /\ r.nrunnable = k.nrunnable
  BY <1>0, ReleaseFields
<1>2. \A t \in Slots : t # s => r.procs[t] = k.procs[t]
  BY <1>0, ReleaseFields
<1> HIDE DEF r
<1>3. \A t \in Slots : Live(r, t) <=> Live(k, t)
  BY <1>0, <1>1, <1>2 DEF Live
<1>4. QueueOK(r, c, NoSlot)
  BY <1>0, <1>1, <1>2 DEF TablesOK, QueueOK
<1>5. CountOK(r)
  <2>1. Used(r) = Used(k) \ {s} /\ s \in Used(k) /\ Used(k) \in SUBSET Slots
    BY <1>0, <1>1, <1>2 DEF Used
  <2>2. Cardinality(Used(r)) = Cardinality(Used(k)) - 1
    BY <2>1, SlotSets
  <2>3. Runnable(r) = Runnable(k)
    BY <1>0, <1>1, <1>2 DEF Runnable
  <2>4. ~Has(k.free, s) /\ Distinct(k.free) /\ k.free \in Seq(Slots)
    BY <1>0 DEF TablesOK, CountOK, Tables
  <2>5. Distinct(r.free) /\ \A t : Has(r.free, t) <=> t = s \/ Has(k.free, t)
    BY <1>1, <2>4, AppendQueue
  <2>6. \A t \in Slots : Has(r.free, t) <=> r.procs[t].state = "FREE"
    BY <1>0, <1>1, <1>2, <2>5 DEF TablesOK, CountOK
  <2>7. QED
    BY <1>1, <2>2, <2>3, <2>5, <2>6 DEF TablesOK, CountOK
<1>6. FrameOK(r, NoSlot)
  <2>1. \A f \in Frames : Owners(r, f, NoSlot) = Owners(k, f, NoSlot)
    BY <1>0, <1>2, <1>3 DEF Owners, Live
  <2>2. QED
    BY <1>0, <1>1, <2>1 DEF TablesOK, FrameOK
<1>7. PidOK(r, pid_gen)
  <2>1. \A t \in Used(r) : t \in Used(k) /\ r.procs[t] = k.procs[t]
    BY <1>0, <1>1, <1>2 DEF Used
  <2>2. QED
    BY <2>1 DEF TablesOK, PidOK
<1>8. SlotsOK(r)
  <2>1. WaitOK(r.procs[s]) /\ ReplyOK(r.procs[s])
    BY <1>0, <1>1 DEF WaitOK, ReplyOK
  <2>2. QED
    BY <1>2, <2>1 DEF TablesOK, SlotsOK
<1>9. \A pid : Gone(r, pid) <=> Gone(k, pid)
  BY <1>0, <1>2, <1>3 DEF Gone, Live
<1>10. CallOK(r, 0)
  BY <1>0, <1>1, <1>2, <1>9 DEF TablesOK, CallOK
<1>11. FailOK(r)
  BY <1>0, <1>1, <1>2, <1>9 DEF TablesOK, FailOK
<1>12. QED
  BY <1>0, <1>1, <1>2, <1>4, <1>5, <1>6, <1>7, <1>8, <1>10, <1>11 DEF TablesOK, r

\* A process with this id and this owner died between k and r.
Died(k, r, pid, owner) ==
    \E s \in Slots : /\ Live(k, s) /\ ~Live(r, s)
                     /\ k.procs[s].pid = pid /\ k.procs[s].owner = owner

\* Between k and r every process that stays alive got one event for each of its
\* children that died, and no other event.
EventsOK(k, r) ==
    \A o \in Slots, pid \in Pids : Live(k, o) /\ Live(r, o) =>
        Deaths(r.procs[o].mbox["EVENT"], pid) =
            Deaths(k.procs[o].mbox["EVENT"], pid)
               + (IF Died(k, r, pid, k.procs[o].pid) THEN 1 ELSE 0)

\* One more message in a mailbox.
LEMMA DeathsAppend ==
    ASSUME NEW box \in Seq(Pids), NEW src \in Pids, NEW pid
    PROVE  /\ Deaths(box, pid) \in Nat
           /\ Deaths(Append(box, src), pid) = Deaths(box, pid) + (IF src = pid THEN 1 ELSE 0)
<1> DEFINE n == Len(box)
           b == Append(box, src)
           E == {i \in DOMAIN box : box[i] = pid}
           F == {i \in DOMAIN b : b[i] = pid}
<1>1. /\ n \in Nat /\ DOMAIN box = 1 .. n /\ DOMAIN b = 1 .. n + 1
      /\ b[n + 1] = src /\ \A i \in 1 .. n : b[i] = box[i]
  OBVIOUS
<1> HIDE DEF b, n
<1>2. IsFiniteSet(1 .. n)
  BY <1>1, FS_Interval
<1>3. IsFiniteSet(E) /\ Cardinality(E) \in Nat
  <2>1. E \subseteq 1 .. n
    BY <1>1
  <2>2. QED
    BY <1>2, <2>1, FS_Subset, FS_CardinalityType
<1>4. n + 1 \notin E
  BY <1>1
<1>5. src = pid => F = E \cup {n + 1}
  BY <1>1
<1>6. src # pid => F = E
  BY <1>1
<1> HIDE DEF E, F
<1>7. Cardinality(E \cup {n + 1}) = Cardinality(E) + 1
  BY <1>3, <1>4, FS_AddElement
<1>8. Cardinality(F) = Cardinality(E) + (IF src = pid THEN 1 ELSE 0)
  <2>1. CASE src = pid
    BY <1>5, <1>7, <2>1
  <2>2. CASE src # pid
    BY <1>3, <1>6, <2>2
  <2>3. QED
    BY <2>1, <2>2
<1>9. QED
  BY <1>3, <1>8 DEF Deaths, E, F, b

\* OnlyKills and EventsOK compose.
LEMMA KillsTransitive ==
    ASSUME NEW k \in Tables, NEW x \in Tables, NEW r \in Tables, PidOK(k, pid_gen),
           OnlyKills(k, x), EventsOK(k, x), OnlyKills(x, r), EventsOK(x, r)
    PROVE  OnlyKills(k, r) /\ EventsOK(k, r)
<1>0. \A s \in Slots : /\ k.procs[s].state \in States /\ x.procs[s].state \in States
                       /\ r.procs[s].state \in States
  BY DEF Tables, Process
<1>1. OnlyKills(k, r)
  <2> SUFFICES ASSUME NEW s \in Slots
               PROVE  /\ k.procs[s].state = "FREE" => r.procs[s].state = "FREE"
                      /\ k.procs[s].state = "ZOMBIE" => r.procs[s].state \in {"ZOMBIE", "FREE"}
                      /\ k.procs[s].state = "RUNNABLE" =>
                            r.procs[s].state \in {"RUNNABLE", "ZOMBIE", "FREE"}
                      /\ r.procs[s].state # "FREE" =>
                            /\ r.procs[s].pid = k.procs[s].pid
                            /\ r.procs[s].owner = k.procs[s].owner
                            /\ r.procs[s].uid = k.procs[s].uid
                            /\ r.procs[s].interruptable = k.procs[s].interruptable
    BY DEF OnlyKills
  <2>1. r.procs[s].state # "FREE" => x.procs[s].state # "FREE"
    BY DEF OnlyKills
  <2>2. QED
    BY <1>0, <2>1 DEF OnlyKills, States
<1>2. \A s \in Slots : /\ Live(x, s) => Live(k, s) /\ x.procs[s].pid = k.procs[s].pid
                                                   /\ x.procs[s].owner = k.procs[s].owner
                       /\ Live(r, s) => Live(x, s)
  BY <1>0 DEF OnlyKills, Live, States
<1>3. ASSUME NEW o \in Slots, NEW pid \in Pids, Live(k, o), Live(r, o)
      PROVE  Deaths(r.procs[o].mbox["EVENT"], pid) =
                Deaths(k.procs[o].mbox["EVENT"], pid)
                   + (IF Died(k, r, pid, k.procs[o].pid) THEN 1 ELSE 0)
  <2>1. Live(x, o) /\ x.procs[o].pid = k.procs[o].pid
    BY <1>2, <1>3
  <2> DEFINE q == k.procs[o].pid
  <2>2. Died(k, r, pid, q) <=> Died(k, x, pid, q) \/ Died(x, r, pid, q)
    BY <1>2 DEF Died
  <2>3. ~(Died(k, x, pid, q) /\ Died(x, r, pid, q))
    <3>1. \A s \in Slots : Live(k, s) => s \in Used(k)
      BY DEF Live, Used
    <3>2. QED
      BY <1>2, <3>1 DEF Died, PidOK
  <2>4. Deaths(k.procs[o].mbox["EVENT"], pid) \in Nat
    <3>1. k.procs[o].mbox \in [MsgTypes -> Seq(Pids)]
      BY DEF Tables, Process
    <3>2. k.procs[o].mbox["EVENT"] \in Seq(Pids)
      BY <3>1 DEF MsgTypes
    <3>3. QED
      BY <3>2, DeathsAppend
  <2>5. Deaths(x.procs[o].mbox["EVENT"], pid) =
            Deaths(k.procs[o].mbox["EVENT"], pid) + (IF Died(k, x, pid, q) THEN 1 ELSE 0)
    BY <1>3, <2>1 DEF EventsOK
  <2>6. Deaths(r.procs[o].mbox["EVENT"], pid) =
            Deaths(x.procs[o].mbox["EVENT"], pid) + (IF Died(x, r, pid, q) THEN 1 ELSE 0)
    BY <1>3, <2>1 DEF EventsOK
  <2>7. QED
    BY <2>2, <2>3, <2>4, <2>5, <2>6
<1>4. QED
  BY <1>1, <1>3 DEF EventsOK

\* The death of one process.
LEMMA KilledEvents ==
    ASSUME NEW k \in Tables, NEW r, NEW s \in Slots, Live(k, s), PidOK(k, pid_gen),
           Killed(k, r, s)
    PROVE  OnlyKills(k, r) /\ EventsOK(k, r)
<1>1. OnlyKills(k, r)
  BY DEF OnlyKills, Killed, Live
<1>2. \A t \in Slots : Live(r, t) <=> Live(k, t) /\ t # s
  BY DEF Killed, Live
<1>3. ASSUME NEW o \in Slots, NEW pid \in Pids, Live(k, o), Live(r, o)
      PROVE  Deaths(r.procs[o].mbox["EVENT"], pid) =
                Deaths(k.procs[o].mbox["EVENT"], pid)
                   + (IF Died(k, r, pid, k.procs[o].pid) THEN 1 ELSE 0)
  <2>1. o # s
    BY <1>2, <1>3
  <2>2. Died(k, r, pid, k.procs[o].pid) <=>
            k.procs[s].pid = pid /\ k.procs[s].owner = k.procs[o].pid
    BY <1>2 DEF Died
  <2>3. k.procs[o].mbox["EVENT"] \in Seq(Pids) /\ k.procs[s].pid \in Pids
    <3>1. k.procs[o].mbox \in [MsgTypes -> Seq(Pids)]
      BY DEF Tables, Process
    <3>2. k.procs[s].pid \in 0 .. MaxPid /\ k.procs[s].pid \in 1 .. pid_gen - 1
      BY DEF Tables, Process, PidOK, Used, Live
    <3>3. QED
      BY <3>1, <3>2 DEF MsgTypes, Pids
  <2>4. CASE k.procs[o].pid = k.procs[s].owner
    <3>1. r.procs[o].mbox["EVENT"] = Append(k.procs[o].mbox["EVENT"], k.procs[s].pid)
      BY <1>3, <2>1, <2>4 DEF Killed
    <3>2. QED
      BY <2>2, <2>3, <2>4, <3>1, DeathsAppend
  <2>5. CASE k.procs[o].pid # k.procs[s].owner
    <3>1. r.procs[o].mbox["EVENT"] = k.procs[o].mbox["EVENT"]
      BY <1>3, <2>1, <2>5 DEF Killed
    <3>2. QED
      BY <2>2, <2>3, <2>5, <3>1, DeathsAppend
  <2>6. QED
    BY <2>4, <2>5
<1>4. QED
  BY <1>1, <1>3 DEF EventsOK

\* The tables r are right again, after processes were killed from k on.
Killing(k, r) ==
    /\ TablesOK(r, cur, pid_gen, NoSlot, NoSlot, 0)
    /\ OnlyKills(k, r) /\ EventsOK(k, r)

\* Process s is dead, and the other ones that could run still can.
KillsOne(k, r, s) ==
    /\ ~Live(r, s)
    /\ \A t \in Slots : t # s /\ k.procs[t].state = "RUNNABLE" => r.procs[t].state = "RUNNABLE"

\* proc_term, where the process does not have to be released.
LEMMA TermKills ==
    ASSUME NEW k, NEW s \in Slots, TablesOK(k, cur, pid_gen, NoSlot, NoSlot, 0), Live(k, s),
           Unqueued(k, s) = NoSlot
    PROVE  Killing(k, proc_term(k, s)) /\ KillsOne(k, proc_term(k, s), s)
<1>1. k \in Tables /\ PidOK(k, pid_gen)
  BY DEF TablesOK
<1>2. TablesOK(proc_term(k, s), cur, pid_gen, NoSlot, NoSlot, 0)
      /\ Killed(k, proc_term(k, s), s)
  BY TermKeeps
<1>3. QED
  BY <1>1, <1>2, KilledEvents DEF Killing, Killed, KillsOne, Live

\* Nobody died between k and k.
LEMMA KillingRefl ==
    ASSUME NEW k, TablesOK(k, cur, pid_gen, NoSlot, NoSlot, 0)
    PROVE  Killing(k, k)
<1>1. OnlyKills(k, k)
  BY DEF OnlyKills
<1>2. \A o \in Slots, pid \in Pids : Deaths(k.procs[o].mbox["EVENT"], pid) \in Nat
  <2>1. \A o \in Slots : k.procs[o].mbox \in [MsgTypes -> Seq(Pids)]
    BY DEF TablesOK, Tables, Process
  <2>2. \A o \in Slots : k.procs[o].mbox["EVENT"] \in Seq(Pids)
    BY <2>1 DEF MsgTypes
  <2>3. QED
    BY <2>2, DeathsAppend
<1>3. EventsOK(k, k)
  BY <1>2 DEF EventsOK, Died
<1>4. QED
  BY <1>1, <1>3 DEF Killing

\* proc_zap kills the process, whatever its state, and tells its owner.
LEMMA ZapKeeps ==
    ASSUME NEW k, NEW s \in Slots, TablesOK(k, cur, pid_gen, NoSlot, NoSlot, 0)
    PROVE  Killing(k, proc_zap(k, s)) /\ KillsOne(k, proc_zap(k, s), s)
<1>0. k \in Tables /\ PidOK(k, pid_gen)
  BY DEF TablesOK
<1>1. CASE ~Live(k, s)
  <2>1. proc_zap(k, s) = k
    BY <1>1 DEF proc_zap, Live
  <2>2. QED
    BY <1>1, <2>1, KillingRefl DEF KillsOne
<1>2. CASE Live(k, s) /\ Unqueued(k, s) = NoSlot
  <2>1. proc_zap(k, s) = proc_term(k, s)
    BY <1>2 DEF proc_zap, Live, Unqueued, NoSlot, Slots
  <2>2. QED
    BY <1>2, <2>1, TermKills
<1>3. CASE Live(k, s) /\ Unqueued(k, s) # NoSlot
  <2> DEFINE x == proc_term(k, s)
             r == proc_release(x, s)
  <2>1. proc_zap(k, s) = r
    BY <1>3 DEF proc_zap, Live, Unqueued
  <2>2. TablesOK(x, cur, pid_gen, s, NoSlot, 0) /\ Killed(k, x, s)
    BY <1>3, TermKeeps DEF Unqueued
  <2> HIDE DEF x
  <2>3. OnlyKills(k, x) /\ EventsOK(k, x)
    BY <1>0, <1>3, <2>2, KilledEvents
  <2>4. /\ TablesOK(r, cur, pid_gen, NoSlot, NoSlot, 0)
        /\ r.procs[s].state = "FREE"
    BY <2>2, ReleaseKeeps
  <2>5. \A t \in Slots : t # s => r.procs[t] = x.procs[t]
    BY <2>2, ReleaseKeeps
  <2> HIDE DEF r
  <2>6. x.procs[s].state = "ZOMBIE"
    BY <2>2 DEF Killed
  <2>7. \A t \in Slots : Live(r, t) <=> Live(x, t)
    BY <2>4, <2>5, <2>6 DEF Live
  <2>8. OnlyKills(k, r)
    <3>1. \A t \in Slots : t # s => r.procs[t] = x.procs[t]
      BY <2>5
    <3>2. k.procs[s].state # "FREE"
      BY <1>3 DEF Live
    <3>3. QED
      BY <2>3, <2>4, <3>1, <3>2 DEF OnlyKills
  <2>9. EventsOK(k, r)
    <3>1. \A pid, o : Died(k, r, pid, o) <=> Died(k, x, pid, o)
      BY <2>7 DEF Died
    <3>2. \A o \in Slots : Live(r, o) => r.procs[o] = x.procs[o] /\ Live(x, o)
      BY <2>4, <2>5, <2>7 DEF Live
    <3>3. QED
      BY <2>3, <3>1, <3>2 DEF EventsOK
  <2>10. KillsOne(k, r, s)
    BY <2>2, <2>4, <2>5 DEF Killed, KillsOne, Live
  <2>11. QED
    BY <2>1, <2>4, <2>8, <2>9, <2>10 DEF Killing
<1>4. QED
  BY <1>1, <1>2, <1>3

\* Killing one more process.
LEMMA KillMore ==
    ASSUME NEW k, NEW x, NEW s \in Slots, TablesOK(k, cur, pid_gen, NoSlot, NoSlot, 0),
           Killing(k, x)
    PROVE  /\ Killing(k, proc_zap(x, s)) /\ ~Live(proc_zap(x, s), s)
           /\ \A t \in Slots : ~Live(x, t) => ~Live(proc_zap(x, s), t)
<1> DEFINE r == proc_zap(x, s)
<1>1. Killing(x, r) /\ ~Live(r, s)
  BY ZapKeeps DEF Killing, KillsOne
<1> HIDE DEF r
<1>2. k \in Tables /\ PidOK(k, pid_gen) /\ x \in Tables /\ r \in Tables
  BY <1>1 DEF Killing, TablesOK
<1>3. Killing(k, r)
  BY <1>1, <1>2, KillsTransitive DEF Killing
<1>4. \A t \in Slots : x.procs[t].state \in States
  BY <1>2 DEF Tables, Process
<1>5. \A t \in Slots : ~Live(x, t) => ~Live(r, t)
  BY <1>1, <1>4 DEF Killing, OnlyKills, Live, States
<1>6. QED
  BY <1>1, <1>3, <1>5 DEF r

\* The loop of proc_yield once the machine shuts down: nobody stays alive.
LEMMA ZapAllKeeps ==
    ASSUME NEW k, TablesOK(k, cur, pid_gen, NoSlot, NoSlot, 0)
    PROVE  Killing(k, ZapAll(k)) /\ \A t \in Slots : ~Live(ZapAll(k), t)
<1> DEFINE X == {x \in Tables : Killing(k, x)}
           G == [x \in X |-> [s \in 1 .. NSlots |-> proc_zap(x, s)]]
           f == CHOOSE g : g = [s \in 0 .. NSlots |->
                                  IF s = 0 THEN k ELSE proc_zap(g[s - 1], s)]
           S == [i \in 0 .. NSlots |-> {x \in X : \A t \in 1 .. i : ~Live(x, t)}]
<1>0. NSlots \in Nat /\ Slots = 1 .. NSlots
  BY ProcessAssumption DEF Slots
<1>1. ZapAll(k) = f[NSlots]
  BY DEF ZapAll, SlotLoop
<1>2. k \in X
  BY KillingRefl DEF TablesOK
<1>3. ASSUME NEW x \in X, NEW s \in Slots
      PROVE  /\ proc_zap(x, s) \in X
             /\ \A t \in Slots : ~Live(x, t) => ~Live(proc_zap(x, s), t)
             /\ ~Live(proc_zap(x, s), s)
  BY <1>3, KillMore DEF Killing, TablesOK
<1> HIDE DEF X
<1>4. G \in LoopSteps(NSlots, X)
  BY <1>0, <1>3 DEF LoopSteps
<1>5. \E g : LoopRuns(g, NSlots, X, k, G)
  <2> HIDE DEF G
  <2> QED
    BY <1>0, <1>2, <1>4, LoopExists
<1>6. f = [s \in 0 .. NSlots |-> IF s = 0 THEN k ELSE proc_zap(f[s - 1], s)]
  <2>1. PICK g : /\ g \in [0 .. NSlots -> X] /\ g[0] = k
                 /\ \A s \in 1 .. NSlots : g[s] = G[g[s - 1]][s]
    BY <1>5 DEF LoopRuns
  <2>2. \A s \in 1 .. NSlots : s - 1 \in 0 .. NSlots /\ g[s - 1] \in X
    BY <1>0, <2>1
  <2>3. \A s \in 1 .. NSlots : g[s] = proc_zap(g[s - 1], s)
    BY <2>1, <2>2
  <2>4. g = [s \in 0 .. NSlots |-> IF s = 0 THEN k ELSE proc_zap(g[s - 1], s)]
    BY <1>0, <2>1, <2>3
  <2>5. QED
    BY <2>4
<1> HIDE DEF f, G
<1>7. f[0] \in S[0]
  BY <1>0, <1>2, <1>6
<1>8. ASSUME NEW s \in 1 .. NSlots, f[s - 1] \in S[s - 1] PROVE f[s] \in S[s]
  <2>1. f[s] = proc_zap(f[s - 1], s) /\ s - 1 \in 0 .. NSlots /\ s \in 0 .. NSlots
    BY <1>0, <1>6
  <2>2. f[s - 1] \in X /\ \A t \in 1 .. s - 1 : ~Live(f[s - 1], t)
    BY <1>8, <2>1
  <2>3. f[s] \in X /\ \A t \in 1 .. s : ~Live(f[s], t)
    <3>1. \A t \in 1 .. s : t \in Slots /\ (t = s \/ t \in 1 .. s - 1)
      BY <1>0
    <3>2. QED
      BY <1>0, <1>3, <2>1, <2>2, <3>1
  <2>4. QED
    BY <2>1, <2>3
<1>9. f[NSlots] \in S[NSlots]
  <2> HIDE DEF S
  <2> QED
    BY <1>0, <1>7, <1>8, LoopInvariant
<1>10. f[NSlots] \in X /\ \A t \in Slots : ~Live(f[NSlots], t)
  BY <1>0, <1>9
<1>11. QED
  BY <1>1, <1>10 DEF X

\* One round of the loop of proc_kill over the interruptable processes.
KillStep(x, s, uid) ==
    IF x.procs[s].state # "FREE" /\ x.procs[s].interruptable /\ MayKill(x, uid, s)
    THEN proc_zap(x, s) ELSE x

\* The loop of proc_kill.
LEMMA KillInterruptableKeeps ==
    ASSUME NEW k, NEW uid, TablesOK(k, cur, pid_gen, NoSlot, NoSlot, 0)
    PROVE  Killing(k, KillInterruptable(k, uid))
<1> DEFINE X == {x \in Tables : Killing(k, x)}
           G == [x \in X |-> [s \in 1 .. NSlots |-> KillStep(x, s, uid)]]
           f == CHOOSE g : g = [s \in 0 .. NSlots |->
                                  IF s = 0 THEN k ELSE KillStep(g[s - 1], s, uid)]
           S == [i \in 0 .. NSlots |-> X]
<1>0. NSlots \in Nat /\ Slots = 1 .. NSlots
  BY ProcessAssumption DEF Slots
<1>1. KillInterruptable(k, uid) = f[NSlots]
  BY DEF KillInterruptable, SlotLoop, KillStep
<1>2. k \in X
  BY KillingRefl DEF TablesOK
<1>3. ASSUME NEW x \in X, NEW s \in Slots PROVE KillStep(x, s, uid) \in X
  BY <1>3, KillMore DEF KillStep, Killing, TablesOK
<1> HIDE DEF X
<1>4. G \in LoopSteps(NSlots, X)
  BY <1>0, <1>3 DEF LoopSteps
<1>5. \E g : LoopRuns(g, NSlots, X, k, G)
  <2> HIDE DEF G
  <2> QED
    BY <1>0, <1>2, <1>4, LoopExists
<1>6. f = [s \in 0 .. NSlots |-> IF s = 0 THEN k ELSE KillStep(f[s - 1], s, uid)]
  <2>1. PICK g : /\ g \in [0 .. NSlots -> X] /\ g[0] = k
                 /\ \A s \in 1 .. NSlots : g[s] = G[g[s - 1]][s]
    BY <1>5 DEF LoopRuns
  <2>2. \A s \in 1 .. NSlots : s - 1 \in 0 .. NSlots /\ g[s - 1] \in X
    BY <1>0, <2>1
  <2>3. \A s \in 1 .. NSlots : g[s] = KillStep(g[s - 1], s, uid)
    BY <2>1, <2>2
  <2>4. g = [s \in 0 .. NSlots |-> IF s = 0 THEN k ELSE KillStep(g[s - 1], s, uid)]
    BY <1>0, <2>1, <2>3
  <2>5. QED
    BY <2>4
<1> HIDE DEF f, G
<1>7. f[0] \in S[0]
  BY <1>0, <1>2, <1>6
<1>8. ASSUME NEW s \in 1 .. NSlots, f[s - 1] \in S[s - 1] PROVE f[s] \in S[s]
  <2>1. f[s] = KillStep(f[s - 1], s, uid) /\ s - 1 \in 0 .. NSlots /\ s \in 0 .. NSlots
    BY <1>0, <1>6
  <2>2. f[s - 1] \in X
    BY <1>8, <2>1
  <2>3. QED
    BY <1>0, <1>3, <2>1, <2>2
<1>9. f[NSlots] \in S[NSlots]
  <2> HIDE DEF S
  <2> QED
    BY <1>0, <1>7, <1>8, LoopInvariant
<1>10. QED
  BY <1>0, <1>1, <1>9 DEF X

\* One round of the loop of proc_yield over the alarms.
WakeStep(x, s) == IF Expired(x, s) THEN proc_wakeup(x, s) ELSE x

\* Every process whose alarm expired runs again; the others are left alone.
LEMMA WakeExpiredKeeps ==
    ASSUME NEW k, TablesOK(k, cur, pid_gen, NoSlot, NoSlot, 0)
    PROVE  /\ TablesOK(WakeExpired(k), cur, pid_gen, NoSlot, NoSlot, 0)
           /\ OnlyWakes(k, WakeExpired(k))
           /\ \A t \in Slots : Expired(k, t) => WakeExpired(k).procs[t].state = "RUNNABLE"
<1> DEFINE X == {x \in Tables :
                    /\ TablesOK(x, cur, pid_gen, NoSlot, NoSlot, 0) /\ OnlyWakes(k, x)
                    /\ \A t \in Slots : x.procs[t] = k.procs[t]
                                          \/ x.procs[t].state = "RUNNABLE"}
           G == [x \in X |-> [s \in 1 .. NSlots |-> WakeStep(x, s)]]
           f == CHOOSE g : g = [s \in 0 .. NSlots |->
                                  IF s = 0 THEN k ELSE WakeStep(g[s - 1], s)]
           Woken(x, t) == Expired(k, t) => x.procs[t].state = "RUNNABLE"
           S == [i \in 0 .. NSlots |-> {x \in X : \A t \in 1 .. i : Woken(x, t)}]
<1>0. NSlots \in Nat /\ Slots = 1 .. NSlots
  BY ProcessAssumption DEF Slots
<1>1. WakeExpired(k) = f[NSlots]
  BY DEF WakeExpired, SlotLoop, WakeStep
<1>2. k \in X
  BY DEF TablesOK, OnlyWakes
<1>3. ASSUME NEW x \in X, NEW s \in Slots
      PROVE  /\ WakeStep(x, s) \in X
             /\ \A t \in Slots : Woken(x, t) => Woken(WakeStep(x, s), t)
             /\ Woken(WakeStep(x, s), s)
  <2>1. CASE ~Expired(x, s)
    <3>1. WakeStep(x, s) = x
      BY <2>1 DEF WakeStep
    <3>2. x.procs[s] = k.procs[s] => ~Expired(k, s)
      BY <2>1 DEF Expired, AlarmSet
    <3>3. QED
      BY <1>3, <3>1, <3>2
  <2>2. CASE Expired(x, s)
    <3> DEFINE r == proc_wakeup(x, s)
    <3>1. WakeStep(x, s) = r
      BY <2>2 DEF WakeStep
    <3>2. x.procs[s].state = "WAITING" /\ x.procs[s].call # "REPLY"
      BY <1>3, <2>2 DEF Expired, AlarmSet, TablesOK, SlotsOK, WaitOK
    <3>3. TablesOK(r, cur, pid_gen, NoSlot, NoSlot, 0) /\ OnlyWakes(x, r)
      BY <1>3, <3>2, WakeupKeeps
    <3>4. r.procs[s].state = "RUNNABLE" /\ \A t \in Slots : t # s => r.procs[t] = x.procs[t]
      <4>1. x \in Tables
        BY <1>3
      <4>2. Wakes(x, r, s)
        BY <4>1, WakeupFields
      <4> HIDE DEF r, X
      <4>3. QED
        BY <4>2 DEF Wakes
    <3> HIDE DEF r
    <3>5. OnlyWakes(k, r)
      BY <1>3, <3>3, OnlyWakesTransitive
    <3>6. r \in X
      BY <1>3, <3>3, <3>4, <3>5 DEF TablesOK
    <3>7. QED
      BY <3>1, <3>4, <3>6
  <2>3. QED
    BY <2>1, <2>2
<1> HIDE DEF X, Woken
<1>4. G \in LoopSteps(NSlots, X)
  BY <1>0, <1>3 DEF LoopSteps
<1>5. \E g : LoopRuns(g, NSlots, X, k, G)
  <2> HIDE DEF G
  <2> QED
    BY <1>0, <1>2, <1>4, LoopExists
<1>6. f = [s \in 0 .. NSlots |-> IF s = 0 THEN k ELSE WakeStep(f[s - 1], s)]
  <2>1. PICK g : /\ g \in [0 .. NSlots -> X] /\ g[0] = k
                 /\ \A s \in 1 .. NSlots : g[s] = G[g[s - 1]][s]
    BY <1>5 DEF LoopRuns
  <2>2. \A s \in 1 .. NSlots : s - 1 \in 0 .. NSlots /\ g[s - 1] \in X
    BY <1>0, <2>1
  <2>3. \A s \in 1 .. NSlots : g[s] = WakeStep(g[s - 1], s)
    BY <2>1, <2>2
  <2>4. g = [s \in 0 .. NSlots |-> IF s = 0 THEN k ELSE WakeStep(g[s - 1], s)]
    BY <1>0, <2>1, <2>3
  <2>5. QED
    BY <2>4
<1> HIDE DEF f, G
<1>7. f[0] \in S[0]
  BY <1>0, <1>2, <1>6
<1>8. ASSUME NEW s \in 1 .. NSlots, f[s - 1] \in S[s - 1] PROVE f[s] \in S[s]
  <2>1. f[s] = WakeStep(f[s - 1], s) /\ s - 1 \in 0 .. NSlots /\ s \in 0 .. NSlots
    BY <1>0, <1>6
  <2>2. f[s - 1] \in X /\ \A t \in 1 .. s - 1 : Woken(f[s - 1], t)
    BY <1>8, <2>1
  <2>3. f[s] \in X /\ \A t \in 1 .. s : Woken(f[s], t)
    <3>1. \A t \in 1 .. s : t \in Slots /\ (t = s \/ t \in 1 .. s - 1)
      BY <1>0
    <3>2. QED
      BY <1>0, <1>3, <2>1, <2>2, <3>1
  <2>4. QED
    BY <2>1, <2>3
<1>9. f[NSlots] \in S[NSlots]
  <2> HIDE DEF S
  <2> QED
    BY <1>0, <1>7, <1>8, LoopInvariant
<1>10. f[NSlots] \in X /\ \A t \in Slots : Woken(f[NSlots], t)
  BY <1>0, <1>9
<1>11. QED
  BY <1>1, <1>10 DEF X, Woken

-------------------------------------------------------------------------------
(* The scheduler. *)

\* The zombies before the first runnable process of the run queue.
LEMMA DeadFacts ==
    ASSUME NEW k, NEW c, NEW g, TablesOK(k, c, g, NoSlot, NoSlot, 0)
    PROVE  LET dead == Dead(k)
               rest == SubSeq(k.runq, Len(dead) + 1, Len(k.runq))
           IN  /\ dead \in Seq(Slots) /\ rest \in Seq(Slots)
               /\ Distinct(dead) /\ Distinct(rest)
               /\ \A s : Has(k.runq, s) <=> Has(dead, s) \/ Has(rest, s)
               /\ \A s : ~(Has(dead, s) /\ Has(rest, s))
               /\ \A s : Has(dead, s) => s \in Slots /\ k.procs[s].state = "ZOMBIE"
               /\ rest # <<>> => k.procs[Head(rest)].state = "RUNNABLE"
<1> DEFINE q == k.runq
           live == {i \in DOMAIN q : k.procs[q[i]].state = "RUNNABLE"}
           m == IF live = {} THEN Len(q) ELSE Min(live) - 1
           dead == SubSeq(q, 1, m)
           rest == SubSeq(q, m + 1, Len(q))
<1>1. q \in Seq(Slots) /\ Len(q) \in Nat /\ DOMAIN q = 1 .. Len(q) /\ Distinct(q)
  BY DEF TablesOK, Tables, QueueOK
<1>2. Dead(k) = dead
  BY DEF Dead
<1>3. /\ m \in 0 .. Len(q) /\ \A i \in 1 .. m : i \notin live
      /\ m < Len(q) => m + 1 \in live
  <2>1. CASE live = {}
    BY <1>1, <2>1
  <2>2. CASE live # {}
    <3>1. live \in SUBSET Nat
      BY <1>1
    <3> HIDE DEF live
    <3>2. Min(live) \in live /\ \A y \in live : Min(live) <= y
      BY <2>2, <3>1, MinNat
    <3>3. Min(live) \in 1 .. Len(q)
      BY <1>1, <3>2 DEF live
    <3>4. m = Min(live) - 1 /\ m + 1 = Min(live)
      BY <2>2, <3>3
    <3> HIDE DEF m
    <3>5. \A i \in 1 .. m : i \notin live
      BY <1>1, <3>1, <3>2, <3>3, <3>4
    <3>6. QED
      BY <1>1, <3>2, <3>3, <3>4, <3>5
  <2>3. QED
    BY <2>1, <2>2
<1> HIDE DEF m
<1>4. /\ dead \in Seq(Slots) /\ rest \in Seq(Slots) /\ Len(dead) = m
      /\ Distinct(dead) /\ Distinct(rest)
      /\ \A s : Has(q, s) <=> Has(dead, s) \/ Has(rest, s)
      /\ \A s : ~(Has(dead, s) /\ Has(rest, s))
      /\ \A i \in 1 .. m : dead[i] = q[i]
      /\ m < Len(q) => rest # <<>> /\ Head(rest) = q[m + 1]
      /\ Len(rest) = Len(q) - m
  BY <1>1, <1>3, CutQueue
<1> HIDE DEF dead, rest
<1>5. ASSUME NEW s, Has(dead, s) PROVE s \in Slots /\ k.procs[s].state = "ZOMBIE"
  <2>1. PICK i \in 1 .. m : q[i] = s
    <3>1. DOMAIN dead = 1 .. m
      BY <1>4
    <3>2. QED
      BY <1>4, <1>5, <3>1 DEF Has
  <2>2. i \in 1 .. Len(q) /\ i \notin live
    BY <1>1, <1>3, <2>1
  <2>3. s \in Slots /\ Has(q, s) /\ k.procs[s].state # "RUNNABLE"
    BY <1>1, <2>1, <2>2 DEF Has
  <2>4. QED
    BY <2>3 DEF TablesOK, QueueOK
<1>6. rest # <<>> => k.procs[Head(rest)].state = "RUNNABLE"
  <2>1. rest # <<>> => m < Len(q)
    BY <1>1, <1>3, <1>4
  <2>2. QED
    BY <1>3, <1>4, <2>1
<1>7. QED
  BY <1>2, <1>4, <1>5, <1>6 DEF rest

\* The tables r are k after some zombies were released.
Reaping(k, r) ==
    \A s \in Slots : \/ r.procs[s] = k.procs[s]
                     \/ k.procs[s].state = "ZOMBIE" /\ r.procs[s].state = "FREE"

\* Releasing the zombies at the front of the run queue.
LEMMA ReapedKeeps ==
    ASSUME NEW k, TablesOK(k, cur, pid_gen, NoSlot, NoSlot, 0)
    PROVE  /\ TablesOK(Reaped(k), cur, pid_gen, NoSlot, NoSlot, 0)
           /\ Reaping(k, Reaped(k))
           /\ Reaped(k).runq # <<>> => Reaped(k).procs[Head(Reaped(k).runq)].state = "RUNNABLE"
<1> DEFINE dead == Dead(k)
           rest == SubSeq(k.runq, Len(dead) + 1, Len(k.runq))
           P == [s \in Slots |-> IF Has(dead, s) THEN Blank ELSE k.procs[s]]
           n == k.nprocs - Len(dead)
           F == k.free \o dead
           D == {s \in Slots : Has(dead, s)}
           r == Reaped(k)
<1>0. k \in Tables /\ NoSlot \notin Slots /\ Blank.state = "FREE" /\ Blank \in Process
  BY BlankFacts DEF TablesOK, NoSlot, Slots
<1>1. r = [k EXCEPT !.procs = P, !.nprocs = n, !.free = F, !.runq = rest]
  BY DEF Reaped, Has
<1>2. /\ dead \in Seq(Slots) /\ rest \in Seq(Slots)
      /\ Distinct(dead) /\ Distinct(rest)
  BY DeadFacts
<1>3. /\ \A s : Has(k.runq, s) <=> Has(dead, s) \/ Has(rest, s)
      /\ \A s : ~(Has(dead, s) /\ Has(rest, s))
  BY DeadFacts
<1>4. \A s : Has(dead, s) => s \in Slots /\ k.procs[s].state = "ZOMBIE"
  BY DeadFacts
<1>5. rest # <<>> => k.procs[Head(rest)].state = "RUNNABLE" /\ Head(rest) \in Slots
  <2>1. rest # <<>> => k.procs[Head(rest)].state = "RUNNABLE"
    BY DeadFacts
  <2>2. QED
    BY <1>2, <2>1
<1> HIDE DEF dead, rest, r
<1>6. Len(dead) \in Nat /\ n \in Int /\ F \in Seq(Slots) /\ P \in [Slots -> Process]
  BY <1>0, <1>2 DEF Tables
<1> HIDE DEF P, n, F
<1>7. /\ r \in Tables /\ r.procs = P /\ r.runq = rest /\ r.free = F
      /\ r.freeframes = k.freeframes /\ r.nprocs = n /\ r.nrunnable = k.nrunnable
  BY <1>0, <1>1, <1>2, <1>6 DEF Tables
<1>8. \A s \in Slots : /\ Has(dead, s) => r.procs[s] = Blank
                       /\ ~Has(dead, s) => r.procs[s] = k.procs[s]
  BY <1>7 DEF P
<1>9. Reaping(k, r)
  BY <1>0, <1>4, <1>8 DEF Reaping
<1>10. \A s \in Slots : Live(r, s) <=> Live(k, s)
  BY <1>9 DEF Reaping, Live
<1>11. QueueOK(r, cur, NoSlot)
  <2>1. cur \in Slots /\ ~Has(k.runq, cur) /\ k.procs[cur].state # "FREE"
    BY DEF TablesOK, QueueOK
  <2>2. r.procs[cur] = k.procs[cur]
    BY <1>3, <1>8, <2>1
  <2>3. ASSUME NEW s \in Slots
        PROVE  Has(rest, s) <=> /\ s # cur /\ s # NoSlot
                                /\ r.procs[s].state \in {"RUNNABLE", "ZOMBIE"}
    <3>1. CASE Has(dead, s)
      <4>1. r.procs[s].state = "FREE"
        BY <1>0, <1>8, <3>1
      <4>2. QED
        BY <1>3, <3>1, <4>1
    <3>2. CASE ~Has(dead, s)
      <4>1. r.procs[s] = k.procs[s] /\ (Has(rest, s) <=> Has(k.runq, s))
        BY <1>3, <1>8, <3>2
      <4>2. QED
        BY <4>1 DEF TablesOK, QueueOK
    <3>3. QED
      BY <3>1, <3>2
  <2>4. QED
    BY <1>0, <1>2, <1>7, <2>1, <2>2, <2>3 DEF QueueOK
<1>12. CountOK(r)
  <2>1. IsFiniteSet(D) /\ Cardinality(D) = Len(dead)
    BY <1>2, QueueLength
  <2>2. Used(r) = Used(k) \ D /\ D \subseteq Used(k)
    BY <1>0, <1>4, <1>8 DEF Used
  <2>3. Used(k) \in SUBSET Slots
    BY DEF Used
  <2>4. IsFiniteSet(Used(k)) /\ Cardinality(Used(k)) \in Nat
    BY <2>3, SlotSets
  <2> HIDE DEF D
  <2>5. Cardinality(Used(r)) = Cardinality(Used(k)) - Len(dead)
    <3>1. Used(k) \cap D = D
      BY <2>2
    <3>2. Cardinality(Used(k) \ D) = Cardinality(Used(k)) - Cardinality(Used(k) \cap D)
      BY <2>1, <2>4, FS_Difference
    <3>3. QED
      BY <2>1, <2>2, <3>1, <3>2
  <2>6. Runnable(r) = Runnable(k)
    BY <1>9 DEF Reaping, Runnable
  <2>7. Distinct(k.free) /\ k.free \in Seq(Slots)
        /\ \A s \in Slots : Has(k.free, s) <=> k.procs[s].state = "FREE"
    BY <1>0 DEF TablesOK, CountOK, Tables
  <2>8. \A s : ~(Has(k.free, s) /\ Has(dead, s))
    BY <1>4, <2>7
  <2>9. Distinct(F) /\ \A s : Has(F, s) <=> Has(k.free, s) \/ Has(dead, s)
    BY <1>2, <2>7, <2>8, ConcatQueue DEF F
  <2>10. \A s \in Slots : Has(F, s) <=> r.procs[s].state = "FREE"
    BY <1>0, <1>8, <2>7, <2>9
  <2>11. r.nprocs = Cardinality(Used(r))
    BY <1>7, <2>5 DEF TablesOK, CountOK, n
  <2>12. QED
    BY <1>7, <2>6, <2>9, <2>10, <2>11 DEF TablesOK, CountOK
<1>13. FrameOK(r, NoSlot)
  <2>1. \A f \in Frames : Owners(r, f, NoSlot) = Owners(k, f, NoSlot)
    BY <1>0, <1>9, <1>10 DEF Owners, Reaping, Live
  <2>2. QED
    BY <1>0, <1>7, <2>1 DEF TablesOK, FrameOK
<1>14. PidOK(r, pid_gen)
  <2>1. \A t \in Used(r) : t \in Used(k) /\ r.procs[t] = k.procs[t]
    BY <1>9 DEF Used, Reaping
  <2>2. QED
    BY <2>1 DEF TablesOK, PidOK
<1>15. SlotsOK(r)
  <2>1. \A s \in Slots : r.procs[s].state = "FREE" => WaitOK(r.procs[s]) /\ ReplyOK(r.procs[s])
    BY DEF WaitOK, ReplyOK
  <2>2. QED
    BY <1>9, <2>1 DEF TablesOK, SlotsOK, Reaping
<1>16. \A pid : Gone(r, pid) <=> Gone(k, pid)
  BY <1>9, <1>10 DEF Gone, Reaping, Live
<1>17. CallOK(r, 0)
  BY <1>9, <1>16 DEF TablesOK, CallOK, Reaping
<1>18. FailOK(r)
  BY <1>9, <1>16 DEF TablesOK, FailOK, Reaping
<1>19. r.runq # <<>> => r.procs[Head(r.runq)].state = "RUNNABLE"
  BY <1>5, <1>7, <1>9 DEF Reaping
<1>20. QED
  BY <1>7, <1>9, <1>11, <1>12, <1>13, <1>14, <1>15, <1>17, <1>18, <1>19 DEF TablesOK, r

\* The context switch to the process at the front of the run queue.
LEMMA SwitchedKeeps ==
    ASSUME NEW k, TablesOK(k, cur, pid_gen, NoSlot, NoSlot, 0), k.runq # <<>>
    PROVE  /\ TablesOK(Switched(k), Head(k.runq), pid_gen, NoSlot, NoSlot, 0)
           /\ Reaping(k, Switched(k))
           /\ Switched(k).procs[Head(k.runq)] = k.procs[Head(k.runq)]
<1> DEFINE h == Head(k.runq)
           T == Tail(k.runq)
           k1 == [k EXCEPT !.runq = T]
           A == Append(T, cur)
           k2 == [k EXCEPT !.runq = A]
<1>0. k \in Tables /\ NoSlot \notin Slots /\ k.runq \in Seq(Slots)
  BY DEF TablesOK, NoSlot, Slots, Tables
<1>1. /\ T \in Seq(Slots) /\ h \in Slots /\ Has(k.runq, h) /\ Distinct(T)
      /\ \A y : Has(T, y) <=> Has(k.runq, y) /\ y # h
  BY <1>0, TailQueue DEF TablesOK, QueueOK
<1>2. h # cur /\ k.procs[h].state # "FREE" /\ cur \in Slots /\ ~Has(k.runq, cur)
  BY <1>1 DEF TablesOK, QueueOK
<1>3. /\ A \in Seq(Slots) /\ Distinct(A)
      /\ \A y : Has(A, y) <=> y = cur \/ Has(T, y)
  BY <1>1, <1>2, AppendQueue
<1> HIDE DEF T, A, h
<1>4. k1 \in Tables /\ k1.procs = k.procs /\ k1.runq = T /\ k1.free = k.free
      /\ k1.freeframes = k.freeframes /\ k1.nprocs = k.nprocs /\ k1.nrunnable = k.nrunnable
  BY <1>0, <1>1 DEF Tables
<1>5. k2 \in Tables /\ k2.procs = k.procs /\ k2.runq = A /\ k2.free = k.free
      /\ k2.freeframes = k.freeframes /\ k2.nprocs = k.nprocs /\ k2.nrunnable = k.nrunnable
  BY <1>0, <1>3 DEF Tables
<1>6. [k1 EXCEPT !.runq = Append(@, cur)] = k2
  BY <1>0 DEF Tables, A
<1> HIDE DEF k1, k2
<1>7. /\ CountOK(k1) /\ FrameOK(k1, NoSlot) /\ PidOK(k1, pid_gen) /\ SlotsOK(k1)
      /\ CallOK(k1, 0) /\ FailOK(k1)
  BY <1>4 DEF TablesOK, CountOK, Used, Runnable, FrameOK, Owners, PidOK, SlotsOK, CallOK,
              FailOK, Gone, Live
<1>8. /\ CountOK(k2) /\ FrameOK(k2, NoSlot) /\ PidOK(k2, pid_gen) /\ SlotsOK(k2)
      /\ CallOK(k2, 0) /\ FailOK(k2)
  BY <1>5 DEF TablesOK, CountOK, Used, Runnable, FrameOK, Owners, PidOK, SlotsOK, CallOK,
              FailOK, Gone, Live
<1>9. CASE k.procs[cur].state = "RUNNABLE"
  <2>1. Switched(k) = k2
    BY <1>6, <1>9 DEF Switched, k1, T
  <2>2. QueueOK(k2, h, NoSlot)
    BY <1>0, <1>1, <1>2, <1>3, <1>5, <1>9 DEF TablesOK, QueueOK
  <2>3. QED
    BY <1>5, <1>8, <2>1, <2>2 DEF TablesOK, Reaping, h
<1>10. CASE k.procs[cur].state = "ZOMBIE"
  <2>1. Switched(k) = proc_release(k1, cur)
    BY <1>10 DEF Switched, k1, T
  <2>2. QueueOK(k1, h, cur)
    BY <1>0, <1>1, <1>2, <1>4, <1>10 DEF TablesOK, QueueOK
  <2>3. TablesOK(k1, h, pid_gen, cur, NoSlot, 0)
    BY <1>4, <1>7, <2>2 DEF TablesOK
  <2>4. /\ TablesOK(proc_release(k1, cur), h, pid_gen, NoSlot, NoSlot, 0)
        /\ proc_release(k1, cur).procs[cur].state = "FREE"
    BY <1>2, <2>3, ReleaseKeeps
  <2>5. \A t \in Slots : t # cur => proc_release(k1, cur).procs[t] = k1.procs[t]
    BY <1>2, <2>3, ReleaseKeeps
  <2>6. QED
    BY <1>1, <1>2, <1>4, <1>10, <2>1, <2>4, <2>5 DEF Reaping, h
<1>11. CASE k.procs[cur].state = "WAITING"
  <2>1. Switched(k) = k1
    BY <1>11 DEF Switched, k1, T
  <2>2. QueueOK(k1, h, NoSlot)
    BY <1>0, <1>1, <1>2, <1>4, <1>11 DEF TablesOK, QueueOK
  <2>3. QED
    BY <1>4, <1>7, <2>1, <2>2 DEF TablesOK, Reaping, h
<1>12. k.procs[cur].state \in {"RUNNABLE", "ZOMBIE", "WAITING"}
  BY <1>0, <1>2 DEF TablesOK, QueueOK, Tables, Process, States
<1>13. QED
  BY <1>9, <1>10, <1>11, <1>12

-------------------------------------------------------------------------------
(* System calls. *)

\* The tables r are k with the current process waiting for a message of type t.
Blocks(k, r, t) ==
    /\ r \in Tables
    /\ r.procs[cur].state = "WAITING" /\ r.procs[cur].call = t
    /\ r.procs[cur].waiting = k.procs[cur].waiting \cup {t}
    /\ r.procs[cur].mbox = k.procs[cur].mbox
    /\ r.procs[cur].pid = k.procs[cur].pid /\ r.procs[cur].owner = k.procs[cur].owner
    /\ r.procs[cur].uid = k.procs[cur].uid
    /\ r.procs[cur].interruptable = k.procs[cur].interruptable
    /\ r.procs[cur].pages = k.procs[cur].pages
    /\ \A s \in Slots \ {cur} : r.procs[s] = k.procs[s]
    /\ r.runq = k.runq /\ r.free = k.free /\ r.freeframes = k.freeframes
    /\ r.nprocs = k.nprocs /\ r.nrunnable = k.nrunnable - 1

\* Block in terms of the fields it changes.
LEMMA BlockFields ==
    ASSUME NEW k \in Tables, NEW t \in MsgTypes, NEW alarm \in 0 .. MaxDelay, cur \in Slots
    PROVE  /\ Blocks(k, Block(k, t, alarm), t)
           /\ Block(k, t, alarm).procs[cur].server = k.procs[cur].server
           /\ Block(k, t, alarm).procs[cur].alarm_set = (alarm # 0)
<1> DEFINE p == k.procs[cur]
           p2 == [p EXCEPT !.waiting = p.waiting \cup {t}, !.state = "WAITING", !.call = t,
                           !.alarm_set = alarm # 0, !.exptime = alarm]
           P == [k.procs EXCEPT ![cur] = p2]
           n == k.nrunnable - 1
           r == Block(k, t, alarm)
<1>1. p \in Process
  BY DEF Tables
<1>2. r = [k EXCEPT !.procs = P, !.nrunnable = n]
  BY DEF Block
<1>3. p2 \in Process
  <2>1. alarm \in -1 .. MaxDelay /\ (alarm # 0) \in BOOLEAN
    BY ProcessAssumption
  <2>2. QED
    BY <1>1, <2>1 DEF Process, States
<1>4. /\ p2.state = "WAITING" /\ p2.call = t /\ p2.waiting = p.waiting \cup {t}
      /\ p2.mbox = p.mbox /\ p2.pid = p.pid /\ p2.owner = p.owner /\ p2.uid = p.uid
      /\ p2.interruptable = p.interruptable /\ p2.pages = p.pages /\ p2.server = p.server
      /\ p2.alarm_set = (alarm # 0)
  BY <1>1 DEF Process
<1> HIDE DEF p2, r
<1>5. P \in [Slots -> Process] /\ n \in Int /\ P[cur] = p2
      /\ \A s \in Slots \ {cur} : P[s] = k.procs[s]
  BY <1>3 DEF Tables
<1> HIDE DEF P, n
<1>6. /\ r \in Tables /\ r.procs = P /\ r.runq = k.runq /\ r.free = k.free
      /\ r.freeframes = k.freeframes /\ r.nprocs = k.nprocs /\ r.nrunnable = n
  BY <1>2, <1>5 DEF Tables
<1>7. QED
  BY <1>4, <1>5, <1>6 DEF Blocks, r, n

\* A process that was executing waits, and if it waits for a reply, for that of
\* another process that is alive.
LEMMA BlockKeeps ==
    ASSUME NEW k, NEW r, NEW t, TablesOK(k, cur, pid_gen, NoSlot, NoSlot, 0),
           k.procs[cur].state = "RUNNABLE", Blocks(k, r, t), k.procs[cur].mbox[t] = <<>>,
           r.procs[cur].server < pid_gen, k.procs[cur].mbox["REPLY"] = <<>>,
           t = "REPLY" => /\ r.procs[cur].alarm_set = FALSE
                          /\ r.procs[cur].server # k.procs[cur].pid
                          /\ ~Gone(k, r.procs[cur].server)
    PROVE  TablesOK(r, cur, pid_gen, NoSlot, NoSlot, 0)
<1>0. k \in Tables /\ r \in Tables /\ cur \in Slots /\ NoSlot \notin Slots
  BY DEF TablesOK, QueueOK, Blocks, Slots, NoSlot
<1>1. \A s \in Slots : s # cur => r.procs[s] = k.procs[s]
  BY DEF Blocks
<1>2. \A s \in Slots : /\ r.procs[s].state = IF s = cur THEN "WAITING" ELSE k.procs[s].state
                       /\ r.procs[s].pid = k.procs[s].pid
                       /\ r.procs[s].pages = k.procs[s].pages
                       /\ Live(r, s) <=> Live(k, s)
  BY DEF Blocks, Live
<1>3. QueueOK(r, cur, NoSlot)
  BY <1>0, <1>2 DEF TablesOK, QueueOK, Blocks
<1>4. CountOK(r)
  <2>1. Used(r) = Used(k)
    BY <1>2 DEF Used
  <2>2. Runnable(r) = Runnable(k) \ {cur} /\ cur \in Runnable(k)
    BY <1>0, <1>2 DEF Runnable
  <2>3. Cardinality(Runnable(r)) = Cardinality(Runnable(k)) - 1
    BY <2>2, SlotSets DEF Runnable
  <2>4. \A s \in Slots : r.procs[s].state = "FREE" <=> k.procs[s].state = "FREE"
    BY <1>2
  <2>5. r.nprocs = k.nprocs /\ r.nrunnable = k.nrunnable - 1 /\ r.free = k.free
    BY DEF Blocks
  <2>6. QED
    BY <2>1, <2>3, <2>4, <2>5 DEF TablesOK, CountOK
<1>5. FrameOK(r, NoSlot)
  <2>1. \A f \in Frames : Owners(r, f, NoSlot) = Owners(k, f, NoSlot)
    BY <1>2 DEF Owners
  <2>2. r.freeframes = k.freeframes
    BY DEF Blocks
  <2>3. QED
    BY <1>0, <2>1, <2>2 DEF TablesOK, FrameOK
<1>6. PidOK(r, pid_gen)
  <2>1. Used(r) = Used(k) /\ Used(r) \subseteq Slots
    BY <1>2 DEF Used
  <2>2. \A s \in Slots : s # cur => r.procs[s].server = k.procs[s].server
    BY <1>1
  <2>3. QED
    BY <1>2, <2>1, <2>2 DEF TablesOK, PidOK
<1>7. SlotsOK(r)
  <2>1. WaitOK(r.procs[cur]) /\ ReplyOK(r.procs[cur])
    BY <1>0 DEF WaitOK, ReplyOK, Blocks, TablesOK, SlotsOK
  <2>2. QED
    BY <1>1, <2>1 DEF TablesOK, SlotsOK
<1>8. \A pid : Gone(r, pid) <=> Gone(k, pid)
  BY <1>2 DEF Gone
<1>9. CallOK(r, 0)
  <2> SUFFICES ASSUME NEW s \in Slots, r.procs[s].state = "WAITING",
                      r.procs[s].call = "REPLY"
               PROVE  r.procs[s].server # r.procs[s].pid /\ ~Gone(k, r.procs[s].server)
    BY <1>8 DEF CallOK
  <2>1. CASE s = cur
    BY <2>1 DEF Blocks
  <2>2. CASE s # cur
    BY <1>1, <2>2 DEF TablesOK, CallOK
  <2>3. QED
    BY <2>1, <2>2
<1>10. FailOK(r)
  BY <1>1, <1>2, <1>8 DEF TablesOK, FailOK
<1>11. QED
  BY <1>0, <1>3, <1>4, <1>5, <1>6, <1>7, <1>9, <1>10 DEF TablesOK

\* The tables r are k with the current process out of its receive of type t.
LEMMA TakeKeeps ==
    ASSUME NEW k, NEW t \in MsgTypes, TablesOK(k, cur, pid_gen, NoSlot, NoSlot, 0),
           pid_gen \in 1 .. MaxPid + 1,
           k.procs[cur].state = "RUNNABLE", k.procs[cur].call \in {t, "none"},
           t = "REPLY" => k.procs[cur].call = t
    PROVE  /\ TablesOK(Take(k, t), cur, pid_gen, NoSlot, NoSlot, 0)
           /\ OnlyWakes(k, Take(k, t))
<1> DEFINE p == k.procs[cur]
           b == IF p.mbox[t] = <<>> THEN <<>> ELSE Tail(p.mbox[t])
           m == [p.mbox EXCEPT ![t] = b]
           p2 == [p EXCEPT !.mbox = m, !.server = 0, !.call = "none"]
           P == [k.procs EXCEPT ![cur] = p2]
           r == Take(k, t)
<1>0. k \in Tables /\ cur \in Slots /\ NoSlot \notin Slots
  BY DEF TablesOK, QueueOK, Slots, NoSlot
<1>1. p \in Process /\ p.mbox \in [MsgTypes -> Seq(Pids)]
  BY <1>0 DEF Tables, Process
<1>2. b \in Seq(Pids)
  BY <1>1
<1>3. /\ m \in [MsgTypes -> Seq(Pids)] /\ m[t] = b
      /\ \A u \in MsgTypes : u # t => m[u] = p.mbox[u]
  BY <1>1, <1>2
<1>4. r = [k EXCEPT !.procs = P]
  BY DEF Take
<1>5. m["REPLY"] = <<>>
  <2>1. ReplyOK(p)
    BY <1>0 DEF TablesOK, SlotsOK
  <2>2. CASE t = "REPLY"
    <3>1. p.mbox[t] = <<>> \/ p.mbox[t] = <<p.server>>
      BY <2>1, <2>2 DEF ReplyOK
    <3>2. Tail(<<p.server>>) = <<>>
      OBVIOUS
    <3>3. b = <<>>
      BY <3>1, <3>2
    <3>4. QED
      BY <1>3, <2>2, <3>3
  <2>3. CASE t # "REPLY"
    <3>1. p.call # "REPLY"
      BY <2>3
    <3>2. p.mbox["REPLY"] = <<>>
      BY <2>1, <3>1 DEF ReplyOK
    <3>3. QED
      BY <1>3, <2>3, <3>2 DEF MsgTypes
  <2>4. QED
    BY <2>2, <2>3
<1> HIDE DEF b, m, r
<1>6. p2 \in Process
  <2>1. 0 \in 0 .. MaxPid
    BY ProcessAssumption
  <2>2. QED
    BY <1>1, <1>3, <2>1 DEF Process
<1>7. /\ p2.state = p.state /\ p2.call = "none" /\ p2.waiting = p.waiting
      /\ p2.mbox = m /\ p2.pid = p.pid /\ p2.owner = p.owner /\ p2.uid = p.uid
      /\ p2.interruptable = p.interruptable /\ p2.pages = p.pages /\ p2.server = 0
      /\ p2.alarm_set = p.alarm_set
  BY <1>1 DEF Process
<1> HIDE DEF p2
<1>8. P \in [Slots -> Process] /\ P[cur] = p2
      /\ \A s \in Slots : s # cur => P[s] = k.procs[s]
  BY <1>0, <1>6 DEF Tables
<1> HIDE DEF P
<1>9. /\ r \in Tables /\ r.procs = P /\ r.runq = k.runq /\ r.free = k.free
      /\ r.freeframes = k.freeframes /\ r.nprocs = k.nprocs /\ r.nrunnable = k.nrunnable
  BY <1>0, <1>4, <1>8 DEF Tables
<1>10. \A s \in Slots : s # cur => r.procs[s] = k.procs[s]
  BY <1>8, <1>9
<1>11. \A s \in Slots : /\ r.procs[s].state = k.procs[s].state
                        /\ r.procs[s].pid = k.procs[s].pid
                        /\ r.procs[s].pages = k.procs[s].pages
                        /\ Live(r, s) <=> Live(k, s)
  BY <1>7, <1>8, <1>9 DEF Live
<1>12. QueueOK(r, cur, NoSlot)
  BY <1>9, <1>11 DEF TablesOK, QueueOK
<1>13. CountOK(r)
  <2>1. Used(r) = Used(k) /\ Runnable(r) = Runnable(k)
    BY <1>11 DEF Used, Runnable
  <2>2. QED
    BY <1>9, <1>11, <2>1 DEF TablesOK, CountOK
<1>14. FrameOK(r, NoSlot)
  <2>1. \A f \in Frames : Owners(r, f, NoSlot) = Owners(k, f, NoSlot)
    BY <1>11 DEF Owners
  <2>2. QED
    BY <1>0, <1>9, <2>1 DEF TablesOK, FrameOK
<1>15. PidOK(r, pid_gen)
  <2>1. Used(r) = Used(k) /\ Used(r) \subseteq Slots /\ cur \in Used(k)
    BY <1>0, <1>11 DEF Used
  <2>2. \A s \in Slots : s # cur => r.procs[s].server = k.procs[s].server
    BY <1>10
  <2>3. r.procs[cur].server = 0 /\ k.procs[cur].pid \in 1 .. pid_gen - 1
    BY <1>7, <1>8, <1>9, <2>1 DEF TablesOK, PidOK
  <2>4. r.procs[cur].server < pid_gen
    BY <2>3, ProcessAssumption
  <2>5. QED
    BY <1>11, <2>1, <2>2, <2>4 DEF TablesOK, PidOK
<1>16. SlotsOK(r)
  <2>1. WaitOK(r.procs[cur]) /\ ReplyOK(r.procs[cur])
    BY <1>0, <1>5, <1>7, <1>8, <1>9 DEF WaitOK, ReplyOK, TablesOK, SlotsOK
  <2>2. QED
    BY <1>10, <2>1 DEF TablesOK, SlotsOK
<1>17. \A pid : Gone(r, pid) <=> Gone(k, pid)
  BY <1>11 DEF Gone
<1>18. CallOK(r, 0)
  BY <1>10, <1>11, <1>17 DEF TablesOK, CallOK
<1>19. FailOK(r)
  <2>1. r.procs[cur].call = "none"
    BY <1>7, <1>8, <1>9
  <2>2. QED
    BY <1>10, <1>11, <1>17, <2>1 DEF TablesOK, FailOK
<1>20. OnlyWakes(k, r)
  BY <1>7, <1>8, <1>9 DEF OnlyWakes
<1>21. QED
  BY <1>9, <1>12, <1>13, <1>14, <1>15, <1>16, <1>18, <1>19, <1>20 DEF TablesOK, r

\* The state of every process is the same in both tables.
SameStates(k, r) == \A s \in Slots : r.procs[s].state = k.procs[s].state

\* A process gets a frame that was on the free list.
LEMMA FrameAllocKeeps ==
    ASSUME NEW k, NEW f \in Frames, TablesOK(k, cur, pid_gen, NoSlot, NoSlot, 0),
           k.procs[cur].state = "RUNNABLE", k.freeframes[f] > 0
    PROVE  LET r == [k EXCEPT !.freeframes[f] = @ - 1, !.procs[cur].pages = @ \cup {f}]
           IN  /\ TablesOK(r, cur, pid_gen, NoSlot, NoSlot, 0)
               /\ SameStates(k, r)
<1> DEFINE p == k.procs[cur]
           p2 == [p EXCEPT !.pages = p.pages \cup {f}]
           P == [k.procs EXCEPT ![cur] = p2]
           H == [k.freeframes EXCEPT ![f] = k.freeframes[f] - 1]
           r == [k EXCEPT !.freeframes[f] = @ - 1, !.procs[cur].pages = @ \cup {f}]
<1>0. k \in Tables /\ cur \in Slots /\ NoSlot \notin Slots
  BY DEF TablesOK, QueueOK, Slots, NoSlot
<1>1. p \in Process
  BY <1>0 DEF Tables
<1>2. r = [k EXCEPT !.freeframes = H, !.procs = P]
  BY <1>0 DEF Tables
<1>3. p2 \in Process /\ p2.pages = p.pages \cup {f}
  BY <1>1 DEF Process
<1>4. /\ p2.state = p.state /\ p2.call = p.call /\ p2.waiting = p.waiting
      /\ p2.mbox = p.mbox /\ p2.pid = p.pid /\ p2.server = p.server
      /\ p2.alarm_set = p.alarm_set
  BY <1>1 DEF Process
<1> HIDE DEF p2, r
<1>5. P \in [Slots -> Process] /\ P[cur] = p2
      /\ \A s \in Slots : s # cur => P[s] = k.procs[s]
  BY <1>0, <1>3 DEF Tables
<1>6. k.freeframes \in [Frames -> Nat]
  BY <1>0 DEF Tables
<1>7. /\ H \in [Frames -> Nat] /\ H[f] = k.freeframes[f] - 1
      /\ \A g \in Frames : g # f => H[g] = k.freeframes[g]
  BY <1>6
<1> HIDE DEF P, H
<1>8. /\ r \in Tables /\ r.procs = P /\ r.runq = k.runq /\ r.free = k.free
      /\ r.freeframes = H /\ r.nprocs = k.nprocs /\ r.nrunnable = k.nrunnable
  BY <1>0, <1>2, <1>5, <1>7 DEF Tables
<1>9. \A s \in Slots : s # cur => r.procs[s] = k.procs[s]
  BY <1>5, <1>8
<1>10. \A s \in Slots : /\ r.procs[s].state = k.procs[s].state
                        /\ r.procs[s].pid = k.procs[s].pid
                        /\ r.procs[s].server = k.procs[s].server
                        /\ r.procs[s].call = k.procs[s].call
                        /\ r.procs[s].mbox = k.procs[s].mbox
                        /\ r.procs[s].waiting = k.procs[s].waiting
                        /\ r.procs[s].alarm_set = k.procs[s].alarm_set
                        /\ Live(r, s) <=> Live(k, s)
  BY <1>4, <1>5, <1>8 DEF Live
<1>11. QueueOK(r, cur, NoSlot)
  BY <1>8, <1>10 DEF TablesOK, QueueOK
<1>12. CountOK(r)
  <2>1. Used(r) = Used(k) /\ Runnable(r) = Runnable(k)
    BY <1>10 DEF Used, Runnable
  <2>2. QED
    BY <1>8, <1>10, <2>1 DEF TablesOK, CountOK
<1>13. FrameOK(r, NoSlot)
  <2> SUFFICES ASSUME NEW g \in Frames
               PROVE  H[g] + Cardinality(Owners(r, g, NoSlot)) = 1
    BY <1>0, <1>8 DEF FrameOK
  <2>0. k.freeframes[g] + Cardinality(Owners(k, g, NoSlot)) = 1 /\ k.freeframes[g] \in Nat
    BY <1>6 DEF TablesOK, FrameOK
  <2>1. Owners(k, g, NoSlot) \in SUBSET Slots
    BY DEF Owners
  <2>2. IsFiniteSet(Owners(k, g, NoSlot)) /\ Cardinality(Owners(k, g, NoSlot)) \in Nat
    BY <2>1, SlotSets
  <2>3. CASE g = f
    <3>1. Cardinality(Owners(k, g, NoSlot)) = 0 /\ k.freeframes[g] = 1
      BY <2>0, <2>2, <2>3
    <3>2. Owners(k, g, NoSlot) = {}
      BY <2>2, <3>1, FS_EmptySet
    <3>3. Owners(r, g, NoSlot) = {cur}
      BY <1>0, <1>3, <1>5, <1>8, <1>9, <1>10, <2>3, <3>2 DEF Owners, Live
    <3>4. Cardinality({cur}) = 1
      BY FS_Singleton
    <3>5. QED
      BY <1>7, <2>3, <3>1, <3>3, <3>4
  <2>4. CASE g # f
    <3>1. r.procs[cur].pages = k.procs[cur].pages \cup {f}
      BY <1>3, <1>5, <1>8
    <3>2. Owners(r, g, NoSlot) = Owners(k, g, NoSlot)
      BY <1>9, <1>10, <2>4, <3>1 DEF Owners
    <3>3. QED
      BY <1>7, <2>0, <2>4, <3>2
  <2>5. QED
    BY <2>3, <2>4
<1>14. PidOK(r, pid_gen)
  <2>1. Used(r) = Used(k) /\ Used(r) \subseteq Slots
    BY <1>10 DEF Used
  <2>2. QED
    BY <1>10, <2>1 DEF TablesOK, PidOK
<1>15. SlotsOK(r)
  BY <1>10 DEF TablesOK, SlotsOK, WaitOK, ReplyOK
<1>16. \A pid : Gone(r, pid) <=> Gone(k, pid)
  BY <1>10 DEF Gone
<1>17. CallOK(r, 0) /\ FailOK(r)
  BY <1>10, <1>16 DEF TablesOK, CallOK, FailOK
<1>18. QED
  BY <1>8, <1>10, <1>11, <1>12, <1>13, <1>14, <1>15, <1>17 DEF TablesOK, SameStates, r

\* The passing of time changes the alarms only.
LEMMA TickKeeps ==
    ASSUME NEW k, TablesOK(k, cur, pid_gen, NoSlot, NoSlot, 0), NEW P,
           P = [s \in Slots |-> IF k.procs[s].alarm_set
                                THEN [k.procs[s] EXCEPT !.exptime = Later(@)]
                                ELSE k.procs[s]]
    PROVE  /\ TablesOK([k EXCEPT !.procs = P], cur, pid_gen, NoSlot, NoSlot, 0)
           /\ SameStates(k, [k EXCEPT !.procs = P])
<1> DEFINE r == [k EXCEPT !.procs = P]
<1>0. k \in Tables
  BY DEF TablesOK
<1>1. ASSUME NEW s \in Slots
      PROVE  /\ P[s] \in Process
             /\ P[s].state = k.procs[s].state /\ P[s].call = k.procs[s].call
             /\ P[s].waiting = k.procs[s].waiting /\ P[s].mbox = k.procs[s].mbox
             /\ P[s].pid = k.procs[s].pid /\ P[s].server = k.procs[s].server
             /\ P[s].alarm_set = k.procs[s].alarm_set /\ P[s].pages = k.procs[s].pages
  <2> DEFINE p == k.procs[s]
             e == Later(p.exptime)
             p2 == [p EXCEPT !.exptime = e]
  <2>1. p \in Process
    BY <1>0 DEF Tables
  <2>2. e \in -1 .. MaxDelay
    <3>1. p.exptime \in -1 .. MaxDelay
      BY <2>1 DEF Process
    <3> HIDE DEF p
    <3>2. QED
      BY <3>1, ProcessAssumption DEF Later
  <2>3. P[s] = IF p.alarm_set THEN p2 ELSE p
    OBVIOUS
  <2> HIDE DEF e, p
  <2>4. /\ p2 \in Process /\ p2.state = p.state /\ p2.call = p.call
        /\ p2.waiting = p.waiting /\ p2.mbox = p.mbox /\ p2.pid = p.pid
        /\ p2.server = p.server /\ p2.alarm_set = p.alarm_set /\ p2.pages = p.pages
    BY <2>1, <2>2 DEF Process
  <2> HIDE DEF p2
  <2>5. QED
    BY <2>1, <2>3, <2>4 DEF p
<1>2. P \in [Slots -> Process]
  <2>1. P = [s \in Slots |-> P[s]]
    OBVIOUS
  <2>2. QED
    BY <1>1, <2>1
<1>3. /\ r \in Tables /\ r.procs = P /\ r.runq = k.runq /\ r.free = k.free
      /\ r.freeframes = k.freeframes /\ r.nprocs = k.nprocs /\ r.nrunnable = k.nrunnable
  <2> HIDE DEF r
  <2>1. r = [k EXCEPT !.procs = P]
    BY DEF r
  <2>2. QED
    BY <1>0, <1>2, <2>1 DEF Tables
<1> HIDE DEF r
<1>4. \A s \in Slots : /\ r.procs[s].state = k.procs[s].state
                       /\ r.procs[s].pid = k.procs[s].pid
                       /\ r.procs[s].server = k.procs[s].server
                       /\ r.procs[s].call = k.procs[s].call
                       /\ r.procs[s].mbox = k.procs[s].mbox
                       /\ r.procs[s].waiting = k.procs[s].waiting
                       /\ r.procs[s].alarm_set = k.procs[s].alarm_set
                       /\ r.procs[s].pages = k.procs[s].pages
                       /\ Live(r, s) <=> Live(k, s)
  <2>1. r.procs = P
    BY <1>3
  <2>2. QED
    BY <1>1, <2>1 DEF Live
<1>5. QueueOK(r, cur, NoSlot)
  BY <1>3, <1>4 DEF TablesOK, QueueOK
<1>6. CountOK(r)
  <2>1. Used(r) = Used(k) /\ Runnable(r) = Runnable(k)
    BY <1>4 DEF Used, Runnable
  <2>2. QED
    BY <1>3, <1>4, <2>1 DEF TablesOK, CountOK
<1>7. FrameOK(r, NoSlot)
  <2>1. \A f \in Frames : Owners(r, f, NoSlot) = Owners(k, f, NoSlot)
    BY <1>4 DEF Owners
  <2>2. NoSlot \notin Slots
    BY DEF NoSlot, Slots
  <2>3. QED
    BY <1>3, <2>1, <2>2 DEF TablesOK, FrameOK
<1>8. PidOK(r, pid_gen)
  <2>1. Used(r) = Used(k) /\ Used(r) \subseteq Slots
    BY <1>4 DEF Used
  <2>2. QED
    BY <1>4, <2>1 DEF TablesOK, PidOK
<1>9. SlotsOK(r)
  BY <1>4 DEF TablesOK, SlotsOK, WaitOK, ReplyOK
<1>10. \A pid : Gone(r, pid) <=> Gone(k, pid)
  BY <1>4 DEF Gone
<1>11. CallOK(r, 0) /\ FailOK(r)
  BY <1>4, <1>10 DEF TablesOK, CallOK, FailOK
<1>12. QED
  BY <1>3, <1>4, <1>5, <1>6, <1>7, <1>8, <1>9, <1>11 DEF TablesOK, SameStates, r

\* proc_create_uid: a new process in slot new.
Created(k, new, owner, uid, i) ==
    [k EXCEPT !.procs[new] = [Allocated(pid_gen, owner, uid) EXCEPT !.interruptable = i],
              !.free = Tail(@), !.nprocs = @ + 1, !.nrunnable = @ + 1,
              !.runq = Append(@, cur)]

\* The tables r are k with one more process, which runs.
Starts(k, r, new) ==
    /\ TablesOK(r, new, pid_gen + 1, NoSlot, NoSlot, 0)
    /\ new \in Slots /\ k.procs[new].state = "FREE"
    /\ r.procs[new].state = "RUNNABLE"
    /\ \A s \in Slots : s # new => r.procs[s] = k.procs[s]

\* The new process is the current one from now on.
LEMMA CreateKeeps ==
    ASSUME NEW k, NEW owner \in Pids, NEW uid \in Uids, NEW i \in BOOLEAN,
           TablesOK(k, cur, pid_gen, NoSlot, NoSlot, 0), pid_gen \in Pids,
           k.procs[cur].state = "RUNNABLE", k.free # <<>>
    PROVE  Starts(k, Created(k, Head(k.free), owner, uid, i), Head(k.free))
<1> DEFINE new == Head(k.free)
           a == Allocated(pid_gen, owner, uid)
           p == [a EXCEPT !.interruptable = i]
           P == [k.procs EXCEPT ![new] = p]
           F == Tail(k.free)
           Q == Append(k.runq, cur)
           n == k.nprocs + 1
           m == k.nrunnable + 1
           r == Created(k, new, owner, uid, i)
<1>0. /\ k \in Tables /\ cur \in Slots /\ NoSlot \notin Slots
      /\ k.runq \in Seq(Slots) /\ k.free \in Seq(Slots)
      /\ Distinct(k.free) /\ Distinct(k.runq) /\ ~Has(k.runq, cur)
  BY DEF TablesOK, QueueOK, CountOK, Slots, NoSlot, Tables
<1>1. /\ new \in Slots /\ Has(k.free, new) /\ F \in Seq(Slots) /\ Distinct(F)
      /\ \A y : Has(F, y) <=> Has(k.free, y) /\ y # new
  BY <1>0, TailQueue
<1>2. /\ Q \in Seq(Slots) /\ Distinct(Q)
      /\ \A y : Has(Q, y) <=> y = cur \/ Has(k.runq, y)
  BY <1>0, AppendQueue
<1>3. k.procs[new].state = "FREE" /\ new # cur
  BY <1>1 DEF TablesOK, CountOK
<1>4. r = [k EXCEPT !.procs = P, !.free = F, !.nprocs = n, !.nrunnable = m, !.runq = Q]
  BY <1>0 DEF Tables, Created
<1>5. /\ a \in Process /\ a.state = "RUNNABLE" /\ a.pid = pid_gen /\ a.server = 0
      /\ a.call = "none" /\ a.waiting = {} /\ a.alarm_set = FALSE /\ a.pages = {}
      /\ a.mbox = [t \in MsgTypes |-> <<>>]
  <2>1. Blank \in Process
    BY BlankFacts
  <2>2. pid_gen \in 0 .. MaxPid /\ owner \in 0 .. MaxPid
    BY DEF Pids
  <2>3. /\ Blank.server = 0 /\ Blank.call = "none" /\ Blank.waiting = {}
        /\ Blank.alarm_set = FALSE /\ Blank.pages = {}
        /\ Blank.mbox = [t \in MsgTypes |-> <<>>]
    BY DEF Blank
  <2>4. QED
    BY <2>1, <2>2, <2>3 DEF Allocated, Process, States
<1> HIDE DEF new, a
<1>6. /\ p \in Process /\ p.state = "RUNNABLE" /\ p.pid = pid_gen /\ p.server = 0
      /\ p.call = "none" /\ p.waiting = {} /\ p.alarm_set = FALSE /\ p.pages = {}
      /\ p.mbox = [t \in MsgTypes |-> <<>>]
  BY <1>5 DEF Process
<1> HIDE DEF p, r
<1>7. P \in [Slots -> Process] /\ P[new] = p /\ n \in Int /\ m \in Int
      /\ \A s \in Slots : s # new => P[s] = k.procs[s]
  BY <1>0, <1>1, <1>6 DEF Tables
<1> HIDE DEF P, F, Q, n, m
<1>8. /\ r \in Tables /\ r.procs = P /\ r.runq = Q /\ r.free = F
      /\ r.freeframes = k.freeframes /\ r.nprocs = n /\ r.nrunnable = m
  BY <1>0, <1>1, <1>2, <1>4, <1>7 DEF Tables
<1>9. \A s \in Slots : s # new => r.procs[s] = k.procs[s]
  BY <1>7, <1>8
<1>10. r.procs[new] = p
  BY <1>7, <1>8
<1>11. QueueOK(r, new, NoSlot)
  <2> SUFFICES ASSUME NEW s \in Slots
               PROVE  Has(Q, s) <=> s # new /\ r.procs[s].state \in {"RUNNABLE", "ZOMBIE"}
    BY <1>0, <1>1, <1>2, <1>6, <1>8, <1>10 DEF QueueOK
  <2>1. CASE s = new
    BY <1>2, <1>3, <2>1 DEF TablesOK, QueueOK
  <2>2. CASE s # new
    BY <1>0, <1>2, <1>9, <2>2 DEF TablesOK, QueueOK
  <2>3. QED
    BY <2>1, <2>2
<1>12. CountOK(r)
  <2>1. Used(r) = Used(k) \cup {new} /\ Runnable(r) = Runnable(k) \cup {new}
    BY <1>1, <1>6, <1>9, <1>10 DEF Used, Runnable
  <2>2. new \in Slots \ Used(k) /\ new \in Slots \ Runnable(k)
    BY <1>1, <1>3 DEF Used, Runnable
  <2>3. Used(k) \in SUBSET Slots /\ Runnable(k) \in SUBSET Slots
    BY DEF Used, Runnable
  <2>4. /\ Cardinality(Used(r)) = Cardinality(Used(k)) + 1
        /\ Cardinality(Runnable(r)) = Cardinality(Runnable(k)) + 1
    BY <2>1, <2>2, <2>3, SlotSets
  <2>5. \A s \in Slots : Has(F, s) <=> r.procs[s].state = "FREE"
    BY <1>1, <1>6, <1>9, <1>10 DEF TablesOK, CountOK
  <2>6. QED
    BY <1>1, <1>8, <2>4, <2>5 DEF TablesOK, CountOK, n, m
<1>13. FrameOK(r, NoSlot)
  <2>1. \A f \in Frames : Owners(r, f, NoSlot) = Owners(k, f, NoSlot)
    BY <1>3, <1>6, <1>9, <1>10 DEF Owners, Live, NoSlot, Slots
  <2>2. QED
    BY <1>0, <1>8, <2>1 DEF TablesOK, FrameOK
<1>14. PidOK(r, pid_gen + 1)
  <2>1. pid_gen \in Nat /\ pid_gen >= 1
    BY ProcessAssumption DEF Pids
  <2>2. \A s \in Used(r) : s = new \/ (s \in Used(k) /\ r.procs[s] = k.procs[s] /\ s \in Slots)
    BY <1>9 DEF Used
  <2>3. \A s \in Used(k) : /\ k.procs[s].pid \in 1 .. pid_gen - 1 /\ k.procs[s].server < pid_gen
                           /\ k.procs[s].server \in Int
    BY <1>0 DEF TablesOK, PidOK, Tables, Process, Used
  <2>4. \A s \in Used(r) : r.procs[s].pid \in 1 .. pid_gen /\ r.procs[s].server < pid_gen + 1
    BY <1>6, <1>10, <2>1, <2>2, <2>3
  <2>5. \A s, t \in Used(r) : r.procs[s].pid = r.procs[t].pid => s = t
    <3>1. \A s, t \in Used(k) : k.procs[s].pid = k.procs[t].pid => s = t
      BY DEF TablesOK, PidOK
    <3>2. \A s \in Used(k) : k.procs[s].pid # pid_gen
      BY <2>1, <2>3
    <3>3. QED
      BY <1>6, <1>10, <2>2, <3>1, <3>2
  <2>6. (pid_gen + 1) - 1 = pid_gen
    BY <2>1
  <2>7. QED
    BY <2>4, <2>5, <2>6 DEF PidOK
<1>15. SlotsOK(r)
  <2>1. WaitOK(p) /\ ReplyOK(p)
    BY <1>6 DEF WaitOK, ReplyOK, MsgTypes
  <2>2. QED
    BY <1>9, <1>10, <2>1 DEF TablesOK, SlotsOK
<1>16. \A q : q # pid_gen /\ Gone(k, q) => Gone(r, q)
  BY <1>6, <1>9, <1>10 DEF Gone, Live
<1>17. \A q : ~Gone(k, q) => ~Gone(r, q)
  BY <1>3, <1>9 DEF Gone, Live
<1>18. CallOK(r, 0)
  BY <1>6, <1>9, <1>10, <1>17 DEF TablesOK, CallOK
<1>19. FailOK(r)
  <2> SUFFICES ASSUME NEW s \in Slots, r.procs[s].state = "RUNNABLE",
                      r.procs[s].call = "REPLY", r.procs[s].mbox["REPLY"] = <<>>
               PROVE  Gone(r, r.procs[s].server)
    BY DEF FailOK
  <2>1. s # new
    BY <1>6, <1>10
  <2>2. r.procs[s] = k.procs[s] /\ s \in Used(k)
    BY <1>9, <2>1 DEF Used
  <2>3. Gone(k, k.procs[s].server)
    BY <2>2 DEF TablesOK, FailOK
  <2>4. k.procs[s].server # pid_gen
    <3>1. k.procs[s].server \in Int /\ k.procs[s].server < pid_gen /\ pid_gen \in Int
      BY <1>0, <2>2, ProcessAssumption DEF TablesOK, PidOK, Tables, Process, Pids
    <3>2. QED
      BY <3>1
  <2>5. QED
    BY <1>16, <2>2, <2>3, <2>4
<1>20. /\ TablesOK(r, new, pid_gen + 1, NoSlot, NoSlot, 0)
       /\ r.procs[new].state = "RUNNABLE"
  BY <1>6, <1>8, <1>10, <1>11, <1>12, <1>13, <1>14, <1>15, <1>18, <1>19 DEF TablesOK
<1>21. QED
  BY <1>1, <1>3, <1>9, <1>20 DEF Starts, r, new

-------------------------------------------------------------------------------
(* The actions and the theorems.                                           *)

\* The inductive invariant of the specification.
IInv ==
    /\ TypeOK
    /\ TimeoutValid
    /\ SlotsOK(K)
    /\ Up => TablesOK(K, cur, pid_gen, NoSlot, NoSlot, 0)
    /\ phase = "run" => me.state = "RUNNABLE"

\* What a step may do to the processes: a zombie stays dead, and nobody dies or
\* the owners of the ones that die are told.
NoDeaths(k, r) == \A s \in Slots : Live(k, s) => Live(r, s)

DeadStay(k, r) ==
    \A s \in Slots : k.procs[s].state = "ZOMBIE" => r.procs[s].state \in {"ZOMBIE", "FREE"}

Effect(k, r) == DeadStay(k, r) /\ (NoDeaths(k, r) \/ EventsOK(k, r))

\* What a step may do once the machine shuts down.
LastSteps ==
    shutting_down => /\ cur' = cur
                     /\ phase' = "halted" =>
                           \A s \in Slots : procs'[s].state =
                               IF s = cur THEN "ZOMBIE" ELSE "FREE"

SafeStep == IInv' /\ Effect(K, K') /\ LastSteps

-------------------------------------------------------------------------------
(* Facts about the variables. *)

\* The tables of a state.
LEMMA TablesOfState ==
    ASSUME TypeOK
    PROVE  /\ K \in Tables
           /\ K.procs = procs /\ K.runq = runq /\ K.free = free
           /\ K.freeframes = freeframes /\ K.nprocs = nprocs /\ K.nrunnable = nrunnable
BY DEF TypeOK, K, Tables

\* The tables after a step.
LEMMA InstallTables ==
    ASSUME NEW k \in Tables, Install(k)
    PROVE  K' = k
BY DEF Install, K, Tables

\* The bound on the time-out.
LEMMA TimeoutBound ==
    /\ Max({MaxDelay, Horizon}) \in Nat
    /\ Horizon \in 0 .. Max({MaxDelay, Horizon})
    /\ 0 \in 0 .. Max({MaxDelay, Horizon})
<1>1. MaxDelay \in Nat /\ Horizon \in Nat
  BY ProcessAssumption
<1> DEFINE S == {MaxDelay, Horizon}
<1>2. \E x \in S : \A y \in S : x >= y
  <2>1. CASE MaxDelay >= Horizon
    BY <1>1, <2>1
  <2>2. CASE Horizon >= MaxDelay
    BY <1>1, <2>2
  <2>3. QED
    BY <1>1, <2>1, <2>2
<1>3. Max(S) \in S /\ \A y \in S : Max(S) >= y
  BY <1>2 DEF Max
<1>4. QED
  BY <1>1, <1>3

\* The invariant after a step of a kernel that is up.
LEMMA InstallInv ==
    ASSUME NEW k, Install(k), TablesOK(k, cur', pid_gen', NoSlot, NoSlot, 0),
           pid_gen' \in 1 .. MaxPid + 1, shutting_down' \in BOOLEAN,
           phase' \in {"run", "suspend"}, timeout' \in 0 .. Max({MaxDelay, Horizon}),
           phase' = "run" => k.procs[cur'].state = "RUNNABLE"
    PROVE  IInv' /\ K' = k
<1>1. k \in Tables /\ SlotsOK(k) /\ cur' \in Slots
  BY DEF TablesOK, QueueOK
<1>2. K' = k
  BY <1>1, InstallTables
<1>3. k.nprocs \in Nat /\ k.nrunnable \in Nat
  <2>1. Used(k) \in SUBSET Slots /\ Runnable(k) \in SUBSET Slots
    BY DEF Used, Runnable
  <2>2. QED
    BY <2>1, SlotSets DEF TablesOK, CountOK
<1>4. TypeOK'
  <2>1. timeout' \in -1 .. Max({MaxDelay, Horizon})
    BY TimeoutBound
  <2>2. QED
    BY <1>1, <1>3, <2>1 DEF TypeOK, Install, Tables
<1>5. TimeoutValid'
  BY TimeoutBound DEF TimeoutValid
<1>6. phase' = "run" => me'.state = "RUNNABLE"
  BY <1>1 DEF me, Install
<1>7. QED
  BY <1>1, <1>2, <1>4, <1>5, <1>6 DEF IInv

\* The tables of grass_main's first process.
LEMMA InitInv == Init => IInv
<1> SUFFICES ASSUME Init PROVE IInv
  OBVIOUS
<1> DEFINE a == Allocated(1, 1, 0)
<1>0. /\ NSlots \in Nat /\ NSlots >= 1 /\ 1 \in Slots /\ NoSlot \notin Slots /\ cur = 1
      /\ Slots = 1 .. NSlots
  BY ProcessAssumption DEF Slots, NoSlot, Init
<1>1. /\ a \in Process /\ a.state = "RUNNABLE" /\ a.pid = 1 /\ a.server = 0
      /\ a.call = "none" /\ a.waiting = {} /\ a.alarm_set = FALSE /\ a.pages = {}
      /\ a.mbox = [t \in MsgTypes |-> <<>>]
  <2>1. Blank \in Process
    BY BlankFacts
  <2>2. 1 \in 0 .. MaxPid /\ 0 \in Uids
    BY ProcessAssumption
  <2>3. /\ Blank.server = 0 /\ Blank.call = "none" /\ Blank.waiting = {}
        /\ Blank.alarm_set = FALSE /\ Blank.pages = {}
        /\ Blank.mbox = [t \in MsgTypes |-> <<>>]
    BY DEF Blank
  <2>4. QED
    BY <2>1, <2>2, <2>3 DEF Allocated, Process, States
<1>2. procs \in [Slots -> Process] /\ procs[1] = a
      /\ \A s \in Slots : s # 1 => procs[s] = Blank
  BY <1>0, <1>1, BlankFacts DEF Init
<1>3. /\ free \in Seq(Slots) /\ Distinct(free)
      /\ \A s \in Slots : Has(free, s) <=> s # 1
  <2> DEFINE n == NSlots - 1
  <2>1. n \in Nat /\ free = [s \in 1 .. n |-> s + 1] /\ \A i \in 1 .. n : i + 1 \in 1 .. NSlots
    BY <1>0 DEF Init
  <2>2. free \in Seq(Slots) /\ DOMAIN free = 1 .. n
    BY <1>0, <2>1
  <2>3. Distinct(free)
    BY <2>1, <2>2 DEF Distinct
  <2>4. ASSUME NEW s \in Slots PROVE Has(free, s) <=> s # 1
    <3>1. s # 1 => s - 1 \in 1 .. n /\ (s - 1) + 1 = s
      BY <1>0, <2>4
    <3>2. s = 1 => \A i \in 1 .. n : i + 1 # s
      BY <2>1
    <3> HIDE DEF n
    <3>3. s # 1 => Has(free, s)
      BY <2>1, <2>2, <3>1 DEF Has
    <3>4. s = 1 => ~Has(free, s)
      BY <2>1, <2>2, <3>2 DEF Has
    <3>5. QED
      BY <3>3, <3>4
  <2>5. QED
    BY <2>2, <2>3, <2>4
<1>4. TypeOK
  <2>1. freeframes \in [Frames -> Nat] /\ runq \in Seq(Slots) /\ nprocs \in Nat
        /\ nrunnable \in Nat
    BY DEF Init
  <2>2. pid_gen \in 1 .. MaxPid + 1
    BY ProcessAssumption DEF Init
  <2>3. timeout \in -1 .. Max({MaxDelay, Horizon})
    BY TimeoutBound DEF Init
  <2>4. QED
    BY <1>0, <1>2, <1>3, <2>1, <2>2, <2>3 DEF TypeOK, Init
<1>5. /\ K \in Tables
      /\ K.procs = procs /\ K.runq = runq /\ K.free = free
      /\ K.freeframes = freeframes /\ K.nprocs = nprocs /\ K.nrunnable = nrunnable
  BY <1>4, TablesOfState
<1>6. \A s \in Slots : Live(K, s) <=> s = 1
  BY <1>0, <1>1, <1>2, <1>5, BlankFacts DEF Live
<1>7. QueueOK(K, cur, NoSlot)
  <2>1. runq = <<>> /\ Distinct(runq) /\ \A s : ~Has(runq, s)
    BY DEF Init, Distinct, Has
  <2>2. QED
    BY <1>0, <1>1, <1>2, <1>5, <2>1, BlankFacts DEF QueueOK
<1>8. CountOK(K)
  <2>1. Used(K) = {1} /\ Runnable(K) = {1}
    BY <1>0, <1>1, <1>2, <1>5, BlankFacts DEF Used, Runnable
  <2>2. Cardinality({1}) = 1
    BY FS_Singleton
  <2>3. \A s \in Slots : procs[s].state = "FREE" <=> s # 1
    BY <1>1, <1>2, BlankFacts
  <2>4. QED
    BY <1>3, <1>5, <2>1, <2>2, <2>3 DEF CountOK, Init
<1>9. FrameOK(K, NoSlot)
  <2>1. \A f \in Frames : Owners(K, f, NoSlot) = {} /\ freeframes[f] = 1
    BY <1>0, <1>1, <1>2, <1>5, <1>6 DEF Owners, Init
  <2>2. Cardinality({}) = 0
    BY FS_EmptySet
  <2>3. \A f \in Frames : freeframes[f] + Cardinality(Owners(K, f, NoSlot)) = 1
    BY <2>1, <2>2
  <2>4. QED
    BY <1>0, <1>5, <2>3 DEF FrameOK
<1>10. PidOK(K, pid_gen)
  <2>1. \A s \in Used(K) : s = 1
    BY <1>1, <1>2, <1>5, BlankFacts DEF Used
  <2>2. pid_gen = 2 /\ 1 \in 1 .. pid_gen - 1 /\ 0 < pid_gen
    BY DEF Init
  <2>3. QED
    BY <1>1, <1>2, <1>5, <2>1, <2>2 DEF PidOK
<1>11. SlotsOK(K)
  <2>1. WaitOK(a) /\ ReplyOK(a) /\ WaitOK(Blank) /\ ReplyOK(Blank)
    BY <1>1, BlankFacts DEF WaitOK, ReplyOK, MsgTypes
  <2>2. QED
    BY <1>2, <1>5, <2>1 DEF SlotsOK
<1>12. CallOK(K, 0) /\ FailOK(K)
  BY <1>1, <1>2, <1>5, BlankFacts DEF CallOK, FailOK
<1>13. TimeoutValid /\ me.state = "RUNNABLE"
  BY <1>0, <1>1, <1>2 DEF TimeoutValid, Init, me
<1>14. QED
  BY <1>4, <1>5, <1>7, <1>8, <1>9, <1>10, <1>11, <1>12, <1>13 DEF IInv, TablesOK

-------------------------------------------------------------------------------
(* One lemma for each action. *)

\* What a routine may do to the processes, in terms of Effect.
LEMMA EffectFacts ==
    ASSUME NEW k, NEW r
    PROVE  /\ OnlyWakes(k, r) => Effect(k, r)
           /\ SameStates(k, r) => Effect(k, r)
           /\ k \in Tables /\ OnlyKills(k, r) /\ EventsOK(k, r) => Effect(k, r)
<1>1. OnlyWakes(k, r) => Effect(k, r)
  BY DEF OnlyWakes, Effect, DeadStay, NoDeaths, Live
<1>2. SameStates(k, r) => Effect(k, r)
  BY DEF SameStates, Effect, DeadStay, NoDeaths, Live
<1>3. OnlyKills(k, r) => DeadStay(k, r)
  BY DEF OnlyKills, DeadStay
<1>4. QED
  BY <1>1, <1>2, <1>3 DEF Effect

\* What IInv says while the current process executes or is in the kernel.
LEMMA UpFacts ==
    ASSUME IInv, phase \in {"run", "suspend"}
    PROVE  /\ TablesOK(K, cur, pid_gen, NoSlot, NoSlot, 0)
           /\ K \in Tables /\ K.procs = procs /\ K.runq = runq /\ K.free = free
           /\ K.freeframes = freeframes
           /\ cur \in Slots /\ pid_gen \in 1 .. MaxPid + 1 /\ shutting_down \in BOOLEAN
           /\ timeout \in 0 .. Max({MaxDelay, Horizon})
           /\ me = K.procs[cur]
           /\ phase = "run" => K.procs[cur].state = "RUNNABLE"
<1>1. TypeOK
  BY DEF IInv
<1>2. timeout \in 0 .. Max({MaxDelay, Horizon})
  BY <1>1, TimeoutBound DEF TypeOK, IInv, TimeoutValid
<1>3. QED
  BY <1>1, <1>2, TablesOfState DEF IInv, Up, TypeOK, me

\* A routine that kills, called with the kernel up.
LEMMA ContinueSafe ==
    ASSUME IInv, phase \in {"run", "suspend"}, NEW k, Install(k),
           TablesOK(k, cur, pid_gen, NoSlot, NoSlot, 0), Effect(K, k),
           UNCHANGED <<cur, pid_gen, shutting_down>>,
           phase' \in {"run", "suspend"}, timeout' \in {0, timeout},
           phase' = "run" => k.procs[cur].state = "RUNNABLE"
    PROVE  SafeStep
<1>1. /\ pid_gen \in 1 .. MaxPid + 1 /\ shutting_down \in BOOLEAN
      /\ timeout \in 0 .. Max({MaxDelay, Horizon})
  BY UpFacts
<1>2. timeout' \in 0 .. Max({MaxDelay, Horizon})
  BY <1>1, TimeoutBound
<1>3. IInv' /\ K' = k
  BY <1>1, <1>2, InstallInv
<1>4. QED
  BY <1>3 DEF SafeStep, LastSteps

\* A receive waits, or takes a message.
LEMMA RecvSafe ==
    ASSUME IInv, NEW t \in MsgTypes, NEW d \in 0 .. MaxDelay, sys_recv(t, d)
    PROVE  SafeStep
<1>0. phase = "run" /\ me.call = "none" /\ t \in {"REQUEST", "EVENT"}
      /\ UNCHANGED <<pid_gen, shutting_down>>
  BY DEF sys_recv, Executing
<1>1. /\ TablesOK(K, cur, pid_gen, NoSlot, NoSlot, 0) /\ K \in Tables
      /\ cur \in Slots /\ pid_gen \in 1 .. MaxPid + 1
      /\ me = K.procs[cur] /\ me.state = "RUNNABLE"
  BY <1>0, UpFacts
<1>2. CASE me.mbox[t] = <<>>
  <2> DEFINE r == Block(K, t, d)
  <2>1. Blocks(K, r, t) /\ r.procs[cur].server = me.server
    BY <1>1, BlockFields
  <2>2. Install(r) /\ phase' = "suspend" /\ timeout' = 0 /\ UNCHANGED cur
    BY <1>2 DEF sys_recv, Yield
  <2> HIDE DEF r
  <2>3. K.procs[cur].mbox["REPLY"] = <<>>
    BY <1>0, <1>1 DEF TablesOK, SlotsOK, ReplyOK
  <2>4. r.procs[cur].server < pid_gen
    BY <1>1, <2>1 DEF TablesOK, PidOK, Used
  <2>5. TablesOK(r, cur, pid_gen, NoSlot, NoSlot, 0)
    BY <1>0, <1>1, <1>2, <2>1, <2>3, <2>4, BlockKeeps
  <2>6. Effect(K, r)
    BY <1>1, <2>1 DEF Blocks, Effect, DeadStay, NoDeaths, Live
  <2>7. QED
    BY <1>0, <2>2, <2>5, <2>6, ContinueSafe
<1>3. CASE me.mbox[t] # <<>>
  <2> DEFINE r == Take(K, t)
  <2>1. Install(r) /\ UNCHANGED <<cur, phase, timeout>>
    BY <1>3 DEF sys_recv, Continue
  <2>2. TablesOK(r, cur, pid_gen, NoSlot, NoSlot, 0) /\ OnlyWakes(K, r)
    BY <1>0, <1>1, TakeKeeps
  <2> HIDE DEF r
  <2>3. r.procs[cur].state = "RUNNABLE"
    BY <1>1, <2>2 DEF OnlyWakes
  <2>4. QED
    BY <1>0, <2>1, <2>2, <2>3, EffectFacts, ContinueSafe
<1>4. QED
  BY <1>2, <1>3

\* The second half of proc_recv.
LEMMA RecvReturnSafe ==
    ASSUME IInv, RecvReturn
    PROVE  SafeStep
<1> DEFINE t == me.call
           r == Take(K, t)
<1>0. /\ phase = "run" /\ t # "none" /\ Install(r)
      /\ UNCHANGED <<pid_gen, shutting_down, cur, phase, timeout>>
  BY DEF RecvReturn, Continue
<1>1. /\ TablesOK(K, cur, pid_gen, NoSlot, NoSlot, 0) /\ K \in Tables
      /\ cur \in Slots /\ pid_gen \in 1 .. MaxPid + 1
      /\ me = K.procs[cur] /\ me.state = "RUNNABLE"
  BY <1>0, UpFacts
<1>2. t \in MsgTypes
  BY <1>0, <1>1 DEF Tables, Process
<1>3. TablesOK(r, cur, pid_gen, NoSlot, NoSlot, 0) /\ OnlyWakes(K, r)
  BY <1>1, <1>2, TakeKeeps
<1> HIDE DEF r
<1>4. r.procs[cur].state = "RUNNABLE"
  BY <1>1, <1>3 DEF OnlyWakes
<1>5. QED
  BY <1>0, <1>3, <1>4, EffectFacts, ContinueSafe

\* The id of the process that executes.
LEMMA MyPid ==
    ASSUME IInv, phase = "run"
    PROVE  me.pid \in Pids
<1>1. /\ TablesOK(K, cur, pid_gen, NoSlot, NoSlot, 0) /\ K \in Tables
      /\ cur \in Slots /\ me = K.procs[cur] /\ me.state = "RUNNABLE"
  BY UpFacts
<1>2. me.pid \in 0 .. MaxPid
  BY <1>1 DEF Tables, Process
<1>3. me.pid \in 1 .. pid_gen - 1
  BY <1>1 DEF TablesOK, PidOK, Used
<1>4. QED
  BY <1>2, <1>3 DEF Pids

\* sys_send.
LEMMA SendSafe ==
    ASSUME IInv, NEW p \in Pids, NEW t \in MsgTypes, sys_send(p, t)
    PROVE  SafeStep
<1> DEFINE r == proc_send(K, me.pid, p, t)
<1>0. /\ phase = "run" /\ Install(r)
      /\ UNCHANGED <<pid_gen, shutting_down, cur, phase, timeout>>
  BY DEF sys_send, Executing, Continue
<1>1. /\ TablesOK(K, cur, pid_gen, NoSlot, NoSlot, 0)
      /\ cur \in Slots /\ me = K.procs[cur] /\ me.state = "RUNNABLE"
  BY <1>0, UpFacts
<1>2. TablesOK(r, cur, pid_gen, NoSlot, NoSlot, 0)
      /\ Sent(K, r, me.pid, proc_find(K, p), t)
  BY <1>0, <1>1, MyPid, SendKeeps
<1> HIDE DEF r
<1>3. OnlyWakes(K, r) /\ r.procs[cur].state = "RUNNABLE"
  BY <1>1, <1>2 DEF Sent, OnlyWakes
<1>4. QED
  BY <1>0, <1>2, <1>3, EffectFacts, ContinueSafe

\* The reply of a device handler.
LEMMA IntrReplySafe ==
    ASSUME IInv, NEW src \in Pids, NEW dst \in Pids, IntrReply(src, dst)
    PROVE  SafeStep
<1> DEFINE r == proc_send(K, src, dst, "REPLY")
<1>0. /\ phase = "suspend" /\ Install(r) /\ timeout' = 0
      /\ UNCHANGED <<pid_gen, shutting_down, cur, phase>>
  BY DEF IntrReply
<1>1. TablesOK(K, cur, pid_gen, NoSlot, NoSlot, 0) /\ "REPLY" \in MsgTypes
  BY <1>0, UpFacts DEF MsgTypes
<1>2. TablesOK(r, cur, pid_gen, NoSlot, NoSlot, 0)
      /\ Sent(K, r, src, proc_find(K, dst), "REPLY")
  BY <1>0, <1>1, SendKeeps
<1> HIDE DEF r
<1>3. OnlyWakes(K, r)
  BY <1>2 DEF Sent
<1>4. QED
  BY <1>0, <1>2, <1>3, EffectFacts, ContinueSafe

\* sys_rpc: the request is sent, and the process waits for the reply of a
\* server that is alive.
LEMMA RpcSafe ==
    ASSUME IInv, NEW p \in Pids, sys_rpc(p)
    PROVE  SafeStep
<1> DEFINE d == proc_find(K, p)
           x == proc_send(K, me.pid, p, "REQUEST")
           k == [x EXCEPT !.procs[cur].server = p]
           r == Block(k, "REPLY", 0)
<1>0. /\ phase = "run" /\ me.call = "none" /\ p # me.pid
      /\ ~Refused(K, me.pid, d, "REQUEST")
      /\ Install(r) /\ phase' = "suspend" /\ timeout' = 0
      /\ UNCHANGED <<pid_gen, shutting_down, cur>>
  BY DEF sys_rpc, Executing, Yield
<1>1. /\ TablesOK(K, cur, pid_gen, NoSlot, NoSlot, 0) /\ K \in Tables
      /\ cur \in Slots /\ me = K.procs[cur] /\ me.state = "RUNNABLE"
  BY <1>0, UpFacts
<1>2. "REQUEST" \in MsgTypes /\ "REPLY" \in MsgTypes /\ SlotsOK(K) /\ p \in 0 .. MaxPid
      /\ 0 \in 0 .. MaxDelay
  BY <1>1, ProcessAssumption DEF MsgTypes, TablesOK, Pids
<1>3. d \in Slots /\ Live(K, d) /\ K.procs[d].pid = p
  BY <1>0, <1>1, <1>2, Addressee
<1>4. d # cur
  BY <1>0, <1>1, <1>3
<1>5. TablesOK(x, cur, pid_gen, NoSlot, NoSlot, 0) /\ Sent(K, x, me.pid, d, "REQUEST")
  BY <1>0, <1>1, <1>2, MyPid, SendKeeps
<1> HIDE DEF d, x
<1>6. x \in Tables /\ x.procs[cur] = me /\ OnlyWakes(K, x)
  BY <1>1, <1>4, <1>5 DEF Sent, TablesOK
<1>7. ~Gone(x, p)
  BY <1>3, <1>6 DEF OnlyWakes, Gone, Live
<1>8. /\ k \in Tables /\ k.procs[cur].server = p
      /\ k.procs[cur].mbox = me.mbox /\ k.procs[cur].pid = me.pid
      /\ k.procs[cur].owner = me.owner /\ k.procs[cur].uid = me.uid
      /\ k.procs[cur].interruptable = me.interruptable /\ k.procs[cur].pages = me.pages
      /\ k.procs[cur].waiting = me.waiting
      /\ \A s \in Slots \ {cur} : k.procs[s] = x.procs[s]
      /\ k.runq = x.runq /\ k.free = x.free /\ k.freeframes = x.freeframes
      /\ k.nprocs = x.nprocs /\ k.nrunnable = x.nrunnable
  <2> DEFINE p2 == [me EXCEPT !.server = p]
             P == [x.procs EXCEPT ![cur] = p2]
  <2>1. me \in Process
    BY <1>1 DEF Tables
  <2>2. /\ p2 \in Process /\ p2.server = p /\ p2.mbox = me.mbox /\ p2.pid = me.pid
        /\ p2.owner = me.owner /\ p2.uid = me.uid /\ p2.interruptable = me.interruptable
        /\ p2.pages = me.pages /\ p2.waiting = me.waiting
    BY <1>2, <2>1 DEF Process
  <2>3. k = [x EXCEPT !.procs = P]
    BY <1>6
  <2> HIDE DEF p2, k
  <2>4. P \in [Slots -> Process] /\ P[cur] = p2 /\ \A s \in Slots \ {cur} : P[s] = x.procs[s]
    BY <1>1, <1>6, <2>2 DEF Tables
  <2> HIDE DEF P
  <2>5. /\ k \in Tables /\ k.procs = P /\ k.runq = x.runq /\ k.free = x.free
        /\ k.freeframes = x.freeframes /\ k.nprocs = x.nprocs /\ k.nrunnable = x.nrunnable
    BY <1>6, <2>3, <2>4 DEF Tables
  <2>6. QED
    BY <2>2, <2>4, <2>5
<1> HIDE DEF k
<1>9. /\ Blocks(k, r, "REPLY") /\ r.procs[cur].server = p
      /\ r.procs[cur].alarm_set = FALSE
  BY <1>1, <1>2, <1>8, BlockFields
<1> HIDE DEF r
<1>10. Blocks(x, r, "REPLY")
  BY <1>6, <1>8, <1>9 DEF Blocks
<1>11. me.mbox["REPLY"] = <<>>
  BY <1>0, <1>1 DEF TablesOK, SlotsOK, ReplyOK
<1>12. p < pid_gen
  <2>1. p \in 1 .. pid_gen - 1
    BY <1>1, <1>3 DEF TablesOK, PidOK, Used, Live
  <2>2. pid_gen \in 1 .. MaxPid + 1
    BY <1>0, UpFacts
  <2>3. QED
    BY <2>1, <2>2, ProcessAssumption
<1>13. TablesOK(r, cur, pid_gen, NoSlot, NoSlot, 0)
  BY <1>0, <1>1, <1>5, <1>6, <1>7, <1>9, <1>10, <1>11, <1>12, BlockKeeps
<1>14. Effect(K, r)
  <2>1. Live(K, cur) /\ Live(r, cur)
    BY <1>1, <1>10 DEF Live, Blocks
  <2>2. \A s \in Slots : s # cur => r.procs[s] = x.procs[s]
    BY <1>10 DEF Blocks
  <2>3. QED
    BY <1>6, <2>1, <2>2 DEF OnlyWakes, Effect, DeadStay, NoDeaths, Live
<1>15. QED
  BY <1>0, <1>13, <1>14, ContinueSafe

\* sys_exit.
LEMMA ExitSafe ==
    ASSUME IInv, sys_exit
    PROVE  SafeStep
<1> DEFINE r == proc_term(K, cur)
<1>0. /\ phase = "run" /\ Install(r) /\ phase' = "suspend" /\ timeout' = 0
      /\ UNCHANGED <<pid_gen, shutting_down, cur>>
  BY DEF sys_exit, Executing, Yield
<1>1. /\ TablesOK(K, cur, pid_gen, NoSlot, NoSlot, 0) /\ K \in Tables
      /\ cur \in Slots /\ Live(K, cur)
  BY <1>0, UpFacts DEF Live
<1>2. Unqueued(K, cur) = NoSlot
  BY DEF Unqueued
<1>3. Killing(K, r)
  BY <1>1, <1>2, TermKills
<1> HIDE DEF r
<1>4. QED
  BY <1>0, <1>1, <1>3, EffectFacts, ContinueSafe DEF Killing

\* An interrupt of a process.
LEMMA InterruptSafe ==
    ASSUME IInv, proc_got_interrupt
    PROVE  SafeStep
<1>0. /\ phase = "run" /\ Install(K) /\ phase' = "suspend" /\ timeout' = 0
      /\ UNCHANGED <<pid_gen, shutting_down, cur>>
  BY DEF proc_got_interrupt, Executing, Yield
<1>1. TablesOK(K, cur, pid_gen, NoSlot, NoSlot, 0) /\ SameStates(K, K)
  BY <1>0, UpFacts DEF SameStates
<1>2. QED
  BY <1>0, <1>1, EffectFacts, ContinueSafe

\* A process gets a frame.
LEMMA FrameAllocSafe ==
    ASSUME IInv, NEW f \in Frames, proc_frame_alloc(f)
    PROVE  SafeStep
<1> DEFINE r == [K EXCEPT !.freeframes[f] = @ - 1, !.procs[cur].pages = @ \cup {f}]
<1>0. /\ phase = "run" /\ Install(r) /\ freeframes[f] > 0
      /\ UNCHANGED <<pid_gen, shutting_down, cur, phase, timeout>>
  BY DEF proc_frame_alloc, Executing, Continue
<1>1. /\ TablesOK(K, cur, pid_gen, NoSlot, NoSlot, 0) /\ K.freeframes = freeframes
      /\ cur \in Slots /\ K.procs[cur].state = "RUNNABLE"
  BY <1>0, UpFacts
<1> HIDE DEF K
<1>2. TablesOK(r, cur, pid_gen, NoSlot, NoSlot, 0) /\ SameStates(K, r)
  BY <1>0, <1>1, FrameAllocKeeps
<1> HIDE DEF r
<1>3. QED
  BY <1>0, <1>1, <1>2, EffectFacts, ContinueSafe DEF SameStates

\* The machine stops for want of frames.
LEMMA OutOfFramesSafe ==
    ASSUME IInv, OutOfFrames
    PROVE  SafeStep
<1>0. /\ phase' = "panic" /\ UNCHANGED <<procs, runq, free, freeframes, nprocs, nrunnable,
                                         cur, pid_gen, shutting_down, timeout>>
  BY DEF OutOfFrames
<1>1. K' = K
  BY <1>0 DEF K
<1>2. TypeOK' /\ TimeoutValid'
  BY <1>0 DEF IInv, TypeOK, TimeoutValid
<1>3. IInv'
  BY <1>0, <1>1, <1>2 DEF IInv, Up
<1>4. SameStates(K, K)
  BY DEF SameStates
<1>5. QED
  BY <1>0, <1>1, <1>3, <1>4, EffectFacts DEF SafeStep, LastSteps

\* A new process.
LEMMA CreateSafe ==
    ASSUME IInv, NEW owner \in Pids, NEW uid \in Uids, NEW i \in BOOLEAN,
           proc_create_uid(owner, uid, i)
    PROVE  SafeStep
<1> DEFINE parent == proc_find(K, owner)
           new == Head(K.free)
           u == IF procs[parent].uid # 0 THEN procs[parent].uid ELSE uid
           r == Created(K, new, owner, u, i)
<1>0. /\ phase = "run" /\ ~shutting_down /\ pid_gen <= MaxPid /\ free # <<>>
      /\ parent # NoSlot /\ Install(r) /\ cur' = new /\ pid_gen' = pid_gen + 1
      /\ UNCHANGED <<shutting_down, phase, timeout>>
  BY DEF proc_create_uid, Executing, Created, K
<1>1. /\ TablesOK(K, cur, pid_gen, NoSlot, NoSlot, 0) /\ K \in Tables
      /\ K.procs = procs /\ K.free = free
      /\ cur \in Slots /\ K.procs[cur].state = "RUNNABLE" /\ pid_gen \in 1 .. MaxPid + 1
      /\ timeout \in 0 .. Max({MaxDelay, Horizon})
  BY <1>0, UpFacts
<1>2. pid_gen \in Pids /\ pid_gen + 1 \in 1 .. MaxPid + 1
  BY <1>0, <1>1, ProcessAssumption DEF Pids
<1>3. u \in Uids
  <2>1. parent \in Slots
    BY <1>0, FindFacts
  <2>2. procs[parent].uid \in Uids
    BY <1>1, <2>1 DEF Tables, Process
  <2>3. QED
    BY <2>2
<1> HIDE DEF u, K
<1>4. K.free # <<>>
  BY <1>0, <1>1
<1>5. Starts(K, r, new)
  BY <1>1, <1>2, <1>3, <1>4, CreateKeeps
<1> HIDE DEF r, new
<1>6. IInv' /\ K' = r
  BY <1>0, <1>1, <1>2, <1>5, InstallInv DEF IInv, TypeOK, Starts
<1>7. Effect(K, r)
  BY <1>5 DEF Starts, Effect, DeadStay, NoDeaths, Live
<1>8. QED
  BY <1>0, <1>6, <1>7 DEF SafeStep, LastSteps

\* After kills the current process is runnable or a zombie.
LEMMA KillingCurrent ==
    ASSUME NEW k, NEW r, Killing(k, r), k.procs[cur].state = "RUNNABLE"
    PROVE  cur \in Slots /\ r.procs[cur].state \in {"RUNNABLE", "ZOMBIE"}
BY DEF Killing, TablesOK, QueueOK, OnlyKills

\* proc_kill.
LEMMA KillSafe ==
    ASSUME IInv, NEW killer \in Pids, NEW p \in 0 .. MaxPid, proc_kill(killer, p)
    PROVE  SafeStep
<1> DEFINE uid == procs[proc_find(K, killer)].uid
           s == proc_find(K, p)
           a == KillInterruptable(K, uid)
           b == IF MayKill(K, uid, s) THEN proc_zap(K, s) ELSE K
<1>0. phase = "run" /\ UNCHANGED <<pid_gen, shutting_down>>
  BY DEF proc_kill, Executing
<1>1. \/ IF a.procs[cur].state = "ZOMBIE" THEN Yield(a) ELSE Continue(a)
      \/ s # NoSlot /\ (IF b.procs[s].state = "ZOMBIE" THEN Yield(b) ELSE Continue(b))
  BY DEF proc_kill
<1>2. /\ TablesOK(K, cur, pid_gen, NoSlot, NoSlot, 0) /\ K \in Tables
      /\ cur \in Slots /\ K.procs[cur].state = "RUNNABLE"
  BY <1>0, UpFacts
<1>3. Killing(K, a)
  BY <1>2, KillInterruptableKeeps
<1>4. ASSUME s # NoSlot
      PROVE  s \in Slots /\ Killing(K, b) /\ (b = K \/ KillsOne(K, b, s))
  <2>1. s \in Slots
    BY <1>4, FindFacts
  <2> HIDE DEF s
  <2>2. Killing(K, K) /\ Killing(K, proc_zap(K, s)) /\ KillsOne(K, proc_zap(K, s), s)
    BY <1>2, <2>1, ZapKeeps, KillingRefl
  <2>3. QED
    BY <2>1, <2>2
<1> HIDE DEF a, b, s
<1>5. ASSUME NEW r, Killing(K, r), Yield(r) PROVE SafeStep
  <2>1. Effect(K, r)
    BY <1>2, <1>5, EffectFacts DEF Killing
  <2>2. Install(r) /\ phase' = "suspend" /\ timeout' = 0 /\ UNCHANGED cur
    BY <1>5 DEF Yield
  <2>3. QED
    BY <1>0, <1>5, <2>1, <2>2, ContinueSafe DEF Killing
<1>6. ASSUME NEW r, Killing(K, r), Continue(r), r.procs[cur].state = "RUNNABLE" PROVE SafeStep
  <2>1. Effect(K, r)
    BY <1>2, <1>6, EffectFacts DEF Killing
  <2>2. Install(r) /\ UNCHANGED <<cur, phase, timeout>>
    BY <1>6 DEF Continue
  <2>3. QED
    BY <1>0, <1>6, <2>1, <2>2, ContinueSafe DEF Killing
<1>7. a.procs[cur].state # "ZOMBIE" => a.procs[cur].state = "RUNNABLE"
  BY <1>2, <1>3, KillingCurrent
<1>8. s # NoSlot /\ b.procs[s].state # "ZOMBIE" => b.procs[cur].state = "RUNNABLE"
  <2> SUFFICES ASSUME s # NoSlot, b.procs[s].state # "ZOMBIE"
               PROVE  b.procs[cur].state = "RUNNABLE"
    OBVIOUS
  <2>1. CASE b = K
    BY <1>2, <2>1
  <2>2. CASE KillsOne(K, b, s) /\ s # cur
    BY <1>2, <2>2 DEF KillsOne
  <2>3. CASE KillsOne(K, b, s) /\ s = cur
    BY <1>2, <1>4, <2>3, KillingCurrent DEF KillsOne, Live
  <2>4. QED
    BY <1>4, <2>1, <2>2, <2>3
<1>9. QED
  BY <1>1, <1>3, <1>4, <1>5, <1>6, <1>7, <1>8

\* A <ctrl>C.
LEMMA CtrlCSafe ==
    ASSUME IInv, CtrlC
    PROVE  SafeStep
<1> DEFINE r == KillInterruptable(K, procs[proc_find(K, TtyPid)].uid)
<1>0. /\ phase = "suspend" /\ Install(r) /\ timeout' = 0
      /\ UNCHANGED <<cur, pid_gen, shutting_down, phase>>
  BY DEF CtrlC
<1>1. TablesOK(K, cur, pid_gen, NoSlot, NoSlot, 0) /\ K \in Tables
  BY <1>0, UpFacts
<1>2. Killing(K, r)
  BY <1>1, KillInterruptableKeeps
<1> HIDE DEF r
<1>3. QED
  BY <1>0, <1>1, <1>2, EffectFacts, ContinueSafe DEF Killing

\* proc_shutdown.
LEMMA ShutdownSafe ==
    ASSUME IInv, proc_shutdown
    PROVE  SafeStep
<1>0. /\ phase \in {"run", "suspend"} /\ ~shutting_down /\ shutting_down' = TRUE
      /\ timeout' = 0
      /\ UNCHANGED <<procs, runq, free, freeframes, nprocs, nrunnable, cur, pid_gen, phase>>
  BY DEF proc_shutdown, Executing
<1>1. K' = K
  BY <1>0 DEF K
<1>2. TypeOK' /\ TimeoutValid'
  <2>1. 0 \in -1 .. Max({MaxDelay, Horizon})
    BY TimeoutBound
  <2>2. QED
    BY <1>0, <2>1 DEF IInv, TypeOK, TimeoutValid
<1>3. IInv'
  BY <1>0, <1>1, <1>2 DEF IInv, Up, me
<1>4. SameStates(K, K)
  BY DEF SameStates
<1>5. QED
  BY <1>0, <1>1, <1>3, <1>4, EffectFacts DEF SafeStep, LastSteps

\* Input for which there is no reader.
LEMMA OtherInputSafe ==
    ASSUME IInv, OtherInput
    PROVE  SafeStep
<1>0. /\ phase = "suspend" /\ timeout' = 0
      /\ UNCHANGED <<procs, runq, free, freeframes, nprocs, nrunnable, cur, pid_gen,
                     shutting_down, phase>>
  BY DEF OtherInput
<1>1. Install(K)
  BY <1>0 DEF Install, K
<1>2. TablesOK(K, cur, pid_gen, NoSlot, NoSlot, 0) /\ SameStates(K, K)
  BY <1>0, UpFacts DEF SameStates
<1>3. QED
  BY <1>0, <1>1, <1>2, EffectFacts, ContinueSafe

\* The clock.
LEMMA TickSafe ==
    ASSUME IInv, Tick
    PROVE  SafeStep
<1> DEFINE P == [s \in Slots |-> IF K.procs[s].alarm_set
                                 THEN [K.procs[s] EXCEPT !.exptime = Later(@)]
                                 ELSE K.procs[s]]
           r == [K EXCEPT !.procs = P]
<1>0. /\ phase \in {"run", "suspend"}
      /\ timeout' = IF timeout > 0 THEN timeout - 1 ELSE timeout
      /\ UNCHANGED <<runq, free, freeframes, nprocs, nrunnable, cur, pid_gen,
                     shutting_down, phase>>
  BY DEF Tick
<1>1. /\ TablesOK(K, cur, pid_gen, NoSlot, NoSlot, 0) /\ K.procs = procs /\ K \in Tables
      /\ pid_gen \in 1 .. MaxPid + 1 /\ shutting_down \in BOOLEAN /\ cur \in Slots
      /\ timeout \in 0 .. Max({MaxDelay, Horizon})
      /\ phase = "run" => K.procs[cur].state = "RUNNABLE"
  BY <1>0, UpFacts
<1>2. procs' = P
  BY <1>1 DEF Tick
<1>3. TablesOK(r, cur, pid_gen, NoSlot, NoSlot, 0) /\ SameStates(K, r)
  <2> HIDE DEF K
  <2> QED
    BY <1>1, TickKeeps
<1>4. Install(r)
  <2>1. r.procs = P
    BY <1>1 DEF Tables
  <2> HIDE DEF P
  <2>2. QED
    BY <1>0, <1>2, <2>1 DEF Install, K
<1>5. timeout' \in 0 .. Max({MaxDelay, Horizon})
  BY <1>0, <1>1, TimeoutBound
<1> HIDE DEF r, P
<1>6. IInv' /\ K' = r
  <2>1. phase' = "run" => r.procs[cur'].state = "RUNNABLE"
    BY <1>0, <1>1, <1>3 DEF SameStates
  <2>2. QED
    BY <1>0, <1>1, <1>3, <1>4, <1>5, <2>1, InstallInv
<1>7. QED
  BY <1>0, <1>3, <1>6, EffectFacts DEF SafeStep, LastSteps

\* Releasing zombies does not change what happened to the processes.
LEMMA EffectReaping ==
    ASSUME NEW k, NEW x, NEW y, Effect(k, x), Reaping(x, y)
    PROVE  Effect(k, y)
<1>1. DeadStay(k, y)
  BY DEF Effect, DeadStay, Reaping
<1>2. \A s \in Slots : /\ Live(y, s) <=> Live(x, s)
                       /\ Live(y, s) => y.procs[s] = x.procs[s]
  BY DEF Reaping, Live
<1>3. NoDeaths(k, x) => NoDeaths(k, y)
  BY <1>2 DEF NoDeaths
<1>4. EventsOK(k, x) => EventsOK(k, y)
  <2>1. \A pid, o : Died(k, y, pid, o) <=> Died(k, x, pid, o)
    BY <1>2 DEF Died
  <2>2. QED
    BY <1>2, <2>1 DEF EventsOK
<1>5. QED
  BY <1>1, <1>3, <1>4 DEF Effect

\* The scan of proc_yield.
LEMMA ScanFacts ==
    ASSUME IInv, phase = "suspend"
    PROVE  /\ TablesOK(Scan, cur, pid_gen, NoSlot, NoSlot, 0) /\ Effect(K, Scan)
           /\ shutting_down => \A s \in Slots : ~Live(Scan, s)
           /\ ~shutting_down => \A s \in Slots : Expired(K, s) => Scan.procs[s].state = "RUNNABLE"
<1>1. TablesOK(K, cur, pid_gen, NoSlot, NoSlot, 0) /\ K \in Tables
  BY UpFacts
<1>2. CASE shutting_down
  <2> DEFINE x == ZapAll(K)
  <2>1. Scan = x
    BY <1>2 DEF Scan
  <2>2. Killing(K, x) /\ \A s \in Slots : ~Live(x, s)
    BY <1>1, ZapAllKeeps
  <2> HIDE DEF x
  <2>3. QED
    BY <1>1, <1>2, <2>1, <2>2, EffectFacts DEF Killing
<1>3. CASE ~shutting_down
  <2> DEFINE x == WakeExpired(K)
  <2>1. Scan = x
    BY <1>3 DEF Scan
  <2>2. /\ TablesOK(x, cur, pid_gen, NoSlot, NoSlot, 0) /\ OnlyWakes(K, x)
        /\ \A s \in Slots : Expired(K, s) => x.procs[s].state = "RUNNABLE"
    BY <1>1, WakeExpiredKeeps
  <2> HIDE DEF x
  <2>3. QED
    BY <1>3, <2>1, <2>2, EffectFacts
<1>4. QED
  BY <1>2, <1>3

\* After the scan of a machine that shuts down the current process is the last
\* one, and it is a zombie.
LEMMA LastProcess ==
    ASSUME NEW k, TablesOK(k, cur, pid_gen, NoSlot, NoSlot, 0),
           \A s \in Slots : ~Live(k, s),
           k.runq # <<>> => k.procs[Head(k.runq)].state = "RUNNABLE"
    PROVE  /\ k.runq = <<>> /\ k.nprocs = 1
           /\ \A s \in Slots : k.procs[s].state = IF s = cur THEN "ZOMBIE" ELSE "FREE"
<1>0. k \in Tables /\ cur \in Slots /\ k.procs[cur].state # "FREE" /\ k.runq \in Seq(Slots)
      /\ NoSlot \notin Slots
  BY DEF TablesOK, QueueOK, Tables, NoSlot, Slots
<1>1. k.runq = <<>>
  <2>1. k.runq # <<>> => Head(k.runq) \in Slots
    BY <1>0
  <2>2. QED
    BY <2>1 DEF Live
<1>2. \A s \in Slots : ~Has(k.runq, s)
  BY <1>1 DEF Has
<1>3. \A s \in Slots : k.procs[s].state \in {"FREE", "ZOMBIE"}
  BY <1>0 DEF Tables, Process, States, Live
<1>4. \A s \in Slots : s # cur => k.procs[s].state = "FREE"
  BY <1>0, <1>2, <1>3 DEF TablesOK, QueueOK
<1>5. k.procs[cur].state = "ZOMBIE"
  BY <1>0, <1>3
<1>6. k.nprocs = 1
  <2>1. Used(k) = {cur}
    BY <1>0, <1>4 DEF Used
  <2>2. QED
    BY <2>1, FS_Singleton DEF TablesOK, CountOK
<1>7. QED
  BY <1>1, <1>4, <1>5, <1>6

\* The time to wait is not negative when no alarm expired.
LEMMA NextAlarmFacts ==
    ASSUME K \in Tables, \A s \in Slots : ~Expired(K, s)
    PROVE  NextAlarm(K) \in 0 .. Horizon
<1> DEFINE S == {Horizon} \cup {K.procs[s].exptime : s \in {p \in Slots : AlarmSet(K, p)}}
<1>1. NextAlarm(K) = Min(S)
  BY DEF NextAlarm
<1>2. Horizon \in Nat
  BY ProcessAssumption
<1>3. ASSUME NEW s \in Slots, AlarmSet(K, s) PROVE K.procs[s].exptime \in Nat
  <2>1. K.procs[s].exptime \in -1 .. MaxDelay
    BY DEF Tables, Process
  <2>2. ~(K.procs[s].exptime <= 0)
    BY <1>3 DEF Expired
  <2> HIDE DEF K
  <2>3. QED
    BY <2>1, <2>2, ProcessAssumption
<1>4. S \in SUBSET Nat /\ Horizon \in S
  BY <1>2, <1>3
<1> HIDE DEF S
<1>5. Min(S) \in S /\ Min(S) <= Horizon
  BY <1>4, MinNat
<1>6. Min(S) \in Nat
  BY <1>4, <1>5
<1>7. Min(S) \in 0 .. Horizon
  BY <1>2, <1>5, <1>6
<1>8. QED
  BY <1>1, <1>7

\* The machine exits: the lists are emptied, the processes are left alone.
LEMMA CleanupSafe ==
    ASSUME NEW k, TablesOK(k, cur, pid_gen, NoSlot, NoSlot, 0), IInv,
           proc_cleanup(k), UNCHANGED <<cur, pid_gen, shutting_down, timeout>>,
           phase' \in {"halted", "timedout"}, Effect(K, k)
    PROVE  IInv' /\ Effect(K, K') /\ procs' = k.procs
<1> DEFINE H == [f \in Frames |-> 0]
           r == [k EXCEPT !.runq = <<>>, !.free = <<>>, !.freeframes = H]
<1>0. Install(r)
  BY DEF proc_cleanup
<1>1. k \in Tables /\ H \in [Frames -> Nat] /\ <<>> \in Seq(Slots)
  BY DEF TablesOK
<1> HIDE DEF H
<1>2. r \in Tables /\ r.procs = k.procs /\ r.nprocs = k.nprocs /\ r.nrunnable = k.nrunnable
  BY <1>1 DEF Tables
<1> HIDE DEF r
<1>3. K' = r /\ procs' = k.procs
  BY <1>0, <1>2, InstallTables DEF Install
<1>4. k.nprocs \in Nat /\ k.nrunnable \in Nat
  <2>1. Used(k) \in SUBSET Slots /\ Runnable(k) \in SUBSET Slots
    BY DEF Used, Runnable
  <2>2. QED
    BY <2>1, SlotSets DEF TablesOK, CountOK
<1>5. TypeOK' /\ TimeoutValid'
  BY <1>0, <1>2, <1>4 DEF IInv, TypeOK, TimeoutValid, Install, Tables
<1>6. SlotsOK(K')
  BY <1>2, <1>3 DEF TablesOK, SlotsOK
<1>7. IInv'
  BY <1>5, <1>6 DEF IInv, Up
<1>8. Effect(K, r)
  <2>1. r.procs = k.procs
    BY <1>2
  <2>2. QED
    BY <2>1 DEF Effect, DeadStay, NoDeaths, EventsOK, Died, Live
<1>9. QED
  BY <1>3, <1>7, <1>8

\* One round of proc_yield.
LEMMA YieldSafe ==
    ASSUME IInv, proc_yield
    PROVE  SafeStep
<1> DEFINE x == Scan
           y == Reaped(x)
<1>0. phase = "suspend" /\ timeout = 0 /\ UNCHANGED <<pid_gen, shutting_down>>
  BY DEF proc_yield, AtScheduler
<1>1. /\ K \in Tables /\ cur \in Slots /\ pid_gen \in 1 .. MaxPid + 1
      /\ shutting_down \in BOOLEAN
  BY <1>0, UpFacts
<1>2. SwitchTo(y) \/ ReturnToCurrent(y) \/ Halt(y) \/ WaitLonger(y)
  BY DEF proc_yield
<1>3. /\ TablesOK(x, cur, pid_gen, NoSlot, NoSlot, 0) /\ Effect(K, x)
      /\ shutting_down => \A s \in Slots : ~Live(x, s)
      /\ ~shutting_down => \A s \in Slots : Expired(K, s) => x.procs[s].state = "RUNNABLE"
  BY <1>0, ScanFacts
<1> HIDE DEF x
<1>4. /\ TablesOK(y, cur, pid_gen, NoSlot, NoSlot, 0) /\ Reaping(x, y)
      /\ y.runq # <<>> => y.procs[Head(y.runq)].state = "RUNNABLE"
  BY <1>3, ReapedKeeps
<1> HIDE DEF y
<1>5. Effect(K, y)
  BY <1>3, <1>4, EffectReaping
<1>6. shutting_down =>
          /\ y.runq = <<>> /\ y.nprocs = 1
          /\ \A s \in Slots : y.procs[s].state = IF s = cur THEN "ZOMBIE" ELSE "FREE"
  <2>1. shutting_down => \A s \in Slots : ~Live(y, s)
    BY <1>3, <1>4 DEF Reaping, Live
  <2>2. QED
    BY <1>4, <2>1, LastProcess
<1>7. CASE SwitchTo(y)
  <2> DEFINE r == Switched(y)
             h == Head(y.runq)
  <2>1. y.runq # <<>> /\ Install(r) /\ cur' = h /\ phase' = "run" /\ timeout' = 0
    BY <1>7 DEF SwitchTo
  <2>2. /\ TablesOK(r, h, pid_gen, NoSlot, NoSlot, 0) /\ Reaping(y, r)
        /\ r.procs[h] = y.procs[h]
    BY <1>4, <2>1, SwitchedKeeps
  <2>3. y.procs[h].state = "RUNNABLE"
    BY <1>4, <2>1
  <2> HIDE DEF r, h
  <2>4. 0 \in 0 .. Max({MaxDelay, Horizon})
    BY TimeoutBound
  <2>5. IInv' /\ K' = r
    BY <1>0, <1>1, <2>1, <2>2, <2>3, <2>4, InstallInv
  <2>6. Effect(K, r)
    BY <1>5, <2>2, EffectReaping
  <2>7. QED
    BY <1>6, <2>1, <2>5, <2>6 DEF SafeStep, LastSteps
<1>8. CASE ReturnToCurrent(y)
  BY <1>0, <1>4, <1>5, <1>8, ContinueSafe DEF ReturnToCurrent
<1>9. CASE Halt(y)
  <2>1. shutting_down /\ proc_cleanup(y) /\ phase' = "halted" /\ UNCHANGED <<cur, timeout>>
    BY <1>9 DEF Halt
  <2>2. IInv' /\ Effect(K, K') /\ procs' = y.procs
    BY <1>0, <1>4, <1>5, <2>1, CleanupSafe
  <2>3. QED
    BY <1>6, <2>1, <2>2 DEF SafeStep, LastSteps
<1>10. CASE WaitLonger(y)
  <2>1. /\ y.runq = <<>> /\ y.procs[cur].state # "RUNNABLE" /\ ~shutting_down
        /\ Install(y) /\ timeout' = NextAlarm(K) /\ UNCHANGED <<cur, phase>>
    BY <1>6, <1>10 DEF WaitLonger
  <2>2. ASSUME NEW s \in Slots, Expired(K, s) PROVE FALSE
    <3>1. x.procs[s].state = "RUNNABLE"
      BY <1>3, <2>1, <2>2
    <3>2. y.procs[s].state = "RUNNABLE"
      BY <1>4, <3>1 DEF Reaping
    <3>3. ~Has(y.runq, s) /\ s # NoSlot
      BY <2>1 DEF Has, NoSlot, Slots
    <3>4. s = cur
      BY <1>4, <3>2, <3>3 DEF TablesOK, QueueOK
    <3>5. QED
      BY <2>1, <3>2, <3>4
  <2>3. timeout' \in 0 .. Max({MaxDelay, Horizon})
    <3>1. NextAlarm(K) \in 0 .. Horizon
      BY <1>1, <2>2, NextAlarmFacts
    <3> HIDE DEF K
    <3>2. QED
      BY <2>1, <3>1, TimeoutBound, ProcessAssumption
  <2>4. IInv' /\ K' = y
    BY <1>0, <1>1, <1>4, <2>1, <2>3, InstallInv
  <2>5. QED
    BY <1>5, <2>1, <2>4 DEF SafeStep, LastSteps
<1>11. QED
  BY <1>2, <1>7, <1>8, <1>9, <1>10

\* The machine exits because shutting down took too long.
LEMMA CurfewSafe ==
    ASSUME IInv, Curfew
    PROVE  SafeStep
<1>0. /\ phase = "suspend" /\ proc_cleanup(K) /\ phase' = "timedout"
      /\ UNCHANGED <<cur, pid_gen, shutting_down, timeout>>
  BY DEF Curfew, AtScheduler
<1>1. TablesOK(K, cur, pid_gen, NoSlot, NoSlot, 0) /\ SameStates(K, K)
  BY <1>0, UpFacts DEF SameStates
<1>2. IInv' /\ Effect(K, K')
  BY <1>0, <1>1, EffectFacts, CleanupSafe
<1>3. QED
  BY <1>0, <1>2 DEF SafeStep, LastSteps

-------------------------------------------------------------------------------
(* The theorems. *)

\* Every step of the kernel keeps the invariant, leaves the dead dead, tells the
\* owners and, when shutting down, hands the CPU to nobody.
LEMMA NextSafe ==
    ASSUME IInv, Next
    PROVE  SafeStep \/ UNCHANGED vars
<1>1. ASSUME NEW t \in MsgTypes, NEW d \in 0 .. MaxDelay, sys_recv(t, d) PROVE SafeStep
  BY <1>1, RecvSafe
<1>2. CASE RecvReturn
  BY <1>2, RecvReturnSafe
<1>3. ASSUME NEW p \in Pids, NEW t \in MsgTypes, sys_send(p, t) PROVE SafeStep
  BY <1>3, SendSafe
<1>4. ASSUME NEW p \in Pids, sys_rpc(p) PROVE SafeStep
  BY <1>4, RpcSafe
<1>5. CASE sys_exit
  BY <1>5, ExitSafe
<1>6. CASE proc_got_interrupt
  BY <1>6, InterruptSafe
<1>7. ASSUME NEW f \in Frames, proc_frame_alloc(f) PROVE SafeStep
  BY <1>7, FrameAllocSafe
<1>8. CASE OutOfFrames
  BY <1>8, OutOfFramesSafe
<1>9. ASSUME NEW owner \in Pids, NEW uid \in Uids, NEW i \in BOOLEAN,
             proc_create_uid(owner, uid, i)
      PROVE  SafeStep
  BY <1>9, CreateSafe
<1>10. ASSUME NEW killer \in Pids, NEW p \in 0 .. MaxPid, proc_kill(killer, p) PROVE SafeStep
  BY <1>10, KillSafe
<1>11. CASE proc_shutdown
  BY <1>11, ShutdownSafe
<1>12. ASSUME NEW src \in Pids, NEW dst \in Pids, IntrReply(src, dst) PROVE SafeStep
  BY <1>12, IntrReplySafe
<1>13. CASE CtrlC
  BY <1>13, CtrlCSafe
<1>14. CASE OtherInput
  BY <1>14, OtherInputSafe
<1>15. CASE Tick
  BY <1>15, TickSafe
<1>16. CASE proc_yield
  BY <1>16, YieldSafe
<1>17. CASE Curfew
  BY <1>17, CurfewSafe
<1>18. CASE Exited
  BY <1>18 DEF Exited
<1>19. QED
  BY <1>1, <1>2, <1>3, <1>4, <1>5, <1>6, <1>7, <1>8, <1>9, <1>10, <1>11, <1>12, <1>13,
     <1>14, <1>15, <1>16, <1>17, <1>18 DEF Next

\* IInv is inductive.
LEMMA IInvStep == IInv /\ [Next]_vars => IInv'
<1>1. IInv /\ UNCHANGED vars => IInv'
  BY DEF IInv, vars, TypeOK, TimeoutValid, K, Up, me
<1>2. QED
  BY <1>1, NextSafe DEF SafeStep

\* The inductive invariant holds in every reachable state.
LEMMA Inductive == Spec => []IInv
<1>1. Init => IInv
  BY InitInv
<1>2. IInv /\ [Next]_vars => IInv'
  BY IInvStep
<1>3. QED
  BY <1>1, <1>2, PTL DEF Spec

\* TablesConsistent in terms of IInv.
LEMMA TablesFollow == IInv => TablesConsistent
<1> SUFFICES ASSUME IInv PROVE TablesConsistent
  OBVIOUS
<1>0. TypeOK
  BY DEF IInv
<1>1. /\ K.procs = procs /\ K.runq = runq /\ K.free = free
      /\ K.freeframes = freeframes /\ K.nprocs = nprocs /\ K.nrunnable = nrunnable
  BY <1>0, TablesOfState
<1>2. WaitConsistent
  BY <1>1 DEF IInv, SlotsOK, WaitOK, WaitConsistent
<1>3. ASSUME Up PROVE RunQueue
  <2>1. QueueOK(K, cur, NoSlot)
    BY <1>3 DEF IInv, TablesOK
  <2>2. \A s \in Slots : s # NoSlot
    BY DEF Slots, NoSlot
  <2>3. \A s \in Slots : Queued(s) <=> s # cur /\ procs[s].state \in {"RUNNABLE", "ZOMBIE"}
    BY <1>1, <2>1, <2>2 DEF QueueOK, Queued, Has
  <2>4. QED
    BY <1>1, <2>1, <2>3 DEF RunQueue, QueueOK, Distinct, me, IInv
<1>4. ASSUME Up PROVE Counters
  <2>1. CountOK(K)
    BY <1>4 DEF IInv, TablesOK
  <2>2. free \in Seq(Slots)
    BY <1>0 DEF TypeOK
  <2>3. {free[i] : i \in DOMAIN free} = {s \in Slots : procs[s].state = "FREE"}
    <3>1. \A i \in DOMAIN free : free[i] \in Slots
      BY <2>2
    <3>2. QED
      BY <1>1, <2>1, <3>1 DEF CountOK, Has
  <2>4. QED
    BY <1>1, <2>1, <2>3 DEF Counters, CountOK, Used, Runnable, Distinct
<1>5. ASSUME Up PROVE FramesConserved
  <2>1. FrameOK(K, NoSlot)
    BY <1>5 DEF IInv, TablesOK
  <2>2. \A f \in Frames : Owners(K, f, NoSlot) = {s \in Slots : Alive(s) /\ f \in procs[s].pages}
    BY <1>1 DEF Owners, Live, Alive, Slots, NoSlot
  <2>3. QED
    BY <1>1, <2>1, <2>2 DEF FrameOK, FramesConserved
<1>6. QED
  BY <1>0, <1>2, <1>3, <1>4, <1>5 DEF TablesConsistent, RunQueue, Counters, FramesConserved

\* The calls in terms of IInv.
LEMMA CallsFollow == IInv => CallsRight /\ RpcFailsOnDeath
<1> SUFFICES ASSUME IInv PROVE CallsRight /\ RpcFailsOnDeath
  OBVIOUS
<1>0. TypeOK
  BY DEF IInv
<1>1. K.procs = procs
  BY <1>0, TablesOfState
<1>2. \A s \in Slots : Alive(s) <=> Live(K, s)
  BY <1>1 DEF Alive, Live
<1>3. ReplyFromServer
  BY <1>1 DEF IInv, SlotsOK, ReplyOK, ReplyFromServer, Alive
<1>4. ASSUME Up, NEW s \in Slots, procs[s].state = "WAITING", procs[s].call = "REPLY"
      PROVE  /\ Slot(procs[s].server) # NoSlot /\ Slot(procs[s].server) # s
             /\ Alive(Slot(procs[s].server))
  <2> DEFINE v == procs[s].server
  <2>1. PidOK(K, pid_gen) /\ CallOK(K, 0)
    BY <1>4 DEF IInv, TablesOK
  <2>2. v # procs[s].pid /\ ~Gone(K, v)
    BY <1>1, <1>4, <2>1 DEF CallOK
  <2>3. PICK t \in Slots : Live(K, t) /\ K.procs[t].pid = v
    BY <2>2 DEF Gone
  <2>4. t \in Used(K)
    BY <2>3 DEF Used, Live
  <2>5. Slot(v) = t
    BY <2>1, <2>3, <2>4, FindFacts DEF Slot
  <2>6. t # NoSlot /\ t # s
    BY <1>1, <2>2, <2>3 DEF NoSlot, Slots
  <2>7. QED
    BY <1>2, <2>3, <2>5, <2>6
<1>5. RpcServerAlive
  BY <1>4 DEF RpcServerAlive
<1>6. ASSUME Up, NEW s \in Slots, procs[s].state = "RUNNABLE", procs[s].call = "REPLY",
             procs[s].mbox["REPLY"] = <<>>
      PROVE  Slot(procs[s].server) = NoSlot \/ ~Alive(Slot(procs[s].server))
  <2> DEFINE v == procs[s].server
  <2>1. FailOK(K)
    BY <1>6 DEF IInv, TablesOK
  <2>2. Gone(K, v)
    BY <1>1, <1>6, <2>1 DEF FailOK
  <2>3. \/ Slot(v) = NoSlot
        \/ Slot(v) \in Slots /\ K.procs[Slot(v)].pid = v
    BY FindFacts DEF Slot
  <2>4. QED
    BY <1>2, <2>2, <2>3 DEF Gone
<1>7. RpcFailsOnDeath
  BY <1>6 DEF RpcFailsOnDeath
<1>8. QED
  BY <1>3, <1>5, <1>7 DEF CallsRight

\* What EventsOK says of the owners.
LEMMA OwnersFollow ==
    ASSUME IInv, Effect(K, K'), Up, TypeOK',
           NEW s \in Slots, Alive(s), ~Alive(s)',
           Slot(procs[s].owner) # NoSlot, Alive(Slot(procs[s].owner)),
           procs'[Slot(procs[s].owner)].state \in {"RUNNABLE", "WAITING"}
    PROVE  Deaths(procs'[Slot(procs[s].owner)].mbox["EVENT"], procs[s].pid) =
              Deaths(procs[Slot(procs[s].owner)].mbox["EVENT"], procs[s].pid) + 1
<1> DEFINE o == Slot(procs[s].owner)
<1>0. TypeOK
  BY DEF IInv
<1>1. K.procs = procs /\ (K').procs = procs'
  BY DEF K
<1> HIDE DEF K
<1>2. Live(K, s) /\ ~Live(K', s)
  BY <1>1 DEF Live, Alive
<1>3. EventsOK(K, K')
  BY <1>2 DEF Effect, NoDeaths
<1>4. o \in Slots /\ K.procs[o].pid = procs[s].owner
  BY FindFacts DEF Slot
<1>5. Live(K, o) /\ Live(K', o)
  BY <1>1, <1>4 DEF Live, Alive
<1>6. procs[s].pid \in Pids
  <2>1. procs[s].pid \in 0 .. MaxPid
    BY <1>0 DEF TypeOK, Process
  <2>2. procs[s].pid \in 1 .. pid_gen - 1
    BY <1>1, <1>2 DEF IInv, TablesOK, PidOK, Used, Live
  <2>3. QED
    BY <2>1, <2>2 DEF Pids
<1>7. Died(K, K', procs[s].pid, K.procs[o].pid)
  BY <1>1, <1>2, <1>4 DEF Died
<1>8. QED
  BY <1>1, <1>3, <1>4, <1>5, <1>6, <1>7 DEF EventsOK

\* Run queue, counters, free list, waiting flags and frames agree wherever the
\* kernel gives up the CPU, for any size of the process table.
THEOREM TablesStayConsistent == Spec => []TablesConsistent
<1>1. IInv => TablesConsistent
  BY TablesFollow
<1>2. QED
  BY <1>1, Inductive, PTL

\* A client of sys_rpc waits for a server that is alive, and only that server
\* answers it.
THEOREM CallsStayRight == Spec => []CallsRight
<1>1. IInv => CallsRight
  BY CallsFollow
<1>2. QED
  BY <1>1, Inductive, PTL

\* A sys_rpc returns without a reply only if the server died.
THEOREM RpcFailsForDeathOnly == Spec => []RpcFailsOnDeath
<1>1. IInv => RpcFailsOnDeath
  BY CallsFollow
<1>2. QED
  BY <1>1, Inductive, PTL

\* proc_yield never suspends for a negative time.
THEOREM TimeoutStaysValid == Spec => []TimeoutValid
<1>1. IInv => TimeoutValid
  BY DEF IInv
<1>2. QED
  BY <1>1, Inductive, PTL

\* A process that was killed does not come back.
THEOREM DeadStayDead == Spec => ZombiesStayDead
<1>1. IInv /\ [Next]_vars =>
        [\A s \in Slots : procs[s].state = "ZOMBIE" =>
            procs'[s].state \in {"ZOMBIE", "FREE"}]_vars
  BY NextSafe DEF SafeStep, Effect, DeadStay, K
<1>2. QED
  BY <1>1, Inductive, PTL DEF Spec, ZombiesStayDead

\* After proc_shutdown nobody gets the CPU, and the machine exits with no process
\* left but the current one.
THEOREM ShutdownIsFinal == Spec => ShutdownFinal
<1>1. IInv /\ [Next]_vars =>
        [shutting_down => /\ cur' = cur
                          /\ phase' = "halted" =>
                                \A s \in Slots : procs'[s].state =
                                    IF s = cur THEN "ZOMBIE" ELSE "FREE"]_vars
  BY NextSafe DEF SafeStep, LastSteps
<1>2. QED
  BY <1>1, Inductive, PTL DEF Spec, ShutdownFinal

\* However many processes die in a step, each one's owner gets one event for it.
THEOREM OwnersAreNotified == Spec => OwnerNotified
<1>1. IInv /\ [Next]_vars =>
        [\A s \in Slots : Alive(s) /\ ~Alive(s)' =>
          LET o == Slot(procs[s].owner)
          IN  o # NoSlot /\ Alive(o) /\ procs'[o].state \in {"RUNNABLE", "WAITING"} =>
                  Deaths(procs'[o].mbox["EVENT"], procs[s].pid) =
                      Deaths(procs[o].mbox["EVENT"], procs[s].pid) + 1]_vars
  <2> SUFFICES ASSUME IInv, Next, ~UNCHANGED vars, NEW s \in Slots, Alive(s), ~Alive(s)',
                      Slot(procs[s].owner) # NoSlot, Alive(Slot(procs[s].owner)),
                      procs'[Slot(procs[s].owner)].state \in {"RUNNABLE", "WAITING"}
               PROVE  Deaths(procs'[Slot(procs[s].owner)].mbox["EVENT"], procs[s].pid) =
                         Deaths(procs[Slot(procs[s].owner)].mbox["EVENT"], procs[s].pid) + 1
    OBVIOUS
  <2>1. SafeStep
    BY NextSafe
  <2>2. Effect(K, K') /\ TypeOK'
    BY <2>1 DEF SafeStep, IInv
  <2>3. Up
    BY DEF Next, Up, sys_recv, RecvReturn, sys_send, sys_rpc, sys_exit, proc_got_interrupt,
           proc_frame_alloc, OutOfFrames, proc_create_uid, proc_kill, proc_shutdown, IntrReply,
           CtrlC, OtherInput, Tick, proc_yield, AtScheduler, Curfew, Exited, Executing
  <2>4. QED
    BY <2>2, <2>3, OwnersFollow
<1>2. QED
  BY <1>1, Inductive, PTL DEF Spec, OwnerNotified
===============================================================================
