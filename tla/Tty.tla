---------------------------------- MODULE Tty ----------------------------------
(***************************************************************************)
(* The terminal server, src/src/grass/ttysvr.c: the process tty_proc and   *)
(* the interrupt handler tty_deliver, which share one tty_state and run in *)
(* any order; neither is interrupted by the other.                         *)
(*                                                                         *)
(* Processes appear as the clients of the server.  A client that made a    *)
(* request waits until it gets the reply or is killed, as in Process: a    *)
(* reply to a client that is dead is refused by proc_send.                 *)
(***************************************************************************)
EXTENDS Naturals, SequencesExt

CONSTANTS Clients,       \* processes that use the terminal
          Interruptable, \* those of them that a <ctrl>C kills
          Letter,        \* what an ordinary key types
          MaxRead,       \* bound on the size of a read
          MaxChunk,      \* bound on the keys delivered by one interrupt
          MaxTyped,      \* bound on the characters typed in all
          MaxLines       \* bound on the lines that are queued

ASSUME TtyAssumption ==
    /\ Interruptable \subseteq Clients
    /\ MaxRead \in Nat
    /\ MaxChunk \in Nat
    /\ MaxTyped \in Nat
    /\ MaxLines \in Nat

VARIABLES mailbox,   \* requests the server has not received yet
          requests,  \* ts->requests: reads that wait for input
          inputs,    \* ts->inputs: lines that wait for a reader
          buf,       \* ts->buf: the line that is being typed
          client,    \* state of the clients
          typed,     \* history: the characters put in a line and not erased
          got,       \* history: the characters handed out, in order
          reader     \* history: whom the last characters were handed out to

vars == <<mailbox, requests, inputs, buf, client, typed, got, reader>>

NoClient == "none"
Newline  == "newline"
CharSet  == {Letter, Newline}
Keys     == {Letter, Newline, "ctrlC", "ctrlD", "backspace"}
Request  == [src : Clients, op : {"read", "other"}, size : 0 .. MaxRead]

\* The type of the queues and the line being typed (struct tty_state).
TypeOK ==
    /\ mailbox \in Seq(Request)
    /\ requests \in Seq(Request)
    /\ inputs \in Seq(Seq(CharSet))
    /\ buf \in Seq(CharSet)
    /\ client \in [Clients -> {"idle", "waiting", "dead"}]
    /\ typed \in Seq(CharSet)
    /\ got \in Seq(CharSet)
    /\ reader \in Clients \cup {NoClient}

Init ==
    /\ mailbox = <<>>
    /\ requests = <<>>
    /\ inputs = <<>>
    /\ buf = <<>>
    /\ client = [c \in Clients |-> "idle"]
    /\ typed = <<>>
    /\ got = <<>>
    /\ reader = NoClient

-------------------------------------------------------------------------------
(* The routines of the server, as functions on the state they share. *)

T == [requests |-> requests, inputs |-> inputs, buf |-> buf, client |-> client,
      typed |-> typed, got |-> got, reader |-> reader]

Install(t) ==
    /\ requests' = t.requests
    /\ inputs' = t.inputs
    /\ buf' = t.buf
    /\ client' = t.client
    /\ typed' = t.typed
    /\ got' = t.got
    /\ reader' = t.reader

\* proc_send of the reply, which is refused when the client is dead.
tty_respond(t, c) ==
    [t EXCEPT !.client[c] = IF @ = "waiting" THEN "idle" ELSE @]

\* A mutant of Leftover: the rest of the line goes to the end of the queue.
LeftoverLast(line, n, rest) ==
    IF n < Len(line) THEN Append(rest, SubSeq(line, n + 1, Len(line))) ELSE rest

\* What a reader did not take of a line goes back to the front of the queue.
Leftover(line, n, rest) ==
    IF n < Len(line) THEN <<SubSeq(line, n + 1, Len(line))>> \o rest ELSE rest

\* The oldest request gets the oldest line, as much of it as it asked for.
tty_handle(t) ==
    LET tr   == Head(t.requests)
        line == Head(t.inputs)
        n    == IF Len(line) > tr.size THEN tr.size ELSE Len(line)
    IN  [tty_respond(t, tr.src) EXCEPT
            !.requests = Tail(@),
            !.inputs = Leftover(line, n, Tail(@)),
            !.got = @ \o SubSeq(line, 1, n),
            !.reader = tr.src]

\* The end of a line.
Enqueue(t) == [t EXCEPT !.inputs = Append(@, t.buf), !.buf = <<>>]

Erase(t) ==
    IF t.buf = <<>> THEN t
    ELSE [t EXCEPT !.buf = Front(@), !.typed = Front(@)]

Type(t, c) == [t EXCEPT !.buf = Append(@, c), !.typed = Append(@, c)]

Interrupted(t) ==
    [t EXCEPT !.client = [c \in Clients |-> IF c \in Interruptable THEN "dead" ELSE @[c]]]

Key(t, key) ==
    CASE key = "ctrlC"     -> Interrupted(t)
      [] key = "ctrlD"     -> Enqueue(t)
      [] key = "backspace" -> Erase(t)
      [] key = Newline     -> Enqueue(Type(t, key))
      [] OTHER             -> Type(t, key)

\* The first n keys of an interrupt, one after the other.
Keyed(t, chunk, n) ==
    LET after[i \in 0 .. n] == IF i = 0 THEN t ELSE Key(after[i - 1], chunk[i])
    IN  after[n]

\* One line for one reader, after all keys of the interrupt.
ServeOne(t) ==
    IF t.inputs # <<>> /\ t.requests # <<>> THEN tty_handle(t) ELSE t

-------------------------------------------------------------------------------
\* The interrupt handler, on the stack of the process `cur`, which need not be
\* a client.  A <ctrl>C that kills that process does not return from
\* proc_kill(): the keys after it and the final ServeOne are lost.
FirstCtrlC(chunk) == SelectInSeq(chunk, LAMBDA k : k = "ctrlC")

KillsCurrent(chunk, cur) ==
    /\ cur \in Interruptable /\ client[cur] # "dead"
    /\ FirstCtrlC(chunk) # 0

tty_deliver(chunk, cur) ==
    /\ Len(typed) + Len(chunk) <= MaxTyped
    /\ Len(inputs) + Len(chunk) <= MaxLines
    /\ cur \in Clients => client[cur] # "dead"
    /\ IF KillsCurrent(chunk, cur)
       THEN Install(Keyed(T, chunk, FirstCtrlC(chunk)))
       ELSE Install(ServeOne(Keyed(T, chunk, Len(chunk))))
    /\ UNCHANGED mailbox

\* A client calls the server (sys_rpc).
ClientCall(c, op, size) ==
    /\ client[c] = "idle"
    /\ client' = [client EXCEPT ![c] = "waiting"]
    /\ mailbox' = Append(mailbox, [src |-> c, op |-> op, size |-> size])
    /\ UNCHANGED <<requests, inputs, buf, typed, got, reader>>

\* A client is killed in another way, or exits.
ClientDies(c) ==
    /\ client[c] # "dead"
    /\ client' = [client EXCEPT ![c] = "dead"]
    /\ UNCHANGED <<mailbox, requests, inputs, buf, typed, got, reader>>

\* Mutants of tty_read: the request goes to the front of the queue; a request
\* that is served at once stays in the queue.
ReadAtFront(t, req) ==
    LET t1 == [t EXCEPT !.requests = <<req>> \o @]
    IN  IF t1.inputs # <<>> THEN tty_handle(t1) ELSE t1

ReadStaysQueued(t, req) ==
    LET t1 == [t EXCEPT !.requests = Append(@, req)]
    IN  IF t1.inputs # <<>> THEN [tty_handle(t1) EXCEPT !.requests = t1.requests] ELSE t1

tty_read(t, req) ==
    LET t1 == [t EXCEPT !.requests = Append(@, req)]
    IN  IF t1.inputs # <<>> THEN tty_handle(t1) ELSE t1

\* A mutant of tty_other: there is no reply.
OtherSilent(t, req) == t

\* Writes, stat, sync, set_flags, and every request that is in error: a reply
\* at once.
tty_other(t, req) == tty_respond(t, req.src)

\* One round of the loop of tty_proc.
tty_proc ==
    /\ mailbox # <<>>
    /\ LET req == Head(mailbox)
       IN  Install(IF req.op = "read" THEN tty_read(T, req) ELSE tty_other(T, req))
    /\ mailbox' = Tail(mailbox)

Chunks == UNION {[1 .. n -> Keys] : n \in 1 .. MaxChunk}

Next ==
    \/ \E chunk \in Chunks, cur \in Clients \cup {NoClient} : tty_deliver(chunk, cur)
    \/ \E c \in Clients, op \in {"read", "other"}, n \in 0 .. MaxRead : ClientCall(c, op, n)
    \/ \E c \in Clients : ClientDies(c)
    \/ tty_proc

Spec == Init /\ [][Next]_vars

\* The server gets the CPU again and again (RunnableRuns of Process).
FairSpec == Spec /\ WF_vars(tty_proc)

-------------------------------------------------------------------------------
(* Properties. *)

\* Whatever the order of lines, reads of any size, erasures and dead readers:
\* the characters put in lines are handed out in the order in which they were
\* typed, each of them once, and the rest is still there (tty_deliver,
\* tty_handle).
InOrder == TypeOK /\ got \o FlattenSeq(inputs) \o buf = typed

Pending(c) ==
    Cardinality({i \in DOMAIN mailbox : mailbox[i].src = c})
        + Cardinality({i \in DOMAIN requests : requests[i].src = c})

\* A client that waits has one request, in its mailbox or in the queue of
\* readers; a client that does not wait has none.  So no reply goes to a
\* client that asked for something else meanwhile, and none is forgotten.
OneRequestEach ==
    \A c \in Clients : /\ client[c] = "waiting" => Pending(c) = 1
                       /\ client[c] = "idle" => Pending(c) = 0

\* Only reads are kept waiting, and they wait in the order of their arrival:
\* the queue loses its first element or gets a new last one (tty_read).
ReadersInOrder ==
    [][\/ requests' = requests
       \/ requests # <<>> /\ requests' = Tail(requests)
       \/ requests' # <<>> /\ Front(requests') = requests
       \/ requests # <<>> /\ requests' # <<>> /\ Front(requests') = Tail(requests)]_vars

\* A request that is not a read is answered, however many reads wait
\* (tty_proc).
OthersAnswered ==
    \A c \in Clients :
        (\E i \in DOMAIN mailbox : mailbox[i].src = c /\ mailbox[i].op = "other")
            ~> client[c] # "waiting"

\* ttysvr.c:93-95 says of the interrupt handler "If there's a full line of
\* input and a request for input is queued, return the line."
LineReturned == inputs # <<>> => requests = <<>>

\* The same words: a line is returned to a process that asked for it, not
\* dropped, while such a process is in the queue.
LineReachesReader ==
    [][got' # got =>
          \/ client[reader'] = "waiting"
          \/ \A i \in DOMAIN requests : client[requests[i].src] = "dead"]_vars
===============================================================================
