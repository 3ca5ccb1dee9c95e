-------------------------------- MODULE Gate --------------------------------
(***************************************************************************)
(* The gate server (gatesvr.c), the device under it (devgate.c) and the     *)
(* programs that copy files through it, push and pull: a file of the host   *)
(* is read and written chunk by chunk, each chunk by an RPC of its own.     *)
(*                                                                          *)
(* The server opens, positions and closes the host file in every call and   *)
(* keeps no state between calls.  A client waits in its RPC, so what it     *)
(* does with the reply is part of the step that serves it; the reply to a   *)
(* client that was killed in the meantime is dropped by the kernel.         *)
(***************************************************************************)
EXTENDS Integers, Sequences, SequencesExt, FiniteSets

CONSTANTS
    Clients,
    Job,            \* Job[c]: the program c runs and the files it is given
    Content,        \* Content[f]: the bytes of host file f once it is complete
    Present,        \* host files that exist, complete, from the beginning
    BUF_SIZE,       \* bytes that push and pull move in one call
    PAGESIZE,       \* the most the server reads in one call
    Fails,          \* whether the host may refuse to open or write a file
    HostFull,       \* whether the host may run out of space unnoticed
    Sharing         \* whether two pushes to the same host file may overlap

GateConstants ==
    /\ {BUF_SIZE, PAGESIZE} \subseteq Nat \ {0}
    /\ {Fails, HostFull, Sharing} \subseteq BOOLEAN
    /\ Present \subseteq DOMAIN Content
    /\ \A c \in Clients : Job[c].op \in {"push", "pull", "time"} /\ Job[c].file \in DOMAIN Content
                            /\ (Job[c].op = "push" => Job[c].src # <<>>)

VARIABLES
    host,           \* the files of the host: a function from names to bytes
    cl,             \* cl[c]: where program c is, its position and its output
    queue           \* the requests in the mailbox of the server

vars == <<host, cl, queue>>

Init ==
    /\ host = [f \in Present |-> Content[f]]
    /\ cl = [c \in Clients |-> [pc |-> "idle", pos |-> 0, out |-> <<>>]]
    /\ queue = <<>>

Piece(s, pos, n) == SubSeq(s, pos + 1, IF pos + n < Len(s) THEN pos + n ELSE Len(s))
Busy(c)          == cl[c].pc \in {"run", "wait"}

-----------------------------------------------------------------------------
(* The programs.                                                            *)

\* A user starts a program; a push of a file is started again only after the
\* one before has ended or was killed.
Start(c) ==
    /\ cl[c].pc = "idle"
    /\ Sharing \/ Job[c].op # "push"
         \/ \A d \in Clients : Busy(d) => Job[d].op # "push" \/ Job[d].file # Job[c].file
    /\ cl' = [cl EXCEPT ![c].pc = "run"]
    /\ UNCHANGED <<host, queue>>

\* sys_rpc: send the request and wait for the reply.
Request(c, data) ==
    /\ queue' = Append(queue, [src |-> c, type |-> Job[c].op, file |-> Job[c].file,
                               pos |-> cl[c].pos, data |-> data])
    /\ cl' = [cl EXCEPT ![c].pc = "wait"]
    /\ UNCHANGED host

\* cat() of push: read a chunk of the local file and push it, until there is
\* no more.
push_cat(c) ==
    /\ cl[c].pc = "run" /\ Job[c].op = "push"
    /\ LET chunk == Piece(Job[c].src, cl[c].pos, BUF_SIZE)
       IN  IF chunk = <<>>
           THEN cl' = [cl EXCEPT ![c].pc = "done"] /\ UNCHANGED <<host, queue>>
           ELSE Request(c, chunk)

gate_push(c) == push_cat(c)

gate_pull(c) ==
    /\ cl[c].pc = "run" /\ Job[c].op = "pull"
    /\ Request(c, <<>>)

gate_gettime(c) ==
    /\ cl[c].pc = "run" /\ Job[c].op = "time"
    /\ Request(c, <<>>)

Kill(c) ==
    /\ Busy(c)
    /\ cl' = [cl EXCEPT ![c].pc = "killed"]
    /\ UNCHANGED <<host, queue>>

-----------------------------------------------------------------------------
(* The device: fopen, fseek, fread or fwrite, fclose.                       *)

dev_gate_read(f, pos, n) == Piece(host[f], pos, n)

\* Mutated form: the file is not opened with "w" for position 0.
NoTruncate(f, pos, data) == (IF f \in DOMAIN host THEN host[f] ELSE <<>>) \o data

\* Position 0 opens the file with "w"; any other with "a", where the data go
\* to the end of the file whatever the position.
Written(f, pos, data) ==
    (IF pos # 0 /\ f \in DOMAIN host THEN host[f] ELSE <<>>) \o data

\* The data are written when the file is closed, and the result of fclose is
\* not looked at.
dev_gate_write(f, pos, data) ==
    \E k \in IF HostFull THEN 0 .. Len(data) ELSE {Len(data)} :
       LET new == Written(f, pos, SubSeq(data, 1, k))
       IN  host' = [g \in DOMAIN host \cup {f} |-> IF g = f THEN new ELSE host[g]]

-----------------------------------------------------------------------------
(* The server.                                                              *)

\* What client c does with the reply; nothing if it is no longer there.
Reply(c, new) == cl' = IF cl[c].pc = "wait" THEN [cl EXCEPT ![c] = new] ELSE cl

\* dev_gate_write returns -1: the file could not be opened, or it was opened,
\* and made or emptied if the position is 0, and could not be written.
WriteFails(f, pos) ==
    /\ Fails
    /\ \/ UNCHANGED host
       \/ pos = 0 /\ host' = [g \in DOMAIN host \cup {f} |-> IF g = f THEN <<>> ELSE host[g]]

\* push ends (exit(1)) when it is told of an error.
gate_do_push(r) ==
    /\ r.type = "push"
    /\ \/ /\ dev_gate_write(r.file, r.pos, r.data)
          /\ Reply(r.src, [cl[r.src] EXCEPT !.pc = "run", !.pos = @ + Len(r.data)])
       \/ /\ WriteFails(r.file, r.pos)
          /\ Reply(r.src, [cl[r.src] EXCEPT !.pc = "failed"])

\* The end of the file is a reply of size 0.
gate_do_pull(r) ==
    /\ r.type = "pull"
    /\ \/ /\ Fails \/ r.file \notin DOMAIN host
          /\ Reply(r.src, [cl[r.src] EXCEPT !.pc = "failed"])
       \/ /\ r.file \in DOMAIN host
          /\ LET got == dev_gate_read(r.file, r.pos,
                                      IF BUF_SIZE > PAGESIZE THEN PAGESIZE ELSE BUF_SIZE)
             IN  Reply(r.src, [pc  |-> IF got = <<>> THEN "done" ELSE "run",
                               pos |-> r.pos + Len(got), out |-> cl[r.src].out \o got])
    /\ UNCHANGED host

gate_do_gettime(r) ==
    /\ r.type = "time"
    /\ Reply(r.src, [cl[r.src] EXCEPT !.pc = "done"])
    /\ UNCHANGED host

Handle(r) == gate_do_push(r) \/ gate_do_pull(r) \/ gate_do_gettime(r)

gate_proc ==
    /\ queue # <<>> /\ queue' = Tail(queue)
    /\ Handle(Head(queue))

-----------------------------------------------------------------------------
Step(c)  == gate_push(c) \/ gate_pull(c) \/ gate_gettime(c)
Finished == (\A c \in Clients : ~Busy(c) /\ cl[c].pc # "idle") /\ UNCHANGED vars
Next     == gate_proc \/ (\E c \in Clients : Start(c) \/ Step(c) \/ Kill(c)) \/ Finished

\* The kernel schedules the server and every program that can run.
Spec == Init /\ [][Next]_vars /\ WF_vars(gate_proc) /\ \A c \in Clients : WF_vars(Step(c))

-----------------------------------------------------------------------------
(* Properties.                                                              *)

\* The type of files, programs and requests; a program has one request at a time
\* (sys_rpc waits for the reply).
TypeOK ==
    /\ \A f \in DOMAIN host : f \in DOMAIN Content /\ host[f] \in Seq(Nat)
    /\ \A c \in Clients :
         /\ cl[c].pc \in {"idle", "run", "wait", "done", "failed", "killed"}
         /\ cl[c].pos \in Nat
         /\ Cardinality({i \in DOMAIN queue : queue[i].src = c}) =< 1

\* A push that ends leaves the host file with exactly the bytes of the local
\* one, also when an earlier push of it was killed with a chunk still on its
\* way (push.c, dev_gate_write).
PushRight ==
    [][\A c \in Clients :
          Job[c].op = "push" /\ cl[c].pc = "run" /\ cl'[c].pc = "done"
             => host[Job[c].file] = Job[c].src]_vars

\* What a pull has copied so far is a beginning of the complete file, even if
\* the file is pushed, again and again, at the same time; and a pull of a file
\* nobody pushes ends with all of it (pull.c, gate_do_pull, dev_gate_read).
PullRight ==
    \A c \in Clients : Job[c].op = "pull" =>
       LET f == Job[c].file
       IN  /\ IsPrefix(cl[c].out, Content[f])
           /\ cl[c].pc = "done" /\ ~(\E d \in Clients : Job[d].op = "push" /\ Job[d].file = f)
                => cl[c].out = Content[f]

\* A chunk written at a position is in the file at that position
\* (dev_gate_write).
LandsAtOffset ==
    [][\A f \in DOMAIN host' : (f \in DOMAIN host => host'[f] # host[f]) =>
          \E i \in DOMAIN queue : queue[i].file = f
             /\ Piece(host'[f], queue[i].pos, Len(queue[i].data)) = queue[i].data]_vars

\* Every program that is started ends.
Finishes == \A c \in Clients : cl[c].pc = "run" ~> ~Busy(c)
=============================================================================
