------------------------------- MODULE RamFile -------------------------------
(***************************************************************************)
(* The RAM file server (grass/ramfilesvr.c): files are arrays of bytes in   *)
(* the kernel heap, addressed by number, with an owner and permission bits. *)
(* The server handles one request at a time and never waits inside a        *)
(* handler, so a request is one step; the clients interleave between        *)
(* requests.                                                                *)
(*                                                                          *)
(* The heap is external: m_realloc keeps the bytes that fit and leaves      *)
(* unknown bytes, written Junk, behind them.                                *)
(***************************************************************************)
EXTENDS Integers, Sequences, FiniteSets

CONSTANTS
    Users,          \* user ids of the clients; 0 is the superuser
    MaxFiles,       \* MAX_FILES
    MaxSize,        \* bound: largest offset and size used by clients
    MaxGap,         \* bound: how far behind the end of a file clients write
    NBytes,         \* bound: number of different bytes written
    Modes,          \* the permission bits used: subsets of {"or","ow","tr","tw"}
    MaxOps,         \* bound: number of requests
    MaxTime         \* bound: seconds since the server started

RamFileConstants ==
    /\ Users \subseteq Nat /\ 0 \in Users
    /\ {MaxFiles, MaxSize, MaxGap, NBytes, MaxOps, MaxTime} \subseteq Nat
    /\ Modes \subseteq SUBSET {"or", "ow", "tr", "tw"}

VARIABLES
    files,      \* the table rs->files, from 1
    now,        \* seconds since the server started
    reply,      \* the last reply
    asked,      \* the last request: who asked and for which operation
    want,       \* history: want[f], the bytes the file should have
    changed,    \* history: changed[f], when its data were changed last
    ops

vars == <<files, now, reply, asked, want, changed, ops>>

Fno   == 1 .. MaxFiles - 1
Bytes == 1 .. NBytes
Junk  == 99                     \* a byte of the heap nobody wrote
Base  == 5000                   \* files[0].fcb.st_modtime: time at the start

NoFile == [alloc |-> FALSE, mode |-> {}, uid |-> 0, bytes |-> <<>>, modtime |-> 0]
OK(x)  == [status |-> "ok", data |-> x]
Error  == [status |-> "error", data |-> <<>>]
Stamp  == Base + now

Init ==
    /\ files = [f \in Fno |-> NoFile]
    /\ now = 0
    /\ reply = Error
    /\ asked = [uid |-> 0, op |-> "none", fno |-> 0]
    /\ want = [f \in Fno |-> <<>>]
    /\ changed = [f \in Fno |-> 0]
    /\ ops = 0

-----------------------------------------------------------------------------
(* Permissions and the heap.                                                *)

Zeroes(n) == [i \in 1 .. n |-> 0]
m_realloc(s, n) == [i \in 1 .. n |-> IF i <= Len(s) THEN s[i] ELSE Junk]

ramfile_read_allowed(f, uid) ==
    \/ uid = 0
    \/ uid = files[f].uid /\ "or" \in files[f].mode
    \/ uid # files[f].uid /\ "tr" \in files[f].mode

ramfile_write_allowed(f, uid) ==
    \/ uid = 0
    \/ uid = files[f].uid /\ "ow" \in files[f].mode
    \/ uid # files[f].uid /\ "tw" \in files[f].mode

Exists(f) == f \in Fno /\ files[f].alloc

\* The end of every handler: the new table and the reply.
Respond(uid, op, f, table, rep) ==
    /\ files' = table
    /\ reply' = rep
    /\ asked' = [uid |-> uid, op |-> op, fno |-> f]
    /\ ops' = ops + 1
    /\ UNCHANGED now

Refuse(uid, op, f) == Respond(uid, op, f, files, Error) /\ UNCHANGED <<want, changed>>

-----------------------------------------------------------------------------
(* The requests.                                                            *)

ramfile_do_create(uid, mode) ==
    LET room == {f \in Fno : ~files[f].alloc}
        f    == CHOOSE x \in room : \A y \in room : x <= y
    IN  \/ /\ room = {}
           /\ Refuse(uid, "create", 0)
        \/ /\ room # {}
           /\ Respond(uid, "create", f,
                      [files EXCEPT ![f] = [@ EXCEPT !.alloc = TRUE, !.mode = mode, !.uid = uid,
                                                     !.modtime = Stamp]], OK(f))
           /\ want' = [want EXCEPT ![f] = <<>>]
           /\ changed' = [changed EXCEPT ![f] = Stamp]

\* The number is looked up before it is compared with MAX_FILES; whatever the
\* lookup finds, a number that is too large is refused.
ramfile_do_read(uid, f, offset, size) ==
    \/ /\ ~(Exists(f) /\ ramfile_read_allowed(f, uid))
       /\ Refuse(uid, "read", f)
    \/ /\ Exists(f) /\ ramfile_read_allowed(f, uid)
       /\ LET s == files[f].bytes
              n == IF offset >= Len(s) THEN 0
                   ELSE IF Len(s) - offset > size THEN size ELSE Len(s) - offset
          IN  Respond(uid, "read", f, files, OK(SubSeq(s, offset + 1, offset + n)))
       /\ UNCHANGED <<want, changed>>

ramfile_do_stat(uid, f) ==
    \/ /\ ~(Exists(f) /\ ramfile_read_allowed(f, uid))
       /\ Refuse(uid, "stat", f)
    \/ /\ Exists(f) /\ ramfile_read_allowed(f, uid)
       /\ Respond(uid, "stat", f, files, OK(<<Len(files[f].bytes), files[f].modtime>>))
       /\ UNCHANGED <<want, changed>>

\* The bytes after data is put at offset; a write inside the file keeps what
\* is behind it.
Overlay(s, offset, data) ==
    [i \in 1 .. Len(s) |-> IF i > offset /\ i <= offset + Len(data) THEN data[i - offset] ELSE s[i]]

ramfile_put(f, offset, data) ==
    LET s == files[f].bytes
        t == IF offset + Len(data) > Len(s) THEN m_realloc(s, offset + Len(data)) ELSE s
    IN  Overlay(t, offset, data)

ramfile_do_write(uid, f, offset, data) ==
    \/ /\ ~(Exists(f) /\ ramfile_write_allowed(f, uid))
       /\ Refuse(uid, "write", f)
    \/ /\ Exists(f) /\ ramfile_write_allowed(f, uid)
       /\ Respond(uid, "write", f,
                   [files EXCEPT ![f] = [@ EXCEPT !.bytes = ramfile_put(f, offset, data),
                                                  !.modtime = Stamp]], OK(<<>>))
       /\ LET w == want[f]
              z == IF offset + Len(data) > Len(w)
                   THEN w \o Zeroes(offset + Len(data) - Len(w)) ELSE w
          IN  want' = [want EXCEPT ![f] = Overlay(z, offset, data)]
       /\ changed' = [changed EXCEPT ![f] = Stamp]

\* The time stored here is sys_gettime(), in milliseconds since the start.
ramfile_do_setsize(uid, f, size) ==
    \/ /\ ~(Exists(f) /\ size <= Len(files[f].bytes) /\ ramfile_write_allowed(f, uid))
       /\ Refuse(uid, "setsize", f)
    \/ /\ Exists(f) /\ size <= Len(files[f].bytes) /\ ramfile_write_allowed(f, uid)
       /\ Respond(uid, "setsize", f,
                   [files EXCEPT ![f] = [@ EXCEPT !.bytes = m_realloc(files[f].bytes, size),
                                                  !.modtime = 1000 * now]], OK(<<>>))
       /\ want' = [want EXCEPT ![f] = SubSeq(@, 1, size)]
       /\ changed' = [changed EXCEPT ![f] = Stamp]

\* Mutated form: the bytes of the deleted file stay.
KeepBytes(uid, f) ==
    /\ Exists(f) /\ ramfile_write_allowed(f, uid)
    /\ Respond(uid, "delete", f, [files EXCEPT ![f].alloc = FALSE], OK(<<>>))
    /\ want' = [want EXCEPT ![f] = <<>>]
    /\ UNCHANGED changed

ramfile_do_delete(uid, f) ==
    \/ /\ ~(Exists(f) /\ ramfile_write_allowed(f, uid))
       /\ Refuse(uid, "delete", f)
    \/ /\ Exists(f) /\ ramfile_write_allowed(f, uid)
       /\ Respond(uid, "delete", f,
                   [files EXCEPT ![f] = [@ EXCEPT !.alloc = FALSE, !.bytes = <<>>]], OK(<<>>))
       /\ want' = [want EXCEPT ![f] = <<>>]
       /\ UNCHANGED changed

ramfile_do_chown(uid, f, owner) ==
    \/ /\ ~(Exists(f) /\ uid = 0)
       /\ Refuse(uid, "chown", f)
    \/ /\ Exists(f) /\ uid = 0
       /\ Respond(uid, "chown", f, [files EXCEPT ![f].uid = owner], OK(<<>>))
       /\ UNCHANGED <<want, changed>>

ramfile_do_chmod(uid, f, mode) ==
    \/ /\ ~(Exists(f) /\ uid \in {0, files[f].uid})
       /\ Refuse(uid, "chmod", f)
    \/ /\ Exists(f) /\ uid \in {0, files[f].uid}
       /\ Respond(uid, "chmod", f, [files EXCEPT ![f].mode = mode], OK(<<>>))
       /\ UNCHANGED <<want, changed>>

\* A request of another type, FILE_SYNC among them.
BadRequest(uid) == Refuse(uid, "sync", 0)

Tick == now < MaxTime /\ now' = now + 1
        /\ UNCHANGED <<files, reply, asked, want, changed, ops>>

Request(uid) ==
    \/ \E mode \in Modes : ramfile_do_create(uid, mode)
    \/ BadRequest(uid)
    \/ \E f \in 1 .. MaxFiles :
        \/ \E offset, size \in 0 .. MaxSize : ramfile_do_read(uid, f, offset, size)
        \/ \E b \in Bytes, n \in 1 .. MaxSize, offset \in 0 .. MaxSize :
            /\ Exists(f) => offset <= Len(files[f].bytes) + MaxGap
            /\ offset + n <= MaxSize
            /\ ramfile_do_write(uid, f, offset, [i \in 1 .. n |-> b])
        \/ \E size \in 0 .. MaxSize : ramfile_do_setsize(uid, f, size)
        \/ ramfile_do_stat(uid, f) \/ ramfile_do_delete(uid, f)
        \/ \E owner \in Users : ramfile_do_chown(uid, f, owner)
        \/ \E mode \in Modes : ramfile_do_chmod(uid, f, mode)

\* ramfile_proc; after MaxOps requests none comes.
ramfile_proc == ops < MaxOps /\ \E uid \in Users : Request(uid)

Done == ops = MaxOps /\ UNCHANGED vars
Next == ramfile_proc \/ Tick \/ Done
Spec == Init /\ [][Next]_vars

-----------------------------------------------------------------------------
(* Properties.                                                              *)

\* The type of rs->files; no file grows past what was asked for (struct file).
TypeOK ==
    /\ \A f \in Fno : /\ files[f].alloc \in BOOLEAN /\ files[f].uid \in Users
                      /\ files[f].mode \subseteq {"or", "ow", "tr", "tw"}
                      /\ files[f].bytes \in Seq(Bytes \cup {0, Junk})
                      /\ Len(files[f].bytes) <= MaxSize
    /\ reply.status \in {"ok", "error"}

\* A file holds what was written to it since it was created, whoever used its
\* number before, and whatever sizes it went through (ramfile_put,
\* ramfile_do_setsize, ramfile_do_delete).
ContentsRight == \A f \in Fno : files[f].alloc => files[f].bytes = want[f]

\* The data of a file are changed by root, by its owner or by others only as
\* the permission bits in force at that time allow, and only root changes the
\* owner of a file (ramfile_write_allowed, ramfile_do_chown).
ChangesAllowed ==
    [][\A f \in Fno : files[f].alloc =>
        /\ (files'[f].bytes # files[f].bytes \/ ~files'[f].alloc) =>
              /\ asked'.fno = f
              /\ \/ asked'.uid = 0
                 \/ asked'.uid = files[f].uid /\ "ow" \in files[f].mode
                 \/ asked'.uid # files[f].uid /\ "tw" \in files[f].mode
        /\ files'[f].uid # files[f].uid => asked'.uid = 0
        /\ files'[f].mode # files[f].mode => asked'.uid \in {0, files[f].uid}]_vars

\* st_modtime is the time of the last modification of the data (struct
\* file_control_block).
ModtimeRight == \A f \in Fno : files[f].alloc => files[f].modtime = changed[f]
=============================================================================
