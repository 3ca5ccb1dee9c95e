------------------------------- MODULE Stdio -------------------------------
(***************************************************************************)
(* The streams of the C library (lib/stdio.c) and the file descriptors on  *)
(* top of them (lib/unistd.c): fopen, fread, fwrite, fgets, fseek, ftell,  *)
(* fflush, setvbuf, clearerr, fclose, and open, lseek, dup, dup2, close.   *)
(*                                                                         *)
(* A FILE has an output buffer and an input buffer in front of a file of   *)
(* the file server; each stream has a file of its own here.  Beside them   *)
(* the model keeps what the program means: the contents and the offset a   *)
(* file would have without any buffering.                                  *)
(***************************************************************************)
EXTENDS Integers, Sequences, SequencesExt, FiniteSets

CONSTANTS Streams,    \* the FILE structures
          Old,        \* contents of every file before it is opened
          BUFSIZ,     \* size of the buffers of a stream
          U_NFDS,     \* number of file descriptors
          Modes,      \* the fopen modes used
          Bufferings, \* the buffer modes used: subset of 0 .. 2
          Pieces,     \* what is written: a set of sequences of bytes
          Reads,      \* what is read: a set of <<size, nitems>>
          MaxOps,     \* bound on the calls of the program
          MaxFaults,  \* bound on the requests that the file server refuses
          Careful,    \* the program seeks away between reading and writing
          Clears      \* the program calls clearerr

VARIABLES srv,     \* contents of the files at the server
          fs,      \* the FILE structures
          refcnt,  \* reference count of the u_fptr of a stream
          u_fds,   \* descriptor -> stream, or Nil
          ref,     \* contents and offset without buffering
          got,     \* what the last read returned, and what it should have
          ops, faults

vars == <<srv, fs, refcnt, u_fds, ref, got, ops, faults>>

Nil == "none"
Newline == 10
Fds == 0 .. U_NFDS - 1
IONBF == 0
IOLBF == 1
IOFBF == 2

Closed == [open |-> FALSE]
Nothing == [out |-> << >>, want |-> << >>]
Junk == -1                       \* memory outside the input buffer

-----------------------------------------------------------------------------
(* The file server: file_read and file_write.                              *)

At(s, pos, n) == SubSeq(s, pos + 1, IF pos + n < Len(s) THEN pos + n ELSE Len(s))

Put(s, pos, p) ==
    [i \in 1 .. (IF pos + Len(p) > Len(s) THEN pos + Len(p) ELSE Len(s)) |->
        IF i \in pos + 1 .. pos + Len(p) THEN p[i - pos]
        ELSE IF i <= Len(s) THEN s[i] ELSE 0]

-----------------------------------------------------------------------------
(* Streams.  A call gets [f |-> FILE, d |-> file] and returns the new pair. *)

falloc(mode, buffering) ==
    [open |-> TRUE, pos |-> 0, append |-> mode \in {"a", "a+"},
     eof |-> FALSE, err |-> FALSE, mode |-> buffering, buf |-> << >>,
     in_buf |-> [i \in 0 .. BUFSIZ - 1 |-> 0], in_offset |-> 0, in_size |-> 0,
     used |-> Nil]

\* A failed write leaves the buffer as it was.
fflush(x, ok) ==
    IF x.f.buf = << >> THEN x
    ELSE IF ok THEN [d |-> Put(x.d, x.f.pos, x.f.buf),
                     f |-> [x.f EXCEPT !.pos = @ + Len(x.f.buf), !.buf = << >>]]
    ELSE [x EXCEPT !.f.err = TRUE]

Buffered(f) == [i \in 1 .. f.in_size - f.in_offset |-> f.in_buf[f.in_offset + i - 1]]

\* The items that are returned right away.
Deliver(f, size, nitems) ==
    LET avail == (f.in_size - f.in_offset) \div size
        n == (IF avail > nitems THEN nitems ELSE avail) * size
        done == f.in_offset + n = f.in_size
    IN  [out |-> SubSeq(Buffered(f), 1, n),
         f |-> [f EXCEPT !.pos = @ + n,
                         !.in_offset = IF done THEN 0 ELSE @ + n,
                         !.in_size = IF done THEN 0 ELSE @]]

\* Moves as many bytes as were buffered before the delivery, from behind it.
Shift(f, buffered) ==
    IF buffered > 0 /\ f.in_offset > 0
    THEN [f EXCEPT !.in_buf = [i \in 0 .. BUFSIZ - 1 |->
                        IF i >= buffered THEN f.in_buf[i]
                        ELSE IF f.in_offset + i < BUFSIZ THEN f.in_buf[f.in_offset + i]
                        ELSE Junk],
                   !.in_offset = 0, !.in_size = buffered]
    ELSE f

\* Mutated form: what is buffered already is read again.
Fill_again(f, d) ==
    LET p == At(d, f.pos, BUFSIZ - f.in_size)
    IN  [f EXCEPT !.in_buf = [i \in 0 .. BUFSIZ - 1 |->
                      IF i \in f.in_size .. f.in_size + Len(p) - 1
                      THEN p[i - f.in_size + 1] ELSE f.in_buf[i]],
                  !.in_size = @ + Len(p),
                  !.eof = @ \/ p = << >>]

\* Fills the input buffer behind what it holds.
Fill(f, d) ==
    LET p == At(d, f.pos + f.in_size, BUFSIZ - f.in_size)
    IN  [f EXCEPT !.in_buf = [i \in 0 .. BUFSIZ - 1 |->
                      IF i \in f.in_size .. f.in_size + Len(p) - 1
                      THEN p[i - f.in_size + 1] ELSE f.in_buf[i]],
                  !.in_size = @ + Len(p),
                  !.eof = @ \/ p = << >>]

RECURSIVE fread_loop(_, _, _, _, _, _, _)
fread_loop(f, d, size, nitems, out, short, ok) ==
    LET r == Deliver(f, size, nitems)
        left == nitems - Len(r.out) \div size
        f1 == Shift(r.f, f.in_size - f.in_offset)
        f2 == Fill(f1, d)
    IN  IF left = 0 \/ short \/ f.eof THEN [f |-> r.f, out |-> out \o r.out]
        ELSE IF ~ok THEN [f |-> [f1 EXCEPT !.err = TRUE], out |-> << >>]
        ELSE fread_loop(f2, d, size, left, out \o r.out, f2.in_size < BUFSIZ, ok)

fread(x, size, nitems, ok) ==
    LET x1 == fflush(x, ok)
        r == fread_loop(x1.f, x1.d, size, nitems, << >>, FALSE, ok)
    IN  IF x1.f.err THEN [x |-> x1, out |-> << >>]
        ELSE [x |-> [x1 EXCEPT !.f = r.f], out |-> r.out]

\* One byte at a time up to n bytes, a newline or the end.
RECURSIVE fgets(_, _, _, _)
fgets(x, n, out, ok) ==
    LET r == fread(x, 1, 1, ok)
    IN  IF n = 0 THEN [x |-> x, out |-> out]
        ELSE IF r.out = << >> THEN [x |-> r.x, out |-> out]
        ELSE IF r.out[1] = Newline THEN [x |-> r.x, out |-> out \o r.out]
        ELSE fgets(r.x, n - 1, out \o r.out, ok)

\* Does a stream with room left keep its output?  A line-buffered one looks
\* for a newline in the whole buffer, old contents included: stale says that
\* it meets one there.
Keeps(f, stale) == \/ f.mode = IOFBF
                   \/ f.mode = IOLBF /\ ~stale /\ ~Contains(f.buf, Newline)

HasRoom(f) == Len(f.buf) < BUFSIZ

RECURSIVE fwrite(_, _, _, _)
fwrite(x, p, stale, ok) ==
    LET room == BUFSIZ - Len(x.f.buf)
        n == IF Len(p) < room THEN Len(p) ELSE room
        x1 == [x EXCEPT !.f.buf = @ \o SubSeq(p, 1, n)]
        x2 == fflush(x1, ok)
    IN  IF p = << >> \/ x.f.err THEN x
        ELSE IF n = Len(p) /\ HasRoom(x1.f) /\ Keeps(x1.f, stale) THEN x1
        ELSE IF x2.f.err THEN x2
        ELSE fwrite(x2, SubSeq(p, n + 1, Len(p)), stale, ok)

\* A seek to where the stream says it is changes nothing; any other flushes
\* the output buffer and tosses the input buffer.  SEEK_END asks the server
\* for the size before it flushes.
Seek(x, pos, moves, ok) ==
    LET x1 == IF moves THEN fflush(x, ok) ELSE x
    IN  IF moves THEN [x1 EXCEPT !.f.in_offset = 0, !.f.in_size = 0,
                                 !.f.pos = pos, !.f.eof = FALSE]
        ELSE [x EXCEPT !.f.eof = FALSE]

Flushed(x, ok) == fflush(x, ok).f.pos

\* stat: whether the server tells the size; without it SEEK_END does nothing.
fseek(x, whence, offset, stat, ok) ==
    CASE whence = "SET" -> Seek(x, offset, offset # x.f.pos, ok)
      [] whence = "CUR" -> Seek(x, Flushed(x, ok) + offset, offset # 0, ok)
      [] whence = "END" -> IF stat THEN Seek(x, Len(x.d) + offset, TRUE, ok) ELSE x

-----------------------------------------------------------------------------
(* The calls of the program.                                               *)

Init == /\ srv = [s \in Streams |-> Old]
        /\ fs = [s \in Streams |-> Closed]
        /\ refcnt = [s \in Streams |-> 0]
        /\ u_fds = [fd \in Fds |-> Nil]
        /\ ref = [s \in Streams |-> [data |-> Old, pos |-> 0]]
        /\ got = Nothing
        /\ ops = 0 /\ faults = 0

Call == ops < MaxOps /\ ops' = ops + 1

\* Whether the server serves the requests of this call.
Served(ok) == /\ ok \/ faults < MaxFaults
              /\ faults' = IF ok THEN faults ELSE faults + 1

Pair(s) == [f |-> fs[s], d |-> srv[s]]
SetPair(s, x) == /\ fs' = [fs EXCEPT ![s] = x.f]
                 /\ srv' = [srv EXCEPT ![s] = x.d]

\* u_findfd
FirstFree == {fd \in Fds : u_fds[fd] = Nil /\ \A e \in 0 .. fd - 1 : u_fds[e] # Nil}

\* open, and fopen below it: "w" truncates, "w+" does not.
open(s, mode) ==
    /\ Call /\ ~fs[s].open /\ refcnt[s] = 0
    /\ \E fd \in FirstFree, b \in Bufferings :
          /\ u_fds' = [u_fds EXCEPT ![fd] = s]
          /\ refcnt' = [refcnt EXCEPT ![s] = 1]
          /\ fs' = [fs EXCEPT ![s] = falloc(mode, b)]
    /\ srv' = [srv EXCEPT ![s] = IF mode = "w" THEN << >> ELSE @]
    /\ ref' = [ref EXCEPT ![s] = [data |-> srv'[s], pos |-> 0]]
    /\ got' = Nothing /\ UNCHANGED faults

Ready(s) == Call /\ fs[s].open /\ UNCHANGED <<refcnt, u_fds>>

Wanted(s, n) == At(ref[s].data, ref[s].pos, n)

Read(s, size, nitems, ok) ==
    /\ Ready(s) /\ Served(ok)
    /\ \E r \in {fread(Pair(s), size, nitems, ok)},
          w \in {Wanted(s, (Len(Wanted(s, size * nitems)) \div size) * size)} :
          /\ SetPair(s, [r.x EXCEPT !.f.used = "read"])
          /\ got' = IF r.x.f.err THEN Nothing ELSE [out |-> r.out, want |-> w]
          /\ ref' = IF r.x.f.err THEN ref ELSE [ref EXCEPT ![s].pos = @ + Len(w)]

UpToNewline(p) == IF Contains(p, Newline) THEN SubSeq(p, 1, SelectInSeq(p, LAMBDA b : b = Newline))
                                          ELSE p

ReadLine(s, n, ok) ==
    /\ Ready(s) /\ Served(ok)
    /\ \E r \in {fgets(Pair(s), n, << >>, ok)}, w \in {UpToNewline(Wanted(s, n))} :
          /\ SetPair(s, [r.x EXCEPT !.f.used = "read"])
          /\ got' = IF r.x.f.err THEN Nothing ELSE [out |-> r.out, want |-> w]
          /\ ref' = IF r.x.f.err THEN ref ELSE [ref EXCEPT ![s].pos = @ + Len(w)]

Write(s, p, stale, ok) ==
    /\ Ready(s) /\ Served(ok)
    /\ Careful => fs[s].used # "read"
    /\ SetPair(s, [fwrite(Pair(s), p, stale, ok) EXCEPT !.f.used = "write"])
    /\ ref' = IF fs[s].err THEN ref
              ELSE [ref EXCEPT ![s] = [data |-> Put(@.data, @.pos, p), pos |-> @.pos + Len(p)]]
    /\ got' = Nothing

Target(s, whence, offset) ==
    CASE whence = "SET" -> offset
      [] whence = "CUR" -> ref[s].pos + offset
      [] whence = "END" -> Len(ref[s].data) + offset

\* A careful program flushes before it seeks to the place it wrote from, or
\* to the end.
SeekTo(s, whence, offset, stat, ok) ==
    /\ Ready(s) /\ Served(ok) /\ (ok => stat)
    /\ Target(s, whence, offset) \in 0 .. Len(ref[s].data)
    /\ (Careful /\ fs[s].buf # << >>) =>
          whence = "CUR" \/ (whence = "SET" /\ offset # fs[s].pos)
    /\ \E x \in {fseek(Pair(s), whence, offset, stat, ok)} :
          SetPair(s, [x EXCEPT !.f.used = IF x.f.in_size = 0 /\ x.f.buf = << >>
                                               THEN Nil ELSE @])
    /\ ref' = IF stat THEN [ref EXCEPT ![s].pos = Target(s, whence, offset)] ELSE ref
    /\ got' = Nothing

\* fseek with a bad whence
SeekBad(s, ok) ==
    /\ Ready(s) /\ Served(ok) /\ Clears
    /\ \E x \in {fflush(Pair(s), ok)} :
          SetPair(s, [x EXCEPT !.f.in_offset = 0, !.f.in_size = 0, !.f.err = TRUE])
    /\ got' = Nothing /\ UNCHANGED ref

\* fflush, and ftell
Flush(s, ok) ==
    /\ Ready(s) /\ Served(ok)
    /\ SetPair(s, fflush(Pair(s), ok))
    /\ got' = Nothing /\ UNCHANGED ref

clearerr(s) ==
    /\ Ready(s) /\ Clears
    /\ fs' = [fs EXCEPT ![s].eof = FALSE, ![s].err = FALSE]
    /\ got' = Nothing /\ UNCHANGED <<srv, ref, faults>>

\* setvbuf drops what is in the buffer: C wants it before any other call.
setvbuf(s, b) ==
    /\ Ready(s)
    /\ fs[s].used = Nil /\ fs[s].pos = 0 /\ fs[s].buf = << >>
    /\ fs' = [fs EXCEPT ![s].mode = b, ![s].buf = << >>]
    /\ got' = Nothing /\ UNCHANGED <<srv, ref, faults>>

\* close flushes for every descriptor; the last one frees the stream.
close(fd, ok) ==
    /\ Call /\ Served(ok) /\ u_fds[fd] # Nil
    /\ u_fds' = [u_fds EXCEPT ![fd] = Nil]
    /\ \E s \in {u_fds[fd]} : \E x \in {fflush(Pair(s), ok)} :
          /\ refcnt' = [refcnt EXCEPT ![s] = @ - 1]
          /\ SetPair(s, IF refcnt[s] = 1 THEN [x EXCEPT !.f = Closed] ELSE x)
          /\ ref' = IF x.f.err THEN [ref EXCEPT ![s].data = x.d] ELSE ref
    /\ got' = Nothing

\* The test after u_findfd looks at the wrong descriptor: with none free the
\* reference is counted all the same.
dup(fd) ==
    /\ Call /\ u_fds[fd] # Nil
    /\ Careful => FirstFree # {}
    /\ u_fds' = [e \in Fds |-> IF e \in FirstFree THEN u_fds[fd] ELSE u_fds[e]]
    /\ refcnt' = [refcnt EXCEPT ![u_fds[fd]] = @ + 1]
    /\ got' = Nothing /\ UNCHANGED <<srv, fs, ref, faults>>

dup2(fd, fd2) ==
    /\ Call /\ u_fds[fd] # Nil /\ u_fds[fd2] \in {Nil, u_fds[fd]}
    /\ u_fds' = [u_fds EXCEPT ![fd2] = u_fds[fd]]
    /\ refcnt' = IF u_fds[fd2] = Nil THEN [refcnt EXCEPT ![u_fds[fd]] = @ + 1] ELSE refcnt
    /\ \E s \in {u_fds[fd]} :
          SetPair(s, IF fd # fd2 /\ u_fds[fd2] # Nil THEN fflush(Pair(s), TRUE) ELSE Pair(s))
    /\ got' = Nothing /\ UNCHANGED <<ref, faults>>

\* dup2 onto a descriptor of another stream closes that one first.
dup2_over(fd, fd2, ok) ==
    /\ Call /\ Served(ok) /\ u_fds[fd] # Nil
    /\ u_fds[fd2] \notin {Nil, u_fds[fd]}
    /\ u_fds' = [u_fds EXCEPT ![fd2] = u_fds[fd]]
    /\ \E s \in {u_fds[fd2]} : \E x \in {fflush(Pair(s), ok)} :
          /\ refcnt' = [refcnt EXCEPT ![s] = @ - 1, ![u_fds[fd]] = @ + 1]
          /\ SetPair(s, IF refcnt[s] = 1 THEN [x EXCEPT !.f = Closed] ELSE x)
          /\ ref' = IF x.f.err THEN [ref EXCEPT ![s].data = x.d] ELSE ref
    /\ got' = Nothing

Next ==
    \/ \E s \in Streams :
          \/ \E mode \in Modes : open(s, mode)
          \/ clearerr(s)
          \/ \E b \in Bufferings : setvbuf(s, b)
          \/ \E ok \in BOOLEAN :
                \/ \E r \in Reads : Read(s, r[1], r[2], ok)
                \/ ReadLine(s, BUFSIZ + 1, ok)
                \/ \E p \in Pieces, stale \in BOOLEAN : Write(s, p, stale, ok)
                \/ \E o \in 0 .. BUFSIZ + 1 : SeekTo(s, "SET", o, TRUE, ok)
                \/ \E o \in -1 .. 1 : SeekTo(s, "CUR", o, TRUE, ok)
                \/ \E o \in -1 .. 0, stat \in BOOLEAN : SeekTo(s, "END", o, stat, ok)
                \/ SeekBad(s, ok)
                \/ Flush(s, ok)
    \/ \E fd \in Fds : \/ dup(fd)
                       \/ \E ok \in BOOLEAN : close(fd, ok)
                       \/ \E fd2 \in Fds : \/ dup2(fd, fd2)
                                           \/ \E ok \in BOOLEAN : dup2_over(fd, fd2, ok)

Spec == Init /\ [][Next]_vars

-----------------------------------------------------------------------------
(* Properties.                                                             *)

OpenStreams == {s \in Streams : fs[s].open}
Good(s) == fs[s].open => ~fs[s].err

\* A read returns what an unbuffered file would: the bytes at the offset,
\* whole items, and fewer than asked for only at the end of the file.
ReadsRight == got.out = got.want

\* Without an error, what the server has and what is still in the output
\* buffer make up the file as the program wrote it; after the last close
\* the server has all of it.
NoLostWrites ==
    \A s \in Streams : Good(s) /\ refcnt[s] >= 0 =>
        ref[s].data = IF fs[s].open THEN Put(srv[s], fs[s].pos, fs[s].buf) ELSE srv[s]

\* The stream is where the program thinks: the next byte is written (and
\* read) at the offset the program has reached or has sought to.
OffsetRight ==
    \A s \in OpenStreams : Good(s) => fs[s].pos + Len(fs[s].buf) = ref[s].pos

\* Between calls, an unbuffered stream holds no output back and a
\* line-buffered one no complete line.
LinesOut ==
    \A s \in OpenStreams : Good(s) /\ fs[s].used = "write" =>
        /\ fs[s].mode = IONBF => fs[s].buf = << >>
        /\ fs[s].mode = IOLBF => ~Contains(fs[s].buf, Newline)

\* fwrite's assertion: a stream without error has room in its buffer.
BufferHasRoom == \A s \in OpenStreams : Good(s) => Len(fs[s].buf) < BUFSIZ

\* The reference count of a stream is the number of descriptors that refer
\* to it, so that it is closed by the last close and used by none after it.
RefcountExact ==
    \A s \in Streams : /\ refcnt[s] = Cardinality({fd \in Fds : u_fds[fd] = s})
                       /\ fs[s].open = (refcnt[s] > 0)

\* Every write of a stream opened for appending goes to the end of the file.
AppendsAtEnd ==
    [][\A s \in OpenStreams :
         fs[s].append /\ srv'[s] # srv[s] => IsPrefix(srv[s], srv'[s])]_vars

\* A file opened for writing with truncation is empty.
TruncatesOnOpen ==
    [][\A s \in Streams : ~fs[s].open /\ fs'[s].open => srv'[s] = << >>]_vars

=============================================================================
