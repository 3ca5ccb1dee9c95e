-------------------------------- MODULE MCServers -------------------------------
(***************************************************************************)
(* Small instances of the servers of Servers and of the C library's files. *)
(* A behaviour is one of a single instance, which `server' names; the      *)
(* others keep their initial state.  stdio.c comes twice: one stream with  *)
(* a buffer of three bytes and a longer file, and two streams and three    *)
(* descriptors.                                                            *)
(***************************************************************************)
EXTENDS Servers

CONSTANTS Super, User,            \* clients: of the superuser and of another user
          NameA, NameD            \* names of a file and of a directory

VARIABLES server,
          srv, fs, refcnt, u_fds, io_ref, got, io_ops, faults,   \* stdio.c, unistd.c
          srv2, fs2, refcnt2, u_fds2, io_ref2, got2, io_ops2, faults2

MCUid       == [c \in {Super, User} |-> IF c = Super THEN 0 ELSE 1]
MCFiles     == {<<NameA>>, <<NameD, NameA>>}
MCRemoved   == {<<NameA>>, <<NameD>>}
MCDirs      == {<<NameD>>}
MCJunk      == {[alloc |-> TRUE, uid |-> 0, mode |-> {}, size |-> 2]}
MCOwnerOnly == {{"OWNER_READ", "OWNER_WRITE"}}
MCRamModes  == {{"or", "ow", "tr"}, {"or", "ow", "tr", "tw"}}

OldFile == <<1, 10, 3, 4>>
Io1 == INSTANCE Stdio WITH
        Streams <- {"f"}, Old <- OldFile, BUFSIZ <- 3, U_NFDS <- 1, Modes <- {"r+", "w", "a"},
        Bufferings <- {0, 1, 2}, Pieces <- {<<7>>, <<10, 8>>, <<5, 6, 7, 8>>},
        Reads <- {<<1, 1>>, <<1, 3>>, <<2, 1>>}, MaxOps <- 5, MaxFaults <- 1,
        Careful <- TRUE, Clears <- FALSE, ref <- io_ref, ops <- io_ops
Io2 == INSTANCE Stdio WITH
        Streams <- {"f", "g"}, Old <- OldFile, BUFSIZ <- 3, U_NFDS <- 3, Modes <- {"w"},
        Bufferings <- {1, 2}, Pieces <- {<<7>>}, Reads <- {<<1, 1>>}, MaxOps <- 6,
        MaxFaults <- 0, Careful <- TRUE, Clears <- TRUE,
        srv <- srv2, fs <- fs2, refcnt <- refcnt2, u_fds <- u_fds2, ref <- io_ref2,
        got <- got2, ops <- io_ops2, faults <- faults2

io_vars   == <<srv, fs, refcnt, u_fds, io_ref, got, io_ops, faults>>
io2_vars  == <<srv2, fs2, refcnt2, u_fds2, io_ref2, got2, io_ops2, faults2>>
mc_vars == <<server, bfs_vars, dir_vars, ram_vars, path_vars, io_vars, io2_vars>>

MCInit ==
    /\ server \in {"bfs", "dirsvr", "ramfile",
                   "storage path", "stdio", "stdio, two streams"}
    /\ Fs!Init /\ Dir!Init /\ Ram!Init
    /\ Init /\ Io1!Init /\ Io2!Init

MCNext ==
    /\ UNCHANGED server
    /\ \/ /\ server = "bfs" /\ Fs!Next
          /\ UNCHANGED <<dir_vars, ram_vars, path_vars, io_vars, io2_vars>>
       \/ /\ server = "dirsvr" /\ Dir!Next
          /\ UNCHANGED <<bfs_vars, ram_vars, path_vars, io_vars, io2_vars>>
       \/ /\ server = "ramfile" /\ Ram!Next
          /\ UNCHANGED <<bfs_vars, dir_vars, path_vars, io_vars, io2_vars>>
       \/ /\ server = "storage path" /\ Next
          /\ UNCHANGED <<bfs_vars, dir_vars, ram_vars, io_vars, io2_vars>>
       \/ /\ server = "stdio" /\ Io1!Next
          /\ UNCHANGED <<bfs_vars, dir_vars, ram_vars, path_vars, io2_vars>>
       \/ /\ server = "stdio, two streams" /\ Io2!Next
          /\ UNCHANGED <<bfs_vars, dir_vars, ram_vars, path_vars, io_vars>>

MCSpec == MCInit /\ [][MCNext]_mc_vars

-----------------------------------------------------------------------------
(* Properties: those of Servers, and one for the C library. *)

\* stdio.c, unistd.c: reads return what an unbuffered file would; server and
\* buffers make up the file as it was written, and after the last close the
\* server has all of it; the next byte goes where the program has sought or
\* written to; no line is held back by a line-buffered stream; fwrite's
\* assertion holds; the count of a stream is the number of its descriptors.
StreamsRight ==
    /\ server = "stdio" =>
           /\ Io1!ReadsRight /\ Io1!NoLostWrites /\ Io1!OffsetRight
           /\ Io1!LinesOut /\ Io1!BufferHasRoom
    /\ server = "stdio, two streams" => Io2!NoLostWrites /\ Io2!RefcountExact
===============================================================================
