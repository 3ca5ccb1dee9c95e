--------------------------------- MODULE Servers --------------------------------
(***************************************************************************)
(* The servers of blocks, files and directories, side by side, each with   *)
(* its own state.  StoragePath is extended, the others are instantiated,   *)
(* with their constants as parameters here, so that what is said of a      *)
(* server is said for every instance of it.                                *)
(***************************************************************************)
EXTENDS StoragePath

CONSTANTS Users, MaxFiles, MaxSize, MaxGap, NBytes, RamModes, MaxOps, MaxTime,  \* ramfilesvr.c
          NFcbs, BS, FcbSize, MaxBytes, Byte, FsModes, Sizes, Lengths,     \* bfs.c
          FsClient, FsCalls, MaxFails, MaxWrites, ScrapFcbs,
          NFiles, Opened, Made, Removed, Self, Parent,                     \* dirsvr.c
          DirClient, DirMode, DirCalls,
          Uid                                                \* the user of each client

VARIABLES fcb, ino, queue1, second, wait1, res1, ref,                  \* bfs.c
          fails, raw, twice, ncalls1,
          file, call, dir_ncalls,                                      \* dirsvr.c
          files, now, reply, asked, want, changed, ops                 \* ramfilesvr.c

Fs == INSTANCE Bfs WITH
        Modes <- FsModes, Client <- FsClient, UidOf <- [c \in FsClient |-> Uid[c]],
        MaxCalls <- FsCalls, queue <- queue1, wait <- wait1, res <- res1, ncalls <- ncalls1
Dir == INSTANCE DirSvr WITH
        Client <- DirClient, UidOf <- [c \in DirClient |-> Uid[c]], MaxCalls <- DirCalls,
        ncalls <- dir_ncalls
Ram == INSTANCE RamFile WITH Modes <- RamModes

\* The constants of the instances.
ASSUME ServersAssumption ==
    /\ StoragePathAssumption /\ Ram!RamFileConstants
    /\ Fs!BfsAssumption /\ Dir!DirSvrAssumption

path_vars == vars
bfs_vars  == <<fcb, ino, queue1, second, wait1, res1, ref, fails, raw, twice, ncalls1>>
dir_vars  == <<file, call, dir_ncalls>>
ram_vars  == <<files, now, reply, asked, want, changed, ops>>

-----------------------------------------------------------------------------
(* Properties: StorageRight of StoragePath, and one for each other server. *)

\* bfs.c: a read returns the bytes that were last written, through writes that
\* cover parts of blocks, refused writes and restarts at any moment; the array
\* on the disk says what fcb_cache says; and a client takes no answer to an
\* earlier call for the answer to its own, unless one was answered twice.
BfsRight == Fs!TypeOK /\ Fs!KeepsWrites /\ Fs!FcbsSaved /\ Fs!AnswersOwn

\* dirsvr.c, stdio.c: however the requests of the clients' calls interleave and
\* wherever a call breaks off, no directory has two entries with a name, and an
\* entry is lost only to a client that may write the directory and had found
\* this name with this number, or had found the directory's number as a file's.
DirectoriesRight ==
    /\ [](Dir!TypeOK /\ Dir!NamesUnique)
    /\ Dir!EntriesKept

\* ramfilesvr.c: a file has the bytes written since it was created, whoever
\* used its number before, and changes only by requests its mode allows.
RamFilesRight ==
    /\ [](Ram!TypeOK /\ Ram!ContentsRight)
    /\ Ram!ChangesAllowed
===============================================================================
