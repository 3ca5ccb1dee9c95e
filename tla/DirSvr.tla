-------------------------------- MODULE DirSvr --------------------------------
(***************************************************************************)
(* The directory server of src/src/apps/dirsvr.c, its stubs in             *)
(* src/src/lib/dir.c, and the library calls that change the name space:    *)
(* fopen, remove (src/src/lib/stdio.c) and mkdir (src/src/apps/mkdir.c).   *)
(*                                                                         *)
(* A directory is a file of entries that only the directory server writes  *)
(* once it exists, so a request of the server is one step.  The library    *)
(* calls are several requests to the directory server and the file server, *)
(* and those of different processes interleave.  There is one file server, *)
(* of which only what the requests here use is modelled; a file number is  *)
(* used again after the file is deleted, the lowest first (bfs.c:203), and *)
(* with it the size of the deleted file, whose blocks are gone.  What the  *)
(* clients write into the files they open is not modelled.                 *)
(***************************************************************************)
EXTENDS Naturals, Sequences

CONSTANTS NFiles,     \* file numbers 1 .. NFiles, the paths start in directory 1
          Opened, Made, Removed,   \* paths given to fopen, mkdir and remove
          Client, UidOf,
          DirMode,    \* access control bits of directory 1
          MaxCalls,   \* bound on library calls
          Self, Parent,            \* the names "..dir" and "...dir"
          None

Perms == {"OTHER_READ", "OTHER_WRITE", "OWNER_READ", "OWNER_WRITE"}

Paths     == Opened \cup Made \cup Removed
Component == UNION {{p[i] : i \in DOMAIN p} : p \in Paths}

DirSvrAssumption ==
    /\ NFiles \in Nat \ {0} /\ MaxCalls \in Nat
    /\ UidOf \in [Client -> Nat] /\ DirMode \subseteq Perms
    /\ \A p \in Paths : p \in Seq(Component) /\ p # <<>>
    /\ \A p \in Opened \cup Made : p[Len(p)] \notin {Self, Parent}
    /\ None \notin Component \cup {Self, Parent} /\ Self # Parent

VARIABLES file,     \* the file server: what each number holds
          call,     \* the library call each client is in, and how far
          ncalls

vars == <<file, call, ncalls>>

Fid   == 1 .. NFiles
Root  == 1

\* stale: st_size is not zero, and the file has no blocks.
Unused == [alloc |-> FALSE, uid |-> 0, mode |-> {}, stale |-> FALSE, dir |-> <<>>]

\* An entry of a directory; the free one is all zeros.
Entry(n, f) == [name |-> n, fid |-> f]
FreeEntry   == Entry(None, 0)

Idle == [op |-> "none"]

\* The type of the file table and of the calls under way (struct dir_entry, file_control_block).
TypeOK ==
    /\ DOMAIN file = Fid
    /\ \A f \in Fid :
          /\ file[f].alloc \in BOOLEAN /\ file[f].mode \subseteq Perms
          /\ file[f].stale \in BOOLEAN /\ (file[f].stale => file[f].dir = <<>>)
          /\ \A i \in DOMAIN file[f].dir :
                \/ file[f].dir[i] = FreeEntry
                \/ file[f].dir[i].fid \in Fid /\ file[f].dir[i].name # None
    /\ \A c \in Client : call[c] # Idle => call[c].dir \in Fid

-------------------------------------------------------------------------------
(* The directory server. *)

\* file_stat and the test of the access control bits; the superuser passes.
Allowed(d, uid, owner, other) ==
    \/ uid = 0
    \/ file[d].alloc /\ (IF file[d].uid = uid THEN owner ELSE other) \in file[d].mode
Writes(d, uid) == Allowed(d, uid, "OWNER_WRITE", "OTHER_WRITE")

\* file_read fails when there is no such file, and when its blocks are not there.
Readable(d) == file[d].alloc /\ ~file[d].stale

Matches(d, n) == {i \in DOMAIN file[d].dir : file[d].dir[i].name = n}
Free(d)       == {i \in DOMAIN file[d].dir : file[d].dir[i] = FreeEntry}
First(S)      == CHOOSE i \in S : \A j \in S : i <= j

\* The first entry with the name; 0 when there is none.
dir_do_lookup(d, n, uid) ==
    IF Allowed(d, uid, "OWNER_READ", "OTHER_READ") /\ Readable(d) /\ Matches(d, n) # {}
    THEN file[d].dir[First(Matches(d, n))].fid ELSE 0

\* Mutated form: the scan ends at the first free entry.
dir_do_insert_early(d, n, f, uid) ==
    IF \/ ~Writes(d, uid) \/ ~Readable(d)
       \/ \E i \in Matches(d, n) : Free(d) = {} \/ i < First(Free(d))
    THEN [ok |-> FALSE, dir |-> file[d].dir]
    ELSE [ok |-> TRUE,
          dir |-> IF Free(d) = {} THEN Append(file[d].dir, Entry(n, f))
                  ELSE [file[d].dir EXCEPT ![First(Free(d))] = Entry(n, f)]]

\* The name must not be there; the first free entry is used, or the directory grows.
dir_do_insert(d, n, f, uid) ==
    IF ~Writes(d, uid) \/ ~Readable(d) \/ Matches(d, n) # {}
    THEN [ok |-> FALSE, dir |-> file[d].dir]
    ELSE [ok |-> TRUE,
          dir |-> IF Free(d) = {} THEN Append(file[d].dir, Entry(n, f))
                  ELSE [file[d].dir EXCEPT ![First(Free(d))] = Entry(n, f)]]

\* Only an entry with this file number; none at all is fine as well.
dir_do_remove(d, n, f, uid) ==
    LET S == {i \in Matches(d, n) : file[d].dir[i].fid = f}
    IN IF ~Writes(d, uid) \/ ~Readable(d) \/ S = {} THEN file[d].dir
       ELSE [file[d].dir EXCEPT ![First(S)] = FreeEntry]

-------------------------------------------------------------------------------
(* The file server. *)

FreeFids == {f \in Fid : ~file[f].alloc}

FileWriteAllowed(f, uid) ==
    uid = 0 \/ (IF file[f].uid = uid THEN "OWNER_WRITE" ELSE "OTHER_WRITE") \in file[f].mode

Default == {"OWNER_READ", "OWNER_WRITE", "OTHER_READ"}

-------------------------------------------------------------------------------
(* The library calls. *)

Begin(c, op, path) ==
    /\ call[c] = Idle /\ ncalls < MaxCalls
    /\ ncalls' = ncalls + 1
    /\ call' = [call EXCEPT ![c] = [op |-> op, pc |-> "lookup", path |-> path, dir |-> Root, fid |-> 0]]
    /\ UNCHANGED file

fopen(c, path)  == \E mode \in {"w", "a"} : Begin(c, mode, path)
mkdir(c, path)  == Begin(c, "mkdir", path)
remove(c, path) == Begin(c, "remove", path)

At(c, pc) == call[c] # Idle /\ call[c].pc = pc
Return(c) == call' = [call EXCEPT ![c] = Idle]
Goto(c, pc, f) == call' = [call EXCEPT ![c] = [@ EXCEPT !.pc = pc, !.fid = f]]
Last(c) == call[c].path[Len(call[c].path)]

\* One request of flookup.  The last component decides how the call goes on;
\* on any other the walk goes on in the directory that was found.
flookup(c) ==
    /\ At(c, "lookup")
    /\ LET f == dir_do_lookup(call[c].dir, Head(call[c].path), UidOf[c])
       IN IF Len(call[c].path) > 1
          THEN IF f = 0 THEN Return(c)
               ELSE call' = [call EXCEPT ![c] = [@ EXCEPT !.dir = f, !.path = Tail(call[c].path)]]
          ELSE IF f = 0
               THEN IF call[c].op = "remove" THEN Return(c) ELSE Goto(c, "create", 0)
               ELSE CASE call[c].op = "remove" -> Goto(c, "delete", f)
                      [] call[c].op = "w" -> Goto(c, "truncate", f)
                      [] OTHER -> Return(c)
    /\ UNCHANGED <<file, ncalls>>

\* file_create at the file server of the parent directory, P_FILE_DEFAULT.  The
\* size is what it was when the number was last in use.
file_create(c) ==
    /\ At(c, "create")
    /\ IF FreeFids = {} THEN Return(c) /\ UNCHANGED file
       ELSE LET f == First(FreeFids)
            IN /\ file' = [file EXCEPT ![f] = [@ EXCEPT !.alloc = TRUE, !.uid = UidOf[c],
                                                        !.mode = Default]]
               /\ Goto(c, IF call[c].op = "mkdir" THEN "fill" ELSE "insert", f)
    /\ UNCHANGED ncalls

\* dir_create2 writes the first two entries of a new directory itself.  The write
\* is refused when the number changed hands, and it fails when what the size
\* promises cannot be read; then the assertion ends the process.
dir_create2(c) ==
    LET f == call[c].fid
    IN /\ At(c, "fill")
       /\ IF Readable(f) /\ FileWriteAllowed(f, UidOf[c])
          THEN /\ file' = [file EXCEPT ![f] = [@ EXCEPT !.dir =
                              <<Entry(Self, f), Entry(Parent, call[c].dir)>>
                                  \o SubSeq(file[f].dir, 3, Len(file[f].dir))]]
               /\ Goto(c, "insert", f)
          ELSE Return(c) /\ UNCHANGED file
       /\ UNCHANGED ncalls

\* fopen gives up when the name could not be inserted; the file stays.
dir_insert(c) ==
    LET r == dir_do_insert(call[c].dir, Last(c), call[c].fid, UidOf[c])
    IN /\ At(c, "insert")
       /\ file' = [file EXCEPT ![call[c].dir] = [@ EXCEPT !.dir = r.dir]]
       /\ IF r.ok /\ call[c].op = "w" THEN Goto(c, "truncate", call[c].fid) ELSE Return(c)
       /\ UNCHANGED ncalls

\* file_setsize to 0; fopen does not look at the result.
file_setsize(c) ==
    LET f == call[c].fid
    IN /\ At(c, "truncate")
       /\ file' = IF file[f].alloc /\ FileWriteAllowed(f, UidOf[c])
                  THEN [file EXCEPT ![f] = [@ EXCEPT !.dir = <<>>, !.stale = FALSE]] ELSE file
       /\ Return(c)
       /\ UNCHANGED ncalls

\* remove: the file is deleted first, and the result is not looked at.  The size
\* stays; of a file that is no directory it is what the clients have written.
file_delete(c) ==
    LET f == call[c].fid
    IN /\ At(c, "delete")
       /\ IF file[f].alloc /\ FileWriteAllowed(f, UidOf[c])
          THEN \E s \in BOOLEAN :
                  /\ file[f].stale \/ file[f].dir # <<>> => s
                  /\ file' = [file EXCEPT ![f] = [@ EXCEPT !.alloc = FALSE, !.dir = <<>>,
                                                           !.stale = s]]
          ELSE UNCHANGED file
       /\ Goto(c, "unlink", f)
       /\ UNCHANGED ncalls

dir_remove(c) ==
    /\ At(c, "unlink")
    /\ file' = [file EXCEPT ![call[c].dir] = [@ EXCEPT !.dir =
                  dir_do_remove(call[c].dir, Last(c), call[c].fid, UidOf[c])]]
    /\ Return(c)
    /\ UNCHANGED ncalls

-------------------------------------------------------------------------------

\* init makes the root directory, file 1, and the superuser may give it another mode.
Init ==
    /\ file = [f \in Fid |-> IF f = Root
                             THEN [alloc |-> TRUE, uid |-> 0, mode |-> DirMode, stale |-> FALSE,
                                   dir |-> <<Entry(Self, Root), Entry(Parent, Root)>>]
                             ELSE Unused]
    /\ call = [c \in Client |-> Idle]
    /\ ncalls = 0

ClientNext(c) ==
    \/ \E p \in Opened : fopen(c, p)
    \/ \E p \in Made : mkdir(c, p)
    \/ \E p \in Removed : remove(c, p)
    \/ flookup(c) \/ file_create(c) \/ dir_create2(c) \/ dir_insert(c)
    \/ file_setsize(c) \/ file_delete(c) \/ dir_remove(c)

Next == \E c \in Client : ClientNext(c)

Spec == Init /\ [][Next]_vars

-------------------------------------------------------------------------------
(* Properties. *)

\* No directory has two entries with one name, although processes look a
\* name up and insert it in two requests: the directory server looks again.
NamesUnique ==
    \A d \in Fid : file[d].alloc =>
        \A i, j \in DOMAIN file[d].dir :
            (i # j /\ file[d].dir[i] # FreeEntry) => file[d].dir[i].name # file[d].dir[j].name

\* Who may take out an entry.
KeepsEntries ==
    \A d \in Fid : \A i \in DOMAIN file[d].dir :
        \/ file[d].dir[i] = FreeEntry
        \/ i \in DOMAIN file'[d].dir /\ file'[d].dir[i] = file[d].dir[i]
        \/ \E c \in Client :
              /\ call[c] # Idle /\ Writes(d, UidOf[c])
              /\ \/ /\ call[c].pc = "unlink" /\ call[c].dir = d
                    /\ file[d].dir[i] = Entry(Last(c), call[c].fid)
                 \/ call[c].pc \in {"delete", "truncate", "fill"} /\ call[c].fid = d

\* Whatever numbers are deleted and used again between the requests of a call,
\* an entry goes away only by a client that may write its directory: dir_remove
\* takes the entry with the name and the number the client had found and no
\* other, and else it is the file the client had found that was the directory.
EntriesKept == [][KeepsEntries]_vars
===============================================================================
