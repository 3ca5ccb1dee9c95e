---------------------------------- MODULE Bfs ----------------------------------
(***************************************************************************)
(* The block file server of src/src/apps/bfs.c with the stubs of           *)
(* src/src/lib/file.c through which clients call it.  Each file is one     *)
(* inode of the block server; the file control blocks (FCBs) of all files  *)
(* are an array in inode 0, of which fcb_cache is a copy in memory.        *)
(*                                                                         *)
(* The block server below is modelled from how bfs.c uses it, with the     *)
(* tree disk it runs by default: a write beyond the end extends the inode  *)
(* with holes that read as zeros, a read beyond the end fails, and a       *)
(* setsize succeeds only for 0 or for the current size                     *)
(* (src/src/block/treedisk.c:271-297).  The kernel delivers a reply to     *)
(* any process that waits for one from this server and drops it otherwise  *)
(* (src/src/grass/process.c:264-272).  The block server serves every read  *)
(* of a block that an inode has; it may refuse any write and any setsize.  *)
(* A stop of the machine in the middle of a handler leaves what refused    *)
(* writes and a restart leave.                                             *)
(***************************************************************************)
EXTENDS Integers, Sequences

CONSTANTS NFcbs,      \* num_fcbs, the inodes of the block server
          BS,         \* BLOCK_SIZE, in bytes
          FcbSize,    \* sizeof(struct file_control_block)
          MaxBytes,   \* bound on the size of a file
          Byte,       \* the byte values that are written
          Modes,      \* permission sets that are requested
          Sizes,      \* sizes that setsize is asked for
          Lengths,    \* numbers of bytes that are written at once
          Client, UidOf,   \* processes and the user of each
          MaxCalls,   \* bound on the number of calls
          MaxFails,   \* bound on the requests of which a block write is refused
          MaxWrites,  \* bound on the blocks written before the refused one
          ScrapFcbs,  \* FCBs that bytes not written as FCBs are read as
          None

Perms     == {"OTHER_READ", "OTHER_WRITE", "OWNER_READ", "OWNER_WRITE"}
Uids      == {UidOf[c] : c \in Client} \cup {0}
Requested == 0 .. NFcbs    \* the FCB array itself; the last one does not exist

\* What the stubs of file.c send, and the messages with it.
Requests ==
    [op : {"create"}, mode : Modes]
    \cup [op : {"chown"}, file : Requested, owner : Uids]
    \cup [op : {"chmod"}, file : Requested, mode : Modes]
    \cup [op : {"read"}, file : Requested, offset : 0 .. MaxBytes, size : {0, BS}]
    \cup {r \in [op : {"write"}, file : Requested, offset : 0 .. MaxBytes - 1, byte : Byte,
                  size : Lengths] : r.offset + r.size <= MaxBytes}
    \cup [op : {"sync"}, file : {1, -1}]
    \cup [op : {"stat", "delete"}, file : Requested]
    \cup [op : {"setsize"}, file : Requested, size : Sizes]
Messages == [src : Client, n : 0 .. MaxCalls, req : Requests]

FCB == [alloc : BOOLEAN, uid : Uids, mode : SUBSET Perms, size : Nat]

BfsAssumption ==
    /\ NFcbs \in Nat \ {0, 1} /\ BS \in Nat \ {0}
    /\ FcbSize \in Nat \ {0} /\ FcbSize <= BS
    /\ MaxBytes \in Nat /\ MaxCalls \in Nat
    /\ Byte \subseteq Nat /\ Sizes \subseteq Nat /\ Lengths \subseteq Nat \ {0}
    /\ Modes \subseteq SUBSET Perms
    /\ UidOf \in [Client -> Nat] /\ None \notin Nat
    /\ MaxFails \in Nat /\ MaxWrites \in Nat /\ ScrapFcbs # {} /\ ScrapFcbs \subseteq FCB

VARIABLES fcb,      \* fcb_cache
          ino,      \* contents of the inodes of the block server
          queue,    \* requests waiting at the server
          second,   \* the request to which another reply is still to be sent
          wait,     \* the number of the call each client waits in
          res,      \* the call of each client that ended last, and the call whose
                    \* reply ended it
          ref,      \* history: the bytes written to each file
          fails,    \* requests of which the block server refused a write
          raw,      \* history: a request has written to the FCB array as file 0
          twice,    \* history: clients that were sent two replies to a call
          ncalls

vars == <<fcb, ino, queue, second, wait, res, ref, fails, raw, twice, ncalls>>

Files   == 0 .. NFcbs - 1
Unset   == None

\* The type of the FCBs, the inodes and the requests (struct file_control_block).
TypeOK ==
    /\ fcb \in [Files -> FCB]
    /\ \A f \in Files \ {0} :
          /\ \A b \in DOMAIN ino[f] : ino[f][b] \in [0 .. BS - 1 -> Byte \cup {0}]
          /\ ref[f] # Unset => DOMAIN ref[f] \subseteq 0 .. fcb[f].size - 1
    /\ \A i \in DOMAIN queue : queue[i] \in Messages
    /\ \A c \in Client : wait[c] \in {None} \cup 0 .. MaxCalls

-------------------------------------------------------------------------------
(* The block server. *)

ZeroBlock == [x \in 0 .. BS - 1 |-> 0]

\* A block of inode 0 that does not come from fcb_cache holds no FCB.
Scrap == <<>>

\* How much the block server grants of what one request asks of it: numbers of
\* data blocks and of FCB blocks, all of them or those before the refused one,
\* and the setsize.
All        == -1
Everything == [data |-> All, fcbs |-> All, resize |-> TRUE]
Refusals   == {[Everything EXCEPT !.resize = FALSE]}
              \cup {[Everything EXCEPT !.data = k] : k \in 0 .. MaxWrites}
              \cup {[Everything EXCEPT !.fcbs = k] : k \in 0 .. MaxWrites}
Grants     == {Everything} \cup {g \in Refusals : fails < MaxFails}

\* The last block that is written of start .. end.
LastGranted(start, end, k) == IF k = All \/ start + k > end THEN end ELSE start + k - 1

\* block_write of each block: blocks is a function from block numbers to
\* contents.  A gap before them is a hole.
multiblock_write(I, i, blocks) ==
    LET top == CHOOSE n \in DOMAIN blocks \cup {Len(I[i]) - 1} :
                  \A b \in DOMAIN blocks \cup {Len(I[i]) - 1} : b <= n
    IN [I EXCEPT ![i] = [b \in 1 .. top + 1 |->
            IF b - 1 \in DOMAIN blocks THEN blocks[b - 1]
            ELSE IF b <= Len(I[i]) THEN I[i][b]
            ELSE IF i = 0 THEN Scrap ELSE ZeroBlock]]

\* The blocks that are read before the first failure, and whether that is
\* at least one.
multiblock_read(i, start, n) ==
    [ok |-> n = 0 \/ start < Len(ino[i]),
     blocks |-> {b \in start .. start + n - 1 : b < Len(ino[i])}]

SetSizeOK(i, n) == n = 0 \/ n = Len(ino[i])

-------------------------------------------------------------------------------
(* The array of FCBs in inode 0. *)

FirstBlock(f) == (f * FcbSize) \div BS
LastBlock(f)  == ((f + 1) * FcbSize - 1) \div BS
ArrayBlocks   == (NFcbs * FcbSize - 1) \div BS + 1

\* The FCBs that block b of the array holds, none beyond its end.
FcbBlock(F, b) == [g \in {h \in Files : FirstBlock(h) <= b /\ b <= LastBlock(h)} |-> F[g]]

\* Mutated form: the change stays in memory.
flush_fcb_cache_none(F, I, f, k) == I

\* end_block_no + 1 blocks are written, counted from start_block_no.  A
\* refused write is only printed.
flush_fcb_cache(F, I, f, k) ==
    LET end == LastGranted(FirstBlock(f), FirstBlock(f) + LastBlock(f), k)
    IN multiblock_write(I, 0, [b \in FirstBlock(f) .. end |-> FcbBlock(F, b)])

flush_stat_cache_all(F, I, k) ==
    LET end == LastGranted(0, ArrayBlocks - 1, k)
    IN multiblock_write(I, 0, [b \in 0 .. end |-> FcbBlock(F, b)])

FreeFcb == [alloc |-> FALSE, uid |-> 0, mode |-> {}, size |-> 0]

\* A new FCB array: only inode 0 itself is allocated.
NewFcbs ==
    [f \in Files |-> IF f = 0
       THEN [FreeFcb EXCEPT !.alloc = TRUE, !.size = (NFcbs * FcbSize) \div (BS \div FcbSize)]
       ELSE FreeFcb]

LoadOK(I) == Len(I[0]) = ArrayBlocks

\* The blocks of the array that hold the FCB of f hold parts of one FCB.
Intact(I, f) ==
    \A b \in FirstBlock(f) .. LastBlock(f) :
        /\ f \in DOMAIN I[0][b + 1]
        /\ I[0][b + 1][f] = I[0][FirstBlock(f) + 1][f]

\* What is loaded when the array has its length.
load_fcb_cache(I, junk) ==
    [f \in Files |-> IF Intact(I, f) THEN I[0][FirstBlock(f) + 1][f] ELSE junk[f]]

-------------------------------------------------------------------------------
(* Permissions. *)

Allowed(b, uid, owner, other) ==
    \/ uid = 0
    \/ uid = b.uid /\ owner \in b.mode
    \/ uid # b.uid /\ other \in b.mode

blkfile_read_allowed(b, uid)  == Allowed(b, uid, "OWNER_READ", "OTHER_READ")
blkfile_write_allowed(b, uid) == Allowed(b, uid, "OWNER_WRITE", "OTHER_WRITE")

-------------------------------------------------------------------------------
(* The handlers.  Each gives the FCBs and the inodes it leaves, the        *)
(* replies it sends, in order, and the bytes that the file then holds      *)
(* according to the reply; g is what the block server grants.              *)

OK == [status |-> "OK", data |-> None]
ERROR == [status |-> "ERROR", data |-> None]
Data(d) == [status |-> "OK", data |-> d]

Answer(F, I, reps, bytes) == [fcb |-> F, ino |-> I, reps |-> reps, ref |-> bytes]
Refuse == Answer(fcb, ino, <<ERROR>>, ref)

Known(f) == f \in Files /\ fcb[f].alloc

FreeFiles == {f \in Files \ {0} : ~fcb[f].alloc}

\* The first FCB that is not allocated; its st_size stays as it was.
blkfile_do_create(r, uid, g) ==
    IF FreeFiles = {} THEN Refuse
    ELSE LET f == CHOOSE e \in FreeFiles : \A h \in FreeFiles : e <= h
             F == [fcb EXCEPT ![f] = [@ EXCEPT !.alloc = TRUE, !.mode = r.mode, !.uid = uid]]
         IN Answer(F, flush_fcb_cache(F, ino, f, g.fcbs), <<OK>>,
                   [ref EXCEPT ![f] = IF fcb[f].size = 0 THEN <<>> ELSE Unset])

blkfile_do_delete(r, uid, g) ==
    IF r.file \notin Files THEN Refuse
    ELSE IF ~blkfile_write_allowed(fcb[r.file], uid) THEN Refuse
    ELSE IF ~fcb[r.file].alloc THEN Answer(fcb, ino, <<OK>>, ref)
    ELSE LET F == [fcb EXCEPT ![r.file] = [@ EXCEPT !.alloc = FALSE]]
             I == flush_fcb_cache(F, ino, r.file, g.fcbs)
         IN IF g.resize
            THEN Answer(F, [I EXCEPT ![r.file] = <<>>], <<OK>>, [ref EXCEPT ![r.file] = Unset])
            ELSE Answer(F, I, <<ERROR, OK>>, [ref EXCEPT ![r.file] = Unset])

blkfile_do_chown(r, uid, g) ==
    IF ~Known(r.file) \/ uid # 0 THEN Refuse
    ELSE LET F == [fcb EXCEPT ![r.file] = [@ EXCEPT !.uid = r.owner]]
         IN Answer(F, flush_fcb_cache(F, ino, r.file, g.fcbs), <<OK>>, ref)

blkfile_do_chmod(r, uid, g) ==
    IF ~Known(r.file) \/ uid \notin {0, fcb[r.file].uid} THEN Refuse
    ELSE LET F == [fcb EXCEPT ![r.file] = [@ EXCEPT !.mode = r.mode]]
         IN Answer(F, flush_fcb_cache(F, ino, r.file, g.fcbs), <<OK>>, ref)

\* Size 0 asks whether the file exists; n bytes are read at offset.
blkfile_do_read(r, uid) ==
    IF ~Known(r.file) \/ ~blkfile_read_allowed(fcb[r.file], uid) THEN Refuse
    ELSE IF r.size = 0 \/ r.offset >= fcb[r.file].size THEN Answer(fcb, ino, <<Data(<<>>)>>, ref)
    ELSE LET left  == fcb[r.file].size - r.offset
             n     == IF left > r.size THEN r.size ELSE left
             start == r.offset \div BS
             end   == (r.offset + n - 1) \div BS
             rd    == multiblock_read(r.file, start, end - start + 1)
         IN IF rd.blocks # start .. end THEN Refuse
            ELSE Answer(fcb, ino,
                        << Data([x \in 1 .. n |-> LET o == r.offset + x - 1
                             IN IF r.file = 0 THEN Scrap ELSE ino[r.file][o \div BS + 1][o % BS]])
                        >>, ref)

\* psize_nblock: how many blocks of the file the write reads first.
BlocksToRead(f, offset, size) ==
    (IF offset + size > fcb[f].size THEN fcb[f].size ELSE offset + size) \div BS
        - offset \div BS + 1

FinalSize(f, offset, size) ==
    IF offset + size > fcb[f].size THEN offset + size ELSE fcb[f].size

\* The bytes x of a file after a write that was not refused, and those that a
\* refused one has not touched.
Overwrite(x, rng, byte) ==
    IF x = Unset THEN x
    ELSE [o \in DOMAIN x \cup rng |-> IF o \in rng THEN byte ELSE x[o]]
Untouched(x, rng) ==
    IF x = Unset THEN x ELSE [o \in DOMAIN x \ rng |-> x[o]]

\* The file has a partial first and last block, which are read, changed and
\* written back; a write that starts beyond the last block reads nothing.
blkfile_put(f, offset, byte, size, g) ==
    LET start  == offset \div BS
        end    == (offset + size) \div BS
        last   == LastGranted(start, end, g.data)
        direct == start > fcb[f].size \div BS \/ fcb[f].size = 0
        rd     == multiblock_read(f, start, IF direct THEN 0 ELSE BlocksToRead(f, offset, size))
        old(b, x) == IF b \in rd.blocks THEN ino[f][b + 1][x] ELSE 0
        new(b) == IF f = 0 THEN Scrap
                  ELSE [x \in 0 .. BS - 1 |->
                     IF b * BS + x \in offset .. offset + size - 1 THEN byte ELSE old(b, x)]
        F      == [fcb EXCEPT ![f] = [@ EXCEPT !.size = FinalSize(f, offset, size)]]
        I      == multiblock_write(ino, f, [b \in start .. last |-> new(b)])
    IN IF ~rd.ok THEN Refuse
       ELSE IF last # end
       THEN Answer(fcb, I, <<ERROR>>,
                   [ref EXCEPT ![f] = Untouched(@, offset .. offset + size - 1)])
       ELSE Answer(F, flush_fcb_cache(F, I, f, g.fcbs), <<OK>>,
                   [ref EXCEPT ![f] = Overwrite(@, offset .. offset + size - 1, byte)])

blkfile_do_write(r, uid, g) ==
    IF ~Known(r.file) THEN Refuse
    ELSE IF ~blkfile_write_allowed(fcb[r.file], uid) THEN Refuse
    ELSE blkfile_put(r.file, r.offset, r.byte, r.size, g)

\* The block server serves the sync of everything only (blocksvr.c:286);
\* no block is lost here, so the sync itself changes nothing.
blkfile_do_sync(r, uid) ==
    IF r.file # -1 THEN Refuse ELSE Answer(fcb, ino, <<OK>>, ref)

blkfile_do_stat(r, uid) ==
    IF ~Known(r.file) \/ ~blkfile_read_allowed(fcb[r.file], uid) THEN Refuse
    ELSE Answer(fcb, ino, <<Data(fcb[r.file])>>, ref)

\* A size the block server refuses is answered with an error, but st_size
\* changes and a second reply is sent.
blkfile_do_setsize(r, uid, g) ==
    IF ~Known(r.file) THEN Refuse
    ELSE IF r.size > fcb[r.file].size \/ ~blkfile_write_allowed(fcb[r.file], uid) THEN Refuse
    ELSE LET n  == IF r.size = 0 THEN 0 ELSE 1 + r.size \div BS
             ok == SetSizeOK(r.file, n) /\ g.resize
             F  == [fcb EXCEPT ![r.file] = [@ EXCEPT !.size = r.size]]
             I  == IF ok THEN [ino EXCEPT ![r.file] = SubSeq(@, 1, n)] ELSE ino
         IN Answer(F, flush_fcb_cache(F, I, r.file, g.fcbs),
                   IF ok THEN <<OK>> ELSE <<ERROR, OK>>,
                   [ref EXCEPT ![r.file] =
                      IF r.size = 0 THEN <<>> ELSE IF @ = Unset THEN @
                      ELSE [o \in {p \in DOMAIN @ : p < r.size} |-> @[o]]])

Handle(r, uid, g) ==
    CASE r.op = "create"  -> blkfile_do_create(r, uid, g)
      [] r.op = "delete"  -> blkfile_do_delete(r, uid, g)
      [] r.op = "chown"   -> blkfile_do_chown(r, uid, g)
      [] r.op = "chmod"   -> blkfile_do_chmod(r, uid, g)
      [] r.op = "read"    -> blkfile_do_read(r, uid)
      [] r.op = "write"   -> blkfile_do_write(r, uid, g)
      [] r.op = "sync"    -> blkfile_do_sync(r, uid)
      [] r.op = "stat"    -> blkfile_do_stat(r, uid)
      [] r.op = "setsize" -> blkfile_do_setsize(r, uid, g)

-------------------------------------------------------------------------------
(* The clients. *)

Call(c, r) ==
    /\ wait[c] = None /\ ncalls < MaxCalls
    /\ ncalls' = ncalls + 1
    /\ wait' = [wait EXCEPT ![c] = ncalls]
    /\ queue' = Append(queue, [src |-> c, n |-> ncalls, req |-> r])
    /\ UNCHANGED <<fcb, ino, second, res, ref, fails, raw, twice>>

file_create(c, m)       == Call(c, [op |-> "create", mode |-> m])
file_chown(c, f, u)     == Call(c, [op |-> "chown", file |-> f, owner |-> u])
file_chmod(c, f, m)     == Call(c, [op |-> "chmod", file |-> f, mode |-> m])
file_read(c, f, o, n)   == Call(c, [op |-> "read", file |-> f, offset |-> o, size |-> n])
file_exist(c, f)        == file_read(c, f, 0, 0)
file_write(c, f, o, b, n) ==
    Call(c, [op |-> "write", file |-> f, offset |-> o, byte |-> b, size |-> n])
file_sync(c, f)         == Call(c, [op |-> "sync", file |-> f])
file_stat(c, f)         == Call(c, [op |-> "stat", file |-> f])
file_setsize(c, f, n)   == Call(c, [op |-> "setsize", file |-> f, size |-> n])
file_delete(c, f)       == Call(c, [op |-> "delete", file |-> f])

\* A client that waits for this server takes a reply to call q for the one to
\* its call; nothing in the reply tells them apart.
Deliver(q) ==
    IF wait[q.src] = None THEN UNCHANGED <<wait, res>>
    ELSE /\ wait' = [wait EXCEPT ![q.src] = None]
         /\ res'  = [res EXCEPT ![q.src] = [call |-> wait[q.src], to |-> q.n]]

-------------------------------------------------------------------------------
(* The server. *)

\* main and the start of blkfile_proc on an empty disk.
Init ==
    /\ fcb = NewFcbs
    /\ ino = flush_stat_cache_all(NewFcbs, [f \in Files |-> <<>>], All)
    /\ queue = <<>> /\ second = <<>>
    /\ wait = [c \in Client |-> None] /\ res = [c \in Client |-> None]
    /\ ref = [f \in Files |-> Unset]
    /\ fails = 0 /\ raw = FALSE /\ twice = {}
    /\ ncalls = 0

\* What the block server grants of the writes made, which give `what' when it
\* grants them all.
Grant(is, what) ==
    IF is = what THEN fails' = fails
    ELSE fails < MaxFails /\ fails' = fails + 1

\* The request changes inode 0 other than by flushing an FCB.
WritesArray(r, a) ==
    r.op \in {"write", "setsize", "delete"} /\ r.file = 0 /\ a.reps # <<ERROR>>

\* One turn of the loop of blkfile_proc, up to the first reply.
blkfile_proc ==
    /\ second = <<>> /\ queue # <<>>
    /\ \E g \in Grants :
         LET r == Head(queue)
             a == Handle(r.req, UidOf[r.src], g)
         IN /\ Grant(a, Handle(r.req, UidOf[r.src], Everything))
            /\ fcb' = a.fcb /\ ino' = a.ino /\ ref' = a.ref
            /\ Deliver(r)
            /\ second' = IF Len(a.reps) = 1 THEN <<>> ELSE <<r>>
            /\ twice' = IF Len(a.reps) = 1 THEN twice ELSE twice \cup {r.src}
            /\ raw' = (raw \/ WritesArray(r.req, a))
    /\ queue' = Tail(queue)
    /\ UNCHANGED ncalls

\* The rest of a handler that goes on after it has sent an error.
SecondReply ==
    /\ second # <<>>
    /\ Deliver(second[1])
    /\ second' = <<>>
    /\ UNCHANGED <<fcb, ino, queue, ref, fails, raw, twice, ncalls>>

\* The machine stops at any moment and is started again, the clients too.
Boot(F, I) ==
    /\ fcb' = F /\ ino' = I
    /\ ref' = [f \in Files |-> IF F[f] = fcb[f] THEN ref[f] ELSE Unset]
    /\ queue' = <<>> /\ second' = <<>> /\ twice' = {}
    /\ wait' = [c \in Client |-> None] /\ res' = [c \in Client |-> None]
    /\ UNCHANGED <<raw, ncalls>>

\* The array is loaded, or installed again when inode 0 has not its length.
Restart ==
    \/ /\ LoadOK(ino)
       /\ \E junk \in [Files -> ScrapFcbs] : Boot(load_fcb_cache(ino, junk), ino)
       /\ UNCHANGED fails
    \/ /\ ~LoadOK(ino)
       /\ \E g \in Grants :
            LET I == flush_stat_cache_all(NewFcbs, ino, g.fcbs)
            IN Grant(I, flush_stat_cache_all(NewFcbs, ino, All)) /\ Boot(NewFcbs, I)

ClientNext(c) ==
    \/ \E m \in Modes : file_create(c, m)
    \/ \E f \in Requested :
          \/ \E u \in Uids : file_chown(c, f, u)
          \/ \E m \in Modes : file_chmod(c, f, m)
          \/ file_exist(c, f)
          \/ \E o \in 0 .. MaxBytes - 1 : file_read(c, f, o, BS)
          \/ \E o \in 0 .. MaxBytes - 1, b \in Byte, n \in Lengths :
                o + n <= MaxBytes /\ file_write(c, f, o, b, n)
          \/ file_stat(c, f)
          \/ \E n \in Sizes : file_setsize(c, f, n)
          \/ file_delete(c, f)
    \/ \E f \in {1, -1} : file_sync(c, f)

Next == (\E c \in Client : ClientNext(c)) \/ blkfile_proc \/ SecondReply \/ Restart

Spec == Init /\ [][Next]_vars

-------------------------------------------------------------------------------
(* Properties. *)

\* Every byte that was written with an OK, to a file that started empty, is
\* within the file and is what a read returns, whatever was written, refused
\* half way, cut off or deleted since, and after a restart that finds the
\* file's FCB: blkfile_put reads the partial blocks it keeps and the FCB
\* follows the data.
KeepsWrites ==
    \A f \in Files \ {0} : ref[f] # Unset => \A o \in DOMAIN ref[f] :
        blkfile_do_read([file |-> f, offset |-> o, size |-> 1], 0).reps
            = << Data(<<ref[f][o]>>) >>

\* The blocks of the array in inode 0 say what fcb_cache says of every file, as
\* long as no FCB block was refused and nobody wrote to file 0: whenever the
\* machine stops, a restart that loads the array loses no file (flush_fcb_cache
\* after every change, over FCBs that lie across two blocks).
FcbsSaved ==
    fails = 0 /\ ~raw =>
        /\ Len(ino[0]) >= ArrayBlocks
        /\ \A f \in Files : \A b \in FirstBlock(f) .. LastBlock(f) : ino[0][b + 1][f] = fcb[f]

\* The reply a client takes for the answer to its call is the answer to that
\* call and not to an earlier one, unless one of its calls was answered twice.
AnswersOwn == \A c \in Client \ twice : res[c] # None => res[c].call = res[c].to
===============================================================================
