--------------------------------- MODULE Raid1 ---------------------------------
(***************************************************************************)
(* Mirroring, src/src/block/raid1disk.c: every write goes to all stores    *)
(* below that are not marked broken, every read to the first that answers. *)
(*                                                                         *)
(* The stores below are external.  An operation on one of them fails if it *)
(* is beyond its end, if the store is dead, and now and then for no reason *)
(* (a set `fail` of mirrors chosen with every call); a failed operation    *)
(* has no effect.  `last` is history: what was acknowledged to the client. *)
(***************************************************************************)
EXTENDS Naturals, FiniteSetsExt

CONSTANTS NBelow, MaxSize, Block, Zero, Err

Raid1Assumption ==
    /\ NBelow \in Nat \ {0} /\ MaxSize \in Nat \ {0}
    /\ Zero \in Block /\ Err \notin Block

VARIABLES msize, mdata, \* size and contents of each mirror
          broken,       \* broken[]
          last,         \* contents the client was told it has
          failed,       \* mirrors that ever failed an operation within range
          out           \* the last operation and its result

vars == <<msize, mdata, broken, last, failed, out>>

Mirrors == 0 .. NBelow - 1
Offsets == 0 .. MaxSize - 1
Good    == Mirrors \ broken

\* The type of the mirrors and of broken[] (struct raid1disk_state).
TypeOK ==
    /\ msize \in [Mirrors -> 0 .. MaxSize]
    /\ mdata \in [Mirrors -> [Offsets -> Block]]
    /\ broken \subseteq Mirrors /\ failed \subseteq Mirrors
    /\ last \in [Offsets -> Block]

Init ==
    /\ \E n \in 1 .. MaxSize : msize = [m \in Mirrors |-> n]
    /\ mdata = [m \in Mirrors |-> [o \in Offsets |-> Zero]]
    /\ broken = {} /\ failed = {}
    /\ last = [o \in Offsets |-> Zero]
    /\ out = [op |-> "init", ret |-> 0]

\* The loop of getninodes and getsize: the first good mirror that answers;
\* those before it that did not are marked broken.
FirstAnswer(fail) ==
    LET ok == Good \ fail IN IF ok = {} THEN NBelow ELSE Min(ok)

NotAnswering(f) == {m \in Good : m < f}

raid1disk_getsize(fail) ==
    LET f == FirstAnswer(fail)
    IN /\ broken' = broken \cup NotAnswering(f)
       /\ out' = [op |-> "getsize", ret |-> IF f = NBelow THEN Err ELSE msize[f]]
       /\ failed' = failed \cup {m \in Good : m < f}
       /\ UNCHANGED <<msize, mdata, last>>

\* All mirrors, the broken ones too; the result is the last that succeeded.
raid1disk_setsize(n, fail) ==
    LET ok == Mirrors \ fail
    IN /\ msize' = [m \in Mirrors |-> IF m \in ok THEN n ELSE msize[m]]
       /\ broken' = broken \cup fail
       /\ failed' = failed \cup fail
       /\ out' = [op |-> "setsize", ret |-> IF ok = {} THEN Err ELSE msize[Max(ok)]]
       /\ UNCHANGED <<mdata, last>>

\* A mirror that cannot be read is not marked.
raid1disk_read(o, fail) ==
    LET ok == {m \in Good \ fail : o < msize[m]}
    IN /\ out' = [op |-> "read", off |-> o, ret |-> IF ok = {} THEN Err ELSE mdata[Min(ok)][o]]
       /\ failed' = failed \cup (fail \cap Good)
       /\ UNCHANGED <<msize, mdata, broken, last>>

\* Mutated form: a mirror that fails a write is not marked.
MarkBroken_not(bad) == broken' = broken

MarkBroken(bad) == broken' = broken \cup bad

raid1disk_write(o, b, fail) ==
    LET ok == {m \in Good \ fail : o < msize[m]}
    IN /\ mdata' = [m \in Mirrors |-> IF m \in ok THEN [mdata[m] EXCEPT ![o] = b] ELSE mdata[m]]
       /\ MarkBroken(Good \ ok)
       /\ last' = IF ok # {} THEN [last EXCEPT ![o] = b] ELSE last
       /\ out' = [op |-> "write", ret |-> IF ok = {} THEN Err ELSE 0]
       /\ failed' = failed \cup (fail \cap Good)
       /\ UNCHANGED msize

raid1disk_sync(fail) ==
    /\ MarkBroken(Good \cap fail)
    /\ failed' = failed \cup (fail \cap Good)
    /\ out' = [op |-> "sync", ret |-> IF Good \ fail = {} THEN Err ELSE 0]
    /\ UNCHANGED <<msize, mdata, last>>

Common ==
    \E fail \in SUBSET Mirrors :
        \/ raid1disk_getsize(fail)
        \/ \E n \in 0 .. MaxSize : raid1disk_setsize(n, fail)
        \/ \E o \in Offsets : raid1disk_read(o, fail)
        \/ raid1disk_sync(fail)

\* A client that writes within the size it was told.
Next ==
    \/ Common
    \/ \E fail \in SUBSET Mirrors, o \in Offsets, b \in Block :
          (\A m \in Good : o < msize[m]) /\ raid1disk_write(o, b, fail)

Spec == Init /\ [][Next]_vars

\* Any client.
OpenNext ==
    \/ Common
    \/ \E fail \in SUBSET Mirrors, o \in Offsets, b \in Block : raid1disk_write(o, b, fail)

OpenSpec == Init /\ [][OpenNext]_vars

-------------------------------------------------------------------------------
(* Properties. *)

\* raid1disk_write and raid1disk_setsize leave no mirror behind that they do
\* not mark: the mirrors that are not broken have one size and hold what was
\* acknowledged, whichever calls failed on whichever of them before.
MirrorsAgree ==
    \A m \in Good : mdata[m] = last /\ \A n \in Good : msize[m] = msize[n]

\* raid1disk_read returns what the client last wrote, or an error, never the
\* contents of a mirror that missed a write.
ReadsLastWrite == out.op = "read" /\ out.ret # Err => out.ret = last[out.off]

\* "implements RAID1 (basic mirroring)": while some mirror has never failed an
\* operation, blocks can be read; a request beyond the end must not change
\* that (raid1disk_write marks every mirror that refuses).
SurvivorIsUsed == failed # Mirrors => Good # {}

\* raid1disk.c: whichever calls failed on whichever mirrors, those that are not
\* marked broken agree on sizes and contents; a read returns what was last
\* acknowledged, or an error; while some mirror never failed one is in use.
MirrorsRight == TypeOK /\ MirrorsAgree /\ ReadsLastWrite /\ SurvivorIsUsed
===============================================================================
