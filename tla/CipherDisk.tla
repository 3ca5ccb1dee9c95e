------------------------------- MODULE CipherDisk -------------------------------
(***************************************************************************)
(* The encrypting block store of src/src/block/cipherdisk.c (built with    *)
(* CIPHERDISK): block 0 of the store below is a superblock with a salt and *)
(* the hash of the passphrase, block o + 1 is block o encrypted.           *)
(*                                                                         *)
(* Encryption exclusive-ors a key stream onto the block.  A block is the   *)
(* plain contents with the set of key streams on them, so that applying a  *)
(* stream twice removes it.  A stream is identified by the key, the offset *)
(* and the 16 bytes behind key[], which block_xcrypt hashes too: they      *)
(* belong to the heap and are one of Tails at each start.  The hash is     *)
(* injective; the lines typed at the prompts are arbitrary; the store below *)
(* does not fail.                                                          *)
(***************************************************************************)
EXTENDS Naturals, FiniteSetsExt

CONSTANTS NBlocks,  \* size of the store below
          Pass,     \* passphrases of acceptable length
          Plain,    \* block contents
          Salts,    \* salts random() can produce
          Tails,    \* what can lie behind key[] on the heap
          None

CipherDiskAssumption ==
    /\ NBlocks \in Nat \ {0, 1} /\ Pass # {} /\ Salts # {} /\ Tails # {}
    /\ None \notin Plain /\ None \notin Pass

Attempts == 5
Offsets  == 0 .. NBlocks - 2

\* What readline returns: a passphrase, nothing (0), end of file (-1), or more
\* characters than fit (-2).
Line == {[kind |-> "line", pass |-> p] : p \in Pass}
        \cup {[kind |-> k, pass |-> None] : k \in {"empty", "eof", "long"}}

VARIABLES below,   \* blocks of the store below
          pc,      \* where cipherdisk_init is; "open" once it has returned
          i,       \* loop counter of cipherdisk_unlock and cipherdisk_setup
          pwd,     \* pwd[0] in cipherdisk_setup
          sb,      \* superblock: the one read, or the one being set up
          key, tail, \* cs->key and what lies behind it
          last,    \* history: what the client wrote since the set up
          wtail,   \* history: what lay behind key[] when it was written
          out      \* result of the last read

vars == <<below, pc, i, pwd, sb, key, tail, last, wtail, out>>

Data(x) == [plain |-> x, streams |-> {}]
Super(s, p) == [salt |-> s, hashed |-> p]
IsSuper(b) == "salt" \in DOMAIN b

Init ==
    /\ below \in [0 .. NBlocks - 1 -> {Data(x) : x \in Plain}]
    /\ pc = "start" /\ i = 0 /\ pwd = None /\ sb = None /\ key = None
    /\ tail \in Tails
    /\ last = [o \in Offsets |-> None] /\ wtail = last /\ out = None

Goto(l) == pc' = l
Rest == UNCHANGED <<below, tail, last, wtail, out>>

cipherdisk_open ==
    /\ pc = "start"
    /\ i' = 0 /\ UNCHANGED <<pwd, key>> /\ Rest
    /\ \/ IsSuper(below[0]) /\ sb' = below[0] /\ Goto("unlock")
       \/ ~IsSuper(below[0]) /\ UNCHANGED sb /\ Goto("setup")

Matches(p) == sb.hashed = p

\* Another round of the loop, or its end.
Again(l) == i' = i + 1 /\ Goto(IF i + 1 = Attempts THEN "failed" ELSE l)

cipherdisk_unlock ==
    /\ pc = "unlock" /\ Rest /\ UNCHANGED <<pwd, sb>>
    /\ \E r \in Line :
          \/ r.kind \in {"empty", "eof"} /\ Goto("failed") /\ UNCHANGED <<i, key>>
          \/ /\ r.kind = "long" \/ (r.kind = "line" /\ ~Matches(r.pass))
             /\ Again("unlock") /\ UNCHANGED key
          \/ /\ r.kind = "line" /\ Matches(r.pass)
             /\ key' = <<sb, r.pass>> /\ Goto("open") /\ UNCHANGED i

FirstLine ==
    /\ pc = "setup" /\ Rest /\ UNCHANGED <<sb, key>>
    /\ \E r \in Line :
          \/ r.kind \in {"empty", "eof"} /\ Goto("failed") /\ UNCHANGED <<i, pwd>>
          \/ r.kind = "long" /\ Again("setup") /\ UNCHANGED pwd
          \/ r.kind = "line" /\ pwd' = r.pass /\ Goto("retype") /\ UNCHANGED i

SecondLine ==
    /\ pc = "retype" /\ Rest /\ UNCHANGED pwd
    /\ \E r \in Line :
          \/ r.kind = "eof" /\ Goto("failed") /\ UNCHANGED <<i, sb, key>>
          \/ r # [kind |-> "line", pass |-> pwd] /\ r.kind # "eof"
             /\ Again("setup") /\ UNCHANGED <<sb, key>>
          \/ /\ r.kind = "line" /\ r.pass = pwd
             /\ \E s \in Salts : sb' = Super(s, pwd) /\ key' = <<Super(s, pwd), pwd>>
             /\ i' = 0 /\ Goto("encrypt")

\* block_xcrypt; b is a block of the store below.
block_xcrypt(o, b) ==
    IF IsSuper(b) THEN b
    ELSE [b EXCEPT !.streams = SymDiff(@, {<<key, tail, o>>})]

Under(o) == o + 1

\* One round of the loop under "encrypt everything underneath": block i is
\* read from below and written through cipherdisk_write, which is one further.
EncryptBlock ==
    /\ pc = "encrypt" /\ i < NBlocks - 1
    /\ below' = [below EXCEPT ![Under(i)] = block_xcrypt(i, below[i])]
    /\ i' = i + 1
    /\ UNCHANGED <<pc, pwd, sb, key, tail, last, wtail, out>>

WriteSuper ==
    /\ pc = "encrypt" /\ i = NBlocks - 1
    /\ below' = [below EXCEPT ![0] = sb]
    /\ last' = [o \in Offsets |-> None] /\ wtail' = last'
    /\ Goto("open")
    /\ UNCHANGED <<i, pwd, sb, key, tail, out>>

\* Mutated form: the block is not decrypted.
Decrypted_not(o) == below[Under(o)]

Decrypted(o) == block_xcrypt(o, below[Under(o)])

cipherdisk_read(o) ==
    /\ pc = "open"
    /\ out' = [off |-> o, block |-> Decrypted(o)]
    /\ UNCHANGED <<below, pc, i, pwd, sb, key, tail, last, wtail>>

cipherdisk_write(o, x) ==
    /\ pc = "open"
    /\ below' = [below EXCEPT ![Under(o)] = block_xcrypt(o, Data(x))]
    /\ last' = [last EXCEPT ![o] = x] /\ wtail' = [wtail EXCEPT ![o] = tail]
    /\ out' = None
    /\ UNCHANGED <<pc, i, pwd, sb, key, tail>>

\* The server stops at any moment, or after sys_exit, and is started again.
Restart ==
    /\ pc' = "start" /\ i' = 0 /\ pwd' = None /\ sb' = None /\ key' = None
    /\ tail' \in Tails /\ out' = None
    /\ UNCHANGED <<below, last, wtail>>

Next ==
    \/ cipherdisk_open \/ cipherdisk_unlock \/ FirstLine \/ SecondLine
    \/ EncryptBlock \/ WriteSuper
    \/ \E o \in Offsets : cipherdisk_read(o)
    \/ \E o \in Offsets, x \in Plain : cipherdisk_write(o, x)
    \/ Restart

Spec == Init /\ [][Next]_vars

-------------------------------------------------------------------------------
(* Properties. *)

\* The type of the blocks and of the state of cipherdisk_init.
TypeOK ==
    /\ pc \in {"start", "unlock", "setup", "retype", "encrypt", "open", "failed"}
    /\ i \in 0 .. Attempts \/ (pc \in {"encrypt", "open"} /\ i \in 0 .. NBlocks - 1)
    /\ last \in [Offsets -> Plain \cup {None}]
    /\ tail \in Tails
    /\ wtail \in [Offsets -> Tails \cup {None}]

\* After any number of stops and unlocks, cipherdisk_read gives back what
\* cipherdisk_write was given exactly when the bytes behind key[], which
\* block_xcrypt hashes too, are the ones that were there at the write.
ReadsLastWrite ==
    out # None /\ last[out.off] # None =>
        (out.block = Data(last[out.off]) <=> tail = wtail[out.off])

\* Once cipherdisk_setup has written the superblock no operation changes it.
SuperblockKept ==
    [][IsSuper(below[0]) => below'[0] = below[0]]_vars

\* A store that is open has the key it was set up with, whatever was typed
\* before (cipherdisk_unlock).
OpenWithKey == pc = "open" => IsSuper(below[0]) /\ key = <<below[0], below[0].hashed>>

\* cipherdisk.c:227, "encrypt everything underneath": when cipherdisk_setup
\* writes the superblock, reading any block gives plain contents.
EncryptsUnderneath ==
    [][pc = "encrypt" /\ pc' = "open" =>
        \A o \in Offsets : Decrypted(o).streams = {}]_vars
===============================================================================
