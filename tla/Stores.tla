--------------------------------- MODULE Stores ---------------------------------
(***************************************************************************)
(* The block stores that mirror, cache, translate and encrypt, side by     *)
(* side, each with its own state over common block contents: Raid1 is      *)
(* extended, the others are instantiated.  Their constants are parameters  *)
(* here, so that what is said of a store is said for every instance of it. *)
(***************************************************************************)
EXTENDS Raid1, Integers, Sequences

CONSTANTS WtInodes, NCache, CanFail,         \* wtclockdisk.c
          PartSizes,                         \* partdisk.c
          NBlocks, Pass, Salts, Tails, NoKey \* cipherdisk.c

VARIABLES bsize, bdata, cache, clock_hand, wt_out,            \* wtclockdisk.c
          store, nblocks, current, bl, corrupted,             \* the mapping layers
          below, pc, cd_i, pwd, sb, key, tail, cd_last, wtail, cd_out \* cipherdisk.c

Wt == INSTANCE WtClockDisk WITH NInodes <- WtInodes, out <- wt_out
DS == INSTANCE DiskStack
CD == INSTANCE CipherDisk WITH
        Plain <- Block, None <- NoKey, i <- cd_i, last <- cd_last, out <- cd_out

\* The constants of the instances, and the example of partdisk.c:11-14.
ASSUME StoresAssumption ==
    /\ Wt!WtClockDiskAssumption /\ Raid1Assumption /\ CD!CipherDiskAssumption
    /\ DS!DiskStackAssumption /\ DS!PartExample

wt_vars == <<bsize, bdata, cache, clock_hand, wt_out>>
r1_vars == vars
ds_vars == <<store, nblocks, current, bl, corrupted>>
cd_vars == <<below, pc, cd_i, pwd, sb, key, tail, cd_last, wtail, cd_out>>

-----------------------------------------------------------------------------
(* Properties: MirrorsRight of Raid1, and one for each other store.       *)

\* wtclockdisk.c: a cached block is in one slot and has what the store below
\* has, through evictions, truncations and hits.
WtWrittenThrough == Wt!WtWrittenThrough

\* checkdisk.c over the mapping layers: checkdisk_read finds no block of the
\* composed store changed, and the layers agree with getsize on which blocks
\* can be read.
StackRight == DS!TypeOK /\ DS!NeverCorrupted /\ DS!SizeIsRange

\* cipherdisk.c: a store that is open has the key it was set up with, the
\* superblock of cipherdisk_setup is never written again, and cipherdisk_read
\* gives back what cipherdisk_write got, also after a restart, exactly when
\* the heap behind the key has the same bytes as then.
CipherRight ==
    /\ [](CD!TypeOK /\ CD!ReadsLastWrite /\ CD!OpenWithKey)
    /\ CD!SuperblockKept
===============================================================================
