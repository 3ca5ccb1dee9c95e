-------------------------------- MODULE MCStores --------------------------------
(***************************************************************************)
(* The block stores besides clockdisk.c and treedisk.c, each in a small    *)
(* instance.  A behaviour is one of a single store, which `store_kind'     *)
(* names; the others keep their initial state.  The constants of Stores    *)
(* are in the configuration; unixdisk.c is instantiated here.              *)
(***************************************************************************)
EXTENDS Stores

VARIABLES store_kind,
          super, inode, blk, written, frees, ud_out                 \* unixdisk.c

UD == INSTANCE UnixDisk WITH
        NInodes <- 2, NData <- 7, NDirect <- 1, EPB <- 2, EPFB <- 2, MaxSize <- 4,
        MaxFrees <- 1, out <- ud_out

\* Two partitions of one block each.
MCPartSizes == <<1, 1>>

ASSUME MCStoresAssumption == UD!UnixDiskAssumption

ud_vars == <<super, inode, blk, written, frees, ud_out>>
mc_vars == <<store_kind, wt_vars, r1_vars, ds_vars, cd_vars, ud_vars>>

\* A store that takes no part has one initial state.
MCInit ==
    /\ store_kind \in {"wtclockdisk", "raid1disk", "diskstack", "cipherdisk", "unixdisk"}
    /\ Wt!Init /\ (store_kind = "wtclockdisk" \/ \A n \in DOMAIN bsize : bsize[n] = 0)
    /\ Init /\ (store_kind = "raid1disk" \/ \A m \in DOMAIN msize : msize[m] = 1)
    /\ DS!Init
    /\ CD!Init /\ (store_kind = "cipherdisk" \/ \A n \in DOMAIN below : below[n] = CD!Data(Zero))
    /\ (store_kind = "cipherdisk" \/ tail = CHOOSE t \in Tails : TRUE)
    /\ UD!Init

MCNext ==
    /\ UNCHANGED store_kind
    /\ \/ /\ store_kind = "wtclockdisk" /\ Wt!Next
          /\ UNCHANGED <<r1_vars, ds_vars, cd_vars, ud_vars>>
       \/ /\ store_kind = "raid1disk" /\ Next
          /\ UNCHANGED <<wt_vars, ds_vars, cd_vars, ud_vars>>
       \/ /\ store_kind = "diskstack" /\ DS!Next
          /\ UNCHANGED <<wt_vars, r1_vars, cd_vars, ud_vars>>
       \/ /\ store_kind = "cipherdisk" /\ CD!Next
          /\ UNCHANGED <<wt_vars, r1_vars, ds_vars, ud_vars>>
       \/ /\ store_kind = "unixdisk" /\ UD!Next
          /\ UNCHANGED <<wt_vars, r1_vars, ds_vars, cd_vars>>

MCSpec == MCInit /\ [][MCNext]_mc_vars

-----------------------------------------------------------------------------
(* Properties: those of Raid1 and Stores, and unixdisk.c.                 *)

\* unixdisk.c: a data block is in the free list or in one inode, once, and
\* unixdisk_read finds what unixdisk_write wrote since the last free.
UnixRight == store_kind = "unixdisk" => UD!TypeOK /\ UD!AllAccounted /\ UD!KeepsWrites
===============================================================================
