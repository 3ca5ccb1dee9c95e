-------------------------------- MODULE MCMemory --------------------------------
(***************************************************************************)
(* The memory of user programs: the kernel's page faults (process.c) and   *)
(* the library's allocator (tlsf.c).  A behaviour is one of a single part, *)
(* which `part' names; the other keeps its initial state.  Paging is       *)
(* extended, with its constants in the configuration, Tlsf instantiated.   *)
(*                                                                         *)
(* Page 1 is text, 2 is data, 3 is the stack.  The allocator has three     *)
(* objects in a pool that can grow once; sizes 1 to 3 have classes of      *)
(* their own, 4 and 5 share one and so do 6 and 7: a request of 5 is       *)
(* rounded up to the next class, one of 0 gets the least block.            *)
(***************************************************************************)
EXTENDS Paging, TLC

CONSTANT Objects

VARIABLES part,
          heap, live     \* tlsf.c

Tlsf == INSTANCE Tlsf WITH
        MAX_LOG2_SLI <- 1, FLI_OFFSET <- 0, SMALL_BLOCK <- 2, TlsfSize <- 1,
        DEFAULT_AREA_SIZE <- 14, MaxBrk <- 30, Sizes <- {0, 2, 5}

\* The constants of the instances.
ASSUME MemoryAssumption == PagingConstants /\ Tlsf!ClassesAssumption

Symmetry == Permutations(Objects)

heap_vars == <<heap, live>>
mc_vars   == <<part, vars, heap_vars>>

MCInit == part \in {"paging", "tlsf"} /\ Init /\ Tlsf!Init

MCNext ==
    /\ UNCHANGED part
    /\ \/ part = "paging" /\ Next /\ UNCHANGED heap_vars
       \/ part = "tlsf" /\ Tlsf!Next /\ UNCHANGED vars

MCSpec == MCInit /\ [][MCNext]_mc_vars

-----------------------------------------------------------------------------
(* Properties: PagingRight of Paging, and that of the allocator.           *)

\* tlsf.c: through every split, merge, growth and realloc headers tile the pool
\* and tell rightly of the block before them, lists and bitmaps hold exactly
\* the free blocks by class, contents last until they are freed, and used
\* blocks are the area's own and those of the objects held; the pool grows only
\* when no free block is large enough.
HeapRight ==
    /\ [](part = "tlsf" => /\ Tlsf!BoundaryTags /\ Tlsf!FreeListsExact
                           /\ Tlsf!ContentsKept /\ Tlsf!NoLeak)
    /\ Tlsf!GrowsOnlyWhenFull
===============================================================================
