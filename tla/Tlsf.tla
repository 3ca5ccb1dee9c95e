-------------------------------- MODULE Tlsf --------------------------------
(***************************************************************************)
(* The two-level segregated-fit allocator behind m_alloc, malloc and free  *)
(* of the kernel and of every application (lib/tlsf.c, as built with       *)
(* -DTLSF -DGRASS): the pool, the areas that grow it, the free lists and   *)
(* their two levels of bitmaps, and malloc, free, realloc and calloc.      *)
(*                                                                         *)
(* Memory is counted in units of BLOCK_ALIGN (16 bytes).  One unit holds   *)
(* a block header (prev_hdr, size and the two state bits), the two list    *)
(* pointers of a free block, an area_info or one unit of user data, and a  *)
(* write by the user really overwrites what was there.  BHDR_OVERHEAD and  *)
(* MIN_BLOCK_SIZE are then 1 and sizeof(bhdr_t) is 2.                      *)
(***************************************************************************)
EXTENDS Integers, FiniteSets, FiniteSetsExt, TLC

CONSTANTS MAX_LOG2_SLI,      \* log2 of the size classes per first level
          FLI_OFFSET,        \* first levels that are folded into level 0
          SMALL_BLOCK,       \* sizes below this have a class each
          TlsfSize,          \* ROUNDUP_SIZE(sizeof(tlsf_t))
          DEFAULT_AREA_SIZE, \* least growth of the pool
          MaxBrk,            \* bound: end of the address space
          Objects,           \* what the users of the allocator keep
          Sizes              \* bound: the sizes they ask for

ClassesAssumption ==
    /\ MAX_LOG2_SLI \in Nat /\ FLI_OFFSET \in Nat
    /\ SMALL_BLOCK = 2 ^ (FLI_OFFSET + 1)
    /\ SMALL_BLOCK <= 2 ^ MAX_LOG2_SLI

VARIABLES heap,   \* the memory, the tlsf_t structure and the break
          live    \* what each user holds: pointer, size, contents

vars == <<heap, live>>

MAX_SLI == 2 ^ MAX_LOG2_SLI
NULL == 0
BHDR == 2                        \* sizeof(bhdr_t)
Zero == 0                        \* contents of cleared memory
Junk == -1                       \* contents of memory nobody wrote
Addr == 0 .. MaxBrk - 1
Nobody == [ptr |-> NULL, size |-> 0, val |-> Junk]

Hdr(prev_hdr, size, free, pfree) ==
    [k |-> "hdr", prev_hdr |-> prev_hdr, size |-> size, free |-> free, pfree |-> pfree]
Links(prev, next) == [k |-> "links", prev |-> prev, next |-> next]
AreaInfo(end, next) == [k |-> "area", end |-> end, next |-> next]
Bytes(v) == [k |-> "data", v |-> v]

-----------------------------------------------------------------------------
(* Size classes.                                                           *)

ms_bit(x) == CHOOSE i \in 0 .. 30 : 2 ^ i <= x /\ x < 2 ^ (i + 1)
ls_bit(bits) == IF bits = {} THEN -1 ELSE Min(bits)

SmallClass(r) == (r * MAX_SLI) \div SMALL_BLOCK
LargeClass(r) == [fl |-> ms_bit(r) - FLI_OFFSET,
                  sl |-> ((r * MAX_SLI) \div 2 ^ ms_bit(r)) - MAX_SLI]

MAPPING_INSERT(r) == IF r < SMALL_BLOCK THEN [fl |-> 0, sl |-> SmallClass(r)]
                                        ELSE LargeClass(r)

\* Rounds the size up to the least size of a class, so that every block of
\* the class found is large enough.
RoundToClass(r) ==
    LET t == 2 ^ (ms_bit(r) - MAX_LOG2_SLI)
    IN  IF r < SMALL_BLOCK \/ ms_bit(r) < MAX_LOG2_SLI THEN r
        ELSE ((r + t - 1) \div t) * t

MAPPING_SEARCH(r) == [r |-> RoundToClass(r)] @@ MAPPING_INSERT(RoundToClass(r))

FL == 0 .. ms_bit(MaxBrk)
SL == 0 .. MAX_SLI - 1

\* First class that has a block, in the row of c or else in a later row.
FIND_SUITABLE_BLOCK(h, c) ==
    LET sl == ls_bit({i \in h.sl_bitmap[c.fl] : i >= c.sl})
        fl == ls_bit({i \in h.fl_bitmap : i > c.fl})
    IN  CASE sl >= 0 -> [fl |-> c.fl, sl |-> sl, b |-> h.matrix[c.fl][sl]]
          [] sl < 0 /\ fl > 0 ->
                LET sl1 == ls_bit(h.sl_bitmap[fl])
                IN  [fl |-> fl, sl |-> sl1, b |-> h.matrix[fl][sl1]]
          [] OTHER -> [fl |-> fl, sl |-> sl, b |-> NULL]

-----------------------------------------------------------------------------
(* The free lists.                                                         *)

ClearClass(h, fl, sl) ==
    LET row == h.sl_bitmap[fl] \ {sl}
    IN  [h EXCEPT !.sl_bitmap[fl] = row,
                  !.fl_bitmap = IF row = {} THEN @ \ {fl} ELSE @]

\* Takes the head of the list of a class.
EXTRACT_BLOCK_HDR(h, b, fl, sl) ==
    LET next == h.mem[b + 1].next
        h1 == [h EXCEPT !.matrix[fl][sl] = next, !.mem[b + 1] = Links(NULL, NULL)]
    IN  IF next # NULL THEN [h1 EXCEPT !.mem[next + 1].prev = NULL]
                       ELSE ClearClass(h1, fl, sl)

\* Takes a block out of the list of its class.
EXTRACT_BLOCK(h, b) ==
    LET c == MAPPING_INSERT(h.mem[b].size)
        p == h.mem[b + 1].prev
        n == h.mem[b + 1].next
        m1 == IF n # NULL THEN [h.mem EXCEPT ![n + 1].prev = p] ELSE h.mem
        m2 == IF p # NULL THEN [m1 EXCEPT ![p + 1].next = n] ELSE m1
        h1 == [h EXCEPT !.mem = [m2 EXCEPT ![b + 1] = Links(NULL, NULL)]]
        h2 == [h1 EXCEPT !.matrix[c.fl][c.sl] = n]
    IN  CASE h.matrix[c.fl][c.sl] # b -> h1
          [] h.matrix[c.fl][c.sl] = b /\ n # NULL -> h2
          [] OTHER -> ClearClass(h2, c.fl, c.sl)

\* Puts a block at the head of the list of its class.
INSERT_BLOCK(h, b) ==
    LET c == MAPPING_INSERT(h.mem[b].size)
        head == h.matrix[c.fl][c.sl]
        m1 == [h.mem EXCEPT ![b + 1] = Links(NULL, head)]
    IN  [h EXCEPT !.mem = IF head # NULL THEN [m1 EXCEPT ![head + 1].prev = b] ELSE m1,
                  !.matrix[c.fl][c.sl] = b,
                  !.sl_bitmap[c.fl] = @ \cup {c.sl},
                  !.fl_bitmap = @ \cup {c.fl}]

GET_NEXT_BLOCK(h, b) == b + 1 + h.mem[b].size

-----------------------------------------------------------------------------
(* free_ex: merge with the free neighbours, insert the result.             *)

MergeNext(h, b) ==
    LET n == GET_NEXT_BLOCK(h, b)
    IN  IF h.mem[n].free
        THEN [EXTRACT_BLOCK(h, n) EXCEPT !.mem[b].size = @ + h.mem[n].size + 1]
        ELSE h

MergePrev(h, b) ==
    LET p == h.mem[b].prev_hdr
    IN  IF h.mem[b].pfree
        THEN [b |-> p, h |-> [EXTRACT_BLOCK(h, p) EXCEPT !.mem[p].size = @ + h.mem[b].size + 1]]
        ELSE [b |-> b, h |-> h]

\* Mutated form: the next header gets the bit and not the address.
TellNextBit(h, b) == [h EXCEPT !.mem[GET_NEXT_BLOCK(h, b)].pfree = TRUE]

\* The block after b learns that b is free and where it starts.
TellNext(h, b) ==
    LET n == GET_NEXT_BLOCK(h, b)
    IN  [h EXCEPT !.mem[n].pfree = TRUE, !.mem[n].prev_hdr = b]

free_ex(h, ptr) ==
    LET b  == ptr - 1
        h1 == [h EXCEPT !.mem[b].free = TRUE, !.mem[ptr] = Links(NULL, NULL)]
        r  == MergePrev(MergeNext(h1, b), b)
    IN  IF ptr = NULL THEN h ELSE TellNext(INSERT_BLOCK(r.h, r.b), r.b)

-----------------------------------------------------------------------------
(* Areas.                                                                  *)

\* Lays out an area: a used block with the area_info, one large used block
\* and a sentinel of size 0.  prev_hdr is not read while pfree is unset.
process_area(h, area, size) ==
    LET b  == area + 2
        lb == b + 1 + (size - 4)
    IN  [h EXCEPT !.mem[area] = Hdr(NULL, 1, FALSE, FALSE),
                  !.mem[area + 1] = AreaInfo(lb, NULL),
                  !.mem[b] = Hdr(NULL, size - 4, FALSE, FALSE),
                  !.mem[b + 1] = Links(NULL, NULL),
                  !.mem[lb] = Hdr(b, 0, FALSE, TRUE)]

\* Takes area ptr, which follows area prev, out of the list of areas.
UnlinkArea(h, prev, ptr) ==
    IF h.area_head = ptr THEN [h EXCEPT !.area_head = h.mem[ptr].next]
                         ELSE [h EXCEPT !.mem[prev].next = h.mem[ptr].next]

\* The loop over the known areas: the new area (ib0, b0, lb0) absorbs an
\* area that starts where it ends or ends where it starts.
RECURSIVE MergeAreas(_, _, _, _)
MergeAreas(h, prev, ptr, a) ==
    IF ptr = NULL THEN [h |-> h, a |-> a]
    ELSE
      LET ib1  == ptr - 1
          b1   == GET_NEXT_BLOCK(h, ib1)
          lb1  == h.mem[ptr].end
          next == h.mem[ptr].next
          h1   == UnlinkArea(h, prev, ptr)
          after == [h1 EXCEPT !.mem[a.b0].size = @ + h.mem[ib1].size + 2,
                              !.mem[b1].prev_hdr = a.b0]
          size == h.mem[a.b0].size + h.mem[a.ib0].size + 2
          before == [h1 EXCEPT !.mem[lb1].size = size,
                               !.mem[lb1 + 1 + size].prev_hdr = lb1]
      IN  CASE ib1 = a.lb0 + 1 -> MergeAreas(after, prev, next, [a EXCEPT !.lb0 = lb1])
            [] lb1 + 1 = a.ib0 -> MergeAreas(before, prev, next,
                                             [a EXCEPT !.b0 = lb1, !.ib0 = ib1])
            [] OTHER -> MergeAreas(h, ptr, next, a)

Clear(m, from, size, v) ==
    [x \in DOMAIN m |-> IF x \in from .. from + size - 1 THEN Bytes(v) ELSE m[x]]

add_new_area(h, area, size) ==
    LET h1 == process_area([h EXCEPT !.mem = Clear(@, area, size, Zero)], area, size)
        a0 == [ib0 |-> area, b0 |-> area + 2, lb0 |-> h1.mem[area + 1].end]
        r  == MergeAreas(h1, NULL, h1.area_head, a0)
        h2 == [r.h EXCEPT !.mem[r.a.ib0 + 1] = AreaInfo(r.a.lb0, r.h.area_head),
                          !.area_head = r.a.ib0 + 1]
    IN  free_ex(h2, r.a.b0 + 1)

\* get_new_area moves the break; the guard of the actions bounds it.
AreaSize(size) == Max({size + 8, DEFAULT_AREA_SIZE})
get_new_area(h, size) == [h EXCEPT !.brk = @ + size]

Grow(h, size) == add_new_area(get_new_area(h, AreaSize(size)), h.brk, AreaSize(size))

\* The first call: the structure at the start of the pool, one area behind it.
init_memory_pool(h) ==
    LET size == Max({TlsfSize + 8, DEFAULT_AREA_SIZE})
        h1 == process_area(get_new_area(h, size), h.brk + TlsfSize, size - TlsfSize)
        h2 == free_ex(h1, h.brk + TlsfSize + 3)
    IN  [h2 EXCEPT !.area_head = h.brk + TlsfSize + 1]

NoPool == [mem |-> [x \in Addr |-> Bytes(Junk)],
           matrix |-> [f \in FL |-> [s \in SL |-> NULL]],
           sl_bitmap |-> [f \in FL |-> {}], fl_bitmap |-> {},
           area_head |-> NULL, brk |-> 0]

-----------------------------------------------------------------------------
(* malloc_ex, realloc_ex, calloc_ex: [h |-> heap, ptr |-> result].         *)

\* Gives b the size size and returns the rest, up to next_b, as a free block.
Split(h, b, size, rest, next_b) ==
    LET b2 == b + 1 + size
        h1 == [h EXCEPT !.mem[b2] = Hdr(NULL, rest - 1, TRUE, FALSE),
                        !.mem[next_b].prev_hdr = b2,
                        !.mem[b].size = size, !.mem[b].free = FALSE]
    IN  INSERT_BLOCK(h1, b2)

\* Takes the found block, split if the rest can hold a block.
Take(h, f, size) ==
    LET b == f.b
        h1 == EXTRACT_BLOCK_HDR(h, b, f.fl, f.sl)
        next_b == GET_NEXT_BLOCK(h, b)
        rest == h.mem[b].size - size
    IN  [ptr |-> b + 1,
         h |-> IF rest >= BHDR THEN Split(h1, b, size, rest, next_b)
               ELSE [h1 EXCEPT !.mem[next_b].pfree = FALSE, !.mem[b].free = FALSE]]

malloc_ex(h, n) ==
    LET c  == MAPPING_SEARCH(Max({n, 1}))
        f  == FIND_SUITABLE_BLOCK(h, c)
        h1 == Grow(h, c.r)
        c1 == MAPPING_SEARCH(c.r)
    IN  IF f.b # NULL THEN Take(h, f, c.r)
        ELSE Take(h1, FIND_SUITABLE_BLOCK(h1, c1), c1.r)

\* Shrinking, or growing into the free block that follows.
InPlace(h, b, size) ==
    LET n     == GET_NEXT_BLOCK(h, b)
        h1    == IF h.mem[n].free THEN EXTRACT_BLOCK(h, n) ELSE h
        total == h.mem[b].size + (IF h.mem[n].free THEN h.mem[n].size + 1 ELSE 0)
        end   == b + 1 + total
        rest  == total - size
    IN  CASE rest >= BHDR -> Split([h1 EXCEPT !.mem[end].pfree = TRUE], b, size, rest, end)
          [] rest < BHDR /\ h.mem[n].free ->
                [h1 EXCEPT !.mem[b].size = total, !.mem[end].prev_hdr = b,
                           !.mem[end].pfree = FALSE]
          [] OTHER -> h1

CopyCells(m, to, from, n) ==
    [x \in DOMAIN m |-> IF x \in to .. to + n - 1 THEN m[x - to + from] ELSE m[x]]

FitsInPlace(h, b, size) ==
    LET n == GET_NEXT_BLOCK(h, b)
    IN  \/ size <= h.mem[b].size
        \/ h.mem[n].free /\ size <= h.mem[b].size + h.mem[n].size

realloc_ex(h, ptr, n) ==
    LET size == Max({n, 1})
        b == ptr - 1
        r == malloc_ex(h, size)
        m == CopyCells(r.h.mem, r.ptr, ptr, Min({size, h.mem[b].size}))
    IN  CASE ptr = NULL /\ n # 0 -> malloc_ex(h, n)
          [] ptr = NULL /\ n = 0 -> [h |-> h, ptr |-> NULL]
          [] ptr # NULL /\ n = 0 -> [h |-> free_ex(h, ptr), ptr |-> NULL]
          [] ptr # NULL /\ n # 0 /\ FitsInPlace(h, b, size) ->
                [h |-> InPlace(h, b, size), ptr |-> ptr]
          [] OTHER -> [h |-> free_ex([r.h EXCEPT !.mem = m], ptr), ptr |-> r.ptr]

calloc_ex(h, n) ==
    LET r == malloc_ex(h, n)
    IN  IF n = 0 THEN [h |-> h, ptr |-> NULL]
        ELSE [r EXCEPT !.h.mem = Clear(@, r.ptr, n, Zero)]

-----------------------------------------------------------------------------
(* The users: object o keeps one block, filled with o, or with zeroes when *)
(* it came from calloc.                                                    *)

\* The blocks met on the way from b to the sentinel; -1 if the way is broken.
RECURSIVE BlocksFrom(_, _, _)
BlocksFrom(h, b, end) ==
    IF b = end THEN {b}
    ELSE IF b > end \/ b \notin Addr \/ h.mem[b].k # "hdr" THEN {-1}
    ELSE {b} \cup BlocksFrom(h, b + 1 + h.mem[b].size, end)

\* What lies in a free block behind its header and links, and prev_hdr while
\* the block before is used, is not read again before it is written: the
\* model forgets it.
Forget(h) ==
    LET bs == BlocksFrom(h, h.area_head - 1, h.mem[h.area_head].end)
        dead == IF -1 \in bs THEN {}
                ELSE UNION {b + 2 .. b + h.mem[b].size : b \in {c \in bs : h.mem[c].free}}
        stale == {b \in bs \ {-1} : ~h.mem[b].pfree}
    IN  [h EXCEPT !.mem = [x \in Addr |-> CASE x \in dead -> Bytes(Junk)
                                            [] x \in stale -> [@[x] EXCEPT !.prev_hdr = NULL]
                                            [] OTHER -> @[x]]]

Pool == IF heap.area_head = NULL THEN init_memory_pool(heap) ELSE heap

InBounds(n) ==
    \/ FIND_SUITABLE_BLOCK(Pool, MAPPING_SEARCH(n + 1)).b # NULL
    \/ Pool.brk + AreaSize(RoundToClass(n + 1)) <= MaxBrk

Init == heap = NoPool /\ live = [o \in Objects |-> Nobody]

tlsf_malloc(o, n) ==
    /\ live[o] = Nobody /\ InBounds(n)
    /\ \E r \in {malloc_ex(Pool, n)} :
          /\ live' = [live EXCEPT ![o] = [ptr |-> r.ptr, size |-> n, val |-> o]]
          /\ heap' = Forget([r.h EXCEPT !.mem = Clear(@, r.ptr, n, o)])

tlsf_calloc(o, n) ==
    /\ live[o] = Nobody /\ InBounds(n)
    /\ \E r \in {calloc_ex(Pool, n)} :
          /\ live' = IF r.ptr = NULL THEN live
                     ELSE [live EXCEPT ![o] = [ptr |-> r.ptr, size |-> n, val |-> Zero]]
          /\ heap' = Forget(r.h)

tlsf_free(o) ==
    /\ live[o] # Nobody
    /\ live' = [live EXCEPT ![o] = Nobody]
    /\ heap' = Forget(free_ex(heap, live[o].ptr))

\* The user fills what it gained.
tlsf_realloc(o, n) ==
    /\ live[o] # Nobody /\ InBounds(n)
    /\ \E r \in {realloc_ex(heap, live[o].ptr, n)}, keep \in {Min({n, live[o].size})} :
          /\ live' = [live EXCEPT ![o] = IF r.ptr = NULL THEN Nobody
                                         ELSE [@ EXCEPT !.ptr = r.ptr, !.size = n]]
          /\ heap' = Forget([r.h EXCEPT !.mem = Clear(@, r.ptr + keep, n - keep, live[o].val)])

Next == \E o \in Objects : \/ tlsf_free(o)
                           \/ \E n \in Sizes : \/ tlsf_malloc(o, n)
                                               \/ tlsf_calloc(o, n)
                                               \/ tlsf_realloc(o, n)

Spec == Init /\ [][Next]_vars

-----------------------------------------------------------------------------
(* Properties.                                                             *)

Started == heap.area_head # NULL
LastBlock == heap.mem[heap.area_head].end
Blocks == BlocksFrom(heap, heap.area_head - 1, LastBlock)
FreeBlocks == {b \in Blocks : heap.mem[b].free}

\* The headers tile the pool without gap or overlap, as one area up to the
\* break; two neighbours are never both free; and each header tells
\* truthfully whether the block before it is free and where that starts.
BoundaryTags ==
    Started =>
      /\ LastBlock + 1 = heap.brk /\ heap.mem[heap.area_head].next = NULL
      /\ -1 \notin Blocks
      /\ \A b \in Blocks \ {LastBlock} :
            LET n == b + 1 + heap.mem[b].size
            IN  /\ ~(heap.mem[b].free /\ heap.mem[n].free)
                /\ heap.mem[n].pfree = heap.mem[b].free
                /\ heap.mem[b].free => heap.mem[n].prev_hdr = b

RECURSIVE ListFrom(_, _, _)
ListFrom(b, prev, n) ==
    IF b = NULL THEN {}
    ELSE IF n = 0 \/ heap.mem[b + 1].k # "links" THEN {-1}
    ELSE IF heap.mem[b + 1].prev # prev THEN {-1}
    ELSE {b} \cup ListFrom(heap.mem[b + 1].next, b, n - 1)

\* The free lists hold exactly the free blocks, each in the class of its
\* size, and the bitmaps tell which lists are not empty.
FreeListsExact ==
    Started =>
      \A f \in FL : /\ (f \in heap.fl_bitmap) = (heap.sl_bitmap[f] # {})
                    /\ \A s \in SL :
                          /\ (s \in heap.sl_bitmap[f]) = (heap.matrix[f][s] # NULL)
                          /\ ListFrom(heap.matrix[f][s], NULL, MaxBrk) =
                               {b \in FreeBlocks :
                                    MAPPING_INSERT(heap.mem[b].size) = [fl |-> f, sl |-> s]}

\* What a user wrote, or calloc cleared, is there until the user frees it,
\* whatever is allocated, merged, split and moved around it, and realloc
\* keeps the common part.
ContentsKept ==
    \A o \in Objects : live[o] # Nobody =>
        \A x \in live[o].ptr .. live[o].ptr + live[o].size - 1 :
            heap.mem[x] = Bytes(live[o].val)

\* Nothing leaks: the used blocks are the area's own two and one for each
\* object that is still held, so that the pool is one free block again when
\* everything has been freed.
NoLeak ==
    Started => Blocks \ FreeBlocks =
                 {heap.area_head - 1, LastBlock}
                   \cup {live[o].ptr - 1 : o \in {q \in Objects : live[q] # Nobody}}

\* The pool grows only when no free block is large enough for the request
\* after rounding: the bitmaps never hide a block.
GrowsOnlyWhenFull ==
    [][\A o \in Objects :
         (Started /\ heap'.brk > heap.brk /\ live'[o] # live[o])
            => \A b \in FreeBlocks : heap.mem[b].size < RoundToClass(Max({live'[o].size, 1}))]_vars

=============================================================================
