-------------------------------- MODULE Arena -------------------------------
(***************************************************************************)
(* The first-fit allocator of lxp_arena.c, as operators on an arena value. *)
(* The memory it manages begins at address 0 and holds block headers: hdr  *)
(* maps the address of every header with a good magic to its payload size  *)
(* and its flag.  Nothing but these headers says where the blocks are, so  *)
(* a wrong size makes the walk go astray, as it would in the code.         *)
(* maps is the privileged table of tracked mappings; address 0 is free.    *)
(***************************************************************************)
EXTENDS Integers, Sequences, FiniteSets, Functions, FiniteSetsExt, TLC

CONSTANTS
    ALIGN,         \* LXP_ARENA_ALIGN
    HDR,           \* ARENA_HDR
    MAXMAPPINGS    \* LXP_ARENA_MAX_MAPPINGS

ASSUME ArenaConstants ==
    /\ ALIGN \in Nat \ {0} /\ HDR \in Nat \ {0} /\ HDR % ALIGN = 0
    /\ MAXMAPPINGS \in Nat \ {0}

NULL == 0
NoMapping == [addr |-> 0, len |-> 0]

arena_align(n) == ((n + ALIGN - 1) \div ALIGN) * ALIGN
Need(size) == arena_align(IF size = 0 THEN 1 ELSE size)

Block(payload, free) == [payload |-> payload, free |-> free]
blk_payload(b) == b + HDR
Footprint(a, b) == HDR + a.hdr[b].payload

\* Write a header at an address, and clear the magic of one.
Write(a, at, blk) == [a EXCEPT !.hdr = (at :> blk) @@ @]
Erase(a, at) == [a EXCEPT !.hdr = Restrict(@, DOMAIN @ \ {at})]

\* lxp_arena_init and lxp_arena_reset: one free block, no mapping.
lxp_arena_init(size) ==
    LET usable == (size \div ALIGN) * ALIGN
    IN  [size |-> usable, used |-> 0, hdr |-> 0 :> Block(usable - HDR, TRUE),
         maps |-> [i \in 1..MAXMAPPINGS |-> NoMapping]]

\* The addresses of the headers in the order of the walk from the base, with
\* where it ends: before the end of the memory when a header is missing.
Walk(a) ==
    LET step[n \in 0..a.size] ==
            IF n = 0 THEN [seen |-> <<>>, at |-> 0]
            ELSE LET w == step[n - 1]
                 IN  IF w.at < a.size /\ w.at \in DOMAIN a.hdr
                     THEN [seen |-> Append(w.seen, w.at), at |-> w.at + Footprint(a, w.at)]
                     ELSE w
    IN  step[a.size \div (HDR + ALIGN)]

\* Every operation first checks the whole tiling.
arena_layout_valid(a) ==
    LET w == Walk(a)
    IN  /\ w.at = a.size
        /\ \A n \in DOMAIN w.seen :
              /\ a.hdr[w.seen[n]].payload >= ALIGN
              /\ a.hdr[w.seen[n]].payload % ALIGN = 0
        /\ a.used = MapThenSumSet(LAMBDA b : Footprint(a, b),
                                  {b \in Range(w.seen) : ~a.hdr[b].free})

FreeAt(a, b) == b \in DOMAIN a.hdr /\ a.hdr[b].free

\* The block of a payload address, or -1.
arena_find_payload(a, ptr) ==
    IF \E b \in Range(Walk(a).seen) : blk_payload(b) = ptr THEN ptr - HDR ELSE -1

\* Keep `need' bytes of the block at b; the rest becomes a free block when it
\* can hold a header and a minimal payload.
Split(a, b, total, need) ==
    IF total - need >= HDR + ALIGN
    THEN Write(Write(a, b, Block(need, FALSE)), b + HDR + need, Block(total - need - HDR, TRUE))
    ELSE Write(a, b, Block(total, FALSE))

\* The first free block of the walk that is large enough, or -1.
FirstFit(a, walk, need) ==
    LET fits == {n \in DOMAIN walk : a.hdr[walk[n]].free /\ a.hdr[walk[n]].payload >= need}
    IN  IF fits = {} THEN -1 ELSE walk[Min(fits)]

Refused(a) == [arena |-> a, ptr |-> NULL]
Used(cut, b) == [arena |-> [cut EXCEPT !.used = @ + Footprint(cut, b)], ptr |-> blk_payload(b)]
TakeBlock(a, b, need) ==
    IF b = -1 THEN Refused(a) ELSE Used(Split(a, b, a.hdr[b].payload, need), b)

\* First fit: the arena afterwards and the address, NULL when nothing fits.
lxp_arena_alloc(a, size) ==
    IF arena_layout_valid(a) THEN TakeBlock(a, FirstFit(a, Walk(a).seen, Need(size)), Need(size))
    ELSE Refused(a)

Released(a, b) == [Write(a, b, Block(a.hdr[b].payload, TRUE)) EXCEPT !.used = @ - Footprint(a, b)]

\* The block at b takes in the one that follows it, at next.
Absorb(a, b, next) == Erase(Write(a, b, Block(a.hdr[b].payload + Footprint(a, next), TRUE)), next)

MergeNext(a, b, next) == IF next < a.size /\ FreeAt(a, next) THEN Absorb(a, b, next) ELSE a

MergePrev(a, b) ==
    LET prev == {p \in Range(Walk(a).seen) : p + Footprint(a, p) = b /\ a.hdr[p].free}
    IN  IF prev = {} THEN a ELSE Absorb(a, CHOOSE p \in prev : TRUE, b)

FreedBlock(a, b) ==
    IF b = -1 \/ FreeAt(a, b) THEN [arena |-> a, ok |-> FALSE]
    ELSE [arena |-> MergePrev(MergeNext(Released(a, b), b, b + Footprint(a, b)), b), ok |-> TRUE]

\* Mutant: a free block before the freed one is not merged with it.
arena_free_block_forward(a, ptr) ==
    IF ~arena_layout_valid(a) \/ arena_find_payload(a, ptr) = -1 \/ FreeAt(a, ptr - HDR)
    THEN [arena |-> a, ok |-> FALSE]
    ELSE [arena |-> MergeNext(Released(a, ptr - HDR), ptr - HDR, ptr + a.hdr[ptr - HDR].payload),
          ok |-> TRUE]

\* Free and coalesce, forward then backward: the arena afterwards and whether
\* the address was that of an allocated block.
arena_free_block(a, ptr) ==
    IF arena_layout_valid(a) THEN FreedBlock(a, arena_find_payload(a, ptr))
    ELSE [arena |-> a, ok |-> FALSE]

\* Free, and forget any record of the mapping.
Forget(a, f, ptr) ==
    IF ~f.ok THEN a
    ELSE [f.arena EXCEPT !.maps = [i \in DOMAIN @ |-> IF @[i].addr = ptr THEN NoMapping ELSE @[i]]]
lxp_arena_free(a, ptr) == Forget(a, arena_free_block(a, ptr), ptr)

Retrack(a, ptr, to, size) ==
    [a EXCEPT !.maps = [i \in DOMAIN @ |-> IF @[i].addr = ptr THEN [addr |-> to, len |-> size]
                                           ELSE @[i]]]

\* The block at b grows into the free one at next; cut is the arena after it.
Grow(cut, b, old, size) ==
    [arena |-> Retrack([cut EXCEPT !.used = @ + cut.hdr[b].payload - old],
                       blk_payload(b), blk_payload(b), size),
     ptr |-> blk_payload(b)]

\* A replacement was allocated; the old block is freed, or else the new one.
Release(a, ptr, moved, freed, size) ==
    CASE moved.ptr = NULL -> Refused(a)
      [] moved.ptr # NULL /\ ~freed.ok -> Refused(lxp_arena_free(moved.arena, moved.ptr))
      [] OTHER -> [arena |-> Retrack(freed.arena, ptr, moved.ptr, size), ptr |-> moved.ptr]
Move(a, ptr, moved, size) == Release(a, ptr, moved, arena_free_block(moved.arena, ptr), size)

Resize(a, b, next, need, size) ==
    IF b = -1 \/ FreeAt(a, b) THEN Refused(a)
    ELSE IF need <= a.hdr[b].payload THEN [arena |-> a, ptr |-> blk_payload(b)]
    ELSE IF next < a.size /\ FreeAt(a, next) /\ a.hdr[b].payload + Footprint(a, next) >= need
    THEN Grow(Split(Erase(a, next), b, a.hdr[b].payload + Footprint(a, next), need),
              b, a.hdr[b].payload, size)
    ELSE Move(a, blk_payload(b), lxp_arena_alloc(a, size), size)

\* Grow in place into a following free block, else move.
lxp_arena_realloc(a, ptr, size) ==
    IF ptr = NULL THEN lxp_arena_alloc(a, size)
    ELSE IF ~arena_layout_valid(a) THEN Refused(a)
    ELSE Resize(a, arena_find_payload(a, ptr), ptr + a.hdr[ptr - HDR].payload, Need(size), size)

lxp_arena_alloc_tracked(a, size) ==
    LET free == {i \in DOMAIN a.maps : a.maps[i].addr = 0}
        got == lxp_arena_alloc(a, size)
    IN  IF free = {} THEN [arena |-> a, ptr |-> NULL]
        ELSE IF got.ptr = NULL THEN got
        ELSE [got EXCEPT !.arena.maps[Min(free)] = [addr |-> got.ptr, len |-> size]]

\* Only an exact record of address and length frees.
lxp_arena_free_tracked(a, ptr, len) ==
    LET recs == {i \in DOMAIN a.maps : a.maps[i] = [addr |-> ptr, len |-> len]}
        f == arena_free_block(a, ptr)
    IN  IF recs = {} \/ ptr = NULL THEN [arena |-> a, ok |-> FALSE]
        ELSE IF ~f.ok THEN [arena |-> a, ok |-> FALSE]
        ELSE [arena |-> [f.arena EXCEPT !.maps[Min(recs)] = NoMapping], ok |-> TRUE]

lxp_arena_owns(a, ptr) == ptr # NULL /\ ptr < a.size
-----------------------------------------------------------------------------
\* What an arena promises: its headers tile the memory, the allocated blocks
\* and nothing else account for what is used, no two free blocks are adjacent,
\* and every tracked mapping is an allocated block of its own that is large
\* enough.
ArenaSound(a) ==
    LET w == Walk(a).seen
        live == {i \in DOMAIN a.maps : a.maps[i].addr # 0}
    IN  /\ arena_layout_valid(a)
        /\ Range(w) = DOMAIN a.hdr
        /\ \A n \in 2..Len(w) : ~(a.hdr[w[n - 1]].free /\ a.hdr[w[n]].free)
        /\ \A i \in live : LET b == arena_find_payload(a, a.maps[i].addr) IN
              /\ b # -1
              /\ ~a.hdr[b].free /\ a.hdr[b].payload >= a.maps[i].len
              /\ \A j \in live \ {i} : a.maps[j].addr # a.maps[i].addr
=============================================================================
