------------------------------- MODULE Memory -------------------------------
(***************************************************************************)
(* The memory calls of a guest (sys/lxp_sys_mm.c) over the arena of its mm *)
(* object: brk inside a block taken when the image is loaded, and mmap2    *)
(* and munmap of private mappings.  Mappings that share an object in place *)
(* (the rootfs, a device) lie outside the arena and are not kept here.     *)
(***************************************************************************)
EXTENDS Arena

CONSTANTS
    ArenaBytes,    \* size of the arena of a program
    BrkBytes,      \* brk_bytes of lxp_proc_init
    MapLens        \* lengths a guest maps or unmaps

VARIABLES
    marena,   \* mm->arena
    brk       \* mm->brk_base, brk_cur, brk_max

memoryVars == <<marena, brk>>

\* A new image: lxp_arena_init, then the brk block of lxp_proc_init.
image_memory ==
    LET got == lxp_arena_alloc(lxp_arena_init(ArenaBytes), BrkBytes)
    IN  /\ marena' = got.arena
        /\ brk' = [base |-> got.ptr, cur |-> got.ptr, max |-> got.ptr + BrkBytes]

MemoryInit ==
    LET got == lxp_arena_alloc(lxp_arena_init(ArenaBytes), BrkBytes)
    IN  /\ marena = got.arena
        /\ brk = [base |-> got.ptr, cur |-> got.ptr, max |-> got.ptr + BrkBytes]

sys_brk(addr) ==
    /\ brk' = IF addr >= brk.base /\ addr <= brk.max THEN [brk EXCEPT !.cur = addr] ELSE brk
    /\ UNCHANGED marena

\* A file mapping is filled from the file; when the read fails the mapping is
\* taken back.
sys_mmap2(len, file) ==
    LET got == lxp_arena_alloc_tracked(marena, len)
    IN  /\ len # 0
        /\ \/ marena' = got.arena
           \/ /\ file /\ got.ptr # NULL
              /\ marena' = lxp_arena_free_tracked(got.arena, got.ptr, len).arena
        /\ UNCHANGED brk

\* Any address and length: only an exact mapping is freed.
sys_munmap(addr, len) ==
    /\ len # 0 /\ lxp_arena_owns(marena, addr)
    /\ marena' = lxp_arena_free_tracked(marena, addr, len).arena
    /\ UNCHANGED brk

MemoryNext ==
    \/ image_memory
    \/ \E addr \in 0..ArenaBytes : sys_brk(addr)
    \/ \E len \in MapLens :
          \/ \E file \in BOOLEAN : sys_mmap2(len, file)
          \/ \E addr \in 0..ArenaBytes : sys_munmap(addr, len)

MemorySpec == MemoryInit /\ [][MemoryNext]_memoryVars
-----------------------------------------------------------------------------
\* Whatever is mapped and unmapped, in whatever order and at whatever address,
\* the arena stays sound, the break stays inside its own block, which no
\* mapping overlaps, and when the last mapping goes all the rest is one free
\* block again (lxp_arena.c, sys/lxp_sys_mm.c).
MappingsSound ==
    LET b == arena_find_payload(marena, brk.base)
        live == {i \in DOMAIN marena.maps : marena.maps[i].addr # 0}
    IN  /\ ArenaSound(marena)
        /\ b # -1
        /\ ~marena.hdr[b].free /\ marena.hdr[b].payload >= BrkBytes
        /\ brk.cur \in brk.base..brk.max
        /\ \A i \in live : marena.maps[i].addr # brk.base
        /\ live = {} => Cardinality(DOMAIN marena.hdr) <= 2
=============================================================================
