---------------------------- MODULE RegionTable ----------------------------
(***************************************************************************)
(* The program-region table (src/src/run/lxp_region.c) as operators on a   *)
(* table R: every region has a lease owner (a slot incarnation that holds  *)
(* the region for an image or snapshot that is not published yet), a       *)
(* reference count and a generation.  A region reference names a region    *)
(* and the generation it had when the reference was made.                  *)
(***************************************************************************)
EXTENDS Integers

CONSTANTS
    NSLOT,      \* LXP_NSLOT, guest task slots
    NREG,       \* LXP_NREG, program regions
    GenMax      \* largest generation before the counter wraps (2^32 - 1)

ASSUME TableAssumption ==
    /\ NSLOT \in Nat \ {0}
    /\ NREG \in Nat \ {0}
    /\ GenMax \in Nat \ {0}

Slots == 0 .. NSLOT - 1
Regions == 0 .. NREG - 1

\* lxp_slot_ref_none, lxp_region_ref_none: index -1.
NoRef == [index |-> -1, gen |-> 0]
SlotRefs == [index : Slots, gen : 0..GenMax] \cup {NoRef}
RegionRefs == [index : Regions, gen : 0..GenMax] \cup {NoRef}
RegionTables == [Regions -> [lease : SlotRefs, refs : 0..NSLOT, gen : 0..GenMax]]

\* Mutant: the counter does not wrap.
GenNextUnwrapped(g) == g + 1

\* The unsigned increment that reserves zero.
GenNext(g) == IF g = GenMax THEN 1 ELSE g + 1

\* ref names region r of R at its present generation.
Names(R, ref) == ref.index \in Regions /\ ref.gen # 0 /\ R[ref.index].gen = ref.gen

RegionRefAt(R, r) == [index |-> r, gen |-> R[r].gen]

\* lxp_region_reserve: the caller has checked that the region is free.
Reserve(R, r, owner) ==
    [R EXCEPT ![r] = [lease |-> owner, refs |-> 1, gen |-> GenNext(R[r].gen)]]

CanGet(R, ref) ==
    /\ Names(R, ref)
    /\ R[ref.index].lease = NoRef
    /\ R[ref.index].refs \in 1 .. NSLOT - 1

\* Mutant: the new user is not counted.
GetUncounted(R, ref) == R

Get(R, ref) == [R EXCEPT ![ref.index].refs = @ + 1]

\* lxp_region_put: the last reference frees the region under a new generation.
Put(R, ref) ==
    IF ~(Names(R, ref) /\ R[ref.index].refs # 0) THEN R
    ELSE IF R[ref.index].refs = 1
         THEN [R EXCEPT ![ref.index] =
                   [lease |-> NoRef, refs |-> 0, gen |-> GenNext(R[ref.index].gen)]]
         ELSE [R EXCEPT ![ref.index].refs = @ - 1]

LeaseMatches(R, ref, owner) ==
    Names(R, ref) /\ R[ref.index].refs = 1 /\ R[ref.index].lease = owner

ReleaseIfOwned(R, ref, owner) == IF LeaseMatches(R, ref, owner) THEN Put(R, ref) ELSE R

LeaseReassign(R, ref, old, new) ==
    IF LeaseMatches(R, ref, old) THEN [R EXCEPT ![ref.index].lease = new] ELSE R

\* lxp_region_commit_address_space: from here on the address space owns it.
CommitAddressSpace(R, ref, owner) ==
    IF Names(R, ref) /\ R[ref.index].refs # 0 /\ R[ref.index].lease = owner
    THEN [R EXCEPT ![ref.index].lease = NoRef] ELSE R

\* lxp_region_runtime_reset: generations persist.
RegionReset(R) == [r \in Regions |-> [lease |-> NoRef, refs |-> 0, gen |-> R[r].gen]]
=============================================================================
