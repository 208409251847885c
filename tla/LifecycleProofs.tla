-------------------------- MODULE LifecycleProofs ---------------------------
(***************************************************************************)
(* What the coordinator's primitives on the slot and region tables         *)
(* preserve, for every value of the constants; the inductive invariant of  *)
(* Lifecycle, and that the guests, the run bracket and the coordinator's   *)
(* handlers preserve it: its types, the accounting of its regions and the  *)
(* absence of native tasks under free slots.                               *)
(***************************************************************************)
EXTENDS Lifecycle, FiniteSetTheorems, TLAPS

\* The prover of every step that names none.
USE ZenonT(60)

\* What no native transition does to a slot: it neither creates nor ends the
\* process, leaves its address space and identity alone, never revokes an exit,
\* never revives the native task of a process that is on its way out, and never
\* gives a free slot a native task.
Keeps(p, q) ==
    /\ q.alive = p.alive
    /\ p.alive => /\ q.mm = p.mm /\ q.gen = p.gen /\ q.pid = p.pid /\ q.tgid = p.tgid
                  /\ p.intent \in Exits => q.intent \in Exits
                  /\ p.intent \in Exits /\ p.host \in {"DEAD", "FAILED"}
                       => q.host \in {"DEAD", "FAILED"}
    /\ ~p.alive /\ p.host \in {"FREE", "DEAD"} /\ ~p.runnable
         => q.host \in {"FREE", "DEAD"} /\ ~q.runnable

TableKeeps(P, Q) == \A s \in Slots : Keeps(P[s], Q[s])

\* A slot is free only when its native task is gone.
Quiet(P) ==
    \A s \in Slots : ~P[s].alive => P[s].host \in {"FREE", "DEAD"} /\ ~P[s].runnable

-----------------------------------------------------------------------------
(* Types.                                                                  *)

\* The wrapped counter stays in range and never returns the reserved zero.
LEMMA GenNextType ==
    ASSUME NEW g \in 0..GenMax
    PROVE  GenNext(g) \in 1..GenMax
BY TableAssumption, SMT DEF GenNext

\* lxp_slot_ref_at makes a slot reference to that slot, never the null reference.
LEMMA SlotRefAtType ==
    ASSUME NEW P \in SlotTables, NEW s \in Slots
    PROVE  /\ SlotRefAt(P, s) \in SlotRefs /\ SlotRefAt(P, s) # NoRef
           /\ SlotRefAt(P, s).index = s
<1>1. SlotRefAt(P, s) \in SlotRefs
  BY DEF SlotTables, SlotRecords, SlotRefAt, SlotRefs
<1>2. SlotRefAt(P, s).index = s
  BY DEF SlotRefAt
<1> QED BY <1>1, <1>2, SMT DEF NoRef, Slots

\* A region reference to a region of the table is a region reference.
LEMMA RegionRefAtType ==
    ASSUME NEW R \in RegionTables, NEW r \in Regions
    PROVE  RegionRefAt(R, r) \in RegionRefs
BY DEF RegionTables, RegionRefAt, RegionRefs

\* Clearing a record gives a record.
LEMMA ClearedType ==
    ASSUME NEW p \in SlotRecords
    PROVE  Cleared(p) \in SlotRecords
<1>1. NoWait \in Waits /\ NoRef \in RegionRefs /\ NoRef \in SlotRefs /\ 0 \in 0..MaxPid
  BY ChildAssumption, SMT DEF Waits, NoWait, RegionRefs, SlotRefs
<1> QED BY <1>1 DEF SlotRecords, Cleared, Intents

\* Replacing one record by another keeps the table a table.
LEMMA SlotUpdate ==
    ASSUME NEW P \in SlotTables, NEW s, NEW p \in SlotRecords
    PROVE  [P EXCEPT ![s] = p] \in SlotTables
BY DEF SlotTables

\* lxp_deferred_slot_reassign: the new generation is in range.
LEMMA ReassignType ==
    ASSUME NEW P \in SlotTables, NEW s \in Slots
    PROVE  Reassign(P, s) \in SlotTables
<1>1. P[s] \in SlotRecords
  BY DEF SlotTables
<1>2. GenNext(P[s].gen) \in 0..GenMax
  <2>1. P[s].gen \in 0..GenMax
    BY <1>1 DEF SlotRecords
  <2> QED BY <2>1, GenNextType, TableAssumption, SMT
<1>3. [P[s] EXCEPT !.gen = GenNext(@)] \in SlotRecords
  BY <1>1, <1>2 DEF SlotRecords
<1> QED BY <1>3, SlotUpdate DEF Reassign, SlotTables

\* lxp_coordinator_exit_slot only records the exit.
LEMMA ExitSlotType ==
    ASSUME NEW P \in SlotTables, NEW s \in Slots, NEW kind \in Exits
    PROVE  /\ ExitSlot(P, s, kind) \in SlotTables
           /\ TableKeeps(P, ExitSlot(P, s, kind))
<1>1. ExitSlot(P, s, kind) \in SlotTables
  BY SMT DEF ExitSlot, SlotTables, SlotRecords, Intents
<1>2. TableKeeps(P, ExitSlot(P, s, kind))
  BY SMT DEF ExitSlot, SlotTables, SlotRecords, TableKeeps, Keeps
<1> QED BY <1>1, <1>2

\* slot_transition_failed ends a live process and leaves a free slot alone.
LEMMA TransitionFailedType ==
    ASSUME NEW P \in SlotTables, NEW s \in Slots
    PROVE  /\ TransitionFailed(P, s) \in SlotTables
           /\ TableKeeps(P, TransitionFailed(P, s))
<1>1. TableKeeps(P, P)
  BY DEF TableKeeps, Keeps
<1> QED BY <1>1, ExitSlotType DEF TransitionFailed, Exits

-----------------------------------------------------------------------------
(* Native transitions keep types and Keeps.                                *)

\* A table keeps itself.
LEMMA KeepsSelf ==
    ASSUME NEW P
    PROVE  TableKeeps(P, P)
BY DEF TableKeeps, Keeps

\* Transitions compose.
LEMMA KeepsTrans ==
    ASSUME NEW P, NEW Q, NEW T, TableKeeps(P, Q), TableKeeps(Q, T)
    PROVE  TableKeeps(P, T)
BY SMT DEF TableKeeps, Keeps

\* lxp_coordinator_abort_slot of a live process.
LEMMA AbortSlotType ==
    ASSUME NEW P \in SlotTables, NEW s \in Slots, P[s].alive, NEW h
    PROVE  /\ AbortSlot(P, s, h) \in SlotTables
           /\ TableKeeps(P, AbortSlot(P, s, h))
<1> DEFINE F == [P EXCEPT ![s] = [@ EXCEPT !.host = "FAILED",
                                           !.runnable = (P[s].host = "RUNNING")]]
           D == [P EXCEPT ![s] = [@ EXCEPT !.host = "DEAD", !.runnable = FALSE]]
<1>1. P[s] \in SlotRecords
  BY DEF SlotTables
<1>2. F \in SlotTables /\ TableKeeps(P, F)
  <2>1. [P[s] EXCEPT !.host = "FAILED", !.runnable = (P[s].host = "RUNNING")] \in SlotRecords
    BY <1>1 DEF SlotRecords, Hosts
  <2>2. TableKeeps(P, F)
    BY <1>1 DEF SlotTables, SlotRecords, TableKeeps, Keeps
  <2> QED BY <2>1, <2>2, SlotUpdate
<1>3. D \in SlotTables /\ TableKeeps(P, D)
  <2>1. [P[s] EXCEPT !.host = "DEAD", !.runnable = FALSE] \in SlotRecords
    BY <1>1 DEF SlotRecords, Hosts
  <2>2. TableKeeps(P, D)
    BY <1>1 DEF SlotTables, SlotRecords, TableKeeps, Keeps
  <2> QED BY <2>1, <2>2, SlotUpdate
<1>4. TransitionFailed(F, s) \in SlotTables /\ TableKeeps(P, TransitionFailed(F, s))
  <2> HIDE DEF F
  <2> QED BY <1>2, TransitionFailedType, KeepsTrans
<1> QED BY <1>3, <1>4 DEF AbortSlot

\* A refused park or resume aborts a live task and ends it.
LEMMA AbortFailedType ==
    ASSUME NEW P \in SlotTables, NEW s \in Slots, P[s].alive, NEW h
    PROVE  /\ TransitionFailed(AbortSlot(P, s, h), s) \in SlotTables
           /\ TableKeeps(P, TransitionFailed(AbortSlot(P, s, h), s))
<1>1. AbortSlot(P, s, h) \in SlotTables /\ TableKeeps(P, AbortSlot(P, s, h))
  BY AbortSlotType
<1>2. /\ TransitionFailed(AbortSlot(P, s, h), s) \in SlotTables
      /\ TableKeeps(AbortSlot(P, s, h), TransitionFailed(AbortSlot(P, s, h), s))
  BY <1>1, TransitionFailedType
<1> QED BY <1>1, <1>2, KeepsTrans

\* A quiet table has a native task only under a live process.
LEMMA ParkSlotType ==
    ASSUME NEW P \in SlotTables, Quiet(P), NEW s \in Slots, NEW h
    PROVE  /\ ParkSlot(P, s, h) \in SlotTables
           /\ TableKeeps(P, ParkSlot(P, s, h))
<1> DEFINE K == [P EXCEPT ![s] = [@ EXCEPT !.host = "PARKED", !.runnable = FALSE]]
<1>1. P[s] \in SlotRecords
  BY DEF SlotTables
<1>2. ASSUME P[s].host = "RUNNING"
      PROVE  K \in SlotTables /\ TableKeeps(P, K)
  <2>1. [P[s] EXCEPT !.host = "PARKED", !.runnable = FALSE] \in SlotRecords
    BY <1>1 DEF SlotRecords, Hosts
  <2>2. TableKeeps(P, K)
    BY <1>1, <1>2 DEF SlotTables, SlotRecords, TableKeeps, Keeps, Quiet
  <2> QED BY <2>1, <2>2, SlotUpdate
<1>3. P[s].host = "RUNNING" => P[s].alive
  BY DEF Quiet
<1> QED BY <1>2, <1>3, AbortFailedType, TransitionFailedType, KeepsSelf DEF ParkSlot

\* lxp_coordinator_resume_slot starts only a live task that is not to exit.
LEMMA ResumeSlotType ==
    ASSUME NEW P \in SlotTables, NEW s \in Slots, NEW h
    PROVE  /\ ResumeSlot(P, s, h) \in SlotTables
           /\ TableKeeps(P, ResumeSlot(P, s, h))
<1> DEFINE K == [P EXCEPT ![s] = [@ EXCEPT !.host = "RUNNING", !.runnable = TRUE]]
<1>1. P[s] \in SlotRecords
  BY DEF SlotTables
<1>2. ASSUME CanResume(P, s)
      PROVE  K \in SlotTables /\ TableKeeps(P, K)
  <2>1. [P[s] EXCEPT !.host = "RUNNING", !.runnable = TRUE] \in SlotRecords
    BY <1>1 DEF SlotRecords, Hosts
  <2>2. TableKeeps(P, K)
    BY <1>1, <1>2 DEF SlotTables, SlotRecords, TableKeeps, Keeps, CanResume
  <2> QED BY <2>1, <2>2, SlotUpdate
<1> QED BY <1>2, AbortFailedType, KeepsSelf DEF ResumeSlot, CanResume

\* lxp_coordinator_complete_slot, whether it resumes or keeps the result.
LEMMA CompleteSlotType ==
    ASSUME NEW P \in SlotTables, NEW ref, NEW h
    PROVE  /\ CompleteSlot(P, ref, h) \in SlotTables
           /\ TableKeeps(P, CompleteSlot(P, ref, h))
<1> DEFINE K == [P EXCEPT ![ref.index].stop = "READY"]
<1>1. CASE IsCurrent(P, ref)
  <2>1. ref.index \in Slots
    BY <1>1 DEF IsCurrent
  <2>2. K \in SlotTables
    BY <2>1, SMT DEF SlotTables, SlotRecords
  <2>3. TableKeeps(P, K)
    BY <2>1, SMT DEF SlotTables, SlotRecords, TableKeeps, Keeps
  <2> QED BY <2>1, <2>2, <2>3, ResumeSlotType, KeepsSelf DEF CompleteSlot
<1>2. CASE ~IsCurrent(P, ref)
  BY <1>2, KeepsSelf DEF CompleteSlot
<1> QED BY <1>1, <1>2

\* A table that keeps a quiet table is quiet.
LEMMA KeepsQuiet ==
    ASSUME NEW P, NEW Q, TableKeeps(P, Q), Quiet(P)
    PROVE  Quiet(Q)
BY SMT DEF TableKeeps, Keeps, Quiet

\* An update of the record of slot s that is a native transition or a change of
\* what Keeps does not speak of.
LEMMA SlotStep ==
    ASSUME NEW P \in SlotTables, NEW s \in Slots, NEW p \in SlotRecords, Keeps(P[s], p)
    PROVE  /\ [P EXCEPT ![s] = p] \in SlotTables
           /\ TableKeeps(P, [P EXCEPT ![s] = p])
<1>1. TableKeeps(P, [P EXCEPT ![s] = p])
  BY KeepsSelf DEF TableKeeps, SlotTables
<1> QED BY <1>1, SlotUpdate

\* child_event_publish on its parent task.
LEMMA ChildSlotsType ==
    ASSUME NEW P \in SlotTables, Quiet(P), NEW t, NEW ev, NEW h
    PROVE  /\ ChildSlots(P, t, ev, h) \in SlotTables
           /\ TableKeeps(P, ChildSlots(P, t, ev, h))
<1>1. CASE t \in Slots /\ Accepts(P[t], ev)
  <2> DEFINE W == [P EXCEPT ![t].wait = NoWait]
             Q == ParkSlot(W, t, h)
  <2>1. W \in SlotTables /\ TableKeeps(P, W)
    <3>1. NoWait \in Waits
      BY ChildAssumption, SMT DEF NoWait, Waits
    <3> DEFINE p == [P[t] EXCEPT !.wait = NoWait]
    <3>2. P[t] \in SlotRecords /\ W = [P EXCEPT ![t] = p]
      BY <1>1 DEF SlotTables
    <3>3. p \in SlotRecords /\ Keeps(P[t], p)
      BY <3>1, <3>2 DEF SlotRecords, Keeps
    <3> HIDE DEF p, W
    <3> QED BY <1>1, <3>2, <3>3, SlotStep
  <2> HIDE DEF W
  <2>2. Quiet(W)
    BY <2>1, KeepsQuiet
  <2>3. Q \in SlotTables /\ TableKeeps(W, Q)
    BY <1>1, <2>1, <2>2, ParkSlotType
  <2> HIDE DEF Q
  <2> DEFINE C == CompleteSlot(Q, SlotRefAt(Q, t), h)
  <2>4. C \in SlotTables /\ TableKeeps(Q, C)
    BY <2>3, CompleteSlotType
  <2>5. ChildSlots(P, t, ev, h) = C
    BY <1>1 DEF ChildSlots, W, Q
  <2> HIDE DEF C
  <2>6. TableKeeps(P, Q)
    BY <2>1, <2>3, KeepsTrans
  <2>7. TableKeeps(P, C)
    BY <2>4, <2>6, KeepsTrans
  <2> QED BY <2>4, <2>5, <2>7
<1>2. CASE ~(t \in Slots /\ Accepts(P[t], ev))
  BY <1>2, KeepsSelf DEF ChildSlots
<1> QED BY <1>1, <1>2

\* The queue of the parent grows by an event at most.
LEMMA NotifiedType ==
    ASSUME NEW grp \in Groups, NEW ev \in Events, NEW accepted
    PROVE  Notified(grp, ev, accepted) \in Groups
<1> DEFINE kids == IF ev.kind = "EXITED" /\ grp.kids > 0 THEN grp.kids - 1 ELSE grp.kids
           queue == IF ~accepted /\ Len(grp.queue) < MAX_CHILD
                    THEN Append(grp.queue, ev) ELSE grp.queue
<1>1. queue \in Seq(Events)
  BY SMT DEF Groups
<1>2. kids \in Nat
  BY SMT DEF Groups
<1>3. Notified(grp, ev, accepted) = [grp EXCEPT !.kids = kids, !.queue = queue]
  BY DEF Notified, Groups
<1> HIDE DEF kids, queue
<1> QED BY <1>1, <1>2, <1>3 DEF Groups

\* child_event_publish on the groups.
LEMMA ChildGroupsType ==
    ASSUME NEW P, NEW G \in GroupTables, NEW t, NEW ev \in Events
    PROVE  ChildGroups(P, G, t, ev) \in GroupTables
BY NotifiedType DEF ChildGroups, GroupTables

\* The cleared thread group is a thread group.
LEMMA NoGroupType == NoGroup \in Groups
BY ChildAssumption, SMT DEF NoGroup, Groups

\* lxp_proc_group_put clears a group at most.
LEMMA GroupPutType ==
    ASSUME NEW P, NEW G \in GroupTables, NEW g
    PROVE  GroupPut(P, G, g) \in GroupTables
BY NoGroupType DEF GroupPut, GroupTables

-----------------------------------------------------------------------------
(* Region operations: types.                                               *)

\* Replacing an entry of the region table by another one.
LEMMA RegionUpdate ==
    ASSUME NEW R \in RegionTables, NEW r,
           NEW lease \in SlotRefs, NEW refs \in 0..NSLOT, NEW gen \in 0..GenMax
    PROVE  [R EXCEPT ![r] = [lease |-> lease, refs |-> refs, gen |-> gen]] \in RegionTables
BY DEF RegionTables

\* lxp_region_reserve keeps the table a table.
LEMMA ReserveType ==
    ASSUME NEW R \in RegionTables, NEW r \in Regions, NEW owner \in SlotRefs
    PROVE  Reserve(R, r, owner) \in RegionTables
<1>1. R[r].gen \in 0..GenMax
  BY DEF RegionTables
<1>2. GenNext(R[r].gen) \in 0..GenMax
  BY <1>1, GenNextType, TableAssumption, SMT
<1>3. 1 \in 0..NSLOT
  BY TableAssumption, SMT
<1> QED BY <1>2, <1>3, RegionUpdate DEF Reserve

\* lxp_region_get: the guard keeps the count within the number of slots.
LEMMA GetType ==
    ASSUME NEW R \in RegionTables, NEW ref, CanGet(R, ref)
    PROVE  Get(R, ref) \in RegionTables
<1>1. ref.index \in Regions /\ R[ref.index].refs + 1 \in 0..NSLOT
  BY TableAssumption, SMT DEF CanGet, Names
<1> QED BY <1>1 DEF Get, RegionTables

\* lxp_region_put never takes the count below zero.
LEMMA PutType ==
    ASSUME NEW R \in RegionTables, NEW ref
    PROVE  Put(R, ref) \in RegionTables
<1>1. CASE ~(Names(R, ref) /\ R[ref.index].refs # 0)
  BY <1>1 DEF Put
<1>2. CASE Names(R, ref) /\ R[ref.index].refs # 0
  <2>1. ref.index \in Regions /\ R[ref.index].gen \in 0..GenMax /\ R[ref.index].refs \in 0..NSLOT
    BY <1>2 DEF Names, RegionTables
  <2>2. GenNext(R[ref.index].gen) \in 0..GenMax
    BY <2>1, GenNextType, TableAssumption, SMT
  <2>3. NoRef \in SlotRefs /\ 0 \in 0..NSLOT
    BY TableAssumption, SMT DEF SlotRefs
  <2>4. [R EXCEPT ![ref.index] =
           [lease |-> NoRef, refs |-> 0, gen |-> GenNext(R[ref.index].gen)]] \in RegionTables
    BY <2>2, <2>3, RegionUpdate
  <2>5. R[ref.index].refs - 1 \in 0..NSLOT
    BY <1>2, <2>1, TableAssumption, SMT
  <2>6. [R EXCEPT ![ref.index].refs = @ - 1] \in RegionTables
    BY <2>1, <2>5 DEF RegionTables
  <2> QED BY <1>2, <2>4, <2>6 DEF Put
<1> QED BY <1>1, <1>2

\* lxp_region_release_if_owned keeps the table a table.
LEMMA ReleaseType ==
    ASSUME NEW R \in RegionTables, NEW ref, NEW owner
    PROVE  ReleaseIfOwned(R, ref, owner) \in RegionTables
BY PutType DEF ReleaseIfOwned

\* lxp_region_lease_reassign keeps the table a table.
LEMMA LeaseReassignType ==
    ASSUME NEW R \in RegionTables, NEW ref, NEW old, NEW new \in SlotRefs
    PROVE  LeaseReassign(R, ref, old, new) \in RegionTables
BY DEF LeaseReassign, LeaseMatches, Names, RegionTables

\* lxp_region_commit_address_space keeps the table a table.
LEMMA CommitType ==
    ASSUME NEW R \in RegionTables, NEW ref, NEW owner
    PROVE  CommitAddressSpace(R, ref, owner) \in RegionTables
BY DEF CommitAddressSpace, Names, RegionTables, SlotRefs

\* lxp_region_runtime_reset keeps the table a table.
LEMMA ResetType ==
    ASSUME NEW R \in RegionTables
    PROVE  RegionReset(R) \in RegionTables
BY TableAssumption, SMT DEF RegionReset, RegionTables, SlotRefs

-----------------------------------------------------------------------------
(* Region operations: accounting.                                          *)

\* Region r of R is accounted for by the slots of P: see RegionAccounting of
\* module Lifecycle.  A region in use has a generation that can be named.
RegionOk(P, R, r) ==
    /\ \A s \in RegionUsers(P, r) : P[s].mm = RegionRefAt(R, r)
    /\ R[r].refs # 0 => R[r].gen # 0
    /\ IF R[r].lease = NoRef
       THEN R[r].refs = Cardinality(RegionUsers(P, r))
       ELSE R[r].refs = 1 /\ RegionUsers(P, r) \subseteq {R[r].lease.index}

RegionsOk(P, R) == \A r \in Regions : RegionOk(P, R, r)

\* P and Q have the same tasks in the same address spaces, slot s apart.
SameButFor(P, Q, s) ==
    \A t \in Slots \ {s} : Q[t].alive = P[t].alive /\ Q[t].mm = P[t].mm

\* The tasks of a region can be counted.
LEMMA UsersFinite ==
    ASSUME NEW P, NEW r
    PROVE  /\ IsFiniteSet(RegionUsers(P, r))
           /\ Cardinality(RegionUsers(P, r)) \in Nat
<1>1. IsFiniteSet(Slots)
  BY FS_Interval, TableAssumption, SMT DEF Slots
<1>2. RegionUsers(P, r) \in SUBSET Slots
  BY DEF RegionUsers
<1>3. IsFiniteSet(RegionUsers(P, r))
  BY <1>1, <1>2, FS_Subset
<1> QED BY <1>3, FS_CardinalityType

\* Only the users of a region and its entry matter.
LEMMA RegionOkSame ==
    ASSUME NEW P, NEW Q, NEW R, NEW T, NEW r, RegionOk(P, R, r), T[r] = R[r],
           RegionUsers(Q, r) = RegionUsers(P, r),
           \A s \in RegionUsers(P, r) : Q[s].mm = P[s].mm
    PROVE  RegionOk(Q, T, r)
BY DEF RegionOk, RegionRefAt

\* A step that starts no task, ends none and moves none.
LEMMA RegionsOkSame ==
    ASSUME NEW P, NEW Q, NEW R, RegionsOk(P, R),
           \A s \in Slots : Q[s].alive = P[s].alive /\ (P[s].alive => Q[s].mm = P[s].mm)
    PROVE  RegionsOk(Q, R)
<1>1. ASSUME NEW r \in Regions
      PROVE  RegionOk(Q, R, r)
  <2>1. RegionUsers(Q, r) = RegionUsers(P, r)
    BY DEF RegionUsers
  <2>2. \A s \in RegionUsers(P, r) : Q[s].mm = P[s].mm
    BY DEF RegionUsers
  <2> QED BY <2>1, <2>2, RegionOkSame DEF RegionsOk
<1> QED BY <1>1 DEF RegionsOk

\* lxp_proc_mm_put: a task leaves its region.
LEMMA RegionsOkPut ==
    ASSUME NEW P \in SlotTables, NEW R \in RegionTables, NEW Q, NEW s \in Slots,
           RegionsOk(P, R), P[s].alive, ~Q[s].alive, SameButFor(P, Q, s)
    PROVE  RegionsOk(Q, Put(R, P[s].mm))
<1> DEFINE x == P[s].mm.index
           T == Put(R, P[s].mm)
<1> HIDE DEF T
<1>1. ASSUME NEW r \in Regions, r # x
      PROVE  RegionOk(Q, T, r)
  <2>1. T[r] = R[r]
    BY <1>1 DEF T, Put, RegionTables
  <2>2. RegionUsers(Q, r) = RegionUsers(P, r)
    BY <1>1 DEF RegionUsers, SameButFor
  <2>3. \A t \in RegionUsers(P, r) : Q[t].mm = P[t].mm
    BY <1>1 DEF RegionUsers, SameButFor
  <2> QED BY <2>1, <2>2, <2>3, RegionOkSame DEF RegionsOk
<1>2. ASSUME x \in Regions
      PROVE  RegionOk(Q, T, x)
  <2> DEFINE U == RegionUsers(P, x)
             V == RegionUsers(Q, x)
  <2>1. s \in U /\ V = U \ {s}
    BY <1>2 DEF RegionUsers, SameButFor
  <2>2. RegionOk(P, R, x) /\ IsFiniteSet(U) /\ Cardinality(U) \in Nat
    BY <1>2, UsersFinite DEF RegionsOk
  <2>3. Cardinality(V) = Cardinality(U) - 1 /\ IsFiniteSet(V)
    BY <2>1, <2>2, FS_RemoveElement, SMT
  <2>4. Cardinality(U) # 0
    BY <2>1, <2>2, FS_EmptySet
  <2>5. R[x].refs # 0
    BY <2>2, <2>4, SMT DEF RegionOk
  <2>6. Names(R, P[s].mm)
    <3> DEFINE m == P[s].mm
    <3>1. m = RegionRefAt(R, x) /\ x \in Regions /\ R[x].gen # 0
      BY <1>2, <2>1, <2>2, <2>5 DEF RegionOk
    <3> HIDE DEF x, m
    <3>2. Names(R, m)
      BY <3>1 DEF Names, RegionRefAt
    <3> QED BY <3>2 DEF m
  <2>7. \A t \in V : Q[t].mm = P[t].mm /\ P[t].mm = RegionRefAt(R, x)
    BY <2>1, <2>2 DEF RegionOk, SameButFor, RegionUsers
  <2>8. CASE R[x].refs = 1
    <3>1. V = {}
      <4>1. CASE R[x].lease = NoRef
        BY <2>2, <2>3, <2>8, <4>1, FS_EmptySet, SMT DEF RegionOk
      <4>2. CASE R[x].lease # NoRef
        BY <2>1, <2>2, <4>2 DEF RegionOk
      <4> QED BY <4>1, <4>2
    <3>2. T[x] = [lease |-> NoRef, refs |-> 0, gen |-> GenNext(R[x].gen)]
      BY <1>2, <2>6, <2>8, SMT DEF T, Put, RegionTables
    <3> QED BY <3>1, <3>2, FS_EmptySet, SMT DEF RegionOk
  <2>9. CASE R[x].refs # 1
    <3>1. R[x].lease = NoRef
      BY <2>2, <2>9 DEF RegionOk
    <3>2. T[x] = [R[x] EXCEPT !.refs = @ - 1]
      BY <1>2, <2>5, <2>6, <2>9 DEF T, Put, RegionTables
    <3>3. T[x].lease = NoRef /\ T[x].refs = R[x].refs - 1 /\ T[x].gen = R[x].gen
      BY <1>2, <3>1, <3>2, SMT DEF RegionTables
    <3> HIDE DEF x
    <3> QED BY <2>2, <2>3, <2>5, <2>7, <3>1, <3>3 DEF RegionOk, RegionRefAt
  <2> QED BY <2>8, <2>9
<1> QED BY <1>1, <1>2 DEF RegionsOk, T

\* lxp_region_get: a new task joins the region.
LEMMA RegionsOkGet ==
    ASSUME NEW P \in SlotTables, NEW R \in RegionTables, NEW Q, NEW c \in Slots,
           NEW ref \in RegionRefs, RegionsOk(P, R), CanGet(R, ref),
           ~P[c].alive, Q[c].alive, Q[c].mm = ref, SameButFor(P, Q, c)
    PROVE  RegionsOk(Q, Get(R, ref))
<1> DEFINE x == ref.index
           T == Get(R, ref)
<1>1. ASSUME NEW r \in Regions, r # x
      PROVE  RegionOk(Q, T, r)
  <2>1. T[r] = R[r]
    BY <1>1 DEF Get, RegionTables
  <2>2. RegionUsers(Q, r) = RegionUsers(P, r)
    BY <1>1 DEF RegionUsers, SameButFor
  <2>3. \A t \in RegionUsers(P, r) : Q[t].mm = P[t].mm
    BY DEF RegionUsers, SameButFor
  <2> QED BY <2>1, <2>2, <2>3, RegionOkSame DEF RegionsOk
<1>2. RegionOk(Q, T, x)
  <2> DEFINE U == RegionUsers(P, x)
             V == RegionUsers(Q, x)
  <2>0. x \in Regions /\ ref.gen # 0 /\ R[x].gen = ref.gen /\ R[x].lease = NoRef
    BY DEF CanGet, Names
  <2>1. c \notin U /\ V = U \cup {c}
    BY DEF RegionUsers, SameButFor
  <2>2. RegionOk(P, R, x) /\ IsFiniteSet(U) /\ Cardinality(U) \in Nat
    BY <2>0, UsersFinite DEF RegionsOk
  <2>3. Cardinality(V) = Cardinality(U) + 1
    BY <2>1, <2>2, FS_AddElement
  <2>4. T[x].lease = NoRef /\ T[x].refs = R[x].refs + 1 /\ T[x].gen = R[x].gen
    BY <2>0 DEF Get, RegionTables
  <2>5. ref = RegionRefAt(R, x)
    BY <2>0 DEF RegionRefs, RegionRefAt, NoRef, Regions
  <2>6. \A t \in V : Q[t].mm = RegionRefAt(R, x)
    BY <2>1, <2>2, <2>5 DEF RegionOk, SameButFor, RegionUsers
  <2>7. R[x].refs = Cardinality(U)
    BY <2>0, <2>2 DEF RegionOk
  <2> HIDE DEF T, x
  <2> QED BY <2>0, <2>3, <2>4, <2>6, <2>7 DEF RegionOk, RegionRefAt
<1> QED BY <1>1, <1>2 DEF RegionsOk

\* lxp_region_reserve of a free region.
LEMMA RegionsOkReserve ==
    ASSUME NEW P \in SlotTables, NEW R \in RegionTables, NEW r \in Regions,
           NEW owner, owner # NoRef, RegionsOk(P, R), RegionFree(P, R, r)
    PROVE  /\ RegionsOk(P, Reserve(R, r, owner))
           /\ LeaseMatches(Reserve(R, r, owner), [index |-> r, gen |-> GenNext(R[r].gen)], owner)
<1> DEFINE T == Reserve(R, r, owner)
<1>1. GenNext(R[r].gen) # 0
  <2>1. R[r].gen \in 0..GenMax
    BY DEF RegionTables
  <2> QED BY <2>1, GenNextType, TableAssumption, SMT
<1>2. T[r] = [lease |-> owner, refs |-> 1, gen |-> GenNext(R[r].gen)]
  BY DEF Reserve, RegionTables
<1>3. RegionUsers(P, r) = {}
  BY DEF RegionFree
<1>4. RegionOk(P, T, r)
  BY <1>1, <1>2, <1>3, SMT DEF RegionOk
<1>5. ASSUME NEW q \in Regions, q # r
      PROVE  RegionOk(P, T, q)
  <2>1. T[q] = R[q]
    BY <1>5 DEF Reserve, RegionTables
  <2> QED BY <2>1, RegionOkSame DEF RegionsOk
<1>6. RegionsOk(P, T)
  BY <1>4, <1>5 DEF RegionsOk
<1>7. LeaseMatches(T, [index |-> r, gen |-> GenNext(R[r].gen)], owner)
  BY <1>1, <1>2, SMT DEF LeaseMatches, Names
<1> QED BY <1>6, <1>7

\* lxp_region_release_if_owned, when no task runs in the region.
LEMMA RegionsOkRelease ==
    ASSUME NEW P \in SlotTables, NEW R \in RegionTables, NEW ref, NEW owner,
           RegionsOk(P, R),
           LeaseMatches(R, ref, owner) => RegionUsers(P, ref.index) = {}
    PROVE  RegionsOk(P, ReleaseIfOwned(R, ref, owner))
<1> DEFINE x == ref.index
           T == Put(R, ref)
<1>1. CASE LeaseMatches(R, ref, owner)
  <2>1. x \in Regions /\ Names(R, ref) /\ R[x].refs = 1
    BY <1>1 DEF LeaseMatches, Names
  <2>2. T = [R EXCEPT ![x] = [lease |-> NoRef, refs |-> 0, gen |-> GenNext(R[x].gen)]]
    BY <2>1, SMT DEF Put
  <2>3. RegionOk(P, T, x)
    <3>1. T[x] = [lease |-> NoRef, refs |-> 0, gen |-> GenNext(R[x].gen)]
      BY <2>1, <2>2 DEF RegionTables
    <3>2. RegionUsers(P, x) = {}
      BY <1>1
    <3> QED BY <3>1, <3>2, FS_EmptySet, SMT DEF RegionOk
  <2>4. ASSUME NEW r \in Regions, r # x
        PROVE  RegionOk(P, T, r)
    <3>1. T[r] = R[r]
      BY <2>2, <2>4 DEF RegionTables
    <3> QED BY <3>1, RegionOkSame DEF RegionsOk
  <2> QED BY <1>1, <2>3, <2>4 DEF RegionsOk, ReleaseIfOwned
<1>2. CASE ~LeaseMatches(R, ref, owner)
  BY <1>2 DEF ReleaseIfOwned
<1> QED BY <1>1, <1>2

\* lxp_region_lease_reassign, when no task runs in the region.
LEMMA RegionsOkLease ==
    ASSUME NEW P \in SlotTables, NEW R \in RegionTables, NEW ref, NEW old, NEW new,
           old # NoRef, new # NoRef, RegionsOk(P, R), LeaseMatches(R, ref, old),
           RegionUsers(P, ref.index) = {}
    PROVE  /\ RegionsOk(P, LeaseReassign(R, ref, old, new))
           /\ LeaseMatches(LeaseReassign(R, ref, old, new), ref, new)
<1> DEFINE x == ref.index
           T == LeaseReassign(R, ref, old, new)
<1>1. x \in Regions /\ ref.gen # 0 /\ R[x].gen = ref.gen /\ R[x].refs = 1 /\ R[x].lease = old
  BY DEF LeaseMatches, Names
<1>2. T = [R EXCEPT ![x].lease = new]
  BY DEF LeaseReassign
<1>3. T[x].lease = new /\ T[x].refs = 1 /\ T[x].gen = ref.gen
  BY <1>1, <1>2, SMT DEF RegionTables
<1>4. RegionOk(P, T, x)
  BY <1>1, <1>3 DEF RegionOk
<1>5. ASSUME NEW r \in Regions, r # x
      PROVE  RegionOk(P, T, r)
  <2>1. T[r] = R[r]
    BY <1>2, <1>5 DEF RegionTables
  <2> QED BY <2>1, RegionOkSame DEF RegionsOk
<1>6. LeaseMatches(T, ref, new)
  BY <1>1, <1>3 DEF LeaseMatches, Names
<1> QED BY <1>4, <1>5, <1>6 DEF RegionsOk

\* lxp_region_commit_address_space: the task moves in and the lease ends.
LEMMA RegionsOkCommit ==
    ASSUME NEW P \in SlotTables, NEW R \in RegionTables, NEW Q, NEW s \in Slots,
           NEW ref \in RegionRefs, NEW owner, RegionsOk(P, R), LeaseMatches(R, ref, owner),
           RegionUsers(P, ref.index) = {}, ~P[s].alive,
           Q[s].alive, Q[s].mm = ref, SameButFor(P, Q, s)
    PROVE  RegionsOk(Q, CommitAddressSpace(R, ref, owner))
<1> DEFINE x == ref.index
           T == CommitAddressSpace(R, ref, owner)
<1>1. x \in Regions /\ ref.gen # 0 /\ R[x].gen = ref.gen /\ R[x].refs = 1 /\ R[x].lease = owner
  BY DEF LeaseMatches, Names
<1>2. T = [R EXCEPT ![x].lease = NoRef]
  BY <1>1, SMT DEF CommitAddressSpace, Names
<1>3. T[x].lease = NoRef /\ T[x].refs = 1 /\ T[x].gen = ref.gen
  BY <1>1, <1>2, SMT DEF RegionTables
<1>4. RegionUsers(Q, x) = {s}
  BY SMT DEF RegionUsers, SameButFor
<1>5. ref = RegionRefAt(T, x)
  BY <1>1, <1>3 DEF RegionRefs, RegionRefAt, NoRef, Regions
<1>6. RegionOk(Q, T, x)
  BY <1>1, <1>3, <1>4, <1>5, FS_Singleton DEF RegionOk
<1>7. ASSUME NEW r \in Regions, r # x
      PROVE  RegionOk(Q, T, r)
  <2>1. T[r] = R[r]
    BY <1>2, <1>7 DEF RegionTables
  <2>2. RegionUsers(Q, r) = RegionUsers(P, r)
    BY <1>7 DEF RegionUsers, SameButFor
  <2>3. \A t \in RegionUsers(P, r) : Q[t].mm = P[t].mm
    BY DEF RegionUsers, SameButFor
  <2> QED BY <2>1, <2>2, <2>3, RegionOkSame DEF RegionsOk
<1> QED BY <1>6, <1>7 DEF RegionsOk

\* A task published in a region it still leases.
LEMMA RegionsOkStuck ==
    ASSUME NEW P \in SlotTables, NEW R \in RegionTables, NEW Q, NEW s \in Slots,
           NEW ref \in RegionRefs, NEW owner, RegionsOk(P, R), LeaseMatches(R, ref, owner),
           owner # NoRef, owner.index = s,
           RegionUsers(P, ref.index) = {}, ~P[s].alive,
           Q[s].alive, Q[s].mm = ref, SameButFor(P, Q, s)
    PROVE  RegionsOk(Q, R)
<1> DEFINE x == ref.index
<1>1. x \in Regions /\ ref.gen # 0 /\ R[x].gen = ref.gen /\ R[x].refs = 1 /\ R[x].lease = owner
  BY DEF LeaseMatches, Names
<1>2. RegionUsers(Q, x) = {s}
  BY SMT DEF RegionUsers, SameButFor
<1>3. ref = RegionRefAt(R, x)
  BY <1>1 DEF RegionRefs, RegionRefAt, NoRef, Regions
<1>4. RegionOk(Q, R, x)
  BY <1>1, <1>2, <1>3 DEF RegionOk
<1>5. ASSUME NEW r \in Regions, r # x
      PROVE  RegionOk(Q, R, r)
  <2>1. RegionUsers(Q, r) = RegionUsers(P, r)
    BY <1>5, SMT DEF RegionUsers, SameButFor
  <2>2. \A t \in RegionUsers(P, r) : Q[t].mm = P[t].mm
    BY DEF RegionUsers, SameButFor
  <2> QED BY <2>1, <2>2, RegionOkSame DEF RegionsOk
<1> QED BY <1>4, <1>5 DEF RegionsOk

-----------------------------------------------------------------------------
(* The inductive invariant.                                                *)

\* A task that runs in a region still leased is a published image whose launch
\* failed: it is on its way out and its native task will not run again.
LeasedUserEnds(P, R) ==
    \A s \in Slots :
      P[s].alive /\ P[s].mm.index \in Regions /\ R[P[s].mm.index].lease # NoRef
        => P[s].intent \in Exits /\ P[s].host \in {"DEAD", "FAILED"}

Sound(P, R) == RegionsOk(P, R) /\ Quiet(P) /\ LeasedUserEnds(P, R)

UsedTypes == [fork : Nat, exec : Nat, sig : Nat, fail : Nat, halt : Nat, run : Nat]

IInv == TypeOK /\ Sound(slots, reg)

-----------------------------------------------------------------------------

\* A native transition keeps a sound pair of tables sound.
LEMMA SoundKeeps ==
    ASSUME NEW P \in SlotTables, NEW Q, NEW R, Sound(P, R), TableKeeps(P, Q)
    PROVE  Sound(Q, R)
<1>1. \A s \in Slots : Q[s].alive = P[s].alive /\ (P[s].alive => Q[s].mm = P[s].mm)
  BY DEF TableKeeps, Keeps
<1>2. RegionsOk(Q, R)
  BY <1>1, RegionsOkSame, SMT DEF Sound
<1>3. Quiet(Q)
  BY KeepsQuiet DEF Sound
<1>4. LeasedUserEnds(Q, R)
  BY DEF Sound, LeasedUserEnds, TableKeeps, Keeps
<1> QED BY <1>2, <1>3, <1>4 DEF Sound

\* Finitely many callbacks fail in a step.
LEMMA OracleFinite ==
    ASSUME NEW h \in Oracles
    PROVE  Cardinality(h) \in Nat
<1>1. IsFiniteSet(Slots)
  BY FS_Interval, TableAssumption, SMT DEF Slots
<1>2. IsFiniteSet({"park", "start", "abort"})
  <2>1. {"park", "start", "abort"} = ({"park"} \cup {"start"}) \cup {"abort"}
    OBVIOUS
  <2>2. IsFiniteSet({"park"} \cup {"start"})
    BY FS_Singleton, FS_AddElement
  <2> QED BY <2>1, <2>2, FS_AddElement, SMT
<1>3. IsFiniteSet(Faults)
  BY <1>1, <1>2, FS_Product DEF Faults
<1>4. h \in SUBSET Faults
  <2>1. PICK q \in [1 .. MaxFail - used.fail -> Faults \cup {NoFault}] :
               h = {q[i] : i \in 1 .. MaxFail - used.fail} \ {NoFault}
    BY DEF Oracles
  <2> QED BY <2>1
<1> QED BY <1>3, <1>4, FS_Subset, FS_CardinalityType

\* Counting the failures of a step keeps the bounds typed.
LEMMA FailedType ==
    ASSUME used \in UsedTypes, NEW h \in Oracles, NEW n \in Nat, Failed(h, n)
    PROVE  used' \in UsedTypes
<1>1. used.fail + Cardinality(h) + n \in Nat
  BY OracleFinite, SMT DEF UsedTypes
<1> QED BY <1>1 DEF Failed, UsedTypes

\* A step that only makes native transitions.
LEMMA NativeStep ==
    ASSUME IInv, slots' \in SlotTables, TableKeeps(slots, slots'), used' \in UsedTypes,
           groups' \in GroupTables, UNCHANGED <<phase, reg, guard, mem, saved, nextPid>>
    PROVE  IInv'
<1>1. TypeOK'
  BY DEF IInv, TypeOK, UsedTypes
<1>2. Sound(slots', reg')
  BY SoundKeeps DEF IInv, TypeOK
<1> QED BY <1>1, <1>2 DEF IInv

-----------------------------------------------------------------------------
\* Nothing runs and nothing is reserved before the first lxp_run.
LEMMA InitIInv == Init => IInv
<1> SUFFICES ASSUME Init PROVE IInv
  OBVIOUS
<1> DEFINE rec == [alive |-> FALSE, gen |-> 0, host |-> "FREE", runnable |-> FALSE,
                   intent |-> "NONE", wait |-> NoWait, stop |-> "NONE", pend |-> {},
                   pid |-> 0, tgid |-> 0, mm |-> NoRef, vpar |-> NoRef, snap |-> NoRef]
<1>1. rec \in SlotRecords
  <2>1. /\ NoWait \in Waits /\ NoRef \in RegionRefs /\ NoRef \in SlotRefs
        /\ 0 \in 0..MaxPid /\ 0 \in 0..GenMax
    BY ChildAssumption, TableAssumption, SMT DEF Waits, NoWait, RegionRefs, SlotRefs
  <2> QED BY <2>1 DEF SlotRecords, Hosts, Intents
<1>3. \A s \in Slots : slots[s] = rec
  BY DEF Init
<1>4. slots \in SlotTables
  BY <1>1 DEF Init, SlotTables
<1>5. reg \in RegionTables /\ guard \in [Slots -> Guards] /\ groups \in GroupTables
  BY NoGroupType, TableAssumption, SMT DEF Init, RegionTables, SlotRefs, Guards, RegionRefs,
     NoGuard, GroupTables
<1>6. TypeOK
  BY <1>4, <1>5, ChildAssumption, SMT DEF Init, TypeOK
<1>7. RegionsOk(slots, reg)
  <2>1. \A r \in Regions : RegionUsers(slots, r) = {}
    BY <1>3, SMT DEF RegionUsers
  <2> QED BY <2>1, FS_EmptySet DEF Init, RegionsOk, RegionOk
<1>8. Quiet(slots) /\ LeasedUserEnds(slots, reg)
  BY <1>3, SMT DEF Quiet, LeasedUserEnds
<1> QED BY <1>6, <1>7, <1>8 DEF IInv, Sound

-----------------------------------------------------------------------------
(* Guest steps.                                                            *)

\* lxp_execute_deferred parks a task that is in user mode.
LEMMA ParkedType ==
    ASSUME IInv, NEW s \in Slots, UserMode(s)
    PROVE  Parked(s) \in SlotTables /\ TableKeeps(slots, Parked(s))
<1> DEFINE p == [slots[s] EXCEPT !.host = "PARKED", !.runnable = FALSE]
<1>1. slots \in SlotTables /\ slots[s] \in SlotRecords
  BY DEF IInv, TypeOK, SlotTables
<1>2. p \in SlotRecords
  BY <1>1 DEF SlotRecords, Hosts
<1>3. Keeps(slots[s], p)
  BY <1>1 DEF SlotRecords, Keeps, UserMode, Exits
<1> HIDE DEF p
<1>4. Parked(s) = [slots EXCEPT ![s] = p]
  BY DEF Parked, p
<1> QED BY <1>1, <1>2, <1>3, <1>4, SlotStep

\* lxp_notify_parent_stopped.
LEMMA NotifyStoppedType ==
    ASSUME NEW P \in SlotTables, Quiet(P), NEW G \in GroupTables, NEW s \in Slots, NEW h,
           NotifyStopped(P, G, s, h)
    PROVE  slots' \in SlotTables /\ TableKeeps(P, slots') /\ groups' \in GroupTables
<1> DEFINE ev == [pid |-> P[s].pid, kind |-> "STOPPED"]
<1>1. ev \in Events
  BY DEF SlotTables, SlotRecords, Events, Kinds
<1> HIDE DEF ev
<1>2. PICK t \in Slots \cup {-1} :
             slots' = ChildSlots(P, t, ev, h) /\ groups' = ChildGroups(P, G, t, ev)
  BY DEF NotifyStopped, ev
<1> QED BY <1>1, <1>2, ChildSlotsType, ChildGroupsType

\* The tail of lxp_execute_deferred.
LEMMA DeferredType ==
    ASSUME IInv, NEW s \in Slots, UserMode(s), NEW G \in GroupTables, Deferred(s, G)
    PROVE  /\ slots' \in SlotTables /\ TableKeeps(slots, slots')
           /\ groups' \in GroupTables /\ used' \in UsedTypes
<1> DEFINE sig == Deliverable(slots[s].pend)
           P == [Parked(s) EXCEPT ![s].pend = @ \ {sig}]
           stopped == [P EXCEPT ![s].stop = "PARKED"]
<1>1. Parked(s) \in SlotTables /\ TableKeeps(slots, Parked(s))
  BY ParkedType
<1>2. P \in SlotTables /\ TableKeeps(slots, P)
  <2> DEFINE K == Parked(s)
             p == [K[s] EXCEPT !.pend = @ \ {sig}]
  <2>1. K[s] \in SlotRecords
    BY <1>1 DEF SlotTables
  <2>2. p \in SlotRecords /\ Keeps(K[s], p)
    BY <2>1 DEF SlotRecords, Keeps
  <2>3. P = [K EXCEPT ![s] = p]
    BY <1>1 DEF SlotTables
  <2> HIDE DEF K, p, P
  <2>4. P \in SlotTables /\ TableKeeps(K, P)
    BY <1>1, <2>2, <2>3, SlotStep DEF K
  <2> QED BY <1>1, <2>4, KeepsTrans DEF K
<1> HIDE DEF P, sig
<1>3. stopped \in SlotTables /\ TableKeeps(P, stopped)
  <2> DEFINE p == [P[s] EXCEPT !.stop = "PARKED"]
  <2>1. P[s] \in SlotRecords
    BY <1>2 DEF SlotTables
  <2>2. p \in SlotRecords /\ Keeps(P[s], p)
    BY <2>1 DEF SlotRecords, Keeps
  <2>3. stopped = [P EXCEPT ![s] = p]
    BY <1>2 DEF SlotTables
  <2> HIDE DEF p
  <2> QED BY <1>2, <2>2, <2>3, SlotStep
<1>4. TableKeeps(slots, stopped)
  BY <1>2, <1>3, KeepsTrans
<1> HIDE DEF stopped
<1>5. PICK h \in Oracles :
        /\ \/ /\ sig \in {"NONE", "CONT"}
              /\ slots' = CompleteSlot(P, SlotRefAt(P, s), h)
              /\ groups' = G
           \/ /\ sig = "KILL"
              /\ slots' = ExitSlot(P, s, "EXIT")
              /\ groups' = G
           \/ /\ sig = "STOP"
              /\ NotifyStopped(CompleteSlot(stopped, SlotRefAt(P, s), h), G, s, h)
        /\ Failed(h, 0)
  BY DEF Deferred, P, sig, stopped
<1>6. used' \in UsedTypes
  BY <1>5, FailedType DEF IInv, TypeOK, UsedTypes
<1>7. CASE slots' = CompleteSlot(P, SlotRefAt(P, s), h) /\ groups' = G
  BY <1>2, <1>6, <1>7, CompleteSlotType, KeepsTrans
<1>8. CASE slots' = ExitSlot(P, s, "EXIT") /\ groups' = G
  BY <1>2, <1>6, <1>8, ExitSlotType, KeepsTrans DEF Exits
<1>9. CASE NotifyStopped(CompleteSlot(stopped, SlotRefAt(P, s), h), G, s, h)
  <2> DEFINE C == CompleteSlot(stopped, SlotRefAt(P, s), h)
  <2>1. C \in SlotTables /\ TableKeeps(stopped, C)
    BY <1>3, CompleteSlotType
  <2>2. TableKeeps(slots, C)
    BY <1>4, <2>1, KeepsTrans
  <2>3. Quiet(C)
    BY <2>2, KeepsQuiet DEF IInv, Sound
  <2> HIDE DEF C
  <2>4. slots' \in SlotTables /\ TableKeeps(C, slots') /\ groups' \in GroupTables
    BY <1>9, <2>1, <2>3, NotifyStoppedType DEF C
  <2> QED BY <1>6, <2>2, <2>4, KeepsTrans
<1> QED BY <1>5, <1>7, <1>8, <1>9

\* What the guests do.
LEMMA GuestIInv ==
    ASSUME IInv, NEW s \in Slots, Guest(s)
    PROVE  IInv'
<1>1. slots \in SlotTables /\ slots[s] \in SlotRecords /\ used \in UsedTypes
      /\ groups \in GroupTables /\ mem \in [Regions -> 0..MaxPid]
  BY DEF IInv, TypeOK, SlotTables, UsedTypes
<1>2. TableKeeps(slots, slots)
  BY KeepsSelf
<1>3. CASE Write(s)
  <2>1. mem' \in [Regions -> 0..MaxPid]
    BY <1>1, <1>3 DEF Write, SlotRecords
  <2> QED BY <1>3, <2>1 DEF Write, IInv, TypeOK
<1>4. CASE RequestExec(s)
  <2> DEFINE K == Parked(s)
             p == [K[s] EXCEPT !.intent = "EXEC"]
  <2>0. UserMode(s)
    BY <1>4 DEF RequestExec
  <2>1. K \in SlotTables /\ TableKeeps(slots, K) /\ K[s] \in SlotRecords
    BY <2>0, ParkedType DEF SlotTables
  <2>2. K[s].intent = "NONE"
    BY <1>1, <2>0 DEF Parked, SlotTables, SlotRecords, UserMode
  <2>3. p \in SlotRecords /\ Keeps(K[s], p)
    BY <2>1, <2>2 DEF SlotRecords, Keeps, Intents, Exits
  <2>4. slots' = [K EXCEPT ![s] = p]
    BY <1>4, <2>1 DEF RequestExec, SlotTables
  <2>5. used' \in UsedTypes
    BY <1>1, <1>4, SMT DEF RequestExec, UsedTypes
  <2> HIDE DEF K, p
  <2>6. slots' \in SlotTables /\ TableKeeps(K, slots')
    BY <2>1, <2>3, <2>4, SlotStep
  <2>7. TableKeeps(slots, slots')
    BY <2>1, <2>6, KeepsTrans
  <2> QED BY <1>1, <1>4, <2>5, <2>6, <2>7, NativeStep DEF RequestExec
<1>5. CASE Reboot(s)
  <2>1. used' \in UsedTypes
    BY <1>1, <1>5, SMT DEF Reboot, UsedTypes
  <2> QED BY <1>5, <2>1 DEF Reboot, IInv, TypeOK, UsedTypes
<1>6. CASE TakeSignal(s)
  <2> DEFINE p == Taking(slots[s], Deliverable(slots[s].pend))
  <2>1. p \in SlotRecords
    BY <1>1 DEF SlotRecords, Intents, Exits, Taking
  <2>2. Keeps(slots[s], p)
    BY <1>1, <1>6 DEF SlotRecords, Keeps, TakeSignal, UserMode, Exits, Taking
  <2>3. slots' = [slots EXCEPT ![s] = p]
    BY <1>6 DEF TakeSignal
  <2> HIDE DEF p
  <2>4. slots' \in SlotTables /\ TableKeeps(slots, slots')
    BY <1>1, <2>1, <2>2, <2>3, SlotStep
  <2> QED BY <1>1, <1>6, <2>4, NativeStep DEF TakeSignal
<1>7. CASE DeferRefused(s)
  <2>1. PICK h \in Oracles : slots' = ParkSlot(slots, s, h) /\ Failed(h, 0)
    BY <1>7 DEF DeferRefused
  <2>2. slots' \in SlotTables /\ TableKeeps(slots, slots')
    BY <1>1, <2>1, ParkSlotType DEF IInv, Sound
  <2>3. used' \in UsedTypes
    BY <1>1, <2>1, FailedType
  <2> QED BY <1>1, <1>7, <2>2, <2>3, NativeStep DEF DeferRefused
<1>8. CASE OtherCall(s)
  BY <1>1, <1>8, DeferredType, NativeStep DEF OtherCall
<1>9. ASSUME NEW kind \in ForkKinds, RequestFork(s, kind)
      PROVE  IInv'
  <2> DEFINE p == [slots[s] EXCEPT !.intent = kind]
  <2>1. p \in SlotRecords /\ Keeps(slots[s], p)
    BY <1>1, <1>9, LifecycleAssumption DEF SlotRecords, Intents, Exits, Keeps, RequestFork,
       UserMode
  <2>2. slots' = [slots EXCEPT ![s] = p]
    BY <1>1, <1>9 DEF RequestFork, SlotTables
  <2>3. used' \in UsedTypes
    BY <1>1, <1>9, SMT DEF RequestFork, UsedTypes
  <2> HIDE DEF p
  <2>4. slots' \in SlotTables /\ TableKeeps(slots, slots')
    BY <1>1, <2>1, <2>2, SlotStep
  <2> QED BY <1>1, <1>9, <2>3, <2>4, NativeStep DEF RequestFork
<1>10. ASSUME NEW kind \in ExitKinds, RequestExit(s, kind)
       PROVE  IInv'
  <2>1. slots' \in SlotTables /\ TableKeeps(slots, slots')
    BY <1>1, <1>10, LifecycleAssumption, ExitSlotType DEF RequestExit
  <2> QED BY <1>1, <1>10, <2>1, NativeStep DEF RequestExit
<1>11. ASSUME NEW t \in Slots, NEW sig \in SigKinds, SendSignal(s, t, sig)
       PROVE  IInv'
  <2> DEFINE p == [slots[t] EXCEPT !.pend = Latch(@, sig)]
  <2>1. slots[t] \in SlotRecords
    BY <1>1 DEF SlotTables
  <2>2. Latch(slots[t].pend, sig) \in SUBSET Signals
    BY <2>1, LifecycleAssumption DEF SlotRecords, Latch
  <2>3. p \in SlotRecords /\ Keeps(slots[t], p)
    BY <2>1, <2>2 DEF SlotRecords, Keeps
  <2>4. slots' = [slots EXCEPT ![t] = p]
    BY <1>1, <1>11 DEF SendSignal, SlotTables
  <2>5. used' \in UsedTypes
    BY <1>1, <1>11, SMT DEF SendSignal, UsedTypes
  <2> HIDE DEF p
  <2>6. slots' \in SlotTables /\ TableKeeps(slots, slots')
    BY <1>1, <2>3, <2>4, SlotStep
  <2> QED BY <1>1, <1>11, <2>5, <2>6, NativeStep DEF SendSignal
<1>12. ASSUME NEW pid \in WaitPids, NEW untraced \in BOOLEAN, Wait4Reap(s, pid, untraced)
       PROVE  IInv'
  <2> DEFINE g == slots[s].tgid
             q == groups[g].queue
             G(i) == [groups EXCEPT ![g].queue = SubSeq(q, 1, i - 1) \o SubSeq(q, i + 1, Len(q))]
  <2>1. PICK i \in 1..Len(q) : Deferred(s, G(i))
    BY <1>12 DEF Wait4Reap
  <2>2. G(i) \in GroupTables
    <3>1. CASE g \in Pids
      <4>1. groups[g] \in Groups /\ q \in Seq(Events)
        BY <1>1, <3>1 DEF GroupTables, Groups
      <4>2. SubSeq(q, 1, i - 1) \in Seq(Events) /\ SubSeq(q, i + 1, Len(q)) \in Seq(Events)
        <5> HIDE DEF g, q
        <5> QED BY <4>1, SMTT(30)
      <4>3. SubSeq(q, 1, i - 1) \o SubSeq(q, i + 1, Len(q)) \in Seq(Events)
        <5> DEFINE a == SubSeq(q, 1, i - 1)
                   b == SubSeq(q, i + 1, Len(q))
        <5>1. a \in Seq(Events) /\ b \in Seq(Events)
          BY <4>2
        <5> HIDE DEF a, b
        <5>2. a \o b \in Seq(Events)
          BY <5>1, SMTT(30)
        <5> QED BY <5>2 DEF a, b
      <4> HIDE DEF g, q
      <4> QED BY <1>1, <4>1, <4>3 DEF GroupTables, Groups
    <3>2. CASE g \notin Pids
      BY <1>1, <3>2 DEF GroupTables
    <3> QED BY <3>1, <3>2
  <2> HIDE DEF G
  <2> QED BY <1>12, <2>1, <2>2, DeferredType, NativeStep DEF Wait4Reap
<1>13. ASSUME NEW pid \in WaitPids, NEW untraced \in BOOLEAN, Wait4Block(s, pid, untraced)
       PROVE  IInv'
  <2> DEFINE K == Parked(s)
             w == [child |-> TRUE, pid |-> pid, untraced |-> untraced]
             p == [K[s] EXCEPT !.wait = w]
  <2>1. K \in SlotTables /\ TableKeeps(slots, K) /\ K[s] \in SlotRecords
    BY <1>13, ParkedType DEF Wait4Block, SlotTables
  <2>2. w \in Waits
    BY LifecycleAssumption DEF Waits
  <2>3. slots' = [K EXCEPT ![s] = p]
    BY <1>13, <2>1 DEF Wait4Block, SlotTables
  <2> HIDE DEF w
  <2>4. p \in SlotRecords /\ Keeps(K[s], p)
    BY <2>1, <2>2 DEF SlotRecords, Keeps
  <2> HIDE DEF K, p
  <2>5. slots' \in SlotTables /\ TableKeeps(K, slots')
    BY <2>1, <2>3, <2>4, SlotStep
  <2>6. TableKeeps(slots, slots')
    BY <2>1, <2>5, KeepsTrans
  <2> QED BY <1>1, <1>13, <2>5, <2>6, NativeStep DEF Wait4Block
<1> QED BY <1>3, <1>4, <1>5, <1>6, <1>7, <1>8, <1>9, <1>10, <1>11, <1>12, <1>13 DEF Guest

-----------------------------------------------------------------------------
(* Leases come from Reserve and LeaseReassign only.                        *)

\* lxp_region_put may end a lease and never makes one.
LEMMA PutLease ==
    ASSUME NEW R \in RegionTables, NEW ref, NEW r \in Regions
    PROVE  Put(R, ref)[r].lease \in {NoRef, R[r].lease}
BY DEF Put, RegionTables

\* Nor does lxp_region_release_if_owned.
LEMMA ReleaseLease ==
    ASSUME NEW R \in RegionTables, NEW ref, NEW owner, NEW r \in Regions
    PROVE  ReleaseIfOwned(R, ref, owner)[r].lease \in {NoRef, R[r].lease}
BY PutLease DEF ReleaseIfOwned

\* lxp_region_get leaves leases alone.
LEMMA GetLease ==
    ASSUME NEW R \in RegionTables, NEW ref, NEW r \in Regions
    PROVE  Get(R, ref)[r].lease = R[r].lease
BY DEF Get, RegionTables

\* lxp_region_reserve touches its own region only.
LEMMA ReserveLease ==
    ASSUME NEW R \in RegionTables, NEW x, NEW owner, NEW r \in Regions, r # x
    PROVE  Reserve(R, x, owner)[r] = R[r]
BY DEF Reserve, RegionTables

\* lxp_region_lease_reassign touches its own region only.
LEMMA LeaseReassignLease ==
    ASSUME NEW R \in RegionTables, NEW ref, NEW old, NEW new, NEW r \in Regions, r # ref.index
    PROVE  LeaseReassign(R, ref, old, new)[r] = R[r]
BY DEF LeaseReassign, RegionTables

\* lxp_region_commit_address_space ends the lease it is given.
LEMMA CommitLease ==
    ASSUME NEW R \in RegionTables, NEW ref, NEW owner, NEW r \in Regions
    PROVE  /\ CommitAddressSpace(R, ref, owner)[r].lease \in {NoRef, R[r].lease}
           /\ LeaseMatches(R, ref, owner) /\ r = ref.index
                => CommitAddressSpace(R, ref, owner)[r].lease = NoRef
BY SMT DEF CommitAddressSpace, LeaseMatches, RegionTables

-----------------------------------------------------------------------------
(* The run bracket.                                                        *)

\* With every slot and region free there is nothing to account for.
LEMMA AllFreeSound ==
    ASSUME NEW Q, NEW T,
           \A s \in Slots : ~Q[s].alive /\ Q[s].host \in {"FREE", "DEAD"} /\ ~Q[s].runnable,
           \A r \in Regions : T[r].lease = NoRef /\ T[r].refs = 0
    PROVE  Sound(Q, T)
<1>1. \A r \in Regions : RegionUsers(Q, r) = {}
  BY DEF RegionUsers
<1>2. RegionsOk(Q, T)
  BY <1>1, FS_EmptySet DEF RegionsOk, RegionOk
<1>3. Quiet(Q) /\ LeasedUserEnds(Q, T)
  BY DEF Quiet, LeasedUserEnds
<1> QED BY <1>2, <1>3 DEF Sound

\* lxp_run_common gives every slot a fresh generation and no task.
LEMMA OpenedType ==
    ASSUME TypeOK
    PROVE  /\ Opened \in SlotTables
           /\ \A s \in Slots : /\ ~Opened[s].alive /\ ~Opened[s].runnable
                               /\ Opened[s].host = "FREE"
<1>1. ASSUME NEW s \in Slots
      PROVE  [slots[s] EXCEPT !.host = "FREE", !.runnable = FALSE, !.alive = FALSE,
                              !.gen = GenNext(@)] \in SlotRecords
  <2>1. slots[s] \in SlotRecords /\ slots[s].gen \in 0..GenMax
    BY DEF TypeOK, SlotTables, SlotRecords
  <2>2. GenNext(slots[s].gen) \in 0..GenMax
    BY <2>1, GenNextType, TableAssumption, SMT
  <2> QED BY <2>1, <2>2 DEF SlotRecords, Hosts
<1>2. Opened \in SlotTables
  BY <1>1 DEF Opened, SlotTables
<1>3. ASSUME NEW s \in Slots
      PROVE  /\ ~Opened[s].alive /\ ~Opened[s].runnable
             /\ Opened[s].host = "FREE"
  <2>1. slots[s] \in SlotRecords
    BY DEF TypeOK, SlotTables
  <2> QED BY <2>1 DEF Opened, SlotRecords
<1> QED BY <1>2, <1>3

\* The tables as lxp_run_common has them when it launches pid 1.
LEMMA LaunchingOk ==
    ASSUME TypeOK
    PROVE  /\ 0 \in Slots /\ 0 \in Regions
           /\ SlotRefAt(Opened, 0) \in SlotRefs
           /\ Launching \in RegionTables
           /\ RegionRefAt(Launching, 0) \in RegionRefs
           /\ RegionsOk(Opened, Launching)
           /\ LeaseMatches(Launching, RegionRefAt(Launching, 0), SlotRefAt(Opened, 0))
           /\ \A r \in Regions : RegionUsers(Opened, r) = {}
           /\ \A r \in Regions \ {0} : Launching[r].lease = NoRef
<1> DEFINE Z == RegionReset(reg)
           own == SlotRefAt(Opened, 0)
<1>1. 0 \in Slots /\ 0 \in Regions
  BY TableAssumption, SMT DEF Slots, Regions
<1>2. Opened \in SlotTables /\ \A r \in Regions : RegionUsers(Opened, r) = {}
  BY OpenedType DEF RegionUsers
<1>3. Z \in RegionTables /\ \A r \in Regions : Z[r].lease = NoRef /\ Z[r].refs = 0
  <2>1. reg \in RegionTables
    BY DEF TypeOK
  <2> QED BY <2>1, ResetType DEF RegionReset
<1>4. own \in SlotRefs /\ own # NoRef
  BY <1>1, <1>2, SlotRefAtType DEF SlotRefAt, NoRef
<1>5. RegionsOk(Opened, Z)
  BY <1>3, AllFreeSound, OpenedType DEF Sound
<1>6. RegionFree(Opened, Z, 0)
  BY <1>1, <1>2, <1>3 DEF RegionFree
<1> HIDE DEF Z, own
<1>7. Launching = Reserve(Z, 0, own)
  BY DEF Launching, Z, own
<1>8. Launching \in RegionTables
  BY <1>1, <1>3, <1>4, <1>7, ReserveType
<1>9. RegionsOk(Opened, Launching)
      /\ LeaseMatches(Launching, [index |-> 0, gen |-> GenNext(Z[0].gen)], own)
  BY <1>1, <1>2, <1>3, <1>4, <1>5, <1>6, <1>7, RegionsOkReserve
<1>10. RegionRefAt(Launching, 0) = [index |-> 0, gen |-> GenNext(Z[0].gen)]
  BY <1>1, <1>3, <1>7 DEF Reserve, RegionRefAt, RegionTables
<1>11. \A r \in Regions \ {0} : Launching[r].lease = NoRef
  BY <1>3, <1>7, ReserveLease, SMT
<1> QED BY <1>1, <1>2, <1>4, <1>8, <1>9, <1>10, <1>11, RegionRefAtType DEF own

\* A start is counted and the fork bound starts again.
LEMMA UsedStart ==
    ASSUME NEW u \in UsedTypes, NEW a \in Nat, NEW b \in Nat
    PROVE  /\ [u EXCEPT !.run = a, !.fork = b] \in UsedTypes
           /\ [u EXCEPT !.run = a, !.fail = b] \in UsedTypes
BY DEF UsedTypes

\* lxp_run_common up to the launch of pid 1.
LEMMA StartRunIInv ==
    ASSUME IInv, StartRun
    PROVE  IInv'
<1> DEFINE ref == RegionRefAt(Launching, 0)
           own == SlotRefAt(Opened, 0)
           p == [Cleared(Opened[0]) EXCEPT !.alive = TRUE, !.host = "RUNNING",
                                           !.runnable = TRUE, !.pid = 1, !.tgid = 1, !.mm = ref]
<1>0. TypeOK
  BY DEF IInv
<1>1. 0 \in Slots /\ 0 \in Regions /\ own \in SlotRefs /\ Launching \in RegionTables
      /\ ref \in RegionRefs /\ RegionsOk(Opened, Launching) /\ LeaseMatches(Launching, ref, own)
      /\ (\A r \in Regions : RegionUsers(Opened, r) = {})
      /\ (\A r \in Regions \ {0} : Launching[r].lease = NoRef)
  BY <1>0, LaunchingOk
<1>2. ref.index = 0
  BY DEF RegionRefAt
<1>3. Opened \in SlotTables /\ \A s \in Slots : ~Opened[s].alive /\ ~Opened[s].runnable
                                                 /\ Opened[s].host = "FREE"
  BY <1>0, OpenedType
<1> HIDE DEF ref, own
<1>4. Cleared(Opened[0]) \in SlotRecords
  BY <1>1, <1>3, ClearedType DEF SlotTables
<1>5. p \in SlotRecords /\ p.alive /\ p.mm = ref
  <2> DEFINE c == Cleared(Opened[0])
  <2>1. c \in SlotRecords /\ 1 \in 0..MaxPid
    BY <1>4, ChildAssumption, SMT
  <2> HIDE DEF c
  <2> QED BY <1>1, <2>1 DEF SlotRecords, Hosts, c
<1>6. slots' = [Opened EXCEPT ![0] = p]
  BY DEF StartRun, ref
<1>7. reg' = CommitAddressSpace(Launching, ref, own)
  BY DEF StartRun, ref, own
<1> HIDE DEF p
<1>8. slots' \in SlotTables /\ slots'[0] = p
  BY <1>1, <1>3, <1>5, <1>6, SlotUpdate DEF SlotTables
<1>9. reg' \in RegionTables
  BY <1>1, <1>7, CommitType
<1>10. SameButFor(Opened, slots', 0)
  BY <1>3, <1>6 DEF SameButFor, SlotTables
<1>11. RegionsOk(slots', reg')
  BY <1>1, <1>2, <1>3, <1>5, <1>7, <1>8, <1>10, RegionsOkCommit
<1>12. \A s \in Slots : s # 0 => slots'[s] = Opened[s]
  BY <1>3, <1>6 DEF SlotTables
<1>13. Quiet(slots')
  BY <1>3, <1>5, <1>8, <1>12 DEF Quiet
<1>14. LeasedUserEnds(slots', reg')
  BY <1>1, <1>2, <1>3, <1>5, <1>7, <1>8, <1>12, CommitLease, SMT DEF LeasedUserEnds
<1>15. used' \in UsedTypes
  <2>1. used \in UsedTypes /\ used' = [used EXCEPT !.run = @ + 1, !.fork = 0]
    BY <1>0 DEF StartRun, TypeOK, UsedTypes
  <2>2. used.run + 1 \in Nat
    BY <2>1, SMT DEF UsedTypes
  <2> QED BY <2>1, <2>2, UsedStart
<1>16. guard' \in [Slots -> Guards]
  BY DEF StartRun, Guards, NoGuard, SlotRefs, RegionRefs
<1>17. groups' \in GroupTables
  BY <1>0, NoGroupType DEF StartRun, TypeOK, GroupTables
<1>18. mem' \in [Regions -> 0..MaxPid] /\ phase' = "UP" /\ nextPid' \in Nat
  <2>1. /\ mem' = [mem EXCEPT ![0] = 0] /\ phase' = "UP" /\ nextPid' = 2
        /\ mem \in [Regions -> 0..MaxPid]
    BY <1>0 DEF StartRun, TypeOK
  <2>2. 0 \in 0..MaxPid
    BY ChildAssumption, SMT
  <2>3. mem' \in [Regions -> 0..MaxPid]
    BY <2>1, <2>2
  <2> QED BY <2>1, <2>3
<1>19. TypeOK'
  BY <1>0, <1>8, <1>9, <1>15, <1>16, <1>17, <1>18 DEF StartRun, TypeOK, UsedTypes
<1> QED BY <1>11, <1>13, <1>14, <1>19 DEF IInv, Sound

\* A start that fails leaves nothing behind.
LEMMA StartFailedIInv ==
    ASSUME IInv, StartFailed
    PROVE  IInv'
<1> DEFINE L == Put(Launching, RegionRefAt(Launching, 0))
<1>0. TypeOK
  BY DEF IInv
<1>1. L \in RegionTables
  BY <1>0, LaunchingOk, PutType
<1>2. reg' = RegionReset(L)
  BY DEF StartFailed
<1> HIDE DEF L
<1>3. reg' \in RegionTables /\ \A r \in Regions : reg'[r].lease = NoRef /\ reg'[r].refs = 0
  BY <1>1, <1>2, ResetType DEF RegionReset
<1>4. ASSUME NEW s \in Slots
      PROVE  /\ slots'[s] \in SlotRecords
             /\ ~slots'[s].alive /\ slots'[s].host = "DEAD" /\ ~slots'[s].runnable
  <2> DEFINE c == Cleared(Opened[s])
  <2>1. Opened[s] \in SlotRecords
    BY <1>0, OpenedType DEF SlotTables
  <2>2. c \in SlotRecords
    BY <2>1, ClearedType
  <2>3. ~c.alive /\ ~c.runnable
    BY <2>1 DEF Cleared, SlotRecords
  <2>4. slots'[s] = [c EXCEPT !.host = "DEAD", !.gen = GenNext(@)]
    BY DEF StartFailed
  <2> HIDE DEF c
  <2>5. c.gen \in 0..GenMax
    BY <2>2 DEF SlotRecords
  <2>6. GenNext(c.gen) \in 0..GenMax
    BY <2>5, GenNextType, TableAssumption, SMTT(30)
  <2> QED BY <2>2, <2>3, <2>4, <2>6 DEF SlotRecords, Hosts
<1>5. slots' \in SlotTables
  BY <1>4 DEF StartFailed, SlotTables
<1>6. Sound(slots', reg')
  BY <1>3, <1>4, AllFreeSound
<1>7. used' \in UsedTypes
  <2>1. used \in UsedTypes /\ used' = [used EXCEPT !.run = @ + 1, !.fail = @ + 1]
    BY <1>0 DEF StartFailed, TypeOK, UsedTypes
  <2>2. used.run + 1 \in Nat /\ used.fail + 1 \in Nat
    BY <2>1, SMTT(30) DEF UsedTypes
  <2> QED BY <2>1, <2>2, UsedStart
<1>8. guard' \in [Slots -> Guards]
  BY DEF StartFailed, Guards, NoGuard, SlotRefs, RegionRefs
<1>9. TypeOK'
  BY <1>0, <1>3, <1>5, <1>7, <1>8 DEF StartFailed, TypeOK, UsedTypes
<1> QED BY <1>6, <1>9 DEF IInv

\* lxp_coordinator_teardown_all leaves nothing behind.
LEMMA TeardownIInv ==
    ASSUME IInv, Teardown
    PROVE  IInv'
<1>0. TypeOK
  BY DEF IInv
<1>1. ASSUME NEW r \in Regions
      PROVE  /\ reg'[r] \in [lease : SlotRefs, refs : 0..NSLOT, gen : 0..GenMax]
             /\ reg'[r].lease = NoRef /\ reg'[r].refs = 0
  <2>1. reg[r].gen \in 0..GenMax
    BY <1>0 DEF TypeOK, RegionTables
  <2>2. GenNext(reg[r].gen) \in 0..GenMax
    BY <2>1, GenNextType, TableAssumption, SMT
  <2>3. \E g \in 0..GenMax : reg'[r] = [lease |-> NoRef, refs |-> 0, gen |-> g]
    <3> DEFINE last == reg[r].refs > 0 /\ reg[r].refs = Cardinality(RegionUsers(slots, r))
               g == IF last THEN GenNext(reg[r].gen) ELSE reg[r].gen
    <3>1. reg'[r] = [lease |-> NoRef, refs |-> 0, gen |-> g]
      BY DEF Teardown
    <3>2. g \in 0..GenMax
      <4> HIDE DEF last
      <4> QED BY <2>1, <2>2
    <3> HIDE DEF g
    <3> QED BY <3>1, <3>2
  <2>4. NoRef \in SlotRefs /\ 0 \in 0..NSLOT
    BY TableAssumption, SMTT(30) DEF SlotRefs
  <2> QED BY <2>3, <2>4, SMT
<1>2. reg' \in RegionTables
  BY <1>1 DEF Teardown, RegionTables
<1>3. ASSUME NEW s \in Slots
      PROVE  /\ slots'[s] \in SlotRecords
             /\ ~slots'[s].alive /\ slots'[s].host = "DEAD" /\ ~slots'[s].runnable
  <2> DEFINE c == Cleared(slots[s])
  <2>1. slots[s] \in SlotRecords
    BY <1>0 DEF TypeOK, SlotTables
  <2>2. c \in SlotRecords
    BY <2>1, ClearedType
  <2>3. ~c.alive /\ ~c.runnable
    BY <2>1 DEF Cleared, SlotRecords
  <2>4. slots'[s] = [c EXCEPT !.host = "DEAD", !.gen = GenNext(@)]
    BY DEF Teardown
  <2> HIDE DEF c
  <2>5. c.gen \in 0..GenMax
    BY <2>2 DEF SlotRecords
  <2>6. GenNext(c.gen) \in 0..GenMax
    BY <2>5, GenNextType, TableAssumption, SMT
  <2> QED BY <2>2, <2>3, <2>4, <2>6 DEF SlotRecords, Hosts
<1>4. slots' \in SlotTables
  BY <1>3 DEF Teardown, SlotTables
<1>5. Sound(slots', reg')
  BY <1>1, <1>3, AllFreeSound
<1>6. guard' \in [Slots -> Guards] /\ groups' \in GroupTables
  BY NoGroupType DEF Teardown, Guards, NoGuard, SlotRefs, RegionRefs, GroupTables
<1>7. TypeOK'
  BY <1>0, <1>2, <1>4, <1>6 DEF Teardown, TypeOK
<1> QED BY <1>5, <1>7 DEF IInv

-----------------------------------------------------------------------------
(* What the handlers share.                                                *)

\* lxp_vfork_guard_reset leaves an empty guard.
LEMMA NoGuardType == NoGuard \in Guards
BY DEF NoGuard, Guards, SlotRefs, RegionRefs

\* lxp_vfork_contain_stale only ends tasks.
LEMMA ContainSlotsType ==
    ASSUME NEW P \in SlotTables, NEW s \in Slots
    PROVE  /\ ContainSlots(P, s) \in SlotTables /\ TableKeeps(P, ContainSlots(P, s))
           /\ \A t \in Slots : /\ ContainSlots(P, s)[t].host = P[t].host
                               /\ ContainSlots(P, s)[t].mm = P[t].mm
<1> DEFINE par == guard[s].parent
           Q == IF IsCurrent(P, par) /\ P[par.index].mm = guard[s].region
                THEN ExitSlot(P, par.index, "EXIT") ELSE P
           p == [Q[s] EXCEPT !.vpar = NoRef, !.snap = NoRef, !.intent = "EXIT"]
<1>1. /\ Q \in SlotTables /\ TableKeeps(P, Q)
      /\ \A t \in Slots : Q[t].host = P[t].host /\ Q[t].mm = P[t].mm
  <2>1. CASE IsCurrent(P, par) /\ P[par.index].mm = guard[s].region
    <3>1. par.index \in Slots /\ Q = ExitSlot(P, par.index, "EXIT")
      BY <2>1 DEF IsCurrent
    <3> HIDE DEF Q
    <3>2. \A t \in Slots : Q[t].host = P[t].host /\ Q[t].mm = P[t].mm
      BY <3>1 DEF ExitSlot, SlotTables, SlotRecords
    <3> QED BY <3>1, <3>2, ExitSlotType DEF Exits
  <2>2. CASE ~(IsCurrent(P, par) /\ P[par.index].mm = guard[s].region)
    BY <2>2, KeepsSelf
  <2> QED BY <2>1, <2>2
<1>2. ContainSlots(P, s) = [Q EXCEPT ![s] = p]
  BY DEF ContainSlots
<1> HIDE DEF Q
<1>3. Q[s] \in SlotRecords /\ NoRef \in SlotRefs /\ NoRef \in RegionRefs
  BY <1>1 DEF SlotTables, SlotRefs, RegionRefs
<1>4. p \in SlotRecords /\ Keeps(Q[s], p) /\ p.host = Q[s].host /\ p.mm = Q[s].mm
  BY <1>3 DEF SlotRecords, Keeps, Intents, Exits
<1> HIDE DEF p
<1>5. [Q EXCEPT ![s] = p] \in SlotTables /\ TableKeeps(Q, [Q EXCEPT ![s] = p])
  BY <1>1, <1>4, SlotStep
<1>6. \A t \in Slots : ContainSlots(P, s)[t].host = P[t].host
                       /\ ContainSlots(P, s)[t].mm = P[t].mm
  BY <1>1, <1>2, <1>4 DEF SlotTables
<1> QED BY <1>1, <1>2, <1>5, <1>6, KeepsTrans

\* lxp_vfork_restore copies one region to another.
LEMMA RestoredType ==
    ASSUME TypeOK, NEW P \in SlotTables, NEW s \in Slots, P[s].snap # NoRef
    PROVE  Restored(P, s) \in [Regions -> 0..MaxPid]
<1>1. P[s].snap \in RegionRefs
  BY DEF SlotTables, SlotRecords
<1>2. P[s].snap.index \in Regions
  BY <1>1 DEF RegionRefs
<1>3. mem[P[s].snap.index] \in 0..MaxPid /\ mem \in [Regions -> 0..MaxPid]
  BY <1>2 DEF TypeOK
<1> QED BY <1>3 DEF Restored

-----------------------------------------------------------------------------
(* lxp_handle_fork.                                                        *)

\* Parking a task and handing it its result.
LEMMA ParkAndCompleteType ==
    ASSUME NEW P \in SlotTables, Quiet(P), NEW s \in Slots, NEW h
    PROVE  /\ ParkAndComplete(P, s, h) \in SlotTables
           /\ TableKeeps(P, ParkAndComplete(P, s, h))
<1> DEFINE Q == ParkSlot(P, s, h)
<1>1. Q \in SlotTables /\ TableKeeps(P, Q)
  BY ParkSlotType
<1> HIDE DEF Q
<1>2. ParkAndComplete(P, s, h) = CompleteSlot(Q, SlotRefAt(Q, s), h)
  BY DEF ParkAndComplete, Q
<1> QED BY <1>1, <1>2, CompleteSlotType, KeepsTrans

\* The fork intent is completed.
LEMMA ForkingType ==
    ASSUME IInv, NEW s \in Slots, ForkPending(s)
    PROVE  Forking(s) \in SlotTables /\ TableKeeps(slots, Forking(s))
<1> DEFINE p == [slots[s] EXCEPT !.intent = "NONE"]
<1>1. slots \in SlotTables /\ slots[s] \in SlotRecords
  BY DEF IInv, TypeOK, SlotTables
<1>2. p \in SlotRecords /\ Keeps(slots[s], p)
  BY <1>1 DEF SlotRecords, Intents, Keeps, ForkPending, Forks, Exits
<1>3. Forking(s) = [slots EXCEPT ![s] = p]
  BY <1>1 DEF Forking, SlotTables
<1> HIDE DEF p
<1> QED BY <1>1, <1>2, <1>3, SlotStep

\* EAGAIN before anything is acquired.
LEMMA ForkRefusedIInv ==
    ASSUME IInv, NEW s \in Slots, ForkRefused(s)
    PROVE  IInv'
<1>1. PICK h \in Oracles : slots' = ParkAndComplete(Forking(s), s, h) /\ Failed(h, 0)
  BY DEF ForkRefused
<1>2. Forking(s) \in SlotTables /\ TableKeeps(slots, Forking(s))
  BY ForkingType DEF ForkRefused
<1>3. Quiet(Forking(s))
  BY <1>2, KeepsQuiet DEF IInv, Sound
<1>4. slots' \in SlotTables /\ TableKeeps(slots, slots')
  BY <1>1, <1>2, <1>3, ParkAndCompleteType, KeepsTrans
<1>5. used' \in UsedTypes
  BY <1>1, FailedType DEF IInv, TypeOK, UsedTypes
<1>6. groups' \in GroupTables
  BY DEF ForkRefused, IInv, TypeOK
<1> QED BY <1>4, <1>5, <1>6, NativeStep DEF ForkRefused

\* A reference taken and given back leaves the table as it was.
LEMMA GetPut ==
    ASSUME NEW R \in RegionTables, NEW ref, CanGet(R, ref)
    PROVE  Put(Get(R, ref), ref) = R
<1> DEFINE x == ref.index
           T == Get(R, ref)
<1>1. x \in Regions /\ ref.gen # 0 /\ R[x].gen = ref.gen /\ R[x].refs \in 1 .. NSLOT - 1
  BY DEF CanGet, Names
<1>2. T \in RegionTables
  BY GetType
<1>3. T[x].refs = R[x].refs + 1 /\ T[x].gen = R[x].gen /\ T[x].lease = R[x].lease
  BY <1>1 DEF Get, RegionTables
<1>4. Put(T, ref) = [T EXCEPT ![x].refs = @ - 1]
  BY <1>1, <1>3, TableAssumption, SMT DEF Put, Names
<1>5. \A r \in Regions : r # x => T[r] = R[r]
  BY DEF Get, RegionTables
<1> HIDE DEF T
<1>6. [T[x] EXCEPT !.refs = @ - 1] = R[x]
  BY <1>1, <1>2, <1>3, TableAssumption, SMT DEF RegionTables
<1>7. \A r \in Regions : Put(T, ref)[r] = R[r]
  BY <1>1, <1>2, <1>4, <1>5, <1>6 DEF RegionTables
<1> QED BY <1>2, <1>4, <1>7 DEF RegionTables, T

\* lxp_fork_txn_abort gives back what the transaction took.
LEMMA ForkAbortedIInv ==
    ASSUME IInv, NEW s \in Slots, NEW c \in Slots, ForkAborted(s, c)
    PROVE  IInv'
<1> DEFINE F == Forking(s)
           Q == [Reassign(F, c) EXCEPT ![c] = Cleared(@)]
<1>0. TypeOK /\ ForkPending(s) /\ ~slots[c].alive
  BY DEF IInv, ForkAborted, ForkAdmitted, FirstDeadSlot
<1>1. F \in SlotTables /\ TableKeeps(slots, F)
  BY <1>0, ForkingType
<1>2. Q \in SlotTables /\ TableKeeps(F, Q)
  <2> DEFINE p == [F[c] EXCEPT !.gen = GenNext(@)]
  <2>1. Reassign(F, c) \in SlotTables /\ Reassign(F, c) = [F EXCEPT ![c] = p]
    BY <1>1, ReassignType DEF Reassign, SlotTables
  <2>2. p \in SlotRecords /\ F[c] \in SlotRecords
    BY <1>1, <2>1 DEF SlotTables
  <2>3. Cleared(p) \in SlotRecords
    BY <2>2, ClearedType
  <2>4. ~F[c].alive
    BY <1>0, <1>1 DEF TableKeeps, Keeps
  <2>5. Keeps(F[c], Cleared(p))
    BY <2>2, <2>4 DEF Cleared, Keeps, SlotRecords
  <2>6. Q = [F EXCEPT ![c] = Cleared(p)]
    BY <1>1, <2>1 DEF SlotTables
  <2> HIDE DEF F, p, Q
  <2> QED BY <1>1, <2>3, <2>5, <2>6, SlotStep
<1> HIDE DEF F, Q
<1>3. TableKeeps(slots, Q)
  BY <1>1, <1>2, KeepsTrans
<1>4. Quiet(Q)
  BY <1>3, KeepsQuiet, SMT DEF IInv, Sound
<1>5. PICK h \in Oracles, n \in {0, 1} : slots' = ParkAndComplete(Q, s, h) /\ Failed(h, n)
  BY DEF ForkAborted, F, Q
<1>6. slots' \in SlotTables /\ TableKeeps(slots, slots')
  BY <1>2, <1>3, <1>4, <1>5, ParkAndCompleteType, KeepsTrans
<1>7. used' \in UsedTypes
  BY <1>0, <1>5, FailedType DEF TypeOK, UsedTypes
<1>8. reg' = reg
  BY <1>0, GetPut DEF ForkAborted, TypeOK
<1>9. guard' \in [Slots -> Guards]
  BY <1>0, NoGuardType DEF ForkAborted, TypeOK
<1>10. Sound(slots', reg')
  BY <1>0, <1>6, <1>8, SoundKeeps DEF IInv, TypeOK
<1>11. TypeOK'
  BY <1>0, <1>6, <1>7, <1>8, <1>9 DEF ForkAborted, TypeOK, UsedTypes
<1> QED BY <1>10, <1>11 DEF IInv

\* The table with the published child.
LEMMA ForkChildType ==
    ASSUME IInv, NEW s \in Slots, NEW c \in Slots, ForkAdmitted(s, c), CanGet(reg, slots[s].mm),
           NEW vpar \in SlotRefs, NEW snap \in RegionRefs,
           NEW P, P = ForkChild(Reassign(Forking(s), c), s, c, vpar, snap),
           NEW R, R = Get(reg, slots[s].mm)
    PROVE  /\ P \in SlotTables /\ Quiet(P) /\ SameButFor(slots, P, c)
           /\ ~slots[c].alive /\ P[c].alive /\ P[c].mm = slots[s].mm
           /\ RegionsOk(P, R) /\ R \in RegionTables /\ LeasedUserEnds(P, R)
<1> DEFINE F == Forking(s)
           K == Reassign(F, c)
           tg == IF slots[s].intent = "THREAD" THEN K[s].tgid ELSE nextPid
           p == [Cleared(K[c]) EXCEPT !.alive = TRUE, !.pid = nextPid, !.mm = K[s].mm,
                                      !.vpar = vpar, !.snap = snap, !.tgid = tg]
<1> HIDE DEF p, K
<1>0. TypeOK /\ ForkPending(s) /\ ~slots[c].alive /\ slots[s].alive /\ nextPid \in 0..MaxPid
  BY SMT DEF IInv, TypeOK, ForkAdmitted, FirstDeadSlot, ForkPending
<1>1. F \in SlotTables /\ TableKeeps(slots, F) /\ slots \in SlotTables
  BY <1>0, ForkingType DEF TypeOK
<1> HIDE DEF F
<1>2. K \in SlotTables /\ \A t \in Slots : t # c => K[t] = F[t]
  BY <1>1, ReassignType DEF K, Reassign, SlotTables
<1>3. K[c] \in SlotRecords /\ K[s] \in SlotRecords /\ K[c].host = F[c].host
      /\ K[c].alive = F[c].alive
  <2>1. F[c] \in SlotRecords /\ K[c] \in SlotRecords /\ K[s] \in SlotRecords
    BY <1>1, <1>2 DEF SlotTables
  <2>2. K[c] = [F[c] EXCEPT !.gen = GenNext(@)]
    BY <1>1 DEF K, Reassign, SlotTables
  <2> QED BY <2>1, <2>2 DEF SlotRecords
<1>4. K[s].mm = slots[s].mm
  <2>1. s # c
    BY <1>0
  <2> QED BY <1>0, <1>1, <1>2, <2>1, SMT DEF TableKeeps, Keeps
<1>5. Cleared(K[c]) \in SlotRecords
  BY <1>3, ClearedType
<1>6. P = [K EXCEPT ![c] = p]
  BY DEF ForkChild, p, K, F
<1>7. tg \in 0..MaxPid /\ K[s].mm \in RegionRefs
  BY <1>0, <1>3 DEF SlotRecords
<1> HIDE DEF tg
<1>8. p \in SlotRecords /\ p.alive /\ p.mm = slots[s].mm
  <2> DEFINE z == Cleared(K[c])
  <2>1. z \in SlotRecords
    BY <1>5
  <2> HIDE DEF z
  <2> QED BY <1>0, <1>4, <1>7, <2>1 DEF SlotRecords, z, p
<1>9. P \in SlotTables /\ P[c] = p /\ \A t \in Slots : t # c => P[t] = F[t]
  BY <1>2, <1>6, <1>8, SlotUpdate DEF SlotTables
<1>10. SameButFor(slots, P, c)
  <2>1. \A t \in Slots : F[t].alive = slots[t].alive /\ F[t].mm = slots[t].mm
    BY <1>1 DEF F, Forking, SlotTables, SlotRecords
  <2> QED BY <1>9, <2>1 DEF SameButFor
<1>11. Quiet(P)
  <2>1. Quiet(F)
    BY <1>1, KeepsQuiet DEF IInv, Sound
  <2> QED BY <1>8, <1>9, <2>1 DEF Quiet
<1>12. slots[s].mm \in RegionRefs /\ reg \in RegionTables
  BY <1>0, <1>1 DEF SlotTables, SlotRecords, TypeOK
<1>13. RegionsOk(P, R)
  BY <1>0, <1>1, <1>8, <1>9, <1>10, <1>12, RegionsOkGet DEF IInv, Sound
<1>14. R \in RegionTables
  BY <1>12, GetType
<1>15. LeasedUserEnds(P, R)
  <2>1. LeasedUserEnds(F, reg)
    BY <1>1, SoundKeeps DEF IInv, Sound
  <2>2. \A r \in Regions : R[r].lease = reg[r].lease
    BY <1>12, GetLease
  <2>3. reg[slots[s].mm.index].lease = NoRef
    BY DEF CanGet
  <2> SUFFICES ASSUME NEW t \in Slots, P[t].alive, P[t].mm.index \in Regions,
                      R[P[t].mm.index].lease # NoRef
               PROVE  P[t].intent \in Exits /\ P[t].host \in {"DEAD", "FAILED"}
    BY DEF LeasedUserEnds
  <2>4. reg[P[t].mm.index].lease # NoRef
    BY <2>2
  <2>5. t # c
    BY <1>8, <1>9, <2>3, <2>4
  <2>6. P[t] = F[t]
    BY <1>9, <2>5
  <2> QED BY <2>1, <2>4, <2>6 DEF LeasedUserEnds
<1> QED BY <1>0, <1>8, <1>9, <1>10, <1>11, <1>13, <1>14, <1>15

\* count_child, and the group of the child.
LEMMA ForkGroupsType ==
    ASSUME TypeOK, NEW s \in Slots
    PROVE  ForkGroups(s) \in GroupTables
<1> DEFINE g == slots[s].tgid
           new == [NoGroup EXCEPT !.ppid = g]
<1>1. groups \in [Pids -> Groups] /\ g \in 0..MaxPid
  BY DEF TypeOK, SlotTables, SlotRecords, GroupTables
<1>2. new \in Groups
  BY <1>1, NoGroupType DEF Groups
<1>3. ASSUME NEW k \in Pids
      PROVE  [groups[k] EXCEPT !.kids = @ + 1] \in Groups
  <2> DEFINE grp == groups[k]
  <2>1. grp \in Groups
    BY <1>1
  <2> HIDE DEF grp
  <2>2. grp.kids + 1 \in Nat
    BY <2>1, SMT DEF Groups
  <2>3. [grp EXCEPT !.kids = grp.kids + 1] \in Groups
    BY <2>1, <2>2 DEF Groups
  <2> QED BY <2>3 DEF grp
<1> HIDE DEF new
<1>4. [groups EXCEPT ![g].kids = @ + 1, ![nextPid] = new] \in [Pids -> Groups]
  <2> HIDE DEF g
  <2> QED BY <1>1, <1>2, <1>3
<1> QED BY <1>1, <1>4 DEF GroupTables, ForkGroups, new

\* CLONE_VM: the child joins the region of its parent.
LEMMA ForkSharedIInv ==
    ASSUME IInv, NEW s \in Slots, NEW c \in Slots, ForkShared(s, c)
    PROVE  IInv'
<1> DEFINE P == ForkChild(Reassign(Forking(s), c), s, c, NoRef, NoRef)
           R == Get(reg, slots[s].mm)
<1>0. TypeOK /\ NoRef \in SlotRefs /\ NoRef \in RegionRefs
  BY DEF IInv, SlotRefs, RegionRefs
<1>1. P \in SlotTables /\ Quiet(P) /\ RegionsOk(P, R) /\ R \in RegionTables /\ LeasedUserEnds(P, R)
  BY <1>0, ForkChildType DEF ForkShared
<1>2. PICK h \in Oracles : slots' = ResumeSlot(ParkAndComplete(P, s, h), c, h) /\ Failed(h, 0)
  BY DEF ForkShared
<1>3. reg' = R
  BY DEF ForkShared
<1> HIDE DEF P, R
<1> DEFINE Q == ParkAndComplete(P, s, h)
<1>4. Q \in SlotTables /\ TableKeeps(P, Q)
  BY <1>1, ParkAndCompleteType
<1>5. slots' = ResumeSlot(Q, c, h)
  BY <1>2
<1> HIDE DEF Q
<1>6. slots' \in SlotTables /\ TableKeeps(Q, slots')
  BY <1>4, <1>5, ResumeSlotType
<1>7. TableKeeps(P, slots')
  BY <1>4, <1>6, KeepsTrans
<1>8. Sound(slots', reg')
  BY <1>1, <1>3, <1>7, SoundKeeps DEF Sound
<1>9. used' \in UsedTypes
  BY <1>0, <1>2, FailedType DEF TypeOK, UsedTypes
<1>10. guard' \in [Slots -> Guards] /\ groups' \in GroupTables /\ nextPid' \in Nat
  <2>1. /\ guard' = [guard EXCEPT ![c] = NoGuard] /\ groups' = ForkGroups(s)
        /\ nextPid' = nextPid + 1
    BY DEF ForkShared
  <2>2. guard \in [Slots -> Guards] /\ nextPid \in Nat
    BY <1>0 DEF TypeOK
  <2> QED BY <1>0, <2>1, <2>2, NoGuardType, ForkGroupsType, SMTT(30)
<1>11. TypeOK'
  BY <1>0, <1>1, <1>3, <1>6, <1>9, <1>10 DEF ForkShared, TypeOK, UsedTypes
<1> QED BY <1>8, <1>11 DEF IInv

\* fork and vfork: the child joins the region and leases a snapshot.
LEMMA ForkVforkIInv ==
    ASSUME IInv, NEW s \in Slots, NEW c \in Slots, NEW r \in Regions, ForkVfork(s, c, r)
    PROVE  IInv'
<1> DEFINE Q == Reassign(Forking(s), c)
           own == SlotRefAt(Q, c)
           par == SlotRefAt(Q, s)
           mm == slots[s].mm
           G == Get(reg, mm)
           R == Reserve(G, r, own)
           snap == RegionRefAt(R, r)
           P == ForkChild(Q, s, c, par, snap)
<1>0. TypeOK /\ ForkAdmitted(s, c) /\ ForkPending(s) /\ CanGet(reg, mm) /\ reg \in RegionTables
  BY DEF IInv, TypeOK, ForkVfork, ForkAdmitted
<1> HIDE DEF P, snap, R, G, mm, par, own, Q
<1>1. Q \in SlotTables
  BY <1>0, ForkingType, ReassignType DEF Q
<1>2. own \in SlotRefs /\ par \in SlotRefs /\ own # NoRef
  BY <1>1, SlotRefAtType DEF own, par
<1>3. G \in RegionTables
  BY <1>0, GetType DEF G
<1>4. R \in RegionTables
  BY <1>2, <1>3, ReserveType DEF R
<1>5. snap \in RegionRefs
  BY <1>4, RegionRefAtType DEF snap
<1>6. /\ P \in SlotTables /\ Quiet(P) /\ SameButFor(slots, P, c) /\ ~slots[c].alive
      /\ P[c].mm = mm /\ RegionsOk(P, G) /\ LeasedUserEnds(P, G)
  <2>1. P = ForkChild(Reassign(Forking(s), c), s, c, par, snap)
    BY DEF P, Q
  <2>2. G = Get(reg, slots[s].mm) /\ mm = slots[s].mm /\ CanGet(reg, slots[s].mm)
    BY <1>0 DEF G, mm
  <2> QED BY <1>0, <1>2, <1>5, <2>1, <2>2, ForkChildType, SMTT(30)
<1>7. slots' \in SlotTables /\ TableKeeps(P, slots') /\ used' \in UsedTypes
  <2>1. PICK h \in Oracles : slots' = ResumeSlot(ParkSlot(P, s, h), c, h) /\ Failed(h, 0)
    BY DEF ForkVfork, P, Q, par, snap, R, G, mm, own
  <2> DEFINE K == ParkSlot(P, s, h)
  <2>2. K \in SlotTables /\ TableKeeps(P, K)
    BY <1>6, ParkSlotType
  <2>3. slots' = ResumeSlot(K, c, h)
    BY <2>1
  <2> HIDE DEF K
  <2>4. slots' \in SlotTables /\ TableKeeps(K, slots')
    BY <2>2, <2>3, ResumeSlotType
  <2>5. used' \in UsedTypes
    BY <1>0, <2>1, FailedType DEF TypeOK, UsedTypes
  <2> QED BY <2>2, <2>4, <2>5, KeepsTrans
<1>8. reg' = R
  BY DEF ForkVfork, R, G, mm, own, Q
<1>9. guard' = [guard EXCEPT ![c] = [parent |-> par, region |-> mm, snapshot |-> snap]]
  BY DEF ForkVfork, Q, par, snap, R, G, mm, own
<1>10. mm \in RegionRefs /\ mm.index \in Regions /\ reg[mm.index].refs # 0
  <2>1. slots[s] \in SlotRecords
    BY <1>0 DEF TypeOK, SlotTables
  <2>2. mm \in RegionRefs
    BY <2>1 DEF SlotRecords, mm
  <2> QED BY <1>0, <2>2, SMT DEF CanGet, Names
<1>11. r # mm.index /\ RegionFree(slots, reg, r)
  BY <1>10 DEF ForkVfork, FirstFreeRegion, RegionFree, mm
<1>12. RegionFree(P, G, r)
  <2>1. RegionUsers(P, r) = {}
    BY <1>6, <1>11 DEF RegionFree, RegionUsers, SameButFor
  <2>2. G[r] = reg[r]
    BY <1>0, <1>11 DEF G, Get, RegionTables
  <2> QED BY <1>11, <2>1, <2>2 DEF RegionFree
<1>13. RegionsOk(P, R)
  BY <1>2, <1>3, <1>6, <1>12, RegionsOkReserve DEF R
<1>14. LeasedUserEnds(P, R)
  <2>1. \A t \in Slots : P[t].alive => P[t].mm.index # r
    BY <1>12 DEF RegionFree, RegionUsers
  <2>2. \A q \in Regions : q # r => R[q] = G[q]
    BY <1>3, ReserveLease, SMT DEF R
  <2> QED BY <1>6, <2>1, <2>2 DEF LeasedUserEnds
<1>15. Sound(slots', reg')
  BY <1>6, <1>7, <1>8, <1>13, <1>14, SoundKeeps DEF Sound
<1>16. guard' \in [Slots -> Guards]
  BY <1>0, <1>2, <1>5, <1>9, <1>10 DEF TypeOK, Guards
<1>17. groups' \in GroupTables /\ nextPid' \in Nat
  <2>1. groups' = ForkGroups(s) /\ nextPid' = nextPid + 1
    BY DEF ForkVfork
  <2>2. nextPid \in Nat
    BY <1>0 DEF TypeOK
  <2> QED BY <1>0, <2>1, <2>2, ForkGroupsType, SMT
<1>18. mem' \in [Regions -> 0..MaxPid] /\ saved' \in [Slots -> 0..MaxPid]
  <2>1. mem[mm.index] \in 0..MaxPid
    BY <1>0, <1>10 DEF TypeOK
  <2> QED BY <1>0, <2>1 DEF ForkVfork, TypeOK, mm
<1>19. TypeOK'
  BY <1>0, <1>4, <1>7, <1>8, <1>16, <1>17, <1>18 DEF ForkVfork, TypeOK, UsedTypes
<1> QED BY <1>15, <1>19 DEF IInv

\* lxp_handle_fork
LEMMA HandleForkIInv ==
    ASSUME IInv, NEW s \in Slots, HandleFork(s)
    PROVE  IInv'
BY ForkRefusedIInv, ForkAbortedIInv, ForkSharedIInv, ForkVforkIInv DEF HandleFork

-----------------------------------------------------------------------------
(* lxp_handle_exit.                                                        *)

\* exit_group marks every task of the group.
LEMMA ExitingType ==
    ASSUME IInv, NEW s \in Slots
    PROVE  Exiting(s) \in SlotTables /\ TableKeeps(slots, Exiting(s))
<1> DEFINE E == [t \in Slots |-> IF t \in Members(slots, slots[s].tgid)
                                 THEN [slots[t] EXCEPT !.intent = "EXIT_GROUP"] ELSE slots[t]]
<1>1. slots \in SlotTables
  BY DEF IInv, TypeOK
<1>2. ASSUME NEW t \in Slots
      PROVE  E[t] \in SlotRecords /\ Keeps(slots[t], E[t])
  <2>1. slots[t] \in SlotRecords
    BY <1>1 DEF SlotTables
  <2> DEFINE p == [slots[t] EXCEPT !.intent = "EXIT_GROUP"]
  <2>2. p \in SlotRecords /\ Keeps(slots[t], p)
    BY <2>1 DEF SlotRecords, Keeps, Intents, Exits
  <2>3. Keeps(slots[t], slots[t])
    BY DEF Keeps
  <2>4. E[t] = p \/ E[t] = slots[t]
    OBVIOUS
  <2> HIDE DEF p, E
  <2> QED BY <2>1, <2>2, <2>3, <2>4
<1>3. E \in SlotTables /\ TableKeeps(slots, E)
  <2>1. TableKeeps(slots, E)
    BY <1>2 DEF TableKeeps
  <2>2. E \in SlotTables
    BY <1>2 DEF SlotTables
  <2> QED BY <2>1, <2>2
<1>4. Exiting(s) = IF slots[s].intent = "EXIT_GROUP" THEN E ELSE slots
  BY DEF Exiting
<1> HIDE DEF E
<1> QED BY <1>1, <1>3, <1>4, KeepsSelf

\* The table once every task that must is marked, and the native task is aborted.
LEMMA ExitAbortType ==
    ASSUME IInv, NEW s \in Slots, slots[s].alive, NEW h
    PROVE  LET P == AbortSlot(Exiting(s), s, h)
           IN  /\ P \in SlotTables /\ TableKeeps(slots, P) /\ P[s].alive
               /\ <<"abort", s>> \notin h => P[s].host = "DEAD" /\ ~P[s].runnable
<1> DEFINE E == Exiting(s)
           P == AbortSlot(E, s, h)
<1>1. E \in SlotTables /\ TableKeeps(slots, E)
  BY ExitingType
<1> HIDE DEF E
<1>2. E[s].alive
  BY <1>1 DEF TableKeeps, Keeps
<1>3. P \in SlotTables /\ TableKeeps(E, P)
  BY <1>1, <1>2, AbortSlotType
<1>4. P[s].alive
  BY <1>2, <1>3 DEF TableKeeps, Keeps
<1>5. <<"abort", s>> \notin h => P[s].host = "DEAD" /\ ~P[s].runnable
  BY <1>1 DEF AbortSlot, SlotTables, SlotRecords
<1> HIDE DEF P
<1>6. TableKeeps(slots, P)
  BY <1>1, <1>3, KeepsTrans
<1> QED BY <1>3, <1>4, <1>5, <1>6 DEF P, E

\* A refused abort keeps the process.
LEMMA ExitRetryIInv ==
    ASSUME IInv, NEW s \in Slots, ExitRetry(s)
    PROVE  IInv'
<1>1. PICK h \in Oracles : slots' = AbortSlot(Exiting(s), s, h) /\ Failed(h, 0)
  BY DEF ExitRetry
<1>2. slots' \in SlotTables /\ TableKeeps(slots, slots')
  BY <1>1, ExitAbortType DEF ExitRetry
<1>3. used' \in UsedTypes
  BY <1>1, FailedType DEF IInv, TypeOK, UsedTypes
<1>4. groups' \in GroupTables
  BY DEF ExitRetry, IInv, TypeOK
<1> QED BY <1>2, <1>3, <1>4, NativeStep DEF ExitRetry

\* The slot of a task that is gone.
LEMMA DepartedType ==
    ASSUME NEW P \in SlotTables, NEW s \in Slots, Sound(P, reg),
           P[s].host = "DEAD" /\ ~P[s].runnable
    PROVE  /\ Departed(P, s) \in SlotTables /\ ~Departed(P, s)[s].alive
           /\ Quiet(Departed(P, s)) /\ LeasedUserEnds(Departed(P, s), reg)
           /\ SameButFor(P, Departed(P, s), s)
<1> DEFINE Q == IF ExitStale(P, s) THEN ContainSlots(P, s) ELSE P
           p == [Q[s] EXCEPT !.alive = FALSE, !.runnable = FALSE, !.mm = NoRef]
           M == [Q EXCEPT ![s] = p]
           D == Departed(P, s)
<1>1. Q \in SlotTables /\ TableKeeps(P, Q)
  BY ContainSlotsType, KeepsSelf
<1>2. Q[s].host = "DEAD" /\ \A t \in Slots : Q[t].mm = P[t].mm
  BY ContainSlotsType
<1>3. D = Reassign(M, s)
  BY DEF Departed
<1> HIDE DEF Q, D
<1>4. p \in SlotRecords /\ ~p.alive /\ ~p.runnable /\ p.host = "DEAD"
  <2>1. Q[s] \in SlotRecords /\ NoRef \in RegionRefs
    BY <1>1 DEF SlotTables, RegionRefs
  <2> QED BY <1>2, <2>1 DEF SlotRecords
<1> HIDE DEF p
<1>5. M \in SlotTables /\ M[s] = p /\ \A t \in Slots : t # s => M[t] = Q[t]
  BY <1>1, <1>4, SlotUpdate DEF SlotTables
<1> HIDE DEF M
<1>6. D \in SlotTables
  BY <1>3, <1>5, ReassignType
<1>7. /\ ~D[s].alive /\ ~D[s].runnable /\ D[s].host = "DEAD"
      /\ \A t \in Slots : t # s => D[t] = Q[t]
  BY <1>3, <1>4, <1>5 DEF Reassign, SlotTables, SlotRecords
<1>8. Quiet(Q) /\ LeasedUserEnds(Q, reg)
  BY <1>1, SoundKeeps DEF Sound
<1>9. Quiet(D)
  BY <1>7, <1>8 DEF Quiet
<1>10. LeasedUserEnds(D, reg)
  BY <1>7, <1>8 DEF LeasedUserEnds
<1>11. SameButFor(P, D, s)
  BY <1>1, <1>2, <1>7 DEF SameButFor, TableKeeps, Keeps
<1> QED BY <1>6, <1>7, <1>9, <1>10, <1>11 DEF D

\* The child's snapshot lease, if it is still the child's, and the region it ran
\* in are both given back; they are the same region for a task whose launch was
\* refused after its image had been published.
LEMMA ExitRegionsOk ==
    ASSUME TypeOK, NEW P \in SlotTables, NEW D \in SlotTables, NEW s \in Slots, Sound(P, reg),
           P[s].alive, ~D[s].alive, SameButFor(P, D, s)
    PROVE  RegionsOk(D, Put(ContainRegions(P, reg, s), P[s].mm))
<1> DEFINE ref == guard[s].snapshot
           own == SlotRefAt(P, s)
           R == ContainRegions(P, reg, s)
           x == ref.index
<1>1. /\ reg \in RegionTables /\ ref \in RegionRefs
      /\ own.index = s /\ own # NoRef /\ RegionsOk(P, reg)
  <2>1. reg \in RegionTables /\ guard[s] \in Guards
    BY DEF TypeOK
  <2>2. own.index = s /\ own # NoRef
    BY SlotRefAtType
  <2> QED BY <2>1, <2>2 DEF Guards, Sound
<1>2. R = ReleaseIfOwned(reg, ref, own)
  BY DEF ContainRegions
<1> HIDE DEF R, own
<1>3. R \in RegionTables
  BY <1>1, <1>2, ReleaseType
<1>4. CASE LeaseMatches(reg, ref, own) => RegionUsers(P, x) = {}
  <2>1. RegionsOk(P, R)
    BY <1>1, <1>2, <1>4, RegionsOkRelease
  <2>2. RegionsOk(D, Put(R, P[s].mm))
    BY <1>3, <2>1, RegionsOkPut
  <2> QED BY <2>2 DEF R
<1>5. CASE LeaseMatches(reg, ref, own) /\ RegionUsers(P, x) # {}
  <2>1. x \in Regions /\ Names(reg, ref) /\ reg[x].refs = 1 /\ reg[x].lease = own
    BY <1>5 DEF LeaseMatches, Names
  <2>2. RegionUsers(P, x) \subseteq {s} /\ \A t \in RegionUsers(P, x) : P[t].mm = RegionRefAt(reg, x)
    BY <1>1, <2>1 DEF RegionsOk, RegionOk
  <2>3. P[s].mm = RegionRefAt(reg, x)
    BY <1>5, <2>2
  <2>4. P[s].mm = ref
    BY <1>1, <2>1, <2>3 DEF RegionRefAt, RegionRefs, Names, NoRef, Regions
  <2>5. R = Put(reg, P[s].mm)
    BY <1>2, <1>5, <2>4 DEF ReleaseIfOwned
  <2>6. R[x].refs = 0
    BY <1>1, <2>1, <2>4, <2>5 DEF Put, RegionTables
  <2>7. Put(R, P[s].mm) = R
    BY <2>4, <2>6 DEF Put
  <2>8. RegionsOk(D, Put(R, P[s].mm))
    BY <1>1, <2>5, <2>7, RegionsOkPut
  <2> QED BY <2>8 DEF R
<1> QED BY <1>4, <1>5

\* What every exit establishes.
LEMMA ExitBeginsSound ==
    ASSUME IInv, NEW s \in Slots, NEW h \in Oracles, NEW P, P = AbortSlot(Exiting(s), s, h),
           ExitBegins(s, P, h)
    PROVE  /\ P \in SlotTables /\ Departed(P, s) \in SlotTables
           /\ Sound(Departed(P, s), reg') /\ reg' \in RegionTables
           /\ guard' \in [Slots -> Guards] /\ mem' \in [Regions -> 0..MaxPid]
           /\ used' \in UsedTypes /\ UNCHANGED <<saved, nextPid>>
<1> DEFINE D == Departed(P, s)
           R == IF ExitBorrows(P, s) THEN ContainRegions(P, reg, s) ELSE reg
<1>0. TypeOK /\ reg \in RegionTables
  BY DEF IInv, TypeOK
<1>1. P \in SlotTables /\ TableKeeps(slots, P) /\ P[s].alive /\ P[s].host = "DEAD" /\ ~P[s].runnable
  BY ExitAbortType DEF ExitBegins
<1>2. Sound(P, reg)
  BY <1>0, <1>1, SoundKeeps DEF IInv, TypeOK
<1>3. /\ D \in SlotTables /\ ~D[s].alive /\ Quiet(D) /\ LeasedUserEnds(D, reg)
      /\ SameButFor(P, D, s)
  BY <1>1, <1>2, DepartedType
<1> HIDE DEF D
<1>4. reg' = Put(R, P[s].mm)
  BY DEF ExitBegins
<1>5. R \in RegionTables /\ \A r \in Regions : R[r].lease \in {NoRef, reg[r].lease}
  BY <1>0, ReleaseType, ReleaseLease DEF ContainRegions
<1>6. RegionsOk(D, reg')
  <2>1. CASE ExitBorrows(P, s)
    BY <1>0, <1>1, <1>2, <1>3, <1>4, <2>1, ExitRegionsOk
  <2>2. CASE ~ExitBorrows(P, s)
    BY <1>0, <1>1, <1>2, <1>3, <1>4, <2>2, RegionsOkPut DEF Sound
  <2> QED BY <2>1, <2>2
<1> HIDE DEF R
<1>7. reg' \in RegionTables /\ \A r \in Regions : reg'[r].lease \in {NoRef, reg[r].lease}
  BY <1>4, <1>5, PutType, PutLease
<1>8. LeasedUserEnds(D, reg')
  BY <1>3, <1>7 DEF LeasedUserEnds
<1>9. guard' \in [Slots -> Guards]
  BY <1>0, NoGuardType DEF ExitBegins, TypeOK
<1>10. mem' \in [Regions -> 0..MaxPid]
  BY <1>0, <1>1, RestoredType DEF ExitBegins, ExitBorrows, TypeOK
<1>11. used' \in UsedTypes /\ UNCHANGED <<saved, nextPid>>
  BY <1>0, FailedType DEF ExitBegins, TypeOK, UsedTypes
<1> QED BY <1>1, <1>3, <1>6, <1>7, <1>8, <1>9, <1>10, <1>11 DEF Sound, D

\* The vfork parent gets the pid of the child.
LEMMA ParentReleasedType ==
    ASSUME NEW P, NEW s \in Slots, NEW h, Departed(P, s) \in SlotTables
    PROVE  ParentReleased(P, s, h) \in SlotTables
           /\ TableKeeps(Departed(P, s), ParentReleased(P, s, h))
BY CompleteSlotType, KeepsSelf DEF ParentReleased

\* lxp_handle_exit
LEMMA HandleExitIInv ==
    ASSUME IInv, NEW s \in Slots, HandleExit(s)
    PROVE  IInv'
<1>1. CASE ExitRetry(s)
  BY <1>1, ExitRetryIInv
<1>2. ASSUME NEW h \in Oracles, NEW P, P = AbortSlot(Exiting(s), s, h),
             ExitThread(s, P, h) \/ ExitInit(s, P, h) \/ ExitProcess(s, P, h)
      PROVE  IInv'
  <2> DEFINE D == Departed(P, s)
             E == ParentReleased(P, s, h)
             g == P[s].tgid
             ev == [pid |-> g, kind |-> "EXITED"]
  <2>1. ExitBegins(s, P, h)
    BY <1>2 DEF ExitThread, ExitInit, ExitProcess
  <2>2. /\ P \in SlotTables /\ D \in SlotTables
        /\ Sound(D, reg') /\ reg' \in RegionTables
        /\ guard' \in [Slots -> Guards] /\ mem' \in [Regions -> 0..MaxPid]
        /\ used' \in UsedTypes /\ UNCHANGED <<saved, nextPid>>
    BY <1>2, <2>1, ExitBeginsSound
  <2>3. E \in SlotTables /\ TableKeeps(D, E)
    BY <2>2, ParentReleasedType
  <2> HIDE DEF D, E
  <2>4. slots' \in SlotTables /\ TableKeeps(D, slots') /\ groups' \in GroupTables
        /\ phase' \in {"DOWN", "UP", "STOPPING"}
    <3>0. groups \in GroupTables /\ phase \in {"DOWN", "UP", "STOPPING"}
      BY DEF IInv, TypeOK
    <3>1. CASE ExitThread(s, P, h)
      BY <2>3, <3>0, <3>1 DEF ExitThread, E
    <3>2. CASE ExitInit(s, P, h)
      <4>1. slots' = D /\ phase' = "STOPPING" /\ groups' = [groups EXCEPT ![1] = NoGroup]
        BY <3>2 DEF ExitInit, D
      <4>2. groups' \in GroupTables
        BY <3>0, <4>1, NoGroupType DEF GroupTables
      <4> QED BY <2>2, <4>1, <4>2, KeepsSelf
    <3>3. CASE ExitProcess(s, P, h)
      <4>1. ev \in Events
        BY <2>2 DEF Events, Kinds, SlotTables, SlotRecords
      <4> HIDE DEF ev
      <4>2. PICK t \in Slots \cup {-1} :
                   /\ slots' = ChildSlots(E, t, ev, h)
                   /\ groups' = [ChildGroups(E, groups, t, ev) EXCEPT ![g] = NoGroup]
        BY <3>3 DEF ExitProcess, E, ev
      <4>3. Quiet(E)
        BY <2>2, <2>3, KeepsQuiet DEF Sound
      <4>4. slots' \in SlotTables /\ TableKeeps(E, slots')
        BY <2>3, <4>2, <4>3, ChildSlotsType
      <4>5. groups' \in GroupTables
        BY <3>0, <4>1, <4>2, ChildGroupsType, NoGroupType DEF GroupTables
      <4> QED BY <2>3, <3>0, <3>3, <4>4, <4>5, KeepsTrans DEF ExitProcess
    <3> QED BY <1>2, <3>1, <3>2, <3>3
  <2>5. Sound(slots', reg')
    BY <2>2, <2>4, SoundKeeps
  <2>6. TypeOK'
    BY <2>2, <2>4 DEF IInv, TypeOK, UsedTypes
  <2> QED BY <2>5, <2>6 DEF IInv
<1> QED BY <1>1, <1>2 DEF HandleExit

-----------------------------------------------------------------------------
(* lxp_handle_exec.                                                        *)

\* The exec intent is completed.
LEMMA ExecingType ==
    ASSUME IInv, NEW s \in Slots, ExecPending(s)
    PROVE  Execing(s) \in SlotTables /\ TableKeeps(slots, Execing(s))
<1> DEFINE p == [slots[s] EXCEPT !.intent = "NONE"]
<1>1. slots \in SlotTables /\ slots[s] \in SlotRecords
  BY DEF IInv, TypeOK, SlotTables
<1>2. p \in SlotRecords /\ Keeps(slots[s], p)
  BY <1>1 DEF SlotRecords, Intents, Keeps, ExecPending, Exits
<1>3. Execing(s) = [slots EXCEPT ![s] = p]
  BY <1>1 DEF Execing, SlotTables
<1> HIDE DEF p
<1> QED BY <1>1, <1>2, <1>3, SlotStep

\* An exec refused before its commit point.
LEMMA ExecRefusedIInv ==
    ASSUME IInv, NEW s \in Slots, ExecRefused(s)
    PROVE  IInv'
<1>1. PICK h \in Oracles :
             slots' = CompleteSlot(Execing(s), SlotRefAt(slots, s), h) /\ Failed(h, 0)
  BY DEF ExecRefused
<1>2. Execing(s) \in SlotTables /\ TableKeeps(slots, Execing(s))
  BY ExecingType DEF ExecRefused
<1>3. slots' \in SlotTables /\ TableKeeps(slots, slots')
  BY <1>1, <1>2, CompleteSlotType, KeepsTrans
<1>4. used' \in UsedTypes /\ groups' \in GroupTables
  BY <1>1, FailedType DEF IInv, TypeOK, UsedTypes, ExecRefused
<1> QED BY <1>3, <1>4, NativeStep DEF ExecRefused

\* A parked task runs in no leased region, so a lease of its own is of a region
\* without tasks.
LEMMA OwnLeaseUnused ==
    ASSUME IInv, NEW s \in Slots, slots[s].host = "PARKED", NEW ref,
           LeaseMatches(reg, ref, SlotRefAt(slots, s))
    PROVE  RegionUsers(slots, ref.index) = {}
<1> DEFINE x == ref.index
<1>1. x \in Regions /\ reg[x].lease = SlotRefAt(slots, s) /\ reg[x].lease # NoRef
      /\ reg[x].lease.index = s
  BY SMT DEF LeaseMatches, Names, SlotRefAt, NoRef, Slots
<1>2. RegionUsers(slots, x) \subseteq {s}
  BY <1>1 DEF IInv, Sound, RegionsOk, RegionOk
<1>3. s \notin RegionUsers(slots, x)
  BY <1>1 DEF IInv, Sound, LeasedUserEnds, RegionUsers
<1> QED BY <1>2, <1>3

\* lxp_vfork_contain_stale in exec: the lease is released, the task exits.
LEMMA ExecContainedIInv ==
    ASSUME IInv, NEW s \in Slots, ExecContained(s)
    PROVE  IInv'
<1> DEFINE own == SlotRefAt(slots, s)
           ref == guard[s].snapshot
<1>0. TypeOK /\ ExecPending(s) /\ slots \in SlotTables /\ reg \in RegionTables
  BY DEF IInv, TypeOK, ExecContained
<1>1. Execing(s) \in SlotTables /\ TableKeeps(slots, Execing(s))
  BY <1>0, ExecingType
<1>2. slots' \in SlotTables /\ TableKeeps(slots, slots')
  BY <1>1, ContainSlotsType, KeepsTrans DEF ExecContained
<1>3. reg' = ReleaseIfOwned(reg, ref, own)
  BY DEF ExecContained, ContainRegions
<1>4. LeaseMatches(reg, ref, own) => RegionUsers(slots, ref.index) = {}
  BY <1>0, OwnLeaseUnused DEF ExecPending
<1>5. RegionsOk(slots, reg')
  BY <1>0, <1>3, <1>4, RegionsOkRelease DEF IInv, Sound
<1>6. reg' \in RegionTables /\ \A r \in Regions : reg'[r].lease \in {NoRef, reg[r].lease}
  BY <1>0, <1>3, ReleaseType, ReleaseLease
<1>7. LeasedUserEnds(slots, reg')
  BY <1>6 DEF IInv, Sound, LeasedUserEnds
<1>8. Sound(slots', reg')
  BY <1>0, <1>2, <1>5, <1>7, SoundKeeps DEF IInv, Sound
<1>9. guard' \in [Slots -> Guards]
  BY <1>0, NoGuardType DEF ExecContained, TypeOK
<1>10. TypeOK'
  BY <1>0, <1>2, <1>6, <1>9 DEF ExecContained, TypeOK
<1> QED BY <1>8, <1>10 DEF IInv

\* The region reserved for the new image is leased to the task and unused.
LEMMA ExecTargetOk ==
    ASSUME IInv, NEW s \in Slots, ExecPending(s), ~ExecStale(s), NEW x \in ExecTargets(s)
    PROVE  /\ x.R \in RegionTables /\ x.ref \in RegionRefs
           /\ RegionsOk(slots, x.R) /\ LeasedUserEnds(slots, x.R)
           /\ LeaseMatches(x.R, x.ref, SlotRefAt(slots, s))
           /\ RegionUsers(slots, x.ref.index) = {}
<1> DEFINE own == SlotRefAt(slots, s)
<1>0. slots \in SlotTables /\ reg \in RegionTables /\ slots[s] \in SlotRecords
      /\ RegionsOk(slots, reg) /\ LeasedUserEnds(slots, reg)
  BY DEF IInv, Sound, TypeOK, SlotTables
<1>1. own \in SlotRefs /\ own # NoRef
  BY <1>0, SlotRefAtType
<1> HIDE DEF own
<1>2. CASE slots[s].snap # NoRef
  <2>1. x.R = reg /\ x.ref = slots[s].snap
    BY <1>2, SMT DEF ExecTargets
  <2>2. LeaseMatches(reg, slots[s].snap, own)
    BY <1>2 DEF ExecStale, own
  <2>3. RegionUsers(slots, slots[s].snap.index) = {}
    BY <2>2, OwnLeaseUnused DEF ExecPending, own
  <2>4. slots[s].snap \in RegionRefs
    BY <1>0 DEF SlotRecords
  <2> QED BY <1>0, <2>1, <2>2, <2>3, <2>4 DEF own
<1>3. CASE slots[s].snap = NoRef
  <2>1. PICK r \in Regions :
               /\ FirstFreeRegion(reg, r)
               /\ x = [R |-> Reserve(reg, r, own),
                       ref |-> [index |-> r, gen |-> GenNext(reg[r].gen)]]
    BY <1>3 DEF ExecTargets, own
  <2>2. x.R = Reserve(reg, r, own) /\ x.ref = [index |-> r, gen |-> GenNext(reg[r].gen)]
    BY <2>1
  <2>3. RegionFree(slots, reg, r) /\ RegionUsers(slots, r) = {}
    BY <2>1 DEF FirstFreeRegion, RegionFree
  <2>4. x.ref \in RegionRefs /\ x.ref.index = r
    <3>1. reg[r].gen \in 0..GenMax
      BY <1>0 DEF RegionTables
    <3>2. GenNext(reg[r].gen) \in 0..GenMax
      BY <3>1, GenNextType, TableAssumption, SMTT(30)
    <3> QED BY <2>2, <3>2, SMT DEF RegionRefs
  <2>5. x.R \in RegionTables /\ RegionsOk(slots, x.R) /\ LeaseMatches(x.R, x.ref, own)
    BY <1>0, <1>1, <2>2, <2>3, ReserveType, RegionsOkReserve
  <2>6. LeasedUserEnds(slots, x.R)
    <3>1. \A t \in Slots : slots[t].alive => slots[t].mm.index # r
      BY <2>3 DEF RegionUsers
    <3>2. \A q \in Regions : q # r => x.R[q] = reg[q]
      BY <1>0, <2>2, ReserveLease, SMT
    <3> QED BY <1>0, <3>1, <3>2 DEF LeasedUserEnds
  <2> QED BY <2>3, <2>4, <2>5, <2>6 DEF own
<1> QED BY <1>2, <1>3

\* stop_exec_peers: the other tasks of the group are aborted and exit.
LEMMA CommittedType ==
    ASSUME IInv, NEW s \in Slots, ExecPending(s), NEW h
    PROVE  Committed(s, h) \in SlotTables /\ TableKeeps(slots, Committed(s, h))
<1> DEFINE C == Committed(s, h)
           own == [slots[s] EXCEPT !.intent = "NONE", !.snap = NoRef]
<1>0. slots \in SlotTables /\ slots[s] \in SlotRecords /\ NoRef \in RegionRefs
  BY DEF IInv, TypeOK, SlotTables, RegionRefs
<1>1. own \in SlotRecords /\ Keeps(slots[s], own)
  BY <1>0 DEF SlotRecords, Intents, Keeps, ExecPending, Exits
<1>2. ASSUME NEW t \in Slots, t # s, t \in ExecPeers(s)
      PROVE  C[t] \in SlotRecords /\ Keeps(slots[t], C[t])
  <2> DEFINE A == AbortSlot(slots, t, h)
             E == ExitSlot(A, t, "EXIT")
  <2>1. slots[t].alive
    BY <1>2 DEF ExecPeers, Members
  <2>2. A \in SlotTables /\ TableKeeps(slots, A)
    BY <1>0, <2>1, AbortSlotType
  <2> HIDE DEF A
  <2>3. E \in SlotTables /\ TableKeeps(A, E)
    BY <2>2, ExitSlotType DEF Exits
  <2>4. C[t] = E[t]
    BY <1>2 DEF Committed, A
  <2> HIDE DEF E, C
  <2>5. TableKeeps(slots, E)
    BY <2>2, <2>3, KeepsTrans
  <2> QED BY <2>3, <2>4, <2>5 DEF TableKeeps, SlotTables
<1>3. ASSUME NEW t \in Slots, t # s, t \notin ExecPeers(s)
      PROVE  C[t] = slots[t] /\ slots[t] \in SlotRecords
  BY <1>0, <1>3 DEF Committed, SlotTables
<1>4. C[s] = own
  BY DEF Committed
<1>5. \A t \in Slots : C[t] \in SlotRecords /\ Keeps(slots[t], C[t])
  <2> HIDE DEF C, own
  <2>1. TableKeeps(slots, slots)
    BY KeepsSelf
  <2> QED BY <1>1, <1>2, <1>3, <1>4, <2>1 DEF TableKeeps
<1>6. C \in SlotTables
  BY <1>5 DEF Committed, SlotTables
<1>7. TableKeeps(slots, C)
  BY <1>5 DEF TableKeeps
<1> QED BY <1>6, <1>7

\* The tables once the task has left its old region and the lease of the new one
\* has moved to the incarnation new.
ExecGone(s, h) == [Committed(s, h) EXCEPT ![s] = [Cleared(@) EXCEPT !.host = "DEAD"]]
ExecMoved(s, R, ref, new) ==
    LeaseReassign(Put(R, slots[s].mm), ref, SlotRefAt(slots, s), new)

\* Such a table is typed and quiet, and has the same tasks, s apart.
LEMMA ExecGoneType ==
    ASSUME IInv, NEW s \in Slots, ExecPending(s), NEW h
    PROVE  /\ ExecGone(s, h) \in SlotTables /\ Quiet(ExecGone(s, h))
           /\ ~ExecGone(s, h)[s].alive /\ ExecGone(s, h)[s].host = "DEAD"
           /\ ~ExecGone(s, h)[s].runnable
           /\ \A t \in Slots \ {s} : ExecGone(s, h)[t] = Committed(s, h)[t]
           /\ SameButFor(slots, ExecGone(s, h), s)
           /\ \A R : LeasedUserEnds(slots, R) => LeasedUserEnds(ExecGone(s, h), R)
<1> DEFINE C == Committed(s, h)
           p == [Cleared(C[s]) EXCEPT !.host = "DEAD"]
           M == ExecGone(s, h)
<1>1. C \in SlotTables /\ TableKeeps(slots, C) /\ C[s] \in SlotRecords
      /\ Cleared(C[s]) \in SlotRecords
  BY CommittedType, ClearedType DEF SlotTables
<1>2. \A t \in Slots : slots[t].alive = C[t].alive
  BY <1>1 DEF TableKeeps, Keeps
<1>3. \A t \in Slots \ {s} : C[t].mm = slots[t].mm
  <2> TAKE t \in Slots \ {s}
  <2>1. CASE t \in ExecPeers(s)
    BY <1>1, <2>1 DEF ExecPeers, Members, TableKeeps, Keeps
  <2>2. CASE t \notin ExecPeers(s)
    BY <2>2 DEF Committed
  <2> QED BY <2>1, <2>2
<1>4. Quiet(C)
  BY <1>1, KeepsQuiet DEF IInv, Sound
<1>5. M = [C EXCEPT ![s] = p]
  BY <1>1 DEF ExecGone, SlotTables
<1>6. p \in SlotRecords
  BY <1>1 DEF SlotRecords, Hosts
<1>7. ~p.alive /\ p.host = "DEAD" /\ ~p.runnable
  BY <1>1 DEF Cleared, SlotRecords
<1> HIDE DEF p, C, M
<1>8. M \in SlotTables /\ M[s] = p /\ \A t \in Slots \ {s} : M[t] = C[t]
  BY <1>1, <1>5, <1>6, SlotUpdate DEF SlotTables
<1>9. Quiet(M)
  BY <1>4, <1>7, <1>8 DEF Quiet
<1>10. SameButFor(slots, M, s)
  BY <1>2, <1>3, <1>8 DEF SameButFor
<1>11. ASSUME NEW R, LeasedUserEnds(slots, R)
       PROVE  LeasedUserEnds(M, R)
  <2> SUFFICES ASSUME NEW t \in Slots, M[t].alive, M[t].mm.index \in Regions,
                      R[M[t].mm.index].lease # NoRef
               PROVE  M[t].intent \in Exits /\ M[t].host \in {"DEAD", "FAILED"}
    BY DEF LeasedUserEnds
  <2>1. t # s /\ M[t] = C[t] /\ slots[t].alive /\ slots[t].mm = C[t].mm
    BY <1>2, <1>3, <1>7, <1>8
  <2>2. slots[t].intent \in Exits /\ slots[t].host \in {"DEAD", "FAILED"}
    BY <1>11, <2>1 DEF LeasedUserEnds
  <2> QED BY <1>1, <2>1, <2>2 DEF TableKeeps, Keeps
<1> QED BY <1>7, <1>8, <1>9, <1>10, <1>11 DEF C, M

\* Such a pair of tables is sound, and nothing runs in the new region yet.
LEMMA ExecMovedSound ==
    ASSUME IInv, NEW s \in Slots, ExecPending(s), ~ExecStale(s), NEW x \in ExecTargets(s),
           NEW h, NEW new \in SlotRefs, new # NoRef
    PROVE  LET M == ExecGone(s, h)
               T == ExecMoved(s, x.R, x.ref, new)
           IN  /\ T \in RegionTables /\ Sound(M, T)
               /\ LeaseMatches(T, x.ref, new) /\ RegionUsers(M, x.ref.index) = {}
<1> DEFINE M == ExecGone(s, h)
           own == SlotRefAt(slots, s)
           U == Put(x.R, slots[s].mm)
           T == LeaseReassign(U, x.ref, own, new)
           i == x.ref.index
<1>1. /\ x.R \in RegionTables /\ x.ref \in RegionRefs
      /\ RegionsOk(slots, x.R) /\ LeasedUserEnds(slots, x.R)
      /\ LeaseMatches(x.R, x.ref, own) /\ RegionUsers(slots, i) = {}
  BY ExecTargetOk
<1>2. /\ M \in SlotTables /\ Quiet(M) /\ ~M[s].alive /\ SameButFor(slots, M, s)
      /\ LeasedUserEnds(M, x.R)
  BY <1>1, ExecGoneType
<1>3. slots \in SlotTables /\ slots[s].alive /\ own # NoRef
  BY SlotRefAtType DEF IInv, TypeOK, ExecPending
<1> HIDE DEF M, own
<1>4. U \in RegionTables /\ RegionsOk(M, U)
  BY <1>1, <1>2, <1>3, PutType, RegionsOkPut
<1>5. i \in Regions /\ slots[s].mm.index # i
  BY <1>1, <1>3 DEF LeaseMatches, Names, RegionUsers
<1>6. U[i] = x.R[i]
  BY <1>1, <1>5 DEF Put, RegionTables
<1>7. LeaseMatches(U, x.ref, own)
  BY <1>1, <1>6 DEF LeaseMatches, Names
<1>8. RegionUsers(M, i) = {}
  BY <1>1, <1>2 DEF RegionUsers, SameButFor
<1>9. \A r \in Regions : U[r].lease \in {NoRef, x.R[r].lease}
  BY <1>1, PutLease
<1> HIDE DEF U
<1>10. T \in RegionTables /\ RegionsOk(M, T) /\ LeaseMatches(T, x.ref, new)
  BY <1>2, <1>3, <1>4, <1>7, <1>8, LeaseReassignType, RegionsOkLease
<1>11. \A r \in Regions : r # i => T[r] = U[r]
  BY <1>4, LeaseReassignLease, SMTT(30)
<1> HIDE DEF T
<1>12. LeasedUserEnds(M, T)
  <2> SUFFICES ASSUME NEW t \in Slots, M[t].alive, M[t].mm.index \in Regions,
                      T[M[t].mm.index].lease # NoRef
               PROVE  M[t].intent \in Exits /\ M[t].host \in {"DEAD", "FAILED"}
    BY DEF LeasedUserEnds
  <2>1. M[t].mm.index # i
    BY <1>8 DEF RegionUsers
  <2>2. x.R[M[t].mm.index].lease # NoRef
    BY <1>9, <1>11, <2>1
  <2> QED BY <1>2, <2>2 DEF LeasedUserEnds
<1> QED BY <1>2, <1>8, <1>10, <1>12 DEF Sound, M, T, U, own, ExecMoved

\* The memory and the guard after the commit point.
LEMMA ExecMemType ==
    ASSUME IInv, NEW s \in Slots, ~ExecStale(s)
    PROVE  ExecMem(s) \in [Regions -> 0..MaxPid] /\ ExecGuard(s) \in [Slots -> Guards]
<1>1. TypeOK /\ slots \in SlotTables
  BY DEF IInv, TypeOK
<1>2. ExecMem(s) \in [Regions -> 0..MaxPid]
  BY <1>1, RestoredType DEF ExecMem, ExecStale, TypeOK
<1>3. ExecGuard(s) \in [Slots -> Guards]
  BY <1>1, NoGuardType DEF ExecGuard, TypeOK
<1> QED BY <1>2, <1>3

\* lxp_exec_txn_abort with the task refusing to be aborted.
LEMMA ExecStuckIInv ==
    ASSUME IInv, NEW s \in Slots, NEW x \in ExecTargets(s), ExecStuck(s, x.R, x.ref)
    PROVE  IInv'
<1> DEFINE own == SlotRefAt(slots, s)
<1>1. PICK h \in Oracles :
             /\ ExecPending(s) /\ ~ExecStale(s)
             /\ slots' = AbortSlot(Committed(s, h), s, h)
             /\ reg' = ReleaseIfOwned(x.R, x.ref, own)
             /\ guard' = ExecGuard(s) /\ mem' = ExecMem(s)
             /\ Failed(h, 0) /\ UNCHANGED <<phase, groups, saved, nextPid>>
  BY DEF ExecStuck
<1>2. Committed(s, h) \in SlotTables /\ TableKeeps(slots, Committed(s, h))
  BY <1>1, CommittedType
<1>3. Committed(s, h)[s].alive
  BY <1>1, <1>2 DEF TableKeeps, Keeps, ExecPending
<1>4. slots' \in SlotTables /\ TableKeeps(slots, slots')
  BY <1>1, <1>2, <1>3, AbortSlotType, KeepsTrans
<1>5. /\ x.R \in RegionTables /\ RegionsOk(slots, x.R) /\ LeasedUserEnds(slots, x.R)
      /\ RegionUsers(slots, x.ref.index) = {}
  BY <1>1, ExecTargetOk
<1>6. slots \in SlotTables /\ Quiet(slots) /\ used \in UsedTypes
  BY DEF IInv, Sound, TypeOK, UsedTypes
<1>7. reg' \in RegionTables /\ RegionsOk(slots, reg')
      /\ \A r \in Regions : reg'[r].lease \in {NoRef, x.R[r].lease}
  BY <1>1, <1>5, <1>6, ReleaseType, RegionsOkRelease, ReleaseLease
<1>8. LeasedUserEnds(slots, reg')
  BY <1>5, <1>7 DEF LeasedUserEnds
<1>9. Sound(slots', reg')
  BY <1>4, <1>6, <1>7, <1>8, SoundKeeps DEF Sound
<1>10. guard' \in [Slots -> Guards] /\ mem' \in [Regions -> 0..MaxPid] /\ used' \in UsedTypes
  BY <1>1, <1>6, ExecMemType, FailedType
<1>11. TypeOK'
  BY <1>1, <1>4, <1>7, <1>10 DEF IInv, TypeOK, UsedTypes
<1> QED BY <1>9, <1>11 DEF IInv

\* lxp_exec_txn_commit and adopt: the new image owns the new region.
LEMMA ExecDoneIInv ==
    ASSUME IInv, NEW s \in Slots, NEW x \in ExecTargets(s), ExecDone(s, x.R, x.ref)
    PROVE  IInv'
<1> DEFINE p(h) == [Cleared(Committed(s, h)[s]) EXCEPT
                      !.alive = TRUE, !.host = "RUNNING", !.runnable = TRUE,
                      !.pid = slots[s].pid, !.tgid = slots[s].tgid, !.mm = x.ref]
           Q(h) == Reassign([Committed(s, h) EXCEPT ![s] = p(h)], s)
           new(h) == SlotRefAt(Q(h), s)
           T(h) == ExecMoved(s, x.R, x.ref, new(h))
<1>0. TypeOK /\ slots \in SlotTables /\ slots[s] \in SlotRecords
  BY DEF IInv, TypeOK, SlotTables
<1>1. PICK h \in Oracles :
             /\ ExecPending(s) /\ ~ExecStale(s)
             /\ slots' = CompleteSlot(Reassign([Committed(s, h) EXCEPT ![s] =
                 [Cleared(@) EXCEPT !.alive = TRUE, !.host = "RUNNING", !.runnable = TRUE,
                                    !.pid = slots[s].pid, !.tgid = slots[s].tgid,
                                    !.mm = x.ref]], s), slots[s].vpar, h)
             /\ reg' = CommitAddressSpace(T(h), x.ref, new(h))
             /\ guard' = ExecGuard(s) /\ mem' = [ExecMem(s) EXCEPT ![x.ref.index] = 0]
             /\ Failed(h, 0) /\ UNCHANGED <<phase, groups, saved, nextPid>>
  BY DEF ExecDone, ExecMoved
<1> DEFINE C == Committed(s, h)
           M == ExecGone(s, h)
<1>2. C \in SlotTables /\ C[s] \in SlotRecords /\ Cleared(C[s]) \in SlotRecords
  BY <1>1, CommittedType, ClearedType DEF SlotTables
<1>3. x.ref \in RegionRefs
  BY <1>1, ExecTargetOk
<1>4. p(h) \in SlotRecords
  BY <1>0, <1>2, <1>3 DEF SlotRecords, Hosts
<1>5. p(h).alive /\ p(h).mm = x.ref
  BY <1>2 DEF SlotRecords
<1>6. slots' = CompleteSlot(Q(h), slots[s].vpar, h)
  BY <1>1, <1>2 DEF SlotTables
<1> HIDE DEF p, C
<1>7. [C EXCEPT ![s] = p(h)] \in SlotTables
  BY <1>2, <1>4, SlotUpdate
<1>8. Q(h) \in SlotTables /\ new(h) \in SlotRefs /\ new(h) # NoRef
  <2>1. Q(h) \in SlotTables
    BY <1>7, ReassignType DEF C
  <2> HIDE DEF Q
  <2> QED BY <2>1, SlotRefAtType
<1>9. Q(h)[s].alive /\ Q(h)[s].mm = x.ref /\ \A t \in Slots \ {s} : Q(h)[t] = C[t]
  BY <1>2, <1>4, <1>5 DEF Reassign, SlotTables, SlotRecords, C
<1>10. /\ M \in SlotTables /\ Quiet(M) /\ ~M[s].alive
       /\ \A t \in Slots \ {s} : M[t] = C[t]
  BY <1>1, ExecGoneType DEF C
<1> HIDE DEF Q, new, M
<1>11. /\ T(h) \in RegionTables /\ Sound(M, T(h))
       /\ LeaseMatches(T(h), x.ref, new(h)) /\ RegionUsers(M, x.ref.index) = {}
  BY <1>1, <1>8, ExecMovedSound DEF M
<1> HIDE DEF T
<1>12. \A t \in Slots \ {s} : Q(h)[t] = M[t]
  BY <1>9, <1>10
<1>13. reg' \in RegionTables /\ RegionsOk(Q(h), reg')
  <2>1. SameButFor(M, Q(h), s)
    BY <1>12 DEF SameButFor
  <2> QED BY <1>1, <1>3, <1>9, <1>10, <1>11, <2>1, CommitType, RegionsOkCommit DEF Sound
<1>14. Quiet(Q(h))
  BY <1>9, <1>10, <1>12 DEF Quiet
<1>15. LeasedUserEnds(Q(h), reg')
  <2>1. \A r \in Regions : /\ reg'[r].lease \in {NoRef, T(h)[r].lease}
                           /\ r = x.ref.index => reg'[r].lease = NoRef
    BY <1>1, <1>11, CommitLease, SMTT(30)
  <2> SUFFICES ASSUME NEW t \in Slots, Q(h)[t].alive, Q(h)[t].mm.index \in Regions,
                      reg'[Q(h)[t].mm.index].lease # NoRef
               PROVE  Q(h)[t].intent \in Exits /\ Q(h)[t].host \in {"DEAD", "FAILED"}
    BY DEF LeasedUserEnds
  <2>2. t # s
    BY <1>9, <2>1
  <2>3. T(h)[Q(h)[t].mm.index].lease # NoRef
    BY <2>1
  <2>4. Q(h)[t] = M[t]
    BY <1>12, <2>2
  <2> QED BY <1>11, <2>3, <2>4 DEF Sound, LeasedUserEnds
<1>16. slots' \in SlotTables /\ TableKeeps(Q(h), slots')
  BY <1>6, <1>8, CompleteSlotType
<1>17. Sound(slots', reg')
  BY <1>8, <1>13, <1>14, <1>15, <1>16, SoundKeeps DEF Sound
<1>18. guard' \in [Slots -> Guards] /\ mem' \in [Regions -> 0..MaxPid] /\ used' \in UsedTypes
  <2>1. ExecMem(s) \in [Regions -> 0..MaxPid] /\ 0 \in 0..MaxPid
    BY <1>1, ExecMemType, ChildAssumption, SMTT(30)
  <2>2. mem' \in [Regions -> 0..MaxPid]
    BY <1>1, <2>1
  <2> QED BY <1>0, <1>1, <2>2, ExecMemType, FailedType DEF TypeOK, UsedTypes
<1>19. TypeOK'
  BY <1>0, <1>1, <1>13, <1>16, <1>18 DEF TypeOK, UsedTypes
<1> QED BY <1>17, <1>19 DEF IInv

\* The launch and the abort are both refused: the task keeps a leased region.
LEMMA ExecLaunchStuckIInv ==
    ASSUME IInv, NEW s \in Slots, NEW x \in ExecTargets(s), ExecLaunchStuck(s, x.R, x.ref)
    PROVE  IInv'
<1> DEFINE p(h) == [Cleared(Committed(s, h)[s]) EXCEPT
                      !.alive = TRUE, !.host = "FAILED", !.intent = "EXIT",
                      !.pid = slots[s].pid, !.tgid = slots[s].tgid, !.mm = x.ref,
                      !.vpar = slots[s].vpar]
           Q(h) == Reassign([Committed(s, h) EXCEPT ![s] = p(h)], s)
           new(h) == SlotRefAt(Q(h), s)
<1>0. TypeOK /\ slots \in SlotTables /\ slots[s] \in SlotRecords
  BY DEF IInv, TypeOK, SlotTables
<1>1. PICK h \in Oracles :
             /\ ExecPending(s) /\ ~ExecStale(s)
             /\ slots' = Reassign([Committed(s, h) EXCEPT ![s] =
                 [Cleared(@) EXCEPT !.alive = TRUE, !.host = "FAILED", !.intent = "EXIT",
                                    !.pid = slots[s].pid, !.tgid = slots[s].tgid,
                                    !.mm = x.ref, !.vpar = slots[s].vpar]], s)
             /\ reg' = ExecMoved(s, x.R, x.ref, SlotRefAt(slots', s))
             /\ guard' = ExecGuard(s) /\ mem' = [ExecMem(s) EXCEPT ![x.ref.index] = 0]
             /\ Failed(h, 0) /\ UNCHANGED <<phase, groups, saved, nextPid>>
  BY DEF ExecLaunchStuck, ExecMoved
<1> DEFINE C == Committed(s, h)
           M == ExecGone(s, h)
<1>2. C \in SlotTables /\ C[s] \in SlotRecords /\ Cleared(C[s]) \in SlotRecords
  BY <1>1, CommittedType, ClearedType DEF SlotTables
<1>3. x.ref \in RegionRefs
  BY <1>1, ExecTargetOk
<1>4. p(h) \in SlotRecords
  BY <1>0, <1>2, <1>3 DEF SlotRecords, Hosts, Intents, Exits
<1>5. p(h).alive /\ p(h).mm = x.ref /\ p(h).intent \in Exits /\ p(h).host = "FAILED"
  BY <1>2 DEF SlotRecords, Exits
<1>6. slots' = Q(h)
  BY <1>1, <1>2 DEF SlotTables
<1> HIDE DEF p, C
<1>7. [C EXCEPT ![s] = p(h)] \in SlotTables
  BY <1>2, <1>4, SlotUpdate
<1>8. slots' \in SlotTables
  BY <1>6, <1>7, ReassignType DEF C
<1>9. /\ slots'[s].alive /\ slots'[s].mm = x.ref /\ slots'[s].intent \in Exits
      /\ slots'[s].host = "FAILED" /\ \A t \in Slots \ {s} : slots'[t] = C[t]
  BY <1>2, <1>4, <1>5, <1>6 DEF Reassign, SlotTables, SlotRecords, C
<1> DEFINE own == SlotRefAt(slots', s)
<1>10. own \in SlotRefs /\ own # NoRef /\ own.index = s
  BY <1>8, SlotRefAtType
<1>11. /\ M \in SlotTables /\ Quiet(M) /\ ~M[s].alive
       /\ \A t \in Slots \ {s} : M[t] = C[t]
  BY <1>1, ExecGoneType DEF C
<1>12. reg' = ExecMoved(s, x.R, x.ref, own)
  BY <1>1
<1> HIDE DEF Q, M, own
<1>13. /\ reg' \in RegionTables /\ Sound(M, reg')
       /\ LeaseMatches(reg', x.ref, own) /\ RegionUsers(M, x.ref.index) = {}
  BY <1>1, <1>10, <1>12, ExecMovedSound DEF M
<1>14. \A t \in Slots \ {s} : slots'[t] = M[t]
  BY <1>9, <1>11
<1>15. RegionsOk(slots', reg')
  <2>1. SameButFor(M, slots', s)
    BY <1>14 DEF SameButFor
  <2> QED BY <1>3, <1>9, <1>10, <1>11, <1>13, <2>1, RegionsOkStuck DEF Sound
<1>16. Quiet(slots')
  BY <1>9, <1>11, <1>14 DEF Quiet
<1>17. LeasedUserEnds(slots', reg')
  BY <1>9, <1>13, <1>14 DEF Sound, LeasedUserEnds
<1>18. guard' \in [Slots -> Guards] /\ mem' \in [Regions -> 0..MaxPid] /\ used' \in UsedTypes
  <2>1. ExecMem(s) \in [Regions -> 0..MaxPid] /\ 0 \in 0..MaxPid
    BY <1>1, ExecMemType, ChildAssumption, SMTT(30)
  <2>2. mem' \in [Regions -> 0..MaxPid]
    BY <1>1, <2>1
  <2> QED BY <1>0, <1>1, <2>2, ExecMemType, FailedType DEF TypeOK, UsedTypes
<1>19. TypeOK'
  BY <1>0, <1>1, <1>8, <1>13, <1>18 DEF TypeOK, UsedTypes
<1> QED BY <1>15, <1>16, <1>17, <1>19 DEF IInv, Sound

\* lxp_exec_txn_abort past the commit point releases both regions.
LEMMA ExecFailedIInv ==
    ASSUME IInv, NEW s \in Slots, NEW x \in ExecTargets(s), ExecFailed(s, x.R, x.ref)
    PROVE  IInv'
<1> DEFINE Q(h) == [Reassign(Committed(s, h), s) EXCEPT ![s] = [Cleared(@) EXCEPT !.host = "DEAD"]]
           E(h) == CompleteSlot(Q(h), slots[s].vpar, h)
           ev == [pid |-> slots[s].pid, kind |-> "EXITED"]
           g == slots[s].tgid
<1>0. TypeOK /\ slots \in SlotTables /\ slots[s] \in SlotRecords /\ groups \in GroupTables
  BY DEF IInv, TypeOK, SlotTables
<1>1. PICK h \in Oracles, t \in Slots \cup {-1} :
             /\ ExecPending(s) /\ ~ExecStale(s)
             /\ reg' = Put(ExecMoved(s, x.R, x.ref, SlotRefAt(Q(h), s)), x.ref)
             /\ guard' = [guard EXCEPT ![s] = NoGuard] /\ mem' = ExecMem(s)
             /\ slots' = ChildSlots(E(h), t, ev, h)
             /\ groups' = ChildGroups(E(h), GroupPut(Q(h), groups, g), t, ev)
             /\ Failed(h, 0) /\ UNCHANGED <<phase, saved, nextPid>>
  BY DEF ExecFailed, ExecMoved
<1> DEFINE C == Committed(s, h)
           N == Reassign(C, s)
           p == [Cleared(N[s]) EXCEPT !.host = "DEAD"]
           M == ExecGone(s, h)
           own == SlotRefAt(Q(h), s)
           T == ExecMoved(s, x.R, x.ref, own)
<1>2. C \in SlotTables
  BY <1>1, CommittedType
<1>3. N \in SlotTables /\ N[s] \in SlotRecords /\ Cleared(N[s]) \in SlotRecords
      /\ \A u \in Slots \ {s} : N[u] = C[u]
  <2>1. N \in SlotTables
    BY <1>2, ReassignType
  <2>2. \A u \in Slots \ {s} : N[u] = C[u]
    BY <1>2 DEF Reassign, SlotTables
  <2> QED BY <2>1, <2>2, ClearedType DEF SlotTables
<1>4. p \in SlotRecords /\ ~p.alive /\ p.host = "DEAD" /\ ~p.runnable
  BY <1>3 DEF SlotRecords, Hosts, Cleared
<1>5. Q(h) = [N EXCEPT ![s] = p]
  BY <1>3 DEF SlotTables
<1>6. /\ M \in SlotTables /\ ~M[s].alive /\ \A u \in Slots \ {s} : M[u] = C[u]
  BY <1>1, ExecGoneType
<1> HIDE DEF C, N, p, M, Q
<1>7. Q(h) \in SlotTables /\ Q(h)[s] = p /\ \A u \in Slots \ {s} : Q(h)[u] = M[u]
  BY <1>3, <1>4, <1>5, <1>6, SlotUpdate DEF SlotTables
<1>8. own \in SlotRefs /\ own # NoRef
  BY <1>7, SlotRefAtType
<1> HIDE DEF own
<1>9. /\ T \in RegionTables /\ Sound(M, T)
      /\ LeaseMatches(T, x.ref, own) /\ RegionUsers(M, x.ref.index) = {}
  BY <1>1, <1>8, ExecMovedSound DEF M
<1> HIDE DEF T
<1>10. reg' = ReleaseIfOwned(T, x.ref, own)
  BY <1>1, <1>9 DEF ReleaseIfOwned, T, own
<1>11. reg' \in RegionTables /\ RegionsOk(M, reg')
       /\ \A r \in Regions : reg'[r].lease \in {NoRef, T[r].lease}
  BY <1>6, <1>9, <1>10, ReleaseType, RegionsOkRelease, ReleaseLease DEF Sound
<1>12. Sound(M, reg')
  BY <1>9, <1>11 DEF Sound, LeasedUserEnds
<1>13. TableKeeps(M, Q(h))
  <2>1. M[s].alive \in BOOLEAN /\ p.alive \in BOOLEAN
    BY <1>4, <1>6 DEF SlotTables, SlotRecords
  <2>2. Keeps(M[s], p)
    BY <1>4, <1>6, <2>1 DEF Keeps
  <2>3. \A u \in Slots \ {s} : Keeps(M[u], Q(h)[u])
    BY <1>7 DEF Keeps
  <2> QED BY <1>7, <2>2, <2>3 DEF TableKeeps
<1>14. E(h) \in SlotTables /\ TableKeeps(Q(h), E(h))
  BY <1>7, CompleteSlotType
<1> HIDE DEF E
<1>15. TableKeeps(M, E(h)) /\ Quiet(E(h))
  BY <1>12, <1>13, <1>14, KeepsTrans, KeepsQuiet DEF Sound
<1>16. ev \in Events
  BY <1>0 DEF Events, Kinds, SlotRecords
<1> HIDE DEF ev
<1>17. slots' \in SlotTables /\ TableKeeps(E(h), slots')
  BY <1>1, <1>14, <1>15, ChildSlotsType
<1>18. groups' \in GroupTables
  BY <1>0, <1>1, <1>16, GroupPutType, ChildGroupsType
<1>19. TableKeeps(M, slots')
  BY <1>15, <1>17, KeepsTrans
<1>20. Sound(slots', reg')
  BY <1>6, <1>12, <1>19, SoundKeeps
<1>21. guard' \in [Slots -> Guards] /\ mem' \in [Regions -> 0..MaxPid] /\ used' \in UsedTypes
  BY <1>0, <1>1, ExecMemType, NoGuardType, FailedType DEF TypeOK, UsedTypes
<1>22. TypeOK'
  BY <1>0, <1>1, <1>11, <1>17, <1>18, <1>21 DEF TypeOK, UsedTypes
<1> QED BY <1>20, <1>22 DEF IInv

\* lxp_handle_exec
LEMMA HandleExecIInv ==
    ASSUME IInv, NEW s \in Slots, HandleExec(s)
    PROVE  IInv'
BY ExecRefusedIInv, ExecContainedIInv, ExecDoneIInv, ExecFailedIInv, ExecStuckIInv,
   ExecLaunchStuckIInv DEF HandleExec

-----------------------------------------------------------------------------
(* Job control.                                                            *)

\* LXP_EV_STOP
LEMMA EvStopIInv ==
    ASSUME IInv, NEW s \in Slots, EvStop(s)
    PROVE  IInv'
<1> DEFINE P(h) == ParkSlot(slots, s, h)
<1>0. slots \in SlotTables /\ Quiet(slots) /\ groups \in GroupTables /\ used \in UsedTypes
  BY DEF IInv, Sound, TypeOK, UsedTypes
<1>1. PICK h \in Oracles :
             /\ \/ NotifyStopped(P(h), groups, s, h)
                \/ slots' = P(h) /\ UNCHANGED groups
             /\ Failed(h, 0)
  BY DEF EvStop
<1>2. P(h) \in SlotTables /\ TableKeeps(slots, P(h))
  BY <1>0, ParkSlotType
<1> HIDE DEF P
<1>3. Quiet(P(h))
  BY <1>0, <1>2, KeepsQuiet
<1>4. slots' \in SlotTables /\ TableKeeps(P(h), slots') /\ groups' \in GroupTables
  BY <1>0, <1>1, <1>2, <1>3, NotifyStoppedType, KeepsSelf
<1>5. TableKeeps(slots, slots')
  BY <1>2, <1>4, KeepsTrans
<1>6. used' \in UsedTypes
  BY <1>0, <1>1, FailedType
<1> QED BY <1>4, <1>5, <1>6, NativeStep DEF EvStop

\* lxp_blocked_handle_stopped
LEMMA ScanStoppedIInv ==
    ASSUME IInv, NEW s \in Slots, ScanStopped(s)
    PROVE  IInv'
<1> DEFINE U(sig) == [slots EXCEPT ![s] = Unstopped(slots[s], sig)]
<1>0. slots \in SlotTables /\ slots[s] \in SlotRecords /\ groups \in GroupTables
      /\ used \in UsedTypes
  BY DEF IInv, TypeOK, UsedTypes, SlotTables
<1>1. \/ slots' = ExitSlot(U("KILL"), s, "EXIT") /\ UNCHANGED used
      \/ \E h \in Oracles : slots' = ResumeSlot(U("CONT"), s, h) /\ Failed(h, 0)
      \/ slots' = U("CONT") /\ UNCHANGED used
  BY DEF ScanStopped
<1>2. ASSUME NEW sig
      PROVE  U(sig) \in SlotTables /\ TableKeeps(slots, U(sig))
  <2>1. Unstopped(slots[s], sig) \in SlotRecords /\ Keeps(slots[s], Unstopped(slots[s], sig))
    BY <1>0 DEF Unstopped, SlotRecords, Keeps
  <2> QED BY <1>0, <2>1, SlotStep
<1> HIDE DEF U
<1>3. ExitSlot(U("KILL"), s, "EXIT") \in SlotTables
      /\ TableKeeps(slots, ExitSlot(U("KILL"), s, "EXIT"))
  BY <1>2, ExitSlotType, KeepsTrans DEF Exits
<1>4. slots' \in SlotTables /\ TableKeeps(slots, slots') /\ used' \in UsedTypes
  BY <1>0, <1>1, <1>2, <1>3, ResumeSlotType, KeepsTrans, FailedType
<1> QED BY <1>0, <1>4, NativeStep DEF ScanStopped

\* lxp_blocked_handle_signal
LEMMA ScanSignalIInv ==
    ASSUME IInv, NEW s \in Slots, ScanSignal(s)
    PROVE  IInv'
<1> DEFINE sig == Deliverable(slots[s].pend)
           c == [slots[s] EXCEPT !.pend = @ \ {sig}]
           k == [c EXCEPT !.wait = NoWait, !.intent = "EXIT"]
           z == [c EXCEPT !.stop = "PARKED"]
           Z == [slots EXCEPT ![s] = z]
<1>0. slots \in SlotTables /\ slots[s] \in SlotRecords /\ groups \in GroupTables
      /\ used \in UsedTypes /\ Quiet(slots)
  BY DEF IInv, Sound, TypeOK, UsedTypes, SlotTables
<1>1. \/ \E h \in Oracles : NotifyStopped(Z, groups, s, h) /\ Failed(h, 0)
      \/ slots' = [slots EXCEPT ![s] = k] /\ UNCHANGED <<groups, used>>
      \/ slots' = [slots EXCEPT ![s] = c] /\ UNCHANGED <<groups, used>>
  <2>1. [[slots EXCEPT ![s].pend = @ \ {sig}] EXCEPT ![s].stop = "PARKED"] = Z
    BY <1>0 DEF SlotTables
  <2>2. [[slots EXCEPT ![s].pend = @ \ {sig}] EXCEPT ![s] =
            [@ EXCEPT !.wait = NoWait, !.intent = "EXIT"]] = [slots EXCEPT ![s] = k]
    BY <1>0 DEF SlotTables
  <2>3. [slots EXCEPT ![s].pend = @ \ {sig}] = [slots EXCEPT ![s] = c]
    BY <1>0 DEF SlotTables
  <2> HIDE DEF Z, k, c
  <2> QED BY <2>1, <2>2, <2>3 DEF ScanSignal
<1>2. c \in SlotRecords /\ Keeps(slots[s], c)
  BY <1>0 DEF SlotRecords, Keeps
<1>3. NoWait \in Waits
  BY ChildAssumption, SMT DEF NoWait, Waits
<1>4. k \in SlotRecords /\ Keeps(slots[s], k) /\ z \in SlotRecords /\ Keeps(slots[s], z)
  BY <1>0, <1>3 DEF SlotRecords, Keeps, Intents, Exits
<1> HIDE DEF c, k, z
<1>5. /\ Z \in SlotTables /\ TableKeeps(slots, Z)
      /\ [slots EXCEPT ![s] = k] \in SlotTables /\ TableKeeps(slots, [slots EXCEPT ![s] = k])
      /\ [slots EXCEPT ![s] = c] \in SlotTables /\ TableKeeps(slots, [slots EXCEPT ![s] = c])
  BY <1>0, <1>2, <1>4, SlotStep
<1> HIDE DEF Z
<1>6. Quiet(Z)
  BY <1>0, <1>5, KeepsQuiet
<1>7. slots' \in SlotTables /\ TableKeeps(slots, slots') /\ used' \in UsedTypes
      /\ groups' \in GroupTables
  BY <1>0, <1>1, <1>5, <1>6, NotifyStoppedType, KeepsTrans, FailedType
<1> QED BY <1>7, NativeStep DEF ScanSignal

-----------------------------------------------------------------------------
(* The theorems.                                                           *)

\* Every step of the system keeps the invariant.
LEMMA NextIInv ==
    ASSUME IInv, [Next]_vars
    PROVE  IInv'
<1>1. CASE UNCHANGED vars
  BY <1>1 DEF vars, IInv, TypeOK
<1>2. CASE AllDead \/ Watchdog
  BY <1>2 DEF AllDead, Watchdog, IInv, TypeOK
<1>3. ASSUME NEW s \in Slots, Coordinator(s)
      PROVE  IInv'
  BY <1>3, HandleForkIInv, HandleExecIInv, HandleExitIInv, EvStopIInv, ScanStoppedIInv,
     ScanSignalIInv DEF Coordinator
<1> QED BY <1>1, <1>2, <1>3, StartRunIInv, StartFailedIInv, TeardownIInv, GuestIInv DEF
           Next

\* The inductive invariant holds: the types of all state, the accounting of the
\* regions, the quietness of free slots, and the fate of a task in a leased region.
THEOREM LifecycleInvariant == Spec => []IInv
<1>1. Init => IInv
  BY InitIInv
<1>2. IInv /\ [Next]_vars => IInv'
  BY NextIInv
<1> QED BY <1>1, <1>2, PTL DEF Spec

\* Every record, reference and counter keeps its type, the wrapped generations
\* and the bounded reference counts included.
THEOREM LifecycleTypes == Spec => []TypeOK
<1>1. IInv => TypeOK
  BY DEF IInv
<1> QED BY <1>1, LifecycleInvariant, PTL

\* lxp_region_get and lxp_region_put balance over every path of fork, exec, exit
\* and start, for any number of slots and regions and any failures of the RTOS.
THEOREM RegionsAccounted == Spec => []RegionAccounting
<1>1. IInv => RegionAccounting
  BY DEF IInv, Sound, RegionsOk, RegionOk, RegionAccounting
<1> QED BY <1>1, LifecycleInvariant, PTL

\* No failure of the RTOS frees a slot under a native task.
THEOREM FreeSlotsQuiet == Spec => []FreeSlotHasNoTask
<1>1. IInv => FreeSlotHasNoTask
  BY DEF IInv, Sound, Quiet, FreeSlotHasNoTask
<1> QED BY <1>1, LifecycleInvariant, PTL

-----------------------------------------------------------------------------
(* What the proofs about waits and wake-ups share.                         *)

\* A slot record with the next generation.
Renewed(p) == [p EXCEPT !.gen = GenNext(@)]

\* The new incarnation of a slot has a generation.
LEMMA ReassignAt ==
    ASSUME NEW P \in SlotTables, NEW s \in Slots
    PROVE  /\ Renewed(P[s]) \in SlotRecords /\ Renewed(P[s]).gen # 0
           /\ Reassign(P, s)[s] = Renewed(P[s])
           /\ \A t \in Slots \ {s} : Reassign(P, s)[t] = P[t]
<1>1. /\ Reassign(P, s) \in SlotTables /\ Reassign(P, s)[s] = Renewed(P[s])
      /\ \A t \in Slots \ {s} : Reassign(P, s)[t] = P[t]
  BY ReassignType DEF Reassign, Renewed, SlotTables
<1>2. Renewed(P[s]) \in SlotRecords
  BY <1>1 DEF SlotTables
<1>3. P[s] \in SlotRecords /\ Renewed(P[s]).gen = GenNext(P[s].gen)
  BY DEF SlotTables, SlotRecords, Renewed
<1>4. Renewed(P[s]).gen # 0
  BY <1>3, GenNextType, SMT DEF SlotRecords
<1> QED BY <1>1, <1>2, <1>4

\* The table with the committed tasks and record p in slot s, under a new
\* generation.
Published(s, h, p) == Reassign([Committed(s, h) EXCEPT ![s] = p], s)
=============================================================================
