----------------------------- MODULE MissProofs -----------------------------
(***************************************************************************)
(* No status of a child is missed: NoMissedChild for every value of the    *)
(* constants.                                                              *)
(***************************************************************************)
EXTENDS LifecycleProofs

\* The prover of every step that names none.
USE ZenonT(60)

\* Task q is p, in the same group, and in the same wait or in none.
Idles(p, q) == q.alive => p.alive /\ q.tgid = p.tgid /\ q.wait \in {p.wait, NoWait}
WaitsKept(P, Q) == \A s \in Slots : Idles(P[s], Q[s])

\* The wait of p, if it is in one, accepts no entry of the queue.
Passed(p, queue) == \A i \in 1..Len(queue) : ~Accepts(p, queue[i])

\* A group has a status queue, and none of its tasks sleeps over an entry.
MissOk(P, G) ==
    \A s \in Slots : P[s].alive => P[s].tgid \in Pids /\ Passed(P[s], G[P[s].tgid].queue)
MissInv == MissOk(slots, groups) /\ nextPid > 0

\* The queues of H hold entries of those of G only.
Drained(q, r) == \A i \in 1..Len(r) : \E j \in 1..Len(q) : r[i] = q[j]
QueuesKept(G, H) == \A g \in Pids : Drained(G[g].queue, H[g].queue)

\* The task of slot c is replaced by one in no wait, if by any.
LEMMA MissNew ==
    ASSUME NEW P, NEW Q, NEW G, NEW H, NEW c \in Slots, MissOk(P, G), QueuesKept(G, H),
           \A t \in Slots \ {c} : Idles(P[t], Q[t]),
           Q[c].alive => Q[c].tgid \in Pids /\ Q[c].wait = NoWait
    PROVE  MissOk(Q, H)
<1>1. ~NoWait.child
  BY SMT DEF NoWait
<1> SUFFICES ASSUME NEW t \in Slots, Q[t].alive
             PROVE  Q[t].tgid \in Pids /\ Passed(Q[t], H[Q[t].tgid].queue)
  BY DEF MissOk
<1>2. CASE Q[t].wait = NoWait
  <2>1. Q[t].tgid \in Pids
    BY DEF MissOk, Idles
  <2> QED BY <1>1, <1>2, <2>1 DEF Passed, Accepts
<1>3. CASE Q[t].wait # NoWait
  <2>1. P[t].alive /\ Q[t].tgid = P[t].tgid /\ Q[t].wait = P[t].wait
    BY <1>3 DEF Idles
  <2> DEFINE g == P[t].tgid
             q == G[g].queue
             r == H[g].queue
  <2>2. g \in Pids /\ Passed(P[t], q)
    BY <2>1 DEF MissOk
  <2>3. Drained(q, r)
    BY <2>2 DEF QueuesKept
  <2> HIDE DEF g, q, r
  <2>4. Passed(Q[t], r)
    BY <2>1, <2>2, <2>3 DEF Passed, Accepts, Drained
  <2> QED BY <2>1, <2>2, <2>4 DEF g, r
<1> QED BY <1>2, <1>3

\* A step that only ends waits and tasks and takes statuses off queues.
LEMMA MissKept ==
    ASSUME NEW P, NEW Q, NEW G, NEW H, MissOk(P, G), QueuesKept(G, H), WaitsKept(P, Q)
    PROVE  MissOk(Q, H)
<1>1. ~NoWait.child
  BY SMT DEF NoWait
<1> SUFFICES ASSUME NEW t \in Slots, Q[t].alive
             PROVE  Q[t].tgid \in Pids /\ Passed(Q[t], H[Q[t].tgid].queue)
  BY DEF MissOk
<1>2. P[t].alive /\ Q[t].tgid = P[t].tgid /\ Q[t].wait \in {P[t].wait, NoWait}
  BY DEF WaitsKept, Idles
<1> DEFINE g == P[t].tgid
           q == G[g].queue
           r == H[g].queue
<1>3. g \in Pids /\ Passed(P[t], q)
  BY <1>2 DEF MissOk
<1>4. Drained(q, r)
  BY <1>3 DEF QueuesKept
<1> HIDE DEF g, q, r
<1>5. Passed(Q[t], r)
  BY <1>1, <1>2, <1>3, <1>4 DEF Passed, Accepts, Drained
<1> QED BY <1>2, <1>3, <1>5 DEF g, r

\* No change of the queues.
LEMMA QueuesSelf ==
    ASSUME NEW G
    PROVE  QueuesKept(G, G)
BY DEF QueuesKept, Drained

\* A group is cleared.
LEMMA QueuesCleared ==
    ASSUME NEW G \in GroupTables, NEW x
    PROVE  QueuesKept(G, [G EXCEPT ![x] = NoGroup])
<1>1. \A g \in Pids : [G EXCEPT ![x] = NoGroup][g] \in {G[g], NoGroup}
  BY DEF GroupTables
<1>2. \A q : Drained(q, NoGroup.queue)
  BY SMT DEF Drained, NoGroup
<1>3. \A q : Drained(q, q)
  BY DEF Drained
<1> QED BY <1>1, <1>2, <1>3 DEF QueuesKept

\* Waits end one after the other.
LEMMA WaitsTrans ==
    ASSUME NEW P, NEW Q, NEW T, WaitsKept(P, Q), WaitsKept(Q, T)
    PROVE  WaitsKept(P, T)
BY DEF WaitsKept, Idles

\* No change of the tasks.
LEMMA WaitsSelf ==
    ASSUME NEW P
    PROVE  WaitsKept(P, P)
BY DEF WaitsKept, Idles

\* An update of one record.
LEMMA SlotWaits ==
    ASSUME NEW P \in SlotTables, NEW s \in Slots, NEW q, Idles(P[s], q)
    PROVE  WaitsKept(P, [P EXCEPT ![s] = q])
<1>1. \A t \in Slots : [P EXCEPT ![s] = q][t] = IF t = s THEN q ELSE P[t]
  BY DEF SlotTables
<1>2. \A t \in Slots : Idles(P[t], P[t])
  BY DEF Idles
<1> QED BY <1>1, <1>2 DEF WaitsKept

\* lxp_coordinator_exit_slot and slot_transition_failed
LEMMA ExitSlotWaits ==
    ASSUME NEW P \in SlotTables, NEW s \in Slots, NEW kind
    PROVE  WaitsKept(P, ExitSlot(P, s, kind)) /\ WaitsKept(P, TransitionFailed(P, s))
<1> DEFINE q(k) == [P[s] EXCEPT !.intent = k]
<1>1. P[s] \in SlotRecords
  BY DEF SlotTables
<1>2. \A k : Idles(P[s], q(k)) /\ ExitSlot(P, s, k) = [P EXCEPT ![s] = q(k)]
  BY <1>1 DEF SlotRecords, Idles, ExitSlot, SlotTables
<1> HIDE DEF q
<1>3. WaitsKept(P, ExitSlot(P, s, kind)) /\ WaitsKept(P, ExitSlot(P, s, "EXIT"))
  BY <1>2, SlotWaits
<1> QED BY <1>3, WaitsSelf DEF TransitionFailed

\* lxp_coordinator_abort_slot
LEMMA AbortSlotWaits ==
    ASSUME NEW P \in SlotTables, NEW s \in Slots, NEW h
    PROVE  WaitsKept(P, AbortSlot(P, s, h))
<1> DEFINE f == [P[s] EXCEPT !.host = "FAILED", !.runnable = (P[s].host = "RUNNING")]
           d == [P[s] EXCEPT !.host = "DEAD", !.runnable = FALSE]
           F == [P EXCEPT ![s] = f]
<1>1. P[s] \in SlotRecords
  BY DEF SlotTables
<1>2. Idles(P[s], f) /\ Idles(P[s], d)
  BY <1>1 DEF SlotRecords, Idles
<1>3. f \in SlotRecords
  BY <1>1 DEF SlotRecords, Hosts
<1>4. AbortSlot(P, s, h) \in {TransitionFailed(F, s), [P EXCEPT ![s] = d]}
  BY DEF AbortSlot, SlotTables
<1> HIDE DEF f, d
<1>5. F \in SlotTables /\ WaitsKept(P, F) /\ WaitsKept(P, [P EXCEPT ![s] = d])
  BY <1>2, <1>3, SlotWaits, SlotUpdate
<1> HIDE DEF F
<1>6. WaitsKept(P, TransitionFailed(F, s))
  BY <1>5, ExitSlotWaits, WaitsTrans
<1> QED BY <1>4, <1>5, <1>6

\* The start or the park is refused, and the task aborted.
LEMMA AbortFailedWaits ==
    ASSUME NEW P \in SlotTables, NEW s \in Slots, P[s].alive, NEW h
    PROVE  WaitsKept(P, TransitionFailed(AbortSlot(P, s, h), s))
<1> DEFINE A == AbortSlot(P, s, h)
<1>1. A \in SlotTables /\ WaitsKept(P, A)
  BY AbortSlotType, AbortSlotWaits
<1> HIDE DEF A
<1>2. WaitsKept(P, TransitionFailed(A, s))
  BY <1>1, ExitSlotWaits, WaitsTrans
<1> QED BY <1>2 DEF A

\* lxp_coordinator_park_slot
LEMMA ParkSlotWaits ==
    ASSUME NEW P \in SlotTables, Quiet(P), NEW s \in Slots, NEW h
    PROVE  WaitsKept(P, ParkSlot(P, s, h))
<1> DEFINE q == [P[s] EXCEPT !.host = "PARKED", !.runnable = FALSE]
           A == TransitionFailed(AbortSlot(P, s, h), s)
<1>1. P[s] \in SlotRecords
  BY DEF SlotTables
<1>2. Idles(P[s], q)
  BY <1>1 DEF SlotRecords, Idles
<1>3. P[s].host = "RUNNING" => WaitsKept(P, A)
  BY AbortFailedWaits DEF Quiet
<1>4. \/ ParkSlot(P, s, h) \in {P, TransitionFailed(P, s), [P EXCEPT ![s] = q]}
      \/ P[s].host = "RUNNING" /\ ParkSlot(P, s, h) = A
  BY DEF ParkSlot, SlotTables
<1> HIDE DEF q, A
<1>5. WaitsKept(P, [P EXCEPT ![s] = q])
  BY <1>2, SlotWaits
<1>6. WaitsKept(P, P) /\ WaitsKept(P, TransitionFailed(P, s))
  BY ExitSlotWaits, WaitsSelf
<1> QED BY <1>3, <1>4, <1>5, <1>6

\* lxp_coordinator_resume_slot
LEMMA ResumeSlotWaits ==
    ASSUME NEW P \in SlotTables, NEW s \in Slots, NEW h
    PROVE  WaitsKept(P, ResumeSlot(P, s, h))
<1> DEFINE q == [P[s] EXCEPT !.host = "RUNNING", !.runnable = TRUE]
           A == TransitionFailed(AbortSlot(P, s, h), s)
<1>1. P[s] \in SlotRecords
  BY DEF SlotTables
<1>2. Idles(P[s], q)
  BY <1>1 DEF SlotRecords, Idles
<1>3. P[s].alive => WaitsKept(P, A)
  BY AbortFailedWaits
<1>4. \/ ResumeSlot(P, s, h) \in {P, [P EXCEPT ![s] = q]}
      \/ P[s].alive /\ ResumeSlot(P, s, h) = A
  BY DEF ResumeSlot, CanResume, SlotTables
<1> HIDE DEF q, A
<1> QED BY <1>2, <1>3, <1>4, SlotWaits, WaitsSelf

\* lxp_coordinator_complete_slot
LEMMA CompleteSlotWaits ==
    ASSUME NEW P \in SlotTables, NEW ref, NEW h
    PROVE  WaitsKept(P, CompleteSlot(P, ref, h))
<1> DEFINE i == ref.index
           q == [P[i] EXCEPT !.stop = "READY"]
<1>1. CASE ~IsCurrent(P, ref)
  BY <1>1, WaitsSelf DEF CompleteSlot
<1>2. CASE IsCurrent(P, ref)
  <2>1. i \in Slots /\ P[i] \in SlotRecords
    BY <1>2 DEF IsCurrent, SlotTables
  <2>2. Idles(P[i], q)
    BY <2>1 DEF SlotRecords, Idles
  <2>3. CompleteSlot(P, ref, h) \in {P, [P EXCEPT ![i] = q], ResumeSlot(P, i, h)}
    BY <2>1 DEF CompleteSlot, SlotTables
  <2> HIDE DEF i, q
  <2> QED BY <2>1, <2>2, <2>3, SlotWaits, ResumeSlotWaits, WaitsSelf
<1> QED BY <1>1, <1>2

\* Parking a task and handing it its result.
LEMMA ParkAndCompleteWaits ==
    ASSUME NEW P \in SlotTables, Quiet(P), NEW s \in Slots, NEW h
    PROVE  WaitsKept(P, ParkAndComplete(P, s, h))
<1> DEFINE Q == ParkSlot(P, s, h)
<1>1. Q \in SlotTables /\ WaitsKept(P, Q)
  BY ParkSlotType, ParkSlotWaits
<1>2. ParkAndComplete(P, s, h) = CompleteSlot(Q, SlotRefAt(Q, s), h)
  BY DEF ParkAndComplete
<1> HIDE DEF Q
<1> QED BY <1>1, <1>2, CompleteSlotWaits, WaitsTrans

\* lxp_vfork_contain_stale
LEMMA ContainSlotsWaits ==
    ASSUME NEW P \in SlotTables, NEW c \in Slots
    PROVE  WaitsKept(P, ContainSlots(P, c))
<1> DEFINE par == guard[c].parent
           Q == IF IsCurrent(P, par) /\ P[par.index].mm = guard[c].region
                THEN ExitSlot(P, par.index, "EXIT") ELSE P
           q == [Q[c] EXCEPT !.vpar = NoRef, !.snap = NoRef, !.intent = "EXIT"]
<1>1. Q \in SlotTables /\ WaitsKept(P, Q)
  BY ExitSlotType, ExitSlotWaits, WaitsSelf DEF IsCurrent, Exits
<1>2. ContainSlots(P, c) = [Q EXCEPT ![c] = q]
  BY DEF ContainSlots
<1> HIDE DEF Q
<1>3. Q[c] \in SlotRecords
  BY <1>1 DEF SlotTables
<1>4. Idles(Q[c], q)
  BY <1>3 DEF SlotRecords, Idles
<1> HIDE DEF q
<1>5. WaitsKept(Q, [Q EXCEPT ![c] = q])
  BY <1>1, <1>4, SlotWaits
<1> QED BY <1>1, <1>2, <1>5, WaitsTrans

-----------------------------------------------------------------------------
(* Child events.                                                           *)

\* child_event_publish takes a task out of its wait.
LEMMA ChildSlotsWaits ==
    ASSUME NEW P \in SlotTables, Quiet(P), NEW t, NEW ev, NEW h
    PROVE  WaitsKept(P, ChildSlots(P, t, ev, h))
<1>1. CASE t \in Slots /\ Accepts(P[t], ev)
  <2> DEFINE w == [P[t] EXCEPT !.wait = NoWait]
             W == [P EXCEPT ![t] = w]
  <2>1. P[t] \in SlotRecords /\ NoWait \in Waits
    BY <1>1, ChildAssumption, SMT DEF SlotTables, NoWait, Waits
  <2>2. w \in SlotRecords /\ Idles(P[t], w) /\ Keeps(P[t], w)
    BY <2>1 DEF SlotRecords, Idles, Keeps
  <2>3. ChildSlots(P, t, ev, h) = ParkAndComplete(W, t, h)
    BY <1>1 DEF ChildSlots, ParkAndComplete, SlotTables
  <2> HIDE DEF w
  <2>4. W \in SlotTables /\ TableKeeps(P, W) /\ WaitsKept(P, W)
    BY <1>1, <2>2, SlotStep, SlotWaits
  <2>5. Quiet(W)
    BY <2>4, KeepsQuiet
  <2> HIDE DEF W
  <2>6. WaitsKept(W, ChildSlots(P, t, ev, h))
    BY <1>1, <2>3, <2>4, <2>5, ParkAndCompleteWaits
  <2> QED BY <2>4, <2>6, WaitsTrans
<1>2. CASE ~(t \in Slots /\ Accepts(P[t], ev))
  BY <1>2, WaitsSelf DEF ChildSlots
<1> QED BY <1>1, <1>2

\* An entry is appended, or the queue is kept.
LEMMA NotifiedQueue ==
    ASSUME NEW grp \in Groups, NEW ev, NEW accepted
    PROVE  \/ Notified(grp, ev, accepted).queue = grp.queue
           \/ ~accepted /\ Notified(grp, ev, accepted).queue = Append(grp.queue, ev)
BY DEF Notified, Groups

\* A waiter that does not accept the new entry sleeps over none.
LEMMA PassedAppend ==
    ASSUME NEW p, NEW queue \in Seq(Events), NEW ev, Passed(p, queue), ~Accepts(p, ev)
    PROVE  Passed(p, Append(queue, ev))
<1> SUFFICES ASSUME NEW i \in 1..Len(Append(queue, ev)) PROVE ~Accepts(p, Append(queue, ev)[i])
  BY DEF Passed
<1>1. \/ i \in 1..Len(queue) /\ Append(queue, ev)[i] = queue[i]
      \/ Append(queue, ev)[i] = ev
  BY SMT
<1> QED BY <1>1 DEF Passed

\* The event is queued only when no task of the parent group accepts it: then
\* the chosen task would, and would be handed it.
LEMMA ChildEventMiss ==
    ASSUME NEW P \in SlotTables, Quiet(P), NEW G \in GroupTables, MissOk(P, G),
           NEW t \in Slots \cup {-1}, NEW ppid, NEW ev, NEW h, IsParentTask(P, ppid, ev, t)
    PROVE  MissOk(ChildSlots(P, t, ev, h), ChildGroups(P, G, t, ev))
<1> DEFINE Q == ChildSlots(P, t, ev, h)
           H == ChildGroups(P, G, t, ev)
<1>1. WaitsKept(P, Q)
  BY ChildSlotsWaits
<1>2. CASE t \notin Slots
  <2>1. H = G
    BY <1>2 DEF ChildGroups
  <2> HIDE DEF Q, H
  <2> QED BY <1>1, <2>1, MissKept, QueuesSelf DEF Q, H
<1>3. CASE t \in Slots
  <2> DEFINE g == P[t].tgid
             new == Notified(G[g], ev, Accepts(P[t], ev))
  <2>1. t # -1
    BY <1>3, SMT DEF Slots
  <2>2. t \in Members(P, ppid)
    BY <2>1 DEF IsParentTask
  <2>3. P[t].alive /\ g = ppid /\ g \in Pids
    BY <1>3, <2>2 DEF Members, MissOk
  <2>4. G[g] \in Groups /\ G[g].queue \in Seq(Events)
    BY <2>3 DEF GroupTables, Groups
  <2>5. \A x \in Pids : H[x] = IF x = g THEN new ELSE G[x]
    BY <1>3, <2>3 DEF ChildGroups, GroupTables
  <2>6. CASE new.queue = G[g].queue
    <3>1. QueuesKept(G, H)
      BY <2>5, <2>6 DEF QueuesKept, Drained
    <3> HIDE DEF Q, H
    <3> QED BY <1>1, <3>1, MissKept DEF Q, H
  <2>7. CASE ~Accepts(P[t], ev) /\ new.queue = Append(G[g].queue, ev)
    <3>1. \A s \in Members(P, ppid) : ~Accepts(P[s], ev)
      BY <2>1, <2>7 DEF IsParentTask
    <3>2. Q = P
      BY <2>7 DEF ChildSlots
    <3> HIDE DEF Q, H
    <3>3. ASSUME NEW s \in Slots, P[s].alive
          PROVE  P[s].tgid \in Pids /\ Passed(P[s], H[P[s].tgid].queue)
      <4>1. P[s].tgid \in Pids /\ Passed(P[s], G[P[s].tgid].queue)
        BY <3>3 DEF MissOk
      <4>2. CASE P[s].tgid = g
        <5>1. ~Accepts(P[s], ev)
          BY <2>3, <3>1, <3>3, <4>2 DEF Members
        <5>2. Passed(P[s], Append(G[g].queue, ev))
          BY <2>4, <4>1, <4>2, <5>1, PassedAppend
        <5> QED BY <2>5, <2>7, <4>1, <4>2, <5>2
      <4>3. CASE P[s].tgid # g
        BY <2>5, <4>1, <4>3
      <4> QED BY <4>2, <4>3
    <3> QED BY <3>2, <3>3 DEF MissOk, Q, H
  <2> QED BY <2>4, <2>6, <2>7, NotifiedQueue
<1> QED BY <1>2, <1>3

\* lxp_notify_parent_stopped
LEMMA NotifyStoppedMiss ==
    ASSUME NEW P \in SlotTables, Quiet(P), NEW G \in GroupTables, MissOk(P, G), NEW s, NEW h,
           NotifyStopped(P, G, s, h)
    PROVE  MissOk(slots', groups')
<1> DEFINE ev == [pid |-> P[s].pid, kind |-> "STOPPED"]
<1>1. PICK t \in Slots \cup {-1} :
             /\ IsParentTask(P, G[P[s].tgid].ppid, ev, t)
             /\ slots' = ChildSlots(P, t, ev, h)
             /\ groups' = ChildGroups(P, G, t, ev)
  BY DEF NotifyStopped
<1> HIDE DEF ev
<1> QED BY <1>1, ChildEventMiss

-----------------------------------------------------------------------------
(* Guests and job control.                                                 *)

\* A step that leaves the queues alone.
LEMMA NativeMiss ==
    ASSUME MissInv, WaitsKept(slots, slots'), UNCHANGED <<groups, nextPid>>
    PROVE  MissInv'
<1>1. MissOk(slots', groups)
  BY MissKept, QueuesSelf DEF MissInv
<1> QED BY <1>1 DEF MissInv

\* The tail of lxp_execute_deferred.
LEMMA DeferredMiss ==
    ASSUME IInv, NEW s \in Slots, UserMode(s), NEW G \in GroupTables, MissOk(slots, G),
           Deferred(s, G)
    PROVE  MissOk(slots', groups')
<1> DEFINE sig == Deliverable(slots[s].pend)
           K == Parked(s)
           p == [K[s] EXCEPT !.pend = @ \ {sig}]
           P == [K EXCEPT ![s] = p]
           z == [p EXCEPT !.stop = "PARKED"]
           Z == [P EXCEPT ![s] = z]
           ref == SlotRefAt(P, s)
<1>0. slots \in SlotTables /\ slots[s] \in SlotRecords /\ Quiet(slots)
  BY DEF IInv, TypeOK, Sound, SlotTables
<1>1. K \in SlotTables /\ TableKeeps(slots, K) /\ K[s] \in SlotRecords /\ WaitsKept(slots, K)
  <2> DEFINE q == [slots[s] EXCEPT !.host = "PARKED", !.runnable = FALSE]
  <2>1. Idles(slots[s], q)
    BY <1>0 DEF SlotRecords, Idles
  <2>2. K = [slots EXCEPT ![s] = q]
    BY DEF Parked
  <2> HIDE DEF q, K
  <2>3. WaitsKept(slots, K)
    BY <1>0, <2>1, <2>2, SlotWaits
  <2> QED BY <2>3, ParkedType DEF SlotTables, K
<1>2. PICK h \in Oracles :
        \/ slots' = CompleteSlot(P, ref, h) /\ groups' = G
        \/ slots' = ExitSlot(P, s, "EXIT") /\ groups' = G
        \/ NotifyStopped(CompleteSlot(Z, ref, h), G, s, h)
  <2>1. P = [Parked(s) EXCEPT ![s].pend = @ \ {sig}]
    BY <1>1 DEF SlotTables
  <2>2. Z = [P EXCEPT ![s].stop = "PARKED"]
    BY <1>1 DEF SlotTables
  <2> HIDE DEF P, Z
  <2> QED BY <2>1, <2>2 DEF Deferred
<1> HIDE DEF K, sig
<1>3. /\ p \in SlotRecords /\ Idles(K[s], p) /\ Keeps(K[s], p)
      /\ z \in SlotRecords /\ Idles(p, z) /\ Keeps(p, z)
  BY <1>1 DEF SlotRecords, Idles, Keeps
<1>4. P[s] = p
  BY <1>1 DEF SlotTables
<1> HIDE DEF p, z
<1>5. P \in SlotTables /\ TableKeeps(K, P) /\ WaitsKept(K, P)
  BY <1>1, <1>3, SlotStep, SlotWaits
<1> HIDE DEF P
<1>6. Z \in SlotTables /\ TableKeeps(P, Z) /\ WaitsKept(P, Z)
  BY <1>3, <1>4, <1>5, SlotStep, SlotWaits
<1> HIDE DEF Z
<1>7. WaitsKept(slots, P) /\ WaitsKept(slots, Z) /\ TableKeeps(slots, Z)
  BY <1>1, <1>5, <1>6, WaitsTrans, KeepsTrans
<1> HIDE DEF ref
<1>8. CASE slots' = CompleteSlot(P, ref, h) /\ groups' = G
  <2>1. WaitsKept(slots, slots')
    BY <1>5, <1>7, <1>8, CompleteSlotWaits, WaitsTrans
  <2> QED BY <1>8, <2>1, MissKept, QueuesSelf
<1>9. CASE slots' = ExitSlot(P, s, "EXIT") /\ groups' = G
  <2>1. WaitsKept(slots, slots')
    BY <1>5, <1>7, <1>9, ExitSlotWaits, WaitsTrans
  <2> QED BY <1>9, <2>1, MissKept, QueuesSelf
<1>10. CASE NotifyStopped(CompleteSlot(Z, ref, h), G, s, h)
  <2> DEFINE C == CompleteSlot(Z, ref, h)
  <2>1. C \in SlotTables /\ TableKeeps(Z, C) /\ WaitsKept(Z, C)
    BY <1>6, CompleteSlotType, CompleteSlotWaits
  <2> HIDE DEF C
  <2>2. WaitsKept(slots, C) /\ TableKeeps(slots, C)
    BY <1>7, <2>1, WaitsTrans, KeepsTrans
  <2>3. Quiet(C) /\ MissOk(C, G)
    BY <1>0, <2>2, KeepsQuiet, MissKept, QueuesSelf
  <2> QED BY <1>10, <2>1, <2>3, NotifyStoppedMiss DEF C
<1> QED BY <1>2, <1>8, <1>9, <1>10

\* What wait4 leaves of the queue are entries of it.
LEMMA ReapDrained ==
    ASSUME NEW q \in Seq(Events), NEW i \in 1..Len(q)
    PROVE  /\ SubSeq(q, 1, i - 1) \o SubSeq(q, i + 1, Len(q)) \in Seq(Events)
           /\ Drained(q, SubSeq(q, 1, i - 1) \o SubSeq(q, i + 1, Len(q)))
<1> DEFINE a == SubSeq(q, 1, i - 1)
           b == SubSeq(q, i + 1, Len(q))
<1>1. /\ a \in Seq(Events) /\ Len(a) = i - 1 /\ \A k \in 1 .. i - 1 : a[k] = q[k]
      /\ b \in Seq(Events) /\ Len(b) = Len(q) - i /\ \A k \in 1 .. Len(q) - i : b[k] = q[k + i]
  BY SMT
<1> HIDE DEF a, b
<1>2. a \o b \in Seq(Events)
  BY <1>1, SMT
<1>3. ASSUME NEW k \in 1..Len(a \o b)
      PROVE  \E j \in 1..Len(q) : (a \o b)[k] = q[j]
  <2>1. CASE k <= i - 1
    BY <1>1, <2>1, SMT
  <2>2. CASE k > i - 1
    <3>1. (a \o b)[k] = b[k - (i - 1)] /\ k - (i - 1) \in 1 .. Len(q) - i
      BY <1>1, <2>2, SMT
    <3>2. (a \o b)[k] = q[k + 1] /\ k + 1 \in 1..Len(q)
      BY <1>1, <3>1, SMT
    <3> QED BY <3>2
  <2> QED BY <2>1, <2>2, SMT
<1>4. Drained(q, a \o b)
  BY <1>3 DEF Drained
<1> QED BY <1>2, <1>4 DEF a, b

\* What the guests do: a task sleeps in wait4 only when it found nothing.
LEMMA GuestMiss ==
    ASSUME IInv, MissInv, NEW s \in Slots, Guest(s)
    PROVE  MissInv'
<1>1. slots \in SlotTables /\ slots[s] \in SlotRecords /\ Quiet(slots) /\ groups \in GroupTables
  BY DEF IInv, TypeOK, Sound, SlotTables
<1>2. CASE Write(s) \/ Reboot(s)
  BY <1>2 DEF Write, Reboot, MissInv
<1>3. CASE RequestExec(s)
  <2> DEFINE q == [slots[s] EXCEPT !.host = "PARKED", !.runnable = FALSE, !.intent = "EXEC"]
  <2>1. slots' = [slots EXCEPT ![s] = q]
    BY <1>1, <1>3 DEF RequestExec, Parked, SlotTables, SlotRecords
  <2>2. Idles(slots[s], q)
    BY <1>1 DEF SlotRecords, Idles
  <2> HIDE DEF q
  <2>3. WaitsKept(slots, slots')
    BY <1>1, <2>1, <2>2, SlotWaits
  <2> QED BY <1>3, <2>3, NativeMiss DEF RequestExec
<1>4. CASE TakeSignal(s)
  <2> DEFINE q == Taking(slots[s], Deliverable(slots[s].pend))
  <2>1. slots' = [slots EXCEPT ![s] = q]
    BY <1>4 DEF TakeSignal
  <2>2. Idles(slots[s], q)
    BY <1>1 DEF SlotRecords, Idles, Taking
  <2> HIDE DEF q
  <2>3. WaitsKept(slots, slots')
    BY <1>1, <2>1, <2>2, SlotWaits
  <2> QED BY <1>4, <2>3, NativeMiss DEF TakeSignal
<1>5. CASE DeferRefused(s)
  <2>1. PICK h \in Oracles : slots' = ParkSlot(slots, s, h)
    BY <1>5 DEF DeferRefused
  <2>2. WaitsKept(slots, slots')
    BY <1>1, <2>1, ParkSlotWaits
  <2> QED BY <1>5, <2>2, NativeMiss DEF DeferRefused
<1>6. CASE OtherCall(s)
  <2>1. MissOk(slots', groups')
    BY <1>1, <1>6, DeferredMiss DEF OtherCall, MissInv
  <2> QED BY <1>6, <2>1 DEF OtherCall, MissInv
<1>7. ASSUME NEW kind, RequestFork(s, kind) \/ RequestExit(s, kind)
      PROVE  MissInv'
  <2>1. slots' = ExitSlot(slots, s, kind)
    BY <1>7 DEF RequestFork, RequestExit, ExitSlot
  <2>2. WaitsKept(slots, slots')
    BY <1>1, <2>1, ExitSlotWaits
  <2> QED BY <1>7, <2>2, NativeMiss DEF RequestFork, RequestExit
<1>8. ASSUME NEW t \in Slots, NEW sig \in SigKinds, SendSignal(s, t, sig)
      PROVE  MissInv'
  <2> DEFINE q == [slots[t] EXCEPT !.pend = Latch(@, sig)]
  <2>1. slots[t] \in SlotRecords /\ slots' = [slots EXCEPT ![t] = q]
    BY <1>1, <1>8 DEF SendSignal, SlotTables
  <2>2. Idles(slots[t], q)
    BY <2>1 DEF SlotRecords, Idles
  <2> HIDE DEF q
  <2>3. WaitsKept(slots, slots')
    BY <1>1, <2>1, <2>2, SlotWaits
  <2> QED BY <1>8, <2>3, NativeMiss DEF SendSignal
<1>9. ASSUME NEW pid \in WaitPids, NEW untraced \in BOOLEAN, Wait4Reap(s, pid, untraced)
      PROVE  MissInv'
  <2> DEFINE g == slots[s].tgid
             q == groups[g].queue
             r(i) == SubSeq(q, 1, i - 1) \o SubSeq(q, i + 1, Len(q))
             G(i) == [groups EXCEPT ![g].queue = r(i)]
  <2>1. PICK i \in 1..Len(q) : UserMode(s) /\ Deferred(s, G(i))
    BY <1>9 DEF Wait4Reap
  <2>2. g \in Pids
    BY <2>1 DEF MissInv, MissOk, UserMode
  <2>3. groups[g] \in Groups /\ q \in Seq(Events)
    BY <1>1, <2>2 DEF GroupTables, Groups
  <2>4. r(i) \in Seq(Events) /\ Drained(q, r(i))
    BY <2>3, ReapDrained
  <2> HIDE DEF r
  <2>5. \A x \in Pids : G(i)[x] = IF x = g THEN [groups[g] EXCEPT !.queue = r(i)] ELSE groups[x]
    BY <1>1, <2>2 DEF GroupTables
  <2>6. [groups[g] EXCEPT !.queue = r(i)] \in Groups /\ [groups[g] EXCEPT !.queue = r(i)].queue = r(i)
    BY <2>3, <2>4 DEF Groups
  <2>7. G(i) \in GroupTables
    BY <1>1, <2>5, <2>6 DEF GroupTables
  <2>8. QueuesKept(groups, G(i))
    <3> SUFFICES ASSUME NEW x \in Pids PROVE Drained(groups[x].queue, G(i)[x].queue)
      BY DEF QueuesKept
    <3>1. CASE x = g
      BY <2>4, <2>5, <2>6, <3>1
    <3>2. CASE x # g
      <4>1. G(i)[x] = groups[x]
        BY <2>5, <3>2
      <4> HIDE DEF G
      <4> QED BY <4>1 DEF Drained
    <3> QED BY <3>1, <3>2
  <2> HIDE DEF G
  <2>9. MissOk(slots, G(i))
    BY <2>8, MissKept, WaitsSelf DEF MissInv
  <2>10. MissOk(slots', groups')
    BY <2>1, <2>7, <2>9, DeferredMiss
  <2> QED BY <1>9, <2>10 DEF Wait4Reap, MissInv
<1>10. ASSUME NEW pid \in WaitPids, NEW untraced \in BOOLEAN, Wait4Block(s, pid, untraced)
       PROVE  MissInv'
  <2> DEFINE w == [child |-> TRUE, pid |-> pid, untraced |-> untraced]
             q == [slots[s] EXCEPT !.host = "PARKED", !.runnable = FALSE, !.wait = w]
  <2>1. slots' = [slots EXCEPT ![s] = q]
    BY <1>1, <1>10 DEF Wait4Block, Parked, SlotTables, SlotRecords
  <2>2. q.alive = slots[s].alive /\ q.tgid = slots[s].tgid /\ q.wait = w
    BY <1>1 DEF SlotRecords
  <2> HIDE DEF q
  <2>3. \A ev : Accepts(q, ev) <=> Reports(ev, pid, untraced)
    BY <2>2, SMT DEF Accepts, Reports
  <2>4. slots[s].alive /\ Passed(q, groups[slots[s].tgid].queue)
    BY <1>10, <2>3 DEF Wait4Block, UserMode, Passed
  <2>5. \A t \in Slots : slots'[t] = IF t = s THEN q ELSE slots[t]
    BY <1>1, <2>1 DEF SlotTables
  <2>6. MissOk(slots', groups)
    BY <2>2, <2>4, <2>5 DEF MissInv, MissOk
  <2> QED BY <1>10, <2>6 DEF Wait4Block, MissInv
<1> QED BY <1>2, <1>3, <1>4, <1>5, <1>6, <1>7, <1>8, <1>9, <1>10 DEF Guest

\* LXP_EV_STOP
LEMMA EvStopMiss ==
    ASSUME IInv, MissInv, NEW s \in Slots, EvStop(s)
    PROVE  MissInv'
<1>0. slots \in SlotTables /\ Quiet(slots) /\ groups \in GroupTables
  BY DEF IInv, TypeOK, Sound
<1>1. PICK h \in Oracles :
        \/ NotifyStopped(ParkSlot(slots, s, h), groups, s, h)
        \/ slots' = ParkSlot(slots, s, h) /\ groups' = groups
  BY DEF EvStop
<1> DEFINE P == ParkSlot(slots, s, h)
<1>2. P \in SlotTables /\ TableKeeps(slots, P) /\ WaitsKept(slots, P)
  BY <1>0, ParkSlotType, ParkSlotWaits
<1>3. NotifyStopped(P, groups, s, h) \/ (slots' = P /\ groups' = groups)
  BY <1>1
<1> HIDE DEF P
<1>4. Quiet(P) /\ MissOk(P, groups)
  BY <1>0, <1>2, KeepsQuiet, MissKept, QueuesSelf DEF MissInv
<1>5. MissOk(slots', groups')
  BY <1>0, <1>2, <1>3, <1>4, NotifyStoppedMiss
<1> QED BY <1>5 DEF EvStop, MissInv

\* lxp_blocked_handle_stopped
LEMMA ScanStoppedMiss ==
    ASSUME IInv, MissInv, NEW s \in Slots, ScanStopped(s)
    PROVE  MissInv'
<1> DEFINE u(sig) == Unstopped(slots[s], sig)
           U(sig) == [slots EXCEPT ![s] = u(sig)]
<1>0. slots \in SlotTables /\ slots[s] \in SlotRecords
  BY DEF IInv, TypeOK, SlotTables
<1>1. \/ slots' = ExitSlot(U("KILL"), s, "EXIT")
      \/ \E h : slots' = ResumeSlot(U("CONT"), s, h)
      \/ slots' = U("CONT")
  BY DEF ScanStopped
<1>2. \A sig : Idles(slots[s], u(sig)) /\ u(sig) \in SlotRecords
  BY <1>0 DEF SlotRecords, Idles, Unstopped
<1> HIDE DEF u
<1>3. \A sig : WaitsKept(slots, U(sig)) /\ U(sig) \in SlotTables
  BY <1>0, <1>2, SlotWaits, SlotUpdate
<1> HIDE DEF U
<1>4. WaitsKept(slots, slots')
  <2>1. CASE slots' = ExitSlot(U("KILL"), s, "EXIT")
    BY <1>3, <2>1, ExitSlotWaits, WaitsTrans
  <2>2. CASE \E h : slots' = ResumeSlot(U("CONT"), s, h)
    BY <1>3, <2>2, ResumeSlotWaits, WaitsTrans
  <2>3. CASE slots' = U("CONT")
    BY <1>3, <2>3
  <2> QED BY <1>1, <2>1, <2>2, <2>3
<1> QED BY <1>4, NativeMiss DEF ScanStopped

\* lxp_blocked_handle_signal
LEMMA ScanSignalMiss ==
    ASSUME IInv, MissInv, NEW s \in Slots, ScanSignal(s)
    PROVE  MissInv'
<1> DEFINE sig == Deliverable(slots[s].pend)
           c == [slots[s] EXCEPT !.pend = @ \ {sig}]
           k == [c EXCEPT !.wait = NoWait, !.intent = "EXIT"]
           z == [c EXCEPT !.stop = "PARKED"]
           Z == [slots EXCEPT ![s] = z]
<1>0. slots \in SlotTables /\ slots[s] \in SlotRecords /\ Quiet(slots) /\ groups \in GroupTables
  BY DEF IInv, TypeOK, Sound, SlotTables
<1>1. \/ \E h : NotifyStopped(Z, groups, s, h)
      \/ slots' = [slots EXCEPT ![s] = k] /\ groups' = groups
      \/ slots' = [slots EXCEPT ![s] = c] /\ groups' = groups
  <2>1. Z = [[slots EXCEPT ![s].pend = @ \ {sig}] EXCEPT ![s].stop = "PARKED"]
    BY <1>0 DEF SlotTables
  <2>2. [[slots EXCEPT ![s].pend = @ \ {sig}] EXCEPT ![s] =
            [@ EXCEPT !.wait = NoWait, !.intent = "EXIT"]] = [slots EXCEPT ![s] = k]
    BY <1>0 DEF SlotTables
  <2>3. [slots EXCEPT ![s].pend = @ \ {sig}] = [slots EXCEPT ![s] = c]
    BY <1>0 DEF SlotTables
  <2> HIDE DEF Z, k, c
  <2> QED BY <2>1, <2>2, <2>3 DEF ScanSignal
<1> HIDE DEF sig
<1>2. /\ Idles(slots[s], k) /\ Idles(slots[s], c) /\ Idles(slots[s], z)
      /\ z \in SlotRecords /\ Keeps(slots[s], z)
  BY <1>0 DEF SlotRecords, Idles, Keeps
<1> HIDE DEF c, k, z
<1>3. /\ Z \in SlotTables /\ TableKeeps(slots, Z) /\ WaitsKept(slots, Z)
      /\ WaitsKept(slots, [slots EXCEPT ![s] = k]) /\ WaitsKept(slots, [slots EXCEPT ![s] = c])
  BY <1>0, <1>2, SlotStep, SlotWaits
<1> HIDE DEF Z
<1>4. Quiet(Z) /\ MissOk(Z, groups)
  BY <1>0, <1>3, KeepsQuiet, MissKept, QueuesSelf DEF MissInv
<1>5. MissOk(slots', groups')
  <2>1. CASE \E h : NotifyStopped(Z, groups, s, h)
    BY <1>0, <1>3, <1>4, <2>1, NotifyStoppedMiss
  <2>2. CASE ~\E h : NotifyStopped(Z, groups, s, h)
    <3>1. WaitsKept(slots, slots') /\ groups' = groups
      BY <1>1, <1>3, <2>2
    <3> QED BY <3>1, MissKept, QueuesSelf DEF MissInv
  <2> QED BY <2>1, <2>2
<1> QED BY <1>5 DEF ScanSignal, MissInv

-----------------------------------------------------------------------------
(* Forks.                                                                  *)

\* lxp_deferred_slot_reassign
LEMMA ReassignWaits ==
    ASSUME NEW P \in SlotTables, NEW s \in Slots
    PROVE  Reassign(P, s) \in SlotTables /\ WaitsKept(P, Reassign(P, s))
<1>1. Reassign(P, s)[s] = Renewed(P[s]) /\ \A t \in Slots \ {s} : Reassign(P, s)[t] = P[t]
  BY ReassignAt
<1>2. Idles(P[s], Renewed(P[s])) /\ \A t \in Slots : Idles(P[t], P[t])
  BY DEF Idles, Renewed, SlotTables, SlotRecords
<1> QED BY <1>1, <1>2, ReassignType DEF WaitsKept

\* The fork intent is completed.
LEMMA ForkingWaits ==
    ASSUME IInv, NEW s \in Slots, ForkPending(s)
    PROVE  /\ Forking(s) \in SlotTables /\ TableKeeps(slots, Forking(s))
           /\ WaitsKept(slots, Forking(s))
<1>1. Forking(s) = ExitSlot(slots, s, "NONE")
  BY DEF Forking, ExitSlot
<1>2. slots \in SlotTables
  BY DEF IInv, TypeOK
<1> QED BY <1>1, <1>2, ForkingType, ExitSlotWaits

\* A fork that is refused or aborted changes no wait and no queue.
LEMMA ForkRefusedMiss ==
    ASSUME IInv, MissInv, NEW s \in Slots, ForkRefused(s)
    PROVE  MissInv'
<1> DEFINE F == Forking(s)
<1>1. PICK h : slots' = ParkAndComplete(F, s, h)
  BY DEF ForkRefused
<1>2. F \in SlotTables /\ TableKeeps(slots, F) /\ WaitsKept(slots, F)
  BY ForkingWaits DEF ForkRefused
<1> HIDE DEF F
<1>3. Quiet(F)
  BY <1>2, KeepsQuiet DEF IInv, Sound
<1>4. WaitsKept(slots, slots')
  BY <1>1, <1>2, <1>3, ParkAndCompleteWaits, WaitsTrans
<1> QED BY <1>4, NativeMiss DEF ForkRefused

\* lxp_fork_txn_abort
LEMMA ForkAbortedMiss ==
    ASSUME IInv, MissInv, NEW s \in Slots, NEW c \in Slots, ForkAborted(s, c)
    PROVE  MissInv'
<1> DEFINE F == Forking(s)
           n == Renewed(F[c])
           q == Cleared(n)
           Q == [F EXCEPT ![c] = q]
<1>0. ForkPending(s) /\ Quiet(slots) /\ ~slots[c].alive
  BY DEF ForkAborted, ForkAdmitted, FirstDeadSlot, IInv, Sound
<1>1. /\ F \in SlotTables /\ TableKeeps(slots, F) /\ WaitsKept(slots, F)
      /\ F[c] \in SlotRecords
  BY <1>0, ForkingWaits DEF SlotTables
<1>2. PICK h : slots' = ParkAndComplete(Q, s, h)
  <2>1. Q = [Reassign(F, c) EXCEPT ![c] = Cleared(@)]
    BY <1>1 DEF Reassign, Renewed, SlotTables
  <2> HIDE DEF Q, F
  <2> QED BY <2>1 DEF ForkAborted, F
<1> HIDE DEF F
<1>3. ~F[c].alive
  BY <1>0, <1>1 DEF TableKeeps, Keeps
<1>4. n \in SlotRecords /\ n.alive = F[c].alive /\ n.host = F[c].host
      /\ n.runnable = F[c].runnable
  BY <1>1, ReassignAt DEF SlotRecords, Renewed
<1> HIDE DEF n
<1>5. q \in SlotRecords /\ ~q.alive
  BY <1>4, ClearedType DEF Cleared, SlotRecords
<1>6. Idles(F[c], q) /\ Keeps(F[c], q)
  BY <1>1, <1>3, <1>4 DEF Cleared, Idles, Keeps, SlotRecords
<1> HIDE DEF q
<1>7. Q \in SlotTables /\ TableKeeps(F, Q) /\ WaitsKept(F, Q)
  BY <1>1, <1>5, <1>6, SlotStep, SlotWaits
<1> HIDE DEF Q
<1>8. WaitsKept(slots, Q) /\ Quiet(Q)
  BY <1>0, <1>1, <1>7, WaitsTrans, KeepsTrans, KeepsQuiet
<1>9. WaitsKept(slots, slots')
  BY <1>2, <1>7, <1>8, ParkAndCompleteWaits, WaitsTrans
<1> QED BY <1>9, NativeMiss DEF ForkAborted

\* The published child is in no wait; its group is that of its parent or new.
LEMMA ForkChildMiss ==
    ASSUME IInv, MissInv, NEW s \in Slots, NEW c \in Slots, ForkAdmitted(s, c),
           NEW vpar, NEW snap, NEW P, P = ForkChild(Reassign(Forking(s), c), s, c, vpar, snap)
    PROVE  MissOk(P, groups)
<1> DEFINE F == Forking(s)
           n == Renewed(F[c])
           tg == IF slots[s].intent = "THREAD" THEN F[s].tgid ELSE nextPid
           p == [Cleared(n) EXCEPT !.alive = TRUE, !.pid = nextPid, !.mm = F[s].mm,
                                   !.vpar = vpar, !.snap = snap, !.tgid = tg]
<1>0. ForkPending(s) /\ slots[s].alive /\ slots \in SlotTables /\ ~slots[c].alive /\ s # c
  BY DEF ForkAdmitted, FirstDeadSlot, ForkPending, IInv, TypeOK
<1>1. F \in SlotTables /\ WaitsKept(slots, F) /\ TableKeeps(slots, F)
  BY <1>0, ForkingWaits
<1> HIDE DEF F
<1>2. /\ Reassign(F, c)[c] = n /\ n \in SlotRecords /\ Reassign(F, c) \in SlotTables
      /\ \A t \in Slots \ {c} : Reassign(F, c)[t] = F[t]
  BY <1>1, ReassignAt, ReassignType
<1> HIDE DEF n
<1>3. Cleared(n) \in SlotRecords /\ Cleared(n).wait = NoWait
  BY <1>2, ClearedType DEF Cleared, SlotRecords
<1>4. P = [Reassign(F, c) EXCEPT ![c] = p]
  <2>1. Reassign(F, c)[s] = F[s]
    BY <1>0, <1>2
  <2> QED BY <1>2, <2>1 DEF ForkChild, F, SlotTables
<1>5. P[c] = p /\ \A t \in Slots \ {c} : P[t] = F[t]
  BY <1>2, <1>4 DEF SlotTables
<1>6. p.wait = NoWait /\ p.tgid = tg
  BY <1>3 DEF SlotRecords
<1> HIDE DEF p
<1>7. tg \in Pids
  <2>1. F[s].alive
    BY <1>0, <1>1 DEF TableKeeps, Keeps
  <2>2. F[s].tgid = slots[s].tgid /\ slots[s].tgid \in Pids
    BY <1>0, <1>1, <2>1 DEF WaitsKept, Idles, MissInv, MissOk
  <2>3. nextPid \in Pids
    BY SMT DEF ForkAdmitted, MissInv, IInv, TypeOK, Pids
  <2> QED BY <2>2, <2>3
<1>8. \A t \in Slots \ {c} : Idles(slots[t], P[t])
  BY <1>1, <1>5 DEF WaitsKept
<1> QED BY <1>5, <1>6, <1>7, <1>8, MissNew, QueuesSelf DEF MissInv

\* The child is counted and its group opened with an empty queue.
LEMMA ForkQueues ==
    ASSUME IInv, NEW s \in Slots
    PROVE  QueuesKept(groups, ForkGroups(s))
<1> DEFINE g == slots[s].tgid
           new == [NoGroup EXCEPT !.ppid = g]
<1>1. groups \in [Pids -> Groups]
  BY DEF IInv, TypeOK, GroupTables
<1> SUFFICES ASSUME NEW x \in Pids PROVE Drained(groups[x].queue, ForkGroups(s)[x].queue)
  BY DEF QueuesKept
<1>2. Drained(groups[x].queue, groups[x].queue)
  BY DEF Drained
<1>3. new.queue = <<>>
  BY SMT DEF NoGroup
<1>4. Drained(groups[x].queue, <<>>)
  BY SMT DEF Drained
<1> HIDE DEF new
<1>5. CASE slots[s].intent = "THREAD"
  BY <1>2, <1>5 DEF ForkGroups
<1>6. CASE slots[s].intent # "THREAD"
  <2>1. ForkGroups(s) = [groups EXCEPT ![g].kids = @ + 1, ![nextPid] = new]
    BY <1>6 DEF ForkGroups, new
  <2>2. ForkGroups(s)[x] \in {new, groups[x], [groups[x] EXCEPT !.kids = @ + 1]}
    BY <1>1, <2>1
  <2>3. [groups[x] EXCEPT !.kids = @ + 1].queue = groups[x].queue
    BY <1>1 DEF Groups
  <2> QED BY <1>2, <1>3, <1>4, <2>2, <2>3
<1> QED BY <1>5, <1>6

\* CLONE_VM, fork and vfork
LEMMA ForkCommittedMiss ==
    ASSUME IInv, MissInv, NEW s \in Slots, NEW c \in Slots,
           ForkShared(s, c) \/ \E r \in Regions : ForkVfork(s, c, r)
    PROVE  MissInv'
<1>1. PICK vpar, snap, h :
        LET P == ForkChild(Reassign(Forking(s), c), s, c, vpar, snap)
        IN  /\ ForkAdmitted(s, c) /\ CanGet(reg, slots[s].mm)
            /\ vpar \in SlotRefs /\ snap \in RegionRefs
            /\ slots' \in {ResumeSlot(ParkAndComplete(P, s, h), c, h),
                           ResumeSlot(ParkSlot(P, s, h), c, h)}
  <2>1. CASE ForkShared(s, c)
    BY <2>1 DEF ForkShared, SlotRefs, RegionRefs
  <2>2. ASSUME NEW r \in Regions, ForkVfork(s, c, r)
        PROVE  \E vpar \in SlotRefs, snap \in RegionRefs : \E h :
                 LET P == ForkChild(Reassign(Forking(s), c), s, c, vpar, snap)
                 IN  /\ ForkAdmitted(s, c) /\ CanGet(reg, slots[s].mm)
                     /\ slots' = ResumeSlot(ParkSlot(P, s, h), c, h)
    <3> DEFINE Q == Reassign(Forking(s), c)
               R == Reserve(Get(reg, slots[s].mm), r, SlotRefAt(Q, c))
    <3>1. /\ ForkAdmitted(s, c) /\ CanGet(reg, slots[s].mm) /\ ForkPending(s)
          /\ reg \in RegionTables
      BY <2>2 DEF ForkVfork, ForkAdmitted, IInv, TypeOK
    <3>2. Q \in SlotTables
      BY <3>1, ForkingWaits, ReassignType
    <3>3. \E h : slots' = ResumeSlot(ParkSlot(ForkChild(Q, s, c, SlotRefAt(Q, s),
                                                        RegionRefAt(R, r)), s, h), c, h)
      BY <2>2 DEF ForkVfork
    <3> HIDE DEF Q
    <3>4. SlotRefAt(Q, s) \in SlotRefs /\ SlotRefAt(Q, c) \in SlotRefs
      BY <3>2, SlotRefAtType
    <3>5. R \in RegionTables
      BY <3>1, <3>4, GetType, ReserveType
    <3> HIDE DEF R
    <3>6. RegionRefAt(R, r) \in RegionRefs
      BY <3>5, RegionRefAtType
    <3> QED BY <3>1, <3>3, <3>4, <3>6 DEF Q
  <2> QED BY <2>1, <2>2
<1> DEFINE P == ForkChild(Reassign(Forking(s), c), s, c, vpar, snap)
<1>2. P \in SlotTables /\ Quiet(P)
  BY <1>1, ForkChildType
<1>3. MissOk(P, groups)
  BY <1>1, ForkChildMiss
<1>4. slots' \in {ResumeSlot(ParkAndComplete(P, s, h), c, h), ResumeSlot(ParkSlot(P, s, h), c, h)}
  BY <1>1
<1> HIDE DEF P
<1>5. WaitsKept(P, slots')
  <2>1. /\ ParkAndComplete(P, s, h) \in SlotTables /\ WaitsKept(P, ParkAndComplete(P, s, h))
        /\ ParkSlot(P, s, h) \in SlotTables /\ WaitsKept(P, ParkSlot(P, s, h))
    BY <1>2, ParkAndCompleteType, ParkAndCompleteWaits, ParkSlotType, ParkSlotWaits
  <2>2. CASE slots' = ResumeSlot(ParkAndComplete(P, s, h), c, h)
    <3>1. WaitsKept(ParkAndComplete(P, s, h), slots')
      BY <2>1, <2>2, ResumeSlotWaits
    <3> QED BY <2>1, <3>1, WaitsTrans
  <2>3. CASE slots' = ResumeSlot(ParkSlot(P, s, h), c, h)
    <3>1. WaitsKept(ParkSlot(P, s, h), slots')
      BY <2>1, <2>3, ResumeSlotWaits
    <3> QED BY <2>1, <3>1, WaitsTrans
  <2> QED BY <1>4, <2>2, <2>3
<1>6. groups' = ForkGroups(s) /\ nextPid' = nextPid + 1
  BY DEF ForkShared, ForkVfork
<1>7. MissOk(slots', groups')
  BY <1>3, <1>5, <1>6, ForkQueues, MissKept
<1>8. nextPid' > 0
  BY <1>6, SMT DEF MissInv, IInv, TypeOK
<1> QED BY <1>7, <1>8 DEF MissInv

-----------------------------------------------------------------------------
(* Exits.                                                                  *)

\* exit_group marks the other tasks of the group.
LEMMA ExitingWaits ==
    ASSUME IInv, NEW s \in Slots
    PROVE  WaitsKept(slots, Exiting(s))
<1> DEFINE E == Exiting(s)
<1>1. \A t \in Slots : slots[t] \in SlotRecords
  BY DEF IInv, TypeOK, SlotTables
<1>2. \A t \in Slots : E[t] = slots[t] \/ E[t] = [slots[t] EXCEPT !.intent = "EXIT_GROUP"]
  BY DEF Exiting
<1> HIDE DEF E
<1>3. ASSUME NEW t \in Slots PROVE Idles(slots[t], E[t])
  <2>1. Idles(slots[t], [slots[t] EXCEPT !.intent = "EXIT_GROUP"]) /\ Idles(slots[t], slots[t])
    BY <1>1 DEF Idles, SlotRecords
  <2> QED BY <1>2, <2>1
<1> QED BY <1>3 DEF WaitsKept, E

\* The slot is freed, and its parent completed unless it was contained.
LEMMA ParentReleasedWaits ==
    ASSUME NEW P \in SlotTables, NEW s \in Slots, NEW h, Departed(P, s) \in SlotTables
    PROVE  WaitsKept(P, Departed(P, s)) /\ WaitsKept(P, ParentReleased(P, s, h))
<1> DEFINE Q == IF ExitStale(P, s) THEN ContainSlots(P, s) ELSE P
           p == [Q[s] EXCEPT !.alive = FALSE, !.runnable = FALSE, !.mm = NoRef]
           M == [Q EXCEPT ![s] = p]
           D == Departed(P, s)
<1>1. Q \in SlotTables /\ WaitsKept(P, Q)
  <2>1. ContainSlots(P, s) \in SlotTables /\ WaitsKept(P, ContainSlots(P, s))
    BY ContainSlotsType, ContainSlotsWaits
  <2> QED BY <2>1, WaitsSelf
<1>2. D = Reassign(M, s)
  BY DEF Departed
<1> HIDE DEF Q, D
<1>3. Q[s] \in SlotRecords /\ NoRef \in RegionRefs
  BY <1>1 DEF SlotTables, RegionRefs
<1>4. p \in SlotRecords /\ Idles(Q[s], p)
  BY <1>3 DEF SlotRecords, Idles
<1> HIDE DEF p
<1>5. M \in SlotTables /\ WaitsKept(Q, M)
  BY <1>1, <1>4, SlotUpdate, SlotWaits
<1> HIDE DEF M
<1>6. WaitsKept(M, D)
  BY <1>2, <1>5, ReassignWaits
<1>7. WaitsKept(P, D)
  BY <1>1, <1>5, <1>6, WaitsTrans
<1>8. WaitsKept(D, CompleteSlot(D, P[s].vpar, h))
  BY CompleteSlotWaits DEF D
<1>9. WaitsKept(P, CompleteSlot(D, P[s].vpar, h))
  BY <1>7, <1>8, WaitsTrans
<1> QED BY <1>7, <1>9 DEF ParentReleased, D

\* lxp_handle_exit: a waiter of the parent group is handed the status, or none
\* accepts it.
LEMMA HandleExitMiss ==
    ASSUME IInv, MissInv, NEW s \in Slots, HandleExit(s)
    PROVE  MissInv'
<1>0. /\ MissOk(slots, groups) /\ nextPid > 0 /\ groups \in GroupTables
      /\ Exiting(s) \in SlotTables /\ WaitsKept(slots, Exiting(s))
  BY ExitingType, ExitingWaits DEF IInv, TypeOK, MissInv
<1>1. ASSUME NEW h PROVE WaitsKept(slots, AbortSlot(Exiting(s), s, h))
  BY <1>0, AbortSlotWaits, WaitsTrans
<1>2. CASE ExitRetry(s)
  BY <1>1, <1>2, NativeMiss DEF ExitRetry
<1>3. ASSUME NEW h \in Oracles, NEW P, P = AbortSlot(Exiting(s), s, h),
             ExitThread(s, P, h) \/ ExitInit(s, P, h) \/ ExitProcess(s, P, h)
      PROVE  MissInv'
  <2> DEFINE D == Departed(P, s)
             E == ParentReleased(P, s, h)
             g == P[s].tgid
  <2>1. ExitBegins(s, P, h)
    BY <1>3 DEF ExitThread, ExitInit, ExitProcess
  <2>2. P \in SlotTables /\ D \in SlotTables /\ Sound(D, reg') /\ nextPid' = nextPid
    BY <1>3, <2>1, ExitBeginsSound
  <2>3. /\ E \in SlotTables /\ TableKeeps(D, E) /\ WaitsKept(P, D) /\ WaitsKept(P, E)
    BY <2>2, ParentReleasedType, ParentReleasedWaits
  <2>4. WaitsKept(slots, P)
    BY <1>1, <1>3
  <2> HIDE DEF D, E
  <2>5. WaitsKept(slots, D) /\ WaitsKept(slots, E)
    BY <2>3, <2>4, WaitsTrans
  <2>6. MissOk(slots', groups')
    <3>1. CASE ExitThread(s, P, h)
      <4>1. slots' = E /\ groups' = groups
        BY <3>1 DEF ExitThread, E
      <4> QED BY <1>0, <2>5, <4>1, MissKept, QueuesSelf
    <3>2. CASE ExitInit(s, P, h)
      <4>1. slots' = D /\ groups' = [groups EXCEPT ![1] = NoGroup]
        BY <3>2 DEF ExitInit, D
      <4>2. QueuesKept(groups, groups')
        BY <1>0, <4>1, QueuesCleared
      <4> QED BY <1>0, <2>5, <4>1, <4>2, MissKept
    <3>3. CASE ExitProcess(s, P, h)
      <4> DEFINE ev == [pid |-> g, kind |-> "EXITED"]
                 G(t) == ChildGroups(E, groups, t, ev)
      <4>1. PICK t \in Slots \cup {-1} :
                   /\ IsParentTask(E, groups[g].ppid, ev, t)
                   /\ slots' = ChildSlots(E, t, ev, h)
                   /\ groups' = [G(t) EXCEPT ![g] = NoGroup]
        BY <3>3 DEF ExitProcess, E
      <4>2. ev \in Events
        <5>1. g \in 0..MaxPid
          BY <2>2 DEF SlotTables, SlotRecords
        <5> QED BY <5>1 DEF Events, Kinds
      <4> HIDE DEF ev
      <4>3. Quiet(E)
        BY <2>2, <2>3, KeepsQuiet DEF Sound
      <4>4. MissOk(E, groups)
        BY <1>0, <2>5, MissKept, QueuesSelf
      <4>5. MissOk(slots', G(t)) /\ G(t) \in GroupTables
        BY <1>0, <2>3, <4>1, <4>2, <4>3, <4>4, ChildEventMiss, ChildGroupsType
      <4> HIDE DEF G
      <4>6. QueuesKept(G(t), groups')
        BY <4>1, <4>5, QueuesCleared
      <4> QED BY <4>5, <4>6, MissKept, WaitsSelf
    <3> QED BY <1>3, <3>1, <3>2, <3>3
  <2> QED BY <1>0, <2>2, <2>6 DEF MissInv
<1> QED BY <1>2, <1>3 DEF HandleExit

-----------------------------------------------------------------------------
(* Execs.                                                                  *)

\* Before the commit point, and with a parent whose memory cannot be restored.
LEMMA ExecEarlyMiss ==
    ASSUME IInv, MissInv, NEW s \in Slots, ExecRefused(s) \/ ExecContained(s)
    PROVE  MissInv'
<1> DEFINE X == Execing(s)
<1>1. \/ \E h : slots' = CompleteSlot(X, SlotRefAt(slots, s), h)
      \/ slots' = ContainSlots(X, s)
  BY DEF ExecRefused, ExecContained
<1>2. X = ExitSlot(slots, s, "NONE") /\ slots \in SlotTables /\ ExecPending(s)
  BY DEF Execing, ExitSlot, IInv, TypeOK, ExecRefused, ExecContained
<1>3. X \in SlotTables /\ WaitsKept(slots, X)
  BY <1>2, ExecingType, ExitSlotWaits
<1> HIDE DEF X
<1>4. WaitsKept(X, slots')
  BY <1>1, <1>3, CompleteSlotWaits, ContainSlotsWaits
<1>5. WaitsKept(slots, slots')
  BY <1>3, <1>4, WaitsTrans
<1> QED BY <1>5, NativeMiss DEF ExecRefused, ExecContained

\* The commit point ends the waits of the other tasks of the group at most.
LEMMA CommittedWaits ==
    ASSUME IInv, NEW s \in Slots, NEW h
    PROVE  WaitsKept(slots, Committed(s, h))
<1> DEFINE C == Committed(s, h)
           own == [slots[s] EXCEPT !.intent = "NONE", !.snap = NoRef]
<1>1. slots \in SlotTables /\ slots[s] \in SlotRecords
  BY DEF IInv, TypeOK, SlotTables
<1>2. ASSUME NEW t \in Slots PROVE Idles(slots[t], C[t])
  <2>1. CASE t = s
    <3>1. C[t] = own
      BY <2>1 DEF Committed
    <3>2. Idles(slots[s], own)
      BY <1>1 DEF Idles, SlotRecords
    <3> HIDE DEF C, own
    <3> QED BY <2>1, <3>1, <3>2
  <2>2. CASE t # s /\ t \in ExecPeers(s)
    <3> DEFINE A == AbortSlot(slots, t, h)
               E == ExitSlot(A, t, "EXIT")
    <3>1. C[t] = E[t]
      BY <2>2 DEF Committed
    <3>2. A \in SlotTables /\ WaitsKept(slots, A)
      BY <1>1, <2>2, AbortSlotType, AbortSlotWaits DEF ExecPeers, Members
    <3> HIDE DEF A, C
    <3>3. WaitsKept(A, E)
      BY <3>2, ExitSlotWaits
    <3> HIDE DEF E
    <3>4. WaitsKept(slots, E)
      BY <3>2, <3>3, WaitsTrans
    <3> QED BY <3>1, <3>4 DEF WaitsKept
  <2>3. CASE t # s /\ t \notin ExecPeers(s)
    <3>1. C[t] = slots[t]
      BY <2>3 DEF Committed
    <3> QED BY <3>1 DEF Idles
  <2> QED BY <2>1, <2>2, <2>3
<1> QED BY <1>2 DEF WaitsKept

\* The image is in the group of the old program, and in no wait.
LEMMA PublishedWaits ==
    ASSUME IInv, NEW s \in Slots, ExecPending(s), NEW h, NEW p \in SlotRecords,
           p.tgid = slots[s].tgid, p.wait = NoWait
    PROVE  Published(s, h, p) \in SlotTables /\ WaitsKept(slots, Published(s, h, p))
<1> DEFINE C == Committed(s, h)
           M == [C EXCEPT ![s] = p]
<1>1. C \in SlotTables /\ WaitsKept(slots, C)
  BY CommittedType, CommittedWaits
<1>2. Published(s, h, p) = Reassign(M, s)
  BY DEF Published
<1> HIDE DEF C
<1>3. M \in SlotTables /\ M[s] = p /\ \A t \in Slots \ {s} : M[t] = C[t]
  BY <1>1, SlotUpdate DEF SlotTables
<1> HIDE DEF M
<1>4. Idles(slots[s], p)
  BY DEF Idles, ExecPending
<1>5. WaitsKept(slots, M)
  BY <1>1, <1>3, <1>4 DEF WaitsKept
<1>6. Reassign(M, s) \in SlotTables /\ WaitsKept(M, Reassign(M, s))
  BY <1>3, ReassignWaits
<1> QED BY <1>2, <1>5, <1>6, WaitsTrans

\* lxp_exec_txn_commit
LEMMA ExecDoneMiss ==
    ASSUME IInv, MissInv, NEW s \in Slots, NEW x \in ExecTargets(s), ExecDone(s, x.R, x.ref)
    PROVE  MissInv'
<1> DEFINE p(h) == [Cleared(Committed(s, h)[s]) EXCEPT
                      !.alive = TRUE, !.host = "RUNNING", !.runnable = TRUE,
                      !.pid = slots[s].pid, !.tgid = slots[s].tgid, !.mm = x.ref]
           Q(h) == Published(s, h, p(h))
<1>0. slots[s] \in SlotRecords
  BY DEF IInv, TypeOK, SlotTables
<1>1. PICK h :
             /\ ExecPending(s) /\ ~ExecStale(s)
             /\ slots' = CompleteSlot(Reassign([Committed(s, h) EXCEPT ![s] =
                 [Cleared(@) EXCEPT !.alive = TRUE, !.host = "RUNNING", !.runnable = TRUE,
                                    !.pid = slots[s].pid, !.tgid = slots[s].tgid,
                                    !.mm = x.ref]], s), slots[s].vpar, h)
             /\ groups' = groups /\ nextPid' = nextPid
  BY DEF ExecDone
<1> DEFINE C == Committed(s, h)
<1>2. C \in SlotTables /\ C[s] \in SlotRecords /\ Cleared(C[s]) \in SlotRecords
  BY <1>1, CommittedType, ClearedType DEF SlotTables
<1>3. x.ref \in RegionRefs
  BY <1>1, ExecTargetOk
<1>4. p(h) \in SlotRecords
  BY <1>0, <1>2, <1>3 DEF SlotRecords, Hosts
<1>5. p(h).tgid = slots[s].tgid /\ p(h).wait = NoWait
  BY <1>2 DEF SlotRecords, Cleared
<1>6. slots' = CompleteSlot(Q(h), slots[s].vpar, h)
  BY <1>1, <1>2 DEF SlotTables, Published
<1> HIDE DEF p, C
<1>7. ExecPending(s)
  BY <1>1
<1>8. Q(h) \in SlotTables /\ WaitsKept(slots, Q(h))
  BY <1>4, <1>5, <1>7, PublishedWaits
<1> HIDE DEF Q
<1>9. WaitsKept(slots, slots')
  BY <1>6, <1>8, CompleteSlotWaits, WaitsTrans
<1>10. UNCHANGED <<groups, nextPid>>
  BY <1>1
<1> QED BY <1>9, <1>10, NativeMiss

\* lxp_exec_txn_abort with the task refusing to be aborted, before the image is
\* published and after.
LEMMA ExecStuckMiss ==
    ASSUME IInv, MissInv, NEW s \in Slots, NEW x \in ExecTargets(s),
           ExecStuck(s, x.R, x.ref) \/ ExecLaunchStuck(s, x.R, x.ref)
    PROVE  MissInv'
<1> DEFINE p(h) == [Cleared(Committed(s, h)[s]) EXCEPT
                      !.alive = TRUE, !.host = "FAILED", !.intent = "EXIT",
                      !.pid = slots[s].pid, !.tgid = slots[s].tgid, !.mm = x.ref,
                      !.vpar = slots[s].vpar]
<1>0. slots[s] \in SlotRecords /\ ExecPending(s) /\ ~ExecStale(s)
  BY DEF IInv, TypeOK, SlotTables, ExecStuck, ExecLaunchStuck
<1>1. UNCHANGED <<groups, nextPid>>
  BY DEF ExecStuck, ExecLaunchStuck
<1>2. ASSUME NEW h PROVE Committed(s, h) \in SlotTables /\ WaitsKept(slots, Committed(s, h))
  BY <1>0, CommittedType, CommittedWaits
<1>3. CASE ExecStuck(s, x.R, x.ref)
  <2>1. PICK h : slots' = AbortSlot(Committed(s, h), s, h)
    BY <1>3 DEF ExecStuck
  <2>2. WaitsKept(Committed(s, h), slots')
    BY <1>2, <2>1, AbortSlotWaits
  <2>3. WaitsKept(slots, slots')
    BY <1>2, <2>2, WaitsTrans
  <2> QED BY <1>1, <2>3, NativeMiss
<1>4. CASE ExecLaunchStuck(s, x.R, x.ref)
  <2>1. PICK h : slots' = Reassign([Committed(s, h) EXCEPT ![s] =
                 [Cleared(@) EXCEPT !.alive = TRUE, !.host = "FAILED", !.intent = "EXIT",
                                    !.pid = slots[s].pid, !.tgid = slots[s].tgid,
                                    !.mm = x.ref, !.vpar = slots[s].vpar]], s)
    BY <1>4 DEF ExecLaunchStuck
  <2> DEFINE C == Committed(s, h)
  <2>2. C \in SlotTables /\ C[s] \in SlotRecords /\ Cleared(C[s]) \in SlotRecords
    BY <1>2, ClearedType DEF SlotTables
  <2>3. x.ref \in RegionRefs
    BY <1>0, ExecTargetOk
  <2>4. p(h) \in SlotRecords
    BY <1>0, <2>2, <2>3 DEF SlotRecords, Hosts, Intents, Exits
  <2>5. p(h).tgid = slots[s].tgid /\ p(h).wait = NoWait
    BY <2>2 DEF SlotRecords, Cleared
  <2>6. slots' = Published(s, h, p(h))
    BY <2>1, <2>2 DEF SlotTables, Published
  <2> HIDE DEF p, C
  <2>7. WaitsKept(slots, slots')
    BY <1>0, <2>4, <2>5, <2>6, PublishedWaits
  <2> QED BY <1>1, <2>7, NativeMiss
<1> QED BY <1>3, <1>4

\* lxp_exec_txn_abort past the commit point, the task being gone: the parent is
\* told as at an exit.
LEMMA ExecFailedMiss ==
    ASSUME IInv, MissInv, NEW s \in Slots, NEW x \in ExecTargets(s), ExecFailed(s, x.R, x.ref)
    PROVE  MissInv'
<1> DEFINE Q(h) == [Reassign(Committed(s, h), s) EXCEPT ![s] = [Cleared(@) EXCEPT !.host = "DEAD"]]
           E(h) == CompleteSlot(Q(h), slots[s].vpar, h)
           ev == [pid |-> slots[s].pid, kind |-> "EXITED"]
           G(h) == GroupPut(Q(h), groups, slots[s].tgid)
<1>0. MissOk(slots, groups) /\ nextPid > 0 /\ groups \in GroupTables
  BY DEF IInv, TypeOK, MissInv
<1>1. PICK h \in Oracles, t \in Slots \cup {-1} :
             /\ ExecPending(s) /\ nextPid' = nextPid
             /\ IsParentTask(E(h), groups[slots[s].tgid].ppid, ev, t)
             /\ slots' = ChildSlots(E(h), t, ev, h)
             /\ groups' = ChildGroups(E(h), G(h), t, ev)
  BY DEF ExecFailed
<1> DEFINE C == Committed(s, h)
           N == Reassign(C, s)
           p == [Cleared(N[s]) EXCEPT !.host = "DEAD"]
<1>2. C \in SlotTables /\ Quiet(C) /\ WaitsKept(slots, C)
  <2>1. C \in SlotTables /\ TableKeeps(slots, C) /\ WaitsKept(slots, C)
    BY <1>1, CommittedType, CommittedWaits
  <2> QED BY <2>1, KeepsQuiet DEF IInv, Sound
<1>3. Q(h) = [N EXCEPT ![s] = p]
  OBVIOUS
<1>4. QueuesKept(groups, G(h)) /\ G(h) \in GroupTables
  <2> HIDE DEF Q
  <2> QED BY <1>0, QueuesCleared, QueuesSelf, GroupPutType DEF GroupPut
<1> HIDE DEF C, ev, Q, G
<1>5. /\ N \in SlotTables /\ N[s] \in SlotRecords /\ WaitsKept(C, N)
      /\ \A u \in Slots \ {s} : N[u] = C[u]
  <2>1. N \in SlotTables /\ WaitsKept(C, N) /\ \A u \in Slots \ {s} : N[u] = C[u]
    BY <1>2, ReassignWaits, ReassignAt
  <2> QED BY <2>1 DEF SlotTables
<1> HIDE DEF N
<1>6. p \in SlotRecords /\ ~p.alive /\ p.host = "DEAD" /\ ~p.runnable
  <2>1. Cleared(N[s]) \in SlotRecords
    BY <1>5, ClearedType
  <2> QED BY <1>5, <2>1 DEF SlotRecords, Hosts, Cleared
<1>7. Idles(N[s], p)
  BY <1>6 DEF Idles
<1> HIDE DEF p
<1>8. /\ Q(h) \in SlotTables /\ WaitsKept(N, Q(h))
      /\ Q(h)[s] = p /\ \A u \in Slots \ {s} : Q(h)[u] = C[u]
  <2>1. [N EXCEPT ![s] = p] \in SlotTables /\ WaitsKept(N, [N EXCEPT ![s] = p])
    BY <1>5, <1>6, <1>7, SlotUpdate, SlotWaits
  <2> QED BY <1>3, <1>5, <2>1 DEF SlotTables
<1>9. Quiet(Q(h))
  BY <1>2, <1>6, <1>8 DEF Quiet
<1>10. E(h) \in SlotTables /\ TableKeeps(Q(h), E(h)) /\ WaitsKept(Q(h), E(h))
  BY <1>8, CompleteSlotType, CompleteSlotWaits
<1> HIDE DEF E
<1>11. Quiet(E(h)) /\ WaitsKept(slots, E(h))
  <2>1. WaitsKept(slots, N)
    BY <1>2, <1>5, WaitsTrans
  <2>2. WaitsKept(slots, Q(h))
    BY <1>8, <2>1, WaitsTrans
  <2> QED BY <1>9, <1>10, <2>2, WaitsTrans, KeepsQuiet
<1>12. MissOk(E(h), G(h))
  BY <1>0, <1>4, <1>11, MissKept
<1>13. MissOk(slots', groups')
  BY <1>1, <1>4, <1>10, <1>11, <1>12, ChildEventMiss
<1> QED BY <1>0, <1>1, <1>13 DEF MissInv

-----------------------------------------------------------------------------
(* The run bracket, and the theorem.                                       *)

\* A run starts with init, in no wait.
LEMMA StartRunMiss ==
    ASSUME IInv, StartRun
    PROVE  MissInv'
<1> DEFINE c == Cleared(Opened[0])
           ref == RegionRefAt(Launching, 0)
           p == [c EXCEPT !.alive = TRUE, !.host = "RUNNING", !.runnable = TRUE,
                          !.pid = 1, !.tgid = 1, !.mm = ref]
<1>1. /\ Opened \in SlotTables /\ (\A s \in Slots : ~Opened[s].alive) /\ 0 \in Slots
      /\ Opened[0] \in SlotRecords
  BY OpenedType, LaunchingOk DEF IInv, SlotTables
<1>2. /\ slots' = [Opened EXCEPT ![0] = p] /\ nextPid' = 2
      /\ groups' = [groups EXCEPT ![1] = NoGroup]
  BY DEF StartRun
<1>3. c \in SlotRecords /\ c.wait = NoWait
  BY <1>1, ClearedType DEF Cleared, SlotRecords
<1> HIDE DEF c, ref
<1>4. p.tgid = 1 /\ p.wait = NoWait
  BY <1>3 DEF SlotRecords
<1> HIDE DEF p
<1>5. slots'[0] = p /\ \A s \in Slots \ {0} : slots'[s] = Opened[s]
  BY <1>1, <1>2 DEF SlotTables
<1>6. 1 \in Pids
  BY ChildAssumption, SMT DEF Pids
<1>7. MissOk(Opened, groups)
  BY <1>1 DEF MissOk
<1>8. QueuesKept(groups, groups')
  BY <1>2, QueuesCleared DEF IInv, TypeOK
<1>9. \A s \in Slots \ {0} : Idles(Opened[s], slots'[s])
  BY <1>5 DEF Idles
<1>10. slots'[0].tgid \in Pids /\ slots'[0].wait = NoWait
  BY <1>4, <1>5, <1>6
<1>11. MissOk(slots', groups')
  BY <1>1, <1>7, <1>8, <1>9, <1>10, MissNew
<1> QED BY <1>2, <1>11, SMT DEF MissInv

\* A start that fails, and the teardown, leave no task.
LEMMA CleanMiss ==
    ASSUME IInv, MissInv, StartFailed \/ Teardown
    PROVE  MissInv'
<1>1. \A s \in Slots : slots[s] \in SlotRecords /\ Opened[s] \in SlotRecords
  BY OpenedType DEF IInv, TypeOK, SlotTables
<1>2. ASSUME NEW q \in SlotRecords
      PROVE  ~[Cleared(q) EXCEPT !.host = "DEAD", !.gen = GenNext(@)].alive
  <2>1. Cleared(q) \in SlotRecords /\ ~Cleared(q).alive
    BY ClearedType DEF Cleared, SlotRecords
  <2> QED BY <2>1 DEF SlotRecords
<1>3. \A s \in Slots : ~slots'[s].alive
  BY <1>1, <1>2 DEF StartFailed, Teardown
<1>4. nextPid' = nextPid
  BY DEF StartFailed, Teardown
<1> QED BY <1>3, <1>4 DEF MissInv, MissOk

\* Every step keeps the invariant.
LEMMA NextMiss ==
    ASSUME IInv, MissInv, [Next]_vars
    PROVE  MissInv'
<1>1. CASE UNCHANGED vars
  BY <1>1 DEF vars, MissInv
<1>2. CASE AllDead \/ Watchdog
  BY <1>2 DEF AllDead, Watchdog, MissInv
<1>3. ASSUME NEW s \in Slots, HandleFork(s)
      PROVE  MissInv'
  BY <1>3, ForkRefusedMiss, ForkAbortedMiss, ForkCommittedMiss DEF HandleFork
<1>4. ASSUME NEW s \in Slots, HandleExec(s)
      PROVE  MissInv'
  BY <1>4, ExecEarlyMiss, ExecDoneMiss, ExecFailedMiss, ExecStuckMiss DEF HandleExec
<1>5. ASSUME NEW s \in Slots, Coordinator(s)
      PROVE  MissInv'
  BY <1>3, <1>4, <1>5, HandleExitMiss, EvStopMiss, ScanStoppedMiss, ScanSignalMiss DEF Coordinator
<1> QED BY <1>1, <1>2, <1>5, StartRunMiss, CleanMiss, GuestMiss DEF Next

\* Initially there is no task.
LEMMA InitMiss == Init => MissInv
<1>1. Init => \A s \in Slots : ~slots[s].alive
  BY SMT DEF Init
<1>2. Init => nextPid > 0
  BY SMT DEF Init
<1> QED BY <1>1, <1>2 DEF MissInv, MissOk

\* No status is missed, for any number of slots, tasks and queue entries: a task
\* asleep in wait4 has no status in the queue of its group that it would accept.
THEOREM NoMissedStatus == Spec => []NoMissedChild
<1>1. Init => IInv /\ MissInv
  BY InitIInv, InitMiss
<1>2. IInv /\ MissInv /\ [Next]_vars => (IInv /\ MissInv)'
  BY NextIInv, NextMiss
<1>3. IInv /\ MissInv => NoMissedChild
  BY DEF MissInv, MissOk, Passed, NoMissedChild
<1> QED BY <1>1, <1>2, <1>3, PTL DEF Spec
=============================================================================
