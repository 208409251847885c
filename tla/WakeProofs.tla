----------------------------- MODULE WakeProofs -----------------------------
(***************************************************************************)
(* No wake-up is lost: ParkedHasReason for every value of the constants.   *)
(***************************************************************************)
EXTENDS LifecycleProofs

\* The prover of every step that names none.
USE ZenonT(60)

\* Nobody has to release the task: it is not parked, an event is pending for
\* it, it waits for a child, or it is stopped and keeps its result.
Awake(p) == p.host = "PARKED" /\ p.intent = "NONE" => p.wait.child \/ p.stop = "READY"

\* The exec or the exit of c releases its vfork parent s.  While c has its
\* snapshot, g records the parent as it is, so that a containment ends it.
Releases(P, g, c, s) ==
    /\ P[c].alive /\ P[c].vpar = SlotRefAt(P, s)
    /\ P[c].snap # NoRef => g[c] = [parent |-> SlotRefAt(P, s), region |-> P[s].mm,
                                    snapshot |-> P[c].snap]

\* A live task has had a generation; a vfork child is not of the group of init,
\* whose end releases no parent, and once it has no snapshot it is ending.
Held(p) ==
    /\ p.gen # 0
    /\ p.vpar # NoRef => p.tgid # 1 /\ (p.snap = NoRef => p.intent \in Exits)

WakeOk(P, g) ==
    \A s \in Slots : P[s].alive => /\ Held(P[s])
                                   /\ Awake(P[s]) \/ \E c \in Slots : Releases(P, g, c, s)

WakeInv == WakeOk(slots, guard) /\ nextPid > 1

\* The task is the same one, with the same parent and snapshot, and an exit is
\* not revoked.
Same(p, q) ==
    /\ q.alive = p.alive
    /\ p.alive => /\ q.gen = p.gen /\ q.mm = p.mm /\ q.tgid = p.tgid
                  /\ q.vpar = p.vpar /\ q.snap = p.snap
                  /\ p.intent \in Exits => q.intent \in Exits

\* The tasks of P are those of Q, and none but those of S is put to sleep.
Calm(P, Q, S) ==
    \A s \in Slots : /\ Same(P[s], Q[s])
                     /\ s \notin S /\ P[s].alive /\ Awake(P[s]) => Awake(Q[s])

\* The tasks of P and Q, s apart, are the same; one that s was to release, or
\* that was awake, is awake or s is to release it.
Follows(P, g, Q, k, s) ==
    \A t \in Slots \ {s} :
      /\ Same(P[t], Q[t]) /\ k[t] = g[t]
      /\ P[t].alive => \/ Awake(Q[t]) \/ Releases(Q, k, s, t)
                       \/ ~Awake(P[t]) /\ ~Releases(P, g, s, t)

-----------------------------------------------------------------------------
(* Tables.                                                                 *)

\* A step replaces or changes the task of slot s and keeps the others; those
\* that s was to release are awake, or s still is to release them.
LEMMA WakeStep ==
    ASSUME NEW P, NEW Q, NEW g, NEW k, WakeOk(P, g), NEW s \in Slots,
           Q[s].alive => Held(Q[s]) /\ Awake(Q[s]), Follows(P, g, Q, k, s)
    PROVE  WakeOk(Q, k)
<1> SUFFICES ASSUME NEW t \in Slots, t # s, Q[t].alive
             PROVE  /\ Held(Q[t])
                    /\ Awake(Q[t]) \/ \E c \in Slots : Releases(Q, k, c, t)
  BY DEF WakeOk
<1>1. P[t].alive /\ Same(P[t], Q[t])
  BY DEF Same, Follows
<1>2. Held(Q[t])
  BY <1>1 DEF WakeOk, Held, Same
<1>3. CASE ~Awake(P[t]) /\ ~Releases(P, g, s, t)
  <2>1. PICK c \in Slots : Releases(P, g, c, t)
    BY <1>1, <1>3 DEF WakeOk
  <2>2. c # s /\ Same(P[c], Q[c]) /\ k[c] = g[c]
    BY <1>3, <2>1 DEF Follows
  <2>3. SlotRefAt(Q, t) = SlotRefAt(P, t) /\ Q[t].mm = P[t].mm
    BY <1>1 DEF Same, SlotRefAt
  <2>4. Releases(Q, k, c, t)
    BY <2>1, <2>2, <2>3 DEF Releases, Same
  <2> QED BY <1>2, <2>4
<1> QED BY <1>1, <1>2, <1>3 DEF Follows

\* A step that keeps every task and puts none to sleep.
LEMMA WakeCalm ==
    ASSUME NEW P, NEW Q, NEW g, WakeOk(P, g), Calm(P, Q, {})
    PROVE  WakeOk(Q, g)
<1> SUFFICES ASSUME NEW t \in Slots, Q[t].alive
             PROVE  /\ Held(Q[t])
                    /\ Awake(Q[t]) \/ \E c \in Slots : Releases(Q, g, c, t)
  BY DEF WakeOk
<1>1. P[t].alive /\ Same(P[t], Q[t])
  BY DEF Same, Calm
<1>2. Held(Q[t])
  BY <1>1 DEF WakeOk, Held, Same
<1>3. CASE ~Awake(P[t])
  <2>1. PICK c \in Slots : Releases(P, g, c, t)
    BY <1>1, <1>3 DEF WakeOk
  <2>2. Same(P[c], Q[c])
    BY DEF Calm
  <2>3. SlotRefAt(Q, t) = SlotRefAt(P, t) /\ Q[t].mm = P[t].mm
    BY <1>1 DEF Same, SlotRefAt
  <2>4. Releases(Q, g, c, t)
    BY <2>1, <2>2, <2>3 DEF Releases, Same
  <2> QED BY <1>2, <2>4
<1> QED BY <1>1, <1>2, <1>3 DEF Calm

\* Calm steps compose.
LEMMA CalmTrans ==
    ASSUME NEW P, NEW Q, NEW T, NEW S, Calm(P, Q, S), Calm(Q, T, S)
    PROVE  Calm(P, T, S)
<1> SUFFICES ASSUME NEW s \in Slots
             PROVE  /\ Same(P[s], T[s])
                    /\ s \notin S /\ P[s].alive /\ Awake(P[s]) => Awake(T[s])
  BY DEF Calm
<1>1. Same(P[s], Q[s]) /\ Same(Q[s], T[s])
  BY DEF Calm
<1>2. Same(P[s], T[s])
  BY <1>1 DEF Same
<1>3. P[s].alive => Q[s].alive
  BY <1>1 DEF Same
<1> QED BY <1>2, <1>3 DEF Calm

\* No step at all is calm.
LEMMA CalmSelf ==
    ASSUME NEW P, NEW S
    PROVE  Calm(P, P, S)
BY DEF Calm, Same

\* Once the task that was put to sleep is awake, nobody was.
LEMMA CalmClose ==
    ASSUME NEW P, NEW Q, NEW s, Calm(P, Q, {s}), Awake(Q[s])
    PROVE  Calm(P, Q, {})
BY DEF Calm

\* Fewer were put to sleep.
LEMMA CalmMore ==
    ASSUME NEW P, NEW Q, NEW S, Calm(P, Q, {})
    PROVE  Calm(P, Q, S)
BY DEF Calm

\* An update of one record.
LEMMA SlotCalm ==
    ASSUME NEW P \in SlotTables, NEW s \in Slots, NEW q, NEW S, Same(P[s], q),
           s \notin S /\ P[s].alive /\ Awake(P[s]) => Awake(q)
    PROVE  Calm(P, [P EXCEPT ![s] = q], S)
<1>1. \A t \in Slots : [P EXCEPT ![s] = q][t] = IF t = s THEN q ELSE P[t]
  BY DEF SlotTables
<1>2. \A t \in Slots : Same(P[t], P[t])
  BY DEF Same
<1> QED BY <1>1, <1>2 DEF Calm

-----------------------------------------------------------------------------
(* Native transitions.                                                     *)

\* A task marked to exit is awake.
LEMMA ExitSlotCalm ==
    ASSUME NEW P \in SlotTables, NEW s \in Slots, NEW kind \in Exits
    PROVE  /\ Calm(P, ExitSlot(P, s, kind), {})
           /\ Awake(ExitSlot(P, s, kind)[s])
<1> DEFINE q == [P[s] EXCEPT !.intent = kind]
<1>1. P[s] \in SlotRecords /\ kind # "NONE"
  BY SMT DEF SlotTables, Exits
<1>2. Same(P[s], q) /\ Awake(q)
  BY <1>1 DEF SlotRecords, Same, Awake
<1>3. ExitSlot(P, s, kind) = [P EXCEPT ![s] = q] /\ ExitSlot(P, s, kind)[s] = q
  BY DEF ExitSlot, SlotTables
<1> HIDE DEF q
<1>4. Calm(P, [P EXCEPT ![s] = q], {})
  BY <1>2, SlotCalm
<1> QED BY <1>2, <1>3, <1>4

\* slot_transition_failed
LEMMA TransitionFailedCalm ==
    ASSUME NEW P \in SlotTables, NEW s \in Slots
    PROVE  Calm(P, TransitionFailed(P, s), {})
BY ExitSlotCalm, CalmSelf DEF TransitionFailed, Exits

\* lxp_coordinator_abort_slot
LEMMA AbortSlotCalm ==
    ASSUME NEW P \in SlotTables, NEW s \in Slots, P[s].alive, NEW h
    PROVE  Calm(P, AbortSlot(P, s, h), {})
<1> DEFINE f == [P[s] EXCEPT !.host = "FAILED", !.runnable = (P[s].host = "RUNNING")]
           d == [P[s] EXCEPT !.host = "DEAD", !.runnable = FALSE]
           F == [P EXCEPT ![s] = f]
<1>1. P[s] \in SlotRecords
  BY DEF SlotTables
<1>2. Same(P[s], f) /\ Awake(f) /\ Same(P[s], d) /\ Awake(d)
  BY <1>1 DEF SlotRecords, Same, Awake
<1>3. f \in SlotRecords
  BY <1>1 DEF SlotRecords, Hosts
<1>4. AbortSlot(P, s, h) \in {TransitionFailed(F, s), [P EXCEPT ![s] = d]}
  BY DEF AbortSlot, SlotTables
<1> HIDE DEF f, d
<1>5. F \in SlotTables /\ Calm(P, F, {}) /\ Calm(P, [P EXCEPT ![s] = d], {})
  BY <1>2, <1>3, SlotCalm, SlotUpdate
<1> HIDE DEF F
<1>6. Calm(P, TransitionFailed(F, s), {})
  BY <1>5, TransitionFailedCalm, CalmTrans
<1> QED BY <1>4, <1>5, <1>6

\* The start or the park is refused, and the task aborted.
LEMMA AbortFailedCalm ==
    ASSUME NEW P \in SlotTables, NEW s \in Slots, P[s].alive, NEW h
    PROVE  /\ Calm(P, TransitionFailed(AbortSlot(P, s, h), s), {})
           /\ Awake(TransitionFailed(AbortSlot(P, s, h), s)[s])
<1> DEFINE A == AbortSlot(P, s, h)
<1>1. A \in SlotTables /\ Calm(P, A, {}) /\ TableKeeps(P, A)
  BY AbortSlotType, AbortSlotCalm
<1>2. A[s].alive
  BY <1>1 DEF TableKeeps, Keeps
<1> HIDE DEF A
<1>3. TransitionFailed(A, s) = ExitSlot(A, s, "EXIT")
  BY <1>2 DEF TransitionFailed
<1>4. Calm(A, TransitionFailed(A, s), {}) /\ Awake(TransitionFailed(A, s)[s])
  BY <1>1, <1>3, ExitSlotCalm DEF Exits
<1>5. Calm(P, TransitionFailed(A, s), {})
  BY <1>1, <1>4, CalmTrans
<1> QED BY <1>4, <1>5 DEF A

\* lxp_coordinator_park_slot puts its own task to sleep, unless it is refused.
LEMMA ParkSlotCalm ==
    ASSUME NEW P \in SlotTables, Quiet(P), NEW s \in Slots, NEW h
    PROVE  /\ Calm(P, ParkSlot(P, s, h), {s})
           /\ P[s].host = "RUNNING" /\ <<"park", s>> \in h => Calm(P, ParkSlot(P, s, h), {})
<1> DEFINE q == [P[s] EXCEPT !.host = "PARKED", !.runnable = FALSE]
           A == TransitionFailed(AbortSlot(P, s, h), s)
<1>1. P[s] \in SlotRecords
  BY DEF SlotTables
<1>2. Same(P[s], q)
  BY <1>1 DEF SlotRecords, Same
<1>3. Calm(P, P, {s}) /\ Calm(P, TransitionFailed(P, s), {s})
  BY CalmSelf, CalmMore, TransitionFailedCalm
<1>4. Calm(P, [P EXCEPT ![s] = q], {s})
  BY <1>2, SlotCalm
<1>5. CASE P[s].host = "RUNNING" /\ <<"park", s>> \in h
  <2>1. P[s].alive
    BY <1>5 DEF Quiet
  <2>2. Calm(P, A, {})
    BY <2>1, AbortFailedCalm
  <2>3. ParkSlot(P, s, h) = A
    BY <1>5 DEF ParkSlot
  <2> QED BY <2>2, <2>3, CalmMore
<1>6. CASE ~(P[s].host = "RUNNING" /\ <<"park", s>> \in h)
  <2>1. ParkSlot(P, s, h) \in {P, TransitionFailed(P, s), [P EXCEPT ![s] = q]}
    BY <1>6 DEF ParkSlot, SlotTables
  <2> HIDE DEF q
  <2> QED BY <1>3, <1>4, <1>6, <2>1
<1> QED BY <1>5, <1>6

\* lxp_coordinator_resume_slot
LEMMA ResumeSlotCalm ==
    ASSUME NEW P \in SlotTables, NEW s \in Slots, NEW h
    PROVE  /\ Calm(P, ResumeSlot(P, s, h), {})
           /\ CanResume(P, s) => Awake(ResumeSlot(P, s, h)[s])
<1> DEFINE q == [P[s] EXCEPT !.host = "RUNNING", !.runnable = TRUE]
           A == TransitionFailed(AbortSlot(P, s, h), s)
<1>1. P[s] \in SlotRecords
  BY DEF SlotTables
<1>2. Same(P[s], q) /\ Awake(q)
  BY <1>1 DEF SlotRecords, Same, Awake
<1>3. Calm(P, [P EXCEPT ![s] = q], {}) /\ [P EXCEPT ![s] = q][s] = q
  BY <1>2, SlotCalm DEF SlotTables
<1>4. CASE CanResume(P, s)
  <2>1. Calm(P, A, {}) /\ Awake(A[s])
    BY <1>4, AbortFailedCalm DEF CanResume
  <2>2. ResumeSlot(P, s, h) \in {A, [P EXCEPT ![s] = q]}
    BY <1>4 DEF ResumeSlot, SlotTables
  <2> HIDE DEF q, A
  <2> QED BY <1>2, <1>3, <2>1, <2>2
<1>5. CASE ~CanResume(P, s)
  BY <1>5, CalmSelf DEF ResumeSlot
<1> QED BY <1>4, <1>5

\* lxp_coordinator_complete_slot leaves its task awake: a task that it cannot
\* resume is ending or keeps the result.
LEMMA CompleteSlotCalm ==
    ASSUME NEW P \in SlotTables, NEW ref, NEW h
    PROVE  /\ Calm(P, CompleteSlot(P, ref, h), {})
           /\ IsCurrent(P, ref) => Awake(CompleteSlot(P, ref, h)[ref.index])
<1> DEFINE i == ref.index
           q == [P[i] EXCEPT !.stop = "READY"]
           C == CompleteSlot(P, ref, h)
<1>1. CASE ~IsCurrent(P, ref) \/ P[i].host # "PARKED"
  <2>1. C = P
    BY <1>1 DEF CompleteSlot
  <2> QED BY <1>1, <2>1, CalmSelf DEF Awake
<1>2. ASSUME IsCurrent(P, ref), P[i].host = "PARKED"
      PROVE  Calm(P, C, {}) /\ Awake(C[i])
  <2>1. i \in Slots /\ P[i] \in SlotRecords /\ P[i].alive
    BY <1>2 DEF IsCurrent, SlotTables
  <2>2. CASE P[i].stop = "PARKED"
    <3>1. Same(P[i], q) /\ Awake(q)
      BY <2>1 DEF SlotRecords, Same, Awake
    <3>2. C = [P EXCEPT ![i] = q] /\ C[i] = q
      BY <1>2, <2>1, <2>2 DEF CompleteSlot, SlotTables
    <3> HIDE DEF q, C
    <3> QED BY <2>1, <3>1, <3>2, SlotCalm
  <2>3. CASE P[i].stop # "PARKED"
    <3>1. C = ResumeSlot(P, i, h)
      BY <1>2, <2>3 DEF CompleteSlot
    <3>2. CASE CanResume(P, i)
      BY <2>1, <3>1, <3>2, ResumeSlotCalm
    <3>3. CASE ~CanResume(P, i)
      <4>1. C = P
        BY <3>1, <3>3 DEF ResumeSlot
      <4>2. P[i].stop = "READY" \/ P[i].intent \in Exits
        BY <1>2, <2>1, <2>3, <3>3 DEF CanResume, SlotRecords
      <4>3. Awake(P[i])
        BY <4>2, SMT DEF Awake, Exits
      <4> QED BY <4>1, <4>3, CalmSelf
    <3> QED BY <3>2, <3>3
  <2> QED BY <2>2, <2>3
<1> QED BY <1>1, <1>2

\* Parking a task and handing it its result.
LEMMA ParkAndCompleteCalm ==
    ASSUME NEW P \in SlotTables, Quiet(P), NEW s \in Slots, P[s].alive, P[s].gen # 0, NEW h
    PROVE  Calm(P, ParkAndComplete(P, s, h), {s}) /\ Awake(ParkAndComplete(P, s, h)[s])
<1> DEFINE Q == ParkSlot(P, s, h)
<1>1. Q \in SlotTables /\ Calm(P, Q, {s})
  BY ParkSlotType, ParkSlotCalm
<1> HIDE DEF Q
<1>2. IsCurrent(Q, SlotRefAt(Q, s)) /\ SlotRefAt(Q, s).index = s
  BY <1>1 DEF IsCurrent, SlotRefAt, Calm, Same
<1>3. ParkAndComplete(P, s, h) = CompleteSlot(Q, SlotRefAt(Q, s), h)
  BY DEF ParkAndComplete, Q
<1>4. /\ Calm(Q, ParkAndComplete(P, s, h), {s})
      /\ Awake(ParkAndComplete(P, s, h)[s])
  BY <1>1, <1>2, <1>3, CompleteSlotCalm, CalmMore
<1> QED BY <1>1, <1>4, CalmTrans

\* child_event_publish takes a task out of its wait and hands it the status.
LEMMA ChildSlotsCalm ==
    ASSUME NEW P \in SlotTables, Quiet(P), NEW t,
           t \in Slots => P[t].alive /\ P[t].gen # 0, NEW ev, NEW h
    PROVE  Calm(P, ChildSlots(P, t, ev, h), {})
<1>1. CASE t \in Slots /\ Accepts(P[t], ev)
  <2> DEFINE w == [P[t] EXCEPT !.wait = NoWait]
             W == [P EXCEPT ![t] = w]
  <2>1. P[t] \in SlotRecords /\ P[t].alive /\ NoWait \in Waits
    BY <1>1, ChildAssumption, SMT DEF SlotTables, NoWait, Waits
  <2>2. w \in SlotRecords /\ Same(P[t], w) /\ Keeps(P[t], w)
    BY <2>1 DEF SlotRecords, Same, Keeps
  <2>3. ChildSlots(P, t, ev, h) = ParkAndComplete(W, t, h)
    BY <1>1 DEF ChildSlots, ParkAndComplete, SlotTables
  <2>4. W[t] = w
    BY <1>1 DEF SlotTables
  <2>5. w.alive /\ w.gen # 0
    BY <1>1, <2>1 DEF SlotRecords
  <2> HIDE DEF w
  <2>6. W \in SlotTables /\ TableKeeps(P, W) /\ Calm(P, W, {t})
    BY <1>1, <2>2, SlotStep, SlotCalm
  <2>7. Quiet(W)
    BY <2>6, KeepsQuiet
  <2> HIDE DEF W
  <2>8. /\ Calm(W, ChildSlots(P, t, ev, h), {t})
        /\ Awake(ChildSlots(P, t, ev, h)[t])
    BY <1>1, <2>3, <2>4, <2>5, <2>6, <2>7, ParkAndCompleteCalm
  <2> QED BY <2>6, <2>8, CalmTrans, CalmClose
<1>2. CASE ~(t \in Slots /\ Accepts(P[t], ev))
  BY <1>2, CalmSelf DEF ChildSlots
<1> QED BY <1>1, <1>2

\* The task that a child event goes to is live, if there is one.
LEMMA ParentTaskAlive ==
    ASSUME NEW P, NEW g, NEW ppid, NEW ev, NEW t \in Slots \cup {-1},
           IsParentTask(P, ppid, ev, t), WakeOk(P, g)
    PROVE  t \in Slots => P[t].alive /\ P[t].gen # 0
<1>1. -1 \notin Slots
  BY SMT DEF Slots
<1>2. t \in Slots => t \in Members(P, ppid)
  BY <1>1 DEF IsParentTask
<1> QED BY <1>2 DEF Members, WakeOk, Held

-----------------------------------------------------------------------------
(* Steps that only make native transitions.                                *)

\* Such a step.
LEMMA NativeWake ==
    ASSUME WakeInv, Calm(slots, slots', {}), UNCHANGED <<guard, nextPid>>
    PROVE  WakeInv'
<1>1. WakeOk(slots', guard)
  BY WakeCalm DEF WakeInv
<1> QED BY <1>1 DEF WakeInv

\* lxp_notify_parent_stopped
LEMMA NotifyStoppedCalm ==
    ASSUME NEW P \in SlotTables, Quiet(P), NEW g, WakeOk(P, g), NEW G, NEW s, NEW h,
           NotifyStopped(P, G, s, h)
    PROVE  Calm(P, slots', {})
<1> DEFINE ev == [pid |-> P[s].pid, kind |-> "STOPPED"]
<1>1. PICK t \in Slots \cup {-1} :
             /\ IsParentTask(P, G[P[s].tgid].ppid, ev, t)
             /\ slots' = ChildSlots(P, t, ev, h)
  BY DEF NotifyStopped
<1> HIDE DEF ev
<1>2. t \in Slots => P[t].alive /\ P[t].gen # 0
  BY <1>1, ParentTaskAlive
<1> QED BY <1>1, <1>2, ChildSlotsCalm

\* The task that lxp_execute_deferred parks is the only one put to sleep.
LEMMA ParkedCalm ==
    ASSUME IInv, NEW s \in Slots, UserMode(s)
    PROVE  Calm(slots, Parked(s), {s})
<1> DEFINE q == [slots[s] EXCEPT !.host = "PARKED", !.runnable = FALSE]
<1>1. slots \in SlotTables /\ slots[s] \in SlotRecords
  BY DEF IInv, TypeOK, SlotTables
<1>2. Same(slots[s], q)
  BY <1>1 DEF SlotRecords, Same
<1>3. Parked(s) = [slots EXCEPT ![s] = q]
  BY DEF Parked
<1> HIDE DEF q
<1>4. Calm(slots, [slots EXCEPT ![s] = q], {s})
  BY <1>1, <1>2, SlotCalm
<1> QED BY <1>3, <1>4

\* The tail of lxp_execute_deferred leaves the task with its result, ending, or
\* stopped with its result.
LEMMA DeferredCalm ==
    ASSUME IInv, WakeInv, NEW s \in Slots, UserMode(s), NEW G, Deferred(s, G)
    PROVE  Calm(slots, slots', {})
<1> DEFINE sig == Deliverable(slots[s].pend)
           K == Parked(s)
           p == [K[s] EXCEPT !.pend = @ \ {sig}]
           P == [K EXCEPT ![s] = p]
           z == [p EXCEPT !.stop = "PARKED"]
           Z == [P EXCEPT ![s] = z]
           ref == SlotRefAt(P, s)
<1>0. slots \in SlotTables /\ slots[s].alive /\ Quiet(slots) /\ slots[s].gen # 0
  BY DEF IInv, TypeOK, Sound, UserMode, WakeInv, WakeOk, Held
<1>1. K \in SlotTables /\ TableKeeps(slots, K) /\ K[s] \in SlotRecords /\ Calm(slots, K, {s})
  BY ParkedType, ParkedCalm DEF SlotTables
<1>2. PICK h \in Oracles :
        \/ slots' = CompleteSlot(P, ref, h)
        \/ slots' = ExitSlot(P, s, "EXIT")
        \/ NotifyStopped(CompleteSlot(Z, ref, h), G, s, h)
  <2>1. P = [Parked(s) EXCEPT ![s].pend = @ \ {sig}]
    BY <1>1 DEF SlotTables
  <2>2. Z = [P EXCEPT ![s].stop = "PARKED"]
    BY <1>1 DEF SlotTables
  <2> HIDE DEF P, Z
  <2> QED BY <2>1, <2>2 DEF Deferred
<1> HIDE DEF K, sig
<1>3. /\ p \in SlotRecords /\ Same(K[s], p) /\ Keeps(K[s], p)
      /\ z \in SlotRecords /\ Same(p, z) /\ Keeps(p, z)
  BY <1>1 DEF SlotRecords, Same, Keeps
<1>4. P[s] = p
  BY <1>1 DEF SlotTables
<1> HIDE DEF p, z
<1>5. P \in SlotTables /\ TableKeeps(K, P) /\ Calm(K, P, {s})
  BY <1>1, <1>3, SlotStep, SlotCalm
<1> HIDE DEF P
<1>6. Z \in SlotTables /\ TableKeeps(P, Z) /\ Calm(P, Z, {s})
  BY <1>3, <1>4, <1>5, SlotStep, SlotCalm
<1> HIDE DEF Z
<1>7. /\ Calm(slots, P, {s}) /\ Calm(slots, Z, {s})
      /\ TableKeeps(slots, P) /\ TableKeeps(slots, Z)
  BY <1>1, <1>5, <1>6, CalmTrans, KeepsTrans
<1>8. IsCurrent(P, ref) /\ IsCurrent(Z, ref) /\ ref.index = s
  BY <1>0, <1>7 DEF IsCurrent, SlotRefAt, Calm, Same
<1> HIDE DEF ref
<1>9. CASE slots' = CompleteSlot(P, ref, h)
  <2>1. Calm(P, slots', {s}) /\ Awake(slots'[s])
    BY <1>5, <1>8, <1>9, CompleteSlotCalm, CalmMore
  <2> QED BY <1>7, <2>1, CalmTrans, CalmClose
<1>10. CASE slots' = ExitSlot(P, s, "EXIT")
  <2>1. Calm(P, slots', {s}) /\ Awake(slots'[s])
    BY <1>5, <1>10, ExitSlotCalm, CalmMore DEF Exits
  <2> QED BY <1>7, <2>1, CalmTrans, CalmClose
<1>11. CASE NotifyStopped(CompleteSlot(Z, ref, h), G, s, h)
  <2> DEFINE C == CompleteSlot(Z, ref, h)
  <2>1. C \in SlotTables /\ TableKeeps(Z, C) /\ Calm(Z, C, {s}) /\ Awake(C[s])
    BY <1>6, <1>8, CompleteSlotType, CompleteSlotCalm, CalmMore
  <2> HIDE DEF C
  <2>2. Calm(slots, C, {}) /\ TableKeeps(slots, C)
    BY <1>7, <2>1, CalmTrans, CalmClose, KeepsTrans
  <2>3. Quiet(C) /\ WakeOk(C, guard)
    BY <1>0, <2>2, KeepsQuiet, WakeCalm DEF WakeInv
  <2>4. Calm(C, slots', {})
    BY <1>11, <2>1, <2>3, NotifyStoppedCalm DEF C
  <2> QED BY <2>2, <2>4, CalmTrans
<1> QED BY <1>2, <1>9, <1>10, <1>11

\* What the guests do.
LEMMA GuestWake ==
    ASSUME IInv, WakeInv, NEW s \in Slots, Guest(s)
    PROVE  WakeInv'
<1>1. slots \in SlotTables /\ slots[s] \in SlotRecords /\ Quiet(slots)
  BY DEF IInv, TypeOK, Sound, SlotTables
<1>2. CASE Write(s) \/ Reboot(s)
  BY <1>2 DEF Write, Reboot, WakeInv
<1>3. CASE RequestExec(s)
  <2> DEFINE q == [slots[s] EXCEPT !.host = "PARKED", !.runnable = FALSE, !.intent = "EXEC"]
  <2>1. slots' = [slots EXCEPT ![s] = q]
    BY <1>1, <1>3 DEF RequestExec, Parked, SlotTables, SlotRecords
  <2>2. Same(slots[s], q) /\ Awake(q)
    BY <1>1, <1>3 DEF RequestExec, UserMode, SlotRecords, Same, Awake, Exits
  <2> HIDE DEF q
  <2>3. Calm(slots, slots', {})
    BY <1>1, <2>1, <2>2, SlotCalm
  <2> QED BY <1>3, <2>3, NativeWake DEF RequestExec
<1>4. CASE TakeSignal(s)
  <2> DEFINE q == Taking(slots[s], Deliverable(slots[s].pend))
  <2>1. slots' = [slots EXCEPT ![s] = q]
    BY <1>4 DEF TakeSignal
  <2>2. Same(slots[s], q) /\ Awake(q)
    BY <1>1, <1>4 DEF TakeSignal, UserMode, SlotRecords, Same, Awake, Exits, Taking
  <2> HIDE DEF q
  <2>3. Calm(slots, slots', {})
    BY <1>1, <2>1, <2>2, SlotCalm
  <2> QED BY <1>4, <2>3, NativeWake DEF TakeSignal
<1>5. CASE DeferRefused(s)
  <2>1. PICK h \in Oracles : <<"park", s>> \in h /\ slots' = ParkSlot(slots, s, h)
    BY <1>5 DEF DeferRefused
  <2>2. slots[s].host = "RUNNING"
    BY <1>5 DEF DeferRefused, UserMode
  <2>3. Calm(slots, slots', {})
    BY <1>1, <2>1, <2>2, ParkSlotCalm
  <2> QED BY <1>5, <2>3, NativeWake DEF DeferRefused
<1>6. CASE OtherCall(s)
  BY <1>6, DeferredCalm, NativeWake DEF OtherCall
<1>7. ASSUME NEW kind \in ForkKinds, RequestFork(s, kind)
      PROVE  WakeInv'
  <2> DEFINE q == [slots[s] EXCEPT !.intent = kind]
  <2>1. slots' = [slots EXCEPT ![s] = q]
    BY <1>1, <1>7 DEF RequestFork, SlotTables
  <2>2. Same(slots[s], q) /\ Awake(q)
    BY <1>1, <1>7 DEF RequestFork, UserMode, SlotRecords, Same, Awake, Exits
  <2> HIDE DEF q
  <2>3. Calm(slots, slots', {})
    BY <1>1, <2>1, <2>2, SlotCalm
  <2> QED BY <1>7, <2>3, NativeWake DEF RequestFork
<1>8. ASSUME NEW kind \in ExitKinds, RequestExit(s, kind)
      PROVE  WakeInv'
  <2>1. kind \in Exits /\ slots' = ExitSlot(slots, s, kind)
    BY <1>8, LifecycleAssumption DEF RequestExit
  <2>2. Calm(slots, slots', {})
    BY <1>1, <2>1, ExitSlotCalm
  <2> QED BY <1>8, <2>2, NativeWake DEF RequestExit
<1>9. ASSUME NEW t \in Slots, NEW sig \in SigKinds, SendSignal(s, t, sig)
      PROVE  WakeInv'
  <2> DEFINE q == [slots[t] EXCEPT !.pend = Latch(@, sig)]
  <2>1. slots[t] \in SlotRecords /\ slots' = [slots EXCEPT ![t] = q]
    BY <1>1, <1>9 DEF SendSignal, SlotTables
  <2>2. Same(slots[t], q) /\ (Awake(slots[t]) => Awake(q))
    BY <2>1 DEF SlotRecords, Same, Awake
  <2> HIDE DEF q
  <2>3. Calm(slots, slots', {})
    BY <1>1, <2>1, <2>2, SlotCalm
  <2> QED BY <1>9, <2>3, NativeWake DEF SendSignal
<1>10. ASSUME NEW pid \in WaitPids, NEW untraced \in BOOLEAN, Wait4Reap(s, pid, untraced)
       PROVE  WakeInv'
  <2>1. UserMode(s) /\ \E G : Deferred(s, G)
    BY <1>10 DEF Wait4Reap
  <2>2. Calm(slots, slots', {})
    BY <2>1, DeferredCalm
  <2> QED BY <1>10, <2>2, NativeWake DEF Wait4Reap
<1>11. ASSUME NEW pid \in WaitPids, NEW untraced \in BOOLEAN, Wait4Block(s, pid, untraced)
       PROVE  WakeInv'
  <2> DEFINE w == [child |-> TRUE, pid |-> pid, untraced |-> untraced]
             q == [slots[s] EXCEPT !.host = "PARKED", !.runnable = FALSE, !.wait = w]
  <2>1. slots' = [slots EXCEPT ![s] = q]
    BY <1>1, <1>11 DEF Wait4Block, Parked, SlotTables, SlotRecords
  <2>2. Same(slots[s], q) /\ Awake(q)
    BY <1>1 DEF SlotRecords, Same, Awake
  <2> HIDE DEF q
  <2>3. Calm(slots, slots', {})
    BY <1>1, <2>1, <2>2, SlotCalm
  <2> QED BY <1>11, <2>3, NativeWake DEF Wait4Block
<1> QED BY <1>2, <1>3, <1>4, <1>5, <1>6, <1>7, <1>8, <1>9, <1>10, <1>11 DEF Guest

-----------------------------------------------------------------------------
(* Job control.                                                            *)

\* LXP_EV_STOP: the stopped task keeps its result.
LEMMA EvStopWake ==
    ASSUME IInv, WakeInv, NEW s \in Slots, EvStop(s)
    PROVE  WakeInv'
<1>0. slots \in SlotTables /\ Quiet(slots) /\ slots[s] \in SlotRecords
  BY DEF IInv, TypeOK, Sound, SlotTables
<1>1. PICK h \in Oracles :
        LET P == ParkSlot(slots, s, h)
        IN  IF P[s].host = "PARKED" THEN NotifyStopped(P, groups, s, h) ELSE slots' = P
  BY DEF EvStop
<1> DEFINE P == ParkSlot(slots, s, h)
<1>2. P \in SlotTables /\ TableKeeps(slots, P) /\ Calm(slots, P, {s})
  BY <1>0, ParkSlotType, ParkSlotCalm
<1>3. Awake(P[s])
  <2>2. CASE P[s].host # "PARKED"
    BY <2>2 DEF Awake
  <2>3. CASE P[s].host = "PARKED"
    <3>1. slots[s].stop = "READY" /\ slots[s].intent = "NONE"
      BY DEF EvStop
    <3>2. CASE slots[s].host = "PARKED"
      BY <3>1, <3>2 DEF ParkSlot, Awake
    <3>3. CASE slots[s].host = "RUNNING" /\ <<"park", s>> \notin h
      BY <1>0, <3>1, <3>3 DEF ParkSlot, Awake, SlotTables, SlotRecords
    <3>4. CASE slots[s].host = "RUNNING" /\ <<"park", s>> \in h
      <4>1. slots[s].alive
        BY DEF EvStop
      <4>2. P = TransitionFailed(AbortSlot(slots, s, h), s)
        BY <3>4 DEF ParkSlot
      <4> QED BY <1>0, <4>1, <4>2, AbortFailedCalm
    <3>5. CASE slots[s].host \notin {"PARKED", "RUNNING"}
      <4>1. P = TransitionFailed(slots, s)
        BY <3>5 DEF ParkSlot
      <4>2. P = ExitSlot(slots, s, "EXIT")
        BY <4>1 DEF EvStop, TransitionFailed
      <4> QED BY <1>0, <4>2, ExitSlotCalm DEF Exits
    <3> QED BY <3>2, <3>3, <3>4, <3>5
  <2> QED BY <2>2, <2>3
<1> HIDE DEF P
<1>4. Calm(slots, P, {}) /\ Quiet(P)
  BY <1>0, <1>2, <1>3, CalmClose, KeepsQuiet
<1>5. WakeOk(P, guard)
  BY <1>4, WakeCalm DEF WakeInv
<1>6. NotifyStopped(P, groups, s, h) \/ slots' = P
  BY <1>1 DEF P
<1>7. Calm(slots, slots', {})
  BY <1>2, <1>4, <1>5, <1>6, NotifyStoppedCalm, CalmTrans
<1> QED BY <1>7, NativeWake DEF EvStop

\* lxp_blocked_handle_stopped: a task continued with its result kept is resumed.
LEMMA ScanStoppedWake ==
    ASSUME IInv, WakeInv, NEW s \in Slots, ScanStopped(s)
    PROVE  WakeInv'
<1> DEFINE k == [Unstopped(slots[s], "KILL") EXCEPT !.intent = "EXIT"]
           c == Unstopped(slots[s], "CONT")
           P == [slots EXCEPT ![s] = c]
<1>0. /\ slots \in SlotTables /\ slots[s] \in SlotRecords /\ slots[s].alive
      /\ slots[s].intent = "NONE"
  BY DEF IInv, TypeOK, SlotTables, ScanStopped, Scanned
<1>1. \/ slots' = [slots EXCEPT ![s] = k]
      \/ slots[s].stop = "READY" /\ \E h : slots' = ResumeSlot(P, s, h)
      \/ slots[s].stop # "READY" /\ slots' = P
  <2>1. ExitSlot([slots EXCEPT ![s] = Unstopped(@, "KILL")], s, "EXIT")
          = [slots EXCEPT ![s] = k]
    BY <1>0 DEF ExitSlot, SlotTables
  <2>2. P = [slots EXCEPT ![s] = Unstopped(@, "CONT")]
    OBVIOUS
  <2> HIDE DEF k, P
  <2> QED BY <2>1, <2>2 DEF ScanStopped
<1>2. /\ Same(slots[s], k) /\ Awake(k)
      /\ Same(slots[s], c) /\ c \in SlotRecords /\ c.stop = "NONE" /\ c.intent = "NONE"
      /\ c.alive /\ c.host = slots[s].host /\ c.wait = slots[s].wait
  BY <1>0 DEF SlotRecords, Same, Awake, Unstopped, Exits
<1>3. P[s] = c
  BY <1>0 DEF SlotTables
<1> HIDE DEF k, c
<1>4. /\ Calm(slots, [slots EXCEPT ![s] = k], {}) /\ P \in SlotTables /\ Calm(slots, P, {s})
  BY <1>0, <1>2, SlotCalm, SlotUpdate
<1>5. CASE slots' = [slots EXCEPT ![s] = k]
  BY <1>4, <1>5, NativeWake DEF ScanStopped
<1>6. CASE slots[s].stop # "READY" /\ slots' = P
  <2>1. Awake(slots[s]) => Awake(c)
    BY <1>0, <1>2, <1>6 DEF Awake
  <2>2. Calm(slots, P, {})
    BY <1>0, <1>2, <2>1, SlotCalm
  <2> QED BY <1>6, <2>2, NativeWake DEF ScanStopped
<1>7. ASSUME NEW h, slots' = ResumeSlot(P, s, h)
      PROVE  WakeInv'
  <2> HIDE DEF P
  <2>1. Calm(P, slots', {s})
    BY <1>4, <1>7, ResumeSlotCalm, CalmMore
  <2>2. Awake(slots'[s])
    <3>1. CASE CanResume(P, s)
      BY <1>4, <1>7, <3>1, ResumeSlotCalm
    <3>2. CASE ~CanResume(P, s)
      <4>1. slots' = P
        BY <1>7, <3>2 DEF ResumeSlot
      <4>2. P[s].host # "PARKED"
        BY <1>2, <1>3, <3>2 DEF CanResume, Exits
      <4> QED BY <4>1, <4>2 DEF Awake
    <3> QED BY <3>1, <3>2
  <2>3. Calm(slots, slots', {})
    BY <1>4, <2>1, <2>2, CalmTrans, CalmClose
  <2> QED BY <2>3, NativeWake DEF ScanStopped
<1> QED BY <1>1, <1>5, <1>6, <1>7

\* lxp_blocked_handle_signal: a stop does not take the reason of a parked task.
LEMMA ScanSignalWake ==
    ASSUME IInv, WakeInv, NEW s \in Slots, ScanSignal(s)
    PROVE  WakeInv'
<1> DEFINE sig == Deliverable(slots[s].pend)
           c == [slots[s] EXCEPT !.pend = @ \ {sig}]
           k == [c EXCEPT !.wait = NoWait, !.intent = "EXIT"]
           z == [c EXCEPT !.stop = "PARKED"]
           Z == [slots EXCEPT ![s] = z]
<1>0. slots \in SlotTables /\ slots[s] \in SlotRecords /\ Quiet(slots) /\ slots[s].stop = "NONE"
  BY DEF IInv, TypeOK, Sound, SlotTables, ScanSignal
<1>1. \/ \E h : NotifyStopped(Z, groups, s, h)
      \/ slots' = [slots EXCEPT ![s] = k]
      \/ slots' = [slots EXCEPT ![s] = c]
  <2>1. Z = [[slots EXCEPT ![s].pend = @ \ {sig}] EXCEPT ![s].stop = "PARKED"]
    BY <1>0 DEF SlotTables
  <2>2. [[slots EXCEPT ![s].pend = @ \ {sig}] EXCEPT ![s] =
            [@ EXCEPT !.wait = NoWait, !.intent = "EXIT"]] = [slots EXCEPT ![s] = k]
    BY <1>0 DEF SlotTables
  <2>3. [slots EXCEPT ![s].pend = @ \ {sig}] = [slots EXCEPT ![s] = c]
    BY <1>0 DEF SlotTables
  <2> HIDE DEF Z, k, c
  <2> QED BY <2>1, <2>2, <2>3 DEF ScanSignal
<1> HIDE DEF sig
<1>2. Same(slots[s], c) /\ (Awake(slots[s]) => Awake(c))
  BY <1>0 DEF SlotRecords, Same, Awake
<1>3. Same(slots[s], k) /\ Awake(k)
  BY <1>0 DEF SlotRecords, Same, Awake, Exits
<1>4. z \in SlotRecords /\ Keeps(slots[s], z)
  BY <1>0 DEF SlotRecords, Keeps
<1>5. Same(slots[s], z) /\ (Awake(slots[s]) => Awake(z))
  BY <1>0 DEF SlotRecords, Same, Awake
<1> HIDE DEF c, k, z
<1>6. /\ Calm(slots, [slots EXCEPT ![s] = c], {}) /\ Calm(slots, [slots EXCEPT ![s] = k], {})
      /\ Calm(slots, Z, {}) /\ Z \in SlotTables /\ TableKeeps(slots, Z)
  BY <1>0, <1>2, <1>3, <1>4, <1>5, SlotCalm, SlotStep
<1> HIDE DEF Z
<1>7. Quiet(Z) /\ WakeOk(Z, guard)
  BY <1>0, <1>6, KeepsQuiet, WakeCalm DEF WakeInv
<1>8. Calm(slots, slots', {})
  BY <1>1, <1>6, <1>7, NotifyStoppedCalm, CalmTrans
<1> QED BY <1>8, NativeWake DEF ScanSignal

-----------------------------------------------------------------------------
(* lxp_handle_fork.                                                        *)

\* Completing the fork intent may leave its own task asleep, no other.
LEMMA ForkingCalm ==
    ASSUME IInv, NEW s \in Slots, ForkPending(s)
    PROVE  Calm(slots, Forking(s), {s})
<1> DEFINE q == [slots[s] EXCEPT !.intent = "NONE"]
<1>1. slots \in SlotTables /\ slots[s] \in SlotRecords
  BY DEF IInv, TypeOK, SlotTables
<1>2. Same(slots[s], q)
  BY <1>1 DEF SlotRecords, Same, ForkPending, Forks, Exits
<1>3. Forking(s) = [slots EXCEPT ![s] = q]
  BY <1>1 DEF Forking, SlotTables
<1> HIDE DEF q
<1>4. Calm(slots, [slots EXCEPT ![s] = q], {s})
  BY <1>1, <1>2, SlotCalm
<1> QED BY <1>3, <1>4

\* EAGAIN before anything is acquired.
LEMMA ForkRefusedWake ==
    ASSUME IInv, WakeInv, NEW s \in Slots, ForkRefused(s)
    PROVE  WakeInv'
<1> DEFINE F == Forking(s)
<1>0. ForkPending(s) /\ slots[s].alive /\ slots[s].gen # 0 /\ Quiet(slots)
  BY DEF ForkRefused, ForkPending, IInv, Sound, WakeInv, WakeOk, Held
<1>1. PICK h : slots' = ParkAndComplete(F, s, h)
  BY DEF ForkRefused
<1>2. F \in SlotTables /\ TableKeeps(slots, F) /\ Calm(slots, F, {s})
  BY <1>0, ForkingType, ForkingCalm
<1> HIDE DEF F
<1>3. Quiet(F) /\ F[s].alive /\ F[s].gen # 0
  BY <1>0, <1>2, KeepsQuiet DEF Calm, Same
<1>4. Calm(F, slots', {s}) /\ Awake(slots'[s])
  BY <1>1, <1>2, <1>3, ParkAndCompleteCalm
<1>5. Calm(slots, slots', {})
  BY <1>2, <1>4, CalmTrans, CalmClose
<1> QED BY <1>5, NativeWake DEF ForkRefused

\* lxp_fork_txn_abort: the discarded child was to release nobody.
LEMMA ForkAbortedWake ==
    ASSUME IInv, WakeInv, NEW s \in Slots, NEW c \in Slots, ForkAborted(s, c)
    PROVE  WakeInv'
<1> DEFINE F == Forking(s)
           n == Renewed(F[c])
           q == Cleared(n)
           Q == [F EXCEPT ![c] = q]
<1>0. /\ ForkPending(s) /\ slots[s].alive /\ slots[s].gen # 0 /\ Quiet(slots)
      /\ ~slots[c].alive /\ s # c
  BY DEF ForkAborted, ForkAdmitted, FirstDeadSlot, ForkPending, IInv, Sound, WakeInv, WakeOk, Held
<1>1. F \in SlotTables /\ TableKeeps(slots, F) /\ Calm(slots, F, {s}) /\ F[c] \in SlotRecords
  BY <1>0, ForkingType, ForkingCalm DEF SlotTables
<1>2. PICK h : slots' = ParkAndComplete(Q, s, h)
  <2>1. Q = [Reassign(F, c) EXCEPT ![c] = Cleared(@)]
    BY <1>1 DEF Reassign, Renewed, SlotTables
  <2> HIDE DEF Q, F
  <2> QED BY <2>1 DEF ForkAborted, F
<1> HIDE DEF F
<1>3. ~F[c].alive
  BY <1>0, <1>1 DEF Calm, Same
<1>4. n \in SlotRecords /\ n.alive = F[c].alive /\ n.host = F[c].host
      /\ n.runnable = F[c].runnable
  BY <1>1, ReassignAt DEF SlotRecords, Renewed
<1> HIDE DEF n
<1>5. q \in SlotRecords
  BY <1>4, ClearedType
<1>6. Same(F[c], q) /\ Keeps(F[c], q)
  BY <1>1, <1>3, <1>4 DEF Cleared, Same, Keeps, SlotRecords
<1> HIDE DEF q
<1>7. Q \in SlotTables /\ TableKeeps(F, Q) /\ Calm(F, Q, {s})
  BY <1>1, <1>3, <1>5, <1>6, SlotStep, SlotCalm
<1> HIDE DEF Q
<1>8. Calm(slots, Q, {s}) /\ TableKeeps(slots, Q)
  BY <1>1, <1>7, CalmTrans, KeepsTrans
<1>9. Quiet(Q) /\ Q[s].alive /\ Q[s].gen # 0
  BY <1>0, <1>8, KeepsQuiet DEF Calm, Same
<1>10. Calm(Q, slots', {s}) /\ Awake(slots'[s])
  BY <1>2, <1>7, <1>9, ParkAndCompleteCalm
<1>11. Calm(slots, slots', {})
  BY <1>8, <1>10, CalmTrans, CalmClose
<1>12. ~slots'[c].alive /\ \A t \in Slots \ {c} : guard'[t] = guard[t]
  BY <1>0, <1>11 DEF Calm, Same, ForkAborted, IInv, TypeOK
<1>13. WakeOk(slots', guard')
  <2>1. \A t \in Slots : ~Releases(slots, guard, c, t)
    BY <1>0 DEF Releases
  <2>2. Follows(slots, guard, slots', guard', c)
    BY <1>11, <1>12, <2>1 DEF Calm, Follows
  <2> QED BY <1>12, <2>2, WakeStep DEF WakeInv
<1> QED BY <1>13 DEF WakeInv, ForkAborted

\* P has the task c that s has forked.
Forked(P, s, c, vpar, snap) ==
    /\ s # c /\ ~slots[c].alive
    /\ P[c].alive /\ P[c].gen # 0 /\ P[c].vpar = vpar /\ P[c].snap = snap /\ Awake(P[c])
    /\ slots[s].intent # "THREAD" => P[c].tgid # 1
    /\ P[s].gen = slots[s].gen /\ P[s].alive
    /\ \A t \in Slots \ {c} : Same(slots[t], P[t]) /\ (t # s => P[t] = slots[t])

\* The published child is not asleep, and its parent is still the same.
LEMMA ForkChildWake ==
    ASSUME IInv, WakeInv, NEW s \in Slots, NEW c \in Slots, ForkAdmitted(s, c),
           NEW vpar, NEW snap, NEW P, P = ForkChild(Reassign(Forking(s), c), s, c, vpar, snap)
    PROVE  Forked(P, s, c, vpar, snap) /\ Reassign(Forking(s), c)[s].gen = slots[s].gen
<1> DEFINE F == Forking(s)
           n == Renewed(F[c])
           tg == IF slots[s].intent = "THREAD" THEN F[s].tgid ELSE nextPid
           p == [Cleared(n) EXCEPT !.alive = TRUE, !.pid = nextPid, !.mm = F[s].mm,
                                   !.vpar = vpar, !.snap = snap, !.tgid = tg]
<1>0. /\ ForkPending(s) /\ slots[s].alive /\ Quiet(slots) /\ slots \in SlotTables
      /\ ~slots[c].alive /\ s # c /\ slots[c] \in SlotRecords
  BY DEF ForkAdmitted, FirstDeadSlot, ForkPending, IInv, TypeOK, Sound, SlotTables
<1>1. F \in SlotTables /\ Calm(slots, F, {s}) /\ \A t \in Slots \ {s} : F[t] = slots[t]
  BY <1>0, ForkingType, ForkingCalm DEF Forking, SlotTables
<1> HIDE DEF F
<1>2. Reassign(F, c) \in SlotTables
  BY <1>1, ReassignType
<1>3. /\ Reassign(F, c)[c] = n /\ n \in SlotRecords /\ n.gen # 0
      /\ \A t \in Slots \ {c} : Reassign(F, c)[t] = F[t]
  BY <1>1, ReassignAt
<1>4. n.host = slots[c].host /\ Reassign(F, c)[s] = F[s]
  <2>1. F[c] = slots[c]
    BY <1>0, <1>1
  <2>2. n.host = F[c].host
    BY <1>0, <2>1 DEF SlotRecords, Renewed
  <2> HIDE DEF n
  <2> QED BY <1>0, <1>3, <2>1, <2>2
<1> HIDE DEF n
<1>5. Cleared(n) \in SlotRecords /\ Cleared(n).gen = n.gen /\ Cleared(n).host = n.host
  BY <1>3, ClearedType DEF Cleared, SlotRecords
<1>6. P = [Reassign(F, c) EXCEPT ![c] = p]
  BY <1>3, <1>4 DEF ForkChild, F, SlotTables
<1>7. P[c] = p /\ \A t \in Slots \ {c} : P[t] = F[t]
  BY <1>2, <1>3, <1>6 DEF SlotTables
<1>8. /\ p.alive /\ p.gen = n.gen /\ p.vpar = vpar /\ p.snap = snap /\ p.tgid = tg
      /\ p.host = n.host
  BY <1>5 DEF SlotRecords
<1> HIDE DEF p
<1>9. Awake(p)
  BY <1>0, <1>4, <1>8 DEF Awake, Quiet
<1>10. slots[s].intent # "THREAD" => tg # 1
  BY SMT DEF WakeInv
<1>11. F[s].gen = slots[s].gen
  BY <1>0, <1>1 DEF Calm, Same
<1>12. \A t \in Slots \ {c} : Same(slots[t], P[t]) /\ (t # s => P[t] = slots[t])
  BY <1>1, <1>7 DEF Calm
<1>13. P[s] = F[s] /\ P[s].alive
  BY <1>0, <1>1, <1>7 DEF Calm, Same
<1> HIDE DEF tg
<1>14. Forked(P, s, c, vpar, snap)
  BY <1>0, <1>3, <1>7, <1>8, <1>9, <1>10, <1>11, <1>12, <1>13 DEF Forked
<1> QED BY <1>4, <1>11, <1>14 DEF F

\* CLONE_VM: the parent is handed its result and the child released to run.
LEMMA ForkSharedWake ==
    ASSUME IInv, WakeInv, NEW s \in Slots, NEW c \in Slots, ForkShared(s, c)
    PROVE  WakeInv'
<1> DEFINE P == ForkChild(Reassign(Forking(s), c), s, c, NoRef, NoRef)
<1>0. /\ ForkAdmitted(s, c) /\ CanGet(reg, slots[s].mm) /\ NoRef \in SlotRefs
      /\ NoRef \in RegionRefs /\ slots[s].alive /\ slots[s].gen # 0
  BY DEF ForkShared, ForkAdmitted, ForkPending, SlotRefs, RegionRefs, WakeInv, WakeOk, Held
<1>1. PICK h : slots' = ResumeSlot(ParkAndComplete(P, s, h), c, h)
  BY DEF ForkShared
<1>2. P \in SlotTables /\ Quiet(P)
  BY <1>0, ForkChildType
<1>3. Forked(P, s, c, NoRef, NoRef)
  BY <1>0, ForkChildWake
<1> HIDE DEF P
<1>4. P[s].alive /\ P[s].gen # 0
  BY <1>0, <1>3 DEF Forked
<1> DEFINE Q == ParkAndComplete(P, s, h)
<1>5. Q \in SlotTables /\ Calm(P, Q, {s}) /\ Awake(Q[s]) /\ Q[s].alive
  <2>1. Q \in SlotTables /\ Calm(P, Q, {s}) /\ Awake(Q[s])
    BY <1>2, <1>4, ParkAndCompleteType, ParkAndCompleteCalm
  <2> QED BY <1>4, <2>1 DEF Calm, Same
<1> HIDE DEF Q
<1>6. Calm(Q, slots', {})
  BY <1>1, <1>5, ResumeSlotCalm DEF Q
<1>7. Calm(P, slots', {s}) /\ Awake(slots'[s])
  BY <1>5, <1>6, CalmMore, CalmTrans DEF Calm
<1>8. Held(slots'[c]) /\ Awake(slots'[c])
  <2>1. Same(P[c], slots'[c]) /\ Awake(slots'[c])
    BY <1>3, <1>7 DEF Calm, Forked
  <2> QED BY <1>3, <2>1 DEF Same, Held, Forked
<1>9. ASSUME NEW t \in Slots \ {c}
      PROVE  /\ Same(slots[t], slots'[t]) /\ guard'[t] = guard[t]
             /\ slots[t].alive => Awake(slots'[t]) \/ ~Awake(slots[t])
  <2>1. Same(slots[t], P[t]) /\ Same(P[t], slots'[t])
    BY <1>3, <1>7 DEF Calm, Forked
  <2>2. Same(slots[t], slots'[t])
    BY <2>1 DEF Same
  <2>3. t # s /\ slots[t].alive /\ Awake(slots[t]) => Awake(slots'[t])
    BY <1>3, <1>7 DEF Calm, Forked
  <2>4. guard'[t] = guard[t]
    BY DEF ForkShared, IInv, TypeOK
  <2> QED BY <1>7, <2>2, <2>3, <2>4
<1>10. \A t \in Slots : ~Releases(slots, guard, c, t)
  BY <1>3 DEF Releases, Forked
<1>11. WakeOk(slots', guard')
  <2>1. Follows(slots, guard, slots', guard', c)
    BY <1>9, <1>10 DEF Follows
  <2> QED BY <1>8, <2>1, WakeStep DEF WakeInv
<1>12. nextPid' > 1
  BY SMT DEF ForkShared, WakeInv, IInv, TypeOK
<1> QED BY <1>11, <1>12 DEF WakeInv

\* fork and vfork: the parent sleeps until its child releases it.
LEMMA ForkVforkWake ==
    ASSUME IInv, WakeInv, NEW s \in Slots, NEW c \in Slots, NEW r \in Regions, ForkVfork(s, c, r)
    PROVE  WakeInv'
<1> DEFINE Q == Reassign(Forking(s), c)
           R == Reserve(Get(reg, slots[s].mm), r, SlotRefAt(Q, c))
           par == SlotRefAt(Q, s)
           snap == RegionRefAt(R, r)
           P == ForkChild(Q, s, c, par, snap)
<1>0. /\ ForkAdmitted(s, c) /\ CanGet(reg, slots[s].mm) /\ ForkPending(s)
      /\ slots[s].alive /\ slots[s].gen # 0 /\ reg \in RegionTables /\ slots[s].intent = "FORK"
  BY DEF ForkVfork, ForkAdmitted, ForkPending, WakeInv, WakeOk, Held, IInv, TypeOK
<1>1. /\ \E h : slots' = ResumeSlot(ParkSlot(P, s, h), c, h)
      /\ guard' = [guard EXCEPT ![c] = [parent |-> par, region |-> slots[s].mm,
                                        snapshot |-> snap]]
      /\ nextPid' = nextPid + 1
  BY DEF ForkVfork
<1>2. Q \in SlotTables /\ par \in SlotRefs /\ snap \in RegionRefs /\ snap # NoRef
  <2>1. Q \in SlotTables
    BY <1>0, ForkingType, ReassignType
  <2> HIDE DEF Q
  <2>2. par \in SlotRefs /\ SlotRefAt(Q, c) \in SlotRefs
    BY <2>1, SlotRefAtType
  <2>3. R \in RegionTables
    BY <1>0, <2>2, GetType, ReserveType
  <2> HIDE DEF R
  <2>4. snap \in RegionRefs /\ snap.index = r
    BY <2>3, RegionRefAtType DEF RegionRefAt
  <2>5. snap # NoRef
    BY <2>4, SMT DEF NoRef, Regions
  <2> QED BY <2>1, <2>2, <2>4, <2>5
<1> HIDE DEF R, snap
<1>3. P \in SlotTables /\ Quiet(P)
  BY <1>0, <1>2, ForkChildType
<1>4. Forked(P, s, c, par, snap) /\ Q[s].gen = slots[s].gen
  BY <1>0, ForkChildWake
<1> HIDE DEF P
<1>5. PICK h : slots' = ResumeSlot(ParkSlot(P, s, h), c, h)
  BY <1>1
<1> DEFINE K == ParkSlot(P, s, h)
<1>6. K \in SlotTables /\ Calm(P, K, {s})
  BY <1>3, ParkSlotType, ParkSlotCalm
<1> HIDE DEF K
<1>7. Calm(K, slots', {s})
  BY <1>5, <1>6, ResumeSlotCalm, CalmMore DEF K
<1>8. Calm(P, slots', {s})
  BY <1>6, <1>7, CalmTrans
<1>9. ASSUME NEW t \in Slots \ {c}
      PROVE  /\ Same(slots[t], slots'[t]) /\ guard'[t] = guard[t]
             /\ t # s /\ slots[t].alive => Awake(slots'[t]) \/ ~Awake(slots[t])
  <2>1. Same(slots[t], P[t]) /\ Same(P[t], slots'[t])
    BY <1>4, <1>8 DEF Calm, Forked
  <2>2. Same(slots[t], slots'[t])
    BY <2>1 DEF Same
  <2>3. t # s /\ slots[t].alive /\ Awake(slots[t]) => Awake(slots'[t])
    BY <1>4, <1>8 DEF Calm, Forked
  <2>4. guard'[t] = guard[t]
    BY <1>1 DEF IInv, TypeOK
  <2> QED BY <2>2, <2>3, <2>4
<1>10. Same(P[c], slots'[c]) /\ Awake(slots'[c])
  BY <1>4, <1>8 DEF Calm, Forked
<1>11. Held(slots'[c])
  BY <1>0, <1>2, <1>4, <1>10 DEF Same, Held, Forked
<1>12. Releases(slots', guard', c, s)
  <2>1. slots'[s].gen = slots[s].gen /\ slots'[s].mm = slots[s].mm
    BY <1>0, <1>4, <1>9 DEF Same, Forked
  <2>2. SlotRefAt(slots', s) = par
    BY <1>4, <2>1 DEF SlotRefAt
  <2>3. guard'[c] = [parent |-> par, region |-> slots[s].mm, snapshot |-> snap]
    BY <1>1 DEF IInv, TypeOK
  <2>4. slots'[c].alive /\ slots'[c].vpar = par /\ slots'[c].snap = snap
    BY <1>4, <1>10 DEF Same, Forked
  <2> HIDE DEF par
  <2> QED BY <2>1, <2>2, <2>3, <2>4 DEF Releases
<1>13. \A t \in Slots : ~Releases(slots, guard, c, t)
  BY <1>4 DEF Releases, Forked
<1>14. WakeOk(slots', guard')
  <2>1. Follows(slots, guard, slots', guard', c)
    BY <1>9, <1>12, <1>13 DEF Follows
  <2> QED BY <1>10, <1>11, <2>1, WakeStep DEF WakeInv
<1>15. nextPid' > 1
  BY <1>1, SMT DEF WakeInv, IInv, TypeOK
<1> QED BY <1>14, <1>15 DEF WakeInv

-----------------------------------------------------------------------------
(* lxp_vfork_contain_stale and lxp_handle_exit.                            *)

\* Beside s the step is calm.
Beside(P, Q, s) ==
    \A t \in Slots \ {s} : Same(P[t], Q[t]) /\ (P[t].alive /\ Awake(P[t]) => Awake(Q[t]))

\* Those that s was to release are awake.
Freed(P, Q, s) ==
    \A t \in Slots \ {s} : P[t].alive /\ Releases(P, guard, s, t) => Awake(Q[t])

Numbered(P) == \A t \in Slots : P[t].alive => P[t].gen # 0

\* Both together, in a step that leaves the task of s, if any, awake.
LEMMA FreedWake ==
    ASSUME NEW P, WakeOk(P, guard), NEW Q, NEW s \in Slots, Beside(P, Q, s), Freed(P, Q, s),
           Q[s].alive => Held(Q[s]) /\ Awake(Q[s]),
           NEW k, \A t \in Slots \ {s} : k[t] = guard[t]
    PROVE  WakeOk(Q, k)
<1>1. Follows(P, guard, Q, k, s)
  BY DEF Follows, Beside, Freed
<1> QED BY <1>1, WakeStep

\* A calm step after one that is calm beside s.
LEMMA BesideCalm ==
    ASSUME NEW P, NEW Q, NEW T, NEW s \in Slots, Beside(P, Q, s), Calm(Q, T, {})
    PROVE  Beside(P, T, s)
<1> SUFFICES ASSUME NEW t \in Slots \ {s}
             PROVE  Same(P[t], T[t]) /\ (P[t].alive /\ Awake(P[t]) => Awake(T[t]))
  BY DEF Beside
<1>1. Same(P[t], Q[t]) /\ Same(Q[t], T[t])
  BY DEF Calm, Beside
<1>2. Same(P[t], T[t]) /\ (P[t].alive => Q[t].alive)
  BY <1>1 DEF Same
<1> QED BY <1>2 DEF Calm, Beside

\* A containment ends the parent that the guard records, which is the one that
\* the child was to release, and the child.
LEMMA ContainWake ==
    ASSUME NEW P \in SlotTables, NEW s \in Slots, NEW Q, Q = ContainSlots(P, s)
    PROVE  /\ Beside(P, Q, s)
           /\ Numbered(P) /\ P[s].snap # NoRef => Freed(P, Q, s)
           /\ Q[s].alive = P[s].alive /\ (P[s].alive => Q[s].gen = P[s].gen)
           /\ Q[s].vpar = NoRef /\ Awake(Q[s])
<1> DEFINE par == guard[s].parent
           here == IsCurrent(P, par) /\ P[par.index].mm = guard[s].region
           T == IF here THEN ExitSlot(P, par.index, "EXIT") ELSE P
           p == [T[s] EXCEPT !.vpar = NoRef, !.snap = NoRef, !.intent = "EXIT"]
<1>1. /\ T \in SlotTables /\ Calm(P, T, {})
      /\ here => par.index \in Slots /\ Awake(T[par.index])
  <2>1. CASE here
    <3>1. par.index \in Slots /\ T = ExitSlot(P, par.index, "EXIT")
      BY <2>1 DEF IsCurrent
    <3> HIDE DEF T, here
    <3> QED BY <3>1, ExitSlotType, ExitSlotCalm DEF Exits
  <2>2. CASE ~here
    BY <2>2, CalmSelf
  <2> QED BY <2>1, <2>2
<1>2. Q = [T EXCEPT ![s] = p]
  BY DEF ContainSlots
<1> HIDE DEF T
<1>3. Q[s] = p /\ \A t \in Slots \ {s} : Q[t] = T[t]
  BY <1>1, <1>2 DEF SlotTables
<1>4. T[s] \in SlotRecords /\ Same(P[s], T[s]) /\ P[s] \in SlotRecords
  BY <1>1 DEF SlotTables, Calm
<1>5. p.alive = T[s].alive /\ p.gen = T[s].gen /\ p.vpar = NoRef /\ p.intent = "EXIT"
  BY <1>4 DEF SlotRecords
<1> HIDE DEF p
<1>6. Beside(P, Q, s)
  BY <1>1, <1>3 DEF Calm, Beside
<1>7. ASSUME Numbered(P), P[s].snap # NoRef, NEW t \in Slots \ {s}, P[t].alive,
             Releases(P, guard, s, t)
      PROVE  Awake(Q[t])
  <2>1. guard[s] = [parent |-> SlotRefAt(P, t), region |-> P[t].mm, snapshot |-> P[s].snap]
    BY <1>7 DEF Releases
  <2>2. par = SlotRefAt(P, t) /\ guard[s].region = P[t].mm
    BY <2>1, SMT
  <2>3. par.index = t /\ par.gen = P[t].gen
    BY <2>2, SMT DEF SlotRefAt
  <2>4. here
    BY <1>7, <2>2, <2>3 DEF IsCurrent, Numbered
  <2> QED BY <1>1, <1>3, <2>3, <2>4
<1>8. Awake(Q[s])
  BY <1>3, <1>5 DEF Awake
<1> QED BY <1>3, <1>4, <1>5, <1>6, <1>7, <1>8 DEF Same, Freed

\* exit_group wakes every task of the group, to end it.
LEMMA ExitingCalm ==
    ASSUME IInv, NEW s \in Slots
    PROVE  Calm(slots, Exiting(s), {})
<1> DEFINE E == Exiting(s)
<1>1. \A t \in Slots : slots[t] \in SlotRecords
  BY DEF IInv, TypeOK, SlotTables
<1>2. \A t \in Slots : E[t] = slots[t] \/ E[t] = [slots[t] EXCEPT !.intent = "EXIT_GROUP"]
  BY DEF Exiting
<1> HIDE DEF E
<1>3. ASSUME NEW t \in Slots
      PROVE  Same(slots[t], E[t]) /\ (Awake(slots[t]) => Awake(E[t]))
  <2> DEFINE q == [slots[t] EXCEPT !.intent = "EXIT_GROUP"]
  <2>1. q.intent = "EXIT_GROUP" /\ "EXIT_GROUP" # "NONE"
    BY <1>1 DEF SlotRecords
  <2>2. Same(slots[t], q) /\ Awake(q)
    BY <1>1, <2>1 DEF SlotRecords, Same, Exits, Awake
  <2>3. Same(slots[t], slots[t])
    BY DEF Same
  <2> HIDE DEF q
  <2> QED BY <1>2, <2>2, <2>3 DEF q
<1> QED BY <1>3 DEF Calm, E

\* The slot is free, its parent contained when the memory could not be restored.
LEMMA DepartedWake ==
    ASSUME NEW P \in SlotTables, NEW s \in Slots, NEW D, D = Departed(P, s)
    PROVE  /\ Beside(P, D, s) /\ ~D[s].alive
           /\ Numbered(P) /\ ExitStale(P, s) => Freed(P, D, s)
<1> DEFINE Q == IF ExitStale(P, s) THEN ContainSlots(P, s) ELSE P
           p == [Q[s] EXCEPT !.alive = FALSE, !.runnable = FALSE, !.mm = NoRef]
           M == [Q EXCEPT ![s] = p]
<1>1. Q \in SlotTables /\ Beside(P, Q, s)
      /\ (Numbered(P) /\ ExitStale(P, s) => Freed(P, Q, s))
  <2>1. CASE ExitStale(P, s)
    <3>1. Q = ContainSlots(P, s)
      BY <2>1
    <3> HIDE DEF Q
    <3> QED BY <2>1, <3>1, ContainSlotsType, ContainWake DEF ExitStale, ExitBorrows
  <2>2. CASE ~ExitStale(P, s)
    BY <2>2 DEF Beside, Same
  <2> QED BY <2>1, <2>2
<1>2. D = Reassign(M, s)
  BY DEF Departed
<1> HIDE DEF Q
<1>3. Q[s] \in SlotRecords /\ NoRef \in RegionRefs
  BY <1>1 DEF SlotTables, RegionRefs
<1>4. p \in SlotRecords /\ ~p.alive
  BY <1>3 DEF SlotRecords
<1> HIDE DEF p
<1>5. M \in SlotTables /\ M[s] = p /\ \A t \in Slots \ {s} : M[t] = Q[t]
  BY <1>1, <1>4, SlotUpdate DEF SlotTables
<1> HIDE DEF M
<1>6. D[s] = Renewed(p) /\ \A t \in Slots \ {s} : D[t] = Q[t]
  <2>1. /\ Reassign(M, s)[s] = Renewed(M[s])
        /\ \A t \in Slots \ {s} : Reassign(M, s)[t] = M[t]
    BY <1>5, ReassignAt
  <2> QED BY <1>2, <1>5, <2>1
<1>7. ~D[s].alive
  BY <1>4, <1>6 DEF Renewed, SlotRecords
<1> QED BY <1>1, <1>6, <1>7 DEF Beside, Freed

\* Completing the vfork parent of s wakes whom s was to release.
LEMMA ReleaseWake ==
    ASSUME NEW P, Numbered(P), NEW Q \in SlotTables, NEW s \in Slots, Beside(P, Q, s),
           NEW h, NEW E, E = CompleteSlot(Q, P[s].vpar, h)
    PROVE  Beside(P, E, s) /\ Freed(P, E, s) /\ Calm(Q, E, {})
<1>1. Calm(Q, E, {})
  BY CompleteSlotCalm
<1>2. Beside(P, E, s)
  BY <1>1, BesideCalm
<1>3. ASSUME NEW t \in Slots \ {s}, P[t].alive, Releases(P, guard, s, t)
      PROVE  Awake(E[t])
  <2>1. P[s].vpar = SlotRefAt(P, t) /\ P[t].gen # 0
    BY <1>3 DEF Releases, Numbered
  <2>2. Q[t].alive /\ Q[t].gen = P[t].gen
    BY <1>3 DEF Beside, Same
  <2>3. P[s].vpar.index = t /\ P[s].vpar.gen = P[t].gen
    BY <2>1, SMT DEF SlotRefAt
  <2>4. IsCurrent(Q, P[s].vpar)
    BY <2>1, <2>2, <2>3 DEF IsCurrent
  <2> QED BY <2>3, <2>4, CompleteSlotCalm
<1> QED BY <1>1, <1>2, <1>3 DEF Freed

\* The vfork parent is ended with its memory or handed the pid of the child.
LEMMA ParentReleasedWake ==
    ASSUME NEW P \in SlotTables, NEW s \in Slots, NEW h, Numbered(P),
           Departed(P, s) \in SlotTables, NEW E, E = ParentReleased(P, s, h)
    PROVE  Beside(P, E, s) /\ ~E[s].alive /\ Freed(P, E, s)
<1> DEFINE D == Departed(P, s)
<1>1. D \in SlotTables /\ Beside(P, D, s) /\ ~D[s].alive /\ (ExitStale(P, s) => Freed(P, D, s))
  BY DepartedWake
<1>2. E = IF ExitStale(P, s) THEN D ELSE CompleteSlot(D, P[s].vpar, h)
  BY DEF ParentReleased
<1> HIDE DEF D
<1>3. CASE ExitStale(P, s)
  BY <1>1, <1>2, <1>3
<1>4. CASE ~ExitStale(P, s)
  <2>1. Beside(P, E, s) /\ Freed(P, E, s) /\ Calm(D, E, {})
    BY <1>1, <1>2, <1>4, ReleaseWake
  <2> QED BY <1>1, <2>1 DEF Calm, Same
<1> QED BY <1>3, <1>4

\* lxp_handle_exit: the task is gone, and whoever it was to release is awake.
\* Init has no vfork parent.
LEMMA HandleExitWake ==
    ASSUME IInv, WakeInv, NEW s \in Slots, HandleExit(s)
    PROVE  WakeInv'
<1>0. slots \in SlotTables /\ WakeOk(slots, guard) /\ nextPid > 1
      /\ Exiting(s) \in SlotTables /\ Calm(slots, Exiting(s), {})
  BY ExitingType, ExitingCalm DEF IInv, TypeOK, WakeInv
<1>1. ASSUME NEW h, slots[s].alive, NEW P, P = AbortSlot(Exiting(s), s, h)
      PROVE  Calm(slots, P, {})
  <2>1. Exiting(s)[s].alive
    BY <1>0, <1>1 DEF Calm, Same
  <2>2. Calm(Exiting(s), P, {})
    BY <1>0, <1>1, <2>1, AbortSlotCalm
  <2> QED BY <1>0, <2>2, CalmTrans
<1>2. CASE ExitRetry(s)
  <2>1. PICK h : slots' = AbortSlot(Exiting(s), s, h)
    BY <1>2 DEF ExitRetry
  <2> QED BY <1>1, <1>2, <2>1, NativeWake DEF ExitRetry
<1>3. ASSUME NEW h \in Oracles, NEW P, P = AbortSlot(Exiting(s), s, h),
             ExitThread(s, P, h) \/ ExitInit(s, P, h) \/ ExitProcess(s, P, h)
      PROVE  WakeInv'
  <2> DEFINE D == Departed(P, s)
             E == ParentReleased(P, s, h)
  <2>1. ExitBegins(s, P, h)
    BY <1>3 DEF ExitThread, ExitInit, ExitProcess
  <2>2. P \in SlotTables /\ D \in SlotTables /\ Sound(D, reg')
    BY <1>3, <2>1, ExitBeginsSound
  <2>3. WakeOk(P, guard) /\ Numbered(P)
    BY <1>0, <1>1, <1>3, <2>1, WakeCalm DEF ExitBegins, WakeOk, Held, Numbered
  <2>4. nextPid' = nextPid /\ \A t \in Slots \ {s} : guard'[t] = guard[t]
    BY <2>1 DEF ExitBegins, IInv, TypeOK
  <2>5. Beside(P, D, s) /\ ~D[s].alive
    BY <2>2, DepartedWake
  <2>6. /\ E \in SlotTables /\ TableKeeps(D, E)
        /\ Beside(P, E, s) /\ ~E[s].alive /\ Freed(P, E, s)
    BY <2>2, <2>3, ParentReleasedType, ParentReleasedWake
  <2> HIDE DEF D, E
  <2>7. WakeOk(E, guard')
    BY <2>3, <2>4, <2>6, FreedWake
  <2>8. WakeOk(slots', guard')
    <3>1. CASE ExitThread(s, P, h)
      BY <2>7, <3>1 DEF ExitThread, E
    <3>2. CASE ExitInit(s, P, h)
      <4>1. P[s].tgid = 1 /\ slots' = D
        BY <3>2 DEF ExitInit, D
      <4>2. P[s].vpar = NoRef \/ ~P[s].alive
        BY <2>3, <4>1 DEF WakeOk, Held
      <4>3. \A t \in Slots : ~Releases(P, guard, s, t)
        BY <2>2, <4>2, SlotRefAtType DEF Releases
      <4>4. Freed(P, D, s)
        BY <4>3 DEF Freed
      <4> QED BY <2>3, <2>4, <2>5, <4>1, <4>4, FreedWake
    <3>3. CASE ExitProcess(s, P, h)
      <4> DEFINE ev == [pid |-> P[s].tgid, kind |-> "EXITED"]
      <4>1. PICK t \in Slots \cup {-1} :
                   /\ IsParentTask(E, groups[P[s].tgid].ppid, ev, t)
                   /\ slots' = ChildSlots(E, t, ev, h)
        BY <3>3 DEF ExitProcess, E
      <4> HIDE DEF ev
      <4>2. t \in Slots => E[t].alive /\ E[t].gen # 0
        BY <2>7, <4>1, ParentTaskAlive
      <4>3. Quiet(E)
        BY <2>2, <2>6, KeepsQuiet DEF Sound
      <4>4. Calm(E, slots', {})
        BY <2>6, <4>1, <4>2, <4>3, ChildSlotsCalm
      <4> QED BY <2>7, <4>4, WakeCalm
    <3> QED BY <1>3, <3>1, <3>2, <3>3
  <2> QED BY <1>0, <2>4, <2>8 DEF WakeInv
<1> QED BY <1>2, <1>3 DEF HandleExit

-----------------------------------------------------------------------------
(* lxp_handle_exec.                                                        *)

\* The exec intent is completed.
LEMMA ExecingCalm ==
    ASSUME IInv, NEW s \in Slots, ExecPending(s)
    PROVE  Calm(slots, Execing(s), {s})
<1> DEFINE q == [slots[s] EXCEPT !.intent = "NONE"]
<1>1. slots \in SlotTables /\ slots[s] \in SlotRecords /\ slots[s].intent \notin Exits
  BY SMT DEF IInv, TypeOK, SlotTables, ExecPending, Exits
<1>2. Same(slots[s], q)
  BY <1>1 DEF SlotRecords, Same
<1>3. Execing(s) = [slots EXCEPT ![s] = q]
  BY <1>1 DEF Execing, SlotTables
<1> HIDE DEF q
<1>4. Calm(slots, [slots EXCEPT ![s] = q], {s})
  BY <1>1, <1>2, SlotCalm
<1> QED BY <1>3, <1>4

\* Before the commit point the old program gets the error.
LEMMA ExecRefusedWake ==
    ASSUME IInv, WakeInv, NEW s \in Slots, ExecRefused(s)
    PROVE  WakeInv'
<1> DEFINE X == Execing(s)
           ref == SlotRefAt(slots, s)
<1>1. PICK h : slots' = CompleteSlot(X, ref, h)
  BY DEF ExecRefused
<1>2. X \in SlotTables /\ Calm(slots, X, {s}) /\ slots[s].alive /\ slots[s].gen # 0
  BY ExecingType, ExecingCalm DEF ExecRefused, ExecPending, WakeInv, WakeOk, Held
<1> HIDE DEF X
<1>3. IsCurrent(X, ref) /\ ref.index = s
  <2>1. ref.index = s /\ ref.gen = slots[s].gen
    BY SMT DEF SlotRefAt
  <2> HIDE DEF ref
  <2>2. X[s].alive /\ X[s].gen = slots[s].gen
    BY <1>2 DEF Calm, Same
  <2> QED BY <1>2, <2>1, <2>2 DEF IsCurrent
<1> HIDE DEF ref
<1>4. Calm(X, slots', {s}) /\ Awake(slots'[s])
  BY <1>1, <1>2, <1>3, CompleteSlotCalm, CalmMore
<1>5. Calm(slots, slots', {})
  BY <1>2, <1>4, CalmTrans, CalmClose
<1> QED BY <1>5, NativeWake DEF ExecRefused

\* A task that is not ending and has no snapshot is to release nobody.
LEMMA NoSnapshotFrees ==
    ASSUME IInv, WakeInv, NEW s \in Slots, slots[s].intent \notin Exits, slots[s].snap = NoRef,
           NEW Q
    PROVE  Freed(slots, Q, s)
<1>1. ~slots[s].alive \/ slots[s].vpar = NoRef
  BY DEF WakeInv, WakeOk, Held
<1>2. \A t \in Slots : SlotRefAt(slots, t) # NoRef
  BY SlotRefAtType DEF IInv, TypeOK
<1> QED BY <1>1, <1>2 DEF Freed, Releases

\* lxp_vfork_contain_stale in exec ends the parent with the child.
LEMMA ExecContainedWake ==
    ASSUME IInv, WakeInv, NEW s \in Slots, ExecContained(s)
    PROVE  WakeInv'
<1> DEFINE X == Execing(s)
<1>1. /\ slots' = ContainSlots(X, s) /\ nextPid' = nextPid /\ ExecPending(s)
      /\ \A t \in Slots \ {s} : guard'[t] = guard[t]
  BY DEF ExecContained, IInv, TypeOK
<1>2. X \in SlotTables /\ Calm(slots, X, {s}) /\ slots[s].alive /\ slots[s].intent \notin Exits
  BY <1>1, ExecingType, ExecingCalm DEF ExecPending, Exits
<1> HIDE DEF X
<1>3. WakeOk(slots, guard) /\ Numbered(slots) /\ Numbered(X)
  <2>1. WakeOk(slots, guard) /\ Numbered(slots)
    BY DEF WakeInv, WakeOk, Held, Numbered
  <2>2. \A t \in Slots : Same(slots[t], X[t])
    BY <1>2 DEF Calm
  <2>3. Numbered(X)
    BY <2>1, <2>2 DEF Numbered, Same
  <2> QED BY <2>1, <2>3
<1>4. /\ Beside(X, slots', s) /\ (X[s].snap # NoRef => Freed(X, slots', s))
      /\ (X[s].alive => slots'[s].gen = X[s].gen) /\ slots'[s].vpar = NoRef /\ Awake(slots'[s])
  BY <1>1, <1>2, <1>3, ContainWake
<1>5. Beside(slots, slots', s)
  <2> SUFFICES ASSUME NEW t \in Slots \ {s}
               PROVE  /\ Same(slots[t], slots'[t])
                      /\ slots[t].alive /\ Awake(slots[t]) => Awake(slots'[t])
    BY DEF Beside
  <2>1. Same(slots[t], X[t]) /\ Same(X[t], slots'[t])
    BY <1>2, <1>4 DEF Calm, Beside
  <2>2. Same(slots[t], slots'[t]) /\ (slots[t].alive => X[t].alive)
    BY <2>1 DEF Same
  <2> QED BY <1>2, <1>4, <2>2 DEF Calm, Beside
<1>6. Freed(slots, slots', s)
  <2>1. CASE slots[s].snap = NoRef
    BY <1>2, <2>1, NoSnapshotFrees
  <2>2. ASSUME slots[s].snap # NoRef, NEW t \in Slots \ {s}, slots[t].alive,
               Releases(slots, guard, s, t)
        PROVE  Awake(slots'[t])
    <3>1. Same(slots[t], X[t]) /\ Same(slots[s], X[s])
      BY <1>2 DEF Calm
    <3>2. SlotRefAt(X, t) = SlotRefAt(slots, t) /\ X[t].mm = slots[t].mm /\ X[t].alive
      BY <2>2, <3>1 DEF Same, SlotRefAt
    <3>3. Releases(X, guard, s, t) /\ X[s].snap # NoRef
      BY <1>2, <2>2, <3>1, <3>2 DEF Releases, Same
    <3> QED BY <1>4, <3>2, <3>3 DEF Freed
  <2> QED BY <2>1, <2>2 DEF Freed
<1>7. Held(slots'[s])
  BY <1>2, <1>3, <1>4 DEF Held, Numbered, Calm, Same
<1>8. WakeOk(slots', guard')
  BY <1>1, <1>3, <1>4, <1>5, <1>6, <1>7, FreedWake
<1> QED BY <1>1, <1>8 DEF WakeInv

\* The commit point wakes the other tasks of the group, to end them.
LEMMA CommittedWake ==
    ASSUME IInv, NEW s \in Slots, ExecPending(s), NEW h, NEW C, C = Committed(s, h)
    PROVE  /\ C \in SlotTables /\ Quiet(C) /\ Beside(slots, C, s)
           /\ C[s] = [slots[s] EXCEPT !.intent = "NONE", !.snap = NoRef]
<1>1. C \in SlotTables /\ TableKeeps(slots, C) /\ slots \in SlotTables /\ Quiet(slots)
  BY CommittedType DEF IInv, TypeOK, Sound
<1>2. ASSUME NEW t \in Slots \ {s}
      PROVE  Same(slots[t], C[t]) /\ (slots[t].alive /\ Awake(slots[t]) => Awake(C[t]))
  <2>1. CASE t \in ExecPeers(s)
    <3> DEFINE A == AbortSlot(slots, t, h)
               E == ExitSlot(A, t, "EXIT")
    <3>1. slots[t].alive
      BY <2>1 DEF ExecPeers, Members
    <3>2. A \in SlotTables /\ Calm(slots, A, {})
      BY <1>1, <3>1, AbortSlotType, AbortSlotCalm
    <3>3. C[t] = E[t]
      BY <2>1 DEF Committed
    <3> HIDE DEF A
    <3>4. Calm(A, E, {})
      BY <3>2, ExitSlotCalm DEF Exits
    <3> HIDE DEF E
    <3>5. Calm(slots, E, {})
      BY <3>2, <3>4, CalmTrans
    <3>6. Same(slots[t], E[t]) /\ (slots[t].alive /\ Awake(slots[t]) => Awake(E[t]))
      BY <3>5 DEF Calm
    <3> QED BY <3>3, <3>6
  <2>2. CASE t \notin ExecPeers(s)
    <3>1. C[t] = slots[t]
      BY <2>2 DEF Committed
    <3> QED BY <3>1 DEF Same
  <2> QED BY <2>1, <2>2
<1>3. C[s] = [slots[s] EXCEPT !.intent = "NONE", !.snap = NoRef]
  BY DEF Committed
<1>4. Quiet(C)
  BY <1>1, KeepsQuiet
<1> QED BY <1>1, <1>2, <1>3, <1>4 DEF Beside

\* What the table with the published image has.
LEMMA PublishedWake ==
    ASSUME IInv, NEW s \in Slots, ExecPending(s), NEW h, NEW p \in SlotRecords
    PROVE  /\ Published(s, h, p) \in SlotTables /\ Beside(slots, Published(s, h, p), s)
           /\ Published(s, h, p)[s] = Renewed(p) /\ Renewed(p).gen # 0
           /\ \A t \in Slots \ {s} : Published(s, h, p)[t] = Committed(s, h)[t]
<1> DEFINE C == Committed(s, h)
           M == [C EXCEPT ![s] = p]
           Q == Published(s, h, p)
<1>1. C \in SlotTables /\ Beside(slots, C, s)
  BY CommittedWake
<1>2. Q = Reassign(M, s)
  BY DEF Published
<1> HIDE DEF C, Q
<1>3. M \in SlotTables /\ M[s] = p /\ \A t \in Slots \ {s} : M[t] = C[t]
  BY <1>1, SlotUpdate DEF SlotTables
<1> HIDE DEF M
<1>4. /\ Reassign(M, s) \in SlotTables /\ Reassign(M, s)[s] = Renewed(M[s])
      /\ Renewed(M[s]).gen # 0 /\ \A t \in Slots \ {s} : Reassign(M, s)[t] = M[t]
  BY <1>3, ReassignType, ReassignAt
<1>5. /\ Q \in SlotTables /\ Q[s] = Renewed(p) /\ Renewed(p).gen # 0
      /\ \A t \in Slots \ {s} : Q[t] = C[t]
  BY <1>2, <1>3, <1>4
<1>6. Beside(slots, Q, s)
  BY <1>1, <1>5 DEF Beside
<1> QED BY <1>5, <1>6 DEF C, Q

\* The guards of the other tasks do not change.
LEMMA ExecGuardKept ==
    ASSUME IInv, NEW s \in Slots
    PROVE  \A t \in Slots \ {s} : ExecGuard(s)[t] = guard[t]
BY DEF ExecGuard, IInv, TypeOK

\* lxp_exec_txn_commit: the new image runs and its parent is handed its pid.
LEMMA ExecDoneWake ==
    ASSUME IInv, WakeInv, NEW s \in Slots, NEW x \in ExecTargets(s), ExecDone(s, x.R, x.ref)
    PROVE  WakeInv'
<1> DEFINE p(h) == [Cleared(Committed(s, h)[s]) EXCEPT
                      !.alive = TRUE, !.host = "RUNNING", !.runnable = TRUE,
                      !.pid = slots[s].pid, !.tgid = slots[s].tgid, !.mm = x.ref]
           Q(h) == Published(s, h, p(h))
<1>0. slots \in SlotTables /\ slots[s] \in SlotRecords /\ WakeOk(slots, guard) /\ Numbered(slots)
  BY DEF IInv, TypeOK, SlotTables, WakeInv, WakeOk, Held, Numbered
<1>1. PICK h \in Oracles :
             /\ ExecPending(s) /\ ~ExecStale(s)
             /\ slots' = CompleteSlot(Reassign([Committed(s, h) EXCEPT ![s] =
                 [Cleared(@) EXCEPT !.alive = TRUE, !.host = "RUNNING", !.runnable = TRUE,
                                    !.pid = slots[s].pid, !.tgid = slots[s].tgid,
                                    !.mm = x.ref]], s), slots[s].vpar, h)
             /\ guard' = ExecGuard(s) /\ nextPid' = nextPid
  BY DEF ExecDone
<1> DEFINE C == Committed(s, h)
<1>2. C \in SlotTables /\ C[s] \in SlotRecords /\ Cleared(C[s]) \in SlotRecords
  BY <1>1, CommittedType, ClearedType DEF SlotTables
<1>3. x.ref \in RegionRefs
  BY <1>1, ExecTargetOk
<1>4. p(h) \in SlotRecords
  BY <1>0, <1>2, <1>3 DEF SlotRecords, Hosts
<1>5. p(h).alive /\ p(h).host = "RUNNING" /\ p(h).vpar = NoRef
  BY <1>2 DEF SlotRecords, Cleared
<1>6. slots' = CompleteSlot(Q(h), slots[s].vpar, h)
  BY <1>1, <1>2 DEF SlotTables, Published
<1> HIDE DEF p, C
<1>7. /\ Q(h) \in SlotTables /\ Beside(slots, Q(h), s)
      /\ Q(h)[s] = Renewed(p(h)) /\ Renewed(p(h)).gen # 0
  <2>1. ExecPending(s)
    BY <1>1
  <2> QED BY <1>4, <2>1, PublishedWake
<1> HIDE DEF Q
<1>8. Q(h)[s].alive /\ Awake(Q(h)[s]) /\ Q(h)[s].vpar = NoRef /\ Q(h)[s].gen # 0
  <2>1. LET n == Renewed(p(h)) IN n.alive /\ n.host = "RUNNING" /\ n.vpar = NoRef
    BY <1>4, <1>5 DEF Renewed, SlotRecords
  <2>2. Awake(Renewed(p(h)))
    BY <2>1 DEF Awake
  <2> QED BY <1>7, <2>1, <2>2
<1>9. Beside(slots, slots', s) /\ Freed(slots, slots', s) /\ Calm(Q(h), slots', {})
  BY <1>0, <1>6, <1>7, ReleaseWake
<1>10. Held(slots'[s]) /\ Awake(slots'[s])
  BY <1>7, <1>8, <1>9 DEF Held, Calm, Same
<1>11. \A t \in Slots \ {s} : guard'[t] = guard[t]
  BY <1>1, ExecGuardKept
<1>12. WakeOk(slots', guard')
  BY <1>0, <1>9, <1>10, <1>11, FreedWake
<1> QED BY <1>1, <1>12 DEF WakeInv

\* p is ending with no snapshot, and is still to release the parent of s.
Stuck(p, s) ==
    /\ p.alive /\ p.gen # 0 /\ p.intent = "EXIT" /\ p.snap = NoRef
    /\ p.vpar = slots[s].vpar /\ p.tgid = slots[s].tgid

\* Such a task releases at its exit whom s was to release.
LEMMA StuckWake ==
    ASSUME IInv, WakeInv, NEW s \in Slots, ExecPending(s), NEW Q, Beside(slots, Q, s),
           Stuck(Q[s], s)
    PROVE  WakeOk(Q, ExecGuard(s))
<1>1. Held(Q[s]) /\ Awake(Q[s])
  <2>1. "EXIT" \in Exits /\ "EXIT" # "NONE"
    BY SMT DEF Exits
  <2>2. Held(slots[s])
    BY DEF WakeInv, WakeOk, ExecPending
  <2> QED BY <2>1, <2>2 DEF Held, Awake, Stuck
<1>2. ASSUME NEW t \in Slots \ {s}, slots[t].alive, Releases(slots, guard, s, t)
      PROVE  Releases(Q, ExecGuard(s), s, t)
  <2>1. SlotRefAt(Q, t) = SlotRefAt(slots, t)
    BY <1>2 DEF SlotRefAt, Beside, Same
  <2> QED BY <1>2, <2>1 DEF Releases, Stuck
<1>3. Follows(slots, guard, Q, ExecGuard(s), s)
  BY <1>2, ExecGuardKept DEF Follows, Beside
<1> QED BY <1>1, <1>3, WakeStep DEF WakeInv

\* lxp_exec_txn_abort with the task refusing to be aborted.
LEMMA ExecStuckWake ==
    ASSUME IInv, WakeInv, NEW s \in Slots, NEW x \in ExecTargets(s), ExecStuck(s, x.R, x.ref)
    PROVE  WakeInv'
<1>1. PICK h : /\ ExecPending(s) /\ <<"abort", s>> \in h
               /\ slots' = AbortSlot(Committed(s, h), s, h)
               /\ guard' = ExecGuard(s) /\ nextPid' = nextPid
  BY DEF ExecStuck
<1> DEFINE C == Committed(s, h)
           own == [slots[s] EXCEPT !.intent = "NONE", !.snap = NoRef]
           f == [C[s] EXCEPT !.host = "FAILED", !.runnable = (C[s].host = "RUNNING")]
           F == [C EXCEPT ![s] = f]
<1>2. C \in SlotTables /\ Beside(slots, C, s) /\ C[s] = own /\ C[s] \in SlotRecords
  <2>1. C \in SlotTables /\ Beside(slots, C, s) /\ C[s] = own
    BY <1>1, CommittedWake
  <2>2. C[s] \in SlotRecords
    BY <2>1 DEF SlotTables
  <2> QED BY <2>1, <2>2
<1>3. /\ own.alive /\ own.gen # 0 /\ own.snap = NoRef /\ own.vpar = slots[s].vpar
      /\ own.tgid = slots[s].tgid
  <2>1. slots[s] \in SlotRecords /\ slots[s].alive /\ slots[s].gen # 0
    BY <1>1 DEF IInv, TypeOK, SlotTables, ExecPending, WakeInv, WakeOk, Held
  <2> QED BY <2>1 DEF SlotRecords
<1>4. slots' = TransitionFailed(F, s)
  BY <1>1 DEF AbortSlot
<1> HIDE DEF C, own
<1>5. Calm(C, slots', {})
  BY <1>1, <1>2, <1>3, AbortSlotCalm DEF C
<1>6. slots'[s].intent = "EXIT"
  <2>1. F[s] = f /\ f.alive = C[s].alive /\ f \in SlotRecords
    BY <1>2 DEF SlotTables, SlotRecords, Hosts
  <2> HIDE DEF f
  <2>2. F \in SlotTables
    BY <1>2, <2>1, SlotUpdate
  <2> HIDE DEF F
  <2>3. slots' = [F EXCEPT ![s].intent = "EXIT"]
    BY <1>2, <1>3, <1>4, <2>1 DEF TransitionFailed, ExitSlot
  <2> QED BY <2>1, <2>2, <2>3 DEF SlotTables, SlotRecords
<1>7. Same(own, slots'[s])
  BY <1>2, <1>5 DEF Calm
<1>8. Stuck(slots'[s], s)
  BY <1>3, <1>6, <1>7 DEF Stuck, Same
<1>9. Beside(slots, slots', s)
  BY <1>2, <1>5, BesideCalm
<1>10. WakeOk(slots', guard')
  BY <1>1, <1>8, <1>9, StuckWake
<1> QED BY <1>1, <1>10 DEF WakeInv

\* The image is published, its launch refused, and so is the abort.
LEMMA ExecLaunchStuckWake ==
    ASSUME IInv, WakeInv, NEW s \in Slots, NEW x \in ExecTargets(s),
           ExecLaunchStuck(s, x.R, x.ref)
    PROVE  WakeInv'
<1> DEFINE p(h) == [Cleared(Committed(s, h)[s]) EXCEPT
                      !.alive = TRUE, !.host = "FAILED", !.intent = "EXIT",
                      !.pid = slots[s].pid, !.tgid = slots[s].tgid, !.mm = x.ref,
                      !.vpar = slots[s].vpar]
<1>0. slots \in SlotTables /\ slots[s] \in SlotRecords
  BY DEF IInv, TypeOK, SlotTables
<1>1. PICK h :
             /\ ExecPending(s) /\ ~ExecStale(s)
             /\ slots' = Reassign([Committed(s, h) EXCEPT ![s] =
                 [Cleared(@) EXCEPT !.alive = TRUE, !.host = "FAILED", !.intent = "EXIT",
                                    !.pid = slots[s].pid, !.tgid = slots[s].tgid,
                                    !.mm = x.ref, !.vpar = slots[s].vpar]], s)
             /\ guard' = ExecGuard(s) /\ nextPid' = nextPid
  BY DEF ExecLaunchStuck
<1> DEFINE C == Committed(s, h)
<1>2. C \in SlotTables /\ C[s] \in SlotRecords /\ Cleared(C[s]) \in SlotRecords
  BY <1>1, CommittedType, ClearedType DEF SlotTables
<1>3. x.ref \in RegionRefs
  BY <1>1, ExecTargetOk
<1>4. p(h) \in SlotRecords
  BY <1>0, <1>2, <1>3 DEF SlotRecords, Hosts, Intents, Exits
<1>5. /\ p(h).alive /\ p(h).intent = "EXIT" /\ p(h).snap = NoRef
      /\ p(h).vpar = slots[s].vpar /\ p(h).tgid = slots[s].tgid
  BY <1>2 DEF SlotRecords, Cleared
<1>6. slots' = Published(s, h, p(h))
  BY <1>1, <1>2 DEF SlotTables, Published
<1> HIDE DEF p, C
<1>7. /\ Beside(slots, slots', s) /\ slots'[s] = Renewed(p(h)) /\ Renewed(p(h)).gen # 0
  <2>1. ExecPending(s)
    BY <1>1
  <2> QED BY <1>4, <1>6, <2>1, PublishedWake
<1>8. Stuck(slots'[s], s)
  <2>1. Stuck(Renewed(p(h)), s)
    BY <1>4, <1>5, <1>7 DEF Renewed, SlotRecords, Stuck
  <2> QED BY <1>7, <2>1
<1>9. WakeOk(slots', guard')
  BY <1>1, <1>7, <1>8, StuckWake
<1> QED BY <1>1, <1>9 DEF WakeInv

\* lxp_exec_txn_abort past the commit point, the task being gone.
LEMMA ExecFailedWake ==
    ASSUME IInv, WakeInv, NEW s \in Slots, NEW x \in ExecTargets(s), ExecFailed(s, x.R, x.ref)
    PROVE  WakeInv'
<1> DEFINE Q(h) == [Reassign(Committed(s, h), s) EXCEPT ![s] = [Cleared(@) EXCEPT !.host = "DEAD"]]
           E(h) == CompleteSlot(Q(h), slots[s].vpar, h)
           ev == [pid |-> slots[s].pid, kind |-> "EXITED"]
<1>0. WakeOk(slots, guard) /\ Numbered(slots)
  BY DEF WakeInv, WakeOk, Held, Numbered
<1>1. PICK h \in Oracles, t \in Slots \cup {-1} :
             /\ ExecPending(s)
             /\ guard' = [guard EXCEPT ![s] = NoGuard] /\ nextPid' = nextPid
             /\ IsParentTask(E(h), groups[slots[s].tgid].ppid, ev, t)
             /\ slots' = ChildSlots(E(h), t, ev, h)
  BY DEF ExecFailed
<1> DEFINE C == Committed(s, h)
           N == Reassign(C, s)
           p == [Cleared(N[s]) EXCEPT !.host = "DEAD"]
<1>2. C \in SlotTables /\ Quiet(C) /\ Beside(slots, C, s)
  BY <1>1, CommittedWake
<1>3. Q(h) = [N EXCEPT ![s] = p]
  OBVIOUS
<1> HIDE DEF C, ev, Q
<1>4. N \in SlotTables /\ N[s] \in SlotRecords /\ \A u \in Slots \ {s} : N[u] = C[u]
  <2>1. N \in SlotTables /\ \A u \in Slots \ {s} : N[u] = C[u]
    BY <1>2, ReassignType, ReassignAt
  <2> QED BY <2>1 DEF SlotTables
<1> HIDE DEF N
<1>5. p \in SlotRecords /\ ~p.alive /\ p.host = "DEAD" /\ ~p.runnable
  <2>1. Cleared(N[s]) \in SlotRecords
    BY <1>4, ClearedType
  <2> QED BY <1>4, <2>1 DEF SlotRecords, Hosts, Cleared
<1> HIDE DEF p
<1>6. Q(h) \in SlotTables /\ Q(h)[s] = p /\ \A u \in Slots \ {s} : Q(h)[u] = C[u]
  <2>1. [N EXCEPT ![s] = p] \in SlotTables
    BY <1>4, <1>5, SlotUpdate
  <2> QED BY <1>3, <1>4, <2>1 DEF SlotTables
<1>7. Quiet(Q(h)) /\ Beside(slots, Q(h), s)
  BY <1>2, <1>5, <1>6 DEF Quiet, Beside
<1>8. E(h) \in SlotTables /\ TableKeeps(Q(h), E(h))
  BY <1>6, CompleteSlotType
<1>9. Beside(slots, E(h), s) /\ Freed(slots, E(h), s) /\ Calm(Q(h), E(h), {})
  BY <1>0, <1>6, <1>7, ReleaseWake
<1> HIDE DEF E
<1>10. Quiet(E(h)) /\ ~E(h)[s].alive
  BY <1>5, <1>6, <1>7, <1>8, <1>9, KeepsQuiet DEF Calm, Same
<1>11. \A u \in Slots \ {s} : guard'[u] = guard[u]
  BY <1>1 DEF IInv, TypeOK
<1>12. WakeOk(E(h), guard')
  BY <1>0, <1>9, <1>10, <1>11, FreedWake
<1>13. t \in Slots => E(h)[t].alive /\ E(h)[t].gen # 0
  BY <1>1, <1>12, ParentTaskAlive
<1>14. Calm(E(h), slots', {})
  BY <1>1, <1>8, <1>10, <1>13, ChildSlotsCalm
<1>15. WakeOk(slots', guard')
  BY <1>12, <1>14, WakeCalm
<1> QED BY <1>1, <1>15 DEF WakeInv

-----------------------------------------------------------------------------
(* The run bracket, and the theorem.                                       *)

\* Without a live task nobody sleeps.
LEMMA NoneAlive ==
    ASSUME NEW P, \A s \in Slots : ~P[s].alive, NEW g
    PROVE  WakeOk(P, g)
BY DEF WakeOk

\* A run starts with init running.
LEMMA StartRunWake ==
    ASSUME IInv, StartRun
    PROVE  WakeInv'
<1> DEFINE c == Cleared(Opened[0])
           ref == RegionRefAt(Launching, 0)
           p == [c EXCEPT !.alive = TRUE, !.host = "RUNNING", !.runnable = TRUE,
                          !.pid = 1, !.tgid = 1, !.mm = ref]
<1>1. Opened \in SlotTables /\ (\A s \in Slots : ~Opened[s].alive) /\ 0 \in Slots
  BY OpenedType, LaunchingOk DEF IInv
<1>2. slots' = [Opened EXCEPT ![0] = p] /\ nextPid' = 2
  BY DEF StartRun
<1>3. Opened[0].gen # 0
  <2>1. slots[0] \in SlotRecords
    BY <1>1 DEF IInv, TypeOK, SlotTables
  <2>2. Opened[0].gen = GenNext(slots[0].gen)
    BY <1>1, <2>1 DEF Opened, SlotRecords
  <2> QED BY <2>1, <2>2, GenNextType, SMT DEF SlotRecords
<1>4. c \in SlotRecords /\ c.gen # 0 /\ c.vpar = NoRef
  <2>1. Opened[0] \in SlotRecords
    BY <1>1 DEF SlotTables
  <2> QED BY <1>3, <2>1, ClearedType DEF Cleared, SlotRecords
<1> HIDE DEF c, ref
<1>5. p.gen # 0 /\ p.vpar = NoRef /\ p.host = "RUNNING"
  BY <1>4 DEF SlotRecords
<1>6. Held(p) /\ Awake(p)
  BY <1>5 DEF Held, Awake
<1> HIDE DEF p
<1>7. slots'[0] = p /\ \A s \in Slots \ {0} : ~slots'[s].alive
  BY <1>1, <1>2 DEF SlotTables
<1>8. WakeOk(slots', guard')
  BY <1>6, <1>7 DEF WakeOk
<1> QED BY <1>2, <1>8, SMT DEF WakeInv

\* A start that fails, and the teardown, leave no task.
LEMMA CleanWake ==
    ASSUME IInv, WakeInv, StartFailed \/ Teardown
    PROVE  WakeInv'
<1>1. \A s \in Slots : slots[s] \in SlotRecords /\ Opened[s] \in SlotRecords
  BY OpenedType DEF IInv, TypeOK, SlotTables
<1>2. ASSUME NEW q \in SlotRecords
      PROVE  ~[Cleared(q) EXCEPT !.host = "DEAD", !.gen = GenNext(@)].alive
  <2>1. Cleared(q) \in SlotRecords /\ ~Cleared(q).alive
    BY ClearedType DEF Cleared, SlotRecords
  <2> QED BY <2>1 DEF SlotRecords
<1>3. \A s \in Slots : ~slots'[s].alive
  BY <1>1, <1>2 DEF StartFailed, Teardown
<1>4. nextPid' = nextPid
  BY DEF StartFailed, Teardown
<1> QED BY <1>3, <1>4, NoneAlive DEF WakeInv

\* Every step keeps the invariant.
LEMMA NextWake ==
    ASSUME IInv, WakeInv, [Next]_vars
    PROVE  WakeInv'
<1>1. CASE UNCHANGED vars
  BY <1>1 DEF vars, WakeInv
<1>2. CASE AllDead \/ Watchdog
  BY <1>2 DEF AllDead, Watchdog, WakeInv
<1>3. ASSUME NEW s \in Slots, HandleFork(s)
      PROVE  WakeInv'
  BY <1>3, ForkRefusedWake, ForkAbortedWake, ForkSharedWake, ForkVforkWake DEF HandleFork
<1>4. ASSUME NEW s \in Slots, HandleExec(s)
      PROVE  WakeInv'
  BY <1>4, ExecRefusedWake, ExecContainedWake, ExecDoneWake, ExecFailedWake, ExecStuckWake,
     ExecLaunchStuckWake DEF HandleExec
<1>5. ASSUME NEW s \in Slots, Coordinator(s)
      PROVE  WakeInv'
  BY <1>3, <1>4, <1>5, HandleExitWake, EvStopWake, ScanStoppedWake, ScanSignalWake DEF Coordinator
<1> QED BY <1>1, <1>2, <1>5, StartRunWake, CleanWake, GuestWake DEF Next

\* Initially there is no task.
LEMMA InitWake == Init => WakeInv
<1>1. Init => \A s \in Slots : ~slots[s].alive
  BY SMT DEF Init
<1>2. Init => nextPid > 1
  BY SMT DEF Init
<1> QED BY <1>1, <1>2, NoneAlive DEF WakeInv

\* No lost wake-up, for any number of slots, regions, generations, tasks and
\* failures: a parked task with no event pending waits for a child, keeps its
\* result through a stop, or has a fork child whose exec or exit releases it.
THEOREM NoLostWakeup == Spec => []ParkedHasReason
<1>1. Init => IInv /\ WakeInv
  BY InitIInv, InitWake
<1>2. IInv /\ WakeInv /\ [Next]_vars => (IInv /\ WakeInv)'
  BY NextIInv, NextWake
<1>3. IInv /\ WakeInv => ParkedHasReason
  BY DEF WakeInv, WakeOk, Awake, Releases, ParkedHasReason
<1> QED BY <1>1, <1>2, <1>3, PTL DEF Spec
=============================================================================
