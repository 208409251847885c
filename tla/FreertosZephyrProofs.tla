------------------------ MODULE FreertosZephyrProofs ------------------------
(***************************************************************************)
(* The FreeRTOS port keeps its gate and gives every guest its own memory   *)
(* profile; the Zephyr port binds every guest to the partitions of its own *)
(* address space.  Both implement the contract of a port, for any number   *)
(* of slots and regions and whatever the coordinator, the tick and the     *)
(* scheduler task do in between.                                           *)
(***************************************************************************)
EXTENDS FreertosPort, ZephyrPort, SeamProofs, WellFoundedInduction

\* The prover of every step that names none.
USE ZenonT(60)

-----------------------------------------------------------------------------
(* FreeRTOS.                                                               *)

\* The shape and the types of the port's state.
RtRecord(p) ==
    p = [tid |-> p.tid, gen |-> p.gen, profile |-> p.profile, desc |-> p.desc,
         blocked |-> p.blocked, nat |-> p.nat, selected |-> p.selected, rotate |-> p.rotate,
         budget |-> p.budget, sem |-> p.sem, sched |-> p.sched, subscribed |-> p.subscribed]

RtTyped(p) ==
    /\ RtRecord(p)
    /\ p.tid \in [Slot -> BOOLEAN] /\ p.gen \in [Slot -> Nat] /\ p.blocked \in [Slot -> BOOLEAN]
    /\ p.nat \in [Slot -> {"none", "ready", "suspended"}]
    /\ p.profile = [s \in Slot |-> p.profile[s]] /\ p.desc = [s \in Slot |-> p.desc[s]]
    /\ p.selected \in Slot \cup {NoSlot}

\* A created task holds the profile of its slot's current address space.
TasksOwn(c, p) ==
    \A s \in Slot :
        p.tid[s] => /\ p.profile[s].valid
                    /\ p.profile[s].key = PolicyKey(Policy(c, s, c.gen[s]))

\* The native state of one task behind the gate.
GateOf(p, s) ==
    /\ p.tid[s] <=> p.nat[s] # "none"
    /\ p.nat[s] = "ready" => p.selected = s
    /\ p.blocked[s] => p.nat[s] = "suspended" /\ p.selected # NoSlot

\* The gate: the selected task is the ready one, and nobody is blocked behind
\* a gate with nothing selected.
Gate(p) ==
    /\ p.selected # NoSlot => p.nat[p.selected] = "ready"
    /\ \A s \in Slot : GateOf(p, s)

FreertosInv ==
    /\ CoreInv(core) /\ NoneFailed(core)
    /\ Follows(FreertosTask, core)
    /\ RtTyped(rt) /\ Gate(rt) /\ TasksOwn(core, rt)

-----------------------------------------------------------------------------
\* The cyclic search reaches every slot.
LEMMA CyclicReach ==
    ASSUME NEW after \in Slot, NEW t \in Slot
    PROVE  \E n \in 1..NSLOT : (after + n + NSLOT) % NSLOT = t
  <1> DEFINE n == IF t > after THEN t - after ELSE t - after + NSLOT
  <1>1. n \in 1..NSLOT /\ (after + n + NSLOT = t + NSLOT \/ after + n + NSLOT = t + 2 * NSLOT)
    BY TableAssumption, SMT DEF Slot
  <1>2. t \in Nat /\ t < NSLOT /\ NSLOT \in Nat \ {0}
    BY TableAssumption, SMT DEF Slot
  <1>3. (t + NSLOT) % NSLOT = t /\ (t + 2 * NSLOT) % NSLOT = t
    <2>1. (t + NSLOT) % NSLOT = t
      BY <1>2, SMT
    <2>2. (t + 2 * NSLOT) % NSLOT = t
      BY <1>2, SMT
    <2> QED
      BY <2>1, <2>2
  <1> QED
    BY <1>1, <1>3

\* freertos_sched_find_next returns a blocked, runnable slot other than the
\* ignored one, and none only when there is none.
LEMMA FindNext ==
    ASSUME NEW p, NEW after \in Slot, NEW ignore
    PROVE  LET n == freertos_sched_find_next(p, after, ignore)
               Able(t) == t # ignore /\ freertos_sched_slot_runnable(p, t) /\ p.blocked[t] IN
           /\ n = NoSlot => \A t \in Slot : ~Able(t)
           /\ n # NoSlot => n \in Slot /\ Able(n)
  <1> DEFINE at(n) == (after + n + NSLOT) % NSLOT
             Able(t) == t # ignore /\ freertos_sched_slot_runnable(p, t) /\ p.blocked[t]
             able == {n \in 1..NSLOT : Able(at(n))}
             least == CHOOSE n \in able : \A k \in able : n <= k
  <1>1. \A n \in 1..NSLOT : at(n) \in Slot
    BY TableAssumption, SMT DEF Slot
  <1>2. freertos_sched_find_next(p, after, ignore) = IF able = {} THEN NoSlot ELSE at(least)
    BY SMT DEF freertos_sched_find_next
  <1>3. \A t \in Slot : t # NoSlot
    BY SMT DEF Slot, NoSlot
  <1>4. able # {} => least \in able
    <2> HIDE DEF Able, at
    <2>1. able \subseteq Nat
      BY TableAssumption, SMT
    <2> HIDE DEF able, least
    <2>2. ASSUME able # {} PROVE \E n \in able : \A k \in able : n <= k
      <3>1. PICK x \in able : \A y \in able : ~(<<y, x>> \in OpToRel(<, Nat))
        BY <2>1, <2>2, NatLessThanWellFounded, WFMin
      <3>2. \A y \in able : x \in Nat /\ y \in Nat /\ ~(y < x)
        BY <2>1, <3>1 DEF OpToRel
      <3>3. \A y \in able : x <= y
        BY <3>2, SMT
      <3> QED
        BY <3>3
    <2> QED
      BY <2>2 DEF least
  <1>5. CASE able = {}
    <2>1. \A t \in Slot : ~Able(t)
      BY <1>5, CyclicReach, SMT
    <2> QED
      BY <1>2, <1>5, <2>1
  <1>6. CASE able # {}
    <2>1. least \in able
      BY <1>4, <1>6
    <2>2. at(least) \in Slot /\ Able(at(least))
      BY <1>1, <2>1
    <2> QED
      BY <1>2, <1>3, <1>6, <2>2
  <1> QED
    BY <1>5, <1>6

-----------------------------------------------------------------------------
\* Every slot that is not parked may run.
Live(p, s) == p.nat[s] = "ready" \/ p.blocked[s]

\* What a move of the gate leaves alone: who exists, for which incarnation and
\* with which profile, and the run bracket.
SameTasks(p, q) ==
    /\ q.tid = p.tid /\ q.gen = p.gen /\ q.profile = p.profile
    /\ q.sched = p.sched /\ q.subscribed = p.subscribed

\* freertos_sched_register_ready lets a new or resumed task run, or queues it
\* behind the selected one.
LEMMA RegisterReady ==
    ASSUME NEW p, RtTyped(p), NEW s \in Slot, p.tid[s], p.nat[s] # "none", ~p.blocked[s],
           p.selected # s,
           p.selected # NoSlot =>
               p.nat[p.selected] = "ready" /\ freertos_sched_slot_runnable(p, p.selected),
           \A t \in Slot \ {s} : GateOf(p, t)
    PROVE  LET q == freertos_sched_register_ready(p, s) IN
           /\ RtTyped(q) /\ Gate(q) /\ SameTasks(p, q) /\ Live(q, s)
           /\ \A t \in Slot \ {s} : Live(q, t) <=> Live(p, t)
  <1> DEFINE q == freertos_sched_register_ready(p, s)
  <1>1. \A t \in Slot : t # NoSlot
    BY SMT DEF Slot, NoSlot
  <1>2. CASE p.selected = NoSlot
    <2>1. q = vTaskResume(freertos_tick_budget_reset(
                              [p EXCEPT !.selected = s, !.blocked[s] = FALSE]), s)
      BY <1>2 DEF freertos_sched_register_ready, freertos_sched_slot_runnable
    <2> HIDE DEF q
    <2>2. /\ RtRecord(q) /\ SameTasks(p, q) /\ q.desc = p.desc
          /\ q.selected = s /\ q.blocked = [p.blocked EXCEPT ![s] = FALSE]
          /\ q.nat = [p.nat EXCEPT ![s] = "ready"]
      BY <2>1 DEF vTaskResume, freertos_tick_budget_reset, RtTyped, RtRecord, SameTasks
    <2>3. RtTyped(q)
      BY <2>2, SMT DEF RtTyped, SameTasks
    <2>4. Gate(q)
      BY <1>1, <1>2, <2>2 DEF Gate, GateOf, RtTyped, SameTasks
    <2>5. Live(q, s) /\ \A t \in Slot \ {s} : Live(q, t) <=> Live(p, t)
      BY <2>2, SMT DEF Live, RtTyped
    <2> QED
      BY <2>2, <2>3, <2>4, <2>5 DEF q
  <1>3. CASE p.selected # NoSlot
    <2>1. p.selected \in Slot \ {s}
      BY <1>3 DEF RtTyped
    <2>2. ~p.blocked[p.selected]
      BY <1>3, <2>1 DEF GateOf
    <2>3. q = vTaskSuspend([p EXCEPT !.blocked[s] = TRUE], s)
      BY <1>3, <2>1, <2>2 DEF freertos_sched_register_ready
    <2> HIDE DEF q
    <2>4. /\ RtRecord(q) /\ SameTasks(p, q) /\ q.desc = p.desc
          /\ q.selected = p.selected /\ q.blocked = [p.blocked EXCEPT ![s] = TRUE]
          /\ q.nat = [p.nat EXCEPT ![s] = "suspended"]
      BY <2>3 DEF vTaskSuspend, RtTyped, RtRecord, SameTasks
    <2>5. RtTyped(q)
      BY <2>4, SMT DEF RtTyped, SameTasks
    <2>6. Gate(q)
      BY <1>3, <2>1, <2>4, SMT DEF Gate, GateOf, RtTyped, SameTasks
    <2>7. Live(q, s) /\ \A t \in Slot \ {s} : Live(q, t) <=> Live(p, t)
      BY <2>4, SMT DEF Live, RtTyped
    <2> QED
      BY <2>4, <2>5, <2>6, <2>7 DEF q
  <1> QED
    BY <1>2, <1>3

\* freertos_sched_activate lets a blocked task run when nothing is ready.
LEMMA Activate ==
    ASSUME NEW p, RtTyped(p), NEW n \in Slot, p.tid[n], p.blocked[n],
           \A t \in Slot : p.tid[t] <=> p.nat[t] # "none",
           \A t \in Slot : p.nat[t] # "ready",
           \A t \in Slot : p.blocked[t] => p.nat[t] = "suspended"
    PROVE  LET q == freertos_sched_activate(p, n) IN
           /\ RtTyped(q) /\ Gate(q) /\ SameTasks(p, q)
           /\ \A t \in Slot : Live(q, t) <=> Live(p, t)
           /\ \A t \in Slot \ {n} : q.nat[t] = p.nat[t] /\ q.blocked[t] = p.blocked[t]
  <1> DEFINE q == freertos_sched_activate(p, n)
  <1>1. n # NoSlot
    BY SMT DEF Slot, NoSlot
  <1>2. q = vTaskResume(freertos_tick_budget_reset(
                            [p EXCEPT !.blocked[n] = FALSE, !.selected = n]), n)
    BY <1>1 DEF freertos_sched_activate
  <1> HIDE DEF q
  <1>3. /\ RtRecord(q) /\ SameTasks(p, q) /\ q.desc = p.desc
        /\ q.selected = n /\ q.blocked = [p.blocked EXCEPT ![n] = FALSE]
        /\ q.nat = [p.nat EXCEPT ![n] = "ready"]
    BY <1>2 DEF vTaskResume, freertos_tick_budget_reset, RtTyped, RtRecord, SameTasks
  <1>4. RtTyped(q)
    BY <1>3, SMT DEF RtTyped, SameTasks
  <1>5. Gate(q)
    BY <1>1, <1>3, SMT DEF Gate, GateOf, RtTyped, SameTasks
  <1>6. /\ \A t \in Slot : Live(q, t) <=> Live(p, t)
        /\ \A t \in Slot \ {n} : q.nat[t] = p.nat[t] /\ q.blocked[t] = p.blocked[t]
    BY <1>3, SMT DEF Live, RtTyped
  <1> QED
    BY <1>3, <1>4, <1>5, <1>6 DEF q

\* The gate with nothing selected and no rotation asked for.
LEMMA Cleared ==
    ASSUME NEW p, RtTyped(p)
    PROVE  LET e == freertos_tick_budget_reset(freertos_sched_cancel_rotation(
                        [p EXCEPT !.selected = NoSlot])) IN
           /\ RtRecord(e) /\ SameTasks(p, e) /\ e.desc = p.desc
           /\ e.selected = NoSlot /\ e.blocked = p.blocked /\ e.nat = p.nat
  <1>1. freertos_tick_budget_reset(freertos_sched_cancel_rotation([p EXCEPT !.selected = NoSlot]))
        = [p EXCEPT !.selected = NoSlot, !.rotate = FreertosNoRotation,
                    !.budget = [owner |-> NoSlot, ticks |-> 0]]
    BY DEF freertos_tick_budget_reset, freertos_sched_cancel_rotation, RtTyped, RtRecord
  <1> QED
    BY <1>1 DEF RtTyped, RtRecord, SameTasks

\* freertos_sched_deselect hands the gate of a task that was parked or deleted
\* to a blocked one, and leaves it open only when none is.
LEMMA Deselect ==
    ASSUME NEW p, RtTyped(p), NEW s \in Slot, p.nat[s] # "ready", ~p.blocked[s],
           p.tid[s] <=> p.nat[s] # "none",
           p.selected \notin {NoSlot, s} => p.nat[p.selected] = "ready",
           \A t \in Slot \ {s} : GateOf(p, t),
           \A t \in Slot : p.blocked[t] => freertos_sched_slot_runnable(p, t)
    PROVE  LET q == freertos_sched_deselect(p, s) IN
           /\ RtTyped(q) /\ Gate(q) /\ SameTasks(p, q)
           /\ \A t \in Slot : Live(q, t) <=> Live(p, t)
  <1> DEFINE e == freertos_tick_budget_reset(freertos_sched_cancel_rotation(
                      [p EXCEPT !.selected = NoSlot]))
             n == freertos_sched_find_next(e, s, s)
  <1>1. CASE p.selected # s
    <2>1. freertos_sched_deselect(p, s) = p
      BY <1>1 DEF freertos_sched_deselect
    <2>2. Gate(p)
      BY <1>1 DEF Gate, GateOf
    <2> QED
      BY <2>1, <2>2 DEF SameTasks
  <1>2. CASE p.selected = s
    <2>1. freertos_sched_deselect(p, s) = freertos_sched_activate(e, n)
      BY <1>2 DEF freertos_sched_deselect
    <2>2. /\ RtRecord(e) /\ SameTasks(p, e) /\ e.desc = p.desc
          /\ e.selected = NoSlot /\ e.blocked = p.blocked /\ e.nat = p.nat
      BY Cleared
    <2>3. RtTyped(e)
      BY <2>2 DEF RtTyped, SameTasks
    <2> HIDE DEF e
    <2>4. \A t \in Slot : freertos_sched_slot_runnable(e, t) <=> freertos_sched_slot_runnable(p, t)
      BY <2>2 DEF freertos_sched_slot_runnable, SameTasks
    <2>5. /\ \A t \in Slot : p.nat[t] # "ready"
          /\ \A t \in Slot : p.tid[t] <=> p.nat[t] # "none"
          /\ \A t \in Slot : p.blocked[t] => p.nat[t] = "suspended"
      BY <1>2 DEF GateOf
    <2>6. /\ n = NoSlot => \A t \in Slot : ~p.blocked[t]
          /\ n # NoSlot => n \in Slot /\ p.blocked[n] /\ freertos_sched_slot_runnable(e, n)
      <3>1. /\ n = NoSlot => \A t \in Slot : ~(/\ t # s
                                                /\ freertos_sched_slot_runnable(e, t)
                                                /\ e.blocked[t])
            /\ n # NoSlot => n \in Slot /\ freertos_sched_slot_runnable(e, n) /\ e.blocked[n]
        BY FindNext
      <3> HIDE DEF n
      <3> QED
        BY <2>2, <2>4, <3>1
    <2> HIDE DEF n
    <2>7. CASE n = NoSlot
      <3>1. freertos_sched_activate(e, n) = e
        BY <2>7 DEF freertos_sched_activate
      <3>2. Gate(e)
        BY <2>2, <2>5, <2>6, <2>7 DEF Gate, GateOf, SameTasks
      <3> QED
        BY <2>1, <2>2, <2>3, <3>1, <3>2 DEF Live
    <2>8. CASE n # NoSlot
      <3>1. n \in Slot /\ e.blocked[n] /\ e.tid[n]
        BY <2>2, <2>6, <2>8 DEF freertos_sched_slot_runnable
      <3>2. /\ \A t \in Slot : e.tid[t] <=> e.nat[t] # "none"
            /\ \A t \in Slot : e.nat[t] # "ready"
            /\ \A t \in Slot : e.blocked[t] => e.nat[t] = "suspended"
        BY <2>2, <2>5, SMT DEF SameTasks
      <3>3. LET q == freertos_sched_activate(e, n) IN
            /\ RtTyped(q) /\ Gate(q) /\ SameTasks(e, q)
            /\ \A t \in Slot : Live(q, t) <=> Live(e, t)
        BY <2>3, <3>1, <3>2, Activate
      <3> QED
        BY <2>1, <2>2, <3>3 DEF Live, SameTasks
    <2> QED
      BY <2>7, <2>8
  <1> QED
    BY <1>1, <1>2

-----------------------------------------------------------------------------
\* What the contract sees of one slot.
LEMMA TaskOf ==
    ASSUME NEW s \in Slot
    PROVE  FreertosTask[s] = IF ~rt.tid[s] THEN Nobody
                             ELSE [state |-> IF Live(rt, s) THEN "live" ELSE "parked",
                                   gen |-> rt.gen[s]]
  BY DEF FreertosTask, Live, Nobody

\* What the contract sees of one slot in the next state.
LEMMA TaskOfNext ==
    ASSUME NEW s \in Slot
    PROVE  FreertosTask'[s] = IF ~rt'.tid[s] THEN Nobody
                              ELSE [state |-> IF Live(rt', s) THEN "live" ELSE "parked",
                                    gen |-> rt'.gen[s]]
  BY DEF FreertosTask, Live, Nobody

\* A step that changes the task of at most one slot.
LEMMA OneTask ==
    ASSUME NEW s \in Slot,
           \A t \in Slot \ {s} :
               rt'.tid[t] = rt.tid[t] /\ rt'.gen[t] = rt.gen[t] /\ (Live(rt', t) <=> Live(rt, t))
    PROVE  FreertosTask' = [FreertosTask EXCEPT ![s] = FreertosTask'[s]]
  <1>1. ASSUME NEW t \in Slot \ {s} PROVE FreertosTask'[t] = FreertosTask[t]
    <2>1. FreertosTask[t] = IF ~rt.tid[t] THEN Nobody
                            ELSE [state |-> IF Live(rt, t) THEN "live" ELSE "parked",
                                  gen |-> rt.gen[t]]
      BY TaskOf
    <2>2. FreertosTask'[t] = IF ~rt'.tid[t] THEN Nobody
                             ELSE [state |-> IF Live(rt', t) THEN "live" ELSE "parked",
                                   gen |-> rt'.gen[t]]
      BY TaskOfNext
    <2> QED
      BY <2>1, <2>2
  <1>2. DOMAIN FreertosTask = Slot /\ FreertosTask' = [t \in Slot |-> FreertosTask'[t]]
        /\ FreertosTask = [t \in Slot |-> FreertosTask[t]]
    BY DEF FreertosTask
  <1> QED
    BY <1>1, <1>2

\* When no entry changes what the contract sees, no task does.
LEMMA NoTaskMoves ==
    ASSUME \A t \in Slot :
               /\ rt'.tid[t] = rt.tid[t]
               /\ rt.tid[t] => rt'.gen[t] = rt.gen[t] /\ (Live(rt', t) <=> Live(rt, t))
    PROVE  FreertosTask' = FreertosTask
  <1>1. \A t \in Slot : FreertosTask'[t] = FreertosTask[t]
    BY TaskOf, TaskOfNext
  <1>2. FreertosTask' = [t \in Slot |-> FreertosTask'[t]]
        /\ FreertosTask = [t \in Slot |-> FreertosTask[t]]
    BY DEF FreertosTask
  <1> QED
    BY <1>1, <1>2

\* The facts every callback starts from.
LEMMA AtCall ==
    ASSUME FreertosInv, core.call.op \in SlotOps, core.call.stage = "in"
    PROVE  LET s == core.call.slot IN
           /\ s \in Slot /\ core.call.gen = core.gen[s] /\ core.gen[s] \in Nat
           /\ rt.tid[s] => rt.gen[s] = core.gen[s]
           /\ core.call.op \in Creates => ~rt.tid[s]
           /\ core.call.op = "park" => rt.tid[s] /\ Live(rt, s)
           /\ core.call.op = "resume" => rt.tid[s] /\ ~Live(rt, s)
  <1> DEFINE s == core.call.slot
  <1>1. s \in Slot /\ core.call.gen = core.gen[s] /\ core.gen[s] \in Nat
    <2>1. s \in Slot /\ core.call.gen = core.gen[s]
      BY DEF FreertosInv, CoreInv, CallSound, CoreTyped, Calls
    <2> QED
      BY <2>1 DEF FreertosInv, CoreInv, CoreTyped
  <1>2. /\ FreertosTask[s].state \in Expected(core, s)
        /\ FreertosTask[s] = Nobody
           \/ \E x \in {"live", "parked"} : FreertosTask[s] = [state |-> x, gen |-> core.gen[s]]
    BY <1>1 DEF FreertosInv, Follows
  <1>3. /\ core.call.op \in Creates => Expected(core, s) = {"none"}
        /\ core.call.op = "park" => Expected(core, s) = {"live"}
        /\ core.call.op = "resume" => Expected(core, s) = {"parked"}
    BY DEF FreertosInv, CoreInv, CallSound, Expected
  <1>4. FreertosTask[s] = IF ~rt.tid[s] THEN Nobody
                          ELSE [state |-> IF Live(rt, s) THEN "live" ELSE "parked",
                                gen |-> rt.gen[s]]
    BY <1>1, TaskOf
  <1> HIDE DEF s
  <1>5. rt.tid[s] => rt.gen[s] = core.gen[s]
    BY <1>2, <1>4, SMT DEF Nobody
  <1>6. /\ core.call.op \in Creates => ~rt.tid[s]
        /\ core.call.op = "park" => rt.tid[s] /\ Live(rt, s)
        /\ core.call.op = "resume" => rt.tid[s] /\ ~Live(rt, s)
    BY <1>2, <1>3, <1>4, SMT DEF Nobody
  <1> QED
    BY <1>1, <1>5, <1>6 DEF s

\* A task that may run is one the gate calls runnable.
LEMMA LiveRunnable ==
    ASSUME FreertosInv, NEW t \in Slot, Live(rt, t)
    PROVE  freertos_sched_slot_runnable(rt, t) /\ rt.tid[t] /\ rt.gen[t] = core.gen[t]
  <1>1. t # NoSlot /\ rt.tid[t]
    BY SMT DEF FreertosInv, Gate, GateOf, Live, Slot, NoSlot
  <1>2. FreertosTask[t] = [state |-> "live", gen |-> rt.gen[t]]
    BY <1>1, TaskOf
  <1>3. core.alive[t] /\ core.runnable[t]
    BY <1>2, TaskAlive, SMT DEF FreertosInv
  <1>4. rt.gen[t] = core.gen[t]
    BY <1>2, SMT DEF FreertosInv, Follows, Nobody
  <1>5. core.gen[t] # 0
    BY <1>3 DEF FreertosInv, CoreInv, SlotsSound
  <1> QED
    BY <1>1, <1>3, <1>4, <1>5 DEF freertos_sched_slot_runnable, lxp_slot_ref_is_runnable,
       lxp_slot_ref_is_current

\* A callback that serves its slot keeps the invariant and the contract.
LEMMA FreertosServes ==
    ASSUME FreertosInv, core.call.op \in SlotOps, core.call.stage = "in",
           NEW rc \in BOOLEAN, core' = Answered(core, rc), core.call.op = "abort" => rc,
           RtTyped(rt'), Gate(rt'), TasksOwn(core, rt'),
           rt'.sched = rt.sched, rt'.subscribed = rt.subscribed,
           FreertosTask' = IF rc THEN [FreertosTask EXCEPT ![core.call.slot] = Served(core.call)]
                           ELSE FreertosTask
    PROVE  /\ FreertosInv'
           /\ PortStep(core, core', FreertosTask, FreertosTask', FreertosArmed, FreertosArmed')
  <1>1. CoreInv(core) /\ CoreTyped(core) /\ Follows(FreertosTask, core) /\ NoneFailed(core)
    BY DEF FreertosInv, CoreInv
  <1>2. Replied(core, core', rc)
    BY <1>1, AnsweredReplies
  <1>3. /\ CoreInv(core)' /\ Kept(core, core')
        /\ \A t \in Slot : MmOf(core', t) = MmOf(core, t)
        /\ core'.call.op = core.call.op /\ core'.call.stage = "out" /\ core'.call.rc = rc
    BY <1>1, <1>2, ReplyKeeps DEF SlotOps
  <1>4. Follows(FreertosTask', core')
    BY <1>1, <1>2, ReplyFollows
  <1>5. core'.host = core.host /\ core'.gen = core.gen
        /\ core'.call = [core.call EXCEPT !.stage = "out", !.rc = rc]
    BY <1>2 DEF Replied
  <1>6. NoneFailed(core')
    BY <1>1, <1>3, <1>5, SMT DEF NoneFailed
  <1>7. \A t \in Slot : PolicyKey(Policy(core', t, core'.gen[t]))
                        = PolicyKey(Policy(core, t, core.gen[t]))
    BY <1>3, <1>5, SamePolicy, SMT
  <1>8. TasksOwn(core', rt')
    BY <1>7 DEF TasksOwn
  <1>9. FreertosArmed' = FreertosArmed
    BY DEF FreertosArmed
  <1>10. PortStep(core, core', FreertosTask, FreertosTask', FreertosArmed, FreertosArmed')
    BY <1>5, <1>9 DEF PortStep, Replies
  <1> QED
    BY <1>3, <1>4, <1>6, <1>8, <1>10 DEF FreertosInv

-----------------------------------------------------------------------------
\* Only the profile of a slot differs.
ProfileOnly(p, q, s) ==
    /\ RtRecord(q) /\ q.profile = [p.profile EXCEPT ![s] = q.profile[s]]
    /\ q.tid = p.tid /\ q.gen = p.gen /\ q.desc = p.desc /\ q.blocked = p.blocked
    /\ q.nat = p.nat /\ q.selected = p.selected /\ q.sched = p.sched
    /\ q.subscribed = p.subscribed

\* freertos_prepare_profile touches the profile of its slot only, and what it
\* returns is the profile of the policy.
LEMMA Profile ==
    ASSUME NEW p, RtTyped(p), NEW s \in Slot, NEW g, NEW fits
    PROVE  LET prof == freertos_prepare_profile(p, s, g, fits) IN
           /\ ProfileOnly(p, prof.p, s) /\ prof.ok \in BOOLEAN
           /\ prof.ok => /\ prof.p.profile[s].valid
                         /\ prof.p.profile[s].key = PolicyKey(Policy(core, s, g))
  <1> DEFINE prof == freertos_prepare_profile(p, s, g, fits)
             key == PolicyKey(Policy(core, s, g))
             fresh == [valid |-> TRUE, key |-> key]
  <1>1. ProfileOnly(p, p, s)
    BY DEF RtTyped, ProfileOnly
  <1>2. ASSUME NEW x
        PROVE  LET q == [p EXCEPT !.profile[s] = x] IN ProfileOnly(p, q, s) /\ q.profile[s] = x
    <2>1. ASSUME NEW q, q = [p EXCEPT !.profile[s] = x]
          PROVE  ProfileOnly(p, q, s) /\ q.profile[s] = x
      BY <2>1 DEF RtTyped, RtRecord, ProfileOnly
    <2> QED
      BY <2>1
  <1>3. \/ prof = [ok |-> FALSE, p |-> p]
        \/ prof = [ok |-> TRUE, p |-> p] /\ p.profile[s].valid /\ p.profile[s].key = key
        \/ prof = [ok |-> FALSE, p |-> [p EXCEPT !.profile[s] = FreertosNoProfile]]
        \/ prof = [ok |-> TRUE, p |-> [p EXCEPT !.profile[s] = fresh]]
    BY DEF freertos_prepare_profile
  <1>4. fresh.valid /\ fresh.key = key
    OBVIOUS
  <1> HIDE DEF prof, key, fresh
  <1>5. /\ ProfileOnly(p, prof.p, s) /\ prof.ok \in BOOLEAN
        /\ prof.ok => prof.p.profile[s].valid /\ prof.p.profile[s].key = key
    <2>1. CASE prof = [ok |-> FALSE, p |-> p]
      BY <1>1, <2>1
    <2>2. CASE prof = [ok |-> TRUE, p |-> p] /\ p.profile[s].valid /\ p.profile[s].key = key
      BY <1>1, <2>2
    <2>3. CASE prof = [ok |-> FALSE, p |-> [p EXCEPT !.profile[s] = FreertosNoProfile]]
      BY <1>2, <2>3
    <2>4. CASE prof = [ok |-> TRUE, p |-> [p EXCEPT !.profile[s] = fresh]]
      <3>1. prof.p = [p EXCEPT !.profile[s] = fresh] /\ prof.ok = TRUE
        BY <2>4
      <3>2. ProfileOnly(p, prof.p, s) /\ prof.p.profile[s] = fresh
        BY <1>2, <3>1
      <3> QED
        BY <1>4, <3>1, <3>2
    <2> QED
      BY <1>3, <2>1, <2>2, <2>3, <2>4
  <1> QED
    BY <1>5 DEF prof, key

\* The port's state after a creation whose readback failed, after one that
\* succeeded, and after a task was deleted.
Unmade(p, s) == [p EXCEPT !.gen[s] = 0, !.profile[s] = FreertosNoProfile]

WithTask(p, s, g) == [p EXCEPT !.gen[s] = g, !.tid[s] = TRUE, !.nat[s] = "ready"]

Erased(p, s) ==
    [p EXCEPT !.tid[s] = FALSE, !.desc[s] = "none", !.gen[s] = 0,
              !.profile[s] = FreertosNoProfile, !.blocked[s] = FALSE, !.nat[s] = "none"]

\* Their fields.
LEMMA UnmadeFields ==
    ASSUME NEW p, RtTyped(p), NEW s \in Slot
    PROVE  LET q == Unmade(p, s) IN
           /\ RtRecord(q) /\ q.gen = [p.gen EXCEPT ![s] = 0]
           /\ q.profile = [p.profile EXCEPT ![s] = FreertosNoProfile]
           /\ q.tid = p.tid /\ q.desc = p.desc /\ q.blocked = p.blocked /\ q.nat = p.nat
           /\ q.selected = p.selected /\ q.sched = p.sched /\ q.subscribed = p.subscribed
  <1> DEFINE q == Unmade(p, s)
  <1>1. q = [p EXCEPT !.gen[s] = 0, !.profile[s] = FreertosNoProfile]
    BY DEF Unmade
  <1> HIDE DEF q
  <1> QED
    BY <1>1 DEF RtTyped, RtRecord, q

\* A created task, by field.
Made(p, q, s, g) ==
    /\ RtRecord(q) /\ q.gen = [p.gen EXCEPT ![s] = g]
    /\ q.tid = [p.tid EXCEPT ![s] = TRUE] /\ q.nat = [p.nat EXCEPT ![s] = "ready"]
    /\ q.profile = p.profile /\ q.desc = p.desc /\ q.blocked = p.blocked
    /\ q.selected = p.selected /\ q.sched = p.sched /\ q.subscribed = p.subscribed

\* WithTask writes those fields and no other.
LEMMA WithTaskFields ==
    ASSUME NEW p, RtTyped(p), NEW s \in Slot, NEW g
    PROVE  Made(p, WithTask(p, s, g), s, g)
  <1> DEFINE q == WithTask(p, s, g)
  <1>1. q = [p EXCEPT !.gen[s] = g, !.tid[s] = TRUE, !.nat[s] = "ready"]
    BY DEF WithTask
  <1> HIDE DEF q
  <1>2. Made(p, q, s, g)
    BY <1>1 DEF RtTyped, RtRecord, Made
  <1> QED
    BY <1>2 DEF q

\* A deleted task, by field.
LEMMA ErasedFields ==
    ASSUME NEW p, RtTyped(p), NEW s \in Slot
    PROVE  LET q == Erased(p, s) IN
           /\ RtRecord(q) /\ q.tid = [p.tid EXCEPT ![s] = FALSE]
           /\ q.desc = [p.desc EXCEPT ![s] = "none"] /\ q.gen = [p.gen EXCEPT ![s] = 0]
           /\ q.profile = [p.profile EXCEPT ![s] = FreertosNoProfile]
           /\ q.blocked = [p.blocked EXCEPT ![s] = FALSE]
           /\ q.nat = [p.nat EXCEPT ![s] = "none"]
           /\ q.selected = p.selected /\ q.sched = p.sched /\ q.subscribed = p.subscribed
  <1> DEFINE q == Erased(p, s)
  <1>1. q = [p EXCEPT !.tid[s] = FALSE, !.desc[s] = "none", !.gen[s] = 0,
                      !.profile[s] = FreertosNoProfile, !.blocked[s] = FALSE, !.nat[s] = "none"]
    BY DEF Erased
  <1> HIDE DEF q
  <1> QED
    BY <1>1 DEF RtTyped, RtRecord, q

\* A descriptor is nobody's business but its guest's.
LEMMA Stashed ==
    ASSUME NEW p, RtTyped(p), NEW s \in Slot, NEW d
    PROVE  LET q == freertos_stash_desc(p, s, d) IN
           /\ RtTyped(q) /\ SameTasks(p, q) /\ q.blocked = p.blocked /\ q.nat = p.nat
           /\ q.selected = p.selected
  <1> DEFINE q == freertos_stash_desc(p, s, d)
  <1>1. q = [p EXCEPT !.desc[s] = d]
    BY DEF freertos_stash_desc
  <1> HIDE DEF q
  <1>2. /\ RtRecord(q) /\ SameTasks(p, q) /\ q.blocked = p.blocked /\ q.nat = p.nat
        /\ q.selected = p.selected /\ q.desc = [p.desc EXCEPT ![s] = d]
    BY <1>1 DEF RtTyped, RtRecord, SameTasks
  <1>3. RtTyped(q)
    BY <1>2 DEF RtTyped, SameTasks
  <1> QED
    BY <1>2, <1>3 DEF q

\* What may fail while a task is created, as truth values.
LEMMA Outcomes == \A o \in FreertosOutcomes : o[2] \in BOOLEAN /\ o[3] \in BOOLEAN
  <1> SUFFICES ASSUME NEW o \in FreertosOutcomes PROVE o[2] \in BOOLEAN /\ o[3] \in BOOLEAN
    OBVIOUS
  <1>1. \/ o = <<TRUE, TRUE, TRUE>> \/ o = <<FALSE, TRUE, TRUE>>
        \/ o = <<TRUE, FALSE, TRUE>> \/ o = <<TRUE, TRUE, FALSE>>
    BY DEF FreertosOutcomes
  <1>2. CASE o = <<TRUE, TRUE, TRUE>>
    BY <1>2
  <1>3. CASE o = <<FALSE, TRUE, TRUE>>
    BY <1>3
  <1>4. CASE o = <<TRUE, FALSE, TRUE>>
    BY <1>4
  <1>5. CASE o = <<TRUE, TRUE, FALSE>>
    BY <1>5
  <1> QED
    BY <1>1, <1>2, <1>3, <1>4, <1>5

\* A creation, from a state that differs from the port's in its descriptors
\* only.
LEMMA SpawnServes ==
    ASSUME FreertosInv, core.call.op \in Creates, core.call.stage = "in",
           NEW p, RtTyped(p), SameTasks(rt, p), p.blocked = rt.blocked, p.nat = rt.nat,
           p.selected = rt.selected,
           NEW fits, NEW created \in BOOLEAN, NEW captured \in BOOLEAN,
           freertos_spawn_common(core.call.slot, core.call.gen, p, fits, created, captured)
    PROVE  /\ FreertosInv'
           /\ PortStep(core, core', FreertosTask, FreertosTask', FreertosArmed, FreertosArmed')
  <1> DEFINE s == core.call.slot
             g == core.call.gen
             prof == freertos_prepare_profile(p, s, g, fits)
             made == WithTask(prof.p, s, g)
  <1>1. core.call.op \in SlotOps
    BY DEF Creates, SlotOps
  <1>2. s \in Slot /\ g = core.gen[s] /\ g \in Nat /\ ~rt.tid[s]
    BY <1>1, AtCall
  <1>3. /\ Gate(rt) /\ TasksOwn(core, rt) /\ RtTyped(rt)
        /\ rt.nat[s] = "none" /\ ~rt.blocked[s] /\ rt.selected # s
    BY <1>2, SMTT(30) DEF FreertosInv, Gate, GateOf, RtTyped, Slot, NoSlot
  <1>4. ProfileOnly(p, prof.p, s)
    BY <1>2, Profile
  <1>5. prof.ok \in BOOLEAN
        /\ (prof.ok => prof.p.profile[s].valid
                       /\ prof.p.profile[s].key = PolicyKey(Policy(core, s, g)))
    BY <1>2, Profile
  <1>6. \/ FAnswer(FALSE, prof.p)
        \/ FAnswer(FALSE, [prof.p EXCEPT !.gen[s] = 0])
        \/ FAnswer(FALSE, Unmade(prof.p, s))
        \/ prof.ok /\ FAnswer(TRUE, freertos_sched_register_ready(made, s))
    BY <1>5 DEF freertos_spawn_common, Unmade, WithTask
  <1> HIDE DEF s, g, prof
  <1>7. /\ prof.p.tid = rt.tid /\ prof.p.gen = rt.gen
        /\ prof.p.profile = [rt.profile EXCEPT ![s] = prof.p.profile[s]] /\ prof.p.desc = p.desc
        /\ prof.p.blocked = rt.blocked /\ prof.p.nat = rt.nat /\ prof.p.selected = rt.selected
        /\ prof.p.sched = rt.sched /\ prof.p.subscribed = rt.subscribed /\ RtRecord(prof.p)
    BY <1>4 DEF ProfileOnly, SameTasks
  <1>8. RtTyped(prof.p)
    BY <1>2, <1>3, <1>7 DEF RtTyped
  <1>9. ASSUME NEW q, FAnswer(FALSE, q), RtTyped(q),
               q.tid = rt.tid, q.blocked = rt.blocked, q.nat = rt.nat, q.selected = rt.selected,
               q.sched = rt.sched, q.subscribed = rt.subscribed,
               \A t \in Slot \ {s} : q.gen[t] = rt.gen[t] /\ q.profile[t] = rt.profile[t]
        PROVE  /\ FreertosInv'
               /\ PortStep(core, core', FreertosTask, FreertosTask', FreertosArmed, FreertosArmed')
    <2>1. rt' = q /\ core' = Answered(core, FALSE)
      BY <1>9 DEF FAnswer
    <2>2. FreertosTask' = FreertosTask
      BY <1>2, <1>9, <2>1, NoTaskMoves DEF Live
    <2>3. Gate(rt')
      BY <1>3, <1>9, <2>1 DEF Gate, GateOf
    <2>4. TasksOwn(core, rt')
      BY <1>2, <1>3, <1>9, <2>1 DEF TasksOwn
    <2>5. core.call.op # "abort"
      BY DEF Creates
    <2> QED
      BY <1>1, <1>9, <2>1, <2>2, <2>3, <2>4, <2>5, FreertosServes
  <1>10. CASE FAnswer(FALSE, prof.p)
    BY <1>2, <1>3, <1>7, <1>8, <1>9, <1>10 DEF RtTyped
  <1>11. CASE FAnswer(FALSE, [prof.p EXCEPT !.gen[s] = 0])
    <2> DEFINE q == [prof.p EXCEPT !.gen[s] = 0]
    <2>1. /\ RtRecord(q) /\ q.tid = rt.tid /\ q.gen = [rt.gen EXCEPT ![s] = 0]
          /\ q.profile = prof.p.profile /\ q.desc = prof.p.desc
          /\ q.blocked = rt.blocked /\ q.nat = rt.nat /\ q.selected = rt.selected
          /\ q.sched = rt.sched /\ q.subscribed = rt.subscribed
      <3>1. q = [prof.p EXCEPT !.gen[s] = 0]
        OBVIOUS
      <3> HIDE DEF q
      <3>2. /\ RtRecord(q) /\ q.gen = [prof.p.gen EXCEPT ![s] = 0]
            /\ q.tid = prof.p.tid /\ q.profile = prof.p.profile /\ q.desc = prof.p.desc
            /\ q.blocked = prof.p.blocked /\ q.nat = prof.p.nat
            /\ q.selected = prof.p.selected
            /\ q.sched = prof.p.sched /\ q.subscribed = prof.p.subscribed
        BY <1>8, <3>1 DEF RtTyped, RtRecord
      <3> QED
        BY <1>7, <3>2
    <2> HIDE DEF q
    <2>2. RtTyped(q)
      BY <1>2, <1>8, <1>7, <2>1, SMTT(30) DEF RtTyped
    <2>3. \A t \in Slot \ {s} : q.gen[t] = rt.gen[t] /\ q.profile[t] = rt.profile[t]
      BY <1>3, <1>7, <2>1 DEF RtTyped
    <2> QED
      BY <1>9, <1>11, <2>1, <2>2, <2>3 DEF q
  <1>12. CASE FAnswer(FALSE, Unmade(prof.p, s))
    <2> DEFINE q == Unmade(prof.p, s)
    <2>1. /\ RtRecord(q) /\ q.tid = rt.tid /\ q.gen = [rt.gen EXCEPT ![s] = 0]
          /\ q.profile = [prof.p.profile EXCEPT ![s] = FreertosNoProfile]
          /\ q.desc = prof.p.desc
          /\ q.blocked = rt.blocked /\ q.nat = rt.nat /\ q.selected = rt.selected
          /\ q.sched = rt.sched /\ q.subscribed = rt.subscribed
      <3>1. /\ RtRecord(q) /\ q.gen = [prof.p.gen EXCEPT ![s] = 0]
            /\ q.profile = [prof.p.profile EXCEPT ![s] = FreertosNoProfile]
            /\ q.tid = prof.p.tid /\ q.desc = prof.p.desc /\ q.blocked = prof.p.blocked
            /\ q.nat = prof.p.nat /\ q.selected = prof.p.selected
            /\ q.sched = prof.p.sched /\ q.subscribed = prof.p.subscribed
        BY <1>2, <1>8, UnmadeFields
      <3> HIDE DEF q
      <3> QED
        BY <1>7, <3>1
    <2> HIDE DEF q
    <2>2. RtTyped(q)
      BY <1>2, <1>8, <1>7, <2>1, SMT DEF RtTyped
    <2>3. \A t \in Slot \ {s} : q.gen[t] = rt.gen[t] /\ q.profile[t] = rt.profile[t]
      BY <1>3, <1>7, <2>1 DEF RtTyped
    <2> QED
      BY <1>9, <1>12, <2>1, <2>2, <2>3 DEF q
  <1>13. CASE prof.ok /\ FAnswer(TRUE, freertos_sched_register_ready(made, s))
    <2>0. Made(prof.p, made, s, g)
      BY <1>2, <1>8, WithTaskFields
    <2> HIDE DEF made
    <2>1. /\ RtRecord(made) /\ made.tid = [rt.tid EXCEPT ![s] = TRUE]
          /\ made.gen = [rt.gen EXCEPT ![s] = g] /\ made.profile = prof.p.profile
          /\ made.desc = prof.p.desc /\ made.blocked = rt.blocked
          /\ made.nat = [rt.nat EXCEPT ![s] = "ready"] /\ made.selected = rt.selected
          /\ made.sched = rt.sched /\ made.subscribed = rt.subscribed
      BY <1>7, <2>0 DEF Made
    <2>2. RtTyped(made)
      BY <1>2, <1>8, <1>7, <2>1, SMT DEF RtTyped
    <2>3. made.tid[s] /\ made.nat[s] # "none" /\ ~made.blocked[s] /\ made.selected # s
      BY <1>2, <1>3, <2>1 DEF RtTyped
    <2>4. \A t \in Slot \ {s} : GateOf(made, t)
      BY <1>3, <2>1, SMTT(30) DEF Gate, GateOf, RtTyped
    <2>5. ASSUME made.selected # NoSlot
          PROVE  made.nat[made.selected] = "ready"
                 /\ freertos_sched_slot_runnable(made, made.selected)
      <3>1. rt.selected \in Slot \ {s} /\ rt.nat[rt.selected] = "ready"
        BY <1>3, <2>1, <2>5 DEF Gate, RtTyped
      <3>2. freertos_sched_slot_runnable(rt, rt.selected)
        BY <3>1, LiveRunnable DEF Live
      <3> QED
        BY <1>3, <2>1, <3>1, <3>2, SMTT(30) DEF freertos_sched_slot_runnable, RtTyped
    <2> DEFINE q == freertos_sched_register_ready(made, s)
    <2>6. /\ RtTyped(q) /\ Gate(q) /\ SameTasks(made, q) /\ Live(q, s)
          /\ \A t \in Slot \ {s} : Live(q, t) <=> Live(made, t)
      BY <1>2, <2>2, <2>3, <2>4, <2>5, RegisterReady
    <2>7. rt' = q /\ core' = Answered(core, TRUE)
      BY <1>13 DEF FAnswer
    <2> HIDE DEF q
    <2>8. /\ rt'.tid = [rt.tid EXCEPT ![s] = TRUE] /\ rt'.gen = [rt.gen EXCEPT ![s] = g]
          /\ rt'.profile = prof.p.profile
          /\ rt'.sched = rt.sched /\ rt'.subscribed = rt.subscribed
          /\ Live(rt', s) /\ \A t \in Slot \ {s} : Live(rt', t) <=> Live(rt, t)
      BY <1>3, <2>1, <2>6, <2>7, SMTT(30) DEF SameTasks, Live, RtTyped
    <2>9. FreertosTask'[s] = [state |-> "live", gen |-> g]
      BY <1>2, <1>3, <2>8, TaskOfNext DEF RtTyped
    <2>10. FreertosTask' = [FreertosTask EXCEPT ![s] = FreertosTask'[s]]
      BY <1>2, <1>3, <2>8, OneTask DEF RtTyped
    <2>11. Served(core.call) = [state |-> "live", gen |-> g]
      BY DEF Served, Creates, g
    <2>12. TasksOwn(core, rt')
      <3>1. \A t \in Slot \ {s} : rt'.tid[t] = rt.tid[t] /\ rt'.profile[t] = rt.profile[t]
        BY <1>3, <1>7, <2>8, SMTT(30) DEF RtTyped
      <3> QED
        BY <1>2, <1>3, <1>5, <1>13, <2>8, <3>1 DEF TasksOwn
    <2>13. FreertosTask' = [FreertosTask EXCEPT ![core.call.slot] = Served(core.call)]
      BY <2>9, <2>10, <2>11 DEF s
    <2>14. core.call.op # "abort"
      BY DEF Creates
    <2> QED
      BY <1>1, <2>6, <2>7, <2>8, <2>12, <2>13, <2>14, FreertosServes
  <1> QED
    BY <1>6, <1>10, <1>11, <1>12, <1>13

\* The callbacks of a slot.
LEMMA CallbackServes ==
    ASSUME FreertosInv,
           \/ freertos_spawn_launch \/ freertos_spawn_resume_start
           \/ freertos_spawn_resume_parked \/ freertos_abort_slot \/ freertos_park_slot
    PROVE  /\ FreertosInv'
           /\ PortStep(core, core', FreertosTask, FreertosTask', FreertosArmed, FreertosArmed')
  <1> DEFINE s == core.call.slot
             g == core.call.gen
  <1>1. core.call.stage = "in" /\ core.call.op \in SlotOps
    BY DEF freertos_spawn_launch, freertos_spawn_resume_start, freertos_spawn_resume_parked,
       freertos_abort_slot, freertos_park_slot, InCall, SlotOps
  <1>2. /\ s \in Slot /\ g = core.gen[s] /\ g \in Nat
        /\ rt.tid[s] => rt.gen[s] = core.gen[s]
        /\ core.call.op \in Creates => ~rt.tid[s]
        /\ core.call.op = "park" => rt.tid[s] /\ Live(rt, s)
        /\ core.call.op = "resume" => rt.tid[s] /\ ~Live(rt, s)
    BY <1>1, AtCall
  <1>3. RtTyped(rt) /\ Gate(rt) /\ TasksOwn(core, rt)
    BY DEF FreertosInv
  <1>4. ASSUME FAnswer(FALSE, rt), core.call.op # "abort"
        PROVE  /\ FreertosInv'
               /\ PortStep(core, core', FreertosTask, FreertosTask', FreertosArmed, FreertosArmed')
    <2>1. rt' = rt /\ core' = Answered(core, FALSE)
      BY <1>4 DEF FAnswer
    <2>2. FreertosTask' = FreertosTask
      BY <2>1 DEF FreertosTask
    <2> QED
      BY <1>1, <1>3, <1>4, <2>1, <2>2, FreertosServes
  <1>5. CASE freertos_spawn_launch
    <2> DEFINE p == freertos_stash_desc(rt, s, "none")
    <2>1. core.call.op \in Creates
      BY <1>5 DEF freertos_spawn_launch, InCall, Creates
    <2>2. PICK o \in FreertosOutcomes : freertos_spawn_common(s, g, p, o[1], o[2], o[3])
      BY <1>2, <1>5, <2>1 DEF freertos_spawn_launch
    <2>3. o[2] \in BOOLEAN /\ o[3] \in BOOLEAN
      BY Outcomes
    <2>4. /\ RtTyped(p) /\ SameTasks(rt, p) /\ p.blocked = rt.blocked /\ p.nat = rt.nat
          /\ p.selected = rt.selected
      BY <1>2, <1>3, Stashed
    <2> HIDE DEF p
    <2> QED
      BY <1>1, <2>1, <2>2, <2>3, <2>4, SpawnServes
  <1>6. CASE freertos_spawn_resume_start
    <2>1. core.call.op \in Creates
      BY <1>6 DEF freertos_spawn_resume_start, InCall, Creates
    <2>2. PICK o \in FreertosOutcomes : freertos_spawn_common(s, g, rt, o[1], o[2], o[3])
      BY <1>2, <1>6, <2>1 DEF freertos_spawn_resume_start
    <2>3. o[2] \in BOOLEAN /\ o[3] \in BOOLEAN
      BY Outcomes
    <2>4. SameTasks(rt, rt)
      BY DEF SameTasks
    <2> QED
      BY <1>1, <1>3, <2>1, <2>2, <2>3, <2>4, SpawnServes
  <1>7. CASE freertos_spawn_resume_parked
    <2> DEFINE p == freertos_stash_desc(rt, s, "ready")
               q == freertos_sched_register_ready(p, s)
    <2>1. core.call.op = "resume"
      BY <1>7 DEF freertos_spawn_resume_parked, InCall
    <2>2. FAnswer(FALSE, rt) \/ FAnswer(TRUE, q)
      BY <1>7 DEF freertos_spawn_resume_parked
    <2>3. CASE FAnswer(FALSE, rt)
      BY <1>4, <2>1, <2>3
    <2>4. CASE FAnswer(TRUE, q)
      <3>1. /\ RtTyped(p) /\ SameTasks(rt, p) /\ p.blocked = rt.blocked /\ p.nat = rt.nat
            /\ p.selected = rt.selected
        BY <1>2, <1>3, Stashed
      <3>2. rt' = q /\ core' = Answered(core, TRUE)
        BY <2>4 DEF FAnswer
      <3> HIDE DEF p
      <3>3. /\ p.tid[s] /\ p.nat[s] # "none" /\ ~p.blocked[s] /\ p.selected # s
            /\ \A t \in Slot \ {s} : GateOf(p, t)
        BY <1>2, <1>3, <2>1, <3>1, SMTT(30) DEF Gate, GateOf, Live, SameTasks, Slot, NoSlot
      <3>4. ASSUME p.selected # NoSlot
            PROVE  p.nat[p.selected] = "ready" /\ freertos_sched_slot_runnable(p, p.selected)
        <4>1. rt.selected \in Slot /\ rt.nat[rt.selected] = "ready"
          BY <1>3, <3>1, <3>4 DEF Gate, RtTyped
        <4>2. freertos_sched_slot_runnable(rt, rt.selected)
          BY <4>1, LiveRunnable DEF Live
        <4> QED
          BY <3>1, <4>1, <4>2 DEF freertos_sched_slot_runnable, SameTasks
      <3>5. /\ RtTyped(q) /\ Gate(q) /\ SameTasks(p, q) /\ Live(q, s)
            /\ \A t \in Slot \ {s} : Live(q, t) <=> Live(p, t)
        BY <1>2, <3>1, <3>3, <3>4, RegisterReady
      <3> HIDE DEF q
      <3>6. /\ SameTasks(rt, rt') /\ Live(rt', s)
            /\ \A t \in Slot \ {s} : Live(rt', t) <=> Live(rt, t)
        BY <3>1, <3>2, <3>5 DEF SameTasks, Live
      <3>7. FreertosTask'[s] = [state |-> "live", gen |-> g]
        BY <1>2, <2>1, <3>6, TaskOfNext, SMTT(30) DEF SameTasks
      <3>8. FreertosTask' = [FreertosTask EXCEPT ![s] = FreertosTask'[s]]
        BY <1>2, <3>6, OneTask DEF SameTasks
      <3>9. Served(core.call) = [state |-> "live", gen |-> g]
        BY <2>1 DEF Served
      <3>10. TasksOwn(core, rt')
        BY <1>3, <3>6 DEF TasksOwn, SameTasks
      <3>11. rt'.sched = rt.sched /\ rt'.subscribed = rt.subscribed
        BY <3>6 DEF SameTasks
      <3> QED
        BY <1>1, <2>1, <3>2, <3>5, <3>7, <3>8, <3>9, <3>10, <3>11, FreertosServes
    <2> QED
      BY <2>2, <2>3, <2>4
  <1>8. CASE freertos_abort_slot
    <2> DEFINE p == Erased(rt, s)
               q == freertos_sched_deselect(p, s)
    <2>1. core.call.op = "abort"
      BY <1>8 DEF freertos_abort_slot, InCall
    <2>2. rt' = q /\ core' = Answered(core, TRUE)
      BY <1>2, <1>8 DEF freertos_abort_slot, FAnswer, Erased
    <2>4. /\ RtRecord(p) /\ p.tid = [rt.tid EXCEPT ![s] = FALSE]
          /\ p.desc = [rt.desc EXCEPT ![s] = "none"] /\ p.gen = [rt.gen EXCEPT ![s] = 0]
          /\ p.profile = [rt.profile EXCEPT ![s] = FreertosNoProfile]
          /\ p.blocked = [rt.blocked EXCEPT ![s] = FALSE]
          /\ p.nat = [rt.nat EXCEPT ![s] = "none"]
          /\ p.selected = rt.selected /\ p.sched = rt.sched /\ p.subscribed = rt.subscribed
      BY <1>2, <1>3, ErasedFields
    <2> HIDE DEF p
    <2> HIDE DEF s
    <2>5. RtTyped(p)
      <3>1. /\ p.tid \in [Slot -> BOOLEAN] /\ p.blocked \in [Slot -> BOOLEAN]
            /\ p.gen \in [Slot -> Nat] /\ p.nat \in [Slot -> {"none", "ready", "suspended"}]
            /\ p.selected \in Slot \cup {NoSlot}
        BY <1>2, <1>3, <2>4, SMT DEF RtTyped
      <3>2. p.profile = [t \in Slot |-> p.profile[t]] /\ p.desc = [t \in Slot |-> p.desc[t]]
        BY <1>2, <1>3, <2>4 DEF RtTyped
      <3> QED
        BY <2>4, <3>1, <3>2 DEF RtTyped
    <2>6. /\ p.nat[s] # "ready" /\ ~p.blocked[s] /\ (p.tid[s] <=> p.nat[s] # "none")
          /\ p.selected \notin {NoSlot, s} => p.nat[p.selected] = "ready"
          /\ \A t \in Slot \ {s} : GateOf(p, t)
      BY <1>2, <1>3, <2>4, SMTT(30) DEF Gate, GateOf, RtTyped
    <2>7. ASSUME NEW t \in Slot, p.blocked[t] PROVE freertos_sched_slot_runnable(p, t)
      <3>1. t # s /\ rt.blocked[t]
        BY <1>2, <1>3, <2>4, <2>7 DEF RtTyped
      <3>2. freertos_sched_slot_runnable(rt, t)
        BY <3>1, LiveRunnable DEF Live
      <3> QED
        BY <1>3, <2>4, <3>1, <3>2 DEF freertos_sched_slot_runnable, RtTyped
    <2>8. /\ RtTyped(q) /\ Gate(q) /\ SameTasks(p, q)
          /\ \A t \in Slot : Live(q, t) <=> Live(p, t)
      BY <1>2, <2>5, <2>6, <2>7, Deselect
    <2> HIDE DEF q
    <2>9. /\ rt'.tid = p.tid /\ rt'.gen = p.gen /\ rt'.profile = p.profile
          /\ rt'.sched = rt.sched /\ rt'.subscribed = rt.subscribed
          /\ \A t \in Slot \ {s} : Live(rt', t) <=> Live(rt, t)
      BY <1>3, <2>2, <2>4, <2>8, SMTT(30) DEF SameTasks, Live, RtTyped
    <2>10. FreertosTask'[s] = Nobody
      BY <1>2, <1>3, <2>4, <2>9, TaskOfNext DEF RtTyped
    <2>11. FreertosTask' = [FreertosTask EXCEPT ![s] = FreertosTask'[s]]
      <3>1. \A t \in Slot \ {s} : rt'.tid[t] = rt.tid[t] /\ rt'.gen[t] = rt.gen[t]
        BY <1>3, <2>4, <2>9 DEF RtTyped
      <3> QED
        BY <1>2, <2>9, <3>1, OneTask
    <2>12. Served(core.call) = Nobody
      BY <2>1 DEF Served
    <2>13. TasksOwn(core, rt')
      BY <1>2, <1>3, <2>4, <2>9, SMTT(30) DEF TasksOwn, RtTyped
    <2> QED
      BY <1>1, <2>1, <2>2, <2>8, <2>9, <2>10, <2>11, <2>12, <2>13, FreertosServes DEF s
  <1>9. CASE freertos_park_slot
    <2> DEFINE p == [vTaskSuspend(rt, s) EXCEPT !.blocked[s] = FALSE]
               q == freertos_sched_deselect(p, s)
    <2>1. core.call.op = "park"
      BY <1>9 DEF freertos_park_slot, InCall
    <2>2. FAnswer(FALSE, rt) \/ FAnswer(TRUE, q)
      BY <1>9 DEF freertos_park_slot
    <2>3. CASE FAnswer(FALSE, rt)
      BY <1>4, <2>1, <2>3
    <2>4. CASE FAnswer(TRUE, q)
      <3>1. rt' = q /\ core' = Answered(core, TRUE)
        BY <2>4 DEF FAnswer
      <3>2. p = [rt EXCEPT !.nat[s] = "suspended", !.blocked[s] = FALSE]
        BY <1>3 DEF vTaskSuspend, RtTyped, RtRecord
      <3> HIDE DEF p
      <3>3. /\ RtRecord(p) /\ p.nat = [rt.nat EXCEPT ![s] = "suspended"]
            /\ p.blocked = [rt.blocked EXCEPT ![s] = FALSE] /\ SameTasks(rt, p)
            /\ p.desc = rt.desc /\ p.selected = rt.selected
        BY <1>2, <1>3, <3>2 DEF RtTyped, RtRecord, SameTasks
      <3>4. RtTyped(p)
        BY <1>2, <1>3, <3>3 DEF RtTyped, SameTasks
      <3>5. /\ p.nat[s] # "ready" /\ ~p.blocked[s] /\ (p.tid[s] <=> p.nat[s] # "none")
            /\ p.selected \notin {NoSlot, s} => p.nat[p.selected] = "ready"
            /\ \A t \in Slot \ {s} : GateOf(p, t)
        BY <1>2, <1>3, <2>1, <3>3, SMTT(30) DEF Gate, GateOf, RtTyped, SameTasks
      <3>6. ASSUME NEW t \in Slot, p.blocked[t] PROVE freertos_sched_slot_runnable(p, t)
        <4>1. t # s /\ rt.blocked[t]
          BY <1>2, <1>3, <3>3, <3>6 DEF RtTyped
        <4>2. freertos_sched_slot_runnable(rt, t)
          BY <4>1, LiveRunnable DEF Live
        <4> QED
          BY <3>3, <4>2 DEF freertos_sched_slot_runnable, SameTasks
      <3>7. /\ RtTyped(q) /\ Gate(q) /\ SameTasks(p, q)
            /\ \A t \in Slot : Live(q, t) <=> Live(p, t)
        BY <1>2, <3>4, <3>5, <3>6, Deselect
      <3> HIDE DEF q
      <3>8. /\ SameTasks(rt, rt') /\ ~Live(rt', s)
            /\ \A t \in Slot \ {s} : Live(rt', t) <=> Live(rt, t)
        <4>1. SameTasks(rt, q)
          BY <3>3, <3>7 DEF SameTasks
        <4>2. ~Live(p, s)
          BY <3>5 DEF Live
        <4>3. ASSUME NEW t \in Slot, t # s PROVE Live(p, t) <=> Live(rt, t)
          BY <1>3, <3>3, <4>3 DEF Live, RtTyped
        <4> QED
          BY <1>2, <3>1, <3>7, <4>1, <4>2, <4>3
      <3>9. FreertosTask'[s] = [state |-> "parked", gen |-> g]
        BY <1>2, <2>1, <3>8, TaskOfNext, SMTT(30) DEF SameTasks
      <3>10. FreertosTask' = [FreertosTask EXCEPT ![s] = FreertosTask'[s]]
        BY <1>2, <3>8, OneTask DEF SameTasks
      <3>11. Served(core.call) = [state |-> "parked", gen |-> g]
        BY <2>1 DEF Served
      <3>12. TasksOwn(core, rt')
        BY <1>3, <3>8 DEF TasksOwn, SameTasks
      <3>13. rt'.sched = rt.sched /\ rt'.subscribed = rt.subscribed
        BY <3>8 DEF SameTasks
      <3> QED
        BY <1>1, <2>1, <3>1, <3>7, <3>9, <3>10, <3>11, <3>12, <3>13, FreertosServes
    <2> QED
      BY <2>2, <2>3, <2>4
  <1> QED
    BY <1>5, <1>6, <1>7, <1>8, <1>9

-----------------------------------------------------------------------------
\* A step that moves at most the gate keeps the invariant and is invisible to
\* the contract.
LEMMA QuietServes ==
    ASSUME FreertosInv, Keeps(core, core'), core.call.stage = "in" => core'.call = core.call,
           RtTyped(rt'), Gate(rt'), SameTasks(rt, rt'),
           \A t \in Slot : Live(rt', t) <=> Live(rt, t)
    PROVE  /\ FreertosInv'
           /\ PortStep(core, core', FreertosTask, FreertosTask', FreertosArmed, FreertosArmed')
  <1>1. FreertosTask' = FreertosTask
    BY NoTaskMoves DEF SameTasks
  <1>2. CoreInv(core') /\ Kept(core, core') /\ NoneFailed(core')
    BY DEF Keeps, FreertosInv
  <1>3. Follows(FreertosTask, core) /\ Follows(FreertosTask, core')
    BY KeepsFollows DEF FreertosInv
  <1>4. ASSUME NEW t \in Slot, rt'.tid[t]
        PROVE  /\ rt'.profile[t].valid
               /\ rt'.profile[t].key = PolicyKey(Policy(core', t, core'.gen[t]))
    <2>1. rt.tid[t] /\ rt'.profile[t] = rt.profile[t]
      BY <1>4 DEF SameTasks
    <2>2. FreertosTask[t] = [state |-> IF Live(rt, t) THEN "live" ELSE "parked",
                             gen |-> rt.gen[t]]
      BY <2>1, TaskOf
    <2>3. FreertosTask[t].state # "none" /\ FreertosTask[t] # Nobody
          /\ FreertosTask[t].gen = rt.gen[t]
      BY <2>2, SMTT(30) DEF Nobody
    <2>4. core'.gen[t] = rt.gen[t] /\ core.gen[t] = rt.gen[t]
      BY <1>3, <2>3, SMTT(30) DEF Follows
    <2>5. core'.alive[t]
      BY <1>2, <1>3, <2>3, TaskAlive
    <2>6. MmOf(core', t) = MmOf(core, t)
      BY <1>2, <2>4, <2>5 DEF Kept
    <2>7. PolicyKey(Policy(core', t, core'.gen[t])) = PolicyKey(Policy(core, t, core.gen[t]))
      BY <2>4, <2>6, SamePolicy, SMTT(30)
    <2> QED
      BY <2>1, <2>7 DEF FreertosInv, TasksOwn
  <1>5. TasksOwn(core', rt')
    BY <1>4 DEF TasksOwn
  <1>6. FreertosArmed' = FreertosArmed
    BY DEF FreertosArmed, SameTasks
  <1> QED
    BY <1>1, <1>2, <1>3, <1>5, <1>6 DEF FreertosInv, PortStep

\* A slot the contract sees empty has no native task.
LEMMA NobodyHere ==
    ASSUME NEW t \in Slot, FreertosTask[t] = Nobody
    PROVE  ~rt.tid[t]
  <1>1. FreertosTask[t] = IF ~rt.tid[t] THEN Nobody
                          ELSE [state |-> IF Live(rt, t) THEN "live" ELSE "parked",
                                gen |-> rt.gen[t]]
    BY TaskOf
  <1>2. FreertosTask[t].state = "none"
    BY SMT DEF Nobody
  <1> QED
    BY <1>1, <1>2, SMTT(30)

\* prepare and teardown find no task and leave an open gate.
LEMMA BracketServes ==
    ASSUME FreertosInv, freertos_prepare \/ freertos_teardown
    PROVE  /\ FreertosInv'
           /\ PortStep(core, core', FreertosTask, FreertosTask', FreertosArmed, FreertosArmed')
  <1>1. core.call.op \in {"prepare", "teardown"} /\ core.call.stage = "in"
    BY DEF freertos_prepare, freertos_teardown, InCall
  <1>2. /\ CoreInv(core) /\ CoreTyped(core) /\ Follows(FreertosTask, core) /\ NoneFailed(core)
        /\ RtTyped(rt) /\ Gate(rt)
    BY DEF FreertosInv, CoreInv
  <1>3. ASSUME NEW rc \in BOOLEAN, core' = Answered(core, rc),
               RtTyped(rt'), rt'.tid = rt.tid, rt'.nat = rt.nat, rt'.selected = NoSlot,
               rt'.blocked \in {rt.blocked, [t \in Slot |-> FALSE]},
               core.call.op = "prepare" /\ rc => FreertosArmed',
               core.call.op = "teardown" => rc /\ ~FreertosArmed'
        PROVE  /\ FreertosInv'
               /\ PortStep(core, core', FreertosTask, FreertosTask', FreertosArmed, FreertosArmed')
    <2>1. Replied(core, core', rc)
      BY <1>2, <1>3, AnsweredReplies
    <2>2. CoreInv(core') /\ core'.call.op = core.call.op
      BY <1>1, <1>2, <2>1, ReplyKeeps
    <2>3. Follows(FreertosTask, core') /\ \A t \in Slot : FreertosTask[t] = Nobody
      BY <1>1, <1>2, <2>1, BracketFollows
    <2>4. \A t \in Slot : ~rt.tid[t]
      BY <2>3, NobodyHere
    <2>5. FreertosTask' = FreertosTask
      BY <1>3, <2>4, NoTaskMoves
    <2>6. Gate(rt')
      BY <1>2, <1>3, <2>4 DEF Gate, GateOf
    <2>7. TasksOwn(core', rt')
      BY <1>3, <2>4 DEF TasksOwn
    <2>8. NoneFailed(core')
      BY <1>1, <1>2, <2>1, <2>2 DEF NoneFailed, Replied
    <2>9. Replies(core, core', rc)
      BY <1>1, <2>1 DEF Replies, Replied
    <2>10. FreertosInv'
      BY <1>3, <2>2, <2>3, <2>5, <2>6, <2>7, <2>8 DEF FreertosInv
    <2>11. PortStep(core, core', FreertosTask, FreertosTask', FreertosArmed, FreertosArmed')
      <3>1. CASE core.call.op = "prepare" /\ rc
        BY <1>3, <2>5, <2>9, <3>1 DEF PortStep
      <3>2. CASE core.call.op = "prepare" /\ ~rc
        <4>1. rc = FALSE
          BY <3>2
        <4>2. Replies(core, core', FALSE)
          BY <2>9, <4>1
        <4> QED
          BY <2>5, <3>2, <4>2, PrepareFailsStep
      <3>3. CASE core.call.op = "teardown"
        BY <1>3, <2>5, <2>9, <3>3 DEF PortStep
      <3> QED
        BY <1>1, <3>1, <3>2, <3>3
    <2> QED
      BY <2>10, <2>11
  <1> DEFINE fresh == freertos_tick_budget_reset(freertos_sched_cancel_rotation(
                          [rt EXCEPT !.sem = FALSE, !.selected = NoSlot]))
             up == [fresh EXCEPT !.sched = TRUE, !.subscribed = TRUE,
                                 !.profile = [s \in Slot |-> FreertosNoProfile],
                                 !.blocked = [s \in Slot |-> FALSE]]
             down == freertos_tick_budget_reset(freertos_sched_cancel_rotation(
                        [rt EXCEPT !.subscribed = FALSE, !.sched = FALSE, !.selected = NoSlot]))
  <1>4. fresh = [rt EXCEPT !.sem = FALSE, !.selected = NoSlot, !.rotate = FreertosNoRotation,
                           !.budget = [owner |-> NoSlot, ticks |-> 0]]
    BY <1>2 DEF freertos_tick_budget_reset, freertos_sched_cancel_rotation, RtTyped, RtRecord
  <1>5. down = [rt EXCEPT !.subscribed = FALSE, !.sched = FALSE, !.selected = NoSlot,
                          !.rotate = FreertosNoRotation,
                          !.budget = [owner |-> NoSlot, ticks |-> 0]]
    BY <1>2 DEF freertos_tick_budget_reset, freertos_sched_cancel_rotation, RtTyped, RtRecord
  <1>6. \/ core.call.op = "prepare" /\ FAnswer(FALSE, rt)
        \/ core.call.op = "prepare" /\ FAnswer(FALSE, fresh)
        \/ core.call.op = "prepare" /\ FAnswer(TRUE, up)
        \/ core.call.op = "teardown" /\ FAnswer(TRUE, down)
    BY DEF freertos_prepare, freertos_teardown, InCall
  <1> HIDE DEF fresh, down
  <1>7. /\ RtRecord(fresh) /\ SameTasks(rt, fresh) /\ fresh.desc = rt.desc
        /\ fresh.nat = rt.nat /\ fresh.blocked = rt.blocked /\ fresh.selected = NoSlot
    BY <1>2, <1>4 DEF RtTyped, RtRecord, SameTasks
  <1>8. RtTyped(fresh)
    BY <1>2, <1>7 DEF RtTyped, SameTasks
  <1>9. CASE core.call.op = "prepare" /\ FAnswer(FALSE, rt)
    <2>1. \A t \in Slot : ~rt.tid[t]
      <3>1. Replied(core, core', FALSE)
        BY <1>2, <1>9, AnsweredReplies DEF FAnswer
      <3>2. \A t \in Slot : FreertosTask[t] = Nobody
        BY <1>1, <1>2, <3>1, BracketFollows
      <3> QED
        BY <3>2, NobodyHere
    <2>2. rt.selected = NoSlot
      BY <1>2, <2>1 DEF RtTyped, Gate, GateOf
    <2> QED
      BY <1>2, <1>3, <1>9, <2>2 DEF FAnswer
  <1>10. CASE core.call.op = "prepare" /\ FAnswer(FALSE, fresh)
    BY <1>3, <1>7, <1>8, <1>10 DEF FAnswer, SameTasks
  <1>11. CASE core.call.op = "prepare" /\ FAnswer(TRUE, up)
    <2>1. /\ RtRecord(up) /\ up.tid = rt.tid /\ up.gen = rt.gen /\ up.desc = rt.desc
          /\ up.nat = rt.nat /\ up.selected = NoSlot /\ up.sched = TRUE
          /\ up.profile = [s \in Slot |-> FreertosNoProfile]
          /\ up.blocked = [s \in Slot |-> FALSE]
      <3>1. up = [fresh EXCEPT !.sched = TRUE, !.subscribed = TRUE,
                               !.profile = [s \in Slot |-> FreertosNoProfile],
                               !.blocked = [s \in Slot |-> FALSE]]
        OBVIOUS
      <3> HIDE DEF up
      <3> QED
        BY <1>7, <3>1 DEF RtRecord, SameTasks
    <2> HIDE DEF up
    <2>2. RtTyped(up)
      BY <1>2, <2>1, SMT DEF RtTyped
    <2>3. rt' = up /\ core' = Answered(core, TRUE)
      BY <1>11 DEF FAnswer
    <2>4. FreertosArmed'
      BY <2>1, <2>3 DEF FreertosArmed
    <2> QED
      BY <1>3, <1>11, <2>1, <2>2, <2>3, <2>4
  <1>12. CASE core.call.op = "teardown" /\ FAnswer(TRUE, down)
    <2>1. /\ RtRecord(down) /\ down.tid = rt.tid /\ down.gen = rt.gen /\ down.desc = rt.desc
          /\ down.nat = rt.nat /\ down.selected = NoSlot /\ down.profile = rt.profile
          /\ down.blocked = rt.blocked /\ down.sched = FALSE /\ down.subscribed = FALSE
      BY <1>2, <1>5 DEF RtTyped, RtRecord
    <2>2. RtTyped(down)
      BY <1>2, <2>1 DEF RtTyped
    <2>3. rt' = down /\ core' = Answered(core, TRUE)
      BY <1>12 DEF FAnswer
    <2>4. ~FreertosArmed'
      BY <2>1, <2>3 DEF FreertosArmed
    <2> QED
      BY <1>3, <1>12, <2>1, <2>2, <2>3, <2>4
  <1> QED
    BY <1>6, <1>9, <1>10, <1>11, <1>12

\* The guests change their descriptors only.
LEMMA GuestServes ==
    ASSUME FreertosInv, FreertosGuestStep
    PROVE  /\ FreertosInv'
           /\ PortStep(core, core', FreertosTask, FreertosTask', FreertosArmed, FreertosArmed')
  <1>1. CoreInv(core) /\ CoreTyped(core) /\ RtTyped(rt) /\ Gate(rt)
    BY DEF FreertosInv, CoreInv
  <1>2. PICK s \in Slot, o \in {"fast", "park", "exit"} :
            freertos_svc_c(s, o) \/ freertos_memfault_c(s) \/ freertos_park_entry(s)
    BY DEF FreertosGuestStep
  <1>3. core.call.op = "none" /\ core.call.stage = "out"
    <2>1. core.call.op = "none"
      BY <1>2 DEF freertos_svc_c, freertos_memfault_c, freertos_park_entry, FreertosOnCpu
    <2> QED
      BY <1>1, <2>1 DEF CoreInv, CallSound
  <1>4. \/ core' = lxp_dispatch_slot(core, s, rt.gen[s], o)
        \/ core' = Faulted(core, s, rt.gen[s])
        \/ core' = [core EXCEPT !.pos[s] = "user"]
    BY <1>2 DEF freertos_svc_c, freertos_memfault_c, freertos_park_entry
  <1>5. rt' = rt \/ rt' = freertos_stash_desc(rt, s, "wait")
    BY <1>2 DEF freertos_svc_c, freertos_memfault_c, freertos_park_entry, freertos_park_prepare
  <1>6. Touched(core, core')
    BY <1>1, <1>4, GuestTouches
  <1>7. Keeps(core, core')
    BY <1>1, <1>3, <1>6, TouchKeeps
  <1>8. /\ RtTyped(rt') /\ SameTasks(rt, rt') /\ rt'.blocked = rt.blocked /\ rt'.nat = rt.nat
        /\ rt'.selected = rt.selected
    <2>1. CASE rt' = rt
      BY <1>1, <2>1 DEF SameTasks
    <2>2. CASE rt' = freertos_stash_desc(rt, s, "wait")
      BY <1>1, <2>2, Stashed
    <2> QED
      BY <1>5, <2>1, <2>2
  <1>9. Gate(rt') /\ \A t \in Slot : Live(rt', t) <=> Live(rt, t)
    BY <1>1, <1>8, SMTT(30) DEF Gate, GateOf, Live, SameTasks
  <1> QED
    BY <1>3, <1>7, <1>8, <1>9, QuietServes

\* The tick spends a budget and asks for a rotation; it moves nobody.
LEMMA TickServes ==
    ASSUME FreertosInv, FreertosTickGuest \/ FreertosTickHost
    PROVE  /\ FreertosInv'
           /\ PortStep(core, core', FreertosTask, FreertosTask', FreertosArmed, FreertosArmed')
  <1>1. RtTyped(rt) /\ Gate(rt) /\ CoreInv(core)
    BY DEF FreertosInv
  <1>2. core' = core /\ \E x : rt' = lxp_freertos_tick(x)
    BY DEF FreertosTickGuest, FreertosTickHost
  <1>3. \/ rt' = rt
        \/ \E b : rt' = [rt EXCEPT !.budget = b]
        \/ \E b, r : rt' = [rt EXCEPT !.budget = b, !.rotate = r, !.sem = TRUE]
    <2>1. PICK x : rt' = lxp_freertos_tick(x)
      BY <1>2
    <2> DEFINE cur == freertos_current_slot(x)
               r == [owner |-> cur, gen |-> rt.gen[cur], pending |-> TRUE]
               spent == IF rt.budget.owner = cur THEN rt.budget.ticks + 1 ELSE 1
    <2>2. \/ rt' = rt
          \/ rt' = [rt EXCEPT !.budget = [owner |-> NoSlot, ticks |-> 0]]
          \/ rt' = [rt EXCEPT !.budget = [owner |-> cur, ticks |-> spent]]
          \/ rt' = [rt EXCEPT !.budget = [owner |-> cur, ticks |-> 0]]
          \/ LET p == [rt EXCEPT !.budget = [owner |-> cur, ticks |-> 0]] IN
             rt' = [p EXCEPT !.rotate = [owner |-> cur, gen |-> p.gen[cur], pending |-> TRUE],
                             !.sem = TRUE]
      BY <2>1 DEF lxp_freertos_tick, freertos_tick_budget_reset
    <2> HIDE DEF cur, spent
    <2>3. ASSUME LET p == [rt EXCEPT !.budget = [owner |-> cur, ticks |-> 0]] IN
                 rt' = [p EXCEPT !.rotate = [owner |-> cur, gen |-> p.gen[cur], pending |-> TRUE],
                                 !.sem = TRUE]
          PROVE  rt' = [rt EXCEPT !.budget = [owner |-> cur, ticks |-> 0], !.rotate = r,
                                  !.sem = TRUE]
      BY <1>1, <2>3 DEF RtTyped, RtRecord
    <2> HIDE DEF r
    <2> QED
      BY <2>2, <2>3
  <1>4. /\ RtRecord(rt') /\ SameTasks(rt, rt') /\ rt'.desc = rt.desc
        /\ rt'.blocked = rt.blocked /\ rt'.nat = rt.nat /\ rt'.selected = rt.selected
    <2>1. CASE rt' = rt
      BY <1>1, <2>1 DEF RtTyped, RtRecord, SameTasks
    <2>2. CASE \E b : rt' = [rt EXCEPT !.budget = b]
      BY <1>1, <2>2 DEF RtTyped, RtRecord, SameTasks
    <2>3. CASE \E b, r : rt' = [rt EXCEPT !.budget = b, !.rotate = r, !.sem = TRUE]
      BY <1>1, <2>3 DEF RtTyped, RtRecord, SameTasks
    <2> QED
      BY <1>3, <2>1, <2>2, <2>3
  <1>5. RtTyped(rt')
    BY <1>1, <1>4 DEF RtTyped, SameTasks
  <1>6. Gate(rt') /\ \A t \in Slot : Live(rt', t) <=> Live(rt, t)
    BY <1>1, <1>4, SMT DEF Gate, GateOf, Live, SameTasks
  <1> QED
    BY <1>1, <1>2, <1>4, <1>5, <1>6, StillKeeps, QuietServes

\* The scheduler task suspends the selected task and lets the next one run.
LEMMA RotationServes ==
    ASSUME FreertosInv, freertos_sched_task_entry
    PROVE  /\ FreertosInv'
           /\ PortStep(core, core', FreertosTask, FreertosTask', FreertosArmed, FreertosArmed')
  <1> DEFINE p == freertos_sched_cancel_rotation([rt EXCEPT !.sem = FALSE])
             cur == rt.selected
             next == freertos_sched_find_next(p, cur, NoSlot)
             q == vTaskSuspend([p EXCEPT !.blocked[cur] = TRUE], cur)
  <1>1. RtTyped(rt) /\ Gate(rt) /\ CoreInv(core)
    BY DEF FreertosInv
  <1>2. p = [rt EXCEPT !.sem = FALSE, !.rotate = FreertosNoRotation]
    BY <1>1 DEF freertos_sched_cancel_rotation, RtTyped, RtRecord
  <1>3. core' = core
    BY DEF freertos_sched_task_entry
  <1>4. rt' = p \/ (/\ freertos_sched_slot_runnable(p, cur) /\ next # NoSlot
                    /\ rt' = freertos_sched_activate(q, next))
    BY DEF freertos_sched_task_entry
  <1> HIDE DEF p
  <1>5. /\ RtRecord(p) /\ SameTasks(rt, p) /\ p.desc = rt.desc
        /\ p.blocked = rt.blocked /\ p.nat = rt.nat /\ p.selected = rt.selected
    BY <1>1, <1>2 DEF RtTyped, RtRecord, SameTasks
  <1>6. RtTyped(p)
    BY <1>1, <1>5 DEF RtTyped, SameTasks
  <1>7. Gate(p) /\ \A t \in Slot : Live(p, t) <=> Live(rt, t)
    BY <1>1, <1>5, SMT DEF Gate, GateOf, Live, SameTasks
  <1>8. CASE rt' = p
    BY <1>1, <1>3, <1>5, <1>6, <1>7, <1>8, StillKeeps, QuietServes
  <1>9. CASE /\ freertos_sched_slot_runnable(p, cur) /\ next # NoSlot
             /\ rt' = freertos_sched_activate(q, next)
    <2>1. cur \in Slot /\ cur # NoSlot /\ rt.nat[cur] = "ready"
      BY <1>1, <1>9 DEF freertos_sched_slot_runnable, RtTyped, Gate
    <2>2. next \in Slot /\ freertos_sched_slot_runnable(p, next) /\ p.blocked[next]
      BY <1>9, <2>1, FindNext
    <2>3. q = [p EXCEPT !.blocked[cur] = TRUE, !.nat[cur] = "suspended"]
      BY <1>6 DEF vTaskSuspend, RtTyped, RtRecord
    <2> HIDE DEF q, next, cur
    <2>4. /\ RtRecord(q) /\ SameTasks(p, q) /\ q.desc = p.desc /\ q.selected = p.selected
          /\ q.blocked = [p.blocked EXCEPT ![cur] = TRUE]
          /\ q.nat = [p.nat EXCEPT ![cur] = "suspended"]
      BY <1>6, <2>3 DEF RtTyped, RtRecord, SameTasks
    <2>5. RtTyped(q)
      BY <1>6, <2>1, <2>4, SMTT(30) DEF RtTyped, SameTasks
    <2>6. q.tid[next] /\ q.blocked[next]
      BY <1>6, <2>1, <2>2, <2>4 DEF freertos_sched_slot_runnable, SameTasks, RtTyped
    <2>7. \A t \in Slot : p.nat[t] = "ready" => t = cur
      BY <1>5, <1>7 DEF Gate, GateOf, cur
    <2>8. /\ \A t \in Slot : q.tid[t] <=> q.nat[t] # "none"
          /\ \A t \in Slot : q.nat[t] # "ready"
          /\ \A t \in Slot : q.blocked[t] => q.nat[t] = "suspended"
      <3>1. p.nat[cur] = "ready" /\ p.tid[cur]
        BY <1>5, <1>7, <2>1 DEF Gate, GateOf
      <3> QED
        BY <1>6, <1>7, <2>1, <2>4, <2>7, <3>1, SMTT(30) DEF Gate, GateOf, RtTyped, SameTasks
    <2>9. \A t \in Slot : Live(q, t) <=> Live(p, t)
      BY <1>5, <1>6, <2>1, <2>4 DEF Live, RtTyped
    <2>10. /\ RtTyped(rt') /\ Gate(rt') /\ SameTasks(q, rt')
           /\ \A t \in Slot : Live(rt', t) <=> Live(q, t)
      BY <1>9, <2>2, <2>5, <2>6, <2>8, Activate
    <2>11. SameTasks(rt, rt') /\ \A t \in Slot : Live(rt', t) <=> Live(rt, t)
      BY <1>5, <1>7, <2>4, <2>9, <2>10 DEF SameTasks
    <2> QED
      BY <1>1, <1>3, <2>10, <2>11, StillKeeps, QuietServes
  <1> QED
    BY <1>4, <1>8, <1>9

\* Every step of a run on the FreeRTOS port.
LEMMA FreertosStep ==
    ASSUME FreertosInv, FreertosNext
    PROVE  /\ FreertosInv'
           /\ PortStep(core, core', FreertosTask, FreertosTask', FreertosArmed, FreertosArmed')
  <1>1. CoreInv(core) /\ RtTyped(rt) /\ Gate(rt)
    BY DEF FreertosInv
  <1>2. CASE CoordinatorStep /\ UNCHANGED rt
    <2>1. Keeps(core, core') /\ core.call.stage = "out"
      BY <1>1, <1>2, CoordinatorKeeps
    <2> QED
      BY <1>1, <1>2, <2>1, QuietServes DEF SameTasks
  <1>3. CASE FreertosCallback
    BY <1>3, CallbackServes, BracketServes DEF FreertosCallback
  <1> QED
    BY <1>2, <1>3, GuestServes, TickServes, RotationServes DEF FreertosNext

\* What the invariant is for: one ready guest behind a gate that is never left
\* open, and the guest's own profile.
LEMMA FreertosInvImplies ==
    ASSUME FreertosInv
    PROVE  OneGuestRuns /\ FreertosViews
  <1>1. \A s, t \in Slot : rt.nat[s] = "ready" /\ rt.nat[t] = "ready" => s = t
    BY DEF FreertosInv, Gate, GateOf
  <1>2. ASSUME NEW s \in Slot, FreertosTask[s].state = "live"
        PROVE  rt.selected # NoSlot /\ rt.nat[rt.selected] = "ready"
    <2>1. FreertosTask[s] = IF ~rt.tid[s] THEN Nobody
                            ELSE [state |-> IF Live(rt, s) THEN "live" ELSE "parked",
                                  gen |-> rt.gen[s]]
      BY TaskOf
    <2>2. Live(rt, s)
      BY <1>2, <2>1, SMTT(30) DEF Nobody
    <2> QED
      BY <2>2, SMT DEF FreertosInv, Gate, GateOf, Live, Slot, NoSlot
  <1>3. FreertosViews
    BY DEF FreertosViews, FreertosInv, TasksOwn, Gate, GateOf
  <1> QED
    BY <1>1, <1>2, <1>3 DEF OneGuestRuns

\* A run starts with no task.
LEMMA FreertosInvInit ==
    ASSUME NEW bound \in Bounds, CoreInit(bound), FreertosInit
    PROVE  /\ FreertosInv /\ FreertosTask = [s \in Slot |-> Nobody] /\ ~FreertosArmed
  <1>1. CoreInv(core) /\ NoneFailed(core)
    BY CoreInvInit DEF NoneFailed, CoreInit, Idle
  <1>2. RtTyped(rt) /\ Gate(rt) /\ TasksOwn(core, rt)
    BY DEF FreertosInit, RtTyped, RtRecord, Gate, GateOf, TasksOwn
  <1>3. FreertosTask = [s \in Slot |-> Nobody]
    BY DEF FreertosTask, Nobody, FreertosInit
  <1>4. \A s \in Slot : Expected(core, s) = {"none"}
    BY SMT DEF Expected, CoreInit, Idle, Slot, NoSlot
  <1>5. Follows(FreertosTask, core)
    BY <1>3, <1>4 DEF Follows, Nobody
  <1>6. ~FreertosArmed
    BY DEF FreertosArmed, FreertosInit
  <1> QED
    BY <1>1, <1>2, <1>3, <1>5, <1>6 DEF FreertosInv

-----------------------------------------------------------------------------
(* Zephyr.                                                                 *)

\* The shape and the types of the port's state.
ZpRecord(p) ==
    p = [tid |-> p.tid, gen |-> p.gen, policy |-> p.policy, nat |-> p.nat, queue |-> p.queue,
         domain |-> p.domain, budget |-> p.budget, target |-> p.target, sem |-> p.sem,
         stop |-> p.stop, timer |-> p.timer, worker |-> p.worker]

DomainRecord(d) == d = [valid |-> d.valid, key |-> d.key, parts |-> d.parts]

TargetTyped(t) == t = [slot |-> t.slot, gen |-> t.gen] /\ t.slot \in Slot \cup {NoSlot}

ZpTyped(p) ==
    /\ ZpRecord(p)
    /\ p.tid \in [Slot -> BOOLEAN] /\ p.gen \in [Slot -> Nat]
    /\ p.nat \in [Slot -> {"none", "ready", "suspended", "dead"}]
    /\ p.policy = [s \in Slot |-> p.policy[s]]
    /\ p.domain = [r \in Region |-> p.domain[r]]
    /\ \A r \in Region : DomainRecord(p.domain[r])
    /\ TargetTyped(p.target)

\* A thread exists exactly while the slot names one.
Natives(p) == \A s \in Slot : p.tid[s] <=> p.nat[s] # "none"

\* A thread Zephyr ended belongs to a slot that waits to be reaped.
DeadWaits(c, p) ==
    \A s \in Slot : p.nat[s] = "dead" => c.want[s] = "exit" /\ c.host[s] = "running"

\* The policy of one thread, and the domain it is bound to, are those of the
\* slot's current address space.
BoundTo(c, p, s) ==
    LET space == AddressSpace(c, s) IN
    /\ p.policy[s].valid /\ p.policy[s].key = PolicyKey(Policy(c, s, c.gen[s]))
    /\ p.domain[space.ridx].key.space = space
    /\ p.domain[space.ridx].parts = Partitions(space.text)

TasksBound(c, p) == \A s \in Slot : p.tid[s] => BoundTo(c, p, s)

\* No domain is valid for a lease of its region that is still to come: in
\* particular not for the one a launch has just taken.
DomainsOld(c, p) ==
    \A r \in Region : p.domain[r].valid =>
        LET g == p.domain[r].key.space.rgen IN
        /\ g \in Nat /\ g <= c.leases[r]
        /\ InLaunch(c, r) => g < c.leases[r]

ZephyrInv ==
    /\ CoreInv(core) /\ NoneFailed(core)
    /\ Follows(ZephyrTask, core)
    /\ ZpTyped(zp) /\ Natives(zp) /\ DeadWaits(core, zp)
    /\ TasksBound(core, zp) /\ DomainsOld(core, zp)

-----------------------------------------------------------------------------

\* The task the contract sees for one slot.
LEMMA ZephyrTaskOf ==
    ASSUME NEW s \in Slot
    PROVE  /\ ~zp.tid[s] => ZephyrTask[s] = Nobody
           /\ zp.tid[s] => /\ ZephyrTask[s].gen = zp.gen[s]
                           /\ ZephyrTask[s].state =
                                  IF zp.nat[s] = "suspended" THEN "parked" ELSE "live"
  BY DEF ZephyrTask, Nobody

\* What the contract sees of one slot in the next state.
LEMMA ZephyrTaskOfNext ==
    ASSUME NEW s \in Slot
    PROVE  /\ ~zp'.tid[s] => ZephyrTask'[s] = Nobody
           /\ zp'.tid[s] => ZephyrTask'[s] =
                  [state |-> IF zp'.nat[s] = "suspended" THEN "parked" ELSE "live",
                   gen |-> zp'.gen[s]]
  BY DEF ZephyrTask, Nobody

\* A slot that has a thread is alive, and the thread is of its incarnation.
LEMMA ThreadAlive ==
    ASSUME ZephyrInv, NEW s \in Slot, zp.tid[s]
    PROVE  /\ core.alive[s] /\ zp.gen[s] = core.gen[s]
           /\ zp.nat[s] # "suspended" => "live" \in Expected(core, s)
           /\ zp.nat[s] = "suspended" => "parked" \in Expected(core, s)
           /\ zp.nat[s] = "dead" => Condemned(core, s)
  <1>1. /\ ZephyrTask[s].gen = zp.gen[s]
        /\ ZephyrTask[s].state = IF zp.nat[s] = "suspended" THEN "parked" ELSE "live"
    BY ZephyrTaskOf
  <1>2. /\ ZephyrTask[s].state \in Expected(core, s)
        /\ \/ ZephyrTask[s] = Nobody
           \/ \E x \in {"live", "parked"} : ZephyrTask[s] = [state |-> x, gen |-> core.gen[s]]
    BY DEF ZephyrInv, Follows
  <1>3. zp.gen[s] = core.gen[s]
    BY <1>1, <1>2, SMT DEF Nobody
  <1>4. core.alive[s]
    BY <1>1, TaskAlive DEF ZephyrInv
  <1>5. zp.nat[s] = "dead" => Condemned(core, s)
    BY <1>1, <1>2 DEF ZephyrInv, DeadWaits, Condemned
  <1> QED
    BY <1>1, <1>2, <1>3, <1>4, <1>5

\* A slot whose incarnation and address space stay stays bound.
LEMMA StaysBound ==
    ASSUME NEW c, NEW d, NEW p, NEW q, NEW s, BoundTo(c, p, s),
           MmOf(d, s) = MmOf(c, s), d.gen[s] = c.gen[s],
           q.policy[s] = p.policy[s],
           q.domain[MmOf(c, s).ridx] = p.domain[MmOf(c, s).ridx]
    PROVE  BoundTo(d, q, s)
  <1>1. AddressSpace(d, s) = AddressSpace(c, s)
    BY DEF AddressSpace
  <1>2. PolicyKey(Policy(d, s, d.gen[s])) = PolicyKey(Policy(c, s, c.gen[s]))
    BY SamePolicy, SMT
  <1>3. AddressSpace(c, s).ridx = MmOf(c, s).ridx
    BY DEF AddressSpace
  <1> QED
    BY <1>1, <1>2, <1>3 DEF BoundTo

\* A step that leaves every thread and every domain as it was, whatever the
\* coordinator or the scheduler does meanwhile.
LEMMA ZephyrQuiet ==
    ASSUME ZephyrInv, Keeps(core, core'), ZpTyped(zp'),
           zp'.tid = zp.tid, zp'.gen = zp.gen, zp'.policy = zp.policy, zp'.domain = zp.domain,
           \A s \in Slot :
               /\ zp'.nat[s] = "none" <=> zp.nat[s] = "none"
               /\ zp'.nat[s] = "suspended" <=> zp.nat[s] = "suspended"
               /\ zp'.nat[s] = "dead" => \/ zp.nat[s] = "dead"
                                         \/ core'.want[s] = "exit" /\ core'.host[s] = "running"
    PROVE  ZephyrInv' /\ ZephyrTask' = ZephyrTask
  <1>1. ZephyrTask' = ZephyrTask
    BY DEF ZephyrTask
  <1>2. CoreInv(core') /\ NoneFailed(core') /\ Follows(ZephyrTask, core')
    BY KeepsFollows DEF Keeps, ZephyrInv
  <1>3. Natives(zp')
    BY DEF ZephyrInv, Natives
  <1>4. DeadWaits(core', zp')
    <2> SUFFICES ASSUME NEW s \in Slot, zp'.nat[s] = "dead"
                 PROVE  core'.want[s] = "exit" /\ core'.host[s] = "running"
      BY DEF DeadWaits
    <2>1. CASE zp.nat[s] = "dead"
      <3>1. zp.tid[s]
        BY <2>1 DEF ZephyrInv, Natives
      <3>2. Condemned(core, s)
        BY <2>1, <3>1, ThreadAlive
      <3>3. Condemned(core', s)
        BY <3>2 DEF Keeps, ZephyrInv
      <3> QED
        BY <3>3 DEF Condemned
    <2> QED
      BY <2>1
  <1>5. TasksBound(core', zp')
    <2> SUFFICES ASSUME NEW s \in Slot, zp.tid[s] PROVE BoundTo(core', zp', s)
      BY DEF TasksBound
    <2>1. BoundTo(core, zp, s)
      BY DEF ZephyrInv, TasksBound
    <2>2. ZephyrTask[s].state # "none"
      BY ZephyrTaskOf
    <2>3. core'.alive[s]
      BY <1>2, <2>2, TaskAlive, SMT
    <2>4. Expected(core, s) # {"none"}
      BY <2>2 DEF ZephyrInv, Follows
    <2>5. core'.gen[s] = core.gen[s]
      BY <2>4 DEF Keeps
    <2>6. MmOf(core', s) = MmOf(core, s)
      BY <2>3, <2>5 DEF Keeps, Kept
    <2> QED
      BY <2>1, <2>5, <2>6, StaysBound
  <1>6. DomainsOld(core', zp')
    <2> SUFFICES ASSUME NEW r \in Region, zp.domain[r].valid
                 PROVE  LET g == zp.domain[r].key.space.rgen IN
                        /\ g \in Nat /\ g <= core'.leases[r]
                        /\ InLaunch(core', r) => g < core'.leases[r]
      BY DEF DomainsOld
    <2> DEFINE g == zp.domain[r].key.space.rgen
    <2>1. /\ g \in Nat /\ g <= core.leases[r]
          /\ InLaunch(core, r) => g < core.leases[r]
      BY DEF ZephyrInv, DomainsOld
    <2>2. /\ core.leases[r] \in Nat /\ core'.leases[r] \in Nat /\ core.leases[r] <= core'.leases[r]
          /\ InLaunch(core', r) => InLaunch(core, r) \/ core.leases[r] < core'.leases[r]
      BY <1>2 DEF ZephyrInv, CoreInv, CoreTyped, Keeps, Kept
    <2> HIDE DEF g
    <2>3. /\ g \in Nat /\ g <= core'.leases[r]
          /\ InLaunch(core', r) => g < core'.leases[r]
      BY <2>1, <2>2, SMT
    <2> QED
      BY <2>3 DEF g
  <1> QED
    BY <1>1, <1>2, <1>3, <1>4, <1>5, <1>6 DEF ZephyrInv

\* What a callback for slot s leaves alone.
Beside(p, q, s) ==
    /\ \A t \in Slot \ {s} : /\ q.tid[t] = p.tid[t] /\ q.gen[t] = p.gen[t]
                             /\ q.nat[t] = p.nat[t] /\ q.policy[t] = p.policy[t]
    /\ q.timer = p.timer /\ q.worker = p.worker

\* A callback for a slot that makes of its thread what it answers, and keeps
\* every other slot bound.
LEMMA ZephyrServes ==
    ASSUME ZephyrInv, core.call.op \in SlotOps, core.call.stage = "in",
           NEW rc \in BOOLEAN, Replied(core, core', rc), core.call.op = "abort" => rc,
           NEW s, s = core.call.slot,
           ZpTyped(zp'), Beside(zp, zp', s),
           zp'.tid[s] <=> zp'.nat[s] # "none",
           zp'.nat[s] = "dead" => zp.nat[s] = "dead",
           ZephyrTask'[s] = IF rc THEN Served(core.call) ELSE ZephyrTask[s],
           \A t \in Slot : zp'.tid[t] => BoundTo(core, zp', t),
           \A r \in Region : zp'.domain[r].valid =>
               /\ zp'.domain[r].key.space.rgen \in Nat
               /\ zp'.domain[r].key.space.rgen <= core.leases[r]
    PROVE  ZephyrInv' /\ PortStep(core, core', ZephyrTask, ZephyrTask', ZephyrArmed, ZephyrArmed')
  <1> DEFINE U == IF rc THEN [ZephyrTask EXCEPT ![s] = Served(core.call)] ELSE ZephyrTask
  <1>1. s \in Slot /\ CoreInv(core) /\ Follows(ZephyrTask, core)
    BY DEF ZephyrInv, CoreInv, CallSound, CoreTyped, Calls
  <1>2. ASSUME NEW t \in Slot \ {s} PROVE ZephyrTask'[t] = ZephyrTask[t]
    BY DEF ZephyrTask, Beside
  <1>3. ZephyrTask = [t \in Slot |-> ZephyrTask[t]] /\ ZephyrTask' = [t \in Slot |-> ZephyrTask'[t]]
    BY DEF ZephyrTask
  <1>4. ZephyrTask' = U
    <2> HIDE DEF ZephyrTask
    <2> QED
      BY <1>1, <1>2, <1>3
  <1>5. ZephyrArmed' = ZephyrArmed
    BY SMT DEF ZephyrArmed, Beside
  <1>6. /\ CoreInv(core') /\ Follows(U, core')
        /\ PortStep(core, core', ZephyrTask, U, ZephyrArmed, ZephyrArmed)
        /\ core'.call.op = core.call.op /\ core'.call.stage = "out"
        /\ core'.gen = core.gen /\ core'.alive = core.alive /\ core'.host = core.host
        /\ core'.runnable = core.runnable /\ core'.want = core.want
        /\ core'.leases = core.leases /\ core'.map = core.map
        /\ \A t \in Slot : MmOf(core', t) = MmOf(core, t)
        /\ NoneFailed(core) /\ (core.call.op = "abort" => rc) => NoneFailed(core')
    BY <1>1, SlotReply
  <1>7. Natives(zp') /\ DeadWaits(core', zp')
    BY <1>6, SMTT(30) DEF Natives, DeadWaits, Beside, ZephyrInv
  <1>8. TasksBound(core', zp')
    BY <1>6, StaysBound DEF TasksBound
  <1>9. DomainsOld(core', zp')
    BY <1>6 DEF DomainsOld, InLaunch
  <1>10. NoneFailed(core')
    BY <1>6 DEF ZephyrInv
  <1> HIDE DEF U
  <1> QED
    BY <1>4, <1>5, <1>6, <1>7, <1>8, <1>9, <1>10 DEF ZephyrInv

\* Only the scheduler's state of slot s changes.
Scheduled(p, q, s, x) ==
    /\ ZpTyped(q) /\ q.tid = p.tid /\ q.gen = p.gen /\ q.policy = p.policy
    /\ q.domain = p.domain /\ q.timer = p.timer /\ q.worker = p.worker
    /\ q.nat[s] = x /\ \A t \in Slot \ {s} : q.nat[t] = p.nat[t]

\* The scheduler's operations, by field.
LEMMA ScheduledFields ==
    ASSUME NEW p, ZpTyped(p), NEW s \in Slot, NEW q, NEW n,
           NEW x \in {"none", "ready", "suspended", "dead"},
           q = [p EXCEPT !.nat[s] = x, !.queue = n]
    PROVE  Scheduled(p, q, s, x)
  <1>1. /\ ZpRecord(q) /\ q.tid = p.tid /\ q.gen = p.gen /\ q.policy = p.policy
        /\ q.domain = p.domain /\ q.timer = p.timer /\ q.worker = p.worker
        /\ q.nat = [p.nat EXCEPT ![s] = x] /\ q.target = p.target
    BY DEF ZpTyped, ZpRecord
  <1>2. q.nat \in [Slot -> {"none", "ready", "suspended", "dead"}]
    BY <1>1, SMT DEF ZpTyped
  <1>3. ZpTyped(q)
    BY <1>1, <1>2 DEF ZpTyped
  <1>4. /\ q.tid = p.tid /\ q.gen = p.gen /\ q.policy = p.policy
        /\ q.domain = p.domain /\ q.timer = p.timer /\ q.worker = p.worker
        /\ q.nat[s] = x /\ \A t \in Slot \ {s} : q.nat[t] = p.nat[t]
    BY <1>1, SMT DEF ZpTyped
  <1> QED
    BY ONLY <1>3, <1>4 DEF Scheduled

\* k_thread_resume makes one thread ready and touches no other.
LEMMA ResumeFields ==
    ASSUME NEW p, ZpTyped(p), NEW s \in Slot, NEW q, q = k_thread_resume(p, s), p.nat[s] # "dead"
    PROVE  Scheduled(p, q, s, "ready")
  <1>1. CASE p.nat[s] = "ready"
    <2>1. q = p
      BY <1>1 DEF k_thread_resume
    <2> QED
      BY <1>1, <2>1 DEF Scheduled, ZpTyped
  <1>2. CASE p.nat[s] # "ready"
    <2>1. q = [p EXCEPT !.nat[s] = "ready", !.queue = Append(p.queue, s)]
      BY <1>2 DEF k_thread_resume
    <2> QED
      BY <2>1, ScheduledFields
  <1> QED
    BY <1>1, <1>2

\* k_thread_suspend stops one thread and touches no other.
LEMMA SuspendFields ==
    ASSUME NEW p, ZpTyped(p), NEW s \in Slot, NEW q, q = k_thread_suspend(p, s), p.nat[s] # "dead"
    PROVE  Scheduled(p, q, s, "suspended")
  <1>1. q = [p EXCEPT !.nat[s] = "suspended", !.queue = Without(p.queue, s)]
    BY DEF k_thread_suspend
  <1> QED
    BY <1>1, ScheduledFields

\* k_thread_abort ends one thread and touches no other.
LEMMA AbortFields ==
    ASSUME NEW p, ZpTyped(p), NEW s \in Slot, NEW q, NEW x \in {"none", "dead"},
           q = k_thread_abort(p, s, x)
    PROVE  Scheduled(p, q, s, x)
  <1>1. q = [p EXCEPT !.nat[s] = x, !.queue = Without(p.queue, s)]
    BY DEF k_thread_abort
  <1>2. CASE x = "none"
    <2>1. q = [p EXCEPT !.nat[s] = "none", !.queue = Without(p.queue, s)]
      BY <1>1, <1>2
    <2>2. Scheduled(p, q, s, "none")
      BY <2>1, ScheduledFields
    <2> QED
      BY <1>2, <2>2
  <1>3. CASE x = "dead"
    <2>1. q = [p EXCEPT !.nat[s] = "dead", !.queue = Without(p.queue, s)]
      BY <1>1, <1>3
    <2>2. Scheduled(p, q, s, "dead")
      BY <2>1, ScheduledFields
    <2> QED
      BY <1>3, <2>2
  <1> QED
    BY <1>2, <1>3

\* Recording the policy of a slot, by field.
LEMMA BoundFields ==
    ASSUME NEW p, ZpTyped(p), NEW s \in Slot, NEW g, NEW q, q = Bound(p, s, g)
    PROVE  /\ ZpTyped(q) /\ q.tid = p.tid /\ q.gen = p.gen /\ q.nat = p.nat
           /\ q.domain = p.domain /\ q.timer = p.timer /\ q.worker = p.worker
           /\ q.policy = [p.policy EXCEPT ![s] = [valid |-> TRUE,
                                                  key |-> PolicyKey(Policy(core, s, g))]]
  <1>1. q = [p EXCEPT !.policy[s] = [valid |-> TRUE, key |-> PolicyKey(Policy(core, s, g))]]
    BY DEF Bound
  <1> DEFINE v == [valid |-> TRUE, key |-> PolicyKey(Policy(core, s, g))]
  <1> HIDE DEF v
  <1>2. /\ ZpRecord(q) /\ q.tid = p.tid /\ q.gen = p.gen /\ q.nat = p.nat
        /\ q.domain = p.domain /\ q.timer = p.timer /\ q.worker = p.worker
        /\ q.policy = [p.policy EXCEPT ![s] = v] /\ q.target = p.target
    BY <1>1 DEF ZpTyped, ZpRecord, v
  <1>3. q.policy = [t \in Slot |-> q.policy[t]]
    BY <1>2 DEF ZpTyped
  <1> QED
    BY <1>2, <1>3 DEF ZpTyped, v

\* A start whose memory could not be bound is refused.
LEMMA RefusedStart ==
    ASSUME NEW s, NEW g, NEW p, NEW b, b = [ok |-> FALSE, p |-> p], NEW joined,
           ZephyrStart(s, g, b, joined)
    PROVE  ZAnswer(FALSE, p)
  <1>1. ~b.ok /\ b.p = p
    OBVIOUS
  <1> QED
    BY <1>1 DEF ZephyrStart

\* A callback that is refused and leaves the port alone.
LEMMA ZephyrRefuses ==
    ASSUME ZephyrInv, core.call.op \in SlotOps \ {"abort"}, core.call.stage = "in",
           ZAnswer(FALSE, zp)
    PROVE  ZephyrInv' /\ PortStep(core, core', ZephyrTask, ZephyrTask', ZephyrArmed, ZephyrArmed')
  <1>1. zp' = zp /\ Replied(core, core', FALSE)
    BY AnsweredReplies DEF ZAnswer, ZephyrInv, CoreInv
  <1>2. ZephyrTask' = ZephyrTask /\ Beside(zp, zp', core.call.slot)
    BY <1>1 DEF ZephyrTask, Beside
  <1>3. core.call.slot \in Slot
    BY DEF ZephyrInv, CoreInv, CallSound, CoreTyped, Calls, SlotOps
  <1>4. /\ ZpTyped(zp')
        /\ \A t \in Slot : (zp'.tid[t] <=> zp'.nat[t] # "none")
                           /\ (zp'.tid[t] => BoundTo(core, zp', t))
        /\ \A r \in Region : zp'.domain[r].valid =>
               /\ zp'.domain[r].key.space.rgen \in Nat
               /\ zp'.domain[r].key.space.rgen <= core.leases[r]
    BY <1>1 DEF ZephyrInv, Natives, TasksBound, DomainsOld
  <1> QED
    BY <1>1, <1>2, <1>3, <1>4, ZephyrServes

\* A thread that is created: its slot gets the thread once its domain took it.
\* The domain that was built, or found, is the one of the slot.
LEMMA StartServes ==
    ASSUME ZephyrInv, core.call.op \in Creates, core.call.stage = "in",
           NEW s, s = core.call.slot, NEW p, ~zp.tid[s],
           ZpTyped(p), Beside(zp, p, s), ~p.tid[s], p.nat[s] = "none",
           \A t \in Slot \ {s} : zp.tid[t] => BoundTo(core, p, t),
           \A r \in Region : p.domain[r].valid =>
               /\ p.domain[r].key.space.rgen \in Nat
               /\ p.domain[r].key.space.rgen <= core.leases[r],
           NEW ok \in BOOLEAN, NEW joined \in BOOLEAN,
           ok => BoundTo(core, p, s),
           ZephyrStart(s, core.call.gen, [ok |-> ok, p |-> p], joined)
    PROVE  ZephyrInv' /\ PortStep(core, core', ZephyrTask, ZephyrTask', ZephyrArmed, ZephyrArmed')
  <1> DEFINE up == [p EXCEPT !.tid[s] = TRUE, !.gen[s] = core.call.gen]
  <1>1. s \in Slot /\ core.call.gen \in Nat /\ CoreTyped(core)
    BY DEF ZephyrInv, CoreInv, CallSound, CoreTyped, Calls, SlotOps, Creates
  <1>2. \/ ZAnswer(FALSE, p)
        \/ ok /\ ZAnswer(TRUE, k_thread_resume(up, s))
    BY DEF ZephyrStart
  <1>3. ZephyrTask[s] = Nobody
    BY <1>1, ZephyrTaskOf
  <1>4. CASE ZAnswer(FALSE, p)
    <2>1. zp' = p /\ Replied(core, core', FALSE)
      BY <1>1, <1>4, AnsweredReplies DEF ZAnswer
    <2>2. ZephyrTask'[s] = ZephyrTask[s]
      BY <1>1, <1>3, <2>1, ZephyrTaskOfNext
    <2>3. \A t \in Slot : zp'.tid[t] => BoundTo(core, zp', t)
      BY <2>1 DEF Beside
    <2> QED
      BY <1>1, <2>1, <2>2, <2>3, ZephyrServes DEF Creates, SlotOps
  <1>5. CASE ok /\ ZAnswer(TRUE, k_thread_resume(up, s))
    <2>1. zp' = k_thread_resume(up, s) /\ Replied(core, core', TRUE)
      BY <1>1, <1>5, AnsweredReplies DEF ZAnswer
    <2>2. up = [p EXCEPT !.tid[s] = TRUE, !.gen[s] = core.call.gen]
      OBVIOUS
    <2> HIDE DEF up
    <2>3. /\ ZpRecord(up) /\ up.tid = [p.tid EXCEPT ![s] = TRUE]
          /\ up.gen = [p.gen EXCEPT ![s] = core.call.gen] /\ up.nat = p.nat
          /\ up.policy = p.policy /\ up.domain = p.domain /\ up.timer = p.timer
          /\ up.worker = p.worker /\ up.target = p.target
      BY <1>1, <2>2 DEF ZpTyped, ZpRecord
    <2>4. ZpTyped(up)
      BY <1>1, <2>3, SMT DEF ZpTyped
    <2>5. Scheduled(up, zp', s, "ready")
      BY <1>1, <2>1, <2>3, <2>4, ResumeFields
    <2>6. /\ ZpTyped(zp') /\ zp'.tid = [p.tid EXCEPT ![s] = TRUE]
          /\ zp'.gen = [p.gen EXCEPT ![s] = core.call.gen]
          /\ zp'.nat[s] = "ready" /\ \A t \in Slot \ {s} : zp'.nat[t] = p.nat[t]
          /\ zp'.policy = p.policy /\ zp'.domain = p.domain
          /\ zp'.timer = p.timer /\ zp'.worker = p.worker
      BY <2>3, <2>5 DEF Scheduled
    <2>7. zp'.tid[s] /\ zp'.nat[s] = "ready" /\ zp'.gen[s] = core.call.gen
      BY <1>1, <2>6 DEF ZpTyped
    <2>10. ASSUME NEW t \in Slot \ {s}
           PROVE  /\ zp'.tid[t] = p.tid[t] /\ zp'.gen[t] = p.gen[t] /\ zp'.nat[t] = p.nat[t]
                  /\ zp'.policy[t] = p.policy[t]
      BY <1>1, <2>6 DEF ZpTyped
    <2>11. Beside(zp, zp', s)
      <3>1. /\ p.timer = zp.timer /\ p.worker = zp.worker
            /\ \A t \in Slot \ {s} : /\ p.tid[t] = zp.tid[t] /\ p.gen[t] = zp.gen[t]
                                     /\ p.nat[t] = zp.nat[t] /\ p.policy[t] = zp.policy[t]
        BY DEF Beside
      <3> QED
        BY ONLY <2>6, <2>10, <3>1 DEF Beside
    <2>8. ZephyrTask'[s] = Served(core.call)
      BY <1>1, <2>7, ZephyrTaskOfNext DEF Served, Creates
    <2>9. ASSUME NEW t \in Slot, zp'.tid[t] PROVE BoundTo(core, zp', t)
      <3>1. BoundTo(core, p, t)
        BY <1>5, <2>10, <2>9 DEF Beside
      <3> QED
        BY <2>6, <3>1 DEF BoundTo
    <2> QED
      BY <1>1, <2>1, <2>6, <2>7, <2>8, <2>9, <2>11, ZephyrServes DEF Creates, SlotOps
  <1> QED
    BY <1>2, <1>4, <1>5

\* One domain is replaced, by field.
Rebuilt(p, r, dom) == [p EXCEPT !.domain[r] = dom]

\* Replacing a memory domain changes that domain only.
LEMMA RebuiltFields ==
    ASSUME NEW p, ZpTyped(p), NEW r \in Region, NEW dom, DomainRecord(dom),
           NEW q, q = Rebuilt(p, r, dom)
    PROVE  /\ ZpTyped(q) /\ q.tid = p.tid /\ q.gen = p.gen /\ q.nat = p.nat
           /\ q.policy = p.policy /\ q.timer = p.timer /\ q.worker = p.worker
           /\ q.domain[r] = dom /\ \A x \in Region \ {r} : q.domain[x] = p.domain[x]
  <1>1. /\ ZpRecord(q) /\ q.tid = p.tid /\ q.gen = p.gen /\ q.nat = p.nat
        /\ q.policy = p.policy /\ q.timer = p.timer /\ q.worker = p.worker
        /\ q.domain = [p.domain EXCEPT ![r] = dom] /\ q.target = p.target
    BY DEF ZpTyped, ZpRecord, Rebuilt
  <1>2. /\ q.domain = [x \in Region |-> q.domain[x]]
        /\ q.domain[r] = dom /\ \A x \in Region \ {r} : q.domain[x] = p.domain[x]
    BY <1>1 DEF ZpTyped
  <1>3. \A x \in Region : DomainRecord(q.domain[x])
    BY <1>2 DEF ZpTyped
  <1>4. ZpTyped(q)
    BY <1>1, <1>2, <1>3 DEF ZpTyped
  <1> QED
    BY <1>1, <1>2, <1>4

\* zephyr_spawn_launch: the region is the slot's alone, so a domain left in it
\* is of an earlier lease and rebuilding it takes nothing from another guest.
LEMMA LaunchServes ==
    ASSUME ZephyrInv, zephyr_spawn_launch
    PROVE  ZephyrInv' /\ PortStep(core, core', ZephyrTask, ZephyrTask', ZephyrArmed, ZephyrArmed')
  <1> DEFINE s == core.call.slot
             g == core.call.gen
             space == AddressSpace(core, s)
             key == PolicyKey(Policy(core, s, g))
  <1>1. /\ core.call.op = "launch" /\ core.call.stage = "in" /\ s \in Slot /\ g = core.gen[s]
        /\ CoreTyped(core) /\ MmOf(core, s) \in Mms
    BY DEF ZephyrInv, CoreInv, CallSound, CoreTyped, Calls, SlotOps, zephyr_spawn_launch, InCall,
       MmOf
  <1>2. /\ space.ridx = MmOf(core, s).ridx /\ space.ridx \in Region
        /\ space.rgen = core.leases[space.ridx] /\ space.rgen \in Nat
        /\ \A t \in Slot \ {s} : core.alive[t] => MmOf(core, t).ridx # space.ridx
        /\ InLaunch(core, space.ridx) /\ key.space = space
    BY <1>1 DEF ZephyrInv, CoreInv, MmsSound, AddressSpace, Mms, InLaunch, PolicyKey, Policy,
       CoreTyped
  <1>3. ~DomainServes(zp, s)
    <2>1. zp.domain[space.ridx].valid =>
              /\ zp.domain[space.ridx].key.space.rgen \in Nat
              /\ zp.domain[space.ridx].key.space.rgen < space.rgen
      BY <1>2 DEF ZephyrInv, DomainsOld
    <2>2. zp.domain[space.ridx].valid => zp.domain[space.ridx].key.space # space
      <3>1. space.rgen \in Nat
        BY <1>2
      <3> HIDE DEF space
      <3> QED
        BY <2>1, <3>1, SMT
    <2> QED
      BY <1>2, <2>2 DEF DomainServes
  <1>4. PICK built, joined \in BOOLEAN :
            IF zp.tid[s] THEN built /\ joined /\ ZAnswer(FALSE, zp)
            ELSE ZephyrStart(s, g, setup_domain(zp, s, g, built), joined)
    BY DEF zephyr_spawn_launch
  <1> HIDE DEF s, g, space, key
  <1>5. CASE zp.tid[s]
    BY <1>1, <1>4, <1>5, ZephyrRefuses DEF SlotOps
  <1>6. CASE ~zp.tid[s]
    <2>1. zp.nat[s] = "none"
      BY <1>1, <1>6 DEF ZephyrInv, Natives
    <2>2. \A t \in Slot \ {s} : zp.tid[t] =>
              BoundTo(core, zp, t) /\ MmOf(core, t).ridx # space.ridx
      BY <1>2, ThreadAlive DEF ZephyrInv, TasksBound
    <2>3. \A r \in Region : zp.domain[r].valid =>
              /\ zp.domain[r].key.space.rgen \in Nat
              /\ zp.domain[r].key.space.rgen <= core.leases[r]
      BY DEF ZephyrInv, DomainsOld
    <2>4. \/ setup_domain(zp, s, g, built) = [ok |-> FALSE, p |-> zp]
          \/ setup_domain(zp, s, g, built) =
                 [ok |-> FALSE, p |-> [zp EXCEPT !.domain[space.ridx].parts = {}]]
          \/ setup_domain(zp, s, g, built) =
                 [ok |-> TRUE,
                  p |-> Bound([zp EXCEPT !.domain[space.ridx] =
                                  [valid |-> TRUE, key |-> key,
                                   parts |-> Partitions(space.text)]], s, g)]
      BY <1>3 DEF setup_domain, space, key
    <2>5. CASE setup_domain(zp, s, g, built) = [ok |-> FALSE, p |-> zp]
      <3>1. ZAnswer(FALSE, zp)
        BY <1>4, <1>6, <2>5, RefusedStart
      <3> QED
        BY <1>1, <3>1, ZephyrRefuses DEF SlotOps
    <2>6. ASSUME NEW dom, DomainRecord(dom), NEW p, p = Rebuilt(zp, space.ridx, dom),
                 dom.valid => \/ /\ zp.domain[space.ridx].valid
                                 /\ dom.key = zp.domain[space.ridx].key
                              \/ dom.key = key
          PROVE  /\ ZpTyped(p) /\ Beside(zp, p, s) /\ ~p.tid[s] /\ p.nat[s] = "none"
                 /\ \A t \in Slot \ {s} : zp.tid[t] => BoundTo(core, p, t)
                 /\ \A r \in Region : p.domain[r].valid =>
                        /\ p.domain[r].key.space.rgen \in Nat
                        /\ p.domain[r].key.space.rgen <= core.leases[r]
                 /\ p.domain[space.ridx] = dom
      <3>1. /\ ZpTyped(p) /\ p.tid = zp.tid /\ p.gen = zp.gen /\ p.nat = zp.nat
            /\ p.policy = zp.policy /\ p.timer = zp.timer /\ p.worker = zp.worker
            /\ p.domain[space.ridx] = dom
            /\ \A x \in Region \ {space.ridx} : p.domain[x] = zp.domain[x]
        <4>1. ZpTyped(zp) /\ space.ridx \in Region
          BY <1>2 DEF ZephyrInv
        <4> QED
          BY <2>6, <4>1, RebuiltFields, SMT
      <3>2. Beside(zp, p, s) /\ ~p.tid[s] /\ p.nat[s] = "none"
        BY <1>6, <2>1, <3>1 DEF Beside
      <3>3. ASSUME NEW t \in Slot \ {s}, zp.tid[t] PROVE BoundTo(core, p, t)
        <4>1. BoundTo(core, zp, t) /\ MmOf(core, t).ridx \in Region \ {space.ridx}
          BY <1>1, <2>2, <3>3 DEF CoreTyped, Mms, MmOf
        <4> QED
          BY <3>1, <4>1, StaysBound
      <3>4. ASSUME NEW r \in Region, p.domain[r].valid
            PROVE  /\ p.domain[r].key.space.rgen \in Nat
                   /\ p.domain[r].key.space.rgen <= core.leases[r]
        <4>1. CASE r # space.ridx
          BY <2>3, <3>1, <3>4, <4>1
        <4>2. CASE r = space.ridx
          <5>1. p.domain[r] = dom /\ dom.valid
            BY <3>1, <3>4, <4>2
          <5>2. CASE dom.key = key
            <6>1. p.domain[r].key.space.rgen = core.leases[r]
              BY <1>2, <4>2, <5>1, <5>2
            <6> QED
              BY <1>2, <4>2, <6>1, SMT
          <5>3. CASE zp.domain[r].valid /\ dom.key = zp.domain[r].key
            BY <2>3, <5>1, <5>3
          <5> QED
            BY <2>6, <4>2, <5>1, <5>2, <5>3
        <4> QED
          BY <4>1, <4>2
      <3> QED
        BY <3>1, <3>2, <3>3, <3>4
    <2>7. CASE setup_domain(zp, s, g, built) =
                   [ok |-> FALSE, p |-> [zp EXCEPT !.domain[space.ridx].parts = {}]]
      <3> DEFINE dom == [zp.domain[space.ridx] EXCEPT !.parts = {}]
                 p == Rebuilt(zp, space.ridx, dom)
      <3>1. DomainRecord(zp.domain[space.ridx])
        BY <1>2 DEF ZephyrInv, ZpTyped
      <3>2. /\ DomainRecord(dom) /\ dom.valid = zp.domain[space.ridx].valid
            /\ dom.key = zp.domain[space.ridx].key
        BY <3>1, SMT DEF DomainRecord
      <3>3. setup_domain(zp, s, g, built) = [ok |-> FALSE, p |-> p]
        BY <2>7 DEF Rebuilt
      <3> HIDE DEF dom, p
      <3>4. /\ ZpTyped(p) /\ Beside(zp, p, s) /\ ~p.tid[s] /\ p.nat[s] = "none"
            /\ \A t \in Slot \ {s} : zp.tid[t] => BoundTo(core, p, t)
            /\ \A r \in Region : p.domain[r].valid =>
                   /\ p.domain[r].key.space.rgen \in Nat
                   /\ p.domain[r].key.space.rgen <= core.leases[r]
        BY <2>6, <3>2 DEF p
      <3>5. ZephyrStart(s, core.call.gen, [ok |-> FALSE, p |-> p], joined)
        BY <1>4, <1>6, <3>3 DEF g
      <3> QED
        BY <1>1, <1>6, <3>4, <3>5, StartServes DEF s, Creates
    <2>8. CASE setup_domain(zp, s, g, built) =
                   [ok |-> TRUE,
                    p |-> Bound([zp EXCEPT !.domain[space.ridx] =
                                    [valid |-> TRUE, key |-> key,
                                     parts |-> Partitions(space.text)]], s, g)]
      <3> DEFINE dom == [valid |-> TRUE, key |-> key, parts |-> Partitions(space.text)]
                 b == Rebuilt(zp, space.ridx, dom)
                 p == Bound(b, s, g)
      <3>1. DomainRecord(dom) /\ dom.key = key /\ dom.parts = Partitions(space.text)
        BY DEF DomainRecord
      <3>2. setup_domain(zp, s, g, built) = [ok |-> TRUE, p |-> p]
        BY <2>8 DEF Rebuilt
      <3> HIDE DEF dom, b, p
      <3>3. /\ ZpTyped(b) /\ Beside(zp, b, s) /\ ~b.tid[s] /\ b.nat[s] = "none"
            /\ \A t \in Slot \ {s} : zp.tid[t] => BoundTo(core, b, t)
            /\ \A r \in Region : b.domain[r].valid =>
                   /\ b.domain[r].key.space.rgen \in Nat
                   /\ b.domain[r].key.space.rgen <= core.leases[r]
            /\ b.domain[space.ridx] = dom
        BY <2>6, <3>1 DEF b
      <3>4. /\ ZpTyped(p) /\ p.tid = b.tid /\ p.gen = b.gen /\ p.nat = b.nat
            /\ p.domain = b.domain /\ p.timer = b.timer /\ p.worker = b.worker
            /\ p.policy = [b.policy EXCEPT ![s] = [valid |-> TRUE,
                                                   key |-> PolicyKey(Policy(core, s, g))]]
        <4>1. ZpTyped(b) /\ s \in Slot /\ p = Bound(b, s, g)
          BY <1>1, <3>3 DEF p
        <4> QED
          BY <4>1, BoundFields, SMT
      <3>5. /\ p.policy[s].valid /\ p.policy[s].key = key
            /\ \A t \in Slot \ {s} : p.policy[t] = b.policy[t]
        <4>1. s \in Slot /\ b.policy = [t \in Slot |-> b.policy[t]]
          BY <1>1, <3>3 DEF ZpTyped
        <4>2. p.policy = [b.policy EXCEPT ![s] = [valid |-> TRUE, key |-> key]]
          BY <3>4 DEF key
        <4> QED
          BY <4>1, <4>2, SMT
      <3>6. BoundTo(core, p, s)
        BY <1>1, <1>2, <3>1, <3>3, <3>4, <3>5 DEF BoundTo, space, key
      <3>7. Beside(zp, p, s)
        BY <3>3, <3>4, <3>5 DEF Beside
      <3>8. \A t \in Slot \ {s} : zp.tid[t] => BoundTo(core, p, t)
        BY <3>3, <3>4, <3>5 DEF BoundTo
      <3>9. ZephyrStart(s, core.call.gen, [ok |-> TRUE, p |-> p], joined)
        BY <1>4, <1>6, <3>2 DEF g
      <3>10. /\ ~p.tid[s] /\ p.nat[s] = "none"
             /\ \A r \in Region : p.domain[r].valid =>
                    /\ p.domain[r].key.space.rgen \in Nat
                    /\ p.domain[r].key.space.rgen <= core.leases[r]
        BY <3>3, <3>4
      <3> QED
        BY <1>1, <1>6, <3>4, <3>6, <3>7, <3>8, <3>9, <3>10, StartServes DEF s, Creates
    <2> QED
      BY <2>4, <2>5, <2>7, <2>8
  <1> QED
    BY <1>5, <1>6

\* zephyr_spawn_resume_start: the child joins the domain its parent, parked
\* next to it with the same address space, is bound to.
LEMMA ResumeStartServes ==
    ASSUME ZephyrInv, zephyr_spawn_resume_start
    PROVE  ZephyrInv' /\ PortStep(core, core', ZephyrTask, ZephyrTask', ZephyrArmed, ZephyrArmed')
  <1> DEFINE s == core.call.slot
             g == core.call.gen
             space == AddressSpace(core, s)
             key == PolicyKey(Policy(core, s, g))
  <1>1. /\ core.call.op = "start" /\ core.call.stage = "in" /\ s \in Slot /\ g = core.gen[s]
        /\ CoreTyped(core)
    BY DEF ZephyrInv, CoreInv, CallSound, CoreTyped, Calls, SlotOps, zephyr_spawn_resume_start,
       InCall
  <1>2. PICK joined \in BOOLEAN :
            IF zp.tid[s] THEN joined /\ ZAnswer(FALSE, zp)
            ELSE ZephyrStart(s, g, zephyr_bind_prepared_domain(zp, s, g), joined)
    BY DEF zephyr_spawn_resume_start
  <1>3. PICK c \in Slot \ {s} : core.host[c] = "parked" /\ MmOf(core, c) = MmOf(core, s)
    BY <1>1 DEF ZephyrInv, CoreInv, MmsSound
  <1>4. zp.tid[c]
    <2>1. Expected(core, c) = {"parked"}
      BY <1>1, <1>3 DEF Expected
    <2>2. ZephyrTask[c].state = "parked"
      BY <2>1 DEF ZephyrInv, Follows
    <2> QED
      BY <2>2, ZephyrTaskOf, SMT DEF Nobody
  <1>5. AddressSpace(core, c) = space /\ BoundTo(core, zp, c)
    BY <1>3, <1>4 DEF AddressSpace, ZephyrInv, TasksBound
  <1>6. /\ zp.domain[space.ridx].key.space = space
        /\ zp.domain[space.ridx].parts = Partitions(space.text)
    BY <1>5 DEF BoundTo
  <1> HIDE DEF s, g, space, key
  <1>7. CASE zp.tid[s]
    BY <1>1, <1>2, <1>7, ZephyrRefuses DEF SlotOps
  <1>8. CASE ~zp.tid[s]
    <2>1. zp.nat[s] = "none"
      BY <1>1, <1>8 DEF ZephyrInv, Natives
    <2>2. \/ zephyr_bind_prepared_domain(zp, s, g) = [ok |-> FALSE, p |-> zp]
          \/ zephyr_bind_prepared_domain(zp, s, g) = [ok |-> TRUE, p |-> Bound(zp, s, g)]
      BY DEF zephyr_bind_prepared_domain
    <2>3. CASE zephyr_bind_prepared_domain(zp, s, g) = [ok |-> FALSE, p |-> zp]
      <3>1. ZAnswer(FALSE, zp)
        BY <1>2, <1>8, <2>3, RefusedStart
      <3> QED
        BY <1>1, <3>1, ZephyrRefuses DEF SlotOps
    <2>4. CASE zephyr_bind_prepared_domain(zp, s, g) = [ok |-> TRUE, p |-> Bound(zp, s, g)]
      <3> DEFINE p == Bound(zp, s, g)
      <3>1. ZephyrStart(s, core.call.gen, [ok |-> TRUE, p |-> p], joined)
        BY <1>2, <1>8, <2>4 DEF g
      <3> HIDE DEF p
      <3>2. /\ ZpTyped(p) /\ p.tid = zp.tid /\ p.gen = zp.gen /\ p.nat = zp.nat
            /\ p.domain = zp.domain /\ p.timer = zp.timer /\ p.worker = zp.worker
            /\ p.policy = [zp.policy EXCEPT ![s] = [valid |-> TRUE,
                                                    key |-> PolicyKey(Policy(core, s, g))]]
        <4>1. ZpTyped(zp) /\ s \in Slot /\ p = Bound(zp, s, g)
          BY <1>1 DEF p, ZephyrInv
        <4> QED
          BY <4>1, BoundFields, SMT
      <3>3. /\ p.policy[s].valid /\ p.policy[s].key = key
            /\ \A t \in Slot \ {s} : p.policy[t] = zp.policy[t]
        <4>1. s \in Slot /\ zp.policy = [t \in Slot |-> zp.policy[t]]
          BY <1>1 DEF ZpTyped, ZephyrInv
        <4>2. p.policy = [zp.policy EXCEPT ![s] = [valid |-> TRUE, key |-> key]]
          BY <3>2 DEF key
        <4> QED
          BY <4>1, <4>2, SMT
      <3>4. BoundTo(core, p, s)
        BY <1>1, <1>6, <3>2, <3>3 DEF BoundTo, space, key
      <3>5. Beside(zp, p, s)
        BY <3>2, <3>3 DEF Beside
      <3>6. \A t \in Slot \ {s} : zp.tid[t] => BoundTo(core, p, t)
        BY <3>2, <3>3 DEF BoundTo, ZephyrInv, TasksBound
      <3>7. /\ ~p.tid[s] /\ p.nat[s] = "none"
            /\ \A r \in Region : p.domain[r].valid =>
                   /\ p.domain[r].key.space.rgen \in Nat
                   /\ p.domain[r].key.space.rgen <= core.leases[r]
        BY <1>8, <2>1, <3>2 DEF ZephyrInv, DomainsOld
      <3> QED
        BY <1>1, <1>8, <3>1, <3>2, <3>4, <3>5, <3>6, <3>7, StartServes DEF s, Creates
    <2> QED
      BY <2>2, <2>3, <2>4
  <1> QED
    BY <1>7, <1>8

\* What a callback that only moves its slot's thread in the scheduler makes of
\* the invariant.
LEMMA ScheduledServes ==
    ASSUME ZephyrInv, core.call.op \in {"resume", "park"}, core.call.stage = "in",
           NEW s, s = core.call.slot, zp.tid[s], Replied(core, core', TRUE),
           NEW x \in {"ready", "suspended"}, Scheduled(zp, zp', s, x),
           x = IF core.call.op = "park" THEN "suspended" ELSE "ready"
    PROVE  ZephyrInv' /\ PortStep(core, core', ZephyrTask, ZephyrTask', ZephyrArmed, ZephyrArmed')
  <1>1. s \in Slot /\ core.call.gen = core.gen[s]
    BY DEF ZephyrInv, CoreInv, CallSound, CoreTyped, Calls, SlotOps
  <1>2. zp'.tid[s] /\ zp'.gen[s] = core.call.gen /\ zp'.nat[s] = x
    BY <1>1, ThreadAlive DEF Scheduled
  <1>3. ZephyrTask'[s] = Served(core.call)
    BY <1>1, <1>2, ZephyrTaskOfNext DEF Served
  <1>4. Beside(zp, zp', s)
    BY DEF Scheduled, Beside
  <1>5. \A t \in Slot : zp'.tid[t] => BoundTo(core, zp', t)
    BY DEF Scheduled, BoundTo, ZephyrInv, TasksBound
  <1>6. \A r \in Region : zp'.domain[r].valid =>
            /\ zp'.domain[r].key.space.rgen \in Nat
            /\ zp'.domain[r].key.space.rgen <= core.leases[r]
    BY DEF Scheduled, ZephyrInv, DomainsOld
  <1>7. ZpTyped(zp') /\ core.call.op \in SlotOps
    BY DEF Scheduled, SlotOps
  <1> QED
    BY <1>1, <1>2, <1>3, <1>4, <1>5, <1>6, <1>7, ZephyrServes

\* zephyr_spawn_resume_parked and zephyr_park_slot: the thread is there, and
\* one that Zephyr ended is neither parked nor about to be.
LEMMA ResumeParkServes ==
    ASSUME ZephyrInv, zephyr_spawn_resume_parked \/ zephyr_park_slot
    PROVE  ZephyrInv' /\ PortStep(core, core', ZephyrTask, ZephyrTask', ZephyrArmed, ZephyrArmed')
  <1> DEFINE s == core.call.slot
  <1>1. /\ core.call.op \in {"resume", "park"} /\ core.call.stage = "in" /\ s \in Slot
        /\ CoreTyped(core)
    BY DEF ZephyrInv, CoreInv, CallSound, CoreTyped, Calls, SlotOps, zephyr_spawn_resume_parked,
       zephyr_park_slot, InCall
  <1>2. zp.nat[s] # "dead"
    BY <1>1 DEF ZephyrInv, DeadWaits, CoreInv, CallSound
  <1>3. CASE ZAnswer(FALSE, zp)
    BY <1>1, <1>3, ZephyrRefuses DEF SlotOps
  <1>4. CASE zephyr_spawn_resume_parked /\ ~ZAnswer(FALSE, zp)
    <2>1. /\ core.call.op = "resume" /\ zp.tid[s] /\ zp' = k_thread_resume(zp, s)
          /\ core' = [Answered(core, TRUE) EXCEPT !.pos[s] = "user"]
      BY <1>4 DEF zephyr_spawn_resume_parked, InCall
    <2>2. Scheduled(zp, zp', s, "ready")
      BY <1>1, <1>2, <2>1, ResumeFields DEF ZephyrInv
    <2>3. Replied(core, core', TRUE)
      BY <1>1, <2>1, ResumedReplies
    <2> QED
      BY <1>1, <2>1, <2>2, <2>3, ScheduledServes
  <1>5. CASE zephyr_park_slot /\ ~ZAnswer(FALSE, zp)
    <2>1. /\ core.call.op = "park" /\ zp.tid[s] /\ zp' = k_thread_suspend(zp, s)
          /\ core' = Answered(core, TRUE)
      BY <1>5 DEF zephyr_park_slot, InCall, ZAnswer
    <2>2. Scheduled(zp, zp', s, "suspended")
      BY <1>1, <1>2, <2>1, SuspendFields DEF ZephyrInv
    <2>3. Replied(core, core', TRUE)
      BY <1>1, <2>1, AnsweredReplies
    <2> QED
      BY <1>1, <2>1, <2>2, <2>3, ScheduledServes
  <1> QED
    BY <1>3, <1>4, <1>5

\* zephyr_abort_slot, by field.
Reaped(p, s) ==
    [k_thread_abort(p, s, "none") EXCEPT !.tid[s] = FALSE, !.gen[s] = 0,
                                         !.policy[s] = ZephyrNoProfile]

\* An ended thread leaves its slot, and no other slot changes.
LEMMA ReapedFields ==
    ASSUME NEW p, ZpTyped(p), NEW s \in Slot, NEW q, q = Reaped(p, s)
    PROVE  /\ ZpTyped(q) /\ Beside(p, q, s) /\ ~q.tid[s] /\ q.nat[s] = "none"
           /\ q.domain = p.domain
  <1> DEFINE a == k_thread_abort(p, s, "none")
             n == ZephyrNoProfile
  <1>1. q = [a EXCEPT !.tid[s] = FALSE, !.gen[s] = 0, !.policy[s] = n]
    BY DEF Reaped
  <1>2. Scheduled(p, a, s, "none")
    BY AbortFields
  <1> HIDE DEF a, n
  <1>3. /\ ZpRecord(q) /\ q.tid = [a.tid EXCEPT ![s] = FALSE] /\ q.gen = [a.gen EXCEPT ![s] = 0]
        /\ q.policy = [a.policy EXCEPT ![s] = n] /\ q.nat = a.nat /\ q.domain = a.domain
        /\ q.timer = a.timer /\ q.worker = a.worker /\ q.target = a.target
    BY <1>1, <1>2 DEF Scheduled, ZpTyped, ZpRecord
  <1>4. ZpTyped(q)
    <2>1. q.tid \in [Slot -> BOOLEAN] /\ q.gen \in [Slot -> Nat]
      BY <1>2, <1>3, SMTT(30) DEF Scheduled, ZpTyped
    <2>2. q.policy = [t \in Slot |-> q.policy[t]]
      BY <1>2, <1>3 DEF Scheduled, ZpTyped
    <2> QED
      BY <1>2, <1>3, <2>1, <2>2 DEF Scheduled, ZpTyped
  <1>5. ASSUME NEW t \in Slot \ {s}
        PROVE  /\ q.tid[t] = p.tid[t] /\ q.gen[t] = p.gen[t]
               /\ q.nat[t] = p.nat[t] /\ q.policy[t] = p.policy[t]
    BY <1>2, <1>3, SMT DEF Scheduled, ZpTyped
  <1>6. /\ ~q.tid[s] /\ q.nat[s] = "none" /\ q.domain = p.domain
        /\ q.timer = p.timer /\ q.worker = p.worker
    BY <1>2, <1>3 DEF Scheduled, ZpTyped
  <1> QED
    BY ONLY <1>4, <1>5, <1>6 DEF Beside

\* An abort is never refused: the thread, if there is one, is of the slot's
\* current incarnation.
LEMMA ZephyrAbortServes ==
    ASSUME ZephyrInv, zephyr_abort_slot
    PROVE  ZephyrInv' /\ PortStep(core, core', ZephyrTask, ZephyrTask', ZephyrArmed, ZephyrArmed')
  <1> DEFINE s == core.call.slot
  <1>1. /\ core.call.op = "abort" /\ core.call.stage = "in" /\ s \in Slot /\ CoreTyped(core)
        /\ core.call.gen = core.gen[s] /\ core.call.op \in SlotOps
    BY DEF ZephyrInv, CoreInv, CallSound, CoreTyped, Calls, SlotOps, zephyr_abort_slot, InCall
  <1>2. zp.tid[s] => zp.gen[s] = core.call.gen
    BY <1>1, ThreadAlive
  <1>3. zp' = Reaped(zp, s) /\ core' = Answered(core, TRUE)
    BY <1>2 DEF zephyr_abort_slot, ZAnswer, Reaped
  <1>4. Replied(core, core', TRUE)
    BY <1>1, <1>3, AnsweredReplies
  <1>5. /\ ZpTyped(zp') /\ Beside(zp, zp', s) /\ ~zp'.tid[s] /\ zp'.nat[s] = "none"
        /\ zp'.domain = zp.domain
    BY <1>1, <1>3, ReapedFields DEF ZephyrInv
  <1>6. ZephyrTask'[s] = Served(core.call)
    BY <1>1, <1>5, ZephyrTaskOfNext DEF Served
  <1>7. ASSUME NEW t \in Slot, zp'.tid[t] PROVE BoundTo(core, zp', t)
    BY <1>5, <1>7 DEF Beside, BoundTo, ZephyrInv, TasksBound
  <1>8. \A r \in Region : zp'.domain[r].valid =>
            /\ zp'.domain[r].key.space.rgen \in Nat
            /\ zp'.domain[r].key.space.rgen <= core.leases[r]
    BY <1>5 DEF ZephyrInv, DomainsOld
  <1> QED
    BY <1>1, <1>4, <1>5, <1>6, <1>7, <1>8, ZephyrServes

\* zephyr_prepare: every domain is forgotten, nobody is bound.
Fresh(p) == [p EXCEPT !.domain = [r \in Region |-> [p.domain[r] EXCEPT !.valid = FALSE,
                                                                       !.key = NoKey]],
                      !.policy = [s \in Slot |-> ZephyrNoProfile],
                      !.budget = [owner |-> NoSlot, ms |-> 0],
                      !.target = [slot |-> NoSlot, gen |-> 0],
                      !.stop = FALSE, !.sem = FALSE, !.worker = "running", !.timer = TRUE]

\* prepare starts without domains, policies or a rotation target.
LEMMA FreshFields ==
    ASSUME NEW p, ZpTyped(p), NEW q, q = Fresh(p)
    PROVE  /\ ZpTyped(q) /\ q.tid = p.tid /\ q.gen = p.gen /\ q.nat = p.nat /\ q.timer
           /\ \A r \in Region : ~q.domain[r].valid
  <1> DEFINE D == [r \in Region |-> [p.domain[r] EXCEPT !.valid = FALSE, !.key = NoKey]]
             P == [s \in Slot |-> ZephyrNoProfile]
             b == [owner |-> NoSlot, ms |-> 0]
             t == [slot |-> NoSlot, gen |-> 0]
  <1>1. q = [p EXCEPT !.domain = D, !.policy = P, !.budget = b, !.target = t, !.stop = FALSE,
                      !.sem = FALSE, !.worker = "running", !.timer = TRUE]
    BY DEF Fresh
  <1>2. /\ D = [r \in Region |-> D[r]] /\ P = [s \in Slot |-> P[s]]
        /\ \A r \in Region : DomainRecord(D[r]) /\ ~D[r].valid
    <2>1. D = [r \in Region |-> D[r]] /\ P = [s \in Slot |-> P[s]]
      OBVIOUS
    <2>2. ASSUME NEW r \in Region PROVE DomainRecord(D[r]) /\ ~D[r].valid
      <3> DEFINE d == p.domain[r]
                 k == NoKey
      <3>1. DomainRecord(d) /\ D[r] = [d EXCEPT !.valid = FALSE, !.key = k]
        BY DEF ZpTyped
      <3> HIDE DEF D, d, k
      <3> QED
        BY <3>1 DEF DomainRecord
    <2> QED
      BY <2>1, <2>2
  <1> HIDE DEF D, P, b, t
  <1>a. q.tid = p.tid /\ q.gen = p.gen
    BY <1>1 DEF ZpTyped, ZpRecord
  <1>b. q.nat = p.nat /\ q.timer = TRUE
    BY <1>1 DEF ZpTyped, ZpRecord
  <1>c. q.domain = D /\ q.policy = P
    BY <1>1 DEF ZpTyped, ZpRecord
  <1>d. ZpRecord(q)
    BY <1>1 DEF ZpTyped, ZpRecord
  <1>3. /\ ZpRecord(q) /\ q.tid = p.tid /\ q.gen = p.gen /\ q.nat = p.nat /\ q.timer = TRUE
        /\ q.domain = D /\ q.policy = P
    BY <1>a, <1>b, <1>c, <1>d
  <1>5. q.target = t
    BY <1>1 DEF ZpTyped, ZpRecord
  <1>4. TargetTyped(t)
    BY DEF TargetTyped, t
  <1> QED
    BY <1>2, <1>3, <1>4, <1>5 DEF ZpTyped

\* zephyr_teardown, by field.
Down(p) == [p EXCEPT !.timer = FALSE, !.worker = "none",
                     !.budget = [owner |-> NoSlot, ms |-> 0], !.target.slot = NoSlot]

\* teardown leaves neither timer nor worker, and no task changes.
LEMMA DownFields ==
    ASSUME NEW p, ZpTyped(p), NEW q, q = Down(p)
    PROVE  /\ ZpTyped(q) /\ q.tid = p.tid /\ q.gen = p.gen /\ q.nat = p.nat
           /\ ~q.timer /\ q.worker = "none" /\ q.domain = p.domain
  <1> DEFINE b == [owner |-> NoSlot, ms |-> 0]
             t == [p.target EXCEPT !.slot = NoSlot]
  <1>1. q = [p EXCEPT !.timer = FALSE, !.worker = "none", !.budget = b, !.target = t]
    BY DEF Down
  <1> HIDE DEF b, t
  <1>2. /\ ZpRecord(q) /\ q.tid = p.tid /\ q.gen = p.gen /\ q.nat = p.nat /\ q.timer = FALSE
        /\ q.worker = "none" /\ q.domain = p.domain /\ q.policy = p.policy /\ q.target = t
    BY <1>1 DEF ZpTyped, ZpRecord
  <1>3. TargetTyped(t)
    BY SMT DEF TargetTyped, ZpTyped, t
  <1> QED
    BY <1>2, <1>3 DEF ZpTyped

\* prepare and teardown, with no thread there.
LEMMA ZephyrBracketServes ==
    ASSUME ZephyrInv, zephyr_prepare \/ zephyr_teardown
    PROVE  ZephyrInv' /\ PortStep(core, core', ZephyrTask, ZephyrTask', ZephyrArmed, ZephyrArmed')
  <1>1. /\ core.call.op \in {"prepare", "teardown"} /\ core.call.stage = "in" /\ CoreTyped(core)
        /\ CoreInv(core) /\ NoneFailed(core) /\ Follows(ZephyrTask, core)
    BY DEF ZephyrInv, CoreInv, zephyr_prepare, zephyr_teardown, InCall
  <1>2. \E rc \in BOOLEAN :
            /\ core' = Answered(core, rc)
            /\ \/ zp' = zp /\ ~rc /\ core.call.op = "prepare"
               \/ zp' = Fresh(zp) /\ rc /\ core.call.op = "prepare"
               \/ zp' = Down(zp) /\ rc /\ core.call.op = "teardown"
    BY DEF zephyr_prepare, zephyr_teardown, ZAnswer, Fresh, Down, InCall
  <1>3. PICK rc \in BOOLEAN :
            /\ core' = Answered(core, rc)
            /\ \/ zp' = zp /\ ~rc /\ core.call.op = "prepare"
               \/ zp' = Fresh(zp) /\ rc /\ core.call.op = "prepare"
               \/ zp' = Down(zp) /\ rc /\ core.call.op = "teardown"
    BY <1>2
  <1>4. /\ ZpTyped(zp') /\ zp'.tid = zp.tid /\ zp'.gen = zp.gen /\ zp'.nat = zp.nat
        /\ core.call.op = "prepare" /\ rc => zp'.timer
        /\ core.call.op = "teardown" => rc /\ ~zp'.timer /\ zp'.worker = "none"
        /\ zp'.domain = zp.domain \/ \A r \in Region : ~zp'.domain[r].valid
    <2>1. CASE zp' = zp /\ ~rc /\ core.call.op = "prepare"
      BY <2>1 DEF ZephyrInv
    <2>2. CASE zp' = Fresh(zp) /\ rc /\ core.call.op = "prepare"
      BY <2>2, FreshFields DEF ZephyrInv
    <2>3. CASE zp' = Down(zp) /\ rc /\ core.call.op = "teardown"
      BY <2>3, DownFields DEF ZephyrInv
    <2> QED
      BY <1>3, <2>1, <2>2, <2>3
  <1>5. ZephyrTask' = ZephyrTask
    BY <1>4 DEF ZephyrTask
  <1>6. /\ core.call.op = "prepare" /\ rc => ZephyrArmed'
        /\ core.call.op = "teardown" => rc /\ ~ZephyrArmed'
    BY <1>4 DEF ZephyrArmed
  <1>7. Replied(core, core', rc)
    BY <1>1, <1>3, AnsweredReplies
  <1>8. /\ CoreInv(core') /\ Follows(ZephyrTask, core')
        /\ PortStep(core, core', ZephyrTask, ZephyrTask, ZephyrArmed, ZephyrArmed')
        /\ \A t \in Slot : ZephyrTask[t] = Nobody
        /\ core'.call.op = core.call.op /\ core'.call.stage = "out"
        /\ core'.host = core.host /\ core'.want = core.want /\ core'.leases = core.leases
        /\ NoneFailed(core')
    <2> HIDE DEF ZephyrTask, ZephyrArmed
    <2> QED
      BY <1>1, <1>6, <1>7, BracketReply
  <1>9. \A t \in Slot : ~zp'.tid[t]
    <2> SUFFICES ASSUME NEW t \in Slot, zp.tid[t] PROVE FALSE
      BY <1>4
    <2>1. ZephyrTask[t].state # "none"
      BY ZephyrTaskOf
    <2>2. ZephyrTask[t] = Nobody
      BY <1>8
    <2> QED
      BY <2>1, <2>2, SMT DEF Nobody
  <1>10. Natives(zp') /\ DeadWaits(core', zp') /\ TasksBound(core', zp')
    BY <1>4, <1>8, <1>9 DEF ZephyrInv, Natives, DeadWaits, TasksBound
  <1>11. DomainsOld(core', zp')
    BY <1>4, <1>8 DEF ZephyrInv, DomainsOld, InLaunch
  <1> QED
    BY <1>4, <1>5, <1>8, <1>10, <1>11 DEF ZephyrInv

\* A guest that may run, between two callbacks, has a thread that runs or that
\* Zephyr ended.
LEMMA RunnableThread ==
    ASSUME ZephyrInv, NEW s \in Slot, core.call.op \in {"none", "teardown"}, zp.tid[s],
           lxp_slot_ref_is_runnable(core, s, zp.gen[s])
    PROVE  /\ core.host[s] = "running" /\ zp.nat[s] \in {"ready", "dead"}
           /\ core.call.op = "none" /\ core.call.stage = "out"
  <1>1. core.alive[s] /\ core.runnable[s]
    BY DEF lxp_slot_ref_is_runnable, lxp_slot_ref_is_current
  <1>2. core.call.op = "none" /\ core.call.stage = "out" /\ core.call.slot = NoSlot
    BY <1>1 DEF ZephyrInv, CoreInv, CallSound, SlotOps
  <1>3. core.host[s] = "running"
    BY <1>1, <1>2 DEF ZephyrInv, CoreInv, SlotsSound, NoneFailed, CoreTyped, Hosts, Creates
  <1>4. s # NoSlot
    BY SMT DEF Slot, NoSlot
  <1>5. Expected(core, s) = {"live"}
    BY <1>2, <1>3, <1>4 DEF Expected
  <1> QED
    BY <1>2, <1>3, <1>5, ThreadAlive DEF ZephyrInv, ZpTyped, Natives

\* A step the contract does not see.
LEMMA ZephyrUnseen ==
    ASSUME ZephyrTask' = ZephyrTask, ZephyrArmed' = ZephyrArmed, core'.call = core.call
    PROVE  PortStep(core, core', ZephyrTask, ZephyrTask', ZephyrArmed, ZephyrArmed')
  <1> HIDE DEF ZephyrTask, ZephyrArmed
  <1> QED
    BY DEF PortStep

\* The trap of the running guest, and its fault, which ends its thread.
LEMMA ZephyrGuestServes ==
    ASSUME ZephyrInv, NEW s \in Slot, NEW o \in {"fast", "park", "exit"},
           lxp_zephyr_kernel_oops_c(s, o) \/ k_sys_fatal_error_handler(s)
    PROVE  ZephyrInv' /\ PortStep(core, core', ZephyrTask, ZephyrTask', ZephyrArmed, ZephyrArmed')
  <1>1. /\ core.call.op = "none" /\ zp.tid[s] /\ lxp_slot_ref_is_runnable(core, s, zp.gen[s])
        /\ CoreTyped(core) /\ CoreInv(core)
    BY SMTT(30) DEF lxp_zephyr_kernel_oops_c, k_sys_fatal_error_handler, zephyr_current_slot,
       ZephyrOnCpu, ZephyrInv, CoreInv, Slot, NoSlot
  <1>2. core.host[s] = "running" /\ zp.nat[s] \in {"ready", "dead"} /\ core.call.stage = "out"
    BY <1>1, RunnableThread
  <1>3. \/ core' = lxp_dispatch_slot(core, s, zp.gen[s], o)
        \/ core' = Faulted(core, s, zp.gen[s])
        \/ core' = lxp_slot_report_memory_fault(core, s, zp.gen[s])
    BY DEF lxp_zephyr_kernel_oops_c, k_sys_fatal_error_handler
  <1>4. Touched(core, core')
    BY <1>1, <1>3, GuestTouches
  <1>5. Keeps(core, core') /\ core'.call = core.call
    BY <1>1, <1>2, <1>4, TouchKeeps DEF Touched
  <1>6. CASE lxp_zephyr_kernel_oops_c(s, o)
    <2>1. zp' = zp
      BY <1>6 DEF lxp_zephyr_kernel_oops_c
    <2>2. ZephyrInv' /\ ZephyrTask' = ZephyrTask
      BY <1>5, <2>1, ZephyrQuiet DEF ZephyrInv
    <2>3. ZephyrArmed' = ZephyrArmed
      BY <2>1 DEF ZephyrArmed
    <2> QED
      BY <1>5, <2>2, <2>3, ZephyrUnseen
  <1>7. CASE k_sys_fatal_error_handler(s)
    <2>1. /\ zp' = k_thread_abort(zp, s, "dead")
          /\ core' = lxp_slot_report_memory_fault(core, s, zp.gen[s])
      BY <1>7 DEF k_sys_fatal_error_handler
    <2>2. Scheduled(zp, zp', s, "dead")
      BY <2>1, AbortFields DEF ZephyrInv
    <2>3. core'.want[s] = "exit" /\ core'.host[s] = "running"
      <3>1. core' = [core EXCEPT !.want[s] = "exit"]
        BY <1>1, <2>1 DEF lxp_slot_report_memory_fault, lxp_slot_ref_is_runnable
      <3> QED
        BY <1>1, <1>2, <3>1 DEF CoreTyped, CoreRecord
    <2>4. /\ ZpTyped(zp') /\ zp'.tid = zp.tid /\ zp'.gen = zp.gen /\ zp'.policy = zp.policy
          /\ zp'.domain = zp.domain
          /\ \A t \in Slot :
               /\ zp'.nat[t] = "none" <=> zp.nat[t] = "none"
               /\ zp'.nat[t] = "suspended" <=> zp.nat[t] = "suspended"
               /\ zp'.nat[t] = "dead" => \/ zp.nat[t] = "dead"
                                         \/ core'.want[t] = "exit" /\ core'.host[t] = "running"
      BY <1>2, <2>2, <2>3 DEF Scheduled
    <2>5. ZephyrInv' /\ ZephyrTask' = ZephyrTask
      BY <1>5, <2>4, ZephyrQuiet
    <2>6. ZephyrArmed' = ZephyrArmed
      BY <2>2 DEF ZephyrArmed, Scheduled
    <2> QED
      BY <1>5, <2>5, <2>6, ZephyrUnseen
  <1> QED
    BY <1>6, <1>7

\* Only the sampler's and the worker's own state changes.
Sampled(p, q) ==
    /\ ZpTyped(q) /\ q.tid = p.tid /\ q.gen = p.gen /\ q.policy = p.policy /\ q.nat = p.nat
    /\ q.domain = p.domain

\* A new budget changes nothing that the contract or the views see.
LEMMA BudgetFields ==
    ASSUME NEW p, ZpTyped(p), NEW q, NEW b, q = [p EXCEPT !.budget = b]
    PROVE  Sampled(p, q) /\ q.timer = p.timer /\ q.worker = p.worker
  <1>1. /\ ZpRecord(q) /\ q.tid = p.tid /\ q.gen = p.gen /\ q.policy = p.policy /\ q.nat = p.nat
        /\ q.domain = p.domain /\ q.timer = p.timer /\ q.worker = p.worker /\ q.target = p.target
    BY DEF ZpTyped, ZpRecord
  <1>2. ZpTyped(q)
    BY <1>1 DEF ZpTyped
  <1> QED
    BY ONLY <1>1, <1>2 DEF Sampled

\* A new target of the quantum worker changes nothing that they see.
LEMMA TargetFields ==
    ASSUME NEW p, ZpTyped(p), NEW q, NEW t, TargetTyped(t),
           \/ q = [p EXCEPT !.target = t, !.sem = TRUE]
           \/ q = [p EXCEPT !.target = t, !.sem = FALSE]
    PROVE  Sampled(p, q) /\ q.timer = p.timer /\ q.worker = p.worker
  <1>1. /\ ZpRecord(q) /\ q.tid = p.tid /\ q.gen = p.gen /\ q.policy = p.policy /\ q.nat = p.nat
        /\ q.domain = p.domain /\ q.timer = p.timer /\ q.worker = p.worker /\ q.target = t
    BY DEF ZpTyped, ZpRecord
  <1>2. ZpTyped(q)
    BY <1>1 DEF ZpTyped
  <1> QED
    BY ONLY <1>1, <1>2 DEF Sampled

\* Telling the quantum worker to stop changes nothing that they see.
LEMMA StopFields ==
    ASSUME NEW p, ZpTyped(p), NEW q,
           q = [p EXCEPT !.timer = FALSE, !.stop = TRUE, !.sem = TRUE]
    PROVE  Sampled(p, q) /\ q.worker = p.worker
  <1>1. /\ ZpRecord(q) /\ q.tid = p.tid /\ q.gen = p.gen /\ q.policy = p.policy /\ q.nat = p.nat
        /\ q.domain = p.domain /\ q.worker = p.worker /\ q.target = p.target
    BY DEF ZpTyped, ZpRecord
  <1>2. ZpTyped(q)
    BY <1>1 DEF ZpTyped
  <1> QED
    BY ONLY <1>1, <1>2 DEF Sampled

\* The end of the quantum worker changes nothing that they see.
LEMMA EndFields ==
    ASSUME NEW p, ZpTyped(p), NEW q, q = [p EXCEPT !.sem = FALSE, !.worker = "ended"]
    PROVE  Sampled(p, q) /\ q.timer = p.timer /\ q.worker = "ended"
  <1>1. /\ ZpRecord(q) /\ q.tid = p.tid /\ q.gen = p.gen /\ q.policy = p.policy /\ q.nat = p.nat
        /\ q.domain = p.domain /\ q.timer = p.timer /\ q.worker = "ended" /\ q.target = p.target
    BY DEF ZpTyped, ZpRecord
  <1>2. ZpTyped(q)
    BY <1>1 DEF ZpTyped
  <1> QED
    BY ONLY <1>1, <1>2 DEF Sampled

\* The timer, the worker and the stop of a run leave every thread to the
\* contract as it was.
LEMMA SampledServes ==
    ASSUME ZephyrInv, core' = core, Sampled(zp, zp'), ZephyrArmed' = ZephyrArmed
    PROVE  ZephyrInv' /\ PortStep(core, core', ZephyrTask, ZephyrTask', ZephyrArmed, ZephyrArmed')
  <1>1. Keeps(core, core')
    BY StillKeeps DEF ZephyrInv
  <1>2. ZephyrInv' /\ ZephyrTask' = ZephyrTask
    BY <1>1, ZephyrQuiet DEF Sampled
  <1> QED
    BY <1>2, ZephyrUnseen

\* zephyr_guest_quantum_tick.
LEMMA TickSamples ==
    ASSUME ZephyrInv, NEW r \in Slot \cup {NoSlot}, core' = core, zp' = zephyr_guest_quantum_tick(r)
    PROVE  ZephyrInv' /\ PortStep(core, core', ZephyrTask, ZephyrTask', ZephyrArmed, ZephyrArmed')
  <1> DEFINE cur == zephyr_current_slot(r)
             none == [owner |-> NoSlot, ms |-> 0]
             spent == [owner |-> cur,
                       ms |-> IF zp.budget.owner = cur THEN zp.budget.ms + 1 ELSE 1]
             reset == [owner |-> cur, ms |-> 0]
             p == [zp EXCEPT !.budget = reset]
             target == [slot |-> cur, gen |-> p.gen[cur]]
  <1>1. \/ zp' = [zp EXCEPT !.budget = none] \/ zp' = [zp EXCEPT !.budget = spent]
        \/ zp' = p \/ zp' = [p EXCEPT !.target = target, !.sem = TRUE]
    <2> HIDE DEF HasPeer
    <2> QED
      BY DEF zephyr_guest_quantum_tick
  <1>2. p = [zp EXCEPT !.budget = reset]
    OBVIOUS
  <1>6. TargetTyped(target)
    BY SMT DEF TargetTyped, zephyr_current_slot
  <1> HIDE DEF p, none, spent, reset, target
  <1>3. Sampled(zp, p) /\ p.timer = zp.timer /\ p.worker = zp.worker
    BY <1>2, BudgetFields DEF ZephyrInv
  <1>4. Sampled(zp, zp') /\ zp'.timer = zp.timer /\ zp'.worker = zp.worker
    <2>1. CASE zp' = [zp EXCEPT !.budget = none]
      BY <2>1, BudgetFields DEF ZephyrInv
    <2>2. CASE zp' = [zp EXCEPT !.budget = spent]
      BY <2>2, BudgetFields DEF ZephyrInv
    <2>3. CASE zp' = p
      BY <1>3, <2>3
    <2>4. CASE zp' = [p EXCEPT !.target = target, !.sem = TRUE]
      <3>1. Sampled(p, zp') /\ zp'.timer = p.timer /\ zp'.worker = p.worker
        BY <1>3, <1>6, <2>4, TargetFields DEF Sampled
      <3> QED
        BY <1>3, <3>1 DEF Sampled
    <2> QED
      BY <1>1, <2>1, <2>2, <2>3, <2>4
  <1>5. ZephyrArmed' = ZephyrArmed
    BY <1>4 DEF ZephyrArmed
  <1> QED
    BY <1>4, <1>5, SampledServes

\* zephyr_guest_quantum_worker: a rotated guest is suspended and resumed at
\* once, an ended thread is left alone.
LEMMA WorkerServes ==
    ASSUME ZephyrInv, zephyr_guest_quantum_worker
    PROVE  ZephyrInv' /\ PortStep(core, core', ZephyrTask, ZephyrTask', ZephyrArmed, ZephyrArmed')
  <1> DEFINE p == [zp EXCEPT !.sem = FALSE]
             s == zp.target.slot
             t == [zp.target EXCEPT !.slot = NoSlot]
             q == [p EXCEPT !.target = t]
             e == [p EXCEPT !.worker = "ended"]
             u == k_thread_suspend(q, s)
  <1>1. /\ core' = core /\ zp.worker = "running" /\ core.call.op \in {"none", "teardown"}
        /\ \/ zp' = e
           \/ zp' = q
           \/ Rotatable(zp, zp.target) /\ zp' = k_thread_resume(u, s)
    <2>1. t = [p.target EXCEPT !.slot = NoSlot]
      BY DEF ZephyrInv, ZpTyped, ZpRecord
    <2> QED
      BY <2>1 DEF zephyr_guest_quantum_worker
  <1>2. q = [zp EXCEPT !.target = t, !.sem = FALSE]
    BY DEF ZephyrInv, ZpTyped, ZpRecord
  <1>3. e = [zp EXCEPT !.sem = FALSE, !.worker = "ended"]
    OBVIOUS
  <1>4. u = k_thread_suspend(q, s) /\ s = zp.target.slot
    OBVIOUS
  <1>8. TargetTyped(t)
    BY SMT DEF ZephyrInv, ZpTyped, TargetTyped
  <1> HIDE DEF p, t, q, e, s, u
  <1>5. Sampled(zp, q) /\ q.timer = zp.timer /\ q.worker = zp.worker
    BY <1>2, <1>8, TargetFields DEF ZephyrInv
  <1>6. Sampled(zp, zp') /\ zp'.timer = zp.timer /\ (zp'.worker = "ended" \/ zp'.worker = zp.worker)
    <2>1. CASE zp' = e
      BY <1>3, <2>1, EndFields DEF ZephyrInv
    <2>2. CASE zp' = q
      BY <1>5, <2>2
    <2>3. CASE Rotatable(zp, zp.target) /\ zp' = k_thread_resume(u, s)
      <3>1. /\ s \in Slot /\ zp.tid[s] /\ lxp_slot_ref_is_runnable(core, s, zp.gen[s])
        BY <1>4, <2>3 DEF Rotatable, ZephyrInv, ZpTyped, TargetTyped
      <3>2. zp.nat[s] \in {"ready", "dead"}
        BY <1>1, <3>1, RunnableThread
      <3>3. CASE zp.nat[s] = "dead"
        <4>1. q.nat[s] = "dead"
          BY <1>5, <3>3 DEF Sampled
        <4>2. u = q /\ zp' = q
          BY <1>4, <2>3, <4>1 DEF k_thread_suspend, k_thread_resume
        <4> QED
          BY <1>5, <4>2
      <3>4. CASE zp.nat[s] = "ready"
        <4>1. q.nat[s] = "ready" /\ ZpTyped(q)
          BY <1>5, <3>4 DEF Sampled
        <4>2. Scheduled(q, u, s, "suspended")
          BY <1>4, <3>1, <4>1, SuspendFields
        <4>3. Scheduled(u, zp', s, "ready")
          <5>1. ZpTyped(u) /\ u.nat[s] # "dead"
            BY <4>2 DEF Scheduled
          <5> QED
            BY <2>3, <3>1, <5>1, ResumeFields, SMT
        <4>4. /\ ZpTyped(zp') /\ zp'.tid = zp.tid /\ zp'.gen = zp.gen /\ zp'.policy = zp.policy
              /\ zp'.domain = zp.domain /\ zp'.timer = zp.timer /\ zp'.worker = zp.worker
              /\ \A x \in Slot : zp'.nat[x] = zp.nat[x]
          BY <1>5, <3>4, <4>2, <4>3 DEF Scheduled, Sampled
        <4>5. zp'.nat = zp.nat
          BY <4>4, SMTT(30) DEF ZephyrInv, ZpTyped
        <4> QED
          BY <4>4, <4>5 DEF Sampled
      <3> QED
        BY <3>2, <3>3, <3>4
    <2> QED
      BY <1>1, <2>1, <2>2, <2>3
  <1>7. ZephyrArmed' = ZephyrArmed
    BY <1>1, <1>6 DEF ZephyrArmed
  <1> QED
    BY <1>1, <1>6, <1>7, SampledServes

\* zephyr_teardown_stop: the run stays armed until the worker has ended.
LEMMA StopServes ==
    ASSUME ZephyrInv, zephyr_teardown_stop
    PROVE  ZephyrInv' /\ PortStep(core, core', ZephyrTask, ZephyrTask', ZephyrArmed, ZephyrArmed')
  <1>1. /\ zp' = [zp EXCEPT !.timer = FALSE, !.stop = TRUE, !.sem = TRUE]
        /\ core' = core /\ zp.worker # "none"
    BY DEF zephyr_teardown_stop
  <1>3. Sampled(zp, zp') /\ zp'.worker = zp.worker
    BY <1>1, StopFields DEF ZephyrInv
  <1>4. ZephyrArmed' = ZephyrArmed
    BY <1>1, <1>3 DEF ZephyrArmed
  <1> QED
    BY <1>1, <1>3, <1>4, SampledServes

\* Every step of the Zephyr port keeps its invariant and is a step of the
\* contract.
LEMMA ZephyrStep ==
    ASSUME ZephyrInv, ZephyrNext
    PROVE  ZephyrInv' /\ PortStep(core, core', ZephyrTask, ZephyrTask', ZephyrArmed, ZephyrArmed')
  <1>1. CASE CoordinatorStep /\ UNCHANGED zp
    <2>1. Keeps(core, core') /\ core.call.stage = "out" /\ zp' = zp
      BY <1>1, CoordinatorKeeps DEF ZephyrInv
    <2>2. ZephyrInv' /\ ZephyrTask' = ZephyrTask
      BY <2>1, ZephyrQuiet DEF ZephyrInv
    <2>3. ZephyrArmed' = ZephyrArmed
      BY <2>1 DEF ZephyrArmed
    <2> HIDE DEF ZephyrTask, ZephyrArmed
    <2> QED
      BY <2>1, <2>2, <2>3 DEF PortStep
  <1>2. CASE ZephyrCallback
    BY <1>2, LaunchServes, ResumeStartServes, ResumeParkServes, ZephyrAbortServes,
       ZephyrBracketServes, StopServes DEF ZephyrCallback
  <1>3. CASE \E s \in Slot, o \in {"fast", "park", "exit"} : lxp_zephyr_kernel_oops_c(s, o)
    BY <1>3, ZephyrGuestServes
  <1>4. CASE \E s \in Slot : k_sys_fatal_error_handler(s)
    <2>1. PICK s \in Slot : k_sys_fatal_error_handler(s)
      BY <1>4
    <2>2. "exit" \in {"fast", "park", "exit"}
      OBVIOUS
    <2> QED
      BY <2>1, <2>2, ZephyrGuestServes
  <1>5. CASE ZephyrTickGuest \/ ZephyrTickHost
    BY <1>5, TickSamples DEF ZephyrTickGuest, ZephyrTickHost
  <1>6. CASE zephyr_guest_quantum_worker
    BY <1>6, WorkerServes
  <1> QED
    BY <1>1, <1>2, <1>3, <1>4, <1>5, <1>6 DEF ZephyrNext

\* What the invariant is for: every thread is bound to its own address space.
LEMMA ZephyrInvImplies ==
    ASSUME ZephyrInv
    PROVE  ZephyrViews
  <1> SUFFICES ASSUME NEW s \in Slot, zp.nat[s] = "ready"
               PROVE  BoundTo(core, zp, s)
    BY DEF ZephyrViews, BoundTo
  <1>1. zp.tid[s]
    BY DEF ZephyrInv, Natives
  <1> QED
    BY <1>1 DEF ZephyrInv, TasksBound

\* A run starts with no thread.
LEMMA ZephyrInvInit ==
    ASSUME NEW bound \in Bounds, CoreInit(bound), ZephyrInit
    PROVE  ZephyrInv /\ ZephyrTask = [s \in Slot |-> Nobody] /\ ~ZephyrArmed
  <1>1. CoreInv(core) /\ NoneFailed(core)
    BY CoreInvInit DEF NoneFailed, CoreInit, Idle
  <1>2. ZephyrTask = [s \in Slot |-> Nobody] /\ ~ZephyrArmed
    BY DEF ZephyrTask, ZephyrArmed, ZephyrInit, Nobody
  <1>3. \A s \in Slot : Expected(core, s) = {"none"}
    BY SMT DEF CoreInit, Expected, Idle, Slot, NoSlot
  <1>4. Follows(ZephyrTask, core)
    BY <1>2, <1>3 DEF Follows, Nobody
  <1>5. ZpTyped(zp)
    <2>1. /\ zp.tid = [s \in Slot |-> FALSE] /\ zp.gen = [s \in Slot |-> 0]
          /\ zp.nat = [s \in Slot |-> "none"] /\ zp.policy = [s \in Slot |-> ZephyrNoProfile]
          /\ zp.domain = [r \in Region |-> NoDomain]
          /\ zp.target = [slot |-> NoSlot, gen |-> 0] /\ ZpRecord(zp)
      BY DEF ZephyrInit, ZpRecord
    <2>4. DomainRecord(NoDomain)
      BY DEF DomainRecord, NoDomain
    <2>2. \A r \in Region : DomainRecord(zp.domain[r])
      BY <2>1, <2>4
    <2>3. TargetTyped(zp.target)
      BY <2>1, SMT DEF TargetTyped
    <2> QED
      BY <2>1, <2>2, <2>3, SMT DEF ZpTyped
  <1>6. /\ Natives(zp) /\ DeadWaits(core, zp) /\ TasksBound(core, zp) /\ DomainsOld(core, zp)
    BY DEF ZephyrInit, Natives, DeadWaits, TasksBound, DomainsOld, NoDomain
  <1> QED
    BY <1>1, <1>2, <1>4, <1>5, <1>6 DEF ZephyrInv
=============================================================================
