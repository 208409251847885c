---------------------------- MODULE FreertosPort ----------------------------
(***************************************************************************)
(* The FreeRTOS port: guest tasks of one native priority, of which a gate  *)
(* keeps exactly one natively runnable.  Three actors share the gate: the  *)
(* coordinator (spawn, park, resume, abort, each in a critical section),   *)
(* the tick interrupt, which spends the running guest's quantum and asks   *)
(* for a rotation, and the scheduler task, which performs it later.  The   *)
(* coordinator outranks the guests and freertos_prepare() refuses a run in *)
(* which it does not, so a guest executes only between two callbacks.      *)
(***************************************************************************)
EXTENDS Seam

VARIABLE rt

(* live_validated only spares a trap the comparison with the registers and *)
(* is left out.                                                            *)
FreertosNoProfile == [valid |-> FALSE, key |-> NoKey]

FreertosNoRotation == [owner |-> NoSlot, gen |-> 0, pending |-> FALSE]

(* nat is the state FreeRTOS keeps of the task; a handle is a static task  *)
(* block, so tid is TRUE for a created task and its identity is the slot.  *)
FreertosInit ==
    rt = [tid |-> [s \in Slot |-> FALSE],
          gen |-> [s \in Slot |-> 0],
          profile |-> [s \in Slot |-> FreertosNoProfile],
          desc |-> [s \in Slot |-> "none"],
          blocked |-> [s \in Slot |-> FALSE],
          nat |-> [s \in Slot |-> "none"],
          selected |-> NoSlot,
          rotate |-> FreertosNoRotation,
          budget |-> [owner |-> NoSlot, ticks |-> 0],
          sem |-> FALSE,
          sched |-> FALSE,
          subscribed |-> FALSE]

-----------------------------------------------------------------------------
(* The gate.  p is a port state; the core it reads is the current one.     *)

freertos_tick_budget_reset(p) == [p EXCEPT !.budget = [owner |-> NoSlot, ticks |-> 0]]

freertos_sched_slot_runnable(p, s) ==
    s # NoSlot /\ p.tid[s] /\ lxp_slot_ref_is_runnable(core, s, p.gen[s])

freertos_sched_cancel_rotation(p) == [p EXCEPT !.rotate = FreertosNoRotation]

(* The next blocked slot after the given one, in cyclic order.             *)
freertos_sched_find_next(p, after, ignore) ==
    LET at(n) == (after + n + NSLOT) % NSLOT
        able == {n \in 1..NSLOT : /\ at(n) # ignore
                                  /\ freertos_sched_slot_runnable(p, at(n))
                                  /\ p.blocked[at(n)]} IN
    IF able = {} THEN NoSlot ELSE at(CHOOSE n \in able : \A k \in able : n <= k)

vTaskResume(p, s) == [p EXCEPT !.nat[s] = "ready"]

vTaskSuspend(p, s) == [p EXCEPT !.nat[s] = "suspended"]

freertos_sched_activate(p, s) ==
    IF s = NoSlot THEN p
    ELSE vTaskResume(freertos_tick_budget_reset(
                         [p EXCEPT !.blocked[s] = FALSE, !.selected = s]), s)

freertos_sched_register_ready(p, s) ==
    IF ~freertos_sched_slot_runnable(p, p.selected) \/ p.blocked[p.selected]
    THEN vTaskResume(freertos_tick_budget_reset(
                         [p EXCEPT !.selected = s, !.blocked[s] = FALSE]), s)
    ELSE IF p.selected # s THEN vTaskSuspend([p EXCEPT !.blocked[s] = TRUE], s) ELSE p

(* Mutant: the gate is left with nothing selected.                         *)
freertos_sched_deselect_only(p, s) ==
    IF p.selected # s THEN p
    ELSE freertos_tick_budget_reset(freertos_sched_cancel_rotation(
             [p EXCEPT !.selected = NoSlot]))

(* The selected guest leaves: cancel its rotation and let the next one run.*)
freertos_sched_deselect(p, s) ==
    IF p.selected # s THEN p
    ELSE LET q == freertos_tick_budget_reset(freertos_sched_cancel_rotation(
                      [p EXCEPT !.selected = NoSlot])) IN
         freertos_sched_activate(q, freertos_sched_find_next(q, s, s))

(* The scheduler task after its semaphore was given.                       *)
freertos_sched_task_entry ==
    /\ rt.sched /\ rt.sem
    /\ LET p == freertos_sched_cancel_rotation([rt EXCEPT !.sem = FALSE])
           cur == rt.selected
           next == freertos_sched_find_next(p, cur, NoSlot) IN
       rt' = IF /\ freertos_sched_slot_runnable(p, cur)
                /\ rt.rotate.owner = cur /\ rt.rotate.gen = rt.gen[cur]
                /\ next # NoSlot
             THEN freertos_sched_activate(
                      vTaskSuspend([p EXCEPT !.blocked[cur] = TRUE], cur), next)
             ELSE p
    /\ UNCHANGED core

(* The slot whose task the tick or the trap found running; host work, or a *)
(* task the core does not call runnable, is none.                          *)
freertos_current_slot(s) ==
    IF s # NoSlot /\ rt.tid[s] /\ lxp_slot_ref_is_runnable(core, s, rt.gen[s]) THEN s
    ELSE NoSlot

(* Mutant: a tick under host work forgets the budget.                      *)
lxp_freertos_tick_resets(running) ==
    LET cur == freertos_current_slot(running)
        spent == IF rt.budget.owner = cur THEN rt.budget.ticks + 1 ELSE 1
        others == {s \in Slot \ {cur} : freertos_sched_slot_runnable(rt, s) /\ rt.blocked[s]} IN
    CASE ~lxp_trap_active(core) \/ cur = NoSlot -> freertos_tick_budget_reset(rt)
      [] cur # NoSlot /\ spent < Quantum(core.bound.base, lxp_guest_sched_weight(core, cur)) ->
             [rt EXCEPT !.budget = [owner |-> cur, ticks |-> spent]]
      [] OTHER ->
             LET p == [rt EXCEPT !.budget = [owner |-> cur, ticks |-> 0]] IN
             IF others # {} /\ ~p.rotate.pending /\ p.sched
             THEN [p EXCEPT !.rotate = [owner |-> cur, gen |-> p.gen[cur], pending |-> TRUE],
                            !.sem = TRUE]
             ELSE p

(* The tick: pause the budget under host work, else spend one tick of the  *)
(* running guest's quantum and ask for a rotation when it is used up.      *)
lxp_freertos_tick(running) ==
    LET cur == freertos_current_slot(running)
        spent == IF rt.budget.owner = cur THEN rt.budget.ticks + 1 ELSE 1
        others == {s \in Slot \ {cur} : freertos_sched_slot_runnable(rt, s) /\ rt.blocked[s]} IN
    IF ~lxp_trap_active(core) THEN freertos_tick_budget_reset(rt)
    ELSE IF cur = NoSlot THEN rt
    ELSE IF spent < Quantum(core.bound.base, lxp_guest_sched_weight(core, cur))
    THEN [rt EXCEPT !.budget = [owner |-> cur, ticks |-> spent]]
    ELSE LET p == [rt EXCEPT !.budget = [owner |-> cur, ticks |-> 0]] IN
         IF others # {} /\ ~p.rotate.pending /\ p.sched
         THEN [p EXCEPT !.rotate = [owner |-> cur, gen |-> p.gen[cur], pending |-> TRUE],
                        !.sem = TRUE]
         ELSE p

-----------------------------------------------------------------------------
(* Memory profiles.                                                        *)

(* A cached profile serves the same policy; a policy that grants devices,  *)
(* or one whose copied text does not fit its region, has no profile.       *)
freertos_prepare_profile(p, s, g, fits) ==
    LET pol == Policy(core, s, g) IN
    IF ~HasPolicy(core, s, g) \/ pol.devs # <<>> THEN [ok |-> FALSE, p |-> p]
    ELSE IF p.profile[s].valid /\ p.profile[s].key = PolicyKey(pol)
    THEN [ok |-> TRUE, p |-> p]
    ELSE IF ~fits THEN [ok |-> FALSE, p |-> [p EXCEPT !.profile[s] = FreertosNoProfile]]
    ELSE [ok |-> TRUE,
          p |-> [p EXCEPT !.profile[s] = [valid |-> TRUE, key |-> PolicyKey(pol)]]]

(* The first trap after a switch of profile compares the MPU registers.    *)
freertos_validate_active_profile(p, s) ==
    p.profile[s].valid /\ p.profile[s].key.slot = s /\ p.profile[s].key.gen = p.gen[s]

-----------------------------------------------------------------------------
(* The callbacks.                                                          *)

FAnswer(rc, p) == rt' = p /\ core' = Answered(core, rc)

(* The descriptor of a fresh task is ready before it runs.                 *)
freertos_stash_desc(p, s, d) == [p EXCEPT !.desc[s] = d]

(* Profile, creation and readback may each fail; the coordinator outranks  *)
(* the new task, which cannot run before it is registered with the gate.   *)
freertos_spawn_common(s, g, p, fits, created, captured) ==
    LET prof == freertos_prepare_profile(p, s, g, fits)
        made == [prof.p EXCEPT !.gen[s] = g, !.tid[s] = TRUE, !.nat[s] = "ready"] IN
    CASE ~prof.ok -> FAnswer(FALSE, prof.p)
      [] prof.ok /\ ~created -> FAnswer(FALSE, [prof.p EXCEPT !.gen[s] = 0])
      [] prof.ok /\ created /\ ~captured ->
             FAnswer(FALSE, [prof.p EXCEPT !.gen[s] = 0, !.profile[s] = FreertosNoProfile])
      [] OTHER -> FAnswer(TRUE, freertos_sched_register_ready(made, s))

(* How far a creation gets.                                                *)
FreertosOutcomes == {<<TRUE, TRUE, TRUE>>, <<FALSE, TRUE, TRUE>>, <<TRUE, FALSE, TRUE>>,
             <<TRUE, TRUE, FALSE>>}

freertos_spawn_launch ==
    /\ InCall("launch")
    /\ LET s == core.call.slot IN
       \E o \in FreertosOutcomes :
           IF rt.tid[s] THEN o = <<TRUE, TRUE, TRUE>> /\ FAnswer(FALSE, rt)
           ELSE freertos_spawn_common(s, core.call.gen, freertos_stash_desc(rt, s, "none"),
                                      o[1], o[2], o[3])

freertos_spawn_resume_start ==
    /\ InCall("start")
    /\ LET s == core.call.slot IN
       \E o \in FreertosOutcomes :
           IF rt.tid[s] THEN o = <<TRUE, TRUE, TRUE>> /\ FAnswer(FALSE, rt)
           ELSE freertos_spawn_common(s, core.call.gen, rt, o[1], o[2], o[3])

(* The parked task reads its descriptor once ready is published.           *)
freertos_spawn_resume_parked ==
    /\ InCall("resume")
    /\ LET s == core.call.slot
           g == core.call.gen IN
       IF \/ ~rt.tid[s] \/ rt.desc[s] = "none" \/ rt.gen[s] # g
          \/ ~rt.profile[s].valid \/ ~HasPolicy(core, s, rt.gen[s])
          \/ PolicyKey(Policy(core, s, rt.gen[s])) # rt.profile[s].key
       THEN FAnswer(FALSE, rt)
       ELSE FAnswer(TRUE, freertos_sched_register_ready(freertos_stash_desc(rt, s, "ready"), s))

freertos_abort_slot ==
    /\ InCall("abort")
    /\ LET s == core.call.slot IN
       IF rt.tid[s] /\ rt.gen[s] # core.call.gen THEN FAnswer(FALSE, rt)
       ELSE FAnswer(TRUE, freertos_sched_deselect(
                [rt EXCEPT !.tid[s] = FALSE, !.desc[s] = "none", !.gen[s] = 0,
                           !.profile[s] = FreertosNoProfile, !.blocked[s] = FALSE,
                           !.nat[s] = "none"], s))

freertos_park_slot ==
    /\ InCall("park")
    /\ LET s == core.call.slot IN
       IF \/ ~lxp_slot_ref_is_runnable(core, s, rt.gen[s])
          \/ ~rt.tid[s] \/ rt.gen[s] # core.call.gen
       THEN FAnswer(FALSE, rt)
       ELSE FAnswer(TRUE, freertos_sched_deselect(
                [vTaskSuspend(rt, s) EXCEPT !.blocked[s] = FALSE], s))

-----------------------------------------------------------------------------
(* The guests.                                                             *)

(* FreeRTOS runs a ready guest only while the coordinator waits.           *)
FreertosOnCpu(s) == rt.nat[s] = "ready" /\ core.call.op = "none"

(* The descriptor of this park is not ready yet.                           *)
freertos_park_prepare(p, s, g) ==
    IF ~p.tid[s] \/ p.gen[s] # g THEN p ELSE freertos_stash_desc(p, s, "wait")

(* The trap of the running guest; a profile that is not its own kills it.  *)
freertos_svc_c(s, outcome) ==
    /\ FreertosOnCpu(s) /\ core.pos[s] = "user" /\ freertos_current_slot(s) = s
    /\ IF ~freertos_validate_active_profile(rt, s)
       THEN core' = Faulted(core, s, rt.gen[s]) /\ UNCHANGED rt
       ELSE /\ core' = lxp_dispatch_slot(core, s, rt.gen[s], outcome)
            /\ rt' = IF core'.pos[s] # "entry" THEN rt
                     ELSE freertos_park_prepare(rt, s, rt.gen[s])

(* A fault of the running guest: it spins in the park entry until reaped.  *)
freertos_memfault_c(s) ==
    /\ FreertosOnCpu(s) /\ core.pos[s] = "user"
    /\ lxp_trap_active(core) /\ freertos_current_slot(s) = s
    /\ core' = Faulted(core, s, rt.gen[s])
    /\ UNCHANGED rt

(* The park entry leaves its loop when the descriptor is ready.            *)
freertos_park_entry(s) ==
    /\ FreertosOnCpu(s) /\ core.pos[s] = "entry" /\ core.want[s] # "exit"
    /\ rt.desc[s] = "ready"
    /\ core' = [core EXCEPT !.pos[s] = "user"]
    /\ UNCHANGED rt

-----------------------------------------------------------------------------
(* The run bracket.                                                        *)

(* It fails before the scheduler task exists, or when the tick hook has    *)
(* another subscriber, which deletes the task again.                       *)
freertos_prepare ==
    /\ InCall("prepare")
    /\ LET fresh == freertos_tick_budget_reset(freertos_sched_cancel_rotation(
                        [rt EXCEPT !.sem = FALSE, !.selected = NoSlot])) IN
       \/ FAnswer(FALSE, rt)
       \/ FAnswer(FALSE, fresh)
       \/ FAnswer(TRUE, [fresh EXCEPT !.sched = TRUE, !.subscribed = TRUE,
                                     !.profile = [s \in Slot |-> FreertosNoProfile],
                                     !.blocked = [s \in Slot |-> FALSE]])

freertos_teardown ==
    /\ InCall("teardown")
    /\ FAnswer(TRUE, freertos_tick_budget_reset(freertos_sched_cancel_rotation(
                        [rt EXCEPT !.subscribed = FALSE, !.sched = FALSE,
                                   !.selected = NoSlot])))

FreertosCallback ==
    \/ freertos_spawn_launch
    \/ freertos_spawn_resume_start
    \/ freertos_spawn_resume_parked
    \/ freertos_abort_slot
    \/ freertos_park_slot
    \/ freertos_prepare
    \/ freertos_teardown

(* The tick lands on the running guest, or on host work.                   *)
FreertosTickGuest ==
    \E s \in Slot : /\ rt.subscribed /\ FreertosOnCpu(s)
                    /\ rt' = lxp_freertos_tick(s) /\ UNCHANGED core

FreertosTickHost == rt.subscribed /\ rt' = lxp_freertos_tick(NoSlot) /\ UNCHANGED core

FreertosGuestStep ==
    \/ \E s \in Slot, o \in {"fast", "park", "exit"} : freertos_svc_c(s, o)
    \/ \E s \in Slot : freertos_memfault_c(s)
    \/ \E s \in Slot : freertos_park_entry(s)

FreertosNext ==
    \/ CoordinatorStep /\ UNCHANGED rt
    \/ FreertosCallback
    \/ FreertosGuestStep
    \/ FreertosTickGuest
    \/ FreertosTickHost
    \/ freertos_sched_task_entry

-----------------------------------------------------------------------------
(* What the contract sees of the port.                                     *)
FreertosTask ==
    [s \in Slot |->
        IF ~rt.tid[s] THEN [state |-> "none", gen |-> 0]
        ELSE [state |-> IF rt.nat[s] = "ready" \/ rt.blocked[s] THEN "live" ELSE "parked",
              gen |-> rt.gen[s]]]

FreertosArmed == rt.sched \/ rt.subscribed

(* The gate: at most one guest is natively ready, and whenever some guest  *)
(* is not parked the selected one is: nobody is left suspended behind a    *)
(* gate with nothing selected (freertos_sched_register_ready, park, abort).*)
OneGuestRuns ==
    /\ \A s, t \in Slot : rt.nat[s] = "ready" /\ rt.nat[t] = "ready" => s = t
    /\ (\E s \in Slot : FreertosTask[s].state = "live") =>
           rt.selected # NoSlot /\ rt.nat[rt.selected] = "ready"

(* A guest that can execute its program does so with the MPU regions of    *)
(* its own current address space (freertos_prepare_profile).               *)
FreertosViews ==
    \A s \in Slot : (rt.nat[s] = "ready" /\ core.pos[s] = "user" /\ core.alive[s]) =>
        rt.profile[s].valid /\ rt.profile[s].key = PolicyKey(Policy(core, s, core.gen[s]))

FreertosWaiting(s) == rt.tid[s] /\ rt.blocked[s] /\ core.runnable[s]
=============================================================================
