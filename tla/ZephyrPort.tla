----------------------------- MODULE ZephyrPort -----------------------------
(***************************************************************************)
(* The Zephyr port: guests are K_USER threads of one priority in Zephyr's  *)
(* own ready queue, each bound to the memory domain of its region.  Kernel *)
(* time slicing is off: a 1 ms timer spends the quantum of the guest it    *)
(* interrupts and a worker thread moves an expired guest to the tail of    *)
(* the queue.  The coordinator outranks the guests.  The worker runs       *)
(* between two callbacks only: when the coordinator outranks it this is    *)
(* immediate, and when it outranks the coordinator it has already run when *)
(* the tick that woke it returns.                                          *)
(***************************************************************************)
EXTENDS Seam

VARIABLE zp

(* A region's domain: the partitions it holds and the policy they were     *)
(* built for.                                                              *)
NoDomain == [valid |-> FALSE, key |-> NoKey, parts |-> {}]

ZephyrNoProfile == [valid |-> FALSE, key |-> NoKey]

ZephyrInit ==
    zp = [tid |-> [s \in Slot |-> FALSE],
          gen |-> [s \in Slot |-> 0],
          policy |-> [s \in Slot |-> ZephyrNoProfile],
          nat |-> [s \in Slot |-> "none"],
          queue |-> <<>>,
          domain |-> [r \in Region |-> NoDomain],
          budget |-> [owner |-> NoSlot, ms |-> 0],
          target |-> [slot |-> NoSlot, gen |-> 0],
          sem |-> FALSE,
          stop |-> FALSE,
          timer |-> FALSE,
          worker |-> "none"]

-----------------------------------------------------------------------------
(* Zephyr's scheduler.                                                     *)

(* Neither call does anything to a thread that has ended.                  *)
k_thread_suspend(p, s) ==
    IF p.nat[s] = "dead" THEN p
    ELSE [p EXCEPT !.nat[s] = "suspended", !.queue = Without(@, s)]

k_thread_resume(p, s) ==
    IF p.nat[s] \in {"ready", "dead"} THEN p
    ELSE [p EXCEPT !.nat[s] = "ready", !.queue = Append(@, s)]

k_thread_abort(p, s, left) ==
    [p EXCEPT !.nat[s] = left, !.queue = Without(@, s)]

ZephyrOnCpu(s) ==
    zp.queue # <<>> /\ Head(zp.queue) = s /\ core.call.op = "none"

-----------------------------------------------------------------------------
(* Guest rotation.                                                         *)

zephyr_current_slot(s) ==
    IF s # NoSlot /\ zp.tid[s] /\ lxp_slot_ref_is_runnable(core, s, zp.gen[s]) THEN s
    ELSE NoSlot

(* Another guest a rotation would let run, as the timer and the worker     *)
(* look for it.                                                            *)
HasPeer(p, s) ==
    \E t \in Slot \ {s} : p.tid[t] /\ lxp_guest_sched_weight(core, t) # 0

(* The sampler: a tick that finds no guest running forgets the budget.     *)
zephyr_guest_quantum_tick(running) ==
    LET cur == zephyr_current_slot(running)
        spent == IF zp.budget.owner = cur THEN zp.budget.ms + 1 ELSE 1 IN
    IF ~lxp_trap_active(core) \/ cur = NoSlot
    THEN [zp EXCEPT !.budget = [owner |-> NoSlot, ms |-> 0]]
    ELSE IF spent < Quantum(core.bound.base, lxp_guest_sched_weight(core, cur))
    THEN [zp EXCEPT !.budget = [owner |-> cur, ms |-> spent]]
    ELSE LET p == [zp EXCEPT !.budget = [owner |-> cur, ms |-> 0]] IN
         IF ~HasPeer(zp, cur) THEN p
         ELSE [p EXCEPT !.target = [slot |-> cur, gen |-> p.gen[cur]], !.sem = TRUE]

(* Mutant: the worker trusts the request it was woken for.                 *)
RotatableStale(p, target) ==
    /\ target.slot # NoSlot
    /\ p.tid[target.slot] /\ p.gen[target.slot] = target.gen

(* The worker, with interrupts locked from the check to the requeue.       *)
Rotatable(p, target) ==
    /\ target.slot # NoSlot
    /\ p.tid[target.slot] /\ p.gen[target.slot] = target.gen
    /\ lxp_slot_ref_is_runnable(core, target.slot, p.gen[target.slot])

zephyr_guest_quantum_worker ==
    /\ zp.worker = "running" /\ zp.sem
    /\ core.call.op \in {"none", "teardown"}
    /\ LET p == [zp EXCEPT !.sem = FALSE]
           s == zp.target.slot
           q == [p EXCEPT !.target.slot = NoSlot] IN
       zp' = CASE zp.stop -> [p EXCEPT !.worker = "ended"]
               [] ~zp.stop /\ Rotatable(zp, zp.target) /\ HasPeer(zp, s) ->
                      k_thread_resume(k_thread_suspend(q, s), s)
               [] OTHER -> q
    /\ UNCHANGED core

-----------------------------------------------------------------------------
(* Memory domains.                                                         *)

Grantable(s, g) == HasPolicy(core, s, g) /\ Policy(core, s, g).devs = <<>>

DomainServes(p, s) ==
    LET r == AddressSpace(core, s).ridx IN
    p.domain[r].valid /\ p.domain[r].key.space = AddressSpace(core, s)

Bound(p, s, g) ==
    [p EXCEPT !.policy[s] = [valid |-> TRUE, key |-> PolicyKey(Policy(core, s, g))]]

Partitions(text) == {"program", "dynamic"} \cup (IF text THEN {"executable"} ELSE {})

(* A domain that does not serve the policy loses its partitions and is     *)
(* rebuilt.  Every failure after that leaves it without any, and leaves    *)
(* the key it was last valid for.                                          *)
setup_domain(p, s, g, built) ==
    LET space == AddressSpace(core, s) IN
    CASE ~Grantable(s, g) -> [ok |-> FALSE, p |-> p]
      [] Grantable(s, g) /\ DomainServes(p, s) -> [ok |-> TRUE, p |-> Bound(p, s, g)]
      [] Grantable(s, g) /\ ~DomainServes(p, s) /\ ~built ->
             [ok |-> FALSE, p |-> [p EXCEPT !.domain[space.ridx].parts = {}]]
      [] OTHER ->
             [ok |-> TRUE,
              p |-> Bound([p EXCEPT !.domain[space.ridx] =
                              [valid |-> TRUE, key |-> PolicyKey(Policy(core, s, g)),
                               parts |-> Partitions(space.text)]], s, g)]

zephyr_bind_prepared_domain(p, s, g) ==
    IF Grantable(s, g) /\ DomainServes(p, s) THEN [ok |-> TRUE, p |-> Bound(p, s, g)]
    ELSE [ok |-> FALSE, p |-> p]

zephyr_validate_active_profile(s) ==
    LET key == zp.policy[s].key
        domain == zp.domain[key.space.ridx] IN
    /\ zp.policy[s].valid /\ key.slot = s /\ key.gen = zp.gen[s]
    /\ domain.valid /\ domain.key.space = key.space

-----------------------------------------------------------------------------
(* The callbacks.                                                          *)

ZAnswer(rc, p) == zp' = p /\ core' = Answered(core, rc)

(* The thread is created dormant and started once its domain took it.      *)
ZephyrStart(s, g, bound, joined) ==
    CASE ~bound.ok -> ZAnswer(FALSE, bound.p)
      [] bound.ok /\ ~joined -> ZAnswer(FALSE, bound.p)
      [] OTHER -> ZAnswer(TRUE, k_thread_resume([bound.p EXCEPT !.tid[s] = TRUE,
                                                               !.gen[s] = g], s))

zephyr_spawn_launch ==
    /\ InCall("launch")
    /\ LET s == core.call.slot
           g == core.call.gen IN
       \E built, joined \in BOOLEAN :
           IF zp.tid[s] THEN built /\ joined /\ ZAnswer(FALSE, zp)
           ELSE ZephyrStart(s, g, setup_domain(zp, s, g, built), joined)

zephyr_spawn_resume_start ==
    /\ InCall("start")
    /\ LET s == core.call.slot
           g == core.call.gen IN
       \E joined \in BOOLEAN :
           IF zp.tid[s] THEN joined /\ ZAnswer(FALSE, zp)
           ELSE ZephyrStart(s, g, zephyr_bind_prepared_domain(zp, s, g), joined)

(* The saved native frame is rewritten with the guest's context.           *)
zephyr_spawn_resume_parked ==
    /\ InCall("resume")
    /\ LET s == core.call.slot
           g == core.call.gen IN
       IF /\ zp.tid[s] /\ zp.gen[s] = g
          /\ zp.policy[s].valid /\ HasPolicy(core, s, zp.gen[s])
          /\ PolicyKey(Policy(core, s, zp.gen[s])) = zp.policy[s].key
       THEN zp' = k_thread_resume(zp, s) /\ core' = [Answered(core, TRUE) EXCEPT !.pos[s] = "user"]
       ELSE ZAnswer(FALSE, zp)

zephyr_abort_slot ==
    /\ InCall("abort")
    /\ LET s == core.call.slot IN
       IF zp.tid[s] /\ zp.gen[s] # core.call.gen THEN ZAnswer(FALSE, zp)
       ELSE ZAnswer(TRUE, [k_thread_abort(zp, s, "none")
                              EXCEPT !.tid[s] = FALSE, !.gen[s] = 0,
                                     !.policy[s] = ZephyrNoProfile])

zephyr_park_slot ==
    /\ InCall("park")
    /\ LET s == core.call.slot IN
       IF \/ ~lxp_slot_ref_is_runnable(core, s, zp.gen[s])
          \/ ~zp.tid[s] \/ zp.gen[s] # core.call.gen
       THEN ZAnswer(FALSE, zp)
       ELSE ZAnswer(TRUE, k_thread_suspend(zp, s))

-----------------------------------------------------------------------------
(* The guests.                                                             *)

lxp_zephyr_kernel_oops_c(s, outcome) ==
    /\ ZephyrOnCpu(s) /\ core.pos[s] = "user" /\ lxp_trap_active(core)
    /\ zephyr_current_slot(s) = s
    /\ core' = IF zephyr_validate_active_profile(s)
               THEN lxp_dispatch_slot(core, s, zp.gen[s], outcome)
               ELSE Faulted(core, s, zp.gen[s])
    /\ UNCHANGED zp

(* A fault of the running guest is reported, then Zephyr ends its thread.  *)
k_sys_fatal_error_handler(s) ==
    /\ ZephyrOnCpu(s) /\ core.pos[s] = "user" /\ lxp_trap_active(core)
    /\ zephyr_current_slot(s) = s
    /\ core' = lxp_slot_report_memory_fault(core, s, zp.gen[s])
    /\ zp' = k_thread_abort(zp, s, "dead")

-----------------------------------------------------------------------------
(* The run bracket.                                                        *)

zephyr_prepare ==
    /\ InCall("prepare")
    /\ \/ ZAnswer(FALSE, zp)
       \/ ZAnswer(TRUE, [zp EXCEPT !.domain = [r \in Region |-> [zp.domain[r] EXCEPT !.valid = FALSE,
                                                                            !.key = NoKey]],
                                   !.policy = [s \in Slot |-> ZephyrNoProfile],
                                   !.budget = [owner |-> NoSlot, ms |-> 0],
                                   !.target = [slot |-> NoSlot, gen |-> 0],
                                   !.stop = FALSE, !.sem = FALSE,
                                   !.worker = "running", !.timer = TRUE])

(* The timer is stopped, the worker told to end, and then waited for.      *)
zephyr_teardown_stop ==
    /\ InCall("teardown") /\ zp.worker # "none" /\ ~zp.stop
    /\ zp' = [zp EXCEPT !.timer = FALSE, !.stop = TRUE, !.sem = TRUE]
    /\ UNCHANGED core

zephyr_teardown ==
    /\ InCall("teardown")
    /\ zp.worker = "none" \/ zp.worker = "ended"
    /\ ZAnswer(TRUE, [zp EXCEPT !.timer = FALSE, !.worker = "none",
                                !.budget = [owner |-> NoSlot, ms |-> 0],
                                !.target.slot = NoSlot])

ZephyrCallback ==
    \/ zephyr_spawn_launch
    \/ zephyr_spawn_resume_start
    \/ zephyr_spawn_resume_parked
    \/ zephyr_abort_slot
    \/ zephyr_park_slot
    \/ zephyr_prepare
    \/ zephyr_teardown_stop
    \/ zephyr_teardown

ZephyrTickGuest ==
    \E s \in Slot : /\ zp.timer /\ ZephyrOnCpu(s)
                    /\ zp' = zephyr_guest_quantum_tick(s) /\ UNCHANGED core

ZephyrTickHost == zp.timer /\ zp' = zephyr_guest_quantum_tick(NoSlot) /\ UNCHANGED core

ZephyrNext ==
    \/ CoordinatorStep /\ UNCHANGED zp
    \/ ZephyrCallback
    \/ \E s \in Slot, o \in {"fast", "park", "exit"} : lxp_zephyr_kernel_oops_c(s, o)
    \/ \E s \in Slot : k_sys_fatal_error_handler(s)
    \/ ZephyrTickGuest
    \/ ZephyrTickHost
    \/ zephyr_guest_quantum_worker

-----------------------------------------------------------------------------
(* What the contract sees of the port; a thread Zephyr ended after a fault *)
(* is the slot's until it is reaped.                                       *)
ZephyrTask ==
    [s \in Slot |->
        IF ~zp.tid[s] THEN [state |-> "none", gen |-> 0]
        ELSE [state |-> IF zp.nat[s] = "suspended" THEN "parked" ELSE "live",
              gen |-> zp.gen[s]]]

ZephyrArmed == zp.timer \/ zp.worker # "none"

(* A guest that may execute its program is bound to a domain that holds    *)
(* the partitions of its own address space (setup_domain).                 *)
ZephyrViews ==
    \A s \in Slot : (zp.nat[s] = "ready" /\ core.pos[s] = "user" /\ core.alive[s]) =>
        LET space == AddressSpace(core, s) IN
        /\ zp.policy[s].valid /\ zp.policy[s].key = PolicyKey(Policy(core, s, core.gen[s]))
        /\ zp.domain[space.ridx].key.space = space
        /\ zp.domain[space.ridx].parts = Partitions(space.text)
=============================================================================
