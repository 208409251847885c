---------------------------- MODULE Coordinator ----------------------------
(***************************************************************************)
(* The coordinator task of lxp: how it claims what guests publish          *)
(* (run/lxp_guest_event.c), runs their deferred calls (lxp_run.c), scans   *)
(* the blocked ones under weighted service classes (run/lxp_blocked.c) and *)
(* delivers signals to live and parked tasks (lxp_signal.c,                *)
(* run/lxp_signal_route.c, signal/lxp_signal_policy.c); and what a guest's *)
(* trap does to it (run/lxp_trap.c, run/lxp_futex.c, sys/lxp_sys_signal.c).*)
(*                                                                         *)
(* The coordinator outranks every guest, so a guest traps only while the   *)
(* coordinator waits for an event or is blocked in a provider call that it *)
(* makes for a deferred request.  A trap is atomic.  Creation, exec and    *)
(* the regions of a task are the subject of Lifecycle; here a slot that    *)
(* exits may be given to a new task.                                       *)
(***************************************************************************)
EXTENDS Integers, Sequences, FiniteSets, FiniteSetsExt, SequencesExt

CONSTANTS
    NSLOT,              \* LXP_NSLOT
    EVENT_BURST,        \* LXP_COORDINATOR_EVENT_BURST
    SIGNAL_NEST_MAX,    \* LXP_SIGNAL_NEST_MAX
    Profiles            \* what the guests of a behaviour do: the deferred calls
                        \* they make, the signals they send each other and
                        \* themselves, their other traps and their handlers

ASSUME CoordinatorConstants ==
    NSLOT \in Nat \ {0} /\ EVENT_BURST \in Nat \ {0} /\ SIGNAL_NEST_MAX \in Nat \ {0}

Slots == 0 .. NSLOT - 1

VARIABLES
    task,       \* per slot: the process, its native task, mailbox and event hint
    pc,         \* where the coordinator is: loop, host, scan, wait, stopped
    exec,       \* the slot whose deferred call it runs in "host"
    cursor,     \* where the next claim starts
    burst,      \* guest_event_burst
    deferred,   \* burst_deferred
    fair,       \* service cursor, one slot cursor per class, completion hint
    word,       \* the futex word the guests share
    owed,       \* ghost: guests that stored to the word and have yet to wake
    profile

vars == <<task, pc, exec, cursor, burst, deferred, fair, word, owed, profile>>

-----------------------------------------------------------------------------
\* Signals, by their numbers: the lowest pending one is delivered first.

INT == 2
KILL == 9
USR == 10
ALRM == 14
CHLD == 17
CONT == 18
STOP == 19
TSTP == 20
Sig == {INT, KILL, USR, ALRM, CHLD, CONT, STOP, TSTP}
Unmaskable == {KILL, STOP}
StopSigs == {STOP, TSTP}

sig_default_ignore(g) == g \in {CHLD, CONT}
sig_caught(t, g) == t.act[g] = "fn"
sig_swallowed(t, g) == t.act[g] = "ign" \/ (t.act[g] = "dfl" /\ sig_default_ignore(g))
sig_stops_proc(t, g) == g = STOP \/ (g \in StopSigs /\ t.act[g] = "dfl")

deliverable(t) == t.pend \ t.mask
pending_deliverable(t) == IF deliverable(t) = {} THEN 0 ELSE Min(deliverable(t))

\* The last generated of a stop and a continuation wins.
signal_latch(t, g) ==
    [t EXCEPT !.pend = (@ \ (CASE g = CONT -> StopSigs
                                [] g \in StopSigs -> {CONT}
                                [] OTHER -> {})) \cup {g}]

signal_terminate(t) == [t EXCEPT !.intent = "exit"]
Marked(t) == [t EXCEPT !.hint = TRUE]

\* A trap that parks leaves the native task at the park entry, not yet parked.
park_frame(t) == Marked([t EXCEPT !.entry = TRUE])

\* Enter a handler: the frame keeps the mask its return restores, which for a
\* call woken from sigsuspend is the mask from before the suspend.
CanPush(t) == Len(t.save) < SIGNAL_NEST_MAX

\* Mutant: the frame always keeps the mask of the moment.
sig_save_push_plain(t, g) ==
    [t EXCEPT !.save = Append(@, t.mask), !.susp.on = FALSE, !.mask = @ \cup {g},
              !.own = Append(@, t.mask \cup {g})]
sig_save_push(t, g) ==
    [t EXCEPT !.save = Append(@, IF t.susp.on THEN t.susp.saved ELSE t.mask),
              !.susp.on = FALSE,
              !.mask = @ \cup {g},
              !.own = Append(@, t.mask \cup {g})]

\* lxp_coordinator_resume_slot and lxp_coordinator_complete_slot (the RTOS
\* refusals they handle are actions of Lifecycle).
resume_slot(t) ==
    IF t.stop # "no" \/ t.intent = "exit" \/ t.host # "parked" THEN t
    ELSE [t EXCEPT !.host = "running", !.entry = FALSE]
\* Mutant: completes into a stopped task.
complete_slot_runs(t) ==
    IF t.host # "parked" \/ t.intent = "exit" THEN t
    ELSE [t EXCEPT !.host = "running", !.entry = FALSE]
complete_slot(t) ==
    CASE t.host # "parked" -> t
      [] t.host = "parked" /\ t.stop = "parked" -> [t EXCEPT !.stop = "ready"]
      [] t.host = "parked" /\ t.stop = "ready" -> t
      [] OTHER -> resume_slot(t)

\* A signal delivered to a parked task whose call has ended.
deliver_signal_parked(t, g) ==
    CASE sig_stops_proc(t, g) -> complete_slot([t EXCEPT !.stop = "parked"])
      [] ~sig_stops_proc(t, g) /\ sig_swallowed(t, g) ->
            complete_slot([t EXCEPT !.spoilt = @ \/ t.susp.on])
      [] sig_caught(t, g) /\ CanPush(t) -> resume_slot(sig_save_push(t, g))
      [] OTHER -> Marked(signal_terminate(t))

\* A signal delivered to a live task at its trap.
deliver_signal(t, g) ==
    CASE g \in t.mask -> signal_latch(t, g)
      [] g \notin t.mask /\ sig_stops_proc(t, g) -> park_frame([t EXCEPT !.stop = "ready"])
      [] g \notin t.mask /\ ~sig_stops_proc(t, g) /\ sig_swallowed(t, g) -> t
      [] g \notin t.mask /\ sig_caught(t, g) /\ CanPush(t) -> sig_save_push(t, g)
      [] OTHER -> park_frame(signal_terminate(t))

Take(t, g) == [t EXCEPT !.pend = @ \ {g}]

-----------------------------------------------------------------------------
\* Tasks

NoWait == [kind |-> "none", ready |-> FALSE, old |-> FALSE, woken |-> FALSE, val |-> 0]
NoCall == [op |-> "none"]
Waiting(k) == [NoWait EXCEPT !.kind = k]

Fresh(act) ==
    [alive |-> TRUE, host |-> "running", entry |-> FALSE, intent |-> "none",
     gen |-> 0, mail |-> "idle", owner |-> 0, call |-> NoCall, hint |-> FALSE,
     wait |-> NoWait,
     stop |-> "no", pend |-> {}, mask |-> {}, act |-> act, alarm |-> "off",
     susp |-> [on |-> FALSE, saved |-> {}], save |-> <<>>,
     own |-> <<{}>>,    \* ghost: the mask each level of the program set
     spoilt |-> FALSE]  \* ghost: a sigsuspend ended without a handler

\* Mutant: the mailbox of the dead task is kept.
slot_reassign_keeps(t) == [t EXCEPT !.gen = 1 - @]
\* lxp_handle_exit as far as this slot's bookkeeping goes; the mailbox is
\* emptied and the slot's generation moves on (lxp_deferred_slot_reassign).
slot_reassign(t) == [t EXCEPT !.mail = "idle", !.gen = 1 - @]
handle_exit(t) == slot_reassign([t EXCEPT !.alive = FALSE, !.host = "dead", !.save = <<>>])

\* The service class of a wait (lxp_wait_service_class) and the schedule.
service_class(k) ==
    CASE k = "hostfs" -> "fs"
      [] k \in {"socket", "poll"} -> "socket"
      [] k = "console" -> "console"
      [] k \in {"timer", "futex", "pipe"} -> "ordinary"
      [] OTHER -> "none"
Classes == {"fs", "socket", "console", "ordinary"}
service_schedule == <<"fs", "fs", "fs", "fs", "socket", "socket", "socket", "console", "console",
                      "ordinary">>

Parked(t) == t.alive /\ t.host = "parked"
ClassesOf(ts, P(_)) ==
    {service_class(ts[s].wait.kind) : s \in {x \in Slots : Parked(ts[x]) /\ P(ts[x])}} \ {"none"}

\* Mutant: every selection starts at the head of the schedule.
service_select_restarts(ts, f) ==
    LET pending == ClassesOf(ts, LAMBDA t : TRUE)
        aged == ClassesOf(ts, LAMBDA t : t.wait.old)
        eligible == IF aged # {} THEN aged ELSE pending
        hits == {i \in 1 .. Len(service_schedule) : service_schedule[i] \in eligible}
    IN  CASE "fs" \in pending /\ f.hint -> [class |-> "fs", fair |-> [f EXCEPT !.hint = FALSE]]
          [] hits = {} -> [class |-> "none", fair |-> f]
          [] OTHER -> [class |-> service_schedule[Min(hits)], fair |-> f]

\* lxp_blocked_service_select: a completed file-system request first, then the
\* aged classes if there are any, in the order of the schedule.
service_select(ts, f) ==
    LET pending == ClassesOf(ts, LAMBDA t : TRUE)
        aged == ClassesOf(ts, LAMBDA t : t.wait.old)
        eligible == IF aged # {} THEN aged ELSE pending
        Place(i) == ((f.cursor + i) % Len(service_schedule)) + 1
        hits == {i \in 0 .. Len(service_schedule) - 1 : service_schedule[Place(i)] \in eligible}
    IN  CASE "fs" \in pending /\ f.hint -> [class |-> "fs", fair |-> [f EXCEPT !.hint = FALSE]]
          [] hits = {} -> [class |-> "none", fair |-> f]
          [] OTHER -> [class |-> service_schedule[Place(Min(hits))],
                       fair |-> [f EXCEPT !.cursor = Place(Min(hits)) % Len(service_schedule)]]

-----------------------------------------------------------------------------
\* The scan of one slot.  Each part yields the task, whether the scan made
\* progress and whether the rest of this slot is skipped.

Result(t, progress, skip) == [t |-> t, progress |-> progress, skip |-> skip]

pending_fatal(t) ==
    {g \in deliverable(t) : g = KILL \/ (t.act[g] = "dfl" /\ ~sig_default_ignore(g)
                                          /\ g \notin StopSigs)}
\* Mutant: any signal waits for the request.
defer_stateful_all(t, g) == t.wait.kind = "hostfs"
\* A file-system request may have had its effect: a handler waits for its result.
defer_stateful(t, g) == t.wait.kind = "hostfs" /\ sig_caught(t, g)
clear_stop(t) == [t EXCEPT !.stop = "no"]
interrupt_wait(t) == [t EXCEPT !.wait = NoWait]

handle_continued(t) ==
    LET ready == t.stop = "ready"
        typed == t.wait.kind # "none"
        caught == sig_caught(t, CONT)
        can == caught /\ CONT \notin t.mask /\ (ready \/ typed)
               /\ ~(typed /\ defer_stateful(t, CONT))
        kept == IF caught /\ ~can THEN t ELSE Take(t, CONT)
        free == clear_stop(kept)
    IN  CASE can -> deliver_signal_parked(IF ready THEN free ELSE interrupt_wait(free), CONT)
          [] ~can /\ ready -> resume_slot(free)
          [] OTHER -> free

handle_stopped(t) ==
    LET fatal == pending_fatal(t)
    IN  CASE fatal # {} ->
                Result(Marked(signal_terminate(clear_stop(Take(t, Min(fatal))))), TRUE, TRUE)
          [] fatal = {} /\ CONT \in t.pend -> Result(handle_continued(t), TRUE, TRUE)
          [] OTHER -> Result(t, FALSE, TRUE)

check_alarm(t) ==
    IF t.alarm = "due" /\ t.host = "parked" THEN signal_latch([t EXCEPT !.alarm = "off"], ALRM) ELSE t

handle_signal(t) ==
    LET g == IF t.host = "parked" THEN pending_deliverable(t) ELSE 0
    IN  CASE g # 0 /\ sig_stops_proc(t, g) ->
                Result([Take(t, g) EXCEPT !.stop = "parked"], TRUE, TRUE)
          [] g # 0 /\ ~sig_stops_proc(t, g) /\ t.wait.kind # "none" /\ ~defer_stateful(t, g) ->
                IF sig_swallowed(t, g) THEN Result(Take(t, g), FALSE, FALSE)
                ELSE Result(deliver_signal_parked(interrupt_wait(Take(t, g)), g), TRUE, FALSE)
          [] OTHER -> Result(t, FALSE, FALSE)

\* The retry of a parked call.  A timer or a timed futex wait is "ready" once its
\* deadline has passed; any other wait once its provider can answer.
RetryEnds(t) == t.host = "parked" /\ (t.wait.ready \/ t.wait.woken)
retry(t) ==
    LET done == interrupt_wait(t)
        g == pending_deliverable(done)
    IN  CASE ~RetryEnds(t) -> Result(t, FALSE, FALSE)
          [] RetryEnds(t) /\ t.wait.kind = "hostfs" /\ g # 0 ->
                Result(deliver_signal_parked(Take(done, g), g), TRUE, FALSE)
          [] OTHER -> Result(complete_slot(done), TRUE, FALSE)

\* acc: tasks, progress so far, and the slot cursor of the selected class
scan_slot(acc, s, class) ==
    LET t0 == acc.ts[s]
        sg == IF t0.stop # "no" THEN handle_stopped(t0) ELSE handle_signal(check_alarm(t0))
        tries == ~sg.skip /\ ~(acc.progress \/ sg.progress)
                 /\ service_class(sg.t.wait.kind) = class
        re == IF tries THEN retry(sg.t) ELSE sg
    IN  IF ~t0.alive THEN acc
        ELSE [ts |-> [acc.ts EXCEPT ![s] = re.t],
              progress |-> acc.progress \/ sg.progress \/ re.progress,
              next |-> IF tries /\ re.progress THEN (s + 1) % NSLOT ELSE acc.next]

scan_blocked(ts, f) ==
    LET sel == service_select(ts, f)
        start == IF sel.class = "none" THEN 0 ELSE f.slot[sel.class]
        order == [i \in 1 .. NSLOT |-> (start + i - 1) % NSLOT]
        Each(acc, s) == scan_slot(acc, s, sel.class)
        all == FoldLeft(Each, [ts |-> ts, progress |-> FALSE, next |-> start], order)
        next == IF all.progress THEN all.next ELSE (start + 1) % NSLOT
    IN  [ts |-> all.ts, progress |-> all.progress,
         fair |-> IF sel.class = "none" THEN sel.fair
                  ELSE [sel.fair EXCEPT !.slot[sel.class] = next]]

-----------------------------------------------------------------------------
\* The coordinator

\* lxp_claim_slot_event: what a slot has published, most urgent first.
claim_slot_event(t) ==
    CASE ~t.alive -> "none"
      [] t.alive /\ t.intent \in {"exit", "exit_group"} -> "exit"
      [] t.alive /\ t.intent = "defer" /\ t.mail = "ready" -> "defer"
      [] t.alive /\ t.intent = "none" /\ t.host = "running" /\ t.stop = "ready" -> "stop"
      [] t.alive /\ t.intent = "none" /\ t.host = "running" /\ t.stop = "no"
            /\ t.wait.kind # "none" -> "wait"
      [] OTHER -> "none"

coordinator_control_event(e) == e \in {"exit", "stop"}

\* lxp_coordinator_claim_event: the first hinted slot, from the cursor on, that
\* has an event; the hints looked at on the way are consumed.
ClaimOrder(i) == (cursor + i) % NSLOT
claim_event(ts) ==
    LET hits == {i \in 0 .. NSLOT - 1 : ts[ClaimOrder(i)].hint
                                        /\ claim_slot_event(ts[ClaimOrder(i)]) # "none"}
        last == IF hits = {} THEN NSLOT - 1 ELSE Min(hits)
        seen == {ClaimOrder(i) : i \in 0 .. last}
    IN  [found |-> hits # {},
         slot |-> ClaimOrder(last),
         ts |-> [s \in Slots |-> IF s \in seen THEN [ts[s] EXCEPT !.hint = FALSE] ELSE ts[s]]]

Parks(t) == [t EXCEPT !.host = "parked"]

\* lxp_thread_group_request_exit, for guests that are one thread group.
request_exit(ts) ==
    [s \in Slots |-> IF ts[s].alive THEN Marked([ts[s] EXCEPT !.intent = "exit"]) ELSE ts[s]]

\* Mutant: the event is dropped.
burst_defer_drops(ts, s) == ts
\* The event claimed past the burst cap is published again.
burst_defer(ts, s) == [ts EXCEPT ![s] = Marked(@)]

ExitClaimed(ts, s) ==
    LET peers == IF ts[s].intent = "exit_group" THEN request_exit(ts) ELSE ts
    IN  task' = [peers EXCEPT ![s] = [handle_exit(@) EXCEPT !.hint = FALSE]]

\* lxp_execute_deferred up to the call itself
DeferClaimed(ts, s) ==
    IF ts[s].owner # ts[s].gen
    THEN /\ task' = [ts EXCEPT ![s].mail = "idle", ![s].intent = "none"]
         /\ pc' = "loop" /\ UNCHANGED exec
    ELSE /\ task' = [ts EXCEPT ![s] = [Parks(@) EXCEPT !.mail = "running", !.intent = "none"]]
         /\ pc' = "host" /\ exec' = s

Claim ==
    LET c == claim_event(task)
        s == c.slot
        e == claim_slot_event(c.ts[s])
        capped == c.found /\ ~coordinator_control_event(e) /\ burst >= EVENT_BURST
    IN  /\ pc = "loop"
        /\ cursor' = IF c.found THEN (s + 1) % NSLOT ELSE cursor
        /\ deferred' = capped
        /\ burst' = CASE capped \/ (c.found /\ coordinator_control_event(e)) -> 0
                      [] ~capped /\ c.found /\ e \in {"defer", "wait"} -> burst + 1
                      [] OTHER -> burst
        /\ CASE ~c.found -> task' = c.ts /\ pc' = "scan" /\ UNCHANGED exec
             [] capped -> task' = burst_defer(c.ts, s) /\ pc' = "scan" /\ UNCHANGED exec
             [] ~capped /\ e = "defer" -> DeferClaimed(c.ts, s)
             [] ~capped /\ e = "exit" -> ExitClaimed(c.ts, s) /\ pc' = "loop" /\ UNCHANGED exec
             [] OTHER -> task' = [c.ts EXCEPT ![s] = Parks(@)] /\ pc' = "loop" /\ UNCHANGED exec
        /\ UNCHANGED <<fair, word, owed, profile>>

\* The deferred calls.  A provider call may block its process in a wait; the
\* signal calls are lxp_sys_rt_sigprocmask, _sigsuspend, _sigtimedwait,
\* _sigaction and lxp_sys_setitimer.
sys_sigprocmask(t, m) == [t EXCEPT !.mask = m \ Unmaskable, !.own[Len(t.own)] = m \ Unmaskable]
sys_sigaction(t, g, a) == IF g \in Unmaskable THEN t ELSE [t EXCEPT !.act[g] = a]
sys_sigsuspend(t, m) ==
    LET u == [t EXCEPT !.susp = [on |-> TRUE, saved |-> t.mask], !.mask = m \ Unmaskable]
    IN  IF deliverable(u) = {} THEN [u EXCEPT !.wait = Waiting("suspend")] ELSE u
sys_sigtimedwait(t, set) ==
    IF t.pend \cap set = {} THEN t ELSE Take(t, Min(t.pend \cap set))
sys_setitimer(t) == [t EXCEPT !.alarm = "set"]

syscall(t, c, blocks) ==
    CASE c.op = "io" -> IF blocks THEN [t EXCEPT !.wait = Waiting(c.kind)] ELSE t
      [] c.op = "sleep" -> [t EXCEPT !.wait = Waiting("timer")]
      [] c.op = "sigprocmask" -> sys_sigprocmask(t, c.set)
      [] c.op = "sigsuspend" -> sys_sigsuspend(t, c.set)
      [] c.op = "sigtimedwait" -> sys_sigtimedwait(t, c.set)
      [] c.op = "sigaction" -> sys_sigaction(t, c.sig, c.act)
      [] c.op = "setitimer" -> sys_setitimer(t)
      [] OTHER -> t

\* The call and the tail of lxp_execute_deferred: a call that blocked is left to
\* the scan, a finished one is a boundary for signal delivery.
execute_deferred(t0, blocks) ==
    LET t == [syscall(t0, t0.call, blocks) EXCEPT !.mail = "idle", !.call = NoCall]
        g == pending_deliverable(t)
    IN  CASE t.wait.kind # "none" \/ t.intent # "none" -> Marked(t)
          [] t.wait.kind = "none" /\ t.intent = "none" /\ g # 0 ->
                deliver_signal_parked(Take(t, g), g)
          [] OTHER -> complete_slot(t)

HostDone ==
    /\ pc = "host"
    /\ \E blocks \in BOOLEAN :
          task' = [task EXCEPT ![exec] = execute_deferred(@, blocks)]
    /\ pc' = "loop" /\ exec' = 0
    /\ UNCHANGED <<cursor, burst, deferred, fair, word, owed, profile>>

AnyAlive == \E s \in Slots : task[s].alive

Scan ==
    LET r == scan_blocked(task, fair)
    IN  /\ pc = "scan"
        /\ task' = r.ts
        /\ fair' = r.fair
        /\ burst' = IF r.progress THEN 0 ELSE burst
        /\ pc' = CASE ~AnyAlive -> "stopped"
                   [] AnyAlive /\ (r.progress \/ deferred) -> "loop"
                   [] OTHER -> "wait"
        /\ deferred' = FALSE
        /\ UNCHANGED <<exec, cursor, word, owed, profile>>

\* event_wait returns, at the latest on its timeout.
Wake ==
    /\ pc = "wait"
    /\ pc' = "loop"
    /\ UNCHANGED <<task, exec, cursor, burst, deferred, fair, word, owed, profile>>

\* fork gives a free slot to a new task (lxp_fork.c; see Lifecycle).
Assign(s) ==
    /\ pc = "loop" /\ profile.reuse /\ ~task[s].alive
    /\ task' = [task EXCEPT ![s] = [Fresh(profile.act) EXCEPT !.gen = task[s].gen,
                                                              !.mail = task[s].mail,
                                                              !.hint = task[s].hint]]
    /\ UNCHANGED <<pc, exec, cursor, burst, deferred, fair, word, owed, profile>>

-----------------------------------------------------------------------------
\* Guests

\* A guest runs while the coordinator waits, or is blocked in a provider call.
Runs(s) ==
    /\ pc = "wait" \/ (pc = "host" /\ task[exec].call.op \in {"io", "plain"})
    /\ task[s].alive /\ task[s].host = "running" /\ ~task[s].entry

\* A trap; one that posts an event wakes a waiting coordinator at once.
Trap(ts, posts) ==
    /\ task' = ts
    /\ pc' = IF posts /\ pc = "wait" THEN "loop" ELSE pc
    /\ UNCHANGED <<exec, cursor, burst, deferred, fair, profile>>
TrapSelf(s, t) == Trap([task EXCEPT ![s] = t], t.entry)

\* A call that is answered in the trap, and the boundary at its end.
FastCall(s) ==
    LET g == pending_deliverable(task[s])
    IN  /\ Runs(s) /\ g # 0
        /\ TrapSelf(s, deliver_signal(Take(task[s], g), g))
        /\ UNCHANGED <<word, owed>>

KillSelf(s) ==
    /\ Runs(s)
    /\ \E g \in profile.self[s] : TrapSelf(s, deliver_signal(task[s], g))
    /\ UNCHANGED <<word, owed>>

Kill(s) ==
    /\ Runs(s)
    /\ \E k \in profile.kill[s] :
          task[k.to].alive /\ Trap([task EXCEPT ![k.to] = signal_latch(@, k.sig)], TRUE)
    /\ UNCHANGED <<word, owed>>

\* lxp_sig_restore
SigReturn(s) ==
    LET t == task[s]
    IN  /\ Runs(s) /\ t.save # <<>>
        /\ TrapSelf(s, [t EXCEPT !.mask = Last(t.save), !.save = Front(@), !.own = Front(@)])
        /\ UNCHANGED <<word, owed>>

defer_syscall(t, c) ==
    IF t.mail # "idle" \/ t.intent # "none" \/ t.wait.kind # "none" THEN t
    ELSE park_frame([t EXCEPT !.mail = "ready", !.intent = "defer", !.owner = t.gen, !.call = c])
Defer(s) ==
    /\ Runs(s)
    /\ \E c \in profile.calls[s] : TrapSelf(s, defer_syscall(task[s], c))
    /\ UNCHANGED <<word, owed>>

\* The futex word: the guest compares and parks in one trap; the waker stores,
\* then traps to wake everyone.
futex_has_corunner(s) == \E q \in Slots \ {s} : task[q].alive
\* Mutant: parks without comparing.
FutexWaitUncompared(s) ==
    /\ Runs(s) /\ profile.futex /\ s \notin owed
    /\ \E val \in 0 .. 1 :
          /\ futex_has_corunner(s)
          /\ TrapSelf(s, park_frame([task[s] EXCEPT !.wait = [Waiting("futex") EXCEPT !.val = val]]))
    /\ UNCHANGED <<word, owed>>
FutexWait(s) ==
    /\ Runs(s) /\ profile.futex /\ s \notin owed
    /\ \E val \in 0 .. 1 :
          /\ word = val /\ futex_has_corunner(s)
          /\ task[s].intent = "none" /\ task[s].wait.kind = "none"
          /\ TrapSelf(s, park_frame([task[s] EXCEPT !.wait = [Waiting("futex") EXCEPT !.val = val]]))
    /\ UNCHANGED <<word, owed>>
FutexStore(s) ==
    /\ Runs(s) /\ profile.futex /\ s \notin owed
    /\ word' = 1 - word
    /\ owed' = owed \cup {s}
    /\ UNCHANGED <<task, pc, exec, cursor, burst, deferred, fair, profile>>
FutexWaiters == {q \in Slots : task[q].alive /\ task[q].wait.kind = "futex" /\ ~task[q].wait.woken}
FutexWake(s) ==
    /\ Runs(s) /\ s \in owed
    /\ Trap([q \in Slots |-> IF q \in FutexWaiters THEN [task[q] EXCEPT !.wait.woken = TRUE]
                             ELSE task[q]], FutexWaiters # {})
    /\ owed' = owed \ {s}
    /\ UNCHANGED word

Exit(s) ==
    /\ Runs(s)
    /\ \E i \in profile.exit[s] : TrapSelf(s, park_frame([task[s] EXCEPT !.intent = i]))
    /\ UNCHANGED <<word, owed>>

-----------------------------------------------------------------------------
\* The world: providers answer, deadlines pass, waits grow old.

World(s, t, hint) ==
    /\ pc \in {"wait", "host"}
    /\ task' = [task EXCEPT ![s] = t]
    /\ fair' = [fair EXCEPT !.hint = @ \/ hint]
    /\ UNCHANGED <<pc, exec, cursor, burst, deferred, word, owed, profile>>

ProviderReady(s) ==
    /\ Parked(task[s]) /\ task[s].wait.kind \in {"hostfs", "socket", "console", "pipe"}
    /\ ~task[s].wait.ready
    /\ World(s, [task[s] EXCEPT !.wait.ready = TRUE], task[s].wait.kind = "hostfs")
DeadlinePasses(s) ==
    \/ /\ Parked(task[s]) /\ task[s].wait.kind \in {"timer", "futex"} /\ ~task[s].wait.ready
       /\ World(s, [task[s] EXCEPT !.wait.ready = TRUE], FALSE)
    \/ /\ task[s].alive /\ task[s].alarm = "set"
       /\ World(s, [task[s] EXCEPT !.alarm = "due"], FALSE)
\* LXP_SERVICE_AGING_US pass: what waits now has waited long.
Aging(s) == Parked(task[s]) /\ service_class(task[s].wait.kind) # "none" /\ ~task[s].wait.old
CanAge == \E s \in Slots : Aging(s)
Ages ==
    /\ CanAge
    /\ task' = [s \in Slots |-> IF Aging(s) THEN [task[s] EXCEPT !.wait.old = TRUE] ELSE task[s]]
    /\ UNCHANGED <<pc, exec, cursor, burst, deferred, fair, word, owed, profile>>

-----------------------------------------------------------------------------
Init ==
    /\ profile \in Profiles
    /\ task = [s \in Slots |-> IF s < profile.tasks THEN Fresh(profile.act)
                             ELSE handle_exit(Fresh(profile.act))]
    /\ pc = "loop" /\ exec = 0 /\ cursor = 0 /\ burst = 0 /\ deferred = FALSE
    /\ fair = [cursor |-> 0, slot |-> [c \in Classes |-> 0], hint |-> FALSE]
    /\ word = 0 /\ owed = {}

Guest(s) ==
    \/ FastCall(s) \/ KillSelf(s) \/ Kill(s) \/ SigReturn(s) \/ Defer(s)
    \/ FutexWait(s) \/ FutexStore(s) \/ FutexWake(s) \/ Exit(s)
CoordinatorStep == Claim \/ HostDone \/ Scan \/ Wake
Next ==
    \/ CoordinatorStep
    \/ Ages
    \/ \E s \in Slots : Assign(s) \/ Guest(s) \/ ProviderReady(s) \/ DeadlinePasses(s)

\* The coordinator has the highest priority, its wait has a timeout, and time
\* passes; nothing is assumed of guests or providers.
\* (Weak fairness of both, with their enabling conditions written out.)
Fairness ==
    /\ []<>(pc = "stopped") \/ []<><<CoordinatorStep>>_vars
    /\ []<>~CanAge \/ []<><<Ages>>_vars
Spec == Init /\ [][Next]_vars /\ Fairness

-----------------------------------------------------------------------------
\* Properties

\* No task is lost.  A task that cannot run is one the coordinator will come to:
\* it is frozen at its park entry with an event and the hint that leads to it, or
\* it is parked for a wait, a stop, the call in hand, or an exit still to be claimed.
Comes(t) == t.hint /\ claim_slot_event(t) # "none"
NoTaskLost ==
    \A s \in Slots :
        LET t == task[s]
        IN  t.alive =>
                \/ t.host = "running" /\ (t.entry => Comes(t))
                \/ t.host = "parked" /\ (\/ pc = "host" /\ exec = s
                                         \/ t.intent \in {"exit", "exit_group"} /\ t.hint
                                         \/ t.intent = "none" /\ (t.wait.kind # "none" \/ t.stop # "no"))

\* A guest that can trap finds its mailbox empty, so no ordinary call is refused
\* because of an earlier one, of this task or of the slot's previous task.
MailboxFree == \A s \in Slots : task[s].alive /\ task[s].host = "running" /\ ~task[s].entry
                                    => task[s].mail = "idle"

\* A program runs under the mask it set: nested handlers, and handlers that end a
\* sigsuspend, put back the mask in force before them.  Left out is a sigsuspend
\* that an ignored signal ends without a handler, which leaves its temporary mask.
MaskKept ==
    \A s \in Slots : task[s].alive /\ task[s].host = "running" /\ ~task[s].entry /\ ~task[s].spoilt
                         => task[s].mask = Last(task[s].own)

\* No wake is lost: a guest asleep for a value the word no longer has was woken,
\* or the guest that stored to the word has yet to make its wake call.
NoLostWake ==
    \A s \in Slots : task[s].alive /\ task[s].wait.kind = "futex" /\ task[s].wait.val # word
                         => task[s].wait.woken \/ owed # {}

\* A stopped task runs no guest code until it is continued.
StoppedRests ==
    [][\A s \in Slots : task[s].alive /\ task[s].stop # "no" /\ task'[s].alive
          /\ task'[s].host = "running" /\ ~task'[s].entry
              => CONT \in task[s].pend]_vars

\* Every parked call whose provider can answer is retried to its end, whatever
\* the other service classes do.
Answerable(s) ==
    Parked(task[s]) /\ task[s].stop = "no" /\ service_class(task[s].wait.kind) # "none"
        /\ (task[s].wait.ready \/ task[s].wait.woken)
ReadyServed == \A s \in Slots : Answerable(s) ~> ~Answerable(s)

\* SIGKILL ends a parked task, also a stopped one or one that waits for a medium
\* that never answers, unless a caught signal of a lower number is deliverable as
\* well: lxp_pending_deliverable yields the lowest one, so that the handler is
\* entered, or waited for, first.
Killed(s) == Parked(task[s]) /\ KILL \in task[s].pend
Shadowed(s) == \E g \in deliverable(task[s]) : g < KILL /\ sig_caught(task[s], g)
KillEnds == \A s \in Slots : (Killed(s) /\ ~Shadowed(s)) ~> (~task[s].alive \/ Shadowed(s))

\* "A wedged medium cannot make a task unkillable" (lxp_blocked.c): a task that
\* waits for a file-system request and has a SIGKILL pending leaves that wait.
Wedged(s) == Killed(s) /\ task[s].wait.kind = "hostfs"
KillUnwedges == \A s \in Slots : Wedged(s) ~> ~Wedged(s)

\* A task frozen by a stop is the coordinator's to resume: it keeps an event or a
\* stop until it runs again.
StopResumes ==
    \A s \in Slots : task[s].alive /\ task[s].host = "running" /\ task[s].entry => Comes(task[s])
=============================================================================
