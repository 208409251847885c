----------------------------- MODULE Lifecycle -----------------------------
(***************************************************************************)
(* Process lifecycle of the coordinator: clone/fork/vfork, execve, exit,   *)
(* wait4, job control and the run bracket, over the slot, region and       *)
(* thread-group tables.                                                    *)
(*                                                                         *)
(* Guests trap and are parked; one coordinator task then handles one event *)
(* at a time (lxp_run_common).  A handler is therefore one action, and the *)
(* guests interleave between handlers.  A deferred system call (execve,    *)
(* wait4) is one action with the trap that publishes it.  Guests install   *)
(* no signal handlers here, so SIGCHLD has no effect and is left out.      *)
(***************************************************************************)
EXTENDS SlotTable

CONSTANTS
    ForkKinds,  \* the clone flavours guests use
    ExitKinds,  \* exit, exit_group
    SigKinds,   \* the signals guests send
    WaitPids,   \* the pid arguments of wait4; 0 stands for any child
    MaxExec,    \* bound: execve calls
    MaxSig,     \* bound: signals sent
    MaxFail,    \* bound: RTOS callbacks and allocations that fail
    MaxHalt,    \* bound: reboot calls
    MaxRun,     \* bound: calls of lxp_run
    LateExecFail \* may an execve fail past its commit point (files, loader)?

ASSUME LifecycleAssumption ==
    /\ ForkKinds \subseteq Forks /\ SigKinds \subseteq Signals
    /\ ExitKinds \subseteq Exits /\ WaitPids \subseteq 0..MaxPid
    /\ MaxExec \in Nat /\ MaxSig \in Nat /\ MaxFail \in Nat /\ MaxHalt \in Nat /\ MaxRun \in Nat
    /\ LateExecFail \in BOOLEAN

VARIABLES
    phase,      \* "DOWN" outside lxp_run, "UP" in its loop, "STOPPING" on its way out
    slots,      \* g_lxp_rt.slots: process, native state and generation
    reg,        \* g_lxp_rt.regions
    guard,      \* g_lxp_rt.vfork_guard
    groups,     \* thread groups, by tgid
    mem,        \* contents of each region: the pid that wrote it last, 0 as loaded
    saved,      \* history: the parent's memory when slot c was forked
    nextPid,
    used        \* what has been used of each bound

vars == <<phase, slots, reg, guard, groups, mem, saved, nextPid, used>>

NoGuard == [parent |-> NoRef, region |-> NoRef, snapshot |-> NoRef]
Guards == [parent : SlotRefs, region : RegionRefs, snapshot : RegionRefs]

Init ==
    /\ phase = "DOWN"
    /\ slots = [s \in Slots |->
                  [alive |-> FALSE, gen |-> 0, host |-> "FREE", runnable |-> FALSE,
                   intent |-> "NONE", wait |-> NoWait, stop |-> "NONE", pend |-> {},
                   pid |-> 0, tgid |-> 0, mm |-> NoRef, vpar |-> NoRef, snap |-> NoRef]]
    /\ reg = [r \in Regions |-> [lease |-> NoRef, refs |-> 0, gen |-> 0]]
    /\ guard = [s \in Slots |-> NoGuard]
    /\ groups = [g \in Pids |-> NoGroup]
    /\ mem = [r \in Regions |-> 0]
    /\ saved = [s \in Slots |-> 0]
    /\ nextPid = 2
    /\ used = [fork |-> 0, exec |-> 0, sig |-> 0, fail |-> 0, halt |-> 0, run |-> 0]

\* Which RTOS callbacks refuse in this step, within what the failure bound leaves.
NoFault == <<"none", 0>>
Oracles ==
    LET n == MaxFail - used.fail
    IN  {{q[i] : i \in 1..n} \ {NoFault} : q \in [1..n -> Faults \cup {NoFault}]}
Failed(h, n) == used' = [used EXCEPT !.fail = @ + Cardinality(h) + n]

-----------------------------------------------------------------------------
(* The run bracket.                                                        *)

\* lxp_run_common up to the launch of pid 1.  Slots and regions get fresh
\* generations, and the initial image takes region 0.
Opened == [s \in Slots |-> [slots[s] EXCEPT !.host = "FREE", !.runnable = FALSE,
                                            !.alive = FALSE, !.gen = GenNext(@)]]
Launching == Reserve(RegionReset(reg), 0, SlotRefAt(Opened, 0))

StartRun ==
    /\ phase = "DOWN" /\ used.run < MaxRun
    /\ phase' = "UP" /\ used' = [used EXCEPT !.run = @ + 1, !.fork = 0]
    /\ slots' = [Opened EXCEPT ![0] =
                   [Cleared(@) EXCEPT !.alive = TRUE, !.host = "RUNNING", !.runnable = TRUE,
                                      !.pid = 1, !.tgid = 1,
                                      !.mm = RegionRefAt(Launching, 0)]]
    /\ reg' = CommitAddressSpace(Launching, RegionRefAt(Launching, 0), SlotRefAt(Opened, 0))
    /\ guard' = [s \in Slots |-> NoGuard]
    /\ groups' = [groups EXCEPT ![1] = NoGroup]
    /\ mem' = [mem EXCEPT ![0] = 0]
    /\ nextPid' = 2
    /\ UNCHANGED saved

\* The image or its launch is refused: lxp_image_txn_abort, then teardown.
StartFailed ==
    /\ phase = "DOWN" /\ used.run < MaxRun /\ used.fail < MaxFail
    /\ used' = [used EXCEPT !.run = @ + 1, !.fail = @ + 1]
    /\ slots' = [s \in Slots |-> [Cleared(Opened[s]) EXCEPT !.host = "DEAD", !.gen = GenNext(@)]]
    /\ reg' = RegionReset(Put(Launching, RegionRefAt(Launching, 0)))
    /\ guard' = [s \in Slots |-> NoGuard]
    /\ UNCHANGED <<phase, groups, mem, saved, nextPid>>

\* Mutant: the native tasks are not aborted first.
TeardownUnquiesced ==
    /\ phase = "STOPPING"
    /\ phase' = "DOWN"
    /\ slots' = [s \in Slots |-> [Cleared(slots[s]) EXCEPT !.gen = GenNext(@)]]
    /\ reg' = RegionReset(reg)
    /\ guard' = [s \in Slots |-> NoGuard]
    /\ groups' = [g \in Pids |-> NoGroup]
    /\ UNCHANGED <<mem, saved, nextPid, used>>

\* lxp_coordinator_teardown_all: every native task is aborted (a refusal is
\* retried until it succeeds), then every object is released.  A region whose
\* last reference goes changes generation, one that is only leased does not.
Teardown ==
    /\ phase = "STOPPING"
    /\ phase' = "DOWN"
    /\ slots' = [s \in Slots |-> [Cleared(slots[s]) EXCEPT !.host = "DEAD", !.gen = GenNext(@)]]
    /\ reg' = [r \in Regions |->
                 [lease |-> NoRef, refs |-> 0,
                  gen |-> IF reg[r].refs > 0 /\ reg[r].refs = Cardinality(RegionUsers(slots, r))
                          THEN GenNext(reg[r].gen) ELSE reg[r].gen]]
    /\ guard' = [s \in Slots |-> NoGuard]
    /\ groups' = [g \in Pids |-> NoGroup]
    /\ UNCHANGED <<mem, saved, nextPid, used>>

\* The loop ends without an exit of init: no task is left.
AllDead ==
    /\ phase = "UP" /\ \A s \in Slots : ~slots[s].alive
    /\ phase' = "STOPPING"
    /\ UNCHANGED <<slots, reg, guard, groups, mem, saved, nextPid, used>>

\* The idle watchdog: every task is parked, none of them stopped, no event is
\* pending and the scan makes no progress.
Watchdog ==
    /\ phase = "UP" /\ \E s \in Slots : slots[s].alive
    /\ \A s \in Slots : slots[s].alive =>
         LET sig == Deliverable(slots[s].pend)
         IN  /\ ~slots[s].runnable /\ slots[s].intent = "NONE" /\ slots[s].stop = "NONE"
             /\ sig # "STOP" /\ ~(sig = "KILL" /\ slots[s].wait.child)
    /\ phase' = "STOPPING"
    /\ UNCHANGED <<slots, reg, guard, groups, mem, saved, nextPid, used>>

-----------------------------------------------------------------------------
(* Guest steps.                                                            *)

\* The guest in slot s is executing its own code.
UserMode(s) ==
    /\ phase = "UP" /\ slots[s].alive /\ slots[s].runnable /\ slots[s].host = "RUNNING"
    /\ slots[s].intent = "NONE" /\ ~slots[s].wait.child /\ slots[s].stop = "NONE"

Write(s) ==
    /\ UserMode(s)
    /\ mem' = [mem EXCEPT ![slots[s].mm.index] = slots[s].pid]
    /\ UNCHANGED <<phase, slots, reg, guard, groups, saved, nextPid, used>>

\* The clone, fork and vfork traps record the intent; the task parks in handle_fork.
RequestFork(s, kind) ==
    /\ UserMode(s) /\ used.fork < MaxPid - 1
    /\ slots' = [slots EXCEPT ![s].intent = kind]
    /\ used' = [used EXCEPT !.fork = @ + 1]
    /\ UNCHANGED <<phase, reg, guard, groups, mem, saved, nextPid>>

RequestExit(s, kind) ==
    /\ UserMode(s)
    /\ slots' = ExitSlot(slots, s, kind)
    /\ UNCHANGED <<phase, reg, guard, groups, mem, saved, nextPid, used>>

\* reboot(2), or a shutdown signal sent to pid 1.
Reboot(s) ==
    /\ UserMode(s) /\ used.halt < MaxHalt
    /\ phase' = "STOPPING"
    /\ used' = [used EXCEPT !.halt = @ + 1]
    /\ UNCHANGED <<slots, reg, guard, groups, mem, saved, nextPid>>

\* kill(pid, sig): lxp_signal_send skips init and the sender.
SendSignal(s, t, sig) ==
    /\ UserMode(s) /\ used.sig < MaxSig
    /\ t # s /\ slots[t].alive /\ slots[t].pid > 1
    /\ slots' = [slots EXCEPT ![t].pend = Latch(@, sig)]
    /\ used' = [used EXCEPT !.sig = @ + 1]
    /\ UNCHANGED <<phase, reg, guard, groups, mem, saved, nextPid>>

\* A running guest takes a pending signal at its next system-call boundary:
\* SIGKILL ends the task (not its group), SIGSTOP freezes it at the park entry.
Taking(p, sig) ==
    [p EXCEPT !.pend = @ \ {sig},
              !.intent = IF sig = "KILL" THEN "EXIT" ELSE @,
              !.stop = IF sig = "STOP" THEN "READY" ELSE @]
TakeSignal(s) ==
    /\ UserMode(s) /\ Deliverable(slots[s].pend) # "NONE"
    /\ slots' = [slots EXCEPT ![s] = Taking(@, Deliverable(@.pend))]
    /\ UNCHANGED <<phase, reg, guard, groups, mem, saved, nextPid, used>>

\* Tell the parent group of task s that it stopped; P has it stopped.
NotifyStopped(P, G, s, h) ==
    LET ev == [pid |-> P[s].pid, kind |-> "STOPPED"]
    IN  \E t \in Slots \cup {-1} :
          /\ IsParentTask(P, G[P[s].tgid].ppid, ev, t)
          /\ slots' = ChildSlots(P, t, ev, h)
          /\ groups' = ChildGroups(P, G, t, ev)

\* A deferred system call: lxp_execute_deferred parks the task first.
Parked(s) == [slots EXCEPT ![s] = [@ EXCEPT !.host = "PARKED", !.runnable = FALSE]]

\* The park is refused and the call does not run.
DeferRefused(s) ==
    /\ UserMode(s)
    /\ \E h \in Oracles : <<"park", s>> \in h /\ slots' = ParkSlot(slots, s, h) /\ Failed(h, 0)
    /\ UNCHANGED <<phase, reg, guard, groups, mem, saved, nextPid>>

\* The tail of lxp_execute_deferred for a call that neither waits nor leaves an
\* intent: a pending signal is delivered to the parked task, which keeps the
\* result of the call if it stops.  G is the group table the call leaves.
Deferred(s, G) ==
    LET sig == Deliverable(slots[s].pend)
        P == [Parked(s) EXCEPT ![s].pend = @ \ {sig}]
        stopped == [P EXCEPT ![s].stop = "PARKED"]
    IN  \E h \in Oracles :
          /\ \/ /\ sig \in {"NONE", "CONT"}
                /\ slots' = CompleteSlot(P, SlotRefAt(P, s), h)
                /\ groups' = G
             \/ /\ sig = "KILL"
                /\ slots' = ExitSlot(P, s, "EXIT")
                /\ groups' = G
             \/ /\ sig = "STOP"
                /\ NotifyStopped(CompleteSlot(stopped, SlotRefAt(P, s), h), G, s, h)
          /\ Failed(h, 0)

\* Any deferred call with no lifecycle effect of its own.
OtherCall(s) ==
    /\ UserMode(s)
    /\ Deferred(s, groups)
    /\ UNCHANGED <<phase, reg, guard, mem, saved, nextPid>>

\* sys_execve leaves the EXEC intent.
RequestExec(s) ==
    /\ UserMode(s) /\ used.exec < MaxExec
    /\ slots' = [Parked(s) EXCEPT ![s].intent = "EXEC"]
    /\ used' = [used EXCEPT !.exec = @ + 1]
    /\ UNCHANGED <<phase, reg, guard, groups, mem, saved, nextPid>>

\* The task is parked and then handed its result.
ParkAndComplete(P, s, h) ==
    LET Q == ParkSlot(P, s, h) IN CompleteSlot(Q, SlotRefAt(Q, s), h)

\* Queue entry ev is one that wait4(pid, WUNTRACED?) may report.
Reports(ev, pid, untraced) ==
    pid \in {0, ev.pid} /\ (ev.kind = "STOPPED" => untraced)

\* wait4 that finds a queued status: the first one it may report is removed.
Wait4Reap(s, pid, untraced) ==
    LET g == slots[s].tgid
        q == groups[g].queue
    IN  /\ UserMode(s)
        /\ \E i \in 1..Len(q) :
             /\ Reports(q[i], pid, untraced)
             /\ \A j \in 1 .. i - 1 : ~Reports(q[j], pid, untraced)
             /\ Deferred(s, [groups EXCEPT ![g].queue =
                                SubSeq(q, 1, i - 1) \o SubSeq(q, i + 1, Len(q))])
        /\ UNCHANGED <<phase, reg, guard, mem, saved, nextPid>>

\* Mutant: the queue is not looked at.
Wait4BlockUnchecked(s, pid, untraced) ==
    /\ UserMode(s) /\ groups[slots[s].tgid].kids > 0
    /\ slots' = [Parked(s) EXCEPT ![s].wait =
                   [child |-> TRUE, pid |-> pid, untraced |-> untraced]]
    /\ UNCHANGED <<phase, reg, guard, groups, mem, saved, nextPid, used>>

\* wait4 with live children and nothing to report parks the task in a CHILD wait.
Wait4Block(s, pid, untraced) ==
    LET g == slots[s].tgid
        q == groups[g].queue
    IN  /\ UserMode(s)
        /\ \A i \in 1..Len(q) : ~Reports(q[i], pid, untraced)
        /\ groups[g].kids > 0
        /\ slots' = [Parked(s) EXCEPT ![s].wait =
                       [child |-> TRUE, pid |-> pid, untraced |-> untraced]]
        /\ UNCHANGED <<phase, reg, guard, groups, mem, saved, nextPid, used>>

-----------------------------------------------------------------------------
(* The vfork window: the child runs in its parent's region, whose contents *)
(* are copied to a leased snapshot region.                                 *)

\* The test lxp_vfork_restore makes of every identity before it copies.
RestoreOk(P, R, c) ==
    LET p == P[c].vpar.index IN
    /\ P[c].alive /\ p \in Slots /\ P[p].alive
    /\ guard[c] = [parent |-> SlotRefAt(P, p), region |-> P[p].mm, snapshot |-> P[c].snap]
    /\ LeaseMatches(R, P[c].snap, SlotRefAt(P, c))

Restored(P, c) == [mem EXCEPT ![P[P[c].vpar.index].mm.index] = mem[P[c].snap.index]]

\* lxp_vfork_contain_stale: a still-current parent and the child are ended, and
\* a reservation that is still the child's is released.
ContainSlots(P, c) ==
    LET par == guard[c].parent
        Q == IF IsCurrent(P, par) /\ P[par.index].mm = guard[c].region
             THEN ExitSlot(P, par.index, "EXIT") ELSE P
    IN  [Q EXCEPT ![c] = [@ EXCEPT !.vpar = NoRef, !.snap = NoRef, !.intent = "EXIT"]]
ContainRegions(P, R, c) == ReleaseIfOwned(R, guard[c].snapshot, SlotRefAt(P, c))

-----------------------------------------------------------------------------
(* lxp_handle_fork                                                         *)

ForkPending(s) == phase = "UP" /\ slots[s].alive /\ slots[s].intent \in Forks

\* The parent with its intent completed.
Forking(s) == [slots EXCEPT ![s].intent = "NONE"]

\* Mutant: live children are left out of the budget.
HasCapacityQueueOnly(s) == Len(groups[slots[s].tgid].queue) < MAX_CHILD

HasCapacity(s) ==
    LET g == groups[slots[s].tgid]
    IN  Len(g.queue) < MAX_CHILD /\ g.kids < MAX_CHILD - Len(g.queue)

FirstDeadSlot(c) == ~slots[c].alive /\ \A d \in Slots : d < c => slots[d].alive
FirstFreeRegion(R, r) ==
    RegionFree(slots, R, r) /\ \A q \in Regions : q < r => ~RegionFree(slots, R, q)

\* EAGAIN before anything is acquired.
ForkRefused(s) ==
    /\ ForkPending(s)
    /\ \/ slots[s].intent # "THREAD" /\ ~HasCapacity(s)
       \/ \A c \in Slots : slots[c].alive
    /\ \E h \in Oracles : slots' = ParkAndComplete(Forking(s), s, h) /\ Failed(h, 0)
    /\ UNCHANGED <<phase, reg, guard, groups, mem, saved, nextPid>>

\* The pids are bounded where they are asked for (RequestFork); that one is left
\* here follows.
ForkAdmitted(s, c) ==
    /\ ForkPending(s) /\ nextPid <= MaxPid
    /\ slots[s].intent # "THREAD" => HasCapacity(s)
    /\ FirstDeadSlot(c)

\* Mutant: the region reference is not given back.
ForkAbortedKeeps(s, c) ==
    /\ ForkAdmitted(s, c) /\ CanGet(reg, slots[s].mm) /\ used.fail < MaxFail
    /\ slots' = ParkAndComplete([Reassign(Forking(s), c) EXCEPT ![c] = Cleared(@)], s, {})
    /\ used' = [used EXCEPT !.fail = @ + 1]
    /\ reg' = Get(reg, slots[s].mm)
    /\ guard' = [guard EXCEPT ![c] = NoGuard]
    /\ UNCHANGED <<phase, groups, mem, saved, nextPid>>

\* lxp_fork_txn_abort: the slot generation moved on, the region reference is
\* given back, the unpublished child is discarded.  A process object can run
\* out; a fork needs a spare region for its snapshot.
ForkAborted(s, c) ==
    LET mm == slots[s].mm
        noSpare == slots[s].intent = "FORK" /\ \A r \in Regions : ~RegionFree(slots, reg, r)
    IN  /\ ForkAdmitted(s, c)
        /\ \E h \in Oracles :
             /\ noSpare \/ ~CanGet(reg, mm) \/ used.fail + Cardinality(h) < MaxFail
             /\ LET Q == [Reassign(Forking(s), c) EXCEPT ![c] = Cleared(@)]
                IN  slots' = ParkAndComplete(Q, s, h)
             /\ Failed(h, IF noSpare \/ ~CanGet(reg, mm) THEN 0 ELSE 1)
        /\ reg' = IF CanGet(reg, mm) THEN Put(Get(reg, mm), mm) ELSE reg
        /\ guard' = [guard EXCEPT ![c] = NoGuard]
        /\ UNCHANGED <<phase, groups, mem, saved, nextPid>>

\* The published child: its own group unless it is a thread.
ForkChild(P, s, c, vpar, snap) ==
    [P EXCEPT ![c] = [Cleared(@) EXCEPT
        !.alive = TRUE, !.pid = nextPid, !.mm = P[s].mm, !.vpar = vpar, !.snap = snap,
        !.tgid = IF slots[s].intent = "THREAD" THEN P[s].tgid ELSE nextPid]]

\* Mutant: a CLONE_VM process is not counted as a child.
ForkGroupsVforkOnly(s) ==
    IF slots[s].intent = "THREAD" THEN groups
    ELSE [groups EXCEPT ![slots[s].tgid].kids = IF slots[s].intent = "FORK" THEN @ + 1 ELSE @,
                        ![nextPid] = [NoGroup EXCEPT !.ppid = slots[s].tgid]]

ForkGroups(s) ==
    IF slots[s].intent = "THREAD" THEN groups
    ELSE [groups EXCEPT ![slots[s].tgid].kids = @ + 1,
                        ![nextPid] = [NoGroup EXCEPT !.ppid = slots[s].tgid]]

\* CLONE_VM: parent and child co-run in the region.
ForkShared(s, c) ==
    LET P == ForkChild(Reassign(Forking(s), c), s, c, NoRef, NoRef)
    IN  /\ ForkAdmitted(s, c) /\ slots[s].intent # "FORK" /\ CanGet(reg, slots[s].mm)
        /\ \E h \in Oracles :
             slots' = ResumeSlot(ParkAndComplete(P, s, h), c, h) /\ Failed(h, 0)
        /\ reg' = Get(reg, slots[s].mm)
        /\ guard' = [guard EXCEPT ![c] = NoGuard]
        /\ groups' = ForkGroups(s)
        /\ nextPid' = nextPid + 1
        /\ UNCHANGED <<phase, mem, saved>>

\* fork and vfork: the region is snapshotted for the child and the parent stays
\* parked until the child execs or exits.
ForkVfork(s, c, r) ==
    LET Q == Reassign(Forking(s), c)
        R == Reserve(Get(reg, slots[s].mm), r, SlotRefAt(Q, c))
        P == ForkChild(Q, s, c, SlotRefAt(Q, s), RegionRefAt(R, r))
    IN  /\ ForkAdmitted(s, c) /\ slots[s].intent = "FORK" /\ CanGet(reg, slots[s].mm)
        /\ FirstFreeRegion(reg, r)
        /\ \E h \in Oracles :
             slots' = ResumeSlot(ParkSlot(P, s, h), c, h) /\ Failed(h, 0)
        /\ reg' = R
        /\ guard' = [guard EXCEPT ![c] = [parent |-> SlotRefAt(Q, s), region |-> slots[s].mm,
                                          snapshot |-> RegionRefAt(R, r)]]
        /\ groups' = ForkGroups(s)
        /\ mem' = [mem EXCEPT ![r] = mem[slots[s].mm.index]]
        /\ saved' = [saved EXCEPT ![c] = mem[slots[s].mm.index]]
        /\ nextPid' = nextPid + 1
        /\ UNCHANGED phase

-----------------------------------------------------------------------------
(* lxp_handle_exit                                                         *)

\* Mutant: exit_group ends the caller only.
ExitingAlone(s) == slots

\* exit_group reaches every task of the group before the first one is aborted.
Exiting(s) ==
    IF slots[s].intent = "EXIT_GROUP"
    THEN [t \in Slots |-> IF t \in Members(slots, slots[s].tgid)
                          THEN [slots[t] EXCEPT !.intent = "EXIT_GROUP"] ELSE slots[t]]
    ELSE slots

\* The RTOS refuses to abort the task: everything is kept and the exit retried.
ExitRetry(s) ==
    /\ phase = "UP" /\ slots[s].alive /\ slots[s].intent \in Exits
    /\ \E h \in Oracles :
         <<"abort", s>> \in h /\ slots' = AbortSlot(Exiting(s), s, h) /\ Failed(h, 0)
    /\ UNCHANGED <<phase, reg, guard, groups, mem, saved, nextPid>>

\* A vfork child that dies before its exec, with its parent still there, gives
\* the parent its memory back; otherwise the snapshot is not looked at.
ExitBorrows(P, s) == IsCurrent(P, P[s].vpar) /\ P[s].snap # NoRef

ExitStale(P, s) == ExitBorrows(P, s) /\ ~RestoreOk(P, reg, s)

\* The task is gone; with its memory stale, so is the parent.
Departed(P, s) ==
    LET Q == IF ExitStale(P, s) THEN ContainSlots(P, s) ELSE P
    IN  Reassign([Q EXCEPT ![s] = [@ EXCEPT !.alive = FALSE, !.runnable = FALSE,
                                            !.mm = NoRef]], s)

\* Mutant: the parent is not resumed.
ParentForgotten(P, s, h) == Departed(P, s)

\* The vfork parent gets the child's pid.
ParentReleased(P, s, h) ==
    LET D == Departed(P, s)
    IN  IF ExitStale(P, s) THEN D ELSE CompleteSlot(D, P[s].vpar, h)

\* Mutant: a refused abort is not noticed.
ExitBeginsAnyway(s, P, h) ==
    /\ phase = "UP" /\ slots[s].alive /\ slots[s].intent \in Exits
    /\ reg' = Put(IF ExitBorrows(P, s) THEN ContainRegions(P, reg, s) ELSE reg, P[s].mm)
    /\ guard' = IF ExitBorrows(P, s) THEN [guard EXCEPT ![s] = NoGuard] ELSE guard
    /\ mem' = IF ExitBorrows(P, s) /\ ~ExitStale(P, s) THEN Restored(P, s) ELSE mem
    /\ Failed(h, 0)
    /\ UNCHANGED <<saved, nextPid>>

\* Mutant: only a parked task is ended.
ExitBeginsParked(s, P, h) == slots[s].host = "PARKED" /\ ExitBeginsAnyway(s, P, h)

\* What every exit does once the native task is gone: P is Exiting(s) after that.
ExitBegins(s, P, h) ==
    /\ phase = "UP" /\ slots[s].alive /\ slots[s].intent \in Exits
    /\ <<"abort", s>> \notin h
    /\ reg' = Put(IF ExitBorrows(P, s) THEN ContainRegions(P, reg, s) ELSE reg, P[s].mm)
    /\ guard' = IF ExitBorrows(P, s) THEN [guard EXCEPT ![s] = NoGuard] ELSE guard
    /\ mem' = IF ExitBorrows(P, s) /\ ~ExitStale(P, s) THEN Restored(P, s) ELSE mem
    /\ Failed(h, 0)
    /\ UNCHANGED <<saved, nextPid>>

\* A task of a group that lives on.
ExitThread(s, P, h) ==
    /\ ExitBegins(s, P, h)
    /\ Members(Departed(P, s), P[s].tgid) # {}
    /\ slots' = ParentReleased(P, s, h)
    /\ UNCHANGED <<phase, groups>>

\* The last task of init: the coordinator stops.
ExitInit(s, P, h) ==
    /\ ExitBegins(s, P, h)
    /\ Members(Departed(P, s), P[s].tgid) = {} /\ P[s].tgid = 1
    /\ slots' = Departed(P, s)
    /\ groups' = [groups EXCEPT ![1] = NoGroup]
    /\ phase' = "STOPPING"

\* Mutant: the exit of any task of the group is reported.
ExitProcessEach(s, P, h) ==
    LET g == P[s].tgid
        E == ParentReleased(P, s, h)
        ev == [pid |-> g, kind |-> "EXITED"]
    IN  /\ ExitBegins(s, P, h)
        /\ g # 1
        /\ \E t \in Slots \cup {-1} :
             /\ IsParentTask(E, groups[g].ppid, ev, t)
             /\ slots' = ChildSlots(E, t, ev, h)
             /\ groups' = ChildGroups(E, groups, t, ev)
        /\ UNCHANGED phase

\* The last task of any other group: its parent group is told.
ExitProcess(s, P, h) ==
    LET g == P[s].tgid
        E == ParentReleased(P, s, h)
        ev == [pid |-> g, kind |-> "EXITED"]
    IN  /\ ExitBegins(s, P, h)
        /\ Members(Departed(P, s), g) = {} /\ g # 1
        /\ \E t \in Slots \cup {-1} :
             /\ IsParentTask(E, groups[g].ppid, ev, t)
             /\ slots' = ChildSlots(E, t, ev, h)
             /\ groups' = [ChildGroups(E, groups, t, ev) EXCEPT ![g] = NoGroup]
        /\ UNCHANGED phase

-----------------------------------------------------------------------------
(* lxp_handle_exec                                                         *)

ExecPending(s) ==
    phase = "UP" /\ slots[s].alive /\ slots[s].intent = "EXEC" /\ slots[s].host = "PARKED"

Execing(s) == [slots EXCEPT ![s].intent = "NONE"]

\* Before the commit point: an image that cannot load, or no free region.  The
\* old program gets the error.
ExecRefused(s) ==
    /\ ExecPending(s)
    /\ \E h \in Oracles :
         slots' = CompleteSlot(Execing(s), SlotRefAt(slots, s), h) /\ Failed(h, 0)
    /\ UNCHANGED <<phase, reg, guard, groups, mem, saved, nextPid>>

\* A vfork child whose parent or snapshot is gone has nothing it may restore.
ExecStale(s) ==
    \/ slots[s].snap # NoRef /\ ~LeaseMatches(reg, slots[s].snap, SlotRefAt(slots, s))
    \/ slots[s].vpar # NoRef /\ ~(slots[s].snap # NoRef /\ RestoreOk(slots, reg, s))

ExecContained(s) ==
    /\ ExecPending(s) /\ ExecStale(s)
    /\ slots' = ContainSlots(Execing(s), s)
    /\ reg' = ContainRegions(slots, reg, s)
    /\ guard' = [guard EXCEPT ![s] = NoGuard]
    /\ UNCHANGED <<phase, groups, mem, saved, nextPid, used>>

\* The region the new image goes to: the snapshot, or the first free one, leased
\* to the task; with the region table once it is reserved.
ExecTargets(s) ==
    IF slots[s].snap # NoRef THEN {[R |-> reg, ref |-> slots[s].snap]}
    ELSE {[R |-> Reserve(reg, r, SlotRefAt(slots, s)),
           ref |-> [index |-> r, gen |-> GenNext(reg[r].gen)]] :
             r \in {q \in Regions : FirstFreeRegion(reg, q)}}

\* Past the commit point: the vfork parent's memory is restored, and the other
\* tasks of the group are aborted and marked to exit.
ExecPeers(s) == Members(slots, slots[s].tgid) \ {s}
Committed(s, h) ==
    [t \in Slots |->
        IF t = s THEN [slots[s] EXCEPT !.intent = "NONE", !.snap = NoRef]
        ELSE IF t \in ExecPeers(s) THEN ExitSlot(AbortSlot(slots, t, h), t, "EXIT")[t]
        ELSE slots[t]]
\* Mutant: the parent's memory is not restored.
ExecMemKept(s) == mem

ExecMem(s) == IF slots[s].vpar # NoRef THEN Restored(slots, s) ELSE mem
ExecGuard(s) == IF slots[s].vpar # NoRef THEN [guard EXCEPT ![s] = NoGuard] ELSE guard

\* The new image runs, in its own region, under a new slot generation.
ExecDone(s, R, ref) ==
    \E h \in Oracles :
      LET P == Committed(s, h)
          Q == Reassign([P EXCEPT ![s] =
                 [Cleared(@) EXCEPT !.alive = TRUE, !.host = "RUNNING", !.runnable = TRUE,
                                    !.pid = slots[s].pid, !.tgid = slots[s].tgid,
                                    !.mm = ref]], s)
          me == SlotRefAt(slots, s)
      IN  /\ ExecPending(s) /\ ~ExecStale(s)
          /\ (\A t \in ExecPeers(s) \cup {s} : <<"abort", t>> \notin h) /\ <<"start", s>> \notin h
          /\ slots' = CompleteSlot(Q, slots[s].vpar, h)
          /\ reg' = CommitAddressSpace(
                      LeaseReassign(Put(R, slots[s].mm), ref, me, SlotRefAt(Q, s)),
                      ref, SlotRefAt(Q, s))
          /\ guard' = ExecGuard(s)
          /\ mem' = [ExecMem(s) EXCEPT ![ref.index] = 0]
          /\ Failed(h, 0)
          /\ UNCHANGED <<phase, groups, saved, nextPid>>

\* lxp_exec_txn_abort past the commit point, the native task being gone: a peer
\* would not stop, the descriptors could not be copied, the loader failed, or
\* the launch was refused.  Both regions are released and 127 is reported.
ExecFailed(s, R, ref) ==
    \E h \in Oracles :
      LET P == Committed(s, h)
          Q == [Reassign(P, s) EXCEPT ![s] = [Cleared(@) EXCEPT !.host = "DEAD"]]
          g == slots[s].tgid
          E == CompleteSlot(Q, slots[s].vpar, h)
          ev == [pid |-> slots[s].pid, kind |-> "EXITED"]
      IN  /\ ExecPending(s) /\ ~ExecStale(s)
          /\ LateExecFail \/ <<"start", s>> \in h
             \/ \E t \in ExecPeers(s) \cup {s} : <<"abort", t>> \in h
          /\ reg' = Put(LeaseReassign(Put(R, slots[s].mm), ref,
                                      SlotRefAt(slots, s), SlotRefAt(Q, s)), ref)
          /\ guard' = [guard EXCEPT ![s] = NoGuard]
          /\ mem' = ExecMem(s)
          /\ \E t \in Slots \cup {-1} :
               /\ IsParentTask(E, groups[g].ppid, ev, t)
               /\ slots' = ChildSlots(E, t, ev, h)
               /\ groups' = ChildGroups(E, GroupPut(Q, groups, g), t, ev)
          /\ Failed(h, 0)
          /\ UNCHANGED <<phase, saved, nextPid>>

\* The same, but the task itself cannot be aborted: it keeps its old region and
\* the exit event retries.  The new region is given back.
ExecStuck(s, R, ref) ==
    \E h \in Oracles :
      /\ ExecPending(s) /\ ~ExecStale(s) /\ <<"abort", s>> \in h
      /\ slots' = AbortSlot(Committed(s, h), s, h)
      /\ reg' = ReleaseIfOwned(R, ref, SlotRefAt(slots, s))
      /\ guard' = ExecGuard(s)
      /\ mem' = ExecMem(s)
      /\ Failed(h, 0)
      /\ UNCHANGED <<phase, groups, saved, nextPid>>

\* The new image is published, its launch is refused, and so is the abort: it
\* keeps its region, still leased, and the vfork parent for the exit retry.
ExecLaunchStuck(s, R, ref) ==
    \E h \in Oracles :
      LET P == Committed(s, h)
          Q == Reassign([P EXCEPT ![s] =
                 [Cleared(@) EXCEPT !.alive = TRUE, !.host = "FAILED", !.intent = "EXIT",
                                    !.pid = slots[s].pid, !.tgid = slots[s].tgid,
                                    !.mm = ref, !.vpar = slots[s].vpar]], s)
      IN  /\ ExecPending(s) /\ ~ExecStale(s)
          /\ \A t \in ExecPeers(s) : <<"abort", t>> \notin h
          /\ <<"abort", s>> \in h /\ <<"start", s>> \in h
          /\ slots' = Q
          /\ reg' = LeaseReassign(Put(R, slots[s].mm), ref,
                                  SlotRefAt(slots, s), SlotRefAt(Q, s))
          /\ guard' = ExecGuard(s)
          /\ mem' = [ExecMem(s) EXCEPT ![ref.index] = 0]
          /\ Failed(h, 0)
          /\ UNCHANGED <<phase, groups, saved, nextPid>>

-----------------------------------------------------------------------------
(* Job control.                                                            *)

\* LXP_EV_STOP: a guest that stopped at a system-call boundary is parked.
EvStop(s) ==
    /\ phase = "UP" /\ slots[s].alive /\ slots[s].runnable
    /\ slots[s].stop = "READY" /\ slots[s].intent = "NONE"
    /\ \E h \in Oracles :
         LET P == ParkSlot(slots, s, h)
         IN  /\ IF P[s].host = "PARKED" THEN NotifyStopped(P, groups, s, h)
                ELSE slots' = P /\ UNCHANGED groups
             /\ Failed(h, 0)
    /\ UNCHANGED <<phase, reg, guard, mem, saved, nextPid>>

\* lxp_scan_blocked meets parked tasks here.  lxp_blocked_handle_stopped does not
\* test that: a guest that froze itself and is not claimed yet is in Coordinator.
Scanned(s) == phase = "UP" /\ slots[s].alive /\ ~slots[s].runnable /\ slots[s].intent = "NONE"

\* A stopped task that takes the signal that ends the stop.
Unstopped(p, sig) == [p EXCEPT !.pend = @ \ {sig}, !.stop = "NONE"]

\* Mutant: SIGCONT resumes a task whatever it is parked for.
ScanStoppedResumes(s) ==
    /\ Scanned(s) /\ slots[s].stop # "NONE" /\ "CONT" \in slots[s].pend
    /\ slots' = ResumeSlot([slots EXCEPT ![s] = Unstopped(@, "CONT")], s, {})
    /\ UNCHANGED <<phase, reg, guard, groups, mem, saved, nextPid, used>>

\* lxp_blocked_handle_stopped: a fatal signal first, then SIGCONT.
ScanStopped(s) ==
    /\ Scanned(s) /\ slots[s].stop # "NONE"
    /\ \/ /\ "KILL" \in slots[s].pend
          /\ slots' = ExitSlot([slots EXCEPT ![s] = Unstopped(@, "KILL")], s, "EXIT")
          /\ UNCHANGED used
       \/ /\ "KILL" \notin slots[s].pend /\ "CONT" \in slots[s].pend
          /\ LET P == [slots EXCEPT ![s] = Unstopped(@, "CONT")]
             IN  IF slots[s].stop = "READY"
                 THEN \E h \in Oracles : slots' = ResumeSlot(P, s, h) /\ Failed(h, 0)
                 ELSE slots' = P /\ UNCHANGED used
    /\ UNCHANGED <<phase, reg, guard, groups, mem, saved, nextPid>>

\* lxp_blocked_handle_signal: a stop freezes any parked task; the others only
\* reach one that is in a wait.
ScanSignal(s) ==
    LET sig == Deliverable(slots[s].pend)
        taken == [slots EXCEPT ![s].pend = @ \ {sig}]
    IN  /\ Scanned(s) /\ slots[s].stop = "NONE"
        /\ \/ /\ sig = "STOP"
              /\ \E h \in Oracles :
                   NotifyStopped([taken EXCEPT ![s].stop = "PARKED"], groups, s, h) /\ Failed(h, 0)
           \/ /\ sig = "KILL" /\ slots[s].wait.child
              /\ slots' = [taken EXCEPT ![s] = [@ EXCEPT !.wait = NoWait, !.intent = "EXIT"]]
              /\ UNCHANGED <<groups, used>>
           \/ /\ sig = "CONT" /\ slots[s].wait.child
              /\ slots' = taken
              /\ UNCHANGED <<groups, used>>
        /\ UNCHANGED <<phase, reg, guard, mem, saved, nextPid>>

-----------------------------------------------------------------------------
HandleFork(s) ==
    \/ ForkRefused(s)
    \/ \E c \in Slots : ForkAborted(s, c) \/ ForkShared(s, c)
    \/ \E c \in Slots, r \in Regions : ForkVfork(s, c, r)

HandleExec(s) ==
    \/ ExecRefused(s)
    \/ ExecContained(s)
    \/ \E x \in ExecTargets(s) :
         \/ ExecDone(s, x.R, x.ref) \/ ExecFailed(s, x.R, x.ref)
         \/ ExecStuck(s, x.R, x.ref) \/ ExecLaunchStuck(s, x.R, x.ref)

HandleExit(s) ==
    \/ ExitRetry(s)
    \/ \E h \in Oracles : \E P \in {AbortSlot(Exiting(s), s, h)} :
         ExitThread(s, P, h) \/ ExitInit(s, P, h) \/ ExitProcess(s, P, h)

Guest(s) ==
    \/ Write(s) \/ RequestExec(s) \/ Reboot(s) \/ TakeSignal(s)
    \/ DeferRefused(s) \/ OtherCall(s)
    \/ \E kind \in ForkKinds : RequestFork(s, kind)
    \/ \E kind \in ExitKinds : RequestExit(s, kind)
    \/ \E t \in Slots, sig \in SigKinds : SendSignal(s, t, sig)
    \/ \E pid \in WaitPids, untraced \in BOOLEAN :
         Wait4Reap(s, pid, untraced) \/ Wait4Block(s, pid, untraced)

Coordinator(s) ==
    HandleFork(s) \/ HandleExec(s) \/ HandleExit(s) \/ EvStop(s)
    \/ ScanStopped(s) \/ ScanSignal(s)

Next ==
    \/ StartRun \/ StartFailed \/ Teardown \/ AllDead \/ Watchdog
    \/ \E s \in Slots : Guest(s) \/ Coordinator(s)

\* The coordinator claims events round-robin (lxp_coordinator_claim_event), so an
\* exit that stays pending is handled, and the teardown it may lead to is run.
\* Nothing is assumed of the guests, nor of the other events.
Fairness == WF_vars(Teardown) /\ \A s \in Slots : WF_vars(HandleExit(s))

Spec == Init /\ [][Next]_vars /\ Fairness

-----------------------------------------------------------------------------
(* Properties.                                                             *)

\* Types: generations wrap within their width and never leave it, counts stay
\* within the number of slots, and every reference is to a slot or region or none.
TypeOK ==
    /\ phase \in {"DOWN", "UP", "STOPPING"}
    /\ slots \in SlotTables
    /\ reg \in RegionTables
    /\ guard \in [Slots -> Guards]
    /\ groups \in GroupTables
    /\ mem \in [Regions -> 0..MaxPid] /\ saved \in [Slots -> 0..MaxPid]
    /\ nextPid \in Nat
    /\ used \in [fork : Nat, exec : Nat, sig : Nat, fail : Nat, halt : Nat, run : Nat]

\* The references of a region are exactly the live tasks that run in it, each
\* of which names its present generation; a leased region has the lease as its
\* only reference and no task but, at most, the lease owner itself (a published
\* image whose launch failed).  So a region is never freed under a task, never
\* given out twice, and never kept by a task that is gone.
RegionAccounting ==
    \A r \in Regions :
      /\ \A s \in RegionUsers(slots, r) : slots[s].mm = RegionRefAt(reg, r)
      /\ IF reg[r].lease = NoRef
         THEN reg[r].refs = Cardinality(RegionUsers(slots, r))
         ELSE reg[r].refs = 1 /\ RegionUsers(slots, r) \subseteq {reg[r].lease.index}

\* A slot is free for reuse only when its native task is known to be gone: a
\* refused abort keeps the process (lxp_handle_exit, lxp_exec_txn_abort).
FreeSlotHasNoTask ==
    \A s \in Slots : ~slots[s].alive => slots[s].host \in {"FREE", "DEAD"} /\ ~slots[s].runnable

\* Between fork and the child's exec or exit the snapshot is the child's alone
\* and still holds what the parent's memory was: with the parent current, every
\* identity test of lxp_vfork_restore succeeds, so lxp_vfork_contain_stale never
\* ends an innocent parent.
SnapshotIntact ==
    \A c \in Slots :
      slots[c].alive /\ slots[c].snap # NoRef =>
        /\ LeaseMatches(reg, slots[c].snap, SlotRefAt(slots, c))
        /\ RegionUsers(slots, slots[c].snap.index) = {}
        /\ mem[slots[c].snap.index] = saved[c]
        /\ IsCurrent(slots, slots[c].vpar) => RestoreOk(slots, reg, c)

\* The parent does not run while its fork child borrows its memory, whatever
\* signals reach it: job control may stop, continue or kill it, not release it.
VforkSuspended ==
    \A c \in Slots :
      slots[c].alive /\ slots[c].snap # NoRef /\ IsCurrent(slots, slots[c].vpar)
        => LET p == slots[slots[c].vpar.index]
           IN  \/ p.host = "PARKED"
               \/ p.intent \in Exits /\ p.host \in {"DEAD", "FAILED"}

\* When the window closes (the child execs, exits or is contained) and the
\* parent is still there, the parent's memory is what it was at the fork.
VforkRestored ==
    [][\A c \in Slots :
         /\ phase' = "UP" /\ slots[c].alive /\ slots[c].snap # NoRef
         /\ IsCurrent(slots, slots[c].vpar) /\ IsCurrent(slots', slots[c].vpar)
         /\ ~(slots'[c].alive /\ slots'[c].snap = slots[c].snap)
         => mem'[slots[slots[c].vpar.index].mm.index] = saved[c]]_vars

\* No lost wake-up: a parked task with nothing for the coordinator to do is in
\* a wait4, is stopped with its result kept, or has a fork child that will
\* release it.
ParkedHasReason ==
    \A s \in Slots :
      slots[s].alive /\ slots[s].host = "PARKED" /\ slots[s].intent = "NONE" =>
        \/ slots[s].wait.child
        \/ slots[s].stop = "READY"
        \/ \E c \in Slots : slots[c].alive /\ slots[c].vpar = SlotRefAt(slots, s)

\* A task does not sleep in wait4 over a status it could have collected.
NoMissedChild ==
    \A s \in Slots : slots[s].alive /\ slots[s].wait.child =>
      \A i \in 1..Len(groups[slots[s].tgid].queue) :
        ~Accepts(slots[s], groups[slots[s].tgid].queue[i])

\* live_children of a live group is the number of its live child groups: wait4
\* neither reports ECHILD while a child lives nor sleeps for one that is gone.
LiveGroups == {g \in Pids : Members(slots, g) # {}}
ChildAccounting ==
    \A g \in LiveGroups :
      groups[g].kids = Cardinality({k \in LiveGroups : groups[k].ppid = g})

\* A task of a single-threaded process that waits for any child has a live one,
\* so something can still wake it: the last child's status is never taken by a
\* path that leaves the waiter asleep.
WaitHasChild ==
    \A s \in Slots :
      slots[s].alive /\ slots[s].wait.child /\ slots[s].wait.pid = 0
        /\ Members(slots, slots[s].tgid) = {s} => groups[slots[s].tgid].kids > 0

\* No sleep in wait4 is for nothing: neither over a status that is there, nor
\* for a child that is not.
WaitsSound == NoMissedChild /\ WaitHasChild

\* The exit status of a group whose parent group is alive is handed to a waiting
\* task of it or put on its queue: lxp_fork_capacity_available keeps room.
ExitReported ==
    [][\A g \in LiveGroups :
         LET p == groups[g].ppid IN
         Members(slots, g) # {} /\ Members(slots', g) = {} /\ phase' = "UP"
           /\ p \in Pids /\ p \in LiveGroups =>
             \/ \E i \in 1..Len(groups'[p].queue) :
                  groups'[p].queue[i] = [pid |-> g, kind |-> "EXITED"]
             \/ \E t \in Members(slots, p) : slots[t].wait.child /\ ~slots'[t].wait.child]_vars

\* A pending SIGKILL is never forgotten: it stays pending until the task is on
\* its way out.
KillKept ==
    [][\A s \in Slots :
         slots[s].alive /\ "KILL" \in slots[s].pend /\ phase' = "UP" =>
           \/ ~slots'[s].alive \/ slots'[s].intent \in Exits
           \/ "KILL" \in slots'[s].pend]_vars

\* A status that says a process exited is about a process with no live task.
ReportedIsDead ==
    \A g \in Pids : \A i \in 1..Len(groups[g].queue) :
      groups[g].queue[i].kind = "EXITED" => Members(slots, groups[g].queue[i].pid) = {}

\* A task told to exit is gone after finitely many refusals of the RTOS.
ExitCompletes ==
    \A s \in Slots :
      (phase = "UP" /\ slots[s].alive /\ slots[s].intent \in Exits)
        ~> (phase # "UP" \/ ~slots[s].alive)

\* exit_group takes every task of the group with it.
GroupExits ==
    \A g \in Pids :
      (phase = "UP" /\ \E s \in Members(slots, g) : slots[s].intent = "EXIT_GROUP")
        ~> (phase # "UP" \/ Members(slots, g) = {})
=============================================================================
