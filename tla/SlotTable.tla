----------------------------- MODULE SlotTable -----------------------------
(***************************************************************************)
(* The slot table: one entry per guest task, joining the Linux process     *)
(* (proc), the state of its native RTOS task (host, runnable) and the slot *)
(* generation.  The operators are the coordinator's primitives on it:      *)
(* native transitions (src/src/run/lxp_lifecycle.c), signal latching       *)
(* (src/src/signal/lxp_signal_policy.c) and child events                   *)
(* (src/src/run/lxp_child.c).  P is a slot table, G a thread-group table.  *)
(*                                                                         *)
(* h is the set of RTOS callbacks that refuse in the step at hand: pairs   *)
(* of "park" (park_slot), "start" (spawn_resume, spawn_launch) or "abort"  *)
(* (abort_slot) and a slot.                                                *)
(***************************************************************************)
EXTENDS RegionTable, Sequences, FiniteSets

CONSTANTS
    MAX_CHILD,  \* LXP_MAX_CHILD, entries of a parent's child-status queue
    MaxPid      \* bound: pids handed out in one run

ASSUME ChildAssumption == MAX_CHILD \in Nat \ {0} /\ MaxPid \in Nat \ {0}

Pids == 1 .. MaxPid
Signals == {"KILL", "CONT", "STOP"}
Hosts == {"FREE", "RUNNING", "PARKED", "DEAD", "FAILED"}
Forks == {"FORK", "VM", "THREAD"}      \* fork/vfork; CLONE_VM; CLONE_VM|CLONE_THREAD
Exits == {"EXIT", "EXIT_GROUP"}
Intents == {"NONE", "EXEC"} \cup Forks \cup Exits

\* proc->wait: none, or LXP_WAIT_CHILD with wait4's pid filter (0: any child)
\* and its WUNTRACED option.
NoWait == [child |-> FALSE, pid |-> 0, untraced |-> FALSE]
Waits == [child : BOOLEAN, pid : 0..MaxPid, untraced : BOOLEAN]

SlotRecords ==
    [alive : BOOLEAN, gen : 0..GenMax, host : Hosts, runnable : BOOLEAN,
     intent : Intents, wait : Waits,
     stop : {"NONE", "PARKED", "READY"}, pend : SUBSET Signals,
     pid : 0..MaxPid, tgid : 0..MaxPid, mm : RegionRefs,
     vpar : SlotRefs,   \* vfork_parent
     snap : RegionRefs] \* snapshot
SlotTables == [Slots -> SlotRecords]

\* A process record that lxp_slot_proc_reset / proc_child_reset has cleared.
Cleared(p) ==
    [p EXCEPT !.alive = FALSE, !.runnable = FALSE, !.intent = "NONE", !.wait = NoWait,
              !.stop = "NONE", !.pend = {}, !.pid = 0, !.tgid = 0, !.mm = NoRef,
              !.vpar = NoRef, !.snap = NoRef]

SlotRefAt(P, s) == [index |-> s, gen |-> P[s].gen]

IsCurrent(P, ref) ==
    /\ ref.index \in Slots /\ ref.gen # 0
    /\ P[ref.index].gen = ref.gen /\ P[ref.index].alive

\* lxp_deferred_slot_reassign: a new incarnation of the slot.
Reassign(P, s) == [P EXCEPT ![s].gen = GenNext(@)]

RegionUsers(P, r) == {s \in Slots : P[s].alive /\ P[s].mm.index = r}

\* Mutant: only the users are looked at.
RegionFreeUnused(P, R, r) == RegionUsers(P, r) = {}

\* lxp_region_free
RegionFree(P, R, r) ==
    R[r].lease = NoRef /\ R[r].refs = 0 /\ RegionUsers(P, r) = {}

Members(P, g) == {s \in Slots : P[s].alive /\ P[s].tgid = g}

Faults == {"park", "start", "abort"} \X Slots

-----------------------------------------------------------------------------
(* Native transitions.                                                     *)

\* lxp_coordinator_exit_slot, on a live slot
ExitSlot(P, s, kind) == [P EXCEPT ![s].intent = kind]

\* slot_transition_failed
TransitionFailed(P, s) == IF P[s].alive THEN ExitSlot(P, s, "EXIT") ELSE P

AbortSlot(P, s, h) ==
    IF <<"abort", s>> \in h
    THEN TransitionFailed(
           [P EXCEPT ![s] = [@ EXCEPT !.host = "FAILED",
                                      !.runnable = (P[s].host = "RUNNING")]], s)
    ELSE [P EXCEPT ![s] = [@ EXCEPT !.host = "DEAD", !.runnable = FALSE]]

ParkSlot(P, s, h) ==
    IF P[s].host = "PARKED" THEN P
    ELSE IF P[s].host # "RUNNING" THEN TransitionFailed(P, s)
    ELSE IF <<"park", s>> \in h THEN TransitionFailed(AbortSlot(P, s, h), s)
    ELSE [P EXCEPT ![s] = [@ EXCEPT !.host = "PARKED", !.runnable = FALSE]]

CanResume(P, s) ==
    /\ P[s].stop = "NONE" /\ P[s].alive /\ P[s].intent \notin Exits
    /\ P[s].host \in {"PARKED", "FREE", "DEAD"}

ResumeSlot(P, s, h) ==
    IF ~CanResume(P, s) THEN P
    ELSE IF <<"start", s>> \in h THEN TransitionFailed(AbortSlot(P, s, h), s)
    ELSE [P EXCEPT ![s] = [@ EXCEPT !.host = "RUNNING", !.runnable = TRUE]]

\* Mutant: the result for a stopped task is dropped.
CompleteSlotDrops(P, ref, h) ==
    IF ~IsCurrent(P, ref) \/ P[ref.index].host # "PARKED" THEN P
    ELSE ResumeSlot(P, ref.index, h)

\* lxp_coordinator_complete_slot: a job-control stop keeps the result.
CompleteSlot(P, ref, h) ==
    IF ~IsCurrent(P, ref) \/ P[ref.index].host # "PARKED" THEN P
    ELSE IF P[ref.index].stop = "PARKED" THEN [P EXCEPT ![ref.index].stop = "READY"]
    ELSE ResumeSlot(P, ref.index, h)

-----------------------------------------------------------------------------
(* Signals.                                                                *)

\* lxp_signal_latch: the last of SIGCONT and SIGSTOP wins.
Latch(pend, sig) ==
    ((IF sig = "CONT" THEN pend \ {"STOP"}
      ELSE IF sig = "STOP" THEN pend \ {"CONT"} ELSE pend)) \cup {sig}

\* lxp_pending_deliverable takes the lowest number: SIGKILL 9, SIGCONT 18, SIGSTOP 19.
Deliverable(pend) ==
    IF "KILL" \in pend THEN "KILL" ELSE IF "CONT" \in pend THEN "CONT"
    ELSE IF "STOP" \in pend THEN "STOP" ELSE "NONE"

-----------------------------------------------------------------------------
(* Thread groups and child events.                                         *)

Kinds == {"EXITED", "STOPPED"}
Events == [pid : 0..MaxPid, kind : Kinds]
NoGroup == [ppid |-> 0, kids |-> 0, queue |-> <<>>]
Groups == [ppid : 0..MaxPid, kids : Nat, queue : Seq(Events)]
GroupTables == [Pids -> Groups]

\* lxp_proc_group_put by the last member.
GroupPut(P, G, g) == IF Members(P, g) = {} THEN [G EXCEPT ![g] = NoGroup] ELSE G

Accepts(p, ev) ==
    /\ p.wait.child /\ p.wait.pid \in {0, ev.pid}
    /\ ev.kind = "STOPPED" => p.wait.untraced

\* parent_task_for_child: the first task of group ppid whose wait accepts the
\* event, else its first task, else none (-1).
IsParentTask(P, ppid, ev, t) ==
    LET all == Members(P, ppid)
        waiting == {s \in all : Accepts(P[s], ev)}
        from == IF waiting # {} THEN waiting ELSE all
    IN  IF from = {} THEN t = -1 ELSE t \in from /\ \A s \in from : t <= s

\* child_event_publish on the parent task t: it wakes an accepting waiter ...
ChildSlots(P, t, ev, h) ==
    IF t \in Slots /\ Accepts(P[t], ev)
    THEN LET Q == ParkSlot([P EXCEPT ![t].wait = NoWait], t, h)
         IN  CompleteSlot(Q, SlotRefAt(Q, t), h)
    ELSE P

\* Mutant: a stop notification counts as a death.
NotifiedAnyKind(grp, ev, accepted) ==
    [grp EXCEPT !.kids = IF @ > 0 THEN @ - 1 ELSE @,
                !.queue = IF ~accepted /\ Len(@) < MAX_CHILD THEN Append(@, ev) ELSE @]

\* ... or else queues the event, if the queue has room.
Notified(grp, ev, accepted) ==
    [grp EXCEPT !.kids = IF ev.kind = "EXITED" /\ @ > 0 THEN @ - 1 ELSE @,
                !.queue = IF ~accepted /\ Len(@) < MAX_CHILD THEN Append(@, ev) ELSE @]
ChildGroups(P, G, t, ev) ==
    IF t \in Slots
    THEN [G EXCEPT ![P[t].tgid] = Notified(@, ev, Accepts(P[t], ev))] ELSE G
=============================================================================
