-------------------------------- MODULE Seam --------------------------------
(***************************************************************************)
(* The core's side of the seam to an RTOS port: the state of a slot that a *)
(* port reads (generation, runnable, memory policy) and the coordinator    *)
(* around a port callback.  lxp_lifecycle_apply() publishes the runnable   *)
(* capability before a callback that may start a task and withdraws it     *)
(* after one that stops it, so a callback has three steps here: before,    *)
(* the callback itself (an action of the port's module) and after.         *)
(***************************************************************************)
EXTENDS Integers, Sequences, FiniteSets

CONSTANTS
    NSLOT,       \* LXP_NSLOT
    NREG         \* LXP_NREG

ASSUME TableAssumption == NSLOT \in Nat \ {0} /\ NREG \in Nat \ {0}

VARIABLE core

Slot == 0..(NSLOT - 1)
Region == 0..(NREG - 1)
NoSlot == -1

Idle == [op |-> "none", slot |-> NoSlot, gen |-> 0, stage |-> "out", rc |-> TRUE,
         old |-> "free", fate |-> "exit"]

(* A device mapping under way: the mm it is for, the range and its entry,  *)
(* the slots it has not been handed to yet, and the next store to the mm.  *)
NoDev == [addr |-> 0, attrs |-> 0]
NoMap == [mm |-> NoSlot, dev |-> NoDev, entry |-> 0, todo |-> {}, next |-> "range",
          was |-> <<>>]

NoMm == [ridx |-> 0, rgen |-> 0, dgen |-> 0, devs |-> <<>>, text |-> FALSE]

(* How many incarnations each slot may have, how often each region may be  *)
(* leased, whether images have copied text, how children share their       *)
(* memory, which device ranges may be mapped how often, and the quantum of *)
(* weight 20 in ticks.                                                     *)
Devices == [addr : Nat \ {0}, attrs : Nat]
Bounds == [admit : [Slot -> Nat], leases : [Region -> Nat], texts : SUBSET BOOLEAN,
           shares : SUBSET BOOLEAN, devs : SUBSET Devices, maps : Nat, base : Nat]

(* mm is the mm object of each slot; threads share one, a vfork child has  *)
(* a copy in the same region.                                              *)
CoreInit(bound) ==
    core = [gen |-> [s \in Slot |-> 0],
            bound |-> bound,
            alive |-> [s \in Slot |-> FALSE],
            runnable |-> [s \in Slot |-> FALSE],
            host |-> [s \in Slot |-> "free"],
            mm |-> [s \in Slot |-> 0],
            mms |-> [m \in Slot |-> NoMm],
            leases |-> [r \in Region |-> 0],
            pos |-> [s \in Slot |-> "user"],
            want |-> [s \in Slot |-> "none"],
            call |-> Idle,
            map |-> NoMap,
            run |-> "down"]

lxp_slot_ref_is_current(c, s, g) == g # 0 /\ c.gen[s] = g /\ c.alive[s]

lxp_slot_ref_is_runnable(c, s, g) == c.runnable[s] /\ lxp_slot_ref_is_current(c, s, g)

(* Nice weights: the first slot is the heavily weighted one.               *)
lxp_guest_sched_weight(c, s) == IF ~c.runnable[s] THEN 0 ELSE IF s = 0 THEN 20 ELSE 1

(* The quantum of a guest of the given weight, in ticks.                   *)
Quantum(base, weight) ==
    LET q == (base * weight + 19) \div 20 IN IF q = 0 THEN 1 ELSE q

MmOf(c, s) == c.mms[c.mm[s]]

(* The identity of an address space as its devices and text stand; the     *)
(* execute generation changes with the lease and is left inside rgen.      *)
AddressSpace(c, s) ==
    LET mm == MmOf(c, s) IN
    [ridx |-> mm.ridx, rgen |-> mm.rgen, dgen |-> mm.dgen, text |-> mm.text]

(* lxp_slot_memory_policy and lxp_memory_policy_make_key: the policy of a  *)
(* current slot is its address space, its device ranges and its own ref.   *)
HasPolicy(c, s, g) == lxp_slot_ref_is_current(c, s, g) /\ MmOf(c, s).dgen # 0

Policy(c, s, g) == [slot |-> s, gen |-> g, space |-> AddressSpace(c, s),
                    devs |-> MmOf(c, s).devs]

PolicyKey(p) == [slot |-> p.slot, gen |-> p.gen, space |-> p.space]

NoKey == [slot |-> NoSlot, gen |-> 0,
          space |-> [ridx |-> 0, rgen |-> 0, dgen |-> 0, text |-> FALSE]]

(* A ready queue without the given slot, which is in it at most once.      *)
Without(q, s) ==
    IF \A i \in 1..Len(q) : q[i] # s THEN q
    ELSE LET at == CHOOSE i \in 1..Len(q) : q[i] = s IN
         [i \in 1..(Len(q) - 1) |-> IF i < at THEN q[i] ELSE q[i + 1]]

-----------------------------------------------------------------------------
(* The coordinator before a callback.                                      *)

CallOf(op, s, g, fate) == [op |-> op, slot |-> s, gen |-> g, stage |-> "in", rc |-> TRUE,
                           old |-> core.host[s], fate |-> fate]

Ready == core.call.op = "none" /\ core.run = "up" /\ core.map = NoMap

Sharing(c, m) == {s \in Slot : c.alive[s] /\ c.mm[s] = m}

(* mm_new takes an object nobody uses, and fails without one.              *)
MmLeft == \E m \in Slot : Sharing(core, m) = {}
FreeMm == CHOOSE m \in Slot : Sharing(core, m) = {}

(* A fresh process, or the next image of an exec whose old task is gone    *)
(* and whose mm was put, in a region leased for it.                        *)
CallLaunch(s, r, text) ==
    /\ Ready /\ core.host[s] = "free" /\ core.want[s] = "none"
    /\ \A t \in Slot \ {s} : core.alive[t] => MmOf(core, t).ridx # r
    /\ core.leases[r] < core.bound.leases[r]
    /\ core.gen[s] < core.bound.admit[s]
    /\ (core.alive[s] /\ Sharing(core, core.mm[s]) = {s}) \/ MmLeft
    /\ LET g == core.gen[s] + 1
           m == IF core.alive[s] /\ Sharing(core, core.mm[s]) = {s} THEN core.mm[s] ELSE FreeMm IN
       core' = [core EXCEPT !.gen[s] = g, !.alive[s] = TRUE, !.mm[s] = m, !.leases[r] = @ + 1,
                            !.mms[m] = [ridx |-> r, rgen |-> core.leases[r] + 1, dgen |-> 1,
                                        devs |-> <<>>, text |-> text],
                            !.runnable[s] = TRUE, !.pos[s] = "user",
                            !.call = CallOf("launch", s, g, "exit")]

(* A child of a parked caller of clone or vfork: in the caller's mm, or in *)
(* a copy of it.                                                           *)
CallStart(s, p, shared) ==
    /\ Ready /\ core.host[s] = "free" /\ ~core.alive[s] /\ core.gen[s] < core.bound.admit[s]
    /\ core.alive[p] /\ core.host[p] = "parked" /\ core.want[p] = "none"
    /\ shared \/ MmLeft
    /\ LET g == core.gen[s] + 1
           m == IF shared THEN core.mm[p] ELSE FreeMm IN
       core' = [core EXCEPT !.gen[s] = g, !.alive[s] = TRUE, !.mm[s] = m,
                            !.mms[m] = MmOf(core, p),
                            !.runnable[s] = TRUE, !.pos[s] = "user", !.want[s] = "none",
                            !.call = CallOf("start", s, g, "exit")]

CallResume(s) ==
    /\ Ready /\ core.alive[s] /\ core.host[s] = "parked" /\ core.want[s] = "none"
    /\ core' = [core EXCEPT !.runnable[s] = TRUE,
                            !.call = CallOf("resume", s, core.gen[s], "exit")]

(* Every park follows the trap that redirected the guest to the park entry.*)
CallPark(s) ==
    /\ Ready /\ core.alive[s] /\ core.host[s] = "running" /\ core.want[s] = "park"
    /\ core' = [core EXCEPT !.call = CallOf("park", s, core.gen[s], "exit")]

(* An exit, or an exec past its commit point, ends the native task.        *)
CallAbort(s, fate) ==
    /\ Ready /\ core.alive[s] /\ core.host[s] # "free"
    /\ fate = "exec" => core.host[s] = "parked" /\ core.want[s] = "none"
    /\ core' = [core EXCEPT !.call = CallOf("abort", s, core.gen[s], fate)]

-----------------------------------------------------------------------------
(* The coordinator after a callback.                                       *)

InCall(op) == core.call.op = op /\ core.call.stage = "in"

(* The outcome the callback returned is the callback's alone to set.       *)
Answered(c, rc) == [c EXCEPT !.call.stage = "out", !.call.rc = rc]

(* An exit drops the slot's mm, an exec keeps it until the next image.     *)
Gone(c, s) ==
    LET stays == c.call.fate = "exec" IN
    [c EXCEPT !.host[s] = "free", !.runnable[s] = FALSE, !.call = Idle,
              !.alive[s] = stays, !.want[s] = "none", !.pos[s] = "user",
              !.mm[s] = IF stays THEN @ ELSE 0,
              !.mms[c.mm[s]] = IF stays \/ Sharing(c, c.mm[s]) # {s} THEN @ ELSE NoMm]

AbortNext(c, s, old) ==
    [c EXCEPT !.call = [Idle EXCEPT !.op = "abort", !.slot = s, !.gen = c.gen[s],
                                    !.stage = "in", !.old = old]]

lxp_lifecycle_apply(c) ==
    LET s == c.call.slot
        old == c.call.old IN
    CASE c.call.op = "abort" /\ c.call.rc -> Gone(c, s)
      [] c.call.op = "abort" /\ ~c.call.rc ->
             [c EXCEPT !.host[s] = "failed", !.runnable[s] = old = "running",
                       !.want[s] = "exit", !.call = Idle]
      [] c.call.op = "park" /\ c.call.rc ->
             [c EXCEPT !.host[s] = "parked", !.runnable[s] = FALSE,
                       !.want[s] = IF @ = "park" THEN "none" ELSE @, !.call = Idle]
      [] c.call.op = "park" /\ ~c.call.rc -> AbortNext(c, s, "running")
      [] c.call.op \in {"resume", "start"} /\ ~c.call.rc ->
             AbortNext([c EXCEPT !.runnable[s] = FALSE, !.want[s] = "exit"], s, old)
      [] c.call.op = "launch" /\ ~c.call.rc ->
             Gone([c EXCEPT !.call.fate = "exit"], s)
      [] c.call.op = "prepare" -> [c EXCEPT !.run = IF c.call.rc THEN "up" ELSE "failed",
                                            !.call = Idle]
      [] c.call.op = "teardown" -> [c EXCEPT !.run = "down", !.call = Idle]
      [] OTHER -> [c EXCEPT !.host[s] = "running", !.call = Idle]

CallReturns ==
    /\ core.call.op # "none" /\ core.call.stage = "out"
    /\ core' = lxp_lifecycle_apply(core)

(* The run bracket: teardown follows prepare whether or not it failed.     *)
CallPrepare ==
    /\ core.call.op = "none" /\ core.run = "down"
    /\ core' = [core EXCEPT !.call = [Idle EXCEPT !.op = "prepare", !.stage = "in"]]

CallTeardown ==
    /\ core.call.op = "none"
    /\ \/ core.run = "failed"
       \/ core.run = "up" /\ \A s \in Slot : ~core.alive[s]
    /\ core' = [core EXCEPT !.call = [Idle EXCEPT !.op = "teardown", !.stage = "in"]]

CoordinatorStep ==
    \/ \E s \in Slot, r \in Region, text \in core.bound.texts : CallLaunch(s, r, text)
    \/ \E s, p \in Slot, shared \in core.bound.shares : CallStart(s, p, shared)
    \/ \E s \in Slot : CallResume(s)
    \/ \E s \in Slot : CallPark(s)
    \/ \E s \in Slot, fate \in {"exit", "exec"} : CallAbort(s, fate)
    \/ CallPrepare
    \/ CallTeardown
    \/ CallReturns

-----------------------------------------------------------------------------
(* The trap and the fault, as the core handles them for a port.            *)

(* lxp_dispatch_slot: a fast call returns to the guest, any other one is   *)
(* published for the coordinator and the guest redirected to the park      *)
(* entry.                                                                  *)
lxp_dispatch_slot(c, s, g, outcome) ==
    IF outcome = "fast" \/ ~lxp_slot_ref_is_runnable(c, s, g) \/ c.want[s] # "none" THEN c
    ELSE [c EXCEPT !.want[s] = outcome, !.pos[s] = "entry"]

lxp_slot_report_memory_fault(c, s, g) ==
    IF lxp_slot_ref_is_current(c, s, g) THEN [c EXCEPT !.want[s] = "exit"] ELSE c

(* The engine handler sends the guest to the park entry after a fault.     *)
Faulted(c, s, g) == [lxp_slot_report_memory_fault(c, s, g) EXCEPT !.pos[s] = "entry"]

lxp_trap_active(c) == c.run = "up"
=============================================================================
