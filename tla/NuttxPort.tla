----------------------------- MODULE NuttxPort ------------------------------
(***************************************************************************)
(* The NuttX port: guests are tasks of one priority that NuttX schedules   *)
(* round robin.  One MPU serves everybody: a scheduler note, fired on      *)
(* every switch to a task, compiles the incoming guest's memory policy and *)
(* installs it.  Device ranges reach a slot in two steps: the port stages  *)
(* them slot by slot and the core commits them to the shared mm last.  No  *)
(* order of the coordinator's and the guests' priorities is assumed.       *)
(***************************************************************************)
EXTENDS Seam

VARIABLE nx

NDEV == 2    \* LXP_DEVICE_MPU_COUNT
NoDevs == [i \in 1..NDEV |-> NoDev]

NuttxNoProfile == [valid |-> FALSE, key |-> NoKey, devs |-> NoDevs]

(* The dynamic MPU regions: none, or a region of memory and its devices.   *)
Off == [ridx |-> NoSlot, rgen |-> 0, text |-> FALSE, devs |-> NoDevs]

NoInstalled == [valid |-> FALSE, key |-> NoKey]

NuttxInit ==
    nx = [pid |-> [s \in Slot |-> FALSE],
          gen |-> [s \in Slot |-> 0],
          maps |-> [s \in Slot |-> NoDevs],
          profile |-> [s \in Slot |-> NuttxNoProfile],
          installed |-> NoInstalled,
          mpu |-> Off,
          nat |-> [s \in Slot |-> "none"],
          queue |-> <<>>,
          budget |-> [owner |-> NoSlot, slice |-> 0],
          cpu |-> NoSlot,
          irqs |-> FALSE,
          ev |-> FALSE]

-----------------------------------------------------------------------------
(* Device maps.                                                            *)

(* The entry that holds the address, else the first free one.              *)
MapEntry(maps, dev) ==
    LET same == {i \in 1..NDEV : maps[i].addr = dev.addr}
        free == {i \in 1..NDEV : maps[i] = NoDev}
        from == IF same # {} THEN same ELSE free IN
    IF from = {} THEN 0 ELSE CHOOSE i \in from : \A j \in from : i <= j

nuttx_map_device(maps, dev) == [maps EXCEPT ![MapEntry(maps, dev)] = dev]

(* lxp_coordinator_restore_mm_maps: clear, then every range of the mm.     *)
Restored(devs) == [i \in 1..NDEV |-> IF i <= Len(devs) THEN devs[i] ELSE NoDev]

(* The mm's own entry for a range, 0 when both are taken.                  *)
lxp_device_map_index(devs, dev) ==
    LET same == {i \in 1..Len(devs) : devs[i].addr = dev.addr} IN
    IF same # {} THEN CHOOSE i \in same : TRUE
    ELSE IF Len(devs) < NDEV THEN Len(devs) + 1 ELSE 0

(* A parked caller of mmap has a device range mapped into its mm; was is   *)
(* the history of what the mm held before.                                 *)
MapBegin(p, dev) ==
    LET devs == MmOf(core, p).devs IN
    /\ Ready /\ nx.cpu = NoSlot
    /\ core.alive[p] /\ core.host[p] = "parked" /\ core.want[p] = "none"
    /\ MmOf(core, p).dgen <= core.bound.maps
    /\ lxp_device_map_index(devs, dev) # 0
    /\ core' = [core EXCEPT !.map = [mm |-> core.mm[p], dev |-> dev,
                                     entry |-> lxp_device_map_index(devs, dev),
                                     todo |-> Sharing(core, core.mm[p]),
                                     next |-> "range", was |-> devs]]
    /\ UNCHANGED nx

(* lxp_coordinator_map_mm_range hands the range to the next slot.  When    *)
(* one refuses, every slot of the mm goes back to what the mm holds.       *)
MapStage ==
    /\ core.map # NoMap /\ core.map.todo # {} /\ nx.cpu = NoSlot
    /\ \E s \in core.map.todo :
        /\ \A t \in core.map.todo : s <= t
        /\ LET peers == Sharing(core, core.map.mm) IN
           \/ /\ MapEntry(nx.maps[s], core.map.dev) # 0
              /\ nx' = [nx EXCEPT !.maps[s] = nuttx_map_device(@, core.map.dev)]
              /\ core' = [core EXCEPT !.map.todo = @ \ {s}]
           \/ /\ nx' = [nx EXCEPT !.maps = [t \in Slot |->
                           IF t \in peers THEN Restored(core.mms[core.map.mm].devs) ELSE @[t]]]
              /\ core' = [core EXCEPT !.map = NoMap]

(* The mm takes the range once every slot has accepted it, field by field: *)
(* guests may run between the stores.  The bounds are one step, because a  *)
(* range whose end is not stored yet is in no policy and a known address   *)
(* has its bounds already.  Until the attributes follow, the entry has     *)
(* those of whatever range it held before.                                 *)
Stored(devs, i, dev) == IF i > Len(devs) THEN Append(devs, dev) ELSE [devs EXCEPT ![i] = dev]

MapStoreRange ==
    /\ core.map # NoMap /\ core.map.todo = {} /\ core.map.next = "range" /\ nx.cpu = NoSlot
    /\ LET m == core.map.mm
           devs == core.mms[m].devs
           i == core.map.entry IN
       \E old \in IF i <= Len(devs) THEN {devs[i].attrs}
                  ELSE {0} \cup {d.attrs : d \in core.bound.devs} :
           core' = [core EXCEPT !.mms[m].devs = Stored(@, i, [core.map.dev EXCEPT !.attrs = old]),
                                !.map.next = "attrs"]
    /\ UNCHANGED nx

MapStoreAttrs ==
    /\ core.map # NoMap /\ core.map.next = "attrs" /\ nx.cpu = NoSlot
    /\ core' = [core EXCEPT !.mms[core.map.mm].devs = Stored(@, core.map.entry, core.map.dev),
                            !.map.next = "generation"]
    /\ UNCHANGED nx

MapCommit ==
    /\ core.map # NoMap /\ core.map.next = "generation" /\ nx.cpu = NoSlot
    /\ core' = [core EXCEPT !.mms[core.map.mm].dgen = @ + 1, !.map = NoMap]
    /\ UNCHANGED nx

-----------------------------------------------------------------------------
(* Profiles and the MPU.                                                   *)

(* Mutant: the staged ranges are only counted.                             *)
StagedCounted(maps, devs) == Cardinality({i \in 1..NDEV : maps[i] # NoDev}) >= Len(devs)

(* The entries in use are, in order, the ranges of the policy: at says     *)
(* where each range of the policy is.                                      *)
StagedAsGranted(maps, devs) ==
    \E at \in [1..Len(devs) -> 1..NDEV] :
        /\ \A i, j \in 1..Len(devs) : i < j => at[i] < at[j]
        /\ \A i \in 1..Len(devs) : maps[at[i]] = devs[i]
        /\ \A k \in 1..NDEV : maps[k] # NoDev => \E i \in 1..Len(devs) : at[i] = k

nuttx_prepare_profile(p, s, g, fits) ==
    LET pol == Policy(core, s, g) IN
    IF p.profile[s].valid /\ p.profile[s].key = PolicyKey(pol) THEN [ok |-> TRUE, p |-> p]
    ELSE IF ~fits \/ ~StagedAsGranted(p.maps[s], pol.devs)
    THEN [ok |-> FALSE, p |-> [p EXCEPT !.profile[s] = NuttxNoProfile]]
    ELSE [ok |-> TRUE, p |-> [p EXCEPT !.profile[s] = [valid |-> TRUE, key |-> PolicyKey(pol),
                                                      devs |-> p.maps[s]]]]

(* The descriptors are written and read back.                              *)
nuttx_install_profile(p, s) ==
    LET key == p.profile[s].key IN
    [p EXCEPT !.mpu = [ridx |-> key.space.ridx, rgen |-> key.space.rgen,
                       text |-> key.space.text, devs |-> p.profile[s].devs],
              !.installed = [valid |-> TRUE, key |-> key]]

nuttx_disable_dynamic_regions(p) == [p EXCEPT !.mpu = Off, !.installed = NoInstalled]

nuttx_profile_is_current(s) ==
    /\ nx.profile[s].valid /\ nx.installed.valid
    /\ nx.profile[s].key.slot = s /\ nx.profile[s].key.gen = nx.gen[s]
    /\ nx.profile[s].key = nx.installed.key

nuttx_current_slot(s) ==
    IF s # NoSlot /\ nx.pid[s] /\ lxp_slot_ref_is_runnable(core, s, nx.gen[s]) THEN s
    ELSE NoSlot

(* The note on a switch to s: a fresh weighted slice when another guest    *)
(* had the budget, then the incoming guest's regions or none.              *)
lxp_note_resume(p, s, fits, matches) ==
    LET quantum == Quantum(core.bound.base, lxp_guest_sched_weight(core, s))
        sliced == IF p.budget.owner = s THEN p
                  ELSE [p EXCEPT !.budget = [owner |-> s, slice |-> quantum]]
        prof == nuttx_prepare_profile(sliced, s, p.gen[s], fits)
        key == PolicyKey(Policy(core, s, p.gen[s])) IN
    IF nuttx_current_slot(s) = NoSlot \/ ~lxp_trap_active(core) THEN p
    ELSE IF ~HasPolicy(core, s, p.gen[s]) \/ ~prof.ok
    THEN nuttx_disable_dynamic_regions(prof.p)
    ELSE IF prof.p.installed.valid /\ prof.p.installed.key = key THEN prof.p
    ELSE IF matches THEN nuttx_install_profile(prof.p, s)
    ELSE nuttx_disable_dynamic_regions(prof.p)

-----------------------------------------------------------------------------
(* NuttX's scheduler.                                                      *)

nxsched_add_readytorun(p, s) == [p EXCEPT !.nat[s] = "ready", !.queue = Append(@, s)]

nxsched_remove(p, s, left) ==
    [p EXCEPT !.nat[s] = left, !.queue = Without(@, s)]

(* Copied text may not fit its half of the region, and the readback of the *)
(* descriptors may fail.  A switch between the core's preparations for a   *)
(* callback and the callback is as good as one before them.                *)
SwitchToGuest ==
    /\ nx.cpu = NoSlot /\ nx.queue # <<>> /\ core.call.stage = "out"
    /\ LET s == Head(nx.queue) IN
       \E fits \in {TRUE, ~MmOf(core, s).text}, matches \in BOOLEAN :
           nx' = [lxp_note_resume(nx, s, fits, matches) EXCEPT !.cpu = s]
    /\ UNCHANGED core

SwitchToHost == nx.cpu # NoSlot /\ nx' = [nx EXCEPT !.cpu = NoSlot] /\ UNCHANGED core

(* The tick of the running guest: at the end of its slice it goes behind   *)
(* the other ready guests.  Only the budget owner's slice is kept, every   *)
(* other guest gets a fresh one when it is switched to.                    *)
nxsched_process_roundrobin ==
    /\ nx.cpu # NoSlot
    /\ LET s == nx.cpu IN
       nx' = IF nx.budget.owner = s /\ nx.budget.slice > 1
             THEN [nx EXCEPT !.budget.slice = @ - 1]
             ELSE [nx EXCEPT !.budget.slice = core.bound.base, !.cpu = NoSlot,
                             !.queue = Append(Without(@, s), s)]
    /\ UNCHANGED core

-----------------------------------------------------------------------------
(* The callbacks, on the coordinator's task.                               *)

NAnswer(rc, p) == nx.cpu = NoSlot /\ nx' = p /\ core' = Answered(core, rc)

spawn_task(s, g) ==
    \E created \in BOOLEAN :
        IF nx.pid[s] \/ ~created THEN NAnswer(FALSE, nx)
        ELSE NAnswer(TRUE, nxsched_add_readytorun([nx EXCEPT !.pid[s] = TRUE, !.gen[s] = g], s))

nuttx_spawn_launch ==
    /\ InCall("launch")
    /\ IF HasPolicy(core, core.call.slot, core.call.gen)
       THEN spawn_task(core.call.slot, core.call.gen)
       ELSE NAnswer(FALSE, nx)

nuttx_spawn_resume_start == InCall("start") /\ spawn_task(core.call.slot, core.call.gen)

(* A native frame with the guest's context replaces the parked one.        *)
nuttx_spawn_resume_parked ==
    /\ InCall("resume")
    /\ LET s == core.call.slot IN
       IF nx.pid[s] /\ nx.gen[s] = core.call.gen /\ nx.nat[s] = "stopped"
       THEN /\ nx.cpu = NoSlot
            /\ nx' = nxsched_add_readytorun(nx, s)
            /\ core' = [Answered(core, TRUE) EXCEPT !.pos[s] = "user"]
       ELSE NAnswer(FALSE, nx)

nuttx_abort_slot ==
    /\ InCall("abort")
    /\ LET s == core.call.slot
           p == [nx EXCEPT !.budget = IF @.owner = s THEN [owner |-> NoSlot, slice |-> 0]
                                      ELSE @] IN
       \E deleted \in BOOLEAN :
           IF nx.pid[s] /\ nx.gen[s] # core.call.gen THEN NAnswer(FALSE, nx)
           ELSE IF nx.pid[s] /\ ~deleted THEN NAnswer(FALSE, p)
           ELSE NAnswer(TRUE, [nxsched_remove(p, s, "none") EXCEPT
                                   !.maps[s] = NoDevs, !.pid[s] = FALSE, !.gen[s] = 0])

nuttx_park_slot ==
    /\ InCall("park")
    /\ LET s == core.call.slot IN
       IF \/ ~lxp_slot_ref_is_runnable(core, s, nx.gen[s])
          \/ ~nx.pid[s] \/ nx.gen[s] # core.call.gen
       THEN NAnswer(FALSE, nx)
       ELSE NAnswer(TRUE, nxsched_remove(nx, s, "stopped"))

-----------------------------------------------------------------------------
(* The guests.                                                             *)

lxp_svc_handler(s, outcome) ==
    /\ nx.cpu = s /\ core.pos[s] = "user"
    /\ lxp_trap_active(core) /\ nuttx_current_slot(s) = s
    /\ core' = IF nuttx_profile_is_current(s)
               THEN lxp_dispatch_slot(core, s, nx.gen[s], outcome)
               ELSE Faulted(core, s, nx.gen[s])
    /\ UNCHANGED nx

lxp_memfault_handler(s) ==
    /\ nx.cpu = s /\ core.pos[s] = "user"
    /\ lxp_trap_active(core) /\ nuttx_current_slot(s) = s
    /\ core' = Faulted(core, s, nx.gen[s])
    /\ UNCHANGED nx

-----------------------------------------------------------------------------
(* The run bracket.                                                        *)

nuttx_teardown(p) ==
    [nuttx_disable_dynamic_regions(p) EXCEPT
        !.maps = [s \in Slot |-> NoDevs],
        !.profile = [s \in Slot |-> NuttxNoProfile],
        !.irqs = FALSE, !.ev = FALSE]

(* prepare fails before it touches anything, when the semaphore is         *)
(* refused, or when a vector or the note driver is, which it undoes.       *)
nuttx_prepare ==
    /\ InCall("prepare")
    /\ LET fresh == [nuttx_teardown(nx) EXCEPT !.budget = [owner |-> NoSlot, slice |-> 0]] IN
       \/ NAnswer(FALSE, nx)
       \/ NAnswer(FALSE, fresh)
       \/ NAnswer(FALSE, nuttx_teardown([fresh EXCEPT !.irqs = TRUE, !.ev = TRUE]))
       \/ NAnswer(TRUE, [fresh EXCEPT !.irqs = TRUE, !.ev = TRUE])

NuttxTeardown == InCall("teardown") /\ NAnswer(TRUE, nuttx_teardown(nx))

NuttxCallback ==
    \/ nuttx_spawn_launch
    \/ nuttx_spawn_resume_start
    \/ nuttx_spawn_resume_parked
    \/ nuttx_abort_slot
    \/ nuttx_park_slot
    \/ nuttx_prepare
    \/ NuttxTeardown

(* The core clears a slot's device maps for a fresh image and gives a new  *)
(* child those of its mm, before the task exists.                          *)
NuttxCoordinator ==
    /\ nx.cpu = NoSlot
    /\ CoordinatorStep
    /\ LET s == core'.call.slot IN
       nx' = IF core.call.op = "none" /\ core'.call.op \in {"launch", "start"}
             THEN [nx EXCEPT !.maps[s] = Restored(core'.mms[core'.mm[s]].devs)]
             ELSE nx

NuttxNext ==
    \/ NuttxCoordinator
    \/ NuttxCallback
    \/ \E s \in Slot, dev \in core.bound.devs : MapBegin(s, dev)
    \/ MapStage
    \/ MapStoreRange
    \/ MapStoreAttrs
    \/ MapCommit
    \/ \E s \in Slot, o \in {"fast", "park", "exit"} : lxp_svc_handler(s, o)
    \/ \E s \in Slot : lxp_memfault_handler(s)
    \/ SwitchToGuest
    \/ SwitchToHost
    \/ nxsched_process_roundrobin

-----------------------------------------------------------------------------
(* What the contract sees of the port.                                     *)
NuttxTask ==
    [s \in Slot |->
        IF ~nx.pid[s] THEN [state |-> "none", gen |-> 0]
        ELSE [state |-> IF nx.nat[s] = "stopped" THEN "parked" ELSE "live",
              gen |-> nx.gen[s]]]

NuttxArmed == nx.irqs \/ nx.ev

(* The device lists a slot may be served with: what its mm holds, or, from *)
(* the first store of a new range to the last, the list before the stores  *)
(* or the one after them.                                                  *)
Granted(c, s) ==
    IF c.map.mm # c.mm[s] \/ c.map.next = "range" THEN {MmOf(c, s).devs}
    ELSE {c.map.was, Stored(c.map.was, c.map.entry, c.map.dev)}

(* The guest on the CPU sees no dynamic region at all, or exactly those of *)
(* its own address space and the devices its mm has; while the coordinator *)
(* is storing a range, those of before or of after, never a half-stored    *)
(* one (lxp_note_resume, nuttx_prepare_profile).                           *)
NuttxViews ==
    LET s == nx.cpu IN
    (s # NoSlot /\ core.pos[s] = "user" /\ core.runnable[s]) =>
        \/ nx.mpu = Off
        \/ LET mm == MmOf(core, s) IN
           \E devs \in Granted(core, s) :
               nx.mpu = [ridx |-> mm.ridx, rgen |-> mm.rgen, text |-> mm.text,
                         devs |-> Restored(devs)]

NuttxWaiting(s) == nx.nat[s] = "ready" /\ Head(nx.queue) # s
=============================================================================
