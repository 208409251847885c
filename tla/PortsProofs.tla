----------------------------- MODULE PortsProofs ----------------------------
(***************************************************************************)
(* The three ports hold what MCPorts checks on small instances, for any    *)
(* number of slots and regions and any bounds: their invariants are put    *)
(* together, and each port is shown to implement the contract of           *)
(* lxp_port.h.                                                             *)
(***************************************************************************)
EXTENDS Ports, FreertosZephyrProofs, NuttxProofs

\* The coordinator's regions: between two calls the registers, the task block
\* and the cache agree; within one, a switch loads what the call will leave.
CvRecord(v) ==
    /\ v = [cache |-> v.cache, tcb |-> v.tcb, live |-> v.live, window |-> v.window,
            mapping |-> v.mapping, step |-> v.step]
    /\ v.live = [ridx |-> v.live.ridx, window |-> v.live.window]

CoordViewInv ==
    /\ CvRecord(cv) /\ cv.window \in BOOLEAN /\ cv.step \in {"idle", "mapped", "window"}
    /\ cv.step = "idle" =>
           cv.tcb = [ridx |-> cv.cache, window |-> cv.window] /\ cv.live = cv.tcb
    /\ cv.step = "mapped" =>
           cv.tcb = [ridx |-> cv.mapping, window |-> cv.window] /\ cv.live.window = cv.window
    /\ cv.step = "window" =>
           cv.tcb = [ridx |-> NoRegion, window |-> TRUE] /\ cv.window /\ cv.cache = NoRegion

\* Every step of the coordinator's regions keeps that.
LEMMA CoordViewStep ==
    ASSUME CoordViewInv, CoordViewNext
    PROVE  CoordViewInv'
  <1>1. CASE \E r \in Region : freertos_coord_map(r)
    <2>1. PICK r \in Region : freertos_coord_map(r)
      BY <1>1, Zenon
    <2>2. /\ cv.step = "idle" /\ cv'.step = "mapped" /\ cv'.mapping = r /\ CvRecord(cv')
          /\ cv'.tcb = [ridx |-> r, window |-> cv.window] /\ cv'.window = cv.window
          /\ cv'.live = cv.live
      BY <2>1, Zenon DEF freertos_coord_map, CoordViewInv, CvRecord
    <2> QED
      BY <2>2 DEF CoordViewInv
  <1>2. CASE coord_map_live
    <2>1. /\ cv.step = "mapped" /\ cv'.step = "idle" /\ cv'.cache = cv.mapping /\ CvRecord(cv')
          /\ cv'.tcb = cv.tcb /\ cv'.window = cv.window
          /\ cv'.live = [ridx |-> cv.mapping, window |-> cv.live.window]
      BY <1>2, Zenon DEF coord_map_live, CoordViewInv, CvRecord
    <2> QED
      BY <2>1, Zenon DEF CoordViewInv
  <1>3. CASE freertos_rootfs_window
    <2>1. /\ cv'.step = "window" /\ cv'.cache = NoRegion /\ CvRecord(cv')
          /\ cv'.tcb = [ridx |-> NoRegion, window |-> TRUE] /\ cv'.window = TRUE
      BY <1>3, Zenon DEF freertos_rootfs_window, CoordViewInv, CvRecord
    <2> QED
      BY <2>1, Zenon DEF CoordViewInv
  <1>4. CASE rootfs_window_live
    <2>1. /\ cv.step = "window" /\ cv'.step = "idle" /\ cv'.cache = cv.cache /\ CvRecord(cv')
          /\ cv'.tcb = cv.tcb /\ cv'.window = cv.window
          /\ cv'.live = [ridx |-> NoRegion, window |-> TRUE]
      BY <1>4, Zenon DEF rootfs_window_live, CoordViewInv, CvRecord
    <2> QED
      BY <2>1, Zenon DEF CoordViewInv
  <1>5. CASE Reload
    <2>1. cv.tcb = [ridx |-> cv.tcb.ridx, window |-> cv.tcb.window]
      BY Zenon DEF CoordViewInv
    <2>2. /\ cv'.step = cv.step /\ cv'.cache = cv.cache /\ cv'.mapping = cv.mapping
          /\ cv'.tcb = cv.tcb /\ cv'.window = cv.window /\ cv'.live = cv.tcb /\ CvRecord(cv')
      BY <1>5, <2>1, Zenon DEF Reload, CoordViewInv, CvRecord
    <2> QED
      BY <2>2 DEF CoordViewInv
  <1> QED
    BY <1>1, <1>2, <1>3, <1>4, <1>5, Zenon DEF CoordViewNext

\* The port that is followed keeps its invariant, the others are as they began.
PortsInv ==
    /\ port \in {"freertos", "zephyr", "nuttx", "view"}
    /\ IF port = "freertos" THEN FreertosInv ELSE FreertosInit
    /\ IF port = "zephyr" THEN ZephyrInv ELSE ZephyrInit
    /\ IF port = "nuttx" THEN NuttxInv ELSE NuttxInit
    /\ CoordViewInv

\* It holds when a run of the system begins.
LEMMA PortsInvInit == Init => PortsInv
  <1> SUFFICES ASSUME Init PROVE PortsInv
    BY Zenon
  <1>1. PICK scene \in Scenarios : port = scene.port /\ CoreInit(scene.bound)
    BY Zenon DEF Init
  <1>2. /\ scene.bound \in Bounds /\ port \in {"freertos", "zephyr", "nuttx", "view"}
        /\ FreertosInit /\ ZephyrInit /\ NuttxInit /\ CoordViewInit
    BY <1>1, ScenarioAssumption, Zenon DEF Init
  <1>3. FreertosInv
    BY <1>1, <1>2, FreertosInvInit, Zenon
  <1>4. ZephyrInv
    BY <1>1, <1>2, ZephyrInvInit, Zenon
  <1>5. NuttxInv
    BY <1>1, <1>2, NuttxInvInit, Zenon
  <1>6. CoordViewInv
    BY <1>2, Zenon DEF CoordViewInit, CoordViewInv, CvRecord, Unmapped
  <1> QED
    BY <1>2, <1>3, <1>4, <1>5, <1>6, Zenon DEF PortsInv

\* Every step of every port, and of the coordinator's regions, keeps it.
LEMMA PortsInvStep == PortsInv /\ [Next]_pvars => PortsInv'
  <1> SUFFICES ASSUME PortsInv, [Next]_pvars PROVE PortsInv'
    BY Zenon
  <1>1. CASE port = "freertos" /\ FreertosNext /\ UNCHANGED <<zp, nx, cv, port>>
    <2>1. FreertosInv'
      BY <1>1, FreertosStep, Zenon DEF PortsInv
    <2>2. ZephyrInit' /\ NuttxInit' /\ CoordViewInv'
      BY <1>1, Zenon DEF PortsInv, ZephyrInit, NuttxInit, CoordViewInv, CvRecord
    <2> QED
      BY <1>1, <2>1, <2>2, Zenon DEF PortsInv
  <1>2. CASE port = "zephyr" /\ ZephyrNext /\ UNCHANGED <<rt, nx, cv, port>>
    <2>1. ZephyrInv'
      BY <1>2, ZephyrStep, Zenon DEF PortsInv
    <2>2. FreertosInit' /\ NuttxInit' /\ CoordViewInv'
      BY <1>2, Zenon DEF PortsInv, FreertosInit, NuttxInit, CoordViewInv, CvRecord
    <2> QED
      BY <1>2, <2>1, <2>2, Zenon DEF PortsInv
  <1>3. CASE port = "nuttx" /\ NuttxNext /\ UNCHANGED <<rt, zp, cv, port>>
    <2>1. NuttxInv'
      BY <1>3, NuttxStep, Zenon DEF PortsInv
    <2>2. FreertosInit' /\ ZephyrInit' /\ CoordViewInv'
      BY <1>3, Zenon DEF PortsInv, FreertosInit, ZephyrInit, CoordViewInv, CvRecord
    <2> QED
      BY <1>3, <2>1, <2>2, Zenon DEF PortsInv
  <1>4. CASE port = "view" /\ CoordViewNext /\ UNCHANGED <<core, rt, zp, nx, port>>
    <2>1. CoordViewInv'
      BY <1>4, CoordViewStep, Zenon DEF PortsInv
    <2>2. FreertosInit' /\ ZephyrInit' /\ NuttxInit'
      BY <1>4, Zenon DEF PortsInv, FreertosInit, ZephyrInit, NuttxInit
    <2> QED
      BY <1>4, <2>1, <2>2, Zenon DEF PortsInv
  <1>5. CASE UNCHANGED pvars
    <2>1. core' = core /\ rt' = rt /\ zp' = zp /\ nx' = nx /\ cv' = cv /\ port' = port
      BY <1>5, Zenon DEF pvars
    <2>2. (FreertosInv' <=> FreertosInv) /\ (FreertosInit' <=> FreertosInit)
      BY <2>1, Zenon DEF FreertosInv, FreertosInit, FreertosTask
    <2>3. (ZephyrInv' <=> ZephyrInv) /\ (ZephyrInit' <=> ZephyrInit)
      BY <2>1, Zenon DEF ZephyrInv, ZephyrInit, ZephyrTask
    <2>4. (NuttxInv' <=> NuttxInv) /\ (NuttxInit' <=> NuttxInit)
      BY <2>1, Zenon DEF NuttxInv, NuttxInit, NuttxTask, NuttxViews
    <2>5. CoordViewInv' <=> CoordViewInv
      BY <2>1, Zenon DEF CoordViewInv, CvRecord
    <2> QED
      BY <2>1, <2>2, <2>3, <2>4, <2>5, Zenon DEF PortsInv
  <1> QED
    BY <1>1, <1>2, <1>3, <1>4, <1>5, Zenon DEF Next

\* What the invariant is for.
LEMMA PortsInvImplies == PortsInv => OneGuestRuns /\ ViewsCorrect
  <1> SUFFICES ASSUME PortsInv PROVE OneGuestRuns /\ ViewsCorrect
    BY Zenon
  <1>1. OneGuestRuns /\ FreertosViews
    <2>1. CASE port = "freertos"
      BY <2>1, FreertosInvImplies, Zenon DEF PortsInv
    <2>2. CASE port # "freertos"
      <3>1. \A s \in Slot : rt.nat[s] = "none" /\ FreertosTask[s].state = "none"
        BY <2>2 DEF PortsInv, FreertosInit, FreertosTask
      <3> QED
        BY <3>1 DEF OneGuestRuns, FreertosViews
    <2> QED
      BY <2>1, <2>2, Zenon
  <1>2. ZephyrViews
    <2>1. CASE port = "zephyr"
      BY <2>1, ZephyrInvImplies, Zenon DEF PortsInv
    <2>2. CASE port # "zephyr"
      BY <2>2 DEF PortsInv, ZephyrInit, ZephyrViews
    <2> QED
      BY <2>1, <2>2, Zenon
  <1>3. NuttxViews
    <2>1. CASE port = "nuttx"
      BY <2>1, Zenon DEF PortsInv, NuttxInv
    <2>2. CASE port # "nuttx"
      BY <2>2 DEF PortsInv, NuttxInit, NuttxViews
    <2> QED
      BY <2>1, <2>2, Zenon
  <1>4. CoordinatorSees
    BY DEF PortsInv, CoordViewInv, CoordinatorSees
  <1> QED
    BY <1>1, <1>2, <1>3, <1>4, Zenon DEF ViewsCorrect

\* A step of a port that follows the core is a step of the contract.
LEMMA PortStepContract ==
    ASSUME CoreInv(core), Follows(PortTask, core), PortArmed \in BOOLEAN, PortArmed' \in BOOLEAN,
           PortStep(core, core', PortTask, PortTask', PortArmed, PortArmed')
    PROVE  Contract!ContractNext
  <1> DEFINE s == core.call.slot
             T == PortTask
             U == PortTask'
  <1> HIDE DEF PortTask, PortArmed
  <1>1. CASE /\ core.call.op \in SlotOps /\ PortArmed' = PortArmed
             /\ Replies(core, core', FALSE) /\ U = T
    <2>1. Contract!Refuse
      BY <1>1, Zenon DEF Contract!Refuse, Contract!Returns, Replies, SlotOps
    <2> QED
      BY <2>1, Zenon DEF Contract!ContractNext
  <1>2. CASE /\ core.call.op \in SlotOps /\ PortArmed' = PortArmed
             /\ Replies(core, core', TRUE) /\ U = [T EXCEPT ![s] = Served(core.call)]
    <2>1. /\ s \in Slot /\ core.call.gen = core.gen[s] /\ core.call.stage = "in"
          /\ core.call.op \in Creates => core.host[s] = "free"
          /\ core.call.op = "resume" => core.host[s] = "parked"
          /\ core.call.op = "park" => core.host[s] = "running"
      BY <1>2, ZenonT(60) DEF CoreInv, CoreTyped, Calls, CallSound, Replies
    <2>2. /\ T[s].state \in Expected(core, s)
          /\ \/ T[s] = Nobody
             \/ \E x \in {"live", "parked"} : T[s] = [state |-> x, gen |-> core.gen[s]]
      BY <2>1, ZenonT(60) DEF Follows
    <2>7. /\ T[s] = Nobody \/ T[s] = [state |-> T[s].state, gen |-> core.gen[s]]
          /\ T[s] = Nobody \/ T[s].gen = core.gen[s]
          /\ Nobody.state = "none"
      BY ONLY <2>2 DEF Nobody
    <2>3. CASE core.call.op \in Creates
      <3>1. T[s] = Nobody
        BY <2>1, <2>2, <2>3 DEF Expected
      <3>2. Served(core.call) = [state |-> "live", gen |-> core.call.gen]
        BY <2>3, ZenonT(60) DEF Served, Creates
      <3>3. Contract!Create
        BY <1>2, <2>3, <3>1, <3>2, ZenonT(60)
           DEF Contract!Create, Contract!Returns, Contract!Becomes,
           Contract!NoTask, Nobody, Replies, Creates
      <3> QED
        BY <3>3, ZenonT(60) DEF Contract!ContractNext
    <2>4. CASE core.call.op = "park"
      <3>1. T[s] = [state |-> "live", gen |-> core.call.gen]
        <4>1. T[s].state = "live"
          BY <2>1, <2>2, <2>4 DEF Expected
        <4> QED
          BY <2>1, <2>7, <4>1, ZenonT(60)
      <3>2. Served(core.call) = [state |-> "parked", gen |-> core.call.gen]
        BY <2>4, ZenonT(60) DEF Served
      <3>3. Contract!Park
        BY <1>2, <2>4, <3>1, <3>2, ZenonT(60)
           DEF Contract!Park, Contract!Returns, Contract!Becomes, Replies
      <3> QED
        BY <3>3, ZenonT(60) DEF Contract!ContractNext
    <2>5. CASE core.call.op = "resume"
      <3>1. T[s] = [state |-> "parked", gen |-> core.call.gen]
        <4>1. T[s].state = "parked"
          BY <2>1, <2>2, <2>5 DEF Expected
        <4> QED
          BY <2>1, <2>7, <4>1, ZenonT(60)
      <3>2. Served(core.call) = [state |-> "live", gen |-> core.call.gen]
        BY <2>5, ZenonT(60) DEF Served
      <3>3. Contract!Resume
        BY <1>2, <2>5, <3>1, <3>2, ZenonT(60)
           DEF Contract!Resume, Contract!Returns, Contract!Becomes, Replies
      <3> QED
        BY <3>3, ZenonT(60) DEF Contract!ContractNext
    <2>6. CASE core.call.op = "abort"
      <3>1. T[s] = Nobody \/ T[s].gen = core.call.gen
        BY <2>1, <2>7, ZenonT(60)
      <3>2. Served(core.call) = Nobody
        BY <2>6, ZenonT(60) DEF Served
      <3>3. Contract!Abort
        BY <1>2, <2>6, <3>1, <3>2, ZenonT(60)
           DEF Contract!Abort, Contract!Returns, Contract!Becomes,
           Contract!NoTask, Nobody, Replies
      <3> QED
        BY <3>3, ZenonT(60) DEF Contract!ContractNext
    <2> QED
      BY <1>2, <2>3, <2>4, <2>5, <2>6, ZenonT(60) DEF SlotOps, Creates
  <1>3. CASE core.call.op = "prepare" /\ U = T /\ Replies(core, core', FALSE)
    <2>1. Contract!PrepareFails
      BY <1>3, ZenonT(60) DEF Contract!PrepareFails, Contract!Returns, Replies
    <2> QED
      BY <2>1, ZenonT(60) DEF Contract!ContractNext
  <1>4. CASE core.call.op = "prepare" /\ U = T /\ Replies(core, core', TRUE) /\ PortArmed'
    <2>1. Contract!Prepare
      BY <1>4, Zenon DEF Contract!Prepare, Contract!Returns, Replies
    <2> QED
      BY <2>1, Zenon DEF Contract!ContractNext
  <1>5. CASE core.call.op = "teardown" /\ U = T /\ Replies(core, core', TRUE) /\ ~PortArmed'
    <2>1. ASSUME NEW t \in Slot PROVE T[t] = Nobody
      <3>1. core.host[t] = "free" /\ core.call.stage = "in"
        BY <1>5, Zenon DEF CoreInv, CallSound, SlotsSound, Replies
      <3> QED
        BY <3>1 DEF Follows, Expected
    <2>2. Contract!Teardown
      BY <1>5, <2>1, Zenon DEF Contract!Teardown, Contract!Returns, Contract!NoTask, Nobody, Replies
    <2> QED
      BY <2>2, Zenon DEF Contract!ContractNext
  <1>6. CASE (core.call.stage = "in" => core'.call = core.call) /\ U = T /\ PortArmed' = PortArmed
    <2>1. Contract!Between
      BY <1>6, Zenon DEF Contract!Between
    <2> QED
      BY <2>1, Zenon DEF Contract!ContractNext
  <1> QED
    BY <1>1, <1>2, <1>3, <1>4, <1>5, <1>6, Zenon DEF PortStep

-----------------------------------------------------------------------------
(* The refinement.                                                         *)

\* Whether a port holds a hook, a timer or a thread is a truth value.
LEMMA ArmedType == PortArmed \in BOOLEAN /\ PortArmed' \in BOOLEAN
  <1>1. /\ FreertosArmed \in BOOLEAN /\ ZephyrArmed \in BOOLEAN /\ NuttxArmed \in BOOLEAN
        /\ FreertosArmed' \in BOOLEAN /\ ZephyrArmed' \in BOOLEAN /\ NuttxArmed' \in BOOLEAN
    BY Zenon DEF FreertosArmed, ZephyrArmed, NuttxArmed
  <1> QED
    BY <1>1, Zenon DEF PortArmed

\* The ports begin without tasks, hooks, timers or threads.
LEMMA ContractBegins == Init => Contract!ContractInit
  <1> SUFFICES ASSUME Init PROVE Contract!ContractInit
    BY Zenon
  <1>1. PICK scene \in Scenarios : port = scene.port /\ CoreInit(scene.bound)
    BY Zenon DEF Init
  <1>2. scene.bound \in Bounds /\ FreertosInit /\ ZephyrInit /\ NuttxInit
    BY <1>1, ScenarioAssumption, Zenon DEF Init
  <1>3. FreertosTask = [s \in Slot |-> Nobody] /\ ~FreertosArmed
    BY <1>1, <1>2, FreertosInvInit, Zenon
  <1>4. ZephyrTask = [s \in Slot |-> Nobody] /\ ~ZephyrArmed
    BY <1>1, <1>2, ZephyrInvInit, Zenon
  <1>5. NuttxTask = [s \in Slot |-> Nobody] /\ ~NuttxArmed
    BY <1>1, <1>2, NuttxInvInit, Zenon
  <1>6. PortTask = [s \in Slot |-> Nobody] /\ ~PortArmed
    BY <1>3, <1>4, <1>5, Zenon DEF PortTask, PortArmed
  <1>7. core.call.op = "none"
    BY <1>1, Zenon DEF CoreInit, Idle
  <1> QED
    BY <1>6, <1>7, Zenon DEF Contract!ContractInit, Contract!NoTask, Nobody

\* Every step of a port is a step of the contract or changes nothing it sees.
LEMMA ContractSteps ==
    ASSUME PortsInv, [Next]_pvars
    PROVE  [Contract!ContractNext]_(Contract!cvars)
  <1>1. CASE port = "freertos" /\ FreertosNext /\ UNCHANGED <<zp, nx, cv, port>>
    <2>1. /\ PortTask = FreertosTask /\ PortArmed = FreertosArmed
          /\ PortTask' = FreertosTask' /\ PortArmed' = FreertosArmed'
      BY <1>1, Zenon DEF PortTask, PortArmed
    <2>2. /\ CoreInv(core) /\ Follows(FreertosTask, core)
          /\ PortStep(core, core', FreertosTask, FreertosTask', FreertosArmed, FreertosArmed')
      BY <1>1, FreertosStep, Zenon DEF PortsInv, FreertosInv
    <2> QED
      BY <2>1, <2>2, ArmedType, PortStepContract, Zenon
  <1>2. CASE port = "zephyr" /\ ZephyrNext /\ UNCHANGED <<rt, nx, cv, port>>
    <2>1. /\ PortTask = ZephyrTask /\ PortArmed = ZephyrArmed
          /\ PortTask' = ZephyrTask' /\ PortArmed' = ZephyrArmed'
      BY <1>2, Zenon DEF PortTask, PortArmed
    <2>2. /\ CoreInv(core) /\ Follows(ZephyrTask, core)
          /\ PortStep(core, core', ZephyrTask, ZephyrTask', ZephyrArmed, ZephyrArmed')
      BY <1>2, ZephyrStep, Zenon DEF PortsInv, ZephyrInv
    <2> QED
      BY <2>1, <2>2, ArmedType, PortStepContract, Zenon
  <1>3. CASE port = "nuttx" /\ NuttxNext /\ UNCHANGED <<rt, zp, cv, port>>
    <2>1. /\ PortTask = NuttxTask /\ PortArmed = NuttxArmed
          /\ PortTask' = NuttxTask' /\ PortArmed' = NuttxArmed'
      BY <1>3, Zenon DEF PortTask, PortArmed
    <2>2. /\ CoreInv(core) /\ Follows(NuttxTask, core)
          /\ PortStep(core, core', NuttxTask, NuttxTask', NuttxArmed, NuttxArmed')
      BY <1>3, NuttxStep, Zenon DEF PortsInv, NuttxInv
    <2> QED
      BY <2>1, <2>2, ArmedType, PortStepContract, Zenon
  <1>4. CASE core' = core /\ rt' = rt /\ zp' = zp /\ nx' = nx /\ port' = port
    <2>1. PortTask' = PortTask /\ PortArmed' = PortArmed
      BY <1>4, Zenon DEF PortTask, PortArmed, FreertosTask, ZephyrTask, NuttxTask,
         FreertosArmed, ZephyrArmed, NuttxArmed
    <2> QED
      BY <1>4, <2>1, Zenon DEF Contract!cvars
  <1>5. CASE UNCHANGED pvars
    BY <1>4, <1>5, Zenon DEF pvars
  <1>6. CASE port = "view" /\ CoordViewNext /\ UNCHANGED <<core, rt, zp, nx, port>>
    BY <1>4, <1>6, Zenon
  <1> QED
    BY <1>1, <1>2, <1>3, <1>5, <1>6, Zenon DEF Next

-----------------------------------------------------------------------------
(* The theorems.                                                           *)

\* The invariants of the three ports and of the coordinator's regions hold in
\* every reachable state, whatever the number of slots and regions.
THEOREM PortsInvariant == PortsSpec => []PortsInv
  BY PortsInvInit, PortsInvStep, PTL DEF PortsSpec

\* On FreeRTOS at most one guest is natively ready, and when some guest may run
\* the selected one is ready (freertos_sched_activate_locked and its callers).
THEOREM OneGuest == PortsSpec => []OneGuestRuns
  BY PortsInvariant, PortsInvImplies, PTL

\* A guest executes under the memory map of its own current address space on all
\* three ports, and the coordinator keeps its own regions (the policies and
\* profiles of prepare, start, map_device and the switch hooks).
THEOREM GuestViews == PortsSpec => []ViewsCorrect
  BY PortsInvariant, PortsInvImplies, PTL

\* Each port implements the contract of lxp_port.h: only the callback the
\* coordinator made for an incarnation of a slot creates, parks, resumes or ends
\* its task.
THEOREM PortsImplementContract == PortsSpec => ContractHeld
  <1>1. PortsInv /\ [Next]_pvars => [Contract!ContractNext]_(Contract!cvars)
    BY ContractSteps, Zenon
  <1> QED
    BY <1>1, ContractBegins, PortsInvariant, PTL DEF PortsSpec, ContractHeld, Contract!ContractSpec

=============================================================================
