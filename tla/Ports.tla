-------------------------------- MODULE Ports -------------------------------
(***************************************************************************)
(* The RTOS ports, each composed with the core's side of the seam.  A      *)
(* behaviour follows one port under one set of bounds, chosen in its       *)
(* initial state; "view" follows the coordinator's own regions.            *)
(***************************************************************************)
EXTENDS FreertosPort, ZephyrPort, NuttxPort, CoordView

CONSTANT Scenarios   \* the ports and bounds considered

ASSUME ScenarioAssumption ==
    Scenarios \subseteq [port : {"freertos", "zephyr", "nuttx", "view"}, bound : Bounds]

VARIABLE port

pvars == <<core, rt, zp, nx, cv, port>>

Init ==
    /\ \E scene \in Scenarios : port = scene.port /\ CoreInit(scene.bound)
    /\ FreertosInit
    /\ ZephyrInit
    /\ NuttxInit
    /\ CoordViewInit

Next ==
    \/ port = "freertos" /\ FreertosNext /\ UNCHANGED <<zp, nx, cv, port>>
    \/ port = "zephyr" /\ ZephyrNext /\ UNCHANGED <<rt, nx, cv, port>>
    \/ port = "nuttx" /\ NuttxNext /\ UNCHANGED <<rt, zp, cv, port>>
    \/ port = "view" /\ CoordViewNext /\ UNCHANGED <<core, rt, zp, nx, port>>

PortsSpec == Init /\ [][Next]_pvars

-----------------------------------------------------------------------------
(* The abstract port, with each port's own bookkeeping as its state.       *)
PortTask == IF port = "zephyr" THEN ZephyrTask
            ELSE IF port = "nuttx" THEN NuttxTask ELSE FreertosTask

PortArmed == IF port = "zephyr" THEN ZephyrArmed
             ELSE IF port = "nuttx" THEN NuttxArmed ELSE FreertosArmed

Contract == INSTANCE PortContract WITH task <- PortTask, armed <- PortArmed, call <- core.call

(* Each of the three ports implements the contract of lxp_port.h: a task   *)
(* appears, stops, runs again or disappears only inside the callback that  *)
(* asks for it and only for the generation it names, a callback that fails *)
(* leaves the task as it was, and nothing a tick, a rotation or a trap     *)
(* does in between changes which tasks may run.                            *)
ContractHeld == Contract!ContractSpec

(* A guest executes its program under the memory map of its own current    *)
(* address space, whatever was installed, cached or staged before it; the  *)
(* coordinator keeps the region it mapped and the root file system window. *)
ViewsCorrect == FreertosViews /\ ZephyrViews /\ NuttxViews /\ CoordinatorSees

-----------------------------------------------------------------------------
(* Fairness: callbacks return, ticks keep finding the guests at work (host *)
(* work does not fill every tick), and a scheduler task that was woken, or *)
(* the native scheduler with a guest to run, runs.                         *)
GuestOnCpu ==
    \/ rt.subscribed /\ \E s \in Slot : FreertosOnCpu(s)
    \/ nx.cpu # NoSlot

TickLands == FreertosTickGuest \/ nxsched_process_roundrobin

SwitchDue == (rt.sched /\ rt.sem) \/ (nx.cpu = NoSlot /\ nx.queue # <<>>)

Fair ==
    /\ []<>(core.call.op = "none")
    /\ []<>~SwitchDue
    /\ <>[]~GuestOnCpu \/ []<><<TickLands /\ UNCHANGED port>>_pvars

FairSpec == PortsSpec /\ Fair

(* A guest that waits for the CPU gets it, or stops waiting, however often *)
(* host work interrupts the guest that has it (lxp_freertos_tick and the   *)
(* slices of lxp_note_resume).                                             *)
GuestsRotate ==
    \A s \in Slot : (FreertosWaiting(s) \/ NuttxWaiting(s)) ~> ~(FreertosWaiting(s) \/ NuttxWaiting(s))
=============================================================================
