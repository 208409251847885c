---------------------------- MODULE PortContract ----------------------------
(***************************************************************************)
(* What the core expects of an RTOS port (the contract of lxp_os_core_ops  *)
(* and lxp_os_task_ops): a slot's native task exists, may run or is        *)
(* parked, and only a callback the coordinator made for that incarnation   *)
(* of the slot changes which.                                              *)
(***************************************************************************)
CONSTANT Slot

VARIABLES
    task,   \* slot -> the native task: [state, gen]
    armed,  \* the port holds an interrupt hook, a timer or a thread of a run
    call    \* the callback under way: [op, slot, gen, stage, rc]

cvars == <<task, armed, call>>

NoTask == [state |-> "none", gen |-> 0]

ContractInit ==
    /\ task = [s \in Slot |-> NoTask]
    /\ ~armed
    /\ call.op = "none"

(* The callback the coordinator is in returns rc.                          *)
Returns(op, rc) ==
    /\ call.op = op /\ call.stage = "in"
    /\ call' = [call EXCEPT !.stage = "out", !.rc = rc]

Becomes(state) ==
    LET s == call.slot IN
    task' = [task EXCEPT ![s] = IF state = "none" THEN NoTask
                                ELSE [state |-> state, gen |-> call.gen]]

(* A failed create leaves no task; any other refusal leaves the task as    *)
(* it was.                                                                 *)
Refuse == \E op \in {"launch", "start", "park", "resume", "abort"} :
              Returns(op, FALSE) /\ UNCHANGED <<task, armed>>

Create == \E op \in {"launch", "start"} :
    /\ Returns(op, TRUE)
    /\ task[call.slot] = NoTask
    /\ Becomes("live")
    /\ UNCHANGED armed

Park == /\ Returns("park", TRUE)
        /\ task[call.slot] = [state |-> "live", gen |-> call.gen]
        /\ Becomes("parked")
        /\ UNCHANGED armed

Resume == /\ Returns("resume", TRUE)
          /\ task[call.slot] = [state |-> "parked", gen |-> call.gen]
          /\ Becomes("live")
          /\ UNCHANGED armed

Abort == /\ Returns("abort", TRUE)
         /\ task[call.slot] = NoTask \/ task[call.slot].gen = call.gen
         /\ Becomes("none")
         /\ UNCHANGED armed

(* prepare may leave part of its work behind when it fails; teardown,      *)
(* which follows in either case, leaves none of it.                        *)
Prepare == Returns("prepare", TRUE) /\ armed' /\ UNCHANGED task

PrepareFails == Returns("prepare", FALSE) /\ armed' \in BOOLEAN /\ UNCHANGED task

Teardown == /\ Returns("teardown", TRUE)
            /\ \A s \in Slot : task[s] = NoTask
            /\ ~armed'
            /\ UNCHANGED task

(* The coordinator between two callbacks, and everything else.             *)
Between == UNCHANGED <<task, armed>> /\ (call.stage = "in" => call' = call)

ContractNext == \/ Create \/ Park \/ Resume \/ Abort \/ Refuse
                \/ Prepare \/ PrepareFails \/ Teardown \/ Between

ContractSpec == ContractInit /\ [][ContractNext]_cvars
=============================================================================
