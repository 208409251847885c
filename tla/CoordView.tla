----------------------------- MODULE CoordView ------------------------------
(***************************************************************************)
(* The coordinator's own MPU regions on FreeRTOS.  The registers hold what *)
(* it sees now, its task block what the next switch back to it loads, and  *)
(* a software cache which region it last mapped.  Before a service touches *)
(* guest memory it maps that guest's region; each run installs the window  *)
(* of the root file system anew.                                           *)
(***************************************************************************)
EXTENDS Seam

VARIABLE cv

NoRegion == -1
Unmapped == [ridx |-> NoRegion, window |-> FALSE]

CoordViewInit ==
    cv = [cache |-> NoRegion, tcb |-> Unmapped, live |-> Unmapped,
          window |-> FALSE, mapping |-> NoRegion, step |-> "idle"]

(* A region that is not the cached one is recorded in the task block, with *)
(* the window re-specified, then in the registers, then in the cache.      *)
freertos_coord_map(r) ==
    /\ cv.step = "idle" /\ r # cv.cache
    /\ cv' = [cv EXCEPT !.tcb = [ridx |-> r, window |-> cv.window],
                        !.mapping = r, !.step = "mapped"]

coord_map_live ==
    /\ cv.step = "mapped"
    /\ cv' = [cv EXCEPT !.live.ridx = cv.mapping, !.cache = cv.mapping,
                        !.mapping = NoRegion, !.step = "idle"]

(* The window replaces every region of the task block, so the cache must   *)
(* forget what it mapped.                                                  *)
freertos_rootfs_window ==
    /\ cv.step = "idle"
    /\ cv' = [cv EXCEPT !.window = TRUE, !.cache = NoRegion,
                        !.tcb = [ridx |-> NoRegion, window |-> TRUE], !.step = "window"]

rootfs_window_live ==
    /\ cv.step = "window"
    /\ cv' = [cv EXCEPT !.live = [ridx |-> NoRegion, window |-> TRUE], !.step = "idle"]

(* A switch away and back loads the task block.                            *)
Reload == cv' = [cv EXCEPT !.live = cv.tcb]

CoordViewNext ==
    \/ \E r \in Region : freertos_coord_map(r)
    \/ coord_map_live
    \/ freertos_rootfs_window
    \/ rootfs_window_live
    \/ Reload

(* Once a mapping call returned, the registers and the task block both map *)
(* the cached region and keep the window, across any preemption.           *)
CoordinatorSees ==
    cv.step = "idle" =>
        /\ cv.cache # NoRegion => cv.live.ridx = cv.cache /\ cv.tcb.ridx = cv.cache
        /\ cv.window => cv.live.window /\ cv.tcb.window
=============================================================================
