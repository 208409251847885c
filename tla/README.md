# lxp: a TLA+ verification project

lxp runs Linux programs on MMU-less microcontrollers, on top of an RTOS. This
project models it in TLA+, checks the models with TLC on small instances, and
proves the main safety results with TLAPS for every size of the tables. Paths
below are relative to the repository root, which is `src/` in `PROJECT.json`.

## The system

**Execution model.** Every Linux task is an RTOS task in a *slot*. A system call
traps (`src/run/lxp_trap.c`). A few fast calls are served in the trap; the
others, and every fork, exec and exit, are left as an *intent* on the slot, and
the task is parked. One *coordinator* task (`src/lxp_run.c`) claims one event at
a time, handles it to the end, and hands parked tasks their results. When no
event is pending it scans the blocked tasks (`src/run/lxp_blocked.c`) and tries
their calls again. The RTOS is reached through the callbacks of
`include/lxp/lxp_port.h`, which three ports implement.

| Part | State | Hard behaviour |
|---|---|---|
| Regions (`run/lxp_region.c`) | lease, references, generation | stale references, wrap, leaks along error paths |
| Lifecycle (`run/lxp_fork.c`, `lxp_exec.c`, `lxp_exit.c`, `lxp_child.c`) | slots, groups, snapshots, status queue | a child in its parent's memory, failure past a commit point, refusals of the RTOS |
| Coordinator (`lxp_run.c`, `run/lxp_blocked.c`, `lxp_signal.c`) | hints, mailboxes, service classes, masks | lost wake-ups, starvation, signal against park |
| Async gate (`lxp_async_gate.c`) | one atomic word and a plain identity | lock-free races with a worker |
| Files, pipes, eventfd, poll | tables, descriptions, rings | counts over fork and exec, closed peers |
| netfs, hostfs, block, sockets, ptys | requests, fids, handles, rings | late answers, cancels, limits |
| Arena, tmpfs, overlay, paths | block list, nodes | edges and boundaries |
| Ports (`ports/freertos`, `zephyr`, `nuttx`) | native tasks, quantum, MPU and domains | ticks, rotations and callbacks that interleave |

`PROJECT.json` lists every component with its status, and the hazards with the
line at which each one bites.

## Modules

| Module | Models |
|---|---|
| `AsyncGate` | the gate, one action per atomic access; coordinator and worker are two processes |
| `RegionTable` | `run/lxp_region.c` as operators on a region table |
| `SlotTable` | the slot record and the primitives on it: native transitions, signal latching, child events |
| `Lifecycle` | guests and coordinator over both tables: the run bracket, traps, fork, exec, exit, wait4, job control |
| `Coordinator` | the event loop, deferred calls, the blocked scan, signal delivery, futexes |
| `Ring`, `PipeSpec`, `Files` | the byte ring; the abstract byte stream; descriptors, open files, pipes, eventfds, poll |
| `Netfs` | the 9P client, its request pool, fids and the staging buffer of execve |
| `Storage` | host file system bridge and block device over the gate |
| `Sockets`, `Terminal` | socket pool; ptys, line discipline and console |
| `Arena`, `Memory` | the allocator; brk, mmap2 and munmap on it |
| `Namespace` | paths, mounts, overlay and tmpfs |
| `PortContract` | what a port promises: the abstract specification |
| `Seam` | the core's side of a port callback: before, during, after |
| `FreertosPort`, `ZephyrPort`, `NuttxPort` | the three ports |
| `CoordView` | the coordinator's own MPU windows (FreeRTOS) |
| `Ports` | each port composed with `Seam`, the refinement mapping to `PortContract` |
| `MC*` | instances for TLC |
| `PrimitiveProofs` | proofs about the gate and the ring |
| `LifecycleProofs` | operator lemmas, the inductive invariant, one lemma per action, and the theorems that follow |
| `WakeProofs`, `MissProofs` | on top of it: no wake-up is lost, no child status is missed |
| `SeamProofs`, `FreertosZephyrProofs`, `NuttxProofs`, `PortsProofs` | the core's side, the ports, and the theorems about all |

**Correspondence.**

- `Lifecycle`: `slots`, `reg`, `guard` and `groups` are the tables of `g_lxp_rt`
  and the thread-group pool. `mem` abstracts the bytes of a region to the pid
  that wrote it last, which is what snapshot and restore have to get right.
  `saved` is history: the parent's memory at the fork. A handler is one action,
  because the coordinator handles an event to the end; its alternatives
  (refused, aborted, committed, contained) are separate disjuncts. A step picks
  a set of callbacks that refuse, within `MaxFail`.
- `Coordinator`: `task[s]` is a slot with its hint bit, mailbox, wait, pending
  set, masks and save stack. A trap is atomic, and happens only while the
  coordinator waits or is inside a provider call, since it outranks the guests.
  A profile fixes what the guests of a behaviour do. A deadline is an expiry
  that may come at any time.
- `Files`: one action is one turn of the coordinator. `did` is what the turn did
  to a pipe, for the refinement of `PipeSpec`.
- The services (`Netfs` to `Namespace`): the network, the medium and the peer
  are nondeterministic; contents are reduced to what the properties tell apart
  (a keystroke has a number, a byte of a file is data, zero or stale).
- The ports: `core` is the state of the slots that a port reads and the callback
  under way; `rt`, `zp` and `nx` are the ports' own records. A callback has
  three steps (`Seam`), so interrupts, scheduler tasks and guests interleave
  with it. Kernel services are external and modelled by how the ports use them.
  On NuttX a device range is staged in the port slot by slot and then stored in
  the mm as the code stores it, unguarded: the bounds (`MapStoreRange`), the
  attributes (`MapStoreAttrs`), the generation (`MapCommit`), in program order,
  with guests switched in between. The two bounds are one step, because a range
  without its end is in no policy. A fresh entry has the attributes of some
  earlier range until its own are stored, since execve clears only the bounds.
  The core's guard on its pool of mm objects (`MmLeft`) always holds, because
  there are as many of them as slots.

Operators named "Mutant" in their comment are wrong on purpose; nothing but a
mutation test uses them.

**Simplifications.** In `Lifecycle` a deferred call is one action with the trap
that publishes it (`Coordinator` has it in steps), guests install no handlers,
and CHILD is the only wait. `Storage` takes the gate at the level `AsyncGate`
establishes: one request, collected by its owner and tag.

## Runs

| Run | Question | Bounds | States |
|---|---|---|---|
| `lifecycle_vfork` | Does the parent survive the window in which its child borrows its memory? | 3 slots, 3 regions, 1 exec, 2 signals | 61,702 |
| `lifecycle_clone` | Do children and statuses balance over all clone flavours? | 3 slots, status queue of 1 | 13,072 |
| `lifecycle_faults` | Does a refusal anywhere, or a second run, leak, free early or strand a task? | 2 slots, 3 regions, 1 failure, 1 halt, 2 runs, generations wrap after 3 | 31,348 |
| `files` | Do counts match holders, and are pipes byte streams? | 2 processes, 3 descriptors, 1 pipe of 2 bytes, 1 eventfd | 183,220 |
| `coordinator` | Is any event, wake-up or mask lost, and is everybody served? | 2 or 3 tasks, burst of 2, 2 nested handlers, 12 profiles | 140,036 |
| `components` | Is the gate safe and does it always reopen, and do the six services keep their pools, answers and limits right? | gate: 2 owners, 2 tags, 4 requests; else 2 guests, pools of 1 to 3, a disk of 3 blocks, 1 lost connection, 3 keys | 153,132 |
| `ports` | Does each port keep its contract, its guests' memory and their turns? | 3 slots, 2 regions, 2 incarnations or leases, 2 device entries, 6 scenarios | 282,109 |

The counts are those of complete searches.

**Why the bounds are enough.** Three slots are the least with a parent, its fork
child and a third party (a sender of signals, a nested child, a thread). A
status queue, pool or ring of one or two entries makes full and empty easy to
reach. A disk of 3 blocks has room for two partitions that overlap. Generations that wrap after 3 wrap within two runs; elsewhere `GenMax` is
not reached, so that references do not match by accident. In `components` one
service runs in each behaviour, since the seven share no state; profiles and
scenarios split the others likewise, so that state spaces add up. No symmetry is
used: slots and regions are searched in order by the code. Deadlock is not
checked: the system stops when its bounds are used up.

`ExitReported` passes in `lifecycle_clone`, where no stop notifications occur:
the capacity check is right for exits alone. `GroupExits` is checked without
execve, which replaces the group exit of its peers by a plain exit.
`TypedInOrder` numbers the keys of the console and of a pty, so that it speaks
of order and not only of counts; on a pty it allows what TCSETS allows, a raw
byte ahead of the unfinished line typed before it. `NetfsCallEnds` says that a
remote call is answered unless it is held up, and names the one way that can
happen: a guest that is stopped or ended in its call has its request in front.
`KillEnds` says that SIGKILL ends a parked task unless a caught signal of a lower
number is deliverable as well; what happens then is `coordinator_kill`.
In `ports` a device range is mapped once per mm; the theorem is about any number.

### Disagreements found

Each of these runs checks one property that a comment of the code states, and
TLC finds a counterexample.

- `lifecycle_status` (`ExitReported`): a stop notification takes the queue entry
  that the fork capacity check kept for an exit status.
- `lifecycle_kill` (`KillKept`): a SIGKILL pending across execve is forgotten.
- `files_exec` (`ExecFailureKeepsFiles`): an execve that fails before its commit
  has already closed the close-on-exec descriptors.
- `coordinator_stop` (`StopResumes`): a SIGCONT scanned between a guest's own
  stop and the claim of its stop event leaves the task parked for ever.
- `coordinator_kill` (`KillUnwedges`): a task that waits for a file-system
  request has a caught SIGINT and a SIGKILL pending. The scan looks at the lowest
  one, defers it until the request completes, and never sees the SIGKILL
  (`run/lxp_blocked.c:292`), while the comment at line 207 says that a wedged
  medium cannot make a task unkillable.

### Fairness

- Gate: a call that has begun returns, and the worker finishes its jobs.
- Lifecycle: the coordinator claims events round-robin
  (`lxp_coordinator_claim_event`), so a pending exit is handled, and teardown
  runs. Nothing is assumed of guests. Refusals are bounded by `MaxFail`, as
  teardown's own retry loop presumes.
- Files: a parked call is retried again and again by the scan.
- Coordinator: it has the highest priority and its wait has a timeout, so it
  keeps stepping; time passes. Nothing is assumed of guests or providers.
  `coordinator_kill` has the same, with the timeout of the wait named apart.
- Netfs: the scan retries every parked guest that is not stopped, which it skips,
  and the loop ticks; of the world, that the server is
  reachable again and again and answers what it got.
- Ports: callbacks return; a woken scheduler task, or the native scheduler with
  a ready guest, runs; and if guests are on the CPU again and again, ticks find
  them there again and again. Without the last, host work at every tick would
  starve guests on any port. Zephyr is left out of `GuestsRotate` (see below).

## Proofs

The constants are arbitrary within the named assumptions (`GateAssumption`,
`TableAssumption`, `ChildAssumption`, `LifecycleAssumption`,
`ScenarioAssumption`).

| Theorem | States |
|---|---|
| `ReadTakesOldest`, `WriteAppends` | the two-part copies of the ring take the oldest bytes and append what fits, for every capacity |
| `GateIsExclusive`, `GateCollectsOwnResult`, `GateOfferIsLive` | the three invariants of the gate |
| `LifecycleInvariant`, `LifecycleTypes`, `RegionsAccounted`, `FreeSlotsQuiet` | the inductive invariant of the lifecycle and three invariants that follow |
| `NoLostWakeup` | `ParkedHasReason`: every parked task has an event pending or somebody who will release it |
| `NoMissedStatus` | `NoMissedChild`, the first half of `WaitsSound`: no task sleeps in wait4 over a queued status it accepts |
| `PortsInvariant` | the inductive invariants of the ports |
| `OneGuest` | `OneGuestRuns` |
| `GuestViews` | `ViewsCorrect` |
| `PortsImplementContract` | each port refines `PortContract` |

**Gate.** `GateInv` is the type invariant with three parts: what the coordinator
knows at each point of a call (`CoordKnows`), which task owns the request in each
state (`Ownership`), and the numbering of requests (`Numbering`). The checked
invariants are not inductive, because none says who will retire a RETIRING
request.

**Ring.** The content of a ring is a sequence defined through the modular index.
The lemmas reduce the wrapped copy to two ranges without a wrap.

**Lifecycle.** The inductive invariant is

    IInv == TypeOK /\ Sound(slots, reg)
    Sound(P, R) == RegionsOk(P, R) /\ Quiet(P) /\ LeasedUserEnds(P, R)

- `RegionsOk` is `RegionAccounting`, and that a referenced region has a nonzero
  generation. Without the latter a put could be refused and the count kept.
- `Quiet` is `FreeSlotHasNoTask`.
- `LeasedUserEnds` says that a task running in a still leased region is on its
  way out, its native task dead or failed. It is needed because a refused launch
  followed by a refused abort publishes an image in a leased region: without it,
  that task could fork and share the region.

Every native transition keeps who lives where (`Keeps`), so that most actions
reduce to one lemma about the region table. There is one lemma per action, and
`NextIInv` combines them.

**Wake-ups.** `ParkedHasReason` is not inductive: a vfork parent is parked with
no event pending, and what wakes it is its child. `WakeInv`, proved inductive
relative to `IInv`, says for every live task that

- it is awake (not parked, or with an event, a wait for a child or a kept
  result), or some live child names the current incarnation of its slot as its
  vfork parent (`Releases`);
- while that child has its snapshot, its guard records this parent and region:
  if the restore finds the region stale, the containment ends the same task that
  a completion would have woken;
- its generation is not 0, so the completion of a current reference is not
  refused; a task with a vfork parent is not in the group of init, whose exit
  releases nobody; and once its snapshot is gone it is ending, since only a
  stuck exec leaves it so (`Held`).

The proof has two relations. `Calm(P, Q, S)` says that a primitive keeps every
task the same and every awake task awake, those of S excepted. `Beside` and
`Freed` say it of the other tasks when one ends or is replaced, and that whoever
it was to release is awake.

**Statuses.** `MissInv` adds to `NoMissedChild` that the group of a live task is
in the range of the group table, so that its queue exists. Tasks end their waits
and queues lose entries in most actions (`WaitsKept`, `QueuesKept`). The two
places that matter are `ChildEventMiss` (an event is queued only if the task
chosen as parent does not accept it, and then no task of the group does) and the
wait4 of a guest, which sleeps only after a search of the whole queue.

**Ports.** The argument has three layers.

- `SeamProofs`: `CoreInv` says that a callback is for the current incarnation of
  a live slot of a run that is up, who may be called runnable meanwhile, and
  that a fresh image has its region to itself. `Follows(T, core)` says in which
  states the native task of a slot may be, given the core's record and the
  callback under way. Each action of the core keeps `CoreInv`, and keeps
  `Follows` for any port that leaves its tasks alone.
- The ports: each callback serves its call as `Served` says or refuses
  it and leaves the task; ticks, rotations, traps and switches change no task.
  `FreertosInv` adds the gate (the selected task is the ready one, nobody is
  blocked behind an empty selection) and the profile of each created task.
  `ZephyrInv` adds that a thread is bound to the domain of its slot's current
  address space, and that no domain is valid for a lease still to come: without
  it a region leased anew could be served by its old domain. `NuttxInv` adds
  that the ready list holds ready tasks once, and that a compiled profile or
  installed region is right for as long as its key is current: keys carry slot,
  generation and device generation, and none is ahead of its slot. "Right" is
  relative to `Granted`: the device list of the mm, or, from the first store of
  a range to the last, the list before the stores or the one after them. That
  this is so rests on `Staged` and `StoresSound`: once the stores begin, every
  slot of the mm holds the new range with its own attributes, so that a profile
  compiled half way is either refused, because the staged ranges are not those
  of the mm, or already the one after the stores.
- `PortsProofs`: the three invariants together (`PortsInv`), what follows from
  them, and the refinement: `ContractBegins` for the initial states,
  `ContractSteps` for every step, which is a step of the contract or a stutter.

TLC checks `OneGuestRuns`, `ViewsCorrect` and `ContractHeld` on the scenarios of
`MCPorts`; the theorems hold for any number of slots and regions and any bounds.

**Only model-checked.**

- Liveness (`GateReopens`, `ExitCompletes`, `GroupExits`, `HungUpCallEnds`,
  `ReadyServed`, `KillEnds`, `NetfsCallEnds`, `GuestsRotate`): the prover does
  not handle it.
- `Coordinator`: the scan is a fold over the slots, and what a fold computes
  needs induction over data.
- `Files`, `Terminal`, `Memory`, `Namespace`: counts and contents are results of
  recursive functions over tables, rings and the block list, likewise.
- `Netfs`, `Storage`, `Sockets`: no theorem yet; their invariants relate few
  variables and the searches are complete for small pools.
- `Lifecycle`, for a reason each: these do not hold for every value of the
  constants, and are checked where they do.
  - `SnapshotIntact`, `VforkSuspended`, `VforkRestored`: a generation that has
    wrapped can make the stale parent reference of an old child match the new
    task of that slot. The runs that check them do not wrap.
  - `ChildAccounting`, `ReportedIsDead`: an execve that fails past its commit
    point beside live threads reports the group twice (see "Not modelled").
  - `WaitHasChild`, the other half of `WaitsSound`: of two threads in wait4 the
    second sleeps on when the first collects the last child.

## Other observations

Behaviour met while modelling that no run is about: nothing in the repository
says otherwise, or the comment it departs from is named here, or the property
would only restate the line.

- A vfork child whose parent died first keeps its snapshot leased until the run
  ends (`run/lxp_exit.c:50`; `run/lxp_runtime_store.h:47` says who owns it).
- Zephyr's tick gives the guest a new budget when it finds host work
  (`ports/zephyr/lxp_zephyr_port.c:139`), which the FreeRTOS port's comment
  calls starvation (`lxp_freertos_port.c:216`). So nothing is claimed about turns
  on Zephyr.
- A second refused abort finds the slot already FAILED and clears its runnable
  mark while the native task runs (`run/lxp_lifecycle.c:76`).
- A parked pipe call is retried on the pipe's index (`fs/lxp_pipe.c:101`): a
  descriptor closed by a thread and its pool entry reused redirect the retry.
- A sigsuspend ended by an ignored signal leaves its temporary mask in force.
- A futex waiter that was woken and has a signal pending returns EINTR.
- netfs: a dropped connection leaks a slot of the open pool, and the clunk queue
  and fids survive a reconnect. A guest ended by exit_group, by a peer's exec or
  by a fatal signal while stopped leaves its request without a cancel.
- Storage: a remount read-only while an O_RDWR open is parked makes the retry
  return EROFS with the gate left COMPLETE (`fs/lxp_hostfs.c:434`); a mounted
  partition does not count as in use for BLKRRPART (`dev/lxp_dev_block.c:258`);
  its retry with EBUSY leaves the request uncollected.
- Sockets: "a retry repeats exactly what blocked" (`net/lxp_net.c:168`), but the
  retry of accept4 drops its flags, and parked receives on one socket share one
  source address.
- Terminal: a key read by a guest raises no signal even with ISIG; ICRNL is
  applied to one-byte reads only, where `run/lxp_console_input.c:8` says "on every
  byte a guest reads"; a pty write parks when the peer has closed; bytes of
  an unfinished line are held at a switch to raw mode; echo is dropped when full.
- tmpfs can hold two nodes of one name (`fs/lxp_tmpfs.c:162`), and a removal
  between two getdents calls skips an entry.
- Zephyr: a failed `setup_domain` leaves `policy_valid` of the region set.
  NuttX: `prepare` does not compare guest and coordinator priority. FreeRTOS:
  the rootfs window uses absolute MPU numbers where the mapping call adds
  `portFIRST_CONFIGURABLE_REGION`; the patched port sets that to 0, so they agree.

## Not modelled

- The loader's relocation, message encodings, file-set encodings, clocks and
  reports: sequential data transformation and formatting.
- Memory contents beyond "who wrote last", and the layout of a snapshot.
- Register-level context switching, which is the kernels'.
- The POSIX port, a host-side stand-in for tests.
- One combination is left out of the passing lifecycle runs: execve that fails
  past its commit point while thread peers are alive (`run/lxp_exec.c:203`),
  where the failure is reported by the transaction and again by the last peer.
- The components marked `not_modelled`, and what the notes of the `partly` ones
  leave out, in `PROJECT.json`.
