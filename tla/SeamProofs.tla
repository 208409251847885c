----------------------------- MODULE SeamProofs -----------------------------
(***************************************************************************)
(* What the core keeps true around every port callback, whichever port it  *)
(* runs on: the invariant CoreInv of the coordinator's own state, and      *)
(* Follows, the native task the core may count on for each slot.  The      *)
(* proofs of the ports build on both.                                      *)
(***************************************************************************)
EXTENDS Seam, TLAPS

Hosts == {"free", "running", "parked", "failed"}
SlotOps == {"launch", "start", "resume", "park", "abort"}
Creates == {"launch", "start"}

Calls == [op : SlotOps \cup {"none", "prepare", "teardown"}, slot : Slot \cup {NoSlot},
          gen : Nat, stage : {"in", "out"}, rc : BOOLEAN, old : Hosts, fate : {"exit", "exec"}]

\* The device ranges of an mm are of different addresses.
DeviceLists ==
    {q \in Seq(Devices) : \A i, j \in 1..Len(q) : q[i].addr = q[j].addr => i = j}

Mms == [ridx : Region, rgen : Nat, dgen : Nat, devs : DeviceLists, text : BOOLEAN]

Staging == [mm : Slot \cup {NoSlot}, dev : [addr : Nat, attrs : Nat], entry : Nat,
            todo : SUBSET Slot, next : {"range", "attrs", "generation"}, was : DeviceLists]

\* The shape and the types of the core's state.
CoreRecord(c) ==
    c = [gen |-> c.gen, bound |-> c.bound, alive |-> c.alive, runnable |-> c.runnable,
         host |-> c.host, mm |-> c.mm, mms |-> c.mms, leases |-> c.leases, pos |-> c.pos,
         want |-> c.want, call |-> c.call, map |-> c.map, run |-> c.run]

CoreTyped(c) ==
    /\ CoreRecord(c)
    /\ c.gen \in [Slot -> Nat] /\ c.bound \in Bounds /\ c.alive \in [Slot -> BOOLEAN]
    /\ c.runnable \in [Slot -> BOOLEAN] /\ c.host \in [Slot -> Hosts]
    /\ c.mm \in [Slot -> Slot] /\ c.mms \in [Slot -> Mms] /\ c.leases \in [Region -> Nat]
    /\ c.pos \in [Slot -> {"user", "entry"}] /\ c.want \in [Slot -> {"none", "park", "exit"}]
    /\ c.call \in Calls /\ c.map \in Staging /\ c.run \in {"down", "up", "failed"}

\* A callback is for the current incarnation of a live slot of a run that is
\* up, and the slot is in the state lxp_lifecycle_apply asked for.
CallSound(c) ==
    LET s == c.call.slot IN
    /\ c.call.op = "none" => c.call.stage = "out"
    /\ c.call.op \in SlotOps <=> s # NoSlot
    /\ c.call.op \in SlotOps => c.alive[s] /\ c.call.gen = c.gen[s] /\ c.run = "up"
    /\ c.call.op \in Creates => c.host[s] = "free" /\ c.runnable[s]
    /\ c.call.op = "resume" => c.host[s] = "parked" /\ c.runnable[s]
    /\ c.call.op = "park" => c.host[s] = "running"
    /\ c.call.op = "park" /\ c.call.stage = "in" => c.want[s] = "park"
    /\ c.call.op = "prepare" => c.run = "down"
    /\ c.call.op = "teardown" => \A t \in Slot : ~c.alive[t]

\* Who may be alive, and who may be called runnable.
SlotsSound(c) ==
    /\ c.run # "up" => \A s \in Slot : ~c.alive[s]
    /\ \A s \in Slot :
        /\ c.alive[s] => c.gen[s] # 0
        /\ c.host[s] # "free" => c.alive[s]
        /\ c.host[s] = "running" => c.runnable[s]
        /\ c.host[s] \in {"free", "parked"} /\ c.runnable[s] =>
               c.call.slot = s /\ c.call.op \in Creates \cup {"resume"}

\* A fresh image has its region to itself, under a lease of its own; a child
\* is created next to a parked slot with the same address space.
MmsSound(c) ==
    LET s == c.call.slot IN
    /\ c.call.op = "launch" /\ c.call.stage = "in" =>
        /\ MmOf(c, s).rgen = c.leases[MmOf(c, s).ridx] /\ MmOf(c, s).devs = <<>>
        /\ \A t \in Slot \ {s} : c.alive[t] => MmOf(c, t).ridx # MmOf(c, s).ridx
    /\ c.call.op = "start" /\ c.call.stage = "in" =>
        \E p \in Slot \ {s} : c.host[p] = "parked" /\ MmOf(c, p) = MmOf(c, s)

CoreInv(c) == CoreTyped(c) /\ CallSound(c) /\ SlotsSound(c) /\ MmsSound(c)

\* The states the native task of a slot may be in: what the callback that just
\* succeeded made of it, else what the core's record of the slot says.
Expected(c, s) ==
    IF c.call.slot = s /\ c.call.stage = "out" /\ c.call.rc
    THEN CASE c.call.op = "abort" -> {"none"}
           [] c.call.op = "park" -> {"parked"}
           [] OTHER -> {"live"}
    ELSE CASE c.host[s] = "free" -> {"none"}
           [] c.host[s] = "running" -> {"live"}
           [] c.host[s] = "parked" -> {"parked"}
           [] OTHER -> {"none", "live", "parked"}

\* The native tasks agree with the core: each is in a state the core expects
\* and belongs to the slot's current incarnation.
Nobody == [state |-> "none", gen |-> 0]

Follows(T, c) ==
    /\ T = [s \in Slot |-> T[s]]
    /\ \A s \in Slot :
        /\ T[s].state \in Expected(c, s)
        /\ \/ T[s] = Nobody
           \/ \E x \in {"live", "parked"} : T[s] = [state |-> x, gen |-> c.gen[s]]

\* What a callback that succeeds makes of the task of its slot.
Served(call) ==
    CASE call.op = "abort" -> Nobody
      [] call.op = "park" -> [state |-> "parked", gen |-> call.gen]
      [] OTHER -> [state |-> "live", gen |-> call.gen]

\* The step of a port as its contract sees it: U and B are what becomes of the
\* tasks T and of whether the port is armed, A.
Replies(c, d, rc) ==
    c.call.stage = "in" /\ d.call = [c.call EXCEPT !.stage = "out", !.rc = rc]

PortStep(c, d, T, U, A, B) ==
    \/ /\ c.call.op \in SlotOps /\ B = A
       /\ \/ Replies(c, d, FALSE) /\ U = T
          \/ Replies(c, d, TRUE) /\ U = [T EXCEPT ![c.call.slot] = Served(c.call)]
    \/ c.call.op = "prepare" /\ U = T /\ (Replies(c, d, FALSE) \/ (Replies(c, d, TRUE) /\ B))
    \/ c.call.op = "teardown" /\ U = T /\ Replies(c, d, TRUE) /\ ~B
    \/ (c.call.stage = "in" => d.call = c.call) /\ U = T /\ B = A

\* What a step of the core may do to the address spaces: an incarnation that
\* was alive keeps its own, and leases and generations only grow.
Kept(c, d) ==
    /\ \A r \in Region : c.leases[r] <= d.leases[r]
    /\ \A t \in Slot :
        /\ c.gen[t] <= d.gen[t]
        /\ d.alive[t] /\ d.gen[t] = c.gen[t] => c.alive[t] /\ MmOf(d, t) = MmOf(c, t)

\* A fresh image is being launched in region r.
InLaunch(c, r) ==
    c.call.op = "launch" /\ c.call.stage = "in" /\ MmOf(c, c.call.slot).ridx = r

\* A guest that runs, or whose thread has ended, and is to exit.
Condemned(c, t) ==
    c.host[t] = "running" /\ c.want[t] = "exit" /\ "live" \in Expected(c, t)

\* No abort was ever refused.
NoneFailed(c) ==
    /\ c.call.op = "abort" /\ c.call.stage = "out" => c.call.rc
    /\ \A s \in Slot : c.host[s] # "failed"

\* A step of the coordinator between two callbacks keeps the invariant, the
\* address spaces, and what it may expect of every native task; a slot with a
\* task keeps its generation, no slot fails unless an abort was refused, and a
\* running guest that is to exit is only ever aborted.  A launch takes a lease
\* of its own.
Keeps(c, d) ==
    /\ CoreInv(d) /\ Kept(c, d)
    /\ \A t \in Slot :
           /\ Expected(c, t) \subseteq Expected(d, t)
           /\ d.gen[t] # c.gen[t] => Expected(c, t) = {"none"}
    /\ NoneFailed(c) => NoneFailed(d) /\ \A t \in Slot : Condemned(c, t) => Condemned(d, t)
    /\ \A r \in Region : InLaunch(d, r) => InLaunch(c, r) \/ c.leases[r] < d.leases[r]
    /\ d.map = c.map

-----------------------------------------------------------------------------

\* An mm without a device range has a list of ranges.
LEMMA NoRanges == <<>> \in DeviceLists
  <1>1. <<>> \in Seq(Devices) /\ Len(<<>>) = 0
    OBVIOUS
  <1> QED
    BY <1>1 DEF DeviceLists

\* The core starts with nothing alive, no callback and no staged mapping.
LEMMA CoreInvInit == ASSUME NEW bound \in Bounds, CoreInit(bound) PROVE CoreInv(core)
  <1> USE TableAssumption DEF Slot, Region, NoSlot
  <1>1. CoreTyped(core)
    BY NoRanges DEF CoreInit, CoreTyped, CoreRecord, Calls, Mms, Staging, Hosts, SlotOps, NoMm,
       Idle, NoMap, NoDev
  <1>2. CallSound(core)
    BY Zenon DEF CoreInit, CallSound, Idle, SlotOps, Creates
  <1>3. SlotsSound(core)
    BY Zenon DEF CoreInit, SlotsSound
  <1>4. MmsSound(core)
    BY DEF CoreInit, MmsSound, Idle
  <1> QED
    BY <1>1, <1>2, <1>3, <1>4, Zenon DEF CoreInv

\* The mm object mm_new returns is nobody's.
LEMMA FreeMmUnused ==
    ASSUME MmLeft
    PROVE  FreeMm \in Slot /\ Sharing(core, FreeMm) = {}
  BY Zenon DEF MmLeft, FreeMm

\* A fresh image: the coordinator leases a region, takes an mm of its own and
\* publishes the runnable capability before spawn_launch is called.
LEMMA LaunchKeeps ==
    ASSUME CoreInv(core), NEW s \in Slot, NEW r \in Region, NEW text \in BOOLEAN,
           CallLaunch(s, r, text)
    PROVE  Keeps(core, core')
  <1> DEFINE g == core.gen[s] + 1
             m == IF core.alive[s] /\ Sharing(core, core.mm[s]) = {s} THEN core.mm[s] ELSE FreeMm
             image == [ridx |-> r, rgen |-> core.leases[r] + 1, dgen |-> 1, devs |-> <<>>,
                       text |-> text]
  <1>1. /\ CoreTyped(core) /\ core.host[s] = "free" /\ Ready
        /\ \A t \in Slot \ {s} : core.alive[t] => MmOf(core, t).ridx # r
    BY Zenon DEF CoreInv, CallLaunch
  <1>2. m \in Slot /\ \A t \in Slot \ {s} : core.alive[t] => core.mm[t] # m
    <2>1. CASE core.alive[s] /\ Sharing(core, core.mm[s]) = {s}
      BY <1>1, <2>1, Zenon DEF Sharing, CoreTyped
    <2>2. CASE ~(core.alive[s] /\ Sharing(core, core.mm[s]) = {s})
      <3>1. MmLeft
        BY <2>2, Zenon DEF CallLaunch
      <3> QED
        BY <2>2, <3>1, FreeMmUnused, Zenon DEF Sharing
    <2> QED
      BY <2>1, <2>2, Zenon
  <1>3. core' = [core EXCEPT !.gen[s] = g, !.alive[s] = TRUE, !.mm[s] = m,
                             !.leases[r] = core.leases[r] + 1, !.mms[m] = image,
                             !.runnable[s] = TRUE, !.pos[s] = "user",
                             !.call = CallOf("launch", s, g, "exit")]
    BY <1>1, Zenon DEF CallLaunch, CoreTyped, CoreRecord
  <1> HIDE DEF m
  <1>4. /\ CoreRecord(core)'
        /\ core'.gen = [core.gen EXCEPT ![s] = g]
        /\ core'.bound = core.bound
        /\ core'.alive = [core.alive EXCEPT ![s] = TRUE]
        /\ core'.runnable = [core.runnable EXCEPT ![s] = TRUE]
        /\ core'.host = core.host
        /\ core'.mm = [core.mm EXCEPT ![s] = m]
        /\ core'.mms = [core.mms EXCEPT ![m] = image]
        /\ core'.leases = [core.leases EXCEPT ![r] = core.leases[r] + 1]
        /\ core'.pos = [core.pos EXCEPT ![s] = "user"]
        /\ core'.want = core.want
        /\ core'.call = CallOf("launch", s, g, "exit")
        /\ core'.map = core.map
        /\ core'.run = core.run
    BY <1>1, <1>3, ZenonT(60) DEF CoreTyped, CoreRecord
  <1>5. /\ core'.call.op = "launch" /\ core'.call.slot = s /\ core'.call.gen = g
        /\ core'.call.stage = "in" /\ s # NoSlot /\ core.run = "up"
        /\ core.call.op = "none" /\ core.call.slot = NoSlot
        /\ \A t \in Slot : t # NoSlot
    BY <1>1, <1>4 DEF CallOf, Slot, NoSlot, Ready, CoreInv, CallSound, SlotOps
  <1>6. CoreTyped(core)'
    <2>1. image \in Mms
      BY <1>1, NoRanges DEF CoreTyped, Mms
    <2>2. CallOf("launch", s, g, "exit") \in Calls
      BY <1>1 DEF CoreTyped, CallOf, Calls, SlotOps
    <2> QED
      BY <1>1, <1>2, <1>4, <2>1, <2>2 DEF CoreTyped
  <1>7. CallSound(core)'
    BY <1>1, <1>4, <1>5 DEF CallSound, CoreTyped, SlotOps, Creates
  <1>8. SlotsSound(core)'
    BY <1>1, <1>4, <1>5 DEF CoreInv, SlotsSound, CoreTyped, Creates
  <1>9. \A t \in Slot \ {s} : core.alive[t] => MmOf(core', t) = MmOf(core, t)
    BY <1>1, <1>2, <1>4 DEF MmOf, CoreTyped
  <1>10. MmOf(core', s) = image
    BY <1>1, <1>2, <1>4 DEF MmOf, CoreTyped
  <1>11. MmsSound(core)'
    <2>1. \A t \in Slot \ {s} : core'.alive[t] => core.alive[t] /\ MmOf(core, t).ridx # r
      BY <1>1, <1>4, ZenonT(60) DEF CoreTyped
    <2> QED
      BY <1>1, <1>4, <1>5, <1>9, <1>10, <2>1 DEF MmsSound, CoreTyped
  <1>12. Kept(core, core')
    BY <1>1, <1>4, <1>9 DEF Kept, CoreTyped
  <1>13. \A t \in Slot :
             /\ Expected(core, t) \subseteq Expected(core', t)
             /\ core'.gen[t] # core.gen[t] => Expected(core, t) = {"none"}
    <2>1. \A t \in Slot : core'.gen[t] # core.gen[t] => t = s
      BY <1>1, <1>4, Zenon DEF CoreTyped
    <2> QED
      BY <1>1, <1>4, <1>5, <2>1 DEF Expected
  <1>14. NoneFailed(core) => NoneFailed(core')
    BY <1>4, <1>5 DEF NoneFailed
  <1>15. \A t \in Slot : Condemned(core, t) => Condemned(core', t)
    BY <1>4, <1>13, Zenon DEF Condemned
  <1>16. \A q \in Region : InLaunch(core', q) => core.leases[q] < core'.leases[q]
    BY <1>1, <1>4, <1>5, <1>10 DEF InLaunch, CoreTyped
  <1> QED
    BY <1>4, <1>6, <1>7, <1>8, <1>11, <1>12, <1>13, <1>14, <1>15, <1>16, Zenon DEF CoreInv, Keeps

\* A child of clone or vfork: in the mm of its parked caller, or in a free mm
\* object that becomes a copy of it.
LEMMA StartKeeps ==
    ASSUME CoreInv(core), NEW s \in Slot, NEW p \in Slot, NEW shared \in BOOLEAN,
           CallStart(s, p, shared)
    PROVE  Keeps(core, core')
  <1> DEFINE g == core.gen[s] + 1
             m == IF shared THEN core.mm[p] ELSE FreeMm
  <1>1. /\ CoreTyped(core) /\ core.host[s] = "free" /\ ~core.alive[s] /\ Ready
        /\ core.alive[p] /\ core.host[p] = "parked" /\ p # s
    BY Zenon DEF CoreInv, CallStart
  <1>2. /\ m \in Slot
        /\ \A t \in Slot : core.alive[t] => core.mm[t] # m \/ MmOf(core, t) = MmOf(core, p)
    <2>1. CASE shared
      BY <1>1, <2>1, Zenon DEF CoreTyped, MmOf
    <2>2. CASE ~shared
      <3>1. MmLeft
        BY <2>2, Zenon DEF CallStart
      <3> QED
        BY <2>2, <3>1, FreeMmUnused, Zenon DEF Sharing
    <2> QED
      BY <2>1, <2>2, Zenon
  <1>3. core' = [core EXCEPT !.gen[s] = g, !.alive[s] = TRUE, !.mm[s] = m,
                             !.mms[m] = MmOf(core, p),
                             !.runnable[s] = TRUE, !.pos[s] = "user", !.want[s] = "none",
                             !.call = CallOf("start", s, g, "exit")]
    BY <1>1, Zenon DEF CallStart, CoreTyped, CoreRecord
  <1> HIDE DEF m
  <1>4. /\ CoreRecord(core)'
        /\ core'.gen = [core.gen EXCEPT ![s] = g]
        /\ core'.bound = core.bound
        /\ core'.alive = [core.alive EXCEPT ![s] = TRUE]
        /\ core'.runnable = [core.runnable EXCEPT ![s] = TRUE]
        /\ core'.host = core.host
        /\ core'.mm = [core.mm EXCEPT ![s] = m]
        /\ core'.mms = [core.mms EXCEPT ![m] = MmOf(core, p)]
        /\ core'.leases = core.leases
        /\ core'.pos = [core.pos EXCEPT ![s] = "user"]
        /\ core'.want = [core.want EXCEPT ![s] = "none"]
        /\ core'.call = CallOf("start", s, g, "exit")
        /\ core'.map = core.map
        /\ core'.run = core.run
    BY <1>1, <1>3, ZenonT(60) DEF CoreTyped, CoreRecord
  <1>5. /\ core'.call.op = "start" /\ core'.call.slot = s /\ core'.call.gen = g
        /\ core'.call.stage = "in" /\ s # NoSlot /\ core.run = "up"
        /\ core.call.op = "none" /\ core.call.slot = NoSlot
        /\ \A t \in Slot : t # NoSlot
    BY <1>1, <1>4 DEF CallOf, Slot, NoSlot, Ready, CoreInv, CallSound, SlotOps
  <1>6. CoreTyped(core)'
    <2>1. MmOf(core, p) \in Mms
      BY <1>1, Zenon DEF CoreTyped, MmOf
    <2>2. CallOf("start", s, g, "exit") \in Calls
      BY <1>1 DEF CoreTyped, CallOf, Calls, SlotOps
    <2> QED
      BY <1>1, <1>2, <1>4, <2>1, <2>2 DEF CoreTyped
  <1>7. CallSound(core)'
    BY <1>1, <1>4, <1>5 DEF CallSound, CoreTyped, SlotOps, Creates
  <1>8. SlotsSound(core)'
    BY <1>1, <1>4, <1>5 DEF CoreInv, SlotsSound, CoreTyped, Creates
  <1>9. \A t \in Slot : core.alive[t] => MmOf(core', t) = MmOf(core, t)
    BY <1>1, <1>2, <1>4 DEF MmOf, CoreTyped
  <1>10. MmOf(core', s) = MmOf(core, p)
    BY <1>1, <1>2, <1>4 DEF MmOf, CoreTyped
  <1>11. MmsSound(core)'
    BY <1>1, <1>4, <1>5, <1>9, <1>10 DEF MmsSound, CoreTyped
  <1>12. Kept(core, core')
    BY <1>1, <1>4, <1>9 DEF Kept, CoreTyped
  <1>13. \A t \in Slot :
             /\ Expected(core, t) \subseteq Expected(core', t)
             /\ core'.gen[t] # core.gen[t] => Expected(core, t) = {"none"}
    <2>1. \A t \in Slot : core'.gen[t] # core.gen[t] => t = s
      BY <1>1, <1>4 DEF CoreTyped
    <2> QED
      BY <1>1, <1>4, <1>5, <2>1 DEF Expected
  <1>14. NoneFailed(core) => NoneFailed(core')
    BY <1>4, <1>5 DEF NoneFailed
  <1>15. \A t \in Slot : Condemned(core, t) => Condemned(core', t)
    BY <1>1, <1>4, <1>13 DEF Condemned, CoreTyped
  <1>16. \A q \in Region : ~InLaunch(core', q)
    BY <1>5, Zenon DEF InLaunch
  <1> QED
    BY <1>4, <1>6, <1>7, <1>8, <1>11, <1>12, <1>13, <1>14, <1>15, <1>16, Zenon DEF CoreInv, Keeps

\* A callback that is announced changes nothing but the call itself and, for a
\* resume, the runnable capability.
Announced(c, d, call) ==
    /\ CoreRecord(d) /\ d.call = call
    /\ d.gen = c.gen /\ d.bound = c.bound /\ d.alive = c.alive /\ d.host = c.host
    /\ d.mm = c.mm /\ d.mms = c.mms /\ d.leases = c.leases /\ d.pos = c.pos
    /\ d.want = c.want /\ d.map = c.map /\ d.run = c.run

\* Announcing a callback other than a creation keeps the invariant when the
\* slot is in the state that the call needs.
LEMMA AnnounceKeeps ==
    ASSUME CoreInv(core), NEW call \in Calls, Announced(core, core', call),
           core.call.op = "none",
           \/ /\ call.op \in {"resume", "park", "abort"} /\ call.slot \in Slot
              /\ core.alive[call.slot] /\ call.gen = core.gen[call.slot] /\ core.run = "up"
           \/ call.op \in {"prepare", "teardown"} /\ call.slot = NoSlot,
           call.op = "resume" => core.host[call.slot] = "parked",
           core'.runnable = IF call.op = "resume" THEN [core.runnable EXCEPT ![call.slot] = TRUE]
                            ELSE core.runnable,
           call.op = "park" => core.host[call.slot] = "running" /\ core.want[call.slot] = "park",
           call.op = "prepare" => core.run = "down",
           call.op = "teardown" => \A t \in Slot : ~core.alive[t],
           call.stage = "in"
    PROVE  Keeps(core, core')
  <1>1. CoreTyped(core) /\ core.call.slot = NoSlot /\ \A t \in Slot : t # NoSlot
    BY DEF CoreInv, CallSound, SlotOps, Slot, NoSlot
  <1>2. CoreTyped(core)'
    BY <1>1 DEF CoreTyped, Announced
  <1>3. CallSound(core)'
    BY <1>1 DEF CallSound, CoreTyped, SlotOps, Creates, Announced
  <1>4. SlotsSound(core)'
    BY <1>1 DEF CoreInv, SlotsSound, CoreTyped, Creates, Announced
  <1>5. MmsSound(core)'
    BY Zenon DEF MmsSound, Announced
  <1>6. \A t \in Slot : MmOf(core', t) = MmOf(core, t)
    BY Zenon DEF MmOf, Announced
  <1>7. Kept(core, core')
    BY <1>1, <1>6 DEF Kept, CoreTyped, Announced
  <1>8. \A t \in Slot : Expected(core, t) \subseteq Expected(core', t)
    BY <1>1, Zenon DEF Expected, Announced
  <1>9. core'.gen = core.gen /\ (NoneFailed(core) => NoneFailed(core'))
    BY ZenonT(60) DEF NoneFailed, Announced
  <1>10. \A t \in Slot : Condemned(core, t) => Condemned(core', t)
    BY <1>8, Zenon DEF Condemned, Announced
  <1>11. core'.map = core.map /\ \A q \in Region : ~InLaunch(core', q)
    BY Zenon DEF InLaunch, Announced
  <1> QED
    BY <1>2, <1>3, <1>4, <1>5, <1>7, <1>8, <1>9, <1>10, <1>11, Zenon DEF CoreInv, Keeps

\* The announced call of each callback that is not a creation.
LEMMA ResumeKeeps ==
    ASSUME CoreInv(core), NEW s \in Slot, CallResume(s) PROVE Keeps(core, core')
  <1> DEFINE call == CallOf("resume", s, core.gen[s], "exit")
  <1>1. CoreTyped(core) /\ core.alive[s] /\ core.host[s] = "parked" /\ Ready
    BY Zenon DEF CoreInv, CallResume
  <1>2. call \in Calls /\ call.op = "resume" /\ call.slot = s /\ call.gen = core.gen[s]
        /\ call.stage = "in"
    BY <1>1, Zenon DEF CoreTyped, CallOf, Calls, SlotOps
  <1> HIDE DEF call
  <1>3. core' = [core EXCEPT !.runnable[s] = TRUE, !.call = call]
    BY Zenon DEF CallResume, call
  <1>4. Announced(core, core', call) /\ core'.runnable = [core.runnable EXCEPT ![s] = TRUE]
    BY <1>1, <1>3, Zenon DEF Announced, CoreTyped, CoreRecord
  <1> QED
    BY <1>1, <1>2, <1>4, AnnounceKeeps, Zenon DEF Ready

\* Asking the port to park a running task keeps the invariant.
LEMMA ParkKeeps ==
    ASSUME CoreInv(core), NEW s \in Slot, CallPark(s) PROVE Keeps(core, core')
  <1> DEFINE call == CallOf("park", s, core.gen[s], "exit")
  <1>1. CoreTyped(core) /\ core.alive[s] /\ core.host[s] = "running" /\ core.want[s] = "park"
        /\ Ready
    BY Zenon DEF CoreInv, CallPark
  <1>2. call \in Calls /\ call.op = "park" /\ call.slot = s /\ call.gen = core.gen[s]
        /\ call.stage = "in"
    BY <1>1, Zenon DEF CoreTyped, CallOf, Calls, SlotOps
  <1> HIDE DEF call
  <1>3. core' = [core EXCEPT !.call = call]
    BY Zenon DEF CallPark, call
  <1>4. Announced(core, core', call) /\ core'.runnable = core.runnable
    BY <1>1, <1>3, Zenon DEF Announced, CoreTyped, CoreRecord
  <1> QED
    BY <1>1, <1>2, <1>4, AnnounceKeeps, Zenon DEF Ready

\* Asking the port to end a task, for an exit or an execve, keeps it.
LEMMA AbortKeeps ==
    ASSUME CoreInv(core), NEW s \in Slot, NEW fate \in {"exit", "exec"}, CallAbort(s, fate)
    PROVE  Keeps(core, core')
  <1> DEFINE call == CallOf("abort", s, core.gen[s], fate)
  <1>1. CoreTyped(core) /\ core.alive[s] /\ Ready
    BY Zenon DEF CoreInv, CallAbort
  <1>2. call \in Calls /\ call.op = "abort" /\ call.slot = s /\ call.gen = core.gen[s]
        /\ call.stage = "in"
    BY <1>1, Zenon DEF CoreTyped, CallOf, Calls, SlotOps
  <1> HIDE DEF call
  <1>3. core' = [core EXCEPT !.call = call]
    BY Zenon DEF CallAbort, call
  <1>4. Announced(core, core', call) /\ core'.runnable = core.runnable
    BY <1>1, <1>3, Zenon DEF Announced, CoreTyped, CoreRecord
  <1> QED
    BY <1>1, <1>2, <1>4, AnnounceKeeps, Zenon DEF Ready

\* The calls that bracket a run keep it.
LEMMA BracketKeeps ==
    ASSUME CoreInv(core), CallPrepare \/ CallTeardown PROVE Keeps(core, core')
  <1>1. PICK op \in {"prepare", "teardown"} :
            /\ core' = [core EXCEPT !.call = [Idle EXCEPT !.op = op, !.stage = "in"]]
            /\ core.call.op = "none"
            /\ op = "prepare" => core.run = "down"
            /\ op = "teardown" => core.run = "failed" \/ \A s \in Slot : ~core.alive[s]
    BY Zenon DEF CallPrepare, CallTeardown
  <1> DEFINE call == [Idle EXCEPT !.op = op, !.stage = "in"]
  <1>2. CoreTyped(core) /\ (core.run = "failed" => \A s \in Slot : ~core.alive[s])
    BY Zenon DEF CoreInv, SlotsSound
  <1>3. call \in Calls /\ call.op = op /\ call.slot = NoSlot /\ call.stage = "in"
    BY Zenon DEF Idle, Calls, SlotOps, Hosts
  <1> HIDE DEF call
  <1>4. core' = [core EXCEPT !.call = call]
    BY <1>1, Zenon DEF call
  <1>5. Announced(core, core', call) /\ core'.runnable = core.runnable
    BY <1>2, <1>4, Zenon DEF Announced, CoreTyped, CoreRecord
  <1> QED
    BY <1>1, <1>2, <1>3, <1>5, AnnounceKeeps, Zenon

-----------------------------------------------------------------------------
\* After a callback lxp_lifecycle_apply changes the record of its slot only:
\* the host state, the runnable capability and what the slot is waiting for.
Recorded(c, d, s, h, r, w, call) ==
    /\ CoreRecord(d) /\ d.call = call
    /\ d.host = [c.host EXCEPT ![s] = h]
    /\ d.runnable = [c.runnable EXCEPT ![s] = r]
    /\ d.want = [c.want EXCEPT ![s] = w]
    /\ d.gen = c.gen /\ d.bound = c.bound /\ d.alive = c.alive /\ d.mm = c.mm
    /\ d.mms = c.mms /\ d.leases = c.leases /\ d.pos = c.pos /\ d.map = c.map /\ d.run = c.run

\* The states the core expects of a slot it has recorded as h.
Of(h) == CASE h = "free" -> {"none"}
           [] h = "running" -> {"live"}
           [] h = "parked" -> {"parked"}
           [] OTHER -> {"none", "live", "parked"}

\* The call the core moves on to: none, or the abort of the same slot.
Follow(c, s, call) ==
    /\ call \in Calls
    /\ \/ call.op = "none" /\ call.slot = NoSlot /\ call.stage = "out"
       \/ call.op = "abort" /\ call.slot = s /\ call.stage = "in" /\ call.gen = c.gen[s]

\* Recording what a callback reported keeps the invariant.
LEMMA RecordedKeeps ==
    ASSUME CoreInv(core), core.call.op \in SlotOps, core.call.stage = "out",
           NEW s \in Slot, s = core.call.slot, NEW h \in Hosts, NEW r \in BOOLEAN,
           NEW w \in {"none", "park", "exit"}, NEW call \in Calls,
           Recorded(core, core', s, h, r, w, call), Follow(core, s, call),
           h = "running" => r, h \in {"free", "parked"} => ~r,
           Expected(core, s) \subseteq Of(h),
           h = "failed" => core.host[s] = "failed" \/ (core.call.op = "abort" /\ ~core.call.rc),
           NoneFailed(core) /\ Condemned(core, s) => h = "running" /\ w = "exit"
    PROVE  Keeps(core, core')
  <1>1. CoreTyped(core) /\ core.alive[s] /\ core.run = "up" /\ \A t \in Slot : t # NoSlot
    BY DEF CoreInv, CallSound, Slot, NoSlot
  <1>2. /\ core'.call = call
        /\ call.op \in {"none", "abort"} /\ (call.op = "none" <=> call.slot = NoSlot)
        /\ call.op = "none" => call.stage = "out"
        /\ call.op = "abort" => call.slot = s /\ call.stage = "in" /\ call.gen = core.gen[s]
    BY <1>1 DEF Follow, Recorded
  <1>3. CoreTyped(core)'
    BY <1>1 DEF CoreTyped, Recorded
  <1>4. CallSound(core)'
    BY <1>1, <1>2, SMTT(30) DEF CallSound, SlotOps, Creates, Recorded
  <1>5. SlotsSound(core)'
    BY <1>1, <1>2 DEF CoreInv, SlotsSound, CoreTyped, Recorded
  <1>6. MmsSound(core)'
    BY <1>2, Zenon DEF MmsSound
  <1>7. \A t \in Slot : MmOf(core', t) = MmOf(core, t)
    BY Zenon DEF MmOf, Recorded
  <1>8. Kept(core, core')
    BY <1>1, <1>7 DEF Kept, CoreTyped, Recorded
  <1>9. \A t \in Slot : Expected(core, t) \subseteq Expected(core', t)
    <2> SUFFICES ASSUME NEW t \in Slot PROVE Expected(core, t) \subseteq Expected(core', t)
      BY Zenon
    <2>1. Expected(core', t) = Of(core'.host[t])
      BY <1>1, <1>2, Zenon DEF Expected, Of
    <2>2. CASE t = s
      BY <1>1, <2>1, <2>2 DEF Recorded, CoreTyped
    <2>3. CASE t # s
      <3>1. core'.host[t] = core.host[t]
        BY <1>1, <2>3, Zenon DEF Recorded, CoreTyped
      <3> QED
        BY <2>1, <2>3, <3>1, Zenon DEF Expected, Of
    <2> QED
      BY <2>2, <2>3, Zenon
  <1>10. core'.gen = core.gen /\ (NoneFailed(core) => NoneFailed(core'))
    BY <1>1, <1>2 DEF NoneFailed, Recorded, CoreTyped
  <1>11. ASSUME NoneFailed(core), NEW t \in Slot, Condemned(core, t) PROVE Condemned(core', t)
    <2>1. core'.host[t] = "running" /\ core'.want[t] = "exit"
      BY <1>1, <1>11 DEF Recorded, CoreTyped, Condemned
    <2> QED
      BY <1>9, <1>11, <2>1, ZenonT(60) DEF Condemned
  <1>12. core'.map = core.map /\ \A q \in Region : ~InLaunch(core', q)
    BY <1>2, Zenon DEF InLaunch, Recorded
  <1> QED
    BY <1>3, <1>4, <1>5, <1>6, <1>8, <1>9, <1>10, <1>11, <1>12, Zenon DEF CoreInv, Keeps

\* The end of a slot's native task: with it ends the slot's record, and the
\* mm unless the slot execs or shares it.
Ended(c, d, s, stays) ==
    /\ CoreRecord(d) /\ d.call = Idle
    /\ d.host = [c.host EXCEPT ![s] = "free"]
    /\ d.runnable = [c.runnable EXCEPT ![s] = FALSE]
    /\ d.alive = [c.alive EXCEPT ![s] = stays]
    /\ d.want = [c.want EXCEPT ![s] = "none"]
    /\ d.pos = [c.pos EXCEPT ![s] = "user"]
    /\ d.mm = [c.mm EXCEPT ![s] = IF stays THEN c.mm[s] ELSE 0]
    /\ d.mms = [c.mms EXCEPT ![c.mm[s]] = IF stays \/ Sharing(c, c.mm[s]) # {s}
                                          THEN c.mms[c.mm[s]] ELSE NoMm]
    /\ d.gen = c.gen /\ d.bound = c.bound /\ d.leases = c.leases /\ d.map = c.map /\ d.run = c.run

\* What Gone, the record of a guest that left, changes in any core state.
LEMMA GoneEnds ==
    ASSUME NEW c, CoreRecord(c), NEW s \in Slot, NEW d, d = Gone(c, s),
           NEW stays, stays = (c.call.fate = "exec")
    PROVE  Ended(c, d, s, stays)
  BY ZenonT(60) DEF Gone, Ended, CoreRecord

\* Freeing a slot whose task has ended, or keeping it for the next image,
\* keeps the invariant.
LEMMA GoneKeeps ==
    ASSUME CoreInv(core), core.call.op \in SlotOps, core.call.stage = "out",
           NEW s \in Slot, s = core.call.slot, Expected(core, s) = {"none"},
           NEW stays \in BOOLEAN, Ended(core, core', s, stays)
    PROVE  Keeps(core, core')
  <1> DEFINE m == IF stays THEN core.mm[s] ELSE 0
             image == IF stays \/ Sharing(core, core.mm[s]) # {s}
                      THEN core.mms[core.mm[s]] ELSE NoMm
  <1>0. CoreTyped(core) /\ core.alive[s] /\ core.run = "up" /\ \A t \in Slot : t # NoSlot
    BY DEF CoreInv, CallSound, Slot, NoSlot
  <1>1. /\ CoreTyped(core) /\ core.alive[s] /\ core.run = "up" /\ \A t \in Slot : t # NoSlot
        /\ core.mm[s] \in Slot
    BY <1>0, Zenon DEF CoreTyped
  <1>2. m \in Slot /\ image \in Mms
    <2>1. 0 \in Slot /\ 0 \in Region
      BY TableAssumption DEF Slot, Region
    <2>2. NoMm \in Mms
      BY <2>1, NoRanges DEF Mms, NoMm
    <2> QED
      BY <1>1, <2>1, <2>2, Zenon DEF CoreTyped
  <1>3. \A t \in Slot \ {s} : core.alive[t] /\ core.mm[t] = core.mm[s] =>
            image = core.mms[core.mm[s]]
    BY Zenon DEF Sharing
  <1>4. stays => m = core.mm[s] /\ image = core.mms[core.mm[s]]
    BY Zenon
  <1>6. /\ CoreRecord(core)'
        /\ core'.gen = core.gen /\ core'.bound = core.bound
        /\ core'.alive = [core.alive EXCEPT ![s] = stays]
        /\ core'.runnable = [core.runnable EXCEPT ![s] = FALSE]
        /\ core'.host = [core.host EXCEPT ![s] = "free"]
        /\ core'.mm = [core.mm EXCEPT ![s] = m]
        /\ core'.mms = [core.mms EXCEPT ![core.mm[s]] = image]
        /\ core'.leases = core.leases
        /\ core'.pos = [core.pos EXCEPT ![s] = "user"]
        /\ core'.want = [core.want EXCEPT ![s] = "none"]
        /\ core'.call = Idle /\ core'.map = core.map /\ core'.run = core.run
    BY Zenon DEF Ended
  <1> HIDE DEF m, image
  <1>7. /\ core'.call.op = "none" /\ core'.call.slot = NoSlot /\ core'.call.stage = "out"
        /\ core'.call \in Calls
    BY <1>6 DEF Idle, Calls, SlotOps, Hosts
  <1>8. CoreTyped(core)'
    BY <1>1, <1>2, <1>6, <1>7 DEF CoreTyped, Hosts
  <1>9. CallSound(core)'
    BY <1>7, ZenonT(60) DEF CallSound, SlotOps, Creates
  <1>10. SlotsSound(core)'
    BY <1>1, <1>6, <1>7 DEF CoreInv, SlotsSound, CoreTyped, Hosts
  <1>11. MmsSound(core)'
    BY <1>7, ZenonT(60) DEF MmsSound
  <1>12. \A t \in Slot : core'.alive[t] => core.alive[t] /\ MmOf(core', t) = MmOf(core, t)
    BY <1>1, <1>3, <1>4, <1>6 DEF MmOf, CoreTyped
  <1>13. Kept(core, core')
    BY <1>1, <1>6, <1>12 DEF Kept, CoreTyped
  <1>14. \A t \in Slot : Expected(core, t) \subseteq Expected(core', t)
    <2> SUFFICES ASSUME NEW t \in Slot PROVE Expected(core, t) \subseteq Expected(core', t)
      BY Zenon
    <2>1. Expected(core', t) = Of(core'.host[t])
      BY <1>1, <1>7, Zenon DEF Expected, Of
    <2>2. CASE t = s
      BY <1>1, <1>6, <2>1, <2>2, ZenonT(60) DEF CoreTyped, Of
    <2>3. CASE t # s
      <3>1. core'.host[t] = core.host[t]
        BY <1>1, <1>6, <2>3 DEF CoreTyped
      <3> QED
        BY <2>1, <2>3, <3>1, Zenon DEF Expected, Of
    <2> QED
      BY <2>2, <2>3, Zenon
  <1>15. NoneFailed(core) => NoneFailed(core')
    BY <1>1, <1>6, <1>7 DEF NoneFailed, CoreTyped
  <1>16. ASSUME NEW t \in Slot, Condemned(core, t) PROVE Condemned(core', t)
    <2>1. t # s
      BY <1>16 DEF Condemned
    <2>2. core'.host[t] = core.host[t] /\ core'.want[t] = core.want[t]
      BY <1>1, <1>6, <2>1 DEF CoreTyped
    <2> QED
      BY <1>14, <1>16, <2>2, Zenon DEF Condemned
  <1>17. \A q \in Region : ~InLaunch(core', q)
    BY <1>7, Zenon DEF InLaunch
  <1> QED
    BY <1>6, <1>8, <1>9, <1>10, <1>11, <1>13, <1>14, <1>15, <1>16, <1>17, Zenon DEF CoreInv, Keeps

\* The coordinator takes the outcome of a callback: lxp_lifecycle_apply.
LEMMA ReturnsKeeps == ASSUME CoreInv(core), CallReturns PROVE Keeps(core, core')
  <1> DEFINE s == core.call.slot
             op == core.call.op
             rc == core.call.rc
  <1>1. /\ CoreTyped(core) /\ core.call.stage = "out" /\ core.call \in Calls
        /\ op \in SlotOps \cup {"prepare", "teardown"}
        /\ op \in SlotOps <=> s # NoSlot
        /\ rc \in BOOLEAN /\ s \in Slot \cup {NoSlot}
    BY Zenon DEF CoreInv, CoreTyped, CallReturns, CallSound, Calls
  <1>2. ASSUME op \in SlotOps
        PROVE  /\ s \in Slot /\ core.alive[s] /\ core.gen[s] \in Nat /\ core.host[s] \in Hosts
               /\ op \in Creates => core.host[s] = "free" /\ core.runnable[s]
               /\ op = "resume" => core.host[s] = "parked" /\ core.runnable[s]
               /\ op = "park" => core.host[s] = "running" /\ core.runnable[s]
               /\ rc => Expected(core, s) = IF op = "abort" THEN {"none"}
                                             ELSE IF op = "park" THEN {"parked"} ELSE {"live"}
               /\ ~rc => Expected(core, s) = Of(core.host[s])
    <2>1. s \in Slot
      BY <1>1, <1>2, Zenon
    <2>2. rc => Expected(core, s) = IF op = "abort" THEN {"none"}
                                    ELSE IF op = "park" THEN {"parked"} ELSE {"live"}
      BY <1>1, Zenon DEF Expected
    <2>3. ~rc => Expected(core, s) = Of(core.host[s])
      BY <1>1, Zenon DEF Expected, Of
    <2>4. core.gen[s] \in Nat /\ core.host[s] \in Hosts
      BY <1>1, <2>1, Zenon DEF CoreTyped
    <2>5. /\ core.alive[s]
          /\ op \in Creates => core.host[s] = "free" /\ core.runnable[s]
          /\ op = "resume" => core.host[s] = "parked" /\ core.runnable[s]
          /\ op = "park" => core.host[s] = "running" /\ core.runnable[s]
      BY <1>2, <2>1, Zenon DEF CoreInv, CallSound, SlotsSound
    <2> QED
      BY <2>1, <2>2, <2>3, <2>4, <2>5, Zenon
  <1>3. Idle \in Calls /\ Follow(core, s, Idle)
    BY Zenon DEF Idle, Calls, Follow, SlotOps, Hosts
  <1>4. ASSUME NEW old \in Hosts, op \in SlotOps
        PROVE  LET k == [Idle EXCEPT !.op = "abort", !.slot = s, !.gen = core.gen[s],
                                     !.stage = "in", !.old = old]
               IN  k \in Calls /\ Follow(core, s, k)
    BY <1>2, <1>4, Zenon DEF Idle, Calls, Follow, SlotOps, Hosts
  <1>5. core.call.old \in Hosts
    BY <1>1, Zenon DEF Calls
  <1> USE DEF SlotOps
  <1>6. CASE op = "abort" /\ rc
    <2> DEFINE stays == core.call.fate = "exec"
    <2>1. core' = Gone(core, s)
      BY <1>6, Zenon DEF CallReturns, lxp_lifecycle_apply
    <2>2. Ended(core, core', s, stays)
      <3>1. CoreRecord(core) /\ s \in Slot
        BY <1>1, <1>2, <1>6, ZenonT(30) DEF CoreTyped
      <3> QED
        BY <2>1, <3>1, GoneEnds, Zenon
    <2> QED
      BY <1>1, <1>2, <1>6, <2>2, GoneKeeps, Zenon
  <1>7. CASE op = "abort" /\ ~rc
    <2>1. core' = [core EXCEPT !.host[s] = "failed", !.runnable[s] = core.call.old = "running",
                               !.want[s] = "exit", !.call = Idle]
      BY <1>7, Zenon DEF CallReturns, lxp_lifecycle_apply
    <2>2. Recorded(core, core', s, "failed", core.call.old = "running", "exit", Idle)
      BY <1>1, <2>1, Zenon DEF Recorded, CoreTyped, CoreRecord
    <2>3. Expected(core, s) \subseteq Of("failed")
      BY <1>2, <1>7, Zenon DEF Of
    <2>4. ~NoneFailed(core)
      BY <1>1, <1>7, Zenon DEF NoneFailed
    <2> QED
      BY <1>1, <1>2, <1>3, <1>7, <2>2, <2>3, <2>4, RecordedKeeps, ZenonT(60) DEF Hosts
  <1>8. CASE op = "park" /\ rc
    <2> DEFINE w == IF core.want[s] = "park" THEN "none" ELSE core.want[s]
    <2>1. core' = [core EXCEPT !.host[s] = "parked", !.runnable[s] = FALSE, !.want[s] = w,
                               !.call = Idle]
      BY <1>1, <1>8, Zenon DEF CallReturns, lxp_lifecycle_apply, CoreTyped, CoreRecord
    <2>2. w \in {"none", "park", "exit"}
      BY <1>1, <1>2, <1>8, Zenon DEF CoreTyped
    <2> HIDE DEF w
    <2>3. Recorded(core, core', s, "parked", FALSE, w, Idle)
      BY <1>1, <2>1, Zenon DEF Recorded, CoreTyped, CoreRecord
    <2>4. Expected(core, s) \subseteq Of("parked")
      BY <1>2, <1>8, Zenon DEF Of
    <2>5. ~Condemned(core, s)
      BY <1>2, <1>8 DEF Condemned
    <2> QED
      BY <1>1, <1>2, <1>3, <1>8, <2>2, <2>3, <2>4, <2>5, RecordedKeeps, ZenonT(60) DEF Hosts
  <1>9. CASE op = "park" /\ ~rc
    <2> DEFINE k == [Idle EXCEPT !.op = "abort", !.slot = s, !.gen = core.gen[s],
                                 !.stage = "in", !.old = "running"]
    <2>1. core' = [core EXCEPT !.call = k]
      BY <1>9, Zenon DEF CallReturns, lxp_lifecycle_apply, AbortNext
    <2>2. k \in Calls /\ Follow(core, s, k)
      BY <1>4, <1>9, Zenon DEF Hosts
    <2> HIDE DEF k
    <2>3. core.host[s] = "running" /\ core.runnable[s] /\ s \in Slot
          /\ Expected(core, s) \subseteq Of("running")
      BY <1>2, <1>9, Zenon
    <2>4. core.want[s] \in {"none", "park", "exit"}
      BY <1>1, <2>3, Zenon DEF CoreTyped
    <2>5. Recorded(core, core', s, "running", TRUE, core.want[s], k)
      BY <1>1, <2>1, <2>3, ZenonT(60) DEF Recorded, CoreTyped, CoreRecord
    <2>6. Condemned(core, s) => core.want[s] = "exit"
      BY Zenon DEF Condemned
    <2> QED
      BY <1>1, <1>9, <2>2, <2>3, <2>4, <2>5, <2>6, RecordedKeeps, Zenon DEF Hosts
  <1>10. CASE op \in {"resume", "start"} /\ ~rc
    <2> DEFINE k == [Idle EXCEPT !.op = "abort", !.slot = s, !.gen = core.gen[s],
                                 !.stage = "in", !.old = core.call.old]
    <2>1. core' = [[core EXCEPT !.runnable[s] = FALSE, !.want[s] = "exit"] EXCEPT !.call =
                       [Idle EXCEPT !.op = "abort", !.slot = s,
                                    !.gen = [core EXCEPT !.runnable[s] = FALSE,
                                                         !.want[s] = "exit"].gen[s],
                                    !.stage = "in", !.old = core.call.old]]
      BY <1>10, Zenon DEF CallReturns, lxp_lifecycle_apply, AbortNext
    <2>2. core' = [core EXCEPT !.runnable[s] = FALSE, !.want[s] = "exit", !.call = k]
      BY <1>1, <2>1, Zenon DEF CoreTyped, CoreRecord
    <2>3. k \in Calls /\ Follow(core, s, k)
      BY <1>4, <1>5, <1>10, Zenon
    <2> HIDE DEF k
    <2>4. Recorded(core, core', s, core.host[s], FALSE, "exit", k)
      BY <1>1, <1>2, <1>10, <2>2, Zenon DEF Recorded, CoreTyped, CoreRecord
    <2>5. ~Condemned(core, s)
      BY <1>2, <1>10, Zenon DEF Condemned, Creates
    <2> QED
      BY <1>1, <1>2, <1>10, <2>3, <2>4, <2>5, RecordedKeeps, ZenonT(60) DEF Creates
  <1>11. CASE op = "launch" /\ ~rc
    <2> DEFINE c == [core EXCEPT !.call.fate = "exit"]
    <2>1. core' = Gone(c, s)
      BY <1>11, Zenon DEF CallReturns, lxp_lifecycle_apply
    <2>0. c = [core EXCEPT !.call = [core.call EXCEPT !.fate = "exit"]] /\ c.call.fate = "exit"
      BY <1>1, Zenon DEF CoreTyped, CoreRecord, Calls
    <2> HIDE DEF c
    <2>2. /\ CoreRecord(c) /\ c.gen = core.gen /\ c.bound = core.bound /\ c.alive = core.alive
          /\ c.runnable = core.runnable /\ c.host = core.host /\ c.mm = core.mm
          /\ c.mms = core.mms /\ c.leases = core.leases /\ c.pos = core.pos
          /\ c.want = core.want /\ c.map = core.map /\ c.run = core.run
      BY <1>1, <2>0, ZenonT(30) DEF CoreTyped, CoreRecord
    <2>3. Sharing(c, c.mm[s]) = Sharing(core, core.mm[s])
      BY <2>2, Zenon DEF Sharing
    <2>4. Ended(core, core', s, FALSE)
      <3>1. s \in Slot /\ FALSE = (c.call.fate = "exec")
        BY <1>2, <1>11, <2>0, Zenon
      <3>2. Ended(c, core', s, FALSE)
        BY <2>1, <2>2, <3>1, GoneEnds, Zenon
      <3> QED
        BY <2>2, <2>3, <3>2, ZenonT(30) DEF Ended
    <2>5. Expected(core, s) = {"none"}
      BY <1>2, <1>11, Zenon DEF Of, Creates
    <2> QED
      BY <1>1, <1>2, <1>11, <2>4, <2>5, GoneKeeps, Zenon
  <1>12. CASE op \in {"prepare", "teardown"}
    <2>1. PICK r \in {"down", "up", "failed"} : core' = [core EXCEPT !.run = r, !.call = Idle]
      BY <1>12, Zenon DEF CallReturns, lxp_lifecycle_apply
    <2>2. s = NoSlot /\ (\A t \in Slot : ~core.alive[t]) /\ \A t \in Slot : t # NoSlot
      BY <1>1, <1>12 DEF CoreInv, CallSound, SlotsSound, Slot, NoSlot
    <2>3. /\ CoreRecord(core)' /\ core'.call = Idle /\ core'.run = r
          /\ core'.gen = core.gen /\ core'.bound = core.bound /\ core'.alive = core.alive
          /\ core'.runnable = core.runnable /\ core'.host = core.host /\ core'.mm = core.mm
          /\ core'.mms = core.mms /\ core'.leases = core.leases /\ core'.pos = core.pos
          /\ core'.want = core.want /\ core'.map = core.map
      BY <1>1, <2>1, Zenon DEF CoreTyped, CoreRecord
    <2>4. core'.call.op = "none" /\ core'.call.slot = NoSlot /\ core'.call.stage = "out"
      BY <2>3 DEF Idle
    <2>5. CoreTyped(core)'
      BY <1>1, <1>3, <2>3, Zenon DEF CoreTyped
    <2>6. CallSound(core)' /\ MmsSound(core)'
      BY <2>4, Zenon DEF CallSound, MmsSound, Creates
    <2>7. SlotsSound(core)'
      BY <2>2, <2>3, <2>4 DEF CoreInv, SlotsSound
    <2>8. Kept(core, core')
      BY <1>1, <2>3 DEF Kept, MmOf, CoreTyped
    <2>9. \A t \in Slot : Expected(core, t) \subseteq Expected(core', t)
      BY <2>2, <2>3, <2>4, ZenonT(60) DEF Expected
    <2>10. NoneFailed(core) => NoneFailed(core')
      BY <2>3, <2>4, Zenon DEF NoneFailed
    <2>11. \A t \in Slot : Condemned(core, t) => Condemned(core', t)
      BY <2>3, <2>9, Zenon DEF Condemned
    <2>12. \A q \in Region : ~InLaunch(core', q)
      BY <2>4, Zenon DEF InLaunch
    <2> QED
      BY <2>3, <2>5, <2>6, <2>7, <2>8, <2>9, <2>10, <2>11, <2>12, Zenon DEF CoreInv, Keeps
  <1>13. CASE op \in {"launch", "start", "resume"} /\ rc
    <2>1. core' = [core EXCEPT !.host[s] = "running", !.call = Idle]
      BY <1>13, Zenon DEF CallReturns, lxp_lifecycle_apply
    <2>2. Recorded(core, core', s, "running", core.runnable[s], core.want[s], Idle)
      BY <1>1, <1>2, <1>13, <2>1, ZenonT(60) DEF Recorded, CoreTyped, CoreRecord
    <2>3. Expected(core, s) \subseteq Of("running")
      BY <1>2, <1>13, Zenon DEF Of
    <2>4. core.runnable[s] /\ core.want[s] \in {"none", "park", "exit"}
      BY <1>1, <1>2, <1>13, Zenon DEF CoreTyped, Creates
    <2>5. ~Condemned(core, s)
      BY <1>2, <1>13, Zenon DEF Condemned, Creates
    <2> QED
      BY <1>1, <1>2, <1>3, <1>13, <2>2, <2>3, <2>4, <2>5, RecordedKeeps, ZenonT(60) DEF Hosts
  <1> QED
    BY <1>1, <1>6, <1>7, <1>8, <1>9, <1>10, <1>11, <1>12, <1>13, Zenon

\* Every step of the coordinator between two callbacks, and that it takes one
\* only when no callback is under way.
LEMMA CoordinatorKeeps ==
    ASSUME CoreInv(core), CoordinatorStep
    PROVE  Keeps(core, core') /\ core.call.stage = "out"
  <1>1. core.bound.texts \subseteq BOOLEAN /\ core.bound.shares \subseteq BOOLEAN
    BY Zenon DEF CoreInv, CoreTyped, Bounds
  <1>2. core.call.stage = "out"
    <2>1. \A s \in Slot, r \in Region, text \in core.bound.texts :
              CallLaunch(s, r, text) => core.call.op = "none"
      BY DEF CallLaunch, Ready
    <2>2. \A s, p \in Slot, shared \in core.bound.shares :
              CallStart(s, p, shared) => core.call.op = "none"
      BY DEF CallStart, Ready
    <2>3. \A s \in Slot : CallResume(s) \/ CallPark(s) => core.call.op = "none"
      BY Zenon DEF CallResume, CallPark, Ready
    <2>4. \A s \in Slot, fate \in {"exit", "exec"} : CallAbort(s, fate) => core.call.op = "none"
      BY Zenon DEF CallAbort, Ready
    <2>5. CallPrepare \/ CallTeardown => core.call.op = "none"
      BY Zenon DEF CallPrepare, CallTeardown
    <2>6. CallReturns => core.call.stage = "out"
      BY Zenon DEF CallReturns
    <2>7. core.call.op = "none" => core.call.stage = "out"
      BY Zenon DEF CoreInv, CallSound
    <2> QED
      BY <2>1, <2>2, <2>3, <2>4, <2>5, <2>6, <2>7, ZenonT(60) DEF CoordinatorStep
  <1>3. Keeps(core, core')
    BY <1>1, LaunchKeeps, StartKeeps, ResumeKeeps, ParkKeeps, AbortKeeps, BracketKeeps,
       ReturnsKeeps, Zenon DEF CoordinatorStep
  <1> QED
    BY <1>2, <1>3, Zenon

-----------------------------------------------------------------------------
\* What a callback of a port does to the core: it answers the call, and may
\* rewrite the position of the guest it resumes.
Replied(c, d, rc) ==
    /\ CoreRecord(d) /\ d.call = [c.call EXCEPT !.stage = "out", !.rc = rc]
    /\ d.gen = c.gen /\ d.bound = c.bound /\ d.alive = c.alive /\ d.host = c.host
    /\ d.runnable = c.runnable /\ d.mm = c.mm /\ d.mms = c.mms /\ d.leases = c.leases
    /\ d.want = c.want /\ d.map = c.map /\ d.run = c.run
    /\ d.pos \in [Slot -> {"user", "entry"}]

\* The two ways a callback answers.
LEMMA AnsweredReplies ==
    ASSUME CoreTyped(core), NEW rc \in BOOLEAN, core' = Answered(core, rc)
    PROVE  Replied(core, core', rc) /\ core'.pos = core.pos
  <1>1. core' = [core EXCEPT !.call = [core.call EXCEPT !.stage = "out", !.rc = rc]]
    BY Zenon DEF Answered, CoreTyped, CoreRecord, Calls
  <1> QED
    BY <1>1, Zenon DEF Replied, CoreTyped, CoreRecord

\* A successful resume answers the call and takes the guest back to its program.
LEMMA ResumedReplies ==
    ASSUME CoreTyped(core), NEW s \in Slot, core' = [Answered(core, TRUE) EXCEPT !.pos[s] = "user"]
    PROVE  Replied(core, core', TRUE)
  <1>1. core' = [core EXCEPT !.call = [core.call EXCEPT !.stage = "out", !.rc = TRUE],
                             !.pos[s] = "user"]
    BY Zenon DEF Answered, CoreTyped, CoreRecord, Calls
  <1>2. [core.pos EXCEPT ![s] = "user"] \in [Slot -> {"user", "entry"}]
    BY Zenon DEF CoreTyped
  <1> DEFINE p == [core.pos EXCEPT ![s] = "user"]
             k == [core.call EXCEPT !.stage = "out", !.rc = TRUE]
  <1>3. core' = [core EXCEPT !.call = k, !.pos = p]
    BY <1>1, Zenon DEF CoreTyped, CoreRecord
  <1> HIDE DEF p, k
  <1>4. /\ CoreRecord(core)' /\ core'.call = k /\ core'.pos = p
        /\ core'.gen = core.gen /\ core'.bound = core.bound /\ core'.alive = core.alive
        /\ core'.host = core.host /\ core'.runnable = core.runnable /\ core'.mm = core.mm
        /\ core'.mms = core.mms /\ core'.leases = core.leases /\ core'.want = core.want
        /\ core'.map = core.map /\ core'.run = core.run
    BY <1>3, ZenonT(60) DEF CoreTyped, CoreRecord
  <1> QED
    BY <1>2, <1>4, Zenon DEF Replied, p, k

\* An answer of the port changes nothing but the call.
LEMMA ReplyKeeps ==
    ASSUME CoreInv(core), NEW rc \in BOOLEAN, Replied(core, core', rc),
           core.call.op # "none"
    PROVE  /\ CoreInv(core)' /\ Kept(core, core')
           /\ \A t \in Slot : MmOf(core', t) = MmOf(core, t)
           /\ core'.call.op = core.call.op /\ core'.call.slot = core.call.slot
           /\ core'.call.gen = core.call.gen /\ core'.call.stage = "out" /\ core'.call.rc = rc
  <1>1. /\ CoreTyped(core)
        /\ core'.call \in Calls
        /\ core'.call.op = core.call.op /\ core'.call.slot = core.call.slot
        /\ core'.call.gen = core.call.gen /\ core'.call.stage = "out" /\ core'.call.rc = rc
    BY ZenonT(60) DEF CoreInv, CoreTyped, Replied, Calls
  <1>2. CoreTyped(core)'
    BY <1>1, ZenonT(60) DEF CoreTyped, Replied
  <1>3. CallSound(core)'
    BY <1>1 DEF CoreInv, CallSound, Replied
  <1>4. SlotsSound(core)'
    BY <1>1 DEF CoreInv, SlotsSound, Replied
  <1>5. MmsSound(core)'
    BY <1>1, Zenon DEF MmsSound
  <1>6. \A t \in Slot : MmOf(core', t) = MmOf(core, t)
    BY Zenon DEF MmOf, Replied
  <1>7. Kept(core, core')
    BY <1>1, <1>6 DEF Kept, CoreTyped, Replied
  <1> QED
    BY <1>1, <1>2, <1>3, <1>4, <1>5, <1>6, <1>7, Zenon DEF CoreInv

\* A callback keeps the agreement when it serves its slot and no other.
LEMMA ReplyFollows ==
    ASSUME CoreInv(core), NEW rc \in BOOLEAN, Replied(core, core', rc),
           core.call.op \in SlotOps, core.call.stage = "in",
           NEW T, NEW U, Follows(T, core),
           U = IF rc THEN [T EXCEPT ![core.call.slot] = Served(core.call)] ELSE T
    PROVE  Follows(U, core')
  <1> DEFINE s == core.call.slot
  <1>1. /\ core'.call.op = core.call.op /\ core'.call.slot = s
        /\ core'.call.stage = "out" /\ core'.call.rc = rc /\ core'.host = core.host
        /\ core'.gen = core.gen
    BY ReplyKeeps, Zenon DEF Replied, SlotOps
  <1>2. s \in Slot /\ core.call.gen = core.gen[s]
    BY Zenon DEF CoreInv, CallSound, CoreTyped, Calls
  <1>3. T = [t \in Slot |-> T[t]]
    BY Zenon DEF Follows
  <1>4. U = [t \in Slot |-> U[t]]
    BY <1>3, Zenon
  <1>5. ASSUME NEW t \in Slot
        PROVE  /\ U[t].state \in Expected(core', t)
               /\ \/ U[t] = Nobody
                  \/ \E x \in {"live", "parked"} : U[t] = [state |-> x, gen |-> core'.gen[t]]
    <2>1. /\ T[t].state \in Expected(core, t)
          /\ \/ T[t] = Nobody
             \/ \E x \in {"live", "parked"} : T[t] = [state |-> x, gen |-> core.gen[t]]
      BY Zenon DEF Follows
    <2>2. CASE t # s \/ ~rc
      <3>1. U[t] = T[t]
        BY <1>3, <2>2, Zenon
      <3>2. Expected(core', t) = Expected(core, t)
        BY <1>1, <2>2, Zenon DEF Expected
      <3> QED
        BY <1>1, <2>1, <3>1, <3>2, Zenon
    <2>3. CASE t = s /\ rc
      <3>1. U[t] = Served(core.call)
        BY <1>2, <1>3, <2>3, Zenon
      <3>2. Expected(core', t) = {Served(core.call).state}
        BY <1>1, <2>3, Zenon DEF Expected, Served, Nobody
      <3>3. Served(core.call) = Nobody
            \/ \E x \in {"live", "parked"} : Served(core.call) = [state |-> x, gen |-> core'.gen[t]]
        BY <1>1, <1>2, <2>3, ZenonT(60) DEF Served
      <3> QED
        BY <3>1, <3>2, <3>3, Zenon
    <2> QED
      BY <2>2, <2>3, Zenon
  <1> QED
    BY <1>4, <1>5, Zenon DEF Follows

\* So does a callback of the run bracket, which touches no task.
LEMMA BracketFollows ==
    ASSUME CoreInv(core), NEW rc \in BOOLEAN, Replied(core, core', rc),
           core.call.op \in {"prepare", "teardown"}, NEW T, Follows(T, core)
    PROVE  Follows(T, core') /\ \A t \in Slot : T[t] = Nobody
  <1>1. /\ core'.call.slot = core.call.slot /\ core.call.slot = NoSlot
        /\ core'.host = core.host /\ core'.gen = core.gen
        /\ \A t \in Slot : t # NoSlot /\ core.host[t] = "free"
    <2>1. core'.call.slot = core.call.slot /\ core'.host = core.host /\ core'.gen = core.gen
      BY ReplyKeeps, ZenonT(60) DEF Replied
    <2>2. core.call.slot = NoSlot /\ \A t \in Slot : t # NoSlot
      BY DEF CoreInv, CallSound, SlotOps, Slot, NoSlot
    <2>3. \A t \in Slot : ~core.alive[t]
      BY Zenon DEF CoreInv, CallSound, SlotsSound
    <2>4. \A t \in Slot : core.host[t] = "free"
      BY <2>3, Zenon DEF CoreInv, SlotsSound
    <2> QED
      BY <2>1, <2>2, <2>4, Zenon
  <1>2. \A t \in Slot : Expected(core, t) = {"none"} /\ Expected(core', t) = {"none"}
    BY <1>1, ZenonT(60) DEF Expected
  <1>3. \A t \in Slot : T[t] = Nobody
    BY <1>2 DEF Follows
  <1> QED
    BY <1>1, <1>2, <1>3 DEF Follows, Nobody

\* What a guest does to the core: it asks for something and moves.
Touched(c, d) ==
    /\ CoreRecord(d) /\ d.call = c.call
    /\ d.gen = c.gen /\ d.bound = c.bound /\ d.alive = c.alive /\ d.host = c.host
    /\ d.runnable = c.runnable /\ d.mm = c.mm /\ d.mms = c.mms /\ d.leases = c.leases
    /\ d.map = c.map /\ d.run = c.run
    /\ d.pos \in [Slot -> {"user", "entry"}] /\ d.want \in [Slot -> {"none", "park", "exit"}]
    /\ \A t \in Slot : c.want[t] = "exit" => d.want[t] = "exit"

\* What guests do between callbacks keeps the invariant and every address space.
LEMMA TouchKeeps ==
    ASSUME CoreInv(core), Touched(core, core'), core.call.stage = "out"
    PROVE  /\ Keeps(core, core')
           /\ \A t \in Slot : MmOf(core', t) = MmOf(core, t)
  <1>1. CoreTyped(core)
    BY Zenon DEF CoreInv
  <1>2. CoreTyped(core)'
    BY <1>1, Zenon DEF CoreTyped, Touched
  <1>3. CallSound(core)' /\ SlotsSound(core)' /\ MmsSound(core)'
    BY DEF CoreInv, CallSound, SlotsSound, MmsSound, Touched
  <1>4. \A t \in Slot : MmOf(core', t) = MmOf(core, t)
    BY ZenonT(60) DEF MmOf, Touched
  <1>5. Kept(core, core')
    BY <1>1, <1>4 DEF Kept, CoreTyped, Touched
  <1>6. \A t \in Slot : Expected(core, t) \subseteq Expected(core', t)
    BY ZenonT(60) DEF Expected, Touched
  <1>7. core'.gen = core.gen /\ (NoneFailed(core) => NoneFailed(core'))
    BY DEF NoneFailed, Touched
  <1>8. \A t \in Slot : Condemned(core, t) => Condemned(core', t)
    BY <1>6, Zenon DEF Condemned, Touched
  <1>9. core'.map = core.map /\ \A q \in Region : ~InLaunch(core', q)
    BY Zenon DEF InLaunch, Touched
  <1> QED
    BY <1>2, <1>3, <1>4, <1>5, <1>6, <1>7, <1>8, <1>9, Zenon DEF CoreInv, Keeps

\* The core standing still keeps everything.
LEMMA StillKeeps ==
    ASSUME CoreInv(core), core' = core
    PROVE  Keeps(core, core')
  <1>1. /\ \A r \in Region : core.leases[r] \in Nat
        /\ \A t \in Slot : core.gen[t] \in Nat
    BY Zenon DEF CoreInv, CoreTyped
  <1>2. Kept(core, core')
    BY <1>1 DEF Kept
  <1> QED
    BY <1>2, Zenon DEF Keeps

\* The trap, the fault and the way out of the park entry touch no more.
LEMMA GuestTouches ==
    ASSUME CoreTyped(core), NEW s \in Slot, NEW g, NEW outcome \in {"fast", "park", "exit"},
           \/ core' = lxp_dispatch_slot(core, s, g, outcome)
           \/ core' = Faulted(core, s, g)
           \/ core' = lxp_slot_report_memory_fault(core, s, g)
           \/ core' = [core EXCEPT !.pos[s] = "user"]
    PROVE  Touched(core, core')
  <1>1. \E w \in {"none", "park", "exit"}, p \in {"user", "entry"} :
            /\ core' = [core EXCEPT !.want[s] = w, !.pos[s] = p]
            /\ core.want[s] = "exit" => w = "exit"
    <2>1. core = [core EXCEPT !.want[s] = core.want[s], !.pos[s] = core.pos[s]]
          /\ core.want[s] \in {"none", "park", "exit"} /\ core.pos[s] \in {"user", "entry"}
      <3>1. /\ core.want[s] \in {"none", "park", "exit"} /\ core.pos[s] \in {"user", "entry"}
            /\ [core.want EXCEPT ![s] = core.want[s]] = core.want
            /\ [core.pos EXCEPT ![s] = core.pos[s]] = core.pos
        BY Zenon DEF CoreTyped
      <3>2. core = [core EXCEPT !.want = [core.want EXCEPT ![s] = core.want[s]],
                                !.pos = [core.pos EXCEPT ![s] = core.pos[s]]]
        BY <3>1, Zenon DEF CoreTyped, CoreRecord
      <3> QED
        BY <3>1, <3>2, Zenon
    <2>2. CASE core' = lxp_dispatch_slot(core, s, g, outcome)
      BY <2>1, <2>2, Zenon DEF lxp_dispatch_slot
    <2>3. CASE core' = [core EXCEPT !.pos[s] = "user"]
      <3>1. core' = [core EXCEPT !.want[s] = core.want[s], !.pos[s] = "user"]
        BY <2>3, Zenon DEF CoreTyped, CoreRecord
      <3> QED
        BY <2>1, <3>1, Zenon
    <2>4. CASE core' = lxp_slot_report_memory_fault(core, s, g)
      <3>1. [core EXCEPT !.want[s] = "exit"]
            = [core EXCEPT !.want[s] = "exit", !.pos[s] = core.pos[s]]
        BY ZenonT(60) DEF CoreTyped, CoreRecord
      <3> QED
        BY <2>1, <2>4, <3>1, Zenon DEF lxp_slot_report_memory_fault
    <2>5. CASE core' = Faulted(core, s, g)
      <3>1. [core EXCEPT !.pos[s] = "entry"]
            = [core EXCEPT !.want[s] = core.want[s], !.pos[s] = "entry"]
        BY ZenonT(60) DEF CoreTyped, CoreRecord
      <3> QED
        BY <2>1, <2>5, <3>1, Zenon DEF lxp_slot_report_memory_fault, Faulted
    <2> QED
      BY <2>2, <2>3, <2>4, <2>5, Zenon
  <1>2. PICK w \in {"none", "park", "exit"}, p \in {"user", "entry"} :
            /\ core' = [core EXCEPT !.want[s] = w, !.pos[s] = p]
            /\ core.want[s] = "exit" => w = "exit"
    BY <1>1, Zenon
  <1> QED
    BY <1>2, ZenonT(60) DEF Touched, CoreTyped, CoreRecord

\* A step of the coordinator or of a guest keeps the agreement.
LEMMA KeepsFollows ==
    ASSUME NEW c, NEW d, NEW T, Keeps(c, d), Follows(T, c)
    PROVE  Follows(T, d)
  <1>1. \A t \in Slot :
            /\ Expected(c, t) \subseteq Expected(d, t)
            /\ d.gen[t] # c.gen[t] => Expected(c, t) = {"none"}
    BY Zenon DEF Keeps
  <1>2. \A t \in Slot : T[t].state \in Expected(c, t)
    BY Zenon DEF Follows
  <1>3. \A t \in Slot : T[t] = Nobody \/ d.gen[t] = c.gen[t]
    BY <1>1 DEF Follows
  <1> QED
    BY <1>1, <1>2, <1>3, Zenon DEF Follows

\* An address space that is the same has the same policy key.
LEMMA SamePolicy ==
    ASSUME NEW c, NEW d, NEW s, NEW g, MmOf(c, s) = MmOf(d, s)
    PROVE  PolicyKey(Policy(c, s, g)) = PolicyKey(Policy(d, s, g))
           /\ AddressSpace(c, s) = AddressSpace(d, s)
  BY Zenon DEF PolicyKey, Policy, AddressSpace

\* A slot with a native task is alive, and runnable when the task may run.
LEMMA TaskAlive ==
    ASSUME NEW c, NEW T, NEW s \in Slot, CoreInv(c), Follows(T, c)
    PROVE  /\ T[s].state # "none" => c.alive[s]
           /\ T[s].state = "live" /\ NoneFailed(c) => c.runnable[s]
  <1>1. T[s].state \in Expected(c, s) /\ s # NoSlot
    BY DEF Follows, Slot, NoSlot
  <1>2. c.call.slot = s => c.call.op \in SlotOps /\ c.alive[s]
    BY <1>1, Zenon DEF CoreInv, CallSound
  <1>3. c.host[s] \in Hosts /\ (c.host[s] # "free" => c.alive[s])
        /\ (c.host[s] = "running" => c.runnable[s])
    BY ZenonT(60) DEF CoreInv, SlotsSound, CoreTyped
  <1>4. c.call.slot = s /\ c.call.op \in {"launch", "start", "resume"} => c.runnable[s]
    BY Zenon DEF CoreInv, CallSound, Creates
  <1> QED
    BY <1>1, <1>2, <1>3, <1>4, Zenon DEF Expected, NoneFailed, SlotOps, Hosts

\* A refused prepare may leave the port armed or not.
LEMMA PrepareFailsStep ==
    ASSUME NEW c, NEW d, NEW T, NEW A, NEW B, c.call.op = "prepare", Replies(c, d, FALSE)
    PROVE  PortStep(c, d, T, T, A, B)
  BY Zenon DEF PortStep

\* A callback that serves its slot: what the core keeps, and the contract.
LEMMA SlotReply ==
    ASSUME CoreInv(core), core.call.op \in SlotOps, core.call.stage = "in",
           NEW rc \in BOOLEAN, Replied(core, core', rc),
           NEW T, NEW U, Follows(T, core), NEW A,
           U = IF rc THEN [T EXCEPT ![core.call.slot] = Served(core.call)] ELSE T
    PROVE  /\ CoreInv(core') /\ Follows(U, core') /\ PortStep(core, core', T, U, A, A)
           /\ core'.call.op = core.call.op /\ core'.call.stage = "out"
           /\ core'.gen = core.gen /\ core'.alive = core.alive /\ core'.host = core.host
           /\ core'.runnable = core.runnable /\ core'.want = core.want
           /\ core'.leases = core.leases /\ core'.map = core.map
           /\ \A t \in Slot : MmOf(core', t) = MmOf(core, t)
           /\ NoneFailed(core) /\ (core.call.op = "abort" => rc) => NoneFailed(core')
  <1>1. /\ CoreInv(core') /\ \A t \in Slot : MmOf(core', t) = MmOf(core, t)
        /\ core'.call.op = core.call.op /\ core'.call.stage = "out" /\ core'.call.rc = rc
    BY ReplyKeeps, Zenon DEF SlotOps
  <1>2. /\ core'.gen = core.gen /\ core'.alive = core.alive /\ core'.host = core.host
        /\ core'.runnable = core.runnable /\ core'.want = core.want
        /\ core'.leases = core.leases /\ core'.map = core.map
    BY Zenon DEF Replied
  <1>3. Follows(U, core')
    BY ReplyFollows, Zenon
  <1>4. Replies(core, core', rc)
    BY Zenon DEF Replies, Replied
  <1>5. PortStep(core, core', T, U, A, A)
    <2>1. CASE rc
      <3>1. Replies(core, core', TRUE) /\ U = [T EXCEPT ![core.call.slot] = Served(core.call)]
        BY <1>4, <2>1, Zenon
      <3> QED
        BY <3>1, Zenon DEF PortStep
    <2>2. CASE ~rc
      <3>1. rc = FALSE /\ U = T
        BY <2>2, Zenon
      <3>2. Replies(core, core', FALSE)
        BY <1>4, <3>1, Zenon
      <3> QED
        BY <3>1, <3>2, Zenon DEF PortStep
    <2> QED
      BY <2>1, <2>2, Zenon
  <1>6. NoneFailed(core) /\ (core.call.op = "abort" => rc) => NoneFailed(core')
    BY <1>1, <1>2, ZenonT(60) DEF NoneFailed
  <1> QED
    BY <1>1, <1>2, <1>3, <1>5, <1>6, Zenon

\* prepare and teardown: nobody has a task, and the core keeps its state.
LEMMA BracketReply ==
    ASSUME CoreInv(core), core.call.op \in {"prepare", "teardown"}, core.call.stage = "in",
           NEW rc \in BOOLEAN, Replied(core, core', rc), NEW T, Follows(T, core), NEW A, NEW B,
           core.call.op = "prepare" /\ rc => B, core.call.op = "teardown" => rc /\ ~B
    PROVE  /\ CoreInv(core') /\ Follows(T, core') /\ PortStep(core, core', T, T, A, B)
           /\ \A t \in Slot : T[t] = Nobody
           /\ core'.call.op = core.call.op /\ core'.call.stage = "out"
           /\ core'.gen = core.gen /\ core'.alive = core.alive /\ core'.host = core.host
           /\ core'.runnable = core.runnable /\ core'.want = core.want
           /\ core'.leases = core.leases /\ core'.map = core.map
           /\ \A t \in Slot : MmOf(core', t) = MmOf(core, t)
           /\ NoneFailed(core) => NoneFailed(core')
  <1>1. /\ CoreInv(core') /\ \A t \in Slot : MmOf(core', t) = MmOf(core, t)
        /\ core'.call.op = core.call.op /\ core'.call.stage = "out" /\ core'.call.rc = rc
    BY ReplyKeeps, Zenon
  <1>2. /\ core'.gen = core.gen /\ core'.alive = core.alive /\ core'.host = core.host
        /\ core'.runnable = core.runnable /\ core'.want = core.want
        /\ core'.leases = core.leases /\ core'.map = core.map
    BY Zenon DEF Replied
  <1>3. Follows(T, core') /\ \A t \in Slot : T[t] = Nobody
    BY BracketFollows, Zenon
  <1>4. Replies(core, core', rc)
    BY Zenon DEF Replies, Replied
  <1>5. PortStep(core, core', T, T, A, B)
    <2>1. CASE core.call.op = "prepare" /\ rc
      <3>1. Replies(core, core', TRUE) /\ B
        BY <1>4, <2>1, Zenon
      <3> QED
        BY <2>1, <3>1, Zenon DEF PortStep
    <2>2. CASE core.call.op = "prepare" /\ ~rc
      <3>1. rc = FALSE
        BY <2>2, Zenon
      <3>2. Replies(core, core', FALSE)
        BY <1>4, <3>1, Zenon
      <3> QED
        BY <2>2, <3>2, PrepareFailsStep, Zenon
    <2>3. CASE core.call.op = "teardown"
      <3>1. Replies(core, core', TRUE) /\ ~B
        BY <1>4, <2>3, Zenon
      <3> QED
        BY <2>3, <3>1, Zenon DEF PortStep
    <2> QED
      BY <2>1, <2>2, <2>3, Zenon
  <1>6. NoneFailed(core) => NoneFailed(core')
    BY <1>1, <1>2, Zenon DEF NoneFailed
  <1> QED
    BY <1>1, <1>2, <1>3, <1>5, <1>6, Zenon

=============================================================================
