---------------------------- MODULE NuttxProofs -----------------------------
(***************************************************************************)
(* The NuttX port shows a guest on the CPU no dynamic MPU region or those  *)
(* of its own address space, and implements the contract of a port, for    *)
(* any number of slots and regions.                                        *)
(***************************************************************************)
EXTENDS NuttxPort, SeamProofs

\* The staged ranges of a slot are of different addresses.
Maps == {m \in [1..NDEV -> Devices \cup {NoDev}] : m[2] # NoDev => m[1].addr # m[2].addr}

\* The shape and the types of the port's state.
NxRecord(p) ==
    p = [pid |-> p.pid, gen |-> p.gen, maps |-> p.maps, profile |-> p.profile,
         installed |-> p.installed, mpu |-> p.mpu, nat |-> p.nat, queue |-> p.queue,
         budget |-> p.budget, cpu |-> p.cpu, irqs |-> p.irqs, ev |-> p.ev]

NxTyped(p) ==
    /\ NxRecord(p)
    /\ p.pid \in [Slot -> BOOLEAN] /\ p.gen \in [Slot -> Nat] /\ p.maps \in [Slot -> Maps]
    /\ p.nat \in [Slot -> {"none", "ready", "stopped"}]
    /\ p.profile = [s \in Slot |-> p.profile[s]]
    /\ p.queue \in Seq(Slot) /\ p.cpu \in Slot \cup {NoSlot}

\* A task exists exactly while the slot names one, and the ready list holds
\* ready tasks, each once.
Tasks(p) ==
    /\ \A s \in Slot : p.pid[s] <=> p.nat[s] # "none"
    /\ \A i \in 1..Len(p.queue) : p.nat[p.queue[i]] = "ready"
    /\ \A i, j \in 1..Len(p.queue) : p.queue[i] = p.queue[j] => i = j

\* Staged ranges are stored without a hole before them.
NoHoles(p) ==
    \A s \in Slot : p.maps[s][2] # NoDev => p.maps[s][1] # NoDev

\* The policy key of a live slot, the device maps it may be served with, and
\* the registers that serve it.
KeyOf(c, s) == PolicyKey(Policy(c, s, c.gen[s]))

Views(c, s) == {Restored(devs) : devs \in Granted(c, s)}

RegsOf(c, s) ==
    {[ridx |-> MmOf(c, s).ridx, rgen |-> MmOf(c, s).rgen, text |-> MmOf(c, s).text,
      devs |-> v] : v \in Views(c, s)}

\* A key that was made for a slot is not ahead of it: neither of its
\* incarnation nor, for the current one, of the ranges its mm has committed.
KeyOld(c, k, s) ==
    /\ k.gen \in Nat /\ k.gen <= c.gen[s]
    /\ c.alive[s] /\ k.gen = c.gen[s] =>
           k.space.dgen \in Nat /\ k.space.dgen <= MmOf(c, s).dgen

\* A compiled profile, and the installed regions, are those of the slot for as
\* long as their key is.
ProfilesSound(c, p) ==
    \A s \in Slot : p.profile[s].valid =>
        /\ KeyOld(c, p.profile[s].key, s)
        /\ c.alive[s] /\ p.profile[s].key = KeyOf(c, s) =>
               p.profile[s].devs \in Views(c, s)

InstalledSound(c, p) ==
    LET k == p.installed.key IN
    IF ~p.installed.valid THEN p.mpu = Off
    ELSE /\ k.slot \in Slot /\ KeyOld(c, k, k.slot)
         /\ c.alive[k.slot] /\ k = KeyOf(c, k.slot) => p.mpu \in RegsOf(c, k.slot)

\* A guest on the CPU is a ready task, and runs between two callbacks.
CpuSound(c, p) == p.cpu # NoSlot => p.nat[p.cpu] = "ready" /\ c.call.stage = "out"

\* What the mm holds at each point of the stores.
StoresSound(c) ==
    LET devs == c.mms[c.map.mm].devs IN
    /\ c.map.todo # {} => c.map.next = "range"
    /\ c.map.next = "range" => devs = c.map.was
    /\ c.map.next = "attrs" =>
           \E x \in Devices : x.addr = c.map.dev.addr /\ devs = Stored(c.map.was, c.map.entry, x)
    /\ c.map.next = "generation" => devs = Stored(c.map.was, c.map.entry, c.map.dev)

\* A slot the range was handed to has it and no other range at its address.
Staged(maps, dev) == \A i \in 1..NDEV : maps[i].addr = dev.addr => maps[i] = dev

\* A device range is mapped for an mm that is in use, while no callback runs.
MapSound(c, p) ==
    c.map # NoMap =>
        /\ c.call.op = "none"
        /\ c.map.mm \in Slot /\ c.map.dev \in Devices
        /\ \E s \in Slot : c.alive[s] /\ c.mm[s] = c.map.mm
        /\ c.map.entry # 0 /\ c.map.entry = lxp_device_map_index(c.map.was, c.map.dev)
        /\ StoresSound(c)
        /\ \A s \in Slot \ c.map.todo :
               c.alive[s] /\ c.mm[s] = c.map.mm => Staged(p.maps[s], c.map.dev)

NuttxInv ==
    /\ CoreInv(core) /\ MapSound(core, nx)
    /\ Follows(NuttxTask, core)
    /\ NxTyped(nx) /\ Tasks(nx) /\ NoHoles(nx)
    /\ ProfilesSound(core, nx) /\ InstalledSound(core, nx) /\ CpuSound(core, nx)
    /\ NuttxViews

-----------------------------------------------------------------------------

\* A ready list of ready tasks, each once, stays one without a slot and with
\* one more.
Distinct(q) == \A i, j \in 1..Len(q) : q[i] = q[j] => i = j

\* Taking a slot out of the ready list.
LEMMA WithoutSlot ==
    ASSUME NEW q \in Seq(Slot), Distinct(q), NEW s \in Slot
    PROVE  /\ Without(q, s) \in Seq(Slot) /\ Distinct(Without(q, s))
           /\ \A i \in 1..Len(Without(q, s)) :
                  /\ Without(q, s)[i] # s
                  /\ \E j \in 1..Len(q) : Without(q, s)[i] = q[j]
  <1>1. CASE \A i \in 1..Len(q) : q[i] # s
    BY <1>1, Zenon DEF Without
  <1>2. CASE ~(\A i \in 1..Len(q) : q[i] # s)
    <2> DEFINE at == CHOOSE i \in 1..Len(q) : q[i] = s
               w == [i \in 1..(Len(q) - 1) |-> IF i < at THEN q[i] ELSE q[i + 1]]
    <2>1. Without(q, s) = w
      BY <1>2, Zenon DEF Without
    <2>2. at \in 1..Len(q) /\ q[at] = s
      BY <1>2, Zenon
    <2>3. Len(q) \in Nat /\ Len(q) - 1 \in Nat
      BY <2>2
    <2> HIDE DEF at
    <2>4. \A i \in 1..(Len(q) - 1) : w[i] = IF i < at THEN q[i] ELSE q[i + 1]
      BY Zenon
    <2>5. w \in Seq(Slot) /\ Len(w) = Len(q) - 1
      <3>1. \A i \in 1..(Len(q) - 1) : w[i] \in Slot
        BY <2>2, <2>3, <2>4
      <3>2. w \in [1..(Len(q) - 1) -> Slot]
        BY <3>1, Zenon
      <3> QED
        BY <2>3, <3>2
    <2> HIDE DEF w
    <2>6. ASSUME NEW i \in 1..Len(w)
          PROVE  w[i] # s /\ \E j \in 1..Len(q) : w[i] = q[j]
      <3> DEFINE k == IF i < at THEN i ELSE i + 1
      <3>1. k \in 1..Len(q) /\ k # at
        BY <2>2, <2>3, <2>5
      <3>2. w[i] = q[k]
        BY <2>4, <2>5
      <3> HIDE DEF k
      <3> QED
        BY <2>2, <3>1, <3>2, Zenon DEF Distinct
    <2>7. Distinct(w)
      <3> SUFFICES ASSUME NEW i \in 1..Len(w), NEW j \in 1..Len(w), w[i] = w[j] PROVE i = j
        BY Zenon DEF Distinct
      <3>1. PICK k \in 1..Len(q) : w[i] = q[k] /\ k = IF i < at THEN i ELSE i + 1
        BY <2>2, <2>3, <2>4, <2>5
      <3>2. PICK l \in 1..Len(q) : w[j] = q[l] /\ l = IF j < at THEN j ELSE j + 1
        BY <2>2, <2>3, <2>4, <2>5
      <3>3. k = l
        BY <3>1, <3>2, Zenon DEF Distinct
      <3> QED
        BY <2>2, <2>5, <3>1, <3>2, <3>3
    <2> QED
      BY <2>1, <2>5, <2>6, <2>7, Zenon
  <1> QED
    BY <1>1, <1>2, Zenon

\* Putting a slot that is not in the ready list behind the others.
LEMMA AppendSlot ==
    ASSUME NEW q \in Seq(Slot), Distinct(q), NEW s \in Slot, \A i \in 1..Len(q) : q[i] # s
    PROVE  /\ Append(q, s) \in Seq(Slot) /\ Distinct(Append(q, s))
           /\ \A i \in 1..Len(Append(q, s)) :
                  Append(q, s)[i] = s \/ \E j \in 1..Len(q) : Append(q, s)[i] = q[j]
  <1> DEFINE a == Append(q, s)
  <1>1. /\ a \in Seq(Slot) /\ Len(a) = Len(q) + 1 /\ Len(q) \in Nat /\ a[Len(q) + 1] = s
        /\ \A i \in 1..Len(q) : a[i] = q[i]
    OBVIOUS
  <1> HIDE DEF a
  <1>2. Distinct(a)
    BY <1>1 DEF Distinct
  <1>3. \A i \in 1..Len(a) : a[i] = s \/ \E j \in 1..Len(q) : a[i] = q[j]
    BY <1>1
  <1> QED
    BY <1>1, <1>2, <1>3, Zenon DEF a

\* Device maps.
LEMMA RestoredMaps ==
    ASSUME NEW devs \in DeviceLists
    PROVE  /\ Restored(devs) \in Maps
           /\ Restored(devs)[2] # NoDev => Restored(devs)[1] # NoDev
  <1>1. NoDev \notin Devices
    BY Zenon DEF NoDev, Devices
  <1>2. /\ Restored(devs) = [i \in 1..2 |-> IF i <= Len(devs) THEN devs[i] ELSE NoDev]
        /\ \A i \in 1..2 : i <= Len(devs) => devs[i] \in Devices
        /\ 2 <= Len(devs) => devs[1].addr # devs[2].addr
    BY DEF Restored, NDEV, DeviceLists
  <1>3. Restored(devs) \in [1..NDEV -> Devices \cup {NoDev}]
    BY <1>2, Zenon DEF NDEV
  <1>4. Restored(devs)[2] # NoDev => 2 <= Len(devs)
    BY <1>2
  <1>5. 2 <= Len(devs) => Restored(devs)[1] = devs[1] /\ Restored(devs)[2] = devs[2]
    BY <1>2 DEF DeviceLists
  <1>6. 2 <= Len(devs) => devs[1] \in Devices
    BY <1>2 DEF DeviceLists
  <1> QED
    BY <1>1, <1>2, <1>3, <1>4, <1>5, <1>6, Zenon DEF Maps

\* Mapping a device fills the first of the two entries first.
LEMMA MapDeviceMaps ==
    ASSUME NEW maps \in Maps, NEW dev \in Devices, MapEntry(maps, dev) # 0,
           maps[2] # NoDev => maps[1] # NoDev
    PROVE  /\ nuttx_map_device(maps, dev) \in Maps
           /\ nuttx_map_device(maps, dev)[2] # NoDev => nuttx_map_device(maps, dev)[1] # NoDev
           /\ Staged(nuttx_map_device(maps, dev), dev)
  <1> DEFINE same == {i \in 1..NDEV : maps[i].addr = dev.addr}
             free == {i \in 1..NDEV : maps[i] = NoDev}
             from == IF same # {} THEN same ELSE free
             e == MapEntry(maps, dev)
  <1>1. e = CHOOSE i \in from : \A j \in from : i <= j
    BY Zenon DEF MapEntry
  <1>2. from # {} /\ from \subseteq 1..2
    BY Zenon DEF MapEntry, NDEV
  <1>3. \E i \in from : \A j \in from : i <= j
    <2>1. CASE 1 \in from
      BY <1>2, <2>1
    <2>2. CASE 1 \notin from
      BY <1>2, <2>2
    <2> QED
      BY <2>1, <2>2, Zenon
  <1>4. e \in from /\ \A j \in from : e <= j
    <2> HIDE DEF from
    <2> QED
      BY <1>1, <1>3, Zenon
  <1>5. dev # NoDev /\ dev.addr # 0
    BY DEF Devices, NoDev
  <1>6. e = 2 => maps[1] # NoDev
    <2>1. CASE same # {}
      <3>1. e = 2 => maps[2].addr = dev.addr
        BY <1>4, <2>1, Zenon
      <3> QED
        BY <1>5, <3>1 DEF NoDev
    <2>2. CASE same = {}
      <3>1. e = 2 => 1 \notin free
        BY <1>4, <2>2
      <3> QED
        BY <3>1 DEF NDEV
    <2> QED
      BY <2>1, <2>2, Zenon
  <1>7. e \in 1..2
    BY <1>2, <1>4, Zenon
  <1>8. \A i \in 1..2 : maps[i].addr = dev.addr => i = e
    <2> SUFFICES ASSUME NEW i \in 1..2, maps[i].addr = dev.addr PROVE i = e
      BY Zenon
    <2>1. i \in same
      BY Zenon DEF NDEV
    <2>2. e \in same
      BY <1>4, <2>1, Zenon
    <2>3. maps[e].addr = dev.addr
      BY <2>2, Zenon
    <2>4. maps[1] # NoDev /\ maps[2] # NoDev => maps[1].addr # maps[2].addr
      BY Zenon DEF Maps
    <2>5. maps[i] # NoDev /\ maps[e] # NoDev
      BY <1>5, <2>3 DEF NoDev
    <2> HIDE DEF e
    <2> QED
      BY <1>7, <2>3, <2>4, <2>5
  <1> HIDE DEF e, from
  <1> DEFINE n == nuttx_map_device(maps, dev)
  <1>9. n = [maps EXCEPT ![e] = dev]
    BY Zenon DEF nuttx_map_device, e
  <1>10. /\ n \in [1..2 -> Devices \cup {NoDev}] /\ n[e] = dev
         /\ \A i \in 1..2 : i # e => n[i] = maps[i]
    BY <1>7, <1>9 DEF Maps, NDEV
  <1>11. n[2] # NoDev => n[1] # NoDev
    BY <1>5, <1>6, <1>7, <1>10
  <1>12. Staged(n, dev)
    BY <1>8, <1>10, Zenon DEF Staged, NDEV
  <1>13. n[2] # NoDev => n[1].addr # n[2].addr
    <2>1. CASE e = 1
      BY <1>5, <1>8, <1>10, <2>1
    <2>2. CASE e = 2
      BY <1>5, <1>8, <1>10, <2>2
    <2> QED
      BY <1>7, <2>1, <2>2
  <1>14. n \in Maps
    BY <1>10, <1>13, Zenon DEF Maps, NDEV
  <1> QED
    BY <1>11, <1>12, <1>14, Zenon

\* Ranges that were staged as the policy grants them are the mm's own.
LEMMA StagedIsRestored ==
    ASSUME NEW maps \in Maps, NEW devs \in Seq(Devices), maps[2] # NoDev => maps[1] # NoDev,
           StagedAsGranted(maps, devs)
    PROVE  maps = Restored(devs) /\ Len(devs) <= NDEV
  <1> DEFINE n == Len(devs)
  <1>1. n \in Nat /\ maps = [i \in 1..2 |-> maps[i]] /\ \A i \in 1..n : devs[i] # NoDev
    BY DEF Maps, NDEV, Devices, NoDev
  <1>2. PICK at \in [1..n -> 1..2] :
            /\ \A i, j \in 1..n : i < j => at[i] < at[j]
            /\ \A i \in 1..n : maps[at[i]] = devs[i]
            /\ \A k \in 1..2 : maps[k] # NoDev => \E i \in 1..n : at[i] = k
    BY Zenon DEF StagedAsGranted, NDEV
  <1> HIDE DEF n
  <1>3. n <= 2
    <2> SUFFICES ASSUME n > 2 PROVE FALSE
      BY <1>1
    <2>1. 1 \in 1..n /\ 2 \in 1..n /\ 3 \in 1..n
      BY <1>1
    <2> QED
      BY <1>2, <2>1
  <1>4. ASSUME n >= 1 PROVE at[1] = 1 /\ maps[1] = devs[1]
    <2>1. 1 \in 1..n /\ at[1] \in 1..2 /\ maps[at[1]] = devs[1] /\ devs[1] # NoDev
      <3>1. 1 \in 1..n
        BY <1>1, <1>4
      <3>2. at[1] \in 1..2
        BY <3>1, Zenon
      <3>3. maps[at[1]] = devs[1]
        BY <1>2, <3>1, Zenon
      <3>4. devs[1] # NoDev
        BY <1>1, <3>1, Zenon
      <3> QED
        BY <3>1, <3>2, <3>3, <3>4, Zenon
    <2>2. at[1] # 2
      <3> SUFFICES ASSUME at[1] = 2 PROVE FALSE
        BY Zenon
      <3>1. maps[1] # NoDev
        BY <2>1, Zenon
      <3>2. PICK i \in 1..n : at[i] = 1
        BY <1>2, <3>1
      <3>3. 1 < i
        BY <1>1, <3>2
      <3> QED
        BY <1>2, <2>1, <3>2, <3>3
    <2> QED
      BY <2>1, <2>2
  <1>5. ASSUME n = 2 PROVE maps[2] = devs[2]
    <2>1. 1 \in 1..n /\ 2 \in 1..n /\ at[1] = 1
      BY <1>4, <1>5
    <2>2. at[2] = 2
      BY <1>2, <2>1
    <2> QED
      BY <1>2, <2>1, <2>2, Zenon
  <1>6. ASSUME n < 2 PROVE maps[2] = NoDev
    <2> SUFFICES ASSUME maps[2] # NoDev PROVE FALSE
      BY Zenon
    <2>1. PICK i \in 1..n : at[i] = 2
      BY <1>2
    <2> QED
      BY <1>1, <1>4, <1>6, <2>1
  <1>7. ASSUME n = 0 PROVE maps[1] = NoDev
    BY <1>2, <1>7
  <1>8. \A i \in 1..2 : maps[i] = IF i <= n THEN devs[i] ELSE NoDev
    BY <1>1, <1>3, <1>4, <1>5, <1>6, <1>7
  <1> QED
    BY <1>1, <1>3, <1>8, Zenon DEF Restored, NDEV, n

\* The task the contract sees for one slot.
LEMMA NuttxTaskOf ==
    ASSUME NEW s \in Slot
    PROVE  /\ ~nx.pid[s] => NuttxTask[s] = Nobody
           /\ nx.pid[s] => /\ NuttxTask[s].gen = nx.gen[s]
                           /\ NuttxTask[s].state =
                                  IF nx.nat[s] = "stopped" THEN "parked" ELSE "live"
  BY Zenon DEF NuttxTask, Nobody

\* The same after a step.
LEMMA NuttxTaskOfNext ==
    ASSUME NEW s \in Slot
    PROVE  /\ ~nx'.pid[s] => NuttxTask'[s] = Nobody
           /\ nx'.pid[s] => NuttxTask'[s] =
                  [state |-> IF nx'.nat[s] = "stopped" THEN "parked" ELSE "live",
                   gen |-> nx'.gen[s]]
  BY Zenon DEF NuttxTask, Nobody

\* A slot that has a task is alive, and the task is of its incarnation.
LEMMA NuttxTaskAlive ==
    ASSUME NuttxInv, NEW s \in Slot, nx.pid[s]
    PROVE  core.alive[s] /\ nx.gen[s] = core.gen[s]
  <1>1. /\ NuttxTask[s].gen = nx.gen[s]
        /\ NuttxTask[s].state = IF nx.nat[s] = "stopped" THEN "parked" ELSE "live"
    BY NuttxTaskOf, Zenon
  <1>2. \/ NuttxTask[s] = Nobody
        \/ \E x \in {"live", "parked"} : NuttxTask[s] = [state |-> x, gen |-> core.gen[s]]
    BY Zenon DEF NuttxInv, Follows
  <1>3. nx.gen[s] = core.gen[s]
    BY <1>1, <1>2 DEF Nobody
  <1>4. core.alive[s]
    BY <1>1, TaskAlive, Zenon DEF NuttxInv
  <1> QED
    BY <1>3, <1>4, Zenon

\* A key that is not ahead of its slot stays so, and when it is the slot's key
\* after a step that keeps the address spaces, it was before.
LEMMA KeyKept ==
    ASSUME NEW c, NEW d, NEW s \in Slot, NEW k, CoreTyped(c), CoreTyped(d), Kept(c, d),
           KeyOld(c, k, s)
    PROVE  /\ KeyOld(d, k, s)
           /\ d.alive[s] /\ k = KeyOf(d, s) =>
                  c.alive[s] /\ k = KeyOf(c, s) /\ MmOf(d, s) = MmOf(c, s)
  <1>1. /\ c.gen[s] \in Nat /\ d.gen[s] \in Nat /\ c.gen[s] <= d.gen[s]
        /\ d.alive[s] /\ d.gen[s] = c.gen[s] => c.alive[s] /\ MmOf(d, s) = MmOf(c, s)
    BY Zenon DEF CoreTyped, Kept
  <1>2. KeyOld(d, k, s)
    BY <1>1 DEF KeyOld
  <1>3. ASSUME d.alive[s], k = KeyOf(d, s)
        PROVE  c.alive[s] /\ k = KeyOf(c, s) /\ MmOf(d, s) = MmOf(c, s)
    <2>1. k.gen = d.gen[s]
      BY <1>3, Zenon DEF KeyOf, PolicyKey, Policy
    <2>2. d.gen[s] = c.gen[s]
      BY <1>1, <2>1 DEF KeyOld
    <2>3. c.alive[s] /\ MmOf(d, s) = MmOf(c, s)
      BY <1>1, <1>3, <2>2, Zenon
    <2>4. KeyOf(d, s) = KeyOf(c, s)
      BY <2>2, <2>3, SamePolicy DEF KeyOf
    <2> QED
      BY <1>3, <2>3, <2>4, Zenon
  <1> QED
    BY <1>2, <1>3, Zenon

\* A slot may be served with at least what it might be served with before.
GrantsKept(c, d) ==
    \A s \in Slot : MmOf(d, s) = MmOf(c, s) => Granted(c, s) \subseteq Granted(d, s)

\* Of the keys made before the step, those that are the key of their slot
\* after it were so before it, and stand for no less.
Carries(c, d) ==
    \A s \in Slot : \A k : KeyOld(c, k, s) =>
        /\ KeyOld(d, k, s)
        /\ d.alive[s] /\ k = KeyOf(d, s) =>
               /\ c.alive[s] /\ k = KeyOf(c, s)
               /\ Views(c, s) \subseteq Views(d, s) /\ RegsOf(c, s) \subseteq RegsOf(d, s)

\* Device lists that may be used, and the registers made of them.
LEMMA MoreViews ==
    ASSUME NEW c, NEW d, NEW s, Granted(c, s) \subseteq Granted(d, s),
           MmOf(d, s).ridx = MmOf(c, s).ridx, MmOf(d, s).rgen = MmOf(c, s).rgen,
           MmOf(d, s).text = MmOf(c, s).text
    PROVE  Views(c, s) \subseteq Views(d, s) /\ RegsOf(c, s) \subseteq RegsOf(d, s)
  <1>1. Views(c, s) \subseteq Views(d, s)
    BY Zenon DEF Views
  <1> QED
    BY <1>1, Zenon DEF RegsOf

\* What is compiled and installed stays sound over a step that carries the keys.
LEMMA SoundCarried ==
    ASSUME NEW c, NEW d, NEW p, NEW q, Carries(c, d), ProfilesSound(c, p), InstalledSound(c, p),
           q.profile = p.profile, q.installed = p.installed, q.mpu = p.mpu
    PROVE  ProfilesSound(d, q) /\ InstalledSound(d, q)
  <1>1. ProfilesSound(d, q)
    <2> SUFFICES ASSUME NEW s \in Slot, p.profile[s].valid
                 PROVE  /\ KeyOld(d, p.profile[s].key, s)
                        /\ d.alive[s] /\ p.profile[s].key = KeyOf(d, s) =>
                               p.profile[s].devs \in Views(d, s)
      BY Zenon DEF ProfilesSound
    <2>1. /\ KeyOld(c, p.profile[s].key, s)
          /\ c.alive[s] /\ p.profile[s].key = KeyOf(c, s) =>
                 p.profile[s].devs \in Views(c, s)
      BY Zenon DEF ProfilesSound
    <2> QED
      BY <2>1, Zenon DEF Carries
  <1>2. InstalledSound(d, q)
    <2>1. CASE ~p.installed.valid
      BY <2>1, Zenon DEF InstalledSound
    <2>2. CASE p.installed.valid
      <3> DEFINE k == p.installed.key
      <3>1. /\ k.slot \in Slot /\ KeyOld(c, k, k.slot)
            /\ c.alive[k.slot] /\ k = KeyOf(c, k.slot) => p.mpu \in RegsOf(c, k.slot)
        BY <2>2, Zenon DEF InstalledSound
      <3> HIDE DEF k
      <3>2. /\ KeyOld(d, k, k.slot)
            /\ d.alive[k.slot] /\ k = KeyOf(d, k.slot) => p.mpu \in RegsOf(d, k.slot)
        BY <3>1, Zenon DEF Carries
      <3> QED
        BY <2>2, <3>1, <3>2, Zenon DEF InstalledSound, k
    <2> QED
      BY <2>1, <2>2, Zenon
  <1> QED
    BY <1>1, <1>2, Zenon

\* A step that keeps the address spaces, and what may be served, carries them.
LEMMA SoundKept ==
    ASSUME NEW c, NEW d, NEW p, NEW q, CoreTyped(c), CoreTyped(d), Kept(c, d), GrantsKept(c, d),
           ProfilesSound(c, p), InstalledSound(c, p),
           q.profile = p.profile, q.installed = p.installed, q.mpu = p.mpu
    PROVE  ProfilesSound(d, q) /\ InstalledSound(d, q)
  <1>1. ASSUME NEW s \in Slot, NEW k, KeyOld(c, k, s)
        PROVE  /\ KeyOld(d, k, s)
               /\ d.alive[s] /\ k = KeyOf(d, s) =>
                      /\ c.alive[s] /\ k = KeyOf(c, s)
                      /\ Views(c, s) \subseteq Views(d, s) /\ RegsOf(c, s) \subseteq RegsOf(d, s)
    <2>1. /\ KeyOld(d, k, s)
          /\ d.alive[s] /\ k = KeyOf(d, s) =>
                 c.alive[s] /\ k = KeyOf(c, s) /\ MmOf(d, s) = MmOf(c, s)
      BY <1>1, KeyKept
    <2>2. MmOf(d, s) = MmOf(c, s) => Granted(c, s) \subseteq Granted(d, s)
      BY Zenon DEF GrantsKept
    <2>3. MmOf(d, s) = MmOf(c, s) =>
              Views(c, s) \subseteq Views(d, s) /\ RegsOf(c, s) \subseteq RegsOf(d, s)
      BY <2>2, MoreViews, Zenon
    <2> QED
      BY <2>1, <2>3, Zenon
  <1>2. Carries(c, d)
    BY <1>1, Zenon DEF Carries
  <1> QED
    BY <1>2, SoundCarried, Zenon

\* No mapping under way is one of no mm, before its stores.
LEMMA NoMapFields == NoMap.mm = NoSlot /\ NoMap.next = "range"
  BY DEF NoMap

\* Without a mapping under way a slot has what its mm holds.
LEMMA GrantsSettled ==
    ASSUME NEW c, NEW d, c.map = NoMap, d.map = NoMap
    PROVE  GrantsKept(c, d)
  <1>1. \A s : Granted(c, s) = {MmOf(c, s).devs} /\ Granted(d, s) = {MmOf(d, s).devs}
    BY NoMapFields, Zenon DEF Granted
  <1> QED
    BY <1>1, Zenon DEF GrantsKept

\* Nor does it get less from a step that leaves the mapping and the mms alone.
LEMMA GrantsSame ==
    ASSUME NEW c, NEW d, d.map = c.map, d.mm = c.mm, d.mms = c.mms
    PROVE  GrantsKept(c, d) /\ \A s : Granted(d, s) = Granted(c, s)
  BY Zenon DEF Granted, GrantsKept, MmOf

\* No device range is being staged while a callback runs.
LEMMA NoMapInCall ==
    ASSUME NuttxInv, core.call.op # "none"
    PROVE  core.map = NoMap
  BY Zenon DEF NuttxInv, MapSound

\* A step of the coordinator: the tasks stay, and the maps it restores for a
\* new slot are those of its mm.
LEMMA CoordinatorServes ==
    ASSUME NuttxInv, NuttxCoordinator
    PROVE  NuttxInv' /\ PortStep(core, core', NuttxTask, NuttxTask', NuttxArmed, NuttxArmed')
  <1>1. /\ Keeps(core, core') /\ core.call.stage = "out" /\ nx.cpu = NoSlot
        /\ CoreTyped(core) /\ CoreInv(core') /\ CoreTyped(core')
    BY CoordinatorKeeps, Zenon DEF NuttxCoordinator, NuttxInv, Keeps, CoreInv
  <1> DEFINE s == core'.call.slot
             m == Restored(core'.mms[core'.mm[s]].devs)
  <1>2. nx' = nx \/ (core'.call.op \in {"launch", "start"} /\ nx' = [nx EXCEPT !.maps[s] = m])
    BY Zenon DEF NuttxCoordinator
  <1>3. ASSUME core'.call.op \in {"launch", "start"}
        PROVE  s \in Slot /\ m \in Maps /\ (m[2] # NoDev => m[1] # NoDev)
    <2>1. s \in Slot
      BY <1>1, <1>3, Zenon DEF CoreInv, CallSound, CoreTyped, Calls, SlotOps
    <2>2. core'.mms[core'.mm[s]].devs \in DeviceLists
      BY <1>1, <2>1, Zenon DEF CoreTyped, Mms
    <2> QED
      BY <2>1, <2>2, RestoredMaps, Zenon
  <1> HIDE DEF s, m
  <1>4. /\ NxTyped(nx') /\ nx'.pid = nx.pid /\ nx'.gen = nx.gen /\ nx'.nat = nx.nat
        /\ nx'.profile = nx.profile /\ nx'.installed = nx.installed /\ nx'.mpu = nx.mpu
        /\ nx'.queue = nx.queue /\ nx'.cpu = nx.cpu /\ nx'.irqs = nx.irqs /\ nx'.ev = nx.ev
        /\ NoHoles(nx')
    <2>1. CASE nx' = nx
      BY <2>1, Zenon DEF NuttxInv
    <2>2. CASE core'.call.op \in {"launch", "start"} /\ nx' = [nx EXCEPT !.maps[s] = m]
      <3>1. s \in Slot /\ m \in Maps /\ (m[2] # NoDev => m[1] # NoDev)
        BY <1>3, <2>2, Zenon
      <3>2. /\ NxRecord(nx') /\ nx'.pid = nx.pid /\ nx'.gen = nx.gen /\ nx'.nat = nx.nat
            /\ nx'.profile = nx.profile /\ nx'.installed = nx.installed /\ nx'.mpu = nx.mpu
            /\ nx'.queue = nx.queue /\ nx'.cpu = nx.cpu /\ nx'.irqs = nx.irqs /\ nx'.ev = nx.ev
            /\ nx'.maps = [nx.maps EXCEPT ![s] = m]
        BY <2>2, Zenon DEF NuttxInv, NxTyped, NxRecord
      <3>3. nx'.maps \in [Slot -> Maps] /\ NoHoles(nx')
        BY <3>1, <3>2 DEF NuttxInv, NxTyped, NoHoles
      <3> QED
        BY <3>2, <3>3, Zenon DEF NuttxInv, NxTyped
    <2> QED
      BY <1>2, <2>1, <2>2, Zenon
  <1>5. NuttxTask' = NuttxTask /\ NuttxArmed' = NuttxArmed
    BY <1>4, Zenon DEF NuttxTask, NuttxArmed
  <1>6. Follows(NuttxTask, core')
    BY <1>1, KeepsFollows, Zenon DEF NuttxInv
  <1>7. Tasks(nx') /\ CpuSound(core', nx') /\ NuttxViews'
    BY <1>1, <1>4 DEF NuttxInv, Tasks, CpuSound, NuttxViews
  <1>8. core.map = NoMap
    <2> SUFFICES ASSUME core.map # NoMap PROVE FALSE
      BY Zenon
    <2>1. core.call.op = "none" /\ \E t \in Slot : core.alive[t]
      BY Zenon DEF NuttxInv, MapSound
    <2>2. core.run = "up"
      BY <2>1, Zenon DEF NuttxInv, CoreInv, SlotsSound
    <2>3. ~CallPrepare /\ ~CallTeardown /\ ~CallReturns
      BY <2>1, <2>2, Zenon DEF CallPrepare, CallTeardown, CallReturns
    <2>4. /\ \A t \in Slot, r \in Region, x \in core.bound.texts : ~CallLaunch(t, r, x)
          /\ \A t, p \in Slot, x \in core.bound.shares : ~CallStart(t, p, x)
          /\ \A t \in Slot : ~CallResume(t) /\ ~CallPark(t)
          /\ \A t \in Slot, x \in {"exit", "exec"} : ~CallAbort(t, x)
      <3>1. ~Ready
        BY Zenon DEF Ready
      <3>2. ASSUME NEW t \in Slot, NEW r \in Region, NEW x, CallLaunch(t, r, x) PROVE FALSE
        BY <3>1, <3>2, Zenon DEF CallLaunch
      <3>3. ASSUME NEW t \in Slot, NEW p \in Slot, NEW x, CallStart(t, p, x) PROVE FALSE
        BY <3>1, <3>3, Zenon DEF CallStart
      <3>4. ASSUME NEW t \in Slot, NEW x, CallResume(t) \/ CallPark(t) \/ CallAbort(t, x)
            PROVE  FALSE
        BY <3>1, <3>4, Zenon DEF CallResume, CallPark, CallAbort
      <3> QED
        BY <3>2, <3>3, <3>4, Zenon
    <2> QED
      BY <2>3, <2>4, Zenon DEF NuttxCoordinator, CoordinatorStep
  <1>9. MapSound(core', nx')
    BY <1>1, <1>8, Zenon DEF Keeps, MapSound
  <1>10. ProfilesSound(core', nx') /\ InstalledSound(core', nx')
    <2>1. GrantsKept(core, core')
      BY <1>1, <1>8, GrantsSettled, Zenon DEF Keeps
    <2> QED
      BY <1>1, <1>4, <2>1, SoundKept, Zenon DEF NuttxInv, Keeps
  <1>11. PortStep(core, core', NuttxTask, NuttxTask', NuttxArmed, NuttxArmed')
    <2> HIDE DEF NuttxTask, NuttxArmed
    <2> QED
      BY <1>1, <1>5, Zenon DEF PortStep
  <1> QED
    BY <1>1, <1>4, <1>5, <1>6, <1>7, <1>9, <1>10, <1>11, ZenonT(60) DEF NuttxInv

\* What a callback for slot s leaves alone.
NxBeside(p, q, s) ==
    /\ \A t \in Slot \ {s} : q.pid[t] = p.pid[t] /\ q.gen[t] = p.gen[t] /\ q.nat[t] = p.nat[t]
    /\ q.profile = p.profile /\ q.installed = p.installed /\ q.mpu = p.mpu
    /\ q.cpu = p.cpu /\ q.irqs = p.irqs /\ q.ev = p.ev

\* A callback for a slot that makes of its task what it answers.
LEMMA NuttxServes ==
    ASSUME NuttxInv, core.call.op \in SlotOps, core.call.stage = "in", nx.cpu = NoSlot,
           NEW rc \in BOOLEAN, Replied(core, core', rc),
           NEW s, s = core.call.slot,
           NxTyped(nx'), NxBeside(nx, nx', s), Tasks(nx'), NoHoles(nx'),
           NuttxTask'[s] = IF rc THEN Served(core.call) ELSE NuttxTask[s]
    PROVE  NuttxInv' /\ PortStep(core, core', NuttxTask, NuttxTask', NuttxArmed, NuttxArmed')
  <1> DEFINE U == IF rc THEN [NuttxTask EXCEPT ![s] = Served(core.call)] ELSE NuttxTask
  <1>1. s \in Slot /\ CoreInv(core) /\ Follows(NuttxTask, core)
    BY Zenon DEF NuttxInv, CoreInv, CallSound, CoreTyped, Calls
  <1>2. ASSUME NEW t \in Slot \ {s} PROVE NuttxTask'[t] = NuttxTask[t]
    BY ZenonT(60) DEF NuttxTask, NxBeside
  <1>3. NuttxTask = [t \in Slot |-> NuttxTask[t]] /\ NuttxTask' = [t \in Slot |-> NuttxTask'[t]]
    BY Zenon DEF NuttxTask
  <1>4. NuttxTask' = U
    <2> HIDE DEF NuttxTask
    <2> QED
      BY <1>1, <1>2, <1>3, Zenon
  <1>5. NuttxArmed' = NuttxArmed
    BY Zenon DEF NuttxArmed, NxBeside
  <1>6. /\ CoreInv(core') /\ Follows(U, core')
        /\ PortStep(core, core', NuttxTask, U, NuttxArmed, NuttxArmed)
        /\ core'.map = core.map
    BY <1>1, SlotReply, Zenon
  <1>7. Kept(core, core') /\ CoreTyped(core) /\ CoreTyped(core')
    BY <1>1, <1>6, ReplyKeeps, Zenon DEF CoreInv, SlotOps
  <1>8. ProfilesSound(core', nx') /\ InstalledSound(core', nx')
    <2>1. GrantsKept(core, core')
      BY <1>6, NoMapInCall, GrantsSettled, Zenon DEF SlotOps
    <2> QED
      BY <1>7, <2>1, SoundKept, Zenon DEF NuttxInv, NxBeside
  <1>9. MapSound(core', nx')
    BY <1>6, NoMapInCall, Zenon DEF MapSound, SlotOps
  <1>10. CpuSound(core', nx') /\ NuttxViews'
    BY Zenon DEF CpuSound, NuttxViews, NxBeside
  <1> HIDE DEF U
  <1> QED
    BY <1>4, <1>5, <1>6, <1>8, <1>9, <1>10, ZenonT(60) DEF NuttxInv

\* The ready list holds ready tasks, each once.
Queue(p) == (\A i \in 1..Len(p.queue) : p.nat[p.queue[i]] = "ready") /\ Distinct(p.queue)

\* Only the scheduler's state of slot s changes.
NxScheduled(p, q, s, x) ==
    /\ NxTyped(q) /\ q.pid = p.pid /\ q.gen = p.gen /\ q.maps = p.maps /\ q.profile = p.profile
    /\ q.installed = p.installed /\ q.mpu = p.mpu
    /\ q.cpu = p.cpu /\ q.irqs = p.irqs /\ q.ev = p.ev
    /\ q.nat[s] = x /\ \A t \in Slot \ {s} : q.nat[t] = p.nat[t]

Moved(p, s, x, n) == [p EXCEPT !.nat[s] = x, !.queue = n]

\* A change of one native state and the ready list, by field.
LEMMA NxScheduledFields ==
    ASSUME NEW p, NxTyped(p), NEW s \in Slot, NEW q, NEW n \in Seq(Slot),
           NEW x \in {"none", "ready", "stopped"},
           q = Moved(p, s, x, n)
    PROVE  NxScheduled(p, q, s, x) /\ q.queue = n
  <1>1. /\ NxRecord(q) /\ q.pid = p.pid /\ q.gen = p.gen /\ q.maps = p.maps
        /\ q.profile = p.profile /\ q.installed = p.installed /\ q.mpu = p.mpu
        /\ q.cpu = p.cpu /\ q.irqs = p.irqs /\ q.ev = p.ev /\ q.queue = n
        /\ q.nat = [p.nat EXCEPT ![s] = x]
    BY Zenon DEF NxTyped, NxRecord, Moved
  <1>2. q.nat \in [Slot -> {"none", "ready", "stopped"}]
    BY <1>1, ZenonT(60) DEF NxTyped
  <1>3. NxTyped(q)
    BY <1>1, <1>2, Zenon DEF NxTyped
  <1>4. q.nat[s] = x /\ \A t \in Slot \ {s} : q.nat[t] = p.nat[t]
    BY <1>1, Zenon DEF NxTyped
  <1> QED
    BY ONLY <1>1, <1>3, <1>4, Zenon DEF NxScheduled

\* A task that was not ready joins the end of the ready list.
LEMMA ReadyFields ==
    ASSUME NEW p, NxTyped(p), NEW s \in Slot, NEW q, q = nxsched_add_readytorun(p, s),
           Queue(p), p.nat[s] # "ready"
    PROVE  NxScheduled(p, q, s, "ready") /\ Queue(q)
  <1> DEFINE n == Append(p.queue, s)
  <1>1. p.queue \in Seq(Slot) /\ \A i \in 1..Len(p.queue) : p.queue[i] # s
    BY Zenon DEF NxTyped, Queue
  <1>2. /\ n \in Seq(Slot) /\ Distinct(n)
        /\ \A i \in 1..Len(n) : n[i] = s \/ \E j \in 1..Len(p.queue) : n[i] = p.queue[j]
    BY <1>1, AppendSlot, Zenon DEF Queue
  <1>3. q = Moved(p, s, "ready", n)
    BY Zenon DEF nxsched_add_readytorun, Moved
  <1> HIDE DEF n
  <1>4. NxScheduled(p, q, s, "ready") /\ q.queue = n
    BY <1>2, <1>3, NxScheduledFields
  <1>5. ASSUME NEW i \in 1..Len(n) PROVE q.nat[n[i]] = "ready"
    <2>1. n[i] \in Slot
      BY <1>2
    <2> QED
      BY <1>2, <1>4, <2>1 DEF NxScheduled, Queue
  <1> QED
    BY <1>2, <1>4, <1>5, Zenon DEF Queue

\* A task leaves the ready list.
LEMMA RemoveFields ==
    ASSUME NEW p, NxTyped(p), NEW s \in Slot, NEW q, NEW x \in {"none", "stopped"},
           q = nxsched_remove(p, s, x), Queue(p)
    PROVE  NxScheduled(p, q, s, x) /\ Queue(q)
  <1> DEFINE n == Without(p.queue, s)
  <1>1. p.queue \in Seq(Slot)
    BY Zenon DEF NxTyped
  <1>2. /\ n \in Seq(Slot) /\ Distinct(n)
        /\ \A i \in 1..Len(n) : n[i] # s /\ \E j \in 1..Len(p.queue) : n[i] = p.queue[j]
    BY <1>1, WithoutSlot, ZenonT(60) DEF Queue
  <1>3. q = Moved(p, s, x, n)
    BY Zenon DEF nxsched_remove, Moved
  <1> HIDE DEF n
  <1>4. NxScheduled(p, q, s, x) /\ q.queue = n
    <2>1. x \in {"none", "ready", "stopped"}
      BY Zenon
    <2> QED
      BY <1>2, <1>3, <2>1, NxScheduledFields
  <1>5. ASSUME NEW i \in 1..Len(n) PROVE q.nat[n[i]] = "ready"
    <2>1. n[i] \in Slot
      BY <1>2
    <2> QED
      BY <1>2, <1>4, <2>1, SMTT(30) DEF NxScheduled, Queue
  <1> QED
    BY <1>2, <1>4, <1>5, Zenon DEF Queue

\* Only the round-robin budget changes.
LEMMA SliceFields ==
    ASSUME NEW p, NxTyped(p), NEW q, NEW b, q = [p EXCEPT !.budget = b]
    PROVE  /\ NxTyped(q) /\ q.pid = p.pid /\ q.gen = p.gen /\ q.nat = p.nat /\ q.maps = p.maps
           /\ q.profile = p.profile /\ q.installed = p.installed /\ q.mpu = p.mpu
           /\ q.queue = p.queue /\ q.cpu = p.cpu /\ q.irqs = p.irqs /\ q.ev = p.ev
  <1>1. /\ NxRecord(q) /\ q.pid = p.pid /\ q.gen = p.gen /\ q.nat = p.nat /\ q.maps = p.maps
        /\ q.profile = p.profile /\ q.installed = p.installed /\ q.mpu = p.mpu
        /\ q.queue = p.queue /\ q.cpu = p.cpu /\ q.irqs = p.irqs /\ q.ev = p.ev
    BY Zenon DEF NxTyped, NxRecord
  <1>2. NxTyped(q)
    BY <1>1, Zenon DEF NxTyped
  <1> QED
    BY ONLY <1>1, <1>2, Zenon

\* A callback that is refused leaves the tasks alone.
LEMMA NuttxRefuses ==
    ASSUME NuttxInv, core.call.op \in SlotOps, core.call.stage = "in", NEW p,
           p = nx \/ \E b : p = [nx EXCEPT !.budget = b], NAnswer(FALSE, p)
    PROVE  NuttxInv' /\ PortStep(core, core', NuttxTask, NuttxTask', NuttxArmed, NuttxArmed')
  <1>1. nx' = p /\ nx.cpu = NoSlot /\ Replied(core, core', FALSE)
    BY AnsweredReplies, Zenon DEF NAnswer, NuttxInv, CoreInv
  <1>2. /\ NxTyped(nx') /\ nx'.pid = nx.pid /\ nx'.gen = nx.gen /\ nx'.nat = nx.nat
        /\ nx'.maps = nx.maps /\ nx'.profile = nx.profile /\ nx'.installed = nx.installed
        /\ nx'.mpu = nx.mpu /\ nx'.queue = nx.queue /\ nx'.cpu = nx.cpu
        /\ nx'.irqs = nx.irqs /\ nx'.ev = nx.ev
    <2>1. CASE p = nx
      BY <1>1, <2>1, Zenon DEF NuttxInv
    <2>2. CASE \E b : p = [nx EXCEPT !.budget = b]
      <3>1. PICK b : p = [nx EXCEPT !.budget = b]
        BY <2>2, Zenon
      <3> QED
        BY <1>1, <3>1, SliceFields DEF NuttxInv
    <2> QED
      BY <2>1, <2>2, Zenon
  <1>3. NuttxTask' = NuttxTask /\ NxBeside(nx, nx', core.call.slot)
    BY <1>2, ZenonT(60) DEF NuttxTask, NxBeside
  <1>4. Tasks(nx') /\ NoHoles(nx')
    BY <1>2 DEF NuttxInv, Tasks, NoHoles
  <1> QED
    BY <1>1, <1>2, <1>3, <1>4, NuttxServes, Zenon

\* The slot of a callback, and what the port knows of it.
LEMMA NuttxCall ==
    ASSUME NuttxInv, core.call.op \in SlotOps
    PROVE  /\ core.call.slot \in Slot /\ core.call.gen \in Nat /\ CoreTyped(core)
           /\ core.call.gen = core.gen[core.call.slot] /\ Queue(nx)
           /\ \A s \in Slot : nx.pid[s] <=> nx.nat[s] # "none"
           /\ nx.pid[core.call.slot] => nx.gen[core.call.slot] = core.call.gen
  <1>1. /\ core.call.slot \in Slot /\ core.call.gen \in Nat /\ CoreTyped(core)
        /\ core.call.gen = core.gen[core.call.slot]
    BY Zenon DEF NuttxInv, CoreInv, CallSound, CoreTyped, Calls, SlotOps
  <1>2. Queue(nx) /\ \A s \in Slot : nx.pid[s] <=> nx.nat[s] # "none"
    BY Zenon DEF NuttxInv, Tasks, Queue, Distinct
  <1> QED
    BY <1>1, <1>2, NuttxTaskAlive, Zenon

\* spawn_task: a slot without a task gets one.
LEMMA SpawnTaskServes ==
    ASSUME NuttxInv, core.call.op \in Creates, core.call.stage = "in",
           spawn_task(core.call.slot, core.call.gen)
    PROVE  NuttxInv' /\ PortStep(core, core', NuttxTask, NuttxTask', NuttxArmed, NuttxArmed')
  <1> DEFINE s == core.call.slot
             g == core.call.gen
             up == [nx EXCEPT !.pid[s] = TRUE, !.gen[s] = g]
  <1>1. /\ s \in Slot /\ g \in Nat /\ CoreTyped(core) /\ Queue(nx)
        /\ \A t \in Slot : nx.pid[t] <=> nx.nat[t] # "none"
    BY NuttxCall, Zenon DEF Creates, SlotOps
  <1>2. \/ NAnswer(FALSE, nx)
        \/ ~nx.pid[s] /\ NAnswer(TRUE, nxsched_add_readytorun(up, s))
    BY Zenon DEF spawn_task
  <1>3. CASE NAnswer(FALSE, nx)
    BY <1>3, NuttxRefuses, Zenon DEF Creates, SlotOps
  <1>4. CASE ~nx.pid[s] /\ NAnswer(TRUE, nxsched_add_readytorun(up, s))
    <2>1. nx' = nxsched_add_readytorun(up, s) /\ Replied(core, core', TRUE) /\ nx.cpu = NoSlot
      BY <1>1, <1>4, AnsweredReplies, Zenon DEF NAnswer
    <2>2. up = [nx EXCEPT !.pid[s] = TRUE, !.gen[s] = g]
      BY Zenon
    <2> HIDE DEF up, s, g
    <2>3. /\ NxRecord(up) /\ up.pid = [nx.pid EXCEPT ![s] = TRUE]
          /\ up.gen = [nx.gen EXCEPT ![s] = g] /\ up.nat = nx.nat /\ up.maps = nx.maps
          /\ up.profile = nx.profile /\ up.installed = nx.installed /\ up.mpu = nx.mpu
          /\ up.queue = nx.queue /\ up.cpu = nx.cpu /\ up.irqs = nx.irqs /\ up.ev = nx.ev
      BY <1>1, <2>2, ZenonT(60) DEF NuttxInv, NxTyped, NxRecord
    <2>4. NxTyped(up) /\ Queue(up) /\ up.nat[s] = "none"
      BY <1>1, <1>4, <2>3 DEF NuttxInv, NxTyped, Queue
    <2>5. NxScheduled(up, nx', s, "ready") /\ Queue(nx')
      BY <1>1, <2>1, <2>4, ReadyFields, ZenonT(60)
    <2>6. /\ nx'.pid[s] /\ nx'.gen[s] = g /\ nx'.nat[s] = "ready"
          /\ \A t \in Slot \ {s} : /\ nx'.pid[t] = nx.pid[t] /\ nx'.gen[t] = nx.gen[t]
                                   /\ nx'.nat[t] = nx.nat[t]
      BY <1>1, <2>3, <2>5 DEF NxScheduled, NuttxInv, NxTyped
    <2>7. /\ nx'.maps = nx.maps /\ nx'.profile = nx.profile /\ nx'.installed = nx.installed
          /\ nx'.mpu = nx.mpu /\ nx'.cpu = nx.cpu /\ nx'.irqs = nx.irqs /\ nx'.ev = nx.ev
          /\ NxTyped(nx')
      BY <2>3, <2>5, Zenon DEF NxScheduled
    <2>8. NxBeside(nx, nx', s)
      BY ONLY <2>6, <2>7, ZenonT(60) DEF NxBeside
    <2>9. Tasks(nx') /\ NoHoles(nx')
      BY <1>1, <2>5, <2>6, <2>7 DEF NuttxInv, Tasks, Queue, Distinct, NoHoles
    <2>10. NuttxTask'[s] = Served(core.call)
      BY <1>1, <2>6, NuttxTaskOfNext, ZenonT(60) DEF Served, Creates, g
    <2> QED
      BY <2>1, <2>7, <2>8, <2>9, <2>10, NuttxServes, ZenonT(60) DEF Creates, SlotOps, s
  <1> QED
    BY <1>2, <1>3, <1>4, Zenon

\* nuttx_spawn_resume_parked and nuttx_park_slot: the task of this incarnation
\* joins or leaves the ready list.
LEMMA NuttxResumeParkServes ==
    ASSUME NuttxInv, nuttx_spawn_resume_parked \/ nuttx_park_slot
    PROVE  NuttxInv' /\ PortStep(core, core', NuttxTask, NuttxTask', NuttxArmed, NuttxArmed')
  <1> DEFINE s == core.call.slot
  <1>1. core.call.op \in {"resume", "park"} /\ core.call.stage = "in"
    BY Zenon DEF nuttx_spawn_resume_parked, nuttx_park_slot, InCall
  <1>2. /\ s \in Slot /\ CoreTyped(core) /\ Queue(nx)
        /\ \A t \in Slot : nx.pid[t] <=> nx.nat[t] # "none"
        /\ nx.pid[s] => nx.gen[s] = core.call.gen
    BY <1>1, NuttxCall, Zenon DEF SlotOps
  <1>3. CASE NAnswer(FALSE, nx)
    BY <1>1, <1>3, NuttxRefuses, Zenon DEF SlotOps
  <1>4. CASE ~NAnswer(FALSE, nx)
    <2>1. \E x \in {"ready", "stopped"} :
              /\ nx.pid[s] /\ nx.cpu = NoSlot /\ Replied(core, core', TRUE)
              /\ NxScheduled(nx, nx', s, x) /\ Queue(nx')
              /\ x = IF core.call.op = "park" THEN "stopped" ELSE "ready"
      <3>1. CASE nuttx_spawn_resume_parked
        <4>1. /\ core.call.op = "resume" /\ nx.pid[s] /\ nx.nat[s] = "stopped" /\ nx.cpu = NoSlot
              /\ nx' = nxsched_add_readytorun(nx, s)
              /\ core' = [Answered(core, TRUE) EXCEPT !.pos[s] = "user"]
          BY <1>4, <3>1, Zenon DEF nuttx_spawn_resume_parked, InCall
        <4>2. Replied(core, core', TRUE)
          BY <1>2, <4>1, ResumedReplies, ZenonT(60)
        <4>3. NxScheduled(nx, nx', s, "ready") /\ Queue(nx')
          BY <1>2, <4>1, ReadyFields DEF NuttxInv
        <4> QED
          BY <4>1, <4>2, <4>3, Zenon
      <3>2. CASE nuttx_park_slot
        <4>1. /\ core.call.op = "park" /\ nx.pid[s] /\ nx.cpu = NoSlot
              /\ nx' = nxsched_remove(nx, s, "stopped") /\ core' = Answered(core, TRUE)
          BY <1>4, <3>2, Zenon DEF nuttx_park_slot, InCall, NAnswer
        <4>2. Replied(core, core', TRUE)
          BY <1>2, <4>1, AnsweredReplies, ZenonT(60)
        <4>3. NxScheduled(nx, nx', s, "stopped") /\ Queue(nx')
          BY <1>2, <4>1, RemoveFields DEF NuttxInv
        <4> QED
          BY <4>1, <4>2, <4>3, Zenon
      <3> QED
        BY <3>1, <3>2, Zenon
    <2>2. PICK x \in {"ready", "stopped"} :
              /\ nx.pid[s] /\ nx.cpu = NoSlot /\ Replied(core, core', TRUE)
              /\ NxScheduled(nx, nx', s, x) /\ Queue(nx')
              /\ x = IF core.call.op = "park" THEN "stopped" ELSE "ready"
      BY <2>1, Zenon
    <2> HIDE DEF s
    <2>3. /\ nx'.pid = nx.pid /\ nx'.gen = nx.gen /\ nx'.maps = nx.maps
          /\ nx'.profile = nx.profile /\ nx'.installed = nx.installed
          /\ nx'.mpu = nx.mpu /\ nx'.cpu = nx.cpu /\ nx'.irqs = nx.irqs /\ nx'.ev = nx.ev
          /\ NxTyped(nx') /\ nx'.nat[s] = x /\ \A t \in Slot \ {s} : nx'.nat[t] = nx.nat[t]
      BY <2>2, Zenon DEF NxScheduled
    <2>4. NxBeside(nx, nx', s)
      BY <2>3, ZenonT(60) DEF NxBeside
    <2>5. Tasks(nx') /\ NoHoles(nx')
      BY <1>2, <2>2, <2>3 DEF NuttxInv, Tasks, Queue, Distinct, NoHoles
    <2>6. NuttxTask'[s] = Served(core.call)
      BY <1>1, <1>2, <2>2, <2>3, NuttxTaskOfNext DEF Served
    <2> QED
      BY <1>1, <2>2, <2>3, <2>4, <2>5, <2>6, NuttxServes, ZenonT(60) DEF SlotOps, s
  <1> QED
    BY <1>3, <1>4, Zenon

\* The end of a task, by field.
Deleted(r, s) == [r EXCEPT !.maps[s] = NoDevs, !.pid[s] = FALSE, !.gen[s] = 0]

\* No entry is in use.
LEMMA NoDevsMaps == NoDevs \in Maps /\ NoDevs[1] = NoDev /\ NoDevs[2] = NoDev
  BY DEF NoDevs, Maps, NDEV

\* A deleted task, by field.
LEMMA DeletedFields ==
    ASSUME NEW r, NxTyped(r), NEW s \in Slot, NEW q, q = Deleted(r, s)
    PROVE  /\ NxTyped(q) /\ ~q.pid[s] /\ q.maps[s] = NoDevs
           /\ \A t \in Slot \ {s} : q.pid[t] = r.pid[t] /\ q.gen[t] = r.gen[t]
                                    /\ q.maps[t] = r.maps[t]
           /\ q.nat = r.nat /\ q.queue = r.queue /\ q.profile = r.profile
           /\ q.installed = r.installed /\ q.mpu = r.mpu
           /\ q.cpu = r.cpu /\ q.irqs = r.irqs /\ q.ev = r.ev
  <1> DEFINE n == NoDevs
  <1>1. q = [r EXCEPT !.maps[s] = n, !.pid[s] = FALSE, !.gen[s] = 0] /\ n \in Maps /\ n = NoDevs
    BY NoDevsMaps, Zenon DEF Deleted
  <1> HIDE DEF n
  <1>2. /\ NxRecord(q) /\ q.maps = [r.maps EXCEPT ![s] = n] /\ q.pid = [r.pid EXCEPT ![s] = FALSE]
        /\ q.gen = [r.gen EXCEPT ![s] = 0]
        /\ q.nat = r.nat /\ q.queue = r.queue /\ q.profile = r.profile
        /\ q.installed = r.installed /\ q.mpu = r.mpu
        /\ q.cpu = r.cpu /\ q.irqs = r.irqs /\ q.ev = r.ev
    BY <1>1, ZenonT(60) DEF NxTyped, NxRecord
  <1>3. /\ q.maps \in [Slot -> Maps] /\ q.pid \in [Slot -> BOOLEAN] /\ q.gen \in [Slot -> Nat]
        /\ ~q.pid[s] /\ q.maps[s] = n
        /\ \A t \in Slot \ {s} : q.pid[t] = r.pid[t] /\ q.gen[t] = r.gen[t]
                                 /\ q.maps[t] = r.maps[t]
    BY <1>1, <1>2 DEF NxTyped
  <1>4. NxTyped(q)
    BY <1>2, <1>3 DEF NxTyped
  <1> QED
    BY <1>1, <1>2, <1>3, <1>4, Zenon

\* nuttx_abort_slot: the task, if there is one, is deleted or the abort is
\* refused with the task as it was.
LEMMA NuttxAbortServes ==
    ASSUME NuttxInv, nuttx_abort_slot
    PROVE  NuttxInv' /\ PortStep(core, core', NuttxTask, NuttxTask', NuttxArmed, NuttxArmed')
  <1> DEFINE s == core.call.slot
             b == IF nx.budget.owner = s THEN [owner |-> NoSlot, slice |-> 0] ELSE nx.budget
             p == [nx EXCEPT !.budget = b]
             r == nxsched_remove(p, s, "none")
  <1>1. core.call.op = "abort" /\ core.call.stage = "in" /\ core.call.op \in SlotOps
    BY Zenon DEF nuttx_abort_slot, InCall, SlotOps
  <1>2. /\ s \in Slot /\ CoreTyped(core) /\ Queue(nx)
        /\ \A t \in Slot : nx.pid[t] <=> nx.nat[t] # "none"
    BY <1>1, NuttxCall, Zenon
  <1>3. NAnswer(FALSE, nx) \/ NAnswer(FALSE, p) \/ NAnswer(TRUE, Deleted(r, s))
    BY Zenon DEF nuttx_abort_slot, Deleted
  <1>4. p = [nx EXCEPT !.budget = b] /\ r = nxsched_remove(p, s, "none")
    BY Zenon
  <1> HIDE DEF b, p, r, s
  <1>5. CASE NAnswer(FALSE, nx) \/ NAnswer(FALSE, p)
    BY <1>1, <1>4, <1>5, NuttxRefuses, ZenonT(30)
  <1>6. CASE NAnswer(TRUE, Deleted(r, s))
    <2>1. nx' = Deleted(r, s) /\ Replied(core, core', TRUE) /\ nx.cpu = NoSlot
      BY <1>2, <1>6, AnsweredReplies, Zenon DEF NAnswer
    <2>2. /\ NxTyped(p) /\ p.pid = nx.pid /\ p.gen = nx.gen /\ p.nat = nx.nat /\ p.maps = nx.maps
          /\ p.profile = nx.profile /\ p.installed = nx.installed /\ p.mpu = nx.mpu
          /\ p.queue = nx.queue /\ p.cpu = nx.cpu /\ p.irqs = nx.irqs /\ p.ev = nx.ev
      BY <1>4, SliceFields DEF NuttxInv
    <2>3. Queue(p)
      BY <1>2, <2>2 DEF Queue
    <2>4. NxScheduled(p, r, s, "none") /\ Queue(r)
      BY <1>2, <1>4, <2>2, <2>3, RemoveFields, ZenonT(60)
    <2>5. /\ NxTyped(nx') /\ ~nx'.pid[s] /\ nx'.maps[s] = NoDevs
          /\ \A t \in Slot \ {s} : nx'.pid[t] = r.pid[t] /\ nx'.gen[t] = r.gen[t]
                                   /\ nx'.maps[t] = r.maps[t]
          /\ nx'.nat = r.nat /\ nx'.queue = r.queue /\ nx'.profile = r.profile
          /\ nx'.installed = r.installed /\ nx'.mpu = r.mpu
          /\ nx'.cpu = r.cpu /\ nx'.irqs = r.irqs /\ nx'.ev = r.ev
      BY <1>2, <2>1, <2>4, DeletedFields DEF NxScheduled
    <2>6. /\ nx'.nat[s] = "none"
          /\ \A t \in Slot \ {s} : /\ nx'.pid[t] = nx.pid[t] /\ nx'.gen[t] = nx.gen[t]
                                   /\ nx'.maps[t] = nx.maps[t] /\ nx'.nat[t] = nx.nat[t]
          /\ nx'.profile = nx.profile /\ nx'.installed = nx.installed /\ nx'.mpu = nx.mpu
          /\ nx'.cpu = nx.cpu /\ nx'.irqs = nx.irqs /\ nx'.ev = nx.ev
      BY <2>2, <2>4, <2>5 DEF NxScheduled
    <2>7. NxBeside(nx, nx', s)
      BY <2>6, Zenon DEF NxBeside
    <2>8. Queue(nx')
      BY <2>4, <2>5, ZenonT(60) DEF Queue
    <2>9. Tasks(nx')
      BY <1>2, <2>5, <2>6, <2>8, SMTT(30) DEF Tasks, Queue, Distinct
    <2>10. NoHoles(nx')
      BY <2>5, <2>6, NoDevsMaps DEF NuttxInv, NoHoles
    <2>11. NuttxTask'[s] = Served(core.call)
      BY <1>1, <1>2, <2>5, NuttxTaskOfNext, Zenon DEF Served
    <2> QED
      BY <1>1, <2>1, <2>5, <2>7, <2>9, <2>10, <2>11, NuttxServes, ZenonT(60) DEF s
  <1> QED
    BY <1>3, <1>5, <1>6, Zenon

\* nuttx_teardown, by field: nothing is compiled, installed or staged.
Bare(p, q) ==
    /\ NxTyped(q) /\ q.pid = p.pid /\ q.gen = p.gen /\ q.nat = p.nat /\ q.queue = p.queue
    /\ q.cpu = p.cpu /\ q.mpu = Off /\ ~q.installed.valid
    /\ \A s \in Slot : ~q.profile[s].valid /\ q.maps[s] = NoDevs

\* teardown leaves no hook, profile, map or installed region.
LEMMA TeardownFields ==
    ASSUME NEW p, NxTyped(p), NEW q, q = nuttx_teardown(p)
    PROVE  Bare(p, q) /\ q.irqs = FALSE /\ q.ev = FALSE
  <1> DEFINE M == [s \in Slot |-> NoDevs]
             P == [s \in Slot |-> NuttxNoProfile]
             o == Off
             n == NoInstalled
             d == nuttx_disable_dynamic_regions(p)
  <1>1. /\ d = [p EXCEPT !.mpu = o, !.installed = n]
        /\ q = [d EXCEPT !.maps = M, !.profile = P, !.irqs = FALSE, !.ev = FALSE]
    BY Zenon DEF nuttx_teardown, nuttx_disable_dynamic_regions
  <1>2. /\ M \in [Slot -> Maps] /\ P = [s \in Slot |-> P[s]] /\ o = Off /\ ~n.valid
        /\ \A s \in Slot : ~P[s].valid /\ M[s] = NoDevs
    BY NoDevsMaps, Zenon DEF NuttxNoProfile, NoInstalled
  <1> HIDE DEF M, P, o, n, d
  <1>3. /\ NxRecord(d) /\ d.pid = p.pid /\ d.gen = p.gen /\ d.nat = p.nat /\ d.queue = p.queue
        /\ d.cpu = p.cpu /\ d.mpu = o /\ d.installed = n
    BY <1>1, Zenon DEF NxTyped, NxRecord
  <1>4. /\ NxRecord(q) /\ q.pid = p.pid /\ q.gen = p.gen /\ q.nat = p.nat /\ q.queue = p.queue
        /\ q.cpu = p.cpu /\ q.mpu = o /\ q.installed = n /\ q.maps = M /\ q.profile = P
    BY <1>1, <1>3, ZenonT(60) DEF NxRecord
  <1>5. q.irqs = FALSE /\ q.ev = FALSE
    BY <1>1, <1>3, Zenon DEF NxRecord
  <1>6. NxTyped(q)
    BY <1>2, <1>4, Zenon DEF NxTyped
  <1>7. Bare(p, q)
    BY <1>2, <1>4, <1>6, Zenon DEF Bare
  <1> QED
    BY <1>5, <1>7, Zenon

\* The interrupts and the event semaphore, by field.
Hooked(p) == [p EXCEPT !.irqs = TRUE, !.ev = TRUE]

\* Arming the interrupts and the event semaphore changes nothing else.
LEMMA ArmFields ==
    ASSUME NEW p, NxTyped(p), NEW q, q = Hooked(p)
    PROVE  /\ NxTyped(q) /\ q.pid = p.pid /\ q.gen = p.gen /\ q.nat = p.nat /\ q.maps = p.maps
           /\ q.profile = p.profile /\ q.installed = p.installed /\ q.mpu = p.mpu
           /\ q.queue = p.queue /\ q.cpu = p.cpu /\ q.irqs
  <1>1. /\ NxRecord(q) /\ q.pid = p.pid /\ q.gen = p.gen /\ q.nat = p.nat /\ q.maps = p.maps
        /\ q.profile = p.profile /\ q.installed = p.installed /\ q.mpu = p.mpu
        /\ q.queue = p.queue /\ q.cpu = p.cpu
    BY Zenon DEF NxTyped, NxRecord, Hooked
  <1>2. q.irqs
    BY Zenon DEF NxTyped, NxRecord, Hooked
  <1>3. NxTyped(q)
    BY <1>1, Zenon DEF NxTyped
  <1> QED
    BY ONLY <1>1, <1>2, <1>3, Zenon

\* prepare and teardown, with no task there.
LEMMA NuttxBracketServes ==
    ASSUME NuttxInv, nuttx_prepare \/ NuttxTeardown
    PROVE  NuttxInv' /\ PortStep(core, core', NuttxTask, NuttxTask', NuttxArmed, NuttxArmed')
  <1> DEFINE b == [owner |-> NoSlot, slice |-> 0]
             td == nuttx_teardown(nx)
             fresh == [td EXCEPT !.budget = b]
             armed == [fresh EXCEPT !.irqs = TRUE, !.ev = TRUE]
             undone == nuttx_teardown(armed)
  <1>1. /\ core.call.op \in {"prepare", "teardown"} /\ core.call.stage = "in" /\ CoreTyped(core)
        /\ CoreInv(core) /\ Follows(NuttxTask, core) /\ NxTyped(nx)
    BY Zenon DEF NuttxInv, CoreInv, nuttx_prepare, NuttxTeardown, InCall
  <1>2. \E rc \in BOOLEAN :
            /\ NAnswer(rc, nx')
            /\ \/ nx' = nx /\ ~rc /\ core.call.op = "prepare"
               \/ nx' \in {fresh, undone} /\ ~rc /\ core.call.op = "prepare"
               \/ nx' = armed /\ rc /\ core.call.op = "prepare"
               \/ nx' = td /\ rc /\ core.call.op = "teardown"
    <2> HIDE DEF td, fresh, armed, undone
    <2>1. CASE nuttx_prepare
      <3>1. /\ core.call.op = "prepare"
            /\ NAnswer(FALSE, nx) \/ NAnswer(FALSE, fresh) \/ NAnswer(FALSE, undone)
               \/ NAnswer(TRUE, armed)
        BY <2>1, Zenon DEF nuttx_prepare, InCall, td, fresh, armed, undone
      <3> QED
        BY <3>1, Zenon DEF NAnswer
    <2>2. CASE NuttxTeardown
      <3>1. core.call.op = "teardown" /\ NAnswer(TRUE, td)
        BY <2>2, Zenon DEF NuttxTeardown, InCall, td
      <3> QED
        BY <3>1, Zenon DEF NAnswer
    <2> QED
      BY <2>1, <2>2, Zenon
  <1>3. PICK rc \in BOOLEAN :
            /\ NAnswer(rc, nx')
            /\ \/ nx' = nx /\ ~rc /\ core.call.op = "prepare"
               \/ nx' \in {fresh, undone} /\ ~rc /\ core.call.op = "prepare"
               \/ nx' = armed /\ rc /\ core.call.op = "prepare"
               \/ nx' = td /\ rc /\ core.call.op = "teardown"
    BY <1>2, Zenon
  <1>4. /\ td = nuttx_teardown(nx) /\ fresh = [td EXCEPT !.budget = b]
        /\ armed = Hooked(fresh) /\ undone = nuttx_teardown(armed)
    BY Zenon DEF Hooked
  <1> HIDE DEF b, td, fresh, armed, undone
  <1>5. Bare(nx, td) /\ td.irqs = FALSE /\ td.ev = FALSE
    BY <1>1, <1>4, TeardownFields, Zenon
  <1>6. Bare(nx, fresh)
    <2>1. /\ NxTyped(fresh) /\ fresh.pid = td.pid /\ fresh.gen = td.gen /\ fresh.nat = td.nat
          /\ fresh.maps = td.maps /\ fresh.profile = td.profile
          /\ fresh.installed = td.installed /\ fresh.mpu = td.mpu /\ fresh.queue = td.queue
          /\ fresh.cpu = td.cpu
      BY <1>4, <1>5, SliceFields DEF Bare
    <2> QED
      BY <1>5, <2>1, Zenon DEF Bare
  <1>7. Bare(nx, armed) /\ armed.irqs
    <2>1. /\ NxTyped(armed) /\ armed.pid = fresh.pid /\ armed.gen = fresh.gen
          /\ armed.nat = fresh.nat /\ armed.maps = fresh.maps /\ armed.profile = fresh.profile
          /\ armed.installed = fresh.installed /\ armed.mpu = fresh.mpu
          /\ armed.queue = fresh.queue /\ armed.cpu = fresh.cpu /\ armed.irqs
      <3>1. NxTyped(fresh)
        BY <1>6, Zenon DEF Bare
      <3>2. armed = Hooked(fresh)
        BY <1>4, Zenon
      <3> QED
        BY ONLY <3>1, <3>2, ArmFields, ZenonT(60)
    <2> QED
      BY <1>6, <2>1, Zenon DEF Bare
  <1>8. Bare(nx, undone)
    <2>1. Bare(armed, undone)
      <3>1. NxTyped(armed)
        BY <1>7, Zenon DEF Bare
      <3> QED
        BY <1>4, <3>1, TeardownFields, Zenon
    <2> QED
      BY <1>7, <2>1, Zenon DEF Bare
  <1>9. /\ nx' = nx \/ Bare(nx, nx')
        /\ core.call.op = "prepare" /\ rc => nx'.irqs
        /\ core.call.op = "teardown" => rc /\ nx'.irqs = FALSE /\ nx'.ev = FALSE
    BY <1>3, <1>5, <1>6, <1>7, <1>8, ZenonT(60)
  <1>10. /\ NxTyped(nx') /\ nx'.pid = nx.pid /\ nx'.gen = nx.gen /\ nx'.nat = nx.nat
         /\ nx'.queue = nx.queue /\ nx'.cpu = nx.cpu
    BY <1>1, <1>9, Zenon DEF Bare
  <1>11. nx.cpu = NoSlot /\ Replied(core, core', rc)
    BY <1>1, <1>3, AnsweredReplies, Zenon DEF NAnswer
  <1>12. NuttxTask' = NuttxTask
    BY <1>10, Zenon DEF NuttxTask
  <1>13. /\ core.call.op = "prepare" /\ rc => NuttxArmed'
         /\ core.call.op = "teardown" => rc /\ ~NuttxArmed'
    BY <1>9, Zenon DEF NuttxArmed
  <1>14. /\ CoreInv(core') /\ Follows(NuttxTask, core') /\ core'.map = core.map
         /\ PortStep(core, core', NuttxTask, NuttxTask, NuttxArmed, NuttxArmed')
    <2> HIDE DEF NuttxTask, NuttxArmed
    <2> QED
      BY <1>1, <1>11, <1>13, BracketReply, Zenon
  <1>15. Kept(core, core') /\ CoreTyped(core')
    BY <1>1, <1>11, ReplyKeeps, Zenon DEF CoreInv
  <1>16. ProfilesSound(core', nx') /\ InstalledSound(core', nx')
    <2>1. CASE nx' = nx
      <3>1. GrantsKept(core, core')
        BY <1>1, <1>14, NoMapInCall, GrantsSettled, Zenon
      <3> QED
        BY <1>1, <1>15, <2>1, <3>1, SoundKept, ZenonT(60) DEF NuttxInv
    <2>2. CASE Bare(nx, nx')
      BY <2>2, ZenonT(60) DEF Bare, ProfilesSound, InstalledSound
    <2> QED
      BY <1>9, <2>1, <2>2, Zenon
  <1>17. Tasks(nx') /\ CpuSound(core', nx') /\ NuttxViews'
    BY <1>10, <1>11, SMTT(30) DEF NuttxInv, Tasks, CpuSound, NuttxViews
  <1>18. NoHoles(nx')
    BY <1>9, NoDevsMaps, Zenon DEF NuttxInv, NoHoles, Bare
  <1>19. MapSound(core', nx')
    BY <1>1, <1>14, NoMapInCall, Zenon DEF MapSound
  <1> QED
    BY <1>10, <1>12, <1>14, <1>16, <1>17, <1>18, <1>19, ZenonT(60) DEF NuttxInv

\* Only the staged mapping of the core changes.
MapOnly(c, d) ==
    /\ CoreRecord(d) /\ d.map \in Staging
    /\ d.gen = c.gen /\ d.bound = c.bound /\ d.alive = c.alive /\ d.runnable = c.runnable
    /\ d.host = c.host /\ d.mm = c.mm /\ d.mms = c.mms /\ d.leases = c.leases
    /\ d.pos = c.pos /\ d.want = c.want /\ d.call = c.call /\ d.run = c.run

\* A step of a staged device mapping, by field.
LEMMA MapFields ==
    ASSUME CoreTyped(core), NEW m \in Staging, core' = [core EXCEPT !.map = m]
    PROVE  MapOnly(core, core') /\ core'.map = m
  BY Zenon DEF CoreTyped, CoreRecord, MapOnly

\* A step of a staged device mapping keeps the invariant of the core.
LEMMA MapOnlyKeeps ==
    ASSUME CoreInv(core), MapOnly(core, core')
    PROVE  /\ CoreInv(core') /\ Kept(core, core')
           /\ \A T : Follows(T, core) => Follows(T, core')
  <1>1. CoreTyped(core')
    BY ZenonT(60) DEF CoreInv, CoreTyped, MapOnly
  <1>2. CallSound(core') /\ SlotsSound(core')
    BY DEF CoreInv, CallSound, SlotsSound, MapOnly
  <1>3. \A t : MmOf(core', t) = MmOf(core, t)
    BY ZenonT(60) DEF MmOf, MapOnly
  <1>4. MmsSound(core')
    BY <1>3 DEF CoreInv, MmsSound, MapOnly
  <1>5. Kept(core, core')
    BY <1>3 DEF Kept, CoreInv, CoreTyped, MapOnly
  <1>6. \A t \in Slot : Expected(core', t) = Expected(core, t)
    BY ZenonT(60) DEF Expected, MapOnly
  <1>7. \A T : Follows(T, core) => Follows(T, core')
    BY <1>6, Zenon DEF Follows, MapOnly
  <1> QED
    BY <1>1, <1>2, <1>4, <1>5, <1>7, ZenonT(60) DEF CoreInv

\* A step the contract does not see.
LEMMA NuttxUnseen ==
    ASSUME NuttxTask' = NuttxTask, NuttxArmed' = NuttxArmed, core'.call = core.call
    PROVE  PortStep(core, core', NuttxTask, NuttxTask', NuttxArmed, NuttxArmed')
  <1> HIDE DEF NuttxTask, NuttxArmed
  <1> QED
    BY Zenon DEF PortStep

\* No mapping under way is a state of one.
LEMMA NoStaging == NoMap \in Staging
  <1>1. /\ NoDev \in [addr : Nat, attrs : Nat] /\ NoSlot \in Slot \cup {NoSlot} /\ 0 \in Nat
        /\ {} \in SUBSET Slot /\ <<>> \in DeviceLists
    BY NoRanges, SMTT(30) DEF NoDev
  <1> QED
    BY <1>1, ZenonT(60) DEF NoMap, Staging

\* Staging a range changes the maps of slots and nothing else of the port.
MapsOnly(p, q) ==
    /\ NxTyped(q) /\ NoHoles(q) /\ q.pid = p.pid /\ q.gen = p.gen /\ q.nat = p.nat
    /\ q.profile = p.profile /\ q.installed = p.installed /\ q.mpu = p.mpu
    /\ q.queue = p.queue /\ q.cpu = p.cpu /\ q.irqs = p.irqs /\ q.ev = p.ev

\* New device maps, by field.
LEMMA MapsFields ==
    ASSUME NEW p, NxTyped(p), NEW q, NEW m \in [Slot -> Maps], q = [p EXCEPT !.maps = m],
           \A s \in Slot : m[s][2] # NoDev => m[s][1] # NoDev
    PROVE  MapsOnly(p, q) /\ q.maps = m
  <1>1. /\ NxRecord(q) /\ q.pid = p.pid /\ q.gen = p.gen /\ q.nat = p.nat /\ q.maps = m
        /\ q.profile = p.profile /\ q.installed = p.installed /\ q.mpu = p.mpu
        /\ q.queue = p.queue /\ q.cpu = p.cpu /\ q.irqs = p.irqs /\ q.ev = p.ev
    BY Zenon DEF NxTyped, NxRecord
  <1>2. NxTyped(q)
    BY <1>1, Zenon DEF NxTyped
  <1>3. NoHoles(q)
    BY <1>1, Zenon DEF NoHoles
  <1> QED
    BY ONLY <1>1, <1>2, <1>3, Zenon DEF MapsOnly

\* A device range is announced, staged for one slot or withdrawn from all.
LEMMA MapStepServes ==
    ASSUME NuttxInv, nx.cpu = NoSlot, MapOnly(core, core'), MapSound(core', nx'),
           MapsOnly(nx, nx'), GrantsKept(core, core')
    PROVE  NuttxInv' /\ PortStep(core, core', NuttxTask, NuttxTask', NuttxArmed, NuttxArmed')
  <1>1. NuttxTask' = NuttxTask /\ NuttxArmed' = NuttxArmed
    BY Zenon DEF NuttxTask, NuttxArmed, MapsOnly
  <1>2. /\ CoreInv(core') /\ Kept(core, core') /\ Follows(NuttxTask, core')
        /\ CoreTyped(core) /\ CoreTyped(core')
    BY MapOnlyKeeps, Zenon DEF NuttxInv, CoreInv
  <1>3. ProfilesSound(core', nx') /\ InstalledSound(core', nx')
    BY <1>2, SoundKept, ZenonT(60) DEF NuttxInv, MapsOnly
  <1>4. Tasks(nx') /\ CpuSound(core', nx') /\ NuttxViews'
    BY DEF NuttxInv, Tasks, CpuSound, NuttxViews, MapsOnly
  <1>5. core'.call = core.call
    BY Zenon DEF MapOnly
  <1>6. PortStep(core, core', NuttxTask, NuttxTask', NuttxArmed, NuttxArmed')
    BY <1>1, <1>5, NuttxUnseen, Zenon
  <1> QED
    BY <1>1, <1>2, <1>3, <1>4, <1>6, ZenonT(60) DEF NuttxInv, MapsOnly

\* The mm's entry for a range is its own of that address, or the next free one.
LEMMA IndexRange ==
    ASSUME NEW devs \in DeviceLists, NEW dev, NEW i, i = lxp_device_map_index(devs, dev), i # 0
    PROVE  /\ i \in 1..(Len(devs) + 1) /\ i \in Nat
           /\ i <= Len(devs) => devs[i].addr = dev.addr
           /\ i > Len(devs) => \A j \in 1..Len(devs) : devs[j].addr # dev.addr
  <1> DEFINE same == {j \in 1..Len(devs) : devs[j].addr = dev.addr}
             x == CHOOSE j \in same : TRUE
  <1>1. Len(devs) \in Nat /\ same \subseteq 1..Len(devs)
    BY DEF DeviceLists
  <1>2. same # {} => x \in same
    BY Zenon
  <1>3. \/ same # {} /\ i = x
        \/ same = {} /\ i = Len(devs) + 1
    BY Zenon DEF lxp_device_map_index
  <1>4. CASE same # {} /\ i = x
    <2>1. i \in 1..Len(devs) /\ devs[i].addr = dev.addr
      BY <1>2, <1>4, Zenon
    <2> QED
      BY <1>1, <2>1
  <1>5. CASE same = {} /\ i = Len(devs) + 1
    <2>1. \A j \in 1..Len(devs) : devs[j].addr # dev.addr
      BY <1>5, Zenon
    <2> QED
      BY <1>1, <1>5, <2>1
  <1> QED
    BY <1>3, <1>4, <1>5, Zenon

\* A store into the entry keeps the addresses apart, and a second store into
\* it leaves nothing of the first.
LEMMA StoredList ==
    ASSUME NEW devs \in DeviceLists, NEW dev \in Devices, NEW i \in Nat,
           i = lxp_device_map_index(devs, dev), i # 0, NEW x \in Devices, x.addr = dev.addr
    PROVE  /\ Stored(devs, i, x) \in DeviceLists
           /\ i \in 1..Len(Stored(devs, i, x)) /\ Stored(devs, i, x)[i] = x
           /\ \A y \in Devices : Stored(Stored(devs, i, x), i, y) = Stored(devs, i, y)
  <1> DEFINE n == Len(devs)
             D == Stored(devs, i, x)
  <1>1. /\ i \in 1..(n + 1) /\ n \in Nat /\ devs \in Seq(Devices)
        /\ i <= n => devs[i].addr = dev.addr
        /\ i > n => \A j \in 1..n : devs[j].addr # dev.addr
        /\ \A j, k \in 1..n : devs[j].addr = devs[k].addr => j = k
    BY IndexRange DEF DeviceLists
  <1>2. CASE i <= n
    <2>1. D = [devs EXCEPT ![i] = x]
      BY <1>1, <1>2 DEF Stored
    <2>2. /\ D \in Seq(Devices) /\ Len(D) = n /\ D[i] = x
          /\ \A j \in 1..n : j # i => D[j] = devs[j]
      BY <1>1, <1>2, <2>1
    <2>3. \A j \in 1..n : D[j].addr = devs[j].addr
      BY <1>1, <1>2, <2>2
    <2>4. D \in DeviceLists
      <3>1. \A j, k \in 1..n : D[j].addr = D[k].addr => j = k
        BY <1>1, <2>3, Zenon
      <3> HIDE DEF D
      <3> QED
        BY <2>2, <3>1, Zenon DEF DeviceLists
    <2>5. ASSUME NEW y \in Devices PROVE Stored(D, i, y) = Stored(devs, i, y)
      <3>1. Stored(D, i, y) = [D EXCEPT ![i] = y] /\ Stored(devs, i, y) = [devs EXCEPT ![i] = y]
        <4> HIDE DEF D
        <4> QED
          BY <1>1, <1>2, <2>2 DEF Stored
      <3>2. [D EXCEPT ![i] = y] = [devs EXCEPT ![i] = y]
        BY <1>1, <1>2, <2>1
      <3> QED
        BY <3>1, <3>2, Zenon
    <2> HIDE DEF D
    <2> QED
      BY <1>1, <1>2, <2>2, <2>4, <2>5 DEF D
  <1>3. CASE i = n + 1
    <2>1. D = Append(devs, x)
      BY <1>1, <1>3 DEF Stored
    <2>2. /\ D \in Seq(Devices) /\ Len(D) = n + 1 /\ D[n + 1] = x
          /\ \A j \in 1..n : D[j] = devs[j]
      BY <1>1, <2>1
    <2> HIDE DEF D
    <2>3. \A j, k \in 1..(n + 1) : D[j].addr = D[k].addr => j = k
      BY <1>1, <1>3, <2>2
    <2>4. D \in DeviceLists
      BY <2>2, <2>3, Zenon DEF DeviceLists
    <2>5. ASSUME NEW y \in Devices PROVE Stored(D, i, y) = Stored(devs, i, y)
      <3> DEFINE A == Append(devs, y)
                 E == [D EXCEPT ![i] = y]
      <3>1. Stored(D, i, y) = E /\ Stored(devs, i, y) = A
        BY <1>1, <1>3, <2>2 DEF Stored
      <3>2. /\ A \in Seq(Devices) /\ Len(A) = n + 1 /\ A[n + 1] = y
            /\ \A j \in 1..n : A[j] = devs[j]
        BY <1>1
      <3>3. /\ E \in Seq(Devices) /\ Len(E) = n + 1 /\ E[n + 1] = y
            /\ \A j \in 1..n : E[j] = devs[j]
        BY <1>1, <1>3, <2>2
      <3> HIDE DEF A, E
      <3>4. A = E
        BY <1>1, <3>2, <3>3
      <3> QED
        BY <3>1, <3>4, Zenon
    <2> QED
      BY <1>1, <1>3, <2>2, <2>4, <2>5 DEF D
  <1> QED
    BY <1>1, <1>2, <1>3

\* lxp_coordinator_map_mm_range starts with nobody served.
LEMMA MapBeginServes ==
    ASSUME NuttxInv, NEW p \in Slot, NEW dev \in core.bound.devs, MapBegin(p, dev)
    PROVE  NuttxInv' /\ PortStep(core, core', NuttxTask, NuttxTask', NuttxArmed, NuttxArmed')
  <1> DEFINE w == MmOf(core, p).devs
             i == lxp_device_map_index(w, dev)
             m == [mm |-> core.mm[p], dev |-> dev, entry |-> i,
                   todo |-> Sharing(core, core.mm[p]), next |-> "range", was |-> w]
  <1>1. /\ CoreTyped(core) /\ dev \in Devices /\ nx' = nx /\ nx.cpu = NoSlot
        /\ core' = [core EXCEPT !.map = m] /\ core.call.op = "none" /\ core.alive[p]
        /\ i # 0 /\ core.map = NoMap
    BY Zenon DEF NuttxInv, CoreInv, CoreTyped, Bounds, MapBegin, Ready
  <1>2. core.mm[p] \in Slot /\ w \in DeviceLists /\ w = core.mms[core.mm[p]].devs
    BY <1>1, Zenon DEF CoreTyped, MmOf, Mms
  <1>3. i \in Nat
    BY <1>1, <1>2, IndexRange
  <1> HIDE DEF i, w
  <1>4. /\ m \in Staging /\ m.mm = core.mm[p] /\ m.dev = dev /\ m.entry = i /\ m.was = w
        /\ m.next = "range" /\ m.todo = Sharing(core, core.mm[p])
    BY <1>1, <1>2, <1>3, ZenonT(60) DEF Staging, Sharing, Devices
  <1> HIDE DEF m
  <1>5. MapOnly(core, core') /\ core'.map = m
    BY <1>1, <1>4, MapFields, ZenonT(60)
  <1>6. StoresSound(core')
    BY <1>2, <1>4, <1>5 DEF StoresSound, MapOnly
  <1>7. MapSound(core', nx')
    <2>1. \A t \in Slot \ core'.map.todo : ~(core'.alive[t] /\ core'.mm[t] = core'.map.mm)
      BY <1>4, <1>5, Zenon DEF MapOnly, Sharing
    <2>2. core'.map.entry = lxp_device_map_index(core'.map.was, core'.map.dev)
      BY <1>4, <1>5, Zenon DEF i
    <2> QED
      BY <1>1, <1>2, <1>4, <1>5, <1>6, <2>1, <2>2, ZenonT(60) DEF MapSound, MapOnly
  <1>8. GrantsKept(core, core')
    <2>1. \A t : /\ Granted(core, t) = {MmOf(core, t).devs}
                 /\ Granted(core', t) = {MmOf(core', t).devs}
      BY <1>1, <1>4, <1>5, NoMapFields, Zenon DEF Granted
    <2> QED
      BY <2>1, Zenon DEF GrantsKept
  <1>9. MapsOnly(nx, nx')
    BY <1>1, Zenon DEF MapsOnly, NuttxInv
  <1> QED
    BY <1>1, <1>5, <1>7, <1>8, <1>9, MapStepServes, ZenonT(60)

\* nuttx_map_device takes the range for one slot, or all go back.
LEMMA MapStageServes ==
    ASSUME NuttxInv, MapStage
    PROVE  NuttxInv' /\ PortStep(core, core', NuttxTask, NuttxTask', NuttxArmed, NuttxArmed')
  <1> DEFINE peers == Sharing(core, core.map.mm)
             devs == core.mms[core.map.mm].devs
  <1>1. /\ core.map # NoMap /\ core.map.todo # {} /\ nx.cpu = NoSlot /\ CoreTyped(core)
        /\ core.map.mm \in Slot /\ core.map.dev \in Devices /\ devs \in DeviceLists
        /\ core.map \in Staging /\ NxTyped(nx) /\ NoHoles(nx) /\ core.map.todo \subseteq Slot
    BY ZenonT(30) DEF MapStage, NuttxInv, MapSound, CoreInv, CoreTyped, Mms, Staging
  <1>2. PICK s \in core.map.todo :
        \/ /\ MapEntry(nx.maps[s], core.map.dev) # 0
           /\ nx' = [nx EXCEPT !.maps[s] = nuttx_map_device(nx.maps[s], core.map.dev)]
           /\ core' = [core EXCEPT !.map.todo = core.map.todo \ {s}]
        \/ /\ nx' = [nx EXCEPT !.maps = [t \in Slot |-> IF t \in peers THEN Restored(devs)
                                                        ELSE nx.maps[t]]]
           /\ core' = [core EXCEPT !.map = NoMap]
    BY Zenon DEF MapStage
  <1> HIDE DEF peers, devs
  <1>3. CASE /\ MapEntry(nx.maps[s], core.map.dev) # 0
             /\ nx' = [nx EXCEPT !.maps[s] = nuttx_map_device(nx.maps[s], core.map.dev)]
             /\ core' = [core EXCEPT !.map.todo = core.map.todo \ {s}]
    <2>1. s \in Slot
      BY <1>1, Zenon
    <2> DEFINE d == nuttx_map_device(nx.maps[s], core.map.dev)
               m == [core.map EXCEPT !.todo = core.map.todo \ {s}]
               M == [nx.maps EXCEPT ![s] = d]
    <2>2. d \in Maps /\ (d[2] # NoDev => d[1] # NoDev) /\ Staged(d, core.map.dev)
      BY <1>1, <1>3, <2>1, MapDeviceMaps, Zenon DEF NxTyped, NoHoles
    <2>3. core' = [core EXCEPT !.map = m] /\ nx' = [nx EXCEPT !.maps = M]
      BY <1>3, Zenon
    <2>4. /\ m \in Staging /\ m.mm = core.map.mm /\ m.dev = core.map.dev /\ m.was = core.map.was
          /\ m.entry = core.map.entry /\ m.next = core.map.next /\ m.todo = core.map.todo \ {s}
      BY <1>1, ZenonT(60) DEF Staging
    <2> HIDE DEF d, m
    <2>5. M \in [Slot -> Maps] /\ \A t \in Slot : M[t][2] # NoDev => M[t][1] # NoDev
      BY <1>1, <2>1, <2>2, Zenon DEF NxTyped, NoHoles
    <2>6. M[s] = d /\ \A t \in Slot \ {s} : M[t] = nx.maps[t]
      BY <1>1, <2>1, Zenon DEF NxTyped
    <2> HIDE DEF M
    <2>7. MapsOnly(nx, nx') /\ nx'.maps = M
      <3>1. NxTyped(nx) /\ nx' = [nx EXCEPT !.maps = M]
        BY <1>1, <2>3, Zenon
      <3> QED
        BY ONLY <2>5, <3>1, MapsFields
    <2>8. MapOnly(core, core') /\ core'.map = m
      BY <1>1, <2>3, <2>4, MapFields, ZenonT(60)
    <2>9. GrantsKept(core, core')
      <3>1. \A t : Granted(core', t) = Granted(core, t)
        BY <2>4, <2>8, Zenon DEF Granted, MapOnly, MmOf
      <3> QED
        BY <3>1, Zenon DEF GrantsKept
    <2>10. MapSound(core', nx')
      <3>1. /\ core.call.op = "none" /\ \E t \in Slot : core.alive[t] /\ core.mm[t] = core.map.mm
            /\ core.map.entry # 0
            /\ core.map.entry = lxp_device_map_index(core.map.was, core.map.dev)
            /\ StoresSound(core)
            /\ \A t \in Slot \ core.map.todo :
                   core.alive[t] /\ core.mm[t] = core.map.mm => Staged(nx.maps[t], core.map.dev)
        BY <1>1, Zenon DEF NuttxInv, MapSound
      <3>2. StoresSound(core')
        BY <1>1, <2>4, <2>8, <3>1, ZenonT(60) DEF StoresSound, MapOnly
      <3>3. ASSUME NEW t \in Slot \ core'.map.todo, core'.alive[t], core'.mm[t] = core'.map.mm
            PROVE  Staged(nx'.maps[t], core'.map.dev)
        <4>1. CASE t = s
          BY <2>2, <2>4, <2>7, <2>8, <2>6, <4>1, Zenon
        <4>2. CASE t # s
          BY <2>4, <2>7, <2>8, <2>6, <3>1, <3>3, <4>2, Zenon DEF MapOnly
        <4> QED
          BY <4>1, <4>2, Zenon
      <3>4. /\ core'.call.op = "none"
            /\ \E t \in Slot : core'.alive[t] /\ core'.mm[t] = core'.map.mm
            /\ core'.map.entry # 0
            /\ core'.map.entry = lxp_device_map_index(core'.map.was, core'.map.dev)
        BY <2>4, <2>8, <3>1, Zenon DEF MapOnly
      <3> QED
        BY <1>1, <2>4, <2>8, <3>2, <3>3, <3>4, Zenon DEF MapSound
    <2> QED
      BY <1>1, <2>7, <2>8, <2>9, <2>10, MapStepServes, ZenonT(60)
  <1>4. CASE /\ nx' = [nx EXCEPT !.maps = [t \in Slot |-> IF t \in peers THEN Restored(devs)
                                                          ELSE nx.maps[t]]]
             /\ core' = [core EXCEPT !.map = NoMap]
    <2> DEFINE M == [t \in Slot |-> IF t \in peers THEN Restored(devs) ELSE nx.maps[t]]
    <2>1. Restored(devs) \in Maps /\ (Restored(devs)[2] # NoDev => Restored(devs)[1] # NoDev)
      BY <1>1, RestoredMaps, Zenon DEF devs
    <2>2. M \in [Slot -> Maps] /\ \A t \in Slot : M[t][2] # NoDev => M[t][1] # NoDev
      BY <1>1, <2>1, Zenon DEF NxTyped, NoHoles
    <2>3. NoMap \in Staging /\ nx' = [nx EXCEPT !.maps = M]
      BY <1>4, NoStaging, Zenon
    <2> HIDE DEF M
    <2>4. MapsOnly(nx, nx')
      BY <1>1, <2>2, <2>3, MapsFields, ZenonT(60)
    <2>5. MapOnly(core, core') /\ core'.map = NoMap
      BY <1>1, <1>4, <2>3, MapFields, ZenonT(60)
    <2>6. GrantsKept(core, core')
      <3>1. core.map.next = "range"
        BY <1>1, Zenon DEF NuttxInv, MapSound, StoresSound
      <3>2. \A t : /\ Granted(core, t) = {MmOf(core, t).devs}
                   /\ Granted(core', t) = {MmOf(core', t).devs}
        BY <2>5, <3>1, NoMapFields, Zenon DEF Granted
      <3> QED
        BY <3>2, Zenon DEF GrantsKept
    <2> QED
      BY <1>1, <2>4, <2>5, <2>6, MapStepServes, ZenonT(60) DEF MapSound
  <1> QED
    BY <1>2, <1>3, <1>4, Zenon

\* Only one mm and the mapping under way change.
MmOnly(c, d, m) ==
    /\ CoreRecord(d) /\ d.map \in Staging
    /\ d.gen = c.gen /\ d.bound = c.bound /\ d.alive = c.alive /\ d.runnable = c.runnable
    /\ d.host = c.host /\ d.mm = c.mm /\ d.leases = c.leases
    /\ d.pos = c.pos /\ d.want = c.want /\ d.call = c.call /\ d.run = c.run
    /\ d.mms \in [Slot -> Mms]
    /\ \A n \in Slot \ {m} : d.mms[n] = c.mms[n]

\* The same, by field, of an assignment to both.
LEMMA MmFields ==
    ASSUME CoreTyped(core), NEW m \in Slot, NEW x \in Mms, NEW g \in Staging,
           core' = [core EXCEPT !.mms[m] = x, !.map = g]
    PROVE  MmOnly(core, core', m) /\ core'.mms[m] = x /\ core'.map = g
  <1>1. /\ CoreRecord(core') /\ core'.map = g
        /\ core'.gen = core.gen /\ core'.bound = core.bound /\ core'.alive = core.alive
        /\ core'.runnable = core.runnable /\ core'.host = core.host /\ core'.mm = core.mm
        /\ core'.leases = core.leases /\ core'.pos = core.pos /\ core'.want = core.want
        /\ core'.call = core.call /\ core'.run = core.run
        /\ core'.mms = [core.mms EXCEPT ![m] = x]
    BY Zenon DEF CoreTyped, CoreRecord
  <1>2. /\ core'.mms \in [Slot -> Mms] /\ core'.mms[m] = x
        /\ \A n \in Slot \ {m} : core'.mms[n] = core.mms[n]
    BY <1>1, SMTT(30) DEF CoreTyped
  <1> QED
    BY ONLY <1>1, <1>2, g \in Staging, Zenon DEF MmOnly

\* The core's own state after such a step, and its record of the tasks.
LEMMA MmOnlyKeeps ==
    ASSUME CoreInv(core), core.call.op = "none", NEW m \in Slot, MmOnly(core, core', m)
    PROVE  CoreInv(core') /\ \A T : Follows(T, core) => Follows(T, core')
  <1>1. CoreTyped(core')
    BY Zenon DEF CoreInv, CoreTyped, MmOnly
  <1>2. CallSound(core') /\ SlotsSound(core')
    BY SMTT(30) DEF CoreInv, CallSound, SlotsSound, MmOnly
  <1>3. MmsSound(core')
    BY Zenon DEF MmsSound, MmOnly
  <1>4. \A t \in Slot : Expected(core', t) = Expected(core, t)
    BY Zenon DEF Expected, MmOnly
  <1>5. \A T : Follows(T, core) => Follows(T, core')
    BY <1>4, ZenonT(60) DEF Follows, MmOnly
  <1> QED
    BY <1>1, <1>2, <1>3, <1>5, ZenonT(60) DEF CoreInv

\* A store to the mm that carries the keys, with nobody served meanwhile.
LEMMA MmStepServes ==
    ASSUME NuttxInv, nx.cpu = NoSlot, nx' = nx, core.call.op = "none",
           NEW m \in Slot, MmOnly(core, core', m), MapSound(core', nx), Carries(core, core')
    PROVE  NuttxInv' /\ PortStep(core, core', NuttxTask, NuttxTask', NuttxArmed, NuttxArmed')
  <1>1. NuttxTask' = NuttxTask /\ NuttxArmed' = NuttxArmed
    BY Zenon DEF NuttxTask, NuttxArmed
  <1>2. CoreInv(core') /\ Follows(NuttxTask, core')
    BY MmOnlyKeeps, ZenonT(60) DEF NuttxInv
  <1>3. ProfilesSound(core', nx) /\ InstalledSound(core', nx)
    BY SoundCarried, ZenonT(60) DEF NuttxInv
  <1>4. CpuSound(core', nx) /\ NuttxViews'
    BY Zenon DEF CpuSound, NuttxViews
  <1>5. PortStep(core, core', NuttxTask, NuttxTask', NuttxArmed, NuttxArmed')
    BY <1>1, NuttxUnseen, ZenonT(60) DEF MmOnly
  <1> QED
    BY <1>1, <1>2, <1>3, <1>4, <1>5, ZenonT(60) DEF NuttxInv

\* Other slots than those of the mm keep what they may be served with.
LEMMA OthersGrants ==
    ASSUME CoreTyped(core), core.map.mm \in Slot, MmOnly(core, core', core.map.mm),
           core'.map.mm = core.map.mm \/ core'.map = NoMap,
           NEW s \in Slot, core.mm[s] # core.map.mm
    PROVE  MmOf(core', s) = MmOf(core, s) /\ Granted(core', s) = Granted(core, s)
  <1>1. core.mm[s] \in Slot /\ core'.mm[s] = core.mm[s]
    BY Zenon DEF CoreTyped, MmOnly
  <1>2. MmOf(core', s) = MmOf(core, s)
    BY <1>1, Zenon DEF MmOf, MmOnly
  <1>3. core'.map.mm # core'.mm[s] \/ core'.map.next = "range"
    BY <1>1, NoMapFields, Zenon
  <1> QED
    BY <1>1, <1>2, <1>3, Zenon DEF Granted

\* A step of the stores: the mm's list changes and nothing else of the mm.
Restocked(c, d) ==
    LET m == c.map.mm IN
    /\ MmOnly(c, d, m)
    /\ d.mms[m].ridx = c.mms[m].ridx /\ d.mms[m].rgen = c.mms[m].rgen
    /\ d.mms[m].dgen = c.mms[m].dgen /\ d.mms[m].text = c.mms[m].text
    /\ d.map.mm = m /\ d.map.dev = c.map.dev /\ d.map.entry = c.map.entry
    /\ d.map.was = c.map.was /\ d.map.todo = {} /\ c.map.todo = {}

\* The key of a slot does not change with the list of its mm.
LEMMA KeyRestocked ==
    ASSUME CoreTyped(core), core.map.mm \in Slot, Restocked(core, core'), NEW s \in Slot
    PROVE  /\ KeyOf(core', s) = KeyOf(core, s) /\ core'.gen = core.gen /\ core'.alive = core.alive
           /\ MmOf(core', s).dgen = MmOf(core, s).dgen /\ MmOf(core', s).ridx = MmOf(core, s).ridx
           /\ MmOf(core', s).rgen = MmOf(core, s).rgen /\ MmOf(core', s).text = MmOf(core, s).text
  <1>1. /\ core.mm[s] \in Slot /\ core'.mm[s] = core.mm[s] /\ core'.gen = core.gen
        /\ core'.alive = core.alive
    BY Zenon DEF CoreTyped, Restocked, MmOnly
  <1>2. /\ MmOf(core', s).dgen = MmOf(core, s).dgen /\ MmOf(core', s).ridx = MmOf(core, s).ridx
        /\ MmOf(core', s).rgen = MmOf(core, s).rgen /\ MmOf(core', s).text = MmOf(core, s).text
    <2>1. CASE core.mm[s] = core.map.mm
      BY <1>1, <2>1, Zenon DEF MmOf, Restocked
    <2>2. CASE core.mm[s] # core.map.mm
      BY <1>1, <2>2, Zenon DEF MmOf, Restocked, MmOnly
    <2> QED
      BY <2>1, <2>2, Zenon
  <1>3. AddressSpace(core', s) = AddressSpace(core, s)
    BY <1>2, Zenon DEF AddressSpace
  <1>4. /\ KeyOf(core', s) = [slot |-> s, gen |-> core'.gen[s], space |-> AddressSpace(core', s)]
        /\ KeyOf(core, s) = [slot |-> s, gen |-> core.gen[s], space |-> AddressSpace(core, s)]
    BY Zenon DEF KeyOf, PolicyKey, Policy
  <1> QED
    BY <1>1, <1>2, <1>3, <1>4, Zenon

\* A store keeps every key and takes nothing a slot might be served with.
LEMMA RestockedServes ==
    ASSUME NuttxInv, nx.cpu = NoSlot, nx' = nx, core.map # NoMap, Restocked(core, core'),
           core'.map.next # "range", StoresSound(core')
    PROVE  NuttxInv' /\ PortStep(core, core', NuttxTask, NuttxTask', NuttxArmed, NuttxArmed')
  <1> DEFINE m == core.map.mm
  <1>1. /\ CoreTyped(core) /\ m \in Slot /\ core.call.op = "none" /\ core.map.dev \in Devices
        /\ \E t \in Slot : core.alive[t] /\ core.mm[t] = m
        /\ core.map.entry # 0 /\ core.map.entry = lxp_device_map_index(core.map.was, core.map.dev)
        /\ StoresSound(core)
        /\ \A t \in Slot \ core.map.todo :
               core.alive[t] /\ core.mm[t] = m => Staged(nx.maps[t], core.map.dev)
    BY Zenon DEF NuttxInv, CoreInv, MapSound
  <1>2. /\ MmOnly(core, core', m) /\ core'.map.mm = m /\ core'.map.dev = core.map.dev
        /\ core'.map.entry = core.map.entry /\ core'.map.was = core.map.was
        /\ core'.map.todo = core.map.todo
        /\ core'.alive = core.alive /\ core'.mm = core.mm /\ core'.call = core.call
    BY Zenon DEF Restocked, MmOnly
  <1>3. MapSound(core', nx)
    BY <1>1, <1>2, ZenonT(60) DEF MapSound
  <1>4. ASSUME NEW s \in Slot PROVE Granted(core, s) \subseteq Granted(core', s)
    <2>1. CASE core.mm[s] # m
      BY <1>1, <1>2, <2>1, OthersGrants, Zenon
    <2>2. CASE core.mm[s] = m
      <3>1. Granted(core', s) =
                {core.map.was, Stored(core.map.was, core.map.entry, core.map.dev)}
        BY <1>2, <2>2, Zenon DEF Granted
      <3>2. CASE core.map.next = "range"
        <4>1. MmOf(core, s).devs = core.map.was
          BY <1>1, <2>2, <3>2, Zenon DEF StoresSound, MmOf
        <4> QED
          BY <3>1, <3>2, <4>1, Zenon DEF Granted
      <3>3. CASE core.map.next # "range"
        BY <2>2, <3>1, <3>3, Zenon DEF Granted
      <3> QED
        BY <3>2, <3>3, Zenon
    <2> QED
      BY <2>1, <2>2, Zenon
  <1>5. ASSUME NEW s \in Slot, NEW k, KeyOld(core, k, s)
        PROVE  /\ KeyOld(core', k, s)
               /\ core'.alive[s] /\ k = KeyOf(core', s) =>
                      /\ core.alive[s] /\ k = KeyOf(core, s)
                      /\ Views(core, s) \subseteq Views(core', s)
                      /\ RegsOf(core, s) \subseteq RegsOf(core', s)
    <2>1. /\ KeyOf(core', s) = KeyOf(core, s) /\ core'.gen = core.gen /\ core'.alive = core.alive
          /\ MmOf(core', s).dgen = MmOf(core, s).dgen /\ MmOf(core', s).ridx = MmOf(core, s).ridx
          /\ MmOf(core', s).rgen = MmOf(core, s).rgen /\ MmOf(core', s).text = MmOf(core, s).text
      BY <1>1, KeyRestocked, Zenon
    <2>2. KeyOld(core', k, s)
      BY <1>5, <2>1, Zenon DEF KeyOld
    <2>3. Views(core, s) \subseteq Views(core', s) /\ RegsOf(core, s) \subseteq RegsOf(core', s)
      BY <1>4, <2>1, MoreViews, Zenon
    <2> QED
      BY <2>1, <2>2, <2>3, Zenon
  <1>6. Carries(core, core')
    BY <1>5, Zenon DEF Carries
  <1> QED
    BY <1>1, <1>2, <1>3, <1>6, MmStepServes, Zenon

\* The list of an mm is replaced, and the mapping goes on to its next store.
LEMMA RestockFields ==
    ASSUME CoreTyped(core), core.map.mm \in Slot, core.map.todo = {}, NEW D \in DeviceLists,
           NEW n \in {"attrs", "generation"},
           core' = [core EXCEPT !.mms[core.map.mm].devs = D, !.map.next = n]
    PROVE  /\ Restocked(core, core') /\ core'.map.next = n
           /\ core'.mms[core.map.mm].devs = D
  <1> DEFINE m == core.map.mm
             y == core.mms[m]
             x == [y EXCEPT !.devs = D]
             g == [core.map EXCEPT !.next = n]
  <1>1. y \in Mms /\ core.map \in Staging
    BY Zenon DEF CoreTyped
  <1>2. core' = [core EXCEPT !.mms[m] = x, !.map = g]
    BY ZenonT(60) DEF CoreTyped, CoreRecord
  <1>3. /\ g \in Staging /\ g.mm = m /\ g.dev = core.map.dev /\ g.entry = core.map.entry
        /\ g.was = core.map.was /\ g.todo = core.map.todo /\ g.next = n
    BY <1>1, ZenonT(60) DEF Staging
  <1>4. /\ x \in Mms /\ x.ridx = y.ridx /\ x.rgen = y.rgen /\ x.dgen = y.dgen /\ x.text = y.text
        /\ x.devs = D
    BY <1>1, ZenonT(60) DEF Mms
  <1> HIDE DEF x, g, y
  <1>5. MmOnly(core, core', m) /\ core'.mms[m] = x /\ core'.map = g
    <2>1. m \in Slot /\ x \in Mms /\ g \in Staging
      BY <1>3, <1>4, Zenon
    <2> HIDE DEF m
    <2> QED
      BY <1>2, <2>1, MmFields
  <1> QED
    BY <1>3, <1>4, <1>5, ZenonT(60) DEF Restocked, y

\* The bounds of the range are stored.
LEMMA StoreRangeServes ==
    ASSUME NuttxInv, MapStoreRange
    PROVE  NuttxInv' /\ PortStep(core, core', NuttxTask, NuttxTask', NuttxArmed, NuttxArmed')
  <1> DEFINE m == core.map.mm
             devs == core.mms[m].devs
             i == core.map.entry
             dev == core.map.dev
  <1>1. /\ CoreTyped(core) /\ core.map # NoMap /\ m \in Slot /\ dev \in Devices
        /\ core.map.todo = {} /\ core.map.next = "range" /\ nx.cpu = NoSlot /\ nx' = nx
        /\ i # 0 /\ i = lxp_device_map_index(core.map.was, dev) /\ devs = core.map.was
        /\ devs \in DeviceLists /\ i \in Nat
    BY ZenonT(30) DEF MapStoreRange, NuttxInv, MapSound, StoresSound, CoreInv, CoreTyped, Mms,
       Staging
  <1>2. PICK old \in IF i <= Len(devs) THEN {devs[i].attrs}
                     ELSE {0} \cup {d.attrs : d \in core.bound.devs} :
            core' = [core EXCEPT !.mms[m].devs = Stored(devs, i, [dev EXCEPT !.attrs = old]),
                                 !.map.next = "attrs"]
    BY Zenon DEF MapStoreRange
  <1>3. old \in Nat
    <2>1. CASE i <= Len(devs)
      <3>1. i \in 1..Len(devs) /\ devs \in Seq(Devices)
        BY <1>1, <2>1 DEF DeviceLists
      <3>2. devs[i] \in Devices
        BY <3>1
      <3> QED
        BY <1>2, <2>1, <3>2 DEF Devices
    <2>2. CASE ~(i <= Len(devs))
      <3>1. core.bound.devs \subseteq Devices
        BY <1>1, Zenon DEF CoreTyped, Bounds
      <3>2. \A d \in Devices : d.attrs \in Nat
        BY DEF Devices
      <3>3. old = 0 \/ \E d \in core.bound.devs : old = d.attrs
        BY <1>2, <2>2, Zenon
      <3> QED
        BY <3>1, <3>2, <3>3
    <2> QED
      BY <2>1, <2>2, Zenon
  <1> DEFINE x == [dev EXCEPT !.attrs = old]
             D == Stored(devs, i, x)
  <1>4. x \in Devices /\ x.addr = dev.addr
    BY <1>1, <1>3, ZenonT(60) DEF Devices
  <1> HIDE DEF x
  <1>5. D \in DeviceLists
    <2>1. /\ devs \in DeviceLists /\ dev \in Devices /\ i \in Nat /\ i # 0
          /\ i = lxp_device_map_index(devs, dev)
      BY <1>1, Zenon
    <2> HIDE DEF devs, dev, i
    <2> QED
      BY <1>4, <2>1, StoredList
  <1>6. core' = [core EXCEPT !.mms[m].devs = D, !.map.next = "attrs"]
    BY <1>2, Zenon DEF x
  <1>7. Restocked(core, core') /\ core'.map.next = "attrs" /\ core'.mms[m].devs = D
    <2> HIDE DEF D
    <2> QED
      BY <1>1, <1>5, <1>6, RestockFields, Zenon
  <1>8. StoresSound(core')
    BY <1>1, <1>4, <1>7, Zenon DEF StoresSound, Restocked
  <1> QED
    BY <1>1, <1>7, <1>8, RestockedServes, Zenon

\* The attributes of the range are stored.
LEMMA StoreAttrsServes ==
    ASSUME NuttxInv, MapStoreAttrs
    PROVE  NuttxInv' /\ PortStep(core, core', NuttxTask, NuttxTask', NuttxArmed, NuttxArmed')
  <1> DEFINE m == core.map.mm
             devs == core.mms[m].devs
             i == core.map.entry
             dev == core.map.dev
             w == core.map.was
  <1>1. /\ CoreTyped(core) /\ core.map # NoMap /\ m \in Slot /\ dev \in Devices
        /\ core.map.todo = {} /\ core.map.next = "attrs" /\ nx.cpu = NoSlot /\ nx' = nx
        /\ i # 0 /\ i = lxp_device_map_index(w, dev) /\ w \in DeviceLists /\ i \in Nat
        /\ \E x \in Devices : x.addr = dev.addr /\ devs = Stored(w, i, x)
        /\ core' = [core EXCEPT !.mms[m].devs = Stored(devs, i, dev), !.map.next = "generation"]
    BY ZenonT(30) DEF MapStoreAttrs, NuttxInv, MapSound, StoresSound, CoreInv, CoreTyped, Staging
  <1>2. PICK x \in Devices : x.addr = dev.addr /\ devs = Stored(w, i, x)
    BY <1>1, Zenon
  <1> DEFINE D == Stored(w, i, dev)
  <1>3. D \in DeviceLists /\ Stored(devs, i, dev) = D
    <2>1. /\ w \in DeviceLists /\ dev \in Devices /\ i \in Nat /\ i # 0
          /\ i = lxp_device_map_index(w, dev)
      BY <1>1, Zenon
    <2> HIDE DEF w, dev, i, devs
    <2>2. \A y \in Devices : Stored(Stored(w, i, x), i, y) = Stored(w, i, y)
      BY <1>2, <2>1, StoredList
    <2>3. D \in DeviceLists
      BY <2>1, StoredList
    <2> QED
      BY <1>2, <2>1, <2>2, <2>3, Zenon
  <1>4. core' = [core EXCEPT !.mms[m].devs = D, !.map.next = "generation"]
    BY <1>1, <1>3, Zenon
  <1>5. Restocked(core, core') /\ core'.map.next = "generation" /\ core'.mms[m].devs = D
    <2> HIDE DEF D
    <2> QED
      BY <1>1, <1>3, <1>4, RestockFields, Zenon
  <1>6. StoresSound(core')
    BY <1>1, <1>5, Zenon DEF StoresSound, Restocked
  <1> QED
    BY <1>1, <1>5, <1>6, RestockedServes, Zenon

\* The mm takes the range and its generation grows.
Committed(c, d, m) ==
    MmOnly(c, d, m) /\ d.map = NoMap /\ d.mms[m].dgen = c.mms[m].dgen + 1

\* The commit of a mapping gives the mm a new device generation.
LEMMA CommitFields ==
    ASSUME NuttxInv, MapCommit
    PROVE  /\ core.map.mm \in Slot /\ Committed(core, core', core.map.mm)
           /\ core.call.op = "none" /\ nx.cpu = NoSlot /\ nx' = nx
  <1> DEFINE m == core.map.mm
             y == core.mms[m]
             x == [y EXCEPT !.dgen = y.dgen + 1]
  <1>1. /\ CoreTyped(core) /\ core.map # NoMap /\ m \in Slot /\ y \in Mms
        /\ core.call.op = "none" /\ nx.cpu = NoSlot /\ nx' = nx
        /\ core' = [core EXCEPT !.mms[m].dgen = y.dgen + 1, !.map = NoMap]
    BY ZenonT(30) DEF MapCommit, NuttxInv, MapSound, CoreInv, CoreTyped
  <1>2. core' = [core EXCEPT !.mms[m] = x, !.map = NoMap]
    BY <1>1, ZenonT(60) DEF CoreTyped, CoreRecord
  <1>3. x \in Mms /\ x.dgen = y.dgen + 1
    <2> HIDE DEF y
    <2>1. /\ y = [ridx |-> y.ridx, rgen |-> y.rgen, dgen |-> y.dgen, devs |-> y.devs, text |-> y.text]
          /\ y.ridx \in Region /\ y.rgen \in Nat /\ y.dgen \in Nat /\ y.text \in BOOLEAN
          /\ y.devs \in DeviceLists
      BY <1>1, Zenon DEF Mms
    <2>4. x = [y EXCEPT !.dgen = y.dgen + 1]
      BY Zenon
    <2> HIDE DEF x
    <2>2. x = [ridx |-> y.ridx, rgen |-> y.rgen, dgen |-> y.dgen + 1, devs |-> y.devs, text |-> y.text]
      BY ONLY <2>1, <2>4, Zenon
    <2>3. y.dgen + 1 \in Nat
      BY <2>1
    <2> QED
      BY ONLY <2>1, <2>2, <2>3, Zenon DEF Mms
  <1> HIDE DEF x
  <1>4. MmOnly(core, core', m) /\ core'.mms[m] = x /\ core'.map = NoMap
    BY <1>1, <1>2, <1>3, NoStaging, MmFields, Zenon
  <1> QED
    BY <1>1, <1>3, <1>4, Zenon DEF Committed

\* No key made before the commit is the key of a slot of the mm after it.
LEMMA KeyCommitted ==
    ASSUME CoreTyped(core), NEW m \in Slot, Committed(core, core', m), NEW s \in Slot, NEW k,
           KeyOld(core, k, s)
    PROVE  /\ KeyOld(core', k, s)
           /\ core'.alive[s] /\ k = KeyOf(core', s) =>
                  core.alive[s] /\ k = KeyOf(core, s) /\ core.mm[s] # m
  <1>1. /\ MmOf(core, s).dgen \in Nat /\ core'.gen = core.gen /\ core'.alive = core.alive
        /\ core.mm[s] \in Slot /\ core'.mm = core.mm
    BY Zenon DEF CoreTyped, Committed, MmOnly, MmOf, Mms
  <1>2. CASE core.mm[s] = m
    <2>1. MmOf(core', s).dgen = MmOf(core, s).dgen + 1
      BY <1>1, <1>2, ZenonT(60) DEF MmOf, Committed
    <2>2. KeyOld(core', k, s)
      BY <1>1, <2>1 DEF KeyOld
    <2>3. ASSUME core'.alive[s], k = KeyOf(core', s) PROVE FALSE
      <3>1. k.gen = core.gen[s] /\ k.space.dgen = MmOf(core, s).dgen + 1
        BY <1>1, <2>1, <2>3, ZenonT(60) DEF KeyOf, PolicyKey, Policy, AddressSpace
      <3> QED
        BY <1>1, <2>3, <3>1, SMTT(30) DEF KeyOld
    <2> QED
      BY <2>2, <2>3, Zenon
  <1>3. CASE core.mm[s] # m
    <2>1. MmOf(core', s) = MmOf(core, s)
      BY <1>1, <1>3, ZenonT(60) DEF MmOf, Committed, MmOnly
    <2>2. KeyOf(core', s) = KeyOf(core, s)
      BY <1>1, <2>1, SamePolicy, SMTT(30) DEF KeyOf
    <2> QED
      BY <1>1, <1>3, <2>1, <2>2, ZenonT(60) DEF KeyOld
  <1> QED
    BY <1>2, <1>3, Zenon

\* The generation grows: what was compiled for the mm is out of date.
LEMMA MapCommitServes ==
    ASSUME NuttxInv, MapCommit
    PROVE  NuttxInv' /\ PortStep(core, core', NuttxTask, NuttxTask', NuttxArmed, NuttxArmed')
  <1> DEFINE m == core.map.mm
  <1>1. /\ m \in Slot /\ Committed(core, core', m) /\ MmOnly(core, core', m)
        /\ core'.map = NoMap /\ core.call.op = "none" /\ nx.cpu = NoSlot /\ nx' = nx
        /\ CoreTyped(core)
    BY CommitFields, Zenon DEF NuttxInv, CoreInv, Committed
  <1>2. MapSound(core', nx)
    BY <1>1, Zenon DEF MapSound
  <1>3. ASSUME NEW s \in Slot, NEW k, KeyOld(core, k, s)
        PROVE  /\ KeyOld(core', k, s)
               /\ core'.alive[s] /\ k = KeyOf(core', s) =>
                      /\ core.alive[s] /\ k = KeyOf(core, s)
                      /\ Views(core, s) \subseteq Views(core', s)
                      /\ RegsOf(core, s) \subseteq RegsOf(core', s)
    <2>1. /\ KeyOld(core', k, s)
          /\ core'.alive[s] /\ k = KeyOf(core', s) =>
                 core.alive[s] /\ k = KeyOf(core, s) /\ core.mm[s] # m
      BY <1>1, <1>3, KeyCommitted, Zenon
    <2>2. core.mm[s] # m =>
              MmOf(core', s) = MmOf(core, s) /\ Granted(core', s) = Granted(core, s)
      BY <1>1, OthersGrants, Zenon
    <2>3. core.mm[s] # m =>
              Views(core, s) \subseteq Views(core', s) /\ RegsOf(core, s) \subseteq RegsOf(core', s)
      BY <2>2, MoreViews, Zenon
    <2> QED
      BY <2>1, <2>3, Zenon
  <1>4. Carries(core, core')
    BY <1>3, Zenon DEF Carries
  <1> QED
    BY <1>1, <1>2, <1>4, MmStepServes, Zenon

-----------------------------------------------------------------------------
\* A guest traps or faults: only its own request and position change.
LEMMA NuttxGuestServes ==
    ASSUME NuttxInv, NEW s \in Slot, NEW o \in {"fast", "park", "exit"},
           lxp_svc_handler(s, o) \/ lxp_memfault_handler(s)
    PROVE  NuttxInv' /\ PortStep(core, core', NuttxTask, NuttxTask', NuttxArmed, NuttxArmed')
  <1>1. /\ CoreInv(core) /\ CoreTyped(core) /\ nx' = nx /\ nx.cpu = s /\ core.pos[s] = "user"
        /\ \/ core' = lxp_dispatch_slot(core, s, nx.gen[s], o)
           \/ core' = Faulted(core, s, nx.gen[s])
    BY ZenonT(30) DEF NuttxInv, CoreInv, lxp_svc_handler, lxp_memfault_handler
  <1>2. core.call.stage = "out"
    BY <1>1, SMTT(30) DEF NuttxInv, CpuSound, Slot, NoSlot
  <1>3. Touched(core, core')
    BY <1>1, GuestTouches, Zenon
  <1>4. /\ Keeps(core, core') /\ \A t \in Slot : MmOf(core', t) = MmOf(core, t)
    BY <1>1, <1>2, <1>3, TouchKeeps, ZenonT(60)
  <1>5. CoreInv(core') /\ CoreTyped(core') /\ Kept(core, core') /\ Follows(NuttxTask, core')
    BY <1>1, <1>4, KeepsFollows, ZenonT(30) DEF NuttxInv, Keeps, CoreInv
  <1>6. ProfilesSound(core', nx) /\ InstalledSound(core', nx)
    <2>1. GrantsKept(core, core')
      BY <1>3, GrantsSame, Zenon DEF Touched
    <2> QED
      BY <1>1, <1>5, <2>1, SoundKept, ZenonT(60) DEF NuttxInv
  <1>7. MapSound(core', nx) /\ CpuSound(core', nx)
    <2>1. /\ core'.map = core.map /\ core'.mms = core.mms /\ core'.mm = core.mm
          /\ core'.alive = core.alive /\ core'.call = core.call
      BY <1>3, Zenon DEF Touched
    <2>2. StoresSound(core) => StoresSound(core')
      BY <2>1, Zenon DEF StoresSound
    <2>3. CpuSound(core', nx)
      BY <2>1, Zenon DEF NuttxInv, CpuSound
    <2> QED
      BY <2>1, <2>2, <2>3, ZenonT(60) DEF NuttxInv, MapSound
  <1>8. NuttxViews'
    <2>1. /\ core'.runnable = core.runnable /\ MmOf(core', s) = MmOf(core, s)
          /\ Granted(core', s) = Granted(core, s)
      BY <1>3, <1>4, GrantsSame, Zenon DEF Touched
    <2> QED
      BY <1>1, <2>1, Zenon DEF NuttxInv, NuttxViews
  <1>9. NuttxTask' = NuttxTask /\ NuttxArmed' = NuttxArmed
    BY <1>1, Zenon DEF NuttxTask, NuttxArmed
  <1>10. PortStep(core, core', NuttxTask, NuttxTask', NuttxArmed, NuttxArmed')
    BY <1>3, <1>9, NuttxUnseen, Zenon DEF Touched
  <1> QED
    BY <1>1, <1>5, <1>6, <1>7, <1>8, <1>9, <1>10, ZenonT(60) DEF NuttxInv

\* The native tasks, their maps and their order stay.
NxSame(p, q) ==
    /\ NxTyped(q) /\ q.pid = p.pid /\ q.gen = p.gen /\ q.nat = p.nat /\ q.maps = p.maps
    /\ q.queue = p.queue /\ q.irqs = p.irqs /\ q.ev = p.ev

\* A compiled profile is stored for one slot.
Compiled(p, s, x) == [p EXCEPT !.profile[s] = x]

\* Storing a compiled profile changes the profile of that slot only.
LEMMA ProfileFields ==
    ASSUME NEW p, NxTyped(p), NEW s \in Slot, NEW x, NEW q, q = Compiled(p, s, x)
    PROVE  /\ NxSame(p, q) /\ q.installed = p.installed /\ q.mpu = p.mpu
           /\ q.profile[s] = x /\ \A t \in Slot \ {s} : q.profile[t] = p.profile[t]
  <1>1. /\ NxRecord(q) /\ q.pid = p.pid /\ q.gen = p.gen /\ q.nat = p.nat /\ q.maps = p.maps
        /\ q.installed = p.installed /\ q.mpu = p.mpu
        /\ q.queue = p.queue /\ q.cpu = p.cpu /\ q.irqs = p.irqs /\ q.ev = p.ev
        /\ q.profile = [p.profile EXCEPT ![s] = x]
    BY Zenon DEF NxTyped, NxRecord, Compiled
  <1>2. q.profile[s] = x /\ \A t \in Slot \ {s} : q.profile[t] = p.profile[t]
    BY <1>1, Zenon DEF NxTyped
  <1>3. q.profile = [t \in Slot |-> q.profile[t]]
    <2> DEFINE f == p.profile
               g == q.profile
    <2>1. f = [t \in Slot |-> f[t]] /\ g = [f EXCEPT ![s] = x]
      BY <1>1, Zenon DEF NxTyped
    <2> HIDE DEF f, g
    <2>2. g = [t \in Slot |-> g[t]]
      BY ONLY <2>1, Zenon
    <2> QED
      BY <2>2, Zenon DEF g
  <1>4. NxTyped(q)
    BY <1>1, <1>3, Zenon DEF NxTyped
  <1> QED
    BY ONLY <1>1, <1>2, <1>4, Zenon DEF NxSame

\* The dynamic regions are written, or switched off.
Written(p, m, i) == [p EXCEPT !.mpu = m, !.installed = i]

\* Writing the dynamic regions changes the MPU and what is installed only.
LEMMA WrittenFields ==
    ASSUME NEW p, NxTyped(p), NEW m, NEW i, NEW q, q = Written(p, m, i)
    PROVE  NxSame(p, q) /\ q.installed = i /\ q.mpu = m /\ q.profile = p.profile
  <1>1. /\ NxRecord(q) /\ q.pid = p.pid /\ q.gen = p.gen /\ q.nat = p.nat /\ q.maps = p.maps
        /\ q.installed = i /\ q.mpu = m /\ q.profile = p.profile
        /\ q.queue = p.queue /\ q.cpu = p.cpu /\ q.irqs = p.irqs /\ q.ev = p.ev
    BY Zenon DEF NxTyped, NxRecord, Written
  <1>2. NxTyped(q)
    BY <1>1, Zenon DEF NxTyped
  <1> QED
    BY ONLY <1>1, <1>2, Zenon DEF NxSame

\* The task on the CPU changes.
LEMMA CpuFields ==
    ASSUME NEW p, NxTyped(p), NEW t \in Slot \cup {NoSlot}, NEW q, q = [p EXCEPT !.cpu = t]
    PROVE  /\ NxSame(p, q) /\ q.installed = p.installed /\ q.mpu = p.mpu
           /\ q.profile = p.profile /\ q.cpu = t
  <1>1. /\ NxRecord(q) /\ q.pid = p.pid /\ q.gen = p.gen /\ q.nat = p.nat /\ q.maps = p.maps
        /\ q.installed = p.installed /\ q.mpu = p.mpu /\ q.profile = p.profile
        /\ q.queue = p.queue /\ q.cpu = t /\ q.irqs = p.irqs /\ q.ev = p.ev
    BY ZenonT(30) DEF NxTyped, NxRecord
  <1>2. NxTyped(q)
    BY <1>1, ZenonT(60) DEF NxTyped
  <1> QED
    BY ONLY <1>1, <1>2, Zenon DEF NxSame

\* The key of a live slot is not ahead of it.
LEMMA OwnKey ==
    ASSUME CoreTyped(core), NEW s \in Slot
    PROVE  /\ KeyOld(core, KeyOf(core, s), s) /\ KeyOf(core, s).slot = s
           /\ KeyOf(core, s).space = AddressSpace(core, s)
  <1>1. /\ KeyOf(core, s).gen = core.gen[s] /\ KeyOf(core, s).slot = s
        /\ KeyOf(core, s).space = AddressSpace(core, s)
        /\ AddressSpace(core, s).dgen = MmOf(core, s).dgen
    BY Zenon DEF KeyOf, PolicyKey, Policy, AddressSpace
  <1>2. core.gen[s] \in Nat /\ MmOf(core, s).dgen \in Nat
    BY Zenon DEF CoreTyped, MmOf, Mms
  <1> QED
    BY <1>1, <1>2 DEF KeyOld

\* Ranges that were staged and are those of the mm are among those a slot may
\* be served with: with the attributes of a former range in the entry they are
\* not as staged.
LEMMA CompiledIsGranted ==
    ASSUME CoreTyped(core), NEW p, MapSound(core, p), NEW s \in Slot, core.alive[s],
           p.maps[s] = Restored(MmOf(core, s).devs), Len(MmOf(core, s).devs) <= NDEV
    PROVE  p.maps[s] \in Views(core, s)
  <1> DEFINE devs == MmOf(core, s).devs
             w == core.map.was
             i == core.map.entry
             dev == core.map.dev
  <1> SUFFICES \E d \in Granted(core, s) : Restored(devs) = Restored(d)
    BY Zenon DEF Views
  <1>1. CASE core.map.mm # core.mm[s] \/ core.map.next = "range"
    <2>1. Granted(core, s) = {devs}
      BY <1>1, Zenon DEF Granted
    <2> QED
      BY <2>1, Zenon
  <1>2. CASE ~(core.map.mm # core.mm[s] \/ core.map.next = "range")
    <2>1. /\ core.map.mm = core.mm[s] /\ core.map.next \in {"attrs", "generation"}
          /\ core.map # NoMap /\ w \in DeviceLists /\ i \in Nat
      BY <1>2, NoMapFields, Zenon DEF CoreTyped, Staging
    <2>2. Granted(core, s) = {w, Stored(w, i, dev)}
      BY <1>2, Zenon DEF Granted
    <2>3. /\ dev \in Devices /\ i # 0 /\ i = lxp_device_map_index(w, dev)
          /\ StoresSound(core) /\ devs = core.mms[core.map.mm].devs
          /\ s \notin core.map.todo => Staged(p.maps[s], dev)
      BY <2>1, Zenon DEF MapSound, MmOf
    <2>4. CASE core.map.next = "generation"
      <3>1. devs = Stored(w, i, dev)
        BY <2>3, <2>4, Zenon DEF StoresSound
      <3> QED
        BY <2>2, <3>1, Zenon
    <2>5. CASE core.map.next = "attrs"
      <3>1. PICK x \in Devices : x.addr = dev.addr /\ devs = Stored(w, i, x)
        BY <2>3, <2>5, Zenon DEF StoresSound
      <3>2. Staged(p.maps[s], dev)
        <4>1. core.map.todo = {}
          BY <2>3, <2>5, Zenon DEF StoresSound
        <4> QED
          BY <2>3, <4>1, Zenon
      <3> HIDE DEF devs, i, dev, w
      <3>3. devs \in DeviceLists /\ i \in 1..Len(devs) /\ devs[i] = x
        BY <2>1, <2>3, <3>1, StoredList
      <3>4. i \in 1..NDEV /\ i <= Len(devs)
        BY <3>3 DEF devs, NDEV, DeviceLists
      <3>5. Restored(devs)[i] = x
        BY <3>3, <3>4, Zenon DEF Restored
      <3>6. x = dev
        BY <3>1, <3>2, <3>4, <3>5, Zenon DEF Staged, devs
      <3> QED
        BY <2>2, <3>1, <3>6, Zenon
    <2> QED
      BY <2>1, <2>4, <2>5, Zenon
  <1> QED
    BY <1>1, <1>2, Zenon

\* nuttx_prepare_profile leaves a profile of the slot's present policy, or
\* fails; what is compiled for the others stays.
LEMMA PrepareProfileFields ==
    ASSUME CoreTyped(core), NEW s \in Slot, NEW p, NxTyped(p), NoHoles(p),
           ProfilesSound(core, p), MapSound(core, p), core.alive[s], NEW fits, NEW r,
           r = nuttx_prepare_profile(p, s, core.gen[s], fits)
    PROVE  /\ NxSame(p, r.p) /\ r.p.installed = p.installed /\ r.p.mpu = p.mpu
           /\ ProfilesSound(core, r.p)
           /\ r.ok => /\ r.p.profile[s].key = KeyOf(core, s)
                      /\ r.p.profile[s].devs \in Views(core, s)
  <1> DEFINE pol == Policy(core, s, core.gen[s])
             key == PolicyKey(pol)
  <1>1. key = KeyOf(core, s) /\ pol.devs = MmOf(core, s).devs
    BY Zenon DEF KeyOf, Policy
  <1>2. MmOf(core, s).devs \in Seq(Devices)
    BY Zenon DEF CoreTyped, MmOf, Mms, DeviceLists
  <1>3. \/ p.profile[s].valid /\ p.profile[s].key = key /\ r = [ok |-> TRUE, p |-> p]
        \/ r = [ok |-> FALSE, p |-> [p EXCEPT !.profile[s] = NuttxNoProfile]]
        \/ /\ StagedAsGranted(p.maps[s], pol.devs)
           /\ r = [ok |-> TRUE, p |-> [p EXCEPT !.profile[s] =
                                           [valid |-> TRUE, key |-> key, devs |-> p.maps[s]]]]
    BY ZenonT(60) DEF nuttx_prepare_profile
  <1> HIDE DEF pol, key
  <1>4. CASE p.profile[s].valid /\ p.profile[s].key = key /\ r = [ok |-> TRUE, p |-> p]
    BY <1>1, <1>4, SMTT(30) DEF ProfilesSound, NxSame
  <1>5. CASE r = [ok |-> FALSE, p |-> [p EXCEPT !.profile[s] = NuttxNoProfile]]
    <2>1. r.p = Compiled(p, s, NuttxNoProfile) /\ ~r.ok
      BY <1>5, SMTT(30) DEF Compiled
    <2>2. /\ NxSame(p, r.p) /\ r.p.installed = p.installed /\ r.p.mpu = p.mpu
          /\ r.p.profile[s] = NuttxNoProfile
          /\ \A t \in Slot \ {s} : r.p.profile[t] = p.profile[t]
      BY <2>1, ProfileFields, SMTT(30)
    <2>3. ASSUME NEW t \in Slot, r.p.profile[t].valid
          PROVE  t # s /\ r.p.profile[t] = p.profile[t]
      BY <2>2, <2>3 DEF NuttxNoProfile
    <2>4. ProfilesSound(core, r.p)
      BY <2>3, ZenonT(60) DEF ProfilesSound
    <2> QED
      BY <2>1, <2>2, <2>4, ZenonT(60)
  <1>6. CASE /\ StagedAsGranted(p.maps[s], pol.devs)
             /\ r = [ok |-> TRUE, p |-> [p EXCEPT !.profile[s] =
                                             [valid |-> TRUE, key |-> key, devs |-> p.maps[s]]]]
    <2> DEFINE x == [valid |-> TRUE, key |-> key, devs |-> p.maps[s]]
    <2>1. r.p = Compiled(p, s, x)
      BY <1>6, SMTT(30) DEF Compiled
    <2>2. x.key = key /\ x.devs = p.maps[s]
      BY ZenonT(60)
    <2> HIDE DEF x
    <2>3. /\ NxSame(p, r.p) /\ r.p.installed = p.installed /\ r.p.mpu = p.mpu
          /\ r.p.profile[s] = x /\ \A t \in Slot \ {s} : r.p.profile[t] = p.profile[t]
      BY <2>1, ProfileFields, SMTT(30)
    <2>4. p.maps[s] \in Views(core, s)
      <3>1. p.maps[s] \in Maps /\ (p.maps[s][2] # NoDev => p.maps[s][1] # NoDev)
        BY ZenonT(60) DEF NxTyped, NoHoles
      <3>2. StagedAsGranted(p.maps[s], MmOf(core, s).devs)
        BY <1>1, <1>6, ZenonT(60)
      <3>3. p.maps[s] = Restored(MmOf(core, s).devs) /\ Len(MmOf(core, s).devs) <= NDEV
        BY <1>2, <3>1, <3>2, StagedIsRestored, ZenonT(60)
      <3> QED
        BY <3>3, CompiledIsGranted, ZenonT(60)
    <2>5. KeyOld(core, KeyOf(core, s), s)
      BY OwnKey, ZenonT(60)
    <2>6. ProfilesSound(core, r.p)
      <3> SUFFICES ASSUME NEW t \in Slot, r.p.profile[t].valid
                   PROVE  /\ KeyOld(core, r.p.profile[t].key, t)
                          /\ core.alive[t] /\ r.p.profile[t].key = KeyOf(core, t) =>
                                 r.p.profile[t].devs \in Views(core, t)
        BY ZenonT(30) DEF ProfilesSound
      <3>1. CASE t = s
        BY <1>1, <2>2, <2>3, <2>4, <2>5, <3>1, ZenonT(60)
      <3>2. CASE t # s
        BY <2>3, <3>2, ZenonT(60) DEF ProfilesSound
      <3> QED
        BY <3>1, <3>2, ZenonT(60)
    <2> QED
      BY <1>1, <2>2, <2>3, <2>4, <2>6, ZenonT(60)
  <1> QED
    BY <1>3, <1>4, <1>5, <1>6, ZenonT(60)

\* The note on a switch to a task: if the task may run, the regions are off or
\* its own.
LEMMA NoteResumeFields ==
    ASSUME NuttxInv, NEW s \in Slot, nx.pid[s], NEW fits, NEW matches, NEW q,
           q = lxp_note_resume(nx, s, fits, matches)
    PROVE  /\ NxSame(nx, q) /\ ProfilesSound(core, q) /\ InstalledSound(core, q)
           /\ core.runnable[s] => q.mpu = Off \/ q.mpu \in RegsOf(core, s)
  <1>1. /\ CoreTyped(core) /\ NxTyped(nx) /\ NoHoles(nx) /\ ProfilesSound(core, nx)
        /\ InstalledSound(core, nx) /\ core.alive[s] /\ nx.gen[s] = core.gen[s] /\ s # NoSlot
        /\ core.gen[s] # 0 /\ core.run = "up" /\ MapSound(core, nx)
    BY NuttxTaskAlive, SMTT(30) DEF NuttxInv, CoreInv, SlotsSound, Slot, NoSlot
  <1> DEFINE sliced == IF nx.budget.owner = s THEN nx
                       ELSE [nx EXCEPT !.budget =
                                [owner |-> s,
                                 slice |-> Quantum(core.bound.base, lxp_guest_sched_weight(core, s))]]
             prof == nuttx_prepare_profile(sliced, s, core.gen[s], fits)
             P == prof.p
  <1>2. \/ q = nx /\ ~core.runnable[s]
        \/ q = Written(P, Off, NoInstalled)
        \/ q = P /\ prof.ok /\ P.installed.valid /\ P.installed.key = KeyOf(core, s)
        \/ q = nuttx_install_profile(P, s) /\ prof.ok
    <2>1. nuttx_current_slot(s) = NoSlot \/ ~lxp_trap_active(core) => ~core.runnable[s]
      BY <1>1, Zenon DEF nuttx_current_slot, lxp_trap_active, lxp_slot_ref_is_runnable,
                  lxp_slot_ref_is_current
    <2>2. q = IF nuttx_current_slot(s) = NoSlot \/ ~lxp_trap_active(core) THEN nx
              ELSE IF ~HasPolicy(core, s, nx.gen[s]) \/ ~prof.ok
              THEN nuttx_disable_dynamic_regions(P)
              ELSE IF P.installed.valid /\ P.installed.key = KeyOf(core, s) THEN P
              ELSE IF matches THEN nuttx_install_profile(P, s)
              ELSE nuttx_disable_dynamic_regions(P)
      BY <1>1, ZenonT(60) DEF lxp_note_resume, KeyOf
    <2> HIDE DEF prof, P
    <2> QED
      BY <2>1, <2>2, ZenonT(60) DEF nuttx_disable_dynamic_regions, Written
  <1>3. /\ NxTyped(sliced) /\ NxSame(nx, sliced) /\ sliced.profile = nx.profile
        /\ sliced.installed = nx.installed /\ sliced.mpu = nx.mpu
    <2>1. sliced = nx \/ \E b : sliced = [nx EXCEPT !.budget = b]
      BY Zenon
    <2> HIDE DEF sliced
    <2> QED
      BY <1>1, <2>1, SliceFields DEF NxSame
  <1> HIDE DEF sliced
  <1>4. NoHoles(sliced) /\ ProfilesSound(core, sliced) /\ MapSound(core, sliced)
    BY <1>1, <1>3, ZenonT(60) DEF NxSame, NoHoles, ProfilesSound, MapSound
  <1>5. /\ NxSame(sliced, P) /\ P.installed = sliced.installed /\ P.mpu = sliced.mpu
        /\ ProfilesSound(core, P)
        /\ prof.ok => /\ P.profile[s].key = KeyOf(core, s)
                      /\ P.profile[s].devs \in Views(core, s)
    <2>1. prof = nuttx_prepare_profile(sliced, s, core.gen[s], fits)
      BY Zenon
    <2> HIDE DEF prof
    <2>2. CoreTyped(core) /\ core.alive[s] /\ NxTyped(sliced)
      BY <1>1, <1>3, Zenon
    <2> QED
      BY <1>4, <2>1, <2>2, PrepareProfileFields
  <1> HIDE DEF prof, P
  <1>6. NxSame(nx, P) /\ InstalledSound(core, P) /\ NxTyped(P)
    BY <1>1, <1>3, <1>5, ZenonT(60) DEF NxSame, InstalledSound
  <1>7. CASE q = nx /\ ~core.runnable[s]
    BY <1>1, <1>7, ZenonT(60) DEF NxSame
  <1>8. CASE q = Written(P, Off, NoInstalled)
    <2>1. NxSame(P, q) /\ q.installed = NoInstalled /\ q.mpu = Off /\ q.profile = P.profile
      BY <1>6, <1>8, WrittenFields, SMTT(30)
    <2>2. InstalledSound(core, q)
      BY <2>1, SMTT(30) DEF InstalledSound, NoInstalled
    <2>3. ProfilesSound(core, q) /\ NxSame(nx, q)
      BY <1>5, <1>6, <2>1, ZenonT(60) DEF ProfilesSound, NxSame
    <2> QED
      BY <2>1, <2>2, <2>3, ZenonT(60)
  <1>9. CASE q = P /\ prof.ok /\ P.installed.valid /\ P.installed.key = KeyOf(core, s)
    <2>1. KeyOf(core, s).slot = s
      BY <1>1, OwnKey, ZenonT(60)
    <2>2. P.mpu \in RegsOf(core, s)
      BY <1>1, <1>6, <1>9, <2>1, ZenonT(60) DEF InstalledSound
    <2> QED
      BY <1>5, <1>6, <1>9, <2>2, ZenonT(30)
  <1>10. CASE q = nuttx_install_profile(P, s) /\ prof.ok
    <2> DEFINE key == KeyOf(core, s)
               m == [ridx |-> key.space.ridx, rgen |-> key.space.rgen, text |-> key.space.text,
                     devs |-> P.profile[s].devs]
               i == [valid |-> TRUE, key |-> key]
    <2>1. q = Written(P, m, i)
      BY <1>5, <1>10, ZenonT(60) DEF nuttx_install_profile, Written
    <2>2. m \in RegsOf(core, s)
      <3>1. key.space = AddressSpace(core, s)
        BY <1>1, OwnKey, ZenonT(60)
      <3>2. P.profile[s].devs \in Views(core, s)
        BY <1>5, <1>10, Zenon
      <3>3. /\ key.space.ridx = MmOf(core, s).ridx /\ key.space.rgen = MmOf(core, s).rgen
            /\ key.space.text = MmOf(core, s).text
        BY <3>1 DEF AddressSpace
      <3> HIDE DEF key
      <3> QED
        BY <3>2, <3>3, Zenon DEF RegsOf
    <2>3. i.valid /\ i.key = key /\ key.slot = s /\ KeyOld(core, key, s)
      BY <1>1, OwnKey, ZenonT(60)
    <2> HIDE DEF key, m, i
    <2>4. NxSame(P, q) /\ q.installed = i /\ q.mpu = m /\ q.profile = P.profile
      BY <1>6, <2>1, WrittenFields, SMTT(30)
    <2>5. InstalledSound(core, q)
      BY <2>2, <2>3, <2>4, ZenonT(60) DEF InstalledSound
    <2>6. ProfilesSound(core, q) /\ NxSame(nx, q)
      BY <1>5, <1>6, <2>4, ZenonT(60) DEF ProfilesSound, NxSame
    <2> QED
      BY <2>2, <2>4, <2>5, <2>6, ZenonT(60)
  <1> QED
    BY <1>2, <1>7, <1>8, <1>9, <1>10, ZenonT(60)

\* A switch or a tick: the core and the tasks stay.
LEMMA NuttxRestServes ==
    ASSUME NuttxInv, core' = core, NxTyped(nx'), nx'.pid = nx.pid, nx'.gen = nx.gen,
           nx'.nat = nx.nat, nx'.maps = nx.maps, nx'.irqs = nx.irqs, nx'.ev = nx.ev,
           Queue(nx'), ProfilesSound(core, nx'), InstalledSound(core, nx'),
           CpuSound(core, nx'), NuttxViews'
    PROVE  NuttxInv' /\ PortStep(core, core', NuttxTask, NuttxTask', NuttxArmed, NuttxArmed')
  <1>1. NuttxTask' = NuttxTask /\ NuttxArmed' = NuttxArmed
    BY ZenonT(60) DEF NuttxTask, NuttxArmed
  <1>2. Tasks(nx') /\ NoHoles(nx') /\ MapSound(core, nx')
    <2>1. Tasks(nx') /\ NoHoles(nx')
      BY DEF NuttxInv, Tasks, NoHoles, Queue, Distinct
    <2> QED
      BY <2>1, Zenon DEF NuttxInv, MapSound
  <1>3. PortStep(core, core', NuttxTask, NuttxTask', NuttxArmed, NuttxArmed')
    BY <1>1, NuttxUnseen, Zenon
  <1> QED
    BY <1>1, <1>2, <1>3, ZenonT(60) DEF NuttxInv

\* NuttX switches to the guest at the head of the ready list.
LEMMA SwitchToGuestServes ==
    ASSUME NuttxInv, SwitchToGuest
    PROVE  NuttxInv' /\ PortStep(core, core', NuttxTask, NuttxTask', NuttxArmed, NuttxArmed')
  <1> DEFINE s == Head(nx.queue)
  <1>1. /\ nx.cpu = NoSlot /\ nx.queue # <<>> /\ core.call.stage = "out" /\ core' = core
        /\ \E fits, matches : nx' = [lxp_note_resume(nx, s, fits, matches) EXCEPT !.cpu = s]
    BY Zenon DEF SwitchToGuest
  <1>2. s \in Slot /\ nx.nat[s] = "ready" /\ nx.pid[s]
    <2>1. nx.queue \in Seq(Slot) /\ Len(nx.queue) \in Nat /\ Len(nx.queue) # 0
      BY <1>1 DEF NuttxInv, NxTyped
    <2>2. s = nx.queue[1] /\ 1 \in 1..Len(nx.queue)
      BY <2>1
    <2> HIDE DEF s
    <2>3. s \in Slot
      BY <2>1, <2>2
    <2> QED
      BY <2>2, <2>3, ZenonT(60) DEF NuttxInv, Tasks
  <1> HIDE DEF s
  <1>3. PICK fits, matches : nx' = [lxp_note_resume(nx, s, fits, matches) EXCEPT !.cpu = s]
    BY <1>1, Zenon
  <1> DEFINE q == lxp_note_resume(nx, s, fits, matches)
  <1>4. nx' = [q EXCEPT !.cpu = s]
    BY <1>3, Zenon
  <1>5. /\ NxSame(nx, q) /\ ProfilesSound(core, q) /\ InstalledSound(core, q)
        /\ core.runnable[s] => q.mpu = Off \/ q.mpu \in RegsOf(core, s)
    BY <1>2, NoteResumeFields, Zenon
  <1> HIDE DEF q
  <1>6. /\ NxSame(q, nx') /\ nx'.installed = q.installed /\ nx'.mpu = q.mpu
        /\ nx'.profile = q.profile /\ nx'.cpu = s
    BY <1>2, <1>4, <1>5, CpuFields, SMTT(30) DEF NxSame
  <1>7. ProfilesSound(core, nx') /\ InstalledSound(core, nx')
    BY <1>5, <1>6, ZenonT(60) DEF ProfilesSound, InstalledSound
  <1>8. CpuSound(core, nx')
    BY <1>1, <1>2, <1>5, <1>6 DEF CpuSound, NxSame
  <1>9. NuttxViews'
    <2> SUFFICES ASSUME core.runnable[s], nx'.mpu # Off
                 PROVE  \E devs \in Granted(core, s) :
                            nx'.mpu = [ridx |-> MmOf(core, s).ridx, rgen |-> MmOf(core, s).rgen,
                                       text |-> MmOf(core, s).text, devs |-> Restored(devs)]
      BY <1>1, <1>6, Zenon DEF NuttxViews
    <2>1. nx'.mpu \in RegsOf(core, s)
      BY <1>5, <1>6, Zenon
    <2> QED
      BY <2>1, Zenon DEF RegsOf, Views
  <1>10. Queue(nx')
    BY <1>5, <1>6 DEF NuttxInv, Tasks, Queue, Distinct, NxSame
  <1> QED
    BY <1>1, <1>5, <1>6, <1>7, <1>8, <1>9, <1>10, NuttxRestServes, ZenonT(60) DEF NxSame

\* The coordinator, or nobody, gets the CPU.
LEMMA SwitchToHostServes ==
    ASSUME NuttxInv, SwitchToHost
    PROVE  NuttxInv' /\ PortStep(core, core', NuttxTask, NuttxTask', NuttxArmed, NuttxArmed')
  <1>1. core' = core /\ nx' = [nx EXCEPT !.cpu = NoSlot] /\ NxTyped(nx)
    BY Zenon DEF SwitchToHost, NuttxInv
  <1>2. /\ NxSame(nx, nx') /\ nx'.installed = nx.installed /\ nx'.mpu = nx.mpu
        /\ nx'.profile = nx.profile /\ nx'.cpu = NoSlot
    BY <1>1, CpuFields, SMTT(30)
  <1>3. /\ ProfilesSound(core, nx') /\ InstalledSound(core, nx') /\ CpuSound(core, nx')
        /\ NuttxViews'
    BY <1>2, ZenonT(30) DEF NuttxInv, ProfilesSound, InstalledSound, CpuSound, NuttxViews
  <1>4. Queue(nx')
    BY <1>2, ZenonT(60) DEF NuttxInv, Tasks, Queue, Distinct, NxSame
  <1> QED
    BY <1>1, <1>2, <1>3, <1>4, NuttxRestServes, ZenonT(60) DEF NxSame

\* The running guest goes behind the other ready ones.
Rotated(p, b, n) == [p EXCEPT !.budget = b, !.cpu = NoSlot, !.queue = n]

\* A rotation changes the order of the ready guests and who has the processor only.
LEMMA RotatedFields ==
    ASSUME NEW p, NxTyped(p), NEW b, NEW n \in Seq(Slot), NEW q, q = Rotated(p, b, n)
    PROVE  /\ NxTyped(q) /\ q.pid = p.pid /\ q.gen = p.gen /\ q.nat = p.nat /\ q.maps = p.maps
           /\ q.profile = p.profile /\ q.installed = p.installed /\ q.mpu = p.mpu
           /\ q.queue = n /\ q.cpu = NoSlot /\ q.irqs = p.irqs /\ q.ev = p.ev
  <1>1. /\ NxRecord(q) /\ q.pid = p.pid /\ q.gen = p.gen /\ q.nat = p.nat /\ q.maps = p.maps
        /\ q.profile = p.profile /\ q.installed = p.installed /\ q.mpu = p.mpu
        /\ q.queue = n /\ q.cpu = NoSlot /\ q.irqs = p.irqs /\ q.ev = p.ev
    BY Zenon DEF NxTyped, NxRecord, Rotated
  <1>2. NxTyped(q)
    BY <1>1, Zenon DEF NxTyped
  <1> QED
    BY ONLY <1>1, <1>2, Zenon

\* The tick of the running guest.
LEMMA RoundRobinServes ==
    ASSUME NuttxInv, nxsched_process_roundrobin
    PROVE  NuttxInv' /\ PortStep(core, core', NuttxTask, NuttxTask', NuttxArmed, NuttxArmed')
  <1> DEFINE s == nx.cpu
             n == Append(Without(nx.queue, s), s)
  <1>1. /\ core' = core /\ s # NoSlot /\ NxTyped(nx)
        /\ \/ \E b : nx' = [nx EXCEPT !.budget = b]
           \/ \E b : nx' = Rotated(nx, b, n)
    BY Zenon DEF nxsched_process_roundrobin, NuttxInv, Rotated
  <1>2. s \in Slot /\ nx.nat[s] = "ready"
    BY <1>1, Zenon DEF NuttxInv, CpuSound, NxTyped
  <1>3. CASE \E b : nx' = [nx EXCEPT !.budget = b]
    <2>1. /\ NxTyped(nx') /\ nx'.pid = nx.pid /\ nx'.gen = nx.gen /\ nx'.nat = nx.nat
          /\ nx'.maps = nx.maps /\ nx'.profile = nx.profile /\ nx'.installed = nx.installed
          /\ nx'.mpu = nx.mpu /\ nx'.queue = nx.queue /\ nx'.cpu = nx.cpu
          /\ nx'.irqs = nx.irqs /\ nx'.ev = nx.ev
      BY <1>1, <1>3, SliceFields, SMTT(30)
    <2>2. /\ ProfilesSound(core, nx') /\ InstalledSound(core, nx') /\ CpuSound(core, nx')
          /\ NuttxViews'
      BY <1>1, <2>1, ZenonT(60) DEF NuttxInv, ProfilesSound, InstalledSound, CpuSound, NuttxViews
    <2>3. Queue(nx')
      BY <2>1, ZenonT(60) DEF NuttxInv, Tasks, Queue, Distinct
    <2> QED
      BY <1>1, <2>1, <2>2, <2>3, NuttxRestServes, ZenonT(60)
  <1>4. CASE \E b : nx' = Rotated(nx, b, n)
    <2> DEFINE w == Without(nx.queue, s)
    <2>1. nx.queue \in Seq(Slot) /\ Distinct(nx.queue) /\ Queue(nx)
      BY Zenon DEF NuttxInv, NxTyped, Tasks, Distinct, Queue
    <2>2. /\ w \in Seq(Slot) /\ Distinct(w)
          /\ \A i \in 1..Len(w) : w[i] # s /\ \E j \in 1..Len(nx.queue) : w[i] = nx.queue[j]
      BY <1>2, <2>1, WithoutSlot, ZenonT(60)
    <2> HIDE DEF w, s
    <2>3. /\ Append(w, s) \in Seq(Slot) /\ Distinct(Append(w, s))
          /\ \A i \in 1..Len(Append(w, s)) :
                 Append(w, s)[i] = s \/ \E j \in 1..Len(w) : Append(w, s)[i] = w[j]
      BY <1>2, <2>2, AppendSlot, Zenon
    <2>4. n = Append(w, s)
      BY Zenon DEF w
    <2>5. n \in Seq(Slot) /\ Distinct(n) /\ \A i \in 1..Len(n) : nx.nat[n[i]] = "ready"
      <3>1. ASSUME NEW i \in 1..Len(Append(w, s)) PROVE nx.nat[Append(w, s)[i]] = "ready"
        <4>1. CASE Append(w, s)[i] = s
          BY <1>2, <4>1, ZenonT(60)
        <4>2. CASE \E j \in 1..Len(w) : Append(w, s)[i] = w[j]
          BY <2>1, <2>2, <4>2 DEF Queue
        <4> QED
          BY <2>3, <4>1, <4>2, ZenonT(60)
      <3> HIDE DEF n
      <3> QED
        BY <2>3, <2>4, <3>1, ZenonT(60)
    <2> HIDE DEF n
    <2>6. /\ NxTyped(nx') /\ nx'.pid = nx.pid /\ nx'.gen = nx.gen /\ nx'.nat = nx.nat
          /\ nx'.maps = nx.maps /\ nx'.profile = nx.profile /\ nx'.installed = nx.installed
          /\ nx'.mpu = nx.mpu /\ nx'.queue = n /\ nx'.cpu = NoSlot
          /\ nx'.irqs = nx.irqs /\ nx'.ev = nx.ev
      BY <1>1, <1>4, <2>5, RotatedFields, SMTT(30)
    <2>7. /\ ProfilesSound(core, nx') /\ InstalledSound(core, nx') /\ CpuSound(core, nx')
          /\ NuttxViews'
      BY <1>1, <2>6, ZenonT(60) DEF NuttxInv, ProfilesSound, InstalledSound, CpuSound, NuttxViews
    <2>8. Queue(nx')
      BY <2>5, <2>6, Zenon DEF Queue
    <2> QED
      BY <1>1, <2>6, <2>7, <2>8, NuttxRestServes, Zenon
  <1> QED
    BY <1>1, <1>3, <1>4, ZenonT(60)

-----------------------------------------------------------------------------

\* Every step of the port keeps the invariant and is a step of the contract.
LEMMA NuttxStep ==
    ASSUME NuttxInv, NuttxNext
    PROVE  NuttxInv' /\ PortStep(core, core', NuttxTask, NuttxTask', NuttxArmed, NuttxArmed')
  <1>1. CASE NuttxCoordinator
    BY <1>1, CoordinatorServes, Zenon
  <1>2. CASE nuttx_spawn_launch \/ nuttx_spawn_resume_start
    <2>1. core.call.op \in Creates /\ core.call.op \in SlotOps /\ core.call.stage = "in"
      BY <1>2, Zenon DEF nuttx_spawn_launch, nuttx_spawn_resume_start, InCall, Creates, SlotOps
    <2>2. spawn_task(core.call.slot, core.call.gen) \/ NAnswer(FALSE, nx)
      BY <1>2, Zenon DEF nuttx_spawn_launch, nuttx_spawn_resume_start
    <2> QED
      BY <2>1, <2>2, SpawnTaskServes, NuttxRefuses, ZenonT(60)
  <1>3. CASE nuttx_spawn_resume_parked \/ nuttx_park_slot
    BY <1>3, NuttxResumeParkServes, ZenonT(60)
  <1>4. CASE nuttx_abort_slot
    BY <1>4, NuttxAbortServes, Zenon
  <1>5. CASE nuttx_prepare \/ NuttxTeardown
    BY <1>5, NuttxBracketServes, Zenon
  <1>6. CASE \E s \in Slot, dev \in core.bound.devs : MapBegin(s, dev)
    BY <1>6, MapBeginServes, Zenon
  <1>7. CASE MapStage \/ MapStoreRange \/ MapStoreAttrs \/ MapCommit
    BY <1>7, MapStageServes, StoreRangeServes, StoreAttrsServes, MapCommitServes, ZenonT(60)
  <1>8. CASE \E s \in Slot, o \in {"fast", "park", "exit"} : lxp_svc_handler(s, o)
    BY <1>8, NuttxGuestServes, ZenonT(60)
  <1>9. CASE \E s \in Slot : lxp_memfault_handler(s)
    <2>1. PICK s \in Slot : lxp_memfault_handler(s)
      BY <1>9, Zenon
    <2>2. "exit" \in {"fast", "park", "exit"}
      BY Zenon
    <2> QED
      BY <2>1, <2>2, NuttxGuestServes, ZenonT(60)
  <1>10. CASE SwitchToGuest \/ SwitchToHost \/ nxsched_process_roundrobin
    BY <1>10, SwitchToGuestServes, SwitchToHostServes, RoundRobinServes, ZenonT(60)
  <1> QED
    BY <1>1, <1>2, <1>3, <1>4, <1>5, <1>6, <1>7, <1>8, <1>9, <1>10, ZenonT(60)
       DEF NuttxNext, NuttxCallback

\* The port starts without a task, a map, a profile or a region.
LEMMA NuttxInvInit ==
    ASSUME NEW bound \in Bounds, CoreInit(bound), NuttxInit
    PROVE  NuttxInv /\ NuttxTask = [s \in Slot |-> Nobody] /\ ~NuttxArmed
  <1>1. CoreInv(core)
    BY CoreInvInit, Zenon
  <1>2. NuttxTask = [s \in Slot |-> Nobody] /\ ~NuttxArmed
    BY Zenon DEF NuttxTask, NuttxArmed, NuttxInit, Nobody
  <1>3. \A s \in Slot : Expected(core, s) = {"none"}
    BY DEF CoreInit, Expected, Idle, Slot, NoSlot
  <1>4. Follows(NuttxTask, core)
    BY <1>2, <1>3, Zenon DEF Follows, Nobody
  <1>5. /\ nx.pid = [s \in Slot |-> FALSE] /\ nx.gen = [s \in Slot |-> 0]
        /\ nx.maps = [s \in Slot |-> NoDevs] /\ nx.nat = [s \in Slot |-> "none"]
        /\ nx.profile = [s \in Slot |-> NuttxNoProfile] /\ nx.installed = NoInstalled
        /\ nx.mpu = Off /\ nx.queue = <<>> /\ nx.cpu = NoSlot /\ NxRecord(nx)
    BY Zenon DEF NuttxInit, NxRecord
  <1>6. NoDevs \in Maps /\ NoDevs[2] = NoDev
    BY SMTT(30) DEF NoDevs, Maps, NDEV
  <1>7. NxTyped(nx) /\ NoHoles(nx)
    BY <1>5, <1>6 DEF NxTyped, NoHoles
  <1>8. Tasks(nx)
    BY <1>5, SMTT(30) DEF Tasks
  <1>9. ProfilesSound(core, nx) /\ InstalledSound(core, nx) /\ CpuSound(core, nx) /\ NuttxViews
    BY <1>5, SMTT(30)
       DEF ProfilesSound, InstalledSound, CpuSound, NuttxViews, NuttxNoProfile, NoInstalled
  <1>10. MapSound(core, nx)
    BY Zenon DEF MapSound, CoreInit
  <1> QED
    BY <1>1, <1>2, <1>4, <1>7, <1>8, <1>9, <1>10 DEF NuttxInv

=============================================================================
