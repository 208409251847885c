------------------------------ MODULE Storage ------------------------------
(***************************************************************************)
(* The two storage clients of the asynchronous gate: the host file system  *)
(* bridge (fs/lxp_hostfs.c) and the block device (dev/lxp_dev_block.c      *)
(* behind dev/lxp_dev.c).  A call runs up to its provider request; when    *)
(* the request is not finished the guest is parked, and the coordinator    *)
(* runs the whole call again until the request has been collected.         *)
(*                                                                         *)
(* A gate is taken at the level its own specification establishes (module  *)
(* AsyncGate): one request at a time, collected only by its owner and tag. *)
(* Data is abstracted: a file has no contents, the disk's contents are its *)
(* partition table.                                                        *)
(***************************************************************************)
EXTENDS Integers, FiniteSets

CONSTANTS
    StoreGuests,   \* incarnations of guest tasks
    NHOSTOPEN,     \* LXP_NHOSTFS_OPEN
    NDEVOPEN,      \* LXP_NDEVOPEN
    NPART,         \* primary partitions of the table
    DiskBlocks,    \* blocks of the medium
    Tables,        \* partition tables a writer may leave on the disk
    StoreProfiles  \* a behaviour is about "fs" or about "block"

Extents == [first : 0..(DiskBlocks + 1), count : 0..(DiskBlocks + 1)]
NoExtent == [first |-> 0, count |-> 0]

ASSUME StorageConstants ==
    /\ {NHOSTOPEN, NDEVOPEN, NPART, DiskBlocks} \subseteq Nat \ {0}
    /\ Tables \subseteq [1..NPART -> Extents]
    /\ StoreProfiles \subseteq {"fs", "block"}

VARIABLES
    gates,     \* the providers' gates
    parked,    \* the call each guest is parked in
    hopen,     \* g_hostfs_open
    hmount,    \* whether the volume is mounted, and g_hostfs_read_only
    table,     \* the partition table on the disk
    views,     \* g_views[1..4]: the extent of each partition, empty if absent
    dopen,     \* g_lnx_devopen, the block opens
    reread,    \* g_reread_open
    lease,     \* g_provider_readers, g_provider_writer
    sgone,     \* guests that are gone
    sprofile   \* the profile of the behaviour

storageVars == <<gates, parked, hopen, hmount, table, views, dopen, reread, lease, sgone,
                 sprofile>>

Parts == 1..NPART
Nobody == 0
IdleGate == [state |-> "IDLE", owner |-> Nobody, tag |-> <<>>]
NoCall == <<>>
ClosedFile == [used |-> FALSE, by |-> Nobody, write |-> FALSE, dir |-> FALSE, pending |-> FALSE]
ClosedDev == [used |-> FALSE, by |-> Nobody, view |-> 0, write |-> FALSE, phase |-> 0]

\* What a call reads and writes.
Store == [gates |-> gates, hopen |-> hopen, mount |-> hmount, table |-> table, views |-> views,
          dopen |-> dopen, reread |-> reread, lease |-> lease]
Save(k) ==
    /\ gates' = k.gates /\ hopen' = k.hopen /\ hmount' = k.mount /\ table' = k.table
    /\ views' = k.views /\ dopen' = k.dopen /\ reread' = k.reread /\ lease' = k.lease
    /\ UNCHANGED sprofile

\* What one run of a call can come to: its answer, or a park.
Answer(k) == [k |-> k, done |-> TRUE]
Again(k) == [k |-> k, done |-> FALSE]
-----------------------------------------------------------------------------
(***************************************************************************)
(* The partition table.                                                    *)
(***************************************************************************)
\* A later entry that overlaps an accepted one is left out, like one that does
\* not fit the medium.
parse_mbr(raw) ==
    LET Fits(e) == e.count # 0 /\ e.first < DiskBlocks /\ e.count <= DiskBlocks - e.first
        Overlaps(e, f) == e.first < f.first + f.count /\ f.first < e.first + e.count
        present[p \in Parts] ==
            Fits(raw[p]) /\ \A q \in 1..(p - 1) : present[q] => ~Overlaps(raw[p], raw[q])
    IN  [p \in Parts |-> IF present[p] THEN raw[p] ELSE NoExtent]

view_present(k, v) == v = 0 \/ k.views[v] # NoExtent

\* lxp_dev_autoreg_block at the start of a run; the volume is mounted.
StorageInit ==
    /\ sprofile \in StoreProfiles
    /\ gates = [d \in {"fs", "block"} |-> IdleGate]
    /\ parked = [g \in StoreGuests |-> NoCall]
    /\ hopen = [i \in 1..NHOSTOPEN |-> ClosedFile]
    /\ hmount = [on |-> TRUE, ro |-> FALSE]
    /\ table \in Tables /\ views = parse_mbr(table)
    /\ sprofile = "fs" => table = CHOOSE t \in Tables : TRUE
    /\ dopen = [i \in 1..NDEVOPEN |-> ClosedDev]
    /\ reread = 0 /\ lease = [readers |-> 0, writer |-> FALSE] /\ sgone = {}
-----------------------------------------------------------------------------
(***************************************************************************)
(* The gate of a provider.                                                 *)
(***************************************************************************)
gate_enter(at, g, op) ==
    CASE at.state = "COMPLETE" /\ at.owner = g /\ at.tag = op -> "COLLECT"
      [] at.state = "IDLE" -> "SUBMIT"
      [] OTHER -> "BLOCK"

\* The state in which a finished request of provider d has been collected.
CollectedBy(k, d) == [k EXCEPT !.gates[d] = IdleGate]

\* A provider request made by guest g: submitted (or refused), still running,
\* or finished, in which case the call comes to one of finished.
Request(k, d, g, op, finished) ==
    LET answer == gate_enter(k.gates[d], g, op)
    IN  CASE answer = "BLOCK"   -> {Again(k)}
          [] answer = "SUBMIT"  -> {Again([k EXCEPT !.gates[d] = [state |-> "ACTIVE", owner |-> g,
                                                                  tag |-> op]]),
                                    Answer(k)}
          [] answer = "COLLECT" -> finished

\* request_cancel: a running request is dropped when its worker returns.
gate_cancel(k, d, g) ==
    IF k.gates[d].owner # g THEN k
    ELSE IF k.gates[d].state = "ACTIVE" THEN [k EXCEPT !.gates[d].state = "RETIRING"]
    ELSE IF k.gates[d].state = "COMPLETE" THEN [k EXCEPT !.gates[d] = IdleGate]
    ELSE k

\* The provider's worker.
ProviderEnds(d) ==
    /\ gates[d].state \in {"ACTIVE", "RETIRING"}
    /\ gates' = [gates EXCEPT ![d] = IF @.state = "ACTIVE" THEN [@ EXCEPT !.state = "COMPLETE"]
                                     ELSE IdleGate]
    /\ UNCHANGED <<parked, hopen, hmount, table, views, dopen, reread, lease, sgone, sprofile>>
-----------------------------------------------------------------------------
(***************************************************************************)
(* The host file system.                                                   *)
(***************************************************************************)
Just(k) == {Answer(k)}

\* open: <<"open", write, dir>>.  The handle is closed again when the
\* descriptor table is full.
lxp_hostfs_open(k, g, c) ==
    LET free == {i \in DOMAIN k.hopen : ~k.hopen[i].used}
        i == CHOOSE x \in free : \A y \in free : x <= y
        j == CollectedBy(k, "fs")
        Opened == [j EXCEPT !.hopen[i] = [used |-> TRUE, by |-> g, write |-> c[2],
                                          dir |-> c[3], pending |-> FALSE]]
    IN  IF (k.mount.ro /\ c[2]) \/ free = {} THEN Just(k)
        ELSE Request(k, "fs", g, c,
                     Just(j) \union (IF j.mount.on THEN Just(Opened) ELSE {}))

\* read, pread, lseek, fstat, fsync: <<"file", i, FALSE>>; write, pwrite and
\* ftruncate: <<"file", i, TRUE>>.
hostfs_file(k, g, c) ==
    IF ~k.hopen[c[2]].used \/ k.hopen[c[2]].dir \/ (c[3] /\ k.mount.ro) THEN Just(k)
    ELSE Request(k, "fs", g, c, Just(CollectedBy(k, "fs")))

\* getdents: <<"getdents", i>>.  An entry that did not fit stays pending.
fop_getdents_hostfs(k, g, c) ==
    LET j == CollectedBy(k, "fs")
    IN  IF ~k.hopen[c[2]].used \/ ~k.hopen[c[2]].dir THEN Just(k)
        ELSE IF k.hopen[c[2]].pending
             THEN {Answer([k EXCEPT !.hopen[c[2]].pending = p]) : p \in BOOLEAN}
        ELSE Request(k, "fs", g, c, {Answer(j), Answer([j EXCEPT !.hopen[c[2]].pending = TRUE])})

\* stat, statfs, access: <<"path", FALSE>>; mkdir, rmdir, unlink, rename,
\* chmod: <<"path", TRUE>>.
hostfs_path_call(k, g, c) ==
    IF c[2] /\ k.mount.ro THEN Just(k)
    ELSE Request(k, "fs", g, c, Just(CollectedBy(k, "fs")))

\* mount: <<"mount", partition, read-only>>.
lxp_hostfs_mount(k, g, c) ==
    LET j == CollectedBy(k, "fs")
        Mounted == [j EXCEPT !.mount = [on |-> TRUE, ro |-> c[3]]]
    IN  IF ~view_present(k, c[2]) THEN Just(k)
        ELSE Request(k, "fs", g, c,
                     Just(j) \union (IF j.mount.on THEN {} ELSE Just(Mounted)))

\* Mutant: open files are not looked at.
lxp_hostfs_remount_open(k, c) ==
    IF ~k.mount.on THEN Just(k) ELSE Just([k EXCEPT !.mount.ro = c[2]])

\* remount: <<"remount", read-only>>, without a provider request.
lxp_hostfs_remount(k, c) ==
    IF ~k.mount.on \/ (c[2] /\ \E i \in DOMAIN k.hopen : k.hopen[i].used /\ ~k.hopen[i].dir)
    THEN Just(k)
    ELSE Just([k EXCEPT !.mount.ro = c[2]])

lxp_hostfs_unmount(k, g, c) ==
    LET j == CollectedBy(k, "fs")
    IN  IF \E i \in DOMAIN k.hopen : k.hopen[i].used THEN Just(k)
        ELSE Request(k, "fs", g, c,
                     {Answer(j), Answer([j EXCEPT !.mount = [on |-> FALSE, ro |-> FALSE]])})

lxp_hostfs_close(k, i) == [k EXCEPT !.hopen[i] = ClosedFile]
-----------------------------------------------------------------------------
(***************************************************************************)
(* The block device.                                                       *)
(***************************************************************************)
\* One writer, or any number of readers, of the disk and all its partitions;
\* the provider is asked for its lease and may refuse.
block_open(k, g, v, write) ==
    LET free == {o \in DOMAIN k.dopen : ~k.dopen[o].used}
        o == CHOOSE x \in free : \A y \in free : x <= y
        Opened == [k EXCEPT !.dopen[o] = [used |-> TRUE, by |-> g, view |-> v, write |-> write,
                                          phase |-> 0]]
    IN  IF free = {} \/ ~view_present(k, v) \/ k.lease.writer \/ (write /\ k.lease.readers # 0)
        THEN {k}
        ELSE {k, IF write THEN [Opened EXCEPT !.lease.writer = TRUE]
                 ELSE [Opened EXCEPT !.lease.readers = @ + 1]}

block_release(k, o) ==
    LET j == [k EXCEPT !.dopen[o] = ClosedDev, !.reread = IF @ = o THEN 0 ELSE @]
    IN  IF k.dopen[o].write THEN [j EXCEPT !.lease.writer = FALSE]
        ELSE [j EXCEPT !.lease.readers = IF @ = 0 THEN 0 ELSE @ - 1]

\* read, pread: <<"bread", o>>; write, pwrite: <<"bwrite", o>>; fsync.
block_transfer(k, g, c) ==
    LET o == k.dopen[c[2]]
        j == CollectedBy(k, "block")
        Moved == IF c[1] = "bwrite" /\ o.view = 0
                 THEN {Answer([j EXCEPT !.table = t]) : t \in Tables}
                 ELSE Just(j)
    IN  IF ~o.used \/ ~view_present(k, o.view) \/ (c[1] = "bwrite" /\ ~o.write) THEN Just(k)
        ELSE Request(k, "block", g, c, Moved)

\* Mutant: partitions are looked at only when the re-read begins.
partitions_open_once(k) ==
    k.reread = 0 /\ \E o \in DOMAIN k.dopen : k.dopen[o].used /\ k.dopen[o].view # 0

partitions_open(k) == \E o \in DOMAIN k.dopen : k.dopen[o].used /\ k.dopen[o].view # 0

\* BLKRRPART: <<"rrpart", o>>.  Flush, then read the table, then publish it.
block_reread(k, g, c) ==
    LET o == c[2]
        claimed == [k EXCEPT !.reread = o]
        Ended(j) == [j EXCEPT !.dopen[o].phase = 0, !.reread = 0]
        Parsed(j) == {Answer(Ended(j)), Answer([Ended(j) EXCEPT !.views = parse_mbr(j.table)])}
        ReadTable(j) == Request(j, "block", g, <<"mbr", o>>, Parsed(CollectedBy(j, "block")))
        Flushed(j) == {Answer([j EXCEPT !.reread = 0])}
                      \union ReadTable([j EXCEPT !.dopen[o].phase = 1])
    IN  IF ~k.dopen[o].used \/ k.dopen[o].view # 0 \/ partitions_open(k)
           \/ k.reread \notin {0, o} THEN Just(k)
        ELSE IF k.dopen[o].phase = 0
             THEN Request(claimed, "block", g, <<"flush", o>>, Flushed(CollectedBy(claimed, "block")))
        ELSE ReadTable(claimed)

block_cancel(k, g, c) ==
    LET j == gate_cancel(k, "block", g)
    IN  IF j.reread = c[2] THEN [j EXCEPT !.dopen[c[2]].phase = 0, !.reread = 0] ELSE j
-----------------------------------------------------------------------------
(***************************************************************************)
(* Calls, retries and ends of the guests.                                  *)
(***************************************************************************)
FsOps == {"open", "file", "getdents", "path", "mount", "remount", "unmount"}

\* One run of a call: by the trap, and again by every retry.
Attempt(k, g, c) ==
    CASE c[1] = "open"     -> lxp_hostfs_open(k, g, c)
      [] c[1] = "file"     -> hostfs_file(k, g, c)
      [] c[1] = "getdents" -> fop_getdents_hostfs(k, g, c)
      [] c[1] = "path"     -> hostfs_path_call(k, g, c)
      [] c[1] = "mount"    -> lxp_hostfs_mount(k, g, c)
      [] c[1] = "remount"  -> lxp_hostfs_remount(k, c)
      [] c[1] = "unmount"  -> lxp_hostfs_unmount(k, g, c)
      [] c[1] = "rrpart"   -> block_reread(k, g, c)
      [] OTHER             -> block_transfer(k, g, c)

\* The calls a guest can make: on its own descriptors, and by path.
FsCalls(g) ==
    LET files == {i \in DOMAIN hopen : hopen[i].used /\ hopen[i].by = g}
    IN  ({"open"} \X BOOLEAN \X BOOLEAN) \union ({"file"} \X files \X BOOLEAN)
        \union ({"getdents"} \X files) \union ({"path", "remount"} \X BOOLEAN)
        \union {<<"mount", 1, FALSE>>, <<"mount", 1, TRUE>>, <<"unmount">>}

BlockCalls(g) ==
    {"bread", "bwrite", "rrpart"} \X {o \in DOMAIN dopen : dopen[o].used /\ dopen[o].by = g}

Calls(g) == IF sprofile = "block" THEN BlockCalls(g) ELSE FsCalls(g)

Free(g) == g \notin sgone /\ parked[g] = NoCall
Run(g, c) ==
    /\ \E r \in Attempt(Store, g, c) :
         Save(r.k) /\ parked' = [parked EXCEPT ![g] = IF r.done THEN NoCall ELSE c]
    /\ UNCHANGED sgone

Call(g) == Free(g) /\ \E c \in Calls(g) : Run(g, c)
RetryCall(g) == g \notin sgone /\ parked[g] # NoCall /\ Run(g, parked[g])

OpenDev(g) ==
    /\ Free(g) /\ sprofile = "block"
    /\ \E v \in 0..NPART, write \in BOOLEAN : \E k \in block_open(Store, g, v, write) : Save(k)
    /\ UNCHANGED <<parked, sgone>>

\* The last close of a descriptor.
CloseAll(k, g) ==
    LET files == {i \in DOMAIN k.hopen : k.hopen[i].used /\ k.hopen[i].by = g}
        devs == {o \in DOMAIN k.dopen : k.dopen[o].used /\ k.dopen[o].by = g}
        Released[S \in SUBSET devs] ==
            IF S = {} THEN k
            ELSE LET o == CHOOSE x \in S : TRUE IN block_release(Released[S \ {o}], o)
    IN  [Released[devs] EXCEPT !.hopen = [i \in DOMAIN @ |-> IF i \in files THEN ClosedFile
                                                           ELSE @[i]]]
CloseOne(g) ==
    /\ Free(g)
    /\ \/ \E i \in DOMAIN hopen : hopen[i].used /\ hopen[i].by = g /\ Save(lxp_hostfs_close(Store, i))
       \/ \E o \in DOMAIN dopen : dopen[o].used /\ dopen[o].by = g /\ Save(block_release(Store, o))
    /\ UNCHANGED <<parked, sgone>>

\* A signal that interrupts the parked call; a caught one is put off while a
\* block call is parked, a fatal one ends the guest.
Interrupt(g) ==
    /\ g \notin sgone /\ parked[g] # NoCall
    /\ parked' = [parked EXCEPT ![g] = NoCall]
    /\ \/ /\ parked[g][1] \in FsOps
          /\ Save(gate_cancel(Store, "fs", g)) /\ UNCHANGED sgone
       \/ /\ Save(CloseAll(IF parked[g][1] \in FsOps THEN gate_cancel(Store, "fs", g)
                           ELSE block_cancel(Store, g, parked[g]), g))
          /\ sgone' = sgone \union {g}

StorageNext ==
    \/ \E g \in StoreGuests : Call(g) \/ RetryCall(g) \/ OpenDev(g) \/ CloseOne(g) \/ Interrupt(g)
    \/ \E d \in {"fs", "block"} : ProviderEnds(d)

StorageSpec == StorageInit /\ [][StorageNext]_storageVars
-----------------------------------------------------------------------------
(***************************************************************************)
(* Properties.                                                             *)
(***************************************************************************)
Opens(w) == {o \in 1..NDEVOPEN : dopen[o].used /\ dopen[o].write = w}
Extent(p) == views[p].first..(views[p].first + views[p].count - 1)
DiskShared ==
    /\ Opens(TRUE) # {} => Cardinality(Opens(TRUE)) = 1 /\ Opens(FALSE) = {}
    /\ lease = [readers |-> Cardinality(Opens(FALSE)), writer |-> Opens(TRUE) # {}]
    /\ \A p, q \in Parts : p # q => Extent(p) \intersect Extent(q) = {}

\* Nobody can be surprised on the disk: a guest that may write has the disk
\* and all partitions to itself, the partitions never overlap, and the extent
\* of a partition does not change while somebody has it open, however the
\* steps of BLKRRPART interleave with opens (lxp_dev_block.c).
DiskExclusive ==
    /\ []DiskShared
    /\ [][\A o \in 1..NDEVOPEN :
              dopen[o].used /\ dopen'[o].used /\ dopen[o].view # 0
                  => views'[dopen[o].view] = views[dopen[o].view]]_storageVars

\* An open file belongs to the mounted volume, and while the volume is mounted
\* read-only no open file was opened for writing, although opens, mounts and
\* unmounts are finished long after they were checked (lxp_hostfs.c).
OpensRespectMount ==
    \A i \in 1..NHOSTOPEN : hopen[i].used =>
        hmount.on /\ (hmount.ro /\ ~hopen[i].dir => ~hopen[i].write)
=============================================================================
