----------------------------- MODULE Namespace ------------------------------
(***************************************************************************)
(* The root namespace: path resolution (fs/lxp_path.c), the choice of the  *)
(* mount (fs/lxp_mount.c), the overlay of a writable tmpfs over the        *)
(* read-only rootfs (fs/lxp_overlay.c, fs/lxp_tmpfs.c, fs/lxp_rootfs.c),   *)
(* directory listings (fs/lxp_dir.c) and the path calls that drive them    *)
(* (sys/lxp_sys_path.c).  The bytes of tmpfs files live in an arena.       *)
(*                                                                         *)
(* A path is a sequence of names, the root the empty one; a path argument  *)
(* also says whether it is absolute.  A byte of a file is "data" once it   *)
(* was written, "zero", or "stale": left in the pool by another file.      *)
(***************************************************************************)
EXTENDS Arena, SequencesExt

CONSTANTS
    NWNODE,        \* LXP_NWNODE, for each profile
    NOFD,          \* open-file descriptions of tmpfs nodes
    PATHMAX,       \* LXP_PATH_MAX, in names
    SYMLOOPMAX,    \* LXP_SYMLOOP_MAX
    POOL,          \* LXP_WFS_POOL
    ROUND,         \* capacities are multiples of this (256)
    RootFs,        \* rootfs: path -> [kind, target]
    MountPoints,   \* the mounts other than the root, in the order of g_mounts
    NameArgs,      \* path arguments of the calls: "names" profile
    DataArgs,      \* path arguments, "data" profile
    OpenFlags,     \* flag sets of open, of NOFOLLOW, WRITE, CREAT, TRUNC
    Targets,       \* what symlinks lead to
    Writes,        \* <<offset, length>> of a write
    NameProfiles   \* what is exercised: "names", "data"

ASSUME NamespaceConstants ==
    /\ NWNODE \in [NameProfiles -> Nat \ {0}] /\ PATHMAX \in Nat \ {0} /\ POOL > HDR + ALIGN
    /\ \A p \in DOMAIN RootFs : Len(p) <= PATHMAX

VARIABLES
    wnodes,    \* g_wnodes
    warena,    \* g_wfs_arena
    ofds,      \* descriptions of tmpfs nodes: the node, 0 for none
    cwd,       \* fs_context->cwd
    rootless,  \* history: a name was made below something that is no directory
    nprofile   \* a member of NameProfiles

namespaceVars == <<wnodes, warena, ofds, cwd, rootless, nprofile>>

Nodes == 1..NWNODE[nprofile]
NoNode == [used |-> FALSE, linked |-> FALSE, path |-> <<>>, kind |-> "none", target |-> <<>>,
           size |-> 0, data |-> NULL, bytes |-> <<>>, refs |-> 0]

NamespaceInit ==
    /\ nprofile \in NameProfiles
    /\ wnodes = [i \in Nodes |-> NoNode]
    /\ warena = lxp_arena_init(POOL)
    /\ ofds = [d \in 1..NOFD |-> 0]
    /\ cwd = <<>> /\ rootless = FALSE
-----------------------------------------------------------------------------
(***************************************************************************)
(* Paths.                                                                  *)
(***************************************************************************)
TooLong == <<"ENAMETOOLONG">>

\* "." goes, ".." takes the name before it.
normalize_abs(segs) ==
    LET Step(out, s) == CASE s = "." -> out
                          [] s = ".." -> IF out = <<>> THEN out ELSE Front(out)
                          [] OTHER -> Append(out, s)
        out[n \in 0..Len(segs)] == IF n = 0 THEN <<>> ELSE Step(out[n - 1], segs[n])
    IN  IF Len(out[Len(segs)]) > PATHMAX THEN TooLong ELSE out[Len(segs)]

\* The joined path has to fit too.
resolve_from(base, in) ==
    LET joined == IF in.abs THEN in.segs ELSE base \o in.segs
    IN  IF Len(joined) > PATHMAX THEN TooLong ELSE normalize_abs(joined)

lxp_path_under(path, prefix) == IsPrefix(prefix, path)
IsChild(dir, path) == Len(path) = Len(dir) + 1 /\ lxp_path_under(path, dir)

\* A relative target is taken from the link's own directory.
lxp_path_link_target(link, target) ==
    resolve_from(IF link = <<>> THEN link ELSE Front(link), target)

lxp_fs_lookup(path) == path \in DOMAIN RootFs

\* The rootfs entry at the end of a chain of rootfs links, or NoEntry.
NoEntry == <<"none">>
lxp_fs_follow(path) ==
    LET hop[n \in 0..SYMLOOPMAX] ==
            IF n = 0 THEN IF lxp_fs_lookup(path) THEN path ELSE NoEntry
            ELSE LET at == hop[n - 1]
                     next == lxp_path_link_target(at, RootFs[at].target)
                 IN  IF at = NoEntry THEN at
                     ELSE IF RootFs[at].kind # "lnk" THEN at
                     ELSE IF lxp_fs_lookup(next) THEN next ELSE NoEntry
    IN  hop[SYMLOOPMAX]

\* The mount with the longest point above the path; one that shares its
\* directory with the root answers only for the names it holds.
lxp_mount_of(path) ==
    LET above == {m \in DOMAIN MountPoints :
                    /\ lxp_path_under(path, MountPoints[m].point)
                    /\ MountPoints[m].holds = {} \/ path \in MountPoints[m].holds}
        deepest == {m \in above : \A n \in above :
                      Len(MountPoints[n].point) <= Len(MountPoints[m].point)}
    IN  IF above = {} THEN "overlay" ELSE MountPoints[Min(deepest)].fs
-----------------------------------------------------------------------------
(***************************************************************************)
(* tmpfs nodes.  The operators work on the nodes and the arena together.   *)
(***************************************************************************)
Tmpfs == [nodes |-> wnodes, arena |-> warena]
Keep(k) == wnodes' = k.nodes /\ warena' = k.arena

Linked(nodes) == {i \in Nodes : nodes[i].used /\ nodes[i].linked}

\* The node of a path, 0 for none.
lxp_wfs_find(path) ==
    LET named == {i \in Linked(wnodes) : wnodes[i].path = path}
    IN  IF named = {} THEN 0 ELSE Min(named)

FreeNodes(nodes) == {i \in Nodes : ~nodes[i].used}

\* The first unused node, which the caller has checked to exist.
lxp_wfs_create(k, path, kind) ==
    [k EXCEPT !.nodes[Min(FreeNodes(k.nodes))] =
        [NoNode EXCEPT !.used = TRUE, !.linked = TRUE, !.path = path, !.kind = kind]]

wfs_reclaim(k, i) ==
    [k EXCEPT !.arena = IF k.nodes[i].data = NULL THEN @ ELSE lxp_arena_free(@, k.nodes[i].data),
              !.nodes[i] = NoNode]

\* Mutant: an open node is reclaimed too.
lxp_wfs_free_open(k, i) ==
    wfs_reclaim([k EXCEPT !.nodes[i].linked = FALSE, !.nodes[i].path = <<>>], i)

\* unlink: the node stays while a description is open.
lxp_wfs_free(k, i) ==
    LET gone == [k EXCEPT !.nodes[i].linked = FALSE, !.nodes[i].path = <<>>]
    IN  IF k.nodes[i].refs = 0 THEN wfs_reclaim(gone, i) ELSE gone

lxp_wfs_close(k, i) ==
    LET less == [k EXCEPT !.nodes[i].refs = @ - 1]
    IN  IF less.nodes[i].refs = 0 /\ ~less.nodes[i].linked THEN wfs_reclaim(less, i) ELSE less

\* The capacity of a node is the length of its bytes.  A growing buffer is
\* doubled, or else given just what it needs; no outcome when there is no room.
lxp_wfs_reserve(k, i, need) ==
    LET w == k.nodes[i]
        cap == Len(w.bytes)
        most == POOL - ALIGN
        mincap == ((need + ROUND - 1) \div ROUND) * ROUND
        ncap == Min({most, IF cap > most \div 2 THEN most ELSE Max({mincap, 2 * cap})})
        Grown(c) == {[k EXCEPT !.arena = r.arena, !.nodes[i].data = r.ptr,
                               !.nodes[i].bytes = @ \o [n \in 1..(c - cap) |-> "stale"]] :
                     r \in {x \in {lxp_arena_realloc(k.arena, w.data, c)} : x.ptr # NULL}}
    IN  CASE need <= cap -> {k}
          [] need > cap /\ need > most -> {}
          [] OTHER -> IF Grown(ncap) # {} THEN Grown(ncap) ELSE Grown(mincap)

\* Bytes from..to - 1 of a node take a value.
Fill(k, i, from, to, value) ==
    [k EXCEPT !.nodes[i].bytes = [n \in DOMAIN @ |-> IF n > from /\ n <= to THEN value ELSE @[n]]]

\* Rename, with everything below a directory; the checks come first.
lxp_wfs_rename(k, i, new) ==
    LET old == k.nodes[i].path
        below == {j \in Linked(k.nodes) \ {i} : lxp_path_under(k.nodes[j].path, old)}
        moves == IF k.nodes[i].kind = "dir" THEN below ELSE {}
        Moved(path) == new \o SubSeq(path, Len(old) + 1, Len(path))
        di == lxp_wfs_find(new)
        freed == IF di = 0 THEN k ELSE lxp_wfs_free(k, di)
    IN  IF \/ old = new
           \/ k.nodes[i].kind = "dir" /\ lxp_path_under(new, old)
           \/ di # 0 /\ \E j \in Linked(k.nodes) : k.nodes[j].path # new
                                                  /\ lxp_path_under(k.nodes[j].path, new)
           \/ \E j \in moves : Len(Moved(k.nodes[j].path)) > PATHMAX
        THEN k
        ELSE [freed EXCEPT !.nodes = [j \in Nodes |->
                IF j = i \/ j \in moves THEN [@[j] EXCEPT !.path = Moved(@)] ELSE @[j]]]
-----------------------------------------------------------------------------
(***************************************************************************)
(* The overlay.                                                            *)
(***************************************************************************)
\* The kind of what a path names, "none" when nothing does.
overlay_stat(path, follow) ==
    LET i == lxp_wfs_find(path)
        fi == IF follow THEN lxp_fs_follow(path) ELSE IF lxp_fs_lookup(path) THEN path ELSE NoEntry
    IN  IF i # 0 THEN wnodes[i].kind
        ELSE IF fi # NoEntry THEN RootFs[fi].kind
        ELSE IF path = <<>> THEN "dir" ELSE "none"

overlay_exists(path) == overlay_stat(path, FALSE) # "none"

\* The target of a link that leads out of the rootfs, or NoEntry.
lxp_overlay_foreign_link(path) ==
    LET i == lxp_wfs_find(path)
    IN  IF i # 0
        THEN IF wnodes[i].kind = "lnk" THEN lxp_path_link_target(path, wnodes[i].target) ELSE NoEntry
        ELSE IF /\ lxp_fs_lookup(path)
                /\ RootFs[IF lxp_fs_lookup(path) THEN path ELSE <<>>].kind = "lnk"
                /\ lxp_fs_follow(path) = NoEntry
             THEN lxp_path_link_target(path, RootFs[path].target) ELSE NoEntry

\* Trailing links, at most SYMLOOPMAX of them.
Loop == <<"ELOOP">>
lxp_mount_follow(path) ==
    LET Onto(at) == IF lxp_mount_of(at) = "overlay" THEN lxp_overlay_foreign_link(at) ELSE NoEntry
        hop[n \in 0..SYMLOOPMAX] ==
            IF n = 0 THEN path
            ELSE LET at == hop[n - 1] IN
                 IF at = TooLong \/ Onto(at) = NoEntry THEN at ELSE Onto(at)
        last == hop[SYMLOOPMAX]
    IN  IF last # TooLong /\ Onto(last) # NoEntry THEN Loop ELSE last

\* An argument resolved from the cwd or from an open directory.
Bases == {cwd} \union {wnodes[ofds[d]].path : d \in {x \in 1..NOFD :
            ofds[x] # 0 /\ wnodes[ofds[x]].kind = "dir" /\ wnodes[ofds[x]].linked}}

Named(path) == path \notin {TooLong, Loop} /\ lxp_mount_of(path) = "overlay"
Args == IF nprofile = "names" THEN NameArgs ELSE DataArgs

\* A new name: whether its directory exists.
Rooted(path) ==
    LET adrift == path = <<>> \/ overlay_stat(Front(path), TRUE) # "dir"
    IN  rootless' = (rootless \/ (wnodes' # wnodes /\ adrift))

FreeOfds == {d \in 1..NOFD : ofds[d] = 0}

\* lxp_sys_fd_alloc on a node; without a free descriptor the node is let go.
fd_alloc(k, i) ==
    IF FreeOfds = {} THEN Keep(lxp_wfs_close([k EXCEPT !.nodes[i].refs = @ + 1], i)) /\ UNCHANGED ofds
    ELSE /\ Keep([k EXCEPT !.nodes[i].refs = @ + 1])
         /\ ofds' = [ofds EXCEPT ![Min(FreeOfds)] = i]

\* open: to read, to write, to create, to truncate.
overlay_open(path, write, creat, trunc) ==
    LET i == lxp_wfs_find(path)
        n == Min(FreeNodes(wnodes))
    IN  /\ IF i # 0
           THEN /\ (write \/ creat) => wnodes[i].kind # "dir"
                /\ fd_alloc(IF (write \/ creat) /\ trunc THEN [Tmpfs EXCEPT !.nodes[i].size = 0]
                            ELSE Tmpfs, i)
                /\ UNCHANGED rootless
           ELSE /\ creat /\ ~lxp_fs_lookup(path) /\ FreeNodes(wnodes) # {}
                /\ fd_alloc(lxp_wfs_create(Tmpfs, path, "reg"), n)
                /\ Rooted(path)
        /\ UNCHANGED cwd

overlay_mkdir(path) ==
    /\ ~overlay_exists(path) /\ FreeNodes(wnodes) # {}
    /\ Keep(lxp_wfs_create(Tmpfs, path, "dir")) /\ Rooted(path)
    /\ UNCHANGED <<ofds, cwd>>

overlay_remove(path, dir) ==
    LET i == lxp_wfs_find(path)
    IN  /\ i # 0
        /\ dir = (wnodes[i].kind = "dir")
        /\ dir => \A j \in Nodes : wnodes[j].used => ~IsChild(path, wnodes[j].path)
        /\ Keep(lxp_wfs_free(Tmpfs, i))
        /\ UNCHANGED <<ofds, cwd, rootless>>

\* A node made and filled at once; without room it is taken back.
Filled(path, kind, target, bytes) ==
    LET n == Min(FreeNodes(wnodes))
        made == lxp_wfs_create(Tmpfs, path, kind)
    IN  \E room \in {lxp_wfs_reserve(made, n, bytes)} :
           IF room = {} THEN Keep(lxp_wfs_free(made, n))
           ELSE \E k \in room : Keep([Fill(k, n, 0, bytes, "data") EXCEPT
                                          !.nodes[n].size = bytes, !.nodes[n].target = target])

overlay_symlink(target, path) ==
    /\ ~overlay_exists(path) /\ FreeNodes(wnodes) # {}
    /\ Filled(path, "lnk", target, 1) /\ Rooted(path)
    /\ UNCHANGED <<ofds, cwd>>

\* link makes a copy.
overlay_link(from, to) ==
    LET i == lxp_wfs_find(from)
    IN  /\ ~overlay_exists(to) /\ FreeNodes(wnodes) # {}
        /\ overlay_stat(from, FALSE) \notin {"none", "dir"}
        /\ Filled(to, "reg", <<>>, IF i # 0 THEN wnodes[i].size ELSE 1) /\ Rooted(to)
        /\ UNCHANGED <<ofds, cwd>>

overlay_rename(from, to) ==
    LET i == lxp_wfs_find(from)
    IN  /\ i # 0 /\ (lxp_wfs_find(to) = 0 => ~lxp_fs_lookup(to))
        /\ Keep(lxp_wfs_rename(Tmpfs, i, to)) /\ Rooted(to)
        /\ UNCHANGED <<ofds, cwd>>

\* The cwd is the directory that a rootfs link leads to.
overlay_chdir(path) ==
    /\ overlay_stat(path, TRUE) = "dir"
    /\ cwd' = IF lxp_wfs_find(path) = 0 /\ lxp_fs_follow(path) # NoEntry
              THEN lxp_fs_follow(path) ELSE path
    /\ UNCHANGED <<wnodes, warena, ofds, rootless>>
-----------------------------------------------------------------------------
(***************************************************************************)
(* The calls.                                                              *)
(***************************************************************************)
sys_openat(arg) ==
    \E base \in Bases, flags \in OpenFlags :
       LET abs == resolve_from(base, arg)
           path == IF "NOFOLLOW" \in flags THEN abs ELSE lxp_mount_follow(abs)
       IN  /\ abs # TooLong /\ Named(path)
           /\ "NOFOLLOW" \in flags => overlay_stat(path, FALSE) # "lnk"
           /\ overlay_open(path, "WRITE" \in flags, "CREAT" \in flags, "TRUNC" \in flags)
           /\ UNCHANGED nprofile

\* A name as mkdir, unlink, symlink and rename take it: its last link is not
\* followed, and it belongs to one mount.
resolve_in_mount(base, arg) == resolve_from(base, arg)

sys_mkdir(arg) ==
    \E base \in Bases :
       /\ Named(resolve_in_mount(base, arg))
       /\ overlay_mkdir(resolve_in_mount(base, arg))
       /\ UNCHANGED nprofile

sys_unlink(arg) ==
    \E base \in Bases, is_rmdir \in BOOLEAN :
       /\ Named(resolve_in_mount(base, arg))
       /\ overlay_remove(resolve_in_mount(base, arg), is_rmdir)
       /\ UNCHANGED nprofile

sys_symlink(target, arg) ==
    \E base \in Bases :
       /\ nprofile = "data" /\ Named(resolve_in_mount(base, arg))
       /\ overlay_symlink(target, resolve_in_mount(base, arg))
       /\ UNCHANGED nprofile

\* Two names of one mount.
two_names(old, new) ==
    {n \in {<<resolve_in_mount(b, old), resolve_in_mount(c, new)>> : b, c \in Bases} :
        Named(n[1]) /\ Named(n[2])}

sys_rename(old, new) ==
    \E n \in two_names(old, new) : overlay_rename(n[1], n[2]) /\ UNCHANGED nprofile

sys_link(old, new) ==
    /\ nprofile = "data"
    /\ \E n \in two_names(old, new) : overlay_link(n[1], n[2]) /\ UNCHANGED nprofile

lxp_sys_chdir(arg) ==
    LET abs == resolve_from(cwd, arg)
    IN  /\ nprofile = "names" /\ abs # TooLong /\ Named(lxp_mount_follow(abs))
        /\ overlay_chdir(lxp_mount_follow(abs))
        /\ UNCHANGED nprofile

\* The last close of a description.
fop_close_tmpfs(d) ==
    /\ ofds[d] # 0
    /\ Keep(lxp_wfs_close(Tmpfs, ofds[d]))
    /\ ofds' = [ofds EXCEPT ![d] = 0]
    /\ UNCHANGED <<cwd, rootless, nprofile>>

\* Mutant: a hole keeps what the pool held.
fop_pwrite_tmpfs_hole(d, off, len) ==
    LET i == ofds[d]
    IN  /\ nprofile = "data" /\ i # 0
        /\ wnodes[i].kind # "dir"
        /\ \E k \in lxp_wfs_reserve(Tmpfs, i, off + len) :
              Keep([Fill(k, i, off, off + len, "data")
                       EXCEPT !.nodes[i].size = Max({@, off + len})])
        /\ UNCHANGED <<ofds, cwd, rootless, nprofile>>

\* Write at an offset: a hole is zeroed; a fault of the guest's buffer ends
\* the copy after some bytes and leaves the size alone.
fop_pwrite_tmpfs(d, off, len) ==
    LET i == ofds[d]
        size == wnodes[i].size
        Holed(k) == IF off > size THEN Fill(k, i, size, off, "zero") ELSE k
    IN  /\ nprofile = "data" /\ i # 0
        /\ wnodes[i].kind # "dir"
        /\ \E k \in lxp_wfs_reserve(Tmpfs, i, off + len) :
              \/ Keep([Fill(Holed(k), i, off, off + len, "data")
                           EXCEPT !.nodes[i].size = Max({@, off + len})])
              \/ \E part \in 0..len : Keep(Fill(Holed(k), i, off, off + part, "data"))
        /\ UNCHANGED <<ofds, cwd, rootless, nprofile>>

fop_ftruncate_tmpfs(d, len) ==
    LET i == ofds[d]
        size == wnodes[i].size
    IN  /\ nprofile = "data" /\ i # 0
        /\ wnodes[i].kind # "dir"
        /\ IF len > size
           THEN \E k \in lxp_wfs_reserve(Tmpfs, i, len) :
                   Keep([Fill(k, i, size, len, "zero") EXCEPT !.nodes[i].size = len])
           ELSE Keep([Tmpfs EXCEPT !.nodes[i].size = len])
        /\ UNCHANGED <<ofds, cwd, rootless, nprofile>>

NamespaceNext ==
    \/ \E arg \in Args :
          \/ sys_openat(arg) \/ sys_mkdir(arg) \/ sys_unlink(arg) \/ lxp_sys_chdir(arg)
          \/ \E target \in Targets : sys_symlink(target, arg)
    \/ \E old, new \in Args : sys_rename(old, new) \/ sys_link(old, new)
    \/ \E d \in 1..NOFD :
          \/ fop_close_tmpfs(d)
          \/ \E w \in Writes : fop_pwrite_tmpfs(d, w[1], w[2]) \/ fop_ftruncate_tmpfs(d, w[1])

NamespaceSpec == NamespaceInit /\ [][NamespaceNext]_namespaceVars
-----------------------------------------------------------------------------
(***************************************************************************)
(* Properties.                                                             *)
(***************************************************************************)
\* The listing of a directory: rootfs entries not covered, then tmpfs nodes.
RootList == SetToSeq(DOMAIN RootFs)
lxp_dir_list(dir) ==
    LET Listed(p) == IsChild(dir, p) /\ lxp_wfs_find(p) = 0
        Held(i) == wnodes[i].used /\ IsChild(dir, wnodes[i].path)
        nodes == SelectSeq([n \in Nodes |-> n], Held)
    IN  SelectSeq(RootList, Listed) \o [n \in DOMAIN nodes |-> wnodes[nodes[n]].path]

\* Names stay right whatever is opened, linked, renamed and removed: a node
\* that is open is not reused, and one that is neither open nor named is gone
\* (lxp_tmpfs.c lxp_wfs_free, lxp_wfs_close); and while every name was made in
\* a directory that exists, no two nodes share a name or take one of the rootfs,
\* every node's directory exists, and a listing has each name below the
\* directory once (lxp_tmpfs.c lxp_wfs_rename, lxp_dir.c lxp_dir_list).
NamesHold ==
    LET linked == Linked(wnodes)
    IN  /\ \A d \in 1..NOFD : ofds[d] # 0 => wnodes[ofds[d]].used
        /\ \A i \in Nodes : wnodes[i].used =>
              /\ wnodes[i].refs = Cardinality({d \in 1..NOFD : ofds[d] = i})
              /\ wnodes[i].linked \/ wnodes[i].refs > 0
        /\ ~rootless =>
              /\ \A i, j \in linked : wnodes[i].path = wnodes[j].path => i = j
              /\ \A i \in linked : /\ ~lxp_fs_lookup(wnodes[i].path)
                                   /\ overlay_stat(Front(wnodes[i].path), TRUE) = "dir"
              /\ \A dir \in {<<>>} \union {wnodes[i].path : i \in linked} :
                    IsInjective(lxp_dir_list(dir))

\* Every tmpfs file has a block of the pool to itself, large enough, every
\* block of the pool belongs to a file, and the bytes of a file that can be
\* read were written to it or are zero: it never shows what another file left
\* in the pool (lxp_tmpfs.c lxp_wfs_reserve, fop_pwrite_tmpfs,
\* fop_ftruncate_tmpfs).
FileBytesOwn ==
    LET held == {i \in Nodes : wnodes[i].data # NULL}
        taken == {b \in DOMAIN warena.hdr : ~warena.hdr[b].free}
    IN  /\ ArenaSound(warena)
        /\ {blk_payload(b) : b \in taken} = {wnodes[i].data : i \in held}
        /\ Cardinality(taken) = Cardinality(held)
        /\ \A i \in held : Len(wnodes[i].bytes) <= warena.hdr[wnodes[i].data - HDR].payload
        /\ \A i \in Nodes, n \in 1..POOL : n <= wnodes[i].size => wnodes[i].bytes[n] # "stale"

\* The names and the bytes of tmpfs files stay their own.
FilesHold == NamesHold /\ FileBytesOwn
=============================================================================
