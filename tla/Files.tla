------------------------------- MODULE Files -------------------------------
(***************************************************************************)
(* Descriptors and the objects behind them: descriptor tables              *)
(* (src/src/proc/lxp_process.c), open file descriptions                    *)
(* (src/src/fs/lxp_fd.c), pipes, eventfds and poll, the calls on them      *)
(* (src/src/sys/lxp_sys_fd.c) and what fork, exec and exit do with them.   *)
(* A call that cannot proceed parks its process; the coordinator retries   *)
(* the parked call later (src/src/run/lxp_blocked.c), and in between the   *)
(* other processes go on.  One action is one coordinator turn.             *)
(***************************************************************************)
EXTENDS Ring, FiniteSets, FiniteSetsExt

CONSTANTS
    Procs,      \* guest processes (slots)
    MAX_FDS,    \* LXP_MAX_FDS
    NPIPE,      \* LXP_NPIPE
    NEVENTFD,   \* LXP_NEVENTFD
    PIPE_BUF,   \* LXP_PIPE_BUF
    EFD_MAX,    \* UINT64_MAX - 1, the largest counter
    Byte,       \* bytes a guest writes
    Payloads,   \* what one write offers
    ReadLens,   \* what one read asks for
    AddVals,    \* what one eventfd write adds
    CallSets    \* sets of optional calls; the guests of a run use one of them

NSLOT == Cardinality(Procs)
Tables == 1 .. NSLOT
Fds == 0 .. MAX_FDS - 1
Ofds == 1 .. NSLOT * MAX_FDS
Pipes == 1 .. NPIPE
Efds == 1 .. NEVENTFD

VARIABLES
    files,      \* descriptor tables: references and descriptors
    ofd,        \* open file descriptions
    pipe,       \* the pipe pool
    efd,        \* the eventfd pool
    proc,       \* per process: life, table, wait, exec in flight, SIGPIPE ignored,
                \* thread group, and the parent a vfork child keeps suspended;
                \* exec.kept (ghost): the call left the descriptors as they were
    did,        \* ghost: the pipe transfer the last step made
    calls       \* the optional calls the guests use

vars == <<files, ofd, pipe, efd, proc, did, calls>>

NoFd == [ofd |-> 0, cloexec |-> FALSE]
NoOfd == [refs |-> 0, kind |-> "free", rw |-> 0, nonblock |-> FALSE, obj |-> 0]
NoTable == [refs |-> 0, fd |-> [f \in Fds |-> NoFd]]
NoPipe == [used |-> FALSE, readers |-> 0, writers |-> 0, rpos |-> 0, wpos |-> 0,
           count |-> 0, buf |-> [j \in 0 .. PIPE_BUF - 1 |-> 0]]
NoEfd == [used |-> FALSE, ctr |-> 0, sem |-> FALSE]
NoWait == [kind |-> "none"]
NoExec == [active |-> FALSE, kept |-> TRUE]
Free == [life |-> "free", files |-> 0, wait |-> NoWait, exec |-> NoExec, ign |-> FALSE,
         group |-> 0, parent |-> 0]
Nothing == [op |-> "none", pipe |-> 0, data |-> <<>>]

\* The kernel objects as one value, so that calls compose as functions.
Kernel == [files |-> files, ofd |-> ofd, pipe |-> pipe, efd |-> efd]
Commit(k) == files' = k.files /\ ofd' = k.ofd /\ pipe' = k.pipe /\ efd' = k.efd

First(S) == CHOOSE x \in S : \A y \in S : x <= y

-----------------------------------------------------------------------------
(* Pipe objects *)

FreePipes(k) == {i \in Pipes : ~k.pipe[i].used}
PipeAlloc(k, i) == [k EXCEPT !.pipe[i] = [NoPipe EXCEPT !.used = TRUE]]

PipeEndOpen(k, i, rw) ==
    IF rw = 1 THEN [k EXCEPT !.pipe[i].writers = @ + 1]
    ELSE [k EXCEPT !.pipe[i].readers = @ + 1]

PipeEndClose(k, i, rw) ==
    LET p == k.pipe[i]
        q == IF rw = 1 THEN [p EXCEPT !.writers = @ - 1] ELSE [p EXCEPT !.readers = @ - 1]
    IN  [k EXCEPT !.pipe[i] = IF q.readers = 0 /\ q.writers = 0 THEN NoPipe ELSE q]

PipeDiscard(k, i) ==
    IF k.pipe[i].readers = 0 /\ k.pipe[i].writers = 0 THEN [k EXCEPT !.pipe[i] = NoPipe] ELSE k

\* lxp_pipe_try_read and lxp_pipe_try_write: what the attempt answers.
TryRead(k, i) ==
    CASE k.pipe[i].count > 0 -> "take"
      [] k.pipe[i].count = 0 /\ k.pipe[i].writers > 0 -> "again"
      [] OTHER -> "eof"

TryWrite(k, i) ==
    CASE k.pipe[i].readers = 0 -> "epipe"
      [] k.pipe[i].readers > 0 /\ k.pipe[i].count = PIPE_BUF -> "again"
      [] OTHER -> "put"

\* Mutant: a read end is ready only when it has data.
PipePollDataOnly(k, i, rw) ==
    IF rw = 0 THEN IF k.pipe[i].count > 0 THEN {"in"} ELSE {}
    ELSE IF k.pipe[i].count < PIPE_BUF \/ k.pipe[i].readers = 0 THEN {"out"} ELSE {}

PipePoll(k, i, rw) ==
    IF rw = 0 THEN IF k.pipe[i].count > 0 \/ k.pipe[i].writers = 0 THEN {"in"} ELSE {}
    ELSE IF k.pipe[i].count < PIPE_BUF \/ k.pipe[i].readers = 0 THEN {"out"} ELSE {}

-----------------------------------------------------------------------------
(* Open file descriptions and descriptor tables *)

Lookup(k, t, fd) == k.files[t].fd[fd].ofd

\* lxp_fd_open: the lowest free description and the lowest free descriptor.
FdOpen(k, t, kind, obj, rw, nonblock, cloexec) ==
    LET o == First({x \in Ofds : k.ofd[x].refs = 0})
        fd == First({f \in Fds : Lookup(k, t, f) = 0})
    IN  [k EXCEPT !.ofd[o] = [refs |-> 1, kind |-> kind, rw |-> rw,
                              nonblock |-> nonblock, obj |-> obj],
                  !.files[t].fd[fd] = [ofd |-> o, cloexec |-> cloexec]]

FreeCount(k, t) == Cardinality({f \in Fds : Lookup(k, t, f) = 0})

\* The close operation of the description's kind.
OpsClose(k, o) ==
    IF k.ofd[o].kind = "pipe" THEN PipeEndClose(k, k.ofd[o].obj, k.ofd[o].rw)
    ELSE [k EXCEPT !.efd[k.ofd[o].obj].used = FALSE]

FdClose(k, t, fd) ==
    LET o == Lookup(k, t, fd)
        j == [k EXCEPT !.files[t].fd[fd] = NoFd, !.ofd[o].refs = @ - 1]
    IN  IF o = 0 THEN k
        ELSE IF j.ofd[o].refs = 0 THEN [OpsClose(j, o) EXCEPT !.ofd[o] = NoOfd]
        ELSE j

FdCloseAll(k, t, fds) == FoldSet(LAMBDA fd, j : FdClose(j, t, fd), k, fds)

\* Mutant: every description of the table counts one more user, however many
\* descriptors of the table name it.
TableRetainOnce(k, t) ==
    [k EXCEPT !.ofd = [o \in Ofds |->
        [k.ofd[o] EXCEPT !.refs = @ + IF \E f \in Fds : Lookup(k, t, f) = o THEN 1 ELSE 0]]]

\* lxp_fd_table_retain: one more reference for every descriptor of the copy.
TableRetain(k, t) ==
    [k EXCEPT !.ofd = [o \in Ofds |->
        [k.ofd[o] EXCEPT !.refs = @ + Cardinality({f \in Fds : Lookup(k, t, f) = o})]]]

\* lxp_fd_fork_inherit: a private copy of table t, as table u.
ForkInherit(k, t, u) ==
    TableRetain([k EXCEPT !.files[u] = [refs |-> 1, fd |-> k.files[t].fd]], u)

FreeTables(k) == {u \in Tables : k.files[u].refs = 0}

\* lxp_proc_files_unshare: the table the process goes on with, and the kernel.
Unshare(k, t) ==
    IF k.files[t].refs = 1 THEN [k |-> k, t |-> t]
    ELSE LET u == First(FreeTables(k))
         IN  [k |-> [ForkInherit(k, t, u) EXCEPT !.files[t].refs = @ - 1], t |-> u]

FilesPut(k, t) ==
    IF k.files[t].refs > 1 THEN [k EXCEPT !.files[t].refs = @ - 1]
    ELSE [FdCloseAll(k, t, Fds) EXCEPT !.files[t] = NoTable]

CloseOnExec(k, t) == FdCloseAll(k, t, {f \in Fds : k.files[t].fd[f].cloexec})

\* lxp_fd_dup_to for two different descriptors.
DupTo(k, t, old, new, cloexec) ==
    LET o == Lookup(k, t, old)
        j == FdClose([k EXCEPT !.ofd[o].refs = @ + 1], t, new)
    IN  [j EXCEPT !.files[t].fd[new] = [ofd |-> o, cloexec |-> cloexec]]

FdPoll(k, o) ==
    IF k.ofd[o].kind = "pipe" THEN PipePoll(k, k.ofd[o].obj, k.ofd[o].rw)
    ELSE {"out"} \cup IF k.efd[k.ofd[o].obj].ctr > 0 THEN {"in"} ELSE {}

\* poll_scan: the entry is ready, or names no open descriptor.
PollReady(k, t, fd, ev) ==
    Lookup(k, t, fd) # 0 => ev \in FdPoll(k, Lookup(k, t, fd))

-----------------------------------------------------------------------------
(* One coordinator turn.  A wait remembers (ghost) whether the pipe it was  *)
(* parked on still exists.                                                  *)

Parked(w) == w.kind \in {"read", "write"}

Turn(k, pr) ==
    /\ Commit(k) /\ UNCHANGED calls
    /\ proc' = [q \in Procs |->
          IF Parked(pr[q].wait) /\ ~k.pipe[pr[q].wait.pipe].used
          THEN [pr[q] EXCEPT !.wait.held = FALSE] ELSE pr[q]]

\* A turn that moves no pipe bytes.
Quiet(k, pr) == Turn(k, pr) /\ did' = Nothing

Guest(p) == proc[p].life = "run" /\ proc[p].wait = NoWait /\ ~proc[p].exec.active
T(p) == proc[p].files
Woken(pr, p) == [pr EXCEPT ![p].wait = NoWait]

\* The pipe took or gave bytes, or answered end of file or a broken pipe.
Transfer(pr, op, i, data) ==
    /\ Turn([Kernel EXCEPT !.pipe[i] =
                 CASE op = "take" -> ReadRing(@, PIPE_BUF, Len(data))
                   [] op = "put" -> WriteRing(@, PIPE_BUF, data)
                   [] OTHER -> @], pr)
    /\ did' = [op |-> op, pipe |-> i, data |-> data]

\* lxp_signal_terminate for SIGPIPE, unless the process ignores it.
AfterEpipe(pr, p) == IF pr[p].ign THEN pr ELSE [pr EXCEPT ![p].life = "dying"]

ReadNow(pr, p, i, len) ==
    Transfer(pr, TryRead(Kernel, i), i, ReadBytes(pipe[i], PIPE_BUF, len))

WriteNow(pr, p, i, data) ==
    IF TryWrite(Kernel, i) = "epipe" THEN Transfer(AfterEpipe(pr, p), "epipe", i, <<>>)
    ELSE Transfer(pr, "put", i, SubSeq(data, 1, WriteLen(pipe[i], PIPE_BUF, data)))

-----------------------------------------------------------------------------
(* Calls *)

Allowed(nonblock, cloexec) ==
    (nonblock => "nonblock" \in calls) /\ (cloexec => "cloexec" \in calls)

SysPipe(p, nonblock, cloexec) ==
    /\ Guest(p) /\ Allowed(nonblock, cloexec) /\ FreePipes(Kernel) # {}
    /\ LET i == First(FreePipes(Kernel))
           k == PipeAlloc(Kernel, i)
           Ends(j, rw) == PipeEndOpen(FdOpen(j, T(p), "pipe", i, rw, nonblock, cloexec), i, rw)
       IN  Quiet(IF FreeCount(k, T(p)) < 2 THEN PipeDiscard(k, i) ELSE Ends(Ends(k, 0), 1), proc)

EventfdOpen(p, initval, sem, cloexec) ==
    /\ Guest(p) /\ "eventfd" \in calls /\ Allowed(FALSE, cloexec)
    /\ FreeCount(Kernel, T(p)) > 0 /\ \E i \in Efds : ~efd[i].used
    /\ LET i == First({x \in Efds : ~efd[x].used})
           k == [Kernel EXCEPT !.efd[i] = [used |-> TRUE, ctr |-> initval, sem |-> sem]]
       IN  Quiet(FdOpen(k, T(p), "eventfd", i, 0, FALSE, cloexec), proc)

SysClose(p, fd) ==
    /\ Guest(p) /\ Lookup(Kernel, T(p), fd) # 0
    /\ Quiet(FdClose(Kernel, T(p), fd), proc)

SysDup(p, fd, minfd, cloexec) ==
    LET room == {f \in Fds : f >= minfd /\ Lookup(Kernel, T(p), f) = 0} IN
    /\ Guest(p) /\ "dup" \in calls /\ Allowed(FALSE, cloexec)
    /\ Lookup(Kernel, T(p), fd) # 0 /\ room # {}
    /\ Quiet(DupTo(Kernel, T(p), fd, First(room), cloexec), proc)

SysDup2(p, old, new, cloexec) ==
    /\ Guest(p) /\ "dup" \in calls /\ Allowed(FALSE, cloexec)
    /\ Lookup(Kernel, T(p), old) # 0 /\ old # new
    /\ Quiet(DupTo(Kernel, T(p), old, new, cloexec), proc)

SetFl(p, fd, nonblock) ==
    LET o == Lookup(Kernel, T(p), fd) IN
    /\ Guest(p) /\ "nonblock" \in calls /\ o # 0
    /\ Quiet([Kernel EXCEPT !.ofd[o].nonblock = nonblock], proc)

SetFd(p, fd, cloexec) ==
    /\ Guest(p) /\ "setfd" \in calls /\ Lookup(Kernel, T(p), fd) # 0
    /\ Quiet([Kernel EXCEPT !.files[T(p)].fd[fd].cloexec = cloexec], proc)

\* fop_read_pipe: take, answer end of file, or park (a blocking description).
ReadPipe(p, fd, len) ==
    LET o == ofd[Lookup(Kernel, T(p), fd)] IN
    /\ Guest(p) /\ Lookup(Kernel, T(p), fd) # 0 /\ o.kind = "pipe" /\ o.rw = 0
    /\ IF TryRead(Kernel, o.obj) # "again" THEN ReadNow(proc, p, o.obj, len)
       ELSE /\ ~o.nonblock
            /\ Quiet(Kernel, [proc EXCEPT ![p].wait =
                                 [kind |-> "read", pipe |-> o.obj, len |-> len, held |-> TRUE]])

WritePipe(p, fd, data) ==
    LET o == ofd[Lookup(Kernel, T(p), fd)] IN
    /\ Guest(p) /\ Lookup(Kernel, T(p), fd) # 0 /\ o.kind = "pipe" /\ o.rw = 1
    /\ IF TryWrite(Kernel, o.obj) # "again" THEN WriteNow(proc, p, o.obj, data)
       ELSE /\ ~o.nonblock
            /\ Quiet(Kernel, [proc EXCEPT ![p].wait =
                                 [kind |-> "write", pipe |-> o.obj, data |-> data, held |-> TRUE]])

EfdRead(p, fd) ==
    LET o == ofd[Lookup(Kernel, T(p), fd)] IN
    /\ Guest(p) /\ Lookup(Kernel, T(p), fd) # 0 /\ o.kind = "eventfd" /\ efd[o.obj].ctr > 0
    /\ Quiet([Kernel EXCEPT !.efd[o.obj].ctr = IF efd[o.obj].sem THEN @ - 1 ELSE 0], proc)

\* A sum past UINT64_MAX - 1 saturates there.
EfdWrite(p, fd, v) ==
    LET o == ofd[Lookup(Kernel, T(p), fd)] IN
    /\ Guest(p) /\ Lookup(Kernel, T(p), fd) # 0 /\ o.kind = "eventfd"
    /\ Quiet([Kernel EXCEPT !.efd[o.obj].ctr = Lesser(@ + v, EFD_MAX)], proc)

\* poll_entry on one descriptor that is not ready; timed: it has a deadline.
SysPoll(p, fd, ev, timed) ==
    /\ Guest(p) /\ "poll" \in calls /\ ~PollReady(Kernel, T(p), fd, ev)
    /\ Quiet(Kernel, [proc EXCEPT ![p].wait =
                         [kind |-> "poll", fd |-> fd, ev |-> ev, timed |-> timed]])

Sigpipe(p) ==
    /\ Guest(p) /\ "sigpipe" \in calls
    /\ Quiet(Kernel, [proc EXCEPT ![p].ign = ~@])

-----------------------------------------------------------------------------
(* Fork, exec and exit *)

\* lxp_proc_resources_fork: with CLONE_FILES the table is shared.  A later
\* allocation may fail, and the child's table is put back.
ForkFiles(k, t, share) ==
    IF share THEN [k |-> [k EXCEPT !.files[t].refs = @ + 1], t |-> t]
    ELSE LET u == First(FreeTables(k)) IN [k |-> ForkInherit(k, t, u), t |-> u]

Fork(p, c, vfork, share, fails) ==
    LET f == ForkFiles(Kernel, T(p), share) IN
    /\ Guest(p) /\ proc[c].life = "free"
    /\ vfork \/ "thread" \in calls
    /\ IF fails THEN Quiet(FilesPut(f.k, f.t), proc)
       ELSE Quiet(f.k, [proc EXCEPT
                ![c] = [life |-> "run", files |-> f.t, wait |-> NoWait, exec |-> NoExec,
                        ign |-> proc[p].ign, group |-> IF vfork THEN c ELSE proc[p].group,
                        parent |-> IF vfork THEN p ELSE 0],
                ![p].life = IF vfork THEN "vfork" ELSE @])

\* The parent that process p keeps suspended goes on.
Resumed(pr, p) ==
    [q \in Procs |-> IF q = pr[p].parent /\ pr[q].life = "vfork"
                     THEN [pr[q] EXCEPT !.life = "run"] ELSE pr[q]]

\* Mutant: exec closes descriptors in the table the process shares.
SysExecveShared(p, local) ==
    /\ Guest(p) /\ "exec" \in calls
    /\ Quiet(IF local THEN CloseOnExec(Kernel, T(p)) ELSE Kernel,
             [proc EXCEPT ![p].exec = [active |-> TRUE, kept |-> TRUE]])

\* sys_execve: an image at hand unshares the table and applies close-on-exec
\* in the call; a remote image leaves both to the commit.
SysExecve(p, local) ==
    LET u == IF local THEN Unshare(Kernel, T(p)) ELSE [k |-> Kernel, t |-> T(p)]
        k == IF local THEN CloseOnExec(u.k, u.t) ELSE u.k
    IN
    /\ Guest(p) /\ "exec" \in calls
    /\ Quiet(k, [proc EXCEPT ![p].files = u.t,
                 ![p].exec = [active |-> TRUE, kept |-> k.files[u.t].fd = files[T(p)].fd]])

\* lxp_exec_txn_abort before the commit: the old image goes on with an error.
ExecAbort(p) ==
    /\ proc[p].exec.active
    /\ Quiet(Kernel, [proc EXCEPT ![p].exec = NoExec])

Peers(p) == {q \in Procs \ {p} : proc[q].life # "free" /\ proc[q].group = proc[p].group}

\* The peers of the thread group end before the image is replaced.
PeersGone(p) == FoldSet(LAMBDA q, k : FilesPut(k, T(q)), Kernel, Peers(p))
WithoutPeers(p) ==
    [q \in Procs |-> IF q \in Peers(p) THEN Free
                     ELSE IF proc[q].parent \in Peers(p) THEN [proc[q] EXCEPT !.parent = 0]
                     ELSE proc[q]]

\* lxp_exec_txn_commit and the adoption of the old resources; the new image
\* starts with fresh signal dispositions.
ExecCommit(p) ==
    LET u == Unshare(PeersGone(p), T(p)) IN
    /\ proc[p].exec.active
    /\ Quiet(CloseOnExec(u.k, u.t),
             [Resumed(WithoutPeers(p), p) EXCEPT
                 ![p].files = u.t, ![p].exec = NoExec, ![p].ign = FALSE, ![p].parent = 0])

\* A failure after the commit ends the process.
ExecFail(p) ==
    /\ proc[p].exec.active
    /\ Quiet(FilesPut(PeersGone(p), T(p)), [Resumed(WithoutPeers(p), p) EXCEPT ![p] = Free])

\* The process exits, is terminated by SIGPIPE, or is killed while parked.
Exit(p) ==
    /\ proc[p].life \in {"run", "dying"} /\ ~proc[p].exec.active
    /\ \E q \in Procs \ {p} : proc[q].life # "free"
    /\ Quiet(FilesPut(Kernel, T(p)), [Resumed(proc, p) EXCEPT ![p] = Free])

-----------------------------------------------------------------------------
(* The blocked scan *)

\* lxp_blocked_retry_pipe: the attempt is made again on the pipe index kept
\* in the wait.
RetryPipe(p) ==
    LET w == proc[p].wait IN
    /\ proc[p].life = "run" /\ Parked(w)
    /\ \/ /\ w.kind = "read" /\ TryRead(Kernel, w.pipe) # "again"
          /\ ReadNow(Woken(proc, p), p, w.pipe, w.len)
       \/ /\ w.kind = "write" /\ TryWrite(Kernel, w.pipe) # "again"
          /\ WriteNow(Woken(proc, p), p, w.pipe, w.data)

\* lxp_poll_retry: the descriptor is looked up again in the present table.
RetryPoll(p) ==
    LET w == proc[p].wait IN
    /\ proc[p].life = "run" /\ w.kind = "poll"
    /\ ~w.timed => PollReady(Kernel, T(p), w.fd, w.ev)
    /\ Quiet(Kernel, Woken(proc, p))

\* A handled signal ends a wait.
Interrupt(p) ==
    /\ "signal" \in calls /\ proc[p].wait # NoWait
    /\ Quiet(Kernel, Woken(proc, p))

-----------------------------------------------------------------------------
Init ==
    LET first == First(Procs) IN
    /\ files = [[t \in Tables |-> NoTable] EXCEPT ![1].refs = 1]
    /\ ofd = [o \in Ofds |-> NoOfd]
    /\ pipe = [i \in Pipes |-> NoPipe]
    /\ efd = [i \in Efds |-> NoEfd]
    /\ proc = [[p \in Procs |-> Free] EXCEPT ![first] =
                  [Free EXCEPT !.life = "run", !.files = 1, !.group = first]]
    /\ did = Nothing
    /\ calls \in CallSets

Next ==
    \E p \in Procs :
        \/ \E b, c \in BOOLEAN : SysPipe(p, b, c)
        \/ \E v \in AddVals, b, c \in BOOLEAN : EventfdOpen(p, v, b, c)
        \/ \E fd \in Fds : SysClose(p, fd)
        \/ \E fd, m \in Fds, c \in BOOLEAN : SysDup(p, fd, m, c)
        \/ \E old, new \in Fds, c \in BOOLEAN : SysDup2(p, old, new, c)
        \/ \E fd \in Fds, b \in BOOLEAN : SetFl(p, fd, b)
        \/ \E fd \in Fds, c \in BOOLEAN : SetFd(p, fd, c)
        \/ \E fd \in Fds, n \in ReadLens : ReadPipe(p, fd, n)
        \/ \E fd \in Fds, d \in Payloads : WritePipe(p, fd, d)
        \/ \E fd \in Fds : EfdRead(p, fd)
        \/ \E fd \in Fds, v \in AddVals : EfdWrite(p, fd, v)
        \/ \E fd \in Fds, ev \in {"in", "out"}, b \in BOOLEAN : SysPoll(p, fd, ev, b)
        \/ Sigpipe(p)
        \/ \E c \in Procs, v, s, f \in BOOLEAN : Fork(p, c, v, s, f)
        \/ \E b \in BOOLEAN : SysExecve(p, b)
        \/ ExecAbort(p) \/ ExecCommit(p) \/ ExecFail(p)
        \/ Exit(p)
        \/ RetryPipe(p) \/ RetryPoll(p) \/ Interrupt(p)

\* The coordinator keeps scanning and retries every parked call.
Spec == Init /\ [][Next]_vars /\ \A p \in Procs : WF_vars(RetryPipe(p)) /\ WF_vars(RetryPoll(p))

-----------------------------------------------------------------------------
(* Properties *)

\* Every reference count is the number of its users, at both levels and after
\* any mix of dup, fork, shared tables, exec and exit: a table counts its
\* processes, a description the descriptors of live tables that name it, a
\* pipe the descriptions of each end.  A pool entry is in use exactly while
\* some description names it.
ObjectsAccounted ==
    LET Named(o) == {e \in Tables \X Fds : files[e[1]].fd[e[2]].ofd = o}
        Ends(i, rw) == {o \in Ofds : /\ ofd[o].refs > 0 /\ ofd[o].kind = "pipe"
                                     /\ ofd[o].obj = i /\ ofd[o].rw = rw}
    IN  /\ \A t \in Tables : files[t].refs =
              Cardinality({p \in Procs : proc[p].life # "free" /\ proc[p].files = t})
        /\ \A o \in Ofds : ofd[o].refs = Cardinality(Named(o))
        /\ \A i \in Pipes : /\ pipe[i].readers = Cardinality(Ends(i, 0))
                            /\ pipe[i].writers = Cardinality(Ends(i, 1))
                            /\ pipe[i].used <=> Ends(i, 0) \cup Ends(i, 1) # {}
        /\ \A i \in Efds : efd[i].used <=>
              \E o \in Ofds : ofd[o].refs > 0 /\ ofd[o].kind = "eventfd" /\ ofd[o].obj = i

\* Every pipe of the pool implements PipeSpec: whoever reads and writes, and
\* whether at once or by a retry, bytes arrive once and in order, end of file
\* is answered only without writers, a broken pipe only without readers.
Stream ==
    INSTANCE PipeSpec WITH
        Capacity <- PIPE_BUF,
        queue <- [i \in Pipes |-> Content(pipe[i], PIPE_BUF)],
        readers <- {i \in Pipes : pipe[i].readers > 0},
        writers <- {i \in Pipes : pipe[i].writers > 0}

PipesAreStreams == Stream!Spec

\* execve gives the caller a private table: whatever a process's exec does, in
\* the call or at the commit, a process outside its thread group keeps every
\* descriptor (lxp_proc_files_unshare before lxp_fd_close_on_exec).
ExecKeepsOthers ==
    [][\A p \in Procs :
         (proc[p].exec # proc'[p].exec) =>
             \A q \in Procs \ (Peers(p) \cup {p}) :
                 proc[q].life # "free" => files'[proc'[q].files].fd = files[proc[q].files].fd]_vars

\* A call parked on a pipe that has lost its other side ends: a reader gets
\* end of file, a writer the broken pipe, and a poller is told, whatever the
\* order in which the other side's owners closed, exited or were replaced.
OtherSideGone(p) ==
    LET w == proc[p].wait IN
    \/ w.kind = "read" /\ w.held /\ pipe[w.pipe].writers = 0
    \/ w.kind = "write" /\ w.held /\ pipe[w.pipe].readers = 0
    \/ /\ w.kind = "poll" /\ Lookup(Kernel, T(p), w.fd) # 0
       /\ LET o == ofd[Lookup(Kernel, T(p), w.fd)]
          IN  /\ o.kind = "pipe"
              /\ \/ o.rw = 0 /\ w.ev = "in" /\ pipe[o.obj].writers = 0
                 \/ o.rw = 1 /\ w.ev = "out" /\ pipe[o.obj].readers = 0

HungUpCallEnds ==
    \A p \in Procs : OtherSideGone(p) ~> ~OtherSideGone(p)

\* A failed execve leaves the caller's descriptors as they were.
ExecFailureKeepsFiles ==
    [][\A p \in Procs : ExecAbort(p) => proc[p].exec.kept]_vars
=============================================================================
