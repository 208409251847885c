------------------------------- MODULE Netfs -------------------------------
(***************************************************************************)
(* The 9P client behind the network mount (netfs/lxp_netfs.c).  One TCP    *)
(* connection carries one message at a time.  Every remote operation of a  *)
(* guest takes a slot of the request pool, parks the guest, and is driven  *)
(* by the coordinator: lxp_netfs_retry pumps the transport on behalf of    *)
(* one parked guest, lxp_netfs_tick on behalf of nobody.  A program off    *)
(* the mount is fetched whole into the one staging buffer that every       *)
(* staged execve shares (proc/lxp_exec_stage.c).                           *)
(*                                                                         *)
(* Sockets are nondeterministic: a send may take all, some or fail, a      *)
(* connect or a step of the handshake may take any time, and the peer may  *)
(* close at any call.  Replies are abstracted to accepted or refused.      *)
(***************************************************************************)
EXTENDS Integers, Sequences, FiniteSets, SequencesExt

CONSTANTS
    NetGuests,   \* incarnations of guest tasks
    NREQ,        \* NETFS_NREQ
    NFID,        \* NETFS_NFID, fid 0 being the attached root
    NOPEN,       \* NETFS_NOPEN
    NCLUNK,      \* NETFS_NCLUNK: the queue holds one entry less
    NetProfiles, \* sets of path operations guests use; a behaviour has one
    ExecBlocks,  \* reads that fill the staging buffer
    MaxDrop      \* bound: how often an established connection is lost

ASSUME NetfsConstants ==
    /\ {NREQ, NFID, NOPEN, NCLUNK, ExecBlocks} \subseteq Nat \ {0}
    /\ NetProfiles \subseteq SUBSET {"OPEN", "STAT", "EXECFETCH"}
    /\ MaxDrop \in Nat

VARIABLES
    conn,      \* g_conn
    fids,      \* g_fid_bm: the allocated fids
    nfopen,    \* g_open
    clunks,    \* g_clunk_fid between head and tail
    reqs,      \* g_req
    order,     \* the QUEUED requests in the order of their seq
    inflight,  \* g_inflight, 0 for none
    wire,      \* the message in g_tx, on the wire, or its reply in g_rx
    nfwait,    \* each guest's wait.data.io.request, 0 when it is not parked
    nffds,     \* open-pool entries installed as descriptors
    drops,     \* lost connections so far, a bound only
    nftask,    \* guests: live, stopped by job control in a call, or ended
    stage,     \* g_stage.owner
    image,     \* whose bytes the staging buffer holds
    execing,   \* guests with an EXEC intent for the staged image
    netops     \* the profile of the behaviour

netfsVars == <<conn, fids, nfopen, clunks, reqs, order, inflight, wire, nfwait,
               nffds, drops, nftask, stage, image, execing, netops>>

Reqs == 1..NREQ
OpenPool == 1..NOPEN
NoOwner == 0
NoMsg == [phase |-> "none", msg |-> <<>>]
FreeReq == [state |-> "FREE", op |-> "CLUNK", step |-> 0, owner |-> NoOwner, oi |-> 0,
            fid |-> 0, got |-> 0, ok |-> TRUE]
FreeOpen == [used |-> FALSE, stale |-> FALSE, fid |-> 0]

\* The order of the connection states; a pump may pass several of them.
ConnStates == <<"DOWN", "CONNECTING", "VERSION_SEND", "VERSION_RECV", "ATTACH_SEND",
                "ATTACH_RECV", "UP">>
Rank(c) == CHOOSE i \in 1..Len(ConnStates) : ConnStates[i] = c

\* What the static functions of the client read and write.
Client == [conn |-> conn, fids |-> fids, opens |-> nfopen, clunks |-> clunks, reqs |-> reqs,
           order |-> order, inflight |-> inflight, wire |-> wire, drops |-> drops, image |-> image]
Publish(k) ==
    /\ conn' = k.conn /\ fids' = k.fids /\ nfopen' = k.opens /\ clunks' = k.clunks
    /\ reqs' = k.reqs /\ order' = k.order /\ inflight' = k.inflight /\ wire' = k.wire
    /\ drops' = k.drops /\ image' = k.image /\ UNCHANGED netops

Lowest(S) == CHOOSE x \in S : \A y \in S : x <= y
FreeFids(k) == (1..(NFID - 1)) \ k.fids
fid_alloc(k) == IF FreeFids(k) = {} THEN 0 ELSE Lowest(FreeFids(k))
fid_free(k, f) == [k EXCEPT !.fids = @ \ {f}]
clunk_enqueue(k, f) ==
    IF f = 0 THEN k
    ELSE IF Len(k.clunks) = NCLUNK - 1 THEN fid_free(k, f)
    ELSE [k EXCEPT !.clunks = Append(@, f)]

NetfsInit ==
    /\ conn = "DOWN" /\ fids = {} /\ clunks = <<>> /\ order = <<>> /\ inflight = 0
    /\ nfopen = [o \in OpenPool |-> FreeOpen]
    /\ reqs = [r \in Reqs |-> FreeReq]
    /\ wire = NoMsg /\ nfwait = [g \in NetGuests |-> 0] /\ nffds = {}
    /\ drops = 0 /\ nftask = [g \in NetGuests |-> "live"]
    /\ stage = NoOwner /\ image = NoOwner /\ execing = {} /\ netops \in NetProfiles
-----------------------------------------------------------------------------
(***************************************************************************)
(* The connection.                                                         *)
(***************************************************************************)
\* Every request on its way fails, an owner-less one is reclaimed, and every
\* open becomes stale.
conn_drop(k) ==
    [k EXCEPT !.conn = "DOWN", !.drops = @ + 1, !.inflight = 0, !.order = <<>>, !.wire = NoMsg,
              !.reqs = [r \in Reqs |->
                  IF @[r].state \notin {"QUEUED", "INFLIGHT"} THEN @[r]
                  ELSE IF @[r].owner = NoOwner THEN FreeReq
                  ELSE [@[r] EXCEPT !.state = "DONE", !.ok = FALSE]],
              !.opens = [o \in OpenPool |-> [@[o] EXCEPT !.stale = @ \/ k.opens[o].used]]]

CanDrop(k) == k.drops < MaxDrop

\* The first message of the handshake starts a new fid map; a failed attempt
\* leaves the connection down.
conn_reach(k, c) ==
    [k EXCEPT !.conn = c, !.fids = IF Rank(k.conn) < 3 /\ Rank(c) >= 3 THEN {} ELSE @]

\* Up to five phases of connect and handshake.
conn_advance(k) ==
    {conn_reach(k, c) : c \in {d \in Range(ConnStates) : Rank(d) >= Rank(k.conn)} \union {"DOWN"}}

\* The pending message goes out whole, in part, or not at all.
tx_flush(k) ==
    IF k.wire.phase # "sending" THEN {k}
    ELSE {k, [k EXCEPT !.wire.phase = "sent"]}
         \union (IF CanDrop(k) THEN {conn_drop(k)} ELSE {})
-----------------------------------------------------------------------------
(***************************************************************************)
(* Requests: building the message of a step, and what its reply does.      *)
(***************************************************************************)
LastStep(op) == CASE op = "OPEN" -> 2 [] op = "STAT" -> 2 [] op = "EXECFETCH" -> 4
                  [] OTHER -> 0

req_complete(k, r, ok) ==
    [k EXCEPT !.reqs[r].state = "DONE", !.reqs[r].ok = ok,
              !.inflight = 0, !.order = SelectSeq(@, LAMBDA x : x # r)]

Message(q) == <<q.op, q.step, q.fid>>

\* The message of request r: a walk needs a fid first, an I/O its open.
req_build(k, r) ==
    LET q == k.reqs[r]
        f == fid_alloc(k)
        Sent(j) == [j EXCEPT !.wire = [phase |-> "sending", msg |-> Message(j.reqs[r])],
                             !.reqs[r].state = "INFLIGHT", !.inflight = r,
                             !.order = SelectSeq(@, LAMBDA x : x # r)]
    IN  IF q.op = "READ" /\ ~k.opens[q.oi].used THEN req_complete(k, r, FALSE)
        ELSE IF q.op \in {"OPEN", "STAT", "EXECFETCH"} /\ q.step = 0
             THEN IF f = 0 THEN req_complete(k, r, FALSE)
                  ELSE Sent([k EXCEPT !.fids = @ \union {f}, !.reqs[r].fid = f])
        ELSE Sent(k)

Unreserve(k, q) == IF q.op = "OPEN" THEN [k EXCEPT !.opens[q.oi] = FreeOpen] ELSE k

req_fail(k, r) ==
    LET q == k.reqs[r]
    IN  IF q.op = "CLUNK"
        THEN [fid_free(k, q.fid) EXCEPT !.reqs[r] = FreeReq, !.inflight = 0]
        ELSE req_complete(Unreserve([clunk_enqueue(k, q.fid) EXCEPT !.reqs[r].fid = 0], q),
                          r, FALSE)

\* Nobody waits for this reply any more.
Dropped(k, r) ==
    LET q == k.reqs[r]
    IN  [Unreserve(clunk_enqueue(k, q.fid), q) EXCEPT !.reqs[r] = FreeReq, !.inflight = 0]

\* The accepted reply of the request's last step.
Finished(k, r) ==
    LET q == k.reqs[r]
    IN  CASE q.op = "CLUNK" -> [fid_free(k, q.fid) EXCEPT !.reqs[r] = FreeReq, !.inflight = 0]
          [] q.op = "READ"  -> req_complete(k, r, TRUE)
          [] q.op = "OPEN"  ->
               req_complete([k EXCEPT !.opens[q.oi] = [used |-> TRUE, stale |-> FALSE,
                                                       fid |-> q.fid]], r, TRUE)
          [] OTHER -> req_complete([fid_free(k, q.fid) EXCEPT !.reqs[r].fid = 0], r, q.ok)

\* Where an accepted reply that is not the last one leads: an executable that
\* is not a regular file skips to its clunk, and its data takes several reads.
Onward(k, r) ==
    LET q == k.reqs[r]
        At(n, ok) == [k EXCEPT !.reqs[r].step = n, !.reqs[r].ok = ok]
    IN  CASE q.op = "EXECFETCH" /\ q.step = 1 -> {At(2, TRUE), At(4, FALSE)}
          [] q.op = "EXECFETCH" /\ q.step = 3 ->
               {[j EXCEPT !.image = q.owner, !.reqs[r].got = @ + 1] :
                   j \in {At(4, TRUE), IF q.got + 1 < ExecBlocks THEN At(3, TRUE) ELSE At(4, FALSE)}}
          [] OTHER -> {At(q.step + 1, TRUE)}

\* The client after the reply, and after the message of the next step.
handle_reply(k, r) ==
    LET q == k.reqs[r]
    IN  IF q.owner = NoOwner /\ q.op # "CLUNK" THEN {Dropped(k, r)}
        ELSE {req_fail(k, r)}
             \union (IF q.step = LastStep(q.op) THEN {Finished(k, r)}
                     ELSE UNION {tx_flush(req_build(j, r)) : j \in Onward(k, r)})

-----------------------------------------------------------------------------
(***************************************************************************)
(* The pump, on behalf of guest g, or of nobody.                           *)
(***************************************************************************)
\* Mutant: the reply to an abandoned request is left to its owner, too.
MayDrainOwned(k, g) ==
    LET q == k.reqs[k.inflight] IN q.op = "CLUNK" \/ q.owner = g

\* A reply is looked at only for its owner, or when it has none.
MayDrain(k, g) ==
    LET q == k.reqs[k.inflight] IN q.op = "CLUNK" \/ q.owner \in {NoOwner, g}

Drained(k, g) ==
    IF k.inflight = 0 \/ ~MayDrain(k, g) THEN {k}
    ELSE (IF CanDrop(k) THEN {conn_drop(k)} ELSE {})
         \union (IF k.wire.phase # "replied" THEN {k}
                 ELSE handle_reply([k EXCEPT !.wire = NoMsg], k.inflight))

FreeReqs(k) == {r \in Reqs : k.reqs[r].state = "FREE"}

\* The oldest guest request is started by its owner only; clunks are sent when
\* no guest request is queued.
Started(k, g) ==
    IF k.conn # "UP" \/ k.inflight # 0 \/ k.wire.phase # "none" THEN {k}
    ELSE IF k.order # <<>>
         THEN IF k.reqs[Head(k.order)].owner # g THEN {k}
              ELSE tx_flush(req_build(k, Head(k.order)))
    ELSE IF k.clunks = <<>> \/ FreeReqs(k) = {} THEN {k}
    ELSE LET r == Lowest(FreeReqs(k))
         IN  tx_flush(req_build([k EXCEPT !.clunks = Tail(@),
                                          !.reqs[r] = [FreeReq EXCEPT !.fid = Head(k.clunks)]], r))

pump(k0, g) ==
    LET ups == IF k0.conn = "UP" THEN {k0} ELSE conn_advance(k0)
        Flushed == UNION {IF u.conn = "UP" THEN tx_flush(u) ELSE {u} : u \in ups}
        Served(k) == IF k.conn # "UP" \/ k.wire.phase = "sending" THEN {k}
                     ELSE UNION {Started(j, g) : j \in Drained(k, g)}
    IN  UNION {Served(k) : k \in Flushed}

-----------------------------------------------------------------------------
(***************************************************************************)
(* Calls of the guests.                                                    *)
(***************************************************************************)
Active(g) == nftask[g] = "live" /\ g \notin execing /\ nfwait[g] = 0

req_new(k, g, op, oi) ==
    LET r == Lowest(FreeReqs(k))
    IN  [k EXCEPT !.reqs[r] = [FreeReq EXCEPT !.state = "QUEUED", !.op = op, !.owner = g,
                                              !.oi = oi],
                  !.order = Append(@, r)]

Parks(k, g) ==
    /\ FreeReqs(k) # {}
    /\ nfwait' = [nfwait EXCEPT ![g] = Lowest(FreeReqs(k))]
    /\ UNCHANGED <<nffds, nftask, execing>>

\* open(2) reserves an entry of the pool before the first message.
Open(g) ==
    LET pool == {o \in OpenPool : ~nfopen[o].used}
        o == Lowest(pool)
    IN  /\ Active(g) /\ "OPEN" \in netops /\ pool # {}
        /\ Parks(Client, g)
        /\ Publish([req_new(Client, g, "OPEN", o) EXCEPT
                        !.opens[o] = [FreeOpen EXCEPT !.used = TRUE]])
        /\ UNCHANGED stage

\* stat, access and chdir.
Stat(g) ==
    /\ Active(g) /\ "STAT" \in netops
    /\ Parks(Client, g)
    /\ Publish(req_new(Client, g, "STAT", 0))
    /\ UNCHANGED stage

\* The staging buffer belongs to its owner while that one waits for the image.
waits_for_stage(g) ==
    /\ nftask[g] # "ended"
    /\ g \in execing \/ (nfwait[g] # 0 /\ reqs[nfwait[g]].op = "EXECFETCH")
exec_stage_claim(g) ==
    /\ stage \notin {NoOwner, g} => ~waits_for_stage(stage)
    /\ stage' = g

\* execve off the mount, and execve of a file that is copied to the buffer.
ExecFetch(g) ==
    /\ Active(g) /\ "EXECFETCH" \in netops
    /\ exec_stage_claim(g)
    /\ Parks(Client, g)
    /\ Publish(req_new(Client, g, "EXECFETCH", 0))

ExecStageCopy(g) ==
    /\ Active(g) /\ "EXECFETCH" \in netops
    /\ exec_stage_claim(g)
    /\ Publish([Client EXCEPT !.image = g])
    /\ execing' = execing \union {g}
    /\ UNCHANGED <<nfwait, nffds, nftask>>

\* The coordinator has loaded the staged image, or failed to.
ExecDone(g) ==
    /\ g \in execing
    /\ execing' = execing \ {g}
    /\ Publish(Client) /\ UNCHANGED <<nfwait, nffds, nftask, stage>>

\* read and getdents.
Read(g, o) ==
    /\ Active(g) /\ o \in nffds /\ nfopen[o].used /\ ~nfopen[o].stale
    /\ Parks(Client, g)
    /\ Publish(req_new(Client, g, "READ", o))
    /\ UNCHANGED stage

\* The last close of an open file: its fid is clunked in the background.
netfs_close(k, o) ==
    [(IF k.opens[o].stale THEN fid_free(k, k.opens[o].fid) ELSE clunk_enqueue(k, k.opens[o].fid))
        EXCEPT !.opens[o] = FreeOpen]
Close(o) ==
    /\ o \in nffds /\ nfopen[o].used
    /\ Publish(netfs_close(Client, o))
    /\ nffds' = nffds \ {o}
    /\ UNCHANGED <<nfwait, nftask, stage, execing>>

\* lxp_netfs_retry, for a guest that is not stopped: pump for g, then collect
\* its result if it is there.  A finished open becomes a descriptor, or is
\* closed when the table is full; a fetched program becomes an EXEC intent if
\* it is loadable.
Retry(g) ==
    LET r == nfwait[g]
        Pumped(k) == k.reqs[r].state = "DONE"
        Freed(k) == [k EXCEPT !.reqs[r] = FreeReq]
        o == reqs[r].oi
    IN  /\ nftask[g] = "live" /\ r # 0 /\ reqs[r].owner = g
        /\ UNCHANGED <<nftask, stage>>
        /\ \E k \in pump(Client, g) :
             \/ ~Pumped(k) /\ Publish(k) /\ UNCHANGED <<nfwait, nffds, execing>>
             \/ /\ Pumped(k)
                /\ nfwait' = [nfwait EXCEPT ![g] = 0]
                /\ CASE reqs[r].op = "OPEN" /\ k.reqs[r].ok ->
                          /\ \/ Publish(Freed(k)) /\ nffds' = nffds \union {o}
                             \/ Publish(netfs_close(Freed(k), o)) /\ UNCHANGED nffds
                          /\ UNCHANGED execing
                     [] reqs[r].op = "EXECFETCH" /\ k.reqs[r].ok ->
                          /\ execing' \in {execing, execing \union {g}}
                          /\ Publish(Freed(k)) /\ UNCHANGED nffds
                     [] OTHER -> Publish(Freed(k)) /\ UNCHANGED <<nffds, execing>>

\* lxp_netfs_tick leaves guest requests to their owners.
Tick ==
    /\ inflight # 0 => reqs[inflight].owner = NoOwner
    /\ \A r \in Reqs : reqs[r].state = "QUEUED" => reqs[r].owner = NoOwner
    /\ \E k \in pump(Client, NoOwner) : Publish(k)
    /\ UNCHANGED <<nfwait, nffds, nftask, stage, execing>>

\* Mutant: a request on the wire is freed at once.
CancelReclaims(g) ==
    LET r == nfwait[g]
        q == reqs[r]
    IN  /\ nftask[g] # "ended" /\ r # 0 /\ q.owner = g
        /\ Publish([Unreserve(clunk_enqueue(Client, q.fid), q) EXCEPT
                       !.reqs[r] = FreeReq,
                       !.order = SelectSeq(@, LAMBDA x : x # r)])
        /\ nfwait' = [nfwait EXCEPT ![g] = 0] /\ nftask' = [nftask EXCEPT ![g] = "live"]
        /\ UNCHANGED <<nffds, stage, execing>>

\* lxp_netfs_cancel, when a signal interrupts the parked call: for a stopped
\* guest a caught SIGCONT.
Cancel(g) ==
    LET r == nfwait[g]
        q == reqs[r]
        k == [Client EXCEPT !.reqs[r].owner = NoOwner]
    IN  /\ nftask[g] # "ended" /\ r # 0 /\ q.owner = g
        /\ Publish(IF q.state = "INFLIGHT" THEN k
                   ELSE [Unreserve(clunk_enqueue(k, q.fid), q) EXCEPT
                            !.reqs[r] = FreeReq,
                            !.order = SelectSeq(@, LAMBDA x : x # r)])
        /\ nfwait' = [nfwait EXCEPT ![g] = 0] /\ nftask' = [nftask EXCEPT ![g] = "live"]
        /\ UNCHANGED <<nffds, stage, execing>>

\* exit_group by a peer, execve by a peer, or a fatal signal to a task that is
\* stopped: lxp_handle_exit ends the task and does not look at its wait.
End(g) ==
    /\ nftask[g] # "ended" /\ nfwait[g] # 0
    /\ nftask' = [nftask EXCEPT ![g] = "ended"]
    /\ Publish(Client) /\ UNCHANGED <<nfwait, nffds, stage, execing>>

\* Job control stops a parked guest, and continues it in its call.
Stop(g) ==
    /\ nftask[g] = "live" /\ nfwait[g] # 0
    /\ nftask' = [nftask EXCEPT ![g] = "stopped"]
    /\ Publish(Client) /\ UNCHANGED <<nfwait, nffds, stage, execing>>
Continue(g) ==
    /\ nftask[g] = "stopped"
    /\ nftask' = [nftask EXCEPT ![g] = "live"]
    /\ Publish(Client) /\ UNCHANGED <<nfwait, nffds, stage, execing>>

\* The server answers the message it was sent.
ServerReplies ==
    /\ wire.phase = "sent"
    /\ Publish([Client EXCEPT !.wire.phase = "replied"])
    /\ UNCHANGED <<nfwait, nffds, nftask, stage, execing>>

\* lxp_netfs_shutdown and the init of the next run, every guest being stopped.
Shutdown ==
    /\ Publish([conn |-> "DOWN", fids |-> {}, opens |-> [o \in OpenPool |-> FreeOpen],
                clunks |-> <<>>, reqs |-> [r \in Reqs |-> FreeReq], order |-> <<>>,
                inflight |-> 0, wire |-> NoMsg, drops |-> drops, image |-> NoOwner])
    /\ nfwait' = [g \in NetGuests |-> 0] /\ nffds' = {}
    /\ nftask' = [g \in NetGuests |-> "live"] /\ stage' = NoOwner /\ execing' = {}

NetfsNext ==
    \/ \E g \in NetGuests : \/ Open(g) \/ Stat(g) \/ Retry(g) \/ Cancel(g) \/ End(g)
                            \/ Stop(g) \/ Continue(g)
                            \/ ExecFetch(g) \/ ExecStageCopy(g) \/ ExecDone(g)
                            \/ \E o \in OpenPool : Read(g, o)
    \/ \E o \in OpenPool : Close(o)
    \/ Tick \/ ServerReplies \/ Shutdown

\* A pump for g, or a tick, changes the state of an established connection.
Useful(g) ==
    /\ conn = "UP"
    /\ \/ wire.phase = "sending"
       \/ wire.phase = "replied" /\ MayDrain(Client, g)
       \/ wire.phase = "none" /\ order # <<>> /\ reqs[Head(order)].owner = g
       \/ wire.phase = "none" /\ order = <<>> /\ clunks # <<>> /\ FreeReqs(Client) # {}
RetryDue(g) ==
    nftask[g] = "live" /\ nfwait[g] # 0 /\ (Useful(g) \/ reqs[nfwait[g]].state = "DONE")
TickDue == (inflight = 0 \/ reqs[inflight].owner = NoOwner) /\ order = <<>> /\ Useful(NoOwner)

\* The coordinator ticks, and retries every parked guest that is not stopped,
\* again and again.  Of the world: the server is reachable again and again and
\* answers what it got.
NetfsFairness ==
    /\ \A g \in NetGuests : []<>~RetryDue(g) \/ []<><<Retry(g)>>_netfsVars
    /\ []<>~TickDue \/ []<><<Tick>>_netfsVars
    /\ []<>(wire.phase # "sent")
    /\ []<>(conn = "UP")

NetfsSpec == NetfsInit /\ [][NetfsNext]_netfsVars /\ NetfsFairness
-----------------------------------------------------------------------------
(***************************************************************************)
(* Properties.                                                             *)
(***************************************************************************)
\* Whatever is cancelled, reconnected or queued meanwhile, a message on the
\* wire belongs to the request that will be handed its reply, a request is
\* answered to the guest that is parked on it and to nobody else, and the
\* image an execve loads is the one it staged (lxp_netfs.c handle_reply,
\* lxp_netfs_cancel; lxp_exec_stage.c).
RepliesReachTheirCall ==
    /\ wire.phase # "none" => /\ inflight # 0
                              /\ reqs[inflight].state = "INFLIGHT"
                              /\ Message(reqs[inflight]) = wire.msg
    /\ \A r \in Reqs : reqs[r].owner # NoOwner => nfwait[reqs[r].owner] = r
    /\ \A g \in NetGuests : nfwait[g] # 0 => reqs[nfwait[g]].owner = g
    /\ \A g \in execing : image = g

\* h's request comes before g's: on the wire, or earlier in the queue.
Ahead(h, g) ==
    \/ inflight = nfwait[h]
    \/ \E i, j \in DOMAIN order : i < j /\ order[i] = nfwait[h] /\ order[j] = nfwait[g]
HeldUp(g) ==
    \/ nftask[g] # "live"
    \/ \E h \in NetGuests \ {g} : nftask[h] # "live" /\ nfwait[h] # 0 /\ Ahead(h, g)

\* A guest parked in a remote call is answered in the end, while the server is
\* reachable again and again, whatever other guests start, abandon by a signal or
\* lose with the connection ("the run-loop coordinator pumps the transport each
\* pass via lxp_netfs_retry and resumes the guest", lxp_netfs.c).  It can be held
\* up in one way only: it is itself stopped or ended in the call, or a guest that
\* is has its request before it, which nobody else may start or drain, and which
\* lxp_handle_exit does not cancel.
NetfsCallEnds ==
    \A g \in NetGuests : (nfwait[g] # 0) ~> (nfwait[g] = 0 \/ HeldUp(g))
=============================================================================
