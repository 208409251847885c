------------------------------ MODULE Sockets ------------------------------
(***************************************************************************)
(* Guest sockets (net/lxp_net.c, net/lxp_net_sys.c).  A socket is an entry *)
(* of a pool that holds one handle of the network provider; the provider's *)
(* sockets never block, so a call that would block parks the guest and the *)
(* coordinator runs the attempt again (lxp_sock_retry).                    *)
(*                                                                         *)
(* The network is nondeterministic: every attempt may succeed, fail or     *)
(* have to wait.  A descriptor may be shared by several guests, after fork *)
(* or in threads.                                                          *)
(***************************************************************************)
EXTENDS Integers, FiniteSets, FiniteSetsExt

CONSTANTS
    SockGuests,  \* guest tasks
    NSOCK        \* LXP_NSOCK

ASSUME SocketConstants == NSOCK \in Nat \ {0}

VARIABLES
    socks,     \* g_sock
    handles,   \* external: open handles of the provider
    sockfds,   \* pool entries that an open-file description owns
    sockwait   \* the call each guest is parked in

socketVars == <<socks, handles, sockfds, sockwait>>

Pool == 1..NSOCK
NoSockCall == [op |-> "none"]
NoSock == [used |-> FALSE, sock |-> 0, nonblock |-> FALSE, connecting |-> FALSE]
Unused(tab) == {i \in Pool : ~tab[i].used}

\* A handle the provider may return: one that is not open.
FreshHandle == Min((1..(NSOCK + 1)) \ handles)

SocketsInit ==
    /\ socks = [i \in Pool |-> NoSock] /\ handles = {} /\ sockfds = {}
    /\ sockwait = [g \in SockGuests |-> NoSockCall]

Idle(g) == sockwait[g] = NoSockCall
Park(g, c) == sockwait' = [sockwait EXCEPT ![g] = c]

\* A parked call is retried on its entry of the pool, whatever socket is there
\* by then.
SockCall(o, i) == [op |-> o, object |-> i]
-----------------------------------------------------------------------------
(***************************************************************************)
(* Creating and closing.                                                   *)
(***************************************************************************)
\* The pool, the provider's handles and the descriptors.
Net == [socks |-> socks, handles |-> handles, fds |-> sockfds]
Put(k) == socks' = k.socks /\ handles' = k.handles /\ sockfds' = k.fds

sock_open(k, h) == [k EXCEPT !.handles = @ \union {h}]
sock_close(k, h) == [k EXCEPT !.handles = @ \ {h}]

\* Mutant: the handle stays open when the descriptor table is full.
sock_mint_kept(k, flags) ==
    LET i == Min(Unused(k.socks))
        h == FreshHandle
        opened == sock_open(k, h)
    IN  IF Unused(k.socks) = {} THEN {k}
        ELSE {k, sock_close(opened, h), opened,
              [opened EXCEPT !.socks[i] = [NoSock EXCEPT !.used = TRUE, !.sock = h, !.nonblock = flags],
                             !.fds = @ \union {i}]}

\* A new entry of the pool: the provider may refuse the handle or its
\* non-blocking mode.
lxp_sock_new(k, flags) ==
    LET i == Min(Unused(k.socks))
        h == FreshHandle
        opened == sock_open(k, h)
    IN  IF Unused(k.socks) = {} THEN {k}
        ELSE {k, sock_close(opened, h),
              [opened EXCEPT !.socks[i] = [NoSock EXCEPT !.used = TRUE, !.sock = h,
                                                         !.nonblock = flags]]}

\* An accepted connection, like socket(2), makes an entry and then a
\* descriptor; both are undone when the descriptor table is full.
sock_mint(k, flags) ==
    LET Minted(j) == CHOOSE i \in Pool : j.socks[i].used /\ ~k.socks[i].used
    IN  UNION {IF j.socks = k.socks THEN {j}
               ELSE {[j EXCEPT !.fds = @ \union {Minted(j)}],
                     [sock_close(j, j.socks[Minted(j)].sock) EXCEPT !.socks[Minted(j)] = NoSock]} :
                  j \in lxp_sock_new(k, flags)}

lxp_sys_socket(g, flags) ==
    /\ Idle(g)
    /\ \E k \in sock_mint(Net, flags) : Put(k)
    /\ UNCHANGED sockwait

\* The last close of the description, while other guests may be parked on it.
lxp_sock_close(i) ==
    /\ i \in sockfds
    /\ Put([sock_close(Net, socks[i].sock) EXCEPT !.socks[i] = NoSock, !.fds = @ \ {i}])
    /\ UNCHANGED sockwait

fop_setfl_socket(i) ==
    /\ i \in sockfds
    /\ \E nb \in BOOLEAN : socks' = [socks EXCEPT ![i].nonblock = nb]
    /\ UNCHANGED <<handles, sockfds, sockwait>>
-----------------------------------------------------------------------------
(***************************************************************************)
(* The calls.  Each either ends at once, or would block and parks unless   *)
(* the socket, or the call, is non-blocking.                               *)
(***************************************************************************)
\* A parked or an answered call leaves the rest alone.
WouldBlock(g, i, c) ==
    Park(g, IF socks[i].nonblock THEN NoSockCall ELSE c) /\ UNCHANGED <<handles, sockfds>>

\* A connect in flight is polled, not started again.
lxp_sock_connect(g, i) ==
    /\ Idle(g) /\ i \in sockfds
    /\ \/ /\ socks' = [socks EXCEPT ![i].connecting = FALSE]
          /\ UNCHANGED <<handles, sockfds, sockwait>>
       \/ /\ socks' = [socks EXCEPT ![i].connecting = TRUE]
          /\ WouldBlock(g, i, SockCall("connect", i))

\* accept, accept4: the new socket takes the flags of the call.
lxp_sock_accept(g, i, flags) ==
    /\ Idle(g) /\ i \in sockfds
    /\ \/ (\E k \in sock_mint(Net, flags) : Put(k)) /\ UNCHANGED sockwait
       \/ /\ Unused(socks) # {} /\ UNCHANGED socks
          /\ WouldBlock(g, i, SockCall("accept", i))

\* send; a datagram with a destination and MSG_DONTWAIT never park.
lxp_sock_send(g, i, dontwait) ==
    /\ Idle(g) /\ i \in sockfds /\ UNCHANGED socks
    /\ \/ UNCHANGED <<handles, sockfds, sockwait>>
       \/ ~dontwait /\ WouldBlock(g, i, SockCall("send", i))

\* recv, recvfrom; MSG_DONTWAIT never parks.
lxp_sock_recv(g, i, dontwait) ==
    /\ Idle(g) /\ i \in sockfds /\ UNCHANGED socks
    /\ \/ UNCHANGED <<handles, sockfds, sockwait>>
       \/ ~dontwait /\ WouldBlock(g, i, SockCall("recv", i))
-----------------------------------------------------------------------------
(***************************************************************************)
(* The retry by the coordinator.                                           *)
(***************************************************************************)
\* accept is retried without its flags.
lxp_sock_retry(g) ==
    LET c == sockwait[g]
        i == c.object
    IN  /\ ~Idle(g) /\ Park(g, NoSockCall)
        /\ \/ /\ socks[i].used /\ c.op = "connect"
              /\ socks' = [socks EXCEPT ![i].connecting = FALSE]
              /\ UNCHANGED <<handles, sockfds>>
           \/ /\ socks[i].used /\ c.op = "accept"
              /\ \E k \in sock_mint(Net, FALSE) : Put(k)
           \/ /\ ~socks[i].used \/ c.op \in {"send", "recv"}
              /\ UNCHANGED <<socks, handles, sockfds>>

\* A signal ends the parked call.
SockInterrupt(g) ==
    /\ ~Idle(g) /\ Park(g, NoSockCall)
    /\ UNCHANGED <<socks, handles, sockfds>>

SocketsNext ==
    \/ \E g \in SockGuests :
          \/ \E flags \in BOOLEAN : lxp_sys_socket(g, flags)
          \/ lxp_sock_retry(g) \/ SockInterrupt(g)
          \/ \E i \in Pool, b \in BOOLEAN :
                \/ lxp_sock_connect(g, i) \/ lxp_sock_accept(g, i, b)
                \/ lxp_sock_send(g, i, b) \/ lxp_sock_recv(g, i, b)
    \/ \E i \in Pool : lxp_sock_close(i) \/ fop_setfl_socket(i)

SocketsSpec == SocketsInit /\ [][SocketsNext]_socketVars
-----------------------------------------------------------------------------
(***************************************************************************)
(* Properties.                                                             *)
(***************************************************************************)
\* Every handle of the provider belongs to one socket that a descriptor owns,
\* and such a socket has a handle of its own, whatever step of socket(2) or of
\* an accept, direct or retried, fails (lxp_net.c lxp_sock_new, do_accept).
HandlesOwned ==
    /\ sockfds = {i \in Pool : socks[i].used}
    /\ handles = {socks[i].sock : i \in sockfds}
    /\ Cardinality(handles) = Cardinality(sockfds)
=============================================================================
