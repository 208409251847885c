---------------------------- MODULE MCComponents ----------------------------
(***************************************************************************)
(* Small instances of the components that share no state: the async gate,  *)
(* the 9P client, and the terminal, storage, socket, guest-memory and      *)
(* namespace modules.                                                      *)
(* "focus" is chosen at the start and says which of them runs, so that the *)
(* state spaces add up and do not multiply.                                *)
(***************************************************************************)
EXTENDS AsyncGate, Netfs, Storage, Sockets, Terminal, Memory, Namespace

VARIABLE focus

Guests == {1, 2}

\* The gate: two callers and two operation tags, so that a retry can match, or
\* differ from, the stored request in its owner, its tag, or both.
MCOwners == {1, 2}
MCTags == {1, 2}

\* 9P: one kind of call at a time.
MCNetProfiles == {{"OPEN"}, {"STAT"}, {"EXECFETCH"}}

\* Partition tables: two separate extents, and two that overlap.
Part(a, n) == [first |-> a, count |-> n]
MCTables == {<<Part(1, 1), Part(2, 1)>>, <<Part(1, 2), Part(2, 1)>>}

\* Terminal modes: cooked and raw.
Mode(cooked) == [icanon |-> cooked, echo |-> cooked, icrnl |-> cooked, isig |-> cooked,
                 onlcr |-> cooked]
MCModes == <<Mode(TRUE), Mode(FALSE)>>
\* One guest at each end of the pty.
MCUses == {<<1, TRUE>>, <<2, FALSE>>}
MCPtyWrites == {<<TRUE, <<"a", "cr">>>>, <<TRUE, <<"del">>>>, <<TRUE, <<"int", "eof">>>>,
                <<FALSE, <<"nl", "a">>>>}

\* A rootfs with a directory and a link to it, and one other mount.
Abs(p) == [abs |-> TRUE, segs |-> p]
Rel(p) == [abs |-> FALSE, segs |-> p]
Entry(kind, target) == [kind |-> kind, target |-> target]
MCRootFs == (<<>> :> Entry("dir", <<>>)) @@ (<<"r">> :> Entry("dir", <<>>))
            @@ (<<"l">> :> Entry("lnk", Abs(<<"r">>)))
MCMounts == <<[point |-> <<"p">>, fs |-> "proc", holds |-> {}]>>
MCNodes == [names |-> 2, data |-> 2]
\* Names that are free at first, and those of the rootfs and of the mount.
MCNameArgs == {Abs(<<"d">>), Abs(<<"e">>), Rel(<<"f">>), Abs(<<"l">>), Abs(<<"r">>), Abs(<<"p">>)}
MCDataArgs == {Abs(<<"d">>), Abs(<<"e">>)}
MCTargets == {Abs(<<"d">>)}
MCOpenFlags == {{}, {"CREAT"}, {"WRITE", "TRUNC"}, {"NOFOLLOW"}}
MCWrites == {<<0, 1>>, <<3, 1>>}

Foci == {"gate", "netfs", "storage", "sockets", "terminal", "memory", "namespace"}

ComponentsInit ==
    /\ focus \in Foci
    /\ Init
    /\ NetfsInit /\ (focus # "netfs" => netops = {"STAT"})
    /\ StorageInit /\ (focus # "storage" => sprofile = "fs" /\ table = <<Part(1, 1), Part(2, 1)>>)
    /\ SocketsInit
    /\ TerminalInit /\ (focus # "terminal" => tprofile = "pty")
    /\ MemoryInit
    /\ NamespaceInit /\ (focus # "namespace" => nprofile = "names")

Others(F) ==
    /\ F # "gate" => UNCHANGED vars
    /\ F # "netfs" => UNCHANGED netfsVars
    /\ F # "storage" => UNCHANGED storageVars
    /\ F # "sockets" => UNCHANGED socketVars
    /\ F # "terminal" => UNCHANGED terminalVars
    /\ F # "memory" => UNCHANGED memoryVars
    /\ F # "namespace" => UNCHANGED namespaceVars

ComponentsNext ==
    /\ \/ focus = "gate" /\ Next
       \/ focus = "netfs" /\ NetfsNext
       \/ focus = "storage" /\ StorageNext
       \/ focus = "sockets" /\ SocketsNext
       \/ focus = "terminal" /\ TerminalNext
       \/ focus = "memory" /\ MemoryNext
       \/ focus = "namespace" /\ NamespaceNext
    /\ Others(focus)
    /\ UNCHANGED focus

componentVars == <<focus, vars, netfsVars, storageVars, socketVars, terminalVars, memoryVars,
                   namespaceVars>>

\* The fairness of the gate and of the 9P client; the other components have none.
ComponentsSpec ==
    /\ ComponentsInit /\ [][ComponentsNext]_componentVars
    /\ Fairness
    /\ \A g \in NetGuests : []<>~RetryDue(g) \/ []<><<Retry(g)>>_netfsVars
    /\ []<>~TickDue \/ []<><<Tick>>_netfsVars
    /\ []<>(wire.phase # "sent")
    /\ []<>(focus = "netfs" => conn = "UP")
=============================================================================
