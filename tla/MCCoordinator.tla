--------------------------- MODULE MCCoordinator ---------------------------
(* Guest profiles for the model checking of Coordinator. *)
EXTENDS Coordinator

Default == [g \in Sig |-> "dfl"]
Io(k) == [op |-> "io", kind |-> k]
Nobody == [s \in Slots |-> {}]
Everybody(x) == [s \in Slots |-> x]
Send(s, v, gs) == [Nobody EXCEPT ![s] = {[to |-> v, sig |-> g] : g \in gs}]
Only(s, x) == [Nobody EXCEPT ![s] = x]
Base == [calls |-> Nobody, kill |-> Nobody, self |-> Nobody, exit |-> Nobody,
         tasks |-> 2, futex |-> FALSE, reuse |-> FALSE, act |-> Default]

\* Calls of two service classes, or two of one.
Serve(c, d) == [Base EXCEPT !.calls = [Nobody EXCEPT ![0] = {c}, ![1] = {d}]]
Services == {Serve(Io("hostfs"), Io("socket")), Serve(Io("hostfs"), Io("console")),
             Serve(Io("socket"), Io("socket")), Serve(Io("console"), [op |-> "sleep"])}
\* One guest stops, continues and kills another, which may stop itself.
Jobs == [Base EXCEPT !.calls = Only(1, {Io("hostfs"), Io("pipe")}),
                     !.kill = Send(0, 1, {KILL, CONT, STOP}),
                     !.self = Only(1, {STOP})]
\* The same with a caught SIGCONT.
Caught == [Jobs EXCEPT !.kill = Send(0, 1, {CONT, STOP}), !.act[CONT] = "fn"]
\* A guest with a handler for a signal below SIGKILL is interrupted and killed.
Handled == [Jobs EXCEPT !.kill = Send(0, 1, {INT, KILL}), !.self = Nobody, !.act[INT] = "fn"]
\* Masks and sigsuspend with nested handlers, and with an ignored signal.
Masks ==
    [Base EXCEPT !.calls = Only(1, {[op |-> "sigprocmask", set |-> {USR}],
                                    [op |-> "sigsuspend", set |-> {}]}),
                 !.kill = Send(0, 1, {USR, ALRM}), !.self = Only(1, {USR}), !.act[USR] = "fn",
                 !.act[ALRM] = "fn"]
Ignored == [Masks EXCEPT !.kill = Send(0, 1, {USR, CHLD})]
\* The calls that change dispositions, dequeue signals and set an alarm.
Alarms ==
    [Base EXCEPT !.calls = Only(1, {[op |-> "sigaction", sig |-> ALRM, act |-> "fn"],
                                    [op |-> "sigaction", sig |-> ALRM, act |-> "ign"],
                                    [op |-> "sigtimedwait", set |-> {ALRM}],
                                    [op |-> "setitimer"], Io("pipe")})]
\* Futexes.
Futex == [Base EXCEPT !.tasks = 3, !.futex = TRUE]
\* Exits and the reuse of their slots.
Reuse == [Base EXCEPT !.calls = Everybody({[op |-> "plain"]}),
                      !.exit = [Nobody EXCEPT ![0] = {"exit_group"}, ![1] = {"exit"}],
                      !.reuse = TRUE]

MCProfiles == Services \cup {Jobs, Caught, Handled, Masks, Ignored, Alarms, Futex, Reuse}

\* Two guests make calls while a third, with a continuation pending, stops itself.
StopProfiles == {[Base EXCEPT !.tasks = 3, !.calls = Everybody({[op |-> "plain"]}), !.kill = Send(0, 1, {CONT}),
                              !.self = Only(1, {STOP})]}

\* One guest interrupts and kills another, which handles the interrupt.  The
\* fairness is that of Spec, the timeout of the coordinator's wait named apart.
KillProfiles == {Handled}
KillSpec == Spec /\ WF_vars(Wake)
=============================================================================
