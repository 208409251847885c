---------------------------- MODULE MCLifecycle ----------------------------
(* Instances of Lifecycle for TLC: which calls the guests use.             *)
EXTENDS Lifecycle

MCFork == {"FORK"}
MCForkThread == {"FORK", "THREAD"}
MCForks == Forks
MCExit == {"EXIT"}
MCExits == Exits
MCNoSignal == {}
MCKill == {"KILL"}
MCJobControl == Signals
MCAnyChild == {0}
MCChild == {0, 2}
=============================================================================
