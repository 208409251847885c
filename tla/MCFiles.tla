------------------------------ MODULE MCFiles ------------------------------
(* Instances of Files for TLC. *)
EXTENDS Files

MCProcs == {1, 2}
MCByte == {0, 1, 2}
MCPayloads == {<<1>>, <<1, 2>>}
MCReadLens == {1, 2}
MCAddVals == {1}
MCCalls == {{"thread"}, {"dup"}, {"exec", "cloexec"}, {"eventfd", "poll"}, {"sigpipe", "signal", "nonblock"}, {"setfd"}}
=============================================================================
