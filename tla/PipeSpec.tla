------------------------------ MODULE PipeSpec ------------------------------
(***************************************************************************)
(* What the pipes promise (the header of src/src/fs/lxp_pipe.c): each is a *)
(* bounded first-in first-out stream of bytes between its open read ends   *)
(* and its open write ends.  queue is the content, readers and writers say *)
(* which pipes have that side open, and did is the transfer the last step  *)
(* made and its pipe.  A process that ends closes ends of several pipes in *)
(* one step, so a step is a step or a stutter of each of them.             *)
(***************************************************************************)
EXTENDS Integers, Sequences

CONSTANTS Pipes, Capacity
VARIABLES queue, readers, writers, did

vars == <<queue, readers, writers, did>>

Init ==
    /\ queue = [i \in Pipes |-> <<>>]
    /\ readers = {} /\ writers = {}
    /\ did.op = "none"

SameSides(i) == (i \in readers <=> i \in readers') /\ (i \in writers <=> i \in writers')

Open(i) ==
    /\ i \notin readers \cup writers /\ i \in readers' /\ i \in writers'
    /\ queue'[i] = <<>> /\ did'.op = "none"

\* Some of a writer's bytes join the end; a reader is there to take them.
Put(i) ==
    /\ i \in readers
    /\ did'.pipe = i /\ did'.op = "put" /\ did'.data # <<>>
    /\ queue'[i] = queue[i] \o did'.data /\ Len(queue'[i]) <= Capacity
    /\ SameSides(i)

\* A reader takes bytes from the front, and none is lost.
Take(i) ==
    /\ did'.pipe = i /\ did'.op = "take" /\ did'.data # <<>>
    /\ queue[i] = did'.data \o queue'[i]
    /\ SameSides(i)

\* End of file: only when nothing is buffered and nobody can add anything.
Eof(i) ==
    /\ queue[i] = <<>> /\ i \notin writers
    /\ did'.pipe = i /\ did'.op = "eof"
    /\ queue'[i] = queue[i] /\ SameSides(i)

\* A broken pipe: only when nobody can take anything.
Broken(i) ==
    /\ i \notin readers
    /\ did'.pipe = i /\ did'.op = "epipe"
    /\ queue'[i] = queue[i] /\ SameSides(i)

\* A side closes for good; the last close discards what is buffered.
Close(i) ==
    /\ i \in readers' => i \in readers
    /\ i \in writers' => i \in writers
    /\ queue'[i] = IF i \in readers' \cup writers' THEN queue[i] ELSE <<>>
    /\ did'.op = "none"

\* A transfer on another pipe, or none.
Idle(i) == queue'[i] = queue[i] /\ SameSides(i) /\ (did'.op = "none" \/ did'.pipe # i)

Next ==
    \A i \in Pipes :
        Open(i) \/ Put(i) \/ Take(i) \/ Eof(i) \/ Broken(i) \/ Close(i) \/ Idle(i)

Spec == Init /\ [][Next]_vars
=============================================================================
