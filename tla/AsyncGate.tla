----------------------------- MODULE AsyncGate -----------------------------
(***************************************************************************)
(* The async gate (src/src/lxp_async_gate.c): one word of atomic state and *)
(* a request identity shared, without a lock, by the coordinator and the   *)
(* worker task of a provider that serves one request at a time.            *)
(*                                                                         *)
(* The coordinator is one task, so its gate calls do not overlap each      *)
(* other; they interleave with the worker's at every atomic access.  The   *)
(* adapter that queues a job after SUBMIT, copies the result on COLLECT    *)
(* and cleans up on DROP is outside this repository (external); it follows *)
(* the contract of include/lxp/lxp_async_gate.h and test_async_gate.c.     *)
(***************************************************************************)
EXTENDS Naturals

CONSTANTS
    Owners,     \* generation-qualified callers; 0 is "no owner"
    Tags,       \* provider-defined operation tags; 0 is the cleared tag
    MaxReq      \* bound: requests accepted in a behaviour

ASSUME GateAssumption ==
    /\ Owners \subseteq Nat \ {0}
    /\ Tags \subseteq Nat \ {0}
    /\ MaxReq \in Nat

VARIABLES
    selected,   \* gate->selected_owner
    owner, tag, \* gate->request_owner, gate->request_tag
    state,      \* gate->state
    cpc, seen,  \* coordinator: point inside a gate call; the state it loaded
    ctag,       \* coordinator: the tag argument of enter
    cown,       \* coordinator: the owner argument of cancel
    wpc,        \* worker: point inside its job
    req,        \* requests accepted so far: the current request's number
    job, res,   \* external: request the worker serves; request whose result is stored
    dead        \* history: requests that were cancelled or rolled back

gate == <<selected, owner, tag, state>>
coord == <<cpc, seen, ctag, cown>>
ext == <<wpc, req, job, res, dead>>
vars == <<gate, coord, ext>>

States == {"IDLE", "ACTIVE", "COMPLETE", "RETIRING"}
CPcs == {"idle", "enter", "identify", "submit", "collect", "collected",
         "cancel", "cas", "cleanup", "dropped", "clear", "publish"}
WPcs == {"wait", "work", "drop", "dropped", "clear", "publish"}

\* lxp_async_gate_init: the gate is all zero.
Init ==
    /\ selected = 0 /\ owner = 0 /\ tag = 0 /\ state = "IDLE"
    /\ cpc = "idle" /\ seen = "IDLE" /\ ctag = 0 /\ cown = 0
    /\ wpc = "wait" /\ req = 0 /\ job = 0 /\ res = 0 /\ dead = {}

-----------------------------------------------------------------------------
(* The coordinator.                                                        *)

CGoto(l) == cpc' = l /\ UNCHANGED <<seen, ctag, cown>>

Select(o) ==
    /\ cpc = "idle"
    /\ selected' = o
    /\ UNCHANGED <<owner, tag, state, coord, ext>>

\* Owner 0 is served synchronously and never reaches the state word.
EnterLoad(t) ==
    /\ cpc = "idle" /\ selected # 0
    /\ state = "IDLE" => req < MaxReq
    /\ seen' = state /\ ctag' = t /\ cpc' = "enter"
    /\ UNCHANGED <<gate, cown, ext>>

EnterBlock ==
    /\ cpc = "enter"
    /\ \/ seen \in {"ACTIVE", "RETIRING"}
       \/ seen = "COMPLETE" /\ ~(owner = selected /\ tag = ctag)
    /\ CGoto("idle") /\ UNCHANGED <<gate, ext>>

\* Mutant: COLLECT looks at the owner only.
EnterCollectAnyTag ==
    /\ cpc = "enter" /\ seen = "COMPLETE" /\ owner = selected
    /\ CGoto("collect") /\ UNCHANGED <<gate, ext>>

EnterCollect ==
    /\ cpc = "enter" /\ seen = "COMPLETE" /\ owner = selected /\ tag = ctag
    /\ CGoto("collect") /\ UNCHANGED <<gate, ext>>

\* The identity is written first, ACTIVE is published second.
EnterIdentity ==
    /\ cpc = "enter" /\ seen = "IDLE"
    /\ owner' = selected /\ tag' = ctag
    /\ CGoto("identify") /\ UNCHANGED <<selected, state, ext>>

EnterActive ==
    /\ cpc = "identify"
    /\ state' = "ACTIVE" /\ req' = req + 1
    /\ CGoto("submit") /\ UNCHANGED <<selected, owner, tag, wpc, job, res, dead>>

\* external: the adapter hands the request to the worker's queue.
Submit ==
    /\ cpc = "submit"
    /\ job' = req
    /\ CGoto("idle") /\ UNCHANGED <<gate, wpc, req, res, dead>>

\* Mutant: a refused submission is forgotten instead of rolled back.
AbortForgets ==
    /\ cpc = "submit"
    /\ CGoto("idle") /\ UNCHANGED <<gate, ext>>

\* The adapter could not queue it: lxp_async_gate_abort.
Abort ==
    /\ cpc = "submit"
    /\ IF state = "ACTIVE"
       THEN state' = "RETIRING" /\ dead' = dead \cup {req} /\ CGoto("clear")
       ELSE CGoto("idle") /\ UNCHANGED <<state, dead>>
    /\ UNCHANGED <<selected, owner, tag, wpc, req, job, res>>

\* external: the saved result is copied to the retrying caller.
Collect ==
    /\ cpc = "collect"
    /\ CGoto("collected") /\ UNCHANGED <<gate, ext>>

Collected ==
    /\ cpc = "collected"
    /\ IF state = "COMPLETE"
       THEN state' = "RETIRING" /\ CGoto("clear")
       ELSE CGoto("idle") /\ UNCHANGED state
    /\ UNCHANGED <<selected, owner, tag, ext>>

CancelLoad(o) ==
    /\ \/ cpc = "idle" /\ o \in Owners
       \/ cpc = "cancel" /\ o = cown
    /\ cown' = o /\ seen' = state
    /\ cpc' = IF state \in {"ACTIVE", "COMPLETE"} /\ owner = o THEN "cas" ELSE "idle"
    /\ UNCHANGED <<gate, ctag, ext>>

\* Mutant: the coordinator retires an ACTIVE request itself.
CancelCasRetires ==
    /\ cpc = "cas"
    /\ IF state = seen
       THEN /\ state' = "RETIRING" /\ dead' = dead \cup {req}
            /\ CGoto("cleanup")
       ELSE CGoto("cancel") /\ UNCHANGED <<state, dead>>
    /\ UNCHANGED <<selected, owner, tag, wpc, req, job, res>>

\* CANCEL_COMPLETE leaves the clean-up to the coordinator, CANCEL_ACTIVE to the
\* worker; a lost race with lxp_async_gate_complete loops.
CancelCas ==
    /\ cpc = "cas"
    /\ IF state = seen
       THEN /\ state' = "RETIRING" /\ dead' = dead \cup {req}
            /\ CGoto(IF seen = "COMPLETE" THEN "cleanup" ELSE "idle")
       ELSE CGoto("cancel") /\ UNCHANGED <<state, dead>>
    /\ UNCHANGED <<selected, owner, tag, wpc, req, job, res>>

\* external: the adapter discards the stored result before it says "dropped".
CleanUp ==
    /\ cpc = "cleanup"
    /\ CGoto("dropped") /\ UNCHANGED <<gate, ext>>

CDropped ==
    /\ cpc = "dropped"
    /\ CGoto(IF state = "RETIRING" THEN "clear" ELSE "idle")
    /\ UNCHANGED <<gate, ext>>

\* gate_retire: clear the identity, then publish IDLE.
CClear ==
    /\ cpc = "clear"
    /\ owner' = 0 /\ tag' = 0
    /\ CGoto("publish") /\ UNCHANGED <<selected, state, ext>>

CPublish ==
    /\ cpc = "publish"
    /\ state' = "IDLE"
    /\ CGoto("idle") /\ UNCHANGED <<selected, owner, tag, ext>>

-----------------------------------------------------------------------------
(* The worker.                                                             *)

WGoto(l) == wpc' = l /\ UNCHANGED req

\* external: the worker starts the queued job, and later stores its result.
Take ==
    /\ wpc = "wait" /\ job # 0
    /\ WGoto("work") /\ UNCHANGED <<gate, coord, job, res, dead>>

\* Mutant: COMPLETE is stored without the compare-and-swap.
CompleteStores ==
    /\ wpc = "work"
    /\ res' = job /\ state' = "COMPLETE" /\ job' = 0
    /\ WGoto("wait")
    /\ UNCHANGED <<selected, owner, tag, coord, dead>>

Complete ==
    /\ wpc = "work"
    /\ res' = job
    /\ IF state = "ACTIVE"
       THEN state' = "COMPLETE" /\ job' = 0 /\ WGoto("wait")
       ELSE UNCHANGED <<state, job>> /\ WGoto("drop")
    /\ UNCHANGED <<selected, owner, tag, coord, dead>>

\* external: clean-up of the dropped result.
Drop ==
    /\ wpc = "drop"
    /\ job' = 0
    /\ WGoto("dropped") /\ UNCHANGED <<gate, coord, res, dead>>

WDropped ==
    /\ wpc = "dropped"
    /\ WGoto(IF state = "RETIRING" THEN "clear" ELSE "wait")
    /\ UNCHANGED <<gate, coord, job, res, dead>>

WClear ==
    /\ wpc = "clear"
    /\ owner' = 0 /\ tag' = 0
    /\ WGoto("publish") /\ UNCHANGED <<selected, state, coord, job, res, dead>>

WPublish ==
    /\ wpc = "publish"
    /\ state' = "IDLE"
    /\ WGoto("wait") /\ UNCHANGED <<selected, owner, tag, coord, job, res, dead>>

-----------------------------------------------------------------------------
\* A call the coordinator has begun.
CoordStep ==
    \/ EnterBlock \/ EnterCollect \/ EnterIdentity \/ EnterActive
    \/ Submit \/ Abort \/ Collect \/ Collected
    \/ (cpc = "cancel" /\ CancelLoad(cown)) \/ CancelCas
    \/ CleanUp \/ CDropped \/ CClear \/ CPublish

\* A call the coordinator may begin.
CoordCall ==
    \/ \E o \in Owners \cup {0} : Select(o)
    \/ \E t \in Tags : EnterLoad(t)
    \/ cpc = "idle" /\ \E o \in Owners : CancelLoad(o)

Worker == Take \/ Complete \/ Drop \/ WDropped \/ WClear \/ WPublish

Next == CoordStep \/ CoordCall \/ Worker

\* The worker task runs its jobs to the end and a gate call returns; nothing
\* is assumed about which calls the coordinator makes.
Fairness == WF_vars(CoordStep) /\ WF_vars(Worker)

Spec == Init /\ [][Next]_vars /\ Fairness

-----------------------------------------------------------------------------
\* Types, the bounds of the request counter included.
TypeOK ==
    /\ selected \in Owners \cup {0} /\ owner \in Owners \cup {0}
    /\ tag \in Tags \cup {0} /\ state \in States
    /\ cpc \in CPcs /\ seen \in States
    /\ ctag \in Tags \cup {0} /\ cown \in Owners \cup {0}
    /\ wpc \in WPcs /\ req \in 0..MaxReq
    /\ job \in 0..MaxReq /\ res \in 0..MaxReq /\ dead \subseteq 1..MaxReq

\* The buffers of the provider are never handed to a second request while the
\* worker still uses them for the first: when lxp_async_gate_enter has decided
\* SUBMIT the worker has neither a queued nor a running job.
WorkerExclusive ==
    cpc \in {"identify", "submit"} => job = 0 /\ wpc = "wait"

\* A caller that is told COLLECT gets the result of the current request, that
\* request is its own (same owner, same tag), and it was neither cancelled nor
\* rolled back in the meantime.
CollectsOwnResult ==
    cpc \in {"collect", "collected"} =>
        /\ res = req /\ req \notin dead
        /\ owner = selected /\ tag = ctag

\* The request identity is not atomic, so at most one task may be between its
\* decision to rewrite it and the publication that ends the rewrite, and the
\* other one is at a point where it does not read it either.
IdentityExclusive ==
    wpc \in {"clear", "publish"} =>
        /\ state = "RETIRING"
        /\ cpc \notin {"identify", "submit", "collect", "collected", "cleanup",
                       "dropped", "clear", "publish"}

\* A result that is on offer is never one whose request was cancelled, and an
\* ACTIVE request is one the worker has or the adapter is about to queue: no
\* completion is published for, and no wake-up is lost by, a retired request.
OfferIsLive ==
    /\ state = "COMPLETE" => res = req /\ req \notin dead /\ owner # 0
    /\ state = "ACTIVE" => (job = req \/ cpc = "submit") /\ req \notin dead

\* Neither the provider's buffers nor the request identity have two users.
GateExclusive == WorkerExclusive /\ IdentityExclusive

\* lxp_async_gate_dropped and gate_retire always end in IDLE: a cancelled
\* request cannot leave the gate closed to every later caller.
RetiringEnds == (state = "RETIRING") ~> (state = "IDLE")

\* A submitted request is answered, cancelled or rolled back.
ActiveEnds == (state = "ACTIVE") ~> (state # "ACTIVE")

\* The gate opens again after every request, however it ended.
GateReopens == RetiringEnds /\ ActiveEnds
=============================================================================
