------------------------------ MODULE AgentIpc ------------------------------
(***************************************************************************)
(* The controller (Python) drives the node agent (Rust) over TCP: one      *)
(* connection for each decision of a domain (AgentBridge.push_caps), one   *)
(* frame for each GPU, no answer.  The agent reads every connection on a   *)
(* thread of its own (handle_conn), so an older decision may still be on   *)
(* its way while a newer one is applied, and its failsafe thread writes    *)
(* the caps of the same GPUs beside them.  Frames are lost when a send     *)
(* fails half way, when the agent goes down, and when a frame names a GPU  *)
(* the agent does not have: that one panics under the mutex all            *)
(* connections share, and from then on their frames are dropped.  An agent *)
(* that could not bind its port runs on without it, its failsafe included. *)
(***************************************************************************)
EXTENDS Integers

CONSTANTS
    GPUCount,        \* the GPUs of the controller's topology
    AgentGPUCount,   \* the GPUs the agent found; it may have fewer
    DomainCount,     \* managed domains, controlled in order 1, 2, ...
    DomainOf,        \* the domain of each GPU
    ConnCount,       \* bound: connections not read to their end yet
    BrainCaps,       \* the caps a brain may decide
    BootCaps,        \* the caps in force when the agent first starts
    EmergencyCap     \* --failsafe-cap

GPU == 0 .. GPUCount - 1
AgentGPU == 0 .. AgentGPUCount - 1
Domain == 1 .. DomainCount
Conn == 1 .. ConnCount
NoConn == 0

ASSUME IpcParameters ==
    /\ GPUCount \in Nat \ {0}
    /\ AgentGPUCount \in 1 .. GPUCount
    /\ DomainCount \in Nat \ {0}
    /\ DomainOf \in [GPU -> Domain]
    /\ ConnCount \in Nat \ {0}
    /\ BrainCaps \subseteq Nat
    /\ BootCaps \subseteq Nat
    /\ EmergencyCap \in Nat

VARIABLES
    limit,       \* the power management limit of each GPU of the agent
    over,        \* the GPUs that draw more than --failsafe-threshold
    domain,      \* the domain run_once is at
    decision,    \* decision.caps, recorded as _last_caps
    sending,     \* push_caps is at work
    todo,        \* the GPUs whose frame it has not sent
    cur,         \* the connection it sends on; NoConn: refused or broken
    frames,      \* for each connection, the caps the agent has not read yet
    up,          \* the agent runs
    listening,   \* it has bound its port
    poisoned,    \* its backend mutex is poisoned
    fs,          \* its failsafe: "scan" or "trip"
    fsGpu,       \* the GPU the failsafe is at
    disturbed    \* history: GPUs of the decision that something came between

controller == <<domain, decision, sending, todo, cur>>
failsafe == <<fs, fsGpu>>
vars == <<limit, over, domain, decision, sending, todo, cur, frames,
          up, listening, poisoned, fs, fsGpu, disturbed>>

NoCaps == [g \in {} |-> 0]
Members(d) == {g \in GPU : DomainOf[g] = d}

\* The GPUs that frames on their way name.
InFlight == UNION {DOMAIN frames[c] : c \in Conn}

\* The agent reads the frames of a connection in the
\* order they were sent, which is that of the decision.
IsFirst(S, g) == g \in S /\ \A h \in S : g <= h

Init ==
    /\ limit \in [AgentGPU -> BootCaps]
    /\ over \in SUBSET AgentGPU
    /\ domain = 1 /\ decision = NoCaps
    /\ sending = FALSE /\ todo = {} /\ cur = NoConn
    /\ frames = [c \in Conn |-> NoCaps]
    /\ up = TRUE /\ listening \in BOOLEAN /\ poisoned = FALSE
    /\ fs = "scan" /\ fsGpu = 0
    /\ disturbed = {}

---------------------------------------------------------------------------
(***************************************************************************)
(* The controller thread.                                                  *)
(***************************************************************************)
Free(c) == c # cur /\ frames[c] = NoCaps

\* create_connection, refused when the agent is down or failed to bind its port.
Connects ==
    IF up /\ listening
    THEN \E c \in Conn : /\ Free(c)
                         /\ \A b \in Conn : Free(b) => c <= b
                         /\ cur' = c
    ELSE cur' = NoConn

\* run_once() at one domain: the brain decides for the GPUs that telemetry
\* has, and push_all_caps records the decision and opens a connection for it.
Decide ==
    /\ ~sending
    /\ \E S \in SUBSET Members(domain) :
          /\ decision' \in [S -> BrainCaps]
          /\ todo' = S
          /\ disturbed' = S \cap InFlight
    /\ sending' = TRUE
    /\ Connects
    /\ UNCHANGED <<limit, over, domain, frames, up, listening, poisoned, fs,
                   fsGpu>>

\* sendall(set_cap).  On a connection whose other end is gone it is lost.
SendFrame(g) ==
    /\ sending /\ IsFirst(todo, g)
    /\ todo' = todo \ {g}
    /\ IF cur = NoConn
       THEN /\ disturbed' = disturbed \cup {g}
            /\ frames' = frames
       ELSE /\ disturbed' = disturbed
            /\ frames' = [frames EXCEPT ![cur] =
                   [h \in DOMAIN @ \cup {g} |->
                       IF h = g THEN decision[g] ELSE @[h]]]
    /\ UNCHANGED <<limit, over, domain, decision, sending, cur, up, listening,
                   poisoned, fs, fsGpu>>

\* Mutant: no way back to the first domain.
NextDomainStays == IF domain = DomainCount THEN domain ELSE domain + 1

\* run_once goes on with the next domain, run() with the next tick.
NextDomain == IF domain = DomainCount THEN 1 ELSE domain + 1

SendDone ==
    /\ sending /\ todo = {}
    /\ sending' = FALSE /\ cur' = NoConn
    /\ domain' = NextDomain
    /\ UNCHANGED <<limit, over, decision, todo, frames, up, listening,
                   poisoned, fs, fsGpu, disturbed>>

\* An OSError: push_caps returns False, which nobody looks at.  What was sent
\* is read all the same or is lost with the connection.
SendFails ==
    /\ sending
    /\ sending' = FALSE /\ cur' = NoConn /\ todo' = {}
    /\ domain' = NextDomain
    /\ \/ /\ frames' = frames
          /\ disturbed' = disturbed \cup todo
       \/ /\ cur # NoConn
          /\ frames' = [frames EXCEPT ![cur] = NoCaps]
          /\ disturbed' = disturbed \cup todo \cup DOMAIN frames[cur]
    /\ UNCHANGED <<limit, over, decision, up, listening, poisoned, fs, fsGpu>>

---------------------------------------------------------------------------
(***************************************************************************)
(* The agent's connection threads: one dispatch() at a time, under the     *)
(* mutex of the backend.                                                   *)
(***************************************************************************)
ReadFrame(c, g) ==
    /\ IsFirst(DOMAIN frames[c], g)
    /\ frames' = [frames EXCEPT ![c] = [h \in DOMAIN @ \ {g} |-> @[h]]]
    /\ UNCHANGED <<over, domain, decision, sending, todo, cur, up, listening,
                   fs, fsGpu>>

\* Mutant: the agent takes a cap only if it lowers the one in force.
AppliedLowers(c, g) ==
    /\ g \in AgentGPU /\ ~poisoned
    /\ ReadFrame(c, g)
    /\ limit' = [limit EXCEPT ![g] =
                    IF frames[c][g] < @ THEN frames[c][g] ELSE @]
    /\ UNCHANGED <<poisoned, disturbed>>

Applied(c, g) ==
    /\ g \in AgentGPU /\ ~poisoned
    /\ ReadFrame(c, g)
    /\ limit' = [limit EXCEPT ![g] = frames[c][g]]
    /\ UNCHANGED <<poisoned, disturbed>>

\* set_power_management_limit fails, which is logged; or lock() does, and the
\* frame is dropped.
Dropped(c, g) ==
    /\ g \in AgentGPU \/ poisoned
    /\ ReadFrame(c, g)
    /\ disturbed' = disturbed \cup {g}
    /\ UNCHANGED <<limit, poisoned>>

\* devices[gpu] is out of range: the thread ends, its connection with it, and
\* the mutex it held is poisoned.
Panics(c, g) ==
    /\ g \notin AgentGPU /\ ~poisoned
    /\ IsFirst(DOMAIN frames[c], g)
    /\ poisoned' = TRUE
    /\ frames' = [frames EXCEPT ![c] = NoCaps]
    /\ disturbed' = disturbed \cup DOMAIN frames[c]
    /\ cur' = IF cur = c THEN NoConn ELSE cur
    /\ UNCHANGED <<limit, over, domain, decision, sending, todo, up,
                   listening, fs, fsGpu>>

Handle(c) == \E g \in GPU : Applied(c, g) \/ Dropped(c, g) \/ Panics(c, g)

---------------------------------------------------------------------------
(***************************************************************************)
(* The failsafe thread (spawn_failsafe).  It goes to the device and not    *)
(* through the mutex of the connections.                                   *)
(***************************************************************************)
\* Mutant: one GPU too many.
FsNextBeyond == fsGpu' = IF fsGpu = AgentGPUCount THEN 0 ELSE fsGpu + 1

FsNext == fsGpu' = IF fsGpu = AgentGPUCount - 1 THEN 0 ELSE fsGpu + 1

\* power_draw_w: a failed read is 0 W.
FsRead ==
    /\ up /\ fs = "scan"
    /\ \/ fs' = "scan" /\ FsNext
       \/ fsGpu \in over /\ fs' = "trip" /\ fsGpu' = fsGpu
    /\ UNCHANGED <<limit, over, domain, decision, sending, todo, cur, frames,
                   up, listening, poisoned, disturbed>>

\* Mutant: the failsafe goes through the mutex of the connections.
FsTripsLocked ==
    /\ up /\ fs = "trip" /\ ~poisoned
    /\ limit' = [limit EXCEPT ![fsGpu] = EmergencyCap]
    /\ disturbed' = disturbed \cup {fsGpu}
    /\ fs' = "scan" /\ FsNext
    /\ UNCHANGED <<over, domain, decision, sending, todo, cur, frames, up,
                   listening, poisoned>>

FsTrips ==
    /\ up /\ fs = "trip"
    /\ limit' = [limit EXCEPT ![fsGpu] = EmergencyCap]
    /\ disturbed' = disturbed \cup {fsGpu}
    /\ fs' = "scan" /\ FsNext
    /\ UNCHANGED <<over, domain, decision, sending, todo, cur, frames, up,
                   listening, poisoned>>

\* The driver refuses the emergency cap.
FsRefused ==
    /\ up /\ fs = "trip"
    /\ fs' = "scan" /\ FsNext
    /\ UNCHANGED <<limit, over, domain, decision, sending, todo, cur, frames,
                   up, listening, poisoned, disturbed>>

---------------------------------------------------------------------------
\* The load of a GPU changes.
Workload(g) ==
    /\ over' = IF g \in over THEN over \ {g} ELSE over \cup {g}
    /\ UNCHANGED <<limit, domain, decision, sending, todo, cur, frames, up,
                   listening, poisoned, fs, fsGpu, disturbed>>

\* The agent ends, and its connections with it; the limits stay in the driver.
AgentStops ==
    /\ up
    /\ up' = FALSE /\ listening' = FALSE /\ poisoned' = FALSE
    /\ frames' = [c \in Conn |-> NoCaps]
    /\ disturbed' = disturbed \cup InFlight
    /\ cur' = NoConn
    /\ fs' = "scan" /\ fsGpu' = 0
    /\ UNCHANGED <<limit, over, domain, decision, sending, todo>>

\* A bind that fails is logged and not tried again (spawn_ipc_listener).
AgentStarts ==
    /\ ~up
    /\ up' = TRUE /\ listening' \in BOOLEAN
    /\ UNCHANGED <<limit, over, domain, decision, sending, todo, cur, frames,
                   poisoned, fs, fsGpu, disturbed>>

Controller == Decide \/ (\E g \in GPU : SendFrame(g)) \/ SendDone \/ SendFails
Failsafe == FsRead \/ FsTrips \/ FsRefused

Next ==
    \/ Controller
    \/ \E c \in Conn : Handle(c)
    \/ Failsafe
    \/ \E g \in AgentGPU : Workload(g)
    \/ AgentStops
    \/ AgentStarts

Spec == Init /\ [][Next]_vars

\* Every thread is scheduled; the driver and the sockets do not fail the same
\* call for ever.
FsCatches(g) == fsGpu = g /\ FsRead /\ fs' = "trip"
FsCaps(g) == fsGpu = g /\ FsTrips
Delivers(g) == SendFrame(g) /\ cur # NoConn
DeliversAll(d) == SendDone /\ cur # NoConn /\ domain = d
Applies(g) == \E c \in Conn : Applied(c, g)

Fairness ==
    /\ WF_vars(Controller) /\ WF_vars(Failsafe)
    /\ \A c \in Conn : WF_vars(Handle(c))
    /\ \A d \in Domain : SF_vars(DeliversAll(d))
    /\ \A g \in AgentGPU : /\ SF_vars(Delivers(g)) /\ SF_vars(Applies(g))
                           /\ SF_vars(FsCatches(g)) /\ SF_vars(FsCaps(g))

FairSpec == Spec /\ Fairness
---------------------------------------------------------------------------
\* Types.
TypeOK ==
    /\ limit \in [AgentGPU -> Nat]
    /\ over \subseteq AgentGPU
    /\ domain \in Domain
    /\ DOMAIN decision \subseteq GPU
    /\ decision \in [DOMAIN decision -> BrainCaps]
    /\ sending \in BOOLEAN
    /\ todo \subseteq GPU
    /\ cur \in Conn \cup {NoConn}
    /\ DOMAIN frames = Conn
    /\ \A c \in Conn : /\ DOMAIN frames[c] \subseteq GPU
                       /\ frames[c] \in [DOMAIN frames[c] -> BrainCaps]
    /\ up \in BOOLEAN
    /\ listening \in BOOLEAN
    /\ poisoned \in BOOLEAN
    /\ fs \in {"scan", "trip"}
    /\ fsGpu \in AgentGPU
    /\ disturbed \subseteq GPU

\* push_caps gets no answer, yet once the agent has read the frame of a GPU
\* (ipc.rs:139), what was decided for it is in force, but for a trip since, a
\* frame of an older decision that was still on its way, and a frame that was
\* lost or dropped.
DecidedInForce ==
    \A g \in DOMAIN decision \cap AgentGPU :
        g \notin todo \cup InFlight \cup disturbed => limit[g] = decision[g]

\* standalone.py:328 sends the decision again every tick: whatever was lost,
\* refused or read out of order, a decision that lasts gets in force for good on
\* a GPU that stays within its threshold, if no frame ever panics and the agent
\* could bind its port when it last started (ipc.rs:89).
DecisionSettles ==
    \A g \in AgentGPU, w \in BrainCaps :
        (/\ <>[](/\ up /\ listening /\ g \notin over
                 /\ sending /\ domain = DomainOf[g] =>
                        DOMAIN decision = Members(domain) /\ decision[g] = w)
         /\ []~poisoned)
        => <>[](limit[g] = w)

\* failsafe.rs:111: an overloaded GPU is held to the emergency cap or less again
\* and again, whatever the controller sends, and even when its frames are all
\* dropped or the agent does not listen.
OverloadCapped ==
    \A g \in AgentGPU :
        <>[](up /\ g \in over) => []<>(limit[g] <= EmergencyCap)
============================================================================
