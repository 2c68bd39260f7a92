--------------------------- MODULE AgentIpc_proofs ---------------------------
(***************************************************************************)
(* Proofs about AgentIpc, for any fleet, any agent that has at least one   *)
(* of its GPUs, any number of connections and any brain.                   *)
(***************************************************************************)
EXTENDS AgentIpc, TLAPS

\* What is to be sent is part of the decision.  For a GPU nothing came between,
\* a frame on its way carries the decision, whichever connection it is on, and
\* the decision is in force once no such frame is left.
OnItsWay ==
    /\ todo \subseteq DOMAIN decision
    /\ \A g \in DOMAIN decision \cap AgentGPU : g \notin disturbed =>
          \A c \in Conn : g \in DOMAIN frames[c] => frames[c][g] = decision[g]

IInv == TypeOK /\ OnItsWay /\ DecidedInForce

\* What a frame on its way names.
LEMMA InFlightFrame ==
    \A g : g \in InFlight <=> \E c \in Conn : g \in DOMAIN frames[c]
BY DEF InFlight

\* Reading one frame of a connection leaves the others as they were.
LEMMA ReadFrameLeaves ==
    ASSUME TypeOK, NEW c \in Conn, NEW g, ReadFrame(c, g)
    PROVE  /\ DOMAIN frames' = Conn
           /\ g \in DOMAIN frames[c] /\ g \in GPU
           /\ DOMAIN frames'[c] = DOMAIN frames[c] \ {g}
           /\ \A h \in DOMAIN frames'[c] : frames'[c][h] = frames[c][h]
           /\ frames'[c] \in [DOMAIN frames'[c] -> BrainCaps]
           /\ \A b \in Conn \ {c} : frames'[b] = frames[b]
BY DEF TypeOK, ReadFrame, IsFirst

\* A connection that is closed carries nothing; the others are as they were.
LEMMA ClosedLeaves ==
    ASSUME TypeOK, NEW c \in Conn, frames' = [frames EXCEPT ![c] = NoCaps]
    PROVE  /\ DOMAIN frames' = Conn
           /\ DOMAIN frames'[c] = {}
           /\ \A b \in Conn \ {c} : frames'[b] = frames[b]
           /\ \A b \in Conn : /\ DOMAIN frames'[b] \subseteq GPU
                              /\ frames'[b] \in [DOMAIN frames'[b] -> BrainCaps]
BY DEF TypeOK, NoCaps

\* The constants' types, as the steps of the threads use them.
LEMMA Ranges ==
    /\ AgentGPU \subseteq GPU /\ 0 \in AgentGPU
    /\ NextDomain \in Domain \/ domain \notin Domain
    /\ 1 \in Domain
    /\ BrainCaps \subseteq Nat /\ EmergencyCap \in Nat
BY IpcParameters DEF IpcParameters, AgentGPU, GPU, Domain, NextDomain

\* Nothing is decided and nothing is on its way at first.
LEMMA InitIInv == Init => IInv
<1> SUFFICES ASSUME Init PROVE IInv
    OBVIOUS
<1>1. DOMAIN decision = {} /\ decision \in [DOMAIN decision -> BrainCaps]
    BY DEF Init, NoCaps
<1>2. /\ DOMAIN frames = Conn
      /\ \A c \in Conn : /\ DOMAIN frames[c] \subseteq GPU
                         /\ frames[c] \in [DOMAIN frames[c] -> BrainCaps]
    BY DEF Init, NoCaps
<1>3. limit \in [AgentGPU -> Nat]
    BY IpcParameters DEF IpcParameters, Init
<1>4. TypeOK
    BY <1>1, <1>2, <1>3, Ranges DEF Init, TypeOK
<1>5. OnItsWay /\ DecidedInForce
    BY <1>1 DEF Init, OnItsWay, DecidedInForce
<1> QED
    BY <1>4, <1>5 DEF IInv

\* The failsafe goes round the GPUs of the agent.
LEMMA FsNextType ==
    ASSUME TypeOK, FsNext
    PROVE  fsGpu' \in AgentGPU
BY IpcParameters DEF IpcParameters, TypeOK, FsNext, AgentGPU

\* A step of the controller keeps the invariant.
LEMMA ControllerIInv == IInv /\ Controller => IInv'
<1> SUFFICES ASSUME IInv, Controller PROVE IInv'
    OBVIOUS
<1>1. CASE Decide
  <2>1. PICK S \in SUBSET Members(domain) :
            /\ decision' \in [S -> BrainCaps]
            /\ todo' = S
            /\ disturbed' = S \cap InFlight
    BY <1>1 DEF Decide
  <2>2. DOMAIN decision' = S /\ S \subseteq GPU
    BY <2>1 DEF Members
  <2>3. cur' \in Conn \cup {NoConn}
    BY <1>1 DEF Decide, Connects
  <2>4. TypeOK'
    BY <1>1, <2>1, <2>2, <2>3 DEF IInv, TypeOK, Decide
  <2>5. OnItsWay'
    BY <1>1, <2>1, <2>2, InFlightFrame DEF Decide, OnItsWay
  <2>6. DecidedInForce'
    BY <2>1, <2>2 DEF DecidedInForce
  <2> QED
    BY <2>4, <2>5, <2>6 DEF IInv
<1>2. ASSUME NEW g \in GPU, SendFrame(g) PROVE IInv'
  <2>1. g \in todo /\ g \in DOMAIN decision /\ decision[g] \in BrainCaps
    BY <1>2 DEF SendFrame, IsFirst, IInv, OnItsWay, TypeOK
  <2>2. CASE cur = NoConn
    <3>1. TypeOK'
      BY <1>2, <2>2 DEF IInv, TypeOK, SendFrame
    <3>2. OnItsWay'
      BY <1>2, <2>2 DEF IInv, OnItsWay, SendFrame
    <3>3. InFlight' = InFlight
      BY <1>2, <2>2 DEF SendFrame, InFlight
    <3>4. DecidedInForce'
      BY <1>2, <2>2, <3>3 DEF IInv, DecidedInForce, SendFrame
    <3> QED
      BY <3>1, <3>2, <3>4 DEF IInv
  <2>3. CASE cur # NoConn
    <3>1. cur \in Conn
      BY <2>3 DEF IInv, TypeOK
    <3>2. /\ DOMAIN frames' = Conn
          /\ DOMAIN frames'[cur] = DOMAIN frames[cur] \cup {g}
          /\ frames'[cur][g] = decision[g]
          /\ \A h \in DOMAIN frames[cur] : h # g => frames'[cur][h] = frames[cur][h]
          /\ \A b \in Conn \ {cur} : frames'[b] = frames[b]
      BY <1>2, <2>3, <3>1 DEF IInv, TypeOK, SendFrame
    <3>3. frames'[cur] \in [DOMAIN frames'[cur] -> BrainCaps]
      BY <1>2, <2>1, <2>3, <3>1 DEF IInv, TypeOK, SendFrame
    <3>4. TypeOK'
      BY <1>2, <2>3, <3>2, <3>3 DEF IInv, TypeOK, SendFrame
    <3>5. OnItsWay'
      BY <1>2, <2>3, <3>2 DEF IInv, OnItsWay, SendFrame
    <3>6. DecidedInForce'
      <4>1. InFlight \cup {g} \subseteq InFlight'
        BY <3>1, <3>2 DEF InFlight
      <4> QED
        BY <1>2, <2>3, <4>1 DEF IInv, DecidedInForce, SendFrame
    <3> QED
      BY <3>4, <3>5, <3>6 DEF IInv
  <2> QED
    BY <2>2, <2>3
<1>3. CASE SendDone
  <2>1. TypeOK'
    BY <1>3, Ranges DEF IInv, TypeOK, SendDone
  <2>2. OnItsWay' /\ DecidedInForce'
    BY <1>3 DEF IInv, OnItsWay, DecidedInForce, SendDone, InFlight
  <2> QED
    BY <2>1, <2>2 DEF IInv
<1>4. CASE SendFails
  <2>1. CASE frames' = frames /\ disturbed' = disturbed \cup todo
    <3>1. TypeOK'
      BY <1>4, <2>1, Ranges DEF IInv, TypeOK, SendFails
    <3>2. OnItsWay' /\ DecidedInForce'
      BY <1>4, <2>1 DEF IInv, OnItsWay, DecidedInForce, SendFails, InFlight
    <3> QED
      BY <3>1, <3>2 DEF IInv
  <2>2. CASE /\ cur # NoConn
             /\ frames' = [frames EXCEPT ![cur] = NoCaps]
             /\ disturbed' = disturbed \cup todo \cup DOMAIN frames[cur]
    <3>1. cur \in Conn
      BY <2>2 DEF IInv, TypeOK
    <3>2. /\ DOMAIN frames' = Conn
          /\ DOMAIN frames'[cur] = {}
          /\ \A b \in Conn \ {cur} : frames'[b] = frames[b]
          /\ \A b \in Conn : /\ DOMAIN frames'[b] \subseteq GPU
                             /\ frames'[b] \in [DOMAIN frames'[b] -> BrainCaps]
      BY <2>2, <3>1, ClosedLeaves DEF IInv
    <3>3. TypeOK'
      BY <1>4, <2>2, <3>1, <3>2, Ranges DEF IInv, TypeOK, SendFails
    <3>4. OnItsWay'
      BY <1>4, <2>2, <3>2 DEF IInv, OnItsWay, SendFails
    <3>5. InFlight \subseteq InFlight' \cup DOMAIN frames[cur]
      BY <3>2 DEF InFlight
    <3>6. DecidedInForce'
      BY <1>4, <2>2, <3>5 DEF IInv, DecidedInForce, SendFails
    <3> QED
      BY <3>3, <3>4, <3>6 DEF IInv
  <2> QED
    BY <1>4, <2>1, <2>2 DEF SendFails
<1> QED
    BY <1>1, <1>2, <1>3, <1>4 DEF Controller

\* A step of a connection thread keeps the invariant.
LEMMA HandleIInv == ASSUME IInv, NEW c \in Conn, Handle(c) PROVE IInv'
<1> PICK g \in GPU : Applied(c, g) \/ Dropped(c, g) \/ Panics(c, g)
    BY DEF Handle
<1>1. ASSUME ReadFrame(c, g) PROVE InFlight \subseteq InFlight' \cup {g}
  <2>1. \A b \in Conn : DOMAIN frames[b] \subseteq DOMAIN frames'[b] \cup {g}
    BY <1>1, ReadFrameLeaves DEF IInv
  <2> QED
    BY <2>1 DEF InFlight
<1>2. CASE Applied(c, g)
  <2>1. ReadFrame(c, g) /\ g \in AgentGPU
    BY <1>2 DEF Applied
  <2>2. frames[c][g] \in Nat
    BY <2>1, Ranges, ReadFrameLeaves DEF IInv, TypeOK
  <2>3. /\ limit' \in [AgentGPU -> Nat]
        /\ limit'[g] = frames[c][g]
        /\ \A h \in AgentGPU \ {g} : limit'[h] = limit[h]
    BY <1>2, <2>1, <2>2 DEF IInv, TypeOK, Applied
  <2>4. TypeOK'
    BY <1>2, <2>1, <2>3, ReadFrameLeaves DEF IInv, TypeOK, Applied, ReadFrame
  <2>5. OnItsWay'
    BY <1>2, <2>1, ReadFrameLeaves DEF IInv, OnItsWay, Applied, ReadFrame
  <2>6. g \in DOMAIN decision \ disturbed => frames[c][g] = decision[g]
    BY <2>1, ReadFrameLeaves DEF IInv, OnItsWay
  <2>7. DecidedInForce'
    BY <1>1, <1>2, <2>1, <2>3, <2>6 DEF IInv, DecidedInForce, Applied, ReadFrame
  <2> QED
    BY <2>4, <2>5, <2>7 DEF IInv
<1>3. CASE Dropped(c, g)
  <2>1. ReadFrame(c, g)
    BY <1>3 DEF Dropped
  <2>2. TypeOK'
    BY <1>3, <2>1, ReadFrameLeaves DEF IInv, TypeOK, Dropped, ReadFrame
  <2>3. OnItsWay'
    BY <1>3, <2>1, ReadFrameLeaves DEF IInv, OnItsWay, Dropped, ReadFrame
  <2>4. DecidedInForce'
    BY <1>1, <1>3, <2>1 DEF IInv, DecidedInForce, Dropped, ReadFrame
  <2> QED
    BY <2>2, <2>3, <2>4 DEF IInv
<1>4. CASE Panics(c, g)
  <2>1. /\ DOMAIN frames' = Conn
        /\ DOMAIN frames'[c] = {}
        /\ \A b \in Conn \ {c} : frames'[b] = frames[b]
        /\ \A b \in Conn : /\ DOMAIN frames'[b] \subseteq GPU
                           /\ frames'[b] \in [DOMAIN frames'[b] -> BrainCaps]
    BY <1>4, ClosedLeaves DEF IInv, Panics
  <2>2. TypeOK'
    BY <1>4, <2>1 DEF IInv, TypeOK, Panics
  <2>3. OnItsWay'
    BY <1>4, <2>1 DEF IInv, OnItsWay, Panics
  <2>4. InFlight \subseteq InFlight' \cup DOMAIN frames[c]
    BY <2>1 DEF InFlight
  <2>5. DecidedInForce'
    BY <1>4, <2>4 DEF IInv, DecidedInForce, Panics
  <2> QED
    BY <2>2, <2>3, <2>5 DEF IInv
<1> QED
    BY <1>2, <1>3, <1>4

\* A step of the failsafe keeps the invariant.
LEMMA FailsafeIInv == IInv /\ Failsafe => IInv'
<1> SUFFICES ASSUME IInv, Failsafe PROVE IInv'
    OBVIOUS
<1>1. CASE FsRead \/ FsRefused
  <2>1. fsGpu' \in AgentGPU /\ fs' \in {"scan", "trip"}
    BY <1>1, FsNextType DEF IInv, TypeOK, FsRead, FsRefused
  <2>2. TypeOK'
    BY <1>1, <2>1 DEF IInv, TypeOK, FsRead, FsRefused
  <2>3. OnItsWay' /\ DecidedInForce'
    BY <1>1 DEF IInv, OnItsWay, DecidedInForce, InFlight, FsRead, FsRefused
  <2> QED
    BY <2>2, <2>3 DEF IInv
<1>2. CASE FsTrips
  <2>1. fsGpu' \in AgentGPU /\ fsGpu \in AgentGPU /\ fsGpu \in GPU
    BY <1>2, FsNextType, Ranges DEF IInv, TypeOK, FsTrips
  <2>2. /\ limit' \in [AgentGPU -> Nat]
        /\ \A h \in AgentGPU \ {fsGpu} : limit'[h] = limit[h]
    BY <1>2, <2>1, Ranges DEF IInv, TypeOK, FsTrips
  <2>3. TypeOK'
    BY <1>2, <2>1, <2>2 DEF IInv, TypeOK, FsTrips
  <2>4. OnItsWay' /\ DecidedInForce'
    BY <1>2, <2>2 DEF IInv, OnItsWay, DecidedInForce, InFlight, FsTrips
  <2> QED
    BY <2>3, <2>4 DEF IInv
<1> QED
    BY <1>1, <1>2 DEF Failsafe

\* What happens to the agent from outside keeps the invariant: what was on its
\* way when it ends is lost.
LEMMA OutsideIInv ==
    ASSUME IInv, AgentStops \/ AgentStarts \/ (\E g \in AgentGPU : Workload(g))
    PROVE  IInv'
<1>1. CASE AgentStops
  <2>1. /\ DOMAIN frames' = Conn
        /\ \A c \in Conn : DOMAIN frames'[c] = {}
        /\ \A c \in Conn : frames'[c] \in [DOMAIN frames'[c] -> BrainCaps]
    BY <1>1 DEF AgentStops, NoCaps
  <2>2. InFlight \subseteq GPU
    BY DEF IInv, TypeOK, InFlight
  <2>3. TypeOK'
    BY <1>1, <2>1, <2>2, Ranges DEF IInv, TypeOK, AgentStops
  <2>4. OnItsWay' /\ DecidedInForce'
    BY <1>1, <2>1 DEF IInv, OnItsWay, DecidedInForce, AgentStops
  <2> QED
    BY <2>3, <2>4 DEF IInv
<1>2. CASE AgentStarts
    BY <1>2 DEF IInv, TypeOK, OnItsWay, DecidedInForce, InFlight, AgentStarts
<1>3. ASSUME NEW g \in AgentGPU, Workload(g) PROVE IInv'
    BY <1>3 DEF IInv, TypeOK, OnItsWay, DecidedInForce, InFlight, Workload
<1> QED
    BY <1>1, <1>2, <1>3

\* The invariant is inductive.
LEMMA NextIInv == IInv /\ [Next]_vars => IInv'
<1>1. CASE UNCHANGED vars
    BY <1>1 DEF vars, IInv, TypeOK, OnItsWay, DecidedInForce, InFlight
<1> QED
    BY <1>1, ControllerIInv, HandleIInv, FailsafeIInv, OutsideIInv DEF Next

\* The types of the two programs and of what is on its way between them.
THEOREM SpecTypeOK == Spec => []TypeOK
<1>1. IInv => TypeOK
    BY DEF IInv
<1> QED
    BY <1>1, InitIInv, NextIInv, PTL DEF Spec

\* A decision whose frame was read is in force (ipc.rs:139), whatever the other
\* connections, the failsafe, the driver and failures of either program do.
THEOREM SpecDecidedInForce == Spec => []DecidedInForce
<1>1. IInv => DecidedInForce
    BY DEF IInv
<1> QED
    BY <1>1, InitIInv, NextIInv, PTL DEF Spec
============================================================================
