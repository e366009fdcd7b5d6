------------------------- MODULE SelectServerProofs -------------------------
(***************************************************************************)
(* Every step of the select server is one that EventLoopProofs knows, so    *)
(* what holds of every loop holds of it: the registry is in step with the    *)
(* open descriptors, sessions are their connections' own, and what is        *)
(* logged is what LogServer promises.                                        *)
(***************************************************************************)
EXTENDS SelectServer, EventLoopProofs

\* What select reported is of descriptors, and of no use before the next select.
FdsTyped ==
  /\ fds \subseteq Fd \cup {ListenFd}
  /\ pc \in {"select", "handle", "cleanup", "stopped"}

LoopInv == LoopHolds /\ Served /\ FdsTyped

\* The server starts with an empty registry and no open descriptor.
LEMMA SelectInit == Init => LoopInv
<1> SUFFICES ASSUME Init PROVE LoopInv
  OBVIOUS
<1>1. LoopSound /\ NoneRefused
  <2>1. {} \in SUBSET {ListenFd}
    OBVIOUS
  <2> QED
    BY <2>1, LoopBegins DEF Init, LoopInit
<1> QED
  BY <1>1 DEF Init, LoopInv, LoopHolds, Served, FdsTyped

\* Where recv is called, the descriptor is a client's.
LEMMA AtClientIsClient ==
  ASSUME NEW fd \in Fd, AtClient(fd)
  PROVE  /\ fd \in Clients /\ UNCHANGED <<pc, faults, peer, sent, backlog>> /\ pc = "handle"
         /\ BufferLen \in Nat \ {0}
BY SocketsAssumption, EventLoopAssumption DEF AtClient, Clients

\* A client whose bytes are refused is closed, and none for anything else.
LEMMA SelectSteps == [Next]_vars => LoopStep(FALSE, FALSE)
<1> SUFFICES ASSUME [Next]_vars PROVE LoopStep(FALSE, FALSE)
  OBVIOUS
<1>1. CASE Peers
  BY <1>1 DEF Peers, Hears, LoopMove, LoopStep
<1>2. CASE Select
  <2>1. Waits
    BY <1>2 DEF Select, Waits, Misreported
  <2> QED
    BY <1>2, <2>1 DEF Select, LoopMove, LoopStep
<1>3. CASE SelectFails
  <2>1. Waits
    BY <1>3 DEF SelectFails, Waits, Fault
  <2> QED
    BY <1>3, <2>1 DEF SelectFails, LoopMove, LoopStep
<1>4. ASSUME NEW fd \in Fd, Again(fd)
      PROVE  LoopStep(FALSE, FALSE)
  <2>1. Waits /\ pc = "handle" /\ pc' = pc
    BY <1>4 DEF Again, AtClient, Waits, socketVars
  <2> QED
    BY <2>1 DEF LoopMove, LoopStep
<1>5. ASSUME NEW fd \in Fd, Disconnect(fd)
      PROVE  LoopStep(FALSE, FALSE)
  <2>1. fd \in Clients /\ Disconnects(fd) /\ pc = "handle" /\ pc' = pc
    BY <1>5, AtClientIsClient DEF Disconnect, Disconnects
  <2> QED
    BY <2>1 DEF LoopMove, LoopStep
<1>6. ASSUME NEW fd \in Fd, Receive(fd)
      PROVE  LoopStep(FALSE, FALSE)
  <2>1. /\ fd \in Clients /\ BufferLen \in Nat \ {0} /\ pc = "handle" /\ pc' = pc
        /\ Receives(fd, BufferLen, FALSE)
    BY <1>6, AtClientIsClient DEF Receive, Receives
  <2> QED
    BY <2>1 DEF LoopMove, LoopStep
<1>7. CASE EndRound
  <2>1. Accepts \/ Waits
    BY <1>7 DEF EndRound, Accepts, Waits, socketVars
  <2> QED
    BY <1>7, <2>1 DEF EndRound, LoopMove, LoopStep
<1>8. CASE CleanUp
  BY <1>8 DEF CleanUp, LoopStep
<1>9. CASE UNCHANGED vars
  BY <1>9 DEF vars, LoopStep
<1> QED
  BY <1>1, <1>2, <1>3, <1>4, <1>5, <1>6, <1>7, <1>8, <1>9 DEF Next, ServerStep

LEMMA FdsStayTyped == FdsTyped /\ LoopHolds /\ [Next]_vars => FdsTyped'
<1> SUFFICES ASSUME FdsTyped, LoopHolds, [Next]_vars PROVE FdsTyped'
  OBVIOUS
<1>1. CASE Select
  <2>1. Clients \subseteq Fd
    BY HoldsSuffices DEF LoopTypeOK
  <2>2. ReadyFds \subseteq Clients \cup {ListenFd}
    BY DEF ReadyFds, ClientsReady, ListenReady
  <2> QED
    BY <1>1, <2>1, <2>2 DEF Select, FdsTyped
<1>2. ASSUME NEW fd \in Fd, Again(fd) \/ Disconnect(fd) \/ Receive(fd)
      PROVE  FdsTyped'
  BY <1>2 DEF FdsTyped, Again, Disconnect, Receive, AtClient
<1>3. CASE Peers \/ SelectFails \/ EndRound \/ CleanUp \/ UNCHANGED vars
  BY <1>3 DEF FdsTyped, Peers, SelectFails, EndRound, CleanUp, vars, loopVars
<1> QED
  BY <1>1, <1>2, <1>3 DEF Next, ServerStep

\* Every step of the loop and of the peers keeps the invariant.
LEMMA SelectStep == LoopInv /\ [Next]_vars => LoopInv'
BY SelectSteps, StepKeeps, StepKeepsServed, FdsStayTyped DEF LoopInv

LEMMA SelectInvariant == Spec => []LoopInv
BY SelectInit, SelectStep, PTL DEF Spec

-----------------------------------------------------------------------------
\* Counts, queue, descriptor table, registry and what select reported keep their types.
THEOREM SelectTypeOK == Spec => []TypeOK
<1>1. LoopInv => TypeOK
  BY HoldsSuffices DEF LoopInv, FdsTyped, TypeOK
<1> QED
  BY <1>1, SelectInvariant, PTL

\* At every point of the select server's loop the registered descriptors are
\* the open ones, no connection has two of them, and none that has one is
\* still queued: no descriptor leaks and none that is closed is selected.
THEOREM SelectRegistryIsOpen == Spec => []RegistryIsOpen
<1>1. LoopInv => RegistryIsOpen
  BY HoldsSuffices DEF LoopInv
<1> QED
  BY <1>1, SelectInvariant, PTL

\* However descriptors are given again and recv cuts the streams, the session of a
\* descriptor is what a fresh one makes of the bytes of its present connection.
THEOREM SelectSessionIsOwn == Spec => []SessionIsOwn
<1>1. LoopInv => SessionIsOwn
  BY HoldsSuffices DEF LoopInv
<1> QED
  BY <1>1, SelectInvariant, PTL

\* A client that has sent what no decoder accepts is closed in the same step.
THEOREM SelectRefusedIsClosed == Spec => []RefusedIsClosed
<1>1. LoopInv => RefusedIsClosed
  BY ServedSuffices DEF LoopInv
<1> QED
  BY <1>1, SelectInvariant, PTL

\* Of every connection exactly the permitted events that its received bytes complete
\* are logged, once and in order, whatever the others do and however recv cuts them.
THEOREM SelectLogsOwed == Spec => []LogsOwed
<1>1. LoopInv => LogsOwed
  BY HoldsSuffices DEF LoopInv
<1> QED
  BY <1>1, SelectInvariant, PTL

\* A client whose peer is heard out, or is not acceptable, is closed, and no other:
\* neither readiness reported wrongly nor another client's bytes close one.
THEOREM SelectClosesOnlyWhenDone == Spec => ClosesOnlyWhenDone
<1>1. LoopInv /\ [Next]_vars => [ClosedForReason]_loopVars
  BY SelectSteps, StepCloses DEF LoopInv
<1> QED
  BY <1>1, SelectInvariant, PTL DEF Spec, ClosesOnlyWhenDone

\* The select server keeps the promise of every log server: each of its steps logs
\* exactly the events that the bytes it takes complete, of a connection that is open, or
\* logs nothing and moves a connection as Lifecycle allows.
THEOREM SelectImplementsLogServer == Spec => ImplementsLogServer
<1>1. Init => Promise!Init
  BY PromiseBegins DEF Init, LoopInit
<1>2. LoopInv /\ [Next]_vars => [Promise!Next]_(Promise!vars)
  BY SelectSteps, StepKeepsPromise DEF LoopInv
<1> QED
  BY <1>1, <1>2, SelectInvariant, PTL DEF Spec, ImplementsLogServer, Promise!Spec

\* The select server moves connections only as Lifecycle allows, whatever select
\* reports and whatever the peers do between its calls.
THEOREM SelectImplementsLifecycle == Spec => ImplementsLifecycle
<1>1. Promise!Init => Life!LifeInit
  BY PromiseIsLife
<1>2. [Promise!Next]_(Promise!vars) => [Life!LifeNext]_(Life!lifeVars)
  BY PromiseIsLife
<1> QED
  BY <1>1, <1>2, SelectImplementsLogServer, PTL
     DEF ImplementsLogServer, Promise!Spec, ImplementsLifecycle, Life!LifeSpec
=============================================================================
