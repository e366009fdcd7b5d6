------------------------- MODULE EpollServerProofs -------------------------
(***************************************************************************)
(* The epoll server's assertions hold, level- and edge-triggered, whatever  *)
(* the order of a batch: an event that is still to be handled is one of a   *)
(* registered client.  So every step is one that EventLoopProofs knows.     *)
(***************************************************************************)
EXTENDS EpollServer, EventLoopProofs, Integers

EventsRegistered == events \subseteq Clients \cup {ListenFd}

\* Between ioctl and recv: the client has no other event in the batch, so
\* nothing can close it, and what ioctl counted is there to be received.
ReadingCounted ==
  /\ reading.fd \in Clients \ events
  /\ reading.size \in Nat \ {0}
  /\ reading.size <= Max({Available(owner[reading.fd]), 1})

Batch == EventsRegistered /\ (pc = "recv" => ReadingCounted)

\* What is armed or being read is a descriptor.
WatchTyped ==
  /\ armed \subseteq Fd \cup {ListenFd}
  /\ reading = Idle \/ (reading.fd \in Fd /\ reading.size \in Nat \ {0})
  /\ pc \in {"wait", "handle", "recv", "cleanup", "stopped"}

LoopInv == LoopHolds /\ Batch /\ WatchTyped

\* As much of it as the batch and the notice of arrivals depend on.
Watching == (pc # "stopped" => RegistryInv) /\ CountsInRange /\ Batch

LEMMA LoopInvWatches == LoopInv => Watching
BY DEF LoopInv, LoopHolds, LoopSound, Ended, SessionsInv, Watching

-----------------------------------------------------------------------------
\* The size of the buffer: what there is, and at least one byte.
LEMMA MaxOfTwo ==
  ASSUME NEW a \in Int, NEW b \in Int
  PROVE  Max({a, b}) = IF a >= b THEN a ELSE b
<1>1. CASE a >= b
  <2>1. a \in {a, b} /\ \A y \in {a, b} : a >= y
    BY <1>1
  <2>2. \A x \in {a, b} : (\A y \in {a, b} : x >= y) => x = a
    BY <1>1
  <2> QED
    BY <1>1, <2>1, <2>2 DEF Max
<1>2. CASE ~(a >= b)
  <2>1. b \in {a, b} /\ \A y \in {a, b} : b >= y
    BY <1>2
  <2>2. \A x \in {a, b} : (\A y \in {a, b} : x >= y) => x = b
    BY <1>2
  <2> QED
    BY <1>2, <2>1, <2>2 DEF Max
<1> QED
  BY <1>1, <1>2

\* A client's descriptor has a connection.
LEMMA ClientHasConn ==
  ASSUME RegistryInv, NEW fd \in Clients
  PROVE  fd \in Fd /\ owner[fd] \in Conn
BY DEF RegistryInv, RegisteredAreOpen, Places, PlacesTyped

\* What is counted of a connection.
LEMMA AvailableIsNat ==
  ASSUME CountsInRange, NEW c \in Conn
  PROVE  Available(c) \in Nat
BY DEF CountsInRange, Available

\* Steps after which nothing is being read, with the registry no smaller.
LEMMA BatchKeeps ==
  ASSUME Batch, pc' # "recv", Clients \subseteq Clients', events' \subseteq events
  PROVE  Batch'
BY DEF Batch, EventsRegistered

\* A client is closed whose event has left the batch.
LEMMA RemoveKeeps ==
  ASSUME Batch, pc' = "handle", NEW fd \in Fd, RemoveClient(fd), events' \subseteq events \ {fd}
  PROVE  Batch'
<1>1. Clients' = Clients \ {fd}
  BY DEF RemoveClient, Clients, Registered
<1> QED
  BY <1>1 DEF Batch, EventsRegistered

\* Where recv is called, the descriptor is a client's and has no other event.
LEMMA AtRecvClient ==
  ASSUME Watching, NEW fd \in Fd, NEW size, AtRecv(fd, size)
  PROVE  /\ RegistryInv /\ fd \in Clients /\ owner[fd] \in Conn /\ size \in Nat \ {0}
         /\ pc \in {"handle", "recv"} /\ pc' = "handle"
         /\ events' \subseteq events \ {fd} /\ UNCHANGED <<peer, sent, backlog>>
<1>1. ListenFd \notin Fd
  BY SocketsAssumption
<1>2. RegistryInv
  BY DEF Watching, Batch, AtRecv, AtEvent
<1>3. CASE EdgeTrigger
  <2>1. /\ pc = "recv" /\ pc' = "handle" /\ events' = events
        /\ fd \in Clients /\ fd \notin events /\ size \in Nat \ {0}
    BY <1>3 DEF AtRecv, Watching, Batch, ReadingCounted
  <2> QED
    BY <1>2, <2>1, ClientHasConn DEF AtRecv
<1>4. CASE ~EdgeTrigger
  <2>1. /\ pc = "handle" /\ pc' = "handle" /\ events' = events \ {fd} /\ fd \in events
        /\ size = BufferLen
    BY <1>4 DEF AtRecv, AtEvent
  <2>2. fd \in Clients /\ size \in Nat \ {0}
    BY <1>1, <2>1, EventLoopAssumption DEF Watching, Batch, EventsRegistered
  <2> QED
    BY <1>2, <2>1, <2>2, ClientHasConn DEF AtRecv
<1> QED
  BY <1>3, <1>4

-----------------------------------------------------------------------------
\* While a client is being read its peer can only add to what ioctl counted.
LEMMA PeersKeep ==
  ASSUME Watching, Peers
  PROVE  Batch'
<1>1. RegistryInv /\ UNCHANGED <<clientSockets, pc, events, reading>>
  BY DEF Peers, Watching, Batch
<1>2. PICK c \in Conn : PeerStep(c)
  BY DEF Peers
<1>3. Clients' = Clients /\ EventsRegistered'
  BY <1>1 DEF Watching, Batch, EventsRegistered, Clients, Registered
<1>4. ASSUME pc = "recv"
      PROVE  ReadingCounted'
  <2> DEFINE d == owner[reading.fd]
  <2>1. reading.fd \in Clients \ events /\ reading.size \in Nat \ {0} /\ d \in Conn
        /\ reading.size <= Max({Available(d), 1})
    BY <1>1, <1>4, ClientHasConn DEF Watching, Batch, ReadingCounted
  <2>2. owner' = owner
    BY <1>2 DEF PeerStep, Connect, Write, Shutdown, Reset
  <2>3. Available(d)' = sent'[d] - taken[d] /\ Available(d) = sent[d] - taken[d]
        /\ sent[d] <= sent'[d] /\ sent[d] \in Nat /\ sent'[d] \in Nat /\ taken[d] \in Nat
    <3>1. /\ taken' = taken /\ CountsInRange
          /\ \A e \in Conn : sent'[e] \in Nat /\ sent[e] \in Nat /\ sent[e] <= sent'[e]
      BY <1>2, PeerKeepsCounts DEF Watching, Batch
    <3>2. d' = d
      BY <1>1, <2>2
    <3>3. Available(d)' = sent'[d] - taken'[d]
      BY <3>2 DEF Available
    <3> QED
      BY <2>1, <3>1, <3>3 DEF CountsInRange, Available
  <2> HIDE DEF d
  <2>4. reading.size <= Max({Available(d)', 1})
    <3>1. Available(d) \in Int /\ Available(d)' \in Int /\ Available(d) <= Available(d)'
      BY <2>3
    <3> QED
      BY <2>1, <3>1, MaxOfTwo
  <2>5. reading' = reading /\ Clients' = Clients /\ events' = events
    BY <1>1, <1>3
  <2>6. Available(owner[reading.fd])' = Available(d)'
    BY <2>5 DEF d
  <2> QED
    BY <2>1, <2>4, <2>5, <2>6 DEF ReadingCounted
<1> QED
  BY <1>1, <1>3, <1>4 DEF Batch

\* epoll_wait reports descriptors of the interest list only.
LEMMA WaitKeeps ==
  ASSUME Watching, Wait
  PROVE  Batch'
<1>1. /\ UNCHANGED clientSockets /\ pc' = "handle"
      /\ events' \subseteq Clients \cup {ListenFd}
  BY DEF Wait, Reportable, ReadyFds, ClientsReady, ListenReady
<1>2. EventsRegistered'
  BY <1>1 DEF EventsRegistered, Clients, Registered
<1> QED
  BY <1>1, <1>2 DEF Batch

\* A registration among other events of a batch takes nothing from them.
LEMMA AcceptKeeps ==
  ASSUME Watching, Accept
  PROVE  Batch'
<1>1. /\ UNCHANGED pc /\ pc = "handle" /\ events' \subseteq events
      /\ AddClient \/ AcceptError \/ AcceptDropped
  BY DEF Accept, AtEvent
<1>2. Clients \subseteq Clients'
  BY <1>1 DEF AddClient, Emplaced, AcceptError, AcceptDropped, Clients, Registered
<1> QED
  BY <1>1, <1>2, BatchKeeps DEF Watching, Batch

\* ioctl counts what there is and takes the client's event out of the batch.
LEMMA IoctlKeeps ==
  ASSUME Watching, NEW fd \in Fd, Ioctl(fd)
  PROVE  Batch'
<1> DEFINE most == Max({Available(owner[fd]), 1})
<1>1. /\ RegistryInv /\ UNCHANGED <<socketVars, clientSockets>> /\ pc' = "recv"
      /\ fd \in events /\ events' = events \ {fd}
      /\ reading' = [fd |-> fd, size |-> most]
  BY DEF Ioctl, AtEvent, Watching, Batch
<1>2. Clients' = Clients /\ EventsRegistered'
  BY <1>1 DEF Watching, Batch, EventsRegistered, Clients, Registered
<1>3. fd \in Clients /\ Available(owner[fd]) \in Nat
  BY <1>1, SocketsAssumption, ClientHasConn, AvailableIsNat DEF Watching, Batch, EventsRegistered
<1>4. most \in Nat \ {0}
  BY <1>3, MaxOfTwo
<1>5. Available(owner[fd])' = Available(owner[fd])
  BY <1>1 DEF Available, socketVars
<1>6. most' = most
  BY <1>5
<1>7. reading'.fd = fd /\ reading'.size = most
  BY <1>1
<1>8. ReadingCounted'
  <2>1. Max({Available(owner[reading.fd]), 1})' = most
    BY <1>6, <1>7
  <2> HIDE DEF most
  <2>2. most <= most
    BY <1>4
  <2> QED
    BY <1>1, <1>2, <1>3, <1>4, <1>7, <2>1, <2>2 DEF ReadingCounted
<1> QED
  BY <1>2, <1>8 DEF Batch

\* What recv returns is taken, and the session keeps its place.
LEMMA ReceiveKeeps ==
  ASSUME Watching, NEW fd \in Fd, NEW size, Receive(fd, size)
  PROVE  Batch'
<1>1. pc' = "handle" /\ events' \subseteq events /\ DOMAIN clientSockets' = Registered
  BY AtRecvClient, KeepClientStays DEF Receive
<1>2. Clients' = Clients
  BY <1>1 DEF Clients, Registered
<1> QED
  BY <1>1, <1>2, BatchKeeps DEF Watching, Batch

-----------------------------------------------------------------------------
\* The server starts with nothing registered and nothing to handle.
LEMMA EpollInit == Init => LoopInv
<1> SUFFICES ASSUME Init PROVE LoopInv
  OBVIOUS
<1>1. LoopSound
  <2>1. {} \in SUBSET {ListenFd}
    OBVIOUS
  <2> QED
    BY <2>1, LoopBegins DEF Init, LoopInit
<1>2. Batch /\ WatchTyped
  BY DEF Init, Batch, EventsRegistered, WatchTyped
<1> QED
  BY <1>1, <1>2 DEF Init, LoopInv, LoopHolds

\* A client whose bytes are refused is kept; edge-triggered, one whose bytes ioctl fails
\* to count is closed.
LEMMA EpollSteps == Watching /\ [Next]_vars => LoopStep(TRUE, EdgeTrigger)
<1> SUFFICES ASSUME Watching, [Next]_vars PROVE LoopStep(TRUE, EdgeTrigger)
  OBVIOUS
<1>1. CASE Peers
  BY <1>1 DEF Peers, Hears, LoopMove, LoopStep
<1>2. CASE Wait
  <2>1. Waits
    BY <1>2 DEF Wait, Waits, Misreported
  <2> QED
    BY <1>2, <2>1 DEF Wait, LoopMove, LoopStep
<1>3. CASE WaitFails \/ EndBatch
  <2>1. Waits
    BY <1>3 DEF WaitFails, EndBatch, Waits
  <2> QED
    BY <1>3, <2>1 DEF WaitFails, EndBatch, LoopMove, LoopStep
<1>4. CASE Accept
  <2>1. Accepts /\ pc = "handle" /\ pc' = pc
    BY <1>4 DEF Accept, AtEvent, Accepts
  <2> QED
    BY <2>1 DEF LoopMove, LoopStep
<1>5. ASSUME NEW fd \in Fd, Ioctl(fd)
      PROVE  LoopStep(TRUE, EdgeTrigger)
  <2>1. Waits
    BY <1>5 DEF Ioctl, Waits
  <2> QED
    BY <1>5, <2>1 DEF Ioctl, AtEvent, LoopMove, LoopStep
<1>6. ASSUME NEW fd \in Fd, IoctlFails(fd)
      PROVE  LoopStep(TRUE, EdgeTrigger)
  <2>1. fd \in Clients /\ EdgeTrigger /\ Forfeits(fd) /\ pc = "handle" /\ pc' = pc
    BY <1>6, SocketsAssumption
       DEF IoctlFails, AtEvent, Forfeits, Watching, Batch, EventsRegistered
  <2> QED
    BY <2>1 DEF LoopMove, LoopStep
<1>7. ASSUME NEW fd \in Fd, NEW size, Again(fd, size)
      PROVE  LoopStep(TRUE, EdgeTrigger)
  <2>1. AtRecv(fd, size) /\ UNCHANGED <<taken, owner, clientSockets, logged>>
    BY <1>7 DEF Again
  <2>2. Waits /\ pc # "stopped" /\ pc' # "stopped"
    BY <2>1, AtRecvClient DEF AtRecv, Waits, socketVars
  <2> QED
    BY <2>2 DEF LoopMove, LoopStep
<1>8. ASSUME NEW fd \in Fd, NEW size, Disconnect(fd, size)
      PROVE  LoopStep(TRUE, EdgeTrigger)
  <2>1. fd \in Clients /\ Disconnects(fd) /\ pc # "stopped" /\ pc' # "stopped"
    BY <1>8, AtRecvClient DEF Disconnect, AtRecv, Disconnects
  <2> QED
    BY <2>1 DEF LoopMove, LoopStep
<1>9. ASSUME NEW fd \in Fd, NEW size, Receive(fd, size)
      PROVE  LoopStep(TRUE, EdgeTrigger)
  <2>1. /\ fd \in Clients /\ size \in Nat \ {0} /\ pc # "stopped" /\ pc' # "stopped"
        /\ Receives(fd, size, TRUE)
    BY <1>9, AtRecvClient DEF Receive, AtRecv, Receives
  <2> QED
    BY <2>1 DEF LoopMove, LoopStep
<1>10. CASE CleanUp
  BY <1>10 DEF CleanUp, LoopStep
<1>11. CASE UNCHANGED vars
  BY <1>11 DEF vars, LoopStep
<1> QED
  BY <1>1, <1>2, <1>3, <1>4, <1>5, <1>6, <1>7, <1>8, <1>9, <1>10, <1>11 DEF Next, ServerStep

\* Every step of the loop and of the peers keeps the events of a batch registered.
LEMMA BatchStep == Watching /\ [Next]_vars => Batch'
<1> SUFFICES ASSUME Watching, [Next]_vars
             PROVE  Batch'
  OBVIOUS
<1>0. Batch
  BY DEF Watching
<1>1. CASE Peers
  BY <1>1, PeersKeep
<1>2. CASE Wait
  BY <1>2, WaitKeeps
<1>3. CASE WaitFails \/ EndBatch \/ CleanUp
  <2>1. UNCHANGED <<clientSockets, events>> /\ pc' # "recv"
    BY <1>3 DEF WaitFails, EndBatch, CleanUp, CloseAll
  <2>2. Clients' = Clients
    BY <2>1 DEF Clients, Registered
  <2> QED
    BY <1>0, <2>1, <2>2, BatchKeeps
<1>4. CASE Accept
  BY <1>4, AcceptKeeps
<1>5. ASSUME NEW fd \in Fd, Ioctl(fd)
      PROVE  Batch'
  BY <1>5, IoctlKeeps
<1>6. ASSUME NEW fd \in Fd, IoctlFails(fd)
      PROVE  Batch'
  <2>1. pc' = "handle" /\ events' \subseteq events \ {fd} /\ RemoveClient(fd)
    BY <1>6 DEF IoctlFails, AtEvent
  <2> QED
    BY <1>0, <2>1, RemoveKeeps
<1>7. ASSUME NEW fd \in Fd, NEW size, Again(fd, size)
      PROVE  Batch'
  <2>1. pc' = "handle" /\ events' \subseteq events /\ UNCHANGED clientSockets
    BY <1>7, AtRecvClient DEF Again
  <2>2. Clients' = Clients
    BY <2>1 DEF Clients, Registered
  <2> QED
    BY <1>0, <2>1, <2>2, BatchKeeps
<1>8. ASSUME NEW fd \in Fd, NEW size, Disconnect(fd, size)
      PROVE  Batch'
  <2>1. pc' = "handle" /\ events' \subseteq events \ {fd} /\ RemoveClient(fd)
    BY <1>8, AtRecvClient DEF Disconnect
  <2> QED
    BY <1>0, <2>1, RemoveKeeps
<1>9. ASSUME NEW fd \in Fd, NEW size, Receive(fd, size)
      PROVE  Batch'
  BY <1>9, ReceiveKeeps
<1>10. CASE UNCHANGED vars
  <2>1. UNCHANGED <<sent, taken, owner, clientSockets, pc, events, reading>>
    BY <1>10 DEF vars, loopVars, socketVars
  <2> QED
    BY <1>0, <2>1 DEF Batch, EventsRegistered, ReadingCounted, Available, Clients, Registered
<1> QED
  BY <1>1, <1>2, <1>3, <1>4, <1>5, <1>6, <1>7, <1>8, <1>9, <1>10 DEF Next, ServerStep

LEMMA WatchStaysTyped == WatchTyped /\ Watching /\ [Next]_vars => WatchTyped'
<1> SUFFICES ASSUME WatchTyped, Watching, [Next]_vars
             PROVE  WatchTyped'
  OBVIOUS
<1>1. CASE Peers
  BY <1>1 DEF Peers, Woken, WatchTyped
<1>2. CASE Wait \/ WaitFails \/ EndBatch \/ CleanUp \/ UNCHANGED vars
  BY <1>2 DEF Wait, WaitFails, EndBatch, CleanUp, vars, loopVars, WatchTyped
<1>3. CASE Accept
  BY <1>3, NextFdIsFree DEF Accept, AtEvent, AddClient, Added, WatchTyped
<1>4. ASSUME NEW fd \in Fd, Ioctl(fd)
      PROVE  WatchTyped'
  <2>1. Batch' /\ pc' = "recv" /\ reading'.fd = fd /\ UNCHANGED armed
    BY <1>4, IoctlKeeps DEF Ioctl
  <2>2. reading'.size \in Nat \ {0}
    BY <2>1 DEF Batch, ReadingCounted
  <2> QED
    BY <2>1, <2>2 DEF WatchTyped
<1>5. ASSUME NEW fd \in Fd, IoctlFails(fd)
      PROVE  WatchTyped'
  BY <1>5 DEF IoctlFails, AtEvent, WatchTyped
<1>6. ASSUME NEW fd \in Fd, NEW size, Again(fd, size) \/ Disconnect(fd, size) \/ Receive(fd, size)
      PROVE  WatchTyped'
  <2>1. AtRecv(fd, size) /\ armed' \subseteq armed
    BY <1>6 DEF Again, Disconnect, Receive
  <2>2. UNCHANGED reading \/ reading' = Idle
    BY <2>1 DEF AtRecv
  <2>3. pc' = "handle"
    BY <2>1, AtRecvClient
  <2> QED
    BY <2>1, <2>2, <2>3 DEF WatchTyped
<1> QED
  BY <1>1, <1>2, <1>3, <1>4, <1>5, <1>6 DEF Next, ServerStep

LEMMA EpollStep == LoopInv /\ [Next]_vars => LoopInv'
BY LoopInvWatches, EpollSteps, StepKeeps, BatchStep, WatchStaysTyped DEF LoopInv

LEMMA EpollInvariant == Spec => []LoopInv
BY EpollInit, EpollStep, PTL DEF Spec

-----------------------------------------------------------------------------
\* Level- and edge-triggered, for every order of a batch: an event left to be
\* handled is of a registered client, and no more has been counted than is there.
THEOREM EpollAssertsHold == Spec => []AssertsHold
<1>1. LoopInv => AssertsHold
  BY DEF LoopInv, Batch, EventsRegistered, ReadingCounted, AssertsHold
<1> QED
  BY <1>1, EpollInvariant, PTL

\* Every variable keeps its type; at every point of the epoll server's loop the
\* registered descriptors are the open ones, and no connection has two of them or is
\* still queued.
THEOREM EpollConsistent == Spec => []Consistent
<1>1. LoopInv => Consistent
  <2> SUFFICES ASSUME LoopInv PROVE Consistent
    OBVIOUS
  <2>1. LoopTypeOK /\ RegistryIsOpen
    BY HoldsSuffices DEF LoopInv
  <2>2. events \subseteq Fd \cup {ListenFd}
    BY <2>1 DEF LoopTypeOK, LoopInv, Batch, EventsRegistered
  <2> QED
    BY <2>1, <2>2 DEF LoopInv, WatchTyped, TypeOK, Consistent
<1> QED
  BY <1>1, EpollInvariant, PTL

\* Until the loop is left the registry holds the open descriptors and no other,
\* whatever sits unread in the batch epoll_wait returned.
THEOREM EpollRegistryIsOpen == Spec => []RegistryIsOpen
<1>1. Consistent => RegistryIsOpen
  BY DEF Consistent
<1> QED
  BY <1>1, EpollConsistent, PTL

\* However descriptors are given again within a batch and recv cuts the streams, the
\* session of a descriptor is what a fresh one makes of its present connection's bytes,
\* also after it has refused some of them.
THEOREM EpollSessionIsOwn == Spec => []SessionIsOwn
<1>1. LoopInv => SessionIsOwn
  BY HoldsSuffices DEF LoopInv
<1> QED
  BY <1>1, EpollInvariant, PTL

\* Level- and edge-triggered, of every connection exactly the permitted events that its
\* received bytes complete are logged, once and in order: a client that is kept though
\* its bytes were refused logs nothing of what follows them.
THEOREM EpollLogsOwed == Spec => []LogsOwed
<1>1. LoopInv => LogsOwed
  BY HoldsSuffices DEF LoopInv
<1> QED
  BY <1>1, EpollInvariant, PTL

\* Level- and edge-triggered, no client is closed while bytes of it that arrived
\* before its FIN are unread, whatever the order of the events in a batch.
THEOREM EpollClosesOnlyWhenDone == Spec => ClosesOnlyWhenDone
<1>1. LoopInv /\ [Next]_vars => [ClosedForReason]_loopVars
  BY LoopInvWatches, EpollSteps, StepCloses DEF LoopInv
<1> QED
  BY <1>1, EpollInvariant, PTL DEF Spec, ClosesOnlyWhenDone

\* Level-triggered, the epoll server keeps the promise of every log server, for every
\* order of a batch: a step logs exactly the events that the bytes it takes complete, of
\* a connection that is open, or logs nothing and moves a connection as Lifecycle allows.
\* Edge-triggered it also closes a client whose bytes ioctl fails to count, which
\* Lifecycle has no reason for.
THEOREM EpollImplementsLogServer ==
  ASSUME ~EdgeTrigger
  PROVE  Spec => ImplementsLogServer
<1>1. Init => Promise!Init
  BY PromiseBegins DEF Init, LoopInit
<1>2. LoopInv /\ [Next]_vars => [Promise!Next]_(Promise!vars)
  <2>1. EdgeTrigger = FALSE
    BY EdgeTriggerAssumption
  <2> QED
    BY <2>1, LoopInvWatches, EpollSteps, StepKeepsPromise DEF LoopInv
<1> QED
  BY <1>1, <1>2, EpollInvariant, PTL DEF Spec, ImplementsLogServer, Promise!Spec

\* Level-triggered, the epoll server moves connections only as Lifecycle allows.
THEOREM EpollImplementsLifecycle ==
  ASSUME ~EdgeTrigger
  PROVE  Spec => ImplementsLifecycle
<1>1. Promise!Init => Life!LifeInit
  BY PromiseIsLife
<1>2. [Promise!Next]_(Promise!vars) => [Life!LifeNext]_(Life!lifeVars)
  BY PromiseIsLife
<1>3. Spec => ImplementsLogServer
  BY EpollImplementsLogServer
<1> QED
  BY <1>1, <1>2, <1>3, PTL
     DEF ImplementsLogServer, Promise!Spec, ImplementsLifecycle, Life!LifeSpec

-----------------------------------------------------------------------------
\* Edge-triggered, bytes that wait for a client are known of: what is reported comes
\* from what is armed, and the batch is handled before the next is asked for.
Noticed ==
  /\ BytesAreNoticed
  /\ pc = "wait" => events = {}

\* A client whose bytes are known of, and no recv is about to take them.
KnownOf(fd) == Available(owner[fd]) > 0 => fd \in armed \cup events

\* To show it of a step after which nothing is being received.
LEMMA NoticedSuffices ==
  ASSUME pc' # "recv", pc' = "wait" => events' = {},
         EdgeTrigger => \A fd \in Clients' : KnownOf(fd)'
  PROVE  Noticed'
BY DEF Noticed, BytesAreNoticed, KnownOf

\* The clients a step leaves alone stay known of.
LEMMA OthersKnown ==
  ASSUME Watching, Noticed, EdgeTrigger, pc \in {"wait", "handle", "recv"},
         NEW fd \in Clients, pc = "recv" => reading.fd # fd,
         owner'[fd] = owner[fd], UNCHANGED sent, taken'[owner[fd]] = taken[owner[fd]],
         armed \cup events \subseteq armed' \cup events' \cup {ListenFd}
  PROVE  KnownOf(fd)'
<1>1. Available(owner[fd])' = Available(owner[fd])
  BY DEF Available
<1>2. fd # ListenFd
  BY DEF Clients
<1>3. KnownOf(fd)
  BY DEF Noticed, BytesAreNoticed, KnownOf
<1> QED
  BY <1>1, <1>2, <1>3 DEF KnownOf

\* A write of the peer arms the descriptor of its connection.
LEMMA PeersNoticed ==
  ASSUME Watching, Noticed, Peers
  PROVE  Noticed'
<1>1. PICK c \in Conn :
        PeerStep(c) /\ armed' = IF EdgeTrigger THEN armed \cup Woken(c) ELSE armed
  BY DEF Peers
<1>2. /\ UNCHANGED <<clientSockets, pc, events, reading, owner, taken>>
      /\ RegistryInv /\ Clients' = Clients
  BY <1>1 DEF Peers, PeerStep, Connect, Write, Shutdown, Reset, Watching, Batch, Clients, Registered
<1>3. ASSUME NEW fd \in Clients, owner[fd] # c
      PROVE  Available(owner[fd])' = Available(owner[fd])
  <2>1. owner[fd] \in Conn
    BY <1>2, ClientHasConn
  <2>2. sent'[owner[fd]] = sent[owner[fd]]
    BY <1>1, <1>3, <2>1 DEF PeerStep, Connect, Write, Shutdown, Reset, Watching, Batch, CountsInRange
  <2> QED
    BY <1>2, <2>2 DEF Available
<1>4. ASSUME EdgeTrigger, NEW fd \in Clients, owner[fd] = c
      PROVE  fd \in armed' \/ Available(owner[fd])' = Available(owner[fd])
  <2>1. fd \in Fd
    BY <1>2, ClientHasConn
  <2>2. CASE Connect(c)
    BY <1>2, <2>2 DEF Connect, Available
  <2>3. CASE ~Connect(c)
    <3>1. peer[c] # "idle"
      BY <1>1, <2>3 DEF PeerStep, Write, Shutdown, Reset
    <3> QED
      BY <1>1, <1>4, <2>1, <3>1 DEF Woken
  <2> QED
    BY <2>2, <2>3
<1>5. EdgeTrigger => armed \subseteq armed'
  BY <1>1
<1>6. ASSUME EdgeTrigger, pc \in {"wait", "handle", "recv"}, NEW fd \in Clients,
             Available(owner[fd])' > 0
      PROVE  \/ fd \in armed' \cup events
             \/ pc = "recv" /\ reading.fd = fd /\ reading.size >= Available(owner[fd])'
  <2>1. CASE fd \in armed'
    BY <2>1
  <2>2. CASE fd \notin armed'
    <3>1. Available(owner[fd])' = Available(owner[fd])
      BY <1>3, <1>4, <1>6, <2>2
    <3>2. \/ fd \in armed \cup events
          \/ pc = "recv" /\ reading.fd = fd /\ reading.size >= Available(owner[fd])
      BY <1>6, <3>1 DEF Noticed, BytesAreNoticed
    <3> QED
      BY <1>5, <1>6, <3>1, <3>2
  <2> QED
    BY <2>1, <2>2
<1> QED
  BY <1>2, <1>6 DEF Noticed, BytesAreNoticed

\* epoll_wait moves what is armed and ready to the batch.
LEMMA WaitNoticed ==
  ASSUME Watching, Noticed, Wait
  PROVE  Noticed'
<1>1. /\ pc = "wait" /\ pc' = "handle" /\ events = {} /\ RegistryInv
      /\ UNCHANGED <<owner, sent, taken, clientSockets>> /\ Clients' = Clients
      /\ Reportable \subseteq events'
  BY DEF Wait, Noticed, Watching, Batch, socketVars, Clients, Registered
<1>2. ASSUME EdgeTrigger, NEW fd \in Clients, Available(owner[fd])' > 0
      PROVE  fd \in events'
  <2>1. Available(owner[fd]) > 0
    BY <1>1, <1>2 DEF Available
  <2>2. fd \in armed
    BY <1>1, <1>2, <2>1 DEF Noticed, BytesAreNoticed
  <2>3. owner[fd] # NoConn
    BY <1>1, ClientHasConn, SocketsAssumption
  <2> QED
    BY <1>1, <1>2, <2>1, <2>2, <2>3 DEF Reportable, ReadyFds, ClientsReady, Readable
<1> QED
  BY <1>1, <1>2, NoticedSuffices DEF KnownOf

\* A connection that has bytes already when it is added is armed by that.
LEMMA AcceptNoticed ==
  ASSUME Watching, Noticed, Accept
  PROVE  Noticed'
<1>1. /\ pc = "handle" /\ pc' = "handle" /\ RegistryInv
      /\ UNCHANGED <<sent, taken>> /\ events' = events \ {ListenFd}
  BY DEF Accept, AtEvent, Watching, Batch
<1>2. CASE AddClient /\ armed' = armed \cup Added(NextFd)
  <2> DEFINE new == NextFd
  <2>1. new \in Fd /\ owner[new] = NoConn /\ new # ListenFd
    BY <1>2, NextFdIsFree, SocketsAssumption DEF AddClient
  <2>2. /\ owner' = [owner EXCEPT ![new] = Head(backlog)] /\ owner \in [Fd -> Conn \cup {NoConn}]
        /\ DOMAIN clientSockets' = Registered \cup {new}
        /\ armed' = armed \cup Added(new)
    BY <1>1, <1>2 DEF AddClient, AcceptAs, Emplaced, RegistryInv, Places, PlacesTyped
  <2> HIDE DEF new
  <2>3. ASSUME EdgeTrigger, NEW fd \in Clients'
        PROVE  KnownOf(fd)'
    <3>1. CASE fd = new
      <4>1. Available(owner[fd])' > 0 => Readable(owner'[new])
        BY <1>1, <3>1 DEF Available, Readable
      <4> QED
        BY <2>2, <2>3, <3>1, <4>1 DEF KnownOf, Added
    <3>2. CASE fd # new
      <4>1. fd \in Clients /\ fd \in Fd
        BY <1>1, <2>2, <2>3, <3>2, ClientHasConn DEF Clients, Registered
      <4>2. owner'[fd] = owner[fd]
        BY <2>2, <3>2, <4>1
      <4> QED
        BY <1>1, <2>2, <2>3, <4>1, <4>2, OthersKnown
    <3> QED
      BY <3>1, <3>2
  <2> QED
    BY <1>1, <2>3, NoticedSuffices
<1>3. CASE (AcceptError \/ AcceptDropped) /\ UNCHANGED armed
  <2>1. UNCHANGED <<owner, clientSockets>>
    BY <1>3 DEF AcceptError, AcceptDropped, AcceptAndClose
  <2>2. ASSUME EdgeTrigger, NEW fd \in Clients'
        PROVE  KnownOf(fd)'
    <3>1. fd \in Clients
      BY <2>1 DEF Clients, Registered
    <3> QED
      BY <1>1, <1>3, <2>1, <2>2, <3>1, OthersKnown
  <2> QED
    BY <1>1, <2>2, NoticedSuffices
<1> QED
  BY <1>2, <1>3 DEF Accept

\* What ioctl counts is all there is at that moment.
LEMMA IoctlNoticed ==
  ASSUME Watching, Noticed, NEW fd \in Fd, Ioctl(fd)
  PROVE  Noticed'
<1> DEFINE most == Max({Available(owner[fd]), 1})
<1>1. /\ pc = "handle" /\ pc' = "recv" /\ RegistryInv
      /\ UNCHANGED <<owner, sent, taken, clientSockets, armed>> /\ Clients' = Clients
      /\ fd \in events /\ events' = events \ {fd}
      /\ reading' = [fd |-> fd, size |-> most]
  BY DEF Ioctl, AtEvent, Watching, Batch, socketVars, Clients, Registered
<1>2. fd \in Clients /\ Available(owner[fd]) \in Nat
  BY <1>1, SocketsAssumption, ClientHasConn, AvailableIsNat DEF Watching, Batch, EventsRegistered
<1>3. most >= Available(owner[fd])
  BY <1>2, MaxOfTwo
<1>4. reading'.fd = fd /\ reading'.size = most
  BY <1>1
<1> HIDE DEF most
<1>5. ASSUME EdgeTrigger, NEW other \in Clients, Available(owner[other])' > 0
      PROVE  \/ other \in armed' \cup events'
             \/ reading'.fd = other /\ reading'.size >= Available(owner[other])'
  <2>1. Available(owner[other])' = Available(owner[other])
    BY <1>1 DEF Available
  <2>2. CASE other = fd
    BY <1>3, <1>4, <2>1, <2>2
  <2>3. CASE other # fd
    BY <1>1, <1>5, <2>1, <2>3 DEF Noticed, BytesAreNoticed
  <2> QED
    BY <2>2, <2>3
<1> QED
  BY <1>1, <1>5 DEF Noticed, BytesAreNoticed

\* A client is closed: the others stay as they are.
LEMMA RemoveNoticed ==
  ASSUME Watching, Noticed, pc \in {"handle", "recv"}, pc' = "handle", NEW fd \in Fd,
         RemoveClient(fd), UNCHANGED <<sent, taken>>, EdgeTrigger /\ pc = "recv" => reading.fd = fd,
         events \subseteq events' \cup {fd}, armed' = armed \ {fd}
  PROVE  Noticed'
<1>1. RegistryInv
  BY DEF Watching, Batch
<1>2. ASSUME EdgeTrigger, NEW other \in Clients'
      PROVE  KnownOf(other)'
  <2>1. /\ other \in Clients /\ other # fd /\ owner'[other] = owner[other]
    BY <1>1, ClientHasConn DEF RemoveClient, Close, Clients, Registered, RegistryInv, Places, PlacesTyped
  <2>2. Available(owner[other])' = Available(owner[other])
    BY <2>1 DEF Available
  <2>3. KnownOf(other)
    BY <1>2, <2>1 DEF Noticed, BytesAreNoticed, KnownOf
  <2> QED
    BY <2>1, <2>2, <2>3 DEF KnownOf
<1> QED
  BY <1>2, NoticedSuffices

\* Edge-triggered, recv is called on the client whose bytes ioctl counted.
LEMMA AtRecvReading ==
  ASSUME EdgeTrigger, NEW fd, NEW size, AtRecv(fd, size)
  PROVE  /\ pc = "recv" /\ reading.fd = fd /\ reading.size = size
         /\ pc' = "handle" /\ UNCHANGED <<events, sent>>
BY DEF AtRecv

\* recv takes all that was counted, and what came since has armed the descriptor.
LEMMA ReceiveNoticed ==
  ASSUME Watching, Noticed, NEW fd \in Fd, NEW size, Receive(fd, size)
  PROVE  Noticed'
<1>1. /\ RegistryInv /\ fd \in Clients /\ owner[fd] \in Conn /\ size \in Nat \ {0}
      /\ pc' = "handle" /\ AtRecv(fd, size) /\ ReadAndLog(fd, size)
      /\ UNCHANGED <<owner, armed>> /\ DOMAIN clientSockets' = Registered
  BY AtRecvClient, KeepClientStays DEF Receive
<1> DEFINE n == Len(Received(owner[fd], size))
<1>2. /\ n \in Nat /\ n = (IF Available(owner[fd]) < size THEN Available(owner[fd]) ELSE size)
      /\ taken' = [taken EXCEPT ![owner[fd]] = @ + n]
      /\ taken \in [Conn -> Nat] /\ sent \in [Conn -> Nat] /\ Available(owner[fd]) \in Nat
  <2>1. RecvData(owner[fd]) /\ CountsInRange
    BY <1>1 DEF ReadAndLog, Watching, Batch
  <2>2. n = IF Available(owner[fd]) < size THEN Available(owner[fd]) ELSE size
    BY <1>1, <2>1, ReceivedProps
  <2>3. taken' = [taken EXCEPT ![owner[fd]] = @ + n]
    BY <1>1 DEF ReadAndLog, Take
  <2>4. Available(owner[fd]) \in Nat
    BY <1>1, <2>1, AvailableIsNat
  <2> HIDE DEF n
  <2> QED
    BY <1>1, <2>1, <2>2, <2>3, <2>4 DEF CountsInRange
<1> HIDE DEF n
<1>3. ASSUME EdgeTrigger, NEW other \in Clients'
      PROVE  KnownOf(other)'
  <2>1. /\ pc = "recv" /\ reading.fd = fd /\ reading.size = size
        /\ UNCHANGED <<events, sent>>
    BY <1>1, <1>3, AtRecvReading
  <2>2. other \in Clients
    BY <1>1 DEF Clients, Registered
  <2>3. CASE other # fd
    <3>1. owner[other] \in Conn /\ owner[other] # owner[fd]
      BY <1>1, <2>2, <2>3, ClientIsOpen
    <3>2. taken'[owner[other]] = taken[owner[other]]
      BY <1>2, <3>1
    <3> QED
      BY <1>1, <1>3, <2>1, <2>2, <2>3, <3>2, OthersKnown
  <2>4. CASE other = fd
    <3>1. Available(owner[fd]) > 0 => fd \in armed \cup events \/ size >= Available(owner[fd])
      BY <1>1, <1>3, <2>1 DEF Noticed, BytesAreNoticed
    <3>2. Available(owner[fd])' = Available(owner[fd]) - n
      BY <1>1, <1>2, <2>1 DEF Available
    <3>3. Available(owner[fd])' > 0 => Available(owner[fd]) > 0 /\ ~(size >= Available(owner[fd]))
      BY <1>1, <1>2, <3>2
    <3> QED
      BY <1>1, <2>1, <2>4, <3>1, <3>3 DEF KnownOf
  <2> QED
    BY <2>3, <2>4
<1> QED
  BY <1>1, <1>3, NoticedSuffices

LEMMA NoticedInit == Init => Noticed
BY DEF Init, LoopInit, Noticed, BytesAreNoticed, Clients, Registered

LEMMA NoticedStep == Watching /\ Noticed /\ [Next]_vars => Noticed'
<1> SUFFICES ASSUME Watching, Noticed, [Next]_vars
             PROVE  Noticed'
  OBVIOUS
<1>1. CASE Peers
  BY <1>1, PeersNoticed
<1>2. CASE Wait
  BY <1>2, WaitNoticed
<1>3. CASE WaitFails \/ CleanUp
  BY <1>3 DEF WaitFails, CleanUp, Noticed, BytesAreNoticed
<1>4. CASE Accept
  BY <1>4, AcceptNoticed
<1>5. ASSUME NEW fd \in Fd, Ioctl(fd)
      PROVE  Noticed'
  BY <1>5, IoctlNoticed
<1>6. ASSUME NEW fd \in Fd, IoctlFails(fd)
      PROVE  Noticed'
  <2>1. /\ pc = "handle" /\ pc' = "handle" /\ events \subseteq events' \cup {fd}
        /\ RemoveClient(fd) /\ UNCHANGED <<sent, taken>> /\ armed' = armed \ {fd}
    BY <1>6 DEF IoctlFails, AtEvent
  <2> QED
    BY <2>1, RemoveNoticed
<1>7. ASSUME NEW fd \in Fd, NEW size, Again(fd, size)
      PROVE  Noticed'
  <2>1. /\ RegistryInv /\ fd \in Clients /\ pc' = "handle" /\ AtRecv(fd, size)
        /\ UNCHANGED <<taken, owner, clientSockets, armed>> /\ Available(owner[fd]) = 0
    BY <1>7, AtRecvClient DEF Again, RecvAgain
  <2>2. ASSUME EdgeTrigger, NEW other \in Clients'
        PROVE  KnownOf(other)'
    <3>1. /\ pc = "recv" /\ reading.fd = fd /\ UNCHANGED <<events, sent>> /\ other \in Clients
      BY <2>1, <2>2, AtRecvReading DEF Clients, Registered
    <3>2. CASE other = fd
      BY <2>1, <3>1, <3>2 DEF KnownOf, Available
    <3>3. CASE other # fd
      BY <2>1, <2>2, <3>1, <3>3, OthersKnown
    <3> QED
      BY <3>2, <3>3
  <2> QED
    BY <2>1, <2>2, NoticedSuffices
<1>8. ASSUME NEW fd \in Fd, NEW size, Disconnect(fd, size)
      PROVE  Noticed'
  <2>1. /\ pc \in {"handle", "recv"} /\ pc' = "handle" /\ AtRecv(fd, size)
        /\ RemoveClient(fd) /\ UNCHANGED <<sent, taken>> /\ armed' = armed \ {fd}
    BY <1>8, AtRecvClient DEF Disconnect
  <2>2. events \subseteq events' \cup {fd} /\ (EdgeTrigger /\ pc = "recv" => reading.fd = fd)
    BY <2>1 DEF AtRecv, AtEvent
  <2> QED
    BY <2>1, <2>2, RemoveNoticed
<1>9. ASSUME NEW fd \in Fd, NEW size, Receive(fd, size)
      PROVE  Noticed'
  BY <1>9, ReceiveNoticed
<1>10. CASE EndBatch
  <2>1. /\ pc = "handle" /\ pc' = "wait" /\ events = {} /\ events' = {}
        /\ UNCHANGED <<owner, sent, taken, clientSockets, armed>>
    BY <1>10 DEF EndBatch, socketVars
  <2>2. ASSUME EdgeTrigger, NEW fd \in Clients'
        PROVE  KnownOf(fd)'
    <3>1. fd \in Clients
      BY <2>1 DEF Clients, Registered
    <3> QED
      BY <2>1, <2>2, <3>1, OthersKnown
  <2> QED
    BY <2>1, <2>2, NoticedSuffices
<1>11. CASE UNCHANGED vars
  <2>1. UNCHANGED <<sent, taken, owner, clientSockets, pc, events, reading, armed>>
    BY <1>11 DEF vars, loopVars, socketVars
  <2> QED
    BY <2>1 DEF Noticed, BytesAreNoticed, Available, Clients, Registered
<1> QED
  BY <1>1, <1>2, <1>3, <1>4, <1>5, <1>6, <1>7, <1>8, <1>9, <1>10, <1>11 DEF Next, ServerStep

\* Edge-triggered, no arrival is forgotten, whenever it comes between epoll_wait, ioctl
\* and recv.
THEOREM EpollBytesAreNoticed == Spec => []BytesAreNoticed
<1>1. Spec => []Noticed
  BY NoticedInit, NoticedStep, LoopInvWatches, EpollInvariant, PTL DEF Spec
<1>2. Noticed => BytesAreNoticed
  BY DEF Noticed
<1> QED
  BY <1>1, <1>2, PTL
=============================================================================
