-------------------------- MODULE EventLoopProofs --------------------------
(***************************************************************************)
(* What the three loops have in common keeps the registry in step with the  *)
(* open descriptors, for every set of connections and descriptors.          *)
(***************************************************************************)
EXTENDS EventLoop, SocketsProofs

\* RegistryIsOpen is not inductive: accept gives a connection that is queued,
\* and Connect queues one that is idle, so the places a connection can be in
\* have to exclude each other.
RegisteredAreOpen == Clients = {fd \in Fd : owner[fd] # NoConn}

RegistryInv == Places /\ RegisteredAreOpen

-----------------------------------------------------------------------------
\* Steps that move no connection and register or forget no client.
LEMMA StayKeeps ==
  ASSUME RegistryInv, UNCHANGED <<peer, backlog, owner>>, DOMAIN clientSockets' = Registered
  PROVE  RegistryInv'
<1>1. Places'
  BY StayKeepsPlaces DEF RegistryInv
<1>2. RegisteredAreOpen'
  BY DEF RegistryInv, RegisteredAreOpen, Clients, Registered
<1> QED
  BY <1>1, <1>2 DEF RegistryInv

\* A session keeps its place in the registry when forceLog has worked on it.
LEMMA KeepClientStays ==
  ASSUME NEW fd, NEW size, KeepClient(fd, size)
  PROVE  UNCHANGED owner /\ DOMAIN clientSockets' = Registered
BY DEF KeepClient, Registered

\* What the peers do: they have no hand in the registry or the descriptors.
LEMMA PeerKeeps ==
  ASSUME RegistryInv, NEW c \in Conn, PeerStep(c), UNCHANGED clientSockets
  PROVE  RegistryInv'
<1>1. Places'
  BY PeerKeepsPlaces DEF RegistryInv
<1>2. owner' = owner
  BY DEF PeerStep, Connect, Write, Shutdown, Reset
<1>3. RegisteredAreOpen'
  BY <1>2 DEF RegistryInv, RegisteredAreOpen, Clients, Registered
<1> QED
  BY <1>1, <1>3 DEF RegistryInv

-----------------------------------------------------------------------------
\* closesocket and erase: the descriptor leaves both tables.
LEMMA RemoveClientKeeps ==
  ASSUME RegistryInv, NEW fd \in Fd, RemoveClient(fd), UNCHANGED <<peer, backlog>>
  PROVE  RegistryInv'
<1>1. Places'
  BY CloseKeepsPlaces DEF RegistryInv, RemoveClient
<1>2. /\ owner' = [owner EXCEPT ![fd] = NoConn]
      /\ DOMAIN clientSockets' = Registered \ {fd}
      /\ owner \in [Fd -> Conn \cup {NoConn}]
  BY DEF RemoveClient, Close, RegistryInv, Places, PlacesTyped
<1>3. RegisteredAreOpen'
  BY <1>2 DEF RegistryInv, RegisteredAreOpen, Clients, Registered
<1> QED
  BY <1>1, <1>3 DEF RegistryInv

\* accept and emplace: the head of the queue gets a free descriptor, which
\* becomes registered.
LEMMA AddClientKeeps ==
  ASSUME RegistryInv, AddClient, UNCHANGED peer
  PROVE  RegistryInv'
<1> DEFINE new == NextFd
<1>1. /\ Places'
      /\ new \in Fd /\ Head(backlog) # NoConn
      /\ \A k \in Fd : owner'[k] = IF k = new THEN Head(backlog) ELSE owner[k]
  BY AcceptKeepsPlaces DEF AddClient, RegistryInv
<1>2. DOMAIN clientSockets' = Registered \cup {new}
  BY DEF AddClient, Emplaced
<1> HIDE DEF new
<1>3. Clients' = Clients \cup {new}
  BY <1>1, <1>2, SocketsAssumption DEF Clients, Registered
<1>4. RegisteredAreOpen'
  BY <1>1, <1>3 DEF RegistryInv, RegisteredAreOpen
<1> QED
  BY <1>1, <1>4 DEF RegistryInv

\* A failing accept leaves the queue and the tables as they are.
LEMMA AcceptErrorKeeps ==
  ASSUME RegistryInv, AcceptError, UNCHANGED peer
  PROVE  RegistryInv'
<1>1. UNCHANGED <<peer, backlog, owner>> /\ DOMAIN clientSockets' = Registered
  BY DEF AcceptError, Registered
<1> QED
  BY <1>1, StayKeeps

\* A connection that is accepted and closed at once only leaves the queue.
LEMMA AcceptDroppedKeeps ==
  ASSUME RegistryInv, AcceptDropped, UNCHANGED peer
  PROVE  RegistryInv'
<1>1. Places'
  BY DropKeepsPlaces DEF RegistryInv, AcceptDropped
<1>2. UNCHANGED <<owner, clientSockets>>
  BY DEF AcceptDropped, AcceptAndClose
<1>3. RegisteredAreOpen'
  BY <1>2 DEF RegistryInv, RegisteredAreOpen, Clients, Registered
<1> QED
  BY <1>1, <1>3 DEF RegistryInv

-----------------------------------------------------------------------------
\* recv takes no more than has been sent.
LEMMA ReadKeepsCounts ==
  ASSUME CountsInRange, NEW fd, NEW size \in Nat \ {0}, owner[fd] \in Conn,
         ReadAndLog(fd, size), UNCHANGED sent
  PROVE  CountsInRange'
BY TakeKeepsCounts DEF ReadAndLog

-----------------------------------------------------------------------------
\* The session of every client is what is left of exactly the bytes received of
\* its connection.  A connection nobody has accepted has not been received from, so
\* that its session can begin as a fresh one.
UnreadUntilOpen == \A c \in Conn : peer[c] = "idle" \/ Queued(c) => taken[c] = 0

SessionsFit ==
  \A fd \in Clients : clientSockets[fd] = Held(Stream(owner[fd]), taken[owner[fd]])

SessionsInv == CountsInRange /\ UnreadUntilOpen /\ SessionsFit

\* Where a refused client is closed, everything received of a client is acceptable.
NoneRefused == \A fd \in Clients : Acceptable(Stream(owner[fd]), taken[owner[fd]])

\* A session nothing was received for is fresh.
LEMMA HeldNothing ==
  ASSUME NEW s
  PROVE  Held(s, 0) = FreshSession /\ Acceptable(s, 0)
<1>1. SubSeq(s, 1, 0) = <<>>
  BY SubSeqEmpty
<1> QED
  BY <1>1 DEF Held, Part, FreshSession, Acceptable, MarkerLen

\* It makes no difference to a session how recv cuts its bytes into chunks.
LEMMA HeldIsAtOnce ==
  ASSUME NEW c \in Conn, NEW n \in 0..Len(Stream(c))
  PROVE  Held(Stream(c), n) = ForceLogResult(FreshSession, SubSeq(Stream(c), 1, n)).session
<1>1. Stream(c) \in Seq(Token) /\ 0 \in 0..n /\ Marks(DueIn(c, n), Stream(c), n)
  BY StreamIsSeq, DueMarks
<1> DEFINE s == Stream(c)
<1> HIDE DEF s
<1>2. ForceLogResult(Held(s, 0), Part(s, 0, n)).session = Held(s, n)
  BY <1>1, SessionAfter DEF s
<1> QED
  BY <1>2, HeldNothing DEF s, Part

\* A client's connection has been accepted.
LEMMA ClientIsOpen ==
  ASSUME RegistryInv, NEW fd \in Clients
  PROVE  /\ fd \in Fd /\ owner[fd] \in Conn
         /\ peer[owner[fd]] # "idle" /\ ~Queued(owner[fd])
         /\ \A other \in Clients : owner[other] = owner[fd] => other = fd
<1>1. /\ fd \in Fd /\ owner[fd] \in Conn /\ owner[fd] # NoConn
      /\ \A other \in Clients : other \in Fd
  BY DEF RegistryInv, RegisteredAreOpen, Places, PlacesTyped
<1> QED
  BY <1>1 DEF RegistryInv, Places, PlacesApart, Queued

\* Steps that receive nothing and open and close nothing.
LEMMA SessionsStay ==
  ASSUME SessionsInv, UNCHANGED <<taken, owner, clientSockets>>, CountsInRange',
         \A c \in Conn : (peer[c] = "idle" \/ Queued(c))' => peer[c] = "idle" \/ Queued(c)
  PROVE  SessionsInv'
<1>1. UnreadUntilOpen'
  BY DEF SessionsInv, UnreadUntilOpen
<1>2. SessionsFit'
  BY DEF SessionsInv, SessionsFit, Stream, Clients, Registered
<1> QED
  BY <1>1, <1>2 DEF SessionsInv

\* The peers queue only connections that were idle.
LEMMA SessionsPeer ==
  ASSUME RegistryInv, SessionsInv, NEW c \in Conn, PeerStep(c), UNCHANGED clientSockets
  PROVE  SessionsInv'
<1>1. CountsInRange' /\ UNCHANGED <<taken, owner, clientSockets>>
  BY PeerKeepsCounts DEF SessionsInv, PeerStep, Connect, Write, Shutdown, Reset
<1>2. ASSUME NEW d \in Conn, (peer[d] = "idle" \/ Queued(d))'
      PROVE  peer[d] = "idle" \/ Queued(d)
  <2>1. CASE Connect(c)
    <3>1. /\ peer[c] = "idle" /\ peer' = [peer EXCEPT ![c] = "open"]
          /\ backlog' = Append(backlog, c) /\ backlog \in Seq(Conn)
          /\ peer \in [Conn -> {"idle", "open", "fin", "rst"}]
      BY <2>1 DEF Connect, RegistryInv, Places, PlacesTyped
    <3>2. CASE d = c
      BY <3>1, <3>2
    <3>3. CASE d # c
      <4>1. peer'[d] = peer[d]
        BY <3>1, <3>3
      <4>2. ASSUME NEW i \in 1..Len(backlog'), backlog'[i] = d
            PROVE  Queued(d)
        <5>1. Len(backlog') = Len(backlog) + 1 /\ Len(backlog) \in Nat
              /\ backlog'[Len(backlog) + 1] = c
              /\ \A j \in 1..Len(backlog) : backlog'[j] = backlog[j]
          BY <3>1, AppendProperties, LenProperties
        <5>2. i \in 1..Len(backlog)
          BY <3>3, <4>2, <5>1
        <5> QED
          BY <4>2, <5>1, <5>2 DEF Queued
      <4> QED
        BY <1>2, <4>1, <4>2 DEF Queued
    <3> QED
      BY <3>2, <3>3
  <2>2. CASE Write(c) \/ Shutdown(c) \/ Reset(c)
    <3>1. UNCHANGED backlog /\ (peer'[d] = "idle" => peer[d] = "idle")
      BY <2>2 DEF Write, Shutdown, Reset, RegistryInv, Places, PlacesTyped
    <3> QED
      BY <1>2, <3>1 DEF Queued
  <2> QED
    BY <2>1, <2>2 DEF PeerStep
<1> QED
  BY <1>1, <1>2, SessionsStay

\* closesocket and erase, also of a client whose bytes have just been refused.
LEMMA SessionsForget ==
  ASSUME RegistryInv, SessionsInv, NEW fd \in Clients, RemoveClient(fd),
         UNCHANGED <<peer, backlog>>, CountsInRange',
         \A c \in Conn : c # owner[fd] => taken'[c] = taken[c]
  PROVE  SessionsInv'
<1>1. /\ owner[fd] \in Conn /\ peer[owner[fd]] # "idle" /\ ~Queued(owner[fd])
      /\ \A other \in Clients : owner[other] = owner[fd] => other = fd
  BY ClientIsOpen
<1>2. UnreadUntilOpen'
  BY <1>1 DEF SessionsInv, UnreadUntilOpen, Queued
<1>3. ASSUME NEW other \in Clients'
      PROVE  (clientSockets[other] = Held(Stream(owner[other]), taken[owner[other]]))'
  <2>1. /\ other \in Clients /\ other # fd
        /\ clientSockets'[other] = clientSockets[other] /\ owner'[other] = owner[other]
    BY <1>3, ClientIsOpen DEF RemoveClient, Close, Clients, Registered, RegistryInv, Places, PlacesTyped
  <2>2. owner[other] \in Conn /\ owner[other] # owner[fd]
    BY <1>1, <2>1, ClientIsOpen
  <2>3. taken'[owner[other]] = taken[owner[other]]
    BY <2>2
  <2> QED
    BY <2>1, <2>3 DEF SessionsInv, SessionsFit, Stream
<1> QED
  BY <1>2, <1>3 DEF SessionsInv, SessionsFit

\* accept and emplace: a fresh session for a connection nothing was received of.
LEMMA SessionsAdd ==
  ASSUME RegistryInv, SessionsInv, AddClient, UNCHANGED <<peer, sent, taken>>
  PROVE  SessionsInv'
<1> DEFINE new == NextFd
           c == Head(backlog)
<1>1. new \in Fd /\ owner[new] = NoConn /\ new # ListenFd
  BY NextFdIsFree, SocketsAssumption DEF AddClient
<1>2. /\ backlog \in Seq(Conn) /\ backlog # <<>> /\ backlog' = Tail(backlog)
      /\ owner' = [owner EXCEPT ![new] = c] /\ owner \in [Fd -> Conn \cup {NoConn}]
      /\ clientSockets' = Emplaced(new)
  BY DEF AddClient, AcceptAs, RegistryInv, Places, PlacesTyped
<1> HIDE DEF new
<1>3. /\ c \in Conn /\ c = backlog[1] /\ 1 \in 1..Len(backlog)
      /\ \A i \in 1..Len(Tail(backlog)) :
           i + 1 \in 1..Len(backlog) /\ Tail(backlog)[i] = backlog[i + 1]
  BY <1>2, TailOfQueue
<1>4. taken[c] = 0
  BY <1>3 DEF SessionsInv, UnreadUntilOpen, Queued
<1> HIDE DEF c
<1>5. CountsInRange'
  BY DEF SessionsInv, CountsInRange
<1>6. UnreadUntilOpen'
  <2>1. ASSUME NEW d \in Conn, Queued(d)'
        PROVE  Queued(d)
    BY <1>2, <1>3, <2>1 DEF Queued
  <2> QED
    BY <2>1 DEF SessionsInv, UnreadUntilOpen
<1>7. new \notin Registered
  BY <1>1 DEF RegistryInv, RegisteredAreOpen, Clients
<1>8. ASSUME NEW fd \in Clients'
      PROVE  (clientSockets[fd] = Held(Stream(owner[fd]), taken[owner[fd]]))'
  <2>1. CASE fd = new
    <3>1. owner'[fd] = c /\ clientSockets'[fd] = FreshSession /\ taken'[c] = 0
      BY <1>1, <1>2, <1>4, <1>7, <2>1 DEF Emplaced
    <3>2. Held(Stream(c), 0) = FreshSession
      BY HeldNothing
    <3> QED
      BY <3>1, <3>2 DEF Stream
  <2>2. CASE fd # new
    <3>1. /\ fd \in Clients /\ clientSockets'[fd] = clientSockets[fd]
          /\ owner'[fd] = owner[fd]
      BY <1>2, <1>7, <1>8, <2>2, ClientIsOpen DEF Emplaced, Clients, Registered
    <3> QED
      BY <3>1 DEF SessionsInv, SessionsFit, Stream
  <2> QED
    BY <2>1, <2>2
<1> QED
  BY <1>5, <1>6, <1>8 DEF SessionsInv, SessionsFit

\* accept fails, or what it returned is closed at once.
LEMMA SessionsDrop ==
  ASSUME RegistryInv, SessionsInv, AcceptError \/ AcceptDropped,
         UNCHANGED <<peer, sent, taken>>
  PROVE  SessionsInv'
<1>1. CountsInRange' /\ UNCHANGED <<owner, clientSockets>>
  BY DEF SessionsInv, CountsInRange, AcceptError, AcceptDropped, AcceptAndClose
<1>2. ASSUME NEW c \in Conn, Queued(c)'
      PROVE  Queued(c)
  <2>1. CASE backlog' = backlog
    BY <1>2, <2>1 DEF Queued
  <2>2. CASE backlog' = Tail(backlog) /\ backlog # <<>>
    BY <1>2, <2>2, TailOfQueue DEF Queued, RegistryInv, Places, PlacesTyped
  <2> QED
    BY <2>1, <2>2 DEF AcceptError, AcceptDropped, AcceptAndClose
<1> QED
  BY <1>1, <1>2, SessionsStay

\* recv and forceLog: the session goes on as if it had received all bytes at once, and
\* what it logs are the events that end in the bytes just received.
LEMMA ReadIs ==
  ASSUME RegistryInv, SessionsInv, NEW fd \in Clients, NEW size \in Nat \ {0},
         ReadAndLog(fd, size), NEW c \in Conn, c = owner[fd]
  PROVE  /\ taken'[c] \in (taken[c] + 1)..sent[c] /\ taken' = [taken EXCEPT ![c] = taken'[c]]
         /\ taken'[c] \in 0..Len(Stream(c)) /\ taken[c] \in 0..taken'[c]
         /\ \A d \in Conn : d # c => taken'[d] = taken[d]
         /\ ForceLogOutcome(fd, size).session = Held(Stream(c), taken'[c])
         /\ ForceLogOutcome(fd, size).ok <=> Acceptable(Stream(c), taken'[c])
         /\ logged' = logged \o OwedEvents(c, taken[c], taken'[c])
<1>1. RecvData(c) /\ Take(c, Received(c, size)) /\ logged' = logged \o ForceLogOutcome(fd, size).events
  BY DEF ReadAndLog
<1>2. /\ taken'[c] \in (taken[c] + 1)..sent[c] /\ taken' = [taken EXCEPT ![c] = taken'[c]]
      /\ taken'[c] \in 0..Len(Stream(c)) /\ taken[c] \in 0..taken'[c]
      /\ \A d \in Conn : d # c => taken'[d] = taken[d]
      /\ Received(c, size) = Part(Stream(c), taken[c], taken'[c])
  BY <1>1, ReceivedIsPart DEF SessionsInv
<1>3. ForceLogOutcome(fd, size) = ForceLogResult(Held(Stream(c), taken[c]), Received(c, size))
  BY DEF ForceLogOutcome, SessionsInv, SessionsFit
<1>4. PICK u \in 0..Len(Stream(c)) : u = taken'[c]
  BY <1>2
<1>5. PICK t \in 0..u : t = taken[c]
  BY <1>2, <1>4
<1>6. Stream(c) \in Seq(Token) /\ Marks(DueIn(c, u), Stream(c), u)
  BY StreamIsSeq, DueMarks
<1>7. /\ OwedEvents(c, t, u) = Only(Part(Stream(c), t, u), DueIn(c, u))
  BY OwedEventsSplit
<1> DEFINE r == ForceLogResult(Held(Stream(c), t), Part(Stream(c), t, u))
<1>8. /\ r.session = Held(Stream(c), u)
      /\ r.events = Only(Part(Stream(c), t, u), DueIn(c, u))
      /\ r.ok <=> Acceptable(Stream(c), u)
  BY <1>6, SessionAfter
<1>9. ForceLogOutcome(fd, size) = r
  BY <1>2, <1>3, <1>4, <1>5
<1> HIDE DEF r
<1> QED
  BY <1>1, <1>2, <1>4, <1>5, <1>7, <1>8, <1>9

LEMMA SessionsRead ==
  ASSUME RegistryInv, SessionsInv, NEW fd \in Clients, NEW size \in Nat \ {0},
         ReadAndLog(fd, size), UNCHANGED <<peer, sent, backlog>>,
         KeepClient(fd, size) \/ RemoveClient(fd)
  PROVE  SessionsInv'
<1>1. PICK c \in Conn : c = owner[fd]
  BY ClientIsOpen
<1>2. /\ peer[c] # "idle" /\ ~Queued(c)
      /\ \A other \in Clients : owner[other] = c => other = fd
  BY <1>1, ClientIsOpen
<1>3. CountsInRange'
  BY <1>1, ReadKeepsCounts DEF SessionsInv
<1>4. /\ ForceLogOutcome(fd, size).session = Held(Stream(c), taken'[c])
      /\ \A d \in Conn : d # c => taken'[d] = taken[d]
  BY <1>1, ReadIs
<1>5. CASE RemoveClient(fd)
  BY <1>1, <1>3, <1>4, <1>5, SessionsForget
<1>6. CASE KeepClient(fd, size)
  <2>1. /\ clientSockets' = [clientSockets EXCEPT ![fd] = Held(Stream(c), taken'[c])]
        /\ owner' = owner
    BY <1>4, <1>6 DEF KeepClient
  <2>2. UnreadUntilOpen'
    BY <1>2, <1>4 DEF SessionsInv, UnreadUntilOpen, Queued
  <2>3. ASSUME NEW other \in Clients'
        PROVE  (clientSockets[other] = Held(Stream(owner[other]), taken[owner[other]]))'
    <3>1. other \in Clients /\ fd \in Registered
      BY <2>1, <2>3 DEF Clients, Registered
    <3>2. CASE other = fd
      <4>1. clientSockets'[fd] = Held(Stream(c), taken'[c]) /\ owner'[fd] = c
        BY <1>1, <2>1, <3>1 DEF Registered
      <4> QED
        BY <3>2, <4>1 DEF Stream
    <3>3. CASE other # fd
      <4>1. clientSockets'[other] = clientSockets[other] /\ owner[other] # c /\ owner[other] \in Conn
        BY <1>2, <2>1, <3>1, <3>3, ClientIsOpen DEF Clients, Registered
      <4> QED
        BY <1>4, <2>1, <3>1, <4>1 DEF SessionsInv, SessionsFit, Stream
    <3> QED
      BY <3>2, <3>3
  <2> QED
    BY <1>3, <2>2, <2>3 DEF SessionsInv, SessionsFit
<1> QED
  BY <1>5, <1>6

\* The invariants are enough for the properties the runs check.
LEMMA SessionsInvSuffices ==
  ASSUME RegistryInv, SessionsInv
  PROVE  SessionIsOwn
<1>1. ASSUME NEW fd \in Clients
      PROVE  clientSockets[fd] =
               ForceLogResult(FreshSession, SubSeq(Stream(owner[fd]), 1, taken[owner[fd]])).session
  <2>1. PICK c \in Conn : c = owner[fd]
    BY ClientIsOpen
  <2>2. taken[c] \in 0..Len(Stream(c))
    BY StreamIsSeq DEF SessionsInv, CountsInRange
  <2> QED
    BY <2>1, <2>2, HeldIsAtOnce DEF SessionsInv, SessionsFit
<1> QED
  BY <1>1 DEF SessionIsOwn

LEMMA NoneRefusedSuffices ==
  ASSUME RegistryInv, NoneRefused
  PROVE  RefusedIsClosed
<1>1. ASSUME NEW c \in Conn, Open(c)
      PROVE  Acceptable(Stream(c), taken[c])
  <2>1. PICK fd \in Fd : owner[fd] = c
    BY <1>1 DEF Open
  <2>2. fd \in Clients
    BY <2>1, SocketsAssumption DEF RegistryInv, RegisteredAreOpen
  <2> QED
    BY <2>1, <2>2 DEF NoneRefused
<1> QED
  BY <1>1 DEF RefusedIsClosed

\* No client stays whose bytes are not acceptable, if none was.
LEMMA NoneRefusedStays ==
  ASSUME RegistryInv, NoneRefused, UNCHANGED <<taken, owner>>, Clients' \subseteq Clients
  PROVE  NoneRefused'
BY DEF NoneRefused, Stream

LEMMA NoneRefusedForget ==
  ASSUME RegistryInv, NoneRefused, NEW fd \in Clients, RemoveClient(fd),
         \A c \in Conn : c # owner[fd] => taken'[c] = taken[c]
  PROVE  NoneRefused'
<1>1. ASSUME NEW other \in Clients'
      PROVE  Acceptable(Stream(owner[other]), taken[owner[other]])'
  <2>1. other \in Clients /\ other # fd /\ owner'[other] = owner[other]
    BY <1>1, ClientIsOpen DEF RemoveClient, Close, Clients, Registered, RegistryInv, Places, PlacesTyped
  <2>2. owner[other] \in Conn /\ owner[other] # owner[fd]
    BY <2>1, ClientIsOpen
  <2>3. taken'[owner[other]] = taken[owner[other]]
    BY <2>2
  <2> QED
    BY <2>1, <2>3 DEF NoneRefused, Stream
<1> QED
  BY <1>1 DEF NoneRefused

LEMMA NoneRefusedAdd ==
  ASSUME RegistryInv, SessionsInv, NoneRefused, AddClient, UNCHANGED taken
  PROVE  NoneRefused'
<1> DEFINE new == NextFd
           c == Head(backlog)
<1>1. new \in Fd /\ owner[new] = NoConn /\ new # ListenFd
  BY NextFdIsFree, SocketsAssumption DEF AddClient
<1>2. /\ backlog \in Seq(Conn) /\ backlog # <<>>
      /\ owner' = [owner EXCEPT ![new] = c] /\ owner \in [Fd -> Conn \cup {NoConn}]
      /\ clientSockets' = Emplaced(new)
  BY DEF AddClient, AcceptAs, RegistryInv, Places, PlacesTyped
<1> HIDE DEF new
<1>3. c \in Conn /\ c = backlog[1] /\ 1 \in 1..Len(backlog)
  BY <1>2, TailOfQueue
<1>4. taken[c] = 0
  BY <1>3 DEF SessionsInv, UnreadUntilOpen, Queued
<1> HIDE DEF c
<1>5. ASSUME NEW fd \in Clients'
      PROVE  Acceptable(Stream(owner[fd]), taken[owner[fd]])'
  <2>1. CASE fd = new
    <3>1. owner'[fd] = c /\ taken'[c] = 0
      BY <1>1, <1>2, <1>4, <2>1
    <3>2. Acceptable(Stream(c), 0)
      BY HeldNothing
    <3> QED
      BY <3>1, <3>2 DEF Stream
  <2>2. CASE fd # new
    <3>1. fd \in Clients /\ owner'[fd] = owner[fd]
      BY <1>2, <1>5, <2>2, ClientIsOpen DEF Emplaced, Clients, Registered
    <3> QED
      BY <3>1 DEF NoneRefused, Stream
  <2> QED
    BY <2>1, <2>2
<1> QED
  BY <1>5 DEF NoneRefused

LEMMA NoneRefusedRead ==
  ASSUME RegistryInv, SessionsInv, NoneRefused, NEW fd \in Clients, NEW size \in Nat \ {0},
         ReadAndLog(fd, size), KeepClient(fd, size), ForceLogOutcome(fd, size).ok
  PROVE  NoneRefused'
<1>1. PICK c \in Conn : c = owner[fd]
  BY ClientIsOpen
<1>2. Acceptable(Stream(c), taken'[c]) /\ \A d \in Conn : d # c => taken'[d] = taken[d]
  BY <1>1, ReadIs
<1>3. owner' = owner /\ Clients' = Clients
  BY KeepClientStays DEF Clients, Registered
<1>4. ASSUME NEW other \in Clients
      PROVE  Acceptable(Stream(owner[other]), taken'[owner[other]])
  BY <1>1, <1>2, ClientIsOpen DEF NoneRefused
<1> QED
  BY <1>3, <1>4 DEF NoneRefused, Stream

\* At the end of runServer no client is open.
AllClosed == \A fd \in Fd : owner[fd] = NoConn

LEMMA CloseAllCloses ==
  ASSUME RegistryInv, CloseAll
  PROVE  AllClosed'
BY DEF CloseAll, AllClosed, RegistryInv, RegisteredAreOpen, Clients

LEMMA ClosedSuffices == AllClosed => RefusedIsClosed
BY SocketsAssumption DEF AllClosed, RefusedIsClosed, Open

\* A server starts with nothing received.
LEMMA SessionsInit ==
  ASSUME SocketsInit, Clients = {}
  PROVE  SessionsInv
<1>1. CountsInRange
  BY StreamIsSeq DEF SocketsInit, CountsInRange
<1> QED
  BY <1>1 DEF SocketsInit, SessionsInv, UnreadUntilOpen, SessionsFit

-----------------------------------------------------------------------------
\* The invariant is enough for the property the runs check.
LEMMA RegistryInvSuffices == (pc # "stopped" => RegistryInv) => RegistryIsOpen
<1> SUFFICES ASSUME RegistryInv PROVE RegistryIsOpen
  BY DEF RegistryIsOpen
<1>1. \A fd \in Clients : fd \in Fd /\ owner[fd] # NoConn
  BY DEF RegistryInv, RegisteredAreOpen
<1> QED
  BY <1>1 DEF RegistryIsOpen, RegistryInv, RegisteredAreOpen, Places, PlacesApart, Queued

-----------------------------------------------------------------------------
\* The steps that close nobody.
LEMMA StayCloses == ASSUME UNCHANGED owner PROVE ClosedForReason
BY DEF ClosedForReason, Open

LEMMA AddCloses == ASSUME RegistryInv, AddClient PROVE ClosedForReason
<1>1. NextFd \in Fd /\ owner[NextFd] = NoConn
  BY NextFdIsFree DEF AddClient
<1>2. \A fd \in Fd : fd # NextFd => owner'[fd] = owner[fd]
  BY DEF AddClient, AcceptAs, RegistryInv, Places, PlacesTyped
<1> QED
  BY <1>1, <1>2, SocketsAssumption DEF ClosedForReason, Open

\* closesocket closes the connection of its descriptor and no other.
LEMMA RemoveCloses ==
  ASSUME RegistryInv, NEW fd \in Fd, RemoveClient(fd), MayClose(owner[fd])
  PROVE  ClosedForReason
<1>1. \A other \in Fd : other # fd => owner'[other] = owner[other]
  BY DEF RemoveClient, Close, RegistryInv, Places, PlacesTyped
<1>2. ASSUME NEW c \in Conn, Open(c), ~Open(c)'
      PROVE  owner[fd] = c
  BY <1>1, <1>2 DEF Open
<1> QED
  BY <1>2 DEF ClosedForReason

\* recv has said that the peer is gone: then all of its bytes were taken, or it
\* reset the connection.
LEMMA GoneIsDone ==
  ASSUME CountsInRange, NEW c \in Conn, RecvError(c) \/ RecvEof(c)
  PROVE  MayClose(c)
BY DEF CountsInRange, RecvError, RecvEof, Available, MayClose

\* forceLog has returned false: what was received of this client is not acceptable.
LEMMA RefusedIsDone ==
  ASSUME RegistryInv, SessionsInv, NEW fd \in Clients, NEW size \in Nat \ {0},
         ReadAndLog(fd, size), ~ForceLogOutcome(fd, size).ok
  PROVE  MayClose(owner[fd])
<1>1. PICK c \in Conn : c = owner[fd]
  BY ClientIsOpen
<1>2. ~Acceptable(Stream(c), taken'[c])
  BY <1>1, ReadIs
<1> QED
  BY <1>1, <1>2 DEF MayClose

-----------------------------------------------------------------------------
\* No server has done anything yet.
LEMMA LifeBegins == SocketsInit => Promise!LifeInit
BY NoneConnected DEF SocketsInit, Promise!LifeInit

\* The peers of Sockets are those of Lifecycle.
LEMMA LifePeer ==
  ASSUME Places, NEW c \in Conn, PeerStep(c)
  PROVE  Promise!Moves
<1>1. CASE Connect(c)
  <2>1. Promise!Connect(c)
    BY <1>1, ConnectMoves DEF Connect, Moved, Promise!Connect, Promise!Phase
  <2> QED
    BY <2>1 DEF Promise!Moves
<1>2. CASE Write(c)
  <2>1. Promise!Write(c)
    BY <1>2, PeerStays DEF Write, Promise!Write
  <2> QED
    BY <2>1 DEF Promise!Moves
<1>3. CASE Shutdown(c) \/ Reset(c)
  <2>1. Promise!Leave(c)
    BY <1>3, PeerStays DEF Shutdown, Reset, Promise!Leave
  <2> QED
    BY <2>1 DEF Promise!Moves
<1> QED
  BY <1>1, <1>2, <1>3 DEF PeerStep

\* accept: the head of the queue is open, or dropped at once.
LEMMA LifeAccept ==
  ASSUME RegistryInv, AddClient \/ AcceptError \/ AcceptDropped, UNCHANGED <<peer, sent, taken>>
  PROVE  Promise!Moves \/ UNCHANGED <<peer, sent, taken, Phases>>
<1>0. Places
  BY DEF RegistryInv
<1>1. CASE AddClient
  <2>1. PICK c \in Conn : Moved(c, "queued", "open")
    BY <1>0, <1>1, AcceptMoves DEF AddClient
  <2>2. Promise!Accept(c)
    BY <2>1 DEF Moved, Promise!Accept, Promise!Phase
  <2> QED
    BY <2>2 DEF Promise!Moves
<1>2. CASE AcceptError
  <2>1. UNCHANGED <<backlog, owner>>
    BY <1>2 DEF AcceptError
  <2> QED
    BY <2>1, NoneMoves
<1>3. CASE AcceptDropped
  <2>1. PICK c \in Conn : Moved(c, "queued", "closed")
    BY <1>0, <1>3, DropMoves DEF AcceptDropped
  <2>2. Promise!Drop(c)
    BY <2>1 DEF Moved, Promise!Drop, Promise!Phase
  <2> QED
    BY <2>2 DEF Promise!Moves
<1> QED
  BY <1>1, <1>2, <1>3

\* closesocket: the connection of the descriptor is closed and no other moves.
LEMMA LifeRemove ==
  ASSUME RegistryInv, NEW fd \in Clients, RemoveClient(fd), UNCHANGED <<peer, backlog>>,
         NEW c \in Conn, owner[fd] = c
  PROVE  Phases[c] = "open" /\ Phases' = [Phases EXCEPT ![c] = "closed"]
<1>1. Places /\ fd \in Fd /\ Close(fd)
  BY ClientIsOpen DEF RegistryInv, RemoveClient
<1> QED
  BY <1>1, CloseMoves DEF Moved

\* A peer that is gone.
LEMMA LifeClose ==
  ASSUME RegistryInv, CountsInRange, NEW fd \in Clients, RemoveClient(fd),
         RecvError(owner[fd]) \/ RecvEof(owner[fd]), UNCHANGED <<peer, sent, taken, backlog>>
  PROVE  Promise!Moves
<1>1. PICK c \in Conn : c = owner[fd]
  BY ClientIsOpen
<1>2. Phases[c] = "open" /\ Phases' = [Phases EXCEPT ![c] = "closed"]
  BY <1>1, LifeRemove
<1>3. peer[c] = "rst" \/ (peer[c] = "fin" /\ taken[c] = sent[c])
  BY <1>1 DEF RecvError, RecvEof, Available, CountsInRange
<1>4. Promise!Close(c)
  BY <1>2, <1>3 DEF Promise!Close, Promise!Phase
<1> QED
  BY <1>4 DEF Promise!Moves

\* recv and forceLog: bytes of an open connection are taken.  When forceLog refuses
\* them a server may close the connection in the same step.
LEMMA LifeRead ==
  ASSUME RegistryInv, SessionsInv, NEW fd \in Clients, NEW size \in Nat \ {0},
         ReadAndLog(fd, size), UNCHANGED <<peer, sent, backlog>>,
         KeepClient(fd, size) \/ (RemoveClient(fd) /\ ~ForceLogOutcome(fd, size).ok),
         NEW c \in Conn, c = owner[fd]
  PROVE  Promise!Read(c)
<1>1. PICK n \in (taken[c] + 1)..sent[c] : taken'[c] = n /\ taken' = [taken EXCEPT ![c] = n]
  BY ReadIs
<1>2. Phases[c] = "open"
  <2>1. PhaseFits /\ Open(c)
    BY ClientIsOpen, PhaseIs DEF RegistryInv, Open
  <2> QED
    BY <2>1 DEF PhaseFits
<1>3. CASE KeepClient(fd, size)
  <2>1. Phases' = Phases
    BY <1>3, NoneMoves DEF KeepClient
  <2> QED
    BY <1>1, <1>2, <2>1 DEF Promise!Read
<1>4. CASE RemoveClient(fd) /\ ~ForceLogOutcome(fd, size).ok
  <2>1. Phases' = [Phases EXCEPT ![c] = "closed"]
    BY <1>4, LifeRemove
  <2>2. ~Acceptable(Stream(c), n)
    BY <1>1, <1>4, ReadIs
  <2>3. ~Promise!Acceptable(Promise!Stream(c), n)
    BY <2>2 DEF Stream, Promise!Stream, Acceptable, Promise!Acceptable, MarkerOK, Promise!MarkerOK,
                CleanUpTo, Promise!CleanUpTo, MarkerLen, Promise!MarkerLen, Protocols,
                Promise!Protocols, FrameKinds, Promise!FrameKinds, FrameEnds, Promise!FrameEnds
  <2> QED
    BY <1>1, <1>2, <2>1, <2>3 DEF Promise!Read, Promise!Phase
<1> QED
  BY <1>3, <1>4

\* The end of runServer.
LEMMA LifeEnd ==
  ASSUME RegistryInv, CloseAll
  PROVE  Promise!Moves
<1>1. Places /\ UNCHANGED <<peer, sent, taken>> /\ backlog' = <<>>
  BY DEF RegistryInv, CloseAll
<1>2. \A fd \in Fd : owner'[fd] = NoConn
  BY CloseAllCloses DEF AllClosed
<1>3. Promise!Stop
  BY <1>1, <1>2, ProcessMoves DEF Promise!Stop
<1> QED
  BY <1>3 DEF Promise!Moves

\* What the servers do between their calls is not seen in Lifecycle.
LEMMA LifeStays ==
  ASSUME UNCHANGED <<peer, sent, taken, backlog, owner>>
  PROVE  UNCHANGED Promise!lifeVars
<1>1. Phases' = Phases
  BY NoneMoves
<1> QED
  BY <1>1 DEF Promise!lifeVars

-----------------------------------------------------------------------------
\* LogServer is Lifecycle with the events that are logged.
LEMMA PromiseIsLife ==
  /\ Promise!Init => Life!LifeInit
  /\ Promise!Next => Life!LifeNext
  /\ UNCHANGED Promise!vars => UNCHANGED Life!lifeVars
<1>1. Promise!Init => Life!LifeInit
  BY DEF Promise!Init, Promise!LifeInit, Life!LifeInit
<1>2. Promise!Moves => Life!Moves
  BY DEF Promise!Moves, Life!Moves, Promise!Connect, Life!Connect, Promise!Write, Life!Write,
         Promise!Leave, Life!Leave, Promise!Accept, Life!Accept, Promise!Close, Life!Close,
         Promise!Drop, Life!Drop, Promise!StopListening, Life!StopListening, Promise!Stop,
         Life!Stop, Promise!Phase, Life!Phase, Promise!Acceptable, Life!Acceptable,
         Promise!Stream, Life!Stream, Promise!MarkerOK, Life!MarkerOK, Promise!CleanUpTo,
         Life!CleanUpTo, Promise!MarkerLen, Life!MarkerLen, Promise!Protocols, Life!Protocols,
         Promise!FrameKinds, Life!FrameKinds, Promise!FrameEnds, Life!FrameEnds
<1>3. ASSUME NEW c \in Conn, Promise!Read(c)
      PROVE  Life!Read(c)
  BY <1>3 DEF Promise!Read, Life!Read, Promise!Phase, Life!Phase, Promise!Acceptable,
              Life!Acceptable, Promise!Stream, Life!Stream, Promise!MarkerOK, Life!MarkerOK,
              Promise!CleanUpTo, Life!CleanUpTo, Promise!MarkerLen, Life!MarkerLen,
              Promise!Protocols, Life!Protocols, Promise!FrameKinds, Life!FrameKinds,
              Promise!FrameEnds, Life!FrameEnds
<1>4. Promise!Next => Life!LifeNext
  BY <1>2, <1>3 DEF Promise!Next, Promise!Log, Life!LifeNext
<1>5. UNCHANGED Promise!vars => UNCHANGED Life!lifeVars
  BY DEF Promise!vars, Promise!lifeVars, Life!lifeVars
<1> QED
  BY <1>1, <1>4, <1>5

\* What LogServer says is logged is what Sockets says is owed.
LEMMA CompletedIsOwed ==
  ASSUME NEW c \in Conn, NEW from, NEW to
  PROVE  Promise!Completed(c, from, to) = OwedEvents(c, from, to)
BY DEF Promise!Completed, OwedEvents, Promise!Only, Only, Promise!Stream, Stream, Promise!Owed,
       Owed, Promise!Token, Token, Promise!MarkerOK, MarkerOK, Promise!CleanUpTo, CleanUpTo,
       Promise!MarkerLen, MarkerLen, Promise!Protocols, Protocols, Promise!FrameKinds, FrameKinds,
       Promise!FrameEnds, FrameEnds, Promise!Kinds, Kinds

-----------------------------------------------------------------------------
\* What has been logged is what the bytes received complete, and the rest of a
\* server's memory has its type.
HistoryTyped ==
  /\ Clients \subseteq Fd
  /\ \A fd \in Registered : clientSockets[fd] \in SessionState
  /\ faults \in 0..MaxFaults
  /\ logged \in Seq(Token)

HistoryInv == HistoryTyped /\ LogsOwed

LEMMA HeldTyped ==
  ASSUME NEW s \in Seq(Token), NEW n \in 0..Len(s)
  PROVE  Held(s, n) \in SessionState
<1>1. Part(s, 0, n) \in Seq(Token)
  <2>1. n \in 0..Len(s) /\ 0 \in 0..n
    OBVIOUS
  <2> QED
    BY <2>1, PartIs
<1>2. CASE n < 2 \/ ~MarkerOK(s)
  BY <1>1, <1>2 DEF Held, MarkerLen, SessionState
<1>3. CASE n >= 2 /\ MarkerOK(s)
  <2>1. LastEnd(s, n) \in 0..n /\ s[2].kind \in Protocols
    BY <1>3, LastEndIs DEF MarkerOK
  <2>2. Part(s, LastEnd(s, n), n) \in Seq(Token)
    BY <2>1, PartIs
  <2> QED
    BY <1>3, <2>1, <2>2 DEF Held, MarkerLen, SessionState
<1> QED
  BY <1>2, <1>3

LEMMA FaultsCounted ==
  ASSUME faults \in 0..MaxFaults, Fault \/ UNCHANGED faults
  PROVE  faults' \in 0..MaxFaults
BY EventLoopAssumption DEF Fault

\* Steps that receive nothing log nothing.
LEMMA HistoryStays ==
  ASSUME HistoryInv, UNCHANGED <<taken, logged>>, Fault \/ UNCHANGED faults,
         Registered' \subseteq Registered,
         \A fd \in Registered' : clientSockets'[fd] = clientSockets[fd]
  PROVE  HistoryInv'
<1>1. LogsOwed'
  BY DEF HistoryInv, LogsOwed, EventsOf, OwedEvents, Stream, Owed
<1>2. HistoryTyped'
  BY FaultsCounted DEF HistoryInv, HistoryTyped, Clients
<1> QED
  BY <1>1, <1>2 DEF HistoryInv

\* A new client begins with a fresh session.
LEMMA HistoryAdd ==
  ASSUME HistoryInv, AddClient, UNCHANGED <<taken, logged>>
  PROVE  HistoryInv'
<1>1. LogsOwed'
  BY DEF HistoryInv, LogsOwed, EventsOf, OwedEvents, Stream, Owed
<1>2. NextFd \in Fd
  BY NextFdIsFree DEF AddClient
<1>3. FreshSession \in SessionState
  BY DEF FreshSession, SessionState
<1>4. HistoryTyped'
  BY <1>2, <1>3 DEF HistoryInv, HistoryTyped, AddClient, Emplaced, Clients, Registered
<1> QED
  BY <1>1, <1>4 DEF HistoryInv

\* recv and forceLog log what the received bytes complete, and nothing of another
\* connection.
LEMMA HistoryRead ==
  ASSUME RegistryInv, SessionsInv, HistoryInv, NEW fd \in Clients, NEW size \in Nat \ {0},
         ReadAndLog(fd, size), KeepClient(fd, size) \/ RemoveClient(fd), UNCHANGED faults,
         NEW c \in Conn, c = owner[fd]
  PROVE  /\ HistoryInv'
         /\ \A d \in Conn : EventsOf(d, logged)' = EventsOf(d, logged) \o
              (IF d = c THEN OwedEvents(c, taken[c], taken'[c]) ELSE <<>>)
<1>1. PICK u \in 0..Len(Stream(c)) : u = taken'[c]
  BY ReadIs
<1>2. PICK t \in 0..u : t = taken[c]
  BY <1>1, ReadIs
<1>3. /\ logged' = logged \o OwedEvents(c, t, u)
      /\ \A d \in Conn : d # c => taken'[d] = taken[d]
      /\ ForceLogOutcome(fd, size).session = Held(Stream(c), u)
  BY <1>1, <1>2, ReadIs
<1>4. OwedEvents(c, t, u) \in Seq(TokensOf(c)) /\ OwedEvents(c, t, u) \in Seq(Token)
  BY OwedEventsTyped
<1>5. logged \in Seq(Token) /\ logged' \in Seq(Token)
  BY <1>3, <1>4 DEF HistoryInv, HistoryTyped
<1>6. ASSUME NEW d \in Conn
      PROVE  EventsOf(d, logged') = EventsOf(d, logged) \o (IF d = c THEN OwedEvents(c, t, u) ELSE <<>>)
  BY <1>3, <1>4, <1>5, EventsOfMore
<1>7. OwedEvents(c, 0, u) = OwedEvents(c, 0, t) \o OwedEvents(c, t, u)
  BY OwedEventsSplit
<1>8. ASSUME NEW d \in Conn
      PROVE  EventsOf(d, logged') = OwedEvents(d, 0, taken'[d])
  <2>1. EventsOf(d, logged) = OwedEvents(d, 0, taken[d])
    BY DEF HistoryInv, LogsOwed
  <2>2. CASE d = c
    <3>1. EventsOf(c, logged') = EventsOf(c, logged) \o OwedEvents(c, t, u)
      BY <1>6
    <3>2. EventsOf(c, logged) = OwedEvents(c, 0, t)
      BY <1>2, <2>1, <2>2
    <3>3. EventsOf(c, logged') = OwedEvents(c, 0, u)
      BY <1>7, <3>1, <3>2
    <3> QED
      BY <1>1, <2>2, <3>3
  <2>3. CASE d # c
    <3>1. EventsOf(d, logged) \in Seq(Token)
      BY <1>5, OnlyType DEF EventsOf
    <3>2. EventsOf(d, logged') = EventsOf(d, logged)
      BY <1>6, <2>3, <3>1, ConcatEmptySeq
    <3> QED
      BY <1>3, <2>1, <2>3, <3>2
  <2> QED
    BY <2>2, <2>3
<1>9. LogsOwed'
  BY <1>8 DEF LogsOwed
<1>10. HistoryTyped'
  <2>1. Held(Stream(c), u) \in SessionState
    BY StreamIsSeq, HeldTyped
  <2>2. Clients' \subseteq Fd /\ \A k \in Registered' : clientSockets'[k] \in SessionState
    <3>1. CASE KeepClient(fd, size)
      BY <1>3, <2>1, <3>1 DEF KeepClient, HistoryInv, HistoryTyped, Clients, Registered
    <3>2. CASE RemoveClient(fd)
      BY <3>2 DEF RemoveClient, HistoryInv, HistoryTyped, Clients, Registered
    <3> QED
      BY <3>1, <3>2
  <2> QED
    BY <1>5, <2>2 DEF HistoryInv, HistoryTyped
<1>11. \A d \in Conn : EventsOf(d, logged)' = EventsOf(d, logged')
  OBVIOUS
<1> QED
  BY <1>1, <1>2, <1>6, <1>9, <1>10, <1>11 DEF HistoryInv

\* Nothing received, nothing logged.
LEMMA HistoryInit ==
  ASSUME SocketsInit, clientSockets \in [Registered -> {FreshSession}], Registered \subseteq {ListenFd},
         faults = 0, logged = <<>>
  PROVE  HistoryInv
<1>1. HistoryTyped
  <2>1. FreshSession \in SessionState
    BY DEF FreshSession, SessionState
  <2>2. \A fd \in Registered : clientSockets[fd] = FreshSession
    OBVIOUS
  <2> QED
    BY <2>1, <2>2, EventLoopAssumption DEF HistoryTyped, Clients
<1>2. ASSUME NEW c \in Conn
      PROVE  EventsOf(c, logged) = OwedEvents(c, 0, taken[c])
  <2>1. taken[c] = 0
    BY DEF SocketsInit
  <2>2. SubSeq(Stream(c), 0 + 1, 0) = <<>>
    BY SubSeqEmpty
  <2>3. OwedEvents(c, 0, 0) = <<>>
    <3> DEFINE due == {t \in Token : t.id[2] \in Owed(Stream(c), 0)}
    <3>1. OwedEvents(c, 0, 0) = Only(<<>>, due)
      BY <2>2 DEF OwedEvents
    <3> HIDE DEF due
    <3> QED
      BY <3>1, OnlyEmpty
  <2>4. EventsOf(c, logged) = <<>>
    BY OnlyEmpty DEF EventsOf
  <2> QED
    BY <2>1, <2>3, <2>4
<1> QED
  BY <1>1, <1>2 DEF HistoryInv, LogsOwed

-----------------------------------------------------------------------------
\* The steps the loops have in common, as far as this module sees them: they differ in
\* how they learn what is ready and in what they remember of it.  A loop learns of
\* readiness, or of nothing; ...
Waits ==
  UNCHANGED <<socketVars, clientSockets, logged>> /\ (Fault \/ UNCHANGED faults)

Hears == (\E c \in Conn : PeerStep(c)) /\ UNCHANGED <<clientSockets, faults, logged>>

Accepts ==
  (AddClient \/ AcceptError \/ AcceptDropped) /\ UNCHANGED <<peer, sent, taken, logged>>

Disconnects(fd) ==
  /\ RecvError(owner[fd]) \/ RecvEof(owner[fd])
  /\ RemoveClient(fd)
  /\ UNCHANGED <<peer, sent, taken, backlog, faults, logged>>

Forfeits(fd) ==
  Fault /\ RemoveClient(fd) /\ UNCHANGED <<peer, sent, taken, backlog, logged>>

\* ... and a client whose bytes are refused may be kept anyway.
Receives(fd, size, anyway) ==
  /\ ReadAndLog(fd, size)
  /\ \/ KeepClient(fd, size) /\ (anyway \/ ForceLogOutcome(fd, size).ok)
     \/ RemoveClient(fd) /\ ~ForceLogOutcome(fd, size).ok
  /\ UNCHANGED <<peer, sent, backlog, faults>>

LoopMove(anyway, forfeits) ==
  \/ Waits \/ Hears \/ Accepts
  \/ \E fd \in Clients : Disconnects(fd) \/ (forfeits /\ Forfeits(fd))
  \/ \E fd \in Clients, size \in Nat \ {0} : Receives(fd, size, anyway)

LoopStep(anyway, forfeits) ==
  \/ pc # "stopped" /\ pc' # "stopped" /\ LoopMove(anyway, forfeits)
  \/ pc = "cleanup" /\ pc' = "stopped" /\ CloseAll
  \/ UNCHANGED loopVars

\* What holds of every loop, before and after the clean-up, which erases nothing.
LoopSound == RegistryInv /\ SessionsInv /\ HistoryInv

Ended == AllClosed /\ PlacesTyped /\ CountsInRange /\ HistoryInv

LoopHolds == IF pc = "stopped" THEN Ended ELSE LoopSound

LEMMA MoveKeepsRegistry ==
  ASSUME RegistryInv, NEW anyway, NEW forfeits, LoopMove(anyway, forfeits)
  PROVE  RegistryInv'
<1>1. CASE Waits
  BY <1>1, StayKeeps DEF Waits, socketVars, Registered
<1>2. CASE Hears
  BY <1>2, PeerKeeps DEF Hears
<1>3. CASE Accepts
  BY <1>3, AddClientKeeps, AcceptErrorKeeps, AcceptDroppedKeeps DEF Accepts
<1>4. ASSUME NEW fd \in Clients, Disconnects(fd) \/ Forfeits(fd)
      PROVE  RegistryInv'
  BY <1>4, ClientIsOpen, RemoveClientKeeps DEF Disconnects, Forfeits
<1>5. ASSUME NEW fd \in Clients, NEW size \in Nat \ {0}, Receives(fd, size, anyway)
      PROVE  RegistryInv'
  <2>1. CASE KeepClient(fd, size)
    BY <1>5, <2>1, KeepClientStays, StayKeeps DEF Receives
  <2>2. CASE RemoveClient(fd)
    BY <1>5, <2>2, ClientIsOpen, RemoveClientKeeps DEF Receives
  <2> QED
    BY <1>5, <2>1, <2>2 DEF Receives
<1> QED
  BY <1>1, <1>2, <1>3, <1>4, <1>5 DEF LoopMove

LEMMA MoveKeepsSessions ==
  ASSUME RegistryInv, SessionsInv, NEW anyway, NEW forfeits, LoopMove(anyway, forfeits)
  PROVE  SessionsInv'
<1>1. CASE Waits
  <2>1. UNCHANGED <<peer, sent, taken, backlog, owner, clientSockets>>
    BY <1>1 DEF Waits, socketVars
  <2>2. CountsInRange'
    BY <2>1 DEF SessionsInv, CountsInRange
  <2> QED
    BY <2>1, <2>2, SessionsStay DEF Queued
<1>2. CASE Hears
  BY <1>2, SessionsPeer DEF Hears
<1>3. CASE Accepts
  BY <1>3, SessionsAdd, SessionsDrop DEF Accepts
<1>4. ASSUME NEW fd \in Clients, Disconnects(fd) \/ Forfeits(fd)
      PROVE  SessionsInv'
  <2>1. RemoveClient(fd) /\ UNCHANGED <<peer, sent, taken, backlog>>
    BY <1>4 DEF Disconnects, Forfeits
  <2>2. CountsInRange'
    BY <2>1 DEF SessionsInv, CountsInRange
  <2> QED
    BY <2>1, <2>2, SessionsForget
<1>5. ASSUME NEW fd \in Clients, NEW size \in Nat \ {0}, Receives(fd, size, anyway)
      PROVE  SessionsInv'
  BY <1>5, SessionsRead DEF Receives
<1> QED
  BY <1>1, <1>2, <1>3, <1>4, <1>5 DEF LoopMove

LEMMA MoveKeepsHistory ==
  ASSUME RegistryInv, SessionsInv, HistoryInv, NEW anyway, NEW forfeits,
         LoopMove(anyway, forfeits)
  PROVE  HistoryInv'
<1>1. CASE Waits
  BY <1>1, HistoryStays DEF Waits, socketVars, Registered
<1>2. CASE Hears
  BY <1>2, HistoryStays DEF Hears, PeerStep, Connect, Write, Shutdown, Reset, Registered
<1>3. CASE Accepts
  <2>1. CASE AddClient
    BY <1>3, <2>1, HistoryAdd DEF Accepts
  <2>2. CASE AcceptError \/ AcceptDropped
    <3>1. UNCHANGED clientSockets /\ (Fault \/ UNCHANGED faults)
      BY <2>2 DEF AcceptError, AcceptDropped
    <3> QED
      BY <1>3, <3>1, HistoryStays DEF Accepts, Registered
  <2> QED
    BY <1>3, <2>1, <2>2 DEF Accepts
<1>4. ASSUME NEW fd \in Clients, Disconnects(fd) \/ Forfeits(fd)
      PROVE  HistoryInv'
  <2>1. /\ RemoveClient(fd) /\ UNCHANGED <<taken, logged>> /\ (Fault \/ UNCHANGED faults)
    BY <1>4 DEF Disconnects, Forfeits
  <2>2. Registered' \subseteq Registered /\ \A k \in Registered' : clientSockets'[k] = clientSockets[k]
    BY <2>1 DEF RemoveClient, Registered
  <2> QED
    BY <2>1, <2>2, HistoryStays
<1>5. ASSUME NEW fd \in Clients, NEW size \in Nat \ {0}, Receives(fd, size, anyway)
      PROVE  HistoryInv'
  <2>1. PICK c \in Conn : c = owner[fd]
    BY ClientIsOpen
  <2> QED
    BY <1>5, <2>1, HistoryRead DEF Receives
<1> QED
  BY <1>1, <1>2, <1>3, <1>4, <1>5 DEF LoopMove

\* The clean-up closes everything and logs nothing.
LEMMA EndKeeps ==
  ASSUME LoopSound, CloseAll
  PROVE  Ended'
<1>1. AllClosed'
  BY CloseAllCloses DEF LoopSound
<1>2. PlacesTyped'
  BY EmptySeq DEF LoopSound, RegistryInv, Places, PlacesTyped, CloseAll
<1>3. CountsInRange'
  BY DEF LoopSound, SessionsInv, CountsInRange, CloseAll
<1>4. HistoryInv'
  BY HistoryStays DEF LoopSound, CloseAll, Registered
<1> QED
  BY <1>1, <1>2, <1>3, <1>4 DEF Ended

\* A loop begins with no client, whether or not the listener is registered.
LEMMA LoopBegins ==
  ASSUME SocketsInit, NEW K \in SUBSET {ListenFd}, clientSockets = [fd \in K |-> FreshSession],
         faults = 0, logged = <<>>
  PROVE  LoopSound /\ NoneRefused
<1>1. Registered = K /\ Clients = {} /\ clientSockets \in [Registered -> {FreshSession}]
  BY DEF Registered, Clients
<1>2. Places /\ RegisteredAreOpen
  BY <1>1, InitKeepsPlaces DEF SocketsInit, RegisteredAreOpen
<1>3. SessionsInv /\ HistoryInv
  BY <1>1, SessionsInit, HistoryInit
<1> QED
  BY <1>1, <1>2, <1>3 DEF LoopSound, RegistryInv, NoneRefused

\* Every step of a loop keeps what holds of it.
LEMMA StepKeeps ==
  ASSUME LoopHolds, NEW anyway, NEW forfeits, LoopStep(anyway, forfeits)
  PROVE  LoopHolds'
<1>1. CASE pc # "stopped" /\ pc' # "stopped" /\ LoopMove(anyway, forfeits)
  <2>1. RegistryInv /\ SessionsInv /\ HistoryInv
    BY <1>1 DEF LoopHolds, LoopSound
  <2>2. RegistryInv' /\ SessionsInv' /\ HistoryInv'
    BY <1>1, <2>1, MoveKeepsRegistry, MoveKeepsSessions, MoveKeepsHistory
  <2> QED
    BY <1>1, <2>2 DEF LoopHolds, LoopSound
<1>2. CASE pc = "cleanup" /\ pc' = "stopped" /\ CloseAll
  BY <1>2, EndKeeps DEF LoopHolds
<1>3. CASE UNCHANGED loopVars
  <2>1. UNCHANGED <<peer, sent, taken, backlog, owner, clientSockets, pc, faults, logged>>
    BY <1>3 DEF loopVars, socketVars
  <2>2. HistoryInv => HistoryInv'
    BY <2>1, HistoryStays DEF Registered
  <2>3. CASE pc = "stopped"
    <3>1. AllClosed' /\ PlacesTyped' /\ CountsInRange' /\ HistoryInv'
      BY <2>1, <2>2, <2>3 DEF LoopHolds, Ended, AllClosed, PlacesTyped, CountsInRange
    <3> QED
      BY <2>1, <2>3, <3>1 DEF LoopHolds, Ended
  <2>4. CASE pc # "stopped"
    <3>1. RegistryInv /\ SessionsInv /\ HistoryInv
      BY <2>4 DEF LoopHolds, LoopSound
    <3>2. Waits
      BY <2>1 DEF Waits, socketVars
    <3>3. LoopMove(anyway, forfeits)
      BY <3>2 DEF LoopMove
    <3>4. RegistryInv' /\ SessionsInv' /\ HistoryInv'
      BY <3>1, <3>3, MoveKeepsRegistry, MoveKeepsSessions, MoveKeepsHistory
    <3> QED
      BY <2>1, <2>4, <3>4 DEF LoopHolds, LoopSound
  <2> QED
    BY <2>3, <2>4
<1> QED
  BY <1>1, <1>2, <1>3 DEF LoopStep

\* Where a refused client is closed in the same step, none stays.
Served == pc # "stopped" => NoneRefused

LEMMA StepKeepsServed ==
  ASSUME LoopHolds, Served, NEW forfeits, LoopStep(FALSE, forfeits)
  PROVE  Served'
<1>1. CASE pc # "stopped" /\ pc' # "stopped" /\ LoopMove(FALSE, forfeits)
  <2>0. RegistryInv /\ SessionsInv /\ NoneRefused
    BY <1>1 DEF LoopHolds, LoopSound, Served
  <2> SUFFICES NoneRefused'
    BY DEF Served
  <2>1. CASE Waits \/ Hears
    <3>1. UNCHANGED <<taken, owner, clientSockets>>
      BY <2>1 DEF Waits, Hears, PeerStep, Connect, Write, Shutdown, Reset, socketVars
    <3> QED
      BY <2>0, <3>1, NoneRefusedStays DEF Clients, Registered
  <2>2. CASE Accepts
    <3>1. CASE AddClient
      BY <2>0, <2>2, <3>1, NoneRefusedAdd DEF Accepts
    <3>2. CASE AcceptError \/ AcceptDropped
      <4>1. UNCHANGED <<taken, owner, clientSockets>>
        BY <2>2, <3>2 DEF Accepts, AcceptError, AcceptDropped, AcceptAndClose
      <4> QED
        BY <2>0, <4>1, NoneRefusedStays DEF Clients, Registered
    <3> QED
      BY <2>2, <3>1, <3>2 DEF Accepts
  <2>3. ASSUME NEW fd \in Clients, Disconnects(fd) \/ Forfeits(fd)
        PROVE  NoneRefused'
    BY <2>0, <2>3, NoneRefusedForget DEF Disconnects, Forfeits
  <2>4. ASSUME NEW fd \in Clients, NEW size \in Nat \ {0}, Receives(fd, size, FALSE)
        PROVE  NoneRefused'
    <3>1. PICK c \in Conn : c = owner[fd]
      BY <2>0, ClientIsOpen
    <3>2. ReadAndLog(fd, size)
      BY <2>4 DEF Receives
    <3>3. \A d \in Conn : d # c => taken'[d] = taken[d]
      BY <2>0, <3>1, <3>2, ReadIs
    <3>4. CASE KeepClient(fd, size) /\ ForceLogOutcome(fd, size).ok
      BY <2>0, <3>2, <3>4, NoneRefusedRead
    <3>5. CASE RemoveClient(fd)
      BY <2>0, <3>1, <3>3, <3>5, NoneRefusedForget
    <3> QED
      BY <2>4, <3>4, <3>5 DEF Receives
  <2> QED
    BY <1>1, <2>1, <2>2, <2>3, <2>4 DEF LoopMove
<1>2. CASE pc' = "stopped"
  BY <1>2 DEF Served
<1>3. CASE UNCHANGED loopVars
  <2>1. UNCHANGED <<taken, owner, clientSockets, pc>>
    BY <1>3 DEF loopVars, socketVars
  <2> QED
    BY <2>1, NoneRefusedStays DEF Served, LoopHolds, LoopSound, Clients, Registered
<1> QED
  BY <1>1, <1>2, <1>3 DEF LoopStep

LEMMA ServedSuffices == LoopHolds /\ Served => RefusedIsClosed
BY NoneRefusedSuffices, ClosedSuffices DEF LoopHolds, LoopSound, Ended, Served

LEMMA HoldsSuffices == LoopHolds => LoopTypeOK /\ RegistryIsOpen /\ SessionIsOwn /\ LogsOwed
<1> SUFFICES ASSUME LoopHolds
             PROVE  LoopTypeOK /\ RegistryIsOpen /\ SessionIsOwn /\ LogsOwed
  OBVIOUS
<1>1. PlacesTyped /\ CountsInRange /\ HistoryInv
  BY DEF LoopHolds, LoopSound, Ended, RegistryInv, Places, SessionsInv
<1>2. LoopTypeOK
  BY <1>1 DEF LoopTypeOK, SocketsTypeOK, PlacesTyped, CountsInRange, HistoryInv, HistoryTyped
<1>3. RegistryIsOpen
  BY RegistryInvSuffices DEF LoopHolds, LoopSound
<1>4. SessionIsOwn
  BY SessionsInvSuffices DEF LoopHolds, LoopSound, SessionIsOwn
<1> QED
  BY <1>1, <1>2, <1>3, <1>4 DEF HistoryInv

\* No step of a loop closes a client but for a reason.
LEMMA StepCloses ==
  ASSUME LoopHolds, NEW anyway, NEW forfeits, LoopStep(anyway, forfeits)
  PROVE  ClosedForReason
<1>1. CASE pc # "stopped" /\ pc' # "stopped" /\ LoopMove(anyway, forfeits)
  <2>0. RegistryInv /\ SessionsInv
    BY <1>1 DEF LoopHolds, LoopSound
  <2>1. CASE Waits \/ Hears
    BY <2>1, StayCloses
       DEF Waits, Hears, PeerStep, Connect, Write, Shutdown, Reset, socketVars
  <2>2. CASE Accepts
    BY <2>0, <2>2, AddCloses, StayCloses DEF Accepts, AcceptError, AcceptDropped, AcceptAndClose
  <2>3. ASSUME NEW fd \in Clients, Disconnects(fd) \/ Forfeits(fd)
        PROVE  ClosedForReason
    <3>1. RemoveClient(fd) /\ fd \in Fd /\ owner[fd] \in Conn
      BY <2>0, <2>3, ClientIsOpen DEF Disconnects, Forfeits
    <3>2. MayClose(owner[fd])
      BY <2>0, <2>3, <3>1, GoneIsDone DEF Disconnects, Forfeits, SessionsInv, MayClose
    <3> QED
      BY <2>0, <3>1, <3>2, RemoveCloses
  <2>4. ASSUME NEW fd \in Clients, NEW size \in Nat \ {0}, Receives(fd, size, anyway)
        PROVE  ClosedForReason
    <3>1. CASE KeepClient(fd, size)
      BY <3>1, StayCloses DEF KeepClient
    <3>2. CASE RemoveClient(fd) /\ ~ForceLogOutcome(fd, size).ok
      <4>1. fd \in Fd
        BY <2>0, ClientIsOpen
      <4>2. MayClose(owner[fd])
        BY <2>0, <2>4, <3>2, RefusedIsDone DEF Receives
      <4> QED
        BY <2>0, <3>2, <4>1, <4>2, RemoveCloses
    <3> QED
      BY <2>4, <3>1, <3>2 DEF Receives
  <2> QED
    BY <1>1, <2>1, <2>2, <2>3, <2>4 DEF LoopMove
<1>2. CASE pc = "cleanup"
  BY <1>2 DEF ClosedForReason, MayClose
<1>3. CASE UNCHANGED loopVars
  BY <1>3, StayCloses DEF loopVars, socketVars
<1> QED
  BY <1>1, <1>2, <1>3 DEF LoopStep

\* A loop begins as LogServer does.
LEMMA PromiseBegins ==
  ASSUME SocketsInit, logged = <<>>
  PROVE  Promise!Init
<1>1. Promise!LifeInit
  BY LifeBegins
<1>2. \A c \in Conn : EventsOf(c, logged) = <<>>
  BY OnlyEmpty DEF EventsOf
<1> QED
  BY <1>1, <1>2 DEF Promise!Init

\* A step that logs nothing moves connections only as LogServer allows.
LEMMA SilentKeepsPromise ==
  ASSUME Promise!Moves \/ UNCHANGED Promise!lifeVars, UNCHANGED logged
  PROVE  Promise!Next \/ UNCHANGED Promise!vars
<1>1. UNCHANGED [c \in Conn |-> EventsOf(c, logged)]
  BY DEF EventsOf
<1> QED
  BY <1>1 DEF Promise!Next, Promise!vars

\* Every step of a loop is one of LogServer or not seen by it, unless a client's bytes
\* are forfeited.
LEMMA StepKeepsPromise ==
  ASSUME LoopHolds, NEW anyway, LoopStep(anyway, FALSE)
  PROVE  Promise!Next \/ UNCHANGED Promise!vars
<1>1. CASE pc # "stopped" /\ pc' # "stopped" /\ LoopMove(anyway, FALSE)
  <2>0. RegistryInv /\ SessionsInv /\ HistoryInv
    BY <1>1 DEF LoopHolds, LoopSound
  <2>1. CASE Waits
    <3>1. UNCHANGED <<peer, sent, taken, backlog, owner, logged>>
      BY <2>1 DEF Waits, socketVars
    <3> QED
      BY <3>1, LifeStays, SilentKeepsPromise
  <2>2. CASE Hears
    <3>1. Promise!Moves /\ UNCHANGED logged
      BY <2>0, <2>2, LifePeer DEF Hears, RegistryInv
    <3> QED
      BY <3>1, SilentKeepsPromise
  <2>3. CASE Accepts
    <3>1. UNCHANGED logged /\ (Promise!Moves \/ UNCHANGED Promise!lifeVars)
      BY <2>0, <2>3, LifeAccept DEF Accepts, Promise!lifeVars
    <3> QED
      BY <3>1, SilentKeepsPromise
  <2>4. ASSUME NEW fd \in Clients, Disconnects(fd)
        PROVE  Promise!Next \/ UNCHANGED Promise!vars
    <3>1. Promise!Moves /\ UNCHANGED logged
      BY <2>0, <2>4, LifeClose DEF Disconnects, SessionsInv
    <3> QED
      BY <3>1, SilentKeepsPromise
  <2>5. ASSUME NEW fd \in Clients, NEW size \in Nat \ {0}, Receives(fd, size, anyway)
        PROVE  Promise!Next
    <3>1. PICK c \in Conn : c = owner[fd]
      BY <2>0, ClientIsOpen
    <3>2. Promise!Read(c)
      BY <2>0, <2>5, <3>1, LifeRead DEF Receives
    <3>3. \A d \in Conn : EventsOf(d, logged)' = EventsOf(d, logged) \o
            (IF d = c THEN OwedEvents(c, taken[c], taken'[c]) ELSE <<>>)
      BY <2>0, <2>5, <3>1, HistoryRead DEF Receives
    <3>4. \A d \in Conn : EventsOf(d, logged) \in Seq(Token)
      BY <2>0, OnlyType DEF HistoryInv, HistoryTyped, EventsOf
    <3>5. [d \in Conn |-> EventsOf(d, logged)]' =
            [[d \in Conn |-> EventsOf(d, logged)] EXCEPT
               ![c] = @ \o Promise!Completed(c, taken[c], taken'[c])]
      <4>1. Promise!Completed(c, taken[c], taken'[c]) = OwedEvents(c, taken[c], taken'[c])
        BY CompletedIsOwed
      <4>2. \A d \in Conn : d # c => EventsOf(d, logged)' = EventsOf(d, logged)
        BY <3>3, <3>4, ConcatEmptySeq
      <4> QED
        BY <3>3, <4>1, <4>2
    <3> QED
      BY <3>2, <3>5 DEF Promise!Next, Promise!Log
  <2> QED
    BY <1>1, <2>1, <2>2, <2>3, <2>4, <2>5 DEF LoopMove
<1>2. CASE pc = "cleanup" /\ CloseAll
  <2>1. Promise!Moves /\ UNCHANGED logged
    BY <1>2, LifeEnd DEF LoopHolds, LoopSound, CloseAll
  <2> QED
    BY <2>1, SilentKeepsPromise
<1>3. CASE UNCHANGED loopVars
  <2>1. UNCHANGED <<peer, sent, taken, backlog, owner, logged>>
    BY <1>3 DEF loopVars, socketVars
  <2> QED
    BY <2>1, LifeStays, SilentKeepsPromise
<1> QED
  BY <1>1, <1>2, <1>3 DEF LoopStep
=============================================================================
