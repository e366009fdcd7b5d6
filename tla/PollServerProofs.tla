-------------------------- MODULE PollServerProofs --------------------------
(***************************************************************************)
(* The poll server keeps its two containers in step, the registry and the   *)
(* vector pollfds, so that where it calls recv the descriptor is a client's  *)
(* and every step is one that EventLoopProofs knows.                         *)
(***************************************************************************)
EXTENDS PollServer, EventLoopProofs, Integers

\* pollfds is a vector of descriptors with their readiness.
PollfdsTyped ==
  /\ pollfds \in Seq([fd : Fd \cup {ListenFd}, ready : BOOLEAN])
  /\ pollfds # <<>>
  /\ it \in Nat \ {0}

ListenerStays == ListenFd \in Registered /\ Registered \subseteq Fd \cup {ListenFd}

\* The clean-up erases nothing, so the containers are in step for ever.
InStep ==
  /\ PollfdsTyped
  /\ ListenerStays
  /\ PollfdsMatchRegistry
  /\ IteratorInRange
  /\ pc \in {"poll", "handle", "cleanup", "stopped"}

LoopInv == LoopHolds /\ Served /\ InStep

-----------------------------------------------------------------------------
\* What vector::erase leaves of a vector, element by element.
LEMMA RemoveAtProps ==
  ASSUME NEW S, NEW s \in Seq(S), NEW i \in 1..Len(s)
  PROVE  /\ RemoveAt(s, i) \in Seq(S)
         /\ Len(RemoveAt(s, i)) = Len(s) - 1
         /\ \A j \in 1..(Len(s) - 1) : RemoveAt(s, i)[j] = IF j < i THEN s[j] ELSE s[j + 1]
<1> DEFINE front == SubSeq(s, 1, i - 1)
           back  == SubSeq(s, i + 1, Len(s))
<1>1. Len(s) \in Nat /\ i \in Nat /\ 1 <= i /\ i <= Len(s)
  OBVIOUS
<1>2. /\ front \in Seq(S) /\ Len(front) = i - 1
      /\ \A j \in 1..(i - 1) : front[j] = s[j]
  BY <1>1
<1>3. /\ back \in Seq(S) /\ Len(back) = Len(s) - i
      /\ \A j \in 1..(Len(s) - i) : back[j] = s[i + j]
  BY <1>1
<1>4. RemoveAt(s, i) = front \o back
  BY DEF RemoveAt
<1> HIDE DEF front, back
<1>5. /\ RemoveAt(s, i) \in Seq(S) /\ Len(RemoveAt(s, i)) = Len(s) - 1
      /\ \A j \in 1..(Len(s) - 1) :
           RemoveAt(s, i)[j] = IF j <= i - 1 THEN front[j] ELSE back[j - (i - 1)]
  BY <1>1, <1>2, <1>3, <1>4
<1>6. ASSUME NEW j \in 1..(Len(s) - 1)
      PROVE  RemoveAt(s, i)[j] = IF j < i THEN s[j] ELSE s[j + 1]
  <2>1. CASE j < i
    <3>1. j \in 1..(i - 1)
      BY <1>1, <2>1
    <3> QED
      BY <1>1, <1>2, <1>5, <2>1, <3>1
  <2>2. CASE ~(j < i)
    <3>1. j - (i - 1) \in 1..(Len(s) - i) /\ i + (j - (i - 1)) = j + 1 /\ ~(j <= i - 1)
      BY <1>1, <2>2
    <3> QED
      BY <1>1, <1>3, <1>5, <2>2, <3>1
  <2> QED
    BY <2>1, <2>2
<1> QED
  BY <1>5, <1>6

\* Erasing one element of a vector of distinct descriptors forgets exactly its
\* descriptor.
LEMMA EraseForgetsOne ==
  ASSUME InStep, NEW i \in 2..Len(pollfds),
         pollfds' = RemoveAt(pollfds, i),
         DOMAIN clientSockets' = Registered \ {pollfds[i].fd}
  PROVE  /\ PollfdsMatchRegistry' /\ ListenerStays'
         /\ pollfds' \in Seq([fd : Fd \cup {ListenFd}, ready : BOOLEAN]) /\ pollfds' # <<>>
<1> DEFINE S == [fd : Fd \cup {ListenFd}, ready : BOOLEAN]
<1>1. /\ pollfds \in Seq(S) /\ Len(pollfds) \in Nat /\ i \in 1..Len(pollfds) /\ i \in Nat
      /\ 2 <= i /\ i <= Len(pollfds) /\ DOMAIN pollfds = 1..Len(pollfds)
  BY DEF InStep, PollfdsTyped
<1> HIDE DEF S
<1>2. /\ pollfds' \in Seq(S) /\ Len(pollfds') = Len(pollfds) - 1
      /\ \A j \in 1..(Len(pollfds) - 1) :
           pollfds'[j] = IF j < i THEN pollfds[j] ELSE pollfds[j + 1]
  BY <1>1, RemoveAtProps
<1>3. DOMAIN pollfds' = 1..(Len(pollfds) - 1)
  BY <1>2
<1>4. \A j, k \in 1..Len(pollfds) : pollfds[j].fd = pollfds[k].fd => j = k
  BY <1>1 DEF InStep, PollfdsMatchRegistry
<1>5. ASSUME NEW j \in DOMAIN pollfds', NEW k \in DOMAIN pollfds', pollfds'[j].fd = pollfds'[k].fd
      PROVE  j = k
  <2>1. /\ j \in 1..Len(pollfds) /\ j + 1 \in 1..Len(pollfds) /\ j \in Nat
        /\ k \in 1..Len(pollfds) /\ k + 1 \in 1..Len(pollfds) /\ k \in Nat
    BY <1>1, <1>3
  <2>2. CASE j < i /\ k < i
    BY <1>2, <1>3, <1>4, <1>5, <2>1, <2>2
  <2>3. CASE ~(j < i) /\ ~(k < i)
    <3>1. j + 1 = k + 1
      BY <1>2, <1>3, <1>4, <1>5, <2>1, <2>3
    <3> QED
      BY <2>1, <3>1
  <2>4. CASE j < i /\ ~(k < i)
    <3>1. j = k + 1
      BY <1>2, <1>3, <1>4, <1>5, <2>1, <2>4
    <3> QED
      BY <1>1, <2>1, <2>4, <3>1
  <2>5. CASE ~(j < i) /\ k < i
    <3>1. j + 1 = k
      BY <1>2, <1>3, <1>4, <1>5, <2>1, <2>5
    <3> QED
      BY <1>1, <2>1, <2>5, <3>1
  <2> QED
    BY <2>2, <2>3, <2>4, <2>5
<1>6. ASSUME NEW j \in DOMAIN pollfds'
      PROVE  \E k \in 1..Len(pollfds) : k # i /\ pollfds'[j] = pollfds[k]
  <2>1. j \in 1..Len(pollfds) /\ j + 1 \in 1..Len(pollfds) /\ j \in Nat
    BY <1>1, <1>3
  <2>2. CASE j < i
    BY <1>1, <1>2, <1>3, <2>1, <2>2
  <2>3. CASE ~(j < i)
    <3>1. j + 1 # i
      BY <1>1, <2>1, <2>3
    <3> QED
      BY <1>2, <1>3, <2>1, <2>3, <3>1
  <2> QED
    BY <2>2, <2>3
<1>7. ASSUME NEW k \in 1..Len(pollfds), k # i
      PROVE  \E j \in DOMAIN pollfds' : pollfds'[j] = pollfds[k]
  <2>1. k \in Nat
    OBVIOUS
  <2>2. CASE k < i
    <3>1. k \in 1..(Len(pollfds) - 1)
      BY <1>1, <2>2
    <3> QED
      BY <1>2, <1>3, <2>2, <3>1
  <2>3. CASE ~(k < i)
    <3>1. k - 1 \in 1..(Len(pollfds) - 1) /\ ~(k - 1 < i) /\ (k - 1) + 1 = k
      BY <1>1, <1>7, <2>1, <2>3
    <3> QED
      BY <1>2, <1>3, <3>1
  <2> QED
    BY <2>2, <2>3
<1>8. PolledFds' = Registered \ {pollfds[i].fd}
  <2>1. PolledFds = {pollfds[k].fd : k \in 1..Len(pollfds)} /\ PolledFds = Registered
    BY <1>1 DEF PolledFds, InStep, PollfdsMatchRegistry
  <2>2. \A k \in 1..Len(pollfds) : k # i => pollfds[k].fd # pollfds[i].fd
    BY <1>1, <1>4
  <2>3. ASSUME NEW j \in DOMAIN pollfds'
        PROVE  pollfds'[j].fd \in Registered \ {pollfds[i].fd}
    <3>1. PICK k \in 1..Len(pollfds) : k # i /\ pollfds'[j] = pollfds[k]
      BY <1>6
    <3>2. pollfds[k].fd \in Registered /\ pollfds[k].fd # pollfds[i].fd
      BY <2>1, <2>2, <3>1
    <3> QED
      BY <3>1, <3>2
  <2>4. ASSUME NEW fd \in Registered, fd # pollfds[i].fd
        PROVE  \E j \in DOMAIN pollfds' : pollfds'[j].fd = fd
    <3>1. PICK k \in 1..Len(pollfds) : pollfds[k].fd = fd
      BY <2>1
    <3>2. k # i
      BY <2>4, <3>1
    <3>3. PICK j \in DOMAIN pollfds' : pollfds'[j] = pollfds[k]
      BY <1>7, <3>2
    <3> QED
      BY <3>1, <3>3
  <2>5. PolledFds' = {pollfds'[j].fd : j \in DOMAIN pollfds'}
    BY DEF PolledFds
  <2> QED
    BY <2>3, <2>4, <2>5
<1>9. pollfds'[1] = pollfds[1] /\ 1 \in DOMAIN pollfds' /\ pollfds # <<>>
  <2>1. 1 \in 1..(Len(pollfds) - 1) /\ 1 < i
    BY <1>1
  <2> QED
    BY <1>2, <1>3, <2>1, <1>1
<1>10. pollfds[1].fd = ListenFd /\ pollfds[i].fd # ListenFd
  <2>1. 1 \in 1..Len(pollfds) /\ 1 # i
    BY <1>1
  <2> QED
    BY <1>1, <1>4, <2>1 DEF InStep, PollfdsMatchRegistry
<1>11. PollfdsMatchRegistry'
  BY <1>5, <1>8, <1>9, <1>10 DEF PollfdsMatchRegistry, Registered
<1>12. ListenerStays'
  BY <1>10 DEF InStep, ListenerStays, Registered
<1>13. pollfds' # <<>>
  BY <1>1, <1>2
<1> QED
  BY <1>2, <1>11, <1>12, <1>13 DEF S

\* push_back of a new descriptor registers exactly it.
LEMMA PushAddsOne ==
  ASSUME InStep, NEW fd \in Fd, pollfds' = Pushed(fd),
         DOMAIN clientSockets' = Registered \cup {fd}
  PROVE  /\ PollfdsMatchRegistry' /\ ListenerStays'
         /\ pollfds' \in Seq([fd : Fd \cup {ListenFd}, ready : BOOLEAN]) /\ pollfds' # <<>>
<1> DEFINE S == [fd : Fd \cup {ListenFd}, ready : BOOLEAN]
           e == [fd |-> fd, ready |-> FALSE]
<1>1. /\ pollfds \in Seq(S) /\ Len(pollfds) \in Nat /\ 1 \in 1..Len(pollfds)
      /\ DOMAIN pollfds = 1..Len(pollfds) /\ PolledFds = Registered
      /\ pollfds[1].fd = ListenFd /\ pollfds # <<>>
  BY DEF InStep, PollfdsTyped, PollfdsMatchRegistry
<1>2. ListenerStays'
  BY DEF InStep, ListenerStays, Registered
<1>3. CASE fd \in PolledFds
  <2>1. pollfds' = pollfds /\ DOMAIN clientSockets' = Registered
    BY <1>1, <1>3 DEF Pushed
  <2>2. PolledFds' = PolledFds
    BY <2>1 DEF PolledFds
  <2>3. PollfdsMatchRegistry'
    BY <2>1, <2>2 DEF InStep, PollfdsMatchRegistry, Registered
  <2> QED
    BY <1>1, <1>2, <2>1, <2>3
<1>4. CASE fd \notin PolledFds
  <2>1. pollfds' = Append(pollfds, e) /\ e \in S /\ e.fd = fd
    BY <1>4 DEF Pushed
  <2> HIDE DEF S, e
  <2>2. /\ pollfds' \in Seq(S) /\ DOMAIN pollfds' = 1..(Len(pollfds) + 1)
        /\ \A j \in 1..Len(pollfds) : pollfds'[j] = pollfds[j]
        /\ pollfds'[Len(pollfds) + 1].fd = fd /\ pollfds' # <<>>
    BY <1>1, <2>1
  <2>3. \A j \in DOMAIN pollfds' : j \in 1..Len(pollfds) \/ j = Len(pollfds) + 1
    BY <1>1, <2>2
  <2>4. \A j \in 1..Len(pollfds) : pollfds[j].fd # fd
    BY <1>1, <1>4 DEF PolledFds
  <2>5. \A j, k \in DOMAIN pollfds' : pollfds'[j].fd = pollfds'[k].fd => j = k
    BY <1>1, <2>2, <2>3, <2>4 DEF InStep, PollfdsMatchRegistry
  <2>6. PolledFds' = Registered \cup {fd}
    <3>1. Len(pollfds) + 1 \in DOMAIN pollfds' /\ \A j \in 1..Len(pollfds) : j \in DOMAIN pollfds'
      BY <1>1, <2>2
    <3> QED
      BY <1>1, <2>2, <2>3, <3>1 DEF PolledFds
  <2>7. PollfdsMatchRegistry'
    BY <1>1, <2>2, <2>5, <2>6 DEF PollfdsMatchRegistry, Registered
  <2> QED
    BY <1>2, <2>2, <2>7 DEF S
<1> QED
  BY <1>3, <1>4

\* poll writes only revents: the descriptors stay where they are.
LEMMA PollKeeps ==
  ASSUME InStep, Poll
  PROVE  InStep'
<1> DEFINE S == [fd : Fd \cup {ListenFd}, ready : BOOLEAN]
<1>1. PICK extra :
        pollfds' = [i \in DOMAIN pollfds |->
                      [pollfds[i] EXCEPT !.ready = pollfds[i].fd \in ReadyFds \cup extra]]
  BY DEF Poll
<1> DEFINE revents(i) == pollfds[i].fd \in ReadyFds \cup extra
<1>2. /\ pollfds \in Seq(S) /\ Len(pollfds) \in Nat /\ pollfds # <<>> /\ 1 \in 1..Len(pollfds)
      /\ DOMAIN pollfds = 1..Len(pollfds) /\ \A i \in 1..Len(pollfds) : pollfds[i] \in S
  <2>1. pollfds \in Seq(S) /\ pollfds # <<>>
    BY DEF InStep, PollfdsTyped
  <2> HIDE DEF S
  <2> QED
    BY <2>1
<1>3. /\ DOMAIN pollfds' = 1..Len(pollfds)
      /\ \A i \in 1..Len(pollfds) : pollfds'[i] \in S /\ pollfds'[i].fd = pollfds[i].fd
  <2>1. pollfds' = [i \in 1..Len(pollfds) |-> [pollfds[i] EXCEPT !.ready = revents(i)]]
    BY <1>1, <1>2
  <2>2. \A i \in 1..Len(pollfds) : revents(i) \in BOOLEAN
    OBVIOUS
  <2> HIDE DEF revents
  <2>3. \A r \in S, b \in BOOLEAN :
          [r EXCEPT !.ready = b] \in S /\ [r EXCEPT !.ready = b].fd = r.fd
    OBVIOUS
  <2> HIDE DEF S
  <2> QED
    BY <1>2, <2>1, <2>2, <2>3
<1>4. pollfds' \in Seq(S) /\ Len(pollfds') = Len(pollfds) /\ pollfds' # <<>>
  <2>1. pollfds' = [i \in 1..Len(pollfds) |-> pollfds'[i]]
    BY <1>1, <1>2, <1>3
  <2>2. pollfds' \in [1..Len(pollfds) -> S]
    BY <1>3, <2>1
  <2>3. pollfds' \in Seq(S)
    BY <1>2, <2>2
  <2> QED
    BY <1>2, <1>3, <2>3
<1>5. UNCHANGED clientSockets /\ it' = 2 /\ pc = "poll" /\ pc' = "handle"
  BY DEF Poll
<1>7. PolledFds' = PolledFds
  BY <1>2, <1>3 DEF PolledFds
<1>8. PollfdsMatchRegistry'
  BY <1>2, <1>3, <1>5, <1>7 DEF InStep, PollfdsMatchRegistry, Registered
<1>9. ListenerStays' /\ PollfdsTyped' /\ IteratorInRange'
  BY <1>2, <1>4, <1>5 DEF InStep, ListenerStays, Registered, PollfdsTyped, IteratorInRange
<1> QED
  BY <1>5, <1>8, <1>9 DEF InStep

-----------------------------------------------------------------------------
\* The walk finds the element of the ready client at a place behind the listener.
LEMMA PositionFound ==
  ASSUME InStep, NEW fd \in Fd, AtClient(fd)
  PROVE  /\ Position(fd) \in 2..Len(pollfds) /\ pollfds[Position(fd)].fd = fd
         /\ Position(fd) \in it..Len(pollfds) /\ Len(pollfds) \in Nat
<1>1. it \in Nat /\ 2 <= it /\ Len(pollfds) \in Nat
  BY DEF AtClient, InStep, PollfdsTyped, IteratorInRange
<1>2. \E i \in it..Len(pollfds) : pollfds[i].fd = fd
  BY DEF AtClient
<1>3. Position(fd) \in it..Len(pollfds) /\ pollfds[Position(fd)].fd = fd
  BY <1>2 DEF Position
<1> QED
  BY <1>1, <1>3

\* ++it, with nothing registered or closed.
LEMMA AdvanceKeeps ==
  ASSUME InStep, NEW fd \in Fd, AtClient(fd), Advance(fd), DOMAIN clientSockets' = Registered
  PROVE  InStep'
<1>1. /\ Position(fd) \in 2..Len(pollfds) /\ Len(pollfds) \in Nat
      /\ it' = Position(fd) + 1 /\ pollfds' = pollfds /\ pc = "handle" /\ pc' = pc
  BY PositionFound DEF Advance, AtClient
<1>2. PollfdsTyped' /\ IteratorInRange'
  BY <1>1 DEF InStep, PollfdsTyped, IteratorInRange
<1>3. ListenerStays' /\ PollfdsMatchRegistry'
  BY <1>1 DEF InStep, ListenerStays, PollfdsMatchRegistry, PolledFds, Registered
<1> QED
  BY <1>1, <1>2, <1>3 DEF InStep

\* closesocket and both erases: the iterator is where the successor now is.
LEMMA CloseAtKeeps ==
  ASSUME InStep, NEW fd \in Fd, AtClient(fd), CloseAt(fd)
  PROVE  InStep'
<1> DEFINE at == Position(fd)
<1>1. /\ at \in 2..Len(pollfds) /\ pollfds[at].fd = fd /\ Len(pollfds) \in Nat
      /\ it' = at /\ pollfds' = RemoveAt(pollfds, at) /\ pc = "handle" /\ pc' = pc
      /\ DOMAIN clientSockets' = Registered \ {fd}
      /\ pollfds \in Seq([fd : Fd \cup {ListenFd}, ready : BOOLEAN])
  BY PositionFound DEF CloseAt, AtClient, RemoveClient, InStep, PollfdsTyped
<1> HIDE DEF at
<1>2. /\ PollfdsMatchRegistry' /\ ListenerStays'
      /\ pollfds' \in Seq([fd : Fd \cup {ListenFd}, ready : BOOLEAN]) /\ pollfds' # <<>>
  BY <1>1, EraseForgetsOne
<1>3. Len(pollfds') = Len(pollfds) - 1
  BY <1>1, RemoveAtProps
<1>4. PollfdsTyped' /\ IteratorInRange'
  BY <1>1, <1>2, <1>3 DEF PollfdsTyped, IteratorInRange
<1> QED
  BY <1>1, <1>2, <1>4 DEF InStep

\* The end of a round: at most one client is added, in both containers.
LEMMA EndRoundKeeps ==
  ASSUME InStep, EndRound
  PROVE  InStep'
<1>1. pc' = "poll" /\ it' = 1
  BY DEF EndRound
<1>2. CASE AddClient /\ pollfds' = Pushed(NextFd)
  <2>1. NextFd \in Fd /\ DOMAIN clientSockets' = Registered \cup {NextFd}
    BY <1>2, NextFdIsFree DEF AddClient, Emplaced, Registered
  <2>2. /\ PollfdsMatchRegistry' /\ ListenerStays'
        /\ pollfds' \in Seq([fd : Fd \cup {ListenFd}, ready : BOOLEAN]) /\ pollfds' # <<>>
    BY <1>2, <2>1, PushAddsOne
  <2> QED
    BY <1>1, <2>2 DEF InStep, PollfdsTyped, IteratorInRange
<1>3. CASE UNCHANGED <<clientSockets, pollfds>>
  BY <1>1, <1>3 DEF InStep, PollfdsTyped, IteratorInRange, ListenerStays, PollfdsMatchRegistry,
                    PolledFds, Registered
<1> QED
  BY <1>2, <1>3 DEF EndRound, AcceptError, AcceptDropped

-----------------------------------------------------------------------------
\* The server starts with the listener in both containers.
LEMMA PollInit == Init => LoopInv
<1> SUFFICES ASSUME Init PROVE LoopInv
  OBVIOUS
<1>1. LoopSound /\ NoneRefused
  <2>1. {ListenFd} \in SUBSET {ListenFd}
    OBVIOUS
  <2> QED
    BY <2>1, LoopBegins DEF Init
<1>2. /\ pollfds = <<[fd |-> ListenFd, ready |-> FALSE]>> /\ it = 1 /\ pc = "poll"
      /\ Registered = {ListenFd}
  BY DEF Init, Registered
<1>3. PollfdsMatchRegistry
  BY <1>2 DEF PollfdsMatchRegistry, PolledFds
<1>4. PollfdsTyped /\ ListenerStays /\ IteratorInRange
  BY <1>2 DEF PollfdsTyped, ListenerStays, IteratorInRange
<1> QED
  BY <1>1, <1>2, <1>3, <1>4 DEF LoopInv, LoopHolds, Served, InStep

\* Where recv is called, the descriptor is a client's.
LEMMA AtClientIsClient ==
  ASSUME InStep, NEW fd \in Fd, AtClient(fd)
  PROVE  /\ fd \in Clients /\ UNCHANGED <<pc, faults, peer, sent, backlog>> /\ pc = "handle"
         /\ BufferLen \in Nat \ {0}
<1>1. PICK i \in it..Len(pollfds) : pollfds[i].fd = fd
  BY DEF AtClient
<1>2. i \in DOMAIN pollfds
  BY DEF AtClient, InStep, PollfdsTyped, IteratorInRange
<1>3. fd \in Registered
  BY <1>1, <1>2 DEF InStep, PollfdsMatchRegistry, PolledFds
<1> QED
  BY <1>3, SocketsAssumption, EventLoopAssumption DEF AtClient, Clients

\* A client whose bytes are refused is closed, and none for anything else.
LEMMA PollSteps == InStep /\ [Next]_vars => LoopStep(FALSE, FALSE)
<1> SUFFICES ASSUME InStep, [Next]_vars PROVE LoopStep(FALSE, FALSE)
  OBVIOUS
<1>1. CASE Peers
  BY <1>1 DEF Peers, Hears, LoopMove, LoopStep
<1>2. CASE Poll
  <2>1. Waits
    BY <1>2 DEF Poll, Waits, Misreported
  <2> QED
    BY <1>2, <2>1 DEF Poll, LoopMove, LoopStep
<1>3. CASE PollFails
  <2>1. Waits
    BY <1>3 DEF PollFails, Waits
  <2> QED
    BY <1>3, <2>1 DEF PollFails, LoopMove, LoopStep
<1>4. ASSUME NEW fd \in Fd, Again(fd)
      PROVE  LoopStep(FALSE, FALSE)
  <2>1. Waits /\ pc = "handle" /\ pc' = pc
    BY <1>4 DEF Again, AtClient, Waits, socketVars
  <2> QED
    BY <2>1 DEF LoopMove, LoopStep
<1>5. ASSUME NEW fd \in Fd, Disconnect(fd)
      PROVE  LoopStep(FALSE, FALSE)
  <2>1. fd \in Clients /\ Disconnects(fd) /\ pc = "handle" /\ pc' = pc
    BY <1>5, AtClientIsClient DEF Disconnect, CloseAt, Disconnects
  <2> QED
    BY <2>1 DEF LoopMove, LoopStep
<1>6. ASSUME NEW fd \in Fd, Receive(fd)
      PROVE  LoopStep(FALSE, FALSE)
  <2>1. /\ fd \in Clients /\ BufferLen \in Nat \ {0} /\ pc = "handle" /\ pc' = pc
        /\ Receives(fd, BufferLen, FALSE)
    BY <1>6, AtClientIsClient DEF Receive, CloseAt, Receives
  <2> QED
    BY <2>1 DEF LoopMove, LoopStep
<1>7. CASE EndRound
  <2>1. Accepts \/ Waits
    BY <1>7 DEF EndRound, Accepts, Waits, socketVars
  <2> QED
    BY <1>7, <2>1 DEF EndRound, LoopMove, LoopStep
<1>8. CASE CleanUp
  BY <1>8 DEF CleanUp, LoopStep
<1>9. CASE UNCHANGED vars
  BY <1>9 DEF vars, LoopStep
<1> QED
  BY <1>1, <1>2, <1>3, <1>4, <1>5, <1>6, <1>7, <1>8, <1>9 DEF Next, ServerStep

\* Every step of the loop and of the peers keeps the containers in step.
LEMMA InStepStays == InStep /\ [Next]_vars => InStep'
<1> SUFFICES ASSUME InStep, [Next]_vars PROVE InStep'
  OBVIOUS
<1>1. CASE Peers \/ UNCHANGED vars
  <2>1. UNCHANGED <<pc, pollfds, it, clientSockets>>
    BY <1>1 DEF Peers, vars, loopVars
  <2> QED
    BY <2>1 DEF InStep, PollfdsTyped, ListenerStays, PollfdsMatchRegistry, PolledFds,
                IteratorInRange, Registered
<1>7. CASE PollFails \/ CleanUp
  <2>1. CASE PollFails
    <3>1. pc = "poll" /\ pc' = "cleanup" /\ UNCHANGED <<pollfds, it, clientSockets>>
      BY <2>1 DEF PollFails
    <3> QED
      BY <3>1 DEF InStep, PollfdsTyped, ListenerStays, PollfdsMatchRegistry, PolledFds,
                  IteratorInRange, Registered
  <2>2. CASE CleanUp
    <3>1. pc = "cleanup" /\ pc' = "stopped" /\ UNCHANGED <<pollfds, it, clientSockets>>
      BY <2>2 DEF CleanUp, CloseAll
    <3> QED
      BY <3>1 DEF InStep, PollfdsTyped, ListenerStays, PollfdsMatchRegistry, PolledFds,
                  IteratorInRange, Registered
  <2> QED
    BY <1>7, <2>1, <2>2
<1>2. CASE Poll
  BY <1>2, PollKeeps
<1>3. ASSUME NEW fd \in Fd, Again(fd)
      PROVE  InStep'
  BY <1>3, AdvanceKeeps DEF Again, Registered
<1>4. ASSUME NEW fd \in Fd, Disconnect(fd)
      PROVE  InStep'
  BY <1>4, CloseAtKeeps DEF Disconnect
<1>5. ASSUME NEW fd \in Fd, Receive(fd)
      PROVE  InStep'
  <2>1. CASE KeepClient(fd, BufferLen) /\ Advance(fd)
    BY <1>5, <2>1, KeepClientStays, AdvanceKeeps DEF Receive
  <2>2. CASE CloseAt(fd)
    BY <1>5, <2>2, CloseAtKeeps DEF Receive
  <2> QED
    BY <1>5, <2>1, <2>2 DEF Receive
<1>6. CASE EndRound
  BY <1>6, EndRoundKeeps
<1> QED
  BY <1>1, <1>2, <1>3, <1>4, <1>5, <1>6, <1>7 DEF Next, ServerStep

LEMMA PollStep == LoopInv /\ [Next]_vars => LoopInv'
BY PollSteps, StepKeeps, StepKeepsServed, InStepStays DEF LoopInv

LEMMA PollInvariant == Spec => []LoopInv
BY PollInit, PollStep, PTL DEF Spec

-----------------------------------------------------------------------------
\* Every variable keeps its type, the registered descriptors are the open ones, and
\* pollfds holds each of them once, the listener first.
THEOREM PollConsistent == Spec => []Consistent
<1>1. LoopInv => Consistent
  BY HoldsSuffices DEF LoopInv, InStep, PollfdsTyped, TypeOK, Consistent
<1> QED
  BY <1>1, PollInvariant, PTL

\* At every point of the poll server's loop the registered descriptors are the
\* open ones and pollfds holds each of them once, the listener first.
THEOREM PollRegistryIsOpen == Spec => [](RegistryIsOpen /\ PollfdsMatchRegistry)
<1>1. Consistent => RegistryIsOpen /\ PollfdsMatchRegistry
  BY DEF Consistent
<1> QED
  BY <1>1, PollConsistent, PTL

\* Erasing under the iterator never takes it past the end of pollfds.
THEOREM PollIteratorInRange == Spec => []IteratorInRange
<1>1. LoopInv => IteratorInRange
  BY DEF LoopInv, InStep
<1> QED
  BY <1>1, PollInvariant, PTL

\* A client that has sent what no decoder accepts is closed in the same step, and the
\* session of every other is what a fresh one makes of its own connection's bytes.
THEOREM PollRefusedIsClosed == Spec => [](RefusedIsClosed /\ SessionIsOwn)
<1>1. LoopInv => RefusedIsClosed /\ SessionIsOwn
  BY HoldsSuffices, ServedSuffices DEF LoopInv
<1> QED
  BY <1>1, PollInvariant, PTL

\* Of every connection exactly the permitted events that its received bytes complete
\* are logged, once and in order, though elements are erased under the walk.
THEOREM PollLogsOwed == Spec => []LogsOwed
<1>1. LoopInv => LogsOwed
  BY HoldsSuffices DEF LoopInv
<1> QED
  BY <1>1, PollInvariant, PTL

\* The element that is erased under the iterator is that of a client whose peer is
\* heard out or not acceptable: no other client is closed in its place.
THEOREM PollClosesOnlyWhenDone == Spec => ClosesOnlyWhenDone
<1>1. LoopInv /\ [Next]_vars => [ClosedForReason]_loopVars
  BY PollSteps, StepCloses DEF LoopInv
<1> QED
  BY <1>1, PollInvariant, PTL DEF Spec, ClosesOnlyWhenDone

\* The poll server keeps the promise of every log server: a step logs exactly the events
\* that the bytes it takes complete, of a connection that is open, or logs nothing and
\* moves a connection as Lifecycle allows.
THEOREM PollImplementsLogServer == Spec => ImplementsLogServer
<1>1. Init => Promise!Init
  BY PromiseBegins DEF Init
<1>2. LoopInv /\ [Next]_vars => [Promise!Next]_(Promise!vars)
  BY PollSteps, StepKeepsPromise DEF LoopInv
<1> QED
  BY <1>1, <1>2, PollInvariant, PTL DEF Spec, ImplementsLogServer, Promise!Spec

\* The poll server moves connections only as Lifecycle allows, though it erases from
\* the vector it walks over.
THEOREM PollImplementsLifecycle == Spec => ImplementsLifecycle
<1>1. Promise!Init => Life!LifeInit
  BY PromiseIsLife
<1>2. [Promise!Next]_(Promise!vars) => [Life!LifeNext]_(Life!lifeVars)
  BY PromiseIsLife
<1> QED
  BY <1>1, <1>2, PollImplementsLogServer, PTL
     DEF ImplementsLogServer, Promise!Spec, ImplementsLifecycle, Life!LifeSpec
=============================================================================
