------------------------- MODULE ThreadServerProofs -------------------------
(***************************************************************************)
(* Every thread of the thread-per-client server works on a descriptor of     *)
(* its own, and the threads together implement LogServer, for every number   *)
(* of connections and descriptors.                                           *)
(***************************************************************************)
EXTENDS ThreadServer, SocketsProofs

\* DescriptorIsOwn is not inductive: accept gives the descriptor of a thread
\* that has closed it to a connection of the queue, which must not have a thread
\* yet (Places), and closesocket frees one descriptor only (PlacesApart).
LocalsTyped ==
  /\ thread \in [Conn -> Thread]
  /\ pc \in {"accept", "exiting", "exited"}
  /\ asserts \in BOOLEAN

Owned ==
  /\ \A c \in Conn : Live(c) => thread[c].fd \in Fd /\ owner[thread[c].fd] = c
  /\ \A fd \in Fd : owner[fd] # NoConn => Live(owner[fd]) /\ thread[owner[fd]].fd = fd

DescriptorInv ==
  /\ Places
  /\ CountsInRange
  /\ LocalsTyped
  /\ logged \in Seq(Token)
  /\ pc # "exited" => Owned

\* The invariant is enough for the property the run checks.
LEMMA DescriptorInvSuffices == DescriptorInv => Consistent
<1> SUFFICES ASSUME DescriptorInv PROVE Consistent
  OBVIOUS
<1>1. TypeOK
  BY DEF DescriptorInv, Places, PlacesTyped, CountsInRange, LocalsTyped, TypeOK, SocketsTypeOK
<1>2. DescriptorIsOwn
  BY DEF DescriptorInv, Owned, DescriptorIsOwn, Peer
<1> QED
  BY <1>1, <1>2 DEF Consistent

-----------------------------------------------------------------------------
\* No thread runs at first.
LEMMA ThreadInit == Init => DescriptorInv
<1> SUFFICES ASSUME Init PROVE DescriptorInv
  OBVIOUS
<1>1. Places
  BY InitKeepsPlaces DEF Init
<1>2. CountsInRange
  BY StreamIsSeq DEF Init, SocketsInit, CountsInRange
<1>3. NoThread \in Thread /\ NoThread.at = "none"
  BY DEF NoThread, Thread
<1>4. LocalsTyped /\ logged \in Seq(Token)
  BY <1>3 DEF Init, LocalsTyped
<1>5. Owned
  BY <1>3 DEF Init, SocketsInit, Owned, Live
<1> QED
  BY <1>1, <1>2, <1>4, <1>5 DEF DescriptorInv

\* The process ends: there is no open descriptor and no queue any more.
LEMMA EndKeeps ==
  ASSUME DescriptorInv, EndOfProcess
  PROVE  DescriptorInv'
<1>1. /\ pc' = "exited" /\ backlog' = <<>> /\ owner' = [fd \in Fd |-> NoConn]
      /\ UNCHANGED <<peer, sent, taken, thread, asserts, logged>>
  BY DEF EndOfProcess
<1>2. 1..Len(backlog') = {} /\ backlog' \in Seq(Conn)
  BY <1>1
<1>3. PlacesTyped'
  BY <1>1, <1>2 DEF DescriptorInv, Places, PlacesTyped
<1>4. PlacesApart'
  <2>1. \A c \in Conn : c # NoConn
    BY SocketsAssumption
  <2> QED
    BY <1>1, <1>2, <2>1 DEF PlacesApart
<1>5. CountsInRange' /\ LocalsTyped' /\ logged' \in Seq(Token)
  BY <1>1 DEF DescriptorInv, CountsInRange, LocalsTyped
<1> QED
  BY <1>1, <1>3, <1>4, <1>5 DEF DescriptorInv, Places

\* The listener is closed: the queue is gone, the clients stay.
LEMMA AcceptFailsKeeps ==
  ASSUME DescriptorInv, AcceptFails
  PROVE  DescriptorInv'
<1>1. /\ pc = "accept" /\ pc' = "exiting" /\ backlog' = <<>>
      /\ UNCHANGED <<peer, sent, taken, owner, thread, asserts, logged>>
  BY DEF AcceptFails, DescriptorInv, LocalsTyped
<1>2. 1..Len(backlog') = {} /\ backlog' \in Seq(Conn)
  BY <1>1
<1>3. PlacesTyped' /\ PlacesApart'
  BY <1>1, <1>2 DEF DescriptorInv, Places, PlacesTyped, PlacesApart
<1>4. CountsInRange' /\ LocalsTyped' /\ logged' \in Seq(Token)
  BY <1>1 DEF DescriptorInv, CountsInRange, LocalsTyped
<1>5. Owned'
  BY <1>1 DEF DescriptorInv, Owned, Live
<1> QED
  BY <1>3, <1>4, <1>5 DEF DescriptorInv, Places

\* accept and the constructor of std::thread: the connection had no descriptor,
\* so its thread is not running yet.
LEMMA AcceptKeeps ==
  ASSUME DescriptorInv, Accept
  PROVE  DescriptorInv'
<1> DEFINE new == NextFd
           c   == Head(backlog)
           t   == [NoThread EXCEPT !.at = "start", !.fd = new]
<1>1. /\ pc = "accept" /\ Owned
      /\ thread' = [thread EXCEPT ![c] = t]
      /\ thread \in [Conn -> Thread]
      /\ UNCHANGED <<peer, sent, taken, pc, asserts, logged>>
  BY DEF Accept, DescriptorInv, LocalsTyped
<1>2. /\ Places'
      /\ new \in Fd /\ owner[new] = NoConn
      /\ c \in Conn /\ c # NoConn
      /\ \A fd \in Fd : owner[fd] # c
      /\ \A k \in Fd : owner'[k] = IF k = new THEN c ELSE owner[k]
  BY AcceptKeepsPlaces DEF Accept, DescriptorInv
<1> HIDE DEF new, c
<1>3. t \in Thread /\ t.at = "start" /\ t.fd = new
  <2>1. NoThread \in Thread
    BY DEF NoThread, Thread
  <2> QED
    BY <1>2, <2>1 DEF Thread
<1> HIDE DEF t
<1>4. \A d \in Conn : thread'[d] = IF d = c THEN t ELSE thread[d]
  BY <1>1
<1>5. LocalsTyped' /\ CountsInRange' /\ logged' \in Seq(Token)
  BY <1>1, <1>3, <1>4 DEF DescriptorInv, LocalsTyped, CountsInRange
<1>6. Owned'
  <2>1. ASSUME NEW d \in Conn, Live(d)'
        PROVE  thread'[d].fd \in Fd /\ owner'[thread'[d].fd] = d
    <3>1. CASE d = c
      BY <3>1, <1>2, <1>3, <1>4
    <3>2. CASE d # c
      <4>1. thread'[d] = thread[d] /\ thread[d].fd \in Fd /\ owner[thread[d].fd] = d
        BY <3>2, <2>1, <1>1, <1>4 DEF Owned, Live
      <4>2. d # NoConn
        BY SocketsAssumption
      <4> QED
        BY <4>1, <4>2, <1>2
    <3> QED
      BY <3>1, <3>2
  <2>2. ASSUME NEW fd \in Fd, owner'[fd] # NoConn
        PROVE  (Live(owner[fd]) /\ thread[owner[fd]].fd = fd)'
    <3>1. CASE fd = new
      BY <3>1, <1>2, <1>3, <1>4 DEF Live
    <3>2. CASE fd # new
      <4>1. /\ owner'[fd] = owner[fd] /\ owner[fd] # c /\ owner[fd] \in Conn
            /\ Live(owner[fd]) /\ thread[owner[fd]].fd = fd
        BY <3>2, <2>2, <1>1, <1>2 DEF Owned, DescriptorInv, Places, PlacesTyped
      <4> QED
        BY <4>1, <1>4 DEF Live
    <3> QED
      BY <3>1, <3>2
  <2> QED
    BY <2>1, <2>2 DEF Owned
<1> QED
  BY <1>2, <1>5, <1>6 DEF DescriptorInv

\* The peers touch neither threads nor descriptors.
LEMMA PeersKeep ==
  ASSUME DescriptorInv, Peers
  PROVE  DescriptorInv'
<1>1. PICK c \in Conn : PeerStep(c)
  BY DEF Peers
<1>2. UNCHANGED <<thread, pc, asserts, logged>> /\ owner' = owner
  BY <1>1 DEF Peers, PeerStep, Connect, Write, Shutdown, Reset
<1>3. Places'
  BY <1>1, PeerKeepsPlaces DEF DescriptorInv
<1>4. CountsInRange'
  BY <1>1, PeerKeepsCounts DEF DescriptorInv
<1>5. LocalsTyped' /\ logged' \in Seq(Token) /\ (pc' # "exited" => Owned')
  BY <1>2 DEF DescriptorInv, LocalsTyped, Owned, Live
<1> QED
  BY <1>3, <1>4, <1>5 DEF DescriptorInv

-----------------------------------------------------------------------------
\* A thread that moves changes no locals but its own and keeps its descriptor.
LEMMA GoesTyped ==
  ASSUME LocalsTyped, NEW c \in Conn, NEW n \in Nat, NEW buf \in Seq(Token),
         NEW place \in {"start", "recv", "log", "cleanup", "ended"},
         Goes(c, place, buf, n)
  PROVE  /\ LocalsTyped'
         /\ UNCHANGED <<pc, peer, sent, backlog>>
         /\ thread'[c].at = place /\ thread'[c].fd = thread[c].fd
         /\ thread'[c].byteBuf = buf /\ thread'[c].recvBytes = n
         /\ \A d \in Conn : d # c => thread'[d] = thread[d]
<1> DEFINE t == [thread[c] EXCEPT !.at = place, !.byteBuf = buf, !.recvBytes = n]
<1>1. /\ thread' = [thread EXCEPT ![c] = t] /\ thread \in [Conn -> Thread]
      /\ UNCHANGED <<pc, asserts, peer, sent, backlog>>
  BY DEF Goes, LocalsTyped
<1>2. t \in Thread /\ t.at = place /\ t.fd = thread[c].fd /\ t.byteBuf = buf /\ t.recvBytes = n
  BY <1>1 DEF Thread
<1> HIDE DEF t
<1> QED
  BY <1>1, <1>2 DEF LocalsTyped

\* While it does not close the descriptor, every thread keeps its own.
LEMMA GoesKeeps ==
  ASSUME DescriptorInv, pc # "exited", NEW c \in Conn, Live(c),
         NEW n \in Nat, NEW buf \in Seq(Token),
         NEW place \in {"start", "recv", "log", "cleanup"},
         Goes(c, place, buf, n), UNCHANGED owner,
         CountsInRange', logged' \in Seq(Token)
  PROVE  DescriptorInv'
<1>1. /\ LocalsTyped' /\ UNCHANGED <<pc, peer, backlog>>
      /\ thread'[c].at = place /\ thread'[c].fd = thread[c].fd
      /\ \A d \in Conn : d # c => thread'[d] = thread[d]
  BY GoesTyped DEF DescriptorInv
<1>2. \A d \in Conn : thread'[d].fd = thread[d].fd /\ (Live(d)' <=> Live(d))
  BY <1>1 DEF Live
<1>3. Places'
  BY <1>1, StayKeepsPlaces DEF DescriptorInv
<1>4. Owned /\ owner' = owner /\ \A fd \in Fd : owner[fd] # NoConn => owner[fd] \in Conn
  BY DEF DescriptorInv, Places, PlacesTyped
<1>5. Owned'
  <2>1. ASSUME NEW d \in Conn, Live(d)'
        PROVE  thread'[d].fd \in Fd /\ owner'[thread'[d].fd] = d
    BY <2>1, <1>2, <1>4 DEF Owned
  <2>2. ASSUME NEW fd \in Fd, owner'[fd] # NoConn
        PROVE  (Live(owner[fd]) /\ thread[owner[fd]].fd = fd)'
    <3>1. owner'[fd] = owner[fd] /\ owner[fd] \in Conn
      BY <2>2, <1>4
    <3>2. Live(owner[fd]) /\ thread[owner[fd]].fd = fd
      BY <3>1, <2>2, <1>4 DEF Owned
    <3> QED
      BY <3>1, <3>2, <1>2 DEF Live
  <2> QED
    BY <2>1, <2>2 DEF Owned
<1> QED
  BY <1>1, <1>3, <1>5 DEF DescriptorInv

\* What a running thread may assume.
LEMMA ThreadFacts ==
  ASSUME DescriptorInv, pc # "exited", NEW c \in Conn, Live(c)
  PROVE  /\ thread[c].fd \in Fd /\ Peer(c) = c
         /\ thread[c].byteBuf \in Seq(Token) /\ thread[c].recvBytes \in Nat
BY DEF DescriptorInv, Owned, LocalsTyped, Thread, Peer

\* recv reads the thread's own connection.
LEMMA ReadKeeps ==
  ASSUME DescriptorInv, pc # "exited", NEW c \in Conn, Live(c),
         NEW size \in Nat \ {0}, NEW place \in {"start", "log"},
         Read(c, size, place, thread[c].byteBuf)
  PROVE  DescriptorInv'
<1> DEFINE bytes == Received(c, size)
<1>1. /\ RecvData(c) /\ Take(c, bytes) /\ UNCHANGED <<owner, logged>>
      /\ Goes(c, place, thread[c].byteBuf \o bytes, Len(bytes))
      /\ thread[c].byteBuf \in Seq(Token)
  BY ThreadFacts DEF Read
<1>2. bytes \in Seq(Token)
  BY <1>1, ReceivedProps DEF DescriptorInv
<1>3. CountsInRange'
  <2>1. UNCHANGED sent
    BY <1>1 DEF Goes
  <2> QED
    BY <1>1, <2>1, TakeKeepsCounts DEF DescriptorInv
<1> HIDE DEF bytes
<1>4. thread[c].byteBuf \o bytes \in Seq(Token) /\ Len(bytes) \in Nat
  BY <1>1, <1>2
<1>5. logged' \in Seq(Token)
  BY <1>1 DEF DescriptorInv
<1> QED
  BY <1>1, <1>3, <1>4, <1>5, GoesKeeps

\* The steps of a thread that neither read nor log nor close.
LEMMA MoveKeeps ==
  ASSUME DescriptorInv, pc # "exited", NEW c \in Conn, Live(c),
         NEW buf \in {<<>>, thread[c].byteBuf},
         NEW place \in {"recv", "cleanup"},
         Goes(c, place, buf, 0), UNCHANGED <<taken, owner, logged>>
  PROVE  DescriptorInv'
<1>1. buf \in Seq(Token)
  <2>1. <<>> \in Seq(Token) /\ thread[c].byteBuf \in Seq(Token)
    BY ThreadFacts
  <2> QED
    BY <2>1
<1>2. CountsInRange' /\ logged' \in Seq(Token)
  BY DEF Goes, DescriptorInv, CountsInRange
<1> QED
  BY <1>1, <1>2, GoesKeeps

\* An event is erased from the thread's own buffer, and logged whole.
LEMMA LogEventKeeps ==
  ASSUME DescriptorInv, NEW c \in Conn, LogEvent(c)
  PROVE  DescriptorInv'
<1> DEFINE buf == thread[c].byteBuf
<1>1. /\ pc # "exited" /\ Live(c) /\ UNCHANGED <<taken, owner>>
      /\ buf \in Seq(Token) /\ thread[c].recvBytes \in Nat
  BY ThreadFacts DEF LogEvent, At, Live
<1>2. PICK n \in 1..Len(buf) :
         /\ Goes(c, "log", Erase(buf, n), thread[c].recvBytes)
         /\ logged' = IF buf[n].kind = "event" THEN Append(logged, buf[n]) ELSE logged
  BY DEF LogEvent
<1> HIDE DEF buf
<1>3. Erase(buf, n) \in Seq(Token) /\ buf[n] \in Token
  <2>1. n + 1 \in Nat /\ Len(buf) \in Nat /\ n + 1 >= 1
    BY <1>1
  <2>2. buf[n] \in Token
    BY <1>1
  <2>3. SubSeq(buf, n + 1, Len(buf)) \in Seq(Token)
    BY <1>1, <2>1
  <2> QED
    BY <2>2, <2>3 DEF Erase
<1>4. logged' \in Seq(Token)
  BY <1>2, <1>3 DEF DescriptorInv
<1>5. CountsInRange'
  BY <1>1, <1>2 DEF Goes, DescriptorInv, CountsInRange
<1> QED
  BY <1>1, <1>2, <1>3, <1>4, <1>5, GoesKeeps

\* closesocket frees the thread's own descriptor and no other, and the thread
\* is not running any more.
LEMMA CleanUpKeeps ==
  ASSUME DescriptorInv, NEW c \in Conn, CleanUp(c)
  PROVE  DescriptorInv'
<1> DEFINE fd == thread[c].fd
<1>1. /\ pc # "exited" /\ Live(c) /\ Close(fd) /\ UNCHANGED <<taken, logged>>
      /\ Goes(c, "ended", thread[c].byteBuf, 0)
  BY DEF CleanUp, At, Live
<1>2. fd \in Fd /\ owner[fd] = c /\ thread[c].byteBuf \in Seq(Token)
  BY <1>1, ThreadFacts DEF Peer
<1> HIDE DEF fd
<1>3. /\ LocalsTyped' /\ UNCHANGED <<pc, peer, sent, backlog>>
      /\ thread'[c].at = "ended"
      /\ \A d \in Conn : d # c => thread'[d] = thread[d]
  BY <1>1, <1>2, GoesTyped DEF DescriptorInv
<1>4. Places'
  BY <1>1, <1>2, <1>3, CloseKeepsPlaces DEF DescriptorInv
<1>5. \A k \in Fd : owner'[k] = IF k = fd THEN NoConn ELSE owner[k]
  BY <1>1 DEF Close, DescriptorInv, Places, PlacesTyped
<1>6. Owned'
  <2>1. ASSUME NEW d \in Conn, Live(d)'
        PROVE  thread'[d].fd \in Fd /\ owner'[thread'[d].fd] = d
    <3>1. d # c /\ thread'[d] = thread[d] /\ Live(d)
      BY <2>1, <1>3 DEF Live
    <3>2. thread[d].fd \in Fd /\ owner[thread[d].fd] = d
      BY <3>1, <1>1 DEF DescriptorInv, Owned
    <3> QED
      BY <3>1, <3>2, <1>2, <1>5
  <2>2. ASSUME NEW k \in Fd, owner'[k] # NoConn
        PROVE  (Live(owner[k]) /\ thread[owner[k]].fd = k)'
    <3>1. /\ k # fd /\ owner'[k] = owner[k] /\ owner[k] \in Conn
          /\ Live(owner[k]) /\ thread[owner[k]].fd = k
      BY <2>2, <1>1, <1>5 DEF DescriptorInv, Owned, Places, PlacesTyped
    <3>2. owner[k] # c
      BY <3>1, <1>2 DEF fd
    <3> QED
      BY <3>1, <3>2, <1>3 DEF Live
  <2> QED
    BY <2>1, <2>2 DEF Owned
<1>7. CountsInRange' /\ logged' \in Seq(Token)
  BY <1>1, <1>3 DEF DescriptorInv, CountsInRange
<1> QED
  BY <1>3, <1>4, <1>6, <1>7 DEF DescriptorInv

-----------------------------------------------------------------------------
\* Every step of the main thread, of the other threads and of the peers.
LEMMA ThreadStep == DescriptorInv /\ [Next]_vars => DescriptorInv'
<1> SUFFICES ASSUME DescriptorInv, [Next]_vars
             PROVE  DescriptorInv'
  OBVIOUS
<1>1. CASE Peers
  BY <1>1, PeersKeep
<1>2. CASE Accept
  BY <1>2, AcceptKeeps
<1>3. CASE AcceptFails
  BY <1>3, AcceptFailsKeeps
<1>4. CASE Exit \/ ThreadFails
  <2>1. EndOfProcess
    BY <1>4 DEF Exit, ThreadFails
  <2> QED
    BY <2>1, EndKeeps
<1>5. ASSUME NEW c \in Conn, Abort(c)
      PROVE  DescriptorInv'
  <2>1. EndOfProcess
    BY <1>5 DEF Abort
  <2> QED
    BY <2>1, EndKeeps
<1>6. ASSUME NEW c \in Conn, StartRead(c)
      PROVE  DescriptorInv'
  <2>1. pc # "exited" /\ Live(c) /\ Len(thread[c].byteBuf) < MarkerLen
    BY <1>6 DEF StartRead, InMarker, At, Live
  <2>2. MarkerLen - Len(thread[c].byteBuf) \in Nat \ {0}
    <3>1. thread[c].byteBuf \in Seq(Token)
      BY <2>1, ThreadFacts
    <3>2. Len(thread[c].byteBuf) \in Nat
      BY <3>1
    <3> QED
      BY <2>1, <3>2, SMTT(30) DEF MarkerLen
  <2>3. Read(c, MarkerLen - Len(thread[c].byteBuf), "start", thread[c].byteBuf)
    BY <1>6 DEF StartRead
  <2> QED
    BY <2>1, <2>2, <2>3, ReadKeeps
<1>7. ASSUME NEW c \in Conn, Recv(c)
      PROVE  DescriptorInv'
  <2>1. pc # "exited" /\ Live(c) /\ Read(c, BufferLen, "log", thread[c].byteBuf)
    BY <1>7 DEF Recv, At, Live
  <2> QED
    BY <2>1, ThreadServerAssumption, ReadKeeps
<1>8. ASSUME NEW c \in Conn, Start(c) \/ StartRefused(c) \/ RecvEnds(c) \/ LoopEnds(c) \/ LoopFails(c)
      PROVE  DescriptorInv'
  <2>1. /\ pc # "exited" /\ Live(c) /\ UNCHANGED <<taken, owner, logged>>
        /\ \E buf \in {<<>>, thread[c].byteBuf}, place \in {"recv", "cleanup"} :
              Goes(c, place, buf, 0)
    BY <1>8 DEF Start, StartRefused, RecvEnds, LoopEnds, LoopFails, InMarker, AfterMarker, At, Live
  <2> QED
    BY <2>1, MoveKeeps
<1>9. ASSUME NEW c \in Conn, LogEvent(c)
      PROVE  DescriptorInv'
  BY <1>9, LogEventKeeps
<1>10. ASSUME NEW c \in Conn, CleanUp(c)
       PROVE  DescriptorInv'
  BY <1>10, CleanUpKeeps
<1>11. CASE UNCHANGED vars
  <2>1. UNCHANGED <<peer, sent, taken, backlog, owner, thread, pc, asserts, logged>>
    BY <1>11 DEF vars, socketVars
  <2>2. Places'
    BY <2>1, StayKeepsPlaces DEF DescriptorInv
  <2> QED
    BY <2>1, <2>2 DEF DescriptorInv, CountsInRange, LocalsTyped, Owned, Live
<1> QED
  BY <1>1, <1>2, <1>3, <1>4, <1>5, <1>6, <1>7, <1>8, <1>9, <1>10, <1>11
     DEF Next, MainRuns, ThreadRuns

\* However the threads interleave, and however often descriptors are reused, a
\* running thread reads and closes the descriptor of its own connection, and
\* every open descriptor has a running thread that will close it.
THEOREM DescriptorsAreOwn == Spec => []Consistent
<1>1. Init => DescriptorInv
  BY ThreadInit
<1>2. DescriptorInv /\ [Next]_vars => DescriptorInv'
  BY ThreadStep
<1>3. DescriptorInv => Consistent
  BY DescriptorInvSuffices
<1> QED
  BY <1>1, <1>2, <1>3, PTL DEF Spec

-----------------------------------------------------------------------------
\* What a thread holds of its connection's stream.  The marker is the default
\* protocol's, ...
Known(c) == Stream(c)[1].kind = "magic" /\ Stream(c)[2].kind = "default"

Refused(c, n) == MarkerLen <= n /\ ~(Known(c) /\ CleanUpTo(Stream(c), n))

\* ... and the buffer is the rest of the stream from a place up to which all is well;
\* of it only what the last recv brought may hold more than the body of one event.
From(c) == taken[c] - Len(thread[c].byteBuf)

Decodes(c) ==
  /\ Known(c) /\ MarkerLen <= From(c) /\ CleanUpTo(Stream(c), From(c))
  /\ thread[c].byteBuf = Part(Stream(c), From(c), taken[c])
  /\ \A k \in (From(c) + 1)..(taken[c] - thread[c].recvBytes) : Stream(c)[k].kind = "body"

\* Why a thread may close its connection.
Done(c) ==
  \/ peer[c] = "rst"
  \/ peer[c] = "fin" /\ taken[c] = sent[c]
  \/ Refused(c, taken[c])

ThreadFits(c) ==
  /\ (peer[c] = "idle" \/ Queued(c)) => taken[c] = 0
  /\ thread[c].at = "start" =>
       taken[c] <= MarkerLen /\ thread[c].byteBuf = Part(Stream(c), 0, taken[c])
  /\ thread[c].at \in {"recv", "log"} => Decodes(c)
  /\ thread[c].at = "recv" => thread[c].recvBytes = 0
  /\ thread[c].at = "cleanup" => Done(c)

ServerInv == DescriptorInv /\ \A c \in Conn : ThreadFits(c)

\* What another thread, the main thread or a peer does leaves a thread's state true.
LEMMA FitsStays ==
  ASSUME NEW c \in Conn, ThreadFits(c), CountsInRange,
         thread'[c] = thread[c], taken'[c] = taken[c],
         peer'[c] = "idle" => peer[c] = "idle",
         Queued(c)' => peer[c] = "idle" \/ Queued(c),
         peer[c] = "rst" => peer'[c] = "rst",
         peer[c] = "fin" => peer'[c] \in {"fin", "rst"} /\ sent'[c] = sent[c]
  PROVE  ThreadFits(c)'
<1>1. From(c)' = From(c) /\ (Decodes(c)' <=> Decodes(c))
  BY DEF From, Decodes
<1>2. Done(c) => Done(c)'
  BY DEF Done
<1> QED
  BY <1>1, <1>2 DEF ThreadFits

\* The peers write, leave and connect.
LEMMA PeersKeepFits ==
  ASSUME ServerInv, Peers
  PROVE  \A c \in Conn : ThreadFits(c)'
<1> SUFFICES ASSUME NEW c \in Conn PROVE ThreadFits(c)'
  OBVIOUS
<1>1. PICK d \in Conn : PeerStep(d)
  BY DEF Peers
<1>2. UNCHANGED <<thread, taken, owner>>
  BY <1>1 DEF Peers, PeerStep, Connect, Write, Shutdown, Reset
<1>3. /\ ThreadFits(c) /\ CountsInRange /\ backlog \in Seq(Conn)
      /\ peer \in [Conn -> {"idle", "open", "fin", "rst"}]
  BY DEF ServerInv, DescriptorInv, Places, PlacesTyped
<1>4. /\ peer'[c] = "idle" => peer[c] = "idle"
      /\ peer[c] = "rst" => peer'[c] = "rst"
      /\ peer[c] = "fin" => peer'[c] \in {"fin", "rst"} /\ sent'[c] = sent[c]
  BY <1>1, <1>3 DEF PeerStep, Connect, Write, Shutdown, Reset, CountsInRange
<1>5. Queued(c)' => peer[c] = "idle" \/ Queued(c)
  <2>1. CASE Connect(d)
    <3>1. \A i \in 1..Len(backlog') : backlog'[i] = d \/ (i \in 1..Len(backlog) /\ backlog'[i] = backlog[i])
      BY <1>3, <2>1, AppendProperties, LenProperties DEF Connect
    <3> QED
      BY <2>1, <3>1 DEF Connect, Queued
  <2>2. CASE Write(d) \/ Shutdown(d) \/ Reset(d)
    BY <2>2 DEF Write, Shutdown, Reset, Queued
  <2> QED
    BY <1>1, <2>1, <2>2 DEF PeerStep
<1> QED
  BY <1>2, <1>3, <1>4, <1>5, FitsStays

\* The listener is closed, or the process ends with its threads where they are.
LEMMA EndKeepsFits ==
  ASSUME ServerInv, UNCHANGED <<peer, sent, taken, thread>>, backlog' = <<>>
  PROVE  \A c \in Conn : ThreadFits(c)'
<1> SUFFICES ASSUME NEW c \in Conn PROVE ThreadFits(c)'
  OBVIOUS
<1>1. ~Queued(c)'
  BY DEF Queued
<1>2. ThreadFits(c) /\ CountsInRange
  BY DEF ServerInv, DescriptorInv
<1> QED
  BY <1>1, <1>2, FitsStays

\* A new thread: nothing has been taken of a connection that was queued.
LEMMA AcceptKeepsFits ==
  ASSUME ServerInv, Accept
  PROVE  \A c \in Conn : ThreadFits(c)'
<1> SUFFICES ASSUME NEW c \in Conn PROVE ThreadFits(c)'
  OBVIOUS
<1>1. ThreadFits(c) /\ CountsInRange /\ Places /\ LocalsTyped
  BY DEF ServerInv, DescriptorInv
<1>2. PICK head \in Conn : head = Head(backlog)
  BY <1>1, AcceptKeepsPlaces DEF Accept
<1>3. /\ Queued(head) /\ \A d \in Conn \ {head} : Queued(d)' <=> Queued(d)
      /\ ~Queued(head)' /\ peer[head] # "idle"
  BY <1>1, <1>2, HeadLeaves DEF Accept, AcceptAs
<1>4. UNCHANGED <<peer, sent, taken>>
  BY DEF Accept
<1>5. CASE c = head
  <2>1. NextFd \in Fd
    BY <1>1, AcceptKeepsPlaces DEF Accept
  <2>2. thread'[c].at = "start" /\ thread'[c].byteBuf = <<>>
    BY <1>1, <1>2, <1>5 DEF Accept, LocalsTyped, NoThread
  <2>3. taken'[c] = 0
    BY <1>1, <1>3, <1>4, <1>5 DEF ThreadFits
  <2>4. Part(Stream(c), 0, 0) = <<>>
    <3>1. Part(Stream(c), 0, 0) \in Seq(Token) /\ Len(Part(Stream(c), 0, 0)) = 0
      <4>1. Stream(c) \in Seq(Token) /\ 0 \in 0..Len(Stream(c))
        BY StreamIsSeq
      <4> QED
        BY <4>1, FrontIs
    <3> QED
      BY <3>1, EmptySeq
  <2> QED
    BY <2>2, <2>3, <2>4 DEF ThreadFits, MarkerLen
<1>6. CASE c # head
  <2>1. thread'[c] = thread[c]
    BY <1>1, <1>2, <1>6 DEF Accept, LocalsTyped
  <2> QED
    BY <1>1, <1>3, <1>4, <1>6, <2>1, FitsStays
<1> QED
  BY <1>5, <1>6

-----------------------------------------------------------------------------
\* What a thread that runs knows of its connection.
LEMMA RunningFacts ==
  ASSUME ServerInv, pc # "exited", NEW c \in Conn, Live(c)
  PROVE  /\ ThreadFits(c) /\ CountsInRange /\ Peer(c) = c
         /\ peer[c] # "idle" /\ ~Queued(c)
         /\ Stream(c) \in Seq(Token) /\ taken[c] \in 0..Len(Stream(c)) /\ taken[c] <= sent[c]
         /\ taken[c] \in Nat /\ sent[c] \in Nat /\ sent[c] <= Len(Stream(c))
         /\ thread[c].byteBuf \in Seq(Token) /\ thread[c].recvBytes \in Nat
<1>1. thread[c].fd \in Fd /\ owner[thread[c].fd] = c /\ Peer(c) = c
  BY ThreadFacts DEF ServerInv, Peer
<1>2. peer[c] # "idle" /\ ~Queued(c)
  BY <1>1 DEF ServerInv, DescriptorInv, Places, PlacesApart, Queued
<1>3. ThreadFits(c) /\ CountsInRange
  BY DEF ServerInv, DescriptorInv
<1>4. thread[c].byteBuf \in Seq(Token) /\ thread[c].recvBytes \in Nat
  BY ThreadFacts DEF ServerInv
<1>5. /\ taken[c] \in Nat /\ sent[c] \in Nat
      /\ taken[c] <= sent[c] /\ sent[c] <= Len(Writes[c])
  BY <1>3 DEF CountsInRange
<1> QED
  BY <1>1, <1>2, <1>3, <1>4, <1>5, StreamIsSeq

\* A thread that moves has to fit where it goes; no other notices.
LEMMA MoveKeepsFits ==
  ASSUME ServerInv, pc # "exited", NEW c \in Conn, Live(c),
         NEW n \in Nat, NEW buf \in Seq(Token),
         NEW place \in {"start", "recv", "log", "cleanup", "ended"},
         Goes(c, place, buf, n),
         \A d \in Conn : d # c => taken'[d] = taken[d],
         place = "start" => taken'[c] <= MarkerLen /\ buf = Part(Stream(c), 0, taken'[c]),
         place \in {"recv", "log"} => Decodes(c)',
         place = "recv" => n = 0,
         place = "cleanup" => Done(c)'
  PROVE  \A d \in Conn : ThreadFits(d)'
<1>1. LocalsTyped /\ CountsInRange /\ \A d \in Conn : ThreadFits(d)
  BY DEF ServerInv, DescriptorInv
<1>2. /\ UNCHANGED <<pc, peer, sent, backlog>>
      /\ thread'[c].at = place /\ thread'[c].byteBuf = buf /\ thread'[c].recvBytes = n
      /\ \A d \in Conn : d # c => thread'[d] = thread[d]
  BY <1>1, GoesTyped
<1>3. ThreadFits(c)'
  <2>1. peer'[c] # "idle" /\ ~Queued(c)'
    BY <1>2, RunningFacts DEF Queued
  <2> QED
    BY <1>2, <2>1 DEF ThreadFits
<1>4. ASSUME NEW d \in Conn, d # c
      PROVE  ThreadFits(d)'
  <2>1. Queued(d)' => Queued(d)
    BY <1>2 DEF Queued
  <2> QED
    BY <1>1, <1>2, <1>4, <2>1, FitsStays
<1> QED
  BY <1>3, <1>4

\* A place further down the buffer is one further down the stream.
LEMMA BufferIsStream ==
  ASSUME ServerInv, pc # "exited", NEW c \in Conn, thread[c].at \in {"recv", "log"}
  PROVE  /\ Len(thread[c].byteBuf) \in Nat /\ From(c) \in Nat /\ MarkerLen <= From(c)
         /\ From(c) + Len(thread[c].byteBuf) = taken[c] /\ From(c) <= taken[c]
         /\ \A i \in 1..Len(thread[c].byteBuf) :
               /\ From(c) + i \in (From(c) + 1)..taken[c]
               /\ thread[c].byteBuf[i] = Stream(c)[From(c) + i]
<1> DEFINE b == thread[c].byteBuf
           s == Stream(c)
           t == taken[c]
           f == From(c)
<1>1. /\ Live(c)
      /\ s \in Seq(Token) /\ t \in 0..Len(s) /\ t \in Nat /\ b \in Seq(Token) /\ Decodes(c)
  <2>1. Live(c)
    BY DEF Live
  <2> QED
    BY <2>1, RunningFacts DEF ThreadFits
<1>2. Len(b) \in Nat
  BY <1>1, LenProperties
<1>3. f = t - Len(b) /\ b = Part(s, f, t) /\ 2 <= f
  BY <1>1 DEF From, Decodes, MarkerLen
<1> HIDE DEF b, s, t, f
<1>4. f \in Nat /\ f <= t /\ f + Len(b) = t
  BY <1>1, <1>2, <1>3
<1>5. \A i \in 1..(t - f) : b[i] = s[f + i]
  <2>1. f \in 0..t
    BY <1>1, <1>4
  <2>2. /\ Part(s, f, t) \in Seq(Token)
        /\ Len(Part(s, f, t)) = t - f
        /\ \A i \in 1..(t - f) : Part(s, f, t)[i] = s[f + i]
    BY <1>1, <2>1, PartIs
  <2> QED
    BY <1>3, <2>2
<1>6. \A i \in 1..Len(b) : f + i \in (f + 1)..t /\ i \in 1..(t - f)
  BY <1>1, <1>2, <1>4
<1> QED
  BY <1>2, <1>3, <1>4, <1>5, <1>6 DEF b, s, t, f, MarkerLen

\* The marker is read: its tokens so far, and no more of them than it has.
LEMMA StartReadKeepsFits ==
  ASSUME ServerInv, NEW c \in Conn, StartRead(c)
  PROVE  \A d \in Conn : ThreadFits(d)'
<1> DEFINE b    == thread[c].byteBuf
           size == MarkerLen - Len(b)
           new  == Received(c, size)
<1>1. /\ pc # "exited" /\ Live(c) /\ thread[c].at = "start" /\ Len(b) < MarkerLen
      /\ Read(c, size, "start", b)
  BY DEF StartRead, InMarker, At, Live
<1>2. /\ ThreadFits(c) /\ CountsInRange /\ Peer(c) = c /\ Stream(c) \in Seq(Token)
      /\ taken[c] \in 0..Len(Stream(c)) /\ b \in Seq(Token) /\ taken[c] \in Nat
  BY <1>1, RunningFacts
<1>3. b = Part(Stream(c), 0, taken[c])
  BY <1>1, <1>2 DEF ThreadFits
<1>4. Len(b) = taken[c]
  BY <1>2, <1>3, FrontIs
<1>5. size \in Nat \ {0} /\ size = 2 - taken[c]
  BY <1>1, <1>2, <1>4 DEF MarkerLen
<1>6. /\ RecvData(c) /\ Take(c, new) /\ Goes(c, "start", b \o new, Len(new))
  BY <1>1, <1>2 DEF Read
<1> HIDE DEF b, size
<1>7. /\ new \in Seq(Token) /\ Len(new) <= size /\ Len(new) \in Nat
      /\ new = Part(Stream(c), taken[c], taken'[c])
      /\ taken'[c] \in 0..Len(Stream(c)) /\ taken[c] \in 0..taken'[c]
      /\ \A d \in Conn : d # c => taken'[d] = taken[d]
  BY <1>2, <1>5, <1>6, ReceivedProps, ReceivedIsPart, LenProperties
<1> HIDE DEF new
<1>8. taken'[c] <= MarkerLen
  <2>1. PICK n \in 0..Len(Stream(c)) : n = taken'[c]
    BY <1>7
  <2>2. Len(Part(Stream(c), taken[c], n)) = n - taken[c]
    <3>1. Stream(c) \in Seq(Token) /\ taken[c] \in 0..n
      BY <1>2, <1>7, <2>1
    <3> QED
      BY <3>1, PartIs, ZenonT(60)
  <2>3. Len(new) = n - taken[c] /\ n \in Nat
    BY <1>2, <1>7, <2>1, <2>2
  <2> QED
    BY <1>2, <1>5, <1>7, <2>1, <2>3 DEF MarkerLen
<1>9. b \o new = Part(Stream(c), 0, taken'[c])
  <2>1. PICK n \in 0..Len(Stream(c)) : n = taken'[c]
    BY <1>7
  <2>2. 0 \in 0..taken[c] /\ taken[c] \in 0..n
    BY <1>2, <1>7, <2>1
  <2>3. Part(Stream(c), 0, taken[c]) \o Part(Stream(c), taken[c], n) = Part(Stream(c), 0, n)
    BY <1>2, <2>1, <2>2, PartJoin
  <2> QED
    BY <1>3, <1>7, <2>1, <2>3
<1>10. b \o new \in Seq(Token)
  BY <1>2, <1>7
<1> QED
  BY <1>1, <1>6, <1>7, <1>8, <1>9, <1>10, MoveKeepsFits

\* recv after the marker: the buffer grows at its end, by what the last recv brought.
LEMMA RecvKeepsFits ==
  ASSUME ServerInv, NEW c \in Conn, Recv(c)
  PROVE  /\ \A d \in Conn : ThreadFits(d)'
         /\ thread'[c].at = "log"
         /\ Len(thread'[c].byteBuf) = Len(thread[c].byteBuf) + thread'[c].recvBytes
         /\ taken'[c] = taken[c] + thread'[c].recvBytes
         /\ thread'[c].recvBytes \in Nat /\ Len(thread[c].byteBuf) \in Nat
         /\ \A d \in Conn : d # c => taken'[d] = taken[d] /\ thread'[d] = thread[d]
         /\ UNCHANGED <<peer, sent, backlog, owner, logged>>
<1> DEFINE b   == thread[c].byteBuf
           s   == Stream(c)
           t   == taken[c]
           f   == From(c)
           new == Received(c, BufferLen)
<1>1. /\ pc # "exited" /\ Live(c) /\ thread[c].at = "recv"
      /\ Read(c, BufferLen, "log", b) /\ BufferLen \in Nat \ {0}
  BY ThreadServerAssumption DEF Recv, At, Live
<1>2. /\ ThreadFits(c) /\ CountsInRange /\ Peer(c) = c /\ s \in Seq(Token)
      /\ t \in 0..Len(s) /\ b \in Seq(Token) /\ t \in Nat
  BY <1>1, RunningFacts
<1>3. /\ Decodes(c) /\ thread[c].recvBytes = 0
  BY <1>1, <1>2 DEF ThreadFits
<1>4. /\ Len(b) \in Nat /\ f \in Nat /\ f + Len(b) = t /\ f <= t
  BY <1>1, BufferIsStream
<1>5. /\ RecvData(c) /\ Take(c, new) /\ Goes(c, "log", b \o new, Len(new))
      /\ UNCHANGED <<owner, logged>>
  BY <1>1, <1>2 DEF Read
<1>6. /\ new \in Seq(Token) /\ Len(new) \in Nat
      /\ \A d \in Conn : d # c => taken'[d] = taken[d]
  BY <1>1, <1>2, <1>5, ReceivedProps, ReceivedIsPart, LenProperties
<1>7. PICK u \in 0..Len(s) : u = taken'[c] /\ new = Part(s, t, u) /\ t \in 0..u
  BY <1>1, <1>2, <1>5, ReceivedIsPart
<1>8. b = Part(s, f, t)
  BY <1>3 DEF Decodes
<1>9. /\ b \o new \in Seq(Token) /\ Len(b \o new) = Len(b) + Len(new)
  BY <1>2, <1>6
<1>10. LocalsTyped
  BY DEF ServerInv, DescriptorInv
<1> HIDE DEF new, b, s, t, f
<1>11. b \o new = Part(s, f, u)
  <2>1. f \in 0..t
    BY <1>2, <1>4
  <2> QED
    BY <1>2, <1>7, <1>8, <2>1, PartJoin
<1>12. Len(new) = u - t /\ u \in Nat
  <2>1. Len(Part(s, t, u)) = u - t
    BY <1>2, <1>7, PartIs, ZenonT(60)
  <2> QED
    BY <1>2, <1>7, <2>1
<1>13. /\ thread'[c].at = "log" /\ thread'[c].byteBuf = b \o new /\ thread'[c].recvBytes = Len(new)
       /\ \A d \in Conn : d # c => thread'[d] = thread[d]
       /\ UNCHANGED <<peer, sent, backlog>>
  <2> DEFINE all == b \o new
             size == Len(new)
  <2>1. all \in Seq(Token) /\ size \in Nat /\ Goes(c, "log", all, size)
    BY <1>5, <1>6, <1>9
  <2> HIDE DEF all, size
  <2>2. /\ thread'[c].at = "log" /\ thread'[c].byteBuf = all /\ thread'[c].recvBytes = size
        /\ \A d \in Conn : d # c => thread'[d] = thread[d]
        /\ UNCHANGED <<peer, sent, backlog>>
    BY <1>10, <2>1, GoesTyped
  <2> QED
    BY <2>2 DEF all, size
<1>14. From(c)' = f
  BY <1>2, <1>4, <1>7, <1>9, <1>12, <1>13, SMTT(30) DEF From
<1>15. Decodes(c)'
  <2>1. Known(c) /\ MarkerLen <= f /\ CleanUpTo(s, f)
    BY <1>3 DEF Decodes, f, s
  <2>2. \A k \in (f + 1)..(t - 0) : s[k].kind = "body"
    BY <1>3 DEF Decodes, f, s, t
  <2>3. taken'[c] - thread'[c].recvBytes = t /\ t - 0 = t
    BY <1>2, <1>7, <1>12, <1>13
  <2>4. \A k \in (f + 1)..(taken'[c] - thread'[c].recvBytes) : s[k].kind = "body"
    BY <2>2, <2>3
  <2> QED
    BY <1>7, <1>11, <1>13, <1>14, <2>1, <2>4 DEF Decodes, s
<1>16. \A d \in Conn : ThreadFits(d)'
  BY <1>1, <1>5, <1>6, <1>9, <1>15, MoveKeepsFits
<1>17. Len(thread'[c].byteBuf) = Len(b) + thread'[c].recvBytes /\ taken'[c] = t + thread'[c].recvBytes
  BY <1>2, <1>7, <1>9, <1>12, <1>13
<1> QED
  BY <1>4, <1>5, <1>6, <1>13, <1>16, <1>17 DEF b, t

\* What a whole marker in the buffer says of the stream.
LEMMA MarkerRead ==
  ASSUME ServerInv, pc # "exited", NEW c \in Conn, AfterMarker(c)
  PROVE  /\ taken[c] = MarkerLen /\ Live(c)
         /\ MarkerKnown(c) <=> Known(c)
<1>1. Live(c) /\ thread[c].at = "start" /\ Len(thread[c].byteBuf) >= 2
  BY DEF AfterMarker, At, Live, MarkerLen
<1>2. /\ ThreadFits(c) /\ Stream(c) \in Seq(Token)
      /\ taken[c] \in 0..Len(Stream(c)) /\ taken[c] \in Nat
  BY <1>1, RunningFacts
<1>3. /\ taken[c] <= 2 /\ thread[c].byteBuf = Part(Stream(c), 0, taken[c])
  BY <1>1, <1>2 DEF ThreadFits, MarkerLen
<1>4. /\ Len(Part(Stream(c), 0, taken[c])) = taken[c]
      /\ \A i \in 1..taken[c] : Part(Stream(c), 0, taken[c])[i] = Stream(c)[i]
  BY <1>2, FrontIs
<1>5. taken[c] = 2
  BY <1>1, <1>2, <1>3, <1>4
<1>6. 1 \in 1..taken[c] /\ 2 \in 1..taken[c]
  BY <1>5
<1>7. thread[c].byteBuf[1] = Stream(c)[1] /\ thread[c].byteBuf[2] = Stream(c)[2]
  BY <1>3, <1>4, <1>6
<1> QED
  BY <1>1, <1>5, <1>7 DEF MarkerLen, MarkerKnown, Matches, Known

LEMMA StartKeepsFits ==
  ASSUME ServerInv, NEW c \in Conn, Start(c) \/ StartRefused(c)
  PROVE  \A d \in Conn : ThreadFits(d)'
<1>1. /\ pc # "exited" /\ AfterMarker(c) /\ UNCHANGED <<taken, owner, logged>>
  BY DEF Start, StartRefused, AfterMarker, At
<1>2. /\ taken[c] = MarkerLen /\ Live(c) /\ (MarkerKnown(c) <=> Known(c))
  BY <1>1, MarkerRead
<1>3. <<>> \in Seq(Token) /\ 0 \in Nat /\ Len(<<>>) = 0
  OBVIOUS
<1>4. CASE Start(c)
  <2>1. Goes(c, "recv", <<>>, 0) /\ Known(c)
    BY <1>2, <1>4 DEF Start
  <2>2. thread'[c].byteBuf = <<>> /\ thread'[c].recvBytes = 0
    BY <1>3, <2>1, GoesTyped DEF ServerInv, DescriptorInv
  <2>3. From(c)' = 2 /\ taken'[c] = 2
    BY <1>1, <1>2, <1>3, <2>2 DEF From, MarkerLen
  <2>4. Part(Stream(c), 2, 2) = <<>>
    <3>1. Stream(c) \in Seq(Token) /\ 2 \in 0..Len(Stream(c)) /\ 2 \in 0..2
      BY <1>1, <1>2, RunningFacts DEF MarkerLen
    <3>2. Part(Stream(c), 2, 2) \in Seq(Token) /\ Len(Part(Stream(c), 2, 2)) = 2 - 2
      BY <3>1, PartIs
    <3> QED
      BY <3>2, EmptySeq
  <2>5. 3..2 = {} /\ 3..(2 - 0) = {} /\ 2 + 1 = 3
    OBVIOUS
  <2>6. Decodes(c)'
    BY <2>1, <2>2, <2>3, <2>4, <2>5 DEF Decodes, CleanUpTo, MarkerLen
  <2> QED
    BY <1>1, <1>2, <1>3, <2>1, <2>6, MoveKeepsFits
<1>5. CASE StartRefused(c)
  <2>1. Goes(c, "cleanup", <<>>, 0) /\ ~Known(c)
    BY <1>2, <1>5 DEF StartRefused
  <2>2. Done(c)'
    BY <1>1, <1>2, <2>1 DEF Done, Refused, MarkerLen
  <2> QED
    BY <1>1, <1>2, <1>3, <2>1, <2>2, MoveKeepsFits
<1> QED
  BY <1>4, <1>5

LEMMA RecvEndsKeepsFits ==
  ASSUME ServerInv, NEW c \in Conn, RecvEnds(c)
  PROVE  \A d \in Conn : ThreadFits(d)'
<1>1. /\ pc # "exited" /\ Live(c) /\ UNCHANGED <<taken, owner, logged>>
      /\ RecvError(Peer(c)) \/ RecvEof(Peer(c))
      /\ Goes(c, "cleanup", thread[c].byteBuf, 0)
  BY DEF RecvEnds, InMarker, At, Live
<1>2. /\ Peer(c) = c /\ thread[c].byteBuf \in Seq(Token) /\ taken[c] \in Nat /\ sent[c] \in Nat
  BY <1>1, RunningFacts
<1>3. Done(c)
  BY <1>1, <1>2 DEF RecvError, RecvEof, Available, Done
<1>4. Done(c)'
  BY <1>1, <1>3 DEF Goes, Done
<1> QED
  BY <1>1, <1>2, <1>4, MoveKeepsFits

-----------------------------------------------------------------------------
\* The event at the front of the buffer: where it ends in the stream, and that what
\* the last recv brought reaches that far.
LEMMA EventIsNext ==
  ASSUME ServerInv, pc # "exited", NEW c \in Conn, thread[c].at = "log",
         NEW n \in 1..Len(thread[c].byteBuf), EventOfLength(thread[c].byteBuf, n)
  PROVE  /\ n \in Nat /\ From(c) + n \in (From(c) + 1)..taken[c]
         /\ thread[c].byteBuf[n] = Stream(c)[From(c) + n]
         /\ Stream(c)[From(c) + n].kind \in FrameEnds
         /\ \A k \in (From(c) + 1)..(From(c) + n - 1) : Stream(c)[k].kind = "body"
         /\ taken[c] - thread[c].recvBytes < From(c) + n
         /\ CleanUpTo(Stream(c), From(c) + n)
<1> DEFINE b == thread[c].byteBuf
           s == Stream(c)
           t == taken[c]
           f == From(c)
<1>1. Live(c)
  BY DEF Live
<1>2. /\ ThreadFits(c) /\ s \in Seq(Token) /\ t \in 0..Len(s) /\ t \in Nat
      /\ thread[c].recvBytes \in Nat
  BY <1>1, RunningFacts
<1>3. /\ Len(b) \in Nat /\ f \in Nat /\ 2 <= f /\ f + Len(b) = t /\ f <= t
      /\ \A i \in 1..Len(b) : f + i \in (f + 1)..t /\ b[i] = s[f + i]
  BY BufferIsStream DEF MarkerLen
<1>4. /\ CleanUpTo(s, f)
      /\ \A k \in (f + 1)..(t - thread[c].recvBytes) : s[k].kind = "body"
  BY <1>2 DEF ThreadFits, Decodes
<1>5. /\ b[n].kind \in FrameEnds /\ \A m \in 1..(n - 1) : b[m].kind = "body"
  BY DEF EventOfLength, ScanStopsAt
<1> HIDE DEF b, s, t, f
<1>6. n \in Nat /\ n \in 1..Len(b) /\ f + n \in (f + 1)..t /\ b[n] = s[f + n]
  BY <1>3 DEF b
<1>7. \A k \in (f + 1)..(f + n - 1) : s[k].kind = "body"
  <2>1. ASSUME NEW k \in (f + 1)..(f + n - 1)
        PROVE  s[k].kind = "body"
    <3>1. k - f \in 1..(n - 1) /\ k - f \in 1..Len(b) /\ f + (k - f) = k
      BY <1>3, <1>6
    <3> QED
      BY <1>3, <1>5, <3>1
  <2> QED
    BY <2>1
<1>8. t - thread[c].recvBytes < f + n
  <2>1. f + n \notin (f + 1)..(t - thread[c].recvBytes)
    <3>1. s[f + n].kind # "body"
      BY <1>5, <1>6 DEF FrameEnds
    <3> QED
      BY <1>4, <3>1
  <2> QED
    BY <1>2, <1>3, <1>6, <2>1, SMTT(30)
<1>9. CleanUpTo(s, f + n)
  <2>1. ASSUME NEW k \in 3..(f + n)
        PROVE  s[k].kind \in FrameKinds
    <3>1. k \in 3..f \/ k \in (f + 1)..(f + n - 1) \/ k = f + n
      BY <1>3, <1>6
    <3> QED
      BY <1>4, <1>5, <1>6, <1>7, <3>1 DEF CleanUpTo, MarkerLen, FrameKinds
  <2> QED
    BY <2>1 DEF CleanUpTo, MarkerLen
<1> QED
  BY <1>5, <1>6, <1>7, <1>8, <1>9 DEF b, s, t, f

LEMMA LogEventKeepsFits ==
  ASSUME ServerInv, NEW c \in Conn,
         NEW n \in 1..Len(thread[c].byteBuf), EventOfLength(thread[c].byteBuf, n),
         At(c, "log"), Goes(c, "log", Erase(thread[c].byteBuf, n), thread[c].recvBytes),
         UNCHANGED <<taken, owner>>
  PROVE  /\ \A d \in Conn : ThreadFits(d)'
         /\ From(c)' = From(c) + n
         /\ thread'[c].at = "log" /\ thread'[c].recvBytes = thread[c].recvBytes
         /\ \A d \in Conn : d # c => thread'[d] = thread[d]
         /\ UNCHANGED <<peer, sent, backlog>>
         /\ Len(thread'[c].byteBuf) \in Nat
<1> DEFINE b == thread[c].byteBuf
           s == Stream(c)
           t == taken[c]
           f == From(c)
           rest == Erase(b, n)
<1>1. Live(c) /\ pc # "exited" /\ thread[c].at = "log"
  BY DEF At, Live
<1>2. /\ ThreadFits(c) /\ s \in Seq(Token) /\ t \in 0..Len(s) /\ t \in Nat
      /\ b \in Seq(Token) /\ thread[c].recvBytes \in Nat
  BY <1>1, RunningFacts
<1>3. /\ Len(b) \in Nat /\ f \in Nat /\ 2 <= f /\ f + Len(b) = t /\ f <= t
  BY <1>1, BufferIsStream DEF MarkerLen
<1>4. /\ Known(c) /\ b = Part(s, f, t)
      /\ \A k \in (f + 1)..(t - thread[c].recvBytes) : s[k].kind = "body"
  BY <1>1, <1>2 DEF ThreadFits, Decodes
<1>5. /\ n \in Nat /\ f + n \in (f + 1)..t /\ CleanUpTo(s, f + n)
  BY <1>1, EventIsNext
<1>6. LocalsTyped
  BY DEF ServerInv, DescriptorInv
<1>7. rest = Part(b, n, Len(b))
  BY DEF Erase, Part
<1>8. n \in 0..Len(b) /\ Len(b) = t - f
  BY <1>3
<1> HIDE DEF b, s, t, f, rest
<1>9. rest = Part(s, f + n, t)
  <2>1. /\ f \in 0..t /\ Len(b) \in 0..(t - f) /\ n \in 0..Len(b)
    BY <1>2, <1>3, <1>8
  <2>2. Part(Part(s, f, t), n, Len(b)) = Part(s, f + n, f + Len(b))
    BY <1>2, <2>1, PartOfPart
  <2> QED
    BY <1>3, <1>4, <1>7, <2>2
<1>10. rest \in Seq(Token) /\ Len(rest) = t - (f + n) /\ Len(rest) \in Nat
  <2>1. PICK g \in 0..t : g = f + n
    BY <1>3, <1>5
  <2>2. Part(s, g, t) \in Seq(Token) /\ Len(Part(s, g, t)) = t - g
    BY <1>2, <2>1, PartIs
  <2> QED
    BY <1>2, <1>9, <2>1, <2>2
<1>11. /\ thread'[c].at = "log" /\ thread'[c].byteBuf = rest
       /\ thread'[c].recvBytes = thread[c].recvBytes
       /\ \A d \in Conn : d # c => thread'[d] = thread[d]
       /\ UNCHANGED <<peer, sent, backlog>>
  BY <1>2, <1>6, <1>10, GoesTyped DEF rest, b
<1>12. From(c)' = f + n /\ taken'[c] = t
  BY <1>2, <1>3, <1>5, <1>10, <1>11 DEF From, t
<1>13. Decodes(c)'
  <2>1. MarkerLen <= f + n
    BY <1>3, <1>5 DEF MarkerLen
  <2>2. \A k \in (f + n + 1)..(t - thread[c].recvBytes) : s[k].kind = "body"
    <3>1. (f + n + 1)..(t - thread[c].recvBytes) \subseteq (f + 1)..(t - thread[c].recvBytes)
      BY <1>2, <1>3, <1>5
    <3> QED
      BY <1>4, <3>1
  <2> QED
    BY <1>4, <1>5, <1>9, <1>11, <1>12, <2>1, <2>2 DEF Decodes, s
<1>14. \A d \in Conn : ThreadFits(d)'
  BY <1>1, <1>2, <1>10, <1>13, MoveKeepsFits DEF rest, b
<1>15. Len(thread'[c].byteBuf) \in Nat
  BY <1>10, <1>11
<1> QED
  BY <1>11, <1>12, <1>14, <1>15 DEF f

\* The loop is left with nothing but the body of an event, ...
LEMMA LoopEndsKeepsFits ==
  ASSUME ServerInv, NEW c \in Conn, LoopEnds(c)
  PROVE  /\ \A d \in Conn : ThreadFits(d)'
         /\ \A k \in (From(c) + 1)..taken[c] : Stream(c)[k].kind = "body"
<1>1. /\ pc # "exited" /\ Live(c) /\ thread[c].at = "log" /\ Incomplete(thread[c].byteBuf)
      /\ Goes(c, "recv", thread[c].byteBuf, 0) /\ UNCHANGED <<taken, owner, logged>>
  BY DEF LoopEnds, At, Live
<1>2. /\ ThreadFits(c) /\ thread[c].byteBuf \in Seq(Token) /\ taken[c] \in Nat
  BY <1>1, RunningFacts
<1>3. /\ Len(thread[c].byteBuf) \in Nat /\ From(c) \in Nat
      /\ From(c) + Len(thread[c].byteBuf) = taken[c]
      /\ \A i \in 1..Len(thread[c].byteBuf) : thread[c].byteBuf[i] = Stream(c)[From(c) + i]
  BY <1>1, BufferIsStream
<1>4. ASSUME NEW k \in (From(c) + 1)..taken[c]
      PROVE  Stream(c)[k].kind = "body"
  <2>1. k - From(c) \in 1..Len(thread[c].byteBuf) /\ From(c) + (k - From(c)) = k
    BY <1>2, <1>3
  <2> QED
    BY <1>1, <1>3, <2>1 DEF Incomplete
<1>5. thread'[c].byteBuf = thread[c].byteBuf /\ thread'[c].recvBytes = 0
  BY <1>1, <1>2, GoesTyped DEF ServerInv, DescriptorInv
<1>6. From(c)' = From(c) /\ taken'[c] = taken[c] /\ taken[c] - 0 = taken[c]
  BY <1>1, <1>2, <1>5 DEF From
<1>7. Decodes(c)'
  BY <1>1, <1>2, <1>4, <1>5, <1>6 DEF ThreadFits, Decodes
<1>8. \A d \in Conn : ThreadFits(d)'
  BY <1>1, <1>2, <1>7, MoveKeepsFits
<1> QED
  BY <1>4, <1>8

\* ... or at a place that no event can have: the stream is refused.
LEMMA MalformedIsRefused ==
  ASSUME ServerInv, pc # "exited", NEW c \in Conn, thread[c].at = "log",
         Malformed(thread[c].byteBuf)
  PROVE  /\ Refused(c, taken[c])
         /\ \A k \in (From(c) + 1)..taken[c] :
              ~(Stream(c)[k].kind = "event" /\ CleanUpTo(Stream(c), k))
<1> DEFINE b == thread[c].byteBuf
           s == Stream(c)
           f == From(c)
<1>1. PICK n \in 1..Len(b) : ScanStopsAt(b, n) /\ b[n].kind \notin FrameEnds
  BY DEF Malformed
<1>2. taken[c] \in Nat
  BY RunningFacts DEF Live
<1>3. /\ Len(b) \in Nat /\ f \in Nat /\ 2 <= f /\ f + Len(b) = taken[c]
      /\ \A i \in 1..Len(b) : f + i \in (f + 1)..taken[c] /\ b[i] = s[f + i]
  BY BufferIsStream DEF MarkerLen
<1>4. b[n].kind \notin FrameKinds /\ \A m \in 1..(n - 1) : b[m].kind = "body"
  BY <1>1 DEF ScanStopsAt, FrameKinds
<1> HIDE DEF b, s, f
<1>5. n \in Nat /\ f + n \in 3..taken[c] /\ s[f + n].kind \notin FrameKinds
  BY <1>2, <1>3, <1>4
<1>6. ASSUME NEW k \in (f + 1)..taken[c]
      PROVE  ~(s[k].kind = "event" /\ CleanUpTo(s, k))
  <2>1. CASE k < f + n
    <3>1. k - f \in 1..(n - 1) /\ k - f \in 1..Len(b) /\ f + (k - f) = k
      BY <1>2, <1>3, <1>5, <2>1
    <3>2. s[k].kind = "body"
      BY <1>3, <1>4, <3>1
    <3> QED
      BY <3>2
  <2>2. CASE k >= f + n
    <3>1. f + n \in 3..k
      BY <1>2, <1>3, <1>5, <2>2
    <3> QED
      BY <1>5, <3>1 DEF CleanUpTo, MarkerLen
  <2> QED
    BY <1>2, <1>3, <1>5, <2>1, <2>2
<1>7. ~CleanUpTo(s, taken[c]) /\ MarkerLen <= taken[c]
  BY <1>2, <1>5 DEF CleanUpTo, MarkerLen
<1> QED
  BY <1>6, <1>7 DEF Refused, s, f

LEMMA LoopFailsKeepsFits ==
  ASSUME ServerInv, NEW c \in Conn, LoopFails(c)
  PROVE  \A d \in Conn : ThreadFits(d)'
<1>1. /\ pc # "exited" /\ Live(c) /\ thread[c].at = "log" /\ Malformed(thread[c].byteBuf)
      /\ Goes(c, "cleanup", thread[c].byteBuf, 0) /\ UNCHANGED <<taken, owner, logged>>
  BY DEF LoopFails, At, Live
<1>2. thread[c].byteBuf \in Seq(Token)
  BY <1>1, RunningFacts
<1>3. Done(c)'
  BY <1>1, MalformedIsRefused DEF Done
<1> QED
  BY <1>1, <1>2, <1>3, MoveKeepsFits

LEMMA CleanUpKeepsFits ==
  ASSUME ServerInv, NEW c \in Conn, CleanUp(c)
  PROVE  \A d \in Conn : ThreadFits(d)'
<1>1. /\ pc # "exited" /\ Live(c) /\ UNCHANGED <<taken, logged>>
      /\ Goes(c, "ended", thread[c].byteBuf, 0)
  BY DEF CleanUp, At, Live
<1>2. thread[c].byteBuf \in Seq(Token)
  BY <1>1, RunningFacts
<1> QED
  BY <1>1, <1>2, MoveKeepsFits

-----------------------------------------------------------------------------
LEMMA ServerBegins == Init => ServerInv
<1> SUFFICES ASSUME Init PROVE ServerInv
  OBVIOUS
<1>1. DescriptorInv
  BY ThreadInit
<1>2. ASSUME NEW c \in Conn
      PROVE  ThreadFits(c)
  BY DEF Init, SocketsInit, NoThread, ThreadFits
<1> QED
  BY <1>1, <1>2 DEF ServerInv

\* Every step keeps what each thread holds of its connection's stream.
LEMMA ServerStep == ServerInv /\ [Next]_vars => ServerInv'
<1> SUFFICES ASSUME ServerInv, [Next]_vars
             PROVE  ServerInv'
  OBVIOUS
<1>1. DescriptorInv'
  BY ThreadStep DEF ServerInv
<1>2. \A c \in Conn : ThreadFits(c)'
  <2>1. CASE Peers
    BY <2>1, PeersKeepFits
  <2>2. CASE Accept
    BY <2>2, AcceptKeepsFits
  <2>3. CASE AcceptFails \/ Exit \/ ThreadFails
    BY <2>3, EndKeepsFits DEF AcceptFails, Exit, ThreadFails, EndOfProcess
  <2>4. ASSUME NEW c \in Conn, ThreadRuns(c)
        PROVE  \A d \in Conn : ThreadFits(d)'
    <3>1. CASE StartRead(c)
      BY <3>1, StartReadKeepsFits
    <3>2. CASE Start(c) \/ StartRefused(c)
      BY <3>2, StartKeepsFits
    <3>3. CASE RecvEnds(c)
      BY <3>3, RecvEndsKeepsFits
    <3>4. CASE Recv(c)
      BY <3>4, RecvKeepsFits
    <3>5. CASE LogEvent(c)
      BY <3>5, LogEventKeepsFits DEF LogEvent
    <3>6. CASE LoopEnds(c)
      BY <3>6, LoopEndsKeepsFits
    <3>7. CASE LoopFails(c)
      BY <3>7, LoopFailsKeepsFits
    <3>8. CASE Abort(c)
      BY <3>8, EndKeepsFits DEF Abort, EndOfProcess
    <3>9. CASE CleanUp(c)
      BY <3>9, CleanUpKeepsFits
    <3> QED
      BY <2>4, <3>1, <3>2, <3>3, <3>4, <3>5, <3>6, <3>7, <3>8, <3>9 DEF ThreadRuns
  <2>5. CASE UNCHANGED vars
    <3>1. UNCHANGED <<peer, sent, taken, backlog, owner, thread>>
      BY <2>5 DEF vars, socketVars
    <3>2. ASSUME NEW c \in Conn
          PROVE  ThreadFits(c)'
      <4>1. Queued(c)' <=> Queued(c)
        BY <3>1 DEF Queued
      <4>2. ThreadFits(c) /\ CountsInRange
        BY DEF ServerInv, DescriptorInv
      <4> QED
        BY <3>1, <4>1, <4>2, FitsStays
    <3> QED
      BY <3>2
  <2> QED
    BY <2>1, <2>2, <2>3, <2>4, <2>5 DEF Next, MainRuns
<1> QED
  BY <1>1, <1>2 DEF ServerInv

LEMMA ServerInvariant == Spec => []ServerInv
BY ServerBegins, ServerStep, PTL DEF Spec

-----------------------------------------------------------------------------
\* LogServer reads the streams as the default protocol's server does: the markers of
\* the other protocols are unknown ones, and nothing else of a stream is different.
Heard(c) == Promise!Stream(c)

LEMMA HeardIs ==
  ASSUME NEW c \in Conn
  PROVE  /\ Heard(c) \in Seq(Token) /\ Len(Heard(c)) = Len(Stream(c))
         /\ \A i \in 1..Len(Stream(c)) :
              /\ Heard(c)[i].id = <<c, i>>
              /\ Heard(c)[i].kind \in FrameKinds <=> Stream(c)[i].kind \in FrameKinds
              /\ Heard(c)[i].kind = "magic" <=> Stream(c)[i].kind = "magic"
              /\ Heard(c)[i].kind \in Protocols <=> Stream(c)[i].kind = "default"
              /\ Heard(c)[i].kind = "event" <=> Stream(c)[i].kind = "event"
              /\ Heard(c)[i].kind = "event" => Heard(c)[i] = Stream(c)[i]
<1>1. /\ Stream(c) \in Seq(Token) /\ Len(Stream(c)) = Len(Writes[c]) /\ Len(Writes[c]) \in Nat
      /\ \A i \in 1..Len(Writes[c]) : <<c, i>> \in Id /\ Writes[c][i] \in Kinds
  <2>1. Writes[c] \in Seq(Kinds) /\ \A i \in 1..Len(Writes[c]) : <<c, i>> \in Id
    BY SocketsAssumption
  <2> QED
    BY <2>1, StreamIsSeq
<1>2. /\ Understood[c] = [i \in 1..Len(Writes[c]) |->
           IF Writes[c][i] \in Protocols \ {"default"} THEN "json" ELSE Writes[c][i]]
  BY DEF Understood
<1>3. Len(Understood[c]) = Len(Writes[c])
  BY <1>1, <1>2
<1>4. Heard(c) = [i \in 1..Len(Writes[c]) |-> [kind |-> Understood[c][i], id |-> <<c, i>>]]
  BY <1>3 DEF Heard, Promise!Stream
<1>5. \A i \in 1..Len(Writes[c]) : Stream(c)[i] = [kind |-> Writes[c][i], id |-> <<c, i>>]
  BY DEF Stream
<1>6. ASSUME NEW i \in 1..Len(Writes[c])
      PROVE  /\ Heard(c)[i] \in Token
             /\ Heard(c)[i].id = <<c, i>>
             /\ Heard(c)[i].kind \in FrameKinds <=> Stream(c)[i].kind \in FrameKinds
             /\ Heard(c)[i].kind = "magic" <=> Stream(c)[i].kind = "magic"
             /\ Heard(c)[i].kind \in Protocols <=> Stream(c)[i].kind = "default"
             /\ Heard(c)[i].kind = "event" <=> Stream(c)[i].kind = "event"
             /\ Heard(c)[i].kind = "event" => Heard(c)[i] = Stream(c)[i]
  <2>1. /\ Heard(c)[i] = [kind |-> Understood[c][i], id |-> <<c, i>>]
        /\ Stream(c)[i] = [kind |-> Writes[c][i], id |-> <<c, i>>]
    BY <1>4, <1>5
  <2>2. Understood[c][i] = IF Writes[c][i] \in {"bytes", "msgpack"} THEN "json" ELSE Writes[c][i]
    BY <1>2 DEF Protocols
  <2>3. Writes[c][i] \in Kinds /\ <<c, i>> \in Id
    BY <1>1
  <2> QED
    BY <2>1, <2>2, <2>3 DEF Token, Kinds, FrameKinds, FrameEnds, Protocols
<1>7. Heard(c) \in Seq(Token) /\ Len(Heard(c)) = Len(Writes[c])
  <2>1. Heard(c) = [i \in 1..Len(Writes[c]) |-> Heard(c)[i]]
    BY <1>4
  <2> DEFINE h == Heard(c)
             n == Len(Writes[c])
  <2>2. n \in Nat /\ \A i \in 1..n : h[i] \in Token
    BY <1>1, <1>6
  <2> HIDE DEF h, n
  <2>3. h \in Seq(Token) /\ Len(h) = n
    BY <2>1, <2>2 DEF h, n
  <2> QED
    BY <2>3 DEF h, n
<1> QED
  BY <1>1, <1>6, <1>7

\* So what it owes is what becomes due after the default protocol's marker, ...
LEMMA HeardOwed ==
  ASSUME NEW c \in Conn, NEW u \in 0..Len(Stream(c)), NEW k \in Nat
  PROVE  k \in Promise!Owed(Heard(c), u) <=>
           k \in 3..u /\ Stream(c)[k].kind = "event" /\ Known(c) /\ CleanUpTo(Stream(c), k)
<1>1. Len(Stream(c)) \in Nat
  BY StreamIsSeq
<1>2. k \in Promise!Owed(Heard(c), u) <=>
        /\ k \in 3..u /\ Heard(c)[k].kind = "event"
        /\ Heard(c)[1].kind = "magic" /\ Heard(c)[2].kind \in Protocols
        /\ \A m \in 3..k : Heard(c)[m].kind \in FrameKinds
  BY DEF Promise!Owed, Promise!MarkerLen, Promise!MarkerOK, Promise!CleanUpTo, Promise!Protocols,
         Promise!FrameKinds, Promise!FrameEnds, Protocols, FrameKinds, FrameEnds, MarkerLen
<1>3. CASE k \notin 3..u
  BY <1>2, <1>3
<1>4. CASE k \in 3..u
  <2>1. /\ 1 \in 1..Len(Stream(c)) /\ 2 \in 1..Len(Stream(c)) /\ k \in 1..Len(Stream(c))
        /\ \A m \in 3..k : m \in 1..Len(Stream(c))
    BY <1>1, <1>4
  <2> QED
    BY <1>2, <1>4, <2>1, HeardIs DEF Known, CleanUpTo, MarkerLen
<1> QED
  BY <1>3, <1>4

\* ... and what it refuses is what a thread refuses.
LEMMA HeardRefused ==
  ASSUME NEW c \in Conn, NEW u \in 0..Len(Stream(c)), Refused(c, u)
  PROVE  ~Promise!Acceptable(Promise!Stream(c), u)
<1>1. Len(Stream(c)) \in Nat /\ u \in Nat /\ 2 <= u /\ ~(Known(c) /\ CleanUpTo(Stream(c), u))
  BY StreamIsSeq DEF Refused, MarkerLen
<1>2. Promise!Acceptable(Heard(c), u) <=>
        \/ u < 2
        \/ /\ Heard(c)[1].kind = "magic" /\ Heard(c)[2].kind \in Protocols
           /\ \A m \in 3..u : Heard(c)[m].kind \in FrameKinds
  BY DEF Promise!Acceptable, Promise!MarkerLen, Promise!MarkerOK, Promise!CleanUpTo,
         Promise!Protocols, Promise!FrameKinds, Promise!FrameEnds, Protocols, FrameKinds,
         FrameEnds, MarkerLen
<1>3. /\ 1 \in 1..Len(Stream(c)) /\ 2 \in 1..Len(Stream(c))
      /\ \A m \in 3..u : m \in 1..Len(Stream(c))
  BY <1>1
<1>4. ~Promise!Acceptable(Heard(c), u)
  BY <1>1, <1>2, <1>3, HeardIs DEF Known, CleanUpTo, MarkerLen
<1> QED
  BY <1>4 DEF Heard

\* The events LogServer says a part of a stream completes: none, ...
LEMMA CompletedIs ==
  ASSUME NEW c \in Conn, NEW from, NEW to
  PROVE  Promise!Completed(c, from, to) =
           Only(Part(Heard(c), from, to), {t \in Token : t.id[2] \in Promise!Owed(Heard(c), to)})
BY DEF Promise!Completed, Promise!Only, Only, Promise!Token, Token, Promise!Kinds, Kinds,
       Promise!Protocols, Protocols, Promise!FrameKinds, FrameKinds, Promise!FrameEnds, FrameEnds,
       Heard, Part

LEMMA CompletedNone ==
  ASSUME NEW c \in Conn, NEW to \in 0..Len(Stream(c)), NEW from \in 0..to,
         \A k \in (from + 1)..to :
            ~(Stream(c)[k].kind = "event" /\ Known(c) /\ CleanUpTo(Stream(c), k))
  PROVE  Promise!Completed(c, from, to) = <<>>
<1> DEFINE h == Heard(c)
           p == Part(h, from, to)
           K == {t \in Token : t.id[2] \in Promise!Owed(Heard(c), to)}
<1>1. /\ h \in Seq(Token) /\ Len(h) = Len(Stream(c)) /\ Len(Stream(c)) \in Nat
      /\ \A i \in 1..Len(Stream(c)) : h[i].id = <<c, i>>
  BY HeardIs, StreamIsSeq
<1>2. \A k \in (from + 1)..to : k \notin Promise!Owed(Heard(c), to)
  <2>1. \A k \in (from + 1)..to : k \in Nat
    OBVIOUS
  <2> QED
    BY <2>1, HeardOwed
<1>3. /\ p \in Seq(Token) /\ Len(p) = to - from /\ \A i \in 1..(to - from) : p[i] = h[from + i]
  <2> HIDE DEF h
  <2>1. to \in 0..Len(h) /\ from \in 0..to
    BY <1>1
  <2>2. /\ Part(h, from, to) \in Seq(Token) /\ Len(Part(h, from, to)) = to - from
        /\ \A i \in 1..(to - from) : Part(h, from, to)[i] = h[from + i]
    BY <1>1, <2>1, PartIs
  <2> QED
    BY <2>2
<1>4. ASSUME NEW i \in 1..Len(p)
      PROVE  p[i] \notin K
  <2>1. from + i \in (from + 1)..to /\ from + i \in 1..Len(Stream(c)) /\ p[i] = h[from + i]
    BY <1>1, <1>3
  <2>2. p[i].id[2] = from + i
    BY <1>1, <2>1
  <2> QED
    BY <1>2, <2>1, <2>2
<1> HIDE DEF p, K
<1>5. Only(p, K) = <<>>
  BY <1>3, <1>4, OnlyNone
<1> QED
  BY <1>5, CompletedIs DEF p, K, h

\* ... or the one that ends it.
LEMMA CompletedOne ==
  ASSUME NEW c \in Conn, NEW to \in 1..Len(Stream(c)), NEW from \in 0..(to - 1),
         \A k \in (from + 1)..(to - 1) : Stream(c)[k].kind = "body",
         2 < to, Known(c), CleanUpTo(Stream(c), to), Stream(c)[to].kind = "event"
  PROVE  Promise!Completed(c, from, to) = <<Stream(c)[to]>>
<1> DEFINE h == Heard(c)
           K == {t \in Token : t.id[2] \in Promise!Owed(Heard(c), to)}
<1>1. /\ h \in Seq(Token) /\ Len(h) = Len(Stream(c)) /\ Len(Stream(c)) \in Nat
      /\ \A i \in 1..Len(Stream(c)) : h[i].id = <<c, i>>
      /\ h[to] = Stream(c)[to] /\ h[to] \in Token
  BY HeardIs, StreamIsSeq
<1>2. to \in Nat /\ to - 1 \in 0..Len(h) /\ from \in 0..to /\ to \in 0..Len(h)
  BY <1>1
<1>3. /\ to \in Promise!Owed(Heard(c), to)
      /\ \A k \in (from + 1)..(to - 1) : k \notin Promise!Owed(Heard(c), to)
  <2>1. \A k \in (from + 1)..(to - 1) : k \in Nat /\ Stream(c)[k].kind # "event"
    BY <1>2
  <2>2. to \in 3..to /\ to \in 0..Len(Stream(c))
    BY <1>1, <1>2
  <2> QED
    BY <1>2, <2>1, <2>2, HeardOwed
<1> HIDE DEF h
<1>4. /\ Part(h, from, to - 1) \in Seq(Token) /\ Len(Part(h, from, to - 1)) = (to - 1) - from
      /\ \A i \in 1..((to - 1) - from) : Part(h, from, to - 1)[i] = h[from + i]
  <2>1. PICK n \in 0..Len(h) : n = to - 1
    BY <1>2
  <2>0. h \in Seq(Token) /\ from \in 0..n
    BY <1>1, <2>1
  <2>2. /\ Part(h, from, n) \in Seq(Token) /\ Len(Part(h, from, n)) = n - from
        /\ \A i \in 1..(n - from) : Part(h, from, n)[i] = h[from + i]
    BY <2>0, PartIs, ZenonT(60)
  <2> QED
    BY <2>1, <2>2
<1>5. Part(h, from, to) = Append(Part(h, from, to - 1), h[to])
  <2>1. from + 1 \in 1..Len(h) /\ to \in (from + 1)..Len(h)
    BY <1>2
  <2>2. Part(h, from, to) = Part(h, from, to - 1) \o <<h[to]>>
    BY <1>1, <2>1, SubSeqRecursiveSecond DEF Part
  <2> QED
    BY <1>1, <1>4, <2>2, AppendIsConcat
<1>6. ASSUME NEW i \in 1..Len(Part(h, from, to - 1))
      PROVE  Part(h, from, to - 1)[i] \notin K
  <2>1. from + i \in (from + 1)..(to - 1) /\ from + i \in 1..Len(Stream(c))
    BY <1>1, <1>2, <1>4
  <2>2. Part(h, from, to - 1)[i] = h[from + i] /\ h[from + i].id = <<c, from + i>>
    BY <1>1, <1>4, <2>1
  <2> QED
    BY <1>3, <2>1, <2>2
<1>7. h[to] \in K
  <2>1. h[to].id[2] = to
    BY <1>1
  <2> QED
    BY <1>1, <1>3, <2>1
<1> HIDE DEF K
<1>8. Only(Part(h, from, to), K) = Append(<<>>, h[to])
  <2> DEFINE b == Part(h, from, to - 1)
  <2>1. b \in Seq(Token) /\ \A i \in 1..Len(b) : b[i] \notin K
    BY <1>4, <1>6
  <2> HIDE DEF b
  <2>2. Only(b, K) = <<>>
    BY <2>1, OnlyNone
  <2>3. Only(Append(b, h[to]), K) = Append(Only(b, K), h[to])
    BY <1>1, <1>7, <2>1, OnlyAppend
  <2> QED
    BY <1>5, <2>2, <2>3 DEF b
<1>9. Append(<<>>, h[to]) = <<h[to]>>
  OBVIOUS
<1> QED
  BY <1>1, <1>8, <1>9, CompletedIs DEF h, K

-----------------------------------------------------------------------------
\* Min of FiniteSetsExt, for two numbers.
LEMMA MinOfTwo ==
  ASSUME NEW m \in Nat, NEW n \in Nat
  PROVE  Min({m, n}) = IF m <= n THEN m ELSE n
<1> DEFINE low == IF m <= n THEN m ELSE n
<1>1. low \in {m, n} /\ \A k \in {m, n} : low <= k
  OBVIOUS
<1>2. \A x \in {m, n} : (\A k \in {m, n} : x <= k) => x = low
  OBVIOUS
<1> HIDE DEF low
<1>3. (CHOOSE x \in {m, n} : \A k \in {m, n} : x <= k) = low
  BY <1>1, <1>2
<1> QED
  BY <1>3 DEF Min, low

\* What a thread has looked at of its stream, while it logs.
LEMMA LookedIs ==
  ASSUME ServerInv, pc # "exited", NEW c \in Conn, thread[c].at = "log"
  PROVE  /\ Looked(c) \in Nat /\ From(c) <= Looked(c) /\ Looked(c) <= taken[c]
         /\ Looked(c) = From(c) \/ Looked(c) = taken[c] - thread[c].recvBytes
         /\ From(c) \in Nat /\ taken[c] \in Nat /\ MarkerLen <= From(c)
<1>1. /\ taken[c] \in Nat /\ thread[c].recvBytes \in Nat
  BY RunningFacts DEF Live
<1>2. /\ Len(thread[c].byteBuf) \in Nat /\ From(c) \in Nat /\ MarkerLen <= From(c)
      /\ From(c) + Len(thread[c].byteBuf) = taken[c]
  BY BufferIsStream
<1>3. Looked(c) = taken[c] - Min({Len(thread[c].byteBuf), thread[c].recvBytes})
  BY DEF Looked
<1>4. Min({Len(thread[c].byteBuf), thread[c].recvBytes}) =
        IF Len(thread[c].byteBuf) <= thread[c].recvBytes
          THEN Len(thread[c].byteBuf) ELSE thread[c].recvBytes
  BY <1>1, <1>2, MinOfTwo
<1> DEFINE n == Len(thread[c].byteBuf)
           r == thread[c].recvBytes
           f == From(c)
           t == taken[c]
<1> HIDE DEF n, r, f, t
<1>5. /\ n \in Nat /\ r \in Nat /\ f \in Nat /\ t \in Nat /\ f + n = t
      /\ Looked(c) = IF n <= r THEN t - n ELSE t - r
  BY <1>1, <1>2, <1>3, <1>4 DEF n, r, f, t
<1>6. /\ Looked(c) \in Nat /\ f <= Looked(c) /\ Looked(c) <= t
      /\ Looked(c) = f \/ Looked(c) = t - r
  BY <1>5
<1> QED
  BY <1>1, <1>2, <1>6 DEF r, f, t

\* A thread that waits in the loop of forceLog moves no connection, and the events
\* that are logged are those its bytes complete.
LEMMA TakingIsLog ==
  ASSUME ServerInv, pc # "exited", NEW c \in Conn, Live(c),
         UNCHANGED <<peer, sent, backlog, owner>>,
         NEW to \in Nat, Looked(c)' = to, Looked(c) < to, Looked(c) \in Nat, to <= sent[c],
         \A d \in Conn : d # c => Looked(d)' = Looked(d),
         \A d \in Conn : d # c => EventsOf(d, logged)' = EventsOf(d, logged),
         EventsOf(c, logged)' = EventsOf(c, logged) \o Promise!Completed(c, Looked(c), to)
  PROVE  Promise!Next
<1>1. Phases' = Phases
  BY NoneMoves
<1>2. Phases[c] = "open"
  <2>1. PhaseFits /\ Open(c)
    BY ThreadFacts, PhaseIs DEF ServerInv, DescriptorInv, Peer, Open
  <2> QED
    BY <2>1 DEF PhaseFits
<1>3. to \in (Looked(c) + 1)..sent[c]
  BY RunningFacts
<1>4. [d \in Conn |-> Looked(d)]' = [[d \in Conn |-> Looked(d)] EXCEPT ![c] = to]
  OBVIOUS
<1>5. Promise!Read(c)
  BY <1>1, <1>2, <1>3, <1>4 DEF Promise!Read
<1>6. [d \in Conn |-> EventsOf(d, logged)]' =
        [[d \in Conn |-> EventsOf(d, logged)] EXCEPT
           ![c] = @ \o Promise!Completed(c, Looked(c), to)]
  OBVIOUS
<1>7. Promise!Log(c)
  BY <1>5, <1>6 DEF Promise!Log
<1> QED
  BY <1>7 DEF Promise!Next

\* When they complete none, nothing is logged.
LEMMA TakingNothing ==
  ASSUME ServerInv, pc # "exited", NEW c \in Conn, Live(c),
         UNCHANGED <<peer, sent, backlog, owner, logged>>,
         NEW to \in Nat, Looked(c)' = to, Looked(c) <= to, Looked(c) \in Nat, to <= sent[c],
         \A d \in Conn : d # c => Looked(d)' = Looked(d),
         \A k \in (Looked(c) + 1)..to :
            ~(Stream(c)[k].kind = "event" /\ Known(c) /\ CleanUpTo(Stream(c), k))
  PROVE  Promise!Next \/ UNCHANGED Promise!vars
<1>1. \A d \in Conn : EventsOf(d, logged)' = EventsOf(d, logged)
  BY DEF EventsOf
<1>2. CASE Looked(c) = to
  <2>1. Phases' = Phases
    BY NoneMoves
  <2>2. UNCHANGED <<[d \in Conn |-> Looked(d)], [d \in Conn |-> EventsOf(d, logged)]>>
    BY <1>1, <1>2
  <2> QED
    BY <2>1, <2>2 DEF Promise!vars, Promise!lifeVars
<1>3. CASE Looked(c) < to
  <2>1. to \in 0..Len(Stream(c)) /\ Looked(c) \in 0..to
    BY RunningFacts
  <2>2. Promise!Completed(c, Looked(c), to) = <<>>
    <3>1. PICK from \in 0..to : from = Looked(c)
      BY <2>1
    <3> QED
      BY <2>1, <3>1, CompletedNone
  <2>3. EventsOf(c, logged) \in Seq(Token)
    BY OnlyType DEF ServerInv, DescriptorInv, EventsOf
  <2>4. EventsOf(c, logged) \o <<>> = EventsOf(c, logged)
    BY <2>3, ConcatEmptySeq
  <2> QED
    BY <1>1, <1>3, <2>2, <2>4, TakingIsLog
<1> QED
  BY <1>2, <1>3

\* A thread that neither takes nor logs nor closes is not seen.
LEMMA NothingSeen ==
  ASSUME UNCHANGED <<peer, sent, backlog, owner, logged>>,
         \A d \in Conn : Looked(d)' = Looked(d)
  PROVE  UNCHANGED Promise!vars
<1>1. Phases' = Phases
  BY NoneMoves
<1>2. [d \in Conn |-> EventsOf(d, logged)]' = [d \in Conn |-> EventsOf(d, logged)]
  BY DEF EventsOf
<1>3. [d \in Conn |-> Looked(d)]' = [d \in Conn |-> Looked(d)]
  OBVIOUS
<1> QED
  BY <1>1, <1>2, <1>3 DEF Promise!vars, Promise!lifeVars

\* A step that moves a connection takes and logs nothing.
LEMMA MovingIsNext ==
  ASSUME Promise!Moves, UNCHANGED logged
  PROVE  Promise!Next
<1>1. [d \in Conn |-> EventsOf(d, logged)]' = [d \in Conn |-> EventsOf(d, logged)]
  BY DEF EventsOf
<1> QED
  BY <1>1 DEF Promise!Next

LEMMA LookedStays ==
  ASSUME NEW d \in Conn, thread'[d] = thread[d], taken'[d] = taken[d]
  PROVE  Looked(d)' = Looked(d)
BY DEF Looked

-----------------------------------------------------------------------------
\* The steps of the peers, of the main thread and of the end of the process are those
\* of LogServer, and move the same connections.
LEMMA PeersPromise ==
  ASSUME ServerInv, Peers
  PROVE  Promise!Next
<1>1. PICK c \in Conn : PeerStep(c)
  BY DEF Peers
<1>2. UNCHANGED <<thread, taken, logged>>
  BY <1>1 DEF Peers, PeerStep, Connect, Write, Shutdown, Reset
<1>3. [d \in Conn |-> Looked(d)]' = [d \in Conn |-> Looked(d)]
  BY <1>2 DEF Looked
<1>4. Places
  BY DEF ServerInv, DescriptorInv
<1>5. CASE Connect(c)
  <2>1. Promise!Connect(c)
    BY <1>3, <1>4, <1>5, ConnectMoves DEF Connect, Moved, Promise!Connect, Promise!Phase
  <2> QED
    BY <1>2, <2>1, MovingIsNext DEF Promise!Moves
<1>6. CASE Write(c)
  <2>1. Len(Understood[c]) = Len(Writes[c])
    BY StreamIsSeq DEF Understood
  <2>2. Promise!Write(c)
    BY <1>3, <1>4, <1>6, <2>1, PeerStays DEF Write, Promise!Write
  <2> QED
    BY <1>2, <2>2, MovingIsNext DEF Promise!Moves
<1>7. CASE Shutdown(c) \/ Reset(c)
  <2>1. Promise!Leave(c)
    BY <1>3, <1>4, <1>7, PeerStays DEF Shutdown, Reset, Promise!Leave
  <2> QED
    BY <1>2, <2>1, MovingIsNext DEF Promise!Moves
<1> QED
  BY <1>1, <1>5, <1>6, <1>7 DEF PeerStep

LEMMA AcceptPromise ==
  ASSUME ServerInv, Accept
  PROVE  Promise!Next
<1>1. Places /\ LocalsTyped /\ Owned
  BY DEF ServerInv, DescriptorInv, Accept
<1>2. UNCHANGED <<peer, sent, taken, logged>>
  BY DEF Accept
<1>3. PICK c \in Conn : c = Head(backlog) /\ Moved(c, "queued", "open")
  BY <1>1, <1>2, AcceptMoves DEF Accept
<1>4. ~Live(c)
  <2>1. ~Open(c)
    BY <1>1, <1>3, HeadLeaves DEF Accept, AcceptAs
  <2> QED
    BY <1>1, <2>1 DEF Owned, Open
<1>5. /\ thread[c].at # "log" /\ thread'[c].at # "log"
      /\ \A d \in Conn : d # c => thread'[d] = thread[d]
  <2>1. NextFd \in Fd
    BY <1>1, AcceptKeepsPlaces DEF Accept
  <2>2. thread[c].at \in {"none", "ended"}
    BY <1>1, <1>4 DEF Live, LocalsTyped, Thread
  <2> QED
    BY <1>1, <1>3, <2>1, <2>2 DEF Accept, LocalsTyped, NoThread
<1>6. [d \in Conn |-> Looked(d)]' = [d \in Conn |-> Looked(d)]
  BY <1>2, <1>5 DEF Looked
<1>7. Promise!Accept(c)
  BY <1>2, <1>3, <1>6 DEF Moved, Promise!Accept, Promise!Phase
<1> QED
  BY <1>2, <1>7, MovingIsNext DEF Promise!Moves

LEMMA AcceptFailsPromise ==
  ASSUME ServerInv, AcceptFails
  PROVE  Promise!Next
<1>1. Places /\ UNCHANGED <<peer, sent, taken, owner, thread, logged>> /\ backlog' = <<>>
  BY DEF ServerInv, DescriptorInv, AcceptFails
<1>2. [d \in Conn |-> Looked(d)]' = [d \in Conn |-> Looked(d)]
  BY <1>1 DEF Looked
<1>3. Promise!StopListening
  BY <1>1, <1>2, ListenerMoves DEF Promise!StopListening
<1> QED
  BY <1>1, <1>3, MovingIsNext DEF Promise!Moves

LEMMA EndPromise ==
  ASSUME ServerInv, EndOfProcess
  PROVE  Promise!Next
<1>1. /\ Places /\ UNCHANGED <<peer, sent, taken, thread, logged>> /\ backlog' = <<>>
      /\ \A fd \in Fd : owner'[fd] = NoConn
  BY DEF ServerInv, DescriptorInv, EndOfProcess
<1>2. [d \in Conn |-> Looked(d)]' = [d \in Conn |-> Looked(d)]
  BY <1>1 DEF Looked
<1>3. Promise!Stop
  BY <1>1, <1>2, ProcessMoves DEF Promise!Stop
<1> QED
  BY <1>1, <1>3, MovingIsNext DEF Promise!Moves

-----------------------------------------------------------------------------
\* A thread closes its connection when the peer is gone or the stream is refused.
LEMMA CleanUpPromise ==
  ASSUME ServerInv, NEW c \in Conn, CleanUp(c)
  PROVE  Promise!Next
<1> DEFINE fd == thread[c].fd
<1>1. /\ pc # "exited" /\ Live(c) /\ thread[c].at = "cleanup"
      /\ Close(fd) /\ UNCHANGED <<taken, logged>>
      /\ Goes(c, "ended", thread[c].byteBuf, 0)
  BY DEF CleanUp, At, Live
<1>2. /\ ThreadFits(c) /\ taken[c] \in 0..Len(Stream(c)) /\ thread[c].byteBuf \in Seq(Token)
      /\ fd \in Fd /\ owner[fd] = c /\ Places /\ LocalsTyped
  BY <1>1, RunningFacts, ThreadFacts DEF ServerInv, DescriptorInv, Peer
<1>3. /\ UNCHANGED <<peer, sent, backlog>> /\ thread'[c].at = "ended"
      /\ \A d \in Conn : d # c => thread'[d] = thread[d]
  BY <1>1, <1>2, GoesTyped
<1> HIDE DEF fd
<1>4. Moved(c, "open", "closed")
  BY <1>1, <1>2, <1>3, CloseMoves
<1>5. [d \in Conn |-> Looked(d)]' = [d \in Conn |-> Looked(d)] /\ Looked(c) = taken[c]
  BY <1>1, <1>3 DEF Looked
<1>6. \/ peer[c] = "rst"
      \/ peer[c] = "fin" /\ taken[c] = sent[c]
      \/ ~Promise!Acceptable(Promise!Stream(c), taken[c])
  BY <1>1, <1>2, HeardRefused DEF ThreadFits, Done
<1>7. Promise!Close(c)
  BY <1>3, <1>4, <1>5, <1>6 DEF Moved, Promise!Close, Promise!Phase
<1> QED
  BY <1>1, <1>7, MovingIsNext DEF Promise!Moves

\* The marker is taken: no event ends in it.
LEMMA StartReadPromise ==
  ASSUME ServerInv, NEW c \in Conn, StartRead(c)
  PROVE  Promise!Next \/ UNCHANGED Promise!vars
<1> DEFINE b    == thread[c].byteBuf
           size == MarkerLen - Len(b)
           new  == Received(c, size)
<1>1. /\ pc # "exited" /\ Live(c) /\ thread[c].at = "start" /\ Len(b) < MarkerLen
      /\ Read(c, size, "start", b)
  BY DEF StartRead, InMarker, At, Live
<1>2. /\ CountsInRange /\ Peer(c) = c /\ b \in Seq(Token) /\ taken[c] \in Nat
      /\ sent[c] \in Nat /\ LocalsTyped
  BY <1>1, RunningFacts DEF ServerInv, DescriptorInv
<1>3. size \in Nat \ {0}
  <2> DEFINE n == Len(b)
  <2>1. n \in Nat /\ n < 2
    BY <1>1, <1>2, LenProperties DEF MarkerLen
  <2> HIDE DEF n
  <2>2. 2 - n \in Nat \ {0}
    BY <2>1
  <2> QED
    BY <2>2 DEF n, MarkerLen
<1>4. /\ RecvData(c) /\ Take(c, new) /\ Goes(c, "start", b \o new, Len(new))
      /\ UNCHANGED <<owner, logged>>
  BY <1>1, <1>2 DEF Read
<1> HIDE DEF b, size
<1>5. /\ new \in Seq(Token) /\ Len(new) \in Nat
      /\ taken'[c] \in (taken[c] + 1)..sent[c]
      /\ \A d \in Conn : d # c => taken'[d] = taken[d]
  BY <1>2, <1>3, <1>4, ReceivedProps, ReceivedIsPart, LenProperties
<1> HIDE DEF new
<1>6. b \o new \in Seq(Token)
  BY <1>2, <1>5
<1>7. /\ UNCHANGED <<peer, sent, backlog>> /\ thread'[c].at = "start"
      /\ \A d \in Conn : d # c => thread'[d] = thread[d]
  BY <1>2, <1>4, <1>5, <1>6, GoesTyped
<1>8. taken'[c] <= 2
  BY <1>7, StartReadKeepsFits DEF ThreadFits, MarkerLen
<1>9. /\ Looked(c) = taken[c] /\ Looked(c)' = taken'[c]
      /\ \A d \in Conn : d # c => Looked(d)' = Looked(d)
  BY <1>1, <1>5, <1>7 DEF Looked
<1>10. PICK to \in Nat : to = taken'[c] /\ Looked(c) <= to /\ to <= sent[c] /\ to <= 2
  BY <1>2, <1>5, <1>8, <1>9
<1>11. ASSUME NEW k \in (Looked(c) + 1)..to, Known(c)
       PROVE  Stream(c)[k].kind # "event"
  <2>1. k \in {1, 2}
    BY <1>2, <1>9, <1>10
  <2> QED
    BY <1>11, <2>1 DEF Known
<1> QED
  BY <1>1, <1>2, <1>4, <1>7, <1>9, <1>10, <1>11, TakingNothing

\* The steps that move no byte and log nothing.
LEMMA QuietPromise ==
  ASSUME ServerInv, NEW c \in Conn, Start(c) \/ StartRefused(c) \/ RecvEnds(c)
  PROVE  UNCHANGED Promise!vars
<1>1. /\ pc # "exited" /\ Live(c) /\ thread[c].at # "log" /\ UNCHANGED <<taken, owner, logged>>
      /\ \E buf \in {<<>>, thread[c].byteBuf}, place \in {"recv", "cleanup"} :
            Goes(c, place, buf, 0)
  BY DEF Start, StartRefused, RecvEnds, InMarker, AfterMarker, At, Live
<1>2. PICK buf \in {<<>>, thread[c].byteBuf}, place \in {"recv", "cleanup"} :
        Goes(c, place, buf, 0)
  BY <1>1
<1>3. buf \in Seq(Token)
  <2>1. thread[c].byteBuf \in Seq(Token) /\ <<>> \in Seq(Token)
    BY <1>1, RunningFacts
  <2> QED
    BY <2>1
<1>4. /\ UNCHANGED <<peer, sent, backlog>> /\ thread'[c].at # "log"
      /\ \A d \in Conn : d # c => thread'[d] = thread[d]
  BY <1>2, <1>3, GoesTyped DEF ServerInv, DescriptorInv
<1>5. \A d \in Conn : Looked(d)' = Looked(d)
  BY <1>1, <1>4 DEF Looked
<1> QED
  BY <1>1, <1>4, <1>5, NothingSeen

\* recv takes bytes that nobody has looked at yet.
LEMMA RecvPromise ==
  ASSUME ServerInv, NEW c \in Conn, Recv(c)
  PROVE  UNCHANGED Promise!vars
<1> DEFINE r == thread'[c].recvBytes
           n == Len(thread[c].byteBuf)
<1>1. /\ thread[c].at = "recv" /\ thread'[c].at = "log"
      /\ Len(thread'[c].byteBuf) = n + r /\ taken'[c] = taken[c] + r
      /\ r \in Nat /\ n \in Nat /\ taken[c] \in Nat
      /\ \A d \in Conn : d # c => taken'[d] = taken[d] /\ thread'[d] = thread[d]
      /\ UNCHANGED <<peer, sent, backlog, owner, logged>>
  BY RecvKeepsFits DEF Recv, At, ServerInv, DescriptorInv, CountsInRange
<1> HIDE DEF r, n
<1>2. Looked(c)' = (taken[c] + r) - Min({n + r, r}) /\ Looked(c) = taken[c]
  BY <1>1 DEF Looked, r
<1>3. Min({n + r, r}) = r
  <2>1. n + r \in Nat /\ r <= n + r /\ (n + r <= r => n + r = r)
    BY <1>1
  <2> QED
    BY <1>1, <2>1, MinOfTwo
<1>4. Looked(c)' = Looked(c)
  BY <1>1, <1>2, <1>3
<1>5. \A d \in Conn : Looked(d)' = Looked(d)
  BY <1>1, <1>4, LookedStays
<1> QED
  BY <1>1, <1>5, NothingSeen

\* An event is logged: of what was not looked at yet, it is all that has become due.
LEMMA LogEventPromise ==
  ASSUME ServerInv, NEW c \in Conn, LogEvent(c)
  PROVE  Promise!Next \/ UNCHANGED Promise!vars
<1> DEFINE b == thread[c].byteBuf
           s == Stream(c)
           f == From(c)
<1>1. /\ pc # "exited" /\ Live(c) /\ thread[c].at = "log" /\ At(c, "log")
      /\ UNCHANGED <<taken, owner>>
  BY DEF LogEvent, At, Live
<1>2. PICK n \in 1..Len(b) :
        /\ EventOfLength(b, n)
        /\ Goes(c, "log", Erase(b, n), thread[c].recvBytes)
        /\ logged' = IF b[n].kind = "event" THEN Append(logged, b[n]) ELSE logged
  BY DEF LogEvent
<1>3. /\ ThreadFits(c) /\ s \in Seq(Token) /\ taken[c] \in 0..Len(s) /\ taken[c] \in Nat
      /\ taken[c] <= sent[c] /\ sent[c] \in Nat /\ thread[c].recvBytes \in Nat
      /\ logged \in Seq(Token)
  BY <1>1, RunningFacts DEF ServerInv, DescriptorInv
<1>4. Known(c)
  BY <1>1, <1>3 DEF ThreadFits, Decodes
<1>5. /\ n \in Nat /\ f + n \in (f + 1)..taken[c] /\ b[n] = s[f + n]
      /\ s[f + n].kind \in FrameEnds
      /\ \A k \in (f + 1)..(f + n - 1) : s[k].kind = "body"
      /\ taken[c] - thread[c].recvBytes < f + n
      /\ CleanUpTo(s, f + n)
  BY <1>1, <1>2, EventIsNext
<1>6. /\ From(c)' = f + n
      /\ thread'[c].at = "log" /\ thread'[c].recvBytes = thread[c].recvBytes
      /\ \A d \in Conn : d # c => thread'[d] = thread[d]
      /\ UNCHANGED <<peer, sent, backlog>> /\ Len(thread'[c].byteBuf) \in Nat
  BY <1>1, <1>2, LogEventKeepsFits
<1>7. /\ Looked(c) \in Nat /\ f <= Looked(c) /\ f \in Nat /\ 2 <= f
      /\ Looked(c) = f \/ Looked(c) = taken[c] - thread[c].recvBytes
  BY <1>1, LookedIs DEF MarkerLen
<1> HIDE DEF b, s, f
<1>8. PICK to \in 1..Len(s) : to = f + n /\ to <= taken[c] /\ 2 < to /\ Looked(c) < to
  BY <1>3, <1>5, <1>7
<1>9. Looked(c)' = to
  <2> DEFINE m == Len(thread'[c].byteBuf)
             r == thread[c].recvBytes
  <2>1. taken[c] - m = to /\ m \in Nat /\ r \in Nat
    BY <1>1, <1>3, <1>6, <1>8 DEF From
  <2>2. Looked(c)' = taken[c] - Min({m, r})
    BY <1>1, <1>6 DEF Looked
  <2> HIDE DEF m, r
  <2>3. m <= r
    BY <1>3, <1>5, <1>8, <2>1 DEF r
  <2>4. Min({m, r}) = m
    BY <2>1, <2>3, MinOfTwo
  <2> QED
    BY <2>1, <2>2, <2>4
<1>10. \A d \in Conn : d # c => Looked(d)' = Looked(d)
  BY <1>1, <1>6, LookedStays
<1>11. to \in Nat /\ to <= sent[c]
  BY <1>3, <1>8
<1>12. CASE s[to].kind = "event"
  <2>1. PICK from \in 0..(to - 1) : from = Looked(c)
    BY <1>7, <1>8
  <2>2. \A k \in (from + 1)..(to - 1) : s[k].kind = "body"
    <3>1. (from + 1)..(to - 1) \subseteq (f + 1)..(f + n - 1)
      BY <1>5, <1>7, <1>8, <2>1
    <3> QED
      BY <1>5, <3>1
  <2>3. Promise!Completed(c, from, to) = <<s[to]>>
    BY <1>4, <1>5, <1>8, <1>12, <2>2, CompletedOne DEF s
  <2>4. logged' = logged \o <<s[to]>>
    <3>1. s[to] \in Token
      BY <1>3
    <3>2. logged' = Append(logged, s[to])
      BY <1>2, <1>5, <1>8, <1>12
    <3> QED
      BY <1>3, <3>1, <3>2, AppendIsConcat
  <2>5. <<s[to]>> \in Seq(TokensOf(c))
    <3>1. s[to] \in TokensOf(c)
      <4>1. s[to] \in Token
        BY <1>3
      <4>2. to \in 1..Len(Writes[c])
        BY <1>8, StreamIsSeq DEF s
      <4>3. s[to].id = <<c, to>>
        BY <4>2 DEF s, Stream
      <4> QED
        BY <4>1, <4>3 DEF TokensOf
    <3> QED
      BY <3>1
  <2>6. \A d \in Conn :
           EventsOf(d, logged') = EventsOf(d, logged) \o (IF d = c THEN <<s[to]>> ELSE <<>>)
    <3>1. logged \in Seq(Token)
      BY <1>3
    <3> DEFINE new == <<s[to]>>
    <3>2. new \in Seq(TokensOf(c)) /\ logged' = logged \o new
      BY <2>4, <2>5
    <3> HIDE DEF new
    <3>3. \A d \in Conn :
             EventsOf(d, logged \o new) = EventsOf(d, logged) \o (IF d = c THEN new ELSE <<>>)
      BY <3>1, <3>2, EventsOfMore, SMTT(30)
    <3> QED
      BY <3>2, <3>3 DEF new
  <2>7. \A d \in Conn : EventsOf(d, logged)' = EventsOf(d, logged')
    BY DEF EventsOf
  <2>8. \A d \in Conn : d # c => EventsOf(d, logged)' = EventsOf(d, logged)
    <3>1. \A d \in Conn : EventsOf(d, logged) \in Seq(Token)
      BY <1>3, OnlyType DEF EventsOf
    <3> QED
      BY <2>6, <2>7, <3>1, ConcatEmptySeq
  <2>9. EventsOf(c, logged)' = EventsOf(c, logged) \o Promise!Completed(c, Looked(c), to)
    BY <2>1, <2>3, <2>6, <2>7
  <2> QED
    BY <1>1, <1>6, <1>7, <1>8, <1>9, <1>10, <1>11, <2>8, <2>9, TakingIsLog
<1>13. CASE s[to].kind # "event"
  <2>1. UNCHANGED logged
    BY <1>2, <1>5, <1>8, <1>13
  <2>2. \A k \in (Looked(c) + 1)..to : s[k].kind # "event"
    <3>1. ASSUME NEW k \in (Looked(c) + 1)..to
          PROVE  s[k].kind # "event"
      <4>1. k = to \/ k \in (f + 1)..(f + n - 1)
        BY <1>5, <1>7, <1>8
      <4> QED
        BY <1>5, <1>13, <4>1
    <3> QED
      BY <3>1
  <2> QED
    BY <1>1, <1>6, <1>7, <1>8, <1>9, <1>10, <1>11, <2>1, <2>2, TakingNothing DEF s
<1> QED
  BY <1>12, <1>13

\* The loop ends: no event ends in what was not looked at yet.
LEMMA LoopPromise ==
  ASSUME ServerInv, NEW c \in Conn, LoopEnds(c) \/ LoopFails(c)
  PROVE  Promise!Next \/ UNCHANGED Promise!vars
<1>1. /\ pc # "exited" /\ Live(c) /\ thread[c].at = "log" /\ UNCHANGED <<taken, owner, logged>>
      /\ \E place \in {"recv", "cleanup"} : Goes(c, place, thread[c].byteBuf, 0)
  BY DEF LoopEnds, LoopFails, At, Live
<1>2. /\ thread[c].byteBuf \in Seq(Token) /\ taken[c] \in Nat /\ sent[c] \in Nat
      /\ taken[c] <= sent[c]
  BY <1>1, RunningFacts
<1>3. /\ UNCHANGED <<peer, sent, backlog>> /\ thread'[c].at # "log"
      /\ \A d \in Conn : d # c => thread'[d] = thread[d]
  <2>1. PICK place \in {"recv", "cleanup"} : Goes(c, place, thread[c].byteBuf, 0)
    BY <1>1
  <2>2. LocalsTyped /\ place \in {"start", "recv", "log", "cleanup", "ended"} /\ place # "log"
    BY DEF ServerInv, DescriptorInv
  <2> DEFINE b == thread[c].byteBuf
  <2>4. b \in Seq(Token) /\ Goes(c, place, b, 0) /\ 0 \in Nat
    BY <1>2, <2>1
  <2> HIDE DEF b
  <2>3. /\ UNCHANGED <<pc, peer, sent, backlog>> /\ thread'[c].at = place
        /\ \A d \in Conn : d # c => thread'[d] = thread[d]
    BY <2>2, <2>4, GoesTyped
  <2> QED
    BY <2>2, <2>3
<1>4. /\ Looked(c) \in Nat /\ From(c) <= Looked(c) /\ Looked(c) <= taken[c] /\ From(c) \in Nat
  BY <1>1, LookedIs
<1>5. Looked(c)' = taken[c] /\ \A d \in Conn : d # c => Looked(d)' = Looked(d)
  BY <1>1, <1>3 DEF Looked
<1>6. \A k \in (From(c) + 1)..taken[c] :
         ~(Stream(c)[k].kind = "event" /\ CleanUpTo(Stream(c), k))
  <2>1. CASE LoopEnds(c)
    BY <2>1, LoopEndsKeepsFits
  <2>2. CASE LoopFails(c)
    BY <1>1, <2>2, MalformedIsRefused DEF LoopFails
  <2> QED
    BY <2>1, <2>2
<1>7. (Looked(c) + 1)..taken[c] \subseteq (From(c) + 1)..taken[c]
  BY <1>2, <1>4
<1> QED
  BY <1>1, <1>2, <1>3, <1>4, <1>5, <1>6, <1>7, TakingNothing

-----------------------------------------------------------------------------
LEMMA PromiseBegins == Init => Promise!Init
<1> SUFFICES ASSUME Init PROVE Promise!Init
  OBVIOUS
<1>1. [c \in Conn |-> Looked(c)] = [c \in Conn |-> 0]
  BY DEF Init, SocketsInit, NoThread, Looked
<1>2. \A c \in Conn : EventsOf(c, logged) = <<>>
  BY OnlyEmpty DEF Init, EventsOf
<1>3. Promise!LifeInit
  BY <1>1, NoneConnected DEF Init, SocketsInit, Promise!LifeInit
<1> QED
  BY <1>2, <1>3 DEF Promise!Init

LEMMA StepKeepsPromise == ServerInv /\ [Next]_vars => [Promise!Next]_(Promise!vars)
<1> SUFFICES ASSUME ServerInv, [Next]_vars
             PROVE  Promise!Next \/ UNCHANGED Promise!vars
  OBVIOUS
<1>1. CASE Peers
  BY <1>1, PeersPromise
<1>2. CASE Accept
  BY <1>2, AcceptPromise
<1>3. CASE AcceptFails
  BY <1>3, AcceptFailsPromise
<1>4. CASE Exit \/ ThreadFails
  BY <1>4, EndPromise DEF Exit, ThreadFails
<1>5. ASSUME NEW c \in Conn, ThreadRuns(c)
      PROVE  Promise!Next \/ UNCHANGED Promise!vars
  <2>1. CASE StartRead(c)
    BY <2>1, StartReadPromise
  <2>2. CASE Start(c) \/ StartRefused(c) \/ RecvEnds(c)
    BY <2>2, QuietPromise
  <2>3. CASE Recv(c)
    BY <2>3, RecvPromise
  <2>4. CASE LogEvent(c)
    BY <2>4, LogEventPromise
  <2>5. CASE LoopEnds(c) \/ LoopFails(c)
    BY <2>5, LoopPromise
  <2>6. CASE Abort(c)
    BY <2>6, EndPromise DEF Abort
  <2>7. CASE CleanUp(c)
    BY <2>7, CleanUpPromise
  <2> QED
    BY <1>5, <2>1, <2>2, <2>3, <2>4, <2>5, <2>6, <2>7 DEF ThreadRuns
<1>6. CASE UNCHANGED vars
  <2>1. UNCHANGED <<peer, sent, taken, backlog, owner, thread, logged>>
    BY <1>6 DEF vars, socketVars
  <2> QED
    BY <2>1, LookedStays, NothingSeen
<1> QED
  BY <1>1, <1>2, <1>3, <1>4, <1>5, <1>6 DEF Next, MainRuns

\* The threads together are a log server, however their steps interleave: each of them
\* logs exactly the events its own connection's bytes complete, in order, and closes
\* that connection only when its peer is gone or its stream refused.
THEOREM ThreadsImplementLogServer == Spec => ImplementsLogServer
<1>1. Init => Promise!Init
  BY PromiseBegins
<1>2. ServerInv /\ [Next]_vars => [Promise!Next]_(Promise!vars)
  BY StepKeepsPromise
<1> QED
  BY <1>1, <1>2, ServerInvariant, PTL DEF Spec, ImplementsLogServer, Promise!Spec

-----------------------------------------------------------------------------
\* What is logged is what the bytes looked at complete, as it is of LogServer at every
\* moment, and a thread in the loop of forceLog has looked at all but its last recv.
Unlogged(c) == taken[c] - Looked(c)

LoggedFits(c) ==
  /\ EventsOf(c, logged) = Promise!Completed(c, 0, Looked(c))
  /\ thread[c].at = "log" => thread[c].recvBytes <= BufferLen

\* What a stream owes up to a place is what it owes up to an earlier one, and what is
\* completed from there on.
LEMMA CompletedSplit ==
  ASSUME NEW c \in Conn, NEW to \in 0..Len(Stream(c)), NEW from \in 0..to
  PROVE  Promise!Completed(c, 0, to) = Promise!Completed(c, 0, from) \o Promise!Completed(c, from, to)
<1> DEFINE h == Heard(c)
           K == {t \in Token : t.id[2] \in Promise!Owed(Heard(c), to)}
           L == {t \in Token : t.id[2] \in Promise!Owed(Heard(c), from)}
           p == Part(h, 0, from)
<1>1. /\ h \in Seq(Token) /\ Len(h) = Len(Stream(c)) /\ Len(Stream(c)) \in Nat
      /\ \A i \in 1..Len(Stream(c)) : h[i].id = <<c, i>>
  BY HeardIs, StreamIsSeq
<1>2. /\ Promise!Completed(c, 0, to) = Only(Part(h, 0, to), K)
      /\ Promise!Completed(c, from, to) = Only(Part(h, from, to), K)
      /\ Promise!Completed(c, 0, from) = Only(p, L)
  BY CompletedIs
<1>3. \A k \in 1..from : k \in Promise!Owed(Heard(c), to) <=> k \in Promise!Owed(Heard(c), from)
  <2>1. from \in 0..Len(Stream(c)) /\ \A k \in 1..from : k \in Nat /\ (k \in 3..to <=> k \in 3..from)
    BY <1>1
  <2> QED
    BY <2>1, HeardOwed
<1> HIDE DEF h
<1>4. to \in 0..Len(h) /\ from \in 0..Len(h) /\ 0 \in 0..from
  BY <1>1
<1>5. p \in Seq(Token) /\ Len(p) = from /\ \A i \in 1..from : p[i] = h[i]
  BY <1>1, <1>4, FrontIs
<1>6. ASSUME NEW i \in 1..Len(p)
      PROVE  p[i] \in K <=> p[i] \in L
  <2>1. i \in 1..from /\ i \in 1..Len(Stream(c)) /\ p[i] = h[i]
    BY <1>1, <1>5
  <2>2. p[i].id[2] = i
    BY <1>1, <2>1
  <2> QED
    BY <1>3, <2>1, <2>2
<1> HIDE DEF p, K, L
<1>7. Only(p, K) = Only(p, L)
  BY <1>5, <1>6, OnlySame
<1>8. Only(Part(h, 0, to), K) = Only(Part(h, 0, from), K) \o Only(Part(h, from, to), K)
  BY <1>1, <1>4, OnlyJoin
<1> QED
  BY <1>2, <1>7, <1>8 DEF p

\* What has been looked at is part of what was taken, and what has not is part of the
\* last recv of a thread that logs.
LEMMA UnloggedIs ==
  ASSUME ServerInv, NEW c \in Conn
  PROVE  /\ Looked(c) \in 0..taken[c] /\ taken[c] \in 0..Len(Stream(c))
         /\ Unlogged(c) \in Nat
         /\ Unlogged(c) > 0 => thread[c].at = "log" /\ Unlogged(c) <= thread[c].recvBytes
<1>1. /\ taken[c] \in Nat /\ taken[c] \in 0..Len(Stream(c))
      /\ thread[c].recvBytes \in Nat /\ thread[c].byteBuf \in Seq(Token)
  <2>1. CountsInRange /\ LocalsTyped
    BY DEF ServerInv, DescriptorInv
  <2>2. taken[c] \in Nat /\ sent[c] \in Nat /\ taken[c] <= sent[c] /\ sent[c] <= Len(Writes[c])
    BY <2>1 DEF CountsInRange
  <2> QED
    BY <2>1, <2>2, StreamIsSeq DEF LocalsTyped, Thread
<1>2. CASE thread[c].at # "log"
  BY <1>1, <1>2 DEF Looked, Unlogged
<1>3. CASE thread[c].at = "log"
  <2> DEFINE n == Len(thread[c].byteBuf)
             r == thread[c].recvBytes
             t == taken[c]
  <2>1. n \in Nat /\ r \in Nat /\ t \in Nat
    BY <1>1
  <2>2. 2 <= t - n
    BY <1>3 DEF ServerInv, ThreadFits, Decodes, From, MarkerLen
  <2>3. Looked(c) = t - Min({n, r})
    BY <1>3 DEF Looked
  <2> HIDE DEF n, r, t
  <2>4. Min({n, r}) = IF n <= r THEN n ELSE r
    BY <2>1, MinOfTwo
  <2>5. Looked(c) \in 0..t /\ t - Looked(c) \in Nat /\ t - Looked(c) <= r
    BY <2>1, <2>2, <2>3, <2>4
  <2> QED
    BY <1>1, <1>3, <2>5 DEF Unlogged, r, t
<1> QED
  BY <1>2, <1>3

\* A step of LogServer or none keeps it so.
LEMMA PromiseKeepsLogged ==
  ASSUME ServerInv, ServerInv', \A c \in Conn : LoggedFits(c),
         Promise!Next \/ UNCHANGED Promise!vars,
         NEW c \in Conn
  PROVE  EventsOf(c, logged)' = Promise!Completed(c, 0, Looked(c)')
<1>1. EventsOf(c, logged) = Promise!Completed(c, 0, Looked(c))
  BY DEF LoggedFits
<1>2. CASE UNCHANGED <<[d \in Conn |-> Looked(d)], [d \in Conn |-> EventsOf(d, logged)]>>
  <2>1. [d \in Conn |-> Looked(d)]'[c] = [d \in Conn |-> Looked(d)][c]
    BY <1>2
  <2>2. [d \in Conn |-> EventsOf(d, logged)]'[c] = [d \in Conn |-> EventsOf(d, logged)][c]
    BY <1>2
  <2>3. Looked(c)' = Looked(c) /\ EventsOf(c, logged)' = EventsOf(c, logged)
    BY <2>1, <2>2
  <2> QED
    BY <1>1, <2>3
<1>3. CASE Promise!Moves /\ UNCHANGED [d \in Conn |-> EventsOf(d, logged)]
  BY <1>2, <1>3 DEF Promise!Moves, Promise!Connect, Promise!Write, Promise!Leave, Promise!Accept,
                    Promise!Close, Promise!Drop, Promise!StopListening, Promise!Stop
<1>4. ASSUME NEW d \in Conn, Promise!Log(d)
      PROVE  EventsOf(c, logged)' = Promise!Completed(c, 0, Looked(c)')
  <2>1. PICK n : /\ [e \in Conn |-> Looked(e)]' = [[e \in Conn |-> Looked(e)] EXCEPT ![d] = n]
                 /\ n \in (Looked(d) + 1)..sent[d]
    BY <1>4 DEF Promise!Log, Promise!Read
  <2>2. \A e \in Conn : Looked(e)' = IF e = d THEN n ELSE Looked(e)
    <3>1. \A e \in Conn : [f \in Conn |-> Looked(f)]'[e] = IF e = d THEN n ELSE Looked(e)
      BY <2>1
    <3> QED
      BY <3>1
  <2>3. [e \in Conn |-> EventsOf(e, logged)]' =
          [[e \in Conn |-> EventsOf(e, logged)] EXCEPT
             ![d] = @ \o Promise!Completed(d, Looked(d), Looked(d)')]
    BY <1>4 DEF Promise!Log
  <2>4. \A e \in Conn : EventsOf(e, logged)' =
          IF e = d THEN EventsOf(d, logged) \o Promise!Completed(d, Looked(d), Looked(d)')
                   ELSE EventsOf(e, logged)
    <3>1. \A e \in Conn : [f \in Conn |-> EventsOf(f, logged)]'[e] =
            IF e = d THEN EventsOf(d, logged) \o Promise!Completed(d, Looked(d), Looked(d)')
                     ELSE EventsOf(e, logged)
      BY <2>3
    <3> QED
      BY <3>1
  <2>5. CASE c # d
    BY <1>1, <2>2, <2>4, <2>5
  <2>6. CASE c = d
    <3>1. Looked(d) \in Nat
      BY UnloggedIs
    <3>2. n \in 0..Len(Stream(d)) /\ Looked(d) \in 0..n
      <4>1. sent[d] \in Nat /\ sent[d] <= Len(Stream(d)) /\ Len(Stream(d)) \in Nat
        BY StreamIsSeq DEF ServerInv, DescriptorInv, CountsInRange
      <4> QED
        BY <2>1, <3>1, <4>1
    <3>3. PICK from \in 0..n : from = Looked(d)
      BY <3>2
    <3>4. Promise!Completed(d, 0, n) = Promise!Completed(d, 0, from) \o Promise!Completed(d, from, n)
      BY <3>2, CompletedSplit
    <3> QED
      BY <1>1, <2>2, <2>4, <2>6, <3>3, <3>4
  <2> QED
    BY <2>5, <2>6
<1> QED
  BY <1>2, <1>3, <1>4 DEF Promise!Next, Promise!vars, Promise!lifeVars

\* Only recv brings a thread into the loop.
LEMMA StepKeepsLast ==
  ASSUME ServerInv, [Next]_vars, \A c \in Conn : LoggedFits(c), NEW c \in Conn
  PROVE  (thread[c].at = "log" => thread[c].recvBytes <= BufferLen)'
<1> DEFINE Last == thread[c].at = "log" => thread[c].recvBytes <= BufferLen
<1>1. Last /\ LocalsTyped
  BY DEF LoggedFits, ServerInv, DescriptorInv
<1>2. CASE UNCHANGED thread
  BY <1>1, <1>2
<1>3. CASE Accept
  <2>1. thread' = [thread EXCEPT ![Head(backlog)] = [NoThread EXCEPT !.at = "start", !.fd = NextFd]]
    BY <1>3 DEF Accept
  <2>2. thread'[c] = thread[c] \/ thread'[c].at = "start"
    BY <1>1, <2>1 DEF LocalsTyped, NoThread
  <2> QED
    BY <1>1, <2>2
<1>4. ASSUME NEW d \in Conn, ThreadRuns(d), ~Abort(d)
      PROVE  Last'
  <2>1. pc # "exited" /\ Live(d)
    BY <1>4 DEF ThreadRuns, StartRead, Start, StartRefused, RecvEnds, Recv, LogEvent, LoopEnds,
                LoopFails, CleanUp, InMarker, AfterMarker, At, Live
  <2>2. CASE Recv(d)
    <3> DEFINE new == Received(d, BufferLen)
    <3>1. RecvData(d) /\ Goes(d, "log", thread[d].byteBuf \o new, Len(new))
      BY <2>1, <2>2, RunningFacts DEF Recv, Read
    <3>2. new \in Seq(Token) /\ Len(new) <= BufferLen
      BY <3>1, ReceivedProps, ThreadServerAssumption DEF ServerInv, DescriptorInv
    <3>3. thread[d].byteBuf \in Seq(Token)
      BY <2>1, RunningFacts
    <3> HIDE DEF new
    <3> DEFINE buf == thread[d].byteBuf \o new
               n == Len(new)
    <3>4. buf \in Seq(Token) /\ n \in Nat /\ n <= BufferLen /\ Goes(d, "log", buf, n)
      BY <3>1, <3>2, <3>3
    <3> HIDE DEF buf, n
    <3>5. thread'[d].recvBytes = n /\ \A e \in Conn : e # d => thread'[e] = thread[e]
      BY <1>1, <3>4, GoesTyped
    <3> QED
      BY <1>1, <3>4, <3>5
  <2>3. CASE LogEvent(d)
    <3>1. PICK n \in 1..Len(thread[d].byteBuf) :
            Goes(d, "log", Erase(thread[d].byteBuf, n), thread[d].recvBytes)
      BY <2>3 DEF LogEvent
    <3>2. \A e \in Conn : thread'[e] = IF e = d THEN thread'[d] ELSE thread[e]
      BY <1>1, <3>1 DEF Goes, LocalsTyped
    <3>3. thread'[d].recvBytes = thread[d].recvBytes /\ thread[d].at = "log"
      BY <1>1, <2>3, <3>1 DEF Goes, LocalsTyped, Thread, LogEvent, At
    <3> QED
      BY <1>1, <3>2, <3>3
  <2>4. CASE ~Recv(d) /\ ~LogEvent(d)
    <3>1. \E place \in {"start", "recv", "cleanup", "ended"} : \E buf : \E n : Goes(d, place, buf, n)
      BY <1>4, <2>4 DEF ThreadRuns, StartRead, Read, Start, StartRefused, RecvEnds, LoopEnds,
                        LoopFails, CleanUp
    <3>2. PICK place \in {"start", "recv", "cleanup", "ended"} : \E buf : \E n : Goes(d, place, buf, n)
      BY <3>1
    <3>3. /\ thread'[d].at = place
          /\ \A e \in Conn : e # d => thread'[e] = thread[e]
      BY <1>1, <3>2 DEF Goes, LocalsTyped, Thread
    <3> QED
      BY <1>1, <3>2, <3>3
  <2> QED
    BY <2>2, <2>3, <2>4
<1>5. CASE Peers \/ AcceptFails \/ ThreadFails \/ Exit \/ UNCHANGED vars
  <2>1. UNCHANGED thread
    BY <1>5 DEF Peers, AcceptFails, ThreadFails, Exit, EndOfProcess, vars
  <2> QED
    BY <1>2, <2>1
<1>6. ASSUME NEW d \in Conn, Abort(d)
      PROVE  Last'
  BY <1>2, <1>6 DEF Abort, EndOfProcess
<1> QED
  BY <1>3, <1>4, <1>5, <1>6 DEF Next, MainRuns

\* Nothing is looked at or logged at first.
LEMMA LoggedBegins == Init => \A c \in Conn : LoggedFits(c)
<1> SUFFICES ASSUME Init, NEW c \in Conn PROVE LoggedFits(c)
  OBVIOUS
<1>1. thread[c] = NoThread /\ taken[c] = 0 /\ logged = <<>>
  BY DEF Init, SocketsInit
<1>2. Looked(c) = 0 /\ thread[c].at # "log"
  BY <1>1 DEF Looked, NoThread
<1>3. Promise!Completed(c, 0, 0) = <<>>
  <2>1. 0 \in 0..Len(Stream(c)) /\ 0 \in 0..0 /\ \A k \in (0 + 1)..0 : FALSE
    BY StreamIsSeq
  <2> QED
    BY <2>1, CompletedNone
<1>4. EventsOf(c, logged) = <<>>
  BY <1>1, OnlyEmpty DEF EventsOf
<1> QED
  BY <1>2, <1>3, <1>4 DEF LoggedFits

\* However the process ends, and at whatever moment, each thread has logged all that
\* was owed before its last recv, and all that recv brought too unless it was still at it.
THEOREM EndLosesOnlyLastRecv == Spec => []OnlyLastRecvIsUnlogged
<1> DEFINE Holds == ServerInv /\ \A c \in Conn : LoggedFits(c)
<1>1. Init => Holds
  BY ServerBegins, LoggedBegins
<1>2. Holds /\ [Next]_vars => Holds'
  <2> SUFFICES ASSUME Holds, [Next]_vars PROVE Holds'
    OBVIOUS
  <2>1. ServerInv /\ ServerInv'
    BY ServerStep
  <2>2. Promise!Next \/ UNCHANGED Promise!vars
    BY StepKeepsPromise
  <2>3. ASSUME NEW c \in Conn
        PROVE  LoggedFits(c)'
    <3>1. EventsOf(c, logged)' = Promise!Completed(c, 0, Looked(c)')
      BY <2>1, <2>2, PromiseKeepsLogged
    <3>2. (thread[c].at = "log" => thread[c].recvBytes <= BufferLen)'
      BY <2>1, StepKeepsLast
    <3> QED
      BY <3>1, <3>2 DEF LoggedFits
  <2> QED
    BY <2>1, <2>3
<1>3. Holds => OnlyLastRecvIsUnlogged
  <2> SUFFICES ASSUME Holds, NEW c \in Conn
               PROVE  \E n \in 0..BufferLen :
                        /\ n > 0 => thread[c].at = "log"
                        /\ n <= taken[c]
                        /\ EventsOf(c, logged) = Promise!Completed(c, 0, taken[c] - n)
    BY DEF OnlyLastRecvIsUnlogged
  <2> DEFINE n == Unlogged(c)
  <2>1. /\ Looked(c) \in 0..taken[c] /\ taken[c] \in Nat /\ n \in Nat
        /\ n > 0 => thread[c].at = "log" /\ n <= thread[c].recvBytes
    BY UnloggedIs
  <2>2. n <= taken[c] /\ taken[c] - n = Looked(c)
    BY <2>1 DEF Unlogged
  <2>3. n \in 0..BufferLen
    <3>1. thread[c].at = "log" => thread[c].recvBytes <= BufferLen /\ thread[c].recvBytes \in Nat
      BY DEF LoggedFits, ServerInv, DescriptorInv, LocalsTyped, Thread
    <3> HIDE DEF n
    <3> QED
      BY <2>1, <3>1, ThreadServerAssumption
  <2>4. EventsOf(c, logged) = Promise!Completed(c, 0, taken[c] - n)
    BY <2>2 DEF LoggedFits
  <2> HIDE DEF n
  <2> QED
    BY <2>1, <2>2, <2>3, <2>4
<1> QED
  BY <1>1, <1>2, <1>3, PTL DEF Spec
=============================================================================
