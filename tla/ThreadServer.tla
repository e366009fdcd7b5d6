---------------------------- MODULE ThreadServer ----------------------------
(***************************************************************************)
(* log4cxxSocketServer.cpp: the main thread accepts, a detached thread for   *)
(* each connection reads the four bytes of the start marker and then logs    *)
(* what recv brings.  It knows the default protocol only.  The threads share *)
(* the descriptor table and the appenders; the process ends, with all of     *)
(* them, when accept fails once or a thread cannot be made.                  *)
(***************************************************************************)
EXTENDS Sockets

CONSTANT BufferLen (* BUF_LEN: the most recv returns in one call            *)

ASSUME ThreadServerAssumption == BufferLen \in Nat \ {0}

VARIABLES
  thread,       (* the thread of each connection, and its locals             *)
  pc,           (* where the main thread is                                  *)
  asserts,      (* whether assert() is compiled in                           *)
  logged        (* history: the last tokens of the events logged             *)

vars == <<socketVars, thread, pc, asserts, logged>>

Thread ==
  [at : {"none", "start", "recv", "log", "cleanup", "ended"},
   fd : Fd \cup {ListenFd}, byteBuf : Seq(Token), recvBytes : Nat]

NoThread == [at |-> "none", fd |-> ListenFd, byteBuf |-> <<>>, recvBytes |-> 0]

TypeOK ==
  /\ SocketsTypeOK
  /\ thread \in [Conn -> Thread]
  /\ pc \in {"accept", "exiting", "exited"}
  /\ asserts \in BOOLEAN
  /\ logged \in Seq(Token)

Init ==
  /\ SocketsInit
  /\ thread = [c \in Conn |-> NoThread]
  /\ pc = "accept"
  /\ asserts \in BOOLEAN
  /\ logged = <<>>

-----------------------------------------------------------------------------
\* The process ends: the system closes every descriptor, the threads stop
\* wherever they are.
EndOfProcess ==
  /\ pc' = "exited"
  /\ backlog' = <<>>
  /\ owner' = [fd \in Fd |-> NoConn]
  /\ UNCHANGED <<peer, sent, taken, thread, asserts, logged>>

\* accept returned a connection, and a thread for it was made and detached.
Accept ==
  /\ pc = "accept"
  /\ FreeFds # {}
  /\ AcceptAs(NextFd)
  /\ thread' = [thread EXCEPT ![Head(backlog)] = [NoThread EXCEPT !.at = "start", !.fd = NextFd]]
  /\ UNCHANGED <<peer, sent, taken, pc, asserts, logged>>

\* accept fails, for any reason - no descriptor may be free -, whether or not
\* somebody is waiting: the loop is left and the listener closed; the detached
\* threads go on ...
AcceptFails ==
  /\ pc = "accept"
  /\ backlog' = <<>>
  /\ pc' = "exiting"
  /\ UNCHANGED <<peer, sent, taken, owner, thread, asserts, logged>>

\* ... until main returns.
Exit == pc = "exiting" /\ EndOfProcess

\* The constructor of std::thread throws, and nobody catches it.
ThreadFails ==
  /\ pc = "accept"
  /\ backlog # <<>> /\ FreeFds # {}
  /\ EndOfProcess

-----------------------------------------------------------------------------
At(c, place) == pc # "exited" /\ thread[c].at = place

\* The thread of c goes to a place with these locals.
Goes(c, place, buf, n) ==
  /\ thread' = [thread EXCEPT ![c] = [@ EXCEPT !.at = place, !.byteBuf = buf, !.recvBytes = n]]
  /\ UNCHANGED <<pc, asserts, peer, sent, backlog>>

\* The connection the descriptor of c's thread now stands for.
Peer(c) == owner[thread[c].fd]

\* recv, for at most this many bytes, into a buffer that holds buf.
Read(c, size, place, buf) ==
  /\ RecvData(Peer(c))
  /\ LET bytes == Received(Peer(c), size) IN
       /\ Take(Peer(c), bytes)
       /\ Goes(c, place, buf \o bytes, Len(bytes))
  /\ UNCHANGED <<owner, logged>>

\* The marker: recv until four bytes are there, ...
InMarker(c) == At(c, "start") /\ Len(thread[c].byteBuf) < MarkerLen

\* Mutant: the whole buffer is offered to recv, not the rest of the marker.
StartReadAll(c) ==
  InMarker(c) /\ Read(c, BufferLen, "start", thread[c].byteBuf)

StartRead(c) ==
  /\ InMarker(c)
  /\ Read(c, MarkerLen - Len(thread[c].byteBuf), "start", thread[c].byteBuf)

\* ... then readStart of the default protocol.
MarkerKnown(c) == Matches(thread[c].byteBuf, "default")
AfterMarker(c) == At(c, "start") /\ Len(thread[c].byteBuf) >= MarkerLen

Start(c) ==
  /\ AfterMarker(c) /\ MarkerKnown(c)
  /\ Goes(c, "recv", <<>>, 0)
  /\ UNCHANGED <<taken, owner, logged>>

StartRefused(c) ==
  /\ AfterMarker(c) /\ ~MarkerKnown(c)
  /\ ~asserts
  /\ Goes(c, "cleanup", <<>>, 0)
  /\ UNCHANGED <<taken, owner, logged>>

\* Mutant: only recvBytes < 0 is the end, not recvBytes = 0.
RecvEndsOnError(c) ==
  /\ InMarker(c) \/ At(c, "recv")
  /\ RecvError(Peer(c))
  /\ Goes(c, "cleanup", thread[c].byteBuf, 0)
  /\ UNCHANGED <<taken, owner, logged>>

\* recv fails or the peer has shut down, also inside the marker.
RecvEnds(c) ==
  /\ InMarker(c) \/ At(c, "recv")
  /\ RecvError(Peer(c)) \/ RecvEof(Peer(c))
  /\ Goes(c, "cleanup", thread[c].byteBuf, 0)
  /\ UNCHANGED <<taken, owner, logged>>

Recv(c) == At(c, "recv") /\ Read(c, BufferLen, "log", thread[c].byteBuf)

-----------------------------------------------------------------------------
\* One iteration of the lambda forceLog: an event is erased and logged.  The
\* appenders may log events of other threads before the next.
LogEvent(c) ==
  /\ At(c, "log")
  /\ \E n \in 1..Len(thread[c].byteBuf) :
       /\ EventOfLength(thread[c].byteBuf, n)
       /\ Goes(c, "log", Erase(thread[c].byteBuf, n), thread[c].recvBytes)
       /\ logged' = IF thread[c].byteBuf[n].kind = "event"
                      THEN Append(logged, thread[c].byteBuf[n])
                      ELSE logged
  /\ UNCHANGED <<taken, owner>>

\* Mutant: after a recv that filled its chunk the next one comes first.
LoopEndsOnFull(c) ==
  /\ At(c, "log")
  /\ Incomplete(thread[c].byteBuf) \/ thread[c].recvBytes = BufferLen
  /\ Goes(c, "recv", thread[c].byteBuf, 0)
  /\ UNCHANGED <<taken, owner, logged>>

\* The buffer is empty or ends inside an event.
LoopEnds(c) ==
  /\ At(c, "log") /\ Incomplete(thread[c].byteBuf)
  /\ Goes(c, "recv", thread[c].byteBuf, 0)
  /\ UNCHANGED <<taken, owner, logged>>

LoopFails(c) ==
  /\ At(c, "log") /\ Malformed(thread[c].byteBuf)
  /\ Goes(c, "cleanup", thread[c].byteBuf, 0)
  /\ UNCHANGED <<taken, owner, logged>>

\* An assertion of the decoder fails and ends the process of all threads.
Abort(c) ==
  /\ asserts
  /\ \/ AfterMarker(c) /\ ~MarkerKnown(c)
     \/ At(c, "log") /\ Malformed(thread[c].byteBuf)
  /\ EndOfProcess

\* Mutant: the descriptor is closed a second time.
CleanUpTwice(c) ==
  /\ At(c, "cleanup")
  /\ Close(thread[c].fd)
  /\ \/ owner[thread[c].fd] = c /\ UNCHANGED <<thread, pc, asserts, peer, sent, backlog>>
     \/ owner[thread[c].fd] # c /\ Goes(c, "ended", thread[c].byteBuf, 0)
  /\ UNCHANGED <<taken, logged>>

\* CLEAN_UP: closesocket, and the thread ends.
CleanUp(c) ==
  /\ At(c, "cleanup")
  /\ Close(thread[c].fd)
  /\ Goes(c, "ended", thread[c].byteBuf, 0)
  /\ UNCHANGED <<taken, logged>>

-----------------------------------------------------------------------------
MainRuns == Accept \/ Exit

ThreadRuns(c) ==
  \/ StartRead(c) \/ Start(c) \/ StartRefused(c)
  \/ RecvEnds(c) \/ Recv(c)
  \/ LogEvent(c) \/ LoopEnds(c) \/ LoopFails(c) \/ Abort(c)
  \/ CleanUp(c)

\* Nobody can connect to a listener that is closed.
Peers ==
  /\ pc # "exited"
  /\ \E c \in Conn : PeerStep(c) /\ (pc = "exiting" => peer[c] # "idle")
  /\ UNCHANGED <<thread, pc, asserts, logged>>

Next ==
  \/ Peers
  \/ MainRuns \/ AcceptFails \/ ThreadFails
  \/ \E c \in Conn : ThreadRuns(c)

\* The system schedules every thread; nothing is assumed of the peers, and no
\* failure has to come.
Fairness == WF_vars(MainRuns) /\ \A c \in Conn : WF_vars(ThreadRuns(c))

Spec == Init /\ [][Next]_vars /\ Fairness

-----------------------------------------------------------------------------
Live(c) == thread[c].at \notin {"none", "ended"}

\* A thread's descriptor stands for its own connection until the thread closes
\* it, and every open descriptor has a thread that will: although descriptors
\* are reused while other threads still run, none reads, closes or leaks the
\* descriptor of another (CLEAN_UP is the only closesocket of a client).
DescriptorIsOwn ==
  pc # "exited" =>
    /\ \A c \in Conn : Live(c) => Peer(c) = c
    /\ \A fd \in Fd : owner[fd] # NoConn => Live(owner[fd]) /\ thread[owner[fd]].fd = fd

\* The types, and the descriptors of the threads.
Consistent == TypeOK /\ DescriptorIsOwn

\* For this server the markers of the other protocols are unknown ones.
Understood ==
  [c \in Conn |-> [i \in 1..Len(Writes[c]) |->
     IF Writes[c][i] \in Protocols \ {"default"} THEN "json" ELSE Writes[c][i]]]

\* What a thread has received and not looked at does not count as taken.
Looked(c) ==
  LET t == thread[c]
  IN  IF t.at # "log" THEN taken[c]
      ELSE taken[c] - Min({Len(t.byteBuf), t.recvBytes})

\* The threads together do nothing a log server may not do: however their steps
\* interleave, every step is a step of LogServer or invisible to it.
Promise == INSTANCE LogServer WITH
  Writes <- Understood,
  taken  <- [c \in Conn |-> Looked(c)],
  phase  <- Phases,
  events <- [c \in Conn |-> EventsOf(c, logged)]

ImplementsLogServer == Promise!Spec

\* The process may end while detached threads read and log, because accept
\* fails, a thread cannot be made or an assertion fails in one of them.  Whenever
\* it does, no thread has left more unlogged than what its last recv returned
\* and the loop of forceLog has not come to: what an earlier one brought is not
\* put off until more arrives.
OnlyLastRecvIsUnlogged ==
  \A c \in Conn : \E n \in 0..BufferLen :
    /\ n > 0 => thread[c].at = "log"
    /\ n <= taken[c]
    /\ EventsOf(c, logged) = Promise!Completed(c, 0, taken[c] - n)
=============================================================================
