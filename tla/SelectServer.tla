---------------------------- MODULE SelectServer ----------------------------
(***************************************************************************)
(* runServer of log4cxxSelectSocketServer.cpp: one thread that selects over *)
(* the listener and all clients, then reads each ready client in the order  *)
(* of clientSockets (a std::set, so by descriptor), then accepts at most    *)
(* one connection.  Peers act between any two of these calls, so what       *)
(* select saw may be out of date when recv is called.                       *)
(***************************************************************************)
EXTENDS EventLoop

VARIABLE fds       \* the descriptors select reported, less those handled

vars == <<loopVars, fds>>

TypeOK ==
  /\ LoopTypeOK
  /\ fds \subseteq Fd \cup {ListenFd}
  /\ pc \in {"select", "handle", "cleanup", "stopped"}

Init == LoopInit /\ fds = {} /\ pc = "select"

-----------------------------------------------------------------------------
\* select() fails on a set with a closed descriptor.
BadFdSet == \E fd \in Registered : owner[fd] = NoConn

\* FD_SET of every client and the listener, then select() without a timeout.
Select ==
  /\ pc = "select" /\ ~BadFdSet
  /\ \E extra \in SUBSET ((Clients \cup {ListenFd}) \ ReadyFds) :
       /\ fds' = ReadyFds \cup extra
       /\ Misreported(extra)
  /\ fds' # {}
  /\ pc' = "handle"
  /\ UNCHANGED <<socketVars, clientSockets, logged>>

\* select() returns an error, EINTR included: the loop is left.
SelectFails ==
  /\ pc = "select"
  /\ BadFdSet \/ faults < MaxFaults
  /\ faults' = IF BadFdSet THEN faults ELSE faults + 1
  /\ pc' = "cleanup"
  /\ UNCHANGED <<socketVars, clientSockets, fds, logged>>

\* The client loop has come to fd, a ready client, and calls recv.
AtClient(fd) ==
  /\ pc = "handle"
  /\ fd \in fds \cap Registered
  /\ \A other \in fds \cap Registered : fd <= other
  /\ fds' = fds \ {fd}
  /\ UNCHANGED <<pc, faults, peer, sent, backlog>>

Again(fd) ==
  /\ AtClient(fd)
  /\ RecvAgain(owner[fd])
  /\ UNCHANGED <<taken, owner, clientSockets, logged>>

\* Mutant: a peer that has shut down is closed though data of it is unread.
DisconnectAtOnce(fd) ==
  /\ AtClient(fd)
  /\ peer[owner[fd]] \in {"fin", "rst"}
  /\ RemoveClient(fd)
  /\ UNCHANGED <<taken, logged>>

\* recv failed or the peer has shut down.
Disconnect(fd) ==
  /\ AtClient(fd)
  /\ RecvError(owner[fd]) \/ RecvEof(owner[fd])
  /\ RemoveClient(fd)
  /\ UNCHANGED <<taken, logged>>

\* Mutant: the result of forceLog is ignored.
ReceiveAnyway(fd) == AtClient(fd) /\ ReadAndLog(fd, BufferLen) /\ KeepClient(fd, BufferLen)

\* recv returned data: forceLog, and the client is closed when that is false.
Receive(fd) ==
  /\ AtClient(fd)
  /\ ReadAndLog(fd, BufferLen)
  /\ IF ForceLogOutcome(fd, BufferLen).ok
       THEN KeepClient(fd, BufferLen)
       ELSE RemoveClient(fd)

\* After the client loop FD_ISSET(serverSocket) decides about accept, and the
\* next round begins.
EndRound ==
  /\ pc = "handle" /\ fds \cap Registered = {}
  /\ IF ListenFd \in fds
       THEN AddClient \/ AcceptError \/ AcceptDropped
       ELSE UNCHANGED <<backlog, owner, clientSockets, faults>>
  /\ pc' = "select"
  /\ fds' = {}
  /\ UNCHANGED <<peer, sent, taken, logged>>

CleanUp == pc = "cleanup" /\ CloseAll /\ pc' = "stopped" /\ UNCHANGED fds

ServerStep ==
  \/ Select
  \/ SelectFails
  \/ \E fd \in Fd : Again(fd) \/ Disconnect(fd) \/ Receive(fd)
  \/ EndRound
  \/ CleanUp

Peers ==
  /\ pc # "stopped"
  /\ \E c \in Conn : PeerStep(c)
  /\ UNCHANGED <<clientSockets, pc, faults, logged, fds>>

Next == Peers \/ ServerStep

\* The server is one thread that the system schedules; select, accept and recv
\* return when they can.  Nothing is assumed of the peers.
Fairness == WF_vars(ServerStep)

Spec == Init /\ [][Next]_vars /\ Fairness
=============================================================================
