----------------------------- MODULE PollServer -----------------------------
(***************************************************************************)
(* runServer of log4cxxPollSocketServer.cpp: one thread that polls the      *)
(* vector pollfds, walks it with an iterator while it erases the elements   *)
(* of the clients it closes, and then accepts at most one connection.  The  *)
(* listener is the first element of pollfds and, through addPollfd, is      *)
(* registered in clientSockets like a client.                               *)
(***************************************************************************)
EXTENDS EventLoop, SequencesExt

VARIABLES
  pollfds,    (* fd and "revents has POLLIN" of each element, in order       *)
  it          (* the position of the iterator; Len(pollfds) + 1 is end()     *)

vars == <<loopVars, pollfds, it>>

TypeOK ==
  /\ LoopTypeOK
  /\ pollfds \in Seq([fd : Fd \cup {ListenFd}, ready : BOOLEAN])
  /\ it \in Nat \ {0}
  /\ pc \in {"poll", "handle", "cleanup", "stopped"}

PolledFds == {pollfds[i].fd : i \in DOMAIN pollfds}

\* addPollfd's push_back: an element that is there already stays.
Pushed(fd) ==
  IF fd \in PolledFds THEN pollfds ELSE Append(pollfds, [fd |-> fd, ready |-> FALSE])

Init ==
  /\ SocketsInit
  /\ clientSockets = [fd \in {ListenFd} |-> FreshSession]
  /\ faults = 0
  /\ logged = <<>>
  /\ pollfds = <<[fd |-> ListenFd, ready |-> FALSE]>>
  /\ it = 1
  /\ pc = "poll"

-----------------------------------------------------------------------------
\* poll() without a timeout; the walk begins behind the listener.
Poll ==
  /\ pc = "poll"
  /\ \E extra \in SUBSET (Registered \ ReadyFds) :
       /\ ReadyFds \cup extra # {}
       /\ Misreported(extra)
       /\ pollfds' = [i \in DOMAIN pollfds |->
                        [pollfds[i] EXCEPT !.ready = pollfds[i].fd \in ReadyFds \cup extra]]
  /\ it' = 2
  /\ pc' = "handle"
  /\ UNCHANGED <<socketVars, clientSockets, logged>>

\* poll() returns an error, EINTR included: the loop is left.
PollFails ==
  /\ pc = "poll"
  /\ Fault
  /\ pc' = "cleanup"
  /\ UNCHANGED <<socketVars, clientSockets, logged, pollfds, it>>

\* The walk has come to fd, past the elements that are not ready.
AtClient(fd) ==
  /\ pc = "handle"
  /\ \E i \in it..Len(pollfds) :
       /\ pollfds[i] = [fd |-> fd, ready |-> TRUE]
       /\ \A j \in it..(i - 1) : ~pollfds[j].ready
  /\ UNCHANGED <<pc, faults, peer, sent, backlog>>

Position(fd) == CHOOSE i \in it..Len(pollfds) : pollfds[i].fd = fd

\* ++it
Advance(fd) == it' = Position(fd) + 1 /\ UNCHANGED pollfds

\* Mutants: the element stays in pollfds; the iterator moves on although the
\* erased element's successor has taken its place.
CloseAtNotErased(fd) ==
  RemoveClient(fd) /\ it' = Position(fd) + 1 /\ UNCHANGED pollfds
CloseAtAdvanced(fd) ==
  /\ RemoveClient(fd)
  /\ pollfds' = RemoveAt(pollfds, Position(fd))
  /\ it' = Position(fd) + 1

\* closesocket, clientSockets.erase, it = pollfds.erase(it)
CloseAt(fd) ==
  /\ RemoveClient(fd)
  /\ pollfds' = RemoveAt(pollfds, Position(fd))
  /\ it' = Position(fd)

Again(fd) ==
  /\ AtClient(fd)
  /\ RecvAgain(owner[fd])
  /\ Advance(fd)
  /\ UNCHANGED <<taken, owner, clientSockets, logged>>

\* Mutant: a peer that has shut down is closed though data of it is unread.
DisconnectAtOnce(fd) ==
  /\ AtClient(fd)
  /\ peer[owner[fd]] \in {"fin", "rst"}
  /\ CloseAt(fd)
  /\ UNCHANGED <<taken, logged>>

\* recv failed or the peer has shut down.
Disconnect(fd) ==
  /\ AtClient(fd)
  /\ RecvError(owner[fd]) \/ RecvEof(owner[fd])
  /\ CloseAt(fd)
  /\ UNCHANGED <<taken, logged>>

\* recv returned data: forceLog, and the client is closed when that is false.
Receive(fd) ==
  /\ AtClient(fd)
  /\ ReadAndLog(fd, BufferLen)
  /\ IF ForceLogOutcome(fd, BufferLen).ok
       THEN KeepClient(fd, BufferLen) /\ Advance(fd)
       ELSE CloseAt(fd)

\* At end() isReadSet(pollfds[0]) decides about accept, and the next round
\* begins.
EndRound ==
  /\ pc = "handle"
  /\ \A i \in it..Len(pollfds) : ~pollfds[i].ready
  /\ IF pollfds[1].ready
       THEN \/ AddClient /\ pollfds' = Pushed(NextFd)
            \/ (AcceptError \/ AcceptDropped) /\ UNCHANGED pollfds
       ELSE UNCHANGED <<backlog, owner, clientSockets, faults, pollfds>>
  /\ pc' = "poll"
  /\ it' = 1
  /\ UNCHANGED <<peer, sent, taken, logged>>

CleanUp == pc = "cleanup" /\ CloseAll /\ pc' = "stopped" /\ UNCHANGED <<pollfds, it>>

ServerStep ==
  \/ Poll
  \/ PollFails
  \/ \E fd \in Fd : Again(fd) \/ Disconnect(fd) \/ Receive(fd)
  \/ EndRound
  \/ CleanUp

Peers ==
  /\ pc # "stopped"
  /\ \E c \in Conn : PeerStep(c)
  /\ UNCHANGED <<clientSockets, pc, faults, logged, pollfds, it>>

Next == Peers \/ ServerStep

\* One thread that the system schedules; nothing is assumed of the peers.
Fairness == WF_vars(ServerStep)

Spec == Init /\ [][Next]_vars /\ Fairness

-----------------------------------------------------------------------------
\* The vector and the registry stay in step: pollfds holds every registered
\* descriptor once, the listener first, so the iterator's fd is always found in
\* clientSockets (:181) and pollfds[0] is the listener when accept is decided.
PollfdsMatchRegistry ==
  /\ PolledFds = Registered
  /\ \A i, j \in DOMAIN pollfds : pollfds[i].fd = pollfds[j].fd => i = j
  /\ pollfds[1].fd = ListenFd

\* Registry, pollfds and open descriptors say the same at every point of the loop.
Consistent == TypeOK /\ RegistryIsOpen /\ PollfdsMatchRegistry

\* The iterator never passes end(), though elements are erased under it: the
\* loop condition it != pollfds.end() is enough to stop it.
IteratorInRange == pc = "handle" => it \in 2..(Len(pollfds) + 1)
=============================================================================
