---------------------------- MODULE EpollServer ----------------------------
(***************************************************************************)
(* runServer of log4cxxEpollSocketServer.cpp: one thread that waits with    *)
(* epoll_wait for a batch of events and handles them in the order in which  *)
(* the system lists them, accepting one connection for an event of the      *)
(* listener and receiving once for an event of a client.  It can be built   *)
(* level-triggered or, with ENABLE_EDGE_TRIGGER, edge-triggered.  The       *)
(* interest list is clientSockets and the listener, since a descriptor is   *)
(* added to both and deleted from both together.                            *)
(***************************************************************************)
EXTENDS EventLoop

CONSTANT EdgeTrigger    \* the build defines EDGE_TRIGGER

ASSUME EdgeTriggerAssumption == EdgeTrigger \in BOOLEAN

VARIABLES
  armed,      (* edge-triggered: what became ready since it was last reported *)
  events,     (* epoll_events[i .. event_count - 1]: what is not handled yet  *)
  reading     (* edge-triggered: the client whose bytes ioctl has counted     *)

vars == <<loopVars, armed, events, reading>>

Idle == [fd |-> ListenFd, size |-> 0]        \* reading, when no client is

TypeOK ==
  /\ LoopTypeOK
  /\ armed \subseteq Fd \cup {ListenFd}
  /\ events \subseteq Fd \cup {ListenFd}
  /\ reading = Idle \/ (reading.fd \in Fd /\ reading.size \in Nat \ {0})
  /\ pc \in {"wait", "handle", "recv", "cleanup", "stopped"}

Init == LoopInit /\ armed = {} /\ events = {} /\ reading = Idle /\ pc = "wait"

-----------------------------------------------------------------------------
\* Level-triggered, whatever is ready is reported; edge-triggered, only what
\* became so since the last report.
Reportable == IF EdgeTrigger THEN ReadyFds \cap armed ELSE ReadyFds

\* epoll_wait() without a timeout.
Wait ==
  /\ pc = "wait"
  /\ \E extra \in SUBSET ((Clients \cup {ListenFd}) \ Reportable) :
       /\ events' = Reportable \cup extra
       /\ Misreported(extra)
  /\ events' # {}
  /\ armed' = {}
  /\ pc' = "handle"
  /\ UNCHANGED <<socketVars, clientSockets, logged, reading>>

\* epoll_wait() fails; when a signal interrupts it, it is called again.
WaitFails ==
  /\ pc = "wait"
  /\ Fault
  /\ pc' = "cleanup"
  /\ UNCHANGED <<socketVars, clientSockets, logged, armed, events, reading>>

\* Mutant: the event of a client is handled again after the others.
AtEventAgain(fd) ==
  /\ pc = "handle"
  /\ fd \in events
  /\ events' = events \ {ListenFd}

\* The for loop has come to the event of fd.
AtEvent(fd) ==
  /\ pc = "handle"
  /\ fd \in events
  /\ events' = events \ {fd}

\* EPOLL_CTL_ADD of a descriptor that is ready already counts as an edge.
Added(fd) == IF EdgeTrigger /\ Readable(owner'[fd]) THEN {fd} ELSE {}

\* An event of the listener: a single accept.
Accept ==
  /\ AtEvent(ListenFd)
  /\ \/ AddClient /\ armed' = armed \cup Added(NextFd)
     \/ (AcceptError \/ AcceptDropped) /\ UNCHANGED armed
  /\ UNCHANGED <<peer, sent, taken, logged, pc, reading>>

\* Mutant: a buffer of fixed length instead of one for all there is.
IoctlNotAsked(fd) ==
  /\ EdgeTrigger
  /\ AtEvent(fd)
  /\ reading' = [fd |-> fd, size |-> BufferLen]
  /\ pc' = "recv"
  /\ UNCHANGED <<socketVars, clientSockets, faults, logged, armed>>

\* getTotalReadBytes: ioctl(FIONREAD) says how much there is to read, ...
Ioctl(fd) ==
  /\ EdgeTrigger
  /\ AtEvent(fd)
  /\ LET size == Max({Available(owner[fd]), 1}) IN reading' = [fd |-> fd, size |-> size]
  /\ pc' = "recv"
  /\ UNCHANGED <<socketVars, clientSockets, faults, logged, armed>>

\* ... or it fails, and the client is closed.
IoctlFails(fd) ==
  /\ EdgeTrigger
  /\ AtEvent(fd)
  /\ Fault
  /\ RemoveClient(fd)
  /\ armed' = armed \ {fd}
  /\ UNCHANGED <<peer, sent, taken, backlog, logged, pc, reading>>

\* recv is called on fd with a buffer of this size.
AtRecv(fd, size) ==
  /\ IF EdgeTrigger
       THEN /\ pc = "recv" /\ reading = [fd |-> fd, size |-> size]
            /\ pc' = "handle" /\ reading' = Idle
            /\ UNCHANGED events
       ELSE /\ AtEvent(fd) /\ size = BufferLen
            /\ UNCHANGED <<pc, reading>>
  /\ UNCHANGED <<peer, sent, backlog, faults>>

Again(fd, size) ==
  /\ AtRecv(fd, size)
  /\ RecvAgain(owner[fd])
  /\ UNCHANGED <<taken, owner, clientSockets, logged, armed>>

\* Mutant: a peer that has shut down is closed though data of it is unread.
DisconnectAtOnce(fd, size) ==
  /\ AtRecv(fd, size)
  /\ peer[owner[fd]] \in {"fin", "rst"}
  /\ RemoveClient(fd)
  /\ armed' = armed \ {fd}
  /\ UNCHANGED <<taken, logged>>

\* epoll_ctl_del: the descriptor leaves the interest list and the registry and
\* is closed.
Disconnect(fd, size) ==
  /\ AtRecv(fd, size)
  /\ RecvError(owner[fd]) \/ RecvEof(owner[fd])
  /\ RemoveClient(fd)
  /\ armed' = armed \ {fd}
  /\ UNCHANGED <<taken, logged>>

\* recv returned data: forceLog, whose result is ignored.
Receive(fd, size) ==
  /\ AtRecv(fd, size)
  /\ ReadAndLog(fd, size)
  /\ KeepClient(fd, size)
  /\ UNCHANGED armed

EndBatch ==
  /\ pc = "handle" /\ events = {}
  /\ pc' = "wait"
  /\ UNCHANGED <<socketVars, clientSockets, faults, logged, armed, events, reading>>

CleanUp ==
  /\ pc = "cleanup"
  /\ CloseAll
  /\ armed' = {}
  /\ pc' = "stopped"
  /\ UNCHANGED <<events, reading>>

Sizes == 1..Max({BufferLen} \cup {Len(Writes[c]) : c \in Conn})

ServerStep ==
  \/ Wait
  \/ WaitFails
  \/ Accept
  \/ \E fd \in Fd : Ioctl(fd) \/ IoctlFails(fd)
  \/ \E fd \in Fd, size \in Sizes : Again(fd, size) \/ Disconnect(fd, size) \/ Receive(fd, size)
  \/ EndBatch
  \/ CleanUp

\* What a step of the peer of c makes ready.
Woken(c) ==
  IF peer[c] = "idle" THEN {ListenFd} ELSE {fd \in Fd : owner[fd] = c}

Peers ==
  /\ pc # "stopped"
  /\ \E c \in Conn :
       /\ PeerStep(c)
       /\ armed' = IF EdgeTrigger THEN armed \cup Woken(c) ELSE armed
  /\ UNCHANGED <<clientSockets, pc, faults, logged, events, reading>>

Next == Peers \/ ServerStep

\* One thread that the system schedules; nothing is assumed of the peers.
Fairness == WF_vars(ServerStep)

Spec == Init /\ [][Next]_vars /\ Fairness

-----------------------------------------------------------------------------
\* Registry, interest list and open descriptors say the same at every point of
\* the loop.
Consistent == TypeOK /\ RegistryIsOpen

\* The assertions of runServer: an event that is still to be handled is one of
\* a registered client (:248, :311), also when clients closed or accepted
\* earlier in the same batch had or get its descriptor; and no more has been
\* counted by ioctl than there is to receive (:246).
AssertsHold ==
  /\ events \subseteq Clients \cup {ListenFd}
  /\ pc = "recv" =>
       /\ reading.fd \in Clients
       /\ reading.size <= Max({Available(owner[reading.fd]), 1})

\* Edge-triggered, no arrival is forgotten: bytes that wait for a client will
\* be reported, are reported and not handled yet, or are being received.  The
\* bytes that arrive between ioctl and recv are not read by this recv.
BytesAreNoticed ==
  EdgeTrigger /\ pc \in {"wait", "handle", "recv"} =>
    \A fd \in Clients :
      Available(owner[fd]) > 0 =>
        \/ fd \in armed \cup events
        \/ pc = "recv" /\ reading.fd = fd /\ reading.size >= Available(owner[fd])
=============================================================================
