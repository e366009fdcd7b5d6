----------------------------- MODULE EventLoop -----------------------------
(***************************************************************************)
(* What the select, poll and epoll servers have in common: one thread, a    *)
(* registry clientSockets of Client objects by descriptor, and the handling *)
(* of what recv returns.  How a server learns which descriptors are ready   *)
(* is its own module's.  The properties at the end are stated once for all  *)
(* of them.                                                                 *)
(***************************************************************************)
EXTENDS Sockets

CONSTANTS
  BufferLen,    (* DEFAULT_BUFFER_LEN: the most recv returns in one call     *)
  MaxFaults     (* bound: system calls that fail for reasons of their own    *)

ASSUME EventLoopAssumption ==
  /\ BufferLen \in Nat \ {0}
  /\ MaxFaults \in Nat

VARIABLES
  clientSockets,  (* the registered clients: descriptor -> session           *)
  pc,             (* where the loop of runServer is                          *)
  faults,         (* history: how many faults have happened                  *)
  logged          (* history: the last tokens of the events logged           *)

loopVars == <<socketVars, clientSockets, pc, faults, logged>>

Registered == DOMAIN clientSockets
Clients    == Registered \ {ListenFd}

LoopTypeOK ==
  /\ SocketsTypeOK
  /\ Clients \subseteq Fd
  /\ \A fd \in Registered : clientSockets[fd] \in SessionState
  /\ faults \in 0..MaxFaults
  /\ logged \in Seq(Token)

LoopInit ==
  /\ SocketsInit
  /\ clientSockets = [fd \in {} |-> FreshSession]
  /\ faults = 0
  /\ logged = <<>>

\* A fault of the system's: a signal, no memory, a readiness that is none.
Fault == faults < MaxFaults /\ faults' = faults + 1

-----------------------------------------------------------------------------
\* The descriptors the server waits for: every client and the listener.  They
\* are ready to be read from or to be accepted from.
ClientsReady == {fd \in Clients : owner[fd] # NoConn /\ Readable(owner[fd])}
ListenReady  == IF backlog # <<>> THEN {ListenFd} ELSE {}

\* Mutants: the listener is not waited for while there are clients; data does
\* not make a client ready; the end of a stream does not.
ReadyFdsListenerOnce == IF Clients = {} THEN ListenReady ELSE ClientsReady
ReadyFdsHungUp == {fd \in ClientsReady : peer[owner[fd]] # "open"} \cup ListenReady
ReadyFdsData == {fd \in ClientsReady : Available(owner[fd]) > 0} \cup ListenReady

ReadyFds == ClientsReady \cup ListenReady

\* A wait may also report what turns out not to be ready.
Misreported(extra) == IF extra = {} THEN UNCHANGED faults ELSE Fault

\* clientSockets.emplace(fd): an element that is there already stays.
Emplaced(fd) ==
  [k \in Registered \cup {fd} |-> IF k \in Registered THEN clientSockets[k] ELSE FreshSession]

\* Mutant: the closed client stays registered.
RemoveClientNotErased(fd) == Close(fd) /\ UNCHANGED clientSockets

\* closesocket and clientSockets.erase.
RemoveClient(fd) ==
  /\ Close(fd)
  /\ clientSockets' = [k \in Registered \ {fd} |-> clientSockets[k]]

\* accept returned a new descriptor, and it was registered.
AddClient ==
  /\ FreeFds # {}
  /\ AcceptAs(NextFd)
  /\ clientSockets' = Emplaced(NextFd)
  /\ UNCHANGED faults

\* accept fails: no connection is queued, no descriptor is free, or a fault.
\* A queued connection stays in the queue.
AcceptError ==
  /\ IF backlog = <<>> \/ FreeFds = {} THEN UNCHANGED faults ELSE Fault
  /\ UNCHANGED <<backlog, owner, clientSockets>>

\* The accepted socket cannot be made non-blocking (or be watched): it is
\* closed again.
AcceptDropped ==
  /\ Fault
  /\ AcceptAndClose
  /\ UNCHANGED clientSockets

\* recv has data for a buffer of this size: the bytes go to forceLog.
ForceLogOutcome(fd, size) ==
  ForceLogResult(clientSockets[fd], Received(owner[fd], size))

\* Mutant: the whole buffer counts, not the resultBytes of it.
ReadAndLogBuffer(fd, size) ==
  /\ RecvData(owner[fd])
  /\ taken' = [taken EXCEPT ![owner[fd]] = @ + size]
  /\ logged' = logged \o ForceLogOutcome(fd, size).events

ReadAndLog(fd, size) ==
  /\ RecvData(owner[fd])
  /\ Take(owner[fd], Received(owner[fd], size))
  /\ logged' = logged \o ForceLogOutcome(fd, size).events

\* Mutant: forceLog works on a copy of the element of clientSockets.
KeepClientCopied(fd, size) == UNCHANGED <<clientSockets, owner>>

KeepClient(fd, size) ==
  /\ clientSockets' = [clientSockets EXCEPT ![fd] = ForceLogOutcome(fd, size).session]
  /\ UNCHANGED owner

\* The end of runServer: every registered client and the listener are closed,
\* and with the process every queued connection.
CloseAll ==
  /\ owner' = [fd \in Fd |-> IF fd \in Registered THEN NoConn ELSE owner[fd]]
  /\ backlog' = <<>>
  /\ UNCHANGED <<peer, sent, taken, clientSockets, faults, logged>>

-----------------------------------------------------------------------------
\* Every open client descriptor is registered and no other is, so none leaks
\* and none that is closed is waited for; no connection has two descriptors or
\* is both queued and open (the accept, emplace, closesocket and erase calls of
\* runServer in every server).
RegistryIsOpen ==
  pc # "stopped" =>
    /\ Clients = {fd \in Fd : owner[fd] # NoConn}
    /\ \A fd, other \in Clients : owner[fd] = owner[other] => fd = other
    /\ \A fd \in Clients : ~Queued(owner[fd])

\* The session of a descriptor is the one its present connection made: it is
\* what a fresh Client becomes from exactly the bytes recv returned of this
\* connection.  Nothing of an earlier connection that had the same descriptor
\* is left in it, and no chunk of another client got into it.
SessionIsOwn ==
  pc # "stopped" =>
    \A fd \in Clients :
      clientSockets[fd] =
        ForceLogResult(FreshSession, SubSeq(Stream(owner[fd]), 1, taken[owner[fd]])).session

\* Of every connection exactly the permitted complete events received are
\* logged, once and in order, whatever the other connections do.
LogsOwed == \A c \in Conn : EventsOf(c, logged) = OwedEvents(c, 0, taken[c])

\* A client whose bytes forceLog has refused is not served any longer
\* (log4cxxClient.cpp:73: InvalidBufferException means the end of the client).
RefusedIsClosed == \A c \in Conn : Open(c) => Acceptable(Stream(c), taken[c])

\* Why a client may be closed: the server ends, a system call on the client fails,
\* its peer reset the connection, or shut it down and was read to the end, or sent
\* what the decoder refuses.
MayClose(c) ==
  \/ pc = "cleanup"
  \/ Fault
  \/ peer[c] = "rst"
  \/ peer[c] = "fin" /\ taken[c] = sent[c]
  \/ ~Acceptable(Stream(c), taken'[c])

ClosedForReason == \A c \in Conn : Open(c) /\ ~Open(c)' => MayClose(c)

\* No step closes a client but for one of these reasons: a FIN that overtakes the
\* reading of data does not cost an event, and nobody is closed for another's bytes.
ClosesOnlyWhenDone == [][ClosedForReason]_loopVars

\* With fewer descriptors than connections accept fails while the listener stays
\* ready: the clients that have descriptors are served all the same, and if
\* descriptors become free again and again, so is everyone who waits.
ServesWhenFull ==
  DataIsRead /\ FinishedIsClosed /\ ([]<>(FreeFds # {}) => QueueDrains)

\* Every step of a loop, however it learns of readiness, moves connections as
\* Lifecycle allows: none is read before it is accepted or after it is closed, or
\* closed with bytes of it unread.
Life == INSTANCE Lifecycle WITH phase <- Phases

ImplementsLifecycle == Life!LifeSpec

\* The loop does nothing a log server may not do: every step is a step of
\* LogServer or invisible to it.
Promise == INSTANCE LogServer WITH
  phase  <- Phases,
  events <- [c \in Conn |-> EventsOf(c, logged)]

ImplementsLogServer == Promise!Spec
=============================================================================
