------------------------------ MODULE Sockets ------------------------------
(***************************************************************************)
(* The operating system's side of the servers: the peers' connections, the  *)
(* listen queue and the server process's descriptors, as far as the calls   *)
(* accept, recv, closesocket, select, poll and epoll of src/ observe them.   *)
(* External to src/.  The receive buffer of connection c holds tokens        *)
(* taken[c] + 1 .. sent[c] of what its peer writes.                          *)
(***************************************************************************)
EXTENDS Session, FiniteSets

CONSTANTS
  Conn,         (* the connections peers may make, each of them once         *)
  NoConn,       (* a descriptor that is not open                             *)
  Fd,           (* descriptor numbers the process may give to clients        *)
  ListenFd,     (* the descriptor of serverSocket                            *)
  Writes,       (* Writes[c]: the kinds of the tokens the peer of c writes   *)
  QueueLimit    (* the second argument of listen()                           *)

ASSUME SocketsAssumption ==
  /\ NoConn \notin Conn
  /\ Fd \subseteq Nat /\ IsFiniteSet(Fd)
  /\ ListenFd \in Nat \ Fd
  /\ Writes \in [Conn -> Seq(Kinds)]
  /\ \A c \in Conn : \A i \in 1..Len(Writes[c]) : <<c, i>> \in Id
  /\ QueueLimit \in Nat \ {0}

VARIABLES
  peer,         (* what the peer of each connection has done                 *)
  sent,         (* how many of its tokens have reached the server's host     *)
  taken,        (* how many of them recv has returned                        *)
  backlog,      (* the connections accept has not returned yet               *)
  owner         (* the connection of each open client descriptor             *)

socketVars == <<peer, sent, taken, backlog, owner>>

Stream(c) == [i \in 1..Len(Writes[c]) |-> [kind |-> Writes[c][i], id |-> <<c, i>>]]

SocketsTypeOK ==
  /\ peer \in [Conn -> {"idle", "open", "fin", "rst"}]
  /\ sent \in [Conn -> Nat]
  /\ taken \in [Conn -> Nat]
  /\ \A c \in Conn : taken[c] <= sent[c] /\ sent[c] <= Len(Writes[c])
  /\ backlog \in Seq(Conn)
  /\ owner \in [Fd -> Conn \cup {NoConn}]

SocketsInit ==
  /\ peer = [c \in Conn |-> "idle"]
  /\ sent = [c \in Conn |-> 0]
  /\ taken = [c \in Conn |-> 0]
  /\ backlog = <<>>
  /\ owner = [fd \in Fd |-> NoConn]

Queued(c) == \E i \in 1..Len(backlog) : backlog[i] = c
Open(c)   == \E fd \in Fd : owner[fd] = c

-----------------------------------------------------------------------------
\* The peers.  Nothing a peer does after the server has closed the connection
\* reaches the server.
Connect(c) ==
  /\ peer[c] = "idle"
  /\ Len(backlog) < QueueLimit
  /\ peer' = [peer EXCEPT ![c] = "open"]
  /\ backlog' = Append(backlog, c)
  /\ UNCHANGED <<sent, taken, owner>>

Write(c) ==
  /\ peer[c] = "open"
  /\ Queued(c) \/ Open(c)
  /\ sent[c] < Len(Writes[c])
  /\ \E n \in (sent[c] + 1)..Len(Writes[c]) : sent' = [sent EXCEPT ![c] = n]
  /\ UNCHANGED <<peer, taken, backlog, owner>>

Shutdown(c) ==
  /\ peer[c] = "open"
  /\ Queued(c) \/ Open(c)
  /\ peer' = [peer EXCEPT ![c] = "fin"]
  /\ UNCHANGED <<sent, taken, backlog, owner>>

Reset(c) ==
  /\ peer[c] \in {"open", "fin"}
  /\ Queued(c) \/ Open(c)
  /\ peer' = [peer EXCEPT ![c] = "rst"]
  /\ UNCHANGED <<sent, taken, backlog, owner>>

PeerStep(c) == Connect(c) \/ Write(c) \/ Shutdown(c) \/ Reset(c)

-----------------------------------------------------------------------------
\* The calls of the server.  A system gives the lowest free descriptor.
FreeFds == {fd \in Fd : owner[fd] = NoConn}
NextFd  == CHOOSE fd \in FreeFds : \A other \in FreeFds : fd <= other

AcceptAs(fd) ==
  /\ backlog # <<>>
  /\ fd = NextFd
  /\ owner' = [owner EXCEPT ![fd] = Head(backlog)]
  /\ backlog' = Tail(backlog)

\* accept() of a connection that setNonblock or epoll_ctl refuses, and its
\* closesocket.
AcceptAndClose ==
  /\ backlog # <<>>
  /\ FreeFds # {}
  /\ backlog' = Tail(backlog)
  /\ UNCHANGED owner

Close(fd) == owner' = [owner EXCEPT ![fd] = NoConn]

Available(c) == sent[c] - taken[c]

\* recv would not block: what makes a descriptor ready.
Readable(c) == Available(c) > 0 \/ peer[c] \in {"fin", "rst"}

\* The results of recv.  Data that arrived before a reset may be lost to it.
RecvAgain(c) == Available(c) = 0 /\ peer[c] = "open"
RecvEof(c)   == Available(c) = 0 /\ peer[c] = "fin"
RecvError(c) == peer[c] = "rst"
RecvData(c)  == Available(c) > 0

Received(c, size) ==
  LET n == IF Available(c) < size THEN Available(c) ELSE size
  IN  SubSeq(Stream(c), taken[c] + 1, taken[c] + n)

Take(c, bytes) == taken' = [taken EXCEPT ![c] = @ + Len(bytes)]

-----------------------------------------------------------------------------
\* The events of connection c in a sequence of tokens, and those among the
\* first g tokens of its stream that a server should log.
EventsOf(c, tokens) == Only(tokens, {t \in Token : t.id[1] = c})

OwedEvents(c, from, to) ==
  Only(SubSeq(Stream(c), from + 1, to), {t \in Token : t.id[2] \in Owed(Stream(c), to)})

\* How far a connection has come, for the abstract LogServer.
PhaseOf(c) ==
  CASE peer[c] = "idle" -> "none"
    [] Queued(c)        -> "queued"
    [] Open(c)          -> "open"
    [] OTHER            -> "closed"

Phases == [c \in Conn |-> PhaseOf(c)]

-----------------------------------------------------------------------------
\* Every queued connection is accepted or the server ends, when there are
\* descriptors for all: an event loop accepts only one in a round, and the next
\* round must report the rest.
QueueDrains == \A c \in Conn : Queued(c) ~> ~Queued(c)

\* What a peer has written is read, or the connection is closed: no data waits
\* in a socket for ever, although one recv returns only what its buffer holds.
DataIsRead == \A c \in Conn : (Open(c) /\ Available(c) > 0) ~> (~Open(c) \/ Available(c) = 0)

\* A connection whose peer has gone is closed in the end.
FinishedIsClosed == \A c \in Conn : (Open(c) /\ peer[c] \in {"fin", "rst"}) ~> ~Open(c)

\* Nobody waits for ever: neither to be accepted, nor with data, nor with the
\* end of a stream, and not because others are served first.
Progress == QueueDrains /\ DataIsRead /\ FinishedIsClosed
=============================================================================
