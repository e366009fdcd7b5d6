------------------------------ MODULE Delivery ------------------------------
(***************************************************************************)
(* From the logging call to the server's log, over connections that break:   *)
(* the C++ client sample with log4cxx's SocketAppender, or the python client *)
(* with a SocketHandler, against a server that may end and be started again.  *)
(*                                                                          *)
(* The sample configures log4cxx anew in each round of its loop: the old     *)
(* appender is closed and a new one connects.  A connector thread would       *)
(* connect again within a round, but fireConnector starts it only if it is    *)
(* active, and a thread that was never started is not: it never runs.        *)
(* The python handler lives as long as its process and connects when it has   *)
(* an event and no socket, at once or once the time to wait has passed.       *)
(*                                                                          *)
(* The server here is the sessions of its connections (module Session); how   *)
(* it waits for them is left to the modules of the servers.                  *)
(***************************************************************************)
EXTENDS Session, SequencesExt

CONSTANTS
  Rounds,       (* bound: how often the sample configures                     *)
  Events,       (* bound: the logging calls of a round, of a handler's life   *)
  Crashes       (* bound: how often the server ends, at most                   *)

ASSUME DeliveryAssumption ==
  /\ Rounds \in Nat /\ Events \in Nat /\ Crashes \in Nat
  /\ (0..(Rounds + 1) * Events) \X {1, 2} \subseteq Id

VARIABLES
  kind,         (* "appender" or "handler"                                    *)
  pc,           (* "idle" between calls, "flush", "closing", "connect", "ended" *)
  round,        (* rounds begun                                               *)
  calls,        (* logging calls of this round                                *)
  event,        (* the number of the last event                               *)
  oos,          (* the connection of oos, or of the handler's sock; 0 is null  *)
  array,        (* what is buffered for it and not sent                       *)
  retry,        (* the handler's retryTime is set                             *)
  conns,        (* the connections made so far, in order                      *)
  sessions,     (* the server's session of each                               *)
  up,           (* the server listens                                         *)
  crashes,      (* how often it has ended, short of Crashes                    *)
  log,          (* the events servers have logged, in order                   *)
  sure,         (* history: the server was up for good when the round began   *)
  fresh         (* history: the events of such rounds                         *)

client == <<kind, pc, round, calls, event, oos, array, retry, sure, fresh>>
server == <<up, crashes, log>>
vars   == <<client, conns, sessions, server>>

Unit(k, i, j) == [kind |-> k, id |-> <<i, j>>]
Marker   == <<Unit("magic", 0, 1), Unit("default", 0, 2)>>
Units(e) == <<Unit("body", e, 1), Unit("event", e, 2)>>

\* What a stream consists of that these events are handed to.
Whole(given) ==
  [k \in 1..(2 * Len(given) + 2) |->
     IF k <= 2 THEN Marker[k] ELSE Units(given[(k - 1) \div 2])[((k - 1) % 2) + 1]]

\* A connection is queued or accepted; later the server's end of it is gone, and
\* some time after that the client's system knows (reset).  wire: what was sent and
\* not received; given: history, the events handed to its stream.
NewConn == [peer |-> "queued", open |-> TRUE, wire |-> <<>>, read |-> <<>>,
            given |-> <<>>]

Alive(c) == conns[c].peer \in {"queued", "accepted"}

Init ==
  /\ kind \in {"appender", "handler"}
  /\ pc = "idle"
  /\ round = 0 /\ calls = 0 /\ event = 0
  /\ oos = 0 /\ array = <<>> /\ retry = FALSE
  /\ conns = <<>> /\ sessions = <<>>
  /\ up \in BOOLEAN
  /\ crashes \in 0..Crashes
  /\ log = <<>>
  /\ sure = FALSE /\ fresh = {}

-----------------------------------------------------------------------------
\* The client.  A new socket; its stream begins with the marker, which the appender
\* sends with the first event and the handler at once.
\* Mutant: the handler sends the event before as well.
OpenResending(given) ==
  LET again == (IF given = <<>> \/ event = 0 THEN <<>> ELSE <<event>>) \o given IN
  /\ conns' = Append(conns, [NewConn EXCEPT !.given = again])
  /\ sessions' = Append(sessions, FreshSession)
  /\ oos' = Len(conns) + 1
  /\ array' = Whole(again)

OpenStream(given) ==
  /\ conns' = Append(conns, [NewConn EXCEPT !.given = given])
  /\ sessions' = Append(sessions, FreshSession)
  /\ oos' = Len(conns) + 1
  /\ array' = Whole(given)

\* socket->close(), or the descriptor's end with the last reference to it.
Closed(c) == [conns EXCEPT ![c].open = FALSE]

\* PropertyConfigurator::configure removes the old appender, whose cleanUp closes
\* its stream, which is flushed first.
\* Mutant: only the first call of configure has an effect.
ConfigureOnce ==
  /\ kind = "appender" /\ pc = "idle" /\ round < Rounds
  /\ round' = round + 1
  /\ calls' = 0
  /\ sure' = (up /\ crashes = Crashes)
  /\ pc' = IF round = 0 THEN "connect" ELSE "idle"
  /\ UNCHANGED <<kind, event, oos, array, retry, fresh, conns, sessions, server>>

Configure ==
  /\ kind = "appender" /\ pc = "idle" /\ round < Rounds
  /\ round' = round + 1
  /\ calls' = 0
  /\ sure' = (up /\ crashes = Crashes)
  /\ IF oos # 0 /\ array # <<>>
     THEN pc' = "closing" /\ UNCHANGED <<oos, conns>>
     ELSE /\ pc' = "connect"
          /\ oos' = 0
          /\ conns' = IF oos = 0 THEN conns ELSE Closed(oos)
  /\ UNCHANGED <<kind, event, array, retry, fresh, sessions, server>>

\* activateOptions of the new appender; a failure leaves it without a stream.
ActivateOptions ==
  /\ pc = "connect"
  /\ IF up THEN OpenStream(<<>>) ELSE UNCHANGED <<conns, sessions, oos, array>>
  /\ pc' = "idle"
  /\ UNCHANGED <<kind, round, calls, event, retry, sure, fresh, server>>

\* A logging call that comes to the appender or the handler.
NextEvent ==
  /\ pc = "idle" /\ calls < Events
  /\ kind = "appender" => round > 0
  /\ calls' = calls + 1
  /\ event' = event + 1
  /\ fresh' = IF sure THEN fresh \cup {event + 1} ELSE fresh

\* append and send with a stream: the event is written behind what is buffered.
WriteEvent ==
  /\ NextEvent
  /\ oos # 0
  /\ array' = array \o Units(event + 1)
  /\ conns' = [conns EXCEPT ![oos].given = Append(@, event + 1)]
  /\ pc' = "flush"
  /\ UNCHANGED <<kind, round, oos, retry, sure, sessions, server>>

\* send without a socket: createSocket makes one.
Reconnect ==
  /\ NextEvent
  /\ kind = "handler" /\ oos = 0 /\ up
  /\ OpenStream(<<event + 1>>)
  /\ retry' = FALSE
  /\ pc' = "flush"
  /\ UNCHANGED <<kind, round, sure, server>>

\* The event is dropped: the appender has no stream; the handler cannot connect, or
\* must not yet.
Drop ==
  /\ NextEvent
  /\ oos = 0
  /\ \/ kind = "appender" /\ UNCHANGED retry
     \/ kind = "handler" /\ ~up /\ retry' = TRUE
     \/ kind = "handler" /\ retry /\ UNCHANGED retry
  /\ UNCHANGED <<kind, pc, round, oos, array, sure, conns, sessions, server>>

\* Socket::write, or sendall: the system takes the next n units.  They are lost if the
\* server's end is gone.
\* Mutant: the buffer's position stays where it was.
SendAgain(n) ==
  /\ pc \in {"flush", "closing"}
  /\ n \in 1..Len(array) /\ conns[oos].peer # "reset"
  /\ array' = IF n < Len(array) THEN array ELSE <<>>
  /\ pc' = IF n < Len(array) THEN pc ELSE IF pc = "flush" THEN "idle" ELSE "connect"
  /\ oos' = IF n = Len(array) /\ pc = "closing" THEN 0 ELSE oos
  /\ conns' = [conns EXCEPT
       ![oos].wire = IF Alive(oos) THEN @ \o SubSeq(array, 1, n) ELSE @,
       ![oos].open = ~(n = Len(array) /\ pc = "closing")]
  /\ UNCHANGED <<kind, round, calls, event, retry, sure, fresh, sessions, server>>

Send(n) ==
  /\ pc \in {"flush", "closing"}
  /\ n \in 1..Len(array) /\ conns[oos].peer # "reset"
  /\ array' = SubSeq(array, n + 1, Len(array))
  /\ pc' = IF n < Len(array) THEN pc ELSE IF pc = "flush" THEN "idle" ELSE "connect"
  /\ oos' = IF n = Len(array) /\ pc = "closing" THEN 0 ELSE oos
  /\ conns' = [conns EXCEPT
       ![oos].wire = IF Alive(oos) THEN @ \o SubSeq(array, 1, n) ELSE @,
       ![oos].open = ~(n = Len(array) /\ pc = "closing")]
  /\ UNCHANGED <<kind, round, calls, event, retry, sure, fresh, sessions, server>>

\* The socket's error: the stream is given up, with what it has buffered.
SendFails ==
  /\ pc \in {"flush", "closing"} /\ conns[oos].peer = "reset"
  /\ pc' = IF pc = "flush" THEN "idle" ELSE "connect"
  /\ oos' = 0
  /\ array' = <<>>
  /\ conns' = Closed(oos)
  /\ UNCHANGED <<kind, round, calls, event, retry, sure, fresh, sessions, server>>

\* The client's process ends.
Exit ==
  /\ pc # "ended"
  /\ pc' = "ended"
  /\ conns' = IF oos = 0 THEN conns ELSE Closed(oos)
  /\ UNCHANGED <<kind, round, calls, event, oos, array, retry, sure, fresh, sessions, server>>

-----------------------------------------------------------------------------
\* The server.
Accept(c) ==
  /\ up /\ conns[c].peer = "queued"
  /\ conns' = [conns EXCEPT ![c].peer = "accepted"]
  /\ UNCHANGED <<client, sessions, server>>

\* recv and forceLog; a stream that is refused is closed.
Read(c, n) ==
  /\ conns[c].peer = "accepted" /\ n \in 1..Len(conns[c].wire)
  /\ LET chunk   == SubSeq(conns[c].wire, 1, n)
         outcome == ForceLogResult(sessions[c], chunk)
         Number(t) == t.id[1]
     IN  /\ conns' = [conns EXCEPT
              ![c].wire = SubSeq(@, n + 1, Len(@)),
              ![c].read = @ \o chunk,
              ![c].peer = IF outcome.ok THEN @ ELSE "gone"]
         /\ sessions' = [sessions EXCEPT ![c] = outcome.session]
         /\ log' = log \o [i \in DOMAIN outcome.events |-> Number(outcome.events[i])]
  /\ UNCHANGED <<client, up, crashes>>

\* recv returns 0.
Disconnect(c) ==
  /\ conns[c].peer = "accepted" /\ ~conns[c].open /\ conns[c].wire = <<>>
  /\ conns' = [conns EXCEPT ![c].peer = "gone"]
  /\ UNCHANGED <<client, sessions, server>>

\* The process ends and takes its connections with it.
Crash ==
  /\ up /\ crashes < Crashes
  /\ up' = FALSE
  /\ crashes' = crashes + 1
  /\ conns' = [c \in DOMAIN conns |->
       IF Alive(c) THEN [conns[c] EXCEPT !.peer = "gone", !.wire = <<>>] ELSE conns[c]]
  /\ UNCHANGED <<client, sessions, log>>

Restart ==
  /\ ~up
  /\ up' = TRUE
  /\ UNCHANGED <<client, conns, sessions, crashes, log>>

\* The client's system learns that the other end is gone.
LearnReset(c) ==
  /\ conns[c].peer = "gone" /\ conns[c].open
  /\ conns' = [conns EXCEPT ![c].peer = "reset"]
  /\ UNCHANGED <<client, sessions, server>>

-----------------------------------------------------------------------------
ClientStep ==
  \/ Configure \/ ActivateOptions
  \/ WriteEvent \/ Reconnect \/ Drop
  \/ \E n \in 1..Len(array) : Send(n)
  \/ SendFails

ServerStep(c) ==
  \/ Accept(c)
  \/ \E n \in 1..Len(conns[c].wire) : Read(c, n)
  \/ Disconnect(c)

Next ==
  \/ ClientStep \/ Exit
  \/ \E c \in DOMAIN conns : ServerStep(c) \/ LearnReset(c)
  \/ Crash \/ Restart

\* The client's thread and the server's run; nobody need start the server again.
Fairness ==
  /\ WF_vars(ClientStep)
  /\ WF_vars(\E c \in DOMAIN conns : ServerStep(c))

Spec == Init /\ [][Next]_vars /\ Fairness

-----------------------------------------------------------------------------
\* While the server's end of a connection is there, what it has received, what is on its
\* way and what is still buffered are the marker and the events handed to the stream,
\* each once: nothing of a connection that broke, of an event that was dropped or of a
\* send cut short comes into it (socketappender.cpp:77-110, socket.cpp:82-108).
Conserved ==
  \A c \in DOMAIN conns : Alive(c) =>
    conns[c].read \o conns[c].wire \o (IF c = oos THEN array ELSE <<>>) = Whole(conns[c].given)

\* No event is logged twice, over whatever connections it was sent, and those of a
\* connection are logged in the order of the calls, without a gap.
LoggedOnce ==
  /\ IsInjective(log)
  /\ \A c \in DOMAIN conns :
       IsPrefix(Only(log, Range(conns[c].given)), conns[c].given)

\* Every event of a round that begins while the server is up and stays so arrives,
\* whatever became of the rounds before (log4cxxSocketClient.cpp:55-79): all but one
\* that the client's end cuts off.
EventsArrive ==
  \A e \in 1..(Rounds * Events) :
    e \in fresh ~> e \in Range(log) \/ (pc = "ended" /\ e = event)
=============================================================================
