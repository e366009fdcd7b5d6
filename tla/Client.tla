------------------------------- MODULE Client -------------------------------
(***************************************************************************)
(* One client session of the C++ servers: the class Client and its          *)
(* forceLog (log4cxxExt/Socket/log4cxxClient.cpp), which a server calls     *)
(* with every chunk recv returns.  The chunks of a connection split the     *)
(* peer's byte stream anywhere, so a call may end inside the start marker   *)
(* or inside an event, and the session carries the rest in m_ByteBuf.       *)
(*                                                                          *)
(* forceLog is a loop; each of its iterations is a step here.  A server     *)
(* that ignores a false result (the epoll server) calls forceLog again, so  *)
(* ForceLog stays enabled after a failure.                                  *)
(***************************************************************************)
EXTENDS Session

CONSTANT
  Streams       (* the byte streams a peer may send                          *)

\* A token's id is its place in the stream.
ASSUME StreamsAssumption ==
  /\ Id \subseteq Nat
  /\ Streams \subseteq Seq(Token)
  /\ \A s \in Streams : \A i \in 1..Len(s) : s[i].id = i

VARIABLES
  asserts,      (* the build: is assert() compiled in, as CMake's default is *)
  stream,       (* what this session's peer sends                            *)
  got,          (* how many of its tokens recv has returned so far           *)
  loggingFunc,  (* m_LoggingFunc: the protocol whose decoder was chosen      *)
  byteBuf,      (* m_ByteBuf                                                 *)
  pc,           (* where forceLog is: "idle" when it has returned            *)
  result,       (* what the last call of forceLog returned                   *)
  erased,       (* history: how many tokens were erased from byteBuf         *)
  logged        (* history: the events handed to callAppenders, in order     *)

vars == <<asserts, stream, got, loggingFunc, byteBuf, pc, result, erased, logged>>

TypeOK ==
  /\ asserts \in BOOLEAN
  /\ stream \in Streams
  /\ got \in 0..Len(stream)
  /\ loggingFunc \in Protocols \cup {NoFunc}
  /\ byteBuf \in Seq(Token)
  /\ pc \in {"idle", "start", "loop", "aborted"}
  /\ result \in BOOLEAN
  /\ erased \in 0..got
  /\ logged \in Seq(Event)

Init ==
  /\ asserts \in BOOLEAN
  /\ stream \in Streams
  /\ got = 0
  /\ loggingFunc = NoFunc
  /\ byteBuf = <<>>
  /\ pc = "idle"
  /\ result = TRUE
  /\ erased = 0
  /\ logged = <<>>

-----------------------------------------------------------------------------
\* Mutant: the chunk replaces m_ByteBuf.
ForceLogReplaces(n) ==
  /\ pc = "idle"
  /\ got + n <= Len(stream)
  /\ byteBuf' = SubSeq(stream, got + 1, got + n)
  /\ got' = got + n
  /\ pc' = IF loggingFunc = NoFunc THEN "start" ELSE "loop"
  /\ UNCHANGED <<asserts, stream, loggingFunc, result, erased, logged>>

\* forceLog(bytes, n) is entered: the chunk goes to the end of m_ByteBuf.
ForceLog(n) ==
  /\ pc = "idle"
  /\ got + n <= Len(stream)
  /\ byteBuf' = byteBuf \o SubSeq(stream, got + 1, got + n)
  /\ got' = got + n
  /\ pc' = IF loggingFunc = NoFunc THEN "start" ELSE "loop"
  /\ UNCHANGED <<asserts, stream, loggingFunc, result, erased, logged>>

Return(value) ==
  /\ pc' = "idle"
  /\ result' = value
  /\ UNCHANGED <<asserts, stream, got, loggingFunc, byteBuf, erased, logged>>

\* Mutant: one token too many is erased.
ConsumeOneMore(n) ==
  /\ byteBuf' = Erase(byteBuf, n + 1)
  /\ erased' = erased + n + 1
  /\ pc' = "loop"
  /\ UNCHANGED <<asserts, stream, got, result>>

\* The buffer loses its first n tokens and the loop goes on.
Consume(n) ==
  /\ byteBuf' = Erase(byteBuf, n)
  /\ erased' = erased + n
  /\ pc' = "loop"
  /\ UNCHANGED <<asserts, stream, got, result>>

\* assert(ret == 0) in the first readStart tried, the default loader's: the
\* process is gone before InvalidBufferException is thrown.
StartAsserts == asserts /\ ~Matches(byteBuf, "default")

\* Mutant: SmallBufferException is answered like the other exceptions.
StartSmallRefused == pc = "start" /\ StartIncomplete(byteBuf) /\ Return(FALSE)

StartSmall ==
  /\ pc = "start"
  /\ StartIncomplete(byteBuf)
  /\ Return(TRUE)

StartFound(p) ==
  /\ pc = "start"
  /\ ~StartIncomplete(byteBuf) /\ ~StartAsserts
  /\ Matches(byteBuf, p)
  /\ loggingFunc' = p
  /\ Consume(MarkerLen)
  /\ UNCHANGED logged

StartFails ==
  /\ pc = "start"
  /\ StartUnknown(byteBuf) /\ ~StartAsserts
  /\ Return(FALSE)

\* Mutant: the decoder leaves the event in the buffer.
LogEventNotErased(n) ==
  /\ pc = "loop"
  /\ EventOfLength(byteBuf, n)
  /\ logged' = IF byteBuf[n].kind = "event"
                 THEN Append(logged, [from |-> byteBuf[1].id, to |-> byteBuf[n].id])
                 ELSE logged
  /\ UNCHANGED <<asserts, stream, got, loggingFunc, byteBuf, pc, result, erased>>

\* An iteration of the while loop that decodes an event of n tokens.
LogEvent(n) ==
  /\ pc = "loop"
  /\ EventOfLength(byteBuf, n)
  /\ logged' = IF byteBuf[n].kind = "event"
                 THEN Append(logged, [from |-> byteBuf[1].id, to |-> byteBuf[n].id])
                 ELSE logged
  /\ Consume(n)
  /\ UNCHANGED loggingFunc

\* Mutants: the loop is an if; SmallBufferException is ignored inside the loop.
LoopEndsAnywhere == pc = "loop" /\ Return(TRUE)
LoopNeverEnds == pc = "loop" /\ Incomplete(byteBuf) /\ UNCHANGED vars

\* The buffer is empty, or ends inside an event.
LoopEnds ==
  /\ pc = "loop"
  /\ Incomplete(byteBuf)
  /\ Return(TRUE)

LoopFails ==
  /\ pc = "loop"
  /\ Malformed(byteBuf)
  /\ Return(FALSE)

\* Mutant: an assert on the size of the buffer as well.
AbortOnSmall ==
  /\ asserts
  /\ pc = "start"
  /\ pc' = "aborted"
  /\ UNCHANGED <<asserts, stream, got, loggingFunc, byteBuf, result, erased, logged>>

\* Many throws of InvalidBufferException are behind an assert of their own.
Abort ==
  /\ asserts
  /\ \/ pc = "start" /\ ~StartIncomplete(byteBuf) /\ StartAsserts
     \/ pc = "loop" /\ Malformed(byteBuf)
  /\ pc' = "aborted"
  /\ UNCHANGED <<asserts, stream, got, loggingFunc, byteBuf, result, erased, logged>>

Step ==
  \/ StartSmall
  \/ \E p \in Protocols : StartFound(p)
  \/ StartFails
  \/ \E n \in 1..Len(byteBuf) : LogEvent(n)
  \/ LoopEnds
  \/ LoopFails
  \/ Abort

Next ==
  \/ \E n \in 1..Len(stream) : ForceLog(n)
  \/ Step

\* A call of forceLog runs on the server's thread until it returns.
Fairness == WF_vars(Step)

Spec == Init /\ [][Next]_vars /\ Fairness

-----------------------------------------------------------------------------
\* No byte is lost, repeated or reordered between recv and the decoder: the
\* buffer holds exactly the received tokens that no decoder has taken, at every
\* point of forceLog (append in log4cxxClient.cpp:43, erase in the loaders).
Conserved ==
  /\ Len(byteBuf) = got - erased
  /\ \A i \in 1..Len(byteBuf) : byteBuf[i] = stream[erased + i]

\* Tokens e.from to e.to of s are exactly one event that is to be logged.
IsFrame(s, e) ==
  /\ MarkerLen < e.from /\ e.from <= e.to /\ e.to <= Len(s)
  /\ s[e.to].kind = "event"
  /\ \A m \in e.from..(e.to - 1) : s[m].kind = "body"
  /\ e.from = MarkerLen + 1 \/ s[e.from - 1].kind \in FrameEnds

\* Every logged event is exactly one frame of the stream: it ends where a frame
\* ends, no other frame ends inside it, and it begins right after the marker or
\* right after the frame before it.  A decoder restarted on a partial frame, or
\* an erase of the wrong length, would log a frame torn or glued.
WholeFrames == \A i \in 1..Len(logged) : IsFrame(stream, logged[i])

\* Events are logged in the order they were sent and none is logged twice.
InOrderOnce ==
  \A i, j \in 1..Len(logged) : i < j => logged[i].to < logged[j].from

\* A session's log is the stream's events, whole, in the order they were sent and
\* each once: an event is neither torn or glued by a call that ended inside it, nor
\* logged again by the call that comes after (log4cxxClient.cpp:43, 62-68).
FramesInOrder == WholeFrames /\ InOrderOnce

\* When forceLog returns, what has been logged and what it returns depend only
\* on the bytes received so far, not on how recv cut them: every event that is
\* complete and permitted is logged, none is left in the buffer until the next
\* chunk comes, and false is returned exactly when the bytes received are not
\* an acceptable prefix, in this call and in every later one.
ReturnsIdeal ==
  pc = "idle" =>
    /\ result <=> Acceptable(stream, got)
    /\ {logged[i].to : i \in 1..Len(logged)} = Owed(stream, got)

\* A session that received the bytes in many chunks is in the state, has logged
\* the events and returns the value of a session that received them in a single
\* call of forceLog: m_ByteBuf and m_LoggingFunc carry all that a call leaves
\* unfinished (log4cxxClient.cpp:41-80), and the servers may use ForceLogResult.
AgreesWithOneCall ==
  pc = "idle" =>
    LET one == ForceLogResult(FreshSession, SubSeq(stream, 1, got)) IN
    /\ one.session = [func |-> loggingFunc, buf |-> byteBuf]
    /\ one.ok = result
    /\ [i \in 1..Len(one.events) |-> one.events[i].id] = [i \in 1..Len(logged) |-> logged[i].to]
\* The inductive strengthening.  What has been erased is the marker and whole
\* frames, and no decoder runs before the marker was taken; ...
TakenWhole ==
  /\ loggingFunc = NoFunc => erased = 0 /\ logged = <<>> /\ pc # "loop"
  /\ loggingFunc # NoFunc =>
       /\ pc # "start" /\ MarkerLen <= erased
       /\ MarkerOK(stream) /\ CleanUpTo(stream, erased)
       /\ erased = MarkerLen \/ stream[erased].kind \in FrameEnds

\* ... every permitted event among it has been logged, and nothing else.
TakenLogged ==
  /\ \A i \in 1..Len(logged) : logged[i].to <= erased
  /\ \A k \in (MarkerLen + 1)..erased :
       stream[k].kind = "event" => \E i \in 1..Len(logged) : logged[i].to = k

\* Each conjunct needs the others: a decoded event is a frame of the stream
\* only because the buffer is the rest of the stream (Conserved) and begins at a
\* frame boundary (TakenWhole); it is new only because what was logged before
\* lies in the erased part (TakenLogged).
IInv ==
  /\ TypeOK /\ Conserved /\ TakenWhole /\ TakenLogged
  /\ WholeFrames /\ InOrderOnce /\ ReturnsIdeal

\* What AgreesWithOneCall needs besides.  While no call runs, the session waits for
\* the rest of the marker or of one frame, or has refused the stream; ...
WaitsForMore ==
  pc = "idle" =>
    IF loggingFunc = NoFunc
      THEN StartIncomplete(byteBuf) \/ ~MarkerOK(stream)
      ELSE \A k \in (erased + 1)..got :
             CleanUpTo(stream, k) => stream[k].kind \notin FrameEnds

\* ... its decoder is the one of its marker, and what it has logged is what is
\* permitted in the part of the stream that it has erased.
LoggedFromErased ==
  /\ loggingFunc # NoFunc => loggingFunc = stream[2].kind
  /\ LET due == Only(SubSeq(stream, 1, erased), {t \in Token : t.kind = "event"}) IN
       /\ Len(logged) = Len(due)
       /\ \A i \in 1..Len(logged) : logged[i].to = due[i].id

\* A call of forceLog ends: the while loop always erases something or leaves.
CallReturns == (pc # "idle") ~> (pc \in {"idle", "aborted"})

\* Where assertions are compiled in, they end the process only at the marker of
\* a stream that is not in the default protocol, or at a byte its decoder cannot
\* accept; every event that was complete before that byte has been logged.
AbortsOnlyRefused ==
  pc = "aborted" =>
    IF loggingFunc = NoFunc
      THEN ~Matches(stream, "default") /\ got >= MarkerLen
      ELSE ~Acceptable(stream, got) /\ {logged[i].to : i \in 1..Len(logged)} = Owed(stream, got)

\* A stream of well-formed events in a protocol the loaders know does not end the
\* server process: a readStart that does not find its own marker reports it with
\* an exception (DefaultObjectLoader.h:14), and the next loader is tried.
KnownProtocolsServed ==
  pc = "aborted" => ~Acceptable(stream, Len(stream))
=============================================================================
