# log4cxxSamples: models, checks and proofs

The repository holds log servers and clients in C++, Python and Java that speak
a few related protocols over TCP: a peer sends a four-byte start marker
(`AC ED`, then two bytes that name the protocol) and then serialized logging
events back to back, and a server hands the events to its own log4cxx
appenders. This directory models the C++ servers and the session object they
share, down to the bytes its decoders read, the handlers of the python server, and
the way of an event from a client's logging call to a server's log over connections
that break. TLC checks the models. TLAPS proves the session's invariants, and that its
small steps agree with the operator the servers use; that each of the four servers
(epoll: level-triggered) implements the abstract log server, keeps its registry or its
threads in step with the open descriptors, and logs of a connection what its bytes
complete; that a client's connections carry their events once and whole, so that
none is logged twice; and, of the bytes, that no decoder reads behind its buffer or
lets the cuts of recv change what it reads.

## 1. The system

| part | source | state it keeps | operations | hard to get right |
|---|---|---|---|---|
| client session | `log4cxxExt/Socket/log4cxxClient.*`, `log4cxxExt/Loader/ObjectLoader.*` | `m_LoggingFunc` (the decoder chosen), `m_ByteBuf` (bytes not decoded) | `forceLog(bytes, size)` | recv cuts the stream anywhere; the rest must survive to the next call |
| decoders | `log4cxxExt/Loader/*ObjectLoader.cpp`, `Default*InputStream.cpp` | none (they erase from the buffer they are given) | `readStart`, `createLoggingEvent`, a reader for each field | telling incomplete from malformed; erase only when whole; classes described in full, by handle or after a reset; assertions before exceptions |
| select server | `log4cxxSelectSocketServer` | listener, `std::set<Client>`, `fd_set` | one loop: select, recv of each ready client, one accept | readiness that is out of date, erasing under an iterator, reused descriptors |
| poll server | `log4cxxPollSocketServer` | listener, `pollfds`, `unordered_set<Client>` | the same with poll | two containers in step, the walk over `pollfds` |
| epoll server | `log4cxxEpollSocketServer` | listener, epoll instance, `unordered_set<Client>` | epoll_wait, per event an accept or a recv; level- or edge-triggered | events of closed descriptors, lost edges |
| thread-per-client server | `log4cxxSocketServer` | listener; a detached thread and a buffer per client | accept; start marker; recv and log | threads that outlive the server, failing thread creation |
| event construction | `LoggingEventEx.cpp` | none | fields to a log4cxx event | milliseconds or microseconds; names parsed out of `func(path:line)` |
| python servers | `pythonLogging/server` | what recv returned of a record; an unpacker | a `handle` for each protocol, in a thread for each connection | a peer that closes anywhere, recv that returns less than was asked for |
| python clients | `pythonLogging/client` | a socket, the time of the next attempt to connect | `makeSocket`, `makePickle`; the standard library's `send` | a server that ends; events dropped until the next connection |
| C++ client sample, socket appender | `log4cxxSocketClient`, `Extern/log4cxx-0.10.0/.../socketappender*.cpp` | the appender's stream, its buffer and socket | configure anew, log, once a second | sends cut short, a server that ends, a connector thread that is never started |
| java samples, tests | `javaLogging`, `test` | none | calls of libraries | - |
| other vendored code | `Extern` | - | - | third-party |

Interaction: a server's loop calls the system (select, poll or epoll_wait, then
accept, recv, closesocket), looks a descriptor up in its registry of `Client`
objects and calls `forceLog` with what recv returned; `forceLog` calls the
loaders through `m_LoggingFunc` and the appenders through log4cxx. There are no
callbacks and, in the three event-loop servers, one thread; all their concurrency
is with the peers, who connect, write, shut down and reset between any two system
calls of the server. The thread-per-client server has a detached thread for each
connection besides: the threads share the descriptor table and the appenders, and the process
may end while they run. It does not use the session object but has a `forceLog` of
its own, for the default protocol. What makes each part correct is stated with its
module below; the hazards that call for it are in `PROJECT.json`.

## 2. The modules

`Frames` -> `Client`; `Frames` -> `Session` -> `Sockets` -> `EventLoop` ->
`SelectServer`, `PollServer`, `EpollServer`; `Frames` -> `Lifecycle` -> `LogServer`,
both of which `EventLoop` instantiates. `Sockets` -> `ThreadServer`, which instantiates
`LogServer` too. `Session` -> `Delivery`: the clients. `Sockets` -> `SocketsProofs`, the
lemmas on sequences, decoders and system calls, which the modules with theorems extend:
`EventLoopProofs` and, with it and one server each, `SelectServerProofs`,
`PollServerProofs`, `EpollServerProofs`; `ThreadServerProofs`; `SessionProofs` and
`DeliveryProofs`. `Wire` -> `Decoder` -> `Decoding` -> `PythonHandlers`
stand beside them: the bytes behind the tokens. `SessionProofs` extends `Client` and
`Decoding`, the session in tokens and in bytes. An `MC` module gives constants for TLC.

* **Frames** - byte streams as the decoders tell them apart. A *token* stands
  for the bytes between two places where a decoder could stop: half of the marker
  (`magic`, then the protocol), bytes after which an event is still incomplete
  (`body`), the last byte of an event (`event`, or `quiet` when its level is
  below its logger's), a byte at which the decoder throws
  `InvalidBufferException` (`bad`). The decoder operators say what
  `createLoggingEvent` finds at the front of a buffer and what it erases.
  `Acceptable` and `Owed` say, of the stream alone, what a session owes its
  peer. The bytes decoder never throws `InvalidBufferException`, so the
  streams of the runs have no `bad` behind a `bytes` marker.
* **Client** - `forceLog` step by step: entering with a chunk, the choice of
  the decoder with its four outcomes, each iteration of the loop. `asserts`
  says whether the build has `assert()`; where it has, `Abort` is the end of the
  process at the assertions the loaders have before an `InvalidBufferException`.
* **Wire** - the bytes of the peers' events: the python handlers, the vendored
  log4cxx appender, the writer of the tests and, external, log4j. A text is the
  sequence of its bytes; a name in a class description is one byte long, because
  the decoder skips it by its length. What the writers differ in - how they
  describe a class they have described before, whether they write a location, MDC,
  NDC - is a parameter of `DefaultBytes`. A msgpack event is a map of the attributes
  of a `LogRecord` in the order its constructor sets them, each packed in the shortest
  width as `packb` does; a float's eight bytes hold microseconds instead, and the
  decoder's arithmetic is done on what they stand for.
* **Decoder** - the readers of the default and the bytes protocol and the parser of
  the msgpack library, one operator for each function. The parser keeps a stack of
  containers and how much of each is left; `SkipItems` keeps the sum, because only
  whether anything is left matters. `Unpack` yields keys and values in turn, and
  `ReadMsgpack` takes the fields by their place (`msgIndex`), each as `as<>` converts it
  or refuses it (`Converts`, `As`): an int is a number of either sign that has 32 bits
  (`FitsInt`), a float any number. The product of the level and 1000 wraps in 32 bits,
  which is what the builds do with the overflow C++ leaves open (`Times1000Int`).
  `Seconds` and `Microseconds` compute the float of the code exactly, with its 24 bits
  and its rounding after each multiplication, for times from one second to 2^11. A reader yields a value and
  a position, or one of the two exceptions (`small`, `invalid`), or goes back behind
  a negative length of a class description (`backward`); `Then` goes on where there is a
  value (it is written with a CHOOSE from the set of its only result so
  that TLC evaluates that result once, in the fairness condition too). Kept as
  the code has them: the loop over fields takes the type string of a field for a
  field and what follows it skips the rest; names, versions and flags are skipped
  without a check of the size; an NDC of another type is no error and its type byte
  is read again; a path's or a function's text ends at its first zero. `HasRoom` says
  nothing fits at a position behind the buffer; no text of a run is so long that the
  sum in the code would wrap. `DefaultEvent` and `BytesEvent` are the conversions of
  `LoggingEventEx.cpp`: time to microseconds, unknown levels to DEBUG, the parts of
  `func(path:line)`, NA where a part is not found.
* **Decoding** - the loop of `forceLog` on `m_ByteBuf` as it is, behind the start
  marker. It says of bytes what `Client` says of tokens, and so that `Frames` is
  right to let a decoder stop only at the end of an event: a proper prefix is
  incomplete and never malformed or whole. `Legible` says of a sender that the decoder
  reads each of its parts, alone, as it was meant, which the theorems take as a
  hypothesis; TLC evaluates it to TRUE for the senders of the run
  (`SendersAreLegible` in `MCDecoding`).
* **PythonHandlers** - `handle` of the python server's handlers: of pickles, whose
  length is read first, of the bytes protocol, with a recv for each length and each
  field, and of msgpack, which feeds an unpacker with what it gets. Those of the
  default protocol and of json return after the marker. A recv returns what has
  arrived, at most what was asked for, and nothing after the peer has closed. What
  comes short ends a handler, but for a pickle's chunk, which is read on. A pickle is
  opaque; the fields of the bytes protocol stand for it. The module shares the
  variables of `Decoding`, whose invariants speak of both: one run has the streams of
  the C++ session and of the handlers.
* **Delivery** - a client, the connections it makes one after another and a server
  that may end and be started again. The client is the C++ sample (`kind` is
  `appender`) or a python handler (`handler`). The sample's `configure` closes the old
  appender, which flushes what it has not sent, and connects a new one, whose stream
  begins with the marker; `append` writes behind it and flushes; an error gives up the
  stream, and the events after it are dropped until the next round. Here
  `fireConnector` does nothing, because that is what it does: it starts the connector
  thread if `thread.isActive()`, which is false before it was started. The python
  handler connects when it has an event and no socket, at once or, after a failure,
  at some later event, and drops the events before. A connection's `peer` is the
  server's end: `queued`, `accepted`, `gone`, and `reset` once the client's system has
  learned of it; what is sent in between is lost without an error. The server is the
  sessions of its connections (`Session`); which loop waits for them does not matter
  here. An event is two units, so that sends and receptions can cut it.
* **Session** - one call of `forceLog` as an operator, for the servers. That
  it agrees with `Client` is checked and proved (`AgreesWithOneCall`).
* **Sockets** - external: connections, listen queue, receive buffers and
  descriptors of the system, as far as the servers see them. A descriptor
  accept returns is the lowest free one, so descriptors are reused at once. Data
  queued before a reset may or may not still be received. The progress
  properties, which say of every server the same thing, stand at its end.
* **EventLoop** - what the three loops share: the registry `clientSockets`,
  accept and its failures, recv followed by `forceLog`, the clean-up, and the
  properties of all of them.
* **SelectServer**, **PollServer**, **EpollServer** - `runServer` of each, one
  action for each stretch of code between two system calls of which the peers
  could notice the order. The set-up of the listener is in `Init`: it
  succeeds or the process ends. `EdgeTrigger` is the CMake option
  `ENABLE_EDGE_TRIGGER`, off by default.
* **ThreadServer** - `runServer` and `runClient` of the thread-per-client server.
  `pc` is where the main thread is, `thread[c]` the thread of connection `c` with
  its locals: the descriptor, `byteBuf`, and how much the last recv brought. In
  the marker loop `byteBuf` stands for the filled part of `recvBuf`. A step is
  a system call with the code up to the next one, or one iteration of the
  decoder loop, since the appenders may log other threads' events between two
  iterations. Main may be at `accept`, at `exiting` (accept failed, the listener
  is closed, the threads go on) or at `exited`.
* **Lifecycle**, **LogServer** - the abstract specification, in two layers. In
  `Lifecycle` a connection is queued, open, closed; its bytes are taken in order while
  it is open; only one that is finished, reset or refused is closed. `LogServer` adds
  that taking bytes logs exactly the events they complete. Neither knows of
  descriptors, buffers, chunks and readiness. The refinement
  mapping (`EventLoop!Promise`) computes a connection's phase from queue and
  descriptor table (`Sockets!Phases`), and its events from the history of what was logged. That of
  `ThreadServer` has two things to add. Bytes a thread has received count as taken
  only when its loop has looked at them (`Looked`), because it logs the events of
  one chunk one by one. And the other protocols' markers are unknown ones to it
  (`Understood`).

State and code: `clientSockets` is the container of that name, restricted to
what a `Client` holds; `fds`, `pollfds` and `it`, `events` (the part of
`epoll_events` not handled yet) are the variables of the source; `owner`,
`backlog`, `peer`, `sent`, `taken`, `armed` belong to the system; `logged`,
`erased` and `faults` are histories.

## 3. The runs

| run | what it shows |
|---|---|
| `session` | All cuts into chunks of all streams of up to 6 tokens (and of an event with a marker inside it): no byte lost (`Conserved`), only whole events logged, in order and once (`FramesInOrder`), the logged events and the result depend on the bytes alone (`ReturnsIdeal`), the small steps agree with the operator `ForceLogResult`, an abort comes only where the default decoder cannot go on (`AbortsOnlyRefused`), each call returns. |
| `session_asserts` | Violation: with assertions a bytes or msgpack peer ends the process. |
| `select` | Types; registry and open descriptors are the same (`RegistryIsOpen`); a session is what its present connection's bytes make of a fresh one (`SessionIsOwn`); a refused client is closed (`RefusedIsClosed`); the server implements `LogServer`; nobody waits for ever (`Progress`). |
| `select_full` | One descriptor for two connections: accept fails while the listener stays ready. The client that is served loses nothing (`LogsOwed`) and who waits is served when the descriptor is free again (`ServesWhenFull`). |
| `poll` | The poll server implements `LogServer` and nobody waits for ever, with `pollfds` in step and the iterator never past the end. That its refused clients are closed is proved only (`PollRefusedIsClosed`). |
| `epoll` | Level-triggered: the assertions of the code hold of every batch order; it implements `LogServer`; nobody waits for ever. |
| `epoll_refused` | Violation: the result of `forceLog` is ignored. |
| `epoll_edge` | Edge-triggered: no arrival of bytes is forgotten (`BytesAreNoticed`, `DataIsRead`), the assertions hold, the right events are logged, no client is closed early. |
| `epoll_edge_close` | Violation: the end of a stream that comes with its last data is never seen. |
| `thread` | Each running thread's descriptor stands for its own connection and every open descriptor has such a thread (`Consistent`), through reuse of descriptors, failing accept and thread creation, failing assertions and the end of the process; whenever the process ends, no thread has left more unlogged than what its last recv returned and its loop has not come to (`OnlyLastRecvIsUnlogged`), which `LogServer` alone does not say, since it lets a server stop; the threads together implement `LogServer`; nobody waits for ever, not in the queue, not with data, not with the end of a stream, inside the marker or behind it (`Progress`). |
| `decoder` | Bytes of every writer, cut anywhere: the decoded events are those that were written, field by field, and the buffer begins where the next one does (`DecodesWhatIsWritten`); an event that is there is not taken for incomplete (`NoneDelayed`), nor a part of one for malformed (`RefusesOnlyForeign`); the assertion before the erase holds (`ReadsInside`). The same of the python handlers, which also end when their peer has closed (`HandlersEnd`), but for the one of pickles inside a chunk, which asks for more for ever. |
| `delivery` | Whatever breaks: while a server has a connection, what it has received, what is on its way and what is buffered are the marker and the events handed to the stream (`Conserved`); no event is logged twice and those of a connection are logged in order without a gap (`LoggedOnce`); what is logged in a round that begins while the server is up, and stays so, arrives (`EventsArrive`). |

Bounds. Two connections are what the loops can confuse: one is served while the
other is queued, one closes and the other gets its descriptor, both are in a batch.
They have two descriptors (`Fd`), in `select_full` one. `BufferLen` is 2, so an
event, and the marker, can be cut by recv as well as by the peer (3 with threads, so
that a chunk can hold an event and what follows it). One peer's stream is a marker
and an event, in two parts in `poll` and `epoll`; the other's is refused, by the
decoder (`select`, `epoll`) or at the marker (`poll` and the edge-triggered runs).
In `thread` one peer sends an event, in two parts that one recv may return together with
what follows, and then what the decoder refuses, the other the marker of a protocol the
server does not know. `MaxFaults` is 1: one system call of an event loop that fails for
reasons of its own (EINTR, setNonblock, epoll_ctl, ioctl, accept) or one wait that reports
a readiness that is none, at any place; it is 0 in `epoll_edge_close`, where the
counterexample needs no fault. `ThreadServer` has no such bound: a failing accept and a
failing constructor of `std::thread` each end the server.
`QueueLimit` 2 lets both connections wait. Each connection is made once; a
descriptor's reuse needs no more.

The streams of `decoder` have up to four events; a chunk is of 1 to 80 bytes, so that
every place of a stream is the end of a chunk, a short event can come whole, and
a chunk can hold the end of one and the beginning of the next. The texts are type
codes and zeros, empty, or 300 bytes long, where both bytes of a length count.
Classes are described in full, by handle, and anew after a reset. What the decoder
is not made for, a throwable or an NDC that is a handle as log4j may send them, is
`Foreign`. The expected event says where the conversion loses something: the default
protocol has milliseconds; the python client writes no class before the function,
so its name is NA; MDC and NDC are read and dropped; of a msgpack time 24 bits are
left. The times are of the first twenty minutes of 1970, because TLC's numbers have 32
bits: there a float's unit is a few microseconds to 61, today it is 128 seconds. The
msgpack streams have integers in one, two and three bytes, texts of all lengths, the
extra attributes a map, an array, a nil and texts that filters may add, a message that
is no text and a byte no item begins with; in `MCOtherPackings`, which the python client
does not send, a negative level, one whose product with 1000 wraps to another level, a
time without a point and a line number of 2^31, which no int has. The peers of the python handlers close at
the end or behind one of the `CloseAt` bytes: before and inside a length, a text, a
number and a chunk, of the first and of the second event.

`delivery` has two rounds of three events (or three events of a python handler) and
one end of the server: an event can be lost in a connection that has died unnoticed,
fail in the next call, and be dropped in the third; the second round can begin before,
at and after the server's restart. The number of ends still to come is chosen at the
start, and `sure` says that none is left. A third round repeats the second.

Deadlock is not checked: the servers wait for peers that may do nothing more.

Fairness. `WF_vars(ServerStep)`: the server's thread is scheduled, and a system
call that can return does. Nothing is assumed of the peers. In `ThreadServer` the
main thread (`WF_vars(MainRuns)`) and each client's (`WF_vars(ThreadRuns(c))`)
are scheduled by the system independently of each other; a failing accept or
thread creation may happen and need not. With no descriptor free accept fails even
when nobody is waiting, because the system takes the descriptor before it waits.
It ends the server, so that nobody waits then either. In `Client` the
steps of `forceLog` are weakly fair, as it runs on the server's thread. A python
handler's steps are (`HandlerFairness`): its thread is scheduled, what its peer sends
arrives and its end too. In `Delivery` the client's steps are, and those of the server
as a whole; that it is started again, that the client ends, and that the client's
system learns of a reset may happen and need not. The sample's loop has no end, and
`EventsArrive` excepts only the event that `Exit` cuts off.

## 4. The findings

* Assertions before exceptions: `readStart` asserts that the marker is its own
  before it throws the exception that lets the next loader try. A build without
  NDEBUG, the default of the CMake files, serves only the default protocol.
* The epoll server keeps a client whose bytes were refused; its buffer grows.
* Edge-triggered, a FIN that arrives with the last data is not noticed, and the
  client stays open.
* Not a run of its own: edge-triggered, `QueueDrains` fails too, for one edge of
  the listener leads to one accept.
* Not a run of its own: `log4cxx/include/log4cxx/net/socketappender.h:45-53` of the
  vendored library promises that events eventually arrive if the server is reachable
  and that a connector thread resumes the transmission when a server comes back. The
  thread is never started (`socketappenderskeleton.cpp:133`). `EventsArrive` holds
  because the sample configures anew in every round; with the mutant
  `ConfigureOnce`, a program that configures once as programs usually do, it fails.
* Not a run of its own: the python server's thread that waits for the rest of a pickle
  when its peer has closed runs for ever (`server.py:32`, `SpinsInChunk`).

## 5. The proofs

Everything here holds for any streams, of any length, any number of connections,
descriptors, rounds, events and faults, and any queue and buffer length.

**Sequences and decoders** (`SocketsProofs`). What a decoder finds and what a log has of
a connection are defined by folds and loops. `Only(s, K)`, the elements of `s` in `K`,
is a recursive function, and its facts (`OnlyIs`, `OnlyConcat`, `OnlySame`) come from an
induction over the natural numbers written with sets (`Induction`), because the library's
takes an operator. What the loop of `forceLog` takes of a buffer is said by the place of
the last whole event (`LastEndIs`, `DecodeFrom`), without recursion; so a session is a
function of the bytes of its connection alone (`Held`), and one call more leads from
`Held(s, t)` to `Held(s, u)` and logs the permitted events between (`SessionAfter`).
Then, of the system calls and the peers' steps: they keep a connection in one place
(`Places`) and the counts of its bytes in range (`CountsInRange`), and a step that moves
one connection leaves the phases of the others (`PhaseIs`, `OneMoves`).

**The session in tokens** (`SessionProofs`), for both builds: `SessionInvariant`
(`Spec => []IInv`), and from it `SessionTyped`, `SessionConserves`,
`SessionLogsWholeFrames`, `SessionReturnsIdeal` and, by a step of its own,
`SessionAbortsOnlyRefused`: at an abort the argument is that of the refusing return
(`MalformedIsRefused`). `IInv` is the conjunction of the type invariant, the properties
and two facts they need: what has been erased is the marker and whole frames
(`TakenWhole`), so the buffer begins at a frame boundary; and what was logged lies in
the erased part (`TakenLogged`), so a newly decoded event is new. Without `TakenWhole`, a
step from a buffer that begins in the middle of an event would log a torn frame. One
lemma for each action, one for `Return` and `Consume`, which several actions share.
`SessionAgreesWithOneCall` compares what any cutting into calls has led to with what one
call of `ForceLogResult` makes of all bytes. It needs that a session that waits for
more bytes has nothing left that could be decoded (`WaitsForMore`), and that what is
logged is exactly what is due of the erased part (`LoggedFromErased`), not only that it
lies there.

**The session in bytes** (`SessionProofs`), for senders of any bytes and any cuts.
`DecoderReads` compares what a decoder makes of a buffer with what it makes of a longer
one: a value comes again, at the same place, and so do malformed bytes; only `small`
may change. And a value takes at least one byte and none behind the end. Each reader has a
lemma of this kind (`Reads`; `Passes` where a reader may skip beyond the end, as names in
class descriptions are). The loops are recursive functions over the rounds left and the
position. That such a function exists is not given but proved: each round goes on in the
buffer, so there is a rank that falls (`Descent`, `LoopExists`; a type in a class
description ends them, `SkipTypesIs`), and an induction over the rank makes the function.
Without the outcome `backward` none would exist, for a negative length leads to where the
loop has been.

From it alone follows `DecoderStaysInside` (`ReadsInside`): the loaders' assertions that not
more was read than there is hold, whatever anybody sends. `EventsAreAsWritten`
(`DecodesWhatIsWritten`), `NoWholeEventWaits` (`NoneDelayed`) and `NoEventIsRefused`
(`RefusesOnlyForeign`) have a hypothesis: the senders are `Legible`. It says nothing of
cuts, of buffers, or of parts before or after, and that is the point. The inductive
invariant `InPlace` says that what was decoded are the first parts and that the buffer is
what follows them in what has been received; at a stop also why. What an iteration does
there is `BufferDecodes`: if the next part is whole, the buffer is that part and more, and
by `DecoderReads` the decoder makes of it what it makes of the part; if it is not, the
buffer is a beginning of the part, of which the decoder can make nothing else than
`small`, or else it would have made the same of the whole part and would have stopped
before its end.

`PythonBytesArrive` has no such hypothesis: for what the python client's handler of the
bytes protocol writes (`SendsBytes`), `Legible` is proved. The event may have any texts shorter
than 2^32 bytes, any level of 32 bits and a time below 2^32 (the model writes no more).
Numbers are read as they are written, negative levels too (`SignedOfInt`), a text of any
content is read by its length (`WrittenLongText`), and each field is read where the one
before ends (`PythonBytesRead`). What comes out is what went in, but for levels log4cxx does
not know and for what lies behind a zero in path, function and line (`Meant`).

`WrittenEventsArrive` adds the default protocol (`SendsDefault`), and a mix of the two: the
python client, the tests' saver, log4cxx's appender with the first event of a connection
(which describes its classes), with later ones (which refer to them by handles) and with
ones that have no location, and log4j with and without a reset in front. Texts are shorter
than 65536 bytes, for that is what the length of a Java text can say; an MDC has as
many pairs as an int counts. The decoder does not look names up in a class description but passes over
it, so the proof is about passing: `ClassRead` says that a description of any number of
fields and types (`Describes`) is passed, and the three classes the writers describe, the
handles, the location, the MDC and the NDC are passed or read likewise (`FoundAs`: wherever
the piece is written, the reader that meets it there finds what it stands for and goes on
behind it). An event is sixteen such pieces (`Pieces`), and the readers of `Decoder` meet
them in that order (`DefaultRead`). The event is `MeantWith` what is written of the
location: its parts are what `FileName`, `MethodName` and `LineNumber` find in it.
`PythonBytesArrive` is a special case, kept since its texts are what matters in it.

**The event loops** (`EventLoopProofs`). The three servers differ in how they learn what is
ready. What they do with it is the same, so the invariants are proved once, of a step
`LoopStep`: it waits, hears from a peer, accepts, disconnects a client, receives and logs,
or cleans up. `LoopHolds` has three parts, and `StepKeeps` says that a `LoopStep` keeps it:

* `RegistryInv`: the registered descriptors are the open ones. `RegistryIsOpen` is not
  inductive: that accept gives no connection a second descriptor needs that the queue
  holds nothing twice and nothing that is open, and that needs, for `Connect`, that an
  idle connection is nowhere (`PlacesApart`). That accept gives a free descriptor
  (`NextFdIsFree`) rests on the least element of a set of natural numbers.
* `SessionsInv`: the session at a descriptor is `Held` of what its present connection has
  sent (`SessionsFit`), and nothing was received of a connection before it got one
  (`UnreadUntilOpen`). A descriptor's reuse is the case where the session must be a fresh
  one: that follows from `UnreadUntilOpen`, and `RegistryInv` says that the old session
  is gone.
* `HistoryInv`: the log has of each connection the events its received bytes complete
  (`LogsOwed`), in order, and nothing of another connection is in what a reception logs.

`Served` adds that no open client has been refused (`StepKeepsServed`); the epoll server
does not have it, because it ignores the result of `forceLog`, which is its finding.
`StepCloses` has the action property `ClosesOnlyWhenDone`: a client is removed because its
peer is gone (`GoneIsDone`), or because the stream so far is not acceptable
(`RefusedIsDone`); that forceLog's refusal of one chunk means the latter is again
`SessionAfter`. `StepKeepsPromise` has the refinement of `LogServer`: a reception is its
`Read` with the events that the taken bytes complete (`CompletedIsOwed`), an accept, an
error or a close is a step of `Lifecycle`, all else stutters.

**The servers.** Each proves that its steps are `LoopStep`s, and what it remembers itself:

* `SelectTypeOK`, `SelectRegistryIsOpen`, `SelectSessionIsOwn`, `SelectRefusedIsClosed`,
  `SelectLogsOwed`, `SelectClosesOnlyWhenDone`, `SelectImplementsLogServer` and, without
  events, `SelectImplementsLifecycle`.
* The same of the poll server. `PollConsistent` has the types and that `pollfds` and the
  registry are in step; `PollIteratorInRange` has the iterator. `EraseForgetsOne` and
  `PushAddsOne` say what erase and push_back do to a vector of distinct descriptors; the
  listener's place at the front is kept because the walk starts behind it.
* The same of the epoll server, but for what is said of refused clients. The theorem
  `EpollImplementsLogServer` is of the level-triggered build: edge-triggered it also closes a
  client whose bytes ioctl cannot count. `EpollConsistent`, `EpollSessionIsOwn`,
  `EpollLogsOwed` and `EpollClosesOnlyWhenDone` are of both builds; the last counts a failed
  ioctl among the reasons for which a client may be closed.
* `EpollAssertsHold`: `ReadingCounted` strengthens it. Between ioctl and recv the
  client's own event has left the batch, so nothing can close the client, and its
  peer can only add to what was counted (`PeerKeepsCounts`).
* `EpollBytesAreNoticed`: edge-triggered, bytes that wait at a client's descriptor are
  armed (a wait will report it), in the batch, or being received by a recv that will
  take them or has been overtaken by an arrival, which armed the descriptor again
  (`Noticed`, `KnownOf`). `AcceptNoticed` has the bytes that came before the
  descriptor was added, `PeerKeepsCounts` those that come between ioctl and recv.

**The threads** (`ThreadServerProofs`). `DescriptorsAreOwn` is `Consistent`, types and all:
a running thread's descriptor is its own connection's, and no open descriptor is without
a thread that will close it. `DescriptorInv` adds `Places`: accept gives a descriptor to the
head of the queue, which has no thread yet because it has no descriptor yet; closesocket
frees the caller's descriptor and, because no two stand for the same connection, takes it
from no other thread.

`ThreadsImplementLogServer` needs more of each thread (`ThreadFits`, with `DescriptorInv`
`ServerInv`): its `byteBuf` is the part of the stream between the last decoded event and
what recv has brought (`Decodes`), before the marker is whole it is all that was received,
and a thread that cleans up has a reason (`Done`). The log grows by one event at a time while the abstract
server takes a whole stretch of bytes, so the mapping counts as taken what the loop has
looked at (`LookedIs`): decoding one event takes the bytes up to its end and completes that
event or, if its level is too low, none (`CompletedOne`, `CompletedNone`); the end of the
loop takes the rest, which completes nothing. What the mapping makes of a stream with
another protocol's marker has the same acceptable and owed parts as the code gives it
(`HeardIs`, `HeardOwed`, `HeardRefused`). One lemma for each action.

`EndLosesOnlyLastRecv` is about the end of the process, which `LogServer` allows at any time:
`OnlyLastRecvIsUnlogged` of every moment. It needs `ServerInv` and, of each thread,
`LoggedFits`: what is logged is all that the bytes looked at complete, which every step of
`LogServer` keeps (`PromiseKeepsLogged`, with `CompletedSplit`), and a recv brings no more
than `BufferLen` (`StepKeepsLast`). A thread outside the loop has looked at all it took
(`UnloggedIs`).

**The clients** (`DeliveryProofs`). `DeliveryConserves`: `Conserved` is inductive with the
types and with `Buffered`, which says that nothing is buffered without a stream, that a
client that sends has one and that one that connects has none (so a new stream begins
with an empty buffer). A send moves units from the buffer to the wire, a reception from
the wire to what was read, and `WriteEvent` puts an event's at the end, where `Whole` of
one event more has them. A connection whose server's end is gone is outside `Conserved`:
from there on units are lost.

`DeliveryLoggedOnce` says that nevertheless no event is logged twice, and of a connection
the first ones handed to it, without a gap. The argument follows an event from the call
to the log; `LogInv` has a conjunct for each stage. An event's number is new when
it is handed to a stream, so no two streams have it (`GivenOnce`). What a server's end has
read is a front of what was handed to the stream (`ReadIsFront`), and stays so when the
connection breaks; while it is there, this is `Conserved`. Its session is what those units
make (`SessionsHold`, from `SessionAfter`). The log has of the connection exactly the
events whose last unit was read (`LogFits`, `LogHas`), so a chunk's events are the next
ones (`ChunkLogs`), and, being in no other stream, are nowhere in the log (`LogGrows`). The
numbers stay within the events of all rounds (`EventsBounded`), for which the constants
give tokens.

Assumed: `StreamsAssumption` (streams are sequences of tokens that know their place),
`SocketsAssumption` (descriptors are natural numbers, the listener's is not a client's,
streams are sequences of kinds), `EventLoopAssumption` and `ThreadServerAssumption` (a
buffer has room for something), `EdgeTriggerAssumption` (it is a Boolean),
`DeliveryAssumption` (the bounds are natural numbers and
every event has its two tokens),
`SendersAssumption` (a sender's protocol is one of the three and its parts are texts).

Only model-checked: that the parts of the msgpack protocol are read back alone, which
`decoder` does for every writer: the value of a key is whatever type its packer chose, and
what `CString` leaves or a float keeps is an induction over data. Also that what
`MeantWith` finds in a location is what the program gave (where it is: a name with a colon
or a parenthesis is cut elsewhere); that what is foreign to a decoder, as an event of
log4j with a throwable is, is malformed to it;
`PythonHandlers`, whose invariants are those of `Decoding` in the same run; that `Frames`
is what the decoders do with tokens, which `decoder` checks on bytes and is read off the
code; and liveness (`CallReturns`, `Progress`, `DataIsRead`, `ServesWhenFull`, `HandlersEnd`,
`EventsArrive`), which is out of the prover's reach.

## 6. Not modelled

* Of the repository's 278,000 lines all but some 5,000 are vendored libraries (apr,
  expat, log4cxx, msgpack, wepoll) that the programs call through a few functions. What
  decides the programs' behaviour is modelled: msgpack's parser, and of log4cxx the
  socket appender, its stream and socket, the writers of events and the conversion of
  levels. The rest is external: its effects are the system calls of `Sockets`. A model
  of, say, expat or apr's pools would say nothing of these programs.
* Texts too long for a 16-bit length, for which the python client raises an error and
  the other writers write a wrong length; a msgpack map
  with fewer entries than the client's. What a decoder does behind a negative length in a
  class description, which takes it back to bytes it has read: the model ends there
  (`Backward`), and whether the code's loop ever ends is not asked. The input stream on a socket
  (`DefaultSocketInputStream`), which no code that is compiled calls.
* Of the python programs: the standard library's accept loop, loggers and pickles, and
  the json handler of the client, which no server reads.
* What appenders do, text and option helpers, the file loader, the test programs
  other than the writer, Windows-only code, and code that is never compiled (`#else`
  of `#if 1`). A thread that still runs while `main` returns may use static objects
  that are destroyed by then; the models stop it at the return.
* Order between connections: a server may log events of a client's later connection
  before those of its earlier one. The code promises nothing else, so `LoggedOnce`
  speaks of each connection alone.
