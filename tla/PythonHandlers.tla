--------------------------- MODULE PythonHandlers ---------------------------
(***************************************************************************)
(* The handlers of the python server, one per connection and thread: of     *)
(* pickled records (server.py), of the bytes and of the msgpack protocol     *)
(* (LogRecord/); those of the default protocol and of json return after the  *)
(* marker.  They share the variables of module Decoding: m_ByteBuf is what   *)
(* recv has returned of the record the handler is at, or what its unpacker    *)
(* holds, and stage is "marker", "reading", "unpacking" or "ended".          *)
(*                                                                          *)
(* recv(n) returns what has arrived, n bytes at most, and nothing once the   *)
(* peer has closed and all is read.  The peer may close anywhere.            *)
(***************************************************************************)
EXTENDS Decoding

CONSTANTS
  PythonStreams,         (* what peers of the handlers send, as in Senders      *)
  CloseAt                (* behind how many bytes they may close before the end *)

VARIABLES
  sent,                  (* how many bytes the peer sends before it closes      *)
  at                     (* which of the reads of a record the handler is in    *)

handlerVars == <<decodingVars, sent, at>>

HandlerInit ==
  /\ sender \in PythonStreams
  /\ LET end == EndOf(Len(sender.parts)) IN sent \in {end} \cup (CloseAt \cap 0..end)
  /\ received = 0
  /\ m_ByteBuf = <<>>
  /\ stage = IF sender.protocol = "pickle" THEN "reading" ELSE "marker"
  /\ events = <<>>
  /\ at = 1

\* recv(4) is compared with the marker; it is no marker if it comes in two parts.
ReadMarker ==
  /\ stage = "marker"
  /\ \/ /\ sender.protocol \in {"bytes", "msgpack"}
        /\ stage' = "reading"
     \/ stage' = "ended"
  /\ UNCHANGED <<sender, received, m_ByteBuf, events, sent, at>>

-----------------------------------------------------------------------------
\* The calls of recv for one record.
Reads ==
  CASE sender.protocol = "pickle" -> <<"length", "chunk">>
    [] sender.protocol = "bytes"  ->
         <<"length", "text", "number", "length", "text", "time", "length", "text",
           "length", "text", "length", "text", "length", "text">>
    [] OTHER                      -> <<"feed">>

\* Their argument: a text's length has just been read, a chunk's was read first.
Wanted ==
  CASE Reads[at] \in {"length", "number"} -> 4
    [] Reads[at] = "time"  -> 8
    [] Reads[at] = "text"  -> Unsigned(SubSeq(m_ByteBuf, Len(m_ByteBuf) - 3, Len(m_ByteBuf)))
    [] Reads[at] = "chunk" -> Unsigned(SubSeq(m_ByteBuf, 1, 4)) + 4 - Len(m_ByteBuf)
    [] Reads[at] = "feed"  -> 1024

\* recv(Wanted) may return n bytes.
Returns(n) ==
  LET most == Min({Wanted, sent - received}) IN n \in (IF most = 0 THEN {0} ELSE 1..most)

Take(n) ==
  /\ received' = received + n
  /\ m_ByteBuf' = m_ByteBuf \o SubSeq(Bytes(sender), received + 1, received + n)

\* A record as the handler builds it of the fields of the bytes protocol.
BytesRecord(buf) ==
  LET v == ReadFields(buf, "bytes").value IN [BytesEvent(v) EXCEPT !.level = v.m_Level \div 1000]

\* pickle.loads: here the fields of the bytes protocol stand for the pickle.
unPickle(chunk) == BytesRecord(chunk)

\* What the reads of one record make.
ReadRecord(buf) ==
  IF sender.protocol = "pickle" THEN unPickle(SubSeq(buf, 5, Len(buf))) ELSE BytesRecord(buf)

\* A read returns all it asked for; the last one completes a record, which is logged.
ReadWhole ==
  /\ stage = "reading" /\ Reads[at] # "feed"
  /\ Returns(Wanted)
  /\ IF at < Len(Reads)
     THEN /\ Take(Wanted)
          /\ at' = at + 1
          /\ UNCHANGED events
     ELSE /\ received' = received + Wanted
          /\ m_ByteBuf' = <<>>
          /\ events' = Append(events, ReadRecord(m_ByteBuf \o SubSeq(Bytes(sender), received + 1, received + Wanted)))
          /\ at' = 1
  /\ UNCHANGED <<sender, stage, sent>>

\* A length that comes short breaks the loop over pickles, and whatever comes short
\* of a field ends the handler of bytes with struct.error; what has been read is lost.
ReadShortOf(n) ==
  /\ stage = "reading" /\ Reads[at] \notin {"chunk", "feed"}
  /\ Returns(n) /\ n < Wanted
  /\ received' = received + n
  /\ stage' = "ended"
  /\ UNCHANGED <<sender, m_ByteBuf, events, sent, at>>

\* A pickle that comes short is read on, after the peer has closed as well.
ReadPart(n) ==
  /\ stage = "reading" /\ Reads[at] = "chunk"
  /\ Returns(n) /\ n < Wanted
  /\ Take(n)
  /\ UNCHANGED <<sender, stage, events, sent, at>>

-----------------------------------------------------------------------------
\* The msgpack handler: unpacker.feed, or the end.
\* Mutant: the end of the stream is fed to the unpacker like data.
FeedAtEnd(n) ==
  /\ stage = "reading" /\ Reads[at] = "feed"
  /\ Returns(n)
  /\ Take(n)
  /\ stage' = "unpacking"
  /\ UNCHANGED <<sender, events, sent, at>>

Feed(n) ==
  /\ stage = "reading" /\ Reads[at] = "feed"
  /\ Returns(n)
  /\ Take(n)
  /\ stage' = IF n = 0 THEN "ended" ELSE "unpacking"
  /\ UNCHANGED <<sender, events, sent, at>>

\* createLogRecord, which finds the attributes by their names.
MsgpackRecord(values) ==
  LET value(field) ==
        LET k == CHOOSE i \in 1..(Len(values) \div 2) :
                   values[2 * i - 1].value = <<msgIndex[field] + 1>>
        IN values[2 * k].value
  IN [name |-> value("name"), level |-> Unsigned(value("levelno")), msg |-> value("msg"),
      time |-> Unsigned(value("created")), thread |-> value("threadName"),
      path |-> value("pathname"), func |-> value("funcName"),
      line |-> ToString10(Unsigned(value("lineno")))]

\* for unpacked in unpacker: whole objects are logged, the rest is kept.
UnpackNext ==
  /\ stage = "unpacking"
  /\ LET next == Unpack(m_ByteBuf) IN
       \/ /\ next.is = "ok"
          /\ events' = Append(events, MsgpackRecord(next.value))
          /\ m_ByteBuf' = SubSeq(m_ByteBuf, next.pos + 1, Len(m_ByteBuf))
          /\ UNCHANGED stage
       \/ /\ next.is # "ok"
          /\ stage' = IF next.is = "small" THEN "reading" ELSE "ended"
          /\ UNCHANGED <<events, m_ByteBuf>>
  /\ UNCHANGED <<sender, received, sent, at>>

-----------------------------------------------------------------------------
HandlerStep ==
  \/ ReadMarker
  \/ ReadWhole
  \/ \E n \in ChunkSizes \cup {0} : ReadShortOf(n) \/ ReadPart(n) \/ Feed(n)
  \/ UnpackNext

\* A chunk of a pickle at whose end the peer has closed: recv returns nothing, and the
\* loop of server.py:32 asks again.
SpinsInChunk == stage = "reading" /\ Reads[at] = "chunk" /\ received = sent

\* What peers send arrives, and the threads run.
HandlerFairness == WF_handlerVars(HandlerStep)

\* When its peer has closed, wherever it did, a handler ends and so does its thread;
\* only the one of pickles, inside a chunk, asks for more for ever
\* (server.py:26-33, BytesLogRecordStreamHandler.py:15-29,
\* MsgpackLogRecordStreamHandler.py:17-22).
HandlersEnd == stage \in {"marker", "reading", "unpacking"} ~> stage = "ended" \/ SpinsInChunk
=============================================================================
