------------------------------- MODULE Frames -------------------------------
(***************************************************************************)
(* The byte streams the C++ log servers read, and the two pure operations   *)
(* a client session applies to its buffer: choosing the decoder from the    *)
(* start marker (log4cxxExt/Loader/ObjectLoader.cpp) and cutting one        *)
(* logging event off the front of the buffer (the createLoggingEvent of     *)
(* each loader).                                                            *)
(*                                                                          *)
(* A token stands for the bytes between two places a decoder tells apart:   *)
(*   "magic"  the two bytes AC ED every start marker begins with,           *)
(*   "default", "bytes", "msgpack", "json"  the two version bytes after it, *)
(*   "body"   bytes after which the event is still incomplete,              *)
(*   "event"  the last byte of an event its logger's level lets through,    *)
(*   "quiet"  the last byte of an event its logger's level suppresses,      *)
(*   "bad"    a byte at which the decoder throws InvalidBufferException.    *)
(* A token also has an id, so that histories can tell two events apart.     *)
(***************************************************************************)
EXTENDS Naturals, Sequences

CONSTANT Id                       \* what tells two tokens of a stream apart

Protocols  == {"default", "bytes", "msgpack"}
NoFunc     == "nullptr"           \* m_LoggingFunc before the marker is known
FrameEnds  == {"event", "quiet"}
FrameKinds == FrameEnds \cup {"body"}
Kinds      == FrameKinds \cup Protocols \cup {"magic", "json", "bad"}
Token      == [kind : Kinds, id : Id]

Event      == [from : Id, to : Id]     \* a logged event: its first and last token

-----------------------------------------------------------------------------
\* The elements of s that are in K, in their order: SelectSeq, defined so that
\* something can be proved of it.
Only(s, K) ==
  LET upTo[n \in 0..Len(s)] ==
        IF n = 0 THEN <<>>
        ELSE IF s[n] \in K THEN Append(upTo[n - 1], s[n]) ELSE upTo[n - 1]
  IN  upTo[Len(s)]

-----------------------------------------------------------------------------
MarkerLen == 2

\* readStart of the loader of protocol p finds its own marker.
Matches(buf, p) == buf[1].kind = "magic" /\ buf[2].kind = p

\* Every readStart throws SmallBufferException on less than a whole marker.
StartIncomplete(buf) == Len(buf) < MarkerLen

\* No loader of sloggingEventFuncs accepts the marker: createLoggingEventFunc
\* returns nullptr and leaves the buffer as it is.
StartUnknown(buf) == ~StartIncomplete(buf) /\ \A p \in Protocols : ~Matches(buf, p)

-----------------------------------------------------------------------------
\* createLoggingEvent meets position n of the buffer before anything else
\* that ends its scan.
ScanStopsAt(buf, n) ==
  /\ n \in 1..Len(buf)
  /\ buf[n].kind # "body"
  /\ \A m \in 1..(n - 1) : buf[m].kind = "body"

\* A whole event is at the front of the buffer and is n tokens long.
EventOfLength(buf, n) == ScanStopsAt(buf, n) /\ buf[n].kind \in FrameEnds

\* The front of the buffer is not an event: InvalidBufferException.
Malformed(buf) == \E n \in 1..Len(buf) : ScanStopsAt(buf, n) /\ buf[n].kind \notin FrameEnds

\* The buffer ends inside an event: SmallBufferException, nothing is erased.
Incomplete(buf) == \A n \in 1..Len(buf) : buf[n].kind = "body"

Erase(buf, n) == SubSeq(buf, n + 1, Len(buf))      \* byteBuf.erase(begin, begin + n)

-----------------------------------------------------------------------------
\* What a session owes its peer, in terms of the stream alone: the first g
\* tokens of s, however they were cut into chunks, ...
MarkerOK(s) == s[1].kind = "magic" /\ s[2].kind \in Protocols

CleanUpTo(s, k) == \A m \in (MarkerLen + 1)..k : s[m].kind \in FrameKinds

\* ... are acceptable if they end inside the marker or are whole and partial
\* events after a known one, ...
Acceptable(s, g) == g < MarkerLen \/ (MarkerOK(s) /\ CleanUpTo(s, g))

\* ... and the events to log are those that end in the acceptable part.
Owed(s, g) ==
  {k \in (MarkerLen + 1)..g : s[k].kind = "event" /\ MarkerOK(s) /\ CleanUpTo(s, k)}
=============================================================================
