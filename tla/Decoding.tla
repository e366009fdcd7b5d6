------------------------------ MODULE Decoding ------------------------------
(***************************************************************************)
(* A session behind its start marker, with the decoders' bytes: the loop of *)
(* Client::forceLog, whose iterations call createLoggingEvent on m_ByteBuf.  *)
(* recv cuts the bytes of the peer's events anywhere.                        *)
(*                                                                          *)
(* Of the peer's stream each part is known with the event its writer meant;  *)
(* a part the decoder is not made for has Foreign instead.                   *)
(***************************************************************************)
EXTENDS Decoder

CONSTANTS
  Senders,      (* what peers send: a protocol and a sequence of parts       *)
  ChunkSizes,   (* how many bytes a recv may return                          *)
  Foreign       (* stands for the event of a part of another kind            *)

ASSUME SendersAssumption ==
  /\ ChunkSizes \subseteq Nat
  /\ \A s \in Senders : /\ s.protocol \in {"default", "bytes", "msgpack"}
                        /\ Len(s.parts) \in Nat /\ DOMAIN s.parts = 1..Len(s.parts)
                        /\ \A i \in DOMAIN s.parts : s.parts[i].bytes \in Text

VARIABLES
  sender,       (* what this session's peer sends                            *)
  received,     (* how many of its bytes recv has returned so far            *)
  m_ByteBuf,    (* what was received and not decoded yet                     *)
  stage,        (* where forceLog is: "idle" and "refused" when it returned  *)
  events        (* history: the events createLoggingEvent returned           *)

decodingVars == <<sender, received, m_ByteBuf, stage, events>>

Bytes(s) == FlattenSeq([i \in DOMAIN s.parts |-> s.parts[i].bytes])

\* How many bytes the first n parts are.
EndOf(n) == Len(FlattenSeq([i \in 1..n |-> sender.parts[i].bytes]))

-----------------------------------------------------------------------------
DecodingInit ==
  /\ sender \in Senders
  /\ received = 0
  /\ m_ByteBuf = <<>>
  /\ stage = "idle"
  /\ events = <<>>

\* forceLog(bytes, n) is entered.
Receive(n) ==
  /\ stage = "idle"
  /\ received + n <= EndOf(Len(sender.parts))
  /\ m_ByteBuf' = m_ByteBuf \o SubSeq(Bytes(sender), received + 1, received + n)
  /\ received' = received + n
  /\ stage' = "loop"
  /\ UNCHANGED <<sender, events>>

\* What this iteration's createLoggingEvent returns or throws.
Decoded == createLoggingEvent(m_ByteBuf, sender.protocol)

InLoop == stage = "loop" /\ m_ByteBuf # <<>>

\* An event is erased from the buffer and logged.
Decode ==
  /\ InLoop
  /\ Decoded.is = "ok"
  /\ m_ByteBuf' = SubSeq(m_ByteBuf, Decoded.pos + 1, Len(m_ByteBuf))
  /\ events' = Append(events, Decoded.value)
  /\ UNCHANGED <<sender, received, stage>>

\* The buffer is empty, or ends inside an event.
WaitForMore ==
  /\ stage = "loop"
  /\ m_ByteBuf = <<>> \/ Decoded.is = "small"
  /\ stage' = "idle"
  /\ UNCHANGED <<sender, received, m_ByteBuf, events>>

Refuse ==
  /\ InLoop
  /\ Decoded.is = "invalid"
  /\ stage' = "refused"
  /\ UNCHANGED <<sender, received, m_ByteBuf, events>>

Iteration == Decode \/ WaitForMore \/ Refuse

DecodingNext == Iteration \/ \E n \in ChunkSizes : Receive(n)

DecodingSpec == DecodingInit /\ [][DecodingNext]_decodingVars

\* A decoder reads each part of s, alone, as its writer meant it, and what is
\* foreign to it, not at all.
Legible(s) ==
  \A i \in DOMAIN s.parts :
    LET part == s.parts[i]
        r == createLoggingEvent(part.bytes, s.protocol)
    IN /\ part.bytes # <<>>
       /\ IF part.event = Foreign THEN r.is = "invalid" ELSE r = Ok(part.event, Len(part.bytes))

-----------------------------------------------------------------------------
\* Bounds, and what createLoggingEvent asserts of its own result before it
\* erases (DefaultObjectLoader.cpp:221, BytesObjectLoader.cpp:216,
\* MsgpackObjectLoader.cpp:124): it has not read behind the end of the buffer.
ReadsInside ==
  /\ received \in 0..EndOf(Len(sender.parts))
  /\ Len(m_ByteBuf) <= received
  /\ InLoop /\ Decoded.is = "ok" => Decoded.pos \in 1..Len(m_ByteBuf)

\* Whatever the cuts, the decoded events are the first ones the peer sent, field
\* by field, and the buffer begins where the next part does: texts that
\* look like type codes, names skipped unread, references, maps and resets
\* never make a reader lose its place (DefaultByteBufInputStream.cpp:345-521), nor
\* does what is packed between the attributes that are looked up by their place
\* (MsgpackObjectLoader.cpp:56-65).  A time is what its protocol leaves of it: of
\* msgpack, 24 bits (MsgpackObjectLoader.cpp:107).
DecodesWhatIsWritten ==
  /\ Len(events) <= Len(sender.parts)
  /\ \A i \in DOMAIN events : events[i] = sender.parts[i].event
  /\ stage # "ended" => m_ByteBuf = SubSeq(Bytes(sender), EndOf(Len(events)) + 1, received)

\* When forceLog waits for more bytes, no whole part is left in the buffer: an
\* event is never taken for an incomplete one (SmallBufferException), nor is
\* what no decoder can read.  A handler of module PythonHandlers is then "reading".
NoneDelayed ==
  stage \in {"idle", "reading"} => Len(events) = Len(sender.parts) \/ received < EndOf(Len(events) + 1)

\* Only what a decoder is not made for is refused: no beginning of an event,
\* cut anywhere, is taken for malformed (InvalidBufferException).
RefusesOnlyForeign ==
  stage = "refused" => /\ Len(events) < Len(sender.parts)
                       /\ sender.parts[Len(events) + 1].event = Foreign
=============================================================================
