----------------------------- MODULE MCDecoding -----------------------------
(***************************************************************************)
(* Decoding on streams of every writer of the repository and of log4j: the   *)
(* classes described in full, by reference or anew after a reset, texts of   *)
(* type codes, of no byte and of more than 255, attributes packed in every   *)
(* width, numbers of other types than the python client's, and parts the     *)
(* decoder cannot read; and the python server's handlers on what the python  *)
(* client sends them.                                                        *)
(***************************************************************************)
EXTENDS PythonHandlers

Codes == <<TC_STRING, 0, TC_OBJECT, TC_RESET>>        \* "t", NUL, "s", "y"
Long300 == [i \in 1..300 |-> TC_ENDBLOCKDATA]         \* "xxx..."
Main == <<109, 40, 41>>                               \* "m()"
Owner == <<120, 46, 120>>                             \* "x.x"

Event(level, msg, time, func) ==
  [name |-> <<TC_REFERENCE>>, level |-> level, msg |-> msg, time |-> time,
   thread |-> <<>>, path |-> <<99, 58, 47, 46>>, func |-> func, line |-> <<49, 50>>]

Part(bytes, event) == [bytes |-> bytes, event |-> event]
Reset(p) == [p EXCEPT !.bytes = <<TC_RESET>> \o @]

\* The default protocol sends milliseconds.
InMillis(e) == [e EXCEPT !.time = 1000 * (@ \div 1000)]

\* The python handler's text has no class before the function; without a dot
\* the method's name is not found.
Python(e) == Part(PythonDefault(e), [InMillis(e) EXCEPT !.func = NA])
Saver(e)  == Part(Saved(Owner, e), InMillis(e))
First(e)  == Part(CxxFirst(Owner, e, <<Codes, Long300>>, Codes), InMillis(e))
Later(e)  == Part(CxxLater(Owner, e, <<<<>>, Codes, Codes, <<>> >>), InMillis(e))
Nowhere(e) == Part(CxxNowhere(e), [InMillis(e) EXCEPT !.path = NA, !.func = NA, !.line = NA])
Java(e)   == Part(JavaEvent(Owner, e, Null, Null), InMillis(e))
Broken(e, ndc, throwable) == Part(JavaEvent(Owner, e, ndc, throwable), Foreign)

One   == Event(20000, Codes, 70123456, Main)
Two   == Event(50000, Long300, 2000000, <<102>>)
Three == Event(-2147483647 - 1, <<>>, 2047000999, Main)

\* The times a float makes of the events' own.
Msgpack(e, time, more) == Part(PythonMsgpack(e, Str(e.msg), more), [e EXCEPT !.time = time])
NotAText(e) == Part(PythonMsgpack(e, Num(300), <<>>), Foreign)

\* Another client, which packs the i-th attribute as this item: levelno is the
\* fifth, lineno the twelfth, created the fourteenth.
With(e, i, item, event) ==
  Part(Packed([Attributes(e, Str(e.msg), <<>>) EXCEPT ![i] = item]), event)

Five == Event(30000, <<>>, 70123456, <<>>)
Four == [Event(10000, <<0, 193>>, 1024000061, <<102>>) EXCEPT !.line = <<51, 48, 49>>]
Map  == <<129>> \o Str(<<1>>) \o <<146>> \o Num(200) \o Nil

\* Level -5, level 2^29 + 20, a time of 300 seconds without a point, and a line
\* that no int has.
MCOtherPackings ==
  <<With(Five, 5, <<251>>, [Five EXCEPT !.level = 10000, !.time = 70123464]),
    With(Five, 5, <<206, 32, 0, 0, 20>>, [Five EXCEPT !.level = 20000, !.time = 70123464]),
    With(Five, 14, Num(300), [Five EXCEPT !.time = 300000000]),
    With(Five, 12, <<206, 128, 0, 0, 0>>, Foreign)>>

MCMsgpackStreams ==
  {[protocol |-> "msgpack", parts |-> p] : p \in
     {<<Msgpack(One, 70123464, <<>>), Msgpack(Four, 1024000000, <<Map, Str(Codes)>>)>>,
      <<Msgpack(Two, 2000000, <<Str(Long300)>>), NotAText(Four)>>,
      <<Msgpack(Four, 1024000000, <<Nil>>), Part(<<193>>, Foreign)>>,
      MCOtherPackings}}

MCSenders ==
  MCMsgpackStreams \cup
  {[protocol |-> "default", parts |-> p] : p \in
     {<<Python(One), Python(Two)>>,
      <<Saver(Two), Saver(Three)>>,
      <<First(One), Later(Two), Nowhere(One), Later(Three)>>,
      <<Java(One), Reset(Java(Three)), Reset(Java(One))>>,
      <<Java(One), Reset(Broken(Three, Null, Object(Handle(5))))>>,
      <<Java(Three), Reset(Broken(One, TypeHandle, Null))>>,
      <<Nowhere(Three), Part(<<TC_BLOCKDATA, 1>>, Foreign)>>}}
  \cup
  {[protocol |-> "bytes", parts |-> [i \in DOMAIN s |-> Part(PythonBytes(s[i]), s[i])]] :
     s \in {<<One, Two>>, <<Three, One>>}}

\* What the python handlers log: python's own level, and the time as it was.
Record(e) == [e EXCEPT !.level = @ \div 1000]

Pickled(e) == Part(LongText(PythonBytes(e)), Record(e))

MCPythonStreams ==
  {[protocol |-> "pickle",  parts |-> <<Pickled(Five), Pickled(One)>>],
   [protocol |-> "bytes",   parts |-> <<Part(PythonBytes(Five), Record(Five)),
                                        Part(PythonBytes(One), Record(One))>>],
   [protocol |-> "msgpack", parts |-> <<Part(PythonMsgpack(Five, Str(Five.msg), <<Map>>), Record(Five)),
                                        Part(PythonMsgpack(One, Str(One.msg), <<>>), Record(One))>>],
   [protocol |-> "json",    parts |-> <<>>]}

\* The hypothesis of the theorems about the decoded events: TLC evaluates it to
\* TRUE for these senders.  It is no ASSUME, for an error put into the decoder must
\* show as a property violated in the run, not as an assumption that is false.
SendersAreLegible == \A s \in MCSenders : Legible(s)

MCChunkSizes == 1..80
MCCloseAt == {0, 1, 3, 4, 5, 17, 40, 97, 130, 150}

-----------------------------------------------------------------------------
\* A stream is read by a client session or by a handler of the python server;
\* stage has other values for each.
MCInit ==
  \/ DecodingInit /\ sent = 0 /\ at = 0
  \/ HandlerInit

MCNext ==
  \/ DecodingNext /\ UNCHANGED <<sent, at>>
  \/ HandlerStep

MCSpec == MCInit /\ [][MCNext]_handlerVars /\ HandlerFairness
=============================================================================
