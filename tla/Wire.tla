-------------------------------- MODULE Wire --------------------------------
(***************************************************************************)
(* The bytes the log servers' peers send: the handlers of the python        *)
(* client, log4cxx's own socket appender, log4j's, and the writer the        *)
(* repository's tests use.  A text is the sequence of its UTF-8 bytes; in a   *)
(* class description each name is one byte long, and everything else is      *)
(* where the writers put it.                                                 *)
(***************************************************************************)
EXTENDS Integers, Sequences, SequencesExt

Byte == 0..255
Text == Seq(Byte)

TC_NULL         == 112
TC_REFERENCE    == 113
TC_CLASSDESC    == 114
TC_OBJECT       == 115
TC_STRING       == 116
TC_BLOCKDATA    == 119
TC_ENDBLOCKDATA == 120
TC_RESET        == 121

CodeL == 76                        \* the field type code of an object

\* Big-endian numbers.
Short(n) == <<(n \div 256) % 256, n % 256>>
Int4(n)  == Short(n \div 65536) \o Short(n)
Long(n)  == <<0, 0, 0, 0>> \o Int4(n)

\* ObjectOutputStream::writeObject of a string, writeUTFString.
String(t) == <<TC_STRING>> \o Short(Len(t)) \o t

-----------------------------------------------------------------------------
\* Class descriptions.  The type of an object field is a string, or a
\* reference to one where log4j has written the same string before.
Name         == Short(1) \o <<TC_STRING>>
Field(code)  == <<code>> \o Name
TypeString   == <<TC_STRING>> \o Name
TypeHandle   == <<TC_REFERENCE, 0, 126, 0, 1>>
Class(flags, fields) == <<TC_CLASSDESC>> \o Name \o <<243, 242, 185, 35, 116, 11, 181, 63>>
                          \o <<flags>> \o Short(fields)
NoSuperClass == <<TC_ENDBLOCKDATA, TC_NULL>>

\* Three primitive fields and seven object fields; the types of the last
\* but one three were written before.
LOGGING_EVENT(again) ==
  Class(3, 10) \o Field(90) \o Field(90) \o Field(74)
    \o Field(CodeL) \o TypeString \o Field(CodeL) \o TypeString
    \o Field(CodeL) \o TypeString \o Field(CodeL) \o again
    \o Field(CodeL) \o again \o Field(CodeL) \o again
    \o Field(CodeL) \o TypeString \o NoSuperClass

LOCATION_INFO(again) == Class(2, 1) \o Field(CodeL) \o again \o NoSuperClass

HASH_TABLE == Class(3, 2) \o Field(70) \o Field(73) \o NoSuperClass

\* ObjectOutputStream::writeProlog, of a class described before or now.
Object(desc)   == <<TC_OBJECT>> \o desc
Handle(number) == <<TC_REFERENCE, 0, 126, 0, number>>

-----------------------------------------------------------------------------
\* An event of the default protocol, as all its writers write it: e has what a
\* program logs, texts name, msg and thread, numbers level and time (in
\* microseconds), and where it does, texts path, func and line.  What differs
\* is how they write the class, the location, the MDC, the NDC and the throwable.
DefaultBytes(e, desc, location, mdc, ndc, throwable) ==
  Object(desc) \o <<0, 0>> \o Long(e.time \div 1000) \o String(e.name)
    \o location \o mdc \o ndc \o String(e.msg) \o String(e.thread) \o throwable
    \o <<TC_BLOCKDATA, 4>> \o Int4(e.level) \o <<TC_NULL, TC_ENDBLOCKDATA>>

Null == <<TC_NULL>>

\* func(path:line), the text a location is sent as.
FullInfo(func, e) == func \o <<40>> \o e.path \o <<58>> \o e.line \o <<41>>

\* DefaultSocketHandler.makePickle of the python client, which describes its
\* classes in each event.
PythonDefault(e) ==
  DefaultBytes(e, LOGGING_EVENT(TypeString),
               Object(LOCATION_INFO(TypeString)) \o String(FullInfo(e.func, e)),
               Null, Null, Null)

\* A method as Java would name it: the "::" between its class and e.func is
\* a dot, and what the compiler writes before the class is left out.
JavaLike(class, method) == class \o <<46>> \o method

\* createLoggingEvent of the tests' saver.
Saved(class, e) ==
  DefaultBytes(e, LOGGING_EVENT(TypeString),
               Object(LOCATION_INFO(TypeString)) \o String(FullInfo(JavaLike(class, e.func), e)),
               Null, Null, Null)

\* ObjectOutputStream::writeObject of an MDC, its keys and values in turn.
HashHeader == <<63, 64, 0, 0, 0, 0, 0, 5, TC_BLOCKDATA, 8, 0, 0, 0, 7>>

Mdc(desc, texts) ==
  Object(desc) \o HashHeader \o Int4(Len(texts) \div 2)
    \o FlattenSeq([i \in DOMAIN texts |-> String(texts[i])]) \o <<TC_ENDBLOCKDATA>>

\* LoggingEvent::write of log4cxx: the first event of a connection, with a
\* location, an MDC and an NDC, and a later one, whose classes are known.
CxxFirst(class, e, mdc, ndc) ==
  DefaultBytes(e, LOGGING_EVENT(TypeString),
               Object(LOCATION_INFO(TypeString)) \o String(FullInfo(JavaLike(class, e.func), e)),
               Mdc(HASH_TABLE, mdc), String(ndc), Null)

CxxLater(class, e, mdc) ==
  DefaultBytes(e, Handle(0),
               Object(Handle(10)) \o String(FullInfo(JavaLike(class, e.func), e)),
               Mdc(Handle(14), mdc), Null, Null)

\* log4cxx writes no location when it knows none.
CxxNowhere(e) == DefaultBytes(e, Handle(0), Null, Null, Null, Null)

\* log4j, which forgets its handles before each event but the first (reset),
\* and refers to strings it has written in the same event.
JavaEvent(class, e, ndc, throwable) ==
  DefaultBytes(e, LOGGING_EVENT(TypeHandle),
               Object(LOCATION_INFO(TypeHandle)) \o String(FullInfo(JavaLike(class, e.func), e)),
               Null, ndc, throwable)

-----------------------------------------------------------------------------
\* A text of the bytes protocol.
LongText(t) == Int4(Len(t)) \o t

\* ByteSocketHandler.makePickle of the python client.
PythonBytes(e) ==
  LongText(e.name) \o Int4(e.level) \o LongText(e.msg) \o Long(e.time)
    \o LongText(e.thread) \o LongText(e.path) \o LongText(e.func) \o LongText(e.line)
-----------------------------------------------------------------------------
\* msgpack.  A number with a point is eight bytes; here they count microseconds.
Str(t) == (CASE Len(t) < 32  -> <<160 + Len(t)>>
             [] Len(t) \in 32..255 -> <<217, Len(t)>>
             [] OTHER        -> <<218>> \o Short(Len(t))) \o t
Num(n) == CASE n < 128         -> <<n>>
            [] n \in 128..255  -> <<204, n>>
            [] OTHER           -> <<205>> \o Short(n)
Float64(time) == <<203>> \o Long(time)
Nil           == <<192>>
Empty         == <<144>>
Ident         == <<207, 0, 0, 127, 60, 202, 203, 217, 0>>

\* The number a text of digits stands for.
Number(digits) == FoldLeft(LAMBDA n, d : 10 * n + d - 48, 0, digits)

\* The attributes of a LogRecord in the order its constructor sets them, and
\* those a handler before this one has added; msg is packed already.
Attributes(e, msg, more) ==
  <<Str(e.name), msg, Empty, Str(<<73>>), Num(e.level \div 1000), Str(e.path), Str(e.path),
    Str(e.path), Nil, Nil, Nil, Num(Number(e.line)), Str(e.func), Float64(e.time), Float64(0),
    Float64(0), Ident, Str(e.thread), Str(<<77>>), Num(4711)>> \o more

\* The attributes as a map; the key of the i-th is <<i>>.
Packed(values) ==
  <<222>> \o Short(Len(values)) \o FlattenSeq([i \in DOMAIN values |-> Str(<<i>>) \o values[i]])

\* MsgpackSocketHandler.makePickle of the python client.
PythonMsgpack(e, msg, more) == Packed(Attributes(e, msg, more))
=============================================================================
