------------------------------ MODULE Decoder ------------------------------
(***************************************************************************)
(* The decoders, byte by byte: the readers of DefaultByteBufInputStream.cpp  *)
(* and BytesObjectLoader.cpp, the parser of the msgpack library, the          *)
(* createLoggingEvent built of them, and the event LoggingEventEx.cpp makes  *)
(* of what they read.                                                        *)
(*                                                                          *)
(* A reader takes the buffer and a position (0 for its beginning) and        *)
(* either yields a value and the position behind it, or throws               *)
(* SmallBufferException ("small") or InvalidBufferException ("invalid").     *)
(* With assertions compiled in, most of the latter end the process before    *)
(* they are thrown, as in module Client.  A class description with a         *)
(* negative length takes its reader back ("backward"); what it does from     *)
(* there, and whether it ever comes to an end, is not modelled.              *)
(***************************************************************************)
EXTENDS Wire, FiniteSetsExt

Ok(value, pos) == [is |-> "ok", value |-> value, pos |-> pos]
Small          == [is |-> "small"]
Invalid        == [is |-> "invalid"]
Backward       == [is |-> "backward"]

\* What is read next, unless an exception was thrown.  (Of the set of the one
\* result TLC evaluates that result once, in fairness conditions too.)
Then(r, Next(_, _)) ==
  CHOOSE next \in {IF x.is = "ok" THEN Next(x.value, x.pos) ELSE x : x \in {r}} : TRUE

\* Numbers of big-endian bytes; the first of a signed one has the sign.
Number256(first, bytes) ==
  LET upTo[n \in 0..Len(bytes)] == IF n = 0 THEN first ELSE 256 * upTo[n - 1] + bytes[n]
  IN upTo[Len(bytes)]

Unsigned(bytes) == Number256(0, bytes)
Signed(bytes)   == Number256(IF bytes[1] < 128 THEN bytes[1] ELSE bytes[1] - 256, Tail(bytes))

-----------------------------------------------------------------------------
\* Mutant: >= instead of >, so that the last byte of the buffer is never used.
HasRoomBeforeLast(buf, pos, n) == pos \in 0..(Len(buf) - n - 1)

\* pos + size > byteBufSize is what throws SmallBufferException.
HasRoom(buf, pos, n) == pos \in 0..(Len(buf) - n)

ReadBytes(buf, pos, n) ==
  IF HasRoom(buf, pos, n) THEN Ok(SubSeq(buf, pos + 1, pos + n), pos + n) ELSE Small

ReadByte(buf, pos) == Then(ReadBytes(buf, pos, 1), LAMBDA v, p : Ok(v[1], p))

ReadShort(buf, pos) == Then(ReadBytes(buf, pos, 2), LAMBDA v, p : Ok(Signed(v), p))
ReadInt(buf, pos)   == Then(ReadBytes(buf, pos, 4), LAMBDA v, p : Ok(Signed(v), p))
ReadLong(buf, pos)  == Then(ReadBytes(buf, pos, 8), LAMBDA v, p : Ok(Signed(v), p))

\* Mutant: they are skipped like the names of a class description.
ReadConstantUnread(buf, pos, bytes) == Ok(bytes, pos + Len(bytes))

\* Bytes that can only be these.
ReadConstant(buf, pos, bytes) ==
  Then(ReadBytes(buf, pos, Len(bytes)), LAMBDA v, p : IF v = bytes THEN Ok(v, p) ELSE Invalid)

\* A length of width bytes and as many bytes of text.
ReadText(buf, pos, width) ==
  Then(ReadBytes(buf, pos, width), LAMBDA len, p : ReadBytes(buf, p, Unsigned(len)))

ReadString(buf, pos) ==
  Then(ReadByte(buf, pos),
       LAMBDA type, p : IF type = TC_STRING THEN ReadText(buf, p, 2) ELSE Invalid)
-----------------------------------------------------------------------------
\* A loop is where it has so many rounds left and is at a position.
Round(left, pos) == [left |-> left, pos |-> pos]
Rounds == [left : Nat, pos : Nat]

\* A text of a class description: its length is a signed short, and it is
\* skipped unread.
SkipText(buf, pos) ==
  Then(ReadShort(buf, pos), LAMBDA len, p : IF len < 0 THEN Backward ELSE Ok(len, p + len))

\* The fields of a class description: type code, length of the name, name.
\* log4cxx and log4j put the type of an object field behind its name, and the
\* loop takes it for a field of its own; SkipTypes reads what it leaves.
SkipFields(buf, pos, count) ==
  LET from[x \in Rounds] ==
        IF x.left = 0 THEN Ok(0, x.pos)
        ELSE Then(SkipText(buf, x.pos + 1), LAMBDA len, p : from[Round(x.left - 1, p)])
  IN from[Round(Max({0, count}), pos)]

\* Mutant: the type of a field cannot be a reference.
SkipTypeNoReference(buf, pos) ==
  Then(ReadByte(buf, pos), LAMBDA type, p :
    CASE type = TC_ENDBLOCKDATA      -> Ok(type, p)
      [] type \in {CodeL, TC_STRING} -> Then(SkipText(buf, p), LAMBDA len, q : Ok(type, q))
      [] OTHER                       -> Invalid)

\* The loop behind it, over types and the fields left: one iteration yields
\* the type code, ...
SkipType(buf, pos) ==
  Then(ReadByte(buf, pos), LAMBDA type, p :
    CASE type = TC_ENDBLOCKDATA      -> Ok(type, p)
      [] type = TC_REFERENCE         -> Then(ReadInt(buf, p), LAMBDA v, q : Ok(type, q))
      [] type \in {CodeL, TC_STRING} -> Then(SkipText(buf, p), LAMBDA len, q : Ok(type, q))
      [] OTHER                       -> Invalid)

\* ... and the last one leads to the end of the description.
SkipTypes(buf, pos) ==
  LET from[p \in Nat] ==
        Then(SkipType(buf, p), LAMBDA type, q :
          IF type = TC_ENDBLOCKDATA THEN ReadConstant(buf, q, Null) ELSE from[q])
  IN from[pos]

\* A class described here.  Name, serial version and flags are skipped unread,
\* so only what is read behind them tells whether they have arrived.
ReadClassDesc(buf, pos) ==
  Then(SkipText(buf, pos), LAMBDA len, p :
  Then(ReadShort(buf, p + 9), LAMBDA count, q :
  Then(SkipFields(buf, q, count), LAMBDA v, r : SkipTypes(buf, r))))

\* The class of an object.
ReadProlog(buf, pos) ==
  Then(ReadByte(buf, pos), LAMBDA type, p :
    CASE type = TC_CLASSDESC -> ReadClassDesc(buf, p)
      [] type = TC_REFERENCE -> ReadInt(buf, p)
      [] OTHER               -> Invalid)

\* TC_OBJECT, behind a reset if there was one.
ReadObjectCode(buf, pos) ==
  Then(ReadByte(buf, pos), LAMBDA type, p :
    CASE type = TC_OBJECT -> Ok(type, p)
      [] type = TC_RESET  -> ReadConstant(buf, p, <<TC_OBJECT>>)
      [] OTHER            -> Invalid)

\* std::string from a buffer with a zero behind it: it ends at its first zero.
CString(text) == SelectSeq(SubSeq(text, 1, Min({i \in 1..Len(text) : text[i] = 0} \cup {Len(text)})),
                           LAMBDA b : b # 0)

ReadUTFString(buf, pos) == Then(ReadString(buf, pos), LAMBDA text, p : Ok(CString(text), p))

ReadLocationInfo(buf, pos) ==
  Then(ReadByte(buf, pos), LAMBDA type, p :
    CASE type = TC_NULL   -> Ok(<<>>, p)
      [] type = TC_OBJECT -> Then(ReadProlog(buf, p), LAMBDA v, q : ReadUTFString(buf, q))
      [] OTHER            -> Invalid)

\* A key of a map and its value; the event does not use them.
ReadPair(buf, pos) == Then(ReadString(buf, pos), LAMBDA key, p : ReadString(buf, p))

ReadPairs(buf, pos, size) ==
  LET from[x \in Rounds] ==
        IF x.left = 0 THEN Ok(0, x.pos)
        ELSE Then(ReadPair(buf, x.pos), LAMBDA value, p : from[Round(x.left - 1, p)])
  IN from[Round(Max({0, size}), pos)]

\* How many pairs, the pairs and what ends them.
ReadMap(buf, pos) ==
  Then(ReadInt(buf, pos), LAMBDA size, p :
  Then(ReadPairs(buf, p, size), LAMBDA v, q :
       ReadConstant(buf, q, <<TC_ENDBLOCKDATA>>)))

\* readObject: a Hashtable and its class.
ReadHashtable(buf, pos) ==
  Then(ReadProlog(buf, pos), LAMBDA desc, p :
  Then(ReadConstant(buf, p, HashHeader), LAMBDA v, q : ReadMap(buf, q)))

ReadMDC(buf, pos) ==
  Then(ReadByte(buf, pos), LAMBDA type, p :
    CASE type = TC_NULL   -> Ok(<<>>, p)
      [] type = TC_OBJECT -> ReadHashtable(buf, p)
      [] OTHER            -> Invalid)

\* An NDC of another type than these is read as if nothing were there, the
\* byte that gives the type included.
ReadNDC(buf, pos) ==
  Then(ReadByte(buf, pos), LAMBDA type, p :
    CASE type = TC_NULL   -> Ok(<<>>, p)
      [] type = TC_STRING -> ReadText(buf, p, 2)
      [] OTHER            -> Ok(<<>>, pos))

-----------------------------------------------------------------------------
\* createLoggingEvent reads these, in this order ...
Fields(protocol) ==
  IF protocol = "default"
  THEN <<"object", "prolog", "lookupsRequired", "timeStamp", "logger", "fullInfo", "mdc", "ndc",
         "message", "threadName", "null", "blockData", "blockLength", "level", "null", "end">>
  ELSE <<"m_LoggerName", "m_Level", "m_Message", "m_Timestamp", "m_ThreadName",
         "m_PathName", "m_FuncName", "m_LineNumber">>

\* ... each with its reader.
ReadField(buf, pos, field) ==
  CASE field = "object"                               -> ReadObjectCode(buf, pos)
    [] field = "prolog"                               -> ReadProlog(buf, pos)
    [] field = "lookupsRequired"                      -> ReadConstant(buf, pos, <<0, 0>>)
    [] field \in {"timeStamp", "m_Timestamp"}         -> ReadLong(buf, pos)
    [] field \in {"logger", "message", "threadName"}  -> ReadString(buf, pos)
    [] field = "fullInfo"                             -> ReadLocationInfo(buf, pos)
    [] field = "mdc"                                  -> ReadMDC(buf, pos)
    [] field = "ndc"                                  -> ReadNDC(buf, pos)
    [] field = "null"                                 -> ReadConstant(buf, pos, Null)
    [] field = "blockData"                            -> ReadConstant(buf, pos, <<TC_BLOCKDATA>>)
    [] field = "blockLength"                          -> ReadConstant(buf, pos, <<4>>)
    [] field \in {"level", "m_Level"}                 -> ReadInt(buf, pos)
    [] field = "end"                                  -> ReadConstant(buf, pos, <<TC_ENDBLOCKDATA>>)
    [] field \in {"m_LoggerName", "m_Message", "m_ThreadName"} -> ReadText(buf, pos, 4)
    [] OTHER -> Then(ReadText(buf, pos, 4), LAMBDA text, p : Ok(CString(text), p))

\* One more of them; the value is a function from the fields to what was read.
ReadNextField(buf, r, field) ==
  Then(r, LAMBDA values, p :
  Then(ReadField(buf, p, field), LAMBDA v, q :
       Ok([f \in DOMAIN values \cup {field} |-> IF f = field THEN v ELSE values[f]], q)))

\* All of them.
ReadFields(buf, protocol) ==
  LET fields == Fields(protocol)
      upTo[n \in 0..Len(fields)] ==
        IF n = 0 THEN Ok(<<>>, 0) ELSE ReadNextField(buf, upTo[n - 1], fields[n])
  IN upTo[Len(fields)]

-----------------------------------------------------------------------------
\* The parts of func(path:line).  Positions are found from the right; 0 is npos.
NA == <<63>>

FindLast(text, code, upTo) == Max({i \in 1..upTo : text[i] = code} \cup {0})

\* find_last_of(code, i - 1); one before the first place, and before npos, wraps
\* around to the last.
FindBefore(text, code, i) == FindLast(text, code, IF i \in {0, 1} THEN Len(text) ELSE i - 1)

Between(text, i, j) == SubSeq(text, i + 1, IF j = 0 THEN Len(text) ELSE j - 1)

MethodName(text) ==
  LET paren == FindLast(text, 40, Len(text))
      dot   == FindLast(text, 46, IF paren = 0 THEN Len(text) ELSE paren)
  IN IF dot = 0 THEN NA ELSE Between(text, dot, paren)

FileName(text) ==
  LET colon == FindLast(text, 58, Len(text))
  IN IF colon = 0 THEN NA ELSE Between(text, FindBefore(text, 40, colon), colon)

LineNumber(text) ==
  LET paren == FindLast(text, 41, Len(text))
      colon == FindBefore(text, 58, paren)
  IN IF colon = 0 THEN NA ELSE Between(text, colon, paren)

\* Level::toLevel: the value of no level is DEBUG.
Levels     == {-2147483647 - 1, 5000, 10000, 20000, 30000, 40000, 50000, 2147483647}
ToLevel(n) == IF n \in Levels THEN n ELSE 10000

\* Mutant: milliseconds are taken for microseconds.
DefaultEventInMillis(v) ==
  [name |-> v.logger, level |-> ToLevel(v.level), msg |-> v.message, time |-> v.timeStamp,
   thread |-> v.threadName, path |-> FileName(v.fullInfo), func |-> MethodName(v.fullInfo),
   line |-> LineNumber(v.fullInfo)]

\* The event of what was read.
DefaultEvent(v) ==
  [name |-> v.logger, level |-> ToLevel(v.level), msg |-> v.message, time |-> 1000 * v.timeStamp,
   thread |-> v.threadName, path |-> FileName(v.fullInfo), func |-> MethodName(v.fullInfo),
   line |-> LineNumber(v.fullInfo)]

BytesEvent(v) ==
  [name |-> v.m_LoggerName, level |-> ToLevel(v.m_Level), msg |-> v.m_Message, time |-> v.m_Timestamp,
   thread |-> v.m_ThreadName, path |-> v.m_PathName, func |-> v.m_FuncName, line |-> v.m_LineNumber]

-----------------------------------------------------------------------------
\* The next item of a msgpack stream: a scalar, or the head of an array or a
\* map with how many items it holds.  Numbers are kept as their bytes.
Item(type, value, holds, pos) == Ok([type |-> type, value |-> value, holds |-> holds], pos)

Scalar(type, r) == Then(r, LAMBDA v, p : Item(type, v, 0, p))

Aggregate(type, r, each) == Then(r, LAMBDA n, p : Item(type, <<>>, each * Unsigned(n), p))

\* A length of width bytes, a type and as many bytes.
ReadExt(buf, pos, width) ==
  Then(ReadBytes(buf, pos, width), LAMBDA len, p : Scalar("ext", ReadBytes(buf, p, Unsigned(len) + 1)))

\* What comes behind the byte c.  The third width of a length is four bytes, as 2^2.
ReadItemOf(buf, c, p) ==
  CASE c \in 0..127            -> Item("uint", <<c>>, 0, p)
    [] c \in 128..143          -> Item("map", <<>>, 2 * (c - 128), p)
    [] c \in 144..159          -> Item("array", <<>>, c - 144, p)
    [] c \in 160..191          -> Scalar("text", ReadBytes(buf, p, c - 160))
    [] c \in {192, 194, 195}   -> Item("nil", <<>>, 0, p)
    [] c \in 196..198          -> Scalar("text", ReadText(buf, p, 2 ^ (c - 196)))
    [] c \in 199..201          -> ReadExt(buf, p, 2 ^ (c - 199))
    [] c \in {202, 203}        -> Scalar("float", ReadBytes(buf, p, IF c = 202 THEN 4 ELSE 8))
    [] c \in 204..207          -> Scalar("uint", ReadBytes(buf, p, 2 ^ (c - 204)))
    [] c \in 208..211          -> Scalar("int", ReadBytes(buf, p, 2 ^ (c - 208)))
    [] c \in 212..216          -> Scalar("ext", ReadBytes(buf, p, 2 ^ (c - 212) + 1))
    [] c \in 217..219          -> Scalar("text", ReadText(buf, p, 2 ^ (c - 217)))
    [] c \in {220, 221}        -> Aggregate("array", ReadBytes(buf, p, 2 ^ (c - 219)), 1)
    [] c \in {222, 223}        -> Aggregate("map", ReadBytes(buf, p, 2 ^ (c - 221)), 2)
    [] c \in 224..255          -> Item("int", <<c>>, 0, p)
    [] OTHER                   -> Invalid

ReadItem(buf, pos) == Then(ReadByte(buf, pos), LAMBDA c, p : ReadItemOf(buf, c, p))

\* count items and all they hold.
SkipItems(buf, pos, count) ==
  LET from[x \in Rounds] ==
        IF x.left = 0 THEN Ok(0, x.pos)
        ELSE Then(ReadItem(buf, x.pos), LAMBDA item, p : from[Round(x.left - 1 + item.holds, p)])
  IN from[Round(count, pos)]

ReadObject(buf, pos) ==
  Then(ReadItem(buf, pos), LAMBDA item, p :
  Then(SkipItems(buf, p, item.holds), LAMBDA v, q : Ok(item, q)))

\* One more object; the value is the sequence of them.
ReadNextObject(buf, r) ==
  Then(r, LAMBDA values, p :
  Then(ReadObject(buf, p), LAMBDA v, q : Ok(Append(values, v), q)))

ReadObjects(buf, pos, count) ==
  LET upTo[n \in 0..count] == IF n = 0 THEN Ok(<<>>, pos) ELSE ReadNextObject(buf, upTo[n - 1])
  IN upTo[count]

\* A map: its keys and values in turn.  What is no map is not asked for its
\* keys where assertions are compiled in.
Unpack(buf) ==
  Then(ReadItem(buf, 0), LAMBDA root, p :
  Then(ReadObjects(buf, p, root.holds), LAMBDA values, q :
       IF root.type = "map" THEN Ok(values, q) ELSE Invalid))

\* The nearest whole number to n / d; of two, the even one.
Nearest(n, d) ==
  LET q == n \div d
      twice == 2 * (n % d)
  IN IF twice > d \/ (twice = d /\ q % 2 = 1) THEN q + 1 ELSE q

\* A float is mantissa * 2^exp, its mantissa of 24 bits; 1000 is 125 * 2^3.
Times1000(x) ==
  LET dropped == IF x.mantissa * 125 < 2 ^ 30 THEN 6 ELSE 7
  IN [mantissa |-> Nearest(x.mantissa * 125, 2 ^ dropped), exp |-> x.exp + 3 + dropped]

\* The float nearest to a time, in seconds; time is in microseconds, from one
\* second up.  10^6 is 15625 * 2^6.
Seconds(time) ==
  LET bits == CHOOSE k \in 13..23 : /\ 2 ^ (23 - k) * 1000000 <= time
                                    /\ k = 13 \/ time < 2 ^ (24 - k) * 1000000
      unit == 2 ^ (bits - 6)
  IN [mantissa |-> (time \div 15625) * unit + Nearest((time % 15625) * unit, 15625), exp |-> -bits]

\* std::round(... * 1000 * 1000) of the float nearest to a time, from one second
\* to 2^11 of them, or to none; what is negative is rounded alike.
Microseconds(time) ==
  LET us == Times1000(Times1000(Seconds(time))) IN
  IF us.exp >= 0 THEN us.mantissa * 2 ^ us.exp
  ELSE (us.mantissa + 2 ^ (-us.exp - 1)) \div 2 ^ (-us.exp)

ToString10(n) ==
  LET digits[k \in Nat] ==
        IF k < 10 THEN <<48 + k>> ELSE Append(digits[k \div 10], 48 + (k % 10))
  IN IF n < 0 THEN <<45>> \o digits[-n] ELSE digits[n]

-----------------------------------------------------------------------------
\* as<int>: a number of either sign that has 32 bits; the bytes before these
\* only repeat the sign.
FitsInt(item) ==
  LET v        == item.value
      low      == Len(v) - 3
      negative == item.type = "int" /\ v[1] >= 128
  IN /\ item.type \in {"uint", "int"}
     /\ Len(v) >= 4 => /\ \A i \in 1..(low - 1) : v[i] = (IF negative THEN 255 ELSE 0)
                       /\ v[low] >= 128 <=> negative

AsInt(item) == IF item.type = "int" THEN Signed(item.value) ELSE Unsigned(item.value)

\* as<float>: numbers with and without a point, and the time made of them; those
\* without one are seconds.
AsTime(item) ==
  LET time == IF item.type = "float" THEN Unsigned(item.value) ELSE 1000000 * AsInt(item) IN
  CASE time = 0 -> 0
    [] time > 0 -> Microseconds(time)
    [] OTHER    -> -Microseconds(-time)

\* msgIndex: the place of each field among the attributes.
msgIndex ==
  [name |-> 0, msg |-> 1, levelno |-> 4, pathname |-> 5, lineno |-> 11, funcName |-> 12,
   created |-> 13, threadName |-> 17]

\* as<> throws if an attribute is not of the type asked for ...
Converts(field, item) ==
  CASE field \in {"levelno", "lineno"} -> FitsInt(item)
    [] field = "created"               -> item.type \in {"float", "uint", "int"}
    [] OTHER                           -> item.type = "text"

\* ... and yields this if it is.
As(field, item) ==
  CASE field \in {"levelno", "lineno"} -> AsInt(item)
    [] field = "created"               -> AsTime(item)
    [] OTHER                           -> item.value

\* python's level * 1000 in an int, whose product wraps in the builds there are.
Times1000Int(n) ==
  LET low  == 1000 * (n % 65536)
      high == (1000 * (n \div 65536) + low \div 65536) % 65536
  IN 65536 * (IF high < 32768 THEN high ELSE high - 65536) + (low % 65536)

MsgpackEvent(v) ==
  [name |-> v.name, level |-> ToLevel(Times1000Int(v.levelno)), msg |-> v.msg, time |-> v.created,
   thread |-> v.threadName, path |-> CString(v.pathname), func |-> CString(v.funcName),
   line |-> ToString10(v.lineno)]

Attribute(values, field) == values[2 * msgIndex[field] + 2]

\* The fields by their place.
ReadMsgpack(buf) ==
  Then(Unpack(buf), LAMBDA values, p :
    IF \A f \in DOMAIN msgIndex : Converts(f, Attribute(values, f))
    THEN Ok(MsgpackEvent([f \in DOMAIN msgIndex |-> As(f, Attribute(values, f))]), p)
    ELSE Invalid)

createLoggingEvent(buf, protocol) ==
  IF protocol = "msgpack" THEN ReadMsgpack(buf)
  ELSE Then(ReadFields(buf, protocol), LAMBDA values, p :
            Ok(IF protocol = "default" THEN DefaultEvent(values) ELSE BytesEvent(values), p))
=============================================================================
