---------------------------- MODULE SessionProofs ----------------------------
(***************************************************************************)
(* A session in tokens and in bytes.                                         *)
(*                                                                          *)
(* In tokens, Client is correct for every stream: the invariant IInv is       *)
(* inductive, and the session agrees with one call on all that was received. *)
(* The lemmas about parts of a stream are those of SocketsProofs; its         *)
(* sockets play no part here.                                                *)
(*                                                                          *)
(* In bytes, a decoder reads of a buffer what it reads of every longer one    *)
(* (DecoderReads).  So it is enough to know that it reads each part of a       *)
(* stream alone: Decoding then decodes the stream however recv cuts it, by    *)
(* the inductive invariant InPlace.  What the writers of the bytes and of     *)
(* the default protocol make of an event is known to be read alone, for all  *)
(* texts (PythonBytesRead, DefaultWritersRead).                              *)
(***************************************************************************)
EXTENDS Client, Decoding, SocketsProofs, Integers

USE DEF MarkerLen

\* What erase does to a buffer, element by element.
LEMMA EraseProps ==
  ASSUME NEW S, NEW b \in Seq(S), NEW n \in 0..Len(b)
  PROVE  /\ Erase(b, n) \in Seq(S)
         /\ Len(Erase(b, n)) = Len(b) - n
         /\ \A i \in 1..(Len(b) - n) : Erase(b, n)[i] = b[n + i]
BY DEF Erase

\* The initial states satisfy the invariant.
LEMMA InitIInv == Init => IInv
<1> SUFFICES ASSUME Init PROVE IInv
  OBVIOUS
<1>1. stream \in Seq(Token) /\ Len(stream) \in Nat
  BY StreamsAssumption DEF Init
<1>2. TypeOK
  BY <1>1 DEF Init, TypeOK, Event
<1>3. Conserved /\ TakenWhole /\ TakenLogged /\ WholeFrames /\ InOrderOnce
  BY <1>1 DEF Init, Conserved, TakenWhole, TakenLogged, WholeFrames, InOrderOnce
<1>4. ReturnsIdeal
  BY <1>1 DEF Init, ReturnsIdeal, Acceptable, Owed
<1> QED
  BY <1>2, <1>3, <1>4 DEF IInv

-----------------------------------------------------------------------------
\* Entering forceLog with a chunk keeps the invariant: the chunk continues the
\* stream where the buffer ends.
LEMMA ForceLogKeeps ==
  ASSUME IInv, NEW n \in 1..Len(stream), ForceLog(n)
  PROVE  IInv'
<1> DEFINE chunk == SubSeq(stream, got + 1, got + n)
<1>0. /\ stream \in Seq(Token) /\ Len(stream) \in Nat /\ got \in Nat /\ erased \in 0..got
      /\ byteBuf \in Seq(Token) /\ got + n <= Len(stream) /\ got' = got + n
      /\ byteBuf' = byteBuf \o chunk /\ n \in Nat
      /\ UNCHANGED <<asserts, stream, loggingFunc, result, erased, logged>>
  BY StreamsAssumption DEF IInv, TypeOK, ForceLog
<1>1. /\ chunk \in Seq(Token)
      /\ Len(chunk) = n
      /\ \A i \in 1..n : chunk[i] = stream[got + i]
  BY <1>0
<1>2. TypeOK'
  BY <1>0, <1>1 DEF IInv, TypeOK, ForceLog
<1>3. Conserved'
  <2>1. Len(byteBuf') = got' - erased'
    <3>1. Len(byteBuf') = Len(byteBuf) + n
      BY <1>0, <1>1
    <3>2. Len(byteBuf) = got - erased
      BY DEF IInv, Conserved
    <3> QED
      BY <1>0, <3>1, <3>2
  <2>2. ASSUME NEW i \in 1..Len(byteBuf')
        PROVE  byteBuf'[i] = stream'[erased' + i]
    <3>0. /\ i \in 1..(Len(byteBuf) + Len(chunk)) /\ Len(byteBuf) \in Nat /\ Len(chunk) = n
          /\ byteBuf'[i] = IF i <= Len(byteBuf) THEN byteBuf[i] ELSE chunk[i - Len(byteBuf)]
      <4>1. byteBuf \in Seq(Token) /\ chunk \in Seq(Token) /\ byteBuf' = byteBuf \o chunk
        BY <1>0, <1>1
      <4> HIDE DEF chunk
      <4> QED
        BY <1>1, <4>1, ConcatProperties, LenProperties
    <3>1. CASE i <= Len(byteBuf)
      <4>1. byteBuf'[i] = byteBuf[i] /\ i \in 1..Len(byteBuf)
        BY <3>0, <3>1
      <4>2. byteBuf[i] = stream[erased + i]
        BY <4>1 DEF IInv, Conserved
      <4> QED
        BY <1>0, <4>1, <4>2
    <3>2. CASE i > Len(byteBuf)
      <4>1. i - Len(byteBuf) \in 1..n
        <5>1. i \in 1..(Len(byteBuf) + n) /\ Len(byteBuf) \in Nat
          BY <3>0
        <5> QED
          BY <1>0, <3>2, <5>1
      <4>2. byteBuf'[i] = chunk[i - Len(byteBuf)]
        <5> HIDE DEF chunk
        <5>1. ~(i <= Len(byteBuf))
          BY <3>0, <3>2
        <5> QED
          BY <3>0, <5>1
      <4> QED
        <5>1. chunk[i - Len(byteBuf)] = stream[got + (i - Len(byteBuf))]
          BY <1>1, <4>1
        <5>2. /\ i \in Int /\ Len(byteBuf) = got - erased /\ erased' = erased
              /\ got \in Int /\ erased \in Int /\ stream' = stream
          BY <1>0, <1>1 DEF IInv, Conserved
        <5>3. got + (i - Len(byteBuf)) = erased' + i
          BY <5>2
        <5> QED
          BY <4>2, <5>1, <5>2, <5>3
    <3>3. i <= Len(byteBuf) \/ i > Len(byteBuf)
      BY <3>0
    <3> QED
      BY <3>1, <3>2, <3>3
  <2> QED
    BY <2>1, <2>2 DEF Conserved
<1>4. TakenWhole' /\ TakenLogged' /\ WholeFrames' /\ InOrderOnce' /\ ReturnsIdeal'
  BY <1>0 DEF IInv, ForceLog, TakenWhole, TakenLogged, WholeFrames, InOrderOnce,
              ReturnsIdeal, CleanUpTo, MarkerOK
<1> QED
  BY <1>2, <1>3, <1>4 DEF IInv

\* A return whose value and log agree with the stream keeps the invariant.
LEMMA ReturnKeeps ==
  ASSUME IInv, NEW value \in BOOLEAN, Return(value),
         value <=> Acceptable(stream, got),
         {logged[i].to : i \in 1..Len(logged)} = Owed(stream, got)
  PROVE  IInv'
<1>1. TypeOK' /\ Conserved' /\ TakenLogged' /\ WholeFrames' /\ InOrderOnce'
  BY DEF IInv, Return, TypeOK, Conserved, TakenLogged, WholeFrames, InOrderOnce
<1>2. TakenWhole'
  BY DEF IInv, Return, TakenWhole, MarkerOK, CleanUpTo
<1>3. ReturnsIdeal'
  BY DEF Return, ReturnsIdeal, Acceptable, Owed, MarkerOK, CleanUpTo
<1> QED
  BY <1>1, <1>2, <1>3 DEF IInv

-----------------------------------------------------------------------------
\* What the buffer says of the stream when the loop looks at it.
LEMMA AtLoop ==
  ASSUME IInv, pc = "loop"
  PROVE  /\ MarkerLen <= erased /\ MarkerOK(stream) /\ CleanUpTo(stream, erased)
         /\ Len(byteBuf) = got - erased /\ got \in Nat /\ erased \in Nat /\ erased <= got
         /\ \A k \in (erased + 1)..got :
              /\ k - erased \in 1..Len(byteBuf)
              /\ stream[k] = byteBuf[k - erased]
<1>1. /\ Len(byteBuf) = got - erased /\ got \in Nat /\ erased \in Nat /\ erased <= got
      /\ Len(stream) \in Nat
  BY StreamsAssumption DEF IInv, TypeOK, Conserved
<1>2. MarkerLen <= erased /\ MarkerOK(stream) /\ CleanUpTo(stream, erased)
  BY DEF IInv, TakenWhole
<1>3. ASSUME NEW k \in (erased + 1)..got
      PROVE  k - erased \in 1..Len(byteBuf) /\ stream[k] = byteBuf[k - erased]
  <2>1. k - erased \in 1..Len(byteBuf) /\ erased + (k - erased) = k
    BY <1>1
  <2> QED
    BY <2>1 DEF IInv, Conserved
<1> QED
  BY <1>1, <1>2, <1>3

\* The events logged so far are those owed for the erased part of the stream.
LEMMA LoggedIsOwed ==
  ASSUME IInv, NEW g \in erased..Len(stream), loggingFunc # NoFunc,
         \A k \in (erased + 1)..g :
            stream[k].kind = "event" => ~CleanUpTo(stream, k)
  PROVE  {logged[i].to : i \in 1..Len(logged)} = Owed(stream, g)
<1>1. /\ erased \in Nat /\ g \in Nat /\ erased <= g /\ MarkerLen <= erased
      /\ MarkerOK(stream) /\ CleanUpTo(stream, erased)
  BY StreamsAssumption DEF IInv, TypeOK, TakenWhole
<1>2. ASSUME NEW i \in 1..Len(logged)
      PROVE  logged[i].to \in Owed(stream, g)
  <2>1. /\ logged[i].to \in Nat /\ logged[i].from \in Nat
        /\ MarkerLen < logged[i].from /\ logged[i].from <= logged[i].to
        /\ logged[i].to <= erased /\ stream[logged[i].to].kind = "event"
    <3>1. logged[i] \in Event
      BY DEF IInv, TypeOK
    <3>2. logged[i].to \in Nat /\ logged[i].from \in Nat
      BY <3>1, StreamsAssumption DEF Event
    <3> QED
      BY <3>2 DEF IInv, WholeFrames, IsFrame, TakenLogged
  <2>2. CleanUpTo(stream, logged[i].to)
    BY <1>1, <2>1 DEF CleanUpTo
  <2> QED
    BY <1>1, <2>1, <2>2 DEF Owed
<1>3. ASSUME NEW k \in Owed(stream, g)
      PROVE  \E i \in 1..Len(logged) : logged[i].to = k
  <2>1. k \in (MarkerLen + 1)..erased /\ stream[k].kind = "event"
    BY <1>1 DEF Owed
  <2> QED
    BY <2>1 DEF IInv, TakenLogged
<1> QED
  BY <1>2, <1>3

-----------------------------------------------------------------------------
\* Erasing the front of the buffer keeps it the rest of the stream.
LEMMA ConsumeConserves ==
  ASSUME IInv, NEW n \in 0..Len(byteBuf), Consume(n)
  PROVE  /\ byteBuf' \in Seq(Token) /\ erased' \in 0..got /\ Conserved'
         /\ got' = got /\ stream' = stream /\ erased' = erased + n
<1>1. /\ byteBuf \in Seq(Token) /\ got \in Nat /\ erased \in 0..got
      /\ Len(byteBuf) = got - erased
      /\ got' = got /\ stream' = stream /\ erased' = erased + n /\ byteBuf' = Erase(byteBuf, n)
  BY StreamsAssumption DEF IInv, TypeOK, Conserved, Consume
<1>2. /\ byteBuf' \in Seq(Token)
      /\ Len(byteBuf') = Len(byteBuf) - n
      /\ \A i \in 1..(Len(byteBuf) - n) : byteBuf'[i] = byteBuf[n + i]
  BY <1>1, EraseProps
<1>3. ASSUME NEW i \in 1..Len(byteBuf')
      PROVE  byteBuf'[i] = stream'[erased' + i]
  <2>1. n + i \in 1..Len(byteBuf) /\ erased + (n + i) = erased' + i
    BY <1>1, <1>2
  <2>2. byteBuf[n + i] = stream[erased + (n + i)]
    BY <2>1 DEF IInv, Conserved
  <2> QED
    BY <1>1, <1>2, <2>1, <2>2
<1>4. Len(byteBuf') = got' - erased' /\ erased' \in 0..got
  BY <1>1, <1>2
<1> QED
  BY <1>1, <1>2, <1>3, <1>4 DEF Conserved

\* Choosing a decoder takes exactly the marker.
LEMMA StartFoundKeeps ==
  ASSUME IInv, NEW p \in Protocols, StartFound(p)
  PROVE  IInv'
<1>1. /\ erased = 0 /\ logged = <<>> /\ loggingFunc = NoFunc
      /\ MarkerLen \in 0..Len(byteBuf) /\ Consume(MarkerLen)
      /\ stream[1] = byteBuf[1] /\ stream[2] = byteBuf[2]
      /\ loggingFunc' = p /\ logged' = logged /\ pc' = "loop" /\ result' = result
  <2>1. loggingFunc = NoFunc
    BY DEF IInv, TakenWhole, StartFound
  <2>2. erased = 0 /\ logged = <<>>
    BY <2>1 DEF IInv, TakenWhole
  <2>3. Len(byteBuf) \in Nat /\ 2 <= Len(byteBuf)
    BY DEF IInv, TypeOK, StartFound, StartIncomplete
  <2>4. stream[1] = byteBuf[1] /\ stream[2] = byteBuf[2]
    BY <2>2, <2>3 DEF IInv, Conserved
  <2> QED
    BY <2>1, <2>2, <2>3, <2>4 DEF StartFound, Consume
<1>2. /\ byteBuf' \in Seq(Token) /\ erased' = 2 /\ erased' \in 0..got /\ Conserved'
      /\ got' = got /\ stream' = stream
  BY <1>1, ConsumeConserves
<1>3. MarkerOK(stream)
  BY <1>1 DEF StartFound, Matches, MarkerOK
<1>4. TypeOK'
  BY <1>1, <1>2 DEF IInv, TypeOK, Consume
<1>5. TakenWhole'
  <2>1. p # NoFunc
    BY DEF Protocols, NoFunc
  <2> QED
    BY <1>1, <1>2, <1>3, <2>1 DEF TakenWhole, CleanUpTo, MarkerOK
<1>6. TakenLogged' /\ WholeFrames' /\ InOrderOnce' /\ ReturnsIdeal'
  BY <1>1, <1>2 DEF TakenLogged, WholeFrames, InOrderOnce, ReturnsIdeal
<1> QED
  BY <1>2, <1>4, <1>5, <1>6 DEF IInv

\* Decoding an event takes exactly one frame of the stream, and logs it once.
LEMMA LogEventKeeps ==
  ASSUME IInv, NEW n \in 1..Len(byteBuf), LogEvent(n)
  PROVE  IInv'
<1> DEFINE e == [from |-> byteBuf[1].id, to |-> byteBuf[n].id]
<1>1. /\ pc = "loop" /\ pc' = "loop" /\ Consume(n) /\ result' = result
      /\ loggingFunc' = loggingFunc /\ loggingFunc # NoFunc
      /\ byteBuf[n].kind \in FrameEnds /\ \A m \in 1..(n - 1) : byteBuf[m].kind = "body"
      /\ logged' = IF byteBuf[n].kind = "event" THEN Append(logged, e) ELSE logged
  <2>1. loggingFunc # NoFunc
    BY DEF IInv, TakenWhole, LogEvent
  <2> QED
    BY <2>1 DEF LogEvent, Consume, EventOfLength, ScanStopsAt
<1>2. /\ 2 <= erased /\ MarkerOK(stream) /\ CleanUpTo(stream, erased)
      /\ Len(byteBuf) = got - erased /\ got \in Nat /\ erased \in Nat /\ erased <= got
      /\ n \in Nat /\ 1 <= n
  BY <1>1, AtLoop
<1>3. /\ byteBuf' \in Seq(Token) /\ erased' \in 0..got /\ Conserved'
      /\ got' = got /\ stream' = stream /\ erased' = erased + n
  BY <1>1, <1>2, ConsumeConserves
<1>4. \A k \in (erased + 1)..(erased + n) :
         k - erased \in 1..n /\ stream[k] = byteBuf[k - erased] /\ stream[k].id = k
  <2> SUFFICES ASSUME NEW k \in (erased + 1)..(erased + n)
               PROVE  k - erased \in 1..n /\ stream[k] = byteBuf[k - erased] /\ stream[k].id = k
    OBVIOUS
  <2>1. k \in (erased + 1)..got /\ k - erased \in 1..n
    BY <1>2
  <2>2. stream[k] = byteBuf[k - erased]
    BY <1>1, <2>1, AtLoop
  <2>3. k \in 1..Len(stream)
    BY <2>1, <1>2, StreamsAssumption DEF IInv, TypeOK
  <2>4. stream[k].id = k
    BY <2>3, StreamsAssumption DEF IInv, TypeOK
  <2> QED
    BY <2>1, <2>2, <2>4
<1>5. \A k \in (erased + 1)..(erased + n) :
         /\ stream[k].kind \in FrameKinds
         /\ k < erased + n => stream[k].kind = "body"
  <2> SUFFICES ASSUME NEW k \in (erased + 1)..(erased + n)
               PROVE  /\ stream[k].kind \in FrameKinds
                      /\ k < erased + n => stream[k].kind = "body"
    OBVIOUS
  <2>1. CASE k < erased + n
    <3>1. k - erased \in 1..(n - 1)
      BY <1>2, <2>1
    <3> QED
      BY <1>1, <1>4, <3>1 DEF FrameKinds
  <2>2. CASE k = erased + n
    <3>1. k - erased = n
      BY <1>2, <2>2
    <3> QED
      BY <1>1, <1>4, <2>2, <3>1 DEF FrameKinds
  <2> QED
    BY <1>2, <2>1, <2>2
<1>6. /\ stream[erased + n] = byteBuf[n] /\ stream[erased + 1] = byteBuf[1]
      /\ e.from = erased + 1 /\ e.to = erased + n
  <2>1. (erased + n) - erased = n /\ (erased + 1) - erased = 1
    BY <1>2
  <2>2. erased + n \in (erased + 1)..(erased + n) /\ erased + 1 \in (erased + 1)..(erased + n)
    BY <1>2
  <2> QED
    BY <1>4, <2>1, <2>2
<1>7. e \in Event
  <2>1. byteBuf \in Seq(Token) /\ 1 \in 1..Len(byteBuf) /\ n \in 1..Len(byteBuf)
    BY <1>2 DEF IInv, TypeOK
  <2>2. byteBuf[1] \in Token /\ byteBuf[n] \in Token
    BY <2>1
  <2> QED
    BY <2>2 DEF Token, Event
<1>8. TypeOK'
  <2>1. logged' \in Seq(Event)
    BY <1>1, <1>7 DEF IInv, TypeOK
  <2> QED
    BY <1>1, <1>3, <2>1 DEF IInv, TypeOK, Consume
<1>9. TakenWhole'
  <2>1. CleanUpTo(stream, erased + n)
    BY <1>2, <1>5 DEF CleanUpTo
  <2> QED
    BY <1>1, <1>2, <1>3, <1>6, <2>1 DEF TakenWhole, MarkerOK, CleanUpTo
<1>10. \A i \in 1..Len(logged) :
          /\ logged[i].to \in Nat /\ logged[i].to <= erased
          /\ IsFrame(stream, logged[i])
  <2>1. \A i \in 1..Len(logged) : logged[i] \in Event
    BY DEF IInv, TypeOK
  <2>2. \A i \in 1..Len(logged) : logged[i].to \in Nat
    BY <2>1, StreamsAssumption DEF Event
  <2> QED
    BY <2>2 DEF IInv, TakenLogged, WholeFrames
<1>11. byteBuf[n].kind = "event" => IsFrame(stream, e)
  <2>1. erased + n <= Len(stream) /\ Len(stream) \in Nat
    BY <1>2, StreamsAssumption DEF IInv, TypeOK
  <2>2. e.from = 3 \/ stream[e.from - 1].kind \in FrameEnds
    BY <1>1, <1>2, <1>6, SMTT(30) DEF IInv, TakenWhole
  <2>3. \A m \in e.from..(e.to - 1) : stream[m].kind = "body"
    BY <1>2, <1>5, <1>6
  <2>4. MarkerLen < e.from /\ e.from <= e.to /\ e.to <= Len(stream)
    BY <1>2, <1>6, <2>1 DEF MarkerLen
  <2>5. byteBuf[n].kind = "event" => stream[e.to].kind = "event"
    BY <1>6
  <2> HIDE DEF e
  <2> QED
    BY <2>2, <2>3, <2>4, <2>5 DEF IsFrame, MarkerLen
<1>12. WholeFrames' /\ TakenLogged' /\ InOrderOnce'
  <2>1. CASE byteBuf[n].kind = "event"
    <3>1. /\ logged' = Append(logged, e) /\ Len(logged') = Len(logged) + 1
          /\ Len(logged) \in Nat /\ logged'[Len(logged) + 1] = e
          /\ \A i \in 1..Len(logged) : logged'[i] = logged[i]
      BY <1>1, <1>7, <2>1 DEF IInv, TypeOK
    <3>0. \A i \in 1..Len(logged') : i \in 1..Len(logged) \/ i = Len(logged) + 1
      BY <3>1
    <3> HIDE DEF e
    <3>2. WholeFrames'
      <4>1. \A i \in 1..Len(logged') : IsFrame(stream, logged'[i])
        BY <1>10, <1>11, <2>1, <3>0, <3>1
      <4> QED
        BY <1>3, <4>1 DEF WholeFrames
    <3>3. ASSUME NEW i \in 1..Len(logged')
          PROVE  logged'[i].to <= erased'
      <4>1. CASE i \in 1..Len(logged)
        <5>1. logged'[i] = logged[i] /\ logged[i].to \in Nat /\ logged[i].to <= erased
          BY <1>10, <3>1, <4>1
        <5> QED
          BY <1>2, <1>3, <5>1
      <4>2. CASE i = Len(logged) + 1
        BY <1>2, <1>3, <1>6, <3>1, <4>2
      <4> QED
        BY <3>0, <4>1, <4>2
    <3>4. ASSUME NEW k \in 3..erased', stream[k].kind = "event"
          PROVE  \E i \in 1..Len(logged') : logged'[i].to = k
      <4>1. CASE k <= erased
        <5>1. PICK i \in 1..Len(logged) : logged[i].to = k
          BY <1>2, <3>4, <4>1 DEF IInv, TakenLogged
        <5> QED
          BY <3>1, <5>1
      <4>2. CASE k > erased
        <5>1. k = erased + n
          <6>1. k \in (erased + 1)..(erased + n)
            BY <1>2, <1>3, <3>4, <4>2
          <6> QED
            BY <1>2, <1>5, <3>4, <6>1
        <5> QED
          BY <1>6, <3>1, <5>1
      <4> QED
        BY <1>2, <4>1, <4>2
    <3>5. TakenLogged'
      BY <1>3, <3>3, <3>4 DEF TakenLogged
    <3>6. ASSUME NEW i \in 1..Len(logged'), NEW j \in 1..Len(logged'), i < j
          PROVE  logged'[i].to < logged'[j].from
      <4>1. CASE j <= Len(logged)
        BY <3>1, <3>6, <4>1 DEF IInv, InOrderOnce
      <4>2. CASE j = Len(logged) + 1
        BY <1>2, <1>6, <1>10, <3>1, <3>6, <4>2
      <4> QED
        BY <3>1, <4>1, <4>2
    <3>7. InOrderOnce'
      BY <3>6 DEF InOrderOnce
    <3> QED
      BY <3>2, <3>5, <3>7
  <2>2. CASE byteBuf[n].kind # "event"
    <3>1. logged' = logged
      BY <1>1, <2>2
    <3>2. WholeFrames' /\ InOrderOnce'
      <4>1. WholeFrames'
        BY <1>3, <1>10, <3>1 DEF WholeFrames
      <4>2. InOrderOnce'
        BY <3>1 DEF IInv, InOrderOnce
      <4> QED
        BY <4>1, <4>2
    <3>3. ASSUME NEW k \in 3..erased', stream[k].kind = "event"
          PROVE  k \in 3..erased
      <4>1. CASE k > erased
        <5>1. k = erased + n
          <6>1. k \in (erased + 1)..(erased + n)
            BY <1>2, <1>3, <3>3, <4>1
          <6> QED
            BY <1>2, <1>5, <3>3, <6>1
        <5> QED
          BY <1>6, <2>2, <3>3, <5>1
      <4> QED
        BY <1>2, <4>1
    <3>4. TakenLogged'
      <4>1. ASSUME NEW i \in 1..Len(logged)
            PROVE  logged[i].to <= erased'
        BY <1>2, <1>3, <1>10
      <4>2. ASSUME NEW k \in 3..erased', stream[k].kind = "event"
            PROVE  \E i \in 1..Len(logged) : logged[i].to = k
        BY <3>3, <4>2 DEF IInv, TakenLogged
      <4> QED
        BY <1>3, <3>1, <4>1, <4>2 DEF TakenLogged
    <3> QED
      BY <3>2, <3>4
  <2> QED
    BY <2>1, <2>2
<1>13. ReturnsIdeal'
  BY <1>1 DEF ReturnsIdeal
<1> QED
  BY <1>3, <1>8, <1>9, <1>12, <1>13 DEF IInv

-----------------------------------------------------------------------------
\* The three returns before a decoder is chosen and the two after it report and
\* log what the received part of the stream deserves.
LEMMA StartReturnsKeep ==
  ASSUME IInv, StartSmall \/ StartFails
  PROVE  IInv'
<1>1. /\ pc = "start" /\ loggingFunc = NoFunc /\ erased = 0 /\ logged = <<>>
      /\ Len(byteBuf) = got /\ got \in Nat
      /\ \A i \in 1..got : byteBuf[i] = stream[i]
  <2>1. pc = "start" /\ loggingFunc = NoFunc /\ erased = 0 /\ logged = <<>>
    BY DEF IInv, TakenWhole, StartSmall, StartFails
  <2>2. got \in Nat
    BY StreamsAssumption DEF IInv, TypeOK
  <2> QED
    BY <2>1, <2>2 DEF IInv, Conserved
<1>a. {logged[i].to : i \in 1..Len(logged)} = {}
  BY <1>1
<1>2. CASE StartSmall
  <2>1. Acceptable(stream, got) /\ Owed(stream, got) = {}
    BY <1>1, <1>2 DEF StartSmall, StartIncomplete, Acceptable, Owed
  <2> QED
    BY <1>a, <1>2, <2>1, ReturnKeeps DEF StartSmall
<1>3. CASE StartFails
  <2>1. 2 <= got /\ ~MarkerOK(stream)
    BY <1>1, <1>3 DEF StartFails, StartUnknown, StartIncomplete, Matches, MarkerOK
  <2>2. ~Acceptable(stream, got) /\ Owed(stream, got) = {}
    BY <1>1, <2>1 DEF Acceptable, Owed
  <2> QED
    BY <1>a, <1>3, <2>2, ReturnKeeps DEF StartFails
<1> QED
  BY <1>2, <1>3

LEMMA LoopEndsKeeps ==
  ASSUME IInv, LoopEnds
  PROVE  IInv'
<1>1. pc = "loop" /\ loggingFunc # NoFunc /\ Incomplete(byteBuf) /\ Return(TRUE)
  BY DEF IInv, TakenWhole, LoopEnds
<1>2. /\ 2 <= erased /\ MarkerOK(stream) /\ CleanUpTo(stream, erased)
      /\ got \in Nat /\ erased \in Nat /\ erased <= got
      /\ \A k \in (erased + 1)..got : stream[k].kind = "body"
  BY <1>1, AtLoop DEF Incomplete
<1>3. Acceptable(stream, got)
  BY <1>2 DEF Acceptable, CleanUpTo, FrameKinds
<1>4. got \in erased..Len(stream)
  BY <1>2, StreamsAssumption DEF IInv, TypeOK
<1>5. {logged[i].to : i \in 1..Len(logged)} = Owed(stream, got)
  BY <1>1, <1>2, <1>4, LoggedIsOwed
<1> QED
  BY <1>1, <1>3, <1>5, ReturnKeeps

\* When the loop meets a byte no event may begin or go on with, the received part
\* of the stream is unacceptable and all it owes has been logged.
LEMMA MalformedIsRefused ==
  ASSUME IInv, pc = "loop", Malformed(byteBuf)
  PROVE  /\ loggingFunc # NoFunc /\ ~Acceptable(stream, got)
         /\ {logged[i].to : i \in 1..Len(logged)} = Owed(stream, got)
<1>1. pc = "loop" /\ loggingFunc # NoFunc /\ Malformed(byteBuf)
  BY DEF IInv, TakenWhole
<1>2. /\ 2 <= erased /\ MarkerOK(stream) /\ CleanUpTo(stream, erased)
      /\ got \in Nat /\ erased \in Nat /\ erased <= got
      /\ Len(byteBuf) = got - erased
      /\ \A k \in (erased + 1)..got :
           k - erased \in 1..Len(byteBuf) /\ stream[k] = byteBuf[k - erased]
  BY <1>1, AtLoop
<1>3. PICK n \in 1..Len(byteBuf) : ScanStopsAt(byteBuf, n) /\ byteBuf[n].kind \notin FrameEnds
  BY <1>1 DEF Malformed
<1>4. /\ erased + n \in (erased + 1)..got /\ (erased + n) - erased = n
      /\ stream[erased + n].kind \notin FrameKinds
  <2>1. erased + n \in (erased + 1)..got /\ (erased + n) - erased = n
    BY <1>2
  <2>2. stream[erased + n] = byteBuf[n]
    BY <1>2, <2>1
  <2> QED
    BY <1>3, <2>1, <2>2 DEF ScanStopsAt, FrameKinds
<1>5. ~Acceptable(stream, got)
  BY <1>2, <1>4 DEF Acceptable, CleanUpTo
<1>6. ASSUME NEW k \in (erased + 1)..got, stream[k].kind = "event"
      PROVE  ~CleanUpTo(stream, k)
  <2>1. k - erased \in 1..Len(byteBuf) /\ byteBuf[k - erased].kind = "event"
    BY <1>2, <1>6
  <2>2. ~(k - erased < n)
    BY <1>3, <2>1, <1>2 DEF ScanStopsAt
  <2>3. erased + n \in 3..k
    BY <1>2, <2>2
  <2> QED
    BY <1>4, <2>3 DEF CleanUpTo
<1>7. got \in erased..Len(stream)
  BY <1>2, StreamsAssumption DEF IInv, TypeOK
<1>8. {logged[i].to : i \in 1..Len(logged)} = Owed(stream, got)
  BY <1>1, <1>6, <1>7, LoggedIsOwed
<1> QED
  BY <1>1, <1>5, <1>8

LEMMA LoopFailsKeeps ==
  ASSUME IInv, LoopFails
  PROVE  IInv'
BY MalformedIsRefused, ReturnKeeps DEF LoopFails

-----------------------------------------------------------------------------
\* IInv is inductive: every step of forceLog, and every stutter, keeps it.
LEMMA StepKeepsIInv == IInv /\ [Next]_vars => IInv'
<1> SUFFICES ASSUME IInv, [Next]_vars
             PROVE  IInv'
  OBVIOUS
<1>1. ASSUME NEW n \in 1..Len(stream), ForceLog(n)
      PROVE  IInv'
  BY <1>1, ForceLogKeeps
<1>2. CASE StartSmall \/ StartFails
  BY <1>2, StartReturnsKeep
<1>3. ASSUME NEW p \in Protocols, StartFound(p)
      PROVE  IInv'
  BY <1>3, StartFoundKeeps
<1>4. ASSUME NEW n \in 1..Len(byteBuf), LogEvent(n)
      PROVE  IInv'
  BY <1>4, LogEventKeeps
<1>5. CASE LoopEnds
  BY <1>5, LoopEndsKeeps
<1>6. CASE LoopFails
  BY <1>6, LoopFailsKeeps
<1>7. CASE Abort
  BY <1>7 DEF Abort, IInv, TypeOK, Conserved, TakenWhole, TakenLogged, WholeFrames,
              InOrderOnce, ReturnsIdeal, MarkerOK, CleanUpTo
<1>8. CASE UNCHANGED vars
  <2>1. TypeOK' /\ Conserved' /\ TakenLogged' /\ WholeFrames' /\ InOrderOnce'
    BY <1>8 DEF vars, IInv, TypeOK, Conserved, TakenLogged, WholeFrames, InOrderOnce
  <2>2. TakenWhole'
    BY <1>8 DEF vars, IInv, TakenWhole, MarkerOK, CleanUpTo
  <2>3. ReturnsIdeal'
    BY <1>8 DEF vars, IInv, ReturnsIdeal, Acceptable, Owed, MarkerOK, CleanUpTo
  <2> QED
    BY <2>1, <2>2, <2>3 DEF IInv
<1> QED
  BY <1>1, <1>2, <1>3, <1>4, <1>5, <1>6, <1>7, <1>8 DEF Next, Step

-----------------------------------------------------------------------------
\* An assertion fails at a marker that is not the default loader's, or where the
\* loop would have refused the buffer.
LEMMA AbortRefuses ==
  ASSUME IInv, Abort
  PROVE  AbortsOnlyRefused'
<1>1. UNCHANGED <<stream, got, loggingFunc, logged>>
  BY DEF Abort
<1>2. CASE pc = "start" /\ ~StartIncomplete(byteBuf) /\ StartAsserts
  <2>1. loggingFunc = NoFunc /\ erased = 0 /\ got \in Nat
    BY <1>2, StreamsAssumption DEF IInv, TypeOK, TakenWhole
  <2>2. Len(byteBuf) = got /\ \A i \in 1..got : byteBuf[i] = stream[i]
    BY <2>1 DEF IInv, Conserved
  <2>3. got >= MarkerLen
    BY <1>2, <2>1, <2>2 DEF StartIncomplete
  <2>4. ~Matches(stream, "default")
    BY <1>2, <2>1, <2>2, <2>3 DEF StartAsserts, Matches
  <2> QED
    BY <1>1, <2>1, <2>3, <2>4 DEF AbortsOnlyRefused, Matches
<1>3. CASE pc = "loop" /\ Malformed(byteBuf)
  <2>1. /\ loggingFunc # NoFunc /\ ~Acceptable(stream, got)
        /\ {logged[i].to : i \in 1..Len(logged)} = Owed(stream, got)
    BY <1>3, MalformedIsRefused
  <2> QED
    BY <1>1, <2>1 DEF AbortsOnlyRefused, Acceptable, Owed, MarkerOK, CleanUpTo
<1> QED
  BY <1>2, <1>3 DEF Abort

\* Only Abort ends the process, and nothing happens after it.
LEMMA AbortsStep == IInv /\ AbortsOnlyRefused /\ [Next]_vars => AbortsOnlyRefused'
<1> SUFFICES ASSUME IInv, AbortsOnlyRefused, [Next]_vars
             PROVE  AbortsOnlyRefused'
  OBVIOUS
<1>1. CASE Abort
  BY <1>1, AbortRefuses
<1>2. CASE UNCHANGED vars
  BY <1>2 DEF vars, AbortsOnlyRefused, Matches, Acceptable, Owed, MarkerOK, CleanUpTo
<1>3. CASE Next /\ ~Abort
  <2>1. pc' # "aborted"
    BY <1>3 DEF Next, Step, ForceLog, StartSmall, StartFound, StartFails, LogEvent,
                LoopEnds, LoopFails, Return, Consume
  <2> QED
    BY <2>1 DEF AbortsOnlyRefused
<1> QED
  BY <1>1, <1>2, <1>3

\* The inductive invariant of a session holds for every set of streams and
\* whether or not assertions are compiled in.
THEOREM SessionInvariant == Spec => []IInv
<1>1. Init => IInv
  BY InitIInv
<1>2. IInv /\ [Next]_vars => IInv'
  BY StepKeepsIInv
<1> QED
  BY <1>1, <1>2, PTL DEF Spec

\* A session's counters and buffers stay in their ranges: no more is erased than
\* was received, nor received than was sent (log4cxxClient.cpp:43).
THEOREM SessionTyped == Spec => []TypeOK
<1>1. IInv => TypeOK
  BY DEF IInv
<1> QED
  BY <1>1, SessionInvariant, PTL

\* No byte of a peer is lost, duplicated or reordered in a session's buffer.
THEOREM SessionConserves == Spec => []Conserved
<1>1. IInv => Conserved
  BY DEF IInv
<1> QED
  BY <1>1, SessionInvariant, PTL

\* Only whole events of the stream are logged, each at most once and in the
\* order they were sent (the loop of forceLog, log4cxxClient.cpp:62-80).
THEOREM SessionLogsWholeFrames == Spec => []FramesInOrder
<1>1. IInv => FramesInOrder
  BY DEF IInv, FramesInOrder
<1> QED
  BY <1>1, SessionInvariant, PTL

\* A build with assertions ends the process only at a marker that is not the
\* default protocol's or at a byte its decoder cannot accept, and not before every
\* event that was complete by then is logged (the asserts of the loaders).
THEOREM SessionAbortsOnlyRefused == Spec => []AbortsOnlyRefused
<1>1. Init => AbortsOnlyRefused
  BY DEF Init, AbortsOnlyRefused
<1>2. IInv /\ AbortsOnlyRefused /\ [Next]_vars => AbortsOnlyRefused'
  BY AbortsStep
<1> QED
  BY <1>1, <1>2, SessionInvariant, PTL DEF Spec

\* However the stream is cut into chunks, a return of forceLog has logged every
\* permitted event received in full and says whether the stream is acceptable.
THEOREM SessionReturnsIdeal == Spec => []ReturnsIdeal
<1>1. IInv => ReturnsIdeal
  BY DEF IInv
<1> QED
  BY <1>1, SessionInvariant, PTL

-----------------------------------------------------------------------------
\* What is to be logged of the first e tokens of s, all of them acceptable.
Due(s, e) == Only(Part(s, 0, e), Permitted)

LoggedIs(due) == Len(logged) = Len(due) /\ \A i \in 1..Len(logged) : logged[i].to = due[i].id

LEMMA LoggedFromDue ==
  LoggedFromErased <=>
    /\ loggingFunc # NoFunc => loggingFunc = stream[2].kind
    /\ LoggedIs(Due(stream, erased))
<1>1. SubSeq(stream, 1, erased) = Part(stream, 0, erased)
  BY DEF Part
<1> QED
  BY <1>1 DEF LoggedFromErased, LoggedIs, Due, Permitted

LEMMA DueBegins ==
  ASSUME NEW s \in Seq(Token)
  PROVE  /\ Part(s, 0, 0) = <<>> /\ Due(s, 0) = <<>>
         /\ 2 <= Len(s) /\ MarkerOK(s) => Due(s, 2) = <<>>
<1>1. Part(s, 0, 0) = <<>>
  BY PartIs, EmptySeq
<1>2. Due(s, 0) = <<>>
  BY <1>1, OnlyEmpty DEF Due
<1>3. ASSUME 2 <= Len(s), MarkerOK(s) PROVE Due(s, 2) = <<>>
  <2> DEFINE p == Part(s, 0, 2)
  <2>1. p \in Seq(Token) /\ Len(p) = 2 /\ \A i \in 1..2 : p[i] = s[i]
    <3>1. 2 \in 0..Len(s)
      BY <1>3
    <3> QED
      BY <3>1, FrontIs
  <2> HIDE DEF p
  <2>2. \A i \in 1..Len(p) : p[i] \notin Permitted
    BY <1>3, <2>1 DEF MarkerOK, Permitted, Protocols
  <2>3. Only(p, Permitted) = <<>>
    BY <2>1, <2>2, OnlyNone
  <2> QED
    BY <2>3 DEF p, Due
<1> QED
  BY <1>1, <1>2, <1>3

\* One frame more: at most its last token is to be logged.
LEMMA DueGrows ==
  ASSUME NEW s \in Seq(Token), NEW e \in 0..Len(s), NEW n \in 1..(Len(s) - e),
         \A k \in (e + 1)..(e + n) : k < e + n => s[k].kind # "event"
  PROVE  /\ Due(s, e) \in Seq(Token)
         /\ Due(s, e + n) = IF s[e + n].kind = "event" THEN Append(Due(s, e), s[e + n])
                                                      ELSE Due(s, e)
<1> DEFINE m == e + n - 1
           p == Part(s, 0, m)
           q == Part(s, e, m)
<1>1. /\ m \in Nat /\ m + 1 = e + n /\ m + 1 <= Len(s) /\ e <= m /\ e \in Nat /\ Len(s) \in Nat
      /\ \A k \in (e + 1)..m : s[k].kind # "event"
  BY SMTT(30)
<1> HIDE DEF m
<1>2. s[m + 1] \in Token
  BY <1>1
<1>3. p \in Seq(Token) /\ Len(p) = m /\ \A i \in 1..m : p[i] = s[i]
  <2>1. m \in 0..Len(s)
    BY <1>1
  <2> QED
    BY <2>1, FrontIs
<1>4. Part(s, 0, m + 1) = Append(p, s[m + 1])
  <2> DEFINE w == Part(s, 0, m + 1)
  <2>1. w \in Seq(Token) /\ Len(w) = m + 1 /\ \A i \in 1..(m + 1) : w[i] = s[i]
    <3>1. m + 1 \in 0..Len(s)
      BY <1>1
    <3> QED
      BY <3>1, FrontIs
  <2> HIDE DEF w, p
  <2>2. /\ Append(p, s[m + 1]) \in Seq(Token) /\ Len(Append(p, s[m + 1])) = m + 1
        /\ \A i \in 1..m : Append(p, s[m + 1])[i] = p[i]
        /\ Append(p, s[m + 1])[m + 1] = s[m + 1]
    BY <1>1, <1>2, <1>3, AppendProperties
  <2>3. \A i \in 1..(m + 1) : w[i] = Append(p, s[m + 1])[i]
    BY <1>1, <1>3, <2>1, <2>2
  <2>4. w = Append(p, s[m + 1])
    BY <2>1, <2>2, <2>3, SeqEqual
  <2> QED
    BY <2>4 DEF w
<1>5. Only(p, Permitted) = Due(s, e) /\ Due(s, e) \in Seq(Token)
  <2>1. m \in 0..Len(s) /\ e \in 0..m /\ 0 \in 0..e
    BY <1>1
  <2>2. Only(p, Permitted) = Due(s, e) \o Only(q, Permitted) /\ Due(s, e) \in Seq(Token)
    BY <2>1, OnlyJoin DEF Due
  <2>3. q \in Seq(Token) /\ Len(q) = m - e /\ \A i \in 1..(m - e) : q[i] = s[e + i]
    BY <2>1, PartIs
  <2> HIDE DEF q, p
  <2>4. \A i \in 1..Len(q) : e + i \in (e + 1)..m
    BY <1>1, <2>3
  <2>5. \A i \in 1..Len(q) : q[i] \notin Permitted
    BY <1>1, <2>3, <2>4 DEF Permitted
  <2>6. Only(q, Permitted) = <<>>
    BY <2>3, <2>5, OnlyNone
  <2>7. Due(s, e) \o <<>> = Due(s, e)
    BY <2>2, ConcatEmptySeq
  <2> QED
    BY <2>2, <2>6, <2>7
<1>6. s[m + 1] \in Permitted <=> s[m + 1].kind = "event"
  BY <1>2 DEF Permitted
<1>7. Only(Append(p, s[m + 1]), Permitted) =
        IF s[m + 1] \in Permitted THEN Append(Only(p, Permitted), s[m + 1]) ELSE Only(p, Permitted)
  <2> DEFINE x == s[m + 1]
  <2>1. x \in Token /\ p \in Seq(Token)
    BY <1>2, <1>3
  <2> HIDE DEF x, p
  <2>2. Only(Append(p, x), Permitted) =
          IF x \in Permitted THEN Append(Only(p, Permitted), x) ELSE Only(p, Permitted)
    BY <2>1, OnlyAppend
  <2> QED
    BY <2>2 DEF x
<1> HIDE DEF p
<1>8. Due(s, m + 1) = Only(Append(p, s[m + 1]), Permitted)
  BY <1>4 DEF Due
<1> QED
  BY <1>1, <1>5, <1>6, <1>7, <1>8

\* The types, the places where forceLog is, and what AgreesWithOneCall needs.
OneCallInv == IInv /\ WaitsForMore /\ LoggedFromErased

LEMMA OneCallInit == Init => OneCallInv
<1> SUFFICES ASSUME Init PROVE OneCallInv
  OBVIOUS
<1>1. IInv
  BY InitIInv
<1>2. loggingFunc = NoFunc /\ erased = 0 /\ logged = <<>> /\ Len(byteBuf) = 0
  BY DEF Init
<1>3. WaitsForMore
  BY <1>2 DEF WaitsForMore, StartIncomplete
<1>4. LoggedFromErased
  <2>1. stream \in Seq(Token)
    BY StreamsAssumption DEF Init
  <2>2. Due(stream, erased) = <<>>
    BY <1>2, <2>1, DueBegins
  <2> QED
    BY <1>2, <2>2, LoggedFromDue DEF LoggedIs
<1> QED
  BY <1>1, <1>3, <1>4 DEF OneCallInv

\* A step that neither erases nor logs.
LEMMA LoggedStays ==
  ASSUME LoggedFromErased, UNCHANGED <<stream, loggingFunc, erased, logged>>
  PROVE  LoggedFromErased'
BY DEF LoggedFromErased

\* Where forceLog returns, it waits for more or has refused the stream.
LEMMA ReturnsWait ==
  ASSUME IInv, StartSmall \/ StartFails \/ LoopEnds \/ LoopFails
  PROVE  /\ WaitsForMore'
         /\ UNCHANGED <<stream, loggingFunc, erased, logged>>
<1>1. UNCHANGED <<stream, got, loggingFunc, byteBuf, erased, logged>>
  BY DEF StartSmall, StartFails, LoopEnds, LoopFails, Return
<1>2. CASE StartSmall \/ StartFails
  <2>1. /\ pc = "start" /\ loggingFunc = NoFunc /\ erased = 0
        /\ Len(byteBuf) = got /\ got \in Nat /\ \A i \in 1..got : byteBuf[i] = stream[i]
    <3>1. pc = "start" /\ loggingFunc = NoFunc /\ erased = 0
      BY <1>2 DEF IInv, TakenWhole, StartSmall, StartFails
    <3>2. got \in Nat
      BY StreamsAssumption DEF IInv, TypeOK
    <3> QED
      BY <3>1, <3>2 DEF IInv, Conserved
  <2>2. StartIncomplete(byteBuf) \/ ~MarkerOK(stream)
    <3>1. CASE StartFails
      <4>1. 2 <= got /\ byteBuf[1] = stream[1] /\ byteBuf[2] = stream[2]
        BY <2>1, <3>1 DEF StartFails, StartUnknown, StartIncomplete
      <4> QED
        BY <3>1, <4>1 DEF StartFails, StartUnknown, Matches, MarkerOK
    <3> QED
      BY <1>2, <3>1 DEF StartSmall
  <2>3. StartIncomplete(byteBuf') \/ ~MarkerOK(stream')
    BY <1>1, <2>2 DEF StartIncomplete, MarkerOK
  <2> QED
    BY <1>1, <2>1, <2>3 DEF WaitsForMore
<1>3. CASE LoopEnds \/ LoopFails
  <2>1. pc = "loop" /\ loggingFunc # NoFunc
    BY <1>3 DEF IInv, TakenWhole, LoopEnds, LoopFails
  <2>2. /\ 2 <= erased /\ got \in Nat /\ erased \in Nat /\ Len(byteBuf) = got - erased
        /\ \A k \in (erased + 1)..got :
             k - erased \in 1..Len(byteBuf) /\ stream[k] = byteBuf[k - erased]
    BY <2>1, AtLoop
  <2>3. ASSUME NEW k \in (erased + 1)..got, CleanUpTo(stream, k)
        PROVE  stream[k].kind \notin FrameEnds
    <3>1. CASE LoopEnds
      BY <2>2, <3>1 DEF LoopEnds, Incomplete, FrameEnds
    <3>2. CASE LoopFails
      <4>1. PICK n \in 1..Len(byteBuf) :
               ScanStopsAt(byteBuf, n) /\ byteBuf[n].kind \notin FrameEnds
        BY <3>2 DEF LoopFails, Malformed
      <4>2. CASE k - erased < n
        <5>1. k - erased \in 1..(n - 1)
          BY <2>2, <4>2
        <5> QED
          BY <2>2, <4>1, <5>1 DEF ScanStopsAt, FrameEnds
      <4>3. CASE ~(k - erased < n)
        <5>1. erased + n \in 3..k /\ erased + n \in (erased + 1)..got /\ (erased + n) - erased = n
          BY <2>2, <4>1, <4>3
        <5>2. stream[erased + n] = byteBuf[n]
          BY <2>2, <5>1
        <5>3. stream[erased + n].kind \notin FrameKinds
          BY <4>1, <5>2 DEF ScanStopsAt, FrameKinds
        <5> QED
          BY <2>3, <5>1, <5>3 DEF CleanUpTo
      <4> QED
        BY <4>2, <4>3
    <3> QED
      BY <1>3, <3>1, <3>2
  <2>4. \A k \in (erased' + 1)..got' : CleanUpTo(stream', k) => stream'[k].kind \notin FrameEnds
    BY <1>1, <2>3 DEF CleanUpTo
  <2> QED
    BY <1>1, <2>1, <2>4 DEF WaitsForMore
<1> QED
  BY <1>1, <1>2, <1>3

\* An event that is decoded is the next of those due.
LEMMA LogEventIsDue ==
  ASSUME OneCallInv, NEW n \in 1..Len(byteBuf), LogEvent(n)
  PROVE  LoggedFromErased'
<1> DEFINE e == [from |-> byteBuf[1].id, to |-> byteBuf[n].id]
<1>1. /\ IInv /\ LoggedFromErased
      /\ pc = "loop" /\ stream' = stream /\ erased' = erased + n /\ loggingFunc' = loggingFunc
      /\ byteBuf[n].kind \in FrameEnds /\ \A m \in 1..(n - 1) : byteBuf[m].kind = "body"
      /\ logged' = IF byteBuf[n].kind = "event" THEN Append(logged, e) ELSE logged
  BY DEF OneCallInv, LogEvent, Consume, EventOfLength, ScanStopsAt
<1>2. /\ Len(byteBuf) = got - erased /\ got \in Nat /\ erased \in Nat /\ erased <= got
      /\ \A k \in (erased + 1)..got :
           k - erased \in 1..Len(byteBuf) /\ stream[k] = byteBuf[k - erased]
  BY <1>1, AtLoop
<1>3. stream \in Seq(Token) /\ Len(stream) \in Nat /\ got <= Len(stream) /\ logged \in Seq(Event)
  BY <1>1, StreamsAssumption DEF IInv, TypeOK
<1>4. e \in Event
  <2>1. byteBuf \in Seq(Token) /\ 1 \in 1..Len(byteBuf)
    BY <1>1, <1>2 DEF IInv, TypeOK
  <2>2. byteBuf[1] \in Token /\ byteBuf[n] \in Token
    BY <2>1
  <2> QED
    BY <2>2 DEF Token, Event
<1>5. stream[erased + n] = byteBuf[n]
  <2>1. erased + n \in (erased + 1)..got /\ (erased + n) - erased = n
    BY <1>2
  <2> QED
    BY <1>2, <2>1
<1>6. \A k \in (erased + 1)..(erased + n) : k < erased + n => stream[k].kind # "event"
  <2>1. ASSUME NEW k \in (erased + 1)..(erased + n), k < erased + n
        PROVE  stream[k].kind # "event"
    <3>1. k - erased \in 1..(n - 1) /\ k \in (erased + 1)..got
      BY <1>2, <2>1
    <3> QED
      BY <1>1, <1>2, <3>1
  <2> QED
    BY <2>1
<1>7. /\ Due(stream, erased) \in Seq(Token)
      /\ Due(stream, erased + n) =
           IF stream[erased + n].kind = "event" THEN Append(Due(stream, erased), stream[erased + n])
                                                ELSE Due(stream, erased)
  <2>1. erased \in 0..Len(stream) /\ n \in 1..(Len(stream) - erased)
    BY <1>2, <1>3
  <2> QED
    BY <1>3, <1>6, <2>1, DueGrows
<1>8. /\ loggingFunc # NoFunc => loggingFunc = stream[2].kind
      /\ LoggedIs(Due(stream, erased))
  BY <1>1, LoggedFromDue
<1>9. LoggedIs(Due(stream, erased))'
  <2> DEFINE d == Due(stream, erased)
             t == byteBuf[n]
  <2>1. d \in Seq(Token) /\ t \in Token /\ t.id = e.to
    <3>1. byteBuf \in Seq(Token)
      BY <1>1 DEF IInv, TypeOK
    <3> QED
      BY <1>7, <3>1
  <2>2. Len(logged) = Len(d) /\ \A i \in 1..Len(logged) : logged[i].to = d[i].id
    BY <1>8 DEF LoggedIs
  <2>3. CASE t.kind = "event"
    <3>1. logged' = Append(logged, e) /\ Due(stream, erased + n) = Append(d, t)
      BY <1>1, <1>5, <1>7, <2>3
    <3> HIDE DEF d, t, e
    <3>2. /\ Len(Append(d, t)) = Len(d) + 1 /\ Append(d, t)[Len(d) + 1] = t
          /\ \A i \in 1..Len(d) : Append(d, t)[i] = d[i]
      BY <2>1
    <3>3. /\ Len(Append(logged, e)) = Len(logged) + 1 /\ Append(logged, e)[Len(logged) + 1] = e
          /\ \A i \in 1..Len(logged) : Append(logged, e)[i] = logged[i]
      BY <1>3, <1>4
    <3>4. Len(logged) \in Nat
      BY <1>3
    <3>5. /\ Len(logged') = Len(Append(d, t))
          /\ \A i \in 1..Len(logged') : logged'[i].to = Append(d, t)[i].id
      BY <2>1, <2>2, <3>1, <3>2, <3>3, <3>4
    <3> QED
      BY <1>1, <3>1, <3>5 DEF LoggedIs, Due
  <2>4. CASE t.kind # "event"
    <3>1. logged' = logged /\ Due(stream, erased + n) = d
      BY <1>1, <1>5, <1>7, <2>4
    <3> QED
      BY <1>1, <2>2, <3>1 DEF LoggedIs, Due
  <2> QED
    BY <2>3, <2>4
<1>10. (/\ loggingFunc # NoFunc => loggingFunc = stream[2].kind
       /\ LoggedIs(Due(stream, erased)))'
  BY <1>1, <1>8, <1>9
<1> QED
  BY <1>10, LoggedFromDue, PTL

LEMMA StartFoundIsDue ==
  ASSUME OneCallInv, NEW p \in Protocols, StartFound(p)
  PROVE  LoggedFromErased'
<1>1. /\ IInv /\ loggingFunc = NoFunc /\ erased = 0 /\ logged = <<>>
      /\ 2 <= Len(byteBuf) /\ Matches(byteBuf, p)
      /\ loggingFunc' = p /\ erased' = 2 /\ logged' = logged /\ stream' = stream
  <2>1. IInv /\ loggingFunc = NoFunc
    BY DEF OneCallInv, IInv, TakenWhole, StartFound
  <2>2. erased = 0 /\ logged = <<>>
    BY <2>1 DEF IInv, TakenWhole
  <2>3. Len(byteBuf) \in Nat /\ 2 <= Len(byteBuf)
    BY <2>1 DEF IInv, TypeOK, StartFound, StartIncomplete
  <2> QED
    BY <2>1, <2>2, <2>3 DEF StartFound, Consume
<1>2. /\ stream \in Seq(Token) /\ 2 <= Len(stream)
      /\ stream[1] = byteBuf[1] /\ stream[2] = byteBuf[2]
  <2>1. stream \in Seq(Token) /\ got \in Nat /\ got <= Len(stream) /\ Len(byteBuf) = got
    BY <1>1, StreamsAssumption DEF IInv, TypeOK, Conserved
  <2> QED
    BY <1>1, <2>1 DEF IInv, Conserved
<1>3. MarkerOK(stream) /\ stream[2].kind = p
  BY <1>1, <1>2 DEF Matches, MarkerOK
<1>4. Due(stream, 2) = <<>>
  BY <1>2, <1>3, DueBegins
<1>5. (/\ loggingFunc # NoFunc => loggingFunc = stream[2].kind
       /\ LoggedIs(Due(stream, erased)))'
  BY <1>1, <1>3, <1>4 DEF LoggedIs
<1> QED
  BY <1>5, LoggedFromDue, PTL

LEMMA OneCallStep == OneCallInv /\ [Next]_vars => OneCallInv'
<1> SUFFICES ASSUME OneCallInv, [Next]_vars
             PROVE  OneCallInv'
  OBVIOUS
<1>1. IInv /\ IInv' /\ WaitsForMore /\ LoggedFromErased
  BY StepKeepsIInv DEF OneCallInv
<1> SUFFICES WaitsForMore' /\ LoggedFromErased'
  BY <1>1 DEF OneCallInv
<1>2. ASSUME NEW n \in 1..Len(stream), ForceLog(n)
      PROVE  WaitsForMore' /\ LoggedFromErased'
  <2>1. pc' # "idle" /\ UNCHANGED <<stream, loggingFunc, erased, logged>>
    BY <1>2 DEF ForceLog
  <2> QED
    BY <1>1, <2>1, LoggedStays DEF WaitsForMore
<1>3. CASE StartSmall \/ StartFails \/ LoopEnds \/ LoopFails
  BY <1>1, <1>3, ReturnsWait, LoggedStays
<1>4. ASSUME NEW p \in Protocols, StartFound(p)
      PROVE  WaitsForMore' /\ LoggedFromErased'
  <2>1. pc' # "idle"
    BY <1>4 DEF StartFound, Consume
  <2> QED
    BY <1>4, <2>1, StartFoundIsDue DEF WaitsForMore
<1>5. ASSUME NEW n \in 1..Len(byteBuf), LogEvent(n)
      PROVE  WaitsForMore' /\ LoggedFromErased'
  <2>1. pc' # "idle"
    BY <1>5 DEF LogEvent, Consume
  <2> QED
    BY <1>5, <2>1, LogEventIsDue DEF WaitsForMore
<1>6. CASE Abort
  <2>1. pc' # "idle" /\ UNCHANGED <<stream, loggingFunc, erased, logged>>
    BY <1>6 DEF Abort
  <2> QED
    BY <1>1, <2>1, LoggedStays DEF WaitsForMore
<1>7. CASE UNCHANGED vars
  <2>1. UNCHANGED <<stream, loggingFunc, erased, logged, pc, byteBuf, got>>
    BY <1>7 DEF vars
  <2>2. WaitsForMore'
    BY <1>1, <2>1 DEF WaitsForMore, StartIncomplete, MarkerOK, CleanUpTo
  <2> QED
    BY <1>1, <2>1, <2>2, LoggedStays
<1> QED
  BY <1>2, <1>3, <1>4, <1>5, <1>6, <1>7 DEF Next, Step

-----------------------------------------------------------------------------
\* What has been received and not erased is what Held keeps, ...
LEMMA IdleIsHeld ==
  ASSUME OneCallInv, pc = "idle"
  PROVE  [func |-> loggingFunc, buf |-> byteBuf] = Held(stream, got)
<1>1. /\ IInv /\ WaitsForMore /\ LoggedFromErased
      /\ stream \in Seq(Token) /\ got \in 0..Len(stream) /\ erased \in 0..got
      /\ byteBuf \in Seq(Token) /\ Len(byteBuf) = got - erased
      /\ \A i \in 1..Len(byteBuf) : byteBuf[i] = stream[erased + i]
  BY StreamsAssumption DEF OneCallInv, IInv, TypeOK, Conserved
<1>2. byteBuf = Part(stream, erased, got)
  <2>1. /\ Part(stream, erased, got) \in Seq(Token) /\ Len(Part(stream, erased, got)) = got - erased
        /\ \A i \in 1..(got - erased) : Part(stream, erased, got)[i] = stream[erased + i]
    BY <1>1, PartIs
  <2>2. \A i \in 1..Len(byteBuf) : byteBuf[i] = Part(stream, erased, got)[i]
    BY <1>1, <2>1
  <2> QED
    BY <1>1, <2>1, <2>2, SeqEqual
<1>3. CASE loggingFunc = NoFunc
  <2>1. erased = 0 /\ (got < 2 \/ ~MarkerOK(stream))
    BY <1>1, <1>3 DEF IInv, TakenWhole, WaitsForMore, StartIncomplete
  <2> QED
    BY <1>2, <1>3, <2>1 DEF Held
<1>4. CASE loggingFunc # NoFunc
  <2>1. /\ 2 <= erased /\ MarkerOK(stream) /\ CleanUpTo(stream, erased)
        /\ erased = 2 \/ stream[erased].kind \in FrameEnds
        /\ loggingFunc = stream[2].kind
        /\ \A k \in (erased + 1)..got : CleanUpTo(stream, k) => stream[k].kind \notin FrameEnds
    BY <1>1, <1>4 DEF IInv, TakenWhole, WaitsForMore, LoggedFromErased
  <2> DEFINE top == LastEnd(stream, got)
  <2>2. /\ top \in EndsIn(stream, got) \cup {2} /\ top \in Nat /\ 2 <= top
        /\ \A k \in EndsIn(stream, got) \cup {2} : k <= top
    BY <1>1, LastEndIs
  <2>3. erased \in EndsIn(stream, got) \cup {2} /\ erased \in Nat /\ got \in Nat
    BY <1>1, <2>1 DEF EndsIn
  <2>4. \A k \in EndsIn(stream, got) \cup {2} : k <= erased
    BY <1>1, <2>1, <2>3 DEF EndsIn
  <2> HIDE DEF top
  <2>5. top = erased
    BY <2>2, <2>3, <2>4
  <2>6. ~(got < 2)
    BY <1>1, <2>1
  <2> QED
    BY <1>2, <2>1, <2>5, <2>6 DEF Held, top
<1> QED
  BY <1>3, <1>4

\* ... and what has been logged is what is owed for all that was received.
LEMMA IdleHasLogged ==
  ASSUME OneCallInv, pc = "idle", NEW K, Marks(K, stream, got)
  PROVE  LoggedIs(Only(Part(stream, 0, got), K))
<1>1. /\ IInv /\ WaitsForMore /\ LoggedFromErased
      /\ stream \in Seq(Token) /\ got \in 0..Len(stream) /\ erased \in 0..got
      /\ Len(stream) \in Nat /\ Len(byteBuf) = got - erased
  BY StreamsAssumption DEF OneCallInv, IInv, TypeOK, Conserved
<1>2. LoggedIs(Due(stream, erased))
  BY <1>1, LoggedFromDue
<1>3. CASE loggingFunc = NoFunc
  <2>1. erased = 0 /\ (got < 2 \/ ~MarkerOK(stream))
    BY <1>1, <1>3 DEF IInv, TakenWhole, WaitsForMore, StartIncomplete
  <2>2. Owed(stream, got) = {}
    BY <1>1, <2>1 DEF Owed
  <2>3. 0 \in 0..got /\ \A k \in (0 + 1)..got : k \notin Owed(stream, got)
    BY <1>1, <2>2
  <2>4. Only(Part(stream, 0, got), K) = <<>>
    BY <1>1, <2>3, NoneOwed
  <2>5. Due(stream, erased) = <<>>
    BY <1>1, <2>1, DueBegins
  <2> QED
    BY <1>2, <2>4, <2>5
<1>4. CASE loggingFunc # NoFunc
  <2>1. /\ 2 <= erased /\ MarkerOK(stream) /\ CleanUpTo(stream, erased)
        /\ \A k \in (erased + 1)..got : CleanUpTo(stream, k) => stream[k].kind \notin FrameEnds
    BY <1>1, <1>4 DEF IInv, TakenWhole, WaitsForMore
  <2>2. /\ Only(Part(stream, 0, got), K) =
             Only(Part(stream, 0, erased), K) \o Only(Part(stream, erased, got), K)
        /\ Only(Part(stream, 0, erased), K) \in Seq(Token)
    <3>1. 0 \in 0..erased
      BY <1>1
    <3> QED
      BY <1>1, <3>1, OnlyJoin
  <2>3. Only(Part(stream, erased, got), K) = <<>>
    <3>1. \A k \in (erased + 1)..got : k \notin Owed(stream, got)
      BY <2>1 DEF Owed, FrameEnds
    <3> QED
      BY <1>1, <3>1, NoneOwed
  <2>4. Only(Part(stream, 0, erased), K) = Due(stream, erased)
    <3> DEFINE p == Part(stream, 0, erased)
    <3>1. p \in Seq(Token) /\ Len(p) = erased /\ \A i \in 1..erased : p[i] = stream[i]
      <4>1. erased \in 0..Len(stream)
        BY <1>1
      <4> QED
        BY <1>1, <4>1, FrontIs
    <3> HIDE DEF p
    <3>2. ASSUME NEW i \in 1..Len(p)
          PROVE  p[i] \in Permitted <=> p[i] \in K
      <4>1. /\ i \in 1..erased /\ i \in 1..got /\ i \in 1..Len(stream)
            /\ p[i] = stream[i] /\ stream[i] \in Token
        BY <1>1, <3>1
      <4>2. i \in Owed(stream, got) <=> stream[i].kind = "event"
        <5>1. CASE i >= 3
          <6>1. \A m \in 3..i : m \in 3..erased
            BY <1>1, <4>1
          <6>2. CleanUpTo(stream, i)
            BY <2>1, <6>1 DEF CleanUpTo
          <6> QED
            BY <2>1, <4>1, <5>1, <6>2 DEF Owed
        <5>2. CASE i = 1 \/ i = 2
          <6>1. stream[i].kind # "event"
            BY <2>1, <5>2 DEF MarkerOK, Protocols
          <6> QED
            BY <6>1, <5>2 DEF Owed
        <5> QED
          BY <4>1, <5>1, <5>2
      <4> QED
        BY <4>1, <4>2 DEF Permitted, Marks
    <3>3. Only(p, Permitted) = Only(p, K)
      BY <3>1, <3>2, OnlySame
    <3> QED
      BY <3>3 DEF p, Due
  <2>5. Only(Part(stream, 0, got), K) = Due(stream, erased)
    BY <2>2, <2>3, <2>4, ConcatEmptySeq
  <2> QED
    BY <1>2, <2>5
<1> QED
  BY <1>3, <1>4

LEMMA OneCallSuffices == OneCallInv => AgreesWithOneCall
<1> SUFFICES ASSUME OneCallInv, pc = "idle"
             PROVE  LET one == ForceLogResult(FreshSession, SubSeq(stream, 1, got)) IN
                    /\ one.session = [func |-> loggingFunc, buf |-> byteBuf]
                    /\ one.ok = result
                    /\ [i \in 1..Len(one.events) |-> one.events[i].id] =
                         [i \in 1..Len(logged) |-> logged[i].to]
  BY DEF AgreesWithOneCall
<1> DEFINE K == {stream[k] : k \in Owed(stream, got)}
           one == ForceLogResult(FreshSession, SubSeq(stream, 1, got))
<1>1. /\ stream \in Seq(Token) /\ got \in 0..Len(stream)
      /\ \A i \in 1..Len(stream) : stream[i].id = i
      /\ result \in BOOLEAN /\ (result <=> Acceptable(stream, got))
  BY StreamsAssumption DEF OneCallInv, IInv, TypeOK, ReturnsIdeal
<1>2. Marks(K, stream, got)
  <2>1. Owed(stream, got) \subseteq 1..Len(stream)
    BY <1>1 DEF Owed
  <2>2. ASSUME NEW k \in 1..Len(stream), stream[k] \in K
        PROVE  k \in Owed(stream, got)
    BY <1>1, <2>1, <2>2
  <2> QED
    BY <2>2 DEF Marks
<1> HIDE DEF K
<1>3. FreshSession = Held(stream, 0)
  BY <1>1, DueBegins DEF FreshSession, Held
<1>4. SubSeq(stream, 1, got) = Part(stream, 0, got)
  BY DEF Part
<1>5. /\ one.session = Held(stream, got)
      /\ one.events = Only(Part(stream, 0, got), K)
      /\ one.ok <=> Acceptable(stream, got)
  <2>1. 0 \in 0..got
    BY <1>1
  <2>2. got \in 0..Len(stream) /\ stream \in Seq(Token)
    BY <1>1
  <2>3. one = ForceLogResult(Held(stream, 0), Part(stream, 0, got))
    BY <1>3, <1>4
  <2> HIDE DEF one
  <2> QED
    BY <1>2, <2>1, <2>2, <2>3, SessionAfter
<1>6. one.ok \in BOOLEAN
  BY DEF ForceLogResult, DecodeAll, Outcome
<1> HIDE DEF one
<1>7. one.session = [func |-> loggingFunc, buf |-> byteBuf]
  BY <1>5, IdleIsHeld
<1>8. one.ok = result
  BY <1>1, <1>5, <1>6
<1>9. LoggedIs(one.events)
  BY <1>2, <1>5, IdleHasLogged
<1>10. [i \in 1..Len(one.events) |-> one.events[i].id] = [i \in 1..Len(logged) |-> logged[i].to]
  BY <1>9 DEF LoggedIs
<1> QED
  BY <1>7, <1>8, <1>10 DEF one

\* However recv cuts a stream, calling forceLog with each of its chunks leaves the
\* session, logs the events and returns the value that one call with all the bytes
\* would (log4cxxClient.cpp:41-80): the loop of module Client is the operator of
\* module Session that the servers are built from, for every stream.
THEOREM SessionAgreesWithOneCall == Spec => []AgreesWithOneCall
<1>1. OneCallInv => AgreesWithOneCall
  BY OneCallSuffices
<1> QED
  BY <1>1, OneCallInit, OneCallStep, PTL DEF Spec

-----------------------------------------------------------------------------
\* A byte is a natural number.
LEMMA ByteIsNat == \A b \in Byte : b \in Nat
BY DEF Byte

\* A text has a length, and bytes up to it.
LEMMA TextProps ==
  ASSUME NEW t \in Text
  PROVE  Len(t) \in Nat /\ \A i \in 1..Len(t) : t[i] \in Byte /\ t[i] \in Nat
<1>1. t \in Seq(Byte)
  BY DEF Text
<1>2. Len(t) \in Nat /\ \A i \in 1..Len(t) : t[i] \in Byte
  BY <1>1
<1> QED
  BY <1>2, ByteIsNat

\* A function that adds up the first n bytes to a number.
AddsUp(f, first, bytes, n) ==
  f = [i \in 0..n |-> IF i = 0 THEN first ELSE 256 * f[i - 1] + bytes[i]]

\* There is such a function for every n.
LEMMA AdderExists ==
  ASSUME NEW first, NEW bytes
  PROVE  \A n \in Nat : \E f : AddsUp(f, first, bytes, n)
<1> DEFINE S == {n \in Nat : \E f : AddsUp(f, first, bytes, n)}
<1>1. 0 \in S
  <2> DEFINE f == [i \in 0..0 |-> first]
  <2>1. AddsUp(f, first, bytes, 0)
    BY DEF AddsUp
  <2> QED
    BY <2>1
<1>2. ASSUME NEW n \in Nat, n \in S
      PROVE  n + 1 \in S
  <2>1. PICK f : AddsUp(f, first, bytes, n)
    BY <1>2
  <2> DEFINE next == 256 * f[n] + bytes[n + 1]
             g == [i \in 0..(n + 1) |-> IF i = n + 1 THEN next ELSE f[i]]
  <2> HIDE DEF next
  <2>2. \A i \in 0..n : g[i] = f[i]
    OBVIOUS
  <2>3. ASSUME NEW i \in 0..(n + 1)
        PROVE  g[i] = IF i = 0 THEN first ELSE 256 * g[i - 1] + bytes[i]
    <3>1. CASE i = n + 1
      <4>1. g[i] = next /\ i # 0 /\ g[i - 1] = f[n]
        BY <2>2, <3>1
      <4> HIDE DEF g
      <4> QED
        BY <3>1, <4>1 DEF next
    <3>2. CASE i # n + 1
      <4>1. i \in 0..n /\ (i # 0 => i - 1 \in 0..n)
        BY <3>2
      <4>2. g[i] = f[i] /\ (i # 0 => g[i - 1] = f[i - 1])
        BY <2>2, <4>1
      <4>3. f[i] = IF i = 0 THEN first ELSE 256 * f[i - 1] + bytes[i]
        BY <2>1, <4>1 DEF AddsUp
      <4> HIDE DEF g
      <4> QED
        BY <4>2, <4>3
    <3> QED
      BY <3>1, <3>2
  <2>4. g = [i \in 0..(n + 1) |-> g[i]]
    OBVIOUS
  <2> HIDE DEF g
  <2>5. AddsUp(g, first, bytes, n + 1)
    BY <2>3, <2>4 DEF AddsUp
  <2> QED
    BY <2>5
<1> HIDE DEF S
<1>3. Nat \subseteq S
  BY <1>1, <1>2, Induction
<1> QED
  BY <1>3 DEF S

\* Number256 is the last value of one: its recursive function is of this kind.
LEMMA NumberIs ==
  ASSUME NEW first, NEW bytes, Len(bytes) \in Nat
  PROVE  \E f : AddsUp(f, first, bytes, Len(bytes)) /\ Number256(first, bytes) = f[Len(bytes)]
<1>1. \E f : AddsUp(f, first, bytes, Len(bytes))
  BY AdderExists
<1> QED
  BY <1>1 DEF Number256, AddsUp

\* A number is an integer, and a natural number if it has no sign.
LEMMA NumberTyped ==
  ASSUME NEW first \in Int, NEW bytes \in Text
  PROVE  /\ Number256(first, bytes) \in Int
         /\ first \in Nat => Number256(first, bytes) \in Nat
<1> DEFINE n == Len(bytes)
<1>1. n \in Nat /\ \A i \in 1..n : bytes[i] \in Nat
  BY TextProps
<1>2. PICK f : AddsUp(f, first, bytes, n) /\ Number256(first, bytes) = f[n]
  BY <1>1, NumberIs
<1> HIDE DEF n
<1> DEFINE S == {k \in Nat : k <= n => f[k] \in Int /\ (first \in Nat => f[k] \in Nat)}
<1>3. 0 \in S
  BY <1>1, <1>2 DEF AddsUp
<1>4. ASSUME NEW k \in Nat, k \in S
      PROVE  k + 1 \in S
  <2> SUFFICES ASSUME k + 1 <= n
               PROVE  f[k + 1] \in Int /\ (first \in Nat => f[k + 1] \in Nat)
    OBVIOUS
  <2>1. f[k + 1] = 256 * f[k] + bytes[k + 1] /\ bytes[k + 1] \in Nat
    BY <1>1, <1>2 DEF AddsUp
  <2>2. f[k] \in Int /\ (first \in Nat => f[k] \in Nat)
    BY <1>1, <1>4
  <2> QED
    BY <2>1, <2>2
<1> HIDE DEF S
<1>5. Nat \subseteq S
  BY <1>3, <1>4, Induction
<1> QED
  BY <1>1, <1>2, <1>5 DEF S

\* A number without a sign is a natural number, ...
LEMMA UnsignedIsNat ==
  ASSUME NEW bytes \in Text
  PROVE  Unsigned(bytes) \in Nat
BY NumberTyped DEF Unsigned

\* ... and one with a sign an integer, if it has a byte to give it.
LEMMA SignedIsInt ==
  ASSUME NEW bytes \in Text, Len(bytes) # 0
  PROVE  Signed(bytes) \in Int
<1>1. bytes[1] \in Byte /\ Tail(bytes) \in Text
  BY DEF Text
<1> DEFINE first == IF bytes[1] < 128 THEN bytes[1] ELSE bytes[1] - 256
<1>2. first \in Int
  <2>1. bytes[1] \in Int
    BY <1>1, ByteIsNat
  <2> QED
    BY <2>1
<1> HIDE DEF first
<1>3. Number256(first, Tail(bytes)) \in Int
  BY <1>1, <1>2, NumberTyped
<1> QED
  BY <1>3 DEF Signed, first

\* Of as many bytes as a short, an int or a long has.
LEMMA NumberOfFour ==
  ASSUME NEW first \in Int, NEW b \in Text, Len(b) = 4
  PROVE  Number256(first, b) = 256 * (256 * (256 * (256 * first + b[1]) + b[2]) + b[3]) + b[4]
<1>1. PICK f : AddsUp(f, first, b, Len(b)) /\ Number256(first, b) = f[Len(b)]
  <2>1. Len(b) \in Nat
    OBVIOUS
  <2> QED
    BY <2>1, NumberIs
<1>2. /\ f[0] = first /\ f[1] = 256 * f[0] + b[1] /\ f[2] = 256 * f[1] + b[2]
      /\ f[3] = 256 * f[2] + b[3] /\ f[4] = 256 * f[3] + b[4]
  BY <1>1 DEF AddsUp
<1> QED
  BY <1>1, <1>2

Passes(r, m, least) ==
  /\ r.is = "ok" => r.pos \in Nat /\ least <= r.pos
  /\ r.is # "small" => m = r

Reads(r, m, least, buf) == Passes(r, m, least) /\ (r.is = "ok" => r.pos <= Len(buf))

\* The bytes read are as many as were asked for and were all there.
LEMMA ReadBytesValue ==
  ASSUME NEW buf \in Text, NEW pos \in Nat, NEW n \in Nat, ReadBytes(buf, pos, n).is = "ok"
  PROVE  /\ ReadBytes(buf, pos, n).value \in Text
         /\ Len(ReadBytes(buf, pos, n).value) = n
         /\ pos + n <= Len(buf)
<1> DEFINE text == SubSeq(buf, pos + 1, pos + n)
<1>1. HasRoom(buf, pos, n) /\ ReadBytes(buf, pos, n) = Ok(text, pos + n)
  BY DEF ReadBytes, Small
<1>2. pos + n <= Len(buf) /\ Len(buf) \in Nat
  BY <1>1, TextProps DEF HasRoom
<1>3. text \in Text /\ Len(text) = n
  BY <1>2 DEF Text
<1> HIDE DEF text
<1> QED
  BY <1>1, <1>2, <1>3 DEF Ok

\* The readers of bytes and texts, one after the other: what each has read
\* it reads in a longer buffer too, having gone on at least as far as stated.
LEMMA ReadBytesReads ==
  ASSUME NEW buf \in Text, NEW more \in Text, NEW pos \in Nat, NEW n \in Nat
  PROVE  Reads(ReadBytes(buf, pos, n), ReadBytes(buf \o more, pos, n), pos + n, buf)
<1> DEFINE m == buf \o more
           text == SubSeq(buf, pos + 1, pos + n)
<1>1. /\ m \in Text /\ Len(m) = Len(buf) + Len(more) /\ Len(buf) \in Nat /\ Len(more) \in Nat
      /\ \A i \in 1..Len(buf) : m[i] = buf[i]
  BY DEF Text
<1> HIDE DEF m
<1>2. CASE HasRoom(buf, pos, n)
  <2>1. pos + n <= Len(buf)
    BY <1>1, <1>2 DEF HasRoom
  <2>2. HasRoom(m, pos, n)
    BY <1>1, <2>1 DEF HasRoom
  <2>3. text = SubSeq(m, pos + 1, pos + n)
    BY <1>1, <2>1 DEF Text
  <2>4. ReadBytes(buf, pos, n) = Ok(text, pos + n) /\ ReadBytes(m, pos, n) = Ok(text, pos + n)
    BY <1>2, <2>2, <2>3 DEF ReadBytes
  <2> HIDE DEF text
  <2> QED
    BY <2>1, <2>4 DEF Reads, Passes, Ok, m
<1>3. CASE ~HasRoom(buf, pos, n)
  BY <1>3 DEF ReadBytes, Reads, Passes, Small
<1> QED
  BY <1>2, <1>3

\* One byte.
LEMMA ReadByteReads ==
  ASSUME NEW buf \in Text, NEW more \in Text, NEW pos \in Nat
  PROVE  Reads(ReadByte(buf, pos), ReadByte(buf \o more, pos), pos + 1, buf)
<1> DEFINE r == ReadBytes(buf, pos, 1)
           m == ReadBytes(buf \o more, pos, 1)
<1>1. Reads(r, m, pos + 1, buf)
  BY ReadBytesReads
<1>2. /\ ReadByte(buf, pos) = IF r.is = "ok" THEN Ok(r.value[1], r.pos) ELSE r
      /\ ReadByte(buf \o more, pos) = IF m.is = "ok" THEN Ok(m.value[1], m.pos) ELSE m
  BY SMT DEF ReadByte, Then
<1> HIDE DEF r, m
<1> QED
  BY <1>1, <1>2 DEF Reads, Passes, Ok

\* A length and a text.
LEMMA ReadTextReads ==
  ASSUME NEW buf \in Text, NEW more \in Text, NEW pos \in Nat, NEW width \in Nat
  PROVE  Reads(ReadText(buf, pos, width), ReadText(buf \o more, pos, width), pos + width, buf)
<1> DEFINE r == ReadBytes(buf, pos, width)
           n == Unsigned(r.value)
<1>1. Reads(r, ReadBytes(buf \o more, pos, width), pos + width, buf)
  BY ReadBytesReads
<1>2. r.is = "ok" => n \in Nat
  BY ReadBytesValue, UnsignedIsNat
<1>3. r.is = "ok" => Reads(ReadBytes(buf, r.pos, n), ReadBytes(buf \o more, r.pos, n), r.pos + n, buf)
  <2> HIDE DEF r, n
  <2> QED
    BY <1>1, <1>2, ReadBytesReads DEF Reads, Passes
<1> QED
  BY <1>1, <1>2, <1>3 DEF ReadText, Then, Reads, Passes

\* The numbers of two, four and eight bytes.
LEMMA NumbersRead ==
  ASSUME NEW buf \in Text, NEW more \in Text, NEW pos \in Nat
  PROVE  /\ Reads(ReadShort(buf, pos), ReadShort(buf \o more, pos), pos + 2, buf)
         /\ Reads(ReadInt(buf, pos), ReadInt(buf \o more, pos), pos + 4, buf)
         /\ Reads(ReadLong(buf, pos), ReadLong(buf \o more, pos), pos + 8, buf)
         /\ ReadShort(buf, pos).is = "ok" => ReadShort(buf, pos).value \in Int
         /\ ReadInt(buf, pos).is = "ok" => ReadInt(buf, pos).value \in Int
<1> DEFINE m == buf \o more
<1>1. ASSUME NEW n \in Nat, n # 0, NEW r, NEW s, NEW R, NEW M,
             r = ReadBytes(buf, pos, n), s = ReadBytes(m, pos, n),
             R = IF r.is = "ok" THEN Ok(Signed(r.value), r.pos) ELSE r,
             M = IF s.is = "ok" THEN Ok(Signed(s.value), s.pos) ELSE s
      PROVE  Reads(R, M, pos + n, buf) /\ (R.is = "ok" => R.value \in Int)
  <2>1. Reads(r, s, pos + n, buf)
    BY <1>1, ReadBytesReads
  <2>2. r.is = "ok" => Signed(r.value) \in Int
    <3>1. r.is = "ok" => r.value \in Text /\ Len(r.value) = n
      BY <1>1, ReadBytesValue
    <3>2. r.is = "ok" => Len(r.value) # 0
      BY <1>1, <3>1
    <3> QED
      BY <3>1, <3>2, SignedIsInt
  <2> QED
    BY <1>1, <2>1, <2>2 DEF Reads, Passes, Ok
<1>2. /\ Reads(ReadShort(buf, pos), ReadShort(m, pos), pos + 2, buf)
      /\ ReadShort(buf, pos).is = "ok" => ReadShort(buf, pos).value \in Int
  <2> DEFINE r == ReadBytes(buf, pos, 2)
             s == ReadBytes(m, pos, 2)
  <2>1. /\ ReadShort(buf, pos) = IF r.is = "ok" THEN Ok(Signed(r.value), r.pos) ELSE r
        /\ ReadShort(m, pos) = IF s.is = "ok" THEN Ok(Signed(s.value), s.pos) ELSE s
    BY SMT DEF ReadShort, Then
  <2> HIDE DEF m
  <2> QED
    BY <1>1, <2>1
<1>3. /\ Reads(ReadInt(buf, pos), ReadInt(m, pos), pos + 4, buf)
      /\ ReadInt(buf, pos).is = "ok" => ReadInt(buf, pos).value \in Int
  <2> DEFINE r == ReadBytes(buf, pos, 4)
             s == ReadBytes(m, pos, 4)
  <2>1. /\ ReadInt(buf, pos) = IF r.is = "ok" THEN Ok(Signed(r.value), r.pos) ELSE r
        /\ ReadInt(m, pos) = IF s.is = "ok" THEN Ok(Signed(s.value), s.pos) ELSE s
    BY SMT DEF ReadInt, Then
  <2> HIDE DEF m
  <2> QED
    BY <1>1, <2>1
<1>4. Reads(ReadLong(buf, pos), ReadLong(m, pos), pos + 8, buf)
  <2> DEFINE r == ReadBytes(buf, pos, 8)
             s == ReadBytes(m, pos, 8)
  <2>1. /\ ReadLong(buf, pos) = IF r.is = "ok" THEN Ok(Signed(r.value), r.pos) ELSE r
        /\ ReadLong(m, pos) = IF s.is = "ok" THEN Ok(Signed(s.value), s.pos) ELSE s
    BY SMT DEF ReadLong, Then
  <2> HIDE DEF m
  <2> QED
    BY <1>1, <2>1
<1> QED
  BY <1>2, <1>3, <1>4

\* Bytes that can only be these.
LEMMA ReadConstantReads ==
  ASSUME NEW buf \in Text, NEW more \in Text, NEW pos \in Nat, NEW bytes, Len(bytes) \in Nat
  PROVE  Reads(ReadConstant(buf, pos, bytes), ReadConstant(buf \o more, pos, bytes), pos + Len(bytes), buf)
<1> DEFINE r == ReadBytes(buf, pos, Len(bytes))
           m == ReadBytes(buf \o more, pos, Len(bytes))
<1>1. Reads(r, m, pos + Len(bytes), buf)
  BY ReadBytesReads
<1>2. /\ ReadConstant(buf, pos, bytes) =
           IF r.is = "ok" THEN IF r.value = bytes THEN Ok(r.value, r.pos) ELSE Invalid ELSE r
      /\ ReadConstant(buf \o more, pos, bytes) =
           IF m.is = "ok" THEN IF m.value = bytes THEN Ok(m.value, m.pos) ELSE Invalid ELSE m
  BY SMT DEF ReadConstant, Then
<1> HIDE DEF r, m
<1> QED
  BY <1>1, <1>2 DEF Reads, Passes, Ok, Invalid

\* A type code and a text.
LEMMA ReadStringReads ==
  ASSUME NEW buf \in Text, NEW more \in Text, NEW pos \in Nat
  PROVE  Reads(ReadString(buf, pos), ReadString(buf \o more, pos), pos + 3, buf)
<1> DEFINE r == ReadByte(buf, pos)
           m == ReadByte(buf \o more, pos)
<1>1. Reads(r, m, pos + 1, buf)
  BY ReadByteReads
<1>2. r.is = "ok" => Reads(ReadText(buf, r.pos, 2), ReadText(buf \o more, r.pos, 2), r.pos + 2, buf)
  <2> HIDE DEF r, m
  <2> QED
    BY <1>1, ReadTextReads DEF Reads, Passes
<1>3. /\ ReadString(buf, pos) =
           IF r.is = "ok" THEN IF r.value = TC_STRING THEN ReadText(buf, r.pos, 2) ELSE Invalid ELSE r
      /\ ReadString(buf \o more, pos) =
           IF m.is = "ok" THEN IF m.value = TC_STRING THEN ReadText(buf \o more, m.pos, 2) ELSE Invalid ELSE m
  BY SMT DEF ReadString, Then
<1> HIDE DEF r, m
<1> QED
  BY <1>1, <1>2, <1>3 DEF Reads, Passes, Invalid

\* A text that is skipped may lie beyond the end, its length does not.
LEMMA SkipTextPasses ==
  ASSUME NEW buf \in Text, NEW more \in Text, NEW pos \in Nat
  PROVE  /\ Passes(SkipText(buf, pos), SkipText(buf \o more, pos), pos + 2)
         /\ SkipText(buf, pos).is = "ok" => pos + 2 <= Len(buf)
<1> DEFINE r == ReadShort(buf, pos)
           m == ReadShort(buf \o more, pos)
<1>1. Reads(r, m, pos + 2, buf) /\ (r.is = "ok" => r.value \in Int)
  BY NumbersRead
<1>2. /\ SkipText(buf, pos) =
           IF r.is = "ok" THEN IF r.value < 0 THEN Backward ELSE Ok(r.value, r.pos + r.value) ELSE r
      /\ SkipText(buf \o more, pos) =
           IF m.is = "ok" THEN IF m.value < 0 THEN Backward ELSE Ok(m.value, m.pos + m.value) ELSE m
  BY SMT DEF SkipText, Then
<1>3. Len(buf) \in Nat
  BY TextProps
<1> HIDE DEF r, m
<1> QED
  BY <1>1, <1>2, <1>3 DEF Reads, Passes, Ok, Backward

-----------------------------------------------------------------------------
Descends(f, X, G, next, value) == f = [x \in X |-> IF x \in G THEN f[next[x]] ELSE value[x]]

\* A recursive function whose every call goes to an argument of lower rank
\* exists: built rank by rank, up to the bound.
LEMMA Descent ==
  ASSUME NEW X, NEW G, NEW next, NEW value, NEW rank, NEW bound \in Nat,
         \A x \in X : rank[x] \in 0..bound,
         \A x \in X : x \in G => next[x] \in X /\ rank[next[x]] < rank[x]
  PROVE  \E f : Descends(f, X, G, next, value)
<1> DEFINE Fits(f, x) == f[x] = IF x \in G THEN f[next[x]] ELSE value[x]
           S == {n \in Nat : \E f : \A x \in X : rank[x] <= n => Fits(f, x)}
<1>1. 0 \in S
  <2>1. ASSUME NEW x \in X, rank[x] <= 0
        PROVE  x \notin G
    BY <2>1
  <2> DEFINE f == [x \in X |-> value[x]]
  <2>2. \A x \in X : rank[x] <= 0 => Fits(f, x)
    BY <2>1
  <2> HIDE DEF Fits, f
  <2> QED
    BY <2>2
<1>2. ASSUME NEW n \in Nat, n \in S
      PROVE  n + 1 \in S
  <2>1. PICK f : \A x \in X : rank[x] <= n => Fits(f, x)
    BY <1>2
  <2> DEFINE g == [x \in X |-> IF x \in G THEN f[next[x]] ELSE value[x]]
  <2>2. ASSUME NEW x \in X, rank[x] <= n + 1
        PROVE  Fits(g, x)
    <3>1. CASE x \in G
      <4>1. next[x] \in X /\ rank[next[x]] <= n
        BY <2>2, <3>1
      <4>2. Fits(f, next[x])
        BY <2>1, <4>1
      <4>3. g[x] = f[next[x]] /\ g[next[x]] = f[next[x]]
        BY <3>1, <4>1, <4>2
      <4> HIDE DEF g
      <4> QED
        BY <3>1, <4>3
    <3>2. CASE x \notin G
      BY <3>2
    <3> QED
      BY <3>1, <3>2
  <2> HIDE DEF g, Fits
  <2>3. \E h : \A x \in X : rank[x] <= n + 1 => Fits(h, x)
    BY <2>2
  <2>4. n + 1 \in Nat
    OBVIOUS
  <2> QED
    BY <2>3, <2>4
<1> HIDE DEF S
<1>3. Nat \subseteq S
  BY <1>1, <1>2, Induction
<1>4. bound \in S
  BY <1>3
<1>5. PICK f : \A x \in X : rank[x] <= bound => Fits(f, x)
  BY <1>4 DEF S
<1> DEFINE g == [x \in X |-> f[x]]
<1>6. \A x \in X : Fits(f, x)
  BY <1>5
<1>7. \A x \in X : g[x] = IF x \in G THEN g[next[x]] ELSE value[x]
  BY <1>6
<1>8. g = [x \in X |-> g[x]]
  OBVIOUS
<1> HIDE DEF g
<1>9. g = [x \in X |-> IF x \in G THEN g[next[x]] ELSE value[x]]
  BY <1>7, <1>8
<1> QED
  BY <1>9 DEF Descends

\* What holds at the end of a buffer, and at a position if it does at all behind
\* it, holds at every position.
LEMMA PositionInduction ==
  ASSUME NEW len \in Nat, NEW S,
         \A p \in Nat : (p < len => \A q \in Nat : p < q => q \in S) => p \in S
  PROVE  Nat \subseteq S
<1> DEFINE T == {n \in Nat : \A p \in Nat : len - p <= n => p \in S}
<1>1. 0 \in T
  OBVIOUS
<1>2. ASSUME NEW n \in Nat, n \in T
      PROVE  n + 1 \in T
  <2>1. ASSUME NEW p \in Nat, len - p <= n + 1
        PROVE  p \in S
    <3>1. ASSUME NEW q \in Nat, p < q
          PROVE  q \in S
      <4>1. len - q <= n
        BY <2>1, <3>1
      <4> QED
        BY <1>2, <4>1
    <3> QED
      BY <3>1
  <2> QED
    BY <2>1
<1> HIDE DEF T
<1>3. Nat \subseteq T
  BY <1>1, <1>2, Induction
<1>4. ASSUME NEW p \in Nat
      PROVE  p \in S
  <2>1. len - p <= len /\ len \in T
    BY <1>3
  <2> QED
    BY <2>1 DEF T
<1> QED
  BY <1>4

\* The same for the rounds of a loop that never goes back.
LEMMA RoundInduction ==
  ASSUME NEW len \in Nat, NEW S,
         \A x \in Rounds : (x.pos < len => \A y \in Rounds : x.pos < y.pos => y \in S) => x \in S
  PROVE  Rounds \subseteq S
<1> DEFINE T == {p \in Nat : \A x \in Rounds : x.pos = p => x \in S}
<1>1. \A x \in Rounds : x.pos \in Nat
  BY DEF Rounds
<1>2. ASSUME NEW p \in Nat, p < len => \A q \in Nat : p < q => q \in T
      PROVE  p \in T
  BY <1>1, <1>2
<1> HIDE DEF T
<1>3. Nat \subseteq T
  BY <1>2, PositionInduction
<1> QED
  BY <1>1, <1>3 DEF T

\* A loop whose rounds do each what body says and go on at next.
Loops(f, body, next) ==
  f = [x \in Rounds |-> IF x.left = 0 THEN Ok(0, x.pos)
                        ELSE IF body[x].is = "ok" THEN f[next[x]] ELSE body[x]]

\* Each round that goes on has read some of the buffer.
Advances(body, next, len) ==
  \A x \in Rounds : x.left # 0 /\ body[x].is = "ok" =>
                      next[x] \in Rounds /\ x.pos < next[x].pos /\ x.pos < len

\* A loop that advances in a buffer of len bytes is such a function.
LEMMA LoopExists ==
  ASSUME NEW len \in Nat, NEW body, NEW next, Advances(body, next, len)
  PROVE  \E f : Loops(f, body, next)
<1> DEFINE G == {x \in Rounds : x.left # 0 /\ body[x].is = "ok"}
           value == [x \in Rounds |-> IF x.left = 0 THEN Ok(0, x.pos) ELSE body[x]]
           rank == [x \in Rounds |-> IF x.pos < len THEN len - x.pos ELSE 0]
<1>0. \A x \in Rounds : x.pos \in Nat
  BY DEF Rounds
<1>1. \A x \in Rounds : rank[x] \in 0..len
  BY <1>0
<1>2. ASSUME NEW x \in Rounds, x \in G
      PROVE  next[x] \in Rounds /\ rank[next[x]] < rank[x]
  BY <1>0, <1>2 DEF Advances
<1>3. \E f : Descends(f, Rounds, G, next, value)
  <2> HIDE DEF G, value, rank
  <2> QED
    BY <1>1, <1>2, Descent
<1>4. PICK f : f = [x \in Rounds |-> IF x \in G THEN f[next[x]] ELSE value[x]]
  BY <1>3 DEF Descends
<1>5. ASSUME NEW x \in Rounds
      PROVE  f[x] = IF x.left = 0 THEN Ok(0, x.pos)
                    ELSE IF body[x].is = "ok" THEN f[next[x]] ELSE body[x]
  <2>1. f[x] = IF x \in G THEN f[next[x]] ELSE value[x]
    BY <1>4
  <2> QED
    BY <2>1
<1>6. f = [x \in Rounds |-> f[x]]
  BY <1>4
<1> QED
  BY <1>5, <1>6 DEF Loops

\* If each round of a loop reads in a longer buffer what it read, so does the
\* whole loop.
LEMMA LoopPasses ==
  ASSUME NEW len \in Nat, NEW f, NEW body, NEW next, NEW g, NEW other, NEW after,
         Loops(f, body, next), Loops(g, other, after), Advances(body, next, len),
         \A x \in Rounds : x.left # 0 =>
            Passes(body[x], other[x], x.pos) /\ (body[x].is = "ok" => after[x] = next[x])
  PROVE  \A x \in Rounds : Passes(f[x], g[x], x.pos)
<1> DEFINE S == {x \in Rounds : Passes(f[x], g[x], x.pos)}
<1>1. ASSUME NEW x \in Rounds, x.pos < len => \A y \in Rounds : x.pos < y.pos => y \in S
      PROVE  x \in S
  <2>0. x.pos \in Nat
    BY DEF Rounds
  <2>1. /\ f[x] = IF x.left = 0 THEN Ok(0, x.pos)
                  ELSE IF body[x].is = "ok" THEN f[next[x]] ELSE body[x]
        /\ g[x] = IF x.left = 0 THEN Ok(0, x.pos)
                  ELSE IF other[x].is = "ok" THEN g[after[x]] ELSE other[x]
    BY DEF Loops
  <2>2. CASE x.left = 0
    BY <2>0, <2>1, <2>2 DEF Passes, Ok
  <2>3. CASE x.left # 0 /\ body[x].is = "ok"
    <3>1. next[x] \in Rounds /\ x.pos < next[x].pos /\ x.pos < len
      BY <2>3 DEF Advances
    <3>2. Passes(f[next[x]], g[next[x]], next[x].pos)
      BY <1>1, <3>1
    <3>3. other[x] = body[x] /\ after[x] = next[x]
      BY <2>3 DEF Passes
    <3>4. next[x].pos \in Nat
      BY <3>1 DEF Rounds
    <3> QED
      BY <2>0, <2>1, <2>3, <3>1, <3>2, <3>3, <3>4 DEF Passes
  <2>4. CASE x.left # 0 /\ body[x].is # "ok"
    <3>1. Passes(body[x], other[x], x.pos)
      BY <2>4
    <3> QED
      BY <2>1, <2>4, <3>1 DEF Passes
  <2> QED
    BY <2>2, <2>3, <2>4
<1> HIDE DEF S
<1>2. Rounds \subseteq S
  BY <1>1, RoundInduction
<1> QED
  BY <1>2 DEF S

\* A negative count is none.
LEMMA NoLess == \A n \in Int : Max({0, n}) \in Nat
<1> SUFFICES ASSUME NEW n \in Int
             PROVE  Max({0, n}) \in Nat
  OBVIOUS
<1>1. CASE n >= 0
  <2>1. {0, n} \in SUBSET (0..n) /\ {0, n} # {}
    BY <1>1
  <2>2. Max({0, n}) \in {0, n}
    BY <1>1, <2>1, MaxOfSet
  <2> QED
    BY <1>1, <2>2
<1>2. CASE n < 0
  <2>1. Max({0, n}) = 0
    BY <1>2 DEF Max
  <2> QED
    BY <2>1
<1> QED
  BY <1>1, <1>2

\* The loop of SkipFields, as one of LoopExists.
FieldIn(buf)   == [x \in Rounds |-> SkipText(buf, x.pos + 1)]
BehindField(buf) == [x \in Rounds |-> Round(x.left - 1, SkipText(buf, x.pos + 1).pos)]

\* SkipFields is such a loop: a field cannot be skipped without its length.
LEMMA SkipFieldsIs ==
  ASSUME NEW buf \in Text, NEW pos, NEW count
  PROVE  /\ Advances(FieldIn(buf), BehindField(buf), Len(buf))
         /\ \E f : /\ Loops(f, FieldIn(buf), BehindField(buf))
                   /\ SkipFields(buf, pos, count) = f[Round(Max({0, count}), pos)]
<1> DEFINE Fits(f) ==
      f = [x \in Rounds |-> IF x.left = 0 THEN Ok(0, x.pos)
                            ELSE Then(SkipText(buf, x.pos + 1), LAMBDA len, p : f[Round(x.left - 1, p)])]
<1>1. Len(buf) \in Nat
  BY TextProps
<1>2. Advances(FieldIn(buf), BehindField(buf), Len(buf))
  <2> SUFFICES ASSUME NEW x \in Rounds, x.left # 0, SkipText(buf, x.pos + 1).is = "ok"
               PROVE  /\ Round(x.left - 1, SkipText(buf, x.pos + 1).pos) \in Rounds
                      /\ x.pos < SkipText(buf, x.pos + 1).pos /\ x.pos < Len(buf)
    BY DEF Advances, FieldIn, BehindField, Round
  <2>1. x.left \in Nat /\ x.pos \in Nat /\ x.pos + 1 \in Nat /\ <<>> \in Text
    BY DEF Rounds, Text
  <2>2. /\ Passes(SkipText(buf, x.pos + 1), SkipText(buf \o <<>>, x.pos + 1), (x.pos + 1) + 2)
        /\ (x.pos + 1) + 2 <= Len(buf)
    BY <2>1, SkipTextPasses
  <2> QED
    BY <1>1, <2>1, <2>2 DEF Passes, Rounds, Round
<1>3. PICK f : Loops(f, FieldIn(buf), BehindField(buf))
  BY <1>1, <1>2, LoopExists
<1>4. ASSUME NEW g
      PROVE  Fits(g) <=> Loops(g, FieldIn(buf), BehindField(buf))
  BY SMT DEF Loops, FieldIn, BehindField, Then
<1>5. SkipFields(buf, pos, count) = (CHOOSE g : Fits(g))[Round(Max({0, count}), pos)]
  BY DEF SkipFields
<1> HIDE DEF Fits
<1>6. Loops(CHOOSE g : Fits(g), FieldIn(buf), BehindField(buf))
  BY <1>3, <1>4
<1> QED
  BY <1>2, <1>5, <1>6

\* So it stays as it is when more bytes come.
LEMMA SkipFieldsPasses ==
  ASSUME NEW buf \in Text, NEW more \in Text, NEW pos \in Nat, NEW count \in Int
  PROVE  Passes(SkipFields(buf, pos, count), SkipFields(buf \o more, pos, count), pos)
<1> DEFINE m == buf \o more
<1>1. m \in Text /\ Len(buf) \in Nat
  BY DEF Text
<1> HIDE DEF m
<1>2. PICK f : /\ Loops(f, FieldIn(buf), BehindField(buf))
               /\ SkipFields(buf, pos, count) = f[Round(Max({0, count}), pos)]
  BY SkipFieldsIs
<1>3. PICK g : /\ Loops(g, FieldIn(m), BehindField(m))
               /\ SkipFields(m, pos, count) = g[Round(Max({0, count}), pos)]
  BY <1>1, SkipFieldsIs
<1>4. ASSUME NEW x \in Rounds
      PROVE  /\ Passes(FieldIn(buf)[x], FieldIn(m)[x], x.pos)
             /\ FieldIn(buf)[x].is = "ok" => BehindField(m)[x] = BehindField(buf)[x]
  <2>1. x.pos \in Nat
    BY DEF Rounds
  <2>2. Passes(SkipText(buf, x.pos + 1), SkipText(m, x.pos + 1), x.pos + 1 + 2)
    BY <2>1, SkipTextPasses DEF m
  <2> QED
    BY <2>1, <2>2 DEF Passes, FieldIn, BehindField
<1>5. Advances(FieldIn(buf), BehindField(buf), Len(buf))
  BY SkipFieldsIs
<1>6. \A x \in Rounds : Passes(f[x], g[x], x.pos)
  BY <1>1, <1>2, <1>3, <1>4, <1>5, LoopPasses
<1>7. Round(Max({0, count}), pos) \in Rounds /\ Round(Max({0, count}), pos).pos = pos
  BY NoLess DEF Rounds, Round
<1> QED
  BY <1>2, <1>3, <1>6, <1>7 DEF m

\* A key and a value.
LEMMA ReadPairReads ==
  ASSUME NEW buf \in Text, NEW more \in Text, NEW pos \in Nat
  PROVE  Reads(ReadPair(buf, pos), ReadPair(buf \o more, pos), pos + 3, buf)
<1> DEFINE r == ReadString(buf, pos)
           m == ReadString(buf \o more, pos)
<1>1. Reads(r, m, pos + 3, buf)
  BY ReadStringReads
<1>2. r.is = "ok" => Reads(ReadString(buf, r.pos), ReadString(buf \o more, r.pos), r.pos + 3, buf)
  <2> HIDE DEF r, m
  <2> QED
    BY <1>1, ReadStringReads DEF Reads, Passes
<1>3. /\ ReadPair(buf, pos) = IF r.is = "ok" THEN ReadString(buf, r.pos) ELSE r
      /\ ReadPair(buf \o more, pos) = IF m.is = "ok" THEN ReadString(buf \o more, m.pos) ELSE m
  BY SMT DEF ReadPair, Then
<1> HIDE DEF r, m
<1> QED
  BY <1>1, <1>2, <1>3 DEF Reads, Passes

\* The loop of ReadPairs, as one of LoopExists.
PairIn(buf)     == [x \in Rounds |-> ReadPair(buf, x.pos)]
BehindPair(buf) == [x \in Rounds |-> Round(x.left - 1, ReadPair(buf, x.pos).pos)]

\* ReadPairs is such a loop.
LEMMA ReadPairsIs ==
  ASSUME NEW buf \in Text, NEW pos, NEW size
  PROVE  /\ Advances(PairIn(buf), BehindPair(buf), Len(buf))
         /\ \E f : /\ Loops(f, PairIn(buf), BehindPair(buf))
                   /\ ReadPairs(buf, pos, size) = f[Round(Max({0, size}), pos)]
<1> DEFINE Fits(f) ==
      f = [x \in Rounds |-> IF x.left = 0 THEN Ok(0, x.pos)
                            ELSE Then(ReadPair(buf, x.pos), LAMBDA value, p : f[Round(x.left - 1, p)])]
<1>1. Len(buf) \in Nat
  BY TextProps
<1>2. Advances(PairIn(buf), BehindPair(buf), Len(buf))
  <2> SUFFICES ASSUME NEW x \in Rounds, x.left # 0, ReadPair(buf, x.pos).is = "ok"
               PROVE  /\ Round(x.left - 1, ReadPair(buf, x.pos).pos) \in Rounds
                      /\ x.pos < ReadPair(buf, x.pos).pos /\ x.pos < Len(buf)
    BY DEF Advances, PairIn, BehindPair, Round
  <2>1. x.left \in Nat /\ x.pos \in Nat /\ <<>> \in Text
    BY DEF Rounds, Text
  <2>2. Reads(ReadPair(buf, x.pos), ReadPair(buf \o <<>>, x.pos), x.pos + 3, buf)
    BY <2>1, ReadPairReads
  <2> QED
    BY <1>1, <2>1, <2>2 DEF Reads, Passes, Rounds, Round
<1>3. PICK f : Loops(f, PairIn(buf), BehindPair(buf))
  BY <1>1, <1>2, LoopExists
<1>4. ASSUME NEW g
      PROVE  Fits(g) <=> Loops(g, PairIn(buf), BehindPair(buf))
  BY SMT DEF Loops, PairIn, BehindPair, Then
<1>5. ReadPairs(buf, pos, size) = (CHOOSE g : Fits(g))[Round(Max({0, size}), pos)]
  BY DEF ReadPairs
<1> HIDE DEF Fits
<1>6. Loops(CHOOSE g : Fits(g), PairIn(buf), BehindPair(buf))
  BY <1>3, <1>4
<1> QED
  BY <1>2, <1>5, <1>6

\* So it stays as it is when more bytes come.
LEMMA ReadPairsPasses ==
  ASSUME NEW buf \in Text, NEW more \in Text, NEW pos \in Nat, NEW size \in Int
  PROVE  Passes(ReadPairs(buf, pos, size), ReadPairs(buf \o more, pos, size), pos)
<1> DEFINE m == buf \o more
           start == Round(Max({0, size}), pos)
<1>1. m \in Text /\ Len(buf) \in Nat
  BY DEF Text
<1> HIDE DEF m
<1>2. PICK f : /\ Loops(f, PairIn(buf), BehindPair(buf))
               /\ ReadPairs(buf, pos, size) = f[start]
  BY ReadPairsIs
<1>3. PICK g : /\ Loops(g, PairIn(m), BehindPair(m))
               /\ ReadPairs(m, pos, size) = g[start]
  BY <1>1, ReadPairsIs
<1>4. ASSUME NEW x \in Rounds
      PROVE  /\ Passes(PairIn(buf)[x], PairIn(m)[x], x.pos)
             /\ PairIn(buf)[x].is = "ok" => BehindPair(m)[x] = BehindPair(buf)[x]
  <2>1. x.pos \in Nat
    BY DEF Rounds
  <2>2. Reads(ReadPair(buf, x.pos), ReadPair(m, x.pos), x.pos + 3, buf)
    BY <2>1, ReadPairReads DEF m
  <2> QED
    BY <2>1, <2>2 DEF Reads, Passes, PairIn, BehindPair
<1>5. Advances(PairIn(buf), BehindPair(buf), Len(buf))
  BY ReadPairsIs
<1>6. \A x \in Rounds : Passes(f[x], g[x], x.pos)
  BY <1>1, <1>2, <1>3, <1>4, <1>5, LoopPasses
<1>7. start \in Rounds /\ start.pos = pos
  BY NoLess DEF Rounds, Round
<1> HIDE DEF start
<1> QED
  BY <1>2, <1>3, <1>6, <1>7 DEF m

\* The rest of SkipType, behind the type code it has read.
TypeBehind(buf, r) ==
  CASE r.value = TC_ENDBLOCKDATA      -> Ok(r.value, r.pos)
    [] r.value = TC_REFERENCE         -> IF ReadInt(buf, r.pos).is = "ok"
                                         THEN Ok(r.value, ReadInt(buf, r.pos).pos) ELSE ReadInt(buf, r.pos)
    [] r.value \in {CodeL, TC_STRING} -> IF SkipText(buf, r.pos).is = "ok"
                                         THEN Ok(r.value, SkipText(buf, r.pos).pos) ELSE SkipText(buf, r.pos)
    [] OTHER                          -> Invalid

\* SkipType is the reading of a byte and of what stands behind it.
LEMMA SkipTypeIs ==
  ASSUME NEW buf, NEW pos
  PROVE  SkipType(buf, pos) = LET r == ReadByte(buf, pos) IN IF r.is = "ok" THEN TypeBehind(buf, r) ELSE r
BY SMT DEF SkipType, Then, TypeBehind

\* One type, which is at least its code.
LEMMA SkipTypePasses ==
  ASSUME NEW buf \in Text, NEW more \in Text, NEW pos \in Nat
  PROVE  /\ Passes(SkipType(buf, pos), SkipType(buf \o more, pos), pos + 1)
         /\ SkipType(buf, pos).is = "ok" => pos + 1 <= Len(buf)
<1> DEFINE b == buf \o more
           r == ReadByte(buf, pos)
           m == ReadByte(b, pos)
<1>1. Reads(r, m, pos + 1, buf)
  BY ReadByteReads
<1>2. r.is = "ok" => /\ Reads(ReadInt(buf, r.pos), ReadInt(b, r.pos), r.pos + 4, buf)
                     /\ Passes(SkipText(buf, r.pos), SkipText(b, r.pos), r.pos + 2)
  <2> HIDE DEF r, m
  <2> QED
    BY <1>1, NumbersRead, SkipTextPasses DEF Reads, Passes
<1>3. /\ SkipType(buf, pos) = IF r.is = "ok" THEN TypeBehind(buf, r) ELSE r
      /\ SkipType(b, pos) = IF m.is = "ok" THEN TypeBehind(b, m) ELSE m
  BY SkipTypeIs
<1>4. r.is = "ok" => Passes(TypeBehind(buf, r), TypeBehind(b, r), r.pos)
  <2> HIDE DEF r, m, b
  <2> SUFFICES ASSUME r.is = "ok"
               PROVE  Passes(TypeBehind(buf, r), TypeBehind(b, r), r.pos)
    OBVIOUS
  <2>0. r.pos \in Nat
    BY <1>1 DEF Reads, Passes
  <2>1. CASE r.value = TC_ENDBLOCKDATA
    <3>1. TypeBehind(buf, r) = Ok(r.value, r.pos) /\ TypeBehind(b, r) = Ok(r.value, r.pos)
      BY <2>1 DEF TypeBehind, TC_ENDBLOCKDATA, TC_REFERENCE, CodeL, TC_STRING
    <3> QED
      BY <2>0, <3>1 DEF Passes, Ok
  <2>2. CASE r.value = TC_REFERENCE
    <3>1. /\ TypeBehind(buf, r) = IF ReadInt(buf, r.pos).is = "ok" THEN Ok(r.value, ReadInt(buf, r.pos).pos) ELSE ReadInt(buf, r.pos)
          /\ TypeBehind(b, r) = IF ReadInt(b, r.pos).is = "ok" THEN Ok(r.value, ReadInt(b, r.pos).pos) ELSE ReadInt(b, r.pos)
      BY <2>2 DEF TypeBehind, TC_ENDBLOCKDATA, TC_REFERENCE, CodeL, TC_STRING
    <3> QED
      BY <1>2, <2>0, <3>1 DEF Reads, Passes, Ok
  <2>3. CASE r.value \in {CodeL, TC_STRING}
    <3>1. /\ TypeBehind(buf, r) = IF SkipText(buf, r.pos).is = "ok" THEN Ok(r.value, SkipText(buf, r.pos).pos) ELSE SkipText(buf, r.pos)
          /\ TypeBehind(b, r) = IF SkipText(b, r.pos).is = "ok" THEN Ok(r.value, SkipText(b, r.pos).pos) ELSE SkipText(b, r.pos)
      BY <2>3 DEF TypeBehind, TC_ENDBLOCKDATA, TC_REFERENCE, CodeL, TC_STRING
    <3> QED
      BY <1>2, <2>0, <3>1 DEF Passes, Ok
  <2>4. CASE r.value \notin {TC_ENDBLOCKDATA, TC_REFERENCE, CodeL, TC_STRING}
    <3>1. TypeBehind(buf, r) = Invalid /\ TypeBehind(b, r) = Invalid
      BY <2>4 DEF TypeBehind
    <3> QED
      BY <3>1 DEF Passes, Invalid
  <2> QED
    BY <2>1, <2>2, <2>3, <2>4
<1> HIDE DEF r, m
<1> QED
  BY <1>1, <1>3, <1>4 DEF Reads, Passes, b

\* The loop of SkipTypes, as one of Descent: who comes behind an iteration that
\* is not the last one, and what comes of one that is.
GoesOn(buf) == {p \in Nat : SkipType(buf, p).is = "ok" /\ SkipType(buf, p).value # TC_ENDBLOCKDATA}
BehindType(buf) == [p \in Nat |-> SkipType(buf, p).pos]
LastType(buf) ==
  [p \in Nat |-> IF SkipType(buf, p).is = "ok" THEN ReadConstant(buf, SkipType(buf, p).pos, Null)
                 ELSE SkipType(buf, p)]

\* SkipTypes is such a function, ranked by the bytes that are left.
LEMMA SkipTypesIs ==
  ASSUME NEW buf \in Text, NEW pos
  PROVE  \E f : Descends(f, Nat, GoesOn(buf), BehindType(buf), LastType(buf)) /\ SkipTypes(buf, pos) = f[pos]
<1> DEFINE Fits(f) ==
      f = [p \in Nat |->
             Then(SkipType(buf, p), LAMBDA type, q :
               IF type = TC_ENDBLOCKDATA THEN ReadConstant(buf, q, Null) ELSE f[q])]
           rank == [p \in Nat |-> IF p < Len(buf) THEN Len(buf) - p ELSE 0]
<1>1. Len(buf) \in Nat /\ <<>> \in Text
  BY DEF Text
<1>2. \A p \in Nat : rank[p] \in 0..Len(buf)
  BY <1>1
<1>3. ASSUME NEW p \in Nat, p \in GoesOn(buf)
      PROVE  BehindType(buf)[p] \in Nat /\ rank[BehindType(buf)[p]] < rank[p]
  <2> DEFINE q == SkipType(buf, p).pos
  <2>1. /\ Passes(SkipType(buf, p), SkipType(buf \o <<>>, p), p + 1)
        /\ p + 1 <= Len(buf)
    BY <1>1, <1>3, SkipTypePasses DEF GoesOn
  <2>2. q \in Nat /\ p < q /\ p < Len(buf)
    BY <1>1, <1>3, <2>1 DEF Passes, GoesOn
  <2>3. BehindType(buf)[p] = q
    BY DEF BehindType
  <2> HIDE DEF q
  <2> QED
    BY <1>1, <2>2, <2>3
<1> HIDE DEF rank
<1>4. PICK f : Descends(f, Nat, GoesOn(buf), BehindType(buf), LastType(buf))
  BY <1>1, <1>2, <1>3, Descent
<1>5. ASSUME NEW g
      PROVE  Fits(g) <=> Descends(g, Nat, GoesOn(buf), BehindType(buf), LastType(buf))
  BY SMT DEF Descends, GoesOn, BehindType, LastType, Then
<1>6. SkipTypes(buf, pos) = (CHOOSE g : Fits(g))[pos]
  BY DEF SkipTypes
<1> HIDE DEF Fits
<1>7. Descends(CHOOSE g : Fits(g), Nat, GoesOn(buf), BehindType(buf), LastType(buf))
  BY <1>4, <1>5
<1> QED
  BY <1>6, <1>7

\* So it stays as it is when more bytes come, and it ends inside the buffer:
\* only the constant behind the last type ends it.
LEMMA SkipTypesReads ==
  ASSUME NEW buf \in Text, NEW more \in Text, NEW pos \in Nat
  PROVE  Reads(SkipTypes(buf, pos), SkipTypes(buf \o more, pos), pos, buf)
<1> DEFINE m == buf \o more
<1>1. m \in Text /\ Len(buf) \in Nat
  BY DEF Text
<1> HIDE DEF m
<1>2. PICK f : /\ Descends(f, Nat, GoesOn(buf), BehindType(buf), LastType(buf))
               /\ SkipTypes(buf, pos) = f[pos]
  BY SkipTypesIs
<1>3. PICK g : /\ Descends(g, Nat, GoesOn(m), BehindType(m), LastType(m))
               /\ SkipTypes(m, pos) = g[pos]
  BY <1>1, SkipTypesIs
<1> DEFINE S == {p \in Nat : Reads(f[p], g[p], p, buf)}
<1>4. ASSUME NEW p \in Nat, p < Len(buf) => \A q \in Nat : p < q => q \in S
      PROVE  p \in S
  <2> DEFINE r == SkipType(buf, p)
             s == SkipType(m, p)
  <2>1. Passes(r, s, p + 1) /\ (r.is = "ok" => p + 1 <= Len(buf))
    BY SkipTypePasses DEF m
  <2>2. /\ f[p] = IF r.is = "ok" THEN IF r.value # TC_ENDBLOCKDATA THEN f[r.pos] ELSE ReadConstant(buf, r.pos, Null)
                  ELSE r
        /\ g[p] = IF s.is = "ok" THEN IF s.value # TC_ENDBLOCKDATA THEN g[s.pos] ELSE ReadConstant(m, s.pos, Null)
                  ELSE s
    BY <1>2, <1>3 DEF Descends, GoesOn, BehindType, LastType
  <2> HIDE DEF r, s
  <2>3. CASE r.is = "ok" /\ r.value # TC_ENDBLOCKDATA
    <3>1. r.pos \in S
      BY <1>1, <1>4, <2>1, <2>3 DEF Passes
    <3> QED
      BY <2>1, <2>2, <2>3, <3>1 DEF Reads, Passes
  <2>4. CASE r.is = "ok" /\ r.value = TC_ENDBLOCKDATA
    <3>1. r.pos \in Nat /\ Len(Null) = 1 /\ Len(Null) \in Nat
      BY <2>1, <2>4 DEF Passes, Null
    <3>2. Reads(ReadConstant(buf, r.pos, Null), ReadConstant(m, r.pos, Null), r.pos + Len(Null), buf)
      BY <3>1, ReadConstantReads DEF m
    <3> QED
      BY <2>1, <2>2, <2>4, <3>1, <3>2 DEF Reads, Passes
  <2>5. CASE r.is # "ok"
    BY <2>1, <2>2, <2>5 DEF Reads, Passes
  <2> QED
    BY <2>3, <2>4, <2>5
<1> HIDE DEF S
<1>5. Nat \subseteq S
  BY <1>1, <1>4, PositionInduction
<1> QED
  BY <1>2, <1>3, <1>5 DEF S, m

\* The readers built of these, up to a field of an event.  First a class
\* description, ...
LEMMA ReadClassDescReads ==
  ASSUME NEW buf \in Text, NEW more \in Text, NEW pos \in Nat
  PROVE  Reads(ReadClassDesc(buf, pos), ReadClassDesc(buf \o more, pos), pos, buf)
<1> DEFINE b == buf \o more
           r1 == SkipText(buf, pos)
           m1 == SkipText(b, pos)
           r2 == ReadShort(buf, r1.pos + 9)
           m2 == ReadShort(b, m1.pos + 9)
           r3 == SkipFields(buf, r2.pos, r2.value)
           m3 == SkipFields(b, m2.pos, m2.value)
           r4 == SkipTypes(buf, r3.pos)
           m4 == SkipTypes(b, m3.pos)
<1>1. /\ ReadClassDesc(buf, pos) =
           IF r1.is = "ok" THEN IF r2.is = "ok" THEN IF r3.is = "ok" THEN r4 ELSE r3 ELSE r2 ELSE r1
      /\ ReadClassDesc(b, pos) =
           IF m1.is = "ok" THEN IF m2.is = "ok" THEN IF m3.is = "ok" THEN m4 ELSE m3 ELSE m2 ELSE m1
  <2>1. ReadClassDesc(buf, pos) =
          IF r1.is = "ok" THEN IF r2.is = "ok" THEN IF r3.is = "ok" THEN r4 ELSE r3 ELSE r2 ELSE r1
    BY SMTT(30) DEF ReadClassDesc, Then
  <2>2. ReadClassDesc(b, pos) =
          IF m1.is = "ok" THEN IF m2.is = "ok" THEN IF m3.is = "ok" THEN m4 ELSE m3 ELSE m2 ELSE m1
    BY SMTT(30) DEF ReadClassDesc, Then
  <2> QED
    BY <2>1, <2>2
<1>2. Passes(r1, m1, pos + 2)
  BY SkipTextPasses
<1>3. r1.is = "ok" => m1 = r1 /\ r1.pos \in Nat /\ pos <= r1.pos
  BY <1>2 DEF Passes
<1>4. r1.is = "ok" => Passes(r2, m2, r1.pos + 9) /\ (r2.is = "ok" => r2.value \in Int)
  <2> HIDE DEF r1, m1
  <2>1. r1.is = "ok" => r1.pos + 9 \in Nat
    BY <1>3
  <2> QED
    BY <1>3, <2>1, NumbersRead DEF Reads, Passes
<1>5. r1.is = "ok" /\ r2.is = "ok" => m2 = r2 /\ r2.pos \in Nat /\ pos <= r2.pos
  <2> HIDE DEF r1, m1, r2, m2
  <2> QED
    BY <1>3, <1>4 DEF Passes
<1>6. r1.is = "ok" /\ r2.is = "ok" => Passes(r3, m3, r2.pos)
  <2> HIDE DEF r1, m1, r2, m2
  <2> QED
    BY <1>4, <1>5, SkipFieldsPasses
<1>7. r1.is = "ok" /\ r2.is = "ok" /\ r3.is = "ok" => m3 = r3 /\ r3.pos \in Nat /\ pos <= r3.pos
  <2> HIDE DEF r1, m1, r2, m2, r3, m3
  <2> QED
    BY <1>5, <1>6 DEF Passes
<1>8. r1.is = "ok" /\ r2.is = "ok" /\ r3.is = "ok" => Reads(r4, m4, r3.pos, buf)
  <2> HIDE DEF r1, m1, r2, m2, r3, m3
  <2> QED
    BY <1>7, SkipTypesReads
<1> HIDE DEF r1, m1, r2, m2, r3, m3, r4, m4, b
<1> QED
  BY <1>1, <1>2, <1>3, <1>4, <1>5, <1>6, <1>7, <1>8 DEF Reads, Passes, b

\* ... a class, ...
LEMMA ReadPrologReads ==
  ASSUME NEW buf \in Text, NEW more \in Text, NEW pos \in Nat
  PROVE  Reads(ReadProlog(buf, pos), ReadProlog(buf \o more, pos), pos + 1, buf)
<1> DEFINE b == buf \o more
           r == ReadByte(buf, pos)
           m == ReadByte(b, pos)
           Rest(c, s) == IF s.value = TC_CLASSDESC THEN ReadClassDesc(c, s.pos)
                         ELSE IF s.value = TC_REFERENCE THEN ReadInt(c, s.pos) ELSE Invalid
<1>1. Reads(r, m, pos + 1, buf)
  BY ReadByteReads
<1>2. /\ ReadProlog(buf, pos) = IF r.is = "ok" THEN Rest(buf, r) ELSE r
      /\ ReadProlog(b, pos) = IF m.is = "ok" THEN Rest(b, m) ELSE m
  BY SMT DEF ReadProlog, Then, TC_CLASSDESC, TC_REFERENCE
<1>3. r.is = "ok" => /\ Reads(ReadInt(buf, r.pos), ReadInt(b, r.pos), r.pos + 4, buf)
                     /\ Reads(ReadClassDesc(buf, r.pos), ReadClassDesc(b, r.pos), r.pos, buf)
  <2> HIDE DEF r, m
  <2> QED
    BY <1>1, NumbersRead, ReadClassDescReads DEF Reads, Passes
<1> HIDE DEF r, m, b
<1> QED
  BY <1>1, <1>2, <1>3 DEF Reads, Passes, Invalid, b

\* ... the beginning of an object, ...
LEMMA ReadObjectCodeReads ==
  ASSUME NEW buf \in Text, NEW more \in Text, NEW pos \in Nat
  PROVE  Reads(ReadObjectCode(buf, pos), ReadObjectCode(buf \o more, pos), pos + 1, buf)
<1> DEFINE b == buf \o more
           r == ReadByte(buf, pos)
           m == ReadByte(b, pos)
           code == <<TC_OBJECT>>
           Rest(c, s) == IF s.value = TC_OBJECT THEN Ok(s.value, s.pos)
                         ELSE IF s.value = TC_RESET THEN ReadConstant(c, s.pos, code) ELSE Invalid
<1>1. Reads(r, m, pos + 1, buf)
  BY ReadByteReads
<1>2. /\ ReadObjectCode(buf, pos) = IF r.is = "ok" THEN Rest(buf, r) ELSE r
      /\ ReadObjectCode(b, pos) = IF m.is = "ok" THEN Rest(b, m) ELSE m
  BY SMT DEF ReadObjectCode, Then, TC_OBJECT, TC_RESET
<1>3. Len(code) = 1 /\ Len(code) \in Nat
  OBVIOUS
<1>4. r.is = "ok" => Reads(ReadConstant(buf, r.pos, code), ReadConstant(b, r.pos, code), r.pos + Len(code), buf)
  <2> HIDE DEF r, m, code
  <2> QED
    BY <1>1, <1>3, ReadConstantReads DEF Reads, Passes
<1> HIDE DEF r, m, b, code
<1> QED
  BY <1>1, <1>2, <1>3, <1>4 DEF Reads, Passes, Invalid, Ok, b

\* ... a string up to its first zero, ...
LEMMA ReadUTFStringReads ==
  ASSUME NEW buf \in Text, NEW more \in Text, NEW pos \in Nat
  PROVE  Reads(ReadUTFString(buf, pos), ReadUTFString(buf \o more, pos), pos + 3, buf)
<1> DEFINE r == ReadString(buf, pos)
           m == ReadString(buf \o more, pos)
<1>1. Reads(r, m, pos + 3, buf)
  BY ReadStringReads
<1>2. /\ ReadUTFString(buf, pos) = IF r.is = "ok" THEN Ok(CString(r.value), r.pos) ELSE r
      /\ ReadUTFString(buf \o more, pos) = IF m.is = "ok" THEN Ok(CString(m.value), m.pos) ELSE m
  BY SMT DEF ReadUTFString, Then
<1> HIDE DEF r, m
<1> QED
  BY <1>1, <1>2 DEF Reads, Passes, Ok

\* ... a location, ...
LEMMA ReadLocationInfoReads ==
  ASSUME NEW buf \in Text, NEW more \in Text, NEW pos \in Nat
  PROVE  Reads(ReadLocationInfo(buf, pos), ReadLocationInfo(buf \o more, pos), pos + 1, buf)
<1> DEFINE b == buf \o more
           r == ReadByte(buf, pos)
           m == ReadByte(b, pos)
           Described(c, s) == ReadProlog(c, s.pos)
           Rest(c, s) == IF s.value = TC_NULL THEN Ok(<<>>, s.pos)
                         ELSE IF s.value = TC_OBJECT
                         THEN IF Described(c, s).is = "ok" THEN ReadUTFString(c, Described(c, s).pos) ELSE Described(c, s)
                         ELSE Invalid
<1>1. Reads(r, m, pos + 1, buf)
  BY ReadByteReads
<1>2. /\ ReadLocationInfo(buf, pos) = IF r.is = "ok" THEN Rest(buf, r) ELSE r
      /\ ReadLocationInfo(b, pos) = IF m.is = "ok" THEN Rest(b, m) ELSE m
  BY SMT DEF ReadLocationInfo, Then, TC_OBJECT, TC_NULL
<1>3. r.is = "ok" => Reads(Described(buf, r), Described(b, r), r.pos + 1, buf)
  <2> HIDE DEF r, m
  <2> QED
    BY <1>1, ReadPrologReads DEF Reads, Passes
<1> DEFINE q == Described(buf, r).pos
<1>4. r.is = "ok" /\ Described(buf, r).is = "ok" =>
        Reads(ReadUTFString(buf, q), ReadUTFString(b, q), q + 3, buf)
  <2> HIDE DEF r, m, Described
  <2> QED
    BY <1>3, ReadUTFStringReads DEF Reads, Passes
<1> HIDE DEF r, m, b, Described
<1> QED
  BY <1>1, <1>2, <1>3, <1>4 DEF Reads, Passes, Invalid, Ok, b

\* ... a map, ...
LEMMA ReadMapReads ==
  ASSUME NEW buf \in Text, NEW more \in Text, NEW pos \in Nat
  PROVE  Reads(ReadMap(buf, pos), ReadMap(buf \o more, pos), pos, buf)
<1> DEFINE b == buf \o more
           end == <<TC_ENDBLOCKDATA>>
           r1 == ReadInt(buf, pos)
           m1 == ReadInt(b, pos)
           r2 == ReadPairs(buf, r1.pos, r1.value)
           m2 == ReadPairs(b, m1.pos, m1.value)
           r3 == ReadConstant(buf, r2.pos, end)
           m3 == ReadConstant(b, m2.pos, end)
<1>1. /\ ReadMap(buf, pos) =
           IF r1.is = "ok" THEN IF r2.is = "ok" THEN r3 ELSE r2 ELSE r1
      /\ ReadMap(b, pos) =
           IF m1.is = "ok" THEN IF m2.is = "ok" THEN m3 ELSE m2 ELSE m1
  BY SMT DEF ReadMap, Then
<1>2. Len(end) = 1 /\ Len(end) \in Nat
  OBVIOUS
<1> HIDE DEF end
<1>3. Reads(r1, m1, pos + 4, buf) /\ (r1.is = "ok" => r1.value \in Int)
  BY NumbersRead
<1>4. r1.is = "ok" => m1 = r1 /\ r1.pos \in Nat /\ pos <= r1.pos
  <2> HIDE DEF r1, m1
  <2> QED
    BY <1>3 DEF Reads, Passes
<1>5. r1.is = "ok" => Passes(r2, m2, r1.pos)
  <2> HIDE DEF r1, m1
  <2> QED
    BY <1>3, <1>4, ReadPairsPasses
<1>6. r1.is = "ok" /\ r2.is = "ok" => m2 = r2 /\ r2.pos \in Nat /\ pos <= r2.pos
  <2> HIDE DEF r1, m1, r2, m2
  <2> QED
    BY <1>4, <1>5 DEF Passes
<1>7. r1.is = "ok" /\ r2.is = "ok" => Reads(r3, m3, r2.pos + 1, buf)
  <2> HIDE DEF r1, m1, r2, m2
  <2> QED
    BY <1>2, <1>6, ReadConstantReads
<1> HIDE DEF r1, m1, r2, m2, r3, m3, b
<1> QED
  BY <1>1, <1>3, <1>4, <1>5, <1>6, <1>7 DEF Reads, Passes, b

\* ... a map with its class, ...
LEMMA ReadHashtableReads ==
  ASSUME NEW buf \in Text, NEW more \in Text, NEW pos \in Nat
  PROVE  Reads(ReadHashtable(buf, pos), ReadHashtable(buf \o more, pos), pos, buf)
<1> DEFINE b == buf \o more
           r1 == ReadProlog(buf, pos)
           m1 == ReadProlog(b, pos)
           r2 == ReadConstant(buf, r1.pos, HashHeader)
           m2 == ReadConstant(b, m1.pos, HashHeader)
           r3 == ReadMap(buf, r2.pos)
           m3 == ReadMap(b, m2.pos)
<1>1. /\ ReadHashtable(buf, pos) =
           IF r1.is = "ok" THEN IF r2.is = "ok" THEN r3 ELSE r2 ELSE r1
      /\ ReadHashtable(b, pos) =
           IF m1.is = "ok" THEN IF m2.is = "ok" THEN m3 ELSE m2 ELSE m1
  BY SMT DEF ReadHashtable, Then
<1>2. Len(HashHeader) \in Nat
  BY DEF HashHeader
<1>3. Reads(r1, m1, pos + 1, buf)
  BY ReadPrologReads
<1>4. r1.is = "ok" => m1 = r1 /\ r1.pos \in Nat /\ pos <= r1.pos
  <2> HIDE DEF r1, m1
  <2> QED
    BY <1>3 DEF Reads, Passes
<1>5. r1.is = "ok" => Reads(r2, m2, r1.pos + Len(HashHeader), buf)
  <2> HIDE DEF r1, m1
  <2> QED
    BY <1>2, <1>4, ReadConstantReads
<1>6. r1.is = "ok" /\ r2.is = "ok" => m2 = r2 /\ r2.pos \in Nat /\ pos <= r2.pos
  <2> HIDE DEF r1, m1, r2, m2
  <2> QED
    BY <1>2, <1>4, <1>5 DEF Reads, Passes
<1>7. r1.is = "ok" /\ r2.is = "ok" => Reads(r3, m3, r2.pos, buf)
  <2> HIDE DEF r1, m1, r2, m2
  <2> QED
    BY <1>6, ReadMapReads
<1> HIDE DEF r1, m1, r2, m2, r3, m3, b
<1> QED
  BY <1>1, <1>2, <1>3, <1>4, <1>5, <1>6, <1>7 DEF Reads, Passes, b

\* ... an MDC, ...
LEMMA ReadMDCReads ==
  ASSUME NEW buf \in Text, NEW more \in Text, NEW pos \in Nat
  PROVE  Reads(ReadMDC(buf, pos), ReadMDC(buf \o more, pos), pos + 1, buf)
<1> DEFINE b == buf \o more
           r == ReadByte(buf, pos)
           m == ReadByte(b, pos)
           Rest(c, s) == IF s.value = TC_NULL THEN Ok(<<>>, s.pos)
                         ELSE IF s.value = TC_OBJECT THEN ReadHashtable(c, s.pos) ELSE Invalid
<1>1. Reads(r, m, pos + 1, buf)
  BY ReadByteReads
<1>2. /\ ReadMDC(buf, pos) = IF r.is = "ok" THEN Rest(buf, r) ELSE r
      /\ ReadMDC(b, pos) = IF m.is = "ok" THEN Rest(b, m) ELSE m
  BY SMT DEF ReadMDC, Then, TC_OBJECT, TC_NULL
<1>3. r.is = "ok" => Reads(ReadHashtable(buf, r.pos), ReadHashtable(b, r.pos), r.pos, buf)
  <2> HIDE DEF r, m
  <2> QED
    BY <1>1, ReadHashtableReads DEF Reads, Passes
<1> HIDE DEF r, m, b
<1> QED
  BY <1>1, <1>2, <1>3 DEF Reads, Passes, Invalid, Ok, b

\* ... and an NDC, which may take no byte at all.
LEMMA ReadNDCReads ==
  ASSUME NEW buf \in Text, NEW more \in Text, NEW pos \in Nat
  PROVE  Reads(ReadNDC(buf, pos), ReadNDC(buf \o more, pos), pos, buf)
<1> DEFINE b == buf \o more
           r == ReadByte(buf, pos)
           m == ReadByte(b, pos)
           Rest(c, s) == IF s.value = TC_NULL THEN Ok(<<>>, s.pos)
                         ELSE IF s.value = TC_STRING THEN ReadText(c, s.pos, 2) ELSE Ok(<<>>, pos)
<1>1. Reads(r, m, pos + 1, buf)
  BY ReadByteReads
<1>2. /\ ReadNDC(buf, pos) = IF r.is = "ok" THEN Rest(buf, r) ELSE r
      /\ ReadNDC(b, pos) = IF m.is = "ok" THEN Rest(b, m) ELSE m
  BY SMT DEF ReadNDC, Then, TC_STRING, TC_NULL
<1>3. r.is = "ok" => Reads(ReadText(buf, r.pos, 2), ReadText(b, r.pos, 2), r.pos + 2, buf)
  <2> HIDE DEF r, m
  <2> QED
    BY <1>1, ReadTextReads DEF Reads, Passes
<1>4. Len(buf) \in Nat
  BY TextProps
<1> HIDE DEF r, m, b
<1> QED
  BY <1>1, <1>2, <1>3, <1>4 DEF Reads, Passes, Ok, b

\* Every field; the first one of an event takes a byte.
LEMMA ReadFieldReads ==
  ASSUME NEW buf \in Text, NEW more \in Text, NEW pos \in Nat, NEW field
  PROVE  /\ Reads(ReadField(buf, pos, field), ReadField(buf \o more, pos, field), pos, buf)
         /\ field \in {"object", "m_LoggerName"} =>
              (ReadField(buf, pos, field).is = "ok" => pos + 1 <= ReadField(buf, pos, field).pos)
<1> DEFINE b == buf \o more
           Constant(c, bytes) == ReadConstant(c, pos, bytes)
           Texts == {"m_LoggerName", "m_Message", "m_ThreadName"}
           Constants == {"lookupsRequired", "null", "blockData", "blockLength", "end"}
           Other(c) == IF ReadText(c, pos, 4).is = "ok"
                       THEN Ok(CString(ReadText(c, pos, 4).value), ReadText(c, pos, 4).pos) ELSE ReadText(c, pos, 4)
<1>1. CASE field = "object"
  <2>1. ReadField(buf, pos, field) = ReadObjectCode(buf, pos) /\ ReadField(b, pos, field) = ReadObjectCode(b, pos)
    BY <1>1 DEF ReadField
  <2>2. Reads(ReadObjectCode(buf, pos), ReadObjectCode(b, pos), pos + 1, buf)
    BY ReadObjectCodeReads
  <2> QED
    BY <2>1, <2>2 DEF Reads, Passes
<1>2. CASE field = "prolog"
  <2>1. ReadField(buf, pos, field) = ReadProlog(buf, pos) /\ ReadField(b, pos, field) = ReadProlog(b, pos)
    BY <1>2 DEF ReadField
  <2>2. Reads(ReadProlog(buf, pos), ReadProlog(b, pos), pos + 1, buf)
    BY ReadPrologReads
  <2> QED
    BY <1>2, <2>1, <2>2 DEF Reads, Passes
<1>3. CASE field \in Constants
  <2>1. PICK bytes : /\ Len(bytes) \in Nat
                     /\ ReadField(buf, pos, field) = Constant(buf, bytes)
                     /\ ReadField(b, pos, field) = Constant(b, bytes)
    <3>1. CASE field = "lookupsRequired"
      <4>1. /\ ReadField(buf, pos, field) = Constant(buf, <<0, 0>>)
            /\ ReadField(b, pos, field) = Constant(b, <<0, 0>>)
        BY <3>1 DEF ReadField
      <4>2. Len(<<0, 0>>) \in Nat
        OBVIOUS
      <4> QED
        BY <4>1, <4>2
    <3>2. CASE field = "null"
      <4>1. /\ ReadField(buf, pos, field) = Constant(buf, Null)
            /\ ReadField(b, pos, field) = Constant(b, Null)
        BY <3>2 DEF ReadField
      <4>2. Len(Null) \in Nat
        BY DEF Null
      <4> QED
        BY <4>1, <4>2
    <3>3. CASE field = "blockData"
      <4>1. /\ ReadField(buf, pos, field) = Constant(buf, <<TC_BLOCKDATA>>)
            /\ ReadField(b, pos, field) = Constant(b, <<TC_BLOCKDATA>>)
        BY <3>3 DEF ReadField
      <4>2. Len(<<TC_BLOCKDATA>>) \in Nat
        OBVIOUS
      <4> QED
        BY <4>1, <4>2
    <3>4. CASE field = "blockLength"
      <4>1. /\ ReadField(buf, pos, field) = Constant(buf, <<4>>)
            /\ ReadField(b, pos, field) = Constant(b, <<4>>)
        BY <3>4 DEF ReadField
      <4>2. Len(<<4>>) \in Nat
        OBVIOUS
      <4> QED
        BY <4>1, <4>2
    <3>5. CASE field = "end"
      <4>1. /\ ReadField(buf, pos, field) = Constant(buf, <<TC_ENDBLOCKDATA>>)
            /\ ReadField(b, pos, field) = Constant(b, <<TC_ENDBLOCKDATA>>)
        BY <3>5 DEF ReadField
      <4>2. Len(<<TC_ENDBLOCKDATA>>) \in Nat
        OBVIOUS
      <4> QED
        BY <4>1, <4>2
    <3> QED
      BY <1>3, <3>1, <3>2, <3>3, <3>4, <3>5
  <2>2. Reads(Constant(buf, bytes), Constant(b, bytes), pos + Len(bytes), buf)
    BY <2>1, ReadConstantReads
  <2> HIDE DEF Constant
  <2> QED
    BY <1>3, <2>1, <2>2 DEF Reads, Passes
<1>4. CASE field \in {"timeStamp", "m_Timestamp", "level", "m_Level"}
  <2>1. \/ ReadField(buf, pos, field) = ReadLong(buf, pos) /\ ReadField(b, pos, field) = ReadLong(b, pos)
        \/ ReadField(buf, pos, field) = ReadInt(buf, pos) /\ ReadField(b, pos, field) = ReadInt(b, pos)
    BY <1>4 DEF ReadField
  <2>2. /\ Reads(ReadLong(buf, pos), ReadLong(b, pos), pos + 8, buf)
        /\ Reads(ReadInt(buf, pos), ReadInt(b, pos), pos + 4, buf)
    BY NumbersRead
  <2> QED
    BY <1>4, <2>1, <2>2 DEF Reads, Passes
<1>5. CASE field \in {"logger", "message", "threadName"}
  <2>1. ReadField(buf, pos, field) = ReadString(buf, pos) /\ ReadField(b, pos, field) = ReadString(b, pos)
    BY <1>5 DEF ReadField
  <2>2. Reads(ReadString(buf, pos), ReadString(b, pos), pos + 3, buf)
    BY ReadStringReads
  <2> QED
    BY <1>5, <2>1, <2>2 DEF Reads, Passes
<1>6. CASE field \in {"fullInfo", "mdc", "ndc"}
  <2>1. \/ ReadField(buf, pos, field) = ReadLocationInfo(buf, pos) /\ ReadField(b, pos, field) = ReadLocationInfo(b, pos)
        \/ ReadField(buf, pos, field) = ReadMDC(buf, pos) /\ ReadField(b, pos, field) = ReadMDC(b, pos)
        \/ ReadField(buf, pos, field) = ReadNDC(buf, pos) /\ ReadField(b, pos, field) = ReadNDC(b, pos)
    BY <1>6 DEF ReadField
  <2>2. /\ Reads(ReadLocationInfo(buf, pos), ReadLocationInfo(b, pos), pos + 1, buf)
        /\ Reads(ReadMDC(buf, pos), ReadMDC(b, pos), pos + 1, buf)
        /\ Reads(ReadNDC(buf, pos), ReadNDC(b, pos), pos, buf)
    BY ReadLocationInfoReads, ReadMDCReads, ReadNDCReads
  <2> QED
    BY <1>6, <2>1, <2>2 DEF Reads, Passes
<1> DEFINE Known == {"object", "prolog", "timeStamp", "m_Timestamp", "level", "m_Level", "logger",
                     "message", "threadName", "fullInfo", "mdc", "ndc"} \cup Constants
<1>7. CASE field \in Texts
  <2>1. ReadField(buf, pos, field) = ReadText(buf, pos, 4) /\ ReadField(b, pos, field) = ReadText(b, pos, 4)
    BY <1>7 DEF ReadField
  <2>2. Reads(ReadText(buf, pos, 4), ReadText(b, pos, 4), pos + 4, buf)
    BY ReadTextReads
  <2> QED
    BY <2>1, <2>2 DEF Reads, Passes
<1>8. CASE field \notin Known \cup Texts
  <2>1. /\ ReadField(buf, pos, field) = Other(buf)
        /\ ReadField(b, pos, field) = Other(b)
    <3> HIDE DEF b
    <3> QED
      BY <1>8, SMT DEF ReadField, Then
  <2>2. Reads(ReadText(buf, pos, 4), ReadText(b, pos, 4), pos + 4, buf)
    BY ReadTextReads
  <2>3. field \notin {"object", "m_LoggerName"}
    BY <1>8
  <2> QED
    BY <2>1, <2>2, <2>3 DEF Reads, Passes, Ok
<1> QED
  BY <1>1, <1>2, <1>3, <1>4, <1>5, <1>6, <1>7, <1>8

\* What comes of r when field is read behind it.
LEMMA NextFieldIs ==
  ASSUME NEW buf, NEW r, NEW field
  PROVE  LET s == ReadField(buf, r.pos, field) IN
         ReadNextField(buf, r, field) =
           IF r.is = "ok"
           THEN IF s.is = "ok"
                THEN Ok([f \in DOMAIN r.value \cup {field} |-> IF f = field THEN s.value ELSE r.value[f]], s.pos)
                ELSE s
           ELSE r
BY SMT DEF ReadNextField, Then

\* With one more field, what was read stays as it is when more bytes come.
LEMMA NextFieldReads ==
  ASSUME NEW buf \in Text, NEW more \in Text, NEW r, NEW m, NEW field, NEW least \in Nat, NEW start \in Nat,
         Passes(r, m, start),
         least <= start \/ (start + 1 = least /\ field \in {"object", "m_LoggerName"}),
         r.is # "ok" => Reads(r, m, least, buf)
  PROVE  Reads(ReadNextField(buf, r, field), ReadNextField(buf \o more, m, field), least, buf)
<1> DEFINE b == buf \o more
           s == ReadField(buf, r.pos, field)
           t == ReadField(b, m.pos, field)
           Joined(u, v) == [f \in DOMAIN u.value \cup {field} |-> IF f = field THEN v.value ELSE u.value[f]]
<1>1. /\ ReadNextField(buf, r, field) =
           IF r.is = "ok" THEN IF s.is = "ok" THEN Ok(Joined(r, s), s.pos) ELSE s ELSE r
      /\ ReadNextField(b, m, field) =
           IF m.is = "ok" THEN IF t.is = "ok" THEN Ok(Joined(m, t), t.pos) ELSE t ELSE m
  BY NextFieldIs
<1>2. r.is = "ok" => m = r /\ r.pos \in Nat /\ start <= r.pos
  BY DEF Passes
<1>3. r.is = "ok" => Reads(s, t, r.pos, buf)
  BY <1>2, ReadFieldReads
<1>4. r.is = "ok" /\ field \in {"object", "m_LoggerName"} => (s.is = "ok" => r.pos + 1 <= s.pos)
  BY <1>2, ReadFieldReads
<1> HIDE DEF s, t, Joined, b
<1>5. CASE r.is = "ok" /\ s.is = "ok"
  <2>1. t = s /\ m = r /\ s.pos \in Nat /\ r.pos <= s.pos /\ s.pos <= Len(buf)
    BY <1>2, <1>3, <1>5 DEF Reads, Passes
  <2>2. least <= s.pos
    BY <1>2, <1>4, <1>5, <2>1
  <2> QED
    BY <1>1, <1>5, <2>1, <2>2 DEF Reads, Passes, Ok, b
<1>6. CASE r.is = "ok" /\ s.is # "ok"
  <2>1. m = r /\ (s.is # "small" => t = s)
    BY <1>2, <1>3, <1>6 DEF Reads, Passes
  <2> QED
    BY <1>1, <1>6, <2>1 DEF Reads, Passes, b
<1>7. CASE r.is # "ok"
  BY <1>1, <1>7 DEF Reads, Passes, b
<1> QED
  BY <1>5, <1>6, <1>7

\* A function that reads the first n fields.
ReadsUpTo(f, buf, fields, n) ==
  f = [i \in 0..n |-> IF i = 0 THEN Ok(<<>>, 0) ELSE ReadNextField(buf, f[i - 1], fields[i])]

\* There is such a function for every n.
LEMMA FieldsReaderExists ==
  ASSUME NEW buf, NEW fields
  PROVE  \A n \in Nat : \E f : ReadsUpTo(f, buf, fields, n)
<1> DEFINE S == {n \in Nat : \E f : ReadsUpTo(f, buf, fields, n)}
<1>1. 0 \in S
  <2> DEFINE f == [i \in 0..0 |-> Ok(<<>>, 0)]
  <2>1. ReadsUpTo(f, buf, fields, 0)
    BY DEF ReadsUpTo
  <2> QED
    BY <2>1
<1>2. ASSUME NEW n \in Nat, n \in S
      PROVE  n + 1 \in S
  <2>1. PICK f : ReadsUpTo(f, buf, fields, n)
    BY <1>2
  <2> DEFINE next == ReadNextField(buf, f[n], fields[n + 1])
             g == [i \in 0..(n + 1) |-> IF i = n + 1 THEN next ELSE f[i]]
  <2> HIDE DEF next
  <2>2. \A i \in 0..n : g[i] = f[i]
    OBVIOUS
  <2>3. ASSUME NEW i \in 0..(n + 1)
        PROVE  g[i] = IF i = 0 THEN Ok(<<>>, 0) ELSE ReadNextField(buf, g[i - 1], fields[i])
    <3>1. CASE i = n + 1
      <4>1. g[i] = next /\ i # 0 /\ g[i - 1] = f[n]
        BY <2>2, <3>1
      <4> HIDE DEF g
      <4> QED
        BY <3>1, <4>1 DEF next
    <3>2. CASE i # n + 1
      <4>1. i \in 0..n /\ (i # 0 => i - 1 \in 0..n)
        BY <3>2
      <4>2. g[i] = f[i] /\ (i # 0 => g[i - 1] = f[i - 1])
        BY <2>2, <4>1
      <4>3. f[i] = IF i = 0 THEN Ok(<<>>, 0) ELSE ReadNextField(buf, f[i - 1], fields[i])
        BY <2>1, <4>1 DEF ReadsUpTo
      <4> HIDE DEF g
      <4> QED
        BY <4>2, <4>3
    <3> QED
      BY <3>1, <3>2
  <2>4. g = [i \in 0..(n + 1) |-> g[i]]
    OBVIOUS
  <2> HIDE DEF g
  <2>5. ReadsUpTo(g, buf, fields, n + 1)
    BY <2>3, <2>4 DEF ReadsUpTo
  <2> QED
    BY <2>5
<1> HIDE DEF S
<1>3. Nat \subseteq S
  BY <1>1, <1>2, Induction
<1> QED
  BY <1>3 DEF S

\* ReadFields is the last value of one.
LEMMA ReadFieldsIs ==
  ASSUME NEW buf, NEW protocol, Len(Fields(protocol)) \in Nat
  PROVE  \E f : /\ ReadsUpTo(f, buf, Fields(protocol), Len(Fields(protocol)))
                /\ ReadFields(buf, protocol) = f[Len(Fields(protocol))]
<1>1. \E f : ReadsUpTo(f, buf, Fields(protocol), Len(Fields(protocol)))
  BY FieldsReaderExists
<1> QED
  BY <1>1 DEF ReadFields, ReadsUpTo

\* So the fields of an event stay as they are when more bytes come, and they
\* take at least one.
LEMMA ReadFieldsReads ==
  ASSUME NEW buf \in Text, NEW more \in Text, NEW protocol \in {"default", "bytes"}
  PROVE  Reads(ReadFields(buf, protocol), ReadFields(buf \o more, protocol), 1, buf)
<1> DEFINE fields == Fields(protocol)
           n == Len(fields)
           m == buf \o more
<1>1. n \in Nat /\ 1 <= n /\ fields[1] \in {"object", "m_LoggerName"}
  <2>1. CASE protocol = "default"
    BY <2>1 DEF Fields
  <2>2. CASE protocol = "bytes"
    BY <2>2 DEF Fields
  <2> QED
    BY <2>1, <2>2
<1>2. PICK f : ReadsUpTo(f, buf, fields, n) /\ ReadFields(buf, protocol) = f[n]
  BY <1>1, ReadFieldsIs
<1>3. PICK g : ReadsUpTo(g, m, fields, n) /\ ReadFields(m, protocol) = g[n]
  BY <1>1, ReadFieldsIs
<1> HIDE DEF fields, n, m
<1> DEFINE S == {k \in Nat : k + 1 <= n => Reads(f[k + 1], g[k + 1], 1, buf)}
<1>4. 0 \in S
  <2>1. f[0] = Ok(<<>>, 0) /\ g[0] = Ok(<<>>, 0)
    BY <1>1, <1>2, <1>3 DEF ReadsUpTo
  <2>2. f[1] = ReadNextField(buf, f[0], fields[1]) /\ g[1] = ReadNextField(m, g[0], fields[1])
    BY <1>1, <1>2, <1>3 DEF ReadsUpTo
  <2>3. Passes(f[0], g[0], 0) /\ f[0].is = "ok"
    BY <2>1 DEF Passes, Ok
  <2>4. Reads(f[1], g[1], 1, buf)
    BY <1>1, <2>2, <2>3, NextFieldReads DEF m
  <2> QED
    BY <2>4
<1>5. ASSUME NEW k \in Nat, k \in S
      PROVE  k + 1 \in S
  <2> SUFFICES ASSUME (k + 1) + 1 <= n
               PROVE  Reads(f[(k + 1) + 1], g[(k + 1) + 1], 1, buf)
    OBVIOUS
  <2>1. Reads(f[k + 1], g[k + 1], 1, buf)
    BY <1>1, <1>5
  <2> DEFINE j == (k + 1) + 1
  <2>2. j \in 0..n /\ j # 0 /\ j - 1 = k + 1
    BY <1>1
  <2> HIDE DEF j
  <2>3. f[j] = ReadNextField(buf, f[k + 1], fields[j]) /\ g[j] = ReadNextField(m, g[k + 1], fields[j])
    BY <1>2, <1>3, <2>2 DEF ReadsUpTo
  <2>4. Passes(f[k + 1], g[k + 1], 1)
    BY <2>1 DEF Reads
  <2>5. Reads(ReadNextField(buf, f[k + 1], fields[j]), ReadNextField(m, g[k + 1], fields[j]), 1, buf)
    BY <2>1, <2>4, NextFieldReads DEF m
  <2>6. Reads(f[j], g[j], 1, buf)
    BY <2>3, <2>5
  <2> QED
    BY <2>6 DEF j
<1> HIDE DEF S
<1>6. Nat \subseteq S
  BY <1>4, <1>5, Induction
<1>7. n - 1 \in Nat /\ (n - 1) + 1 = n
  BY <1>1
<1>8. n - 1 \in S
  BY <1>6, <1>7
<1>9. Reads(f[(n - 1) + 1], g[(n - 1) + 1], 1, buf)
  BY <1>1, <1>7, <1>8 DEF S
<1> QED
  BY <1>2, <1>3, <1>7, <1>9 DEF m

\* The widths of a msgpack length are natural numbers.
LEMMA PowersOfTwo == \A n \in 0..4 : 2 ^ n \in Nat
<1> SUFFICES ASSUME NEW n \in 0..4
             PROVE  2 ^ n \in Nat
  OBVIOUS
<1>1. 2 ^ 0 = 1 /\ 2 ^ 1 = 2 /\ 2 ^ 2 = 4 /\ 2 ^ 3 = 8 /\ 2 ^ 4 = 16
  OBVIOUS
<1>2. CASE n = 0
  BY <1>1, <1>2
<1>3. CASE n = 1
  BY <1>1, <1>3
<1>4. CASE n = 2
  BY <1>1, <1>4
<1>5. CASE n = 3
  BY <1>1, <1>5
<1>6. CASE n = 4
  BY <1>1, <1>6
<1> QED
  BY <1>2, <1>3, <1>4, <1>5, <1>6

\* An item holds a number of items.
ReadsItem(r, m, least, buf) == Reads(r, m, least, buf) /\ (r.is = "ok" => r.value.holds \in Nat)

\* An item that is all in its first byte.
LEMMA ItemReads ==
  ASSUME NEW buf \in Text, NEW pos \in 0..Len(buf), NEW type, NEW value, NEW holds \in Nat
  PROVE  ReadsItem(Item(type, value, holds, pos), Item(type, value, holds, pos), pos, buf)
<1>1. Len(buf) \in Nat
  BY TextProps
<1> QED
  BY <1>1 DEF ReadsItem, Reads, Passes, Item, Ok

\* An item that holds no others, ...
LEMMA ScalarReads ==
  ASSUME NEW buf \in Text, NEW type, NEW r, NEW m, NEW least \in Nat, Reads(r, m, least, buf)
  PROVE  ReadsItem(Scalar(type, r), Scalar(type, m), least, buf)
<1>1. /\ Scalar(type, r) = IF r.is = "ok" THEN Item(type, r.value, 0, r.pos) ELSE r
      /\ Scalar(type, m) = IF m.is = "ok" THEN Item(type, m.value, 0, m.pos) ELSE m
  BY SMT DEF Scalar, Then
<1> QED
  BY <1>1 DEF ReadsItem, Reads, Passes, Item, Ok

\* ... and one that does.
LEMMA AggregateReads ==
  ASSUME NEW buf \in Text, NEW more \in Text, NEW pos \in Nat, NEW n \in Nat, NEW type, NEW each \in {1, 2}
  PROVE  ReadsItem(Aggregate(type, ReadBytes(buf, pos, n), each),
                   Aggregate(type, ReadBytes(buf \o more, pos, n), each), pos, buf)
<1> DEFINE r == ReadBytes(buf, pos, n)
           m == ReadBytes(buf \o more, pos, n)
<1>1. Reads(r, m, pos + n, buf)
  BY ReadBytesReads
<1>2. r.is = "ok" => each * Unsigned(r.value) \in Nat
  <2>1. r.is = "ok" => Unsigned(r.value) \in Nat
    BY ReadBytesValue, UnsignedIsNat
  <2> HIDE DEF r
  <2> QED
    BY <2>1
<1>3. /\ Aggregate(type, r, each) =
           IF r.is = "ok" THEN Item(type, <<>>, each * Unsigned(r.value), r.pos) ELSE r
      /\ Aggregate(type, m, each) =
           IF m.is = "ok" THEN Item(type, <<>>, each * Unsigned(m.value), m.pos) ELSE m
  BY SMT DEF Aggregate, Then
<1> DEFINE holds == each * Unsigned(r.value)
<1>4. r.is = "ok" => holds \in Nat
  BY <1>2
<1>5. r.is = "ok" => /\ Aggregate(type, r, each) = Item(type, <<>>, holds, r.pos)
                     /\ Aggregate(type, m, each) = Item(type, <<>>, holds, r.pos)
  <2>1. r.is = "ok" => m = r
    <3> HIDE DEF r, m
    <3> QED
      BY <1>1 DEF Reads, Passes
  <2> HIDE DEF r, m
  <2> QED
    BY <1>3, <2>1 DEF holds
<1>6. r.is # "ok" => Aggregate(type, r, each) = r /\ (r.is # "small" => Aggregate(type, m, each) = r)
  <2> HIDE DEF r, m
  <2>1. r.is # "small" => m = r
    BY <1>1 DEF Reads, Passes
  <2> QED
    BY <1>3, <2>1
<1> HIDE DEF r, m, holds
<1>7. CASE r.is = "ok"
  <2>1. r.pos \in Nat /\ pos <= r.pos /\ r.pos <= Len(buf)
    BY <1>1, <1>7 DEF Reads, Passes
  <2> QED
    BY <1>4, <1>5, <1>7, <2>1 DEF ReadsItem, Reads, Passes, Item, Ok, r, m
<1>8. CASE r.is # "ok"
  BY <1>6, <1>8 DEF ReadsItem, Reads, Passes, r, m
<1> QED
  BY <1>7, <1>8

\* A typed item with a length of its own.
LEMMA ExtReads ==
  ASSUME NEW buf \in Text, NEW more \in Text, NEW pos \in Nat, NEW n \in Nat
  PROVE  ReadsItem(ReadExt(buf, pos, n), ReadExt(buf \o more, pos, n), pos, buf)
<1> DEFINE b == buf \o more
           r == ReadBytes(buf, pos, n)
           m == ReadBytes(b, pos, n)
           k == Unsigned(r.value) + 1
           s == ReadBytes(buf, r.pos, k)
           t == ReadBytes(b, r.pos, k)
<1>1. Reads(r, m, pos + n, buf)
  BY ReadBytesReads
<1>2. r.is = "ok" => k \in Nat
  <2>1. r.is = "ok" => Unsigned(r.value) \in Nat
    BY ReadBytesValue, UnsignedIsNat
  <2> HIDE DEF r
  <2> QED
    BY <2>1
<1>3. /\ ReadExt(buf, pos, n) = IF r.is = "ok" THEN Scalar("ext", ReadBytes(buf, r.pos, Unsigned(r.value) + 1)) ELSE r
      /\ ReadExt(b, pos, n) = IF m.is = "ok" THEN Scalar("ext", ReadBytes(b, m.pos, Unsigned(m.value) + 1)) ELSE m
  BY SMT DEF ReadExt, Then
<1>4. r.is = "ok" => m = r /\ r.pos \in Nat /\ pos <= r.pos
  <2> HIDE DEF r, m
  <2> QED
    BY <1>1 DEF Reads, Passes
<1>5. r.is = "ok" => ReadExt(buf, pos, n) = Scalar("ext", s) /\ ReadExt(b, pos, n) = Scalar("ext", t)
  <2> HIDE DEF r, m
  <2> QED
    BY <1>3, <1>4
<1>6. r.is = "ok" => Reads(s, t, r.pos + k, buf) /\ r.pos + k \in Nat /\ pos <= r.pos + k
  <2> HIDE DEF r, m, k
  <2> QED
    BY <1>2, <1>4, ReadBytesReads, SMTT(30)
<1>7. CASE r.is = "ok"
  <2>1. ReadsItem(Scalar("ext", s), Scalar("ext", t), r.pos + k, buf)
    <3> HIDE DEF s, t, r, k
    <3> QED
      BY <1>6, <1>7, ScalarReads
  <2>2. ReadsItem(ReadExt(buf, pos, n), ReadExt(b, pos, n), r.pos + k, buf)
    BY <1>5, <1>7, <2>1
  <2>3. ReadsItem(ReadExt(buf, pos, n), ReadExt(b, pos, n), pos, buf)
    <3> HIDE DEF r, k, b
    <3> QED
      BY <1>6, <1>7, <2>2 DEF ReadsItem, Reads, Passes
  <2> QED
    BY <2>3
<1>8. CASE r.is # "ok"
  <2>1. ReadsItem(ReadExt(buf, pos, n), ReadExt(b, pos, n), pos, buf)
    <3> HIDE DEF r, m, b
    <3> QED
      BY <1>1, <1>3, <1>8 DEF ReadsItem, Reads, Passes
  <2> QED
    BY <2>1
<1> QED
  BY <1>7, <1>8

\* An item ends behind its beginning.
LEMMA ScalarBehind ==
  ASSUME NEW buf \in Text, NEW type, NEW r, NEW m, NEW pos \in Nat, NEW n \in Nat, Reads(r, m, pos + n, buf)
  PROVE  ReadsItem(Scalar(type, r), Scalar(type, m), pos, buf)
<1>1. Reads(r, m, pos, buf)
  BY DEF Reads, Passes
<1> QED
  BY <1>1, ScalarReads

\* What comes behind each first byte stays as it is when more bytes come.
LEMMA ReadItemOfReads ==
  ASSUME NEW buf \in Text, NEW more \in Text, NEW pos \in 0..Len(buf), NEW c \in Byte
  PROVE  ReadsItem(ReadItemOf(buf, c, pos), ReadItemOf(buf \o more, c, pos), pos, buf)
<1> DEFINE b == buf \o more
<1>0. pos \in Nat /\ Len(buf) \in Nat
  BY TextProps
<1>1. CASE c \in 0..127
  <2>1. /\ c \notin 128..143 /\ c \notin 144..159 /\ c \notin 160..191 /\ c \notin {192, 194, 195} /\ c \notin 196..198
        /\ c \notin 199..201 /\ c \notin {202, 203} /\ c \notin 204..207 /\ c \notin 208..211 /\ c \notin 212..216
        /\ c \notin 217..219 /\ c \notin {220, 221} /\ c \notin {222, 223} /\ c \notin 224..255
    BY <1>1
  <2>2. /\ ReadItemOf(buf, c, pos) = Item("uint", <<c>>, 0, pos)
        /\ ReadItemOf(b, c, pos) = Item("uint", <<c>>, 0, pos)
    BY <1>1, <2>1, SMT DEF ReadItemOf
  <2> QED
    BY <2>2, ItemReads
<1>2. CASE c \in 128..143
  <2>1. /\ c \notin 0..127 /\ c \notin 144..159 /\ c \notin 160..191 /\ c \notin {192, 194, 195} /\ c \notin 196..198
        /\ c \notin 199..201 /\ c \notin {202, 203} /\ c \notin 204..207 /\ c \notin 208..211 /\ c \notin 212..216
        /\ c \notin 217..219 /\ c \notin {220, 221} /\ c \notin {222, 223} /\ c \notin 224..255
    BY <1>2
  <2>2. /\ ReadItemOf(buf, c, pos) = Item("map", <<>>, 2 * (c - 128), pos)
        /\ ReadItemOf(b, c, pos) = Item("map", <<>>, 2 * (c - 128), pos)
    BY <1>2, <2>1, SMT DEF ReadItemOf
  <2>3. 2 * (c - 128) \in Nat
    BY <1>2
  <2> QED
    BY <2>2, <2>3, ItemReads
<1>3. CASE c \in 144..159
  <2>1. /\ c \notin 0..127 /\ c \notin 128..143 /\ c \notin 160..191 /\ c \notin {192, 194, 195} /\ c \notin 196..198
        /\ c \notin 199..201 /\ c \notin {202, 203} /\ c \notin 204..207 /\ c \notin 208..211 /\ c \notin 212..216
        /\ c \notin 217..219 /\ c \notin {220, 221} /\ c \notin {222, 223} /\ c \notin 224..255
    BY <1>3
  <2>2. /\ ReadItemOf(buf, c, pos) = Item("array", <<>>, c - 144, pos)
        /\ ReadItemOf(b, c, pos) = Item("array", <<>>, c - 144, pos)
    BY <1>3, <2>1, SMT DEF ReadItemOf
  <2>3. c - 144 \in Nat
    BY <1>3
  <2> QED
    BY <2>2, <2>3, ItemReads
<1>4. CASE c \in 160..191
  <2>1. /\ c \notin 0..127 /\ c \notin 128..143 /\ c \notin 144..159 /\ c \notin {192, 194, 195} /\ c \notin 196..198
        /\ c \notin 199..201 /\ c \notin {202, 203} /\ c \notin 204..207 /\ c \notin 208..211 /\ c \notin 212..216
        /\ c \notin 217..219 /\ c \notin {220, 221} /\ c \notin {222, 223} /\ c \notin 224..255
    BY <1>4
  <2>2. /\ ReadItemOf(buf, c, pos) = Scalar("text", ReadBytes(buf, pos, c - 160))
        /\ ReadItemOf(b, c, pos) = Scalar("text", ReadBytes(b, pos, c - 160))
    BY <1>4, <2>1, SMT DEF ReadItemOf
  <2> DEFINE n == c - 160
  <2>3. n \in Nat
    BY <1>4
  <2> HIDE DEF n
  <2>4. Reads(ReadBytes(buf, pos, n), ReadBytes(b, pos, n), pos + n, buf)
    BY <1>0, <2>3, ReadBytesReads
  <2> QED
    BY <1>0, <2>2, <2>3, <2>4, ScalarBehind, ZenonT(60) DEF n
<1>5. CASE c \in {192, 194, 195}
  <2>1. /\ c \notin 0..127 /\ c \notin 128..143 /\ c \notin 144..159 /\ c \notin 160..191 /\ c \notin 196..198
        /\ c \notin 199..201 /\ c \notin {202, 203} /\ c \notin 204..207 /\ c \notin 208..211 /\ c \notin 212..216
        /\ c \notin 217..219 /\ c \notin {220, 221} /\ c \notin {222, 223} /\ c \notin 224..255
    BY <1>5
  <2>2. /\ ReadItemOf(buf, c, pos) = Item("nil", <<>>, 0, pos)
        /\ ReadItemOf(b, c, pos) = Item("nil", <<>>, 0, pos)
    BY <1>5, <2>1, SMT DEF ReadItemOf
  <2> QED
    BY <2>2, ItemReads
<1>6. CASE c \in 196..198
  <2>1. /\ c \notin 0..127 /\ c \notin 128..143 /\ c \notin 144..159 /\ c \notin 160..191 /\ c \notin {192, 194, 195}
        /\ c \notin 199..201 /\ c \notin {202, 203} /\ c \notin 204..207 /\ c \notin 208..211 /\ c \notin 212..216
        /\ c \notin 217..219 /\ c \notin {220, 221} /\ c \notin {222, 223} /\ c \notin 224..255
    BY <1>6
  <2>2. /\ ReadItemOf(buf, c, pos) = Scalar("text", ReadText(buf, pos, 2 ^ (c - 196)))
        /\ ReadItemOf(b, c, pos) = Scalar("text", ReadText(b, pos, 2 ^ (c - 196)))
    BY <1>6, <2>1, SMT DEF ReadItemOf
  <2> DEFINE n == 2 ^ (c - 196)
  <2>3. n \in Nat
    <3>1. c - 196 \in 0..4
      BY <1>6
    <3> QED
      BY <3>1, PowersOfTwo
  <2> HIDE DEF n
  <2>4. Reads(ReadText(buf, pos, n), ReadText(b, pos, n), pos + n, buf)
    BY <1>0, <2>3, ReadTextReads
  <2> QED
    BY <1>0, <2>2, <2>3, <2>4, ScalarBehind, ZenonT(60) DEF n
<1>7. CASE c \in 199..201
  <2>1. /\ c \notin 0..127 /\ c \notin 128..143 /\ c \notin 144..159 /\ c \notin 160..191 /\ c \notin {192, 194, 195}
        /\ c \notin 196..198 /\ c \notin {202, 203} /\ c \notin 204..207 /\ c \notin 208..211 /\ c \notin 212..216
        /\ c \notin 217..219 /\ c \notin {220, 221} /\ c \notin {222, 223} /\ c \notin 224..255
    BY <1>7
  <2>2. /\ ReadItemOf(buf, c, pos) = ReadExt(buf, pos, 2 ^ (c - 199))
        /\ ReadItemOf(b, c, pos) = ReadExt(b, pos, 2 ^ (c - 199))
    BY <1>7, <2>1, SMT DEF ReadItemOf
  <2> DEFINE n == 2 ^ (c - 199)
  <2>3. n \in Nat
    <3>1. c - 199 \in 0..4
      BY <1>7
    <3> QED
      BY <3>1, PowersOfTwo
  <2> QED
    BY <1>0, <2>2, <2>3, ExtReads
<1>8. CASE c \in {202, 203}
  <2>1. /\ c \notin 0..127 /\ c \notin 128..143 /\ c \notin 144..159 /\ c \notin 160..191 /\ c \notin {192, 194, 195}
        /\ c \notin 196..198 /\ c \notin 199..201 /\ c \notin 204..207 /\ c \notin 208..211 /\ c \notin 212..216
        /\ c \notin 217..219 /\ c \notin {220, 221} /\ c \notin {222, 223} /\ c \notin 224..255
    BY <1>8
  <2>2. /\ ReadItemOf(buf, c, pos) = Scalar("float", ReadBytes(buf, pos, IF c = 202 THEN 4 ELSE 8))
        /\ ReadItemOf(b, c, pos) = Scalar("float", ReadBytes(b, pos, IF c = 202 THEN 4 ELSE 8))
    BY <1>8, <2>1, SMT DEF ReadItemOf
  <2> DEFINE n == IF c = 202 THEN 4 ELSE 8
  <2>3. n \in Nat
    BY <1>8
  <2> HIDE DEF n
  <2>4. Reads(ReadBytes(buf, pos, n), ReadBytes(b, pos, n), pos + n, buf)
    BY <1>0, <2>3, ReadBytesReads
  <2> QED
    BY <1>0, <2>2, <2>3, <2>4, ScalarBehind, SMTT(30) DEF n
<1>9. CASE c \in 204..207
  <2>1. /\ c \notin 0..127 /\ c \notin 128..143 /\ c \notin 144..159 /\ c \notin 160..191 /\ c \notin {192, 194, 195}
        /\ c \notin 196..198 /\ c \notin 199..201 /\ c \notin {202, 203} /\ c \notin 208..211 /\ c \notin 212..216
        /\ c \notin 217..219 /\ c \notin {220, 221} /\ c \notin {222, 223} /\ c \notin 224..255
    BY <1>9
  <2>2. /\ ReadItemOf(buf, c, pos) = Scalar("uint", ReadBytes(buf, pos, 2 ^ (c - 204)))
        /\ ReadItemOf(b, c, pos) = Scalar("uint", ReadBytes(b, pos, 2 ^ (c - 204)))
    BY <1>9, <2>1, SMT DEF ReadItemOf
  <2> DEFINE n == 2 ^ (c - 204)
  <2>3. n \in Nat
    <3>1. c - 204 \in 0..4
      BY <1>9
    <3> QED
      BY <3>1, PowersOfTwo
  <2> HIDE DEF n
  <2>4. Reads(ReadBytes(buf, pos, n), ReadBytes(b, pos, n), pos + n, buf)
    BY <1>0, <2>3, ReadBytesReads
  <2> QED
    BY <1>0, <2>2, <2>3, <2>4, ScalarBehind, ZenonT(60) DEF n
<1>10. CASE c \in 208..211
  <2>1. /\ c \notin 0..127 /\ c \notin 128..143 /\ c \notin 144..159 /\ c \notin 160..191 /\ c \notin {192, 194, 195}
        /\ c \notin 196..198 /\ c \notin 199..201 /\ c \notin {202, 203} /\ c \notin 204..207 /\ c \notin 212..216
        /\ c \notin 217..219 /\ c \notin {220, 221} /\ c \notin {222, 223} /\ c \notin 224..255
    BY <1>10
  <2>2. /\ ReadItemOf(buf, c, pos) = Scalar("int", ReadBytes(buf, pos, 2 ^ (c - 208)))
        /\ ReadItemOf(b, c, pos) = Scalar("int", ReadBytes(b, pos, 2 ^ (c - 208)))
    BY <1>10, <2>1, SMT DEF ReadItemOf
  <2> DEFINE n == 2 ^ (c - 208)
  <2>3. n \in Nat
    <3>1. c - 208 \in 0..4
      BY <1>10
    <3> QED
      BY <3>1, PowersOfTwo
  <2> HIDE DEF n
  <2>4. Reads(ReadBytes(buf, pos, n), ReadBytes(b, pos, n), pos + n, buf)
    BY <1>0, <2>3, ReadBytesReads
  <2> QED
    BY <1>0, <2>2, <2>3, <2>4, ScalarBehind, ZenonT(60) DEF n
<1>11. CASE c \in 212..216
  <2>1. /\ c \notin 0..127 /\ c \notin 128..143 /\ c \notin 144..159 /\ c \notin 160..191 /\ c \notin {192, 194, 195}
        /\ c \notin 196..198 /\ c \notin 199..201 /\ c \notin {202, 203} /\ c \notin 204..207 /\ c \notin 208..211
        /\ c \notin 217..219 /\ c \notin {220, 221} /\ c \notin {222, 223} /\ c \notin 224..255
    BY <1>11
  <2>2. /\ ReadItemOf(buf, c, pos) = Scalar("ext", ReadBytes(buf, pos, 2 ^ (c - 212) + 1))
        /\ ReadItemOf(b, c, pos) = Scalar("ext", ReadBytes(b, pos, 2 ^ (c - 212) + 1))
    BY <1>11, <2>1, SMT DEF ReadItemOf
  <2> DEFINE n == 2 ^ (c - 212) + 1
  <2>3. n \in Nat
    <3>1. c - 212 \in 0..4
      BY <1>11
    <3>2. 2 ^ (c - 212) \in Nat
      BY <3>1, PowersOfTwo
    <3> QED
      BY <3>2
  <2> HIDE DEF n
  <2>4. Reads(ReadBytes(buf, pos, n), ReadBytes(b, pos, n), pos + n, buf)
    BY <1>0, <2>3, ReadBytesReads
  <2> QED
    BY <1>0, <2>2, <2>3, <2>4, ScalarBehind, ZenonT(60) DEF n
<1>12. CASE c \in 217..219
  <2>1. /\ c \notin 0..127 /\ c \notin 128..143 /\ c \notin 144..159 /\ c \notin 160..191 /\ c \notin {192, 194, 195}
        /\ c \notin 196..198 /\ c \notin 199..201 /\ c \notin {202, 203} /\ c \notin 204..207 /\ c \notin 208..211
        /\ c \notin 212..216 /\ c \notin {220, 221} /\ c \notin {222, 223} /\ c \notin 224..255
    BY <1>12
  <2>2. /\ ReadItemOf(buf, c, pos) = Scalar("text", ReadText(buf, pos, 2 ^ (c - 217)))
        /\ ReadItemOf(b, c, pos) = Scalar("text", ReadText(b, pos, 2 ^ (c - 217)))
    BY <1>12, <2>1, SMT DEF ReadItemOf
  <2> DEFINE n == 2 ^ (c - 217)
  <2>3. n \in Nat
    <3>1. c - 217 \in 0..4
      BY <1>12
    <3> QED
      BY <3>1, PowersOfTwo
  <2> HIDE DEF n
  <2>4. Reads(ReadText(buf, pos, n), ReadText(b, pos, n), pos + n, buf)
    BY <1>0, <2>3, ReadTextReads
  <2> QED
    BY <1>0, <2>2, <2>3, <2>4, ScalarBehind, ZenonT(60) DEF n
<1>13. CASE c \in {220, 221}
  <2>1. /\ c \notin 0..127 /\ c \notin 128..143 /\ c \notin 144..159 /\ c \notin 160..191 /\ c \notin {192, 194, 195}
        /\ c \notin 196..198 /\ c \notin 199..201 /\ c \notin {202, 203} /\ c \notin 204..207 /\ c \notin 208..211
        /\ c \notin 212..216 /\ c \notin 217..219 /\ c \notin {222, 223} /\ c \notin 224..255
    BY <1>13
  <2>2. /\ ReadItemOf(buf, c, pos) = Aggregate("array", ReadBytes(buf, pos, 2 ^ (c - 219)), 1)
        /\ ReadItemOf(b, c, pos) = Aggregate("array", ReadBytes(b, pos, 2 ^ (c - 219)), 1)
    BY <1>13, <2>1, SMT DEF ReadItemOf
  <2> DEFINE n == 2 ^ (c - 219)
  <2>3. n \in Nat
    <3>1. c - 219 \in 0..4
      BY <1>13
    <3> QED
      BY <3>1, PowersOfTwo
  <2> QED
    BY <1>0, <2>2, <2>3, AggregateReads
<1>14. CASE c \in {222, 223}
  <2>1. /\ c \notin 0..127 /\ c \notin 128..143 /\ c \notin 144..159 /\ c \notin 160..191 /\ c \notin {192, 194, 195}
        /\ c \notin 196..198 /\ c \notin 199..201 /\ c \notin {202, 203} /\ c \notin 204..207 /\ c \notin 208..211
        /\ c \notin 212..216 /\ c \notin 217..219 /\ c \notin {220, 221} /\ c \notin 224..255
    BY <1>14
  <2>2. /\ ReadItemOf(buf, c, pos) = Aggregate("map", ReadBytes(buf, pos, 2 ^ (c - 221)), 2)
        /\ ReadItemOf(b, c, pos) = Aggregate("map", ReadBytes(b, pos, 2 ^ (c - 221)), 2)
    BY <1>14, <2>1, SMT DEF ReadItemOf
  <2> DEFINE n == 2 ^ (c - 221)
  <2>3. n \in Nat
    <3>1. c - 221 \in 0..4
      BY <1>14
    <3> QED
      BY <3>1, PowersOfTwo
  <2> QED
    BY <1>0, <2>2, <2>3, AggregateReads
<1>15. CASE c \in 224..255
  <2>1. /\ c \notin 0..127 /\ c \notin 128..143 /\ c \notin 144..159 /\ c \notin 160..191 /\ c \notin {192, 194, 195}
        /\ c \notin 196..198 /\ c \notin 199..201 /\ c \notin {202, 203} /\ c \notin 204..207 /\ c \notin 208..211
        /\ c \notin 212..216 /\ c \notin 217..219 /\ c \notin {220, 221} /\ c \notin {222, 223}
    BY <1>15
  <2>2. /\ ReadItemOf(buf, c, pos) = Item("int", <<c>>, 0, pos)
        /\ ReadItemOf(b, c, pos) = Item("int", <<c>>, 0, pos)
    BY <1>15, <2>1, SMT DEF ReadItemOf
  <2> QED
    BY <2>2, ItemReads
<1>16. CASE c = 193
  BY <1>16, SMT DEF ReadItemOf, ReadsItem, Reads, Passes, Invalid
<1> QED
  BY <1>1, <1>2, <1>3, <1>4, <1>5, <1>6, <1>7, <1>8, <1>9, <1>10, <1>11, <1>12, <1>13, <1>14, <1>15, <1>16 DEF Byte

\* So does an item, which takes a byte at least.
LEMMA ReadItemReads ==
  ASSUME NEW buf \in Text, NEW more \in Text, NEW pos \in Nat
  PROVE  ReadsItem(ReadItem(buf, pos), ReadItem(buf \o more, pos), pos + 1, buf)
<1> DEFINE b == buf \o more
           r == ReadByte(buf, pos)
           m == ReadByte(b, pos)
<1>1. Reads(r, m, pos + 1, buf)
  BY ReadByteReads
<1>2. r.is = "ok" => r.value \in Byte
  <2> DEFINE v == ReadBytes(buf, pos, 1)
  <2>1. v.is = "ok" => v.value \in Text /\ Len(v.value) = 1
    BY ReadBytesValue
  <2>2. r = IF v.is = "ok" THEN Ok(v.value[1], v.pos) ELSE v
    BY SMT DEF ReadByte, Then
  <2> HIDE DEF v, r
  <2> QED
    BY <2>1, <2>2 DEF Ok, Text
<1>3. /\ ReadItem(buf, pos) = IF r.is = "ok" THEN ReadItemOf(buf, r.value, r.pos) ELSE r
      /\ ReadItem(b, pos) = IF m.is = "ok" THEN ReadItemOf(b, m.value, m.pos) ELSE m
  BY SMT DEF ReadItem, Then
<1> HIDE DEF r, m
<1>4. CASE r.is = "ok"
  <2>1. r.pos \in 0..Len(buf) /\ r.pos \in Nat /\ m = r /\ pos + 1 <= r.pos
    BY <1>1, <1>4, TextProps DEF Reads, Passes
  <2>2. ReadsItem(ReadItemOf(buf, r.value, r.pos), ReadItemOf(b, r.value, r.pos), r.pos, buf)
    BY <1>2, <1>4, <2>1, ReadItemOfReads
  <2>3. ReadsItem(ReadItem(buf, pos), ReadItem(b, pos), r.pos, buf)
    BY <1>3, <1>4, <2>1, <2>2
  <2> HIDE DEF b
  <2>4. ReadsItem(ReadItem(buf, pos), ReadItem(b, pos), pos + 1, buf)
    BY <2>1, <2>3 DEF ReadsItem, Reads, Passes
  <2> QED
    BY <2>4 DEF b
<1>5. CASE r.is # "ok"
  BY <1>1, <1>3, <1>5 DEF ReadsItem, Reads, Passes
<1> QED
  BY <1>4, <1>5

\* A loop whose rounds end in the buffer ends there.
LEMMA LoopEndsInside ==
  ASSUME NEW len \in Nat, NEW f, NEW body, NEW next, Loops(f, body, next), Advances(body, next, len),
         \A x \in Rounds : x.left # 0 /\ body[x].is = "ok" => next[x].pos <= len
  PROVE  \A x \in Rounds : x.pos <= len /\ f[x].is = "ok" => f[x].pos <= len
<1> DEFINE S == {x \in Rounds : x.pos <= len /\ f[x].is = "ok" => f[x].pos <= len}
<1>1. ASSUME NEW x \in Rounds, x.pos < len => \A y \in Rounds : x.pos < y.pos => y \in S
      PROVE  x \in S
  <2>1. f[x] = IF x.left = 0 THEN Ok(0, x.pos) ELSE IF body[x].is = "ok" THEN f[next[x]] ELSE body[x]
    BY DEF Loops
  <2>2. CASE x.left = 0
    BY <2>1, <2>2 DEF Ok
  <2>3. CASE x.left # 0 /\ body[x].is = "ok"
    <3>1. next[x] \in Rounds /\ x.pos < next[x].pos /\ x.pos < len /\ next[x].pos <= len
      BY <2>3 DEF Advances
    <3>2. next[x] \in S
      BY <1>1, <3>1
    <3> QED
      BY <2>1, <2>3, <3>1, <3>2
  <2>4. CASE x.left # 0 /\ body[x].is # "ok"
    BY <2>1, <2>4
  <2> QED
    BY <2>2, <2>3, <2>4
<1> HIDE DEF S
<1>2. Rounds \subseteq S
  BY <1>1, RoundInduction
<1> QED
  BY <1>2 DEF S

\* The loop of SkipItems.
ItemIn(buf)     == [x \in Rounds |-> ReadItem(buf, x.pos)]
BehindItem(buf) ==
  [x \in Rounds |-> Round(x.left - 1 + ReadItem(buf, x.pos).value.holds, ReadItem(buf, x.pos).pos)]

\* SkipItems is a loop that advances, whatever the items hold.
LEMMA SkipItemsIs ==
  ASSUME NEW buf \in Text, NEW pos, NEW count
  PROVE  /\ Advances(ItemIn(buf), BehindItem(buf), Len(buf))
         /\ \E f : /\ Loops(f, ItemIn(buf), BehindItem(buf))
                   /\ SkipItems(buf, pos, count) = f[Round(count, pos)]
<1> DEFINE Fits(f) ==
      f = [x \in Rounds |-> IF x.left = 0 THEN Ok(0, x.pos)
                            ELSE Then(ReadItem(buf, x.pos),
                                      LAMBDA item, p : f[Round(x.left - 1 + item.holds, p)])]
<1>1. Len(buf) \in Nat
  BY TextProps
<1>2. Advances(ItemIn(buf), BehindItem(buf), Len(buf))
  <2> SUFFICES ASSUME NEW x \in Rounds, x.left # 0, ReadItem(buf, x.pos).is = "ok"
               PROVE  /\ Round(x.left - 1 + ReadItem(buf, x.pos).value.holds, ReadItem(buf, x.pos).pos) \in Rounds
                      /\ x.pos < ReadItem(buf, x.pos).pos /\ x.pos < Len(buf)
    BY DEF Advances, ItemIn, BehindItem, Round
  <2>1. x.left \in Nat /\ x.pos \in Nat /\ <<>> \in Text
    BY DEF Rounds, Text
  <2> DEFINE r == ReadItem(buf, x.pos)
  <2>2. ReadsItem(r, ReadItem(buf \o <<>>, x.pos), x.pos + 1, buf)
    BY <2>1, ReadItemReads
  <2> HIDE DEF r
  <2>3. r.value.holds \in Nat /\ r.pos \in Nat /\ x.pos + 1 <= r.pos /\ r.pos <= Len(buf)
    <3>1. r.is = "ok"
      BY DEF r
    <3> QED
      BY <2>1, <2>2, <3>1 DEF ReadsItem, Reads, Passes
  <2>4. x.left - 1 + r.value.holds \in Nat
    BY <2>1, <2>3
  <2>5. Round(x.left - 1 + r.value.holds, r.pos) \in Rounds
    BY <2>3, <2>4 DEF Rounds, Round
  <2>6. x.pos < r.pos /\ x.pos < Len(buf)
    BY <1>1, <2>1, <2>3
  <2> QED
    BY <2>5, <2>6 DEF r
<1>3. PICK f : Loops(f, ItemIn(buf), BehindItem(buf))
  BY <1>1, <1>2, LoopExists
<1>4. ASSUME NEW g
      PROVE  Fits(g) <=> Loops(g, ItemIn(buf), BehindItem(buf))
  BY SMT DEF Loops, ItemIn, BehindItem, Then
<1>5. SkipItems(buf, pos, count) = (CHOOSE g : Fits(g))[Round(count, pos)]
  BY DEF SkipItems
<1> HIDE DEF Fits
<1>6. Loops(CHOOSE g : Fits(g), ItemIn(buf), BehindItem(buf))
  BY <1>3, <1>4
<1> QED
  BY <1>2, <1>5, <1>6

\* So it stays as it is when more bytes come.
LEMMA SkipItemsReads ==
  ASSUME NEW buf \in Text, NEW more \in Text, NEW pos \in 0..Len(buf), NEW count \in Nat
  PROVE  Reads(SkipItems(buf, pos, count), SkipItems(buf \o more, pos, count), pos, buf)
<1> DEFINE m == buf \o more
           start == Round(count, pos)
<1>1. m \in Text /\ Len(buf) \in Nat
  BY DEF Text
<1> HIDE DEF m
<1>2. PICK f : /\ Loops(f, ItemIn(buf), BehindItem(buf))
               /\ SkipItems(buf, pos, count) = f[start]
  BY SkipItemsIs
<1>3. PICK g : /\ Loops(g, ItemIn(m), BehindItem(m))
               /\ SkipItems(m, pos, count) = g[start]
  BY <1>1, SkipItemsIs
<1>4. ASSUME NEW x \in Rounds
      PROVE  /\ Passes(ItemIn(buf)[x], ItemIn(m)[x], x.pos)
             /\ ItemIn(buf)[x].is = "ok" => /\ BehindItem(m)[x] = BehindItem(buf)[x]
                                            /\ BehindItem(buf)[x].pos <= Len(buf)
  <2>1. x.pos \in Nat
    BY DEF Rounds
  <2>2. ReadsItem(ReadItem(buf, x.pos), ReadItem(m, x.pos), x.pos + 1, buf)
    BY <2>1, ReadItemReads DEF m
  <2> QED
    BY <2>1, <2>2 DEF ReadsItem, Reads, Passes, ItemIn, BehindItem, Round
<1>5. Advances(ItemIn(buf), BehindItem(buf), Len(buf))
  BY SkipItemsIs
<1>6. \A x \in Rounds : Passes(f[x], g[x], x.pos)
  BY <1>1, <1>2, <1>3, <1>4, <1>5, LoopPasses
<1>7. \A x \in Rounds : x.pos <= Len(buf) /\ f[x].is = "ok" => f[x].pos <= Len(buf)
  BY <1>1, <1>2, <1>4, <1>5, LoopEndsInside
<1>8. start \in Rounds /\ start.pos = pos
  BY DEF Rounds, Round
<1> HIDE DEF start
<1> QED
  BY <1>1, <1>2, <1>3, <1>6, <1>7, <1>8 DEF Reads, m

\* An item and all it holds.
LEMMA ReadObjectReads ==
  ASSUME NEW buf \in Text, NEW more \in Text, NEW pos \in Nat
  PROVE  Reads(ReadObject(buf, pos), ReadObject(buf \o more, pos), pos + 1, buf)
<1> DEFINE b == buf \o more
           r == ReadItem(buf, pos)
           m == ReadItem(b, pos)
           s == SkipItems(buf, r.pos, r.value.holds)
           t == SkipItems(b, m.pos, m.value.holds)
<1>1. ReadsItem(r, m, pos + 1, buf)
  BY ReadItemReads
<1>2. /\ ReadObject(buf, pos) =
           IF r.is = "ok" THEN IF s.is = "ok" THEN Ok(r.value, s.pos) ELSE s ELSE r
      /\ ReadObject(b, pos) =
           IF m.is = "ok" THEN IF t.is = "ok" THEN Ok(m.value, t.pos) ELSE t ELSE m
  BY SMT DEF ReadObject, Then
<1>3. r.is = "ok" => m = r /\ r.pos \in 0..Len(buf) /\ r.value.holds \in Nat /\ r.pos \in Nat /\ pos + 1 <= r.pos
  <2> HIDE DEF r, m
  <2> QED
    BY <1>1, TextProps DEF ReadsItem, Reads, Passes
<1>4. r.is = "ok" => Reads(s, t, r.pos, buf)
  <2> HIDE DEF r, m
  <2> QED
    BY <1>3, SkipItemsReads
<1> HIDE DEF r, m, s, t, b
<1>5. CASE r.is = "ok" /\ s.is = "ok"
  <2>1. t = s /\ m = r /\ s.pos \in Nat /\ pos + 1 <= s.pos /\ s.pos <= Len(buf)
    BY <1>3, <1>4, <1>5 DEF Reads, Passes
  <2> QED
    BY <1>2, <1>5, <2>1 DEF Reads, Passes, Ok, b
<1>6. CASE r.is = "ok" /\ s.is # "ok"
  <2>1. m = r /\ (s.is # "small" => t = s)
    BY <1>3, <1>4, <1>6 DEF Reads, Passes
  <2> QED
    BY <1>2, <1>6, <2>1 DEF Reads, Passes, b
<1>7. CASE r.is # "ok"
  BY <1>1, <1>2, <1>7 DEF ReadsItem, Reads, Passes, b
<1> QED
  BY <1>5, <1>6, <1>7

\* With one more object, what was read stays as it is when more bytes come.
LEMMA NextObjectReads ==
  ASSUME NEW buf \in Text, NEW more \in Text, NEW r, NEW m, NEW least \in Nat, Reads(r, m, least, buf)
  PROVE  Reads(ReadNextObject(buf, r), ReadNextObject(buf \o more, m), least, buf)
<1> DEFINE b == buf \o more
           s == ReadObject(buf, r.pos)
           t == ReadObject(b, m.pos)
<1>1. /\ ReadNextObject(buf, r) =
           IF r.is = "ok" THEN IF s.is = "ok" THEN Ok(Append(r.value, s.value), s.pos) ELSE s ELSE r
      /\ ReadNextObject(b, m) =
           IF m.is = "ok" THEN IF t.is = "ok" THEN Ok(Append(m.value, t.value), t.pos) ELSE t ELSE m
  BY SMT DEF ReadNextObject, Then
<1>2. r.is = "ok" => m = r /\ r.pos \in Nat /\ least <= r.pos
  BY DEF Reads, Passes
<1>3. r.is = "ok" => Reads(s, t, r.pos + 1, buf)
  BY <1>2, ReadObjectReads
<1> HIDE DEF s, t, b
<1>4. CASE r.is = "ok" /\ s.is = "ok"
  <2>1. t = s /\ m = r /\ s.pos \in Nat /\ least <= s.pos /\ s.pos <= Len(buf)
    BY <1>2, <1>3, <1>4 DEF Reads, Passes
  <2> QED
    BY <1>1, <1>4, <2>1 DEF Reads, Passes, Ok, b
<1>5. CASE r.is = "ok" /\ s.is # "ok"
  <2>1. m = r /\ (s.is # "small" => t = s)
    BY <1>2, <1>3, <1>5 DEF Reads, Passes
  <2> QED
    BY <1>1, <1>5, <2>1 DEF Reads, Passes, b
<1>6. CASE r.is # "ok"
  BY <1>1, <1>6 DEF Reads, Passes, b
<1> QED
  BY <1>4, <1>5, <1>6

\* A function that reads the first n objects.
ObjectsUpTo(f, buf, pos, n) ==
  f = [i \in 0..n |-> IF i = 0 THEN Ok(<<>>, pos) ELSE ReadNextObject(buf, f[i - 1])]

\* There is such a function for every n.
LEMMA ObjectsReaderExists ==
  ASSUME NEW buf, NEW pos
  PROVE  \A n \in Nat : \E f : ObjectsUpTo(f, buf, pos, n)
<1> DEFINE S == {n \in Nat : \E f : ObjectsUpTo(f, buf, pos, n)}
<1>1. 0 \in S
  <2> DEFINE f == [i \in 0..0 |-> Ok(<<>>, pos)]
  <2>1. ObjectsUpTo(f, buf, pos, 0)
    BY DEF ObjectsUpTo
  <2> QED
    BY <2>1
<1>2. ASSUME NEW n \in Nat, n \in S
      PROVE  n + 1 \in S
  <2>1. PICK f : ObjectsUpTo(f, buf, pos, n)
    BY <1>2
  <2> DEFINE next == ReadNextObject(buf, f[n])
             g == [i \in 0..(n + 1) |-> IF i = n + 1 THEN next ELSE f[i]]
  <2> HIDE DEF next
  <2>2. \A i \in 0..n : g[i] = f[i]
    OBVIOUS
  <2>3. ASSUME NEW i \in 0..(n + 1)
        PROVE  g[i] = IF i = 0 THEN Ok(<<>>, pos) ELSE ReadNextObject(buf, g[i - 1])
    <3>1. CASE i = n + 1
      <4>1. g[i] = next /\ i # 0 /\ g[i - 1] = f[n]
        BY <2>2, <3>1
      <4> HIDE DEF g
      <4> QED
        BY <3>1, <4>1 DEF next
    <3>2. CASE i # n + 1
      <4>1. i \in 0..n /\ (i # 0 => i - 1 \in 0..n)
        BY <3>2
      <4>2. g[i] = f[i] /\ (i # 0 => g[i - 1] = f[i - 1])
        BY <2>2, <4>1
      <4>3. f[i] = IF i = 0 THEN Ok(<<>>, pos) ELSE ReadNextObject(buf, f[i - 1])
        BY <2>1, <4>1 DEF ObjectsUpTo
      <4> HIDE DEF g
      <4> QED
        BY <4>2, <4>3
    <3> QED
      BY <3>1, <3>2
  <2>4. g = [i \in 0..(n + 1) |-> g[i]]
    OBVIOUS
  <2> HIDE DEF g
  <2>5. ObjectsUpTo(g, buf, pos, n + 1)
    BY <2>3, <2>4 DEF ObjectsUpTo
  <2> QED
    BY <2>5
<1> HIDE DEF S
<1>3. Nat \subseteq S
  BY <1>1, <1>2, Induction
<1> QED
  BY <1>3 DEF S

\* ReadObjects is the last value of one.
LEMMA ReadObjectsIs ==
  ASSUME NEW buf, NEW pos, NEW count \in Nat
  PROVE  \E f : ObjectsUpTo(f, buf, pos, count) /\ ReadObjects(buf, pos, count) = f[count]
<1>1. \E f : ObjectsUpTo(f, buf, pos, count)
  BY ObjectsReaderExists
<1> QED
  BY <1>1 DEF ReadObjects, ObjectsUpTo

\* So the objects of a map stay as they are when more bytes come.
LEMMA ReadObjectsReads ==
  ASSUME NEW buf \in Text, NEW more \in Text, NEW pos \in 0..Len(buf), NEW count \in Nat
  PROVE  Reads(ReadObjects(buf, pos, count), ReadObjects(buf \o more, pos, count), pos, buf)
<1> DEFINE m == buf \o more
<1>1. PICK f : ObjectsUpTo(f, buf, pos, count) /\ ReadObjects(buf, pos, count) = f[count]
  BY ReadObjectsIs
<1>2. PICK g : ObjectsUpTo(g, m, pos, count) /\ ReadObjects(m, pos, count) = g[count]
  BY ReadObjectsIs
<1> HIDE DEF m
<1> DEFINE S == {k \in Nat : k <= count => Reads(f[k], g[k], pos, buf)}
<1>3. 0 \in S
  <2>1. f[0] = Ok(<<>>, pos) /\ g[0] = Ok(<<>>, pos)
    BY <1>1, <1>2 DEF ObjectsUpTo
  <2>2. pos \in Nat /\ Len(buf) \in Nat
    BY TextProps
  <2> QED
    BY <2>1, <2>2 DEF Reads, Passes, Ok
<1>4. ASSUME NEW k \in Nat, k \in S
      PROVE  k + 1 \in S
  <2> SUFFICES ASSUME k + 1 <= count
               PROVE  Reads(f[k + 1], g[k + 1], pos, buf)
    OBVIOUS
  <2>1. Reads(f[k], g[k], pos, buf)
    BY <1>4
  <2>2. f[k + 1] = ReadNextObject(buf, f[k]) /\ g[k + 1] = ReadNextObject(m, g[k])
    BY <1>1, <1>2 DEF ObjectsUpTo
  <2>3. pos \in Nat
    BY TextProps
  <2> QED
    BY <2>1, <2>2, <2>3, NextObjectReads DEF m
<1> HIDE DEF S
<1>5. Nat \subseteq S
  BY <1>3, <1>4, Induction
<1> QED
  BY <1>1, <1>2, <1>5 DEF S, m

\* So does a whole map, ...
LEMMA UnpackReads ==
  ASSUME NEW buf \in Text, NEW more \in Text
  PROVE  Reads(Unpack(buf), Unpack(buf \o more), 1, buf)
<1> DEFINE b == buf \o more
           r == ReadItem(buf, 0)
           m == ReadItem(b, 0)
           s == ReadObjects(buf, r.pos, r.value.holds)
           t == ReadObjects(b, m.pos, m.value.holds)
<1>1. ReadsItem(r, m, 0 + 1, buf)
  BY ReadItemReads
<1>2. /\ Unpack(buf) =
           IF r.is = "ok"
           THEN IF s.is = "ok" THEN IF r.value.type = "map" THEN Ok(s.value, s.pos) ELSE Invalid ELSE s
           ELSE r
      /\ Unpack(b) =
           IF m.is = "ok"
           THEN IF t.is = "ok" THEN IF m.value.type = "map" THEN Ok(t.value, t.pos) ELSE Invalid ELSE t
           ELSE m
  BY SMT DEF Unpack, Then
<1>3. r.is = "ok" => m = r /\ r.pos \in 0..Len(buf) /\ r.value.holds \in Nat /\ r.pos \in Nat /\ 1 <= r.pos
  <2> HIDE DEF r, m
  <2> QED
    BY <1>1, TextProps DEF ReadsItem, Reads, Passes
<1>4. r.is = "ok" => Reads(s, t, r.pos, buf)
  <2> HIDE DEF r, m
  <2> QED
    BY <1>3, ReadObjectsReads
<1> HIDE DEF r, m, s, t, b
<1>5. CASE r.is = "ok" /\ s.is = "ok"
  <2>1. t = s /\ m = r /\ s.pos \in Nat /\ 1 <= s.pos /\ s.pos <= Len(buf)
    BY <1>3, <1>4, <1>5 DEF Reads, Passes
  <2> QED
    BY <1>2, <1>5, <2>1 DEF Reads, Passes, Ok, Invalid, b
<1>6. CASE r.is = "ok" /\ s.is # "ok"
  <2>1. m = r /\ (s.is # "small" => t = s)
    BY <1>3, <1>4, <1>6 DEF Reads, Passes
  <2> QED
    BY <1>2, <1>6, <2>1 DEF Reads, Passes, b
<1>7. CASE r.is # "ok"
  BY <1>1, <1>2, <1>7 DEF ReadsItem, Reads, Passes, b
<1> QED
  BY <1>5, <1>6, <1>7

\* ... and the event that is made of it.
LEMMA ReadMsgpackReads ==
  ASSUME NEW buf \in Text, NEW more \in Text
  PROVE  Reads(ReadMsgpack(buf), ReadMsgpack(buf \o more), 1, buf)
<1> DEFINE r == Unpack(buf)
           m == Unpack(buf \o more)
           Fit(values) == \A f \in DOMAIN msgIndex : Converts(f, Attribute(values, f))
           Made(values) == MsgpackEvent([f \in DOMAIN msgIndex |-> As(f, Attribute(values, f))])
<1>1. Reads(r, m, 1, buf)
  BY UnpackReads
<1>2. /\ ReadMsgpack(buf) =
           IF r.is = "ok" THEN IF Fit(r.value) THEN Ok(Made(r.value), r.pos) ELSE Invalid ELSE r
      /\ ReadMsgpack(buf \o more) =
           IF m.is = "ok" THEN IF Fit(m.value) THEN Ok(Made(m.value), m.pos) ELSE Invalid ELSE m
  BY SMT DEF ReadMsgpack, Then
<1> HIDE DEF r, m, Fit, Made
<1> QED
  BY <1>1, <1>2 DEF Reads, Passes, Ok, Invalid

\* What a decoder makes of a buffer it makes of every longer one, unless more
\* bytes are all it asks for; and it never reads beyond the end.
THEOREM DecoderReads ==
  ASSUME NEW buf \in Text, NEW more \in Text, NEW protocol \in {"default", "bytes", "msgpack"}
  PROVE  Reads(createLoggingEvent(buf, protocol), createLoggingEvent(buf \o more, protocol), 1, buf)
<1>1. CASE protocol = "msgpack"
  BY <1>1, ReadMsgpackReads DEF createLoggingEvent
<1>2. CASE protocol # "msgpack"
  <2> DEFINE r == ReadFields(buf, protocol)
             m == ReadFields(buf \o more, protocol)
             Made(values) == IF protocol = "default" THEN DefaultEvent(values) ELSE BytesEvent(values)
  <2>1. Reads(r, m, 1, buf)
    BY <1>2, ReadFieldsReads
  <2>2. /\ createLoggingEvent(buf, protocol) = IF r.is = "ok" THEN Ok(Made(r.value), r.pos) ELSE r
        /\ createLoggingEvent(buf \o more, protocol) = IF m.is = "ok" THEN Ok(Made(m.value), m.pos) ELSE m
    BY <1>2, SMT DEF createLoggingEvent, Then
  <2> HIDE DEF r, m, Made
  <2> QED
    BY <2>1, <2>2 DEF Reads, Passes, Ok
<1> QED
  BY <1>1, <1>2

\* The texts b[1] to b[k], joined, for every k up to n.
Joins(j, b, n) == j = [k \in 0..n |-> IF k = 0 THEN <<>> ELSE j[k - 1] \o b[k]]

\* There is such a function for every n.
LEMMA JoinerExists ==
  ASSUME NEW b
  PROVE  \A n \in Nat : \E j : Joins(j, b, n)
<1> DEFINE S == {n \in Nat : \E j : Joins(j, b, n)}
<1>1. 0 \in S
  <2> DEFINE j == [k \in 0..0 |-> <<>>]
  <2>1. Joins(j, b, 0)
    BY DEF Joins
  <2> QED
    BY <2>1
<1>2. ASSUME NEW n \in Nat, n \in S
      PROVE  n + 1 \in S
  <2>1. PICK j : Joins(j, b, n)
    BY <1>2
  <2> DEFINE next == j[n] \o b[n + 1]
             g == [k \in 0..(n + 1) |-> IF k = n + 1 THEN next ELSE j[k]]
  <2> HIDE DEF next
  <2>2. \A k \in 0..n : g[k] = j[k]
    OBVIOUS
  <2>3. ASSUME NEW k \in 0..(n + 1)
        PROVE  g[k] = IF k = 0 THEN <<>> ELSE g[k - 1] \o b[k]
    <3>1. CASE k = n + 1
      <4>1. g[k] = next /\ k # 0 /\ g[k - 1] = j[n]
        BY <2>2, <3>1
      <4> HIDE DEF g
      <4> QED
        BY <3>1, <4>1 DEF next
    <3>2. CASE k # n + 1
      <4>1. k \in 0..n /\ (k # 0 => k - 1 \in 0..n)
        BY <3>2
      <4>2. g[k] = j[k] /\ (k # 0 => g[k - 1] = j[k - 1])
        BY <2>2, <4>1
      <4>3. j[k] = IF k = 0 THEN <<>> ELSE j[k - 1] \o b[k]
        BY <2>1, <4>1 DEF Joins
      <4> HIDE DEF g
      <4> QED
        BY <4>2, <4>3
    <3> QED
      BY <3>1, <3>2
  <2>4. g = [k \in 0..(n + 1) |-> g[k]]
    OBVIOUS
  <2> HIDE DEF g
  <2>5. Joins(g, b, n + 1)
    BY <2>3, <2>4 DEF Joins
  <2> QED
    BY <2>5
<1> HIDE DEF S
<1>3. Nat \subseteq S
  BY <1>1, <1>2, Induction
<1> QED
  BY <1>3 DEF S

\* Each one is the one before with one more text.
LEMMA JoinedByOne ==
  ASSUME NEW n \in Nat, NEW b, NEW j, Joins(j, b, n)
  PROVE  j[0] = <<>> /\ \A k \in 1..n : j[k] = j[k - 1] \o b[k]
BY DEF Joins

\* They are texts, each a beginning of the next ones.
LEMMA JoinedTexts ==
  ASSUME NEW n \in Nat, NEW b, NEW j, Joins(j, b, n), \A i \in 1..n : b[i] \in Text
  PROVE  \A k \in 0..n : j[k] \in Text
<1>1. j[0] = <<>> /\ \A k \in 1..n : j[k] = j[k - 1] \o b[k]
  BY DEF Joins
<1> DEFINE S == {k \in Nat : k <= n => j[k] \in Text}
<1>2. 0 \in S
  <2>1. j[0] = <<>> /\ <<>> \in Text
    BY <1>1 DEF Text
  <2> QED
    BY <2>1
<1>3. ASSUME NEW k \in Nat, k \in S
      PROVE  k + 1 \in S
  <2> SUFFICES ASSUME k + 1 <= n
               PROVE  j[k + 1] \in Text
    OBVIOUS
  <2> DEFINE i == k + 1
  <2>1. i \in 1..n /\ i - 1 = k
    OBVIOUS
  <2>2. j[k] \in Text /\ b[i] \in Text
    BY <1>3, <2>1
  <2> HIDE DEF i
  <2>3. j[i] = j[i - 1] \o b[i]
    BY <1>1, <2>1, Zenon
  <2>4. j[i] = j[k] \o b[i]
    BY <2>1, <2>3, Zenon
  <2>5. j[k] \o b[i] \in Text
    BY <2>2 DEF Text
  <2> QED
    BY <2>4, <2>5, Zenon DEF i
<1> HIDE DEF S
<1>4. Nat \subseteq S
  BY <1>2, <1>3, Induction
<1> QED
  BY <1>4 DEF S

\* A text is made of these two.
MadeOf(whole, front, back) ==
  /\ Len(whole) = Len(front) + Len(back)
  /\ \A i \in 1..Len(front) : whole[i] = front[i]
  /\ \A i \in 1..Len(back) : whole[Len(front) + i] = back[i]

\* What concatenation does, byte by byte.
LEMMA Concatenated ==
  ASSUME NEW front \in Text, NEW back \in Text
  PROVE  front \o back \in Text /\ MadeOf(front \o back, front, back)
BY DEF Text, MadeOf

\* The same of the texts joined.
LEMMA JoinedNext ==
  ASSUME NEW n \in Nat, NEW b, NEW j, Joins(j, b, n), \A i \in 1..n : b[i] \in Text
  PROVE  \A k \in 1..n : MadeOf(j[k], j[k - 1], b[k])
<1> SUFFICES ASSUME NEW k \in 1..n
             PROVE  MadeOf(j[k], j[k - 1], b[k])
  OBVIOUS
<1> DEFINE p == j[k - 1]
           t == b[k]
<1>1. p \in Text /\ t \in Text
  BY JoinedTexts
<1>2. j[k] = p \o t
  <2>1. \A l \in 1..n : j[l] = j[l - 1] \o b[l]
    BY JoinedByOne
  <2> QED
    BY <2>1, Zenon
<1> HIDE DEF p, t
<1>3. MadeOf(p \o t, p, t)
  BY <1>1, Concatenated
<1> QED
  BY <1>2, <1>3, Zenon DEF p, t

\* What FlattenSeq makes of the first k of them.
LEMMA FlattenIsJoined ==
  ASSUME NEW n \in Nat, NEW b, NEW j, Joins(j, b, n), \A i \in 1..n : b[i] \in Text, NEW k \in 0..n
  PROVE  FlattenSeq([i \in 1..k |-> b[i]]) = j[k]
<1> DEFINE seqs == [i \in 1..k |-> b[i]]
           Flattens(f) == f = [i \in 1..Len(seqs) |-> IF i = 1 THEN seqs[i] ELSE f[i - 1] \o seqs[i]]
<1>1. /\ k \in Nat /\ seqs \in Seq(Text) /\ Len(seqs) = k
      /\ \A i \in 1..k : seqs[i] = b[i]
  OBVIOUS
<1>2. j[0] = <<>> /\ \A i \in 1..n : j[i] = j[i - 1] \o b[i]
  BY DEF Joins
<1>3. FlattenSeq(seqs) = IF Len(seqs) = 0 THEN seqs ELSE (CHOOSE f : Flattens(f))[Len(seqs)]
  BY DEF FlattenSeq
<1> HIDE DEF seqs
<1>4. CASE k = 0
  BY <1>1, <1>2, <1>3, <1>4 DEF seqs
<1>5. CASE k # 0
  <2> DEFINE g == [i \in 1..k |-> j[i]]
  <2>1. ASSUME NEW i \in 1..k
        PROVE  g[i] = IF i = 1 THEN seqs[i] ELSE g[i - 1] \o seqs[i]
    <3>1. b[i] \in Text /\ seqs[i] = b[i] /\ g[i] = j[i] /\ i \in 1..n
      BY <1>1
    <3>2. j[i] = j[i - 1] \o b[i]
      BY <1>2, <3>1, Zenon
    <3>3. CASE i = 1
      <4>1. j[i - 1] = <<>>
        BY <1>2, <3>3
      <4>2. j[i] = <<>> \o b[i]
        BY <3>2, <4>1, Zenon
      <4>3. <<>> \o b[i] = b[i]
        BY <3>1 DEF Text
      <4> HIDE DEF g
      <4> QED
        BY <3>1, <3>3, <4>2, <4>3, Zenon
    <3>4. CASE i # 1
      <4>1. g[i - 1] = j[i - 1]
        BY <1>1, <3>4
      <4> HIDE DEF g
      <4> QED
        BY <3>1, <3>2, <3>4, <4>1, Zenon
    <3> QED
      BY <3>3, <3>4
  <2>2. g = [i \in 1..k |-> g[i]]
    OBVIOUS
  <2> HIDE DEF g
  <2>3. Flattens(g)
    BY <1>1, <2>1, <2>2
  <2> DEFINE f == CHOOSE h : Flattens(h)
  <2>4. Flattens(f)
    BY <2>3
  <2> HIDE DEF f
  <2>5. \A i \in 1..k : f[i] = IF i = 1 THEN seqs[i] ELSE f[i - 1] \o seqs[i]
    BY <1>1, <2>4
  <2> DEFINE S == {i \in Nat : i + 1 <= k => f[i + 1] = g[i + 1]}
  <2>6. 0 \in S
    BY <2>1, <2>5
  <2>7. ASSUME NEW i \in Nat, i \in S
        PROVE  i + 1 \in S
    <3> SUFFICES ASSUME (i + 1) + 1 <= k
                 PROVE  f[(i + 1) + 1] = g[(i + 1) + 1]
      OBVIOUS
    <3> DEFINE l == (i + 1) + 1
    <3>1. l \in 1..k /\ l # 1 /\ l - 1 = i + 1
      BY <1>1
    <3>2. f[i + 1] = g[i + 1]
      BY <1>1, <2>7
    <3> HIDE DEF l
    <3>3. f[l] = g[l]
      BY <2>1, <2>5, <3>1, <3>2
    <3> QED
      BY <3>3 DEF l
  <2> HIDE DEF S
  <2>8. Nat \subseteq S
    BY <2>6, <2>7, Induction
  <2>9. k - 1 \in Nat /\ (k - 1) + 1 = k
    BY <1>5
  <2>10. f[(k - 1) + 1] = g[(k - 1) + 1]
    BY <1>1, <2>8, <2>9 DEF S
  <2>11. g[k] = j[k]
    BY <1>5 DEF g
  <2> QED
    BY <1>1, <1>3, <1>5, <2>9, <2>10, <2>11 DEF f, seqs
<1> QED
  BY <1>4, <1>5

\* EndOf for the parts of s.
EndIn(s, k) == Len(FlattenSeq([i \in 1..k |-> s.parts[i].bytes]))

\* The parts follow each other in what their sender sends.
LEMMA PartsFollow ==
  ASSUME NEW s \in Senders
  PROVE  LET n == Len(s.parts) IN
         /\ n \in Nat /\ Bytes(s) \in Text
         /\ \A k \in 0..n : EndIn(s, k) \in Nat /\ EndIn(s, k) <= Len(Bytes(s))
         /\ EndIn(s, 0) = 0 /\ EndIn(s, n) = Len(Bytes(s))
         /\ \A k \in 1..n :
              LET part == s.parts[k].bytes IN
              /\ part \in Text
              /\ EndIn(s, k) = EndIn(s, k - 1) + Len(part)
              /\ \A i \in 1..Len(part) : Bytes(s)[EndIn(s, k - 1) + i] = part[i]
<1> DEFINE n == Len(s.parts)
           b == [i \in 1..n |-> s.parts[i].bytes]
           whole == Bytes(s)
<1>1. /\ n \in Nat /\ DOMAIN s.parts = 1..n
      /\ \A i \in 1..n : b[i] \in Text
      /\ \A i \in 1..n : s.parts[i].bytes = b[i]
  BY SendersAssumption
<1>2. PICK j : Joins(j, b, n)
  BY <1>1, JoinerExists
<1>3. ASSUME NEW k \in 0..n
      PROVE  FlattenSeq([i \in 1..k |-> s.parts[i].bytes]) = j[k]
  <2>1. [i \in 1..k |-> s.parts[i].bytes] = [i \in 1..k |-> b[i]]
    BY <1>1
  <2> HIDE DEF b, n
  <2>2. FlattenSeq([i \in 1..k |-> b[i]]) = j[k]
    BY <1>1, <1>2, FlattenIsJoined
  <2> QED
    BY <2>1, <2>2, Zenon
<1>4. whole = j[n]
  <2>1. [i \in DOMAIN s.parts |-> s.parts[i].bytes] = [i \in 1..n |-> s.parts[i].bytes]
    BY <1>1
  <2>2. n \in 0..n
    BY <1>1
  <2>3. FlattenSeq([i \in 1..n |-> s.parts[i].bytes]) = j[n]
    BY <1>3, <2>2
  <2> QED
    BY <2>1, <2>3, Zenon DEF Bytes
<1>5. \A k \in 0..n : EndIn(s, k) = Len(j[k])
  BY <1>3, Zenon DEF EndIn
<1> HIDE DEF n, b, whole
<1>6. \A k \in 0..n : j[k] \in Text /\ Len(j[k]) \in Nat
  BY <1>1, <1>2, JoinedTexts, TextProps
<1>7. \A k \in 1..n : MadeOf(j[k], j[k - 1], b[k])
  BY <1>1, <1>2, JoinedNext
\* Each j[k] is the beginning of the whole.
<1>8. ASSUME NEW k \in 0..n
      PROVE  /\ Len(j[k]) <= Len(whole)
             /\ \A i \in 1..Len(j[k]) : whole[i] = j[k][i]
  <2> DEFINE S == {d \in Nat : k + d <= n => /\ Len(j[k]) <= Len(j[k + d])
                                             /\ \A i \in 1..Len(j[k]) : j[k + d][i] = j[k][i]}
  <2>1. 0 \in S
    BY <1>6
  <2>2. ASSUME NEW d \in Nat, d \in S
        PROVE  d + 1 \in S
    <3> SUFFICES ASSUME k + (d + 1) <= n
                 PROVE  /\ Len(j[k]) <= Len(j[k + (d + 1)])
                        /\ \A i \in 1..Len(j[k]) : j[k + (d + 1)][i] = j[k][i]
      OBVIOUS
    <3> DEFINE l == k + (d + 1)
    <3>1. l \in 1..n /\ l - 1 = k + d /\ k + d \in 0..n /\ l \in 0..n
      BY <1>1
    <3>2. /\ Len(j[k]) <= Len(j[k + d])
          /\ \A i \in 1..Len(j[k]) : j[k + d][i] = j[k][i]
      BY <2>2, <3>1
    <3> HIDE DEF l
    <3>9. j[l - 1] = j[k + d]
      BY <3>1
    <3>3. /\ Len(j[l]) = Len(j[k + d]) + Len(b[l])
          /\ \A i \in 1..Len(j[k + d]) : j[l][i] = j[k + d][i]
      BY <1>7, <3>1, <3>9, ZenonT(60) DEF MadeOf
    <3>8. Len(b[l]) \in Nat /\ Len(j[k + d]) \in Nat /\ Len(j[k]) \in Nat
      BY <1>1, <1>6, <3>1, TextProps
    <3>4. Len(j[k]) <= Len(j[l])
      <4> DEFINE p == Len(j[k + d])
                 q == Len(b[l])
                 r == Len(j[k])
      <4>1. p \in Nat /\ q \in Nat /\ r \in Nat /\ r <= p /\ Len(j[l]) = p + q
        BY <3>2, <3>3, <3>8
      <4> HIDE DEF p, q, r
      <4>2. r <= Len(j[l])
        BY <4>1
      <4> QED
        BY <4>2 DEF r
    <3>5. ASSUME NEW i \in 1..Len(j[k])
          PROVE  j[l][i] = j[k][i]
      <4>1. i \in 1..Len(j[k + d]) /\ j[k + d][i] = j[k][i]
        BY <3>2, <3>8
      <4> QED
        BY <3>3, <4>1
    <3> QED
      BY <3>4, <3>5 DEF l
  <2> HIDE DEF S
  <2>3. Nat \subseteq S
    BY <2>1, <2>2, Induction
  <2>4. n - k \in Nat /\ k + (n - k) = n
    BY <1>1
  <2>5. n - k \in S
    BY <2>3, <2>4
  <2>6. /\ Len(j[k]) <= Len(j[k + (n - k)])
        /\ \A i \in 1..Len(j[k]) : j[k + (n - k)][i] = j[k][i]
    BY <1>1, <2>4, <2>5 DEF S
  <2> QED
    BY <1>4, <2>4, <2>6
<1>9. n \in 0..n /\ 0 \in 0..n /\ j[0] = <<>>
  BY <1>1, <1>2 DEF Joins
<1>10. ASSUME NEW k \in 1..n
       PROVE  /\ b[k] \in Text
              /\ EndIn(s, k) = EndIn(s, k - 1) + Len(b[k])
              /\ \A i \in 1..Len(b[k]) : whole[EndIn(s, k - 1) + i] = b[k][i]
  <2>1. k \in 0..n /\ k - 1 \in 0..n
    BY <1>1
  <2>2. EndIn(s, k) = Len(j[k]) /\ EndIn(s, k - 1) = Len(j[k - 1])
    BY <1>5, <2>1
  <2>3. Len(j[k]) = Len(j[k - 1]) + Len(b[k]) /\ b[k] \in Text /\ Len(b[k]) \in Nat
    BY <1>1, <1>7, TextProps DEF MadeOf
  <2>4. ASSUME NEW i \in 1..Len(b[k])
        PROVE  whole[Len(j[k - 1]) + i] = b[k][i]
    <3>1. j[k][Len(j[k - 1]) + i] = b[k][i]
      BY <1>7 DEF MadeOf
    <3>2. Len(j[k - 1]) \in Nat
      BY <1>6, <2>1
    <3> DEFINE p == Len(j[k - 1])
               q == Len(b[k])
    <3>3. Len(j[k - 1]) + i \in 1..Len(j[k])
      <4>1. p \in Nat /\ q \in Nat /\ i \in 1..q /\ Len(j[k]) = p + q
        BY <2>3, <3>2
      <4> HIDE DEF p, q
      <4>2. p + i \in 1..Len(j[k])
        BY <4>1
      <4> QED
        BY <4>2 DEF p
    <3> QED
      BY <1>8, <2>1, <3>1, <3>3
  <2> QED
    BY <2>2, <2>3, <2>4
<1>11. /\ n \in Nat /\ whole \in Text
       /\ \A k \in 0..n : EndIn(s, k) \in Nat /\ EndIn(s, k) <= Len(whole)
       /\ EndIn(s, 0) = 0 /\ EndIn(s, n) = Len(whole)
  <2>1. EndIn(s, 0) = 0
    BY <1>5, <1>9
  <2> QED
    BY <1>1, <1>4, <1>5, <1>6, <1>8, <1>9, <2>1
<1> QED
  BY <1>1, <1>10, <1>11 DEF whole, n, b

\* The length of a stretch of a text.
LEMMA Stretch ==
  ASSUME NEW t \in Text, NEW a \in Nat, NEW b \in Nat, a <= b, b <= Len(t)
  PROVE  /\ SubSeq(t, a + 1, b) \in Text
         /\ Len(SubSeq(t, a + 1, b)) = b - a
<1>1. Len(t) \in Nat /\ \A i \in 1..Len(t) : t[i] \in Byte
  BY TextProps
<1> QED
  BY <1>1 DEF Text

\* A stretch without its first p bytes.
LEMMA StretchOfStretch ==
  ASSUME NEW t \in Text, NEW a \in Nat, NEW p \in Nat, NEW c \in Nat, a + p <= c, c <= Len(t)
  PROVE  SubSeq(SubSeq(t, a + 1, c), p + 1, c - a) = SubSeq(t, (a + p) + 1, c)
<1> DEFINE s == SubSeq(t, a + 1, c)
           u == SubSeq(s, p + 1, c - a)
           v == SubSeq(t, (a + p) + 1, c)
<1>1. Len(t) \in Nat /\ \A i \in 1..Len(t) : t[i] \in Byte
  BY TextProps
<1>2. s \in Text /\ Len(s) = c - a /\ \A i \in 1..(c - a) : s[i] = t[a + i]
  BY <1>1 DEF Text
<1>3. v \in Text /\ Len(v) = c - (a + p) /\ \A i \in 1..(c - (a + p)) : v[i] = t[(a + p) + i]
  BY <1>1 DEF Text
<1> HIDE DEF s, v
<1>4. u \in Text /\ Len(u) = (c - a) - p /\ \A i \in 1..((c - a) - p) : u[i] = s[p + i]
  BY <1>2 DEF Text
<1> HIDE DEF u
<1>5. ASSUME NEW i \in 1..(c - (a + p))
      PROVE  u[i] = v[i]
  <2>1. p + i \in 1..(c - a) /\ a + (p + i) = (a + p) + i /\ i \in 1..((c - a) - p)
    OBVIOUS
  <2>2. u[i] = s[p + i] /\ s[p + i] = t[a + (p + i)] /\ v[i] = t[(a + p) + i]
    BY <1>2, <1>3, <1>4, <2>1
  <2> QED
    BY <2>1, <2>2
<1>6. u = v
  <2> DEFINE l == c - (a + p)
  <2>1. u \in Text /\ v \in Text /\ Len(u) = l /\ Len(v) = l
    BY <1>3, <1>4
  <2>2. \A i \in 1..l : u[i] = v[i]
    BY <1>5
  <2> HIDE DEF l
  <2> QED
    BY <2>1, <2>2 DEF Text
<1> QED
  BY <1>6 DEF s, u, v

\* A stretch of a text, cut in two.
Consists(whole, front, back) == whole = front \o back

\* Cutting a stretch in two loses nothing.
LEMMA Cut ==
  ASSUME NEW t \in Text, NEW a \in Nat, NEW b \in Nat, NEW c \in Nat, a <= b, b <= c, c <= Len(t)
  PROVE  Consists(SubSeq(t, a + 1, c), SubSeq(t, a + 1, b), SubSeq(t, b + 1, c))
<1>1. Len(t) \in Nat /\ \A i \in 1..Len(t) : t[i] \in Byte
  BY TextProps
<1> DEFINE front == SubSeq(t, a + 1, b)
           back == SubSeq(t, b + 1, c)
           whole == SubSeq(t, a + 1, c)
<1>2. front \in Text /\ Len(front) = b - a /\ \A i \in 1..(b - a) : front[i] = t[a + i]
  BY <1>1 DEF Text
<1>3. back \in Text /\ Len(back) = c - b /\ \A i \in 1..(c - b) : back[i] = t[b + i]
  BY <1>1 DEF Text
<1>4. whole \in Text /\ Len(whole) = c - a /\ \A i \in 1..(c - a) : whole[i] = t[a + i]
  BY <1>1 DEF Text
<1> HIDE DEF front, back, whole
<1> DEFINE joined == front \o back
<1>5. joined \in Text /\ MadeOf(joined, front, back)
  BY <1>2, <1>3, Concatenated
<1> HIDE DEF joined
<1>6. joined \in Text /\ Len(joined) = c - a
  BY <1>2, <1>3, <1>5 DEF MadeOf
<1>7. ASSUME NEW i \in 1..(c - a)
      PROVE  whole[i] = joined[i]
  <2>1. CASE i \in 1..(b - a)
    BY <1>2, <1>4, <1>5, <2>1 DEF MadeOf
  <2>2. CASE i \notin 1..(b - a)
    <3> DEFINE l == i - (b - a)
    <3>1. l \in 1..(c - b) /\ (b - a) + l = i /\ b + l = a + i
      BY <2>2
    <3> HIDE DEF l
    <3>2. joined[(b - a) + l] = back[l]
      BY <1>2, <1>3, <1>5, <3>1 DEF MadeOf
    <3> QED
      BY <1>3, <1>4, <3>1, <3>2
  <2> QED
    BY <2>1, <2>2
<1>8. whole = joined
  BY <1>4, <1>6, <1>7 DEF Text
<1> QED
  BY <1>8, Zenon DEF front, back, whole, joined, Consists

\* A part in what its sender sends.
LEMMA PartInStream ==
  ASSUME NEW s \in Senders, NEW k \in 1..Len(s.parts)
  PROVE  /\ EndIn(s, k - 1) \in Nat /\ EndIn(s, k) \in Nat
         /\ EndIn(s, k) <= Len(Bytes(s))
         /\ s.parts[k].bytes \in Text /\ Len(s.parts[k].bytes) \in Nat
         /\ EndIn(s, k) = EndIn(s, k - 1) + Len(s.parts[k].bytes)
         /\ s.parts[k].bytes = SubSeq(Bytes(s), EndIn(s, k - 1) + 1, EndIn(s, k))
<1> DEFINE n == Len(s.parts)
           part == s.parts[k].bytes
           whole == Bytes(s)
           from == EndIn(s, k - 1)
           to == EndIn(s, k)
<1>1. /\ n \in Nat /\ whole \in Text
      /\ \A i \in 0..n : EndIn(s, i) \in Nat /\ EndIn(s, i) <= Len(whole)
      /\ part \in Text
      /\ to = from + Len(part)
      /\ \A i \in 1..Len(part) : whole[from + i] = part[i]
  BY PartsFollow
<1>2. k \in 0..n /\ k - 1 \in 0..n
  BY <1>1
<1>3. from \in Nat /\ to \in Nat /\ to <= Len(whole)
  BY <1>1, <1>2
<1> HIDE DEF n, part, whole, from, to
<1>4. Len(part) \in Nat /\ Len(whole) \in Nat
  BY <1>1, TextProps
<1> DEFINE piece == SubSeq(whole, from + 1, to)
<1>5. /\ piece \in Text /\ Len(piece) = Len(part)
      /\ \A i \in 1..Len(part) : piece[i] = whole[from + i]
  BY <1>1, <1>3, <1>4 DEF Text
<1> HIDE DEF piece
<1>6. piece = part
  BY <1>1, <1>4, <1>5 DEF Text
<1> QED
  BY <1>1, <1>3, <1>4, <1>6 DEF piece, part, whole, from, to

-----------------------------------------------------------------------------
\* The window of the stream that the loop works in.
DecodingTypeOK ==
  /\ sender \in Senders
  /\ received \in Nat /\ received <= Len(Bytes(sender))
  /\ m_ByteBuf \in Text
  /\ Len(m_ByteBuf) <= received

\* The session of module Decoding keeps to its types.
LEMMA DecodingTypes == DecodingSpec => []DecodingTypeOK
<1>1. DecodingInit => DecodingTypeOK
  <2> SUFFICES ASSUME DecodingInit
               PROVE  DecodingTypeOK
    OBVIOUS
  <2>1. Len(Bytes(sender)) \in Nat
    BY PartsFollow, TextProps DEF DecodingInit
  <2>2. <<>> \in Text
    BY DEF Text
  <2> QED
    BY <2>1, <2>2 DEF DecodingInit, DecodingTypeOK
<1>2. DecodingTypeOK /\ [DecodingNext]_decodingVars => DecodingTypeOK'
  <2> SUFFICES ASSUME DecodingTypeOK, [DecodingNext]_decodingVars
               PROVE  DecodingTypeOK'
    OBVIOUS
  <2>1. CASE Decode
    <3> DEFINE p == Decoded.pos
    <3>1. Reads(Decoded, createLoggingEvent(m_ByteBuf \o <<>>, sender.protocol), 1, m_ByteBuf)
      <4>1. <<>> \in Text /\ sender.protocol \in {"default", "bytes", "msgpack"}
        BY SendersAssumption DEF DecodingTypeOK, Text
      <4> QED
        BY <4>1, DecoderReads DEF DecodingTypeOK, Decoded
    <3>2. p \in Nat /\ 1 <= p /\ p <= Len(m_ByteBuf)
      BY <2>1, <3>1 DEF Decode, Reads, Passes
    <3> HIDE DEF p
    <3>3. Len(m_ByteBuf) \in Nat
      BY TextProps DEF DecodingTypeOK
    <3>4. /\ SubSeq(m_ByteBuf, p + 1, Len(m_ByteBuf)) \in Text
          /\ Len(SubSeq(m_ByteBuf, p + 1, Len(m_ByteBuf))) = Len(m_ByteBuf) - p
      BY <3>2, <3>3, Stretch DEF DecodingTypeOK
    <3>5. /\ m_ByteBuf' = SubSeq(m_ByteBuf, p + 1, Len(m_ByteBuf))
          /\ UNCHANGED <<sender, received>>
      BY <2>1 DEF Decode, p
    <3>6. Len(m_ByteBuf') <= received
      BY <3>2, <3>3, <3>4, <3>5 DEF DecodingTypeOK
    <3> QED
      BY <3>4, <3>5, <3>6 DEF DecodingTypeOK
  <2>2. CASE WaitForMore
    BY <2>2 DEF WaitForMore, DecodingTypeOK
  <2>3. CASE Refuse
    BY <2>3 DEF Refuse, DecodingTypeOK
  <2>4. ASSUME NEW n \in ChunkSizes, Receive(n)
        PROVE  DecodingTypeOK'
    <3> DEFINE chunk == SubSeq(Bytes(sender), received + 1, received + n)
    <3>1. /\ n \in Nat /\ received \in Nat /\ Bytes(sender) \in Text
          /\ EndOf(Len(sender.parts)) = Len(Bytes(sender))
      BY SendersAssumption, PartsFollow DEF DecodingTypeOK, EndOf, EndIn
    <3>2. received + n <= Len(Bytes(sender)) /\ received + n \in Nat
      BY <2>4, <3>1 DEF Receive
    <3>3. chunk \in Text /\ Len(chunk) = n
      <4>1. Len(chunk) = (received + n) - received /\ chunk \in Text
        BY <3>1, <3>2, Stretch
      <4> QED
        BY <3>1, <4>1
    <3>4. /\ m_ByteBuf' = m_ByteBuf \o chunk /\ received' = received + n /\ sender' = sender
      BY <2>4 DEF Receive
    <3> HIDE DEF chunk
    <3>5. m_ByteBuf \o chunk \in Text /\ Len(m_ByteBuf \o chunk) = Len(m_ByteBuf) + n
      BY <3>3 DEF DecodingTypeOK, Text
    <3>6. Len(m_ByteBuf) \in Nat
      BY TextProps DEF DecodingTypeOK
    <3>7. m_ByteBuf' \in Text /\ Len(m_ByteBuf') = Len(m_ByteBuf) + n
      BY <3>4, <3>5, Zenon
    <3> QED
      BY <3>1, <3>2, <3>4, <3>6, <3>7 DEF DecodingTypeOK
  <2>5. CASE UNCHANGED decodingVars
    BY <2>5 DEF decodingVars, DecodingTypeOK
  <2> QED
    BY <2>1, <2>2, <2>3, <2>4, <2>5 DEF DecodingNext, Iteration
<1> QED
  BY <1>1, <1>2, PTL DEF DecodingSpec

\* Bounds, and what createLoggingEvent asserts of its own result: whatever is
\* received and wherever it is cut, it has not read behind the end of the buffer.
THEOREM DecoderStaysInside == DecodingSpec => []ReadsInside
<1>1. DecodingTypeOK => ReadsInside
  <2> SUFFICES ASSUME DecodingTypeOK
               PROVE  ReadsInside
    OBVIOUS
  <2>1. EndOf(Len(sender.parts)) = Len(Bytes(sender)) /\ Len(Bytes(sender)) \in Nat
    BY PartsFollow, TextProps DEF DecodingTypeOK, EndOf, EndIn
  <2>2. <<>> \in Text /\ sender.protocol \in {"default", "bytes", "msgpack"}
    BY SendersAssumption DEF DecodingTypeOK, Text
  <2>3. Reads(Decoded, createLoggingEvent(m_ByteBuf \o <<>>, sender.protocol), 1, m_ByteBuf)
    BY <2>2, DecoderReads DEF DecodingTypeOK, Decoded
  <2>4. Len(m_ByteBuf) \in Nat
    BY TextProps DEF DecodingTypeOK
  <2>5. Decoded.is = "ok" => Decoded.pos \in 1..Len(m_ByteBuf)
    BY <2>3, <2>4 DEF Reads, Passes
  <2> QED
    BY <2>1, <2>5 DEF ReadsInside, DecodingTypeOK
<1> QED
  BY <1>1, DecodingTypes, PTL

\* What a decoder makes of the window of a stream that begins where part k + 1
\* does: the event if the part is whole, else that it wants more bytes.
LEMMA WindowDecodes ==
  ASSUME NEW s \in Senders, Legible(s), NEW k \in 0..(Len(s.parts) - 1),
         NEW to \in Nat, EndIn(s, k) <= to, to <= Len(Bytes(s))
  PROVE  LET part == s.parts[k + 1]
             d == createLoggingEvent(SubSeq(Bytes(s), EndIn(s, k) + 1, to), s.protocol)
         IN IF EndIn(s, k + 1) <= to
            THEN IF part.event = Foreign THEN d.is = "invalid" ELSE d = Ok(part.event, Len(part.bytes))
            ELSE d.is = "small" \/ (part.event = Foreign /\ d.is = "invalid")
<1> DEFINE n == Len(s.parts)
           part == s.parts[k + 1]
           whole == Bytes(s)
           from == EndIn(s, k)
           end == EndIn(s, k + 1)
           buf == SubSeq(whole, from + 1, to)
           d == createLoggingEvent(buf, s.protocol)
           r == createLoggingEvent(part.bytes, s.protocol)
<1>1. n \in Nat /\ whole \in Text /\ DOMAIN s.parts = 1..n /\ s.protocol \in {"default", "bytes", "msgpack"}
  BY PartsFollow, SendersAssumption
<1>2. k + 1 \in 1..n /\ (k + 1) - 1 = k
  BY <1>1
<1>3. /\ from \in Nat /\ end \in Nat /\ end <= Len(whole) /\ end = from + Len(part.bytes)
      /\ part.bytes \in Text /\ Len(part.bytes) \in Nat
      /\ part.bytes = SubSeq(whole, from + 1, end)
  BY <1>2, PartInStream
<1>4. IF part.event = Foreign THEN r.is = "invalid" ELSE r = Ok(part.event, Len(part.bytes))
  BY <1>1, <1>2 DEF Legible
<1>5. from <= to /\ to <= Len(whole)
  OBVIOUS
<1> HIDE DEF n, whole, from, end, d, r
<1>6. CASE end <= to
  <2> DEFINE more == SubSeq(whole, end + 1, to)
  <2>1. more \in Text /\ buf = part.bytes \o more
    <3>1. from <= end
      BY ONLY <1>3
    <3>2. more \in Text
      BY <1>1, <1>3, <1>5, <1>6, Stretch
    <3>3. Consists(buf, SubSeq(whole, from + 1, end), more)
      BY <1>1, <1>3, <1>5, <1>6, <3>1, Cut
    <3> QED
      BY <1>3, <3>2, <3>3, Zenon DEF Consists
  <2> HIDE DEF more, part
  <2>2. Reads(r, createLoggingEvent(part.bytes \o more, s.protocol), 1, part.bytes)
    BY <1>1, <1>3, <2>1, DecoderReads DEF r
  <2>3. Reads(r, d, 1, part.bytes)
    BY <2>1, <2>2, Zenon DEF d
  <2>4. d = r
    BY <1>4, <2>3 DEF Reads, Passes, Ok
  <2> QED
    BY <1>4, <1>6, <2>4 DEF part, d, end, from, whole
<1>7. CASE ~(end <= to)
  <2> DEFINE more == SubSeq(whole, to + 1, end)
  <2>1. more \in Text /\ part.bytes = buf \o more /\ buf \in Text /\ Len(buf) = to - from
    <3>1. from <= to /\ to <= end
      BY <1>3, <1>5, <1>7
    <3>2. more \in Text
      BY <1>1, <1>3, <3>1, Stretch
    <3>3. Consists(SubSeq(whole, from + 1, end), buf, more)
      BY <1>1, <1>3, <3>1, Cut
    <3>4. buf \in Text /\ Len(buf) = to - from
      BY <1>1, <1>3, <3>1, Stretch
    <3> QED
      BY <1>3, <3>2, <3>3, <3>4, Zenon DEF Consists
  <2> HIDE DEF more, part, buf
  <2>2. Reads(d, createLoggingEvent(buf \o more, s.protocol), 1, buf)
    BY <1>1, <2>1, DecoderReads DEF d
  <2>3. Reads(d, r, 1, buf)
    BY <2>1, <2>2, Zenon DEF r
  <2>4. Len(buf) < Len(part.bytes)
    BY <1>3, <1>7, <2>1
  <2>5. ~(d.is = "ok")
    <3> SUFFICES ASSUME d.is = "ok" PROVE FALSE
      OBVIOUS
    <3>1. r = d /\ d.pos <= Len(buf) /\ d.pos \in Nat
      BY <2>3 DEF Reads, Passes
    <3>2. part.event # Foreign
      BY <1>4, <3>1
    <3>3. d.pos = Len(part.bytes)
      BY <1>4, <3>1, <3>2 DEF Ok
    <3>4. Len(buf) \in Nat
      BY <2>1, TextProps
    <3> QED
      BY <1>3, <2>4, <3>1, <3>3, <3>4
  <2>6. d.is # "small" => r = d
    BY <2>3 DEF Reads, Passes
  <2>7. d.is = "small" \/ (part.event = Foreign /\ d.is = "invalid")
    BY <1>4, <2>5, <2>6 DEF Ok
  <2> QED
    BY <1>7, <2>7 DEF part, buf, d, end, from, whole
<1> QED
  BY <1>6, <1>7

-----------------------------------------------------------------------------
Meanings == UNION {{s.parts[i].event : i \in DOMAIN s.parts} : s \in Senders}

\* Whole parts have been decoded, as they were meant, and the buffer is what
\* follows them; where forceLog has stopped, why.
InPlace ==
  LET k == Len(events)
      part == sender.parts[k + 1]
  IN /\ events \in Seq(Meanings)
     /\ k <= Len(sender.parts)
     /\ \A i \in 1..k : events[i] = sender.parts[i].event
     /\ EndIn(sender, k) <= received
     /\ m_ByteBuf = SubSeq(Bytes(sender), EndIn(sender, k) + 1, received)
     /\ stage = "idle" => k = Len(sender.parts) \/ received < EndIn(sender, k + 1)
     /\ stage = "refused" => k < Len(sender.parts) /\ part.event = Foreign
     /\ stage \in {"idle", "loop", "refused"}

\* What the loop finds in its buffer.
LEMMA BufferDecodes ==
  ASSUME DecodingTypeOK, InPlace, \A s \in Senders : Legible(s), m_ByteBuf # <<>>
  PROVE  LET k == Len(events)
             part == sender.parts[k + 1]
         IN /\ k \in Nat /\ k < Len(sender.parts)
            /\ IF EndIn(sender, k + 1) <= received
               THEN IF part.event = Foreign THEN Decoded.is = "invalid"
                    ELSE Decoded = Ok(part.event, Len(part.bytes))
               ELSE Decoded.is = "small" \/ (part.event = Foreign /\ Decoded.is = "invalid")
<1> DEFINE k == Len(events)
           n == Len(sender.parts)
<1>1. k \in Nat /\ k <= n /\ EndIn(sender, k) <= received
  BY DEF InPlace
<1>2. /\ sender \in Senders /\ received \in Nat /\ received <= Len(Bytes(sender))
      /\ m_ByteBuf = SubSeq(Bytes(sender), EndIn(sender, k) + 1, received)
  BY DEF DecodingTypeOK, InPlace
<1>3. /\ n \in Nat /\ Bytes(sender) \in Text /\ EndIn(sender, n) = Len(Bytes(sender))
      /\ \A i \in 0..n : EndIn(sender, i) \in Nat
  BY <1>2, PartsFollow
<1> HIDE DEF k, n
<1>4. k # n
  <2> SUFFICES ASSUME k = n PROVE m_ByteBuf = <<>>
    OBVIOUS
  <2>1. received = EndIn(sender, k)
    BY <1>1, <1>2, <1>3
  <2>2. m_ByteBuf = SubSeq(Bytes(sender), received + 1, received)
    BY <1>2, <2>1
  <2> QED
    BY <1>2, <1>3, <2>2 DEF Text
<1>5. k \in 0..(n - 1)
  BY <1>1, <1>3, <1>4
<1>6. LET part == sender.parts[k + 1]
          d == createLoggingEvent(SubSeq(Bytes(sender), EndIn(sender, k) + 1, received), sender.protocol)
      IN IF EndIn(sender, k + 1) <= received
         THEN IF part.event = Foreign THEN d.is = "invalid" ELSE d = Ok(part.event, Len(part.bytes))
         ELSE d.is = "small" \/ (part.event = Foreign /\ d.is = "invalid")
  BY <1>1, <1>2, <1>5, WindowDecodes DEF n
<1>7. Decoded = createLoggingEvent(SubSeq(Bytes(sender), EndIn(sender, k) + 1, received), sender.protocol)
  BY <1>2, Zenon DEF Decoded
<1> QED
  BY <1>1, <1>3, <1>4, <1>6, <1>7 DEF k, n

\* The invariant holds at the beginning.
LEMMA InPlaceInitially ==
  ASSUME \A s \in Senders : Legible(s), DecodingInit
  PROVE  InPlace
<1> DEFINE n == Len(sender.parts)
<1>1. sender \in Senders /\ received = 0 /\ m_ByteBuf = <<>> /\ stage = "idle" /\ events = <<>>
  BY DEF DecodingInit
<1>2. n \in Nat /\ EndIn(sender, 0) = 0 /\ Bytes(sender) \in Text /\ DOMAIN sender.parts = 1..n
  BY <1>1, PartsFollow, SendersAssumption
<1>3. Len(events) = 0 /\ events \in Seq(Meanings)
  BY <1>1
<1>4. m_ByteBuf = SubSeq(Bytes(sender), EndIn(sender, 0) + 1, received)
  BY <1>1, <1>2 DEF Text
<1>5. n = 0 \/ received < EndIn(sender, 1)
  <2> SUFFICES ASSUME n # 0
               PROVE  0 < EndIn(sender, 1)
    BY <1>1
  <2>1. 1 \in 1..n /\ 1 - 1 = 0
    BY <1>2
  <2> HIDE DEF n
  <2>2. sender.parts[1].bytes # <<>>
    BY <1>1, <1>2, <2>1 DEF Legible
  <2>3. /\ sender.parts[1].bytes \in Text /\ Len(sender.parts[1].bytes) \in Nat
        /\ EndIn(sender, 1) = 0 + Len(sender.parts[1].bytes)
    BY <1>1, <1>2, <2>1, PartInStream DEF n
  <2>4. Len(sender.parts[1].bytes) # 0
    BY <2>2, <2>3 DEF Text
  <2> QED
    BY <2>3, <2>4
<1> HIDE DEF n
<1> QED
  BY <1>1, <1>2, <1>3, <1>4, <1>5 DEF InPlace, n

\* A part is taken from the buffer, and what follows it stays.
LEMMA DecodeInPlace ==
  ASSUME \A s \in Senders : Legible(s), DecodingTypeOK, InPlace, Decode
  PROVE  InPlace'
<1> DEFINE k == Len(events)
           n == Len(sender.parts)
           part == sender.parts[k + 1]
           end == EndIn(sender, k + 1)
           from == EndIn(sender, k)
<1>1. /\ sender \in Senders /\ received \in Nat /\ received <= Len(Bytes(sender))
      /\ m_ByteBuf = SubSeq(Bytes(sender), from + 1, received) /\ from <= received
      /\ m_ByteBuf \in Text
  BY DEF DecodingTypeOK, InPlace
<1>2. /\ stage = "loop" /\ m_ByteBuf # <<>> /\ Decoded.is = "ok"
      /\ m_ByteBuf' = SubSeq(m_ByteBuf, Decoded.pos + 1, Len(m_ByteBuf))
      /\ events' = Append(events, Decoded.value)
      /\ sender' = sender /\ received' = received /\ stage' = stage
  BY DEF Decode, InLoop
<1>3. /\ k \in Nat /\ k < n
      /\ IF end <= received
         THEN IF part.event = Foreign THEN Decoded.is = "invalid" ELSE Decoded = Ok(part.event, Len(part.bytes))
         ELSE Decoded.is = "small" \/ (part.event = Foreign /\ Decoded.is = "invalid")
  BY <1>2, BufferDecodes
<1>4. end <= received /\ Decoded = Ok(part.event, Len(part.bytes))
  BY <1>2, <1>3
<1>5. Decoded.pos = Len(part.bytes) /\ Decoded.value = part.event
  BY <1>4 DEF Ok
<1>6. k + 1 \in 1..n /\ (k + 1) - 1 = k /\ n \in Nat /\ DOMAIN sender.parts = 1..n
  BY <1>1, <1>3, SendersAssumption
<1>7. from \in Nat /\ end \in Nat /\ end = from + Len(part.bytes) /\ Len(part.bytes) \in Nat
  BY <1>1, <1>6, PartInStream
<1>8. events \in Seq(Meanings) /\ \A i \in 1..k : events[i] = sender.parts[i].event
  BY DEF InPlace
<1>9. part.event \in Meanings
  <2> HIDE DEF n, k
  <2> QED
    BY <1>1, <1>6 DEF Meanings
<1>10. /\ events' \in Seq(Meanings) /\ Len(events') = k + 1
       /\ \A i \in 1..(k + 1) : events'[i] = sender.parts[i].event
  <2>1. events' = Append(events, part.event)
    BY <1>2, <1>5
  <2> DEFINE event == part.event
  <2>2. event \in Meanings
    BY <1>9
  <2>3. event = sender.parts[k + 1].event
    OBVIOUS
  <2> HIDE DEF event
  <2>4. /\ Append(events, event) \in Seq(Meanings) /\ Len(Append(events, event)) = k + 1
        /\ \A i \in 1..k : Append(events, event)[i] = events[i]
        /\ Append(events, event)[k + 1] = event
    BY <1>8, <2>2
  <2>5. /\ events' \in Seq(Meanings) /\ Len(events') = k + 1
        /\ \A i \in 1..k : events'[i] = events[i]
        /\ events'[k + 1] = event
    BY <2>1, <2>4, Zenon DEF event
  <2> HIDE DEF k
  <2>6. ASSUME NEW i \in 1..(k + 1)
        PROVE  events'[i] = sender.parts[i].event
    <3>1. i = k + 1 \/ i \in 1..k
      BY <1>3
    <3> QED
      BY <1>8, <2>3, <2>5, <3>1
  <2> QED
    BY <2>5, <2>6
<1>11. m_ByteBuf' = SubSeq(Bytes(sender), end + 1, received)
  <2> DEFINE whole == Bytes(sender)
             p == Len(part.bytes)
  <2>1. whole \in Text /\ p \in Nat /\ end = from + p
    BY <1>1, <1>7, PartsFollow
  <2>2. m_ByteBuf' = SubSeq(SubSeq(whole, from + 1, received), p + 1, Len(m_ByteBuf))
    BY <1>1, <1>2, <1>5
  <2>3. Len(m_ByteBuf) = received - from
    BY <1>1, <1>7, <2>1, Stretch
  <2> HIDE DEF whole, p, end, from
  <2>4. SubSeq(SubSeq(whole, from + 1, received), p + 1, received - from) = SubSeq(whole, end + 1, received)
    <3>1. /\ from \in Nat /\ received \in Nat /\ from + p <= received /\ received <= Len(whole)
          /\ Len(whole) \in Nat
      BY <1>1, <1>4, <1>7, <2>1, TextProps DEF whole
    <3> QED
      BY <2>1, <3>1, StretchOfStretch
  <2> QED
    BY <2>2, <2>3, <2>4 DEF whole
<1> HIDE DEF k, n, part, end, from
<1>12. Len(events') <= Len(sender'.parts) /\ EndIn(sender', Len(events')) <= received'
  <2>1. EndIn(sender, k + 1) <= received /\ k + 1 <= n
    BY <1>4, <1>6 DEF end
  <2> QED
    BY <1>2, <1>10, <2>1 DEF n
<1>13. m_ByteBuf' = SubSeq(Bytes(sender'), EndIn(sender', Len(events')) + 1, received')
  BY <1>2, <1>10, <1>11 DEF end, Bytes
<1> QED
  BY <1>2, <1>10, <1>12, <1>13 DEF InPlace

\* It is kept when forceLog is entered: the chunk goes on where the buffer ends.
LEMMA ReceiveInPlace ==
  ASSUME NEW n \in ChunkSizes, DecodingTypeOK, InPlace, Receive(n)
  PROVE  InPlace'
<1> DEFINE whole == Bytes(sender)
           from == EndIn(sender, Len(events))
           to == received + n
<1>1. /\ n \in Nat /\ received \in Nat /\ whole \in Text /\ sender \in Senders /\ Len(sender.parts) \in Nat
      /\ EndOf(Len(sender.parts)) = Len(whole)
      /\ from <= received
  BY SendersAssumption, PartsFollow DEF DecodingTypeOK, InPlace, EndOf, EndIn
<1>2. /\ m_ByteBuf' = m_ByteBuf \o SubSeq(whole, received + 1, received + n) /\ received' = to
      /\ stage' = "loop" /\ sender' = sender /\ events' = events
  BY DEF Receive
<1>3. to <= Len(whole) /\ to \in Nat /\ received <= to
  BY <1>1 DEF Receive
<1>4. from \in Nat
  <2>1. Len(events) \in 0..Len(sender.parts)
    BY <1>1 DEF InPlace
  <2> QED
    BY <1>1, <2>1, PartsFollow
<1>5. m_ByteBuf = SubSeq(whole, from + 1, received)
  BY DEF InPlace
<1> HIDE DEF whole, from, to
<1>6. Consists(SubSeq(whole, from + 1, to), SubSeq(whole, from + 1, received), SubSeq(whole, received + 1, to))
  BY <1>1, <1>3, <1>4, Cut
<1>7. m_ByteBuf' = SubSeq(whole, from + 1, to)
  BY <1>2, <1>5, <1>6, Zenon DEF Consists, to
<1>8. from <= received'
  BY <1>1, <1>2, <1>3, <1>4
<1>9. m_ByteBuf' = SubSeq(Bytes(sender'), EndIn(sender', Len(events')) + 1, received')
  BY <1>2, <1>7, Zenon DEF whole, from
<1>10. EndIn(sender', Len(events')) <= received'
  BY <1>2, <1>8 DEF from
<1> QED
  BY <1>2, <1>9, <1>10 DEF InPlace

\* It is kept by every step.
LEMMA InPlaceAlways ==
  ASSUME \A s \in Senders : Legible(s)
  PROVE  DecodingSpec => []InPlace
<1>1. DecodingInit => InPlace
  BY InPlaceInitially
<1>2. DecodingTypeOK /\ InPlace /\ [DecodingNext]_decodingVars => InPlace'
  <2> SUFFICES ASSUME DecodingTypeOK, InPlace, [DecodingNext]_decodingVars
               PROVE  InPlace'
    OBVIOUS
  <2>1. CASE Decode
    BY <2>1, DecodeInPlace
  <2>2. CASE WaitForMore
    <3> DEFINE k == Len(events)
    <3>1. k = Len(sender.parts) \/ received < EndIn(sender, k + 1)
      <4>1. CASE m_ByteBuf = <<>>
        <5> SUFFICES ASSUME k # Len(sender.parts), ~(received < EndIn(sender, k + 1))
                     PROVE  FALSE
          OBVIOUS
        <5>1. /\ sender \in Senders /\ Len(sender.parts) \in Nat /\ k \in Nat /\ k <= Len(sender.parts)
              /\ DOMAIN sender.parts = 1..Len(sender.parts)
              /\ received \in Nat /\ received <= Len(Bytes(sender)) /\ Bytes(sender) \in Text
              /\ EndIn(sender, k) <= received
              /\ m_ByteBuf = SubSeq(Bytes(sender), EndIn(sender, k) + 1, received)
          BY SendersAssumption, PartsFollow DEF DecodingTypeOK, InPlace
        <5> HIDE DEF k
        <5>2. k + 1 \in 1..Len(sender.parts) /\ (k + 1) - 1 = k
          BY <5>1
        <5>3. /\ EndIn(sender, k) \in Nat /\ EndIn(sender, k + 1) \in Nat
              /\ EndIn(sender, k + 1) = EndIn(sender, k) + Len(sender.parts[k + 1].bytes)
              /\ sender.parts[k + 1].bytes \in Text /\ Len(sender.parts[k + 1].bytes) \in Nat
          BY <5>1, <5>2, PartInStream
        <5>4. sender.parts[k + 1].bytes # <<>>
          BY <5>1, <5>2 DEF Legible
        <5>5. Len(sender.parts[k + 1].bytes) # 0
          BY <5>3, <5>4 DEF Text
        <5>6. Len(m_ByteBuf) = received - EndIn(sender, k)
          BY <5>1, <5>3, Stretch
        <5>7. Len(m_ByteBuf) = 0
          BY <4>1
        <5> QED
          BY <5>1, <5>3, <5>5, <5>6, <5>7
      <4>2. CASE m_ByteBuf # <<>> /\ Decoded.is = "small"
        <5>1. LET part == sender.parts[k + 1]
              IN IF EndIn(sender, k + 1) <= received
                 THEN IF part.event = Foreign THEN Decoded.is = "invalid"
                      ELSE Decoded = Ok(part.event, Len(part.bytes))
                 ELSE Decoded.is = "small" \/ (part.event = Foreign /\ Decoded.is = "invalid")
          BY <4>2, BufferDecodes
        <5>2. ~(EndIn(sender, k + 1) <= received)
          BY <4>2, <5>1 DEF Ok
        <5>3. k < Len(sender.parts) /\ k \in Nat /\ Len(sender.parts) \in Nat /\ received \in Nat /\ sender \in Senders
          BY <4>2, BufferDecodes, SendersAssumption DEF DecodingTypeOK
        <5> HIDE DEF k
        <5>4. EndIn(sender, k + 1) \in Nat
          <6>1. k + 1 \in 1..Len(sender.parts)
            BY <5>3
          <6> QED
            BY <5>3, <6>1, PartInStream
        <5> QED
          BY <5>2, <5>3, <5>4
      <4> QED
        BY <2>2, <4>1, <4>2 DEF WaitForMore
    <3> QED
      BY <2>2, <3>1 DEF WaitForMore, InPlace
  <2>3. CASE Refuse
    <3>1. m_ByteBuf # <<>> /\ Decoded.is = "invalid"
      BY <2>3 DEF Refuse, InLoop
    <3>2. Len(events) < Len(sender.parts) /\ sender.parts[Len(events) + 1].event = Foreign
      BY <3>1, BufferDecodes DEF Ok
    <3> QED
      BY <2>3, <3>2 DEF Refuse, InPlace
  <2>4. ASSUME NEW n \in ChunkSizes, Receive(n)
        PROVE  InPlace'
    BY <2>4, ReceiveInPlace
  <2>5. CASE UNCHANGED decodingVars
    BY <2>5 DEF decodingVars, InPlace
  <2> QED
    BY <2>1, <2>2, <2>3, <2>4, <2>5 DEF DecodingNext, Iteration
<1> QED
  BY <1>1, <1>2, DecodingTypes, PTL DEF DecodingSpec

\* Of parts that a decoder can read alone, whatever the cuts, the decoded events
\* are the first ones that were sent, field by field, and the buffer begins
\* where the next part does.
THEOREM EventsAreAsWritten ==
  ASSUME \A s \in Senders : Legible(s)
  PROVE  DecodingSpec => []DecodesWhatIsWritten
<1>1. InPlace => DecodesWhatIsWritten
  <2> SUFFICES ASSUME InPlace
               PROVE  DecodesWhatIsWritten
    OBVIOUS
  <2>1. DOMAIN events = 1..Len(events)
    BY DEF InPlace
  <2> QED
    BY <2>1 DEF InPlace, DecodesWhatIsWritten, EndOf, EndIn
<1> QED
  BY <1>1, InPlaceAlways, PTL

\* When forceLog waits for more bytes, no whole event of theirs is left in the buffer.
THEOREM NoWholeEventWaits ==
  ASSUME \A s \in Senders : Legible(s)
  PROVE  DecodingSpec => []NoneDelayed
<1>1. InPlace => NoneDelayed
  BY DEF InPlace, NoneDelayed, EndOf, EndIn
<1> QED
  BY <1>1, InPlaceAlways, PTL

\* No beginning of an event, cut anywhere, is taken for malformed.
THEOREM NoEventIsRefused ==
  ASSUME \A s \in Senders : Legible(s)
  PROVE  DecodingSpec => []RefusesOnlyForeign
<1>1. InPlace => RefusesOnlyForeign
  BY DEF InPlace, RefusesOnlyForeign
<1> QED
  BY <1>1, InPlaceAlways, PTL

-----------------------------------------------------------------------------
\* Numbers as they are written.
LEMMA Division ==
  ASSUME NEW n \in Int
  PROVE  /\ n \div 256 \in Int /\ n % 256 \in Byte
         /\ n = 256 * (n \div 256) + (n % 256)
<1>1. n \div 256 \in Int /\ n % 256 \in Int /\ n % 256 >= 0 /\ n % 256 < 256
  BY SMT
<1>2. n = 256 * (n \div 256) + (n % 256)
  BY SMT
<1> QED
  BY <1>1, <1>2 DEF Byte

\* Division by 256 finds quotient and remainder again.
LEMMA Remainder ==
  ASSUME NEW q \in Int, NEW r \in Byte
  PROVE  (256 * q + r) \div 256 = q /\ (256 * q + r) % 256 = r
BY SMT DEF Byte

\* Division by 65536.
LEMMA Division65536 ==
  ASSUME NEW n \in Int
  PROVE  /\ n \div 65536 \in Int
         /\ n - 65536 * (n \div 65536) \in Int
         /\ 0 <= n - 65536 * (n \div 65536)
         /\ n - 65536 * (n \div 65536) < 65536
<1>1. n \div 65536 \in Int /\ n % 65536 \in Int /\ n % 65536 >= 0 /\ n % 65536 < 65536
  BY SMT
<1>2. n = 65536 * (n \div 65536) + (n % 65536)
  BY SMT
<1> QED
  BY <1>1, <1>2, SMT

\* The two halves of a number of four bytes.
LEMMA TwoAndTwo ==
  ASSUME NEW a \in Byte, NEW b \in Byte, NEW c \in Byte, NEW d \in Byte
  PROVE  <<a, b>> \o <<c, d>> = <<a, b, c, d>>
<1> DEFINE s == <<a, b>> \o <<c, d>>
           t == <<a, b, c, d>>
<1>1. <<a, b>> \in Text /\ <<c, d>> \in Text /\ Len(<<a, b>>) = 2 /\ Len(<<c, d>>) = 2
  BY DEF Text
<1>2. s \in Text /\ Len(s) = 4 /\ s[1] = a /\ s[2] = b /\ s[3] = c /\ s[4] = d
  BY <1>1 DEF Text
<1>3. t \in Text /\ Len(t) = 4 /\ t[1] = a /\ t[2] = b /\ t[3] = c /\ t[4] = d
  BY DEF Text
<1> HIDE DEF s, t
<1>4. \A i \in 1..4 : s[i] = t[i]
  BY <1>2, <1>3
<1>5. s = t
  BY <1>2, <1>3, <1>4 DEF Text
<1> QED
  BY <1>5, Zenon DEF s, t

\* The bytes of a number.
LEMMA IntInBytes ==
  ASSUME NEW n \in Int
  PROVE  \E h \in Int, b \in Byte, c \in Byte, d \in Byte :
           /\ n = 256 * (256 * (256 * h + b) + c) + d
           /\ Int4(n) = <<h % 256, b, c, d>>
<1> DEFINE high == n \div 65536
           low == n - 65536 * high
           h == high \div 256
           b == high % 256
           c == low \div 256
           d == low % 256
<1>1. high \in Int /\ low \in Int /\ 0 <= low /\ low < 65536
  BY Division65536
<1>2. n = 65536 * high + low
  BY <1>1, SMT
<1> HIDE DEF high, low
<1>3. h \in Int /\ b \in Byte /\ high = 256 * h + b
  BY <1>1, Division
<1>4. c \in Int /\ d \in Byte /\ low = 256 * c + d
  BY <1>1, Division
<1>5. c \in Byte
  BY <1>1, <1>4, SMT DEF Byte
<1> HIDE DEF h, b, c, d
<1>6. n = 256 * (256 * high + c) + d
  BY <1>1, <1>2, <1>4, <1>5, SMT DEF Byte
<1>7. n = 256 * (256 * (256 * h + b) + c) + d
  BY <1>3, <1>6
<1> DEFINE m == 256 * high + c
<1>8. m \in Int
  BY <1>1, <1>5 DEF Byte
<1>9. n \div 256 = m /\ n % 256 = d
  <2> HIDE DEF m
  <2>1. n = 256 * m + d
    BY <1>6 DEF m
  <2> QED
    BY <1>4, <1>8, <2>1, Remainder
<1>10. m % 256 = c
  BY <1>1, <1>5, Remainder
<1>11. Short(n) = <<c, d>>
  BY <1>9, <1>10 DEF Short
<1>12. Short(high) = <<h % 256, b>>
  BY DEF Short, h, b
<1>13. Int4(n) = Short(high) \o Short(n)
  BY SMT DEF Int4, high
<1>14. Int4(n) = <<h % 256, b>> \o <<c, d>>
  BY <1>11, <1>12, <1>13, Zenon
<1>15. <<h % 256, b>> \o <<c, d>> = <<h % 256, b, c, d>>
  BY <1>3, <1>4, <1>5, Division, TwoAndTwo
<1> QED
  BY <1>3, <1>4, <1>5, <1>7, <1>14, <1>15

Word == {n \in Nat : n < 4294967296}
SignedWord == {n \in Int : -2147483648 <= n /\ n < 2147483648}

\* A byte, and what is written of a negative one.
LEMMA SmallRemainder ==
  ASSUME NEW h \in Int
  PROVE  /\ h \in Byte => h % 256 = h
         /\ h \in -128..-1 => h % 256 = h + 256
<1>1. ASSUME h \in Byte
      PROVE  h % 256 = h
  <2>1. (256 * 0 + h) % 256 = h
    BY <1>1, Remainder
  <2>2. 256 * 0 + h = h
    OBVIOUS
  <2> QED
    BY <2>1, <2>2
<1>2. ASSUME h \in -128..-1
      PROVE  h % 256 = h + 256
  <2>1. h + 256 \in Byte
    BY <1>2 DEF Byte
  <2>2. (256 * (-1) + (h + 256)) % 256 = h + 256
    BY <2>1, Remainder
  <2>3. 256 * (-1) + (h + 256) = h
    OBVIOUS
  <2> QED
    BY <2>2, <2>3
<1> QED
  BY <1>1, <1>2

\* A length of four bytes is read as it was written.
LEMMA UnsignedOfInt ==
  ASSUME NEW n \in Word
  PROVE  Int4(n) \in Text /\ Len(Int4(n)) = 4 /\ Unsigned(Int4(n)) = n
<1>1. n \in Int
  BY SMT DEF Word
<1>2. PICK h \in Int, b \in Byte, c \in Byte, d \in Byte :
             /\ n = 256 * (256 * (256 * h + b) + c) + d
             /\ Int4(n) = <<h % 256, b, c, d>>
  BY <1>1, IntInBytes
<1>3. h \in Byte
  BY <1>2, SMT DEF Word, Byte
<1>4. h % 256 = h
  BY <1>3, SmallRemainder
<1> DEFINE t == <<h, b, c, d>>
<1>5. Int4(n) = t
  BY <1>2, <1>4
<1>6. t \in Text /\ Len(t) = 4 /\ t[1] = h /\ t[2] = b /\ t[3] = c /\ t[4] = d
  BY <1>3 DEF Text
<1> HIDE DEF t
<1>7. Number256(0, t) = 256 * (256 * (256 * (256 * 0 + t[1]) + t[2]) + t[3]) + t[4]
  BY <1>6, NumberOfFour
<1>8. Number256(0, t) = n
  BY <1>2, <1>6, <1>7
<1> QED
  BY <1>5, <1>6, <1>8 DEF Unsigned

\* The value of three bytes behind a first one.
LEMMA NumberOfThree ==
  ASSUME NEW first \in Int, NEW b \in Text, Len(b) = 3
  PROVE  Number256(first, b) = 256 * (256 * (256 * first + b[1]) + b[2]) + b[3]
<1>1. PICK f : AddsUp(f, first, b, Len(b)) /\ Number256(first, b) = f[Len(b)]
  <2>1. Len(b) \in Nat
    OBVIOUS
  <2> QED
    BY <2>1, NumberIs
<1>2. /\ f[0] = first /\ f[1] = 256 * f[0] + b[1] /\ f[2] = 256 * f[1] + b[2]
      /\ f[3] = 256 * f[2] + b[3]
  BY <1>1 DEF AddsUp
<1> QED
  BY <1>1, <1>2

\* A level is read as it was written, negative ones too.
LEMMA SignedOfInt ==
  ASSUME NEW n \in SignedWord
  PROVE  Int4(n) \in Text /\ Len(Int4(n)) = 4 /\ Signed(Int4(n)) = n
<1>1. n \in Int
  BY SMT DEF SignedWord
<1>2. PICK h \in Int, b \in Byte, c \in Byte, d \in Byte :
             /\ n = 256 * (256 * (256 * h + b) + c) + d
             /\ Int4(n) = <<h % 256, b, c, d>>
  BY <1>1, IntInBytes
<1>3. h \in -128..127
  BY <1>2, SMT DEF SignedWord, Byte
<1> DEFINE a == h % 256
           t == <<a, b, c, d>>
           first == IF a < 128 THEN a ELSE a - 256
<1>4. a \in Byte /\ first = h
  <2>1. CASE h \in 0..127
    <3>1. h \in Byte
      BY <2>1 DEF Byte
    <3>2. a = h
      BY <3>1, SmallRemainder
    <3> QED
      BY <2>1, <3>1, <3>2
  <2>2. CASE h \in -128..-1
    <3>1. a = h + 256
      BY <2>2, SmallRemainder
    <3> HIDE DEF a
    <3> QED
      BY <2>2, <3>1 DEF Byte
  <2> QED
    BY <1>3, <2>1, <2>2
<1> HIDE DEF a
<1>5. Int4(n) = t
  BY <1>2 DEF a
<1>6. t \in Text /\ Len(t) = 4 /\ t[1] = a /\ Tail(t) = <<b, c, d>>
  BY <1>4 DEF Text
<1>7. /\ Tail(t) \in Text /\ Len(Tail(t)) = 3
      /\ Tail(t)[1] = b /\ Tail(t)[2] = c /\ Tail(t)[3] = d
  BY <1>6 DEF Text
<1>8. Signed(t) = Number256(first, Tail(t))
  BY <1>6 DEF Signed
<1> HIDE DEF t, first
<1> DEFINE u == Tail(t)
<1>9. Number256(h, u) = 256 * (256 * (256 * h + b) + c) + d
  <2>1. u \in Text /\ Len(u) = 3 /\ u[1] = b /\ u[2] = c /\ u[3] = d
    BY <1>7
  <2> HIDE DEF u
  <2>2. Number256(h, u) = 256 * (256 * (256 * h + u[1]) + u[2]) + u[3]
    BY <2>1, NumberOfThree
  <2> QED
    BY <2>1, <2>2
<1> QED
  BY <1>2, <1>4, <1>5, <1>6, <1>8, <1>9

\* The value of seven bytes behind a zero, the first three of them zero.
LEMMA NumberOfSeven ==
  ASSUME NEW first \in Int, NEW b \in Text, Len(b) = 7, first = 0, b[1] = 0, b[2] = 0, b[3] = 0
  PROVE  Number256(first, b) = 256 * (256 * (256 * b[4] + b[5]) + b[6]) + b[7]
<1>1. PICK f : AddsUp(f, first, b, Len(b)) /\ Number256(first, b) = f[Len(b)]
  <2>1. Len(b) \in Nat
    OBVIOUS
  <2> QED
    BY <2>1, NumberIs
<1>2. /\ f[0] = first /\ f[1] = 256 * f[0] + b[1] /\ f[2] = 256 * f[1] + b[2]
      /\ f[3] = 256 * f[2] + b[3] /\ f[4] = 256 * f[3] + b[4] /\ f[5] = 256 * f[4] + b[5]
      /\ f[6] = 256 * f[5] + b[6] /\ f[7] = 256 * f[6] + b[7]
  BY <1>1 DEF AddsUp
<1>3. \A i \in 1..7 : b[i] \in Nat
  BY TextProps
<1>4. f[3] = 0 /\ f[4] = b[4]
  BY <1>2, <1>3
<1> QED
  BY <1>1, <1>2, <1>4

\* A time is read as it was written.
LEMMA SignedOfLong ==
  ASSUME NEW n \in Word
  PROVE  Long(n) \in Text /\ Len(Long(n)) = 8 /\ Signed(Long(n)) = n
<1>1. n \in Int
  BY SMT DEF Word
<1>2. PICK h \in Int, b \in Byte, c \in Byte, d \in Byte :
             /\ n = 256 * (256 * (256 * h + b) + c) + d
             /\ Int4(n) = <<h % 256, b, c, d>>
  BY <1>1, IntInBytes
<1>3. h \in Byte /\ h % 256 = h
  <2>1. h \in Byte
    BY <1>2, SMT DEF Word, Byte
  <2> QED
    BY <2>1, SmallRemainder
<1> DEFINE z == <<0, 0, 0, 0>>
           t == <<h, b, c, d>>
           l == z \o t
<1>4. Long(n) = l
  BY <1>2, <1>3, Zenon DEF Long
<1>5. z \in Text /\ Len(z) = 4 /\ z[1] = 0 /\ z[2] = 0 /\ z[3] = 0 /\ z[4] = 0
  BY DEF Text, Byte
<1>6. t \in Text /\ Len(t) = 4 /\ t[1] = h /\ t[2] = b /\ t[3] = c /\ t[4] = d
  BY <1>3 DEF Text
<1> HIDE DEF z, t
<1>7. l \in Text /\ MadeOf(l, z, t)
  BY <1>5, <1>6, Concatenated
<1> HIDE DEF l
<1>8. /\ Len(l) = 8
      /\ l[1] = 0 /\ l[2] = 0 /\ l[3] = 0 /\ l[4] = 0 /\ l[4 + 1] = h /\ l[4 + 2] = b /\ l[4 + 3] = c /\ l[4 + 4] = d
  BY <1>5, <1>6, <1>7 DEF MadeOf
<1> DEFINE u == Tail(l)
<1>9. u \in Text /\ Len(u) = 7 /\ \A i \in 1..7 : u[i] = l[i + 1]
  <2>1. l \in Seq(Byte) /\ l # <<>> /\ Len(l) = 8
    BY <1>7, <1>8 DEF Text
  <2>2. u \in Seq(Byte) /\ Len(u) = Len(l) - 1 /\ \A i \in 1..Len(u) : u[i] = l[i + 1]
    BY <2>1, HeadTailProperties
  <2> HIDE DEF u
  <2> QED
    BY <2>1, <2>2 DEF Text
<1>10. Signed(l) = Number256(0, u)
  BY <1>8 DEF Signed
<1> HIDE DEF u
<1>11. u[1] = 0 /\ u[2] = 0 /\ u[3] = 0 /\ u[4] = h /\ u[5] = b /\ u[6] = c /\ u[7] = d
  BY <1>8, <1>9
<1>12. Number256(0, u) = 256 * (256 * (256 * u[4] + u[5]) + u[6]) + u[7]
  BY <1>9, <1>11, NumberOfSeven
<1>13. Signed(l) = n
  BY <1>2, <1>10, <1>11, <1>12
<1> QED
  BY <1>4, <1>7, <1>8, <1>13

-----------------------------------------------------------------------------
\* What was written is read back.
Written(buf, pos, t) ==
  /\ buf \in Text /\ t \in Text /\ pos \in Nat
  /\ pos + Len(t) <= Len(buf)
  /\ \A i \in 1..Len(t) : buf[pos + i] = t[i]

\* A buffer is written at its own beginning.
LEMMA WrittenWhole ==
  ASSUME NEW buf \in Text
  PROVE  Written(buf, 0, buf)
<1>1. Len(buf) \in Nat
  BY TextProps
<1> QED
  BY <1>1 DEF Written

\* Where a text of two parts is written, so are they.
LEMMA WrittenParts ==
  ASSUME NEW buf, NEW pos, NEW front \in Text, NEW back \in Text, NEW t \in Text,
         MadeOf(t, front, back), Written(buf, pos, t)
  PROVE  /\ Written(buf, pos, front)
         /\ Written(buf, pos + Len(front), back)
         /\ Len(t) = Len(front) + Len(back)
<1>1. t \in Text /\ MadeOf(t, front, back)
  OBVIOUS
<1>2. Written(buf, pos, t)
  OBVIOUS
<1>3. Len(front) \in Nat /\ Len(back) \in Nat /\ Len(buf) \in Nat
  BY <1>2, TextProps DEF Written
<1>4. /\ buf \in Text /\ pos \in Nat
      /\ pos + (Len(front) + Len(back)) <= Len(buf)
      /\ \A i \in 1..(Len(front) + Len(back)) : buf[pos + i] = t[i]
      /\ \A i \in 1..Len(front) : t[i] = front[i]
      /\ \A i \in 1..Len(back) : t[Len(front) + i] = back[i]
  BY <1>1, <1>2 DEF Written, MadeOf
<1>5. Written(buf, pos, front)
  BY <1>3, <1>4 DEF Written
<1>6. ASSUME NEW i \in 1..Len(back)
      PROVE  buf[(pos + Len(front)) + i] = back[i]
  <2> DEFINE l == Len(front) + i
  <2>1. l \in 1..(Len(front) + Len(back)) /\ pos + l = (pos + Len(front)) + i
    BY <1>3, <1>4
  <2> HIDE DEF l
  <2>2. buf[pos + l] = t[l]
    BY <1>4, <2>1
  <2>3. t[l] = back[i]
    BY <1>4 DEF l
  <2> QED
    BY <2>1, <2>2, <2>3
<1>7. Written(buf, pos + Len(front), back)
  BY <1>3, <1>4, <1>6 DEF Written
<1> QED
  BY <1>1, <1>5, <1>7 DEF MadeOf

\* The readers find what is written where they are: bytes, ...
LEMMA WrittenBytes ==
  ASSUME NEW buf, NEW pos, NEW t, Written(buf, pos, t)
  PROVE  ReadBytes(buf, pos, Len(t)) = Ok(t, pos + Len(t))
<1>1. buf \in Text /\ t \in Text /\ pos \in Nat /\ Len(t) \in Nat /\ Len(buf) \in Nat /\ pos + Len(t) <= Len(buf)
  BY TextProps DEF Written
<1>2. HasRoom(buf, pos, Len(t))
  BY <1>1 DEF HasRoom
<1> DEFINE s == SubSeq(buf, pos + 1, pos + Len(t))
<1>3. s \in Text /\ Len(s) = Len(t) /\ \A i \in 1..Len(t) : s[i] = buf[pos + i]
  <2>1. buf \in Seq(Byte) /\ pos \in Nat /\ Len(t) \in Nat /\ Len(buf) \in Nat /\ pos + Len(t) <= Len(buf)
    BY <1>1 DEF Text
  <2>2. s \in Seq(Byte)
    BY ONLY <2>1
  <2>3. Len(s) = Len(t) /\ \A i \in 1..Len(t) : s[i] = buf[pos + i]
    BY ONLY <2>1
  <2> QED
    BY ONLY <2>2, <2>3 DEF Text
<1> HIDE DEF s
<1>4. \A i \in 1..Len(t) : s[i] = t[i]
  BY <1>3 DEF Written
<1>5. s = t
  <2>1. s \in Seq(Byte) /\ t \in Seq(Byte) /\ Len(s) = Len(t)
    BY <1>1, <1>3 DEF Text
  <2>2. \A i \in 1..Len(s) : s[i] = t[i]
    BY <1>3, <1>4
  <2> QED
    BY <2>1, <2>2, SeqEqual
<1> QED
  BY <1>2, <1>5 DEF ReadBytes, s

\* ... numbers, ...
LEMMA WrittenNumbers ==
  ASSUME NEW buf, NEW pos, NEW n
  PROVE  /\ n \in SignedWord /\ Written(buf, pos, Int4(n)) => ReadInt(buf, pos) = Ok(n, pos + 4)
         /\ n \in Word /\ Written(buf, pos, Long(n)) => ReadLong(buf, pos) = Ok(n, pos + 8)
<1>1. ASSUME n \in SignedWord, Written(buf, pos, Int4(n))
      PROVE  ReadInt(buf, pos) = Ok(n, pos + 4)
  <2> DEFINE t == Int4(n)
  <2>1. Len(t) = 4 /\ Signed(t) = n
    BY <1>1, SignedOfInt
  <2>2. ReadBytes(buf, pos, 4) = Ok(t, pos + 4)
    BY <1>1, <2>1, WrittenBytes
  <2> HIDE DEF t
  <2> QED
    BY <2>1, <2>2, SMT DEF ReadInt, Then, Ok
<1>2. ASSUME n \in Word, Written(buf, pos, Long(n))
      PROVE  ReadLong(buf, pos) = Ok(n, pos + 8)
  <2> DEFINE t == Long(n)
  <2>1. Len(t) = 8 /\ Signed(t) = n
    BY <1>2, SignedOfLong
  <2>2. ReadBytes(buf, pos, 8) = Ok(t, pos + 8)
    BY <1>2, <2>1, WrittenBytes
  <2> HIDE DEF t
  <2> QED
    BY <2>1, <2>2, SMT DEF ReadLong, Then, Ok
<1> QED
  BY <1>1, <1>2

\* ... and texts behind their lengths.
LEMMA WrittenLongText ==
  ASSUME NEW buf, NEW pos, NEW t \in Text, Len(t) \in Word, Written(buf, pos, LongText(t))
  PROVE  /\ ReadText(buf, pos, 4) = Ok(t, pos + Len(LongText(t)))
         /\ Len(LongText(t)) = 4 + Len(t)
<1> DEFINE len == Int4(Len(t))
<1>1. len \in Text /\ Len(len) = 4 /\ Unsigned(len) = Len(t)
  BY UnsignedOfInt
<1>2. LongText(t) = len \o t
  BY Zenon DEF LongText, len
<1> HIDE DEF len
<1>3. /\ Written(buf, pos, len)
      /\ Written(buf, pos + 4, t)
      /\ Len(LongText(t)) = 4 + Len(t)
  <2> DEFINE w == LongText(t)
  <2>1. w = len \o t /\ Written(buf, pos, w)
    BY <1>2
  <2> HIDE DEF w
  <2>2. w \in Text /\ MadeOf(w, len, t)
    BY <1>1, <2>1, Concatenated, Zenon
  <2>3. Written(buf, pos, len) /\ Written(buf, pos + Len(len), t) /\ Len(w) = Len(len) + Len(t)
    <3>1. len \in Text /\ t \in Text /\ w \in Text /\ MadeOf(w, len, t) /\ Written(buf, pos, w)
      BY <1>1, <2>1, <2>2
    <3> QED
      BY <3>1, WrittenParts
  <2> QED
    BY <1>1, <2>3 DEF w
<1>4. ReadBytes(buf, pos, 4) = Ok(len, pos + 4)
  <2>1. ReadBytes(buf, pos, Len(len)) = Ok(len, pos + Len(len))
    BY <1>3, WrittenBytes, Zenon
  <2> QED
    BY <1>1, <2>1
<1>5. ReadBytes(buf, pos + 4, Len(t)) = Ok(t, (pos + 4) + Len(t))
  BY <1>3, WrittenBytes
<1>6. ReadText(buf, pos, 4) = Ok(t, (pos + 4) + Len(t))
  BY <1>1, <1>4, <1>5, SMT DEF ReadText, Then, Ok
<1>7. pos \in Nat /\ Len(t) \in Nat
  BY <1>3, TextProps DEF Written
<1> QED
  BY <1>3, <1>6, <1>7

\* The fields of known are read as v has them.
Gathered(r, v, known, pos) ==
  /\ r.is = "ok" /\ r.pos = pos
  /\ DOMAIN r.value = known
  /\ \A f \in known : r.value[f] = v[f]

\* One more field is read as v has it.
LEMMA NextGathered ==
  ASSUME NEW buf, NEW r, NEW v, NEW known, NEW pos, NEW to, NEW field,
         Gathered(r, v, known, pos), ReadField(buf, pos, field) = Ok(v[field], to)
  PROVE  Gathered(ReadNextField(buf, r, field), v, known \cup {field}, to)
<1> DEFINE s == ReadField(buf, r.pos, field)
           joined == [f \in DOMAIN r.value \cup {field} |-> IF f = field THEN s.value ELSE r.value[f]]
           next == ReadNextField(buf, r, field)
<1>1. r.is = "ok" /\ r.pos = pos /\ DOMAIN r.value = known /\ \A f \in known : r.value[f] = v[f]
  BY DEF Gathered
<1>2. s.is = "ok" /\ s.value = v[field] /\ s.pos = to
  BY <1>1 DEF Ok
<1>3. next = Ok(joined, s.pos)
  BY <1>1, <1>2, NextFieldIs
<1>4. /\ DOMAIN joined = known \cup {field}
      /\ \A f \in known \cup {field} : joined[f] = IF f = field THEN s.value ELSE r.value[f]
  BY <1>1
<1> HIDE DEF s, joined, next
<1>5. next.is = "ok" /\ next.pos = to /\ next.value = joined
  BY <1>2, <1>3 DEF Ok
<1>6. Gathered(next, v, known \cup {field}, to)
  BY <1>1, <1>2, <1>4, <1>5 DEF Gathered
<1> QED
  BY <1>6 DEF next

\* The readers of the bytes protocol.
LEMMA BytesReaders ==
  ASSUME NEW buf, NEW pos
  PROVE  /\ \A f \in {"m_LoggerName", "m_Message", "m_ThreadName"} : ReadField(buf, pos, f) = ReadText(buf, pos, 4)
         /\ ReadField(buf, pos, "m_Level") = ReadInt(buf, pos)
         /\ ReadField(buf, pos, "m_Timestamp") = ReadLong(buf, pos)
         /\ \A f \in {"m_PathName", "m_FuncName", "m_LineNumber"} :
              ReadField(buf, pos, f) = LET r == ReadText(buf, pos, 4) IN
                IF r.is = "ok" THEN Ok(CString(r.value), r.pos) ELSE r
<1>1. ASSUME NEW f \in {"m_LoggerName", "m_Message", "m_ThreadName"}
      PROVE  ReadField(buf, pos, f) = ReadText(buf, pos, 4)
  BY <1>1 DEF ReadField
<1>2. ReadField(buf, pos, "m_Level") = ReadInt(buf, pos)
  BY DEF ReadField
<1>3. ReadField(buf, pos, "m_Timestamp") = ReadLong(buf, pos)
  BY DEF ReadField
<1>4. ASSUME NEW f \in {"m_PathName", "m_FuncName", "m_LineNumber"}
      PROVE  ReadField(buf, pos, f) = LET r == ReadText(buf, pos, 4) IN
               IF r.is = "ok" THEN Ok(CString(r.value), r.pos) ELSE r
  BY <1>4, SMT DEF ReadField, Then
<1> QED
  BY <1>1, <1>2, <1>3, <1>4

\* An event whose numbers fit their widths, and whose texts' lengths do.
BytesEvents ==
  {e \in [name : Text, level : SignedWord, msg : Text, time : Word,
          thread : Text, path : Text, func : Text, line : Text] :
     \A f \in {"name", "msg", "thread", "path", "func", "line"} : Len(e[f]) \in Word}

\* What a decoder of the bytes protocol is to make of it: the level is one of
\* log4cxx's, and the texts of the location end at their first zero.
Meant(e) ==
  [name |-> e.name, level |-> ToLevel(e.level), msg |-> e.msg, time |-> e.time, thread |-> e.thread,
   path |-> CString(e.path), func |-> CString(e.func), line |-> CString(e.line)]

\* The fields of such an event.
LEMMA EventParts ==
  ASSUME NEW e \in BytesEvents
  PROVE  /\ e.name \in Text /\ e.msg \in Text /\ e.thread \in Text /\ e.path \in Text /\ e.func \in Text /\ e.line \in Text
         /\ Len(e.name) \in Word /\ Len(e.msg) \in Word /\ Len(e.thread) \in Word
         /\ Len(e.path) \in Word /\ Len(e.func) \in Word /\ Len(e.line) \in Word
         /\ e.level \in SignedWord /\ e.time \in Word
<1>1. /\ e \in [name : Text, level : SignedWord, msg : Text, time : Word,
                 thread : Text, path : Text, func : Text, line : Text]
      /\ \A f \in {"name", "msg", "thread", "path", "func", "line"} : Len(e[f]) \in Word
  BY DEF BytesEvents
<1>2. /\ Len(e["name"]) \in Word /\ Len(e["msg"]) \in Word /\ Len(e["thread"]) \in Word
      /\ Len(e["path"]) \in Word /\ Len(e["func"]) \in Word /\ Len(e["line"]) \in Word
  BY <1>1
<1> QED
  BY <1>1, <1>2

\* The length of what is written of a text.
LEMMA LongTextIsText ==
  ASSUME NEW t \in Text, Len(t) \in Word
  PROVE  LongText(t) \in Text /\ Len(LongText(t)) = 4 + Len(t)
<1> DEFINE len == Int4(Len(t))
<1>1. len \in Text /\ Len(len) = 4
  BY UnsignedOfInt
<1>2. LongText(t) = len \o t
  BY Zenon DEF LongText, len
<1> HIDE DEF len
<1>3. len \o t \in Text /\ MadeOf(len \o t, len, t)
  BY <1>1, Concatenated
<1> QED
  BY <1>1, <1>2, <1>3 DEF MadeOf

\* What was written piece by piece is found where each piece was put.
LEMMA PiecesWritten ==
  ASSUME NEW n \in Nat, NEW b, NEW j, Joins(j, b, n), \A i \in 1..n : b[i] \in Text,
         NEW buf, NEW pos, Written(buf, pos, j[n])
  PROVE  \A k \in 1..n : /\ Written(buf, pos + Len(j[k - 1]), b[k])
                         /\ Len(j[k]) = Len(j[k - 1]) + Len(b[k])
<1> DEFINE S == {m \in Nat : m <= n => Written(buf, pos, j[n - m])}
<1>1. \A k \in 0..n : j[k] \in Text
  BY JoinedTexts
<1>2. \A k \in 1..n : MadeOf(j[k], j[k - 1], b[k])
  BY JoinedNext
<1>3. ASSUME NEW k \in 1..n, Written(buf, pos, j[k])
      PROVE  /\ Written(buf, pos, j[k - 1])
             /\ Written(buf, pos + Len(j[k - 1]), b[k])
             /\ Len(j[k]) = Len(j[k - 1]) + Len(b[k])
  <2> DEFINE whole == j[k]
             front == j[k - 1]
             back == b[k]
  <2>1. /\ whole \in Text /\ front \in Text /\ back \in Text
        /\ MadeOf(whole, front, back) /\ Written(buf, pos, whole)
    BY <1>1, <1>2, <1>3
  <2> HIDE DEF whole, front, back
  <2>2. Written(buf, pos, front) /\ Written(buf, pos + Len(front), back) /\ Len(whole) = Len(front) + Len(back)
    BY <2>1, WrittenParts
  <2> QED
    BY <2>2 DEF whole, front, back
<1>4. 0 \in S
  OBVIOUS
<1>5. ASSUME NEW m \in Nat, m \in S
      PROVE  m + 1 \in S
  <2> SUFFICES ASSUME m + 1 <= n
               PROVE  Written(buf, pos, j[n - (m + 1)])
    OBVIOUS
  <2> DEFINE k == n - m
  <2>1. k \in 1..n /\ k - 1 = n - (m + 1) /\ Written(buf, pos, j[k])
    BY <1>5
  <2> HIDE DEF k
  <2> QED
    BY <1>3, <2>1
<1> HIDE DEF S
<1>6. Nat \subseteq S
  BY <1>4, <1>5, Induction
<1>7. ASSUME NEW k \in 1..n
      PROVE  Written(buf, pos, j[k])
  <2>1. n - k \in S /\ n - k <= n /\ n - (n - k) = k
    BY <1>6
  <2> QED
    BY <2>1 DEF S
<1> QED
  BY <1>3, <1>7

\* A loop whose rounds lead from one position to the next.
Leads(body, next, at, n) ==
  /\ at \in [0..n -> Nat]
  /\ \A k \in 0..(n - 1) : /\ body[Round(n - k, at[k])].is = "ok"
                           /\ next[Round(n - k, at[k])] = Round(n - k - 1, at[k + 1])

\* A loop whose rounds lead from one place to the next ends at the last of them.
LEMMA RoundsRun ==
  ASSUME NEW f, NEW body, NEW next, Loops(f, body, next), NEW n \in Nat, NEW at, Leads(body, next, at, n)
  PROVE  f[Round(n, at[0])] = Ok(0, at[n])
<1>0. /\ at \in [0..n -> Nat]
      /\ \A k \in 0..(n - 1) : /\ body[Round(n - k, at[k])].is = "ok"
                               /\ next[Round(n - k, at[k])] = Round(n - k - 1, at[k + 1])
  BY DEF Leads
<1> DEFINE S == {m \in Nat : m <= n => f[Round(m, at[n - m])] = Ok(0, at[n])}
<1>1. \A left \in Nat, p \in Nat : /\ Round(left, p) \in Rounds
                                   /\ Round(left, p).left = left
                                   /\ Round(left, p).pos = p
  BY DEF Round, Rounds
<1>2. 0 \in S
  <2>1. at[n] \in Nat /\ n - 0 = n
    BY <1>0
  <2>2. Round(0, at[n]) \in Rounds /\ Round(0, at[n]).left = 0 /\ Round(0, at[n]).pos = at[n]
    BY <1>1, <2>1
  <2> QED
    BY <2>1, <2>2 DEF Loops
<1>3. ASSUME NEW m \in Nat, m \in S
      PROVE  m + 1 \in S
  <2> SUFFICES ASSUME m + 1 <= n
               PROVE  f[Round(m + 1, at[n - (m + 1)])] = Ok(0, at[n])
    OBVIOUS
  <2> DEFINE k == n - (m + 1)
             x == Round(m + 1, at[k])
  <2>1. /\ k \in 0..(n - 1) /\ n - k = m + 1 /\ n - k - 1 = m /\ k + 1 = n - m
        /\ at[k] \in Nat
        /\ f[Round(m, at[n - m])] = Ok(0, at[n])
    BY <1>0, <1>3
  <2> HIDE DEF k
  <2>2. body[x].is = "ok" /\ next[x] = Round(m, at[n - m])
    BY <1>0, <2>1
  <2>3. x \in Rounds /\ x.left # 0
    BY <1>1, <2>1
  <2> HIDE DEF x
  <2>4. f[x] = f[next[x]]
    BY <2>2, <2>3 DEF Loops
  <2> QED
    BY <2>1, <2>2, <2>4 DEF x, k
<1> HIDE DEF S
<1>4. n \in S
  BY <1>2, <1>3, Induction
<1> QED
  BY <1>4 DEF S

\* The loop over types: n of them, and the end of the description.
LEMMA TypesRun ==
  ASSUME NEW buf \in Text, NEW n \in Nat, NEW at \in [0..n -> Nat], NEW end,
         \A k \in 0..(n - 1) : /\ SkipType(buf, at[k]).is = "ok"
                               /\ SkipType(buf, at[k]).value # TC_ENDBLOCKDATA
                               /\ SkipType(buf, at[k]).pos = at[k + 1],
         SkipType(buf, at[n]) = Ok(TC_ENDBLOCKDATA, end)
  PROVE  SkipTypes(buf, at[0]) = ReadConstant(buf, end, Null)
<1>1. PICK f : Descends(f, Nat, GoesOn(buf), BehindType(buf), LastType(buf)) /\ SkipTypes(buf, at[0]) = f[at[0]]
  BY SkipTypesIs
<1> DEFINE S == {m \in Nat : m <= n => f[at[m]] = f[at[0]]}
<1>2. 0 \in S
  OBVIOUS
<1>3. ASSUME NEW m \in Nat, m \in S
      PROVE  m + 1 \in S
  <2> SUFFICES ASSUME m + 1 <= n
               PROVE  f[at[m + 1]] = f[at[0]]
    OBVIOUS
  <2>1. m \in 0..(n - 1) /\ at[m] \in Nat /\ f[at[m]] = f[at[0]]
    BY <1>3
  <2>2. at[m] \in GoesOn(buf) /\ BehindType(buf)[at[m]] = at[m + 1]
    BY <2>1 DEF GoesOn, BehindType
  <2>3. f[at[m]] = f[at[m + 1]]
    BY <1>1, <2>1, <2>2 DEF Descends
  <2> QED
    BY <2>1, <2>3
<1> HIDE DEF S
<1>4. n \in S
  BY <1>2, <1>3, Induction
<1>5. f[at[n]] = f[at[0]]
  BY <1>4 DEF S
<1>6. at[n] \in Nat /\ at[n] \notin GoesOn(buf)
  BY DEF GoesOn, Ok
<1>7. f[at[n]] = LastType(buf)[at[n]]
  BY <1>1, <1>6 DEF Descends
<1>8. LastType(buf)[at[n]] = ReadConstant(buf, end, Null)
  BY <1>6 DEF LastType, Ok
<1> QED
  BY <1>1, <1>5, <1>7, <1>8

\* The first piece stands alone.
LEMMA JoinedFirst ==
  ASSUME NEW n \in Nat, n > 0, NEW b, NEW j, Joins(j, b, n), \A i \in 1..n : b[i] \in Text
  PROVE  j[0] = <<>> /\ j[1] = b[1] /\ \A k \in 2..n : Consists(j[k], j[k - 1], b[k])
<1>1. j[0] = <<>> /\ \A k \in 1..n : j[k] = j[k - 1] \o b[k]
  BY JoinedByOne
<1>2. <<>> \o b[1] = b[1]
  <2>1. b[1] \in Seq(Byte)
    BY DEF Text
  <2> QED
    BY <2>1, ConcatEmptySeq
<1>3. 1 \in 1..n /\ 1 - 1 = 0
  OBVIOUS
<1>4. j[1] = j[0] \o b[1]
  BY <1>1, <1>3
<1>5. ASSUME NEW k \in 2..n
      PROVE  Consists(j[k], j[k - 1], b[k])
  <2>1. k \in 1..n
    OBVIOUS
  <2> QED
    BY <1>1, <2>1, Zenon DEF Consists
<1> QED
  BY <1>1, <1>2, <1>4, <1>5, Zenon

\* Where t is written, the reader of a field finds value and goes on behind t.
FoundAs(field, t, value) ==
  /\ t \in Text
  /\ \A buf, pos : Written(buf, pos, t) => ReadField(buf, pos, field) = Ok(value, pos + Len(t))

\* Fields written one behind the other, each such that its reader finds it, are read.
LEMMA FieldsInPlace ==
  ASSUME NEW protocol, NEW n \in Nat, Len(Fields(protocol)) = n, NEW v,
         NEW b, NEW j, Joins(j, b, n),
         \A k \in 1..n : FoundAs(Fields(protocol)[k], b[k], v[Fields(protocol)[k]])
  PROVE  /\ j[n] \in Text
         /\ Gathered(ReadFields(j[n], protocol), v, {Fields(protocol)[k] : k \in 1..n}, Len(j[n]))
<1> DEFINE buf == j[n]
           fields == Fields(protocol)
           known(k) == {fields[i] : i \in 1..k}
<1>1. PICK f : ReadsUpTo(f, buf, fields, n) /\ ReadFields(buf, protocol) = f[n]
  <2>1. Len(Fields(protocol)) \in Nat
    OBVIOUS
  <2> HIDE DEF buf
  <2> QED
    BY <2>1, ReadFieldsIs
<1>8. \A k \in 1..n : b[k] \in Text
  BY DEF FoundAs
<1>2. \A k \in 0..n : j[k] \in Text /\ Len(j[k]) \in Nat
  BY <1>8, JoinedTexts, TextProps
<1>3. Written(buf, 0, buf)
  BY <1>2, WrittenWhole
<1>4. \A k \in 1..n : /\ Written(buf, 0 + Len(j[k - 1]), b[k])
                      /\ Len(j[k]) = Len(j[k - 1]) + Len(b[k])
  <2>1. j[n] = buf
    OBVIOUS
  <2> HIDE DEF buf
  <2>2. Written(buf, 0, j[n])
    BY <1>3, <2>1
  <2>3. n \in Nat /\ Joins(j, b, n) /\ \A i \in 1..n : b[i] \in Text
    BY <1>8
  <2>4. \A pos : Written(buf, pos, j[n]) => \A k \in 1..n : /\ Written(buf, pos + Len(j[k - 1]), b[k])
                                                          /\ Len(j[k]) = Len(j[k - 1]) + Len(b[k])
    BY ONLY <2>3, PiecesWritten
  <2> QED
    BY ONLY <2>2, <2>4, Zenon
<1> HIDE DEF buf
<1> DEFINE S == {k \in Nat : k <= n => Gathered(f[k], v, known(k), Len(j[k]))}
<1>5. 0 \in S
  <2>1. f[0] = Ok(<<>>, 0)
    BY <1>1 DEF ReadsUpTo
  <2>4. j[0] = <<>>
    BY JoinedByOne
  <2>2. Len(j[0]) = 0
    BY <2>4
  <2>3. known(0) = {}
    OBVIOUS
  <2> HIDE DEF known
  <2>5. Gathered(f[0], v, {}, 0)
    BY <2>1 DEF Gathered, Ok
  <2> QED
    BY <2>2, <2>3, <2>5
<1>6. ASSUME NEW m \in Nat, m \in S
      PROVE  m + 1 \in S
  <2> SUFFICES ASSUME m + 1 <= n
               PROVE  Gathered(f[m + 1], v, known(m + 1), Len(j[m + 1]))
    OBVIOUS
  <2> DEFINE k == m + 1
  <2>1. k \in 1..n /\ k - 1 = m /\ m \in 0..n /\ Gathered(f[m], v, known(m), Len(j[m]))
    BY <1>6
  <2>2. known(k) = known(m) \cup {fields[k]}
    <3>1. 1..k = (1..m) \cup {k}
      OBVIOUS
    <3> QED
      BY <3>1
  <2> HIDE DEF k, known
  <2>3. f[k] = ReadNextField(buf, f[m], fields[k])
    <3>1. k \in 0..n /\ k # 0
      BY <2>1
    <3> QED
      BY <1>1, <2>1, <3>1 DEF ReadsUpTo
  <2>4. ReadField(buf, Len(j[m]), fields[k]) = Ok(v[fields[k]], Len(j[k]))
    <3>1. Len(j[m]) \in Nat /\ 0 + Len(j[m]) = Len(j[m])
      BY <1>2, <2>1
    <3>2. Written(buf, Len(j[m]), b[k]) /\ Len(j[k]) = Len(j[m]) + Len(b[k])
      BY <1>4, <2>1, <3>1
    <3>3. FoundAs(fields[k], b[k], v[fields[k]])
      BY <2>1
    <3>4. ReadField(buf, Len(j[m]), fields[k]) = Ok(v[fields[k]], Len(j[m]) + Len(b[k]))
      BY ONLY <3>2, <3>3 DEF FoundAs
    <3> QED
      BY ONLY <3>2, <3>4
  <2> HIDE DEF fields
  <2>5. Gathered(ReadNextField(buf, f[m], fields[k]), v, known(m) \cup {fields[k]}, Len(j[k]))
    BY <2>1, <2>4, NextGathered
  <2> QED
    BY <2>2, <2>3, <2>5 DEF k
<1> HIDE DEF S
<1>7. n \in S
  BY <1>5, <1>6, Induction
<1> QED
  BY <1>1, <1>2, <1>7 DEF S, buf

\* A decoder of the bytes protocol reads back what the python client has written.
LEMMA PythonBytesRead ==
  ASSUME NEW e \in BytesEvents
  PROVE  LET bytes == PythonBytes(e) IN
         /\ bytes \in Text /\ Len(bytes) > 0
         /\ createLoggingEvent(bytes, "bytes") = Ok(Meant(e), Len(bytes))
<1> DEFINE buf == PythonBytes(e)
           fields == Fields("bytes")
           b == <<LongText(e.name), Int4(e.level), LongText(e.msg), Long(e.time),
                  LongText(e.thread), LongText(e.path), LongText(e.func), LongText(e.line)>>
           v == [m_LoggerName |-> e.name, m_Level |-> e.level, m_Message |-> e.msg, m_Timestamp |-> e.time,
                 m_ThreadName |-> e.thread, m_PathName |-> CString(e.path), m_FuncName |-> CString(e.func),
                 m_LineNumber |-> CString(e.line)]
<1>1. /\ e.name \in Text /\ e.msg \in Text /\ e.thread \in Text /\ e.path \in Text /\ e.func \in Text /\ e.line \in Text
      /\ Len(e.name) \in Word /\ Len(e.msg) \in Word /\ Len(e.thread) \in Word
      /\ Len(e.path) \in Word /\ Len(e.func) \in Word /\ Len(e.line) \in Word
      /\ e.level \in SignedWord /\ e.time \in Word
  BY EventParts
<1>2. /\ b[1] = LongText(e.name) /\ b[2] = Int4(e.level) /\ b[3] = LongText(e.msg) /\ b[4] = Long(e.time)
      /\ b[5] = LongText(e.thread) /\ b[6] = LongText(e.path) /\ b[7] = LongText(e.func) /\ b[8] = LongText(e.line)
  OBVIOUS
<1>3. /\ fields[1] = "m_LoggerName" /\ fields[2] = "m_Level" /\ fields[3] = "m_Message" /\ fields[4] = "m_Timestamp"
      /\ fields[5] = "m_ThreadName" /\ fields[6] = "m_PathName" /\ fields[7] = "m_FuncName" /\ fields[8] = "m_LineNumber"
      /\ Len(fields) = 8
  BY DEF Fields
<1>4. /\ v["m_LoggerName"] = e.name /\ v["m_Level"] = e.level /\ v["m_Message"] = e.msg /\ v["m_Timestamp"] = e.time
      /\ v["m_ThreadName"] = e.thread /\ v["m_PathName"] = CString(e.path) /\ v["m_FuncName"] = CString(e.func)
      /\ v["m_LineNumber"] = CString(e.line)
  OBVIOUS
<1>5. PICK j : Joins(j, b, 8)
  BY JoinerExists
<1> HIDE DEF b, fields, v
<1>6. \A k \in 1..8 : b[k] \in Text
  <2>1. /\ b[1] \in Text /\ b[3] \in Text /\ b[5] \in Text /\ b[6] \in Text /\ b[7] \in Text /\ b[8] \in Text
    BY <1>1, <1>2, LongTextIsText
  <2>2. b[2] \in Text /\ b[4] \in Text
    BY <1>1, <1>2, SignedOfInt, SignedOfLong
  <2>3. \A k \in 1..8 : k \in {1, 2, 3, 4, 5, 6, 7, 8}
    OBVIOUS
  <2> QED
    BY <2>1, <2>2, <2>3
<1>7. j[8] = buf
  <2>1. j[1] = b[1] /\ \A k \in 2..8 : Consists(j[k], j[k - 1], b[k])
    <3>1. 8 \in Nat /\ 8 > 0
      OBVIOUS
    <3> QED
      BY ONLY <1>5, <1>6, <3>1, JoinedFirst
  <2>2. /\ 2 \in 2..8 /\ 3 \in 2..8 /\ 4 \in 2..8 /\ 5 \in 2..8 /\ 6 \in 2..8 /\ 7 \in 2..8 /\ 8 \in 2..8
        /\ 2 - 1 = 1 /\ 3 - 1 = 2 /\ 4 - 1 = 3 /\ 5 - 1 = 4 /\ 6 - 1 = 5 /\ 7 - 1 = 6 /\ 8 - 1 = 7
    OBVIOUS
  <2>3. /\ j[2] = j[1] \o b[2] /\ j[3] = j[2] \o b[3] /\ j[4] = j[3] \o b[4] /\ j[5] = j[4] \o b[5]
        /\ j[6] = j[5] \o b[6] /\ j[7] = j[6] \o b[7] /\ j[8] = j[7] \o b[8]
    BY <2>1, <2>2, Zenon DEF Consists
  <2>4. j[8] = b[1] \o b[2] \o b[3] \o b[4] \o b[5] \o b[6] \o b[7] \o b[8]
    BY ONLY <2>1, <2>3, Zenon
  <2> QED
    BY ONLY <1>2, <2>4 DEF PythonBytes, buf
<1> HIDE DEF buf
<1>8. ASSUME NEW k \in 1..8, NEW any, NEW pos, Written(any, pos, b[k])
      PROVE  ReadField(any, pos, fields[k]) = Ok(v[fields[k]], pos + Len(b[k]))
  <2>1. CASE k = 2
    <3>2. Len(b[2]) = 4 /\ Written(any, pos, Int4(e.level))
      BY <1>1, <1>2, <1>8, <2>1, SignedOfInt
    <3>1. ReadInt(any, pos) = Ok(e.level, pos + Len(b[2]))
      BY <1>1, <3>2, WrittenNumbers
    <3> QED
      BY <1>3, <1>4, <2>1, <3>1, BytesReaders
  <2>2. CASE k = 4
    <3>2. Len(b[4]) = 8 /\ Written(any, pos, Long(e.time))
      BY <1>1, <1>2, <1>8, <2>2, SignedOfLong
    <3>1. ReadLong(any, pos) = Ok(e.time, pos + Len(b[4]))
      BY <1>1, <3>2, WrittenNumbers
    <3> QED
      BY <1>3, <1>4, <2>2, <3>1, BytesReaders
  <2>3. CASE k \in {1, 3, 5}
    <3> DEFINE t == CASE k = 1 -> e.name [] k = 3 -> e.msg [] k = 5 -> e.thread
    <3>1. b[k] = LongText(t) /\ t \in Text /\ Len(t) \in Word /\ v[fields[k]] = t
          /\ fields[k] \in {"m_LoggerName", "m_Message", "m_ThreadName"}
      BY <1>1, <1>2, <1>3, <1>4, <2>3
    <3> HIDE DEF t
    <3>2. ReadText(any, pos, 4) = Ok(t, pos + Len(b[k]))
      BY <1>8, <3>1, WrittenLongText
    <3> QED
      BY <3>1, <3>2, BytesReaders
  <2>4. CASE k \in {6, 7, 8}
    <3> DEFINE t == CASE k = 6 -> e.path [] k = 7 -> e.func [] k = 8 -> e.line
    <3>1. b[k] = LongText(t) /\ t \in Text /\ Len(t) \in Word /\ v[fields[k]] = CString(t)
          /\ fields[k] \in {"m_PathName", "m_FuncName", "m_LineNumber"}
      BY <1>1, <1>2, <1>3, <1>4, <2>4
    <3> HIDE DEF t
    <3>2. ReadText(any, pos, 4) = Ok(t, pos + Len(b[k]))
      BY <1>8, <3>1, WrittenLongText
    <3> QED
      BY <3>1, <3>2, BytesReaders DEF Ok
  <2> QED
    BY <2>1, <2>2, <2>3, <2>4
<1>13. \A k \in 1..8 : FoundAs(fields[k], b[k], v[fields[k]])
  BY <1>6, <1>8 DEF FoundAs
<1>9. Gathered(ReadFields(buf, "bytes"), v, {fields[k] : k \in 1..8}, Len(buf))
  <2>1. /\ 8 \in Nat /\ Len(Fields("bytes")) = 8
        /\ \A k \in 1..8 : FoundAs(Fields("bytes")[k], b[k], v[Fields("bytes")[k]])
    BY <1>3, <1>13 DEF fields
  <2>2. Gathered(ReadFields(j[8], "bytes"), v, {Fields("bytes")[k] : k \in 1..8}, Len(j[8]))
    BY ONLY <1>5, <2>1, FieldsInPlace
  <2> QED
    BY <1>7, <2>2 DEF fields
<1> DEFINE r == ReadFields(buf, "bytes")
           w == r.value
<1>10. BytesEvent(w) = Meant(e) /\ r.is = "ok" /\ r.pos = Len(buf)
  <2>1. \A k \in 1..8 : w[fields[k]] = v[fields[k]]
    BY <1>9 DEF Gathered
  <2>2. /\ w.m_LoggerName = e.name /\ w.m_Level = e.level /\ w.m_Message = e.msg /\ w.m_Timestamp = e.time
        /\ w.m_ThreadName = e.thread /\ w.m_PathName = CString(e.path) /\ w.m_FuncName = CString(e.func)
        /\ w.m_LineNumber = CString(e.line)
    <3> HIDE DEF w
    <3> QED
      BY <1>3, <1>4, <2>1
  <2>3. r.is = "ok" /\ r.pos = Len(buf)
    BY <1>9 DEF Gathered
  <2> HIDE DEF w
  <2> QED
    BY <2>2, <2>3 DEF BytesEvent, Meant
<1>11. createLoggingEvent(buf, "bytes") = Ok(Meant(e), Len(buf))
  <2> HIDE DEF r
  <2>1. createLoggingEvent(buf, "bytes") = Ok(BytesEvent(r.value), r.pos)
    BY <1>10, SMT DEF createLoggingEvent, Then, r
  <2> QED
    BY <1>10, <2>1
<1>12. buf \in Text /\ Len(buf) > 0
  <2>1. buf \in Text
    BY <1>5, <1>6, <1>7, JoinedTexts
  <2>2. Written(buf, 0, j[8])
    BY <1>7, <2>1, WrittenWhole
  <2>3. \A k \in 1..8 : Written(buf, 0 + Len(j[k - 1]), b[k])
    <3>1. 8 \in Nat
      OBVIOUS
    <3> QED
      BY ONLY <1>5, <1>6, <2>2, <3>1, PiecesWritten
  <2>4. b[1] \in Text /\ Len(b[1]) = 4 + Len(e.name) /\ Len(e.name) \in Nat
    BY <1>1, <1>2, LongTextIsText, TextProps
  <2>5. Written(buf, 0 + Len(j[1 - 1]), b[1])
    BY <2>3
  <2>6. \E pos \in Nat : pos + Len(b[1]) <= Len(buf)
    BY <2>5 DEF Written
  <2>7. Len(buf) \in Nat
    BY <2>1, TextProps
  <2> QED
    BY <2>1, <2>4, <2>6, <2>7
<1> QED
  BY <1>11, <1>12 DEF buf

\* A peer sends events as the python client's handler of the bytes protocol writes them.
SendsBytes(s) ==
  /\ s.protocol = "bytes"
  /\ \A i \in DOMAIN s.parts : /\ s.parts[i].event # Foreign
                               /\ \E e \in BytesEvents : /\ s.parts[i].bytes = PythonBytes(e)
                                                         /\ s.parts[i].event = Meant(e)

\* So what such a peer sends is legible.
LEMMA BytesAreLegible ==
  ASSUME NEW s, SendsBytes(s)
  PROVE  Legible(s)
<1> SUFFICES ASSUME NEW i \in DOMAIN s.parts
             PROVE  /\ s.parts[i].bytes # <<>>
                    /\ s.parts[i].event # Foreign
                    /\ createLoggingEvent(s.parts[i].bytes, s.protocol)
                         = Ok(s.parts[i].event, Len(s.parts[i].bytes))
  BY DEF Legible
<1>1. s.protocol = "bytes" /\ s.parts[i].event # Foreign
  BY DEF SendsBytes
<1>2. PICK e \in BytesEvents : s.parts[i].bytes = PythonBytes(e) /\ s.parts[i].event = Meant(e)
  BY DEF SendsBytes
<1>3. /\ Len(PythonBytes(e)) > 0
      /\ createLoggingEvent(PythonBytes(e), "bytes") = Ok(Meant(e), Len(PythonBytes(e)))
  BY PythonBytesRead
<1>4. PythonBytes(e) # <<>>
  BY <1>3
<1> QED
  BY <1>1, <1>2, <1>3, <1>4

\* Whatever the python client logs with its handler of the bytes protocol,
\* texts of any length and content, and however recv cuts it: the events are
\* decoded in order, field by field, none waits once it is whole, and none is
\* taken for malformed.
THEOREM PythonBytesArrive ==
  ASSUME \A s \in Senders : SendsBytes(s)
  PROVE  DecodingSpec => [](DecodesWhatIsWritten /\ NoneDelayed /\ stage # "refused")
<1>1. \A s \in Senders : Legible(s)
  BY BytesAreLegible
<1>2. DecodingSpec => []DecodesWhatIsWritten
  BY <1>1, EventsAreAsWritten
<1>3. DecodingSpec => []NoneDelayed
  BY <1>1, NoWholeEventWaits
<1>4. DecodingSpec => []RefusesOnlyForeign
  BY <1>1, NoEventIsRefused
<1>5. DecodingSpec => []DecodingTypeOK
  BY DecodingTypes
<1>6. DecodingTypeOK /\ RefusesOnlyForeign => stage # "refused"
  <2> SUFFICES ASSUME DecodingTypeOK, RefusesOnlyForeign, stage = "refused"
               PROVE  FALSE
    OBVIOUS
  <2>1. sender \in Senders /\ Len(events) + 1 \in 1..Len(sender.parts)
    BY DEF DecodingTypeOK, RefusesOnlyForeign
  <2>2. SendsBytes(sender) /\ Len(events) + 1 \in DOMAIN sender.parts
    BY <2>1, SendersAssumption
  <2> QED
    BY <2>2 DEF SendsBytes, RefusesOnlyForeign
<1> QED
  BY <1>2, <1>3, <1>4, <1>5, <1>6, PTL

-----------------------------------------------------------------------------
\* The default protocol.  Texts are written one behind the other.
LEMMA BothWritten ==
  ASSUME NEW buf, NEW pos, NEW front \in Text, NEW back \in Text, Written(buf, pos, front \o back)
  PROVE  /\ Written(buf, pos, front)
         /\ Written(buf, pos + Len(front), back)
         /\ Len(front \o back) = Len(front) + Len(back)
<1> DEFINE t == front \o back
<1>1. t \in Text /\ MadeOf(t, front, back) /\ Written(buf, pos, t)
  BY Concatenated
<1> HIDE DEF t
<1>2. /\ Written(buf, pos, front)
      /\ Written(buf, pos + Len(front), back)
      /\ Len(t) = Len(front) + Len(back)
  BY <1>1, WrittenParts
<1> QED
  BY <1>2 DEF t

\* The lengths of its texts and the counts in class descriptions.
Half == {n \in Nat : n < 65536}

\* A number of one byte behind what was read before it.
LEMMA NumberOfOne ==
  ASSUME NEW first \in Int, NEW b \in Text, Len(b) = 1
  PROVE  Number256(first, b) = 256 * first + b[1]
<1>1. PICK f : AddsUp(f, first, b, Len(b)) /\ Number256(first, b) = f[Len(b)]
  <2>1. Len(b) \in Nat
    OBVIOUS
  <2> QED
    BY <2>1, NumberIs
<1> QED
  BY <1>1 DEF AddsUp

\* A number of two bytes behind what was read before it.
LEMMA NumberOfTwo ==
  ASSUME NEW first \in Int, NEW b \in Text, Len(b) = 2
  PROVE  Number256(first, b) = 256 * (256 * first + b[1]) + b[2]
<1>1. PICK f : AddsUp(f, first, b, Len(b)) /\ Number256(first, b) = f[Len(b)]
  <2>1. Len(b) \in Nat
    OBVIOUS
  <2> QED
    BY <2>1, NumberIs
<1>2. f[0] = first /\ f[1] = 256 * f[0] + b[1] /\ f[2] = 256 * f[1] + b[2]
  BY <1>1 DEF AddsUp
<1> QED
  BY <1>1, <1>2

\* What is written of a number of 16 bits is the number, and of one below 32768 also with its sign.
LEMMA NumbersOfShort ==
  ASSUME NEW n \in Half
  PROVE  /\ Short(n) \in Text /\ Len(Short(n)) = 2 /\ Unsigned(Short(n)) = n
         /\ n < 32768 => Signed(Short(n)) = n
<1> DEFINE h == n \div 256
           l == n % 256
           t == Short(n)
<1>1. n \in Nat /\ h \in 0..255 /\ l \in 0..255 /\ n = 256 * h + l /\ (n < 32768 => h < 128)
  BY DEF Half
<1>2. h % 256 = h
  BY <1>1, SmallRemainder DEF Byte
<1>3. t = <<h, l>>
  BY <1>2 DEF Short
<1>4. t \in Text /\ Len(t) = 2 /\ t[1] = h /\ t[2] = l
  BY <1>1, <1>3 DEF Text, Byte
<1> HIDE DEF h, l, t
<1>5. Unsigned(t) = n
  <2>1. Number256(0, t) = 256 * (256 * 0 + t[1]) + t[2]
    BY <1>4, NumberOfTwo
  <2> QED
    BY <1>1, <1>4, <2>1 DEF Unsigned
<1>6. ASSUME n < 32768
      PROVE  Signed(t) = n
  <2> DEFINE u == Tail(t)
  <2>1. u \in Text /\ Len(u) = 1 /\ u[1] = l
    <3>1. t \in Seq(Byte) /\ t # <<>> /\ Len(t) = 2
      BY <1>4 DEF Text
    <3>2. u \in Seq(Byte) /\ Len(u) = Len(t) - 1 /\ \A i \in 1..Len(u) : u[i] = t[i + 1]
      BY <3>1, HeadTailProperties
    <3> HIDE DEF u
    <3> QED
      BY <1>4, <3>1, <3>2 DEF Text
  <2>2. Signed(t) = Number256(h, u)
    BY <1>1, <1>4, <1>6 DEF Signed
  <2> HIDE DEF u
  <2>3. Number256(h, u) = 256 * h + u[1]
    BY <1>1, <2>1, NumberOfOne
  <2> QED
    BY <1>1, <2>1, <2>2, <2>3
<1> QED
  BY <1>4, <1>5, <1>6 DEF t

\* A type code, a number of two bytes and a constant are found where they were put, ...
LEMMA WrittenCode ==
  ASSUME NEW buf, NEW pos, NEW t, Written(buf, pos, t), Len(t) > 0
  PROVE  ReadByte(buf, pos) = Ok(t[1], pos + 1)
<1>1. buf \in Text /\ t \in Text /\ pos \in Nat /\ Len(t) \in Nat /\ Len(buf) \in Nat /\ pos + Len(t) <= Len(buf)
      /\ buf[pos + 1] = t[1]
  BY TextProps DEF Written
<1> DEFINE s == SubSeq(buf, pos + 1, pos + 1)
<1>2. s[1] = buf[pos + 1]
  BY <1>1 DEF Text
<1>3. ReadBytes(buf, pos, 1) = Ok(s, pos + 1)
  BY <1>1 DEF ReadBytes, HasRoom
<1> HIDE DEF s
<1> QED
  BY <1>1, <1>2, <1>3, SMT DEF ReadByte, Then, Ok

\* A short number is read back from where it was written.
LEMMA WrittenShort ==
  ASSUME NEW buf, NEW pos, NEW n \in Half, n < 32768, Written(buf, pos, Short(n))
  PROVE  ReadShort(buf, pos) = Ok(n, pos + 2)
<1> DEFINE t == Short(n)
<1>1. Len(t) = 2 /\ Signed(t) = n
  BY NumbersOfShort
<1>2. ReadBytes(buf, pos, 2) = Ok(t, pos + 2)
  BY <1>1, WrittenBytes
<1> HIDE DEF t
<1> QED
  BY <1>1, <1>2, SMT DEF ReadShort, Then, Ok

\* Bytes that are always the same are read where they were written.
LEMMA WrittenConstant ==
  ASSUME NEW buf, NEW pos, NEW t, Written(buf, pos, t)
  PROVE  ReadConstant(buf, pos, t) = Ok(t, pos + Len(t))
<1>1. ReadBytes(buf, pos, Len(t)) = Ok(t, pos + Len(t))
  BY WrittenBytes
<1> QED
  BY <1>1, SMT DEF ReadConstant, Then, Ok

\* ... and so is a string.
LEMMA WrittenString ==
  ASSUME NEW t \in Text, Len(t) \in Half
  PROVE  /\ String(t) \in Text /\ Len(String(t)) = 3 + Len(t)
         /\ \A buf, pos : Written(buf, pos, String(t)) =>
              /\ ReadByte(buf, pos) = Ok(TC_STRING, pos + 1)
              /\ ReadText(buf, pos + 1, 2) = Ok(t, pos + Len(String(t)))
              /\ ReadString(buf, pos) = Ok(t, pos + Len(String(t)))
<1> DEFINE code == <<TC_STRING>>
           len == Short(Len(t))
           head == code \o len
           w == String(t)
<1>1. len \in Text /\ Len(len) = 2 /\ Unsigned(len) = Len(t)
  BY NumbersOfShort
<1>2. code \in Text /\ Len(code) = 1 /\ code[1] = TC_STRING
  BY DEF Text, Byte, TC_STRING
<1>3. w = head \o t
  BY Zenon DEF String
<1> HIDE DEF code, len, w
<1>4. head \in Text /\ MadeOf(head, code, len)
  BY <1>1, <1>2, Concatenated
<1>5. w \in Text /\ MadeOf(w, head, t)
  <2> HIDE DEF head
  <2> QED
    BY <1>3, <1>4, Concatenated
<1>6. Len(head) = 3 /\ Len(w) = 3 + Len(t) /\ Len(t) \in Nat
  BY <1>1, <1>2, <1>4, <1>5, TextProps DEF MadeOf
<1>7. ASSUME NEW buf, NEW pos, Written(buf, pos, w)
      PROVE  /\ ReadByte(buf, pos) = Ok(TC_STRING, pos + 1)
             /\ ReadText(buf, pos + 1, 2) = Ok(t, pos + Len(w))
             /\ ReadString(buf, pos) = Ok(t, pos + Len(w))
  <2>1. Written(buf, pos, head) /\ Written(buf, pos + 3, t)
    <3> HIDE DEF head
    <3> QED
      BY <1>3, <1>4, <1>6, <1>7, BothWritten
  <2>2. Written(buf, pos, code) /\ Written(buf, pos + 1, len)
    <3>1. Written(buf, pos, code \o len)
      BY <2>1
    <3>2. Written(buf, pos, code) /\ Written(buf, pos + Len(code), len)
      BY ONLY <1>1, <1>2, <3>1, BothWritten
    <3> QED
      BY <1>2, <3>2
  <2>3. ReadByte(buf, pos) = Ok(TC_STRING, pos + 1)
    BY <1>2, <2>2, WrittenCode
  <2>4. pos \in Nat
    BY <1>7 DEF Written
  <2>5. ReadBytes(buf, pos + 1, 2) = Ok(len, pos + 3)
    <3>1. ReadBytes(buf, pos + 1, Len(len)) = Ok(len, (pos + 1) + Len(len))
      BY <2>2, WrittenBytes
    <3> QED
      BY <1>1, <2>4, <3>1
  <2>6. ReadBytes(buf, pos + 3, Len(t)) = Ok(t, pos + Len(w))
    <3>1. ReadBytes(buf, pos + 3, Len(t)) = Ok(t, (pos + 3) + Len(t))
      BY <2>1, WrittenBytes
    <3> QED
      BY <1>6, <2>4, <3>1
  <2>7. ReadText(buf, pos + 1, 2) = Ok(t, pos + Len(w))
    BY <1>1, <2>5, <2>6, SMT DEF ReadText, Then, Ok
  <2>8. ReadString(buf, pos) = Ok(t, pos + Len(w))
    BY <2>3, <2>7, SMT DEF ReadString, Then, Ok
  <2> QED
    BY <2>3, <2>7, <2>8
<1> QED
  BY <1>5, <1>6, <1>7 DEF w

-----------------------------------------------------------------------------
\* Class descriptions.  What the loop over fields takes for one of them, ...
FieldTexts == {t \in Text : Len(t) = 4 /\ t[2] = 0 /\ t[3] = 1}

\* ... and the loop over types for a type.
TypeTexts ==
  {t \in Text : \/ Len(t) = 4 /\ t[1] \in {CodeL, TC_STRING} /\ t[2] = 0 /\ t[3] = 1
                \/ Len(t) = 5 /\ t[1] = TC_REFERENCE}

\* A name of one byte is skipped, ...
LEMMA NameSkipped ==
  ASSUME NEW buf \in Text, NEW pos \in Nat, pos + 2 <= Len(buf), buf[pos + 1] = 0, buf[pos + 2] = 1
  PROVE  SkipText(buf, pos) = Ok(1, pos + 3)
<1> DEFINE t == Short(1)
<1>1. t = <<0, 1>>
  BY DEF Short
<1>2. t \in Text /\ Len(t) = 2
  BY NumbersOfShort DEF Half
<1> HIDE DEF t
<1>3. Written(buf, pos, t)
  <2>1. t[1] = 0 /\ t[2] = 1 /\ Len(t) = 2
    BY <1>1
  <2>2. \A i \in 1..Len(t) : i = 1 \/ i = 2
    BY <2>1
  <2> QED
    BY <1>2, <2>1, <2>2 DEF Written
<1> USE DEF t
<1>4. ReadShort(buf, pos) = Ok(1, pos + 2)
  BY <1>3, WrittenShort DEF Half
<1>5. 1 + (pos + 2) = pos + 3 /\ (pos + 2) + 1 = pos + 3
  OBVIOUS
<1> QED
  BY <1>4, <1>5, SMT DEF SkipText, Then, Ok

\* ... with it a field, ...
LEMMA FieldSkipped ==
  ASSUME NEW buf, NEW pos, NEW t \in FieldTexts, Written(buf, pos, t)
  PROVE  SkipText(buf, pos + 1) = Ok(1, pos + 4)
<1>1. /\ buf \in Text /\ pos \in Nat /\ Len(buf) \in Nat /\ pos + 4 <= Len(buf)
      /\ buf[pos + 2] = 0 /\ buf[pos + 3] = 1
  <2>1. buf \in Text /\ pos \in Nat /\ Len(t) = 4 /\ t[2] = 0 /\ t[3] = 1 /\ pos + Len(t) <= Len(buf)
        /\ \A i \in 1..Len(t) : buf[pos + i] = t[i]
    BY DEF Written, FieldTexts
  <2>2. 2 \in 1..Len(t) /\ 3 \in 1..Len(t)
    BY <2>1
  <2> QED
    BY <2>1, <2>2, TextProps
<1>2. pos + 1 \in Nat /\ (pos + 1) + 2 <= Len(buf) /\ (pos + 1) + 1 = pos + 2 /\ (pos + 1) + 2 = pos + 3
      /\ (pos + 1) + 3 = pos + 4
  BY <1>1
<1>3. SkipText(buf, pos + 1) = Ok(1, (pos + 1) + 3)
  BY <1>1, <1>2, NameSkipped
<1> QED
  BY <1>2, <1>3

\* ... and a type.
LEMMA TypeSkipped ==
  ASSUME NEW buf, NEW pos, NEW t \in TypeTexts, Written(buf, pos, t)
  PROVE  /\ SkipType(buf, pos).is = "ok"
         /\ SkipType(buf, pos).value # TC_ENDBLOCKDATA
         /\ SkipType(buf, pos).pos = pos + Len(t)
<1>1. buf \in Text /\ pos \in Nat /\ Len(buf) \in Nat /\ pos + Len(t) <= Len(buf) /\ t \in Text /\ Len(t) \in {4, 5}
  BY TextProps DEF Written, TypeTexts
<1>2. ReadByte(buf, pos) = Ok(t[1], pos + 1)
  BY <1>1, WrittenCode
<1>3. CASE Len(t) = 4 /\ t[1] \in {CodeL, TC_STRING} /\ t[2] = 0 /\ t[3] = 1
  <2>1. buf[pos + 2] = 0 /\ buf[pos + 3] = 1 /\ pos + 4 <= Len(buf)
    BY <1>1, <1>3 DEF Written
  <2>2. pos + 1 \in Nat /\ (pos + 1) + 2 <= Len(buf) /\ (pos + 1) + 1 = pos + 2 /\ (pos + 1) + 2 = pos + 3
        /\ (pos + 1) + 3 = pos + 4
    BY <1>1, <2>1
  <2>3. SkipText(buf, pos + 1) = Ok(1, (pos + 1) + 3)
    BY <1>1, <2>1, <2>2, NameSkipped
  <2>4. SkipType(buf, pos) = Ok(t[1], pos + 4)
    BY <1>2, <1>3, <2>2, <2>3, SMT DEF SkipType, Then, Ok, CodeL, TC_STRING, TC_ENDBLOCKDATA, TC_REFERENCE
  <2> QED
    BY <1>3, <2>4 DEF Ok, CodeL, TC_STRING, TC_ENDBLOCKDATA
<1>4. CASE Len(t) = 5 /\ t[1] = TC_REFERENCE
  <2> DEFINE s == SubSeq(buf, (pos + 1) + 1, (pos + 1) + 4)
  <2>1. ReadBytes(buf, pos + 1, 4) = Ok(s, pos + 5)
    BY <1>1, <1>4 DEF ReadBytes, HasRoom
  <2> HIDE DEF s
  <2>2. ReadInt(buf, pos + 1) = Ok(Signed(s), pos + 5)
    BY <2>1, SMT DEF ReadInt, Then, Ok
  <2> DEFINE r == ReadInt(buf, pos + 1)
  <2>4. r.is = "ok" /\ r.pos = pos + 5
    BY <2>2 DEF Ok
  <2>5. ReadByte(buf, pos) = Ok(TC_REFERENCE, pos + 1)
    BY <1>2, <1>4
  <2>6. SkipType(buf, pos) = IF r.is = "ok" THEN Ok(TC_REFERENCE, r.pos) ELSE r
    BY <2>5, SkipTypeIs DEF TypeBehind, Ok, TC_ENDBLOCKDATA, TC_REFERENCE, CodeL, TC_STRING
  <2>3. SkipType(buf, pos) = Ok(t[1], pos + 5)
    BY <1>4, <2>4, <2>6
  <2> QED
    BY <1>4, <2>3 DEF Ok, TC_REFERENCE, TC_ENDBLOCKDATA
<1> QED
  BY <1>3, <1>4 DEF TypeTexts

\* A description of a class with n fields, as their loop takes them, and m types
\* for the loop behind it.
DescriptionOf(b, n, m) ==
  /\ b[1] = <<TC_CLASSDESC>> /\ b[2] = Name /\ b[5] = Short(n)
  /\ b[3] \in Text /\ Len(b[3]) = 8 /\ b[4] \in Text /\ Len(b[4]) = 1
  /\ \A i \in 6..(5 + n) : b[i] \in FieldTexts
  /\ \A i \in (6 + n)..(5 + n + m) : b[i] \in TypeTexts
  /\ b[6 + n + m] = NoSuperClass

\* The bytes that are always the same, one by one.
LEMMA ConstantTexts ==
  /\ Name \in Text /\ Len(Name) = 3 /\ Name[1] = 0 /\ Name[2] = 1 /\ Name[3] = TC_STRING
  /\ NoSuperClass \in Text /\ Len(NoSuperClass) = 2 /\ NoSuperClass[1] = TC_ENDBLOCKDATA /\ NoSuperClass[2] = TC_NULL
  /\ Null \in Text /\ Len(Null) = 1 /\ Null[1] = TC_NULL
  /\ <<TC_CLASSDESC>> \in Text /\ Len(<<TC_CLASSDESC>>) = 1 /\ <<TC_CLASSDESC>>[1] = TC_CLASSDESC
<1>1. Name = <<0, 1, TC_STRING>>
  <2> DEFINE s == Short(1)
             c == <<TC_STRING>>
             t == s \o c
  <2>1. s \in Text /\ Len(s) = 2 /\ s[1] = 0 /\ s[2] = 1
    BY DEF Short, Text, Byte
  <2>2. c \in Text /\ Len(c) = 1 /\ c[1] = TC_STRING
    BY DEF Text, Byte, TC_STRING
  <2>3. Name = t
    BY DEF Name
  <2> HIDE DEF s, c
  <2>4. t \in Text /\ MadeOf(t, s, c)
    BY <2>1, <2>2, Concatenated
  <2> HIDE DEF t
  <2>5. t \in Seq(Byte) /\ Len(t) = 3 /\ t[1] = 0 /\ t[2] = 1 /\ t[2 + 1] = TC_STRING
    BY <2>1, <2>2, <2>4 DEF MadeOf, Text
  <2>6. <<0, 1, TC_STRING>> \in Seq(Byte)
    BY DEF Byte, TC_STRING
  <2>7. \A i \in 1..Len(t) : t[i] = <<0, 1, TC_STRING>>[i]
    <3>1. \A i \in 1..Len(t) : i = 1 \/ i = 2 \/ i = 3
      BY <2>5
    <3> QED
      BY <2>5, <3>1
  <2>8. t = <<0, 1, TC_STRING>>
    BY <2>5, <2>6, <2>7, SeqEqual
  <2> QED
    BY <2>3, <2>8
<1>2. NoSuperClass = <<TC_ENDBLOCKDATA, TC_NULL>> /\ Null = <<TC_NULL>>
  BY DEF NoSuperClass, Null
<1> QED
  BY <1>1, <1>2 DEF Text, Byte, TC_STRING, TC_ENDBLOCKDATA, TC_NULL, TC_CLASSDESC

\* The positions of the pieces.
LaidOut(at, buf, b, n) ==
  /\ at \in [0..n -> Nat]
  /\ \A k \in 1..n : Written(buf, at[k - 1], b[k]) /\ at[k] = at[k - 1] + Len(b[k])

\* What is written of pieces joined together has each piece behind the one before it.
LEMMA PiecesAt ==
  ASSUME NEW n \in Nat, NEW b, NEW j, Joins(j, b, n), \A i \in 1..n : b[i] \in Text,
         NEW buf, NEW pos, Written(buf, pos, j[n])
  PROVE  \E at : LaidOut(at, buf, b, n) /\ at[0] = pos /\ at[n] = pos + Len(j[n])
<1> DEFINE at == [k \in 0..n |-> pos + Len(j[k])]
<1>1. pos \in Nat
  BY DEF Written
<1>2. \A k \in 0..n : Len(j[k]) \in Nat
  BY JoinedTexts, TextProps
<1>3. \A k \in 1..n : Written(buf, pos + Len(j[k - 1]), b[k]) /\ Len(j[k]) = Len(j[k - 1]) + Len(b[k])
  <2>1. n \in Nat /\ Joins(j, b, n) /\ \A i \in 1..n : b[i] \in Text
    OBVIOUS
  <2>2. \A any, from : Written(any, from, j[n]) => \A k \in 1..n : /\ Written(any, from + Len(j[k - 1]), b[k])
                                                                /\ Len(j[k]) = Len(j[k - 1]) + Len(b[k])
    BY ONLY <2>1, PiecesWritten
  <2> QED
    BY <2>2, Zenon
<1>4. j[0] = <<>>
  BY JoinedByOne
<1>5. Len(j[0]) = 0
  BY <1>4
<1>6. at \in [0..n -> Nat] /\ at[0] = pos /\ at[n] = pos + Len(j[n]) /\ \A k \in 0..n : at[k] = pos + Len(j[k])
  BY <1>1, <1>2, <1>5
<1> HIDE DEF at
<1>7. ASSUME NEW k \in 1..n
      PROVE  Written(buf, at[k - 1], b[k]) /\ at[k] = at[k - 1] + Len(b[k])
  <2>1. k \in 0..n /\ k - 1 \in 0..n
    OBVIOUS
  <2>2. at[k] = pos + Len(j[k]) /\ at[k - 1] = pos + Len(j[k - 1]) /\ Len(j[k - 1]) \in Nat /\ Len(b[k]) \in Nat
    BY <1>2, <1>6, <2>1, TextProps
  <2>3. Written(buf, pos + Len(j[k - 1]), b[k]) /\ Len(j[k]) = Len(j[k - 1]) + Len(b[k])
    BY <1>3
  <2>4. at[k] = at[k - 1] + Len(b[k])
    <3> DEFINE p == Len(j[k - 1])
               q == Len(b[k])
    <3>1. p \in Nat /\ q \in Nat /\ at[k] = pos + (p + q) /\ at[k - 1] = pos + p
      BY <2>2, <2>3
    <3> HIDE DEF p, q
    <3>2. at[k] = at[k - 1] + q
      BY <1>1, <3>1
    <3> QED
      BY <3>2 DEF q
  <2> QED
    BY <2>2, <2>3, <2>4
<1> QED
  BY <1>6, <1>7 DEF LaidOut

\* Fields one behind the other are skipped, ...
LEMMA FieldsSkipped ==
  ASSUME NEW buf \in Text, NEW n \in Nat, NEW at \in [0..n -> Nat],
         \A k \in 1..n : at[k] = at[k - 1] + 4 /\ \E t \in FieldTexts : Written(buf, at[k - 1], t)
  PROVE  SkipFields(buf, at[0], n) = Ok(0, at[n])
<1>1. PICK f : /\ Loops(f, FieldIn(buf), BehindField(buf))
               /\ SkipFields(buf, at[0], n) = f[Round(Max({0, n}), at[0])]
  BY SkipFieldsIs
<1>2. Max({0, n}) = n
  <2>1. {0, n} \in SUBSET (0..n) /\ {0, n} # {}
    OBVIOUS
  <2>2. Max({0, n}) \in {0, n} /\ \A i \in {0, n} : i <= Max({0, n})
    BY <2>1, MaxOfSet
  <2> QED
    BY <2>2
<1>3. ASSUME NEW k \in 0..(n - 1)
      PROVE  /\ FieldIn(buf)[Round(n - k, at[k])].is = "ok"
             /\ BehindField(buf)[Round(n - k, at[k])] = Round(n - k - 1, at[k + 1])
  <2> DEFINE x == Round(n - k, at[k])
             i == k + 1
  <2>1. i \in 1..n /\ i - 1 = k /\ at[k] \in Nat /\ n - k \in Nat
    OBVIOUS
  <2> HIDE DEF i
  <2>2. PICK t \in FieldTexts : Written(buf, at[i - 1], t)
    BY <2>1
  <2>3. SkipText(buf, at[i - 1] + 1) = Ok(1, at[i - 1] + 4)
    BY <2>2, FieldSkipped
  <2>4. SkipText(buf, at[k] + 1) = Ok(1, at[i])
    BY <2>1, <2>3
  <2>5. x \in Rounds /\ x.left = n - k /\ x.pos = at[k]
    BY <2>1 DEF Round, Rounds
  <2> HIDE DEF x
  <2>6. FieldIn(buf)[x].is = "ok" /\ BehindField(buf)[x] = Round(n - k - 1, at[i])
    <3>1. FieldIn(buf)[x] = Ok(1, at[i])
      BY ONLY <2>4, <2>5 DEF FieldIn
    <3>2. BehindField(buf)[x] = Round((n - k) - 1, Ok(1, at[i]).pos)
      BY ONLY <2>4, <2>5 DEF BehindField
    <3> QED
      BY ONLY <3>1, <3>2 DEF Ok
  <2> QED
    BY <2>6 DEF x, i
<1>4. f[Round(n, at[0])] = Ok(0, at[n])
  <2>1. Leads(FieldIn(buf), BehindField(buf), at, n)
    BY <1>3 DEF Leads
  <2>2. n \in Nat /\ Loops(f, FieldIn(buf), BehindField(buf))
    BY <1>1
  <2> QED
    BY ONLY <2>1, <2>2, RoundsRun, Zenon
<1> QED
  BY <1>1, <1>2, <1>4

\* ... and types up to the end of the description.
LEMMA TypesSkipped ==
  ASSUME NEW buf \in Text, NEW m \in Nat, NEW at \in [0..m -> Nat],
         \A k \in 1..m : \E t \in TypeTexts : at[k] = at[k - 1] + Len(t) /\ Written(buf, at[k - 1], t),
         Written(buf, at[m], NoSuperClass)
  PROVE  SkipTypes(buf, at[0]) = Ok(Null, at[m] + 2)
<1> DEFINE end == at[m] + 1
<1>1. \A k \in 0..(m - 1) : /\ SkipType(buf, at[k]).is = "ok"
                            /\ SkipType(buf, at[k]).value # TC_ENDBLOCKDATA
                            /\ SkipType(buf, at[k]).pos = at[k + 1]
  <2> SUFFICES ASSUME NEW k \in 0..(m - 1)
               PROVE  /\ SkipType(buf, at[k]).is = "ok"
                      /\ SkipType(buf, at[k]).value # TC_ENDBLOCKDATA
                      /\ SkipType(buf, at[k]).pos = at[k + 1]
    OBVIOUS
  <2> DEFINE i == k + 1
  <2>1. i \in 1..m /\ i - 1 = k
    OBVIOUS
  <2> HIDE DEF i
  <2>2. PICK t \in TypeTexts : at[i] = at[i - 1] + Len(t) /\ Written(buf, at[i - 1], t)
    BY <2>1
  <2>3. /\ SkipType(buf, at[i - 1]).is = "ok"
        /\ SkipType(buf, at[i - 1]).value # TC_ENDBLOCKDATA
        /\ SkipType(buf, at[i - 1]).pos = at[i - 1] + Len(t)
    BY <2>2, TypeSkipped
  <2> QED
    BY <2>1, <2>2, <2>3 DEF i
<1>2. ReadByte(buf, at[m]) = Ok(TC_ENDBLOCKDATA, end)
  <2>1. Len(NoSuperClass) > 0 /\ NoSuperClass[1] = TC_ENDBLOCKDATA
    BY ConstantTexts
  <2>2. ReadByte(buf, at[m]) = Ok(NoSuperClass[1], at[m] + 1)
    BY <2>1, WrittenCode
  <2> QED
    BY <2>1, <2>2
<1>3. at[m] \in Nat
  OBVIOUS
<1>4. Written(buf, end, Null)
  <2>1. NoSuperClass = <<TC_ENDBLOCKDATA>> \o Null /\ Null \in Text
    BY ConstantTexts DEF NoSuperClass, Null
  <2>2. <<TC_ENDBLOCKDATA>> \in Text /\ Len(<<TC_ENDBLOCKDATA>>) = 1
    BY DEF Text, Byte, TC_ENDBLOCKDATA
  <2> DEFINE front == <<TC_ENDBLOCKDATA>>
  <2>3. Written(buf, at[m], front \o Null)
    BY <2>1
  <2> HIDE DEF front
  <2>4. Written(buf, at[m] + Len(front), Null)
    BY <2>1, <2>2, <2>3, BothWritten DEF front
  <2> QED
    BY <2>2, <2>4 DEF front
<1>5. ReadConstant(buf, end, Null) = Ok(Null, at[m] + 2)
  <2>1. ReadConstant(buf, end, Null) = Ok(Null, end + Len(Null))
    BY <1>4, WrittenConstant
  <2> QED
    BY <1>3, <2>1, ConstantTexts
<1> HIDE DEF end
<1>6. SkipType(buf, at[m]) = Ok(TC_ENDBLOCKDATA, end)
  <2> DEFINE r == ReadByte(buf, at[m])
  <2>1. r.is = "ok" /\ r.value = TC_ENDBLOCKDATA /\ r.pos = end
    BY <1>2 DEF Ok
  <2>2. SkipType(buf, at[m]) = IF r.is = "ok" THEN TypeBehind(buf, r) ELSE r
    BY SkipTypeIs
  <2> HIDE DEF r
  <2>3. TypeBehind(buf, r) = Ok(r.value, r.pos)
    BY <2>1 DEF TypeBehind, TC_ENDBLOCKDATA, TC_REFERENCE, TC_STRING, CodeL
  <2> QED
    BY <2>1, <2>2, <2>3
<1>7. SkipTypes(buf, at[0]) = ReadConstant(buf, end, Null)
  BY <1>1, <1>6, TypesRun
<1> QED
  BY <1>5, <1>7

\* A class described in full is read to its end.
LEMMA DescriptionRead ==
  ASSUME NEW n \in Half, n < 32768, NEW m \in Nat, NEW b, NEW j,
         Joins(j, b, 6 + n + m), DescriptionOf(b, n, m)
  PROVE  FoundAs("prolog", j[6 + n + m], Null)
<1> DEFINE last == 6 + n + m
<1>1. n \in Nat /\ last \in Nat /\ 5 + n \in 0..last /\ 5 + n + m \in 0..last
  BY DEF Half
<1>2. \A k \in 1..last : b[k] \in Text
  <2>1. \A k \in 1..last : k \in {1, 2, 3, 4, 5, last} \/ k \in 6..(5 + n) \/ k \in (6 + n)..(5 + n + m)
    BY <1>1
  <2>2. \A k \in 6..(5 + n) : b[k] \in Text
    BY DEF DescriptionOf, FieldTexts
  <2>3. \A k \in (6 + n)..(5 + n + m) : b[k] \in Text
    BY DEF DescriptionOf, TypeTexts
  <2>4. b[1] \in Text /\ b[2] \in Text /\ b[3] \in Text /\ b[4] \in Text /\ b[5] \in Text /\ b[last] \in Text
    BY ConstantTexts, NumbersOfShort DEF DescriptionOf
  <2> HIDE DEF last
  <2> QED
    BY <2>1, <2>2, <2>3, <2>4
<1>3. Joins(j, b, last)
  OBVIOUS
<1>4. j[last] \in Text
  <2> HIDE DEF last
  <2>1. last \in 0..last
    BY <1>1
  <2> QED
    BY ONLY <1>1, <1>2, <1>3, <2>1, JoinedTexts
<1>5. ASSUME NEW buf, NEW pos, Written(buf, pos, j[last])
      PROVE  ReadProlog(buf, pos) = Ok(Null, pos + Len(j[last]))
  <2> HIDE DEF last
  <2>1. buf \in Text /\ Len(buf) \in Nat
    BY <1>5, TextProps DEF Written
  <2>0. PICK at : LaidOut(at, buf, b, last) /\ at[0] = pos /\ at[last] = pos + Len(j[last])
    <3>1. \A i \in 1..last : b[i] \in Text
      BY <1>2
    <3>2. last \in Nat
      BY <1>1
    <3> QED
      BY ONLY <1>3, <1>5, <3>1, <3>2, PiecesAt
  <2>2. /\ at \in [0..last -> Nat] /\ at[0] = pos /\ at[last] = pos + Len(j[last])
        /\ \A k \in 1..last : Written(buf, at[k - 1], b[k]) /\ at[k] = at[k - 1] + Len(b[k])
    BY <2>0 DEF LaidOut
  <2>3. /\ Written(buf, at[0], b[1]) /\ at[1] = at[0] + Len(b[1])
        /\ Written(buf, at[1], b[2]) /\ at[2] = at[1] + Len(b[2])
        /\ at[3] = at[2] + Len(b[3]) /\ at[4] = at[3] + Len(b[4])
        /\ Written(buf, at[4], b[5]) /\ at[5] = at[4] + Len(b[5])
    <3>1. 1 \in 1..last /\ 2 \in 1..last /\ 3 \in 1..last /\ 4 \in 1..last /\ 5 \in 1..last
      BY <1>1 DEF last
    <3>2. 1 - 1 = 0 /\ 2 - 1 = 1 /\ 3 - 1 = 2 /\ 4 - 1 = 3 /\ 5 - 1 = 4
      OBVIOUS
    <3> QED
      BY ONLY <2>2, <3>1, <3>2, Zenon
  <2>4. /\ b[1] = <<TC_CLASSDESC>> /\ b[2] = Name /\ Len(b[3]) = 8 /\ Len(b[4]) = 1 /\ b[5] = Short(n)
    BY DEF DescriptionOf
  <2>5. at[0] \in Nat /\ at[1] \in Nat /\ at[2] \in Nat /\ at[3] \in Nat /\ at[4] \in Nat /\ at[5] \in Nat
    <3>1. last \in Nat /\ last >= 5
      BY <1>1 DEF last
    <3>2. 0 \in 0..last /\ 1 \in 0..last /\ 2 \in 0..last /\ 3 \in 0..last /\ 4 \in 0..last /\ 5 \in 0..last
      BY <3>1
    <3>3. \A k \in 0..last : at[k] \in Nat
      BY <2>2
    <3> QED
      BY ONLY <3>2, <3>3
  <2>6. ReadByte(buf, pos) = Ok(TC_CLASSDESC, at[1])
    <3> DEFINE t == <<TC_CLASSDESC>>
    <3>1. Written(buf, pos, t) /\ Len(t) = 1 /\ t[1] = TC_CLASSDESC /\ at[1] = pos + Len(t)
      BY <2>2, <2>3, <2>4
    <3> HIDE DEF t
    <3>2. Len(t) > 0
      BY <3>1
    <3>3. ReadByte(buf, pos) = Ok(t[1], pos + 1)
      BY ONLY <3>1, <3>2, WrittenCode
    <3> QED
      BY <2>2, <3>1, <3>3
  <2>7. SkipText(buf, at[1]) = Ok(1, at[2])
    <3>1. /\ Written(buf, at[1], Name) /\ at[2] = at[1] + 3
      BY <2>3, <2>4, ConstantTexts
    <3>2. /\ at[1] + 3 <= Len(buf) /\ \A i \in 1..3 : buf[at[1] + i] = Name[i]
      BY <3>1, ConstantTexts DEF Written
    <3>3. at[1] + 2 <= Len(buf) /\ buf[at[1] + 1] = 0 /\ buf[at[1] + 2] = 1
      BY <2>1, <2>5, <3>2, ConstantTexts
    <3>4. SkipText(buf, at[1]) = Ok(1, at[1] + 3)
      BY ONLY <2>1, <2>5, <3>3, NameSkipped
    <3> QED
      BY <3>1, <3>4
  <2>8. ReadShort(buf, at[2] + 9) = Ok(n, at[5])
    <3>1. at[4] = at[2] + 9 /\ at[5] = at[4] + 2
      <4>1. Len(b[5]) = 2
        BY <2>4, NumbersOfShort
      <4>2. Len(b[3]) = 8 /\ Len(b[4]) = 1
        BY <2>4
      <4>3. at[3] = at[2] + 8 /\ at[4] = at[3] + 1 /\ at[5] = at[4] + 2
        BY ONLY <2>3, <4>1, <4>2
      <4> QED
        BY ONLY <2>5, <4>3
    <3> QED
      BY <2>3, <2>4, <3>1, WrittenShort
  <2>9. SkipFields(buf, at[5], n) = Ok(0, at[5 + n])
    <3> DEFINE step == [k \in 0..n |-> at[5 + k]]
    <3>1. step \in [0..n -> Nat] /\ step[0] = at[5] /\ step[n] = at[5 + n]
          /\ \A k \in 0..n : step[k] = at[5 + k]
      <4>1. \A k \in 0..n : 5 + k \in 0..last
        BY <1>1 DEF last
      <4> QED
        BY <1>1, <2>2, <4>1
    <3> HIDE DEF step
    <3>2. \A k \in 1..n : step[k] = step[k - 1] + 4 /\ \E t \in FieldTexts : Written(buf, step[k - 1], t)
      <4> SUFFICES ASSUME NEW k \in 1..n
                   PROVE  step[k] = step[k - 1] + 4 /\ \E t \in FieldTexts : Written(buf, step[k - 1], t)
        OBVIOUS
      <4> DEFINE i == 5 + k
      <4>1. i \in 1..last /\ i \in 6..(5 + n) /\ i - 1 = 5 + (k - 1) /\ k - 1 \in 0..n /\ k \in 0..n
        BY <1>1 DEF last
      <4>2. step[k - 1] = at[i - 1] /\ step[k] = at[i]
        BY <3>1, <4>1
      <4>3. b[i] \in FieldTexts /\ Len(b[i]) = 4
        BY <4>1 DEF DescriptionOf, FieldTexts
      <4> HIDE DEF i
      <4>4. Written(buf, at[i - 1], b[i]) /\ at[i] = at[i - 1] + Len(b[i])
        BY <2>2, <4>1
      <4> QED
        BY <4>2, <4>3, <4>4
    <3>3. SkipFields(buf, step[0], n) = Ok(0, step[n])
      BY ONLY <1>1, <2>1, <3>1, <3>2, FieldsSkipped
    <3> QED
      BY <3>1, <3>3
  <2>10. SkipTypes(buf, at[5 + n]) = Ok(Null, at[last])
    <3> DEFINE step == [k \in 0..m |-> at[5 + n + k]]
    <3>1. step \in [0..m -> Nat] /\ step[0] = at[5 + n] /\ step[m] = at[5 + n + m]
          /\ \A k \in 0..m : step[k] = at[5 + n + k]
      <4>1. \A k \in 0..m : 5 + n + k \in 0..last
        BY <1>1 DEF last
      <4> QED
        BY <1>1, <2>2, <4>1
    <3> HIDE DEF step
    <3>2. \A k \in 1..m : \E t \in TypeTexts : step[k] = step[k - 1] + Len(t) /\ Written(buf, step[k - 1], t)
      <4> SUFFICES ASSUME NEW k \in 1..m
                   PROVE  \E t \in TypeTexts : step[k] = step[k - 1] + Len(t) /\ Written(buf, step[k - 1], t)
        OBVIOUS
      <4> DEFINE i == 5 + n + k
      <4>1. i \in 1..last /\ i \in (6 + n)..(5 + n + m) /\ i - 1 = 5 + n + (k - 1) /\ k - 1 \in 0..m /\ k \in 0..m
        BY <1>1 DEF last
      <4>2. step[k - 1] = at[i - 1] /\ step[k] = at[i]
        BY <3>1, <4>1
      <4>3. b[i] \in TypeTexts
        BY <4>1 DEF DescriptionOf
      <4> HIDE DEF i
      <4>4. Written(buf, at[i - 1], b[i]) /\ at[i] = at[i - 1] + Len(b[i])
        BY <2>2, <4>1
      <4> QED
        BY <4>2, <4>3, <4>4
    <3>3. Written(buf, step[m], NoSuperClass) /\ at[last] = step[m] + 2
      <4>1. last \in 1..last /\ last - 1 = 5 + n + m /\ b[last] = NoSuperClass
        BY <1>1 DEF last, DescriptionOf
      <4>2. Written(buf, at[last - 1], b[last]) /\ at[last] = at[last - 1] + Len(b[last])
        BY <2>2, <4>1
      <4> QED
        BY <3>1, <4>1, <4>2, ConstantTexts
    <3>4. m \in Nat
      OBVIOUS
    <3>5. SkipTypes(buf, step[0]) = Ok(Null, step[m] + 2)
      BY ONLY <2>1, <3>1, <3>2, <3>3, <3>4, TypesSkipped
    <3> QED
      BY <3>1, <3>3, <3>5
  <2>11. ReadClassDesc(buf, at[1]) = Ok(Null, at[last])
    BY <2>7, <2>8, <2>9, <2>10, SMTT(30) DEF ReadClassDesc, Then, Ok
  <2>12. ReadProlog(buf, pos) = Ok(Null, at[last])
    BY <2>6, <2>11, SMTT(30) DEF ReadProlog, Then, Ok, TC_CLASSDESC, TC_REFERENCE
  <2> QED
    BY <2>2, <2>12
<1>6. \A buf, pos : ReadField(buf, pos, "prolog") = ReadProlog(buf, pos)
  BY DEF ReadField
<1> QED
  BY <1>4, <1>5, <1>6 DEF FoundAs

-----------------------------------------------------------------------------
\* The class descriptions the writers send.
LEMMA NamedText ==
  ASSUME NEW c \in Byte
  PROVE  /\ <<c>> \o Name \in FieldTexts
         /\ c \in {CodeL, TC_STRING} => <<c>> \o Name \in TypeTexts
<1> DEFINE code == <<c>>
           t == code \o Name
<1>1. code \in Text /\ Len(code) = 1 /\ code[1] = c
  BY DEF Text
<1> HIDE DEF code
<1>2. t \in Text /\ MadeOf(t, code, Name)
  BY <1>1, ConstantTexts, Concatenated
<1> HIDE DEF t
<1>3. Len(t) = 4 /\ t[1] = c /\ t[2] = 0 /\ t[3] = 1
  <2>1. /\ Len(Name) = 3 /\ Name[1] = 0 /\ Name[2] = 1
        /\ 1 \in 1..1 /\ 1 \in 1..3 /\ 2 \in 1..3 /\ 1 + 1 = 2 /\ 1 + 2 = 3
    BY ConstantTexts
  <2> HIDE DEF code
  <2> QED
    BY <1>1, <1>2, <2>1 DEF MadeOf
<1>4. t \in FieldTexts /\ (c \in {CodeL, TC_STRING} => t \in TypeTexts)
  BY <1>2, <1>3 DEF FieldTexts, TypeTexts
<1> QED
  BY <1>4 DEF t, code

\* The fields and types of the class descriptions are texts the decoder can skip.
LEMMA DescriptionTexts ==
  /\ \A c \in {90, 74, 70, 73, CodeL} : Field(c) \in FieldTexts
  /\ TypeString \in FieldTexts
  /\ Field(CodeL) \in TypeTexts /\ TypeString \in TypeTexts /\ TypeHandle \in TypeTexts
<1>1. \A c \in {90, 74, 70, 73, CodeL} : Field(c) \in FieldTexts
  <2>1. \A c \in {90, 74, 70, 73, CodeL} : c \in Byte
    BY DEF Byte, CodeL
  <2> QED
    BY <2>1, NamedText DEF Field
<1>2. TypeString \in FieldTexts /\ TypeString \in TypeTexts
  <2>1. TC_STRING \in Byte
    BY DEF Byte, TC_STRING
  <2> QED
    BY <2>1, NamedText DEF TypeString
<1>3. Field(CodeL) \in TypeTexts
  <2>1. CodeL \in Byte
    BY DEF Byte, CodeL
  <2> QED
    BY <2>1, NamedText DEF Field
<1>4. TypeHandle \in TypeTexts
  <2>1. TypeHandle \in Text /\ Len(TypeHandle) = 5 /\ TypeHandle[1] = TC_REFERENCE
    BY DEF TypeHandle, Text, Byte, TC_REFERENCE
  <2> QED
    BY <2>1 DEF TypeTexts
<1> QED
  BY <1>1, <1>2, <1>3, <1>4

\* Version and flags of a class.
LEMMA VersionTexts ==
  /\ <<243, 242, 185, 35, 116, 11, 181, 63>> \in Text
  /\ Len(<<243, 242, 185, 35, 116, 11, 181, 63>>) = 8
  /\ \A flags \in Byte : <<flags>> \in Text /\ Len(<<flags>>) = 1
BY DEF Text, Byte

\* A class described in these pieces: its head, n fields, m types, and no
\* superclass.
Describes(b, flags, n, m, last) ==
  /\ flags \in Byte /\ n \in Half /\ n < 32768 /\ m \in Nat /\ last = 6 + n + m
  /\ b[1] = <<TC_CLASSDESC>> /\ b[2] = Name /\ b[3] = <<243, 242, 185, 35, 116, 11, 181, 63>> /\ b[4] = <<flags>>
  /\ b[5] = Short(n)
  /\ \A i \in 6..(5 + n) : b[i] \in FieldTexts
  /\ \A i \in (6 + n)..(5 + n + m) : b[i] \in TypeTexts
  /\ b[last] = NoSuperClass

\* A class's description is passed, whatever its name and its fields are.
LEMMA ClassRead ==
  ASSUME NEW b, NEW flags, NEW n, NEW m, NEW last, Describes(b, flags, n, m, last),
         NEW j, Joins(j, b, last)
  PROVE  /\ FoundAs("prolog", j[last], Null)
         /\ j[1] = b[1] /\ \A k \in 2..last : Consists(j[k], j[k - 1], b[k])
<1>1. /\ flags \in Byte /\ n \in Half /\ n < 32768 /\ m \in Nat /\ last = 6 + n + m
      /\ \A i \in 6..(5 + n) : b[i] \in FieldTexts
      /\ \A i \in (6 + n)..(5 + n + m) : b[i] \in TypeTexts
  BY DEF Describes
<1>2. /\ b[1] = <<TC_CLASSDESC>> /\ b[2] = Name /\ b[3] = <<243, 242, 185, 35, 116, 11, 181, 63>> /\ b[4] = <<flags>>
      /\ b[5] = Short(n) /\ b[last] = NoSuperClass
  BY DEF Describes
<1>3. DescriptionOf(b, n, m)
  BY <1>1, <1>2, VersionTexts DEF DescriptionOf
<1>4. \A k \in 1..last : b[k] \in Text
  <2>1. \A k \in 1..last : k \in {1, 2, 3, 4, 5, last} \/ k \in 6..(5 + n) \/ k \in (6 + n)..(5 + n + m)
    BY <1>1 DEF Half
  <2>2. \A k \in 6..(5 + n) : b[k] \in Text
    BY <1>1 DEF FieldTexts
  <2>3. \A k \in (6 + n)..(5 + n + m) : b[k] \in Text
    BY <1>1 DEF TypeTexts
  <2>4. b[1] \in Text /\ b[2] \in Text /\ b[3] \in Text /\ b[4] \in Text /\ b[5] \in Text /\ b[last] \in Text
    BY <1>1, <1>2, ConstantTexts, NumbersOfShort, VersionTexts
  <2> QED
    BY <2>1, <2>2, <2>3, <2>4
<1>5. FoundAs("prolog", j[last], Null)
  <2>1. Joins(j, b, 6 + n + m)
    BY <1>1
  <2>2. FoundAs("prolog", j[6 + n + m], Null)
    BY ONLY <1>1, <1>3, <2>1, DescriptionRead
  <2> QED
    BY <1>1, <2>2
<1>6. j[1] = b[1] /\ \A k \in 2..last : Consists(j[k], j[k - 1], b[k])
  <2>1. last \in Nat /\ last > 0
    BY <1>1 DEF Half
  <2>2. Joins(j, b, last)
    OBVIOUS
  <2> QED
    BY ONLY <1>4, <2>1, <2>2, JoinedFirst
<1> QED
  BY <1>5, <1>6

\* The description of log4j's LocationInfo is passed.
LEMMA LocationClassRead ==
  ASSUME NEW again \in TypeTexts
  PROVE  FoundAs("prolog", LOCATION_INFO(again), Null)
<1> DEFINE b == <<<<TC_CLASSDESC>>, Name, <<243, 242, 185, 35, 116, 11, 181, 63>>, <<2>>, Short(1),
                  Field(CodeL), again, NoSuperClass>>
<1>1. /\ b[1] = <<TC_CLASSDESC>> /\ b[2] = Name /\ b[3] = <<243, 242, 185, 35, 116, 11, 181, 63>> /\ b[4] = <<2>>
      /\ b[5] = Short(1) /\ b[6] = Field(CodeL) /\ b[7] = again /\ b[8] = NoSuperClass
  OBVIOUS
<1>2. PICK j : Joins(j, b, 8)
  BY JoinerExists
<1> HIDE DEF b
<1>3. Describes(b, 2, 1, 1, 8)
  <2>1. \A i \in 6..6 : b[i] \in FieldTexts
    <3>1. \A i \in 6..6 : i \in {6}
      OBVIOUS
    <3> QED
      BY <1>1, <3>1, DescriptionTexts
  <2>2. \A i \in 7..7 : b[i] \in TypeTexts
    BY <1>1
  <2>3. 2 \in Byte /\ 1 \in Half /\ 1 \in Nat /\ 1 < 32768 /\ 5 + 1 = 6 /\ 6 + 1 = 7
        /\ 5 + 1 + 1 = 7 /\ 8 = 6 + 1 + 1
    BY DEF Byte, Half
  <2> QED
    BY ONLY <1>1, <2>1, <2>2, <2>3 DEF Describes
<1>4. /\ FoundAs("prolog", j[8], Null)
      /\ j[1] = b[1] /\ \A k \in 2..8 : Consists(j[k], j[k - 1], b[k])
  BY <1>2, <1>3, ClassRead
<1>5. j[8] = LOCATION_INFO(again)
  <2>1. j[8] = Class(2, 1) \o Field(CodeL) \o again \o NoSuperClass
    <3>1. /\ 2 \in 2..8 /\ 3 \in 2..8 /\ 4 \in 2..8 /\ 5 \in 2..8 /\ 6 \in 2..8 /\ 7 \in 2..8
          /\ 8 \in 2..8 /\ 2 - 1 = 1 /\ 3 - 1 = 2 /\ 4 - 1 = 3 /\ 5 - 1 = 4 /\ 6 - 1 = 5
          /\ 7 - 1 = 6 /\ 8 - 1 = 7
      OBVIOUS
    <3>2. /\ j[2] = j[1] \o b[2] /\ j[3] = j[2] \o b[3] /\ j[4] = j[3] \o b[4] /\ j[5] = j[4] \o b[5]
          /\ j[6] = j[5] \o b[6] /\ j[7] = j[6] \o b[7] /\ j[8] = j[7] \o b[8]
      BY <1>4, <3>1, Zenon DEF Consists
    <3>3. j[8] = b[1] \o b[2] \o b[3] \o b[4] \o b[5] \o b[6] \o b[7] \o b[8]
      BY ONLY <1>4, <3>2, Zenon
    <3> QED
      BY ONLY <1>1, <3>3 DEF Class
  <2> QED
    BY ONLY <2>1, ZenonT(40) DEF LOCATION_INFO
<1> QED
  BY <1>4, <1>5

\* The description of log4j's LoggingEvent is passed.
LEMMA EventClassRead ==
  ASSUME NEW again \in TypeTexts
  PROVE  FoundAs("prolog", LOGGING_EVENT(again), Null)
<1> DEFINE b == <<<<TC_CLASSDESC>>, Name, <<243, 242, 185, 35, 116, 11, 181, 63>>, <<3>>, Short(10),
                  Field(90), Field(90), Field(74), Field(CodeL), TypeString, Field(CodeL),
                  TypeString, Field(CodeL), TypeString, Field(CodeL), again, Field(CodeL),
                  again, Field(CodeL), again, Field(CodeL), TypeString, NoSuperClass>>
<1>1. /\ b[1] = <<TC_CLASSDESC>> /\ b[2] = Name /\ b[3] = <<243, 242, 185, 35, 116, 11, 181, 63>> /\ b[4] = <<3>>
      /\ b[5] = Short(10) /\ b[6] = Field(90) /\ b[7] = Field(90) /\ b[8] = Field(74)
      /\ b[9] = Field(CodeL) /\ b[10] = TypeString /\ b[11] = Field(CodeL) /\ b[12] = TypeString
      /\ b[13] = Field(CodeL) /\ b[14] = TypeString /\ b[15] = Field(CodeL) /\ b[16] = again
      /\ b[17] = Field(CodeL) /\ b[18] = again /\ b[19] = Field(CodeL) /\ b[20] = again
      /\ b[21] = Field(CodeL) /\ b[22] = TypeString /\ b[23] = NoSuperClass
  OBVIOUS
<1>2. PICK j : Joins(j, b, 23)
  BY JoinerExists
<1> HIDE DEF b
<1>3. Describes(b, 3, 10, 7, 23)
  <2>1. \A i \in 6..15 : b[i] \in FieldTexts
    <3>1. \A i \in 6..15 : i \in {6, 7, 8, 9, 10, 11, 12, 13, 14, 15}
      OBVIOUS
    <3> QED
      BY <1>1, <3>1, DescriptionTexts
  <2>2. \A i \in 16..22 : b[i] \in TypeTexts
    <3>1. \A i \in 16..22 : i \in {16, 17, 18, 19, 20, 21, 22}
      OBVIOUS
    <3> QED
      BY <1>1, <3>1, DescriptionTexts
  <2>3. 3 \in Byte /\ 10 \in Half /\ 7 \in Nat /\ 10 < 32768 /\ 5 + 10 = 15 /\ 6 + 10 = 16
        /\ 5 + 10 + 7 = 22 /\ 23 = 6 + 10 + 7
    BY DEF Byte, Half
  <2> QED
    BY ONLY <1>1, <2>1, <2>2, <2>3 DEF Describes
<1>4. /\ FoundAs("prolog", j[23], Null)
      /\ j[1] = b[1] /\ \A k \in 2..23 : Consists(j[k], j[k - 1], b[k])
  BY <1>2, <1>3, ClassRead
<1>5. j[23] = LOGGING_EVENT(again)
  <2>1. j[8] = Class(3, 10) \o Field(90) \o Field(90) \o Field(74)
    <3>1. /\ 2 \in 2..23 /\ 3 \in 2..23 /\ 4 \in 2..23 /\ 5 \in 2..23 /\ 6 \in 2..23 /\ 7 \in 2..23
          /\ 8 \in 2..23 /\ 2 - 1 = 1 /\ 3 - 1 = 2 /\ 4 - 1 = 3 /\ 5 - 1 = 4 /\ 6 - 1 = 5
          /\ 7 - 1 = 6 /\ 8 - 1 = 7
      OBVIOUS
    <3>2. /\ j[2] = j[1] \o b[2] /\ j[3] = j[2] \o b[3] /\ j[4] = j[3] \o b[4] /\ j[5] = j[4] \o b[5]
          /\ j[6] = j[5] \o b[6] /\ j[7] = j[6] \o b[7] /\ j[8] = j[7] \o b[8]
      BY <1>4, <3>1, Zenon DEF Consists
    <3>3. j[8] = b[1] \o b[2] \o b[3] \o b[4] \o b[5] \o b[6] \o b[7] \o b[8]
      BY ONLY <1>4, <3>2, Zenon
    <3> QED
      BY ONLY <1>1, <3>3 DEF Class
  <2>2. j[15] = j[8] \o Field(CodeL) \o TypeString \o Field(CodeL) \o TypeString \o Field(CodeL) \o TypeString \o Field(CodeL)
    <3>1. /\ 9 \in 2..23 /\ 10 \in 2..23 /\ 11 \in 2..23 /\ 12 \in 2..23 /\ 13 \in 2..23 /\ 14 \in 2..23
          /\ 15 \in 2..23 /\ 9 - 1 = 8 /\ 10 - 1 = 9 /\ 11 - 1 = 10 /\ 12 - 1 = 11 /\ 13 - 1 = 12
          /\ 14 - 1 = 13 /\ 15 - 1 = 14
      OBVIOUS
    <3>2. /\ j[9] = j[8] \o b[9] /\ j[10] = j[9] \o b[10] /\ j[11] = j[10] \o b[11] /\ j[12] = j[11] \o b[12]
          /\ j[13] = j[12] \o b[13] /\ j[14] = j[13] \o b[14] /\ j[15] = j[14] \o b[15]
      BY <1>4, <3>1, Zenon DEF Consists
    <3>3. j[15] = j[8] \o b[9] \o b[10] \o b[11] \o b[12] \o b[13] \o b[14] \o b[15]
      BY ONLY <3>2, Zenon
    <3> QED
      BY ONLY <1>1, <3>3
  <2>3. j[22] = j[15] \o again \o Field(CodeL) \o again \o Field(CodeL) \o again \o Field(CodeL) \o TypeString
    <3>1. /\ 16 \in 2..23 /\ 17 \in 2..23 /\ 18 \in 2..23 /\ 19 \in 2..23 /\ 20 \in 2..23 /\ 21 \in 2..23
          /\ 22 \in 2..23 /\ 16 - 1 = 15 /\ 17 - 1 = 16 /\ 18 - 1 = 17 /\ 19 - 1 = 18 /\ 20 - 1 = 19
          /\ 21 - 1 = 20 /\ 22 - 1 = 21
      OBVIOUS
    <3>2. /\ j[16] = j[15] \o b[16] /\ j[17] = j[16] \o b[17] /\ j[18] = j[17] \o b[18] /\ j[19] = j[18] \o b[19]
          /\ j[20] = j[19] \o b[20] /\ j[21] = j[20] \o b[21] /\ j[22] = j[21] \o b[22]
      BY <1>4, <3>1, Zenon DEF Consists
    <3>3. j[22] = j[15] \o b[16] \o b[17] \o b[18] \o b[19] \o b[20] \o b[21] \o b[22]
      BY ONLY <3>2, Zenon
    <3> QED
      BY ONLY <1>1, <3>3
  <2>4. j[23] = j[22] \o NoSuperClass
    <3>1. /\ 23 \in 2..23 /\ 23 - 1 = 22
      OBVIOUS
    <3>2. /\ j[23] = j[22] \o b[23]
      BY <1>4, <3>1, Zenon DEF Consists
    <3>3. j[23] = j[22] \o b[23]
      BY ONLY <3>2, Zenon
    <3> QED
      BY ONLY <1>1, <3>3
  <2> QED
    BY ONLY <2>1, <2>2, <2>3, <2>4, ZenonT(40) DEF LOGGING_EVENT
<1> QED
  BY <1>4, <1>5

\* The description of Java's Hashtable is passed.
LEMMA HashtableClassRead ==
  FoundAs("prolog", HASH_TABLE, Null)
<1> DEFINE b == <<<<TC_CLASSDESC>>, Name, <<243, 242, 185, 35, 116, 11, 181, 63>>, <<3>>, Short(2),
                  Field(70), Field(73), NoSuperClass>>
<1>1. /\ b[1] = <<TC_CLASSDESC>> /\ b[2] = Name /\ b[3] = <<243, 242, 185, 35, 116, 11, 181, 63>> /\ b[4] = <<3>>
      /\ b[5] = Short(2) /\ b[6] = Field(70) /\ b[7] = Field(73) /\ b[8] = NoSuperClass
  OBVIOUS
<1>2. PICK j : Joins(j, b, 8)
  BY JoinerExists
<1> HIDE DEF b
<1>3. Describes(b, 3, 2, 0, 8)
  <2>1. \A i \in 6..7 : b[i] \in FieldTexts
    <3>1. \A i \in 6..7 : i \in {6, 7}
      OBVIOUS
    <3> QED
      BY <1>1, <3>1, DescriptionTexts
  <2>2. \A i \in 8..7 : b[i] \in TypeTexts
    OBVIOUS
  <2>3. 3 \in Byte /\ 2 \in Half /\ 0 \in Nat /\ 2 < 32768 /\ 5 + 2 = 7 /\ 6 + 2 = 8
        /\ 5 + 2 + 0 = 7 /\ 8 = 6 + 2 + 0
    BY DEF Byte, Half
  <2> QED
    BY ONLY <1>1, <2>1, <2>2, <2>3 DEF Describes
<1>4. /\ FoundAs("prolog", j[8], Null)
      /\ j[1] = b[1] /\ \A k \in 2..8 : Consists(j[k], j[k - 1], b[k])
  BY <1>2, <1>3, ClassRead
<1>5. j[8] = HASH_TABLE
  <2>1. j[8] = Class(3, 2) \o Field(70) \o Field(73) \o NoSuperClass
    <3>1. /\ 2 \in 2..8 /\ 3 \in 2..8 /\ 4 \in 2..8 /\ 5 \in 2..8 /\ 6 \in 2..8 /\ 7 \in 2..8
          /\ 8 \in 2..8 /\ 2 - 1 = 1 /\ 3 - 1 = 2 /\ 4 - 1 = 3 /\ 5 - 1 = 4 /\ 6 - 1 = 5
          /\ 7 - 1 = 6 /\ 8 - 1 = 7
      OBVIOUS
    <3>2. /\ j[2] = j[1] \o b[2] /\ j[3] = j[2] \o b[3] /\ j[4] = j[3] \o b[4] /\ j[5] = j[4] \o b[5]
          /\ j[6] = j[5] \o b[6] /\ j[7] = j[6] \o b[7] /\ j[8] = j[7] \o b[8]
      BY <1>4, <3>1, Zenon DEF Consists
    <3>3. j[8] = b[1] \o b[2] \o b[3] \o b[4] \o b[5] \o b[6] \o b[7] \o b[8]
      BY ONLY <1>4, <3>2, Zenon
    <3> QED
      BY ONLY <1>1, <3>3 DEF Class
  <2> QED
    BY ONLY <2>1, ZenonT(40) DEF HASH_TABLE
<1> QED
  BY <1>4, <1>5

-----------------------------------------------------------------------------
\* A class by its handle.
LEMMA HandleRead ==
  ASSUME NEW number \in Byte
  PROVE  \E v : FoundAs("prolog", Handle(number), v)
<1> DEFINE code == <<TC_REFERENCE>>
           rest == <<0, 126, 0, number>>
           t == Handle(number)
<1>1. /\ code \in Text /\ Len(code) = 1 /\ code[1] = TC_REFERENCE
      /\ rest \in Text /\ Len(rest) = 4
      /\ t \in Text /\ Len(t) = 5
  BY DEF Handle, Text, Byte, TC_REFERENCE
<1>2. t = code \o rest
  <2> DEFINE u == code \o rest
  <2>1. /\ t[1] = TC_REFERENCE /\ t[2] = 0 /\ t[3] = 126 /\ t[4] = 0 /\ t[5] = number
        /\ rest[1] = 0 /\ rest[2] = 126 /\ rest[3] = 0 /\ rest[4] = number
    BY DEF Handle
  <2>2. u \in Text /\ MadeOf(u, code, rest)
    <3> HIDE DEF code, rest
    <3> QED
      BY <1>1, Concatenated
  <2> HIDE DEF code, rest, u, t
  <2>3. /\ Len(u) = 5 /\ u[1] = TC_REFERENCE
        /\ u[1 + 1] = 0 /\ u[1 + 2] = 126 /\ u[1 + 3] = 0 /\ u[1 + 4] = number
    BY <1>1, <2>1, <2>2 DEF MadeOf
  <2>4. \A i \in 1..Len(t) : t[i] = u[i]
    <3>1. \A i \in 1..Len(t) : i \in {1, 2, 3, 4, 5}
      BY <1>1
    <3> QED
      BY <2>1, <2>3, <3>1
  <2>5. t \in Seq(Byte) /\ u \in Seq(Byte) /\ Len(t) = Len(u)
    BY <1>1, <2>2, <2>3 DEF Text
  <2> QED
    BY <2>4, <2>5, SeqEqual DEF u
<1> HIDE DEF code, rest, t
<1>3. ASSUME NEW buf, NEW pos, Written(buf, pos, t)
      PROVE  ReadField(buf, pos, "prolog") = Ok(Signed(rest), pos + Len(t))
  <2>1. Written(buf, pos, code) /\ Written(buf, pos + 1, rest) /\ pos \in Nat
    <3>1. Written(buf, pos, code \o rest)
      BY <1>2, <1>3
    <3>2. code \in Text /\ rest \in Text /\ Len(code) = 1
      BY <1>1
    <3>3. Written(buf, pos, code) /\ Written(buf, pos + Len(code), rest)
      BY ONLY <3>1, <3>2, BothWritten
    <3>4. pos \in Nat
      BY <3>3 DEF Written
    <3> QED
      BY ONLY <3>2, <3>3, <3>4
  <2>2. ReadByte(buf, pos) = Ok(TC_REFERENCE, pos + 1)
    BY <1>1, <2>1, WrittenCode
  <2>3. ReadBytes(buf, pos + 1, 4) = Ok(rest, pos + 5)
    <3>1. ReadBytes(buf, pos + 1, Len(rest)) = Ok(rest, (pos + 1) + Len(rest))
      BY <2>1, WrittenBytes
    <3> QED
      BY <1>1, <2>1, <3>1
  <2>4. ReadInt(buf, pos + 1) = Ok(Signed(rest), pos + 5)
    BY <2>3, SMT DEF ReadInt, Then, Ok
  <2>5. ReadProlog(buf, pos) = Ok(Signed(rest), pos + 5)
    BY <2>2, <2>4, SMT DEF ReadProlog, Then, Ok, TC_CLASSDESC, TC_REFERENCE
  <2> QED
    BY <1>1, <2>5 DEF ReadField
<1>4. FoundAs("prolog", t, Signed(rest))
  BY <1>1, <1>3 DEF FoundAs
<1> QED
  BY <1>4 DEF t

\* Nothing, where a location, an MDC, an NDC or a throwable may be, ...
LEMMA NullRead ==
  /\ FoundAs("fullInfo", Null, <<>>)
  /\ FoundAs("mdc", Null, <<>>)
  /\ FoundAs("ndc", Null, <<>>)
  /\ FoundAs("null", Null, Null)
<1>1. Null \in Text /\ Len(Null) = 1 /\ Null[1] = TC_NULL
  BY ConstantTexts
<1>2. ASSUME NEW buf, NEW pos, Written(buf, pos, Null)
      PROVE  ReadByte(buf, pos) = Ok(TC_NULL, pos + 1)
  BY <1>1, <1>2, WrittenCode
<1>3. ASSUME NEW buf, NEW pos, Written(buf, pos, Null)
      PROVE  /\ ReadField(buf, pos, "fullInfo") = Ok(<<>>, pos + Len(Null))
             /\ ReadField(buf, pos, "mdc") = Ok(<<>>, pos + Len(Null))
             /\ ReadField(buf, pos, "ndc") = Ok(<<>>, pos + Len(Null))
             /\ ReadField(buf, pos, "null") = Ok(Null, pos + Len(Null))
  <2>1. ReadByte(buf, pos) = Ok(TC_NULL, pos + 1)
    BY <1>2, <1>3
  <2>2. ReadLocationInfo(buf, pos) = Ok(<<>>, pos + 1)
    BY <2>1, SMT DEF ReadLocationInfo, Then, Ok, TC_NULL, TC_OBJECT
  <2>3. ReadMDC(buf, pos) = Ok(<<>>, pos + 1)
    BY <2>1, SMT DEF ReadMDC, Then, Ok, TC_NULL, TC_OBJECT
  <2>4. ReadNDC(buf, pos) = Ok(<<>>, pos + 1)
    BY <2>1, SMT DEF ReadNDC, Then, Ok, TC_NULL, TC_STRING
  <2>5. ReadConstant(buf, pos, Null) = Ok(Null, pos + Len(Null))
    BY <1>3, WrittenConstant
  <2>6. /\ ReadField(buf, pos, "fullInfo") = ReadLocationInfo(buf, pos)
        /\ ReadField(buf, pos, "mdc") = ReadMDC(buf, pos)
        /\ ReadField(buf, pos, "ndc") = ReadNDC(buf, pos)
        /\ ReadField(buf, pos, "null") = ReadConstant(buf, pos, Null)
    BY DEF ReadField
  <2> QED
    BY <1>1, <2>2, <2>3, <2>4, <2>5, <2>6
<1> QED
  BY <1>1, <1>3 DEF FoundAs

\* ... a location, ...
LEMMA ObjectWritten ==
  ASSUME NEW desc, NEW v, FoundAs("prolog", desc, v)
  PROVE  /\ Object(desc) \in Text /\ Len(Object(desc)) = 1 + Len(desc)
         /\ \A buf, pos : Written(buf, pos, Object(desc)) =>
              /\ ReadByte(buf, pos) = Ok(TC_OBJECT, pos + 1)
              /\ ReadProlog(buf, pos + 1) = Ok(v, pos + Len(Object(desc)))
<1> DEFINE code == <<TC_OBJECT>>
           t == Object(desc)
<1>1. code \in Text /\ Len(code) = 1 /\ code[1] = TC_OBJECT
  BY DEF Text, Byte, TC_OBJECT
<1>2. t = code \o desc
  BY Zenon DEF Object
<1>3. desc \in Text /\ Len(desc) \in Nat
  BY TextProps DEF FoundAs
<1> HIDE DEF code, t
<1>4. t \in Text /\ Len(t) = 1 + Len(desc)
  <2>1. code \o desc \in Text /\ MadeOf(code \o desc, code, desc)
    BY <1>1, <1>3, Concatenated
  <2> QED
    BY <1>1, <1>2, <2>1 DEF MadeOf
<1>5. ASSUME NEW buf, NEW pos, Written(buf, pos, t)
      PROVE  /\ ReadByte(buf, pos) = Ok(TC_OBJECT, pos + 1)
             /\ ReadProlog(buf, pos + 1) = Ok(v, pos + Len(t))
  <2>1. Written(buf, pos, code) /\ Written(buf, pos + 1, desc) /\ pos \in Nat
    <3>1. Written(buf, pos, code \o desc)
      BY <1>2, <1>5
    <3>2. code \in Text /\ desc \in Text /\ Len(code) = 1
      BY <1>1, <1>3
    <3>3. Written(buf, pos, code) /\ Written(buf, pos + Len(code), desc)
      BY ONLY <3>1, <3>2, BothWritten
    <3>4. pos \in Nat
      BY <3>3 DEF Written
    <3> QED
      BY ONLY <3>2, <3>3, <3>4
  <2>2. ReadByte(buf, pos) = Ok(TC_OBJECT, pos + 1)
    BY <1>1, <2>1, WrittenCode
  <2>3. ReadField(buf, pos + 1, "prolog") = Ok(v, (pos + 1) + Len(desc))
    BY <2>1 DEF FoundAs
  <2>4. ReadField(buf, pos + 1, "prolog") = ReadProlog(buf, pos + 1)
    BY DEF ReadField
  <2>5. (pos + 1) + Len(desc) = pos + Len(t)
    BY <1>3, <1>4, <2>1
  <2> QED
    BY <2>2, <2>3, <2>4, <2>5
<1> QED
  BY <1>4, <1>5 DEF t

\* The full information of a location is read behind a description that is passed.
LEMMA LocationRead ==
  ASSUME NEW desc, NEW v, FoundAs("prolog", desc, v), NEW t \in Text, Len(t) \in Half
  PROVE  FoundAs("fullInfo", Object(desc) \o String(t), CString(t))
<1> DEFINE front == Object(desc)
           back == String(t)
           whole == front \o back
<1>1. front \in Text /\ back \in Text
  BY ObjectWritten, WrittenString
<1>2. ASSUME NEW buf, NEW pos, Written(buf, pos, whole)
      PROVE  ReadField(buf, pos, "fullInfo") = Ok(CString(t), pos + Len(whole))
  <2>1. Written(buf, pos, front) /\ Written(buf, pos + Len(front), back) /\ Len(whole) = Len(front) + Len(back)
    <3> HIDE DEF front, back
    <3> QED
      BY <1>1, <1>2, BothWritten
  <2>2. ReadByte(buf, pos) = Ok(TC_OBJECT, pos + 1) /\ ReadProlog(buf, pos + 1) = Ok(v, pos + Len(front))
    BY <2>1, ObjectWritten
  <2> DEFINE end == pos + Len(whole)
  <2>3. ReadString(buf, pos + Len(front)) = Ok(t, end)
    <3>1. ReadString(buf, pos + Len(front)) = Ok(t, (pos + Len(front)) + Len(back))
      BY <2>1, WrittenString
    <3>2. pos \in Nat /\ Len(front) \in Nat /\ Len(back) \in Nat
      BY <1>1, <2>1, TextProps DEF Written
    <3> HIDE DEF front, back, whole
    <3> QED
      BY <2>1, <3>1, <3>2 DEF end
  <2> HIDE DEF front, back, end
  <2>4. ReadUTFString(buf, pos + Len(front)) = Ok(CString(t), end)
    BY <2>3, SMT DEF ReadUTFString, Then, Ok
  <2>5. ReadLocationInfo(buf, pos) = Ok(CString(t), end)
    BY <2>2, <2>4, SMT DEF ReadLocationInfo, Then, Ok, TC_NULL, TC_OBJECT
  <2> QED
    BY <2>5 DEF ReadField, end
<1>3. whole \in Text
  <2> HIDE DEF front, back
  <2> QED
    BY <1>1, Concatenated
<1> QED
  BY <1>2, <1>3 DEF FoundAs

\* ... and an NDC.
LEMMA NDCRead ==
  ASSUME NEW t \in Text, Len(t) \in Half
  PROVE  FoundAs("ndc", String(t), t)
<1> DEFINE w == String(t)
<1>1. w \in Text
  BY WrittenString
<1>2. ASSUME NEW buf, NEW pos, Written(buf, pos, w)
      PROVE  ReadField(buf, pos, "ndc") = Ok(t, pos + Len(w))
  <2>1. ReadByte(buf, pos) = Ok(TC_STRING, pos + 1) /\ ReadText(buf, pos + 1, 2) = Ok(t, pos + Len(w))
    BY <1>2, WrittenString
  <2> HIDE DEF w
  <2>2. ReadNDC(buf, pos) = Ok(t, pos + Len(w))
    BY <2>1, SMT DEF ReadNDC, Then, Ok, TC_NULL, TC_STRING
  <2> QED
    BY <2>2 DEF ReadField
<1> QED
  BY <1>1, <1>2 DEF FoundAs

\* The texts of an MDC, keys and values in turn, are read pair by pair, ...
MdcTexts == {texts \in Seq(Text) : /\ \E n \in Nat : Len(texts) = 2 * n /\ n \in SignedWord
                                   /\ \A i \in 1..Len(texts) : Len(texts[i]) \in Half}

\* A key and a value of an MDC are passed.
LEMMA PairRead ==
  ASSUME NEW buf, NEW pos, NEW middle, NEW end, NEW key \in Text, Len(key) \in Half, NEW value \in Text, Len(value) \in Half,
         Written(buf, pos, String(key)), middle = pos + Len(String(key)),
         Written(buf, middle, String(value)), end = middle + Len(String(value))
  PROVE  ReadPair(buf, pos) = Ok(value, end)
<1>1. ReadString(buf, pos) = Ok(key, middle)
  BY WrittenString
<1>2. ReadString(buf, middle) = Ok(value, end)
  BY WrittenString
<1> QED
  BY ONLY <1>1, <1>2, SMT DEF ReadPair, Then, Ok

\* So are all the keys and values of an MDC.
LEMMA PairsRead ==
  ASSUME NEW texts \in MdcTexts, NEW n \in Nat, Len(texts) = 2 * n
  PROVE  LET flat == FlattenSeq([i \in DOMAIN texts |-> String(texts[i])]) IN
         /\ flat \in Text
         /\ \A buf, pos : Written(buf, pos, flat) => ReadPairs(buf, pos, n) = Ok(0, pos + Len(flat))
<1> DEFINE last == 2 * n
           b == [i \in 1..last |-> String(texts[i])]
           flat == FlattenSeq([i \in DOMAIN texts |-> String(texts[i])])
<1>1. last \in Nat /\ DOMAIN texts = 1..last /\ \A i \in 1..last : texts[i] \in Text /\ Len(texts[i]) \in Half
  BY DEF MdcTexts
<1>2. \A i \in 1..last : b[i] = String(texts[i]) /\ b[i] \in Text
  BY <1>1, WrittenString
<1>3. b = [i \in DOMAIN texts |-> String(texts[i])] /\ b = [i \in 1..last |-> b[i]]
  BY <1>1
<1> HIDE DEF b, last
<1>4. PICK j : Joins(j, b, last)
  BY <1>1, JoinerExists
<1>5. flat = j[last]
  <2>1. last \in 0..last /\ \A i \in 1..last : b[i] \in Text
    BY <1>1, <1>2
  <2>2. FlattenSeq([i \in 1..last |-> b[i]]) = j[last]
    BY ONLY <1>1, <1>4, <2>1, FlattenIsJoined
  <2>3. FlattenSeq(b) = j[last]
    BY ONLY <1>3, <2>2
  <2> QED
    BY ONLY <1>3, <2>3 DEF flat
<1> HIDE DEF flat
<1>6. flat \in Text
  <2>1. last \in 0..last /\ \A i \in 1..last : b[i] \in Text
    BY <1>1, <1>2
  <2>2. \A k \in 0..last : j[k] \in Text
    BY ONLY <1>1, <1>4, <2>1, JoinedTexts
  <2> QED
    BY <1>5, <2>1, <2>2
<1>7. ASSUME NEW buf, NEW pos, Written(buf, pos, flat)
      PROVE  ReadPairs(buf, pos, n) = Ok(0, pos + Len(flat))
  <2>1. PICK at : LaidOut(at, buf, b, last) /\ at[0] = pos /\ at[last] = pos + Len(j[last])
    <3>1. Written(buf, pos, j[last]) /\ \A i \in 1..last : b[i] \in Text
      BY <1>2, <1>5, <1>7
    <3> QED
      BY ONLY <1>1, <1>4, <3>1, PiecesAt
  <2>2. /\ at \in [0..last -> Nat]
        /\ \A k \in 1..last : Written(buf, at[k - 1], b[k]) /\ at[k] = at[k - 1] + Len(b[k])
    BY <2>1 DEF LaidOut
  <2> DEFINE step == [k \in 0..n |-> at[2 * k]]
  <2>3. step \in [0..n -> Nat] /\ step[0] = at[0] /\ step[n] = at[last] /\ \A k \in 0..n : step[k] = at[2 * k]
    <3>1. \A k \in 0..n : 2 * k \in 0..last
      BY DEF last
    <3>2. \A k \in 0..n : at[2 * k] \in Nat
      BY <2>2, <3>1
    <3>3. 0 \in 0..n /\ n \in 0..n /\ 2 * 0 = 0 /\ 2 * n = last
      BY DEF last
    <3> QED
      BY <3>2, <3>3
  <2> HIDE DEF step
  <2>4. \A k \in 0..(n - 1) : \E value : ReadPair(buf, step[k]) = Ok(value, step[k + 1])
    <3> SUFFICES ASSUME NEW k \in 0..(n - 1)
                 PROVE  \E value : ReadPair(buf, step[k]) = Ok(value, step[k + 1])
      OBVIOUS
    <3> DEFINE i == 2 * k + 1
               h == 2 * k + 2
    <3>1. i \in 1..last /\ h \in 1..last /\ i - 1 = 2 * k /\ h - 1 = i /\ h = 2 * (k + 1) /\ k \in 0..n /\ k + 1 \in 0..n
      BY DEF last
    <3>2. step[k] = at[2 * k] /\ step[k + 1] = at[2 * (k + 1)]
      BY <2>3, <3>1
    <3> HIDE DEF i, h
    <3>3. /\ Written(buf, at[i - 1], String(texts[i])) /\ at[i] = at[i - 1] + Len(String(texts[i]))
          /\ Written(buf, at[h - 1], String(texts[h])) /\ at[h] = at[h - 1] + Len(String(texts[h]))
      BY <1>2, <2>2, <3>1
    <3>4. /\ Written(buf, step[k], String(texts[i])) /\ at[i] = step[k] + Len(String(texts[i]))
          /\ Written(buf, at[i], String(texts[h])) /\ step[k + 1] = at[i] + Len(String(texts[h]))
      BY <3>1, <3>2, <3>3
    <3>5. texts[i] \in Text /\ Len(texts[i]) \in Half /\ texts[h] \in Text /\ Len(texts[h]) \in Half
      BY <1>1, <3>1
    <3>6. ReadPair(buf, step[k]) = Ok(texts[h], step[k + 1])
      BY ONLY <3>4, <3>5, PairRead
    <3> QED
      BY <3>6
  <2>5. Leads(PairIn(buf), BehindPair(buf), step, n)
    <3> SUFFICES ASSUME NEW k \in 0..(n - 1)
                 PROVE  /\ PairIn(buf)[Round(n - k, step[k])].is = "ok"
                        /\ BehindPair(buf)[Round(n - k, step[k])] = Round(n - k - 1, step[k + 1])
      BY <2>3 DEF Leads
    <3> DEFINE x == Round(n - k, step[k])
    <3>1. PICK value : ReadPair(buf, step[k]) = Ok(value, step[k + 1])
      BY <2>4
    <3>2. x \in Rounds /\ x.left = n - k /\ x.pos = step[k]
      <4>1. step[k] \in Nat /\ n - k \in Nat
        BY <2>3
      <4> QED
        BY <4>1 DEF Round, Rounds
    <3> HIDE DEF x
    <3>3. PairIn(buf)[x].is = "ok" /\ BehindPair(buf)[x] = Round(n - k - 1, step[k + 1])
      BY <3>1, <3>2 DEF PairIn, BehindPair, Ok
    <3> QED
      BY <3>3 DEF x
  <2>6. PICK f : /\ Loops(f, PairIn(buf), BehindPair(buf))
                 /\ ReadPairs(buf, pos, n) = f[Round(Max({0, n}), pos)]
    <3>1. buf \in Text
      BY <1>7 DEF Written
    <3> QED
      BY <3>1, ReadPairsIs
  <2>7. Max({0, n}) = n
    <3>1. {0, n} \in SUBSET (0..n) /\ {0, n} # {}
      OBVIOUS
    <3>2. Max({0, n}) \in {0, n} /\ \A i \in {0, n} : i <= Max({0, n})
      BY <3>1, MaxOfSet
    <3> QED
      BY <3>2
  <2>8. f[Round(n, step[0])] = Ok(0, step[n])
    <3>1. n \in Nat /\ Loops(f, PairIn(buf), BehindPair(buf))
      BY <2>6
    <3> QED
      BY ONLY <2>5, <3>1, RoundsRun, Zenon
  <2> QED
    BY <1>5, <2>1, <2>3, <2>6, <2>7, <2>8
<1> QED
  BY <1>6, <1>7 DEF flat

\* ... and so is the MDC they are in.
LEMMA MdcRead ==
  ASSUME NEW desc, NEW v, FoundAs("prolog", desc, v), NEW texts \in MdcTexts
  PROVE  FoundAs("mdc", Mdc(desc, texts), <<TC_ENDBLOCKDATA>>)
<1> DEFINE flat == FlattenSeq([i \in DOMAIN texts |-> String(texts[i])])
           end == <<TC_ENDBLOCKDATA>>
           b == <<Object(desc), HashHeader, Int4(Len(texts) \div 2), flat, end>>
<1>1. PICK n \in Nat : Len(texts) = 2 * n /\ n \in SignedWord
  BY DEF MdcTexts
<1>2. Len(texts) \div 2 = n /\ n \in SignedWord
  <2> DEFINE len == Len(texts)
  <2>1. len = 2 * n
    BY <1>1
  <2> HIDE DEF len
  <2>2. len \div 2 = n
    BY <2>1
  <2> QED
    BY <1>1, <2>2 DEF len
<1>3. /\ b[1] = Object(desc) /\ b[2] = HashHeader /\ b[3] = Int4(n) /\ b[4] = flat /\ b[5] = end
  BY <1>2
<1>4. Mdc(desc, texts) = Object(desc) \o HashHeader \o Int4(n) \o flat \o end
  BY <1>2, Zenon DEF Mdc
<1>5. flat \in Text /\ \A buf, pos : Written(buf, pos, flat) => ReadPairs(buf, pos, n) = Ok(0, pos + Len(flat))
  BY <1>1, PairsRead
<1>6. HashHeader \in Text /\ end \in Text
  BY DEF HashHeader, Text, Byte, TC_BLOCKDATA, TC_ENDBLOCKDATA
<1>7. PICK j : Joins(j, b, 5)
  BY JoinerExists
<1> HIDE DEF b, flat, end
<1>8. \A k \in 1..5 : b[k] \in Text
  <2>1. b[1] \in Text /\ b[2] \in Text /\ b[3] \in Text /\ b[4] \in Text /\ b[5] \in Text
    BY <1>2, <1>3, <1>5, <1>6, ObjectWritten, SignedOfInt
  <2>2. \A k \in 1..5 : k \in {1, 2, 3, 4, 5}
    OBVIOUS
  <2> QED
    BY <2>1, <2>2
<1>9. j[5] = Mdc(desc, texts)
  <2>1. j[1] = b[1] /\ \A k \in 2..5 : Consists(j[k], j[k - 1], b[k])
    <3>1. 5 \in Nat /\ 5 > 0
      OBVIOUS
    <3> QED
      BY ONLY <1>7, <1>8, <3>1, JoinedFirst
  <2>2. /\ 2 \in 2..5 /\ 3 \in 2..5 /\ 4 \in 2..5 /\ 5 \in 2..5
        /\ 2 - 1 = 1 /\ 3 - 1 = 2 /\ 4 - 1 = 3 /\ 5 - 1 = 4
    OBVIOUS
  <2>3. /\ j[2] = j[1] \o b[2] /\ j[3] = j[2] \o b[3] /\ j[4] = j[3] \o b[4] /\ j[5] = j[4] \o b[5]
    BY <2>1, <2>2, Zenon DEF Consists
  <2>4. j[5] = b[1] \o b[2] \o b[3] \o b[4] \o b[5]
    BY ONLY <2>1, <2>3
  <2> QED
    BY ONLY <1>3, <1>4, <2>4
<1>10. ASSUME NEW buf, NEW pos, Written(buf, pos, j[5])
       PROVE  ReadMDC(buf, pos) = Ok(end, pos + Len(j[5]))
  <2>1. PICK at : LaidOut(at, buf, b, 5) /\ at[0] = pos /\ at[5] = pos + Len(j[5])
    <3>1. 5 \in Nat
      OBVIOUS
    <3> QED
      BY ONLY <1>7, <1>8, <1>10, <3>1, PiecesAt
  <2>2. /\ Written(buf, pos, Object(desc)) /\ at[1] = pos + Len(Object(desc))
        /\ Written(buf, at[1], HashHeader) /\ at[2] = at[1] + Len(HashHeader)
        /\ Written(buf, at[2], Int4(n)) /\ at[3] = at[2] + Len(Int4(n))
        /\ Written(buf, at[3], flat) /\ at[4] = at[3] + Len(flat)
        /\ Written(buf, at[4], end) /\ at[5] = at[4] + Len(end)
    <3>1. \A k \in 1..5 : Written(buf, at[k - 1], b[k]) /\ at[k] = at[k - 1] + Len(b[k])
      BY <2>1 DEF LaidOut
    <3>2. /\ 1 \in 1..5 /\ 2 \in 1..5 /\ 3 \in 1..5 /\ 4 \in 1..5 /\ 5 \in 1..5
          /\ 1 - 1 = 0 /\ 2 - 1 = 1 /\ 3 - 1 = 2 /\ 4 - 1 = 3 /\ 5 - 1 = 4
      OBVIOUS
    <3>3. /\ Written(buf, at[0], b[1]) /\ at[1] = at[0] + Len(b[1])
          /\ Written(buf, at[1], b[2]) /\ at[2] = at[1] + Len(b[2])
          /\ Written(buf, at[2], b[3]) /\ at[3] = at[2] + Len(b[3])
          /\ Written(buf, at[3], b[4]) /\ at[4] = at[3] + Len(b[4])
          /\ Written(buf, at[4], b[5]) /\ at[5] = at[4] + Len(b[5])
      BY <3>1, <3>2, Zenon
    <3> QED
      BY ONLY <1>3, <2>1, <3>3
  <2>3. ReadByte(buf, pos) = Ok(TC_OBJECT, pos + 1) /\ ReadProlog(buf, pos + 1) = Ok(v, at[1])
    BY <2>2, ObjectWritten
  <2>4. ReadConstant(buf, at[1], HashHeader) = Ok(HashHeader, at[2])
    BY <2>2, WrittenConstant
  <2>5. ReadInt(buf, at[2]) = Ok(n, at[3])
    <3>1. Len(Int4(n)) = 4
      BY <1>2, SignedOfInt
    <3>2. ReadInt(buf, at[2]) = Ok(n, at[2] + 4)
      BY <1>2, <2>2, WrittenNumbers
    <3> QED
      BY <2>2, <3>1, <3>2
  <2>6. ReadPairs(buf, at[3], n) = Ok(0, at[4])
    BY <1>5, <2>2
  <2>7. ReadConstant(buf, at[4], end) = Ok(end, at[5])
    BY <2>2, WrittenConstant
  <2>8. ReadMap(buf, at[2]) = Ok(end, at[5])
    BY <2>5, <2>6, <2>7, SMTT(30) DEF ReadMap, Then, Ok, end
  <2>9. ReadHashtable(buf, pos + 1) = Ok(end, at[5])
    BY <2>3, <2>4, <2>8, SMTT(30) DEF ReadHashtable, Then, Ok
  <2>10. ReadMDC(buf, pos) = Ok(end, at[5])
    BY <2>3, <2>9, SMTT(30) DEF ReadMDC, Then, Ok, TC_NULL, TC_OBJECT
  <2> QED
    BY <2>1, <2>10
<1>11. j[5] \in Text
  <2>1. 5 \in Nat /\ 5 \in 0..5
    OBVIOUS
  <2> QED
    BY ONLY <1>7, <1>8, <2>1, JoinedTexts
<1>12. \A buf, pos : ReadField(buf, pos, "mdc") = ReadMDC(buf, pos)
  BY DEF ReadField
<1>13. FoundAs("mdc", j[5], end)
  BY <1>10, <1>11, <1>12 DEF FoundAs
<1> QED
  BY <1>9, <1>13 DEF end

\* The constants between the fields.
LEMMA ConstantsRead ==
  /\ FoundAs("object", <<TC_OBJECT>>, TC_OBJECT)
  /\ FoundAs("lookupsRequired", <<0, 0>>, <<0, 0>>)
  /\ FoundAs("blockData", <<TC_BLOCKDATA>>, <<TC_BLOCKDATA>>)
  /\ FoundAs("blockLength", <<4>>, <<4>>)
  /\ FoundAs("end", <<TC_ENDBLOCKDATA>>, <<TC_ENDBLOCKDATA>>)
<1>1. ASSUME NEW field, NEW t \in Text, \A buf, pos : ReadField(buf, pos, field) = ReadConstant(buf, pos, t)
      PROVE  FoundAs(field, t, t)
  BY <1>1, WrittenConstant DEF FoundAs
<1>2. /\ <<0, 0>> \in Text /\ <<TC_BLOCKDATA>> \in Text /\ <<4>> \in Text /\ <<TC_ENDBLOCKDATA>> \in Text
  BY DEF Text, Byte, TC_BLOCKDATA, TC_ENDBLOCKDATA
<1>3. \A buf, pos : /\ ReadField(buf, pos, "lookupsRequired") = ReadConstant(buf, pos, <<0, 0>>)
                    /\ ReadField(buf, pos, "blockData") = ReadConstant(buf, pos, <<TC_BLOCKDATA>>)
                    /\ ReadField(buf, pos, "blockLength") = ReadConstant(buf, pos, <<4>>)
                    /\ ReadField(buf, pos, "end") = ReadConstant(buf, pos, <<TC_ENDBLOCKDATA>>)
                    /\ ReadField(buf, pos, "object") = ReadObjectCode(buf, pos)
  BY DEF ReadField
<1>4. FoundAs("lookupsRequired", <<0, 0>>, <<0, 0>>)
  BY <1>1, <1>2, <1>3
<1>5. FoundAs("blockData", <<TC_BLOCKDATA>>, <<TC_BLOCKDATA>>)
  BY <1>1, <1>2, <1>3
<1>6. FoundAs("blockLength", <<4>>, <<4>>)
  BY <1>1, <1>2, <1>3
<1>7. FoundAs("end", <<TC_ENDBLOCKDATA>>, <<TC_ENDBLOCKDATA>>)
  BY <1>1, <1>2, <1>3
<1>8. FoundAs("object", <<TC_OBJECT>>, TC_OBJECT)
  <2> DEFINE t == <<TC_OBJECT>>
  <2>1. t \in Text /\ Len(t) = 1 /\ t[1] = TC_OBJECT
    BY DEF Text, Byte, TC_OBJECT
  <2> HIDE DEF t
  <2>2. ASSUME NEW buf, NEW pos, Written(buf, pos, t)
        PROVE  ReadField(buf, pos, "object") = Ok(TC_OBJECT, pos + Len(t))
    <3>1. ReadByte(buf, pos) = Ok(TC_OBJECT, pos + 1)
      BY <2>1, <2>2, WrittenCode
    <3>2. ReadObjectCode(buf, pos) = Ok(TC_OBJECT, pos + 1)
      BY <3>1, SMT DEF ReadObjectCode, Then, Ok, TC_OBJECT, TC_RESET
    <3> QED
      BY <1>3, <2>1, <3>2
  <2>3. FoundAs("object", t, TC_OBJECT)
    BY <2>1, <2>2 DEF FoundAs
  <2> QED
    BY <2>3 DEF t
<1> QED
  BY <1>4, <1>5, <1>6, <1>7, <1>8

-----------------------------------------------------------------------------
\* Two bytes behind a text, at once or one by one.
LEMMA TwoBytes ==
  ASSUME NEW t \in Text, NEW a \in Byte, NEW b \in Byte
  PROVE  (t \o <<a>>) \o <<b>> = t \o <<a, b>>
<1> DEFINE x == <<a>>
           y == <<b>>
<1>1. x \in Seq(Byte) /\ y \in Seq(Byte) /\ t \in Seq(Byte)
  BY DEF Text
<1>2. x \o y = <<a, b>>
  <2> DEFINE both == <<a, b>>
             u == x \o y
  <2>1. /\ both \in Seq(Byte) /\ Len(both) = 2 /\ both[1] = a /\ both[2] = b
        /\ x \in Text /\ y \in Text /\ Len(x) = 1 /\ Len(y) = 1 /\ x[1] = a /\ y[1] = b
    BY DEF Text
  <2> HIDE DEF x, y, both
  <2>2. u \in Text /\ MadeOf(u, x, y)
    BY <2>1, Concatenated
  <2> HIDE DEF u
  <2>3. u \in Seq(Byte) /\ Len(u) = 2 /\ u[1] = a /\ u[1 + 1] = b
    BY <2>1, <2>2 DEF MadeOf, Text
  <2>4. \A i \in 1..Len(u) : u[i] = both[i]
    <3>1. \A i \in 1..Len(u) : i = 1 \/ i = 2
      BY <2>3
    <3> QED
      BY <2>1, <2>3, <3>1
  <2>5. u = both
    BY <2>1, <2>3, <2>4, SeqEqual
  <2> QED
    BY <2>5 DEF u, both
<1> HIDE DEF x, y
<1>3. (t \o x) \o y = t \o (x \o y)
  BY <1>1, ConcatAssociative
<1> QED
  BY <1>2, <1>3 DEF x, y

\* An event whose numbers fit their widths, and whose texts' lengths do.
DefaultEvents ==
  {e \in [name : Text, level : SignedWord, msg : Text, time : Nat,
          thread : Text, path : Text, func : Text, line : Text] :
     /\ e.time \div 1000 \in Word
     /\ \A f \in {"name", "msg", "thread"} : Len(e[f]) \in Half}

\* What a decoder of the default protocol is to make of it: the time is in
\* milliseconds, and where the program logs is found in the text of the location.
MeantWith(e, info) ==
  [name |-> e.name, level |-> ToLevel(e.level), msg |-> e.msg, time |-> 1000 * (e.time \div 1000),
   thread |-> e.thread, path |-> FileName(info), func |-> MethodName(info), line |-> LineNumber(info)]

\* The fields of an event that the default protocol can carry.
LEMMA DefaultParts ==
  ASSUME NEW e \in DefaultEvents
  PROVE  /\ e.name \in Text /\ e.msg \in Text /\ e.thread \in Text /\ e.path \in Text /\ e.func \in Text /\ e.line \in Text
         /\ Len(e.name) \in Half /\ Len(e.msg) \in Half /\ Len(e.thread) \in Half
         /\ e.level \in SignedWord /\ e.time \div 1000 \in Word
<1>1. /\ e \in [name : Text, level : SignedWord, msg : Text, time : Nat,
                 thread : Text, path : Text, func : Text, line : Text]
      /\ e.time \div 1000 \in Word
      /\ \A f \in {"name", "msg", "thread"} : Len(e[f]) \in Half
  BY DEF DefaultEvents
<1>2. Len(e["name"]) \in Half /\ Len(e["msg"]) \in Half /\ Len(e["thread"]) \in Half
  BY <1>1
<1> QED
  BY <1>1, <1>2

\* Its fields, each by itself, ...
LEMMA DefaultFieldsRead ==
  ASSUME NEW e \in DefaultEvents
  PROVE  /\ FoundAs("timeStamp", Long(e.time \div 1000), e.time \div 1000)
         /\ FoundAs("level", Int4(e.level), e.level)
         /\ FoundAs("logger", String(e.name), e.name)
         /\ FoundAs("message", String(e.msg), e.msg)
         /\ FoundAs("threadName", String(e.thread), e.thread)
<1> DEFINE time == e.time \div 1000
<1>1. /\ e.name \in Text /\ e.msg \in Text /\ e.thread \in Text
      /\ Len(e.name) \in Half /\ Len(e.msg) \in Half /\ Len(e.thread) \in Half
      /\ e.level \in SignedWord /\ time \in Word
  BY DefaultParts
<1> HIDE DEF time
<1>2. \A buf, pos : /\ ReadField(buf, pos, "timeStamp") = ReadLong(buf, pos)
                    /\ ReadField(buf, pos, "level") = ReadInt(buf, pos)
                    /\ ReadField(buf, pos, "logger") = ReadString(buf, pos)
                    /\ ReadField(buf, pos, "message") = ReadString(buf, pos)
                    /\ ReadField(buf, pos, "threadName") = ReadString(buf, pos)
  BY DEF ReadField
<1>3. FoundAs("timeStamp", Long(time), time)
  <2>1. Long(time) \in Text /\ Len(Long(time)) = 8
    BY <1>1, SignedOfLong
  <2>2. ASSUME NEW buf, NEW pos, Written(buf, pos, Long(time))
        PROVE  ReadField(buf, pos, "timeStamp") = Ok(time, pos + Len(Long(time)))
    BY <1>1, <1>2, <2>1, <2>2, WrittenNumbers
  <2> QED
    BY <2>1, <2>2 DEF FoundAs
<1>4. FoundAs("level", Int4(e.level), e.level)
  <2>1. Int4(e.level) \in Text /\ Len(Int4(e.level)) = 4
    BY <1>1, SignedOfInt
  <2>2. ASSUME NEW buf, NEW pos, Written(buf, pos, Int4(e.level))
        PROVE  ReadField(buf, pos, "level") = Ok(e.level, pos + Len(Int4(e.level)))
    BY <1>1, <1>2, <2>1, <2>2, WrittenNumbers
  <2> QED
    BY <2>1, <2>2 DEF FoundAs
<1>5. \A t \in Text : Len(t) \in Half => /\ FoundAs("logger", String(t), t)
                                         /\ FoundAs("message", String(t), t)
                                         /\ FoundAs("threadName", String(t), t)
  BY <1>2, WrittenString DEF FoundAs
<1> QED
  BY <1>1, <1>3, <1>4, <1>5 DEF time

\* ... and all of them, of an event in 16 pieces, whose first one is front.
Pieces(b, e, front, desc, location, mdc, ndc) ==
  /\ b[1] = front /\ b[2] = desc /\ b[3] = <<0, 0>> /\ b[4] = Long(e.time \div 1000) /\ b[5] = String(e.name)
  /\ b[6] = location /\ b[7] = mdc /\ b[8] = ndc /\ b[9] = String(e.msg) /\ b[10] = String(e.thread)
  /\ b[11] = Null /\ b[12] = <<TC_BLOCKDATA>> /\ b[13] = <<4>> /\ b[14] = Int4(e.level) /\ b[15] = Null
  /\ b[16] = <<TC_ENDBLOCKDATA>>

\* An event of the default protocol is written in sixteen pieces.
LEMMA PiecesAre ==
  ASSUME NEW e, NEW front, NEW desc, NEW location, NEW mdc, NEW ndc
  PROVE  \E b : Pieces(b, e, front, desc, location, mdc, ndc)
<1> DEFINE b == <<front, desc, <<0, 0>>, Long(e.time \div 1000), String(e.name), location, mdc, ndc,
                  String(e.msg), String(e.thread), Null, <<TC_BLOCKDATA>>, <<4>>, Int4(e.level), Null,
                  <<TC_ENDBLOCKDATA>>>>
<1>1. Pieces(b, e, front, desc, location, mdc, ndc)
  BY DEF Pieces
<1> QED
  BY <1>1

\* They make what DefaultBytes is.
LEMMA DefaultLaidOut ==
  ASSUME NEW e, NEW desc, NEW location, NEW mdc, NEW ndc, NEW b, NEW j, Joins(j, b, 16), \A k \in 1..16 : b[k] \in Text,
         Pieces(b, e, <<TC_OBJECT>>, desc, location, mdc, ndc)
  PROVE  j[16] = DefaultBytes(e, desc, location, mdc, ndc, Null)
<1>1. Joins(j, b, 16)
  OBVIOUS
<1>2. \A k \in 1..16 : b[k] \in Text
  OBVIOUS
<1>3. /\ b[1] = <<TC_OBJECT>> /\ b[2] = desc /\ b[3] = <<0, 0>> /\ b[4] = Long(e.time \div 1000) /\ b[5] = String(e.name)
      /\ b[6] = location /\ b[7] = mdc /\ b[8] = ndc /\ b[9] = String(e.msg) /\ b[10] = String(e.thread)
      /\ b[11] = Null /\ b[12] = <<TC_BLOCKDATA>> /\ b[13] = <<4>> /\ b[14] = Int4(e.level) /\ b[15] = Null
      /\ b[16] = <<TC_ENDBLOCKDATA>>
  BY DEF Pieces
<1>4. j[1] = b[1] /\ \A k \in 2..16 : Consists(j[k], j[k - 1], b[k])
  <2>1. 16 \in Nat /\ 16 > 0
    OBVIOUS
  <2>2. \A n \in Nat : n > 0 /\ Joins(j, b, n) /\ (\A k \in 1..n : b[k] \in Text)
                      => j[1] = b[1] /\ \A k \in 2..n : Consists(j[k], j[k - 1], b[k])
    BY ONLY JoinedFirst
  <2> QED
    BY ONLY <1>1, <1>2, <2>1, <2>2, Zenon
<1>5. j[11] \in Text /\ j[14] \in Text
  <2>1. 16 \in Nat /\ 11 \in 0..16 /\ 14 \in 0..16
    OBVIOUS
  <2>2. \A k \in 0..16 : j[k] \in Text
    BY ONLY <1>1, <1>2, <2>1, JoinedTexts
  <2> QED
    BY ONLY <2>1, <2>2
<1>6. j[8] = b[1] \o b[2] \o b[3] \o b[4] \o b[5] \o b[6] \o b[7] \o b[8]
  <2>1. /\ 2 \in 2..16 /\ 3 \in 2..16 /\ 4 \in 2..16 /\ 5 \in 2..16 /\ 6 \in 2..16 /\ 7 \in 2..16 /\ 8 \in 2..16
        /\ 2 - 1 = 1 /\ 3 - 1 = 2 /\ 4 - 1 = 3 /\ 5 - 1 = 4 /\ 6 - 1 = 5 /\ 7 - 1 = 6 /\ 8 - 1 = 7
    OBVIOUS
  <2>2. /\ j[2] = j[1] \o b[2] /\ j[3] = j[2] \o b[3] /\ j[4] = j[3] \o b[4] /\ j[5] = j[4] \o b[5]
        /\ j[6] = j[5] \o b[6] /\ j[7] = j[6] \o b[7] /\ j[8] = j[7] \o b[8]
    BY <1>4, <2>1, Zenon DEF Consists
  <2> QED
    BY ONLY <1>4, <2>2, Zenon
<1>7. /\ j[9] = j[8] \o b[9] /\ j[10] = j[9] \o b[10] /\ j[11] = j[10] \o b[11]
      /\ j[12] = j[11] \o b[12] /\ j[13] = j[12] \o b[13] /\ j[14] = j[13] \o b[14]
      /\ j[15] = j[14] \o b[15] /\ j[16] = j[15] \o b[16]
  <2>1. /\ 9 \in 2..16 /\ 10 \in 2..16 /\ 11 \in 2..16 /\ 12 \in 2..16 /\ 13 \in 2..16 /\ 14 \in 2..16
        /\ 15 \in 2..16 /\ 16 \in 2..16
        /\ 9 - 1 = 8 /\ 10 - 1 = 9 /\ 11 - 1 = 10 /\ 12 - 1 = 11 /\ 13 - 1 = 12 /\ 14 - 1 = 13
        /\ 15 - 1 = 14 /\ 16 - 1 = 15
    OBVIOUS
  <2> QED
    BY <1>4, <2>1, Zenon DEF Consists
<1>8. j[13] = j[11] \o <<TC_BLOCKDATA, 4>>
  <2>1. TC_BLOCKDATA \in Byte /\ 4 \in Byte
    BY DEF Byte, TC_BLOCKDATA
  <2>2. (j[11] \o <<TC_BLOCKDATA>>) \o <<4>> = j[11] \o <<TC_BLOCKDATA, 4>>
    BY <1>5, <2>1, TwoBytes
  <2>3. b[12] = <<TC_BLOCKDATA>> /\ b[13] = <<4>> /\ j[12] = j[11] \o b[12] /\ j[13] = j[12] \o b[13]
    BY ONLY <1>3, <1>7, Zenon
  <2> QED
    BY ONLY <2>2, <2>3, Zenon
<1>9. j[16] = j[14] \o <<TC_NULL, TC_ENDBLOCKDATA>>
  <2>1. TC_NULL \in Byte /\ TC_ENDBLOCKDATA \in Byte
    BY DEF Byte, TC_NULL, TC_ENDBLOCKDATA
  <2>2. (j[14] \o <<TC_NULL>>) \o <<TC_ENDBLOCKDATA>> = j[14] \o <<TC_NULL, TC_ENDBLOCKDATA>>
    BY <1>5, <2>1, TwoBytes
  <2>3. b[15] = Null /\ b[16] = <<TC_ENDBLOCKDATA>> /\ j[15] = j[14] \o b[15] /\ j[16] = j[15] \o b[16]
    BY ONLY <1>3, <1>7, Zenon
  <2> QED
    BY ONLY <2>2, <2>3, Zenon DEF Null
<1>10. j[16] = b[1] \o b[2] \o b[3] \o b[4] \o b[5] \o b[6] \o b[7] \o b[8] \o b[9] \o b[10] \o b[11]
                \o <<TC_BLOCKDATA, 4>> \o b[14] \o <<TC_NULL, TC_ENDBLOCKDATA>>
  BY ONLY <1>6, <1>7, <1>8, <1>9
<1> QED
  BY ONLY <1>10, <1>3 DEF DefaultBytes, Object

\* The decoder reads an event back from its pieces, whoever has written them.
LEMMA PiecesRead ==
  ASSUME NEW e \in DefaultEvents, NEW front, NEW desc, NEW location, NEW mdc, NEW ndc,
         NEW code, FoundAs("object", front, code), NEW class, FoundAs("prolog", desc, class),
         NEW info, FoundAs("fullInfo", location, info), NEW map, FoundAs("mdc", mdc, map),
         NEW context, FoundAs("ndc", ndc, context),
         NEW b, NEW j, Pieces(b, e, front, desc, location, mdc, ndc), Joins(j, b, 16)
  PROVE  /\ \A k \in 1..16 : b[k] \in Text
         /\ j[16] # <<>>
         /\ createLoggingEvent(j[16], "default") = Ok(MeantWith(e, info), Len(j[16]))
<1> DEFINE buf == j[16]
           fields == Fields("default")
           time == e.time \div 1000
           v == [object |-> code, prolog |-> class, lookupsRequired |-> <<0, 0>>, timeStamp |-> time,
                 logger |-> e.name, fullInfo |-> info, mdc |-> map, ndc |-> context, message |-> e.msg,
                 threadName |-> e.thread, null |-> Null, blockData |-> <<TC_BLOCKDATA>>, blockLength |-> <<4>>,
                 level |-> e.level, end |-> <<TC_ENDBLOCKDATA>>]
<1>1. /\ b[1] = front /\ b[2] = desc /\ b[3] = <<0, 0>> /\ b[4] = Long(time) /\ b[5] = String(e.name)
      /\ b[6] = location /\ b[7] = mdc /\ b[8] = ndc /\ b[9] = String(e.msg) /\ b[10] = String(e.thread)
      /\ b[11] = Null /\ b[12] = <<TC_BLOCKDATA>> /\ b[13] = <<4>> /\ b[14] = Int4(e.level) /\ b[15] = Null
      /\ b[16] = <<TC_ENDBLOCKDATA>>
  BY DEF Pieces
<1>2. /\ fields[1] = "object" /\ fields[2] = "prolog" /\ fields[3] = "lookupsRequired" /\ fields[4] = "timeStamp"
      /\ fields[5] = "logger" /\ fields[6] = "fullInfo" /\ fields[7] = "mdc" /\ fields[8] = "ndc"
      /\ fields[9] = "message" /\ fields[10] = "threadName" /\ fields[11] = "null" /\ fields[12] = "blockData"
      /\ fields[13] = "blockLength" /\ fields[14] = "level" /\ fields[15] = "null" /\ fields[16] = "end"
      /\ Len(fields) = 16
  BY DEF Fields
<1>3. /\ v["object"] = code /\ v["prolog"] = class /\ v["lookupsRequired"] = <<0, 0>> /\ v["timeStamp"] = time
      /\ v["logger"] = e.name /\ v["fullInfo"] = info /\ v["mdc"] = map /\ v["ndc"] = context
      /\ v["message"] = e.msg /\ v["threadName"] = e.thread /\ v["null"] = Null /\ v["blockData"] = <<TC_BLOCKDATA>>
      /\ v["blockLength"] = <<4>> /\ v["level"] = e.level /\ v["end"] = <<TC_ENDBLOCKDATA>>
  OBVIOUS
<1>4. Joins(j, b, 16)
  OBVIOUS
<1> HIDE DEF fields, v, time
<1>5. \A k \in 1..16 : FoundAs(fields[k], b[k], v[fields[k]])
  <2>1. /\ FoundAs(fields[3], b[3], v[fields[3]])
        /\ FoundAs(fields[12], b[12], v[fields[12]]) /\ FoundAs(fields[13], b[13], v[fields[13]])
        /\ FoundAs(fields[16], b[16], v[fields[16]])
    BY ONLY <1>1, <1>2, <1>3, ConstantsRead
  <2>2. FoundAs(fields[11], b[11], v[fields[11]]) /\ FoundAs(fields[15], b[15], v[fields[15]])
    BY ONLY <1>1, <1>2, <1>3, NullRead
  <2>3. /\ FoundAs("prolog", desc, class) /\ FoundAs("fullInfo", location, info)
        /\ FoundAs("mdc", mdc, map) /\ FoundAs("ndc", ndc, context) /\ FoundAs("object", front, code)
    OBVIOUS
  <2>4. /\ FoundAs(fields[1], b[1], v[fields[1]])
        /\ FoundAs(fields[2], b[2], v[fields[2]]) /\ FoundAs(fields[6], b[6], v[fields[6]])
        /\ FoundAs(fields[7], b[7], v[fields[7]]) /\ FoundAs(fields[8], b[8], v[fields[8]])
    BY ONLY <1>1, <1>2, <1>3, <2>3
  <2>5. /\ FoundAs("timeStamp", Long(time), time) /\ FoundAs("level", Int4(e.level), e.level)
        /\ FoundAs("logger", String(e.name), e.name) /\ FoundAs("message", String(e.msg), e.msg)
        /\ FoundAs("threadName", String(e.thread), e.thread)
    BY DefaultFieldsRead DEF time
  <2>6. /\ FoundAs(fields[4], b[4], v[fields[4]]) /\ FoundAs(fields[5], b[5], v[fields[5]])
        /\ FoundAs(fields[9], b[9], v[fields[9]]) /\ FoundAs(fields[10], b[10], v[fields[10]])
        /\ FoundAs(fields[14], b[14], v[fields[14]])
    BY ONLY <1>1, <1>2, <1>3, <2>5
  <2>7. \A k \in 1..16 : k \in {1, 2, 3, 4, 5, 6, 7, 8, 9, 10, 11, 12, 13, 14, 15, 16}
    OBVIOUS
  <2> QED
    BY ONLY <2>1, <2>2, <2>4, <2>6, <2>7
<1>6. \A k \in 1..16 : b[k] \in Text
  BY ONLY <1>5 DEF FoundAs
<1>7. j[16] = buf
  OBVIOUS
<1> HIDE DEF buf
<1>8. j[16] \in Text /\ Gathered(ReadFields(buf, "default"), v, {fields[k] : k \in 1..16}, Len(buf))
  <2>1. /\ 16 \in Nat /\ Len(Fields("default")) = 16
        /\ \A k \in 1..16 : FoundAs(Fields("default")[k], b[k], v[Fields("default")[k]])
    BY <1>2, <1>5 DEF fields
  <2>2. /\ j[16] \in Text
        /\ Gathered(ReadFields(j[16], "default"), v, {Fields("default")[k] : k \in 1..16}, Len(j[16]))
    BY ONLY <1>4, <2>1, FieldsInPlace
  <2> QED
    BY <1>7, <2>2 DEF fields
<1> DEFINE r == ReadFields(buf, "default")
           w == r.value
<1>9. DefaultEvent(w) = MeantWith(e, info) /\ r.is = "ok" /\ r.pos = Len(buf)
  <2>1. \A k \in 1..16 : w[fields[k]] = v[fields[k]]
    BY <1>8 DEF Gathered
  <2>2. /\ w.logger = e.name /\ w.level = e.level /\ w.message = e.msg /\ w.timeStamp = time
        /\ w.threadName = e.thread /\ w.fullInfo = info
    <3> HIDE DEF w
    <3>1. 4 \in 1..16 /\ 5 \in 1..16 /\ 6 \in 1..16 /\ 9 \in 1..16 /\ 10 \in 1..16 /\ 14 \in 1..16
      OBVIOUS
    <3> QED
      BY ONLY <1>2, <1>3, <2>1, <3>1
  <2>3. r.is = "ok" /\ r.pos = Len(buf)
    BY <1>8 DEF Gathered
  <2> HIDE DEF w
  <2> QED
    BY <2>2, <2>3 DEF DefaultEvent, MeantWith, time
<1>10. createLoggingEvent(buf, "default") = Ok(MeantWith(e, info), Len(buf))
  <2> HIDE DEF r
  <2>1. createLoggingEvent(buf, "default") = Ok(DefaultEvent(r.value), r.pos)
    BY <1>9, SMT DEF createLoggingEvent, Then, r
  <2> QED
    BY <1>9, <2>1
<1>11. buf # <<>>
  <2>1. buf \in Text
    BY <1>7, <1>8
  <2>2. Written(buf, 0, j[16])
    BY <1>7, <2>1, WrittenWhole
  <2>3. \A k \in 1..16 : Written(buf, 0 + Len(j[k - 1]), b[k])
    <3>1. 16 \in Nat
      OBVIOUS
    <3> QED
      BY ONLY <1>4, <1>6, <2>2, <3>1, PiecesWritten
  <2>4. Len(b[12]) = 1
    BY <1>1
  <2>5. \E pos \in Nat : pos + Len(b[12]) <= Len(buf)
    <3>1. Written(buf, 0 + Len(j[12 - 1]), b[12])
      BY <2>3
    <3> QED
      BY <3>1 DEF Written
  <2> QED
    BY <2>1, <2>4, <2>5, TextProps
<1> QED
  BY <1>6, <1>10, <1>11 DEF buf

\* What is put in front of the first piece stands in front of them all.
Fronted(b, c, n, front) ==
  /\ \A k \in 1..n : b[k] \in Text /\ c[k] \in Text
  /\ b[1] = front \o c[1]
  /\ \A k \in 2..n : b[k] = c[k]

\* What is written in front of the first piece stands in front of all of them.
LEMMA JoinsBehind ==
  ASSUME NEW n \in Nat, n > 0, NEW b, NEW c, NEW j, NEW i, Joins(j, b, n), Joins(i, c, n), NEW front \in Text,
         Fronted(b, c, n, front)
  PROVE  j[n] = front \o i[n]
<1>1. /\ \A k \in 1..n : b[k] \in Text /\ c[k] \in Text
      /\ b[1] = front \o c[1]
      /\ \A k \in 2..n : b[k] = c[k]
  BY DEF Fronted
<1>2. j[1] = b[1] /\ \A k \in 2..n : Consists(j[k], j[k - 1], b[k])
  <2>1. \A k \in 1..n : b[k] \in Text
    BY <1>1
  <2> QED
    BY <2>1, JoinedFirst
<1>3. i[1] = c[1] /\ \A k \in 2..n : Consists(i[k], i[k - 1], c[k])
  <2>1. \A k \in 1..n : c[k] \in Text
    BY <1>1
  <2> QED
    BY <2>1, JoinedFirst
<1>4. \A k \in 0..n : i[k] \in Text
  BY <1>1, JoinedTexts
<1> DEFINE S == {k \in Nat : k + 1 <= n => Consists(j[k + 1], front, i[k + 1])}
<1>5. 0 \in S
  <2>1. 0 + 1 = 1
    OBVIOUS
  <2> QED
    BY <1>1, <1>2, <1>3, <2>1 DEF Consists
<1>6. ASSUME NEW m \in Nat, m \in S
      PROVE  m + 1 \in S
  <2> SUFFICES ASSUME (m + 1) + 1 <= n
               PROVE  Consists(j[(m + 1) + 1], front, i[(m + 1) + 1])
    OBVIOUS
  <2> DEFINE k == (m + 1) + 1
             p == m + 1
  <2>1. k \in 2..n /\ k - 1 = p /\ p \in 0..n /\ k \in 1..n /\ Consists(j[p], front, i[p])
    BY <1>6
  <2> HIDE DEF k, p
  <2> DEFINE x == i[p]
             y == c[k]
  <2>2. Consists(j[k], j[p], y) /\ Consists(i[k], x, y)
    BY <1>1, <1>2, <1>3, <2>1
  <2>3. x \in Text /\ y \in Text
    BY <1>1, <1>4, <2>1
  <2> HIDE DEF x, y
  <2>4. j[k] = (front \o x) \o y /\ i[k] = x \o y
    BY <2>1, <2>2, Zenon DEF Consists, x
  <2>5. (front \o x) \o y = front \o (x \o y)
    <3>1. front \in Seq(Byte) /\ x \in Seq(Byte) /\ y \in Seq(Byte)
      BY <2>3 DEF Text
    <3> QED
      BY <3>1, ConcatAssociative
  <2>6. Consists(j[k], front, i[k])
    BY <2>4, <2>5 DEF Consists
  <2> QED
    BY <2>6 DEF k
<1> HIDE DEF S
<1>7. n - 1 \in S
  <2>1. n - 1 \in Nat
    OBVIOUS
  <2> QED
    BY <1>5, <1>6, <2>1, Induction
<1>8. Consists(j[n], front, i[n])
  <2>1. (n - 1) + 1 = n
    OBVIOUS
  <2> QED
    BY <1>7, <2>1 DEF S
<1> QED
  BY <1>8 DEF Consists

\* The code of an object behind a reset.
LEMMA ResetRead ==
  <<TC_RESET>> \in Text /\ FoundAs("object", <<TC_RESET>> \o <<TC_OBJECT>>, <<TC_OBJECT>>)
<1> DEFINE code == <<TC_OBJECT>>
           mark == <<TC_RESET>>
           t == mark \o code
<1>1. code \in Text /\ mark \in Text /\ Len(mark) = 1 /\ mark[1] = TC_RESET
  BY DEF Text, Byte, TC_OBJECT, TC_RESET
<1> HIDE DEF code, mark
<1>2. t \in Text /\ MadeOf(t, mark, code)
  BY <1>1, Concatenated
<1>3. ASSUME NEW buf, NEW pos, Written(buf, pos, t)
      PROVE  ReadField(buf, pos, "object") = Ok(code, pos + Len(t))
  <2>1. Written(buf, pos, mark) /\ Written(buf, pos + Len(mark), code) /\ Len(t) = Len(mark) + Len(code)
    <3>1. Written(buf, pos, mark \o code)
      BY <1>3
    <3>2. mark \in Text /\ code \in Text
      BY <1>1
    <3> QED
      BY ONLY <3>1, <3>2, BothWritten
  <2>2. pos \in Nat /\ Len(code) \in Nat
    BY <1>1, <2>1, TextProps DEF Written
  <2>3. ReadByte(buf, pos) = Ok(TC_RESET, pos + 1)
    BY <1>1, <2>1, WrittenCode
  <2>4. ReadConstant(buf, pos + 1, code) = Ok(code, (pos + 1) + Len(code))
    BY <1>1, <2>1, WrittenConstant
  <2>5. (pos + 1) + Len(code) = pos + Len(t)
    BY <1>1, <2>1, <2>2
  <2>6. ReadObjectCode(buf, pos) = Ok(code, pos + Len(t))
    <3> DEFINE end == pos + Len(t)
    <3>1. ReadConstant(buf, pos + 1, <<TC_OBJECT>>) = Ok(code, end)
      BY <2>4, <2>5 DEF code
    <3> HIDE DEF end, t
    <3>2. ReadObjectCode(buf, pos) = Ok(code, end)
      BY <2>3, <3>1, SMT DEF ReadObjectCode, Then, Ok, TC_OBJECT, TC_RESET
    <3> QED
      BY <3>2 DEF end
  <2> QED
    BY <2>6 DEF ReadField
<1>4. FoundAs("object", t, code)
  BY <1>2, <1>3 DEF FoundAs
<1> QED
  BY <1>1, <1>4 DEF t, code, mark

\* A decoder of the default protocol takes these bytes, all of them, for this event.
DecodesTo(bytes, event) ==
  bytes # <<>> /\ createLoggingEvent(bytes, "default") = Ok(event, Len(bytes))

\* A decoder of the default protocol reads an event back, with a reset in front of it and without.
LEMMA DefaultRead ==
  ASSUME NEW e \in DefaultEvents, NEW desc, NEW location, NEW mdc, NEW ndc,
         NEW class, FoundAs("prolog", desc, class), NEW info, FoundAs("fullInfo", location, info),
         NEW map, FoundAs("mdc", mdc, map), NEW context, FoundAs("ndc", ndc, context)
  PROVE  LET bytes == DefaultBytes(e, desc, location, mdc, ndc, Null) IN
         /\ DecodesTo(bytes, MeantWith(e, info))
         /\ DecodesTo(<<TC_RESET>> \o bytes, MeantWith(e, info))
<1> DEFINE plain == <<TC_OBJECT>>
           reset == <<TC_RESET>>
           front == reset \o plain
<1>1. reset \in Text /\ FoundAs("object", front, plain)
  BY ResetRead
<1>2. FoundAs("object", plain, TC_OBJECT)
  BY ConstantsRead
<1> HIDE DEF front, plain, reset
<1>3. PICK b, c : Pieces(b, e, front, desc, location, mdc, ndc) /\ Pieces(c, e, plain, desc, location, mdc, ndc)
  BY PiecesAre
<1>4. PICK j, i : Joins(j, b, 16) /\ Joins(i, c, 16)
  <2>1. 16 \in Nat
    OBVIOUS
  <2> QED
    BY <2>1, JoinerExists
<1>5. (\A k \in 1..16 : b[k] \in Text) /\ DecodesTo(j[16], MeantWith(e, info))
  BY <1>1, <1>3, <1>4, PiecesRead DEF DecodesTo
<1>6. (\A k \in 1..16 : c[k] \in Text) /\ DecodesTo(i[16], MeantWith(e, info))
  BY <1>2, <1>3, <1>4, PiecesRead DEF DecodesTo
<1>7. i[16] = DefaultBytes(e, desc, location, mdc, ndc, Null)
  <2>1. Pieces(c, e, <<TC_OBJECT>>, desc, location, mdc, ndc) /\ Joins(i, c, 16)
    BY <1>3, <1>4 DEF plain
  <2> QED
    BY ONLY <1>6, <2>1, DefaultLaidOut
<1>8. j[16] = reset \o i[16]
  <2>1. b[1] = reset \o c[1]
    <3>1. b[1] = front /\ c[1] = plain
      BY ONLY <1>3 DEF Pieces
    <3> QED
      BY ONLY <3>1, Zenon DEF front
  <2>2. \A k \in 2..16 : b[k] = c[k]
    <3>1. \A k \in 2..16 : k \in {2, 3, 4, 5, 6, 7, 8, 9, 10, 11, 12, 13, 14, 15, 16}
      OBVIOUS
    <3>2. b[2] = c[2] /\ b[3] = c[3] /\ b[4] = c[4] /\ b[5] = c[5] /\ b[6] = c[6]
      BY ONLY <1>3 DEF Pieces
    <3>3. b[7] = c[7] /\ b[8] = c[8] /\ b[9] = c[9] /\ b[10] = c[10] /\ b[11] = c[11]
      BY ONLY <1>3 DEF Pieces
    <3>4. b[12] = c[12] /\ b[13] = c[13] /\ b[14] = c[14] /\ b[15] = c[15] /\ b[16] = c[16]
      BY ONLY <1>3 DEF Pieces
    <3> QED
      BY ONLY <3>1, <3>2, <3>3, <3>4
  <2>3. \A k \in 1..16 : b[k] \in Text /\ c[k] \in Text
    BY <1>5, <1>6
  <2>4. 16 \in Nat /\ 16 > 0
    OBVIOUS
  <2>5. Fronted(b, c, 16, reset)
    BY ONLY <2>1, <2>2, <2>3 DEF Fronted
  <2> QED
    BY ONLY <1>1, <1>4, <2>4, <2>5, JoinsBehind
<1> QED
  BY <1>5, <1>6, <1>7, <1>8 DEF reset

\* What the writers of the default protocol send of e, and what event the
\* decoder is to make of it: the python client's handler, the tests' saver, log4cxx's
\* socket appender for a connection's first event and for later ones, and log4j,
\* with and without a reset.  class stands in front of the method's name, and mdc
\* and ndc are the program's.
InHalf(t) == t \in Text /\ Len(t) \in Half

ByLog4j(e, class, ndc, bytes) ==
  \E context \in {Null, String(ndc)} :
    \/ bytes = JavaEvent(class, e, context, Null)
    \/ bytes = <<TC_RESET>> \o JavaEvent(class, e, context, Null)

WrittenByDefault(e, bytes, event) ==
  \/ /\ InHalf(FullInfo(e.func, e))
     /\ bytes = PythonDefault(e)
     /\ event = MeantWith(e, CString(FullInfo(e.func, e)))
  \/ \E class \in Text, mdc \in MdcTexts, ndc \in Text :
       /\ InHalf(FullInfo(JavaLike(class, e.func), e)) /\ Len(ndc) \in Half
       /\ \/ bytes \in {Saved(class, e), CxxFirst(class, e, mdc, ndc), CxxLater(class, e, mdc)}
          \/ ByLog4j(e, class, ndc, bytes)
       /\ event = MeantWith(e, CString(FullInfo(JavaLike(class, e.func), e)))
  \/ /\ bytes = CxxNowhere(e)
     /\ event = MeantWith(e, <<>>)

SendsDefault(s) ==
  /\ s.protocol = "default"
  /\ \A i \in DOMAIN s.parts : /\ s.parts[i].event # Foreign
                               /\ \E e \in DefaultEvents :
                                    WrittenByDefault(e, s.parts[i].bytes, s.parts[i].event)

\* It reads back what each of the protocol's writers has written.
LEMMA DefaultWritersRead ==
  ASSUME NEW e \in DefaultEvents, NEW bytes, NEW event, WrittenByDefault(e, bytes, event)
  PROVE  DecodesTo(bytes, event)
<1>1. TypeString \in TypeTexts /\ TypeHandle \in TypeTexts
  BY DescriptionTexts
<1>2. /\ FoundAs("prolog", LOGGING_EVENT(TypeString), Null) /\ FoundAs("prolog", LOCATION_INFO(TypeString), Null)
      /\ FoundAs("prolog", LOGGING_EVENT(TypeHandle), Null) /\ FoundAs("prolog", LOCATION_INFO(TypeHandle), Null)
  BY <1>1, EventClassRead, LocationClassRead
<1>3. PICK h0, h10, h14 : /\ FoundAs("prolog", Handle(0), h0)
                          /\ FoundAs("prolog", Handle(10), h10)
                          /\ FoundAs("prolog", Handle(14), h14)
  <2>1. 0 \in Byte /\ 10 \in Byte /\ 14 \in Byte
    BY DEF Byte
  <2> QED
    BY <2>1, HandleRead
<1>4. FoundAs("fullInfo", Null, <<>>) /\ FoundAs("mdc", Null, <<>>) /\ FoundAs("ndc", Null, <<>>)
  BY NullRead
<1>5. ASSUME InHalf(FullInfo(e.func, e)), bytes = PythonDefault(e),
             event = MeantWith(e, CString(FullInfo(e.func, e)))
      PROVE  DecodesTo(bytes, event)
  <2> DEFINE info == FullInfo(e.func, e)
             location == Object(LOCATION_INFO(TypeString)) \o String(info)
  <2>1. bytes = DefaultBytes(e, LOGGING_EVENT(TypeString), location, Null, Null, Null) /\ event = MeantWith(e, CString(info))
    BY <1>5 DEF PythonDefault
  <2>2. info \in Text /\ Len(info) \in Half
    BY <1>5 DEF InHalf
  <2> HIDE DEF info
  <2>3. FoundAs("fullInfo", location, CString(info))
    BY <1>2, <2>2, LocationRead
  <2> HIDE DEF location
  <2>4. DecodesTo(DefaultBytes(e, LOGGING_EVENT(TypeString), location, Null, Null, Null), MeantWith(e, CString(info)))
    BY <1>2, <1>4, <2>3, DefaultRead
  <2> QED
    BY <2>1, <2>4
<1>6. ASSUME NEW class \in Text, NEW mdc \in MdcTexts, NEW ndc \in Text,
             InHalf(FullInfo(JavaLike(class, e.func), e)), Len(ndc) \in Half,
             \/ bytes \in {Saved(class, e), CxxFirst(class, e, mdc, ndc), CxxLater(class, e, mdc)}
             \/ ByLog4j(e, class, ndc, bytes),
             event = MeantWith(e, CString(FullInfo(JavaLike(class, e.func), e)))
      PROVE  DecodesTo(bytes, event)
  <2> DEFINE info == FullInfo(JavaLike(class, e.func), e)
             described == Object(LOCATION_INFO(TypeString)) \o String(info)
             known == Object(Handle(10)) \o String(info)
             referred == Object(LOCATION_INFO(TypeHandle)) \o String(info)
  <2>1. /\ Saved(class, e) = DefaultBytes(e, LOGGING_EVENT(TypeString), described, Null, Null, Null)
        /\ CxxFirst(class, e, mdc, ndc)
             = DefaultBytes(e, LOGGING_EVENT(TypeString), described, Mdc(HASH_TABLE, mdc), String(ndc), Null)
        /\ CxxLater(class, e, mdc) = DefaultBytes(e, Handle(0), known, Mdc(Handle(14), mdc), Null, Null)
        /\ \A context : JavaEvent(class, e, context, Null)
             = DefaultBytes(e, LOGGING_EVENT(TypeHandle), referred, Null, context, Null)
    BY DEF Saved, CxxFirst, CxxLater, JavaEvent
  <2>2. info \in Text /\ Len(info) \in Half /\ event = MeantWith(e, CString(info))
    BY <1>6 DEF InHalf
  <2> HIDE DEF info
  <2>3. /\ FoundAs("fullInfo", described, CString(info)) /\ FoundAs("fullInfo", known, CString(info))
        /\ FoundAs("fullInfo", referred, CString(info))
    BY <1>2, <1>3, <2>2, LocationRead
  <2>4. /\ FoundAs("mdc", Mdc(HASH_TABLE, mdc), <<TC_ENDBLOCKDATA>>)
        /\ FoundAs("mdc", Mdc(Handle(14), mdc), <<TC_ENDBLOCKDATA>>)
        /\ FoundAs("ndc", String(ndc), ndc)
    BY <1>3, <1>6, HashtableClassRead, MdcRead, NDCRead
  <2> HIDE DEF described, known, referred
  <2>5. CASE bytes = Saved(class, e)
    <3>1. DecodesTo(DefaultBytes(e, LOGGING_EVENT(TypeString), described, Null, Null, Null), MeantWith(e, CString(info)))
      BY <1>2, <1>4, <2>3, DefaultRead
    <3> QED
      BY <2>1, <2>2, <2>5, <3>1
  <2>6. CASE bytes = CxxFirst(class, e, mdc, ndc)
    <3>1. DecodesTo(DefaultBytes(e, LOGGING_EVENT(TypeString), described, Mdc(HASH_TABLE, mdc), String(ndc), Null), MeantWith(e, CString(info)))
      BY <1>2, <2>3, <2>4, DefaultRead
    <3> QED
      BY <2>1, <2>2, <2>6, <3>1
  <2>7. CASE bytes = CxxLater(class, e, mdc)
    <3>1. DecodesTo(DefaultBytes(e, Handle(0), known, Mdc(Handle(14), mdc), Null, Null), MeantWith(e, CString(info)))
      BY <1>3, <1>4, <2>3, <2>4, DefaultRead
    <3> QED
      BY <2>1, <2>2, <2>7, <3>1
  <2>8. CASE ByLog4j(e, class, ndc, bytes)
    <3>1. PICK context \in {Null, String(ndc)} :
            \/ bytes = JavaEvent(class, e, context, Null)
            \/ bytes = <<TC_RESET>> \o JavaEvent(class, e, context, Null)
      BY <2>8 DEF ByLog4j
    <3>2. PICK text : FoundAs("ndc", context, text)
      BY <1>4, <2>4
    <3>3. LET java == DefaultBytes(e, LOGGING_EVENT(TypeHandle), referred, Null, context, Null) IN
          /\ DecodesTo(java, MeantWith(e, CString(info)))
          /\ DecodesTo(<<TC_RESET>> \o java, MeantWith(e, CString(info)))
      BY <1>2, <1>4, <2>3, <3>2, DefaultRead
    <3> QED
      BY <2>1, <2>2, <3>1, <3>3
  <2> QED
    BY <1>6, <2>5, <2>6, <2>7, <2>8
<1>7. ASSUME bytes = CxxNowhere(e), event = MeantWith(e, <<>>)
      PROVE  DecodesTo(bytes, event)
  <2>1. DecodesTo(DefaultBytes(e, Handle(0), Null, Null, Null, Null), MeantWith(e, <<>>))
    BY <1>3, <1>4, DefaultRead
  <2> QED
    BY <1>7, <2>1 DEF CxxNowhere
<1> QED
  BY <1>5, <1>6, <1>7 DEF WrittenByDefault

\* So what such a peer sends is legible.
LEMMA DefaultIsLegible ==
  ASSUME NEW s, SendsDefault(s)
  PROVE  Legible(s)
<1> SUFFICES ASSUME NEW i \in DOMAIN s.parts
             PROVE  /\ s.parts[i].bytes # <<>>
                    /\ s.parts[i].event # Foreign
                    /\ createLoggingEvent(s.parts[i].bytes, s.protocol)
                         = Ok(s.parts[i].event, Len(s.parts[i].bytes))
  BY DEF Legible
<1>1. s.protocol = "default" /\ s.parts[i].event # Foreign
  BY DEF SendsDefault
<1>2. PICK e \in DefaultEvents : WrittenByDefault(e, s.parts[i].bytes, s.parts[i].event)
  BY DEF SendsDefault
<1> QED
  BY <1>1, <1>2, DefaultWritersRead DEF DecodesTo

\* Whoever sends what a writer of the bytes protocol (the python client) or of
\* the default protocol (the python client, the tests' saver, log4cxx's socket
\* appender, log4j) makes of its events is decoded as it means, however recv
\* cuts the stream: the events come out in order, field by field, none waits
\* once it is whole, and none is taken for malformed.
THEOREM WrittenEventsArrive ==
  ASSUME \A s \in Senders : SendsBytes(s) \/ SendsDefault(s)
  PROVE  DecodingSpec => [](DecodesWhatIsWritten /\ NoneDelayed /\ stage # "refused")
<1>1. \A s \in Senders : Legible(s)
  BY BytesAreLegible, DefaultIsLegible
<1>2. DecodingSpec => []DecodesWhatIsWritten
  BY <1>1, EventsAreAsWritten
<1>3. DecodingSpec => []NoneDelayed
  BY <1>1, NoWholeEventWaits
<1>4. DecodingSpec => []RefusesOnlyForeign
  BY <1>1, NoEventIsRefused
<1>5. DecodingSpec => []DecodingTypeOK
  BY DecodingTypes
<1>6. DecodingTypeOK /\ RefusesOnlyForeign => stage # "refused"
  <2> SUFFICES ASSUME DecodingTypeOK, RefusesOnlyForeign, stage = "refused"
               PROVE  FALSE
    OBVIOUS
  <2>1. sender \in Senders /\ Len(events) + 1 \in 1..Len(sender.parts)
    BY DEF DecodingTypeOK, RefusesOnlyForeign
  <2>2. (SendsBytes(sender) \/ SendsDefault(sender)) /\ Len(events) + 1 \in DOMAIN sender.parts
    BY <2>1, SendersAssumption
  <2> QED
    BY <2>2 DEF SendsBytes, SendsDefault, RefusesOnlyForeign
<1> QED
  BY <1>2, <1>3, <1>4, <1>5, <1>6, PTL
=============================================================================
