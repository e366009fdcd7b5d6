--------------------------- MODULE DeliveryProofs ---------------------------
(***************************************************************************)
(* Nothing is lost, repeated or reordered on a connection whose server's end *)
(* is there, and no event is logged twice, for any number of rounds, events  *)
(* and ends of the server.  Of SocketsProofs only the lemmas on what is      *)
(* chosen from a sequence and on sessions are used.                          *)
(***************************************************************************)
EXTENDS Delivery, SocketsProofs

AnyUnit == [kind : {"magic", "default", "body", "event"}, id : Nat \X Nat]

Connection ==
  [peer : {"queued", "accepted", "gone", "reset"}, open : BOOLEAN,
   wire : Seq(AnyUnit), read : Seq(AnyUnit), given : Seq(Nat)]

Typed ==
  /\ conns \in Seq(Connection)
  /\ array \in Seq(AnyUnit)
  /\ oos \in 0..Len(conns)
  /\ event \in Nat

\* Conserved is not inductive: what is buffered belongs to the stream there is, and
\* a client that sends has one and a client that connects has none.
Buffered ==
  /\ oos = 0 => array = <<>>
  /\ pc \in {"flush", "closing"} => oos # 0
  /\ pc = "connect" => oos = 0

IInv == Typed /\ Buffered /\ Conserved

\* What has gone into the stream of connection c.
Content(c) == conns[c].read \o conns[c].wire \o (IF c = oos THEN array ELSE <<>>)

-----------------------------------------------------------------------------
\* Concatenation, as the steps use it.
LEMMA Associative ==
  ASSUME NEW S
  PROVE  \A a, b, c \in Seq(S) : a \o b \o c = a \o (b \o c)
BY ConcatAssociative, SMTT(30)

\* A sequence that begins with one and goes on with the other is the two of them.
LEMMA Pieces ==
  ASSUME NEW S, NEW w \in Seq(S), NEW u \in Seq(S), NEW v \in Seq(S),
         Len(v) = Len(w) + Len(u),
         \A k \in 1..Len(w) : v[k] = w[k],
         \A j \in 1..Len(u) : v[Len(w) + j] = u[j]
  PROVE  v = w \o u
<1>1. Len(w) \in Nat /\ Len(u) \in Nat
  BY LenProperties
<1>2. /\ w \o u \in Seq(S) /\ Len(w \o u) = Len(w) + Len(u)
      /\ \A i \in 1..(Len(w) + Len(u)) :
           (w \o u)[i] = IF i <= Len(w) THEN w[i] ELSE u[i - Len(w)]
  BY ConcatProperties
<1>3. ASSUME NEW i \in 1..Len(v) PROVE v[i] = (w \o u)[i]
  <2>1. CASE i <= Len(w)
    BY <1>1, <1>2, <2>1
  <2>2. CASE i > Len(w)
    <3>1. i - Len(w) \in 1..Len(u) /\ i = Len(w) + (i - Len(w))
      BY <1>1, <2>2
    <3> QED
      BY <1>1, <1>2, <2>2, <3>1
  <2> QED
    BY <1>1, <2>1, <2>2
<1> QED
  BY <1>2, <1>3, SeqEqual

\* A sequence is its first n elements and the others.
LEMMA Halves ==
  ASSUME NEW S, NEW a \in Seq(S), NEW n \in 1..Len(a)
  PROVE  /\ SubSeq(a, 1, n) \in Seq(S) /\ SubSeq(a, n + 1, Len(a)) \in Seq(S)
         /\ SubSeq(a, 1, n) \o SubSeq(a, n + 1, Len(a)) = a
         /\ n = Len(a) => SubSeq(a, n + 1, Len(a)) = <<>>
<1>1. Len(a) \in Nat /\ n \in Nat /\ \A i \in 1..Len(a) : a[i] \in S
  BY LenProperties
<1>2. /\ \A i \in 1..n : a[i] \in S
      /\ \A i \in (n + 1)..Len(a) : a[i] \in S
  BY <1>1
<1>3. SubSeq(a, 1, n) \in Seq(S) /\ SubSeq(a, n + 1, Len(a)) \in Seq(S)
  BY <1>1, <1>2, SubSeqProperties
<1>4. SubSeq(a, 1, n) \o SubSeq(a, n + 1, Len(a)) = SubSeq(a, 1, Len(a))
  BY <1>1, ConcatAdjacentSubSeq
<1>5. n = Len(a) => SubSeq(a, n + 1, Len(a)) = <<>>
  BY <1>1, SubSeqEmpty
<1> QED
  BY <1>3, <1>4, <1>5, SubSeqFull

\* What an event adds to a stream.
LEMMA WholeTyped ==
  ASSUME NEW given \in Seq(Nat)
  PROVE  /\ Whole(given) \in Seq(AnyUnit)
         /\ Len(Whole(given)) = 2 * Len(given) + 2
         /\ \A k \in 1..(2 * Len(given) + 2) : Whole(given)[k] =
              IF k <= 2 THEN Marker[k] ELSE Units(given[(k - 1) \div 2])[((k - 1) % 2) + 1]
<1>1. Len(given) \in Nat /\ \A i \in 1..Len(given) : given[i] \in Nat
  BY LenProperties
<1>2. \A k \in 1..2 : Marker[k] \in AnyUnit
  BY DEF Marker, Unit, AnyUnit
<1>3. \A e \in Nat : \A j \in 1..2 : Units(e)[j] \in AnyUnit
  BY DEF Units, Unit, AnyUnit
<1>4. ASSUME NEW k \in 3..(2 * Len(given) + 2)
      PROVE  (k - 1) \div 2 \in 1..Len(given) /\ ((k - 1) % 2) + 1 \in 1..2
  <2>1. PICK n \in Nat : n = Len(given)
    BY <1>1
  <2>2. k \in Nat /\ 3 <= k /\ k <= 2 * n + 2
    BY <1>4, <2>1
  <2>3. (k - 1) \div 2 \in 1..n /\ ((k - 1) % 2) + 1 \in 1..2
    BY <2>2
  <2> QED
    BY <2>1, <2>3
<1>5. ASSUME NEW k \in 1..(2 * Len(given) + 2)
      PROVE  Whole(given)[k] \in AnyUnit
  <2>1. CASE k <= 2
    BY <1>1, <1>2, <2>1 DEF Whole
  <2>2. CASE k > 2
    <3>1. k \in 3..(2 * Len(given) + 2)
      BY <1>1, <2>2
    <3>2. given[(k - 1) \div 2] \in Nat /\ ((k - 1) % 2) + 1 \in 1..2
      BY <1>1, <1>4, <3>1
    <3>3. Whole(given)[k] = Units(given[(k - 1) \div 2])[((k - 1) % 2) + 1]
      BY <1>1, <2>2 DEF Whole
    <3> QED
      BY <1>3, <3>2, <3>3
  <2> QED
    BY <1>1, <2>1, <2>2
<1> QED
  BY <1>1, <1>5 DEF Whole

LEMMA WholeOfNext ==
  ASSUME NEW given \in Seq(Nat), NEW e \in Nat
  PROVE  /\ Units(e) \in Seq(AnyUnit)
         /\ Append(given, e) \in Seq(Nat)
         /\ Whole(Append(given, e)) = Whole(given) \o Units(e)
<1> DEFINE more == Append(given, e)
           n == Len(given)
<1>1. /\ n \in Nat /\ more \in Seq(Nat) /\ Len(more) = n + 1
      /\ \A i \in 1..n : more[i] = given[i]
      /\ more[n + 1] = e
  BY LenProperties, AppendProperties
<1>2. Units(e) \in Seq(AnyUnit) /\ Len(Units(e)) = 2
  BY DEF Units, Unit, AnyUnit
<1> HIDE DEF more
<1>3. /\ Whole(given) \in Seq(AnyUnit) /\ Len(Whole(given)) = 2 * n + 2
      /\ \A k \in 1..(2 * n + 2) : Whole(given)[k] =
           IF k <= 2 THEN Marker[k] ELSE Units(given[(k - 1) \div 2])[((k - 1) % 2) + 1]
  BY WholeTyped
<1>4. /\ Whole(more) \in Seq(AnyUnit) /\ Len(Whole(more)) = 2 * (n + 1) + 2
      /\ \A k \in 1..(2 * (n + 1) + 2) : Whole(more)[k] =
           IF k <= 2 THEN Marker[k] ELSE Units(more[(k - 1) \div 2])[((k - 1) % 2) + 1]
  <2>1. more \in Seq(Nat) /\ Len(more) = n + 1
    BY <1>1
  <2> HIDE DEF n
  <2> QED
    BY <2>1, WholeTyped
<1> HIDE DEF n
<1>5. n \in Nat
  BY <1>1
<1>6. ASSUME NEW k \in 1..(2 * n + 2)
      PROVE  Whole(more)[k] = Whole(given)[k]
  <2>1. CASE k <= 2
    <3>1. Whole(more)[k] = Marker[k]
      BY <1>5, <1>4, <2>1
    <3>2. Whole(given)[k] = Marker[k]
      BY <1>5, <1>3, <2>1
    <3> QED
      BY <3>1, <3>2
  <2>2. CASE k > 2
    <3>1. (k - 1) \div 2 \in 1..n
      BY <1>1, <2>2
    <3>2. more[(k - 1) \div 2] = given[(k - 1) \div 2]
      BY <1>1, <3>1
    <3>3. Whole(more)[k] = Units(more[(k - 1) \div 2])[((k - 1) % 2) + 1]
      BY <1>5, <1>4, <2>2
    <3>4. Whole(given)[k] = Units(given[(k - 1) \div 2])[((k - 1) % 2) + 1]
      BY <1>5, <1>3, <2>2
    <3> QED
      BY <3>2, <3>3, <3>4
  <2> QED
    BY <1>1, <2>1, <2>2
<1>7. ASSUME NEW j \in 1..2
      PROVE  Whole(more)[2 * n + 2 + j] = Units(e)[j]
  <2> DEFINE k == 2 * n + 2 + j
  <2>1. k \in 1..(2 * n + 4) /\ k > 2 /\ (k - 1) \div 2 = n + 1 /\ ((k - 1) % 2) + 1 = j
    <3>1. CASE j = 1
      BY <1>1, <3>1
    <3>2. CASE j = 2
      BY <1>1, <3>2
    <3> QED
      BY <3>1, <3>2
  <2> HIDE DEF k
  <2>2. Whole(more)[k] = Units(more[n + 1])[j]
    BY <1>5, <1>4, <2>1, SMTT(40)
  <2> QED
    BY <1>1, <2>2 DEF k
<1>8. Whole(more) = Whole(given) \o Units(e)
  <2>1. Len(Whole(more)) = Len(Whole(given)) + Len(Units(e))
    BY <1>5, <1>2, <1>3, <1>4
  <2>2. \A k \in 1..Len(Whole(given)) : Whole(more)[k] = Whole(given)[k]
    BY <1>3, <1>6
  <2>3. \A j \in 1..Len(Units(e)) : Whole(more)[Len(Whole(given)) + j] = Units(e)[j]
    BY <1>2, <1>3, <1>7
  <2> QED
    BY <1>2, <1>3, <1>4, <2>1, <2>2, <2>3, Pieces
<1> QED
  BY <1>1, <1>2, <1>8 DEF more

-----------------------------------------------------------------------------
\* A connection of which one field changes.
LEMMA Changed ==
  ASSUME Typed, NEW d \in DOMAIN conns, NEW new \in Connection,
         conns' = [conns EXCEPT ![d] = new]
  PROVE  /\ conns' \in Seq(Connection) /\ Len(conns') = Len(conns)
         /\ DOMAIN conns' = DOMAIN conns
         /\ \A c \in DOMAIN conns : conns'[c] = IF c = d THEN new ELSE conns[c]
<1>1. conns \in Seq(Connection) /\ DOMAIN conns = 1..Len(conns)
  BY LenProperties DEF Typed
<1> QED
  BY <1>1, ExceptSeq

\* The fields of a connection.
LEMMA Fields ==
  ASSUME Typed, NEW c \in DOMAIN conns
  PROVE  /\ conns[c] \in Connection
         /\ conns[c].wire \in Seq(AnyUnit) /\ conns[c].read \in Seq(AnyUnit)
         /\ conns[c].given \in Seq(Nat)
<1>1. conns[c] \in Connection
  BY ElementOfSeq, LenProperties DEF Typed
<1> QED
  BY <1>1 DEF Connection

\* The stream there is has a connection.
LEMMA OosIsConn ==
  ASSUME Typed, oos # 0
  PROVE  oos \in DOMAIN conns
BY LenProperties DEF Typed

\* What is to be shown of a step that only changes connection d, and of it neither
\* what has gone in nor what was given.
LEMMA SameContent ==
  ASSUME IInv, NEW d \in DOMAIN conns, NEW new \in Connection,
         conns' = [conns EXCEPT ![d] = new],
         new.peer \in {"queued", "accepted"} => Alive(d),
         new.read = conns[d].read, new.wire = conns[d].wire, new.given = conns[d].given,
         UNCHANGED <<oos, array>> \/ (array = <<>> /\ array' = <<>> /\ oos' = 0)
  PROVE  conns' \in Seq(Connection) /\ Len(conns') = Len(conns) /\ Conserved'
<1>1. /\ conns' \in Seq(Connection) /\ Len(conns') = Len(conns)
      /\ DOMAIN conns' = DOMAIN conns
      /\ \A c \in DOMAIN conns : conns'[c] = IF c = d THEN new ELSE conns[c]
  BY Changed DEF IInv
<1>2. ASSUME NEW c \in DOMAIN conns', Alive(c)'
      PROVE  Content(c)' = Whole(conns'[c].given)
  <2>1. /\ c \in DOMAIN conns /\ Alive(c)
        /\ conns'[c].read = conns[c].read /\ conns'[c].wire = conns[c].wire
        /\ conns'[c].given = conns[c].given
    BY <1>1, <1>2 DEF Alive
  <2>2. Content(c) = Whole(conns[c].given)
    BY <2>1 DEF IInv, Conserved, Content
  <2>3. (IF c = oos THEN array ELSE <<>>)' = (IF c = oos THEN array ELSE <<>>)
    OBVIOUS
  <2> QED
    BY <2>1, <2>2, <2>3 DEF Content
<1> QED
  BY <1>1, <1>2 DEF Conserved, Content

\* Steps that touch no connection and no stream.
LEMMA StayKeeps ==
  ASSUME IInv, UNCHANGED <<conns, oos, array>>, event' \in Nat,
         pc' \in {"flush", "closing"} => oos # 0, pc' = "connect" => oos = 0
  PROVE  IInv'
BY DEF IInv, Typed, Buffered, Conserved, Alive

\* A new connection, of a client that has none.
LEMMA OpenKeeps ==
  ASSUME IInv, oos = 0, NEW given \in Seq(Nat), OpenStream(given), event' \in Nat, pc' # "connect"
  PROVE  IInv'
<1> DEFINE new == [NewConn EXCEPT !.given = given]
<1>1. /\ conns \in Seq(Connection) /\ Len(conns) \in Nat
      /\ DOMAIN conns = 1..Len(conns)
  BY LenProperties DEF IInv, Typed
<1>2. /\ new \in Connection /\ new.read = <<>> /\ new.wire = <<>> /\ new.given = given
  BY EmptySeq DEF NewConn, Connection
<1>3. Whole(given) \in Seq(AnyUnit)
  BY WholeTyped
<1>4. /\ conns' = Append(conns, new) /\ oos' = Len(conns) + 1 /\ array' = Whole(given)
  BY DEF OpenStream
<1> HIDE DEF new
<1>5. /\ conns' \in Seq(Connection) /\ Len(conns') = Len(conns) + 1
      /\ \A c \in 1..Len(conns) : conns'[c] = conns[c]
      /\ conns'[Len(conns) + 1] = new
  BY <1>1, <1>2, <1>4, AppendProperties
<1>6. ASSUME NEW c \in DOMAIN conns', Alive(c)'
      PROVE  Content(c)' = Whole(conns'[c].given)
  <2>1. c \in 1..(Len(conns) + 1)
    BY <1>5, LenProperties
  <2>2. CASE c = Len(conns) + 1
    <3>1. Content(c)' = <<>> \o <<>> \o Whole(given)
      BY <1>2, <1>4, <1>5, <2>2 DEF Content
    <3>2. <<>> \o <<>> \o Whole(given) = Whole(given)
      BY <1>3, ConcatEmptySeq, EmptySeq
    <3> QED
      BY <1>2, <1>5, <2>2, <3>1, <3>2
  <2>3. CASE c \in 1..Len(conns)
    <3>1. conns'[c] = conns[c] /\ c # oos' /\ c # oos
      BY <1>1, <1>4, <1>5, <2>3
    <3>2. Alive(c) /\ Content(c) = Whole(conns[c].given)
      BY <1>1, <1>6, <2>3, <3>1 DEF Alive, IInv, Conserved, Content
    <3> QED
      BY <3>1, <3>2 DEF Content
  <2> QED
    BY <1>1, <2>1, <2>2, <2>3
<1>7. Typed'
  BY <1>1, <1>3, <1>4, <1>5 DEF Typed
<1>8. Buffered'
  BY <1>1, <1>4 DEF Buffered
<1> QED
  BY <1>6, <1>7, <1>8 DEF IInv, Conserved, Content

\* A stream whose end is closed by the client.
LEMMA ClosedKeeps ==
  ASSUME IInv, oos # 0, conns' = Closed(oos), event' = event,
         UNCHANGED <<oos, array>> \/ (array = <<>> /\ array' = <<>> /\ oos' = 0),
         pc' \in {"flush", "closing"} => oos' # 0, pc' = "connect" => oos' = 0
  PROVE  IInv'
<1> DEFINE new == [conns[oos] EXCEPT !.open = FALSE]
<1>1. oos \in DOMAIN conns
  BY OosIsConn DEF IInv
<1>2. conns[oos] \in Connection
  BY <1>1, Fields DEF IInv
<1>3. /\ new \in Connection /\ new.peer = conns[oos].peer
      /\ new.read = conns[oos].read /\ new.wire = conns[oos].wire
      /\ new.given = conns[oos].given
  BY <1>2 DEF Connection
<1>4. conns' = [conns EXCEPT ![oos] = new]
  BY DEF Closed
<1> HIDE DEF new
<1>5. conns' \in Seq(Connection) /\ Len(conns') = Len(conns) /\ Conserved'
  BY <1>1, <1>3, <1>4, SameContent DEF Alive
<1>6. Typed' /\ Buffered'
  BY <1>5, LenProperties DEF IInv, Typed, Buffered
<1> QED
  BY <1>5, <1>6 DEF IInv

\* The event is written behind what is buffered.
LEMMA WriteKeeps ==
  ASSUME IInv, WriteEvent
  PROVE  IInv'
<1> DEFINE e == event + 1
           new == [conns[oos] EXCEPT !.given = Append(@, e)]
<1>1. /\ oos # 0 /\ oos' = oos /\ event' = e /\ pc' = "flush"
      /\ array' = array \o Units(e)
      /\ conns' = [conns EXCEPT ![oos] = new]
  BY DEF WriteEvent, NextEvent
<1>2. oos \in DOMAIN conns /\ e \in Nat /\ array \in Seq(AnyUnit)
  BY <1>1, OosIsConn DEF IInv, Typed
<1>3. /\ conns[oos] \in Connection
      /\ conns[oos].wire \in Seq(AnyUnit) /\ conns[oos].read \in Seq(AnyUnit)
      /\ conns[oos].given \in Seq(Nat)
  BY <1>2, Fields DEF IInv
<1> HIDE DEF e
<1>4. /\ Units(e) \in Seq(AnyUnit) /\ Append(conns[oos].given, e) \in Seq(Nat)
      /\ Whole(Append(conns[oos].given, e)) = Whole(conns[oos].given) \o Units(e)
  BY <1>2, <1>3, WholeOfNext
<1>5. /\ new \in Connection /\ new.peer = conns[oos].peer
      /\ new.read = conns[oos].read /\ new.wire = conns[oos].wire
      /\ new.given = Append(conns[oos].given, e)
  BY <1>3, <1>4 DEF Connection
<1> HIDE DEF new
<1>6. /\ conns' \in Seq(Connection) /\ Len(conns') = Len(conns)
      /\ DOMAIN conns' = DOMAIN conns
      /\ \A c \in DOMAIN conns : conns'[c] = IF c = oos THEN new ELSE conns[c]
  BY <1>1, <1>2, <1>5, Changed DEF IInv
<1>7. ASSUME NEW c \in DOMAIN conns', Alive(c)'
      PROVE  Content(c)' = Whole(conns'[c].given)
  <2>1. c \in DOMAIN conns /\ Alive(c)
    BY <1>5, <1>6, <1>7 DEF Alive
  <2>2. Content(c) = Whole(conns[c].given)
    BY <2>1 DEF IInv, Conserved, Content
  <2>3. CASE c = oos
    <3>1. Content(c)' = conns[oos].read \o conns[oos].wire \o (array \o Units(e))
      BY <1>1, <1>5, <1>6, <2>1, <2>3 DEF Content
    <3>2. Content(c) = conns[oos].read \o conns[oos].wire \o array
      BY <2>3 DEF Content
    <3>3. conns[oos].read \o conns[oos].wire \o (array \o Units(e))
            = conns[oos].read \o conns[oos].wire \o array \o Units(e)
      <4> DEFINE read == conns[oos].read
                 wire == conns[oos].wire
                 units == Units(e)
      <4>1. /\ read \in Seq(AnyUnit) /\ wire \in Seq(AnyUnit) /\ units \in Seq(AnyUnit)
            /\ array \in Seq(AnyUnit)
        BY <1>2, <1>3, <1>4
      <4> HIDE DEF read, wire, units
      <4>2. read \o wire \o (array \o units) = read \o wire \o array \o units
        <5>1. read \o wire \in Seq(AnyUnit)
          BY <4>1, ConcatProperties
        <5> QED
          BY <4>1, <5>1, Associative, SMTT(30)
      <4> QED
        BY <4>2 DEF read, wire, units
    <3> QED
      BY <1>4, <1>5, <1>6, <2>1, <2>2, <2>3, <3>1, <3>2, <3>3
  <2>4. CASE c # oos
    BY <1>1, <1>6, <2>1, <2>2, <2>4 DEF Content
  <2> QED
    BY <2>3, <2>4
<1>8. Typed' /\ Buffered'
  <2>1. array' \in Seq(AnyUnit)
    BY <1>1, <1>2, <1>4, ConcatProperties
  <2> QED
    BY <1>1, <1>2, <1>6, <2>1 DEF IInv, Typed, Buffered
<1> QED
  BY <1>7, <1>8 DEF IInv, Conserved, Content

\* The first n units go from the buffer to the system.
LEMMA SendKeeps ==
  ASSUME IInv, NEW n \in 1..Len(array), Send(n)
  PROVE  IInv'
<1> DEFINE head == SubSeq(array, 1, n)
           rest == SubSeq(array, n + 1, Len(array))
           last == n = Len(array) /\ pc = "closing"
           wire == IF Alive(oos) THEN conns[oos].wire \o head ELSE conns[oos].wire
           open == ~last
           new == [conns[oos] EXCEPT !.wire = wire, !.open = open]
<1>1. /\ oos # 0 /\ event' = event /\ array' = rest
      /\ oos' = IF last THEN 0 ELSE oos
      /\ conns' = [conns EXCEPT ![oos] = new]
      /\ pc' \in {"flush", "closing"} => n < Len(array)
      /\ pc' = "connect" => last
  <2>1. /\ oos # 0 /\ event' = event /\ array' = rest
        /\ oos' = IF last THEN 0 ELSE oos
        /\ pc' = IF n < Len(array) THEN pc ELSE IF pc = "flush" THEN "idle" ELSE "connect"
        /\ pc \in {"flush", "closing"}
    BY DEF Send, IInv, Buffered
  <2>2. conns' = [conns EXCEPT ![oos] = new]
    BY DEF Send
  <2>3. Len(array) \in Nat
    BY LenProperties DEF IInv, Typed
  <2> HIDE DEF rest, new
  <2> QED
    BY <2>1, <2>2, <2>3
<1>2. oos \in DOMAIN conns /\ array \in Seq(AnyUnit)
  BY <1>1, OosIsConn DEF IInv, Typed
<1>3. /\ head \in Seq(AnyUnit) /\ rest \in Seq(AnyUnit) /\ head \o rest = array
      /\ n = Len(array) => rest = <<>>
  BY <1>2, Halves
<1> HIDE DEF head, rest
<1>4. /\ conns[oos] \in Connection
      /\ conns[oos].wire \in Seq(AnyUnit) /\ conns[oos].read \in Seq(AnyUnit)
  BY <1>2, Fields DEF IInv
<1>5. conns[oos].wire \o head \in Seq(AnyUnit)
  BY <1>3, <1>4, ConcatProperties
<1>6. /\ new \in Connection /\ new.peer = conns[oos].peer
      /\ new.read = conns[oos].read /\ new.given = conns[oos].given
      /\ new.wire = wire
  <2>1. wire \in Seq(AnyUnit) /\ open \in BOOLEAN
    BY <1>4, <1>5
  <2> HIDE DEF wire, open
  <2> QED
    BY <1>4, <2>1 DEF Connection
<1> HIDE DEF new
<1>7. /\ conns' \in Seq(Connection) /\ Len(conns') = Len(conns)
      /\ DOMAIN conns' = DOMAIN conns
      /\ \A c \in DOMAIN conns : conns'[c] = IF c = oos THEN new ELSE conns[c]
  BY <1>1, <1>2, <1>6, Changed DEF IInv
<1>8. ASSUME NEW c \in DOMAIN conns', Alive(c)'
      PROVE  Content(c)' = Whole(conns'[c].given)
  <2>1. c \in DOMAIN conns /\ Alive(c)
    BY <1>6, <1>7, <1>8 DEF Alive
  <2>2. Content(c) = Whole(conns[c].given)
    BY <2>1 DEF IInv, Conserved, Content
  <2>3. CASE c = oos
    <3>1. (IF c = oos THEN array ELSE <<>>)' = rest
      BY <1>1, <1>3, <2>3
    <3>2. Content(c)' = conns[oos].read \o (conns[oos].wire \o head) \o rest
      BY <1>6, <1>7, <2>1, <2>3, <3>1 DEF Content
    <3>3. Content(c) = conns[oos].read \o conns[oos].wire \o array
      BY <2>3 DEF Content
    <3>4. Content(c)' = Content(c)
      <4> DEFINE read == conns[oos].read
                 before == conns[oos].wire
      <4>1. /\ read \in Seq(AnyUnit) /\ before \in Seq(AnyUnit)
            /\ head \in Seq(AnyUnit) /\ rest \in Seq(AnyUnit)
        BY <1>3, <1>4
      <4> HIDE DEF read, before
      <4>2. read \o (before \o head) \o rest = read \o before \o (head \o rest)
        <5>1. read \o (before \o head) = read \o before \o head
          BY <4>1, Associative, SMTT(30)
        <5>2. read \o before \in Seq(AnyUnit)
          BY <4>1, ConcatProperties
        <5>3. read \o before \o (head \o rest) = read \o before \o head \o rest
          BY <4>1, <5>2, Associative, SMTT(30)
        <5> QED
          BY <5>1, <5>3
      <4>3. Content(c)' = read \o before \o (head \o rest)
        BY <3>2, <4>2 DEF read, before
      <4> QED
        BY <1>3, <3>3, <4>3 DEF read, before
    <3> QED
      BY <1>6, <1>7, <2>1, <2>2, <2>3, <3>4
  <2>4. CASE c # oos
    <3>1. c # 0
      BY <2>1, LenProperties DEF IInv, Typed
    <3>2. c # oos'
      BY <1>1, <2>4, <3>1
    <3> QED
      BY <1>7, <2>1, <2>2, <2>4, <3>2 DEF Content
  <2> QED
    BY <2>3, <2>4
<1>9. Typed' /\ Buffered'
  <2>1. oos' \in 0..Len(conns')
    BY <1>1, <1>7 DEF IInv, Typed
  <2> QED
    BY <1>1, <1>2, <1>3, <1>7, <2>1 DEF IInv, Typed, Buffered
<1> QED
  BY <1>8, <1>9 DEF IInv, Conserved, Content

\* A stream is given up, whose connection is dead.
LEMMA SendFailsKeeps ==
  ASSUME IInv, SendFails
  PROVE  IInv'
<1> DEFINE new == [conns[oos] EXCEPT !.open = FALSE]
<1>1. /\ oos # 0 /\ event' = event /\ array' = <<>> /\ oos' = 0 /\ conns[oos].peer = "reset"
      /\ conns' = [conns EXCEPT ![oos] = new]
      /\ pc' \in {"idle", "connect"}
  BY DEF SendFails, Closed, IInv, Buffered
<1>2. oos \in DOMAIN conns
  BY <1>1, OosIsConn DEF IInv
<1>3. new \in Connection /\ new.peer = "reset"
  <2>1. conns[oos] \in Connection
    BY <1>2, Fields DEF IInv
  <2> QED
    BY <1>1, <2>1 DEF Connection
<1> HIDE DEF new
<1>4. /\ conns' \in Seq(Connection) /\ Len(conns') = Len(conns)
      /\ DOMAIN conns' = DOMAIN conns
      /\ \A c \in DOMAIN conns : conns'[c] = IF c = oos THEN new ELSE conns[c]
  BY <1>1, <1>2, <1>3, Changed DEF IInv
<1>5. ASSUME NEW c \in DOMAIN conns', Alive(c)'
      PROVE  Content(c)' = Whole(conns'[c].given)
  <2>1. c \in DOMAIN conns /\ c # oos /\ c # 0 /\ conns'[c] = conns[c]
    BY <1>3, <1>4, <1>5, LenProperties DEF Alive, IInv, Typed
  <2>2. Alive(c) /\ Content(c) = Whole(conns[c].given)
    BY <1>5, <2>1 DEF Alive, IInv, Conserved, Content
  <2> QED
    BY <1>1, <2>1, <2>2 DEF Content
<1>6. Typed' /\ Buffered'
  BY <1>1, <1>4, EmptySeq, LenProperties DEF IInv, Typed, Buffered
<1> QED
  BY <1>5, <1>6 DEF IInv, Conserved, Content

\* Configure, ActivateOptions and the calls that find no stream.
LEMMA ConfigureKeeps ==
  ASSUME IInv, Configure
  PROVE  IInv'
<1>1. event' = event /\ event \in Nat /\ UNCHANGED array
  BY DEF Configure, IInv, Typed
<1>2. CASE oos # 0 /\ array # <<>>
  <2>1. pc' = "closing" /\ UNCHANGED <<oos, conns>>
    BY <1>2 DEF Configure
  <2> QED
    BY <1>1, <1>2, <2>1, StayKeeps
<1>3. CASE oos = 0
  <2>1. pc' = "connect" /\ UNCHANGED <<oos, conns>>
    BY <1>3 DEF Configure
  <2> QED
    BY <1>1, <1>3, <2>1, StayKeeps
<1>4. CASE oos # 0 /\ array = <<>>
  <2>1. pc' = "connect" /\ oos' = 0 /\ conns' = Closed(oos)
    BY <1>4 DEF Configure
  <2> QED
    BY <1>1, <1>4, <2>1, ClosedKeeps
<1> QED
  BY <1>2, <1>3, <1>4

LEMMA ConnectKeeps ==
  ASSUME IInv, ActivateOptions
  PROVE  IInv'
<1>1. oos = 0 /\ pc' = "idle" /\ event' = event /\ event \in Nat
  BY DEF ActivateOptions, IInv, Typed, Buffered
<1>2. CASE up
  <2>1. OpenStream(<<>>)
    BY <1>2 DEF ActivateOptions
  <2> QED
    BY <1>1, <2>1, EmptySeq, OpenKeeps
<1>3. CASE ~up
  <2>1. UNCHANGED <<conns, oos, array>>
    BY <1>3 DEF ActivateOptions
  <2> QED
    BY <1>1, <2>1, StayKeeps
<1> QED
  BY <1>2, <1>3

LEMMA ReconnectKeeps ==
  ASSUME IInv, Reconnect
  PROVE  IInv'
<1> DEFINE e == event + 1
<1>1. oos = 0 /\ OpenStream(<<e>>) /\ event' = e /\ pc' = "flush"
  BY DEF Reconnect, NextEvent
<1>2. e \in Nat
  BY DEF IInv, Typed
<1> HIDE DEF e
<1>3. <<e>> \in Seq(Nat)
  BY <1>2
<1> QED
  BY <1>1, <1>2, <1>3, OpenKeeps

LEMMA DropKeeps ==
  ASSUME IInv, Drop
  PROVE  IInv'
<1>1. /\ oos = 0 /\ event' = event + 1 /\ event \in Nat /\ pc' = "idle"
      /\ UNCHANGED <<conns, oos, array>>
  BY DEF Drop, NextEvent, IInv, Typed
<1> QED
  BY <1>1, StayKeeps

LEMMA ExitKeeps ==
  ASSUME IInv, Exit
  PROVE  IInv'
<1>1. event' = event /\ event \in Nat /\ pc' = "ended" /\ UNCHANGED <<oos, array>>
  BY DEF Exit, IInv, Typed
<1>2. CASE oos = 0
  <2>1. UNCHANGED conns
    BY <1>2 DEF Exit
  <2> QED
    BY <1>1, <2>1, StayKeeps
<1>3. CASE oos # 0
  <2>1. conns' = Closed(oos)
    BY <1>3 DEF Exit
  <2> QED
    BY <1>1, <1>3, <2>1, ClosedKeeps
<1> QED
  BY <1>2, <1>3

-----------------------------------------------------------------------------
\* The server's steps change who holds the other end of one connection.
LEMMA PeerKeeps ==
  ASSUME IInv, NEW d \in DOMAIN conns, UNCHANGED client,
         NEW now \in {"queued", "accepted", "gone", "reset"},
         now \in {"queued", "accepted"} => Alive(d),
         conns' = [conns EXCEPT ![d].peer = now]
  PROVE  IInv'
<1> DEFINE new == [conns[d] EXCEPT !.peer = now]
<1>1. /\ new \in Connection /\ new.peer = now
      /\ new.read = conns[d].read /\ new.wire = conns[d].wire
      /\ new.given = conns[d].given
  <2>1. conns[d] \in Connection
    BY Fields DEF IInv
  <2> QED
    BY <2>1 DEF Connection
<1>2. conns' = [conns EXCEPT ![d] = new]
  OBVIOUS
<1> HIDE DEF new
<1>3. UNCHANGED <<oos, array, event, pc>>
  BY DEF client
<1>4. conns' \in Seq(Connection) /\ Len(conns') = Len(conns) /\ Conserved'
  BY <1>1, <1>2, <1>3, SameContent
<1>5. Typed' /\ Buffered'
  BY <1>3, <1>4 DEF IInv, Typed, Buffered
<1> QED
  BY <1>4, <1>5 DEF IInv

\* recv: what is on its way becomes what is read.
LEMMA ReadKeeps ==
  ASSUME IInv, NEW d \in DOMAIN conns, NEW n \in 1..Len(conns[d].wire), Read(d, n)
  PROVE  IInv'
<1> DEFINE wire == conns[d].wire
           chunk == SubSeq(wire, 1, n)
           rest == SubSeq(wire, n + 1, Len(wire))
           ok == ForceLogResult(sessions[d], chunk).ok
           now == IF ok THEN conns[d].peer ELSE "gone"
           new == [conns[d] EXCEPT !.wire = rest, !.read = @ \o chunk, !.peer = now]
<1>1. /\ conns' = [conns EXCEPT ![d] = new]
      /\ conns[d].peer = "accepted"
      /\ UNCHANGED <<oos, array, event, pc>>
  BY DEF Read, client
<1>2. /\ conns[d] \in Connection /\ wire \in Seq(AnyUnit)
      /\ conns[d].read \in Seq(AnyUnit)
  BY Fields DEF IInv
<1>3. /\ chunk \in Seq(AnyUnit) /\ rest \in Seq(AnyUnit) /\ chunk \o rest = wire
  <2>1. wire \in Seq(AnyUnit) /\ n \in 1..Len(wire)
    BY <1>2
  <2> HIDE DEF wire
  <2> QED
    BY <2>1, Halves
<1>4. now \in {"accepted", "gone"}
  BY <1>1
<1> HIDE DEF wire, chunk, rest, now
<1>5. conns[d].read \o chunk \in Seq(AnyUnit)
  BY <1>2, <1>3, ConcatProperties
<1>6. /\ new \in Connection /\ new.peer = now /\ new.wire = rest
      /\ new.read = conns[d].read \o chunk /\ new.given = conns[d].given
  BY <1>2, <1>3, <1>4, <1>5 DEF Connection
<1> HIDE DEF new
<1>7. /\ conns' \in Seq(Connection) /\ Len(conns') = Len(conns)
      /\ DOMAIN conns' = DOMAIN conns
      /\ \A c \in DOMAIN conns : conns'[c] = IF c = d THEN new ELSE conns[c]
  BY <1>1, <1>6, Changed DEF IInv
<1>8. ASSUME NEW c \in DOMAIN conns', Alive(c)'
      PROVE  Content(c)' = Whole(conns'[c].given)
  <2>1. c \in DOMAIN conns /\ Alive(c)
    BY <1>1, <1>7, <1>8 DEF Alive
  <2>2. Content(c) = Whole(conns[c].given)
    BY <2>1 DEF IInv, Conserved, Content
  <2>3. CASE c = d
    <3> DEFINE buffered == IF c = oos THEN array ELSE <<>>
               read == conns[d].read
    <3>1. read \in Seq(AnyUnit) /\ chunk \in Seq(AnyUnit) /\ rest \in Seq(AnyUnit)
      BY <1>2, <1>3
    <3>2. Content(c)' = read \o chunk \o rest \o buffered
      BY <1>1, <1>6, <1>7, <2>1, <2>3 DEF Content
    <3>3. Content(c) = read \o (chunk \o rest) \o buffered
      BY <1>3, <2>3 DEF Content, wire
    <3> HIDE DEF read, buffered
    <3>4. read \o chunk \o rest = read \o (chunk \o rest)
      BY <3>1, Associative, SMTT(30)
    <3> QED
      BY <1>6, <1>7, <2>1, <2>2, <2>3, <3>2, <3>3, <3>4
  <2>4. CASE c # d
    BY <1>1, <1>7, <2>1, <2>2, <2>4 DEF Content
  <2> QED
    BY <2>3, <2>4
<1>9. Typed' /\ Buffered'
  BY <1>1, <1>7 DEF IInv, Typed, Buffered
<1> QED
  BY <1>8, <1>9 DEF IInv, Conserved, Content

\* The server ends: no connection is left of which anything is claimed.
LEMMA CrashKeeps ==
  ASSUME IInv, Crash
  PROVE  IInv'
<1> DEFINE New(c) == IF Alive(c) THEN [conns[c] EXCEPT !.peer = "gone", !.wire = <<>>]
                     ELSE conns[c]
<1>1. conns' = [c \in DOMAIN conns |-> New(c)] /\ UNCHANGED <<oos, array, event, pc>>
  BY DEF Crash, client
<1>2. ASSUME NEW c \in DOMAIN conns
      PROVE  New(c) \in Connection /\ New(c).peer \notin {"queued", "accepted"}
  <2>1. conns[c] \in Connection
    BY Fields DEF IInv
  <2> QED
    BY <2>1, EmptySeq DEF Connection, Alive
<1> HIDE DEF New
<1>3. DOMAIN conns = 1..Len(conns) /\ Len(conns) \in Nat
  BY LenProperties DEF IInv, Typed
<1>4. conns' \in Seq(Connection) /\ Len(conns') = Len(conns)
  <2>1. conns' \in [1..Len(conns) -> Connection]
    BY <1>1, <1>2, <1>3
  <2> QED
    BY <1>3, <2>1, LenProperties, SeqDef
<1>5. Conserved'
  BY <1>1, <1>2 DEF Conserved, Alive
<1>6. Typed' /\ Buffered'
  BY <1>1, <1>4 DEF IInv, Typed, Buffered
<1> QED
  BY <1>5, <1>6 DEF IInv

LEMMA ServerKeeps ==
  ASSUME IInv, NEW c \in DOMAIN conns, ServerStep(c) \/ LearnReset(c)
  PROVE  IInv'
<1>1. CASE Accept(c)
  <2>1. /\ conns' = [conns EXCEPT ![c].peer = "accepted"] /\ UNCHANGED client
        /\ Alive(c)
    BY <1>1 DEF Accept, Alive
  <2> QED
    BY <2>1, PeerKeeps
<1>2. ASSUME NEW n \in 1..Len(conns[c].wire), Read(c, n)
      PROVE  IInv'
  BY <1>2, ReadKeeps
<1>3. CASE Disconnect(c)
  <2>1. conns' = [conns EXCEPT ![c].peer = "gone"] /\ UNCHANGED client
    BY <1>3 DEF Disconnect
  <2> QED
    BY <2>1, PeerKeeps
<1>4. CASE LearnReset(c)
  <2>1. conns' = [conns EXCEPT ![c].peer = "reset"] /\ UNCHANGED client
    BY <1>4 DEF LearnReset
  <2> QED
    BY <2>1, PeerKeeps
<1> QED
  BY <1>1, <1>2, <1>3, <1>4 DEF ServerStep

LEMMA Initially == Init => IInv
<1> SUFFICES ASSUME Init PROVE IInv
  OBVIOUS
<1>1. conns = <<>> /\ array = <<>> /\ oos = 0 /\ event = 0 /\ pc = "idle"
  BY DEF Init
<1>2. <<>> \in Seq(Connection) /\ <<>> \in Seq(AnyUnit) /\ Len(<<>>) = 0
  BY EmptySeq
<1>3. Typed /\ Buffered
  BY <1>1, <1>2 DEF Typed, Buffered
<1>4. Conserved
  <2>1. DOMAIN conns = {}
    BY <1>1
  <2> QED
    BY <2>1 DEF Conserved
<1> QED
  BY <1>3, <1>4 DEF IInv

LEMMA StepKeeps == IInv /\ [Next]_vars => IInv'
<1> SUFFICES ASSUME IInv, [Next]_vars PROVE IInv'
  OBVIOUS
<1>1. CASE Configure
  BY <1>1, ConfigureKeeps
<1>2. CASE ActivateOptions
  BY <1>2, ConnectKeeps
<1>3. CASE WriteEvent
  BY <1>3, WriteKeeps
<1>4. CASE Reconnect
  BY <1>4, ReconnectKeeps
<1>5. CASE Drop
  BY <1>5, DropKeeps
<1>6. ASSUME NEW n \in 1..Len(array), Send(n) PROVE IInv'
  BY <1>6, SendKeeps
<1>7. CASE SendFails
  BY <1>7, SendFailsKeeps
<1>8. CASE Exit
  BY <1>8, ExitKeeps
<1>9. ASSUME NEW c \in DOMAIN conns, ServerStep(c) \/ LearnReset(c) PROVE IInv'
  BY <1>9, ServerKeeps
<1>10. CASE Crash
  BY <1>10, CrashKeeps
<1>11. CASE Restart
  <2>1. UNCHANGED <<client, conns>>
    BY <1>11 DEF Restart
  <2>2. UNCHANGED <<oos, array, event, pc, conns>>
    BY <2>1 DEF client
  <2> QED
    BY <2>2, StayKeeps DEF IInv, Typed, Buffered
<1>12. CASE UNCHANGED vars
  <2>1. UNCHANGED <<oos, array, event, pc, conns>>
    BY <1>12 DEF vars, client
  <2> QED
    BY <2>1, StayKeeps DEF IInv, Typed, Buffered
<1> QED
  BY <1>1, <1>2, <1>3, <1>4, <1>5, <1>6, <1>7, <1>8, <1>9, <1>10, <1>11, <1>12
  DEF Next, ClientStep

\* Over any number of rounds, events and ends of the server, a connection whose
\* server's end is there carries exactly the marker and the events handed to its
\* stream, each once and in order (socketappender.cpp:77-110, socket.cpp:82-108).
THEOREM DeliveryConserves == Spec => []Conserved
<1>1. Spec => []IInv
  BY Initially, StepKeeps, PTL DEF Spec
<1>2. IInv => Conserved
  BY DEF IInv
<1> QED
  BY <1>1, <1>2, PTL

-----------------------------------------------------------------------------
\* What is logged.  The events that are whole in the first n units of a stream.
Ends(n) == IF n < 2 THEN 0 ELSE (n - 2) \div 2

LEMMA EndsIs ==
  ASSUME NEW m \in Nat
  PROVE  Ends(0) = 0 /\ Ends(1) = 0 /\ Ends(2 * m + 2) = m /\ Ends(2 * m + 3) = m
<1>1. (2 * m + 2 - 2) \div 2 = m /\ (2 * m + 3 - 2) \div 2 = m
  OBVIOUS
<1> QED
  BY <1>1 DEF Ends

\* The place of a unit says what it is.
LEMMA UnitAt ==
  ASSUME NEW given \in Seq(Nat), NEW m \in Nat
  PROVE  /\ Whole(given)[1] = Unit("magic", 0, 1)
         /\ Whole(given)[2] = Unit("default", 0, 2)
         /\ 2 * m + 3 <= Len(Whole(given)) =>
              /\ m + 1 \in 1..Len(given)
              /\ Whole(given)[2 * m + 3] = Unit("body", given[m + 1], 1)
              /\ Whole(given)[2 * m + 4] = Unit("event", given[m + 1], 2)
<1>1. PICK n \in Nat : n = Len(given)
  BY LenProperties
<1>2. /\ Len(Whole(given)) = 2 * n + 2
      /\ \A k \in 1..(2 * n + 2) : Whole(given)[k] =
           IF k <= 2 THEN Marker[k] ELSE Units(given[(k - 1) \div 2])[((k - 1) % 2) + 1]
  BY <1>1, WholeTyped
<1>3. Whole(given)[1] = Marker[1] /\ Whole(given)[2] = Marker[2]
  BY <1>1, <1>2
<1>4. ASSUME 2 * m + 3 <= Len(Whole(given))
      PROVE  /\ m + 1 \in 1..n
             /\ Whole(given)[2 * m + 3] = Units(given[m + 1])[1]
             /\ Whole(given)[2 * m + 4] = Units(given[m + 1])[2]
  <2>1. m + 1 \in 1..n
    BY <1>1, <1>2, <1>4
  <2> DEFINE k == 2 * m + 3
             l == 2 * m + 4
  <2>2. k \in 1..(2 * n + 2) /\ ~(k <= 2) /\ (k - 1) \div 2 = m + 1 /\ ((k - 1) % 2) + 1 = 1
    BY <1>1, <2>1
  <2>3. l \in 1..(2 * n + 2) /\ ~(l <= 2) /\ (l - 1) \div 2 = m + 1 /\ ((l - 1) % 2) + 1 = 2
    BY <1>1, <2>1
  <2> HIDE DEF k, l
  <2>4. Whole(given)[k] = Units(given[m + 1])[1] /\ Whole(given)[l] = Units(given[m + 1])[2]
    BY <1>2, <2>2, <2>3
  <2> QED
    BY <2>1, <2>4 DEF k, l
<1> QED
  BY <1>1, <1>3, <1>4 DEF Marker, Units

\* A place behind the marker holds an event's first unit or its last.
LEMMA Parity ==
  ASSUME NEW k \in Nat, k >= 3
  PROVE  \E m \in Nat : k = 2 * m + 3 \/ k = 2 * m + 4
<1>1. (k - 3) \div 2 \in Nat
      /\ (k = 2 * ((k - 3) \div 2) + 3 \/ k = 2 * ((k - 3) \div 2) + 4)
  OBVIOUS
<1> QED
  BY <1>1

\* The tokens of a stream, of events the client has numbered.
Numbers == 0..(Rounds + 1) * Events

LEMMA WholeIsTokens ==
  ASSUME NEW given \in Seq(Nat), \A i \in 1..Len(given) : given[i] \in Numbers
  PROVE  Whole(given) \in Seq(Token)
<1> DEFINE w == Whole(given)
<1>1. w \in Seq(AnyUnit) /\ Len(w) \in Nat
  BY WholeTyped, LenProperties
<1>2. ASSUME NEW e \in Numbers, NEW j \in {1, 2}, NEW name \in {"magic", "default", "body", "event"}
      PROVE  Unit(name, e, j) \in Token
  <2>1. <<e, j>> \in Id
    BY DeliveryAssumption DEF Numbers
  <2> QED
    BY <2>1 DEF Unit, Token, Kinds, FrameKinds, FrameEnds, Protocols
<1>3. 0 \in Numbers
  <2>1. (Rounds + 1) * Events \in Nat
    BY DeliveryAssumption
  <2> QED
    BY <2>1 DEF Numbers
<1>4. ASSUME NEW k \in 1..Len(w)
      PROVE  w[k] \in Token
  <2>1. CASE k = 1
    BY <1>2, <1>3, <2>1, UnitAt
  <2>2. CASE k = 2
    BY <1>2, <1>3, <2>2, UnitAt
  <2>3. CASE k >= 3
    <3>1. PICK m \in Nat : k = 2 * m + 3 \/ k = 2 * m + 4
      <4>1. k \in Nat /\ k >= 3
        BY <1>1, <2>3
      <4> HIDE DEF w
      <4> QED
        BY <4>1, Parity
    <3>2. 2 * m + 3 <= Len(w)
      BY <1>1, <3>1
    <3>3. given[m + 1] \in Numbers
      BY <3>2, UnitAt
    <3>4. w[k] = Unit("body", given[m + 1], 1) \/ w[k] = Unit("event", given[m + 1], 2)
      BY <3>1, <3>2, UnitAt
    <3> QED
      BY <1>2, <3>3, <3>4
  <2> QED
    BY <1>1, <2>1, <2>2, <2>3
<1> QED
  <2> HIDE DEF w
  <2>1. w = [k \in 1..Len(w) |-> w[k]]
    BY <1>1
  <2>2. w \in Seq(Token)
    BY <1>1, <1>4, <2>1
  <2> QED
    BY <2>2 DEF w

\* Which units the decoder takes for the end of an event.
LEMMA UnitKinds ==
  ASSUME NEW given \in Seq(Nat), NEW k \in 1..Len(Whole(given))
  PROVE  LET w == Whole(given) IN
         /\ k <= 2 => w[k].kind \notin FrameKinds
         /\ k >= 3 => w[k].kind \in {"body", "event"}
         /\ \A m \in Nat : /\ k = 2 * m + 3 => w[k].kind = "body"
                           /\ k = 2 * m + 4 => /\ m + 1 \in 1..Len(given)
                                               /\ w[k].kind = "event"
                                               /\ w[k].id[1] = given[m + 1]
<1> DEFINE w == Whole(given)
<1>1. Len(w) \in Nat /\ k \in Nat /\ 1 <= k /\ k <= Len(w)
  BY WholeTyped, LenProperties
<1>2. k <= 2 => w[k].kind \notin FrameKinds
  <2>1. k <= 2 => k = 1 \/ k = 2
    BY <1>1
  <2>2. w[1] = Unit("magic", 0, 1) /\ w[2] = Unit("default", 0, 2)
    <3>1. 0 \in Nat
      OBVIOUS
    <3> QED
      BY <3>1, UnitAt
  <2>3. w[1].kind = "magic" /\ w[2].kind = "default"
    BY <2>2 DEF Unit
  <2> HIDE DEF w
  <2>4. w[1].kind \notin FrameKinds /\ w[2].kind \notin FrameKinds
    BY <2>3 DEF FrameKinds, FrameEnds
  <2> QED
    BY <2>1, <2>4
<1>3. ASSUME NEW m \in Nat
      PROVE  /\ k = 2 * m + 3 => w[k].kind = "body"
             /\ k = 2 * m + 4 => /\ m + 1 \in 1..Len(given)
                                 /\ w[k].kind = "event"
                                 /\ w[k].id[1] = given[m + 1]
  <2>1. k = 2 * m + 3 \/ k = 2 * m + 4 => 2 * m + 3 <= Len(w)
    BY <1>1
  <2>2. /\ k = 2 * m + 3 => w[k] = Unit("body", given[m + 1], 1)
        /\ k = 2 * m + 4 => m + 1 \in 1..Len(given) /\ w[k] = Unit("event", given[m + 1], 2)
    BY <2>1, UnitAt
  <2> QED
    BY <2>2 DEF Unit
<1>4. k >= 3 => w[k].kind \in {"body", "event"}
  <2>1. k >= 3 => \E m \in Nat : k = 2 * m + 3 \/ k = 2 * m + 4
    BY <1>1, Parity
  <2> QED
    BY <1>3, <2>1
<1> QED
  BY <1>2, <1>3, <1>4

\* What a session has decoded of a stream's first t units depends on them alone.
LEMMA HeldOfFront ==
  ASSUME NEW s \in Seq(Token), NEW t \in 0..Len(s)
  PROVE  Held(Part(s, 0, t), t) = Held(s, t)
<1> DEFINE f == Part(s, 0, t)
<1>1. t \in Nat /\ t <= Len(s) /\ Len(s) \in Nat
  BY LenProperties
<1>2. f \in Seq(Token) /\ Len(f) = t /\ \A i \in 1..t : f[i] = s[i]
  BY FrontIs
<1>3. ASSUME NEW e \in 0..t
      PROVE  Part(f, e, t) = Part(s, e, t)
  <2>1. /\ t \in 0..(t - 0) /\ e \in 0..t /\ 0 \in 0..t
        /\ 0 + e = e /\ 0 + t = t
    BY <1>1
  <2>2. Part(Part(s, 0, t), e, t) = Part(s, 0 + e, 0 + t)
    BY <2>1, PartOfPart, ZenonT(30)
  <2> QED
    BY <2>1, <2>2
<1>4. 0 \in 0..t
  BY <1>1
<1> HIDE DEF f
<1>5. ASSUME t < 2
      PROVE  Held(f, t) = Held(s, t)
  BY <1>3, <1>4, <1>5 DEF Held, MarkerLen
<1>6. ASSUME t >= 2
      PROVE  Held(f, t) = Held(s, t)
  <2>1. f[1] = s[1] /\ f[2] = s[2]
    BY <1>1, <1>2, <1>6
  <2>2. MarkerOK(f) <=> MarkerOK(s)
    BY <2>1 DEF MarkerOK
  <2>3. \A k \in 3..t : CleanUpTo(f, k) <=> CleanUpTo(s, k)
    <3>1. \A k \in 3..t : \A m \in 3..k : f[m] = s[m]
      BY <1>1, <1>2
    <3> QED
      BY <3>1 DEF CleanUpTo, MarkerLen
  <2>4. EndsIn(f, t) = EndsIn(s, t)
    <3>1. \A k \in 3..t : f[k] = s[k]
      BY <1>1, <1>2
    <3> QED
      BY <2>3, <3>1 DEF EndsIn, MarkerLen
  <2>5. LastEnd(f, t) = LastEnd(s, t)
    BY <2>4 DEF LastEnd
  <2>6. LastEnd(s, t) \in 0..t
    BY <1>1, <1>6, LastEndIs
  <2>7. ~(t < 2)
    BY <1>1, <1>6
  <2> QED
    BY <1>3, <1>4, <2>1, <2>2, <2>5, <2>6, <2>7 DEF Held, MarkerLen
<1> QED
  BY <1>1, <1>5, <1>6 DEF f

\* Of the front of a stream, the tokens that end an event are those to be logged.
LEMMA FrontMarks ==
  ASSUME NEW given \in Seq(Nat), Whole(given) \in Seq(Token), NEW u \in 0..Len(Whole(given))
  PROVE  Marks(Permitted, Part(Whole(given), 0, u), u)
<1> DEFINE w == Whole(given)
           s == Part(w, 0, u)
<1>1. u \in Nat /\ u <= Len(w) /\ Len(w) \in Nat
  BY LenProperties
<1>2. s \in Seq(Token) /\ Len(s) = u /\ \A i \in 1..u : s[i] = w[i]
  BY FrontIs
<1>3. /\ w[1] = Unit("magic", 0, 1) /\ w[2] = Unit("default", 0, 2)
      /\ \A k \in 1..Len(w) : /\ k <= 2 => w[k].kind \notin FrameKinds
                              /\ k >= 3 => w[k].kind \in {"body", "event"}
  <2>1. 0 \in Nat
    OBVIOUS
  <2> QED
    BY <2>1, UnitAt, UnitKinds
<1> HIDE DEF w, s
<1>4. \A k \in 1..u : k \in Nat /\ k \in 1..Len(w) /\ s[k] = w[k] /\ s[k] \in Token
  BY <1>1, <1>2
<1>5. ASSUME NEW k \in 1..u, s[k].kind = "event"
      PROVE  k \in Owed(s, u)
  <2>1. k \in 3..u
    <3>1. ~(k <= 2)
      BY <1>3, <1>4, <1>5 DEF FrameKinds, FrameEnds
    <3> QED
      BY <1>4, <3>1
  <2>2. MarkerOK(s)
    <3>1. 1 \in 1..u /\ 2 \in 1..u
      BY <1>1, <2>1
    <3>2. s[1] = w[1] /\ s[2] = w[2]
      BY <1>4, <3>1
    <3> QED
      BY <1>3, <3>2 DEF MarkerOK, Unit, Protocols
  <2>3. ASSUME NEW m \in 3..k
        PROVE  s[m].kind \in FrameKinds
    <3>1. m \in 1..u /\ m >= 3
      BY <1>1, <2>1
    <3> QED
      BY <1>3, <1>4, <3>1 DEF FrameKinds, FrameEnds
  <2> QED
    BY <1>5, <2>1, <2>2, <2>3 DEF Owed, CleanUpTo, MarkerLen
<1>6. \A k \in 1..u : s[k] \in Permitted <=> s[k].kind = "event"
  BY <1>4 DEF Permitted
<1>7. \A k \in Owed(s, u) : s[k].kind = "event"
  BY DEF Owed
<1> QED
  BY <1>2, <1>5, <1>6, <1>7 DEF Marks, s, w

\* The numbers of the events whose ends are among the first n units.
Chosen(given, n) == Only(Part(Whole(given), 0, n), Permitted)

Counted(given, n) ==
  /\ Ends(n) \in 0..Len(given)
  /\ Chosen(given, n) \in Seq(Token)
  /\ Len(Chosen(given, n)) = Ends(n)
  /\ \A i \in 1..Ends(n) : Chosen(given, n)[i].id[1] = given[i]

LEMMA ChosenGrows ==
  ASSUME NEW given \in Seq(Nat), Whole(given) \in Seq(Token), NEW n \in Nat,
         n + 1 <= Len(Whole(given)), Counted(given, n)
  PROVE  Counted(given, n + 1)
<1> DEFINE w == Whole(given)
           x == w[n + 1]
           front == Part(w, 0, n)
<1>1. Len(w) \in Nat /\ n + 1 \in 1..Len(w) /\ x \in Token
  BY LenProperties
<1>2. front \in Seq(Token)
  <2>1. n \in 0..Len(w)
    BY <1>1
  <2> QED
    BY <2>1, FrontIs
<1>3. Part(w, 0, n + 1) = Append(front, x)
  <2>1. 1 \in 1..(Len(w) + 1) /\ n + 1 \in 1..Len(w) /\ (n + 1) - 1 = n /\ 0 + 1 = 1
    BY <1>1
  <2>2. SubSeq(w, 1, n + 1) = SubSeq(w, 1, (n + 1) - 1) \o <<w[n + 1]>>
    <3> HIDE DEF w
    <3>1. w \in Seq(Token) /\ 1 \in 1..Len(w) /\ n + 1 \in 1..Len(w)
      BY <1>1 DEF w
    <3> QED
      BY <1>1, <3>1, SubSeqRecursiveSecond
  <2>3. Part(w, 0, n + 1) = front \o <<x>>
    BY <2>1, <2>2 DEF Part
  <2> HIDE DEF front, x
  <2> QED
    BY <1>1, <1>2, <2>3, AppendIsConcat
<1>4. Chosen(given, n + 1) = IF x \in Permitted THEN Append(Chosen(given, n), x)
                             ELSE Chosen(given, n)
  <2> HIDE DEF front, x
  <2>1. Only(Append(front, x), Permitted) =
          IF x \in Permitted THEN Append(Only(front, Permitted), x) ELSE Only(front, Permitted)
    BY <1>1, <1>2, OnlyAppend
  <2> QED
    BY <1>3, <2>1 DEF Chosen, front
<1>5. x \in Permitted <=> x.kind = "event"
  BY <1>1 DEF Permitted
<1>6. /\ n + 1 <= 2 => x.kind # "event"
      /\ \A m \in Nat : /\ n + 1 = 2 * m + 3 => x.kind # "event"
                        /\ n + 1 = 2 * m + 4 => /\ m + 1 \in 1..Len(given)
                                                /\ x.kind = "event"
                                                /\ x.id[1] = given[m + 1]
  BY <1>1, UnitKinds DEF FrameKinds, FrameEnds
<1>7. n + 1 <= 2 \/ \E m \in Nat : n + 1 = 2 * m + 3 \/ n + 1 = 2 * m + 4
  <2> DEFINE k == n + 1
  <2>1. k \in Nat /\ (k <= 2 \/ k >= 3)
    OBVIOUS
  <2> HIDE DEF k
  <2>2. k <= 2 \/ \E m \in Nat : k = 2 * m + 3 \/ k = 2 * m + 4
    BY <2>1, Parity
  <2> QED
    BY <2>2 DEF k
<1> DEFINE c == Chosen(given, n)
           d == Chosen(given, n + 1)
<1>8. /\ c \in Seq(Token) /\ Len(c) = Ends(n) /\ Ends(n) \in 0..Len(given)
      /\ \A i \in 1..Ends(n) : c[i].id[1] = given[i]
  BY DEF Counted
<1> HIDE DEF w, x, c, d
<1>9. d = IF x \in Permitted THEN Append(c, x) ELSE c
  BY <1>4 DEF c, d
<1>10. ASSUME x.kind # "event", Ends(n + 1) = Ends(n)
       PROVE  Counted(given, n + 1)
  <2>1. d = c
    BY <1>5, <1>9, <1>10
  <2> QED
    BY <1>8, <1>10, <2>1 DEF Counted, d
<1>11. CASE n + 1 <= 2
  <2>1. n = 0 \/ n = 1
    BY <1>11
  <2>2. Ends(n) = 0 /\ Ends(n + 1) = 0
    <3>1. 0 \in Nat /\ 0 + 1 = 1 /\ 1 + 1 = 2 /\ 2 * 0 + 2 = 2
      OBVIOUS
    <3>2. Ends(0) = 0 /\ Ends(1) = 0 /\ Ends(2) = 0
      BY <3>1, EndsIs
    <3> QED
      BY <2>1, <3>1, <3>2
  <2> QED
    BY <1>6, <1>10, <1>11, <2>2
<1>12. ASSUME NEW m \in Nat, n + 1 = 2 * m + 3
       PROVE  Counted(given, n + 1)
  <2>1. n = 2 * m + 2
    BY <1>12
  <2>2. Ends(n) = m /\ Ends(n + 1) = m
    BY <1>12, <2>1, EndsIs
  <2> QED
    BY <1>6, <1>10, <1>12, <2>2
<1>13. ASSUME NEW m \in Nat, n + 1 = 2 * m + 4
       PROVE  Counted(given, n + 1)
  <2>1. n = 2 * m + 3 /\ n + 1 = 2 * (m + 1) + 2 /\ m + 1 \in Nat
    BY <1>13
  <2>2. Ends(n) = m /\ Ends(n + 1) = m + 1
    BY <2>1, EndsIs
  <2>3. d = Append(c, x) /\ m + 1 \in 1..Len(given) /\ x.id[1] = given[m + 1] /\ x \in Token
    BY <1>1, <1>5, <1>6, <1>9, <1>13 DEF x
  <2>4. /\ d \in Seq(Token) /\ Len(d) = m + 1 /\ d[m + 1] = x
        /\ \A i \in 1..m : d[i] = c[i]
    BY <1>8, <2>2, <2>3, AppendProperties
  <2>5. ASSUME NEW i \in 1..(m + 1)
        PROVE  d[i].id[1] = given[i]
    <3>1. CASE i \in 1..m
      BY <1>8, <2>2, <2>4, <3>1
    <3>2. CASE i = m + 1
      BY <2>3, <2>4, <3>2
    <3> QED
      BY <3>1, <3>2
  <2>6. m + 1 \in 0..Len(given)
    BY <2>3
  <2> QED
    BY <2>2, <2>4, <2>5, <2>6 DEF Counted, d
<1> QED
  BY <1>7, <1>11, <1>12, <1>13

LEMMA AllCounted ==
  ASSUME NEW given \in Seq(Nat), Whole(given) \in Seq(Token), NEW n \in 0..Len(Whole(given))
  PROVE  Counted(given, n)
<1> DEFINE S == {k \in Nat : k <= Len(Whole(given)) => Counted(given, k)}
<1>1. 0 \in S
  <2>1. Part(Whole(given), 0, 0) = <<>>
    <3>1. 0 \in 0..Len(Whole(given))
      BY LenProperties
    <3>2. Part(Whole(given), 0, 0) \in Seq(Token) /\ Len(Part(Whole(given), 0, 0)) = 0
      BY <3>1, FrontIs
    <3> QED
      BY <3>2, EmptySeq
  <2>2. Chosen(given, 0) = <<>>
    BY <2>1, OnlyEmpty DEF Chosen
  <2>3. Ends(0) = 0 /\ 0 \in 0..Len(given)
    BY LenProperties DEF Ends
  <2>4. <<>> \in Seq(Token) /\ Len(<<>>) = 0
    BY EmptySeq
  <2>5. Counted(given, 0)
    <3> DEFINE c == Chosen(given, 0)
               e == Ends(0)
    <3>1. c \in Seq(Token) /\ Len(c) = e /\ e \in 0..Len(given) /\ e = 0
      BY <2>2, <2>3, <2>4
    <3> HIDE DEF c, e
    <3>2. \A i \in 1..e : c[i].id[1] = given[i]
      BY <3>1
    <3> QED
      BY <3>1, <3>2 DEF Counted, c, e
  <2> QED
    BY <2>5
<1>2. ASSUME NEW k \in Nat, k \in S
      PROVE  k + 1 \in S
  <2>1. SUFFICES ASSUME k + 1 <= Len(Whole(given)) PROVE Counted(given, k + 1)
    OBVIOUS
  <2>2. Len(Whole(given)) \in Nat
    BY LenProperties
  <2>3. Counted(given, k)
    BY <1>2, <2>1, <2>2
  <2> QED
    BY <2>1, <2>3, ChosenGrows
<1> HIDE DEF S
<1>3. Nat \subseteq S
  BY <1>1, <1>2, Induction
<1>4. n \in Nat /\ n <= Len(Whole(given))
  BY LenProperties
<1> QED
  BY <1>3, <1>4 DEF S

\* A chunk logs the events that end in it.
NumbersOf(tokens) == [i \in DOMAIN tokens |-> tokens[i].id[1]]

LEMMA ChunkLogs ==
  ASSUME NEW given \in Seq(Nat), Whole(given) \in Seq(Token),
         NEW u \in 0..Len(Whole(given)), NEW t \in 0..u
  PROVE  /\ Ends(t) \in 0..Ends(u) /\ Ends(u) \in 0..Len(given)
         /\ NumbersOf(Only(Part(Whole(given), t, u), Permitted)) = Part(given, Ends(t), Ends(u))
<1> DEFINE w == Whole(given)
           o == Only(Part(w, t, u), Permitted)
           x == Chosen(given, t)
           y == Chosen(given, u)
           a == Ends(t)
           b == Ends(u)
<1>1. t \in 0..Len(w) /\ Len(w) \in Nat /\ 0 \in 0..t
  BY LenProperties
<1>2. Counted(given, t) /\ Counted(given, u)
  BY <1>1, AllCounted
<1>3. /\ x \in Seq(Token) /\ Len(x) = a /\ a \in 0..Len(given)
      /\ y \in Seq(Token) /\ Len(y) = b /\ b \in 0..Len(given)
      /\ \A i \in 1..b : y[i].id[1] = given[i]
  BY <1>2 DEF Counted
<1>4. y = x \o o /\ o \in Seq(Token)
  BY <1>1, OnlyJoin DEF Chosen
<1> HIDE DEF x, y, o, a, b
<1>5. /\ Len(o) \in Nat /\ b = a + Len(o) /\ a \in Nat /\ b \in Nat
      /\ \A i \in 1..(Len(x) + Len(o)) : y[i] = IF i <= Len(x) THEN x[i] ELSE o[i - Len(x)]
  <2>1. Len(x \o o) = Len(x) + Len(o)
        /\ \A i \in 1..(Len(x) + Len(o)) : (x \o o)[i] = IF i <= Len(x) THEN x[i] ELSE o[i - Len(x)]
    BY <1>3, <1>4, ConcatProperties
  <2> QED
    BY <1>3, <1>4, <2>1, LenProperties
<1>6. a \in 0..b
  BY <1>5
<1>7. /\ Part(given, a, b) \in Seq(Nat) /\ Len(Part(given, a, b)) = b - a
      /\ \A i \in 1..(b - a) : Part(given, a, b)[i] = given[a + i]
  BY <1>3, <1>6, PartIs
<1>8. ASSUME NEW i \in 1..Len(o)
      PROVE  o[i].id[1] = Part(given, a, b)[i]
  <2>1. a + i \in 1..b /\ a + i \in 1..(Len(x) + Len(o)) /\ ~(a + i <= Len(x))
        /\ (a + i) - Len(x) = i /\ i \in 1..(b - a)
    <3>1. Len(x) = a /\ Len(o) \in Nat /\ b = a + Len(o) /\ a \in Nat
      BY <1>3, <1>5
    <3> QED
      BY <3>1
  <2>2. y[a + i] = o[i]
    BY <1>5, <2>1
  <2> QED
    BY <1>3, <1>7, <2>1, <2>2
<1>9. NumbersOf(o) = Part(given, a, b)
  <2>1. DOMAIN o = 1..Len(o) /\ Len(o) = b - a
    BY <1>4, <1>5, LenProperties
  <2>2. NumbersOf(o) = [i \in 1..(b - a) |-> Part(given, a, b)[i]]
    BY <1>8, <2>1 DEF NumbersOf
  <2>3. Part(given, a, b) = [i \in 1..(b - a) |-> Part(given, a, b)[i]]
    BY <1>7
  <2> QED
    BY <2>2, <2>3
<1> QED
  BY <1>3, <1>6, <1>9 DEF o, a, b

\* What is chosen from a sequence has all of it that is in the set.
LEMMA OnlyHas ==
  ASSUME NEW S, NEW K, NEW whole \in Seq(S), NEW place \in 1..Len(whole), whole[place] \in K
  PROVE  \E j \in 1..Len(Only(whole, K)) : Only(whole, K)[j] = whole[place]
<1> DEFINE Has(s) == \A i \in 1..Len(s) : s[i] \in K =>
                       \E j \in 1..Len(Only(s, K)) : Only(s, K)[j] = s[i]
           P == {s \in Seq(S) : Has(s)}
<1>1. <<>> \in P
  <2>1. <<>> \in Seq(S) /\ Len(<<>>) = 0
    BY EmptySeq
  <2>2. Has(<<>>)
    BY <2>1
  <2> QED
    BY <2>1, <2>2
<1>2. ASSUME NEW s \in Seq(S), NEW x \in S, s \in P
      PROVE  Append(s, x) \in P
  <2> DEFINE t == Append(s, x)
             a == Only(s, K)
             b == Only(t, K)
  <2>1. /\ t \in Seq(S) /\ Len(t) = Len(s) + 1 /\ t[Len(s) + 1] = x /\ Len(s) \in Nat
        /\ \A i \in 1..Len(s) : t[i] = s[i]
    BY AppendProperties, LenProperties
  <2>2. b = IF x \in K THEN Append(a, x) ELSE a
    BY OnlyAppend
  <2>3. a \in Seq(S)
    BY OnlyType
  <2>4. Has(s)
    BY <1>2
  <2>5. \A i \in 1..Len(s) : s[i] \in K => \E j \in 1..Len(a) : a[j] = s[i]
    BY <2>4
  <2> HIDE DEF t, a, b
  <2>6. /\ Len(Append(a, x)) = Len(a) + 1 /\ Len(a) \in Nat /\ Append(a, x)[Len(a) + 1] = x
        /\ \A j \in 1..Len(a) : Append(a, x)[j] = a[j]
    BY <2>3, AppendProperties, LenProperties
  <2>7. \A j \in 1..Len(a) : j \in 1..Len(b) /\ b[j] = a[j]
    BY <2>2, <2>6
  <2>8. ASSUME NEW i \in 1..Len(t), t[i] \in K
        PROVE  \E j \in 1..Len(b) : b[j] = t[i]
    <3>1. CASE i \in 1..Len(s)
      <4>1. PICK j \in 1..Len(a) : a[j] = s[i]
        BY <2>1, <2>5, <2>8, <3>1
      <4> QED
        BY <2>1, <2>7, <3>1, <4>1
    <3>2. CASE i = Len(s) + 1
      <4>1. b = Append(a, x) /\ t[i] = x
        BY <2>1, <2>2, <2>8, <3>2
      <4>2. Len(a) + 1 \in 1..Len(b) /\ b[Len(a) + 1] = t[i]
        BY <2>6, <4>1
      <4> QED
        BY <4>2
    <3> QED
      BY <2>1, <3>1, <3>2
  <2> QED
    BY <2>1, <2>8 DEF t, b
<1> HIDE DEF P
<1>3. Seq(S) \subseteq P
  BY <1>1, <1>2, SeqInduction
<1> QED
  BY <1>3 DEF P

\* The same of logs.
LEMMA LogHolds ==
  ASSUME NEW l \in Seq(Nat), NEW K, NEW i \in 1..Len(l), l[i] \in K
  PROVE  \E j \in 1..Len(Only(l, K)) : Only(l, K)[j] = l[i]
BY OnlyHas, SMTT(60)

LEMMA LogJoin ==
  \A l, m \in Seq(Nat) : \A K : Only(l \o m, K) = Only(l, K) \o Only(m, K)
BY OnlyConcat, SMTT(60)

\* No element twice.
Distinct(s) == \A i, j \in 1..Len(s) : s[i] = s[j] => i = j

\* The log goes on with the next events of a connection of which it has the first a.
LEMMA LogGrows ==
  ASSUME NEW l \in Seq(Nat), NEW g \in Seq(Nat), NEW b \in 0..Len(g), NEW a \in 0..b,
         Distinct(g), Distinct(l), Only(l, Range(g)) = Part(g, 0, a)
  PROVE  LET new == Part(g, a, b) IN
         /\ new \in Seq(Nat) /\ l \o new \in Seq(Nat)
         /\ Distinct(l \o new)
         /\ Only(l \o new, Range(g)) = Part(g, 0, b)
         /\ \A L : Range(g) \cap L = {} => Only(l \o new, L) = Only(l, L)
         /\ \A i \in 1..Len(l \o new) : (\E j \in 1..Len(l) : (l \o new)[i] = l[j])
                                        \/ (l \o new)[i] \in Range(g)
<1> DEFINE new == Part(g, a, b)
           all == l \o new
           own == Range(g)
<1>1. /\ a \in Nat /\ b \in Nat /\ a <= b /\ b <= Len(g) /\ Len(g) \in Nat /\ Len(l) \in Nat
      /\ a \in 0..Len(g)
  BY LenProperties
<1>2. /\ new \in Seq(Nat) /\ Len(new) = b - a
      /\ \A i \in 1..(b - a) : new[i] = g[a + i]
  BY PartIs
<1>3. /\ Len(Part(g, 0, a)) = a /\ \A i \in 1..a : Part(g, 0, a)[i] = g[i]
  BY <1>1, FrontIs
<1>4. own = {g[i] : i \in 1..Len(g)}
  BY LenProperties DEF Range
<1> HIDE DEF new, own
<1>5. \A i \in 1..Len(new) : a + i \in 1..Len(g) /\ new[i] = g[a + i] /\ new[i] \in own
  <2>1. \A i \in 1..Len(new) : a + i \in 1..Len(g) /\ new[i] = g[a + i]
    BY <1>1, <1>2
  <2> QED
    BY <1>4, <2>1
<1>6. ASSUME NEW i \in 1..Len(l), NEW j \in 1..Len(new), l[i] = new[j]
      PROVE  FALSE
  <2>1. l[i] \in own
    BY <1>5, <1>6
  <2>2. \E k \in 1..Len(Only(l, own)) : Only(l, own)[k] = l[i]
    BY <2>1, LogHolds, ZenonT(30)
  <2>3. Only(l, own) = Part(g, 0, a)
    BY DEF own
  <2>4. PICK k \in 1..a : g[k] = l[i]
    BY <1>3, <2>2, <2>3
  <2>5. k \in 1..Len(g) /\ a + j \in 1..Len(g) /\ g[k] = g[a + j]
    BY <1>1, <1>5, <1>6, <2>4
  <2>6. k # a + j
    BY <1>1, <2>4
  <2> QED
    BY <2>5, <2>6 DEF Distinct
<1>7. /\ all \in Seq(Nat) /\ Len(all) = Len(l) + Len(new) /\ Len(new) \in Nat
      /\ \A i \in 1..(Len(l) + Len(new)) : all[i] = IF i <= Len(l) THEN l[i] ELSE new[i - Len(l)]
  <2>1. l \in Seq(Nat) /\ new \in Seq(Nat)
    BY <1>2
  <2>2. /\ l \o new \in Seq(Nat) /\ Len(l \o new) = Len(l) + Len(new)
        /\ \A i \in 1..(Len(l) + Len(new)) : (l \o new)[i] = IF i <= Len(l) THEN l[i] ELSE new[i - Len(l)]
    BY <2>1, ConcatProperties
  <2>3. Len(new) \in Nat
    BY <2>1, LenProperties
  <2> QED
    BY <2>2, <2>3
<1>13. \A L : Only(all, L) = Only(l, L) \o Only(new, L)
  <2>1. l \in Seq(Nat) /\ new \in Seq(Nat)
    BY <1>2
  <2> QED
    BY <2>1, LogJoin, Zenon
<1> HIDE DEF all
<1>8. \A i \in 1..Len(all) : \/ i \in 1..Len(l) /\ all[i] = l[i]
                             \/ i - Len(l) \in 1..Len(new) /\ all[i] = new[i - Len(l)]
  <2> SUFFICES ASSUME NEW i \in 1..(Len(l) + Len(new))
               PROVE  \/ i \in 1..Len(l) /\ all[i] = l[i]
                      \/ i - Len(l) \in 1..Len(new) /\ all[i] = new[i - Len(l)]
    BY <1>7
  <2>1. CASE i <= Len(l)
    <3>1. i \in 1..Len(l)
      BY <1>1, <1>7, <2>1
    <3>2. all[i] = l[i]
      BY <1>7, <2>1, Zenon
    <3> QED
      BY <3>1, <3>2
  <2>2. CASE ~(i <= Len(l))
    <3>1. i - Len(l) \in 1..Len(new)
      BY <1>1, <1>7, <2>2
    <3>2. all[i] = new[i - Len(l)]
      BY <1>7, <2>2, Zenon
    <3> QED
      BY <3>1, <3>2
  <2> QED
    BY <2>1, <2>2
<1>9. ASSUME NEW i \in 1..Len(all), NEW j \in 1..Len(all), all[i] = all[j]
      PROVE  i = j
  <2>1. CASE i \in 1..Len(l) /\ j \in 1..Len(l) /\ all[i] = l[i] /\ all[j] = l[j]
    BY <1>9, <2>1 DEF Distinct
  <2>2. CASE /\ i - Len(l) \in 1..Len(new) /\ all[i] = new[i - Len(l)]
             /\ j - Len(l) \in 1..Len(new) /\ all[j] = new[j - Len(l)]
    <3> DEFINE p == i - Len(l)
               q == j - Len(l)
    <3>1. p \in 1..Len(new) /\ q \in 1..Len(new) /\ new[p] = new[q]
      BY <1>9, <2>2
    <3>2. a + p \in 1..Len(g) /\ a + q \in 1..Len(g) /\ g[a + p] = g[a + q]
      BY <1>5, <3>1
    <3>3. a + p = a + q
      BY <3>2 DEF Distinct
    <3>4. p = q
      BY <1>1, <3>1, <3>3
    <3> QED
      BY <1>1, <3>4
  <2>3. CASE i \in 1..Len(l) /\ all[i] = l[i] /\ j - Len(l) \in 1..Len(new) /\ all[j] = new[j - Len(l)]
    BY <1>6, <1>9, <2>3
  <2>4. CASE j \in 1..Len(l) /\ all[j] = l[j] /\ i - Len(l) \in 1..Len(new) /\ all[i] = new[i - Len(l)]
    BY <1>6, <1>9, <2>4
  <2> QED
    BY <1>8, <2>1, <2>2, <2>3, <2>4
<1>10. Only(all, own) = Part(g, 0, b)
  <2>1. Only(all, own) = Only(l, own) \o Only(new, own)
    BY <1>13
  <2>2. Only(new, own) = new
    <3>1. new \in Seq(own)
      <4>1. new = [i \in 1..Len(new) |-> new[i]] /\ Len(new) \in Nat
        BY <1>2, <1>7
      <4>2. \A i \in 1..Len(new) : new[i] \in own
        BY <1>5
      <4>3. [i \in 1..Len(new) |-> new[i]] \in [1..Len(new) -> own]
        BY <4>2
      <4>4. new \in [1..Len(new) -> own]
        BY <4>1, <4>3
      <4>5. \A n \in Nat : [1..n -> own] \subseteq Seq(own)
        OBVIOUS
      <4> QED
        BY <1>7, <4>4, <4>5
    <3> QED
      BY <3>1, OnlyAll
  <2>3. Only(l, own) = Part(g, 0, a)
    BY DEF own
  <2>4. Part(g, 0, a) \o Part(g, a, b) = Part(g, 0, b)
    <3>1. 0 \in 0..a
      BY <1>1
    <3> QED
      BY <3>1, PartJoin
  <2> QED
    BY <2>1, <2>2, <2>3, <2>4 DEF new
<1>11. ASSUME NEW L, own \cap L = {}
       PROVE  Only(all, L) = Only(l, L)
  <2>1. Only(all, L) = Only(l, L) \o Only(new, L)
    BY <1>13
  <2>2. Only(new, L) = <<>>
    <3>1. \A i \in 1..Len(new) : new[i] \notin L
      BY <1>5, <1>11
    <3> QED
      BY <1>2, <3>1, OnlyNone
  <2>3. Only(l, L) \in Seq(Nat)
    BY OnlyType
  <2> QED
    BY <2>1, <2>2, <2>3, ConcatEmptySeq
<1>12. \A i \in 1..Len(all) : (\E j \in 1..Len(l) : all[i] = l[j]) \/ all[i] \in own
  BY <1>5, <1>8
<1> QED
  BY <1>2, <1>7, <1>9, <1>10, <1>11, <1>12 DEF Distinct, all, new, own

-----------------------------------------------------------------------------
\* LoggedOnce is not inductive either.  What the log has of a connection is what was
\* read of it, and what is read is the front of what was handed to the stream: of
\* that a session is what a session of those units would be.

\* No more events than calls.
EventsBounded ==
  /\ round \in 0..Rounds /\ calls \in 0..Events
  /\ event <= round * Events + calls

\* Each event is handed to one stream, once.
GivenOnce ==
  /\ \A c \in DOMAIN conns : \A i \in 1..Len(conns[c].given) : conns[c].given[i] \in 1..event
  /\ \A c, d \in DOMAIN conns :
       \A i \in 1..Len(conns[c].given) : \A j \in 1..Len(conns[d].given) :
         conns[c].given[i] = conns[d].given[j] => c = d /\ i = j

ReadIsFront ==
  \A c \in DOMAIN conns :
    /\ Len(conns[c].read) <= Len(Whole(conns[c].given))
    /\ conns[c].read = Part(Whole(conns[c].given), 0, Len(conns[c].read))

SessionsHold ==
  sessions = [c \in DOMAIN conns |-> Held(conns[c].read, Len(conns[c].read))]

LogHas(l, c) == Only(l, Range(conns[c].given)) = Part(conns[c].given, 0, Ends(Len(conns[c].read)))

LogFits ==
  /\ log \in Seq(Nat)
  /\ \A i \in 1..Len(log) : log[i] \in 1..event
  /\ Distinct(log)
  /\ \A c \in DOMAIN conns : LogHas(log, c)

LogInv == GivenOnce /\ ReadIsFront /\ SessionsHold /\ LogFits

\* The events that a stream's front can have are no more than were handed to it.
LEMMA EndsBound ==
  ASSUME NEW given \in Seq(Nat), NEW n \in Nat, n <= Len(Whole(given))
  PROVE  Ends(n) \in 0..Len(given)
<1>1. PICK m \in Nat : m = Len(given)
  BY LenProperties
<1>2. n <= 2 * m + 2
  BY <1>1, WholeTyped
<1>3. n >= 2 => (n - 2) \div 2 \in 0..m
  BY <1>2
<1> QED
  BY <1>1, <1>3 DEF Ends

\* Sequences that begin alike have the same front.
LEMMA SameFront ==
  ASSUME NEW S, NEW s \in Seq(S), NEW t \in Seq(S), NEW n \in Nat, n <= Len(s), n <= Len(t),
         \A i \in 1..n : s[i] = t[i]
  PROVE  Part(s, 0, n) = Part(t, 0, n)
<1>1. n \in 0..Len(s) /\ n \in 0..Len(t)
  BY LenProperties
<1>2. /\ Part(s, 0, n) \in Seq(S) /\ Len(Part(s, 0, n)) = n
      /\ \A i \in 1..n : Part(s, 0, n)[i] = s[i]
  BY <1>1, FrontIs
<1>3. /\ Part(t, 0, n) \in Seq(S) /\ Len(Part(t, 0, n)) = n
      /\ \A i \in 1..n : Part(t, 0, n)[i] = t[i]
  BY <1>1, FrontIs
<1> HIDE DEF Part
<1> QED
  BY <1>2, <1>3, SeqEqual

\* The parts of a sequence that is put together of three.
LEMMA PartsOfThree ==
  ASSUME NEW S, NEW x \in Seq(S), NEW y \in Seq(S), NEW z \in Seq(S)
  PROVE  /\ Len(x) + Len(y) \in 0..Len(x \o y \o z)
         /\ Len(x) \in 0..(Len(x) + Len(y))
         /\ x \o y \in Seq(S) /\ Len(x \o y) = Len(x) + Len(y)
         /\ x = Part(x \o y \o z, 0, Len(x))
         /\ y = Part(x \o y \o z, Len(x), Len(x) + Len(y))
         /\ x \o y = Part(x \o y \o z, 0, Len(x) + Len(y))
<1> DEFINE f == x \o y
           w == f \o z
           t == Len(x)
           u == Len(x) + Len(y)
<1>1. /\ f \in Seq(S) /\ Len(f) = u
      /\ \A i \in 1..u : f[i] = IF i <= t THEN x[i] ELSE y[i - t]
  BY ConcatProperties
<1>2. Len(x) \in Nat /\ Len(y) \in Nat /\ Len(z) \in Nat /\ t \in Nat /\ u \in Nat /\ t <= u
      /\ u - t = Len(y)
  BY LenProperties
<1> HIDE DEF f
<1>3. /\ w \in Seq(S) /\ Len(w) = u + Len(z)
      /\ \A i \in 1..(u + Len(z)) : w[i] = IF i <= u THEN f[i] ELSE z[i - u]
  <2>1. /\ w \in Seq(S) /\ Len(w) = Len(f) + Len(z)
        /\ \A i \in 1..(Len(f) + Len(z)) : w[i] = IF i <= Len(f) THEN f[i] ELSE z[i - Len(f)]
    <3>1. f \in Seq(S) /\ z \in Seq(S)
      BY <1>1
    <3> QED
      BY <3>1, ConcatProperties
  <2>2. Len(f) = u
    BY <1>1
  <2> HIDE DEF w, u
  <2> QED
    BY <2>1, <2>2
<1>4. u \in 0..Len(w) /\ t \in 0..u /\ t \in 0..Len(w)
  BY <1>2, <1>3
<1> HIDE DEF w
<1>5. /\ Part(w, 0, t) \in Seq(S) /\ Len(Part(w, 0, t)) = t
      /\ \A i \in 1..t : Part(w, 0, t)[i] = w[i]
  BY <1>3, <1>4, FrontIs
<1>6. /\ Part(w, t, u) \in Seq(S) /\ Len(Part(w, t, u)) = u - t
      /\ \A i \in 1..(u - t) : Part(w, t, u)[i] = w[t + i]
  BY <1>3, <1>4, PartIs, ZenonT(30)
<1>7. /\ Part(w, 0, u) \in Seq(S) /\ Len(Part(w, 0, u)) = u
      /\ \A i \in 1..u : Part(w, 0, u)[i] = w[i]
  BY <1>3, <1>4, FrontIs
<1> HIDE DEF Part
<1>8. x = Part(w, 0, t)
  <2>1. \A i \in 1..t : i \in 1..u /\ i \in 1..(u + Len(z)) /\ i <= u /\ i <= t
    BY <1>2
  <2>2. \A i \in 1..t : x[i] = Part(w, 0, t)[i]
    BY <1>1, <1>3, <1>5, <2>1
  <2> QED
    BY <1>5, <2>2, SeqEqual
<1>9. y = Part(w, t, u)
  <2>1. ASSUME NEW i \in 1..Len(y)
        PROVE  /\ t + i \in 1..u /\ t + i \in 1..(u + Len(z)) /\ t + i <= u /\ ~(t + i <= t)
               /\ (t + i) - t = i /\ i \in 1..(u - t)
    <3> HIDE DEF t, u
    <3> QED
      BY <1>2
  <2>2. ASSUME NEW i \in 1..Len(y)
        PROVE  y[i] = Part(w, t, u)[i]
    <3> HIDE DEF t, u
    <3>1. f[t + i] = y[i]
      BY <1>1, <2>1
    <3>2. w[t + i] = f[t + i]
      BY <1>3, <2>1
    <3>3. Part(w, t, u)[i] = w[t + i]
      BY <1>6, <2>1
    <3> QED
      BY <3>1, <3>2, <3>3
  <2> QED
    BY <1>2, <1>6, <2>2, SeqEqual
<1>10. f = Part(w, 0, u)
  <2>1. \A i \in 1..u : i \in 1..(u + Len(z)) /\ i <= u
    BY <1>2
  <2>2. \A i \in 1..u : f[i] = Part(w, 0, u)[i]
    BY <1>3, <1>7, <2>1
  <2> QED
    BY <1>1, <1>7, <2>2, SeqEqual
<1> QED
  BY <1>1, <1>4, <1>8, <1>9, <1>10 DEF w, f

\* Steps that leave the log, what was read and what was given as they are.
LEMMA QuietLog ==
  ASSUME LogInv, event \in Nat, event' \in Nat, event <= event',
         UNCHANGED <<log, sessions>>, DOMAIN conns' = DOMAIN conns,
         \A c \in DOMAIN conns : /\ conns'[c].read = conns[c].read
                                 /\ conns'[c].given = conns[c].given
  PROVE  LogInv'
<1>1. GivenOnce'
  <2>1. \A i : i \in 1..event => i \in 1..event'
    OBVIOUS
  <2>2. \A c \in DOMAIN conns' : \A i \in 1..Len(conns'[c].given) : conns'[c].given[i] \in 1..event'
    BY <2>1 DEF LogInv, GivenOnce
  <2>3. \A c, d \in DOMAIN conns' :
          \A i \in 1..Len(conns'[c].given) : \A j \in 1..Len(conns'[d].given) :
            conns'[c].given[i] = conns'[d].given[j] => c = d /\ i = j
    BY SMTT(30) DEF LogInv, GivenOnce
  <2> QED
    BY <2>2, <2>3 DEF GivenOnce
<1>2. ReadIsFront'
  BY DEF LogInv, ReadIsFront
<1>3. SessionsHold'
  <2>1. \A c \in DOMAIN conns : Held(conns'[c].read, Len(conns'[c].read))
                                  = Held(conns[c].read, Len(conns[c].read))
    OBVIOUS
  <2> QED
    BY <2>1 DEF LogInv, SessionsHold
<1>4. LogFits'
  <2>1. \A i : i \in 1..event => i \in 1..event'
    OBVIOUS
  <2>2. \A c \in DOMAIN conns' : LogHas(log, c)'
    BY DEF LogInv, LogFits, LogHas
  <2> QED
    BY <2>1, <2>2 DEF LogInv, LogFits
<1> QED
  BY <1>1, <1>2, <1>3, <1>4 DEF LogInv

\* An event that is new is in no log.
LEMMA NewIsNotLogged ==
  ASSUME LogInv, event \in Nat, NEW given \in Seq(Nat)
  PROVE  Only(log, Range(Append(given, event + 1))) = Only(log, Range(given))
<1> DEFINE e == event + 1
           more == Append(given, e)
<1>1. /\ e \in Nat /\ more \in Seq(Nat) /\ Len(more) = Len(given) + 1 /\ Len(given) \in Nat
      /\ \A i \in 1..Len(given) : more[i] = given[i]
      /\ more[Len(given) + 1] = e
  BY AppendProperties, LenProperties
<1> HIDE DEF e, more
<1>2. /\ Range(more) = {more[i] : i \in 1..Len(more)}
      /\ Range(given) = {given[i] : i \in 1..Len(given)}
  BY <1>1, LenProperties DEF Range
<1>3. \A x : x \in Range(more) <=> x \in Range(given) \/ x = e
  <2>1. \A i \in 1..Len(more) : i \in 1..Len(given) \/ i = Len(given) + 1
    BY <1>1
  <2>2. \A i \in 1..Len(given) : i \in 1..Len(more)
    BY <1>1
  <2>3. Len(given) + 1 \in 1..Len(more)
    BY <1>1
  <2> QED
    BY <1>1, <1>2, <2>1, <2>2, <2>3
<1>4. log \in Seq(Nat) /\ \A i \in 1..Len(log) : log[i] # e
  <2>1. \A x \in 1..event : x # e
    BY DEF e
  <2> QED
    BY <2>1 DEF LogInv, LogFits
<1>5. \A i \in 1..Len(log) : log[i] \in Range(more) <=> log[i] \in Range(given)
  BY <1>3, <1>4
<1> QED
  <2>1. Only(log, Range(more)) = Only(log, Range(given))
    BY <1>4, <1>5, OnlySame
  <2> QED
    BY <2>1 DEF more, e

\* The units of a stream that is handed one event more are what they were.
LEMMA FrontOfNext ==
  ASSUME NEW given \in Seq(Nat), NEW e \in Nat, NEW n \in Nat, n <= Len(Whole(given))
  PROVE  /\ n <= Len(Whole(Append(given, e)))
         /\ Part(Whole(Append(given, e)), 0, n) = Part(Whole(given), 0, n)
         /\ \A k \in 0..Len(given) : Part(Append(given, e), 0, k) = Part(given, 0, k)
<1> DEFINE more == Append(given, e)
           w == Whole(given)
           v == Whole(more)
           u == Units(e)
<1>1. /\ more \in Seq(Nat) /\ Len(more) = Len(given) + 1 /\ Len(given) \in Nat
      /\ \A i \in 1..Len(given) : more[i] = given[i]
  BY AppendProperties, LenProperties
<1>2. w \in Seq(AnyUnit) /\ u \in Seq(AnyUnit) /\ v = w \o u
  BY WholeTyped, WholeOfNext
<1> HIDE DEF w, v, u, more
<1>3. /\ v \in Seq(AnyUnit) /\ Len(v) = Len(w) + Len(u)
      /\ \A i \in 1..(Len(w) + Len(u)) : v[i] = IF i <= Len(w) THEN w[i] ELSE u[i - Len(w)]
  BY <1>2, ConcatProperties
<1>4. Len(w) \in Nat /\ Len(u) \in Nat /\ n <= Len(w)
  BY <1>2, LenProperties DEF w
<1>5. n <= Len(v) /\ \A i \in 1..n : v[i] = w[i]
  BY <1>3, <1>4
<1>6. Part(v, 0, n) = Part(w, 0, n)
  BY <1>2, <1>3, <1>4, <1>5, SameFront
<1>7. ASSUME NEW k \in 0..Len(given)
      PROVE  Part(more, 0, k) = Part(given, 0, k)
  <2>1. k \in Nat /\ k <= Len(given) /\ k <= Len(more)
    BY <1>1
  <2>2. \A i \in 1..k : i \in 1..Len(given)
    BY <1>1
  <2> QED
    BY <1>1, <2>1, <2>2, SameFront
<1> QED
  BY <1>5, <1>6, <1>7 DEF w, v, more

LEMMA WriteLog ==
  ASSUME IInv, LogInv, WriteEvent
  PROVE  LogInv'
<1> DEFINE e == event + 1
           given == conns[oos].given
           more == Append(given, e)
           new == [conns[oos] EXCEPT !.given = more]
<1>1. /\ oos # 0 /\ event' = e /\ UNCHANGED <<log, sessions>>
      /\ conns' = [conns EXCEPT ![oos] = new]
  BY DEF WriteEvent, NextEvent, server
<1>2. /\ oos \in DOMAIN conns /\ event \in Nat /\ e \in Nat /\ e \in 1..e
      /\ \A i : i \in 1..event => i \in 1..e /\ i # e
  BY <1>1, OosIsConn DEF IInv, Typed
<1>3. conns[oos] \in Connection /\ given \in Seq(Nat)
  BY <1>2, Fields DEF IInv
<1> HIDE DEF e
<1>4. /\ more \in Seq(Nat) /\ Len(more) = Len(given) + 1 /\ Len(given) \in Nat
      /\ \A i \in 1..Len(given) : more[i] = given[i]
      /\ more[Len(given) + 1] = e
  <2>1. given \in Seq(Nat) /\ e \in Nat
    BY <1>2, <1>3
  <2> HIDE DEF given
  <2> QED
    BY <2>1, AppendProperties, LenProperties
<1>5. /\ new \in Connection /\ new.read = conns[oos].read /\ new.given = more
  BY <1>3, <1>4 DEF Connection
<1> HIDE DEF new
<1>6. /\ DOMAIN conns' = DOMAIN conns
      /\ \A c \in DOMAIN conns : conns'[c] = IF c = oos THEN new ELSE conns[c]
  BY <1>1, <1>2, <1>5, Changed DEF IInv
<1>7. \A c \in DOMAIN conns : /\ conns'[c].read = conns[c].read
                              /\ c # oos => conns'[c].given = conns[c].given
  BY <1>5, <1>6
<1>8. conns'[oos].given = more
  BY <1>2, <1>5, <1>6
<1> HIDE DEF more
<1>9. \A i \in 1..Len(more) : i \in 1..Len(given) \/ i = Len(given) + 1
  BY <1>4
<1>10. GivenOnce'
  <2>1. ASSUME NEW c \in DOMAIN conns, NEW i \in 1..Len(conns'[c].given)
        PROVE  \/ i \in 1..Len(conns[c].given) /\ conns'[c].given[i] = conns[c].given[i]
               \/ c = oos /\ i = Len(given) + 1 /\ conns'[c].given[i] = e
    <3>1. CASE c = oos
      BY <1>4, <1>8, <1>9, <2>1, <3>1
    <3>2. CASE c # oos
      BY <1>7, <2>1, <3>2
    <3> QED
      BY <3>1, <3>2
  <2>2. \A c \in DOMAIN conns : \A i \in 1..Len(conns[c].given) : conns[c].given[i] \in 1..event
    BY DEF LogInv, GivenOnce
  <2>4. \A c \in DOMAIN conns : \A i \in 1..Len(conns'[c].given) : conns'[c].given[i] \in 1..e
    BY <1>2, <2>1, <2>2
  <2>5. ASSUME NEW c \in DOMAIN conns, NEW d \in DOMAIN conns,
               NEW i \in 1..Len(conns'[c].given), NEW j \in 1..Len(conns'[d].given),
               conns'[c].given[i] = conns'[d].given[j]
        PROVE  c = d /\ i = j
    <3> DEFINE Old(x, k) == /\ k \in 1..Len(conns[x].given)
                            /\ conns'[x].given[k] = conns[x].given[k]
               Newest(x, k) == /\ x = oos /\ k = Len(given) + 1
                               /\ conns'[x].given[k] = e
    <3>1. (Old(c, i) \/ Newest(c, i)) /\ (Old(d, j) \/ Newest(d, j))
      BY <2>1
    <3>2. CASE Old(c, i) /\ Old(d, j)
      <4>1. /\ i \in 1..Len(conns[c].given) /\ j \in 1..Len(conns[d].given)
            /\ conns[c].given[i] = conns[d].given[j]
        BY <2>5, <3>2
      <4>2. \A x, y \in DOMAIN conns :
              \A k \in 1..Len(conns[x].given) : \A l \in 1..Len(conns[y].given) :
                conns[x].given[k] = conns[y].given[l] => x = y /\ k = l
        BY DEF LogInv, GivenOnce
      <4> QED
        BY <4>1, <4>2
    <3>3. CASE Newest(c, i) /\ Newest(d, j)
      BY <3>3
    <3>4. CASE Old(c, i) /\ Newest(d, j)
      BY <1>2, <2>2, <2>5, <3>4
    <3>5. CASE Newest(c, i) /\ Old(d, j)
      BY <1>2, <2>2, <2>5, <3>5
    <3> QED
      BY <3>1, <3>2, <3>3, <3>4, <3>5
  <2> QED
    BY <1>1, <1>6, <2>4, <2>5 DEF GivenOnce
<1>11. ReadIsFront'
  <2>1. ASSUME NEW c \in DOMAIN conns
        PROVE  /\ Len(conns[c].read) <= Len(Whole(conns'[c].given))
               /\ conns[c].read = Part(Whole(conns'[c].given), 0, Len(conns[c].read))
    <3>1. /\ Len(conns[c].read) <= Len(Whole(conns[c].given))
          /\ conns[c].read = Part(Whole(conns[c].given), 0, Len(conns[c].read))
      BY DEF LogInv, ReadIsFront
    <3>2. CASE c = oos
      <4>1. Len(conns[c].read) \in Nat
        BY Fields, LenProperties DEF IInv
      <4> DEFINE n == Len(conns[c].read)
      <4>2. n \in Nat /\ n <= Len(Whole(given))
        BY <3>1, <3>2, <4>1
      <4> HIDE DEF n, given
      <4>3. n <= Len(Whole(more)) /\ Part(Whole(more), 0, n) = Part(Whole(given), 0, n)
        BY <1>2, <1>3, <4>2, FrontOfNext DEF more
      <4> QED
        BY <1>8, <3>1, <3>2, <4>3 DEF n, given
    <3>3. CASE c # oos
      BY <1>7, <3>1, <3>3
    <3> QED
      BY <3>2, <3>3
  <2> QED
    BY <1>6, <1>7, <2>1 DEF ReadIsFront
<1>12. SessionsHold'
  <2>1. \A c \in DOMAIN conns : Held(conns'[c].read, Len(conns'[c].read))
                                  = Held(conns[c].read, Len(conns[c].read))
    BY <1>7
  <2> QED
    BY <1>1, <1>6, <2>1 DEF LogInv, SessionsHold
<1>13. ASSUME NEW c \in DOMAIN conns
       PROVE  Only(log, Range(conns'[c].given)) = Part(conns'[c].given, 0, Ends(Len(conns[c].read)))
  <2>1. Only(log, Range(conns[c].given)) = Part(conns[c].given, 0, Ends(Len(conns[c].read)))
    BY DEF LogInv, LogFits, LogHas
  <2>2. CASE c = oos
    <3> DEFINE k == Ends(Len(conns[c].read))
    <3>1. k \in 0..Len(given)
      <4>1. Len(conns[c].read) \in Nat /\ Len(conns[c].read) <= Len(Whole(given))
        BY <2>2, Fields, LenProperties DEF IInv, LogInv, ReadIsFront
      <4> QED
        BY <1>3, <4>1, EndsBound
    <3> HIDE DEF k, given
    <3>2. Part(more, 0, k) = Part(given, 0, k)
      <4>1. 0 \in Nat /\ 0 <= Len(Whole(given))
        BY <1>3, WholeTyped, LenProperties
      <4> QED
        BY <1>2, <1>3, <3>1, <4>1, FrontOfNext DEF more
    <3>3. Only(log, Range(more)) = Only(log, Range(given))
      BY <1>2, <1>3, NewIsNotLogged DEF more, e
    <3> QED
      BY <1>8, <2>1, <2>2, <3>2, <3>3 DEF k, given
  <2>3. CASE c # oos
    BY <1>7, <2>1, <2>3
  <2> QED
    BY <2>2, <2>3
<1>14. LogFits'
  <2>1. \A c \in DOMAIN conns' : LogHas(log, c)'
    BY <1>1, <1>6, <1>7, <1>13 DEF LogHas
  <2> QED
    BY <1>1, <1>2, <2>1 DEF LogInv, LogFits
<1> QED
  BY <1>10, <1>11, <1>12, <1>14 DEF LogInv

\* A new stream, of no event or of the first.
LEMMA OpenLog ==
  ASSUME IInv, LogInv, NEW given \in {<<>>, <<event + 1>>}, OpenStream(given), UNCHANGED log,
         event' = event + Len(given)
  PROVE  LogInv'
<1> DEFINE new == [NewConn EXCEPT !.given = given]
           n == Len(conns)
           e == event + 1
<1>1. n \in Nat /\ DOMAIN conns = 1..n /\ conns \in Seq(Connection) /\ event \in Nat
  BY LenProperties DEF IInv, Typed
<1>2. e \in Nat /\ (\A i : i \in 1..event => i \in 1..event' /\ i # e) /\ event' \in Nat
      /\ \A i \in 1..Len(given) : i = 1 /\ given[i] = e /\ given[i] \in 1..event'
  BY <1>1
<1> HIDE DEF e
<1>3. given \in Seq(Nat) /\ Len(given) \in Nat
  <2>1. given = <<>> \/ given = <<e>>
    BY DEF e
  <2>2. <<>> \in Seq(Nat) /\ <<e>> \in Seq(Nat)
    BY <1>2
  <2> QED
    BY <2>1, <2>2, LenProperties
<1>4. new \in Connection /\ new.read = <<>> /\ new.given = given
  BY <1>3, EmptySeq DEF NewConn, Connection
<1>5. conns' = Append(conns, new) /\ sessions' = Append(sessions, FreshSession)
  BY DEF OpenStream
<1> HIDE DEF new, n
<1>6. /\ DOMAIN conns' = 1..(n + 1)
      /\ \A c \in 1..n : conns'[c] = conns[c]
      /\ conns'[n + 1] = new
  BY <1>1, <1>4, <1>5, AppendProperties, LenProperties DEF n
<1>7. \A c \in 1..(n + 1) : (c \in 1..n /\ c # n + 1) \/ c = n + 1
  BY <1>1
<1>8. GivenOnce'
  <2>1. \A c \in 1..n : \A i \in 1..Len(conns[c].given) : conns[c].given[i] \in 1..event
    BY <1>1 DEF LogInv, GivenOnce
  <2>2. \A c, d \in 1..n :
          \A i \in 1..Len(conns[c].given) : \A j \in 1..Len(conns[d].given) :
            conns[c].given[i] = conns[d].given[j] => c = d /\ i = j
    BY <1>1 DEF LogInv, GivenOnce
  <2>3. ASSUME NEW c \in 1..(n + 1), NEW i \in 1..Len(conns'[c].given)
        PROVE  \/ /\ c \in 1..n /\ i \in 1..Len(conns[c].given)
                  /\ conns'[c].given[i] = conns[c].given[i] /\ conns'[c].given[i] # e
               \/ c = n + 1 /\ i = 1 /\ conns'[c].given[i] = e
    <3>1. CASE c \in 1..n
      BY <1>2, <1>6, <2>1, <2>3, <3>1
    <3>2. CASE c = n + 1
      BY <1>2, <1>4, <1>6, <2>3, <3>2
    <3> QED
      BY <1>7, <3>1, <3>2
  <2>4. ASSUME NEW c \in 1..(n + 1), NEW i \in 1..Len(conns'[c].given)
        PROVE  conns'[c].given[i] \in 1..event'
    <3>1. CASE c \in 1..n
      BY <1>2, <1>6, <2>1, <2>4, <3>1
    <3>2. CASE c = n + 1
      BY <1>2, <1>4, <1>6, <2>4, <3>2
    <3> QED
      BY <1>7, <3>1, <3>2
  <2>5. ASSUME NEW c \in 1..(n + 1), NEW d \in 1..(n + 1),
               NEW i \in 1..Len(conns'[c].given), NEW j \in 1..Len(conns'[d].given),
               conns'[c].given[i] = conns'[d].given[j]
        PROVE  c = d /\ i = j
    <3> DEFINE Old(x, k) == /\ x \in 1..n /\ k \in 1..Len(conns[x].given)
                            /\ conns'[x].given[k] = conns[x].given[k] /\ conns'[x].given[k] # e
               First(x, k) == x = n + 1 /\ k = 1 /\ conns'[x].given[k] = e
    <3>1. (Old(c, i) \/ First(c, i)) /\ (Old(d, j) \/ First(d, j))
      BY <2>3
    <3>2. CASE Old(c, i) /\ Old(d, j)
      <4>1. /\ c \in 1..n /\ d \in 1..n
            /\ i \in 1..Len(conns[c].given) /\ j \in 1..Len(conns[d].given)
            /\ conns[c].given[i] = conns[d].given[j]
        BY <2>5, <3>2
      <4> QED
        BY <2>2, <4>1, SMTT(30)
    <3>3. CASE First(c, i) /\ First(d, j)
      BY <3>3
    <3> QED
      BY <2>5, <3>1, <3>2, <3>3
  <2> QED
    BY <1>6, <2>4, <2>5 DEF GivenOnce
<1>9. ReadIsFront'
  <2>1. Len(<<>>) = 0 /\ 0 <= Len(Whole(given)) /\ <<>> = Part(Whole(given), 0, 0)
    <3>1. Whole(given) \in Seq(AnyUnit) /\ Len(Whole(given)) \in Nat
      BY <1>3, WholeTyped, LenProperties
    <3>2. 0 \in 0..Len(Whole(given))
      BY <3>1
    <3>3. Part(Whole(given), 0, 0) \in Seq(AnyUnit) /\ Len(Part(Whole(given), 0, 0)) = 0
      BY <3>1, <3>2, FrontIs
    <3> QED
      BY <3>1, <3>3, EmptySeq
  <2>2. \A c \in 1..n : /\ Len(conns[c].read) <= Len(Whole(conns[c].given))
                        /\ conns[c].read = Part(Whole(conns[c].given), 0, Len(conns[c].read))
    BY <1>1 DEF LogInv, ReadIsFront
  <2> QED
    BY <1>4, <1>6, <1>7, <2>1, <2>2 DEF ReadIsFront
<1>10. SessionsHold'
  <2>1. Held(<<>>, 0) = FreshSession
    <3>1. SubSeq(<<>>, 1, 0) = <<>>
      BY EmptySeq, SubSeqEmpty
    <3> QED
      BY <3>1 DEF Held, FreshSession, Part, MarkerLen
  <2> DEFINE H(c) == Held(conns[c].read, Len(conns[c].read))
             S == {H(c) : c \in 1..n} \cup {FreshSession}
  <2>2. sessions = [c \in 1..n |-> H(c)]
    BY <1>1 DEF LogInv, SessionsHold
  <2>3. Held(conns'[n + 1].read, Len(conns'[n + 1].read)) = FreshSession
    BY <1>4, <1>6, <2>1
  <2> HIDE DEF H
  <2>4. sessions \in Seq(S) /\ Len(sessions) = n /\ FreshSession \in S
    <3>1. \A c \in 1..n : H(c) \in S
      OBVIOUS
    <3> HIDE DEF S
    <3>2. sessions \in Seq(S) /\ Len(sessions) = n
      BY <1>1, <2>2, <3>1
    <3> QED
      BY <3>2 DEF S
  <2> HIDE DEF S
  <2>5. \A c \in 1..n : sessions[c] = H(c)
    BY <2>2
  <2>6. /\ sessions' \in Seq(S) /\ Len(sessions') = n + 1
        /\ \A c \in 1..n : sessions'[c] = H(c)
        /\ sessions'[n + 1] = FreshSession
    BY <1>5, <2>4, <2>5, AppendProperties
  <2>7. DOMAIN sessions' = 1..(n + 1)
    BY <2>6, LenProperties
  <2>8. \A c \in 1..(n + 1) : sessions'[c] = Held(conns'[c].read, Len(conns'[c].read))
    BY <1>6, <1>7, <2>3, <2>6 DEF H
  <2>9. sessions' = [c \in 1..(n + 1) |-> sessions'[c]]
    BY <2>6, <2>7
  <2> QED
    BY <1>6, <2>8, <2>9 DEF SessionsHold
<1>11. LogFits'
  <2>1. Only(log, Range(given)) = <<>>
    <3>1. \A i \in 1..Len(log) : log[i] \in 1..event
      BY DEF LogInv, LogFits
    <3>2. \A x \in Range(given) : x = e
      BY <1>2, <1>3, LenProperties DEF Range
    <3>3. \A i \in 1..Len(log) : log[i] \notin Range(given)
      BY <1>2, <3>1, <3>2
    <3>4. log \in Seq(Nat)
      BY DEF LogInv, LogFits
    <3> QED
      BY <3>3, <3>4, OnlyNone
  <2>2. Part(given, 0, Ends(Len(<<>>))) = <<>>
    <3>1. Ends(Len(<<>>)) = 0
      BY DEF Ends
    <3>2. 0 \in 0..Len(given)
      BY <1>3
    <3>3. Part(given, 0, 0) \in Seq(Nat) /\ Len(Part(given, 0, 0)) = 0
      BY <1>3, <3>2, FrontIs
    <3> QED
      BY <3>1, <3>3, EmptySeq
  <2>3. ASSUME NEW c \in 1..(n + 1)
        PROVE  LogHas(log, c)'
    <3>1. CASE c = n + 1
      BY <1>4, <1>6, <2>1, <2>2, <3>1 DEF LogHas
    <3>2. CASE c \in 1..n
      <4>1. LogHas(log, c)
        BY <1>1, <3>2 DEF LogInv, LogFits
      <4> QED
        BY <1>6, <3>2, <4>1 DEF LogHas
    <3> QED
      BY <1>7, <3>1, <3>2
  <2>4. \A c \in DOMAIN conns' : LogHas(log, c)'
    BY <1>6, <2>3
  <2>5. \A i \in 1..Len(log) : log[i] \in 1..event'
    BY <1>2 DEF LogInv, LogFits
  <2> QED
    BY <2>4, <2>5 DEF LogInv, LogFits
<1> QED
  BY <1>8, <1>9, <1>10, <1>11 DEF LogInv

\* recv: the log goes on with the events that end in what came.
LEMMA ReadLog ==
  ASSUME IInv, LogInv, event \in Numbers,
         NEW d \in DOMAIN conns, NEW n \in 1..Len(conns[d].wire), Read(d, n)
  PROVE  LogInv'
<1> DEFINE wire == conns[d].wire
           read == conns[d].read
           given == conns[d].given
           w == Whole(given)
           chunk == SubSeq(wire, 1, n)
           rest == SubSeq(wire, n + 1, Len(wire))
           rear == rest \o (IF d = oos THEN array ELSE <<>>)
           r == ForceLogResult(sessions[d], chunk)
           now == IF r.ok THEN conns[d].peer ELSE "gone"
           new == [conns[d] EXCEPT !.wire = rest, !.read = @ \o chunk, !.peer = now]
           front == read \o chunk
           t == Len(read)
           u == Len(read) + Len(chunk)
<1>1. /\ conns' = [conns EXCEPT ![d] = new] /\ conns[d].peer = "accepted"
      /\ sessions' = [sessions EXCEPT ![d] = r.session]
      /\ log' = log \o NumbersOf(r.events)
      /\ event' = event
  BY DEF Read, client, NumbersOf
<1>2. /\ conns[d] \in Connection /\ wire \in Seq(AnyUnit) /\ read \in Seq(AnyUnit)
      /\ given \in Seq(Nat)
  BY Fields DEF IInv
<1>3. /\ chunk \in Seq(AnyUnit) /\ rest \in Seq(AnyUnit) /\ chunk \o rest = wire
  <2>1. wire \in Seq(AnyUnit) /\ n \in 1..Len(wire)
    BY <1>2
  <2> HIDE DEF wire
  <2> QED
    BY <2>1, Halves
<1>4. now \in {"accepted", "gone"}
  BY <1>1
<1>5. Content(d) = w
  BY <1>1 DEF IInv, Conserved, Alive, Content
<1> HIDE DEF wire, read, chunk, rest, r, now, w
<1>6. w \in Seq(Token)
  <2>1. \A i \in 1..Len(given) : given[i] \in Numbers
    <3>1. \A i \in 1..Len(given) : given[i] \in 1..event
      BY DEF LogInv, GivenOnce
    <3>2. (Rounds + 1) * Events \in Nat
      BY DeliveryAssumption
    <3> QED
      BY <3>1, <3>2 DEF Numbers
  <2> HIDE DEF given
  <2> QED
    BY <1>2, <2>1, WholeIsTokens DEF w
<1>7. /\ u \in 0..Len(w) /\ t \in 0..u /\ front \in Seq(AnyUnit) /\ Len(front) = u
      /\ read = Part(w, 0, t) /\ chunk = Part(w, t, u) /\ front = Part(w, 0, u)
  <2> DEFINE buffered == IF d = oos THEN array ELSE <<>>
  <2>1. rest \in Seq(AnyUnit) /\ buffered \in Seq(AnyUnit)
    BY <1>3, EmptySeq DEF IInv, Typed
  <2>2. Content(d) = read \o (chunk \o rest) \o buffered
    BY <1>3 DEF Content, wire, read
  <2> HIDE DEF buffered
  <2>3. rear \in Seq(AnyUnit)
    BY <2>1, ConcatProperties DEF buffered
  <2>4. w = read \o chunk \o rear
    <3>1. read \in Seq(AnyUnit) /\ chunk \in Seq(AnyUnit)
      BY <1>2, <1>3
    <3>2. read \o (chunk \o rest) \o buffered = read \o chunk \o (rest \o buffered)
      <4>1. front \in Seq(AnyUnit)
        BY <3>1, ConcatProperties
      <4>2. read \o (chunk \o rest) = front \o rest
        BY <2>1, <3>1, Associative, SMTT(30)
      <4> HIDE DEF front
      <4>3. front \o rest \o buffered = front \o (rest \o buffered)
        BY <2>1, <4>1, Associative, SMTT(30)
      <4> QED
        BY <4>2, <4>3 DEF front
    <3> QED
      BY <1>5, <2>2, <3>2 DEF buffered
  <2> HIDE DEF rear
  <2> QED
    <3>1. read \in Seq(AnyUnit) /\ chunk \in Seq(AnyUnit)
      BY <1>2, <1>3
    <3> HIDE DEF rear
    <3>2. /\ Len(read) + Len(chunk) \in 0..Len(read \o chunk \o rear)
          /\ Len(read) \in 0..(Len(read) + Len(chunk))
          /\ read \o chunk \in Seq(AnyUnit) /\ Len(read \o chunk) = Len(read) + Len(chunk)
          /\ read = Part(read \o chunk \o rear, 0, Len(read))
          /\ chunk = Part(read \o chunk \o rear, Len(read), Len(read) + Len(chunk))
          /\ read \o chunk = Part(read \o chunk \o rear, 0, Len(read) + Len(chunk))
      BY <2>3, <3>1, PartsOfThree, SMTT(60)
    <3> QED
      BY <2>4, <3>2
<1>8. /\ new \in Connection /\ new.read = front /\ new.given = given
  BY <1>2, <1>3, <1>4, <1>7 DEF Connection, read
<1> HIDE DEF new
<1>9. /\ DOMAIN conns' = DOMAIN conns
      /\ \A c \in DOMAIN conns : conns'[c] = IF c = d THEN new ELSE conns[c]
  BY <1>1, <1>8, Changed DEF IInv
<1>10. \A c \in DOMAIN conns : /\ conns'[c].given = conns[c].given
                               /\ c # d => conns'[c].read = conns[c].read
  BY <1>8, <1>9
<1>11. conns'[d].read = front /\ conns'[d].given = given
  BY <1>8, <1>9
<1> HIDE DEF front, given, t, u
<1>12. t \in Nat /\ u \in Nat /\ t <= u /\ u <= Len(w) /\ Len(w) \in Nat
  BY <1>6, <1>7, LenProperties
\* What forceLog does of the chunk.
<1>13. /\ r.session = Held(front, u)
       /\ NumbersOf(r.events) = Part(given, Ends(t), Ends(u))
       /\ Ends(t) \in 0..Ends(u) /\ Ends(u) \in 0..Len(given)
  <2>1. front \in Seq(Token) /\ Len(front) = u
    BY <1>6, <1>7, FrontIs
  <2>2. Part(front, 0, t) = read /\ Part(front, t, u) = chunk
    <3>1. Part(Part(w, 0, u), 0, t) = Part(w, 0, t) /\ Part(Part(w, 0, u), t, u) = Part(w, t, u)
      <4>1. /\ 0 \in 0..u /\ t \in 0..(u - 0) /\ 0 \in 0..t /\ u \in 0..(u - 0) /\ t \in 0..u
            /\ 0 + 0 = 0 /\ 0 + t = t /\ 0 + u = u
        BY <1>12
      <4>2. Part(Part(w, 0, u), 0, t) = Part(w, 0 + 0, 0 + t)
        BY <1>6, <1>7, <4>1, PartOfPart, ZenonT(60)
      <4>3. Part(Part(w, 0, u), t, u) = Part(w, 0 + t, 0 + u)
        BY <1>6, <1>7, <4>1, PartOfPart, ZenonT(60)
      <4> QED
        BY <4>1, <4>2, <4>3
    <3> QED
      BY <1>7, <3>1
  <2>3. sessions[d] = Held(front, t)
    <3>1. sessions[d] = Held(read, t)
      BY DEF LogInv, SessionsHold, read, t
    <3>2. Held(Part(front, 0, t), t) = Held(front, t)
      BY <1>7, <2>1, HeldOfFront
    <3> QED
      BY <2>2, <3>1, <3>2
  <2>4. Marks(Permitted, front, u)
    <3>1. given \in Seq(Nat)
      BY <1>2 DEF given
    <3> QED
      BY <1>6, <1>7, <3>1, FrontMarks DEF w
  <2>5. r.session = Held(front, u) /\ r.events = Only(chunk, Permitted)
    <3>1. u \in 0..Len(front) /\ t \in 0..u
      BY <1>12, <2>1
    <3>2. LET q == ForceLogResult(Held(front, t), Part(front, t, u)) IN
          q.session = Held(front, u) /\ q.events = Only(Part(front, t, u), Permitted)
      BY <2>1, <2>4, <3>1, SessionAfter, ZenonT(60)
    <3> QED
      BY <2>2, <2>3, <3>2 DEF r
  <2>6. /\ Ends(t) \in 0..Ends(u) /\ Ends(u) \in 0..Len(given)
        /\ NumbersOf(Only(Part(w, t, u), Permitted)) = Part(given, Ends(t), Ends(u))
    <3>1. given \in Seq(Nat)
      BY <1>2 DEF given
    <3> QED
      BY <1>6, <1>7, <3>1, ChunkLogs DEF w
  <2>7. chunk = Part(w, t, u)
    BY <1>7
  <2>8. NumbersOf(r.events) = NumbersOf(Only(Part(w, t, u), Permitted))
    BY <2>5, <2>7
  <2>9. NumbersOf(r.events) = Part(given, Ends(t), Ends(u))
    <3> HIDE DEF r, NumbersOf, Part, Only
    <3> QED
      BY <2>6, <2>7, <2>8, Zenon
  <2> HIDE DEF r
  <2> QED
    BY <2>5, <2>6, <2>9, Zenon
<1>14. GivenOnce'
  <2>1. /\ event' = event /\ DOMAIN conns' = DOMAIN conns
        /\ \A c \in DOMAIN conns : conns'[c].given = conns[c].given
    BY <1>1, <1>9, <1>10, Zenon
  <2>2. GivenOnce
    BY DEF LogInv
  <2> QED
    BY ONLY <2>1, <2>2 DEF GivenOnce
<1>15. ReadIsFront'
  <2>1. \A c \in DOMAIN conns : /\ Len(conns[c].read) <= Len(Whole(conns[c].given))
                                /\ conns[c].read = Part(Whole(conns[c].given), 0, Len(conns[c].read))
    BY DEF LogInv, ReadIsFront
  <2>2. u <= Len(w) /\ front = Part(w, 0, u) /\ Len(front) = u
    BY <1>7, <1>12
  <2> QED
    BY <1>9, <1>10, <1>11, <2>1, <2>2 DEF ReadIsFront, w
<1>16. SessionsHold'
  <2>1. sessions = [c \in DOMAIN conns |-> Held(conns[c].read, Len(conns[c].read))]
    BY DEF LogInv, SessionsHold
  <2>2. sessions' = [c \in DOMAIN conns |-> IF c = d THEN r.session ELSE sessions[c]]
    BY <1>1, <2>1
  <2>3. \A c \in DOMAIN conns : (IF c = d THEN r.session ELSE sessions[c])
                                  = Held(conns'[c].read, Len(conns'[c].read))
    BY <1>7, <1>10, <1>11, <1>13, <2>1
  <2> QED
    BY <1>9, <2>2, <2>3 DEF SessionsHold
<1>17. log' = log \o Part(given, Ends(t), Ends(u))
  BY <1>1, <1>13
<1>18. /\ log \in Seq(Nat) /\ given \in Seq(Nat)
       /\ Distinct(given) /\ Distinct(log)
       /\ Only(log, Range(given)) = Part(given, 0, Ends(t))
  <2>1. Distinct(given)
    BY DEF LogInv, GivenOnce, Distinct, given
  <2>2. Only(log, Range(given)) = Part(given, 0, Ends(t))
    BY DEF LogInv, LogFits, LogHas, given, t, read
  <2> QED
    BY <1>2, <2>1, <2>2 DEF LogInv, LogFits, given
<1>19. /\ log' \in Seq(Nat)
       /\ Distinct(log')
       /\ Only(log', Range(given)) = Part(given, 0, Ends(u))
       /\ \A L : Range(given) \cap L = {} => Only(log', L) = Only(log, L)
       /\ \A i \in 1..Len(log') : (\E j \in 1..Len(log) : log'[i] = log[j]) \/ log'[i] \in Range(given)
  <2> DEFINE a == Ends(t)
             b == Ends(u)
             more == log \o Part(given, a, b)
  <2> HIDE DEF a, b
  <2>1. b \in 0..Len(given) /\ a \in 0..b /\ Only(log, Range(given)) = Part(given, 0, a)
    BY <1>13, <1>18 DEF a, b
  <2>2. /\ more \in Seq(Nat)
        /\ Distinct(more)
        /\ Only(more, Range(given)) = Part(given, 0, b)
        /\ \A L : Range(given) \cap L = {} => Only(more, L) = Only(log, L)
        /\ \A i \in 1..Len(more) : (\E j \in 1..Len(log) : more[i] = log[j]) \/ more[i] \in Range(given)
    BY <1>18, <2>1, LogGrows, SMTT(60)
  <2>3. more = log'
    BY <1>17 DEF a, b
  <2> HIDE DEF more
  <2> QED
    BY <2>2, <2>3 DEF b
<1>20. LogFits'
  <2>1. \A c \in DOMAIN conns : \A i \in 1..Len(conns[c].given) : conns[c].given[i] \in 1..event
    BY DEF LogInv, GivenOnce
  <2>2. ASSUME NEW i \in 1..Len(log')
        PROVE  log'[i] \in 1..event
    <3>1. \A x \in Range(given) : x \in 1..event
      <4>1. \A k \in 1..Len(given) : given[k] \in 1..event
        BY <2>1 DEF given
      <4> QED
        BY <1>18, <4>1, LenProperties DEF Range
    <3>2. \A j \in 1..Len(log) : log[j] \in 1..event
      BY DEF LogInv, LogFits
    <3> QED
      BY <1>19, <3>1, <3>2
  <2>3. ASSUME NEW c \in DOMAIN conns
        PROVE  LogHas(log, c)'
    <3>1. CASE c = d
      BY <1>7, <1>11, <1>19, <3>1 DEF LogHas
    <3>2. CASE c # d
      <4> DEFINE other == conns[c].given
      <4>1. Range(given) \cap Range(other) = {}
        <5>1. \A i \in 1..Len(given) : \A j \in 1..Len(other) : given[i] # other[j]
          BY <3>2 DEF LogInv, GivenOnce, given
        <5>2. other \in Seq(Nat)
          BY Fields DEF IInv
        <5> HIDE DEF other
        <5>3. /\ Range(given) = {given[i] : i \in 1..Len(given)}
              /\ Range(other) = {other[i] : i \in 1..Len(other)}
          BY <1>18, <5>2, LenProperties DEF Range
        <5> HIDE DEF given
        <5> QED
          BY <5>1, <5>3
      <4>2. Only(log', Range(other)) = Only(log, Range(other))
        BY <1>19, <4>1
      <4>3. LogHas(log, c)
        BY DEF LogInv, LogFits
      <4> QED
        BY <1>10, <3>2, <4>2, <4>3 DEF LogHas
    <3> QED
      BY <3>1, <3>2
  <2> QED
    BY <1>1, <1>9, <1>19, <2>2, <2>3 DEF LogFits
<1> QED
  BY <1>14, <1>15, <1>16, <1>20 DEF LogInv

-----------------------------------------------------------------------------
\* The steps that log nothing and hand nothing to a stream.
LEMMA PeerLog ==
  ASSUME IInv, LogInv, NEW d \in DOMAIN conns, event' = event, UNCHANGED <<log, sessions>>,
         NEW new, new.read = conns[d].read, new.given = conns[d].given,
         conns' = [conns EXCEPT ![d] = new]
  PROVE  LogInv'
<1>1. conns \in Seq(Connection) /\ event \in Nat
  BY DEF IInv, Typed
<1>2. DOMAIN conns' = DOMAIN conns
      /\ \A c \in DOMAIN conns : conns'[c] = IF c = d THEN new ELSE conns[c]
  OBVIOUS
<1>3. \A c \in DOMAIN conns : conns'[c].read = conns[c].read /\ conns'[c].given = conns[c].given
  BY <1>2
<1>4. event <= event' /\ event' \in Nat
  BY <1>1
<1> QED
  BY <1>1, <1>2, <1>3, <1>4, QuietLog

LEMMA SameConnsLog ==
  ASSUME IInv, LogInv, event' \in {event, event + 1}, UNCHANGED <<log, sessions, conns>>
  PROVE  LogInv'
<1>1. event \in Nat /\ event' \in Nat /\ event <= event'
  BY DEF IInv, Typed
<1> QED
  BY <1>1, QuietLog

LEMMA ClosedLog ==
  ASSUME IInv, LogInv, event' = event, UNCHANGED <<log, sessions>>,
         conns' = IF oos = 0 THEN conns ELSE Closed(oos)
  PROVE  LogInv'
<1>1. CASE oos = 0
  BY <1>1, SameConnsLog
<1>2. CASE oos # 0
  <2>1. oos \in DOMAIN conns
    BY <1>2, OosIsConn DEF IInv
  <2>2. conns[oos] \in Connection
    BY <2>1, Fields DEF IInv
  <2> DEFINE new == [conns[oos] EXCEPT !.open = FALSE]
  <2>3. new.read = conns[oos].read /\ new.given = conns[oos].given
    BY <2>2 DEF Connection
  <2>4. conns' = [conns EXCEPT ![oos] = new]
    BY <1>2 DEF Closed
  <2> HIDE DEF new
  <2> QED
    BY <2>1, <2>3, <2>4, PeerLog
<1> QED
  BY <1>1, <1>2

LEMMA ClientLog ==
  ASSUME IInv, LogInv, ClientStep \/ Exit
  PROVE  LogInv'
<1>1. event \in Nat /\ (pc \in {"flush", "closing"} => oos # 0)
  BY DEF IInv, Typed, Buffered
<1>2. CASE Configure
  <2>1. event' = event /\ UNCHANGED <<log, sessions>>
    BY <1>2 DEF Configure, server
  <2>2. UNCHANGED conns \/ conns' = (IF oos = 0 THEN conns ELSE Closed(oos))
    BY <1>2 DEF Configure
  <2> QED
    BY <2>1, <2>2, SameConnsLog, ClosedLog
<1>3. CASE ActivateOptions
  <2>1. event' = event /\ UNCHANGED log
    BY <1>3 DEF ActivateOptions, server
  <2>2. CASE up
    <3>1. OpenStream(<<>>) /\ event' = event + Len(<<>>) /\ <<>> \in {<<>>, <<event + 1>>}
      BY <1>1, <1>3, <2>1, <2>2 DEF ActivateOptions
    <3> QED
      BY <2>1, <3>1, OpenLog
  <2>3. CASE ~up
    <3>1. UNCHANGED <<conns, sessions>>
      BY <1>3, <2>3 DEF ActivateOptions
    <3> QED
      BY <2>1, <3>1, SameConnsLog
  <2> QED
    BY <2>2, <2>3
<1>4. CASE WriteEvent
  BY <1>4, WriteLog
<1>5. CASE Reconnect
  <2>1. OpenStream(<<event + 1>>) /\ event' = event + 1 /\ UNCHANGED log
    BY <1>5 DEF Reconnect, NextEvent, server
  <2>2. event' = event + Len(<<event + 1>>) /\ <<event + 1>> \in {<<>>, <<event + 1>>}
    BY <2>1
  <2> QED
    BY <2>1, <2>2, OpenLog
<1>6. CASE Drop
  <2>1. event' = event + 1 /\ UNCHANGED <<log, sessions, conns>>
    BY <1>6 DEF Drop, NextEvent, server
  <2> QED
    BY <2>1, SameConnsLog
<1>7. ASSUME NEW n \in 1..Len(array), Send(n)
      PROVE  LogInv'
  <2> DEFINE open == ~(n = Len(array) /\ pc = "closing")
             wire == IF Alive(oos) THEN conns[oos].wire \o SubSeq(array, 1, n) ELSE conns[oos].wire
             new  == [conns[oos] EXCEPT !.wire = wire, !.open = open]
  <2>1. event' = event /\ UNCHANGED <<log, sessions>> /\ oos # 0
    BY <1>1, <1>7 DEF Send, server
  <2>2. oos \in DOMAIN conns
    BY <2>1, OosIsConn DEF IInv
  <2>3. conns' = [conns EXCEPT ![oos] = new]
    BY <1>7 DEF Send
  <2> HIDE DEF open, wire
  <2>4. conns[oos] \in Connection
    BY <2>2, Fields DEF IInv
  <2>5. new.read = conns[oos].read /\ new.given = conns[oos].given
    BY <2>4 DEF Connection
  <2> HIDE DEF new
  <2> QED
    BY <2>1, <2>2, <2>3, <2>5, PeerLog
<1>8. CASE SendFails
  <2>1. event' = event /\ UNCHANGED <<log, sessions>> /\ oos # 0 /\ conns' = Closed(oos)
    BY <1>1, <1>8 DEF SendFails, server
  <2> QED
    BY <2>1, ClosedLog
<1>9. CASE Exit
  <2>1. event' = event /\ UNCHANGED <<log, sessions>>
        /\ conns' = IF oos = 0 THEN conns ELSE Closed(oos)
    BY <1>9 DEF Exit, server
  <2> QED
    BY <2>1, ClosedLog
<1> QED
  BY <1>2, <1>3, <1>4, <1>5, <1>6, <1>7, <1>8, <1>9 DEF ClientStep

LEMMA ServerLog ==
  ASSUME IInv, LogInv, event \in Numbers, NEW d \in DOMAIN conns, ServerStep(d) \/ LearnReset(d)
  PROVE  LogInv'
<1>1. conns[d] \in Connection
  BY Fields DEF IInv
<1>2. ASSUME NEW now, UNCHANGED <<client, sessions, log>>, conns' = [conns EXCEPT ![d].peer = now]
      PROVE  LogInv'
  <2> DEFINE new == [conns[d] EXCEPT !.peer = now]
  <2>1. new.read = conns[d].read /\ new.given = conns[d].given
    BY <1>1 DEF Connection
  <2>2. conns' = [conns EXCEPT ![d] = new]
    BY <1>2
  <2>3. event' = event /\ UNCHANGED <<log, sessions>>
    BY <1>2 DEF client
  <2> HIDE DEF new
  <2> QED
    BY <2>1, <2>2, <2>3, PeerLog
<1>3. CASE Accept(d)
  BY <1>2, <1>3 DEF Accept, server
<1>4. ASSUME NEW n \in 1..Len(conns[d].wire), Read(d, n)
      PROVE  LogInv'
  BY <1>4, ReadLog
<1>5. CASE Disconnect(d)
  BY <1>2, <1>5 DEF Disconnect, server
<1>6. CASE LearnReset(d)
  BY <1>2, <1>6 DEF LearnReset, server
<1> QED
  BY <1>3, <1>4, <1>5, <1>6 DEF ServerStep

LEMMA CrashLog ==
  ASSUME IInv, LogInv, Crash
  PROVE  LogInv'
<1> DEFINE New(c) == IF Alive(c) THEN [conns[c] EXCEPT !.peer = "gone", !.wire = <<>>]
                     ELSE conns[c]
<1>1. conns' = [c \in DOMAIN conns |-> New(c)] /\ event' = event /\ UNCHANGED <<log, sessions>>
  BY DEF Crash, client
<1>2. ASSUME NEW c \in DOMAIN conns
      PROVE  New(c).read = conns[c].read /\ New(c).given = conns[c].given
  <2>1. conns[c] \in Connection
    BY Fields DEF IInv
  <2> QED
    BY <2>1 DEF Connection
<1> HIDE DEF New
<1>3. DOMAIN conns' = DOMAIN conns
      /\ \A c \in DOMAIN conns : conns'[c].read = conns[c].read /\ conns'[c].given = conns[c].given
  BY <1>1, <1>2
<1>4. event \in Nat /\ event' \in Nat /\ event <= event'
  BY <1>1 DEF IInv, Typed
<1> QED
  BY <1>1, <1>3, <1>4, QuietLog

LEMMA StepLog ==
  ASSUME IInv, LogInv, event \in Numbers, [Next]_vars
  PROVE  LogInv'
<1>1. CASE ClientStep \/ Exit
  BY <1>1, ClientLog
<1>2. ASSUME NEW c \in DOMAIN conns, ServerStep(c) \/ LearnReset(c) PROVE LogInv'
  BY <1>2, ServerLog
<1>3. CASE Crash
  BY <1>3, CrashLog
<1>4. CASE Restart
  <2>1. event' = event /\ UNCHANGED <<log, sessions, conns>>
    BY <1>4 DEF Restart, client
  <2> QED
    BY <2>1, SameConnsLog
<1>5. CASE UNCHANGED vars
  <2>1. event' = event /\ UNCHANGED <<log, sessions, conns>>
    BY <1>5 DEF vars, client, server
  <2> QED
    BY <2>1, SameConnsLog
<1> QED
  BY <1>1, <1>2, <1>3, <1>4, <1>5 DEF Next

\* The client numbers no more events than its loops have calls.
LEMMA StepBounded ==
  ASSUME EventsBounded, event \in Nat, [Next]_vars
  PROVE  EventsBounded'
<1>1. /\ round \in Nat /\ Events \in Nat /\ Rounds \in Nat /\ calls \in Nat
      /\ round <= Rounds /\ calls <= Events /\ event <= round * Events + calls
  BY DeliveryAssumption DEF EventsBounded
<1>2. round * Events \in Nat /\ (round + 1) * Events = round * Events + Events
  BY <1>1
<1> DEFINE most == round * Events
<1>3. CASE Configure
  <2>1. round < Rounds /\ round' = round + 1 /\ calls' = 0 /\ event' = event
    BY <1>3 DEF Configure
  <2>2. event <= most + Events
    <3> HIDE DEF most
    <3> QED
      BY <1>1, <1>2 DEF most
  <2>3. round' * Events = most + Events
    BY <1>2, <2>1
  <2>4. round' \in 0..Rounds /\ calls' \in 0..Events
    BY <1>1, <2>1
  <2> HIDE DEF most
  <2>5. event' <= round' * Events + calls'
    BY <1>1, <1>2, <2>1, <2>2, <2>3 DEF most
  <2> QED
    BY <2>4, <2>5 DEF EventsBounded
<1>4. ASSUME NextEvent, round' = round
      PROVE  EventsBounded'
  <2>1. calls < Events /\ calls' = calls + 1 /\ event' = event + 1 /\ round' = round
    BY <1>4 DEF NextEvent
  <2> HIDE DEF most
  <2>2. event + 1 <= most + (calls + 1)
    BY <1>1, <1>2 DEF most
  <2>3. calls' \in 0..Events
    BY <1>1, <2>1
  <2> QED
    BY <2>1, <2>2, <2>3 DEF EventsBounded, most
<1>5. ASSUME UNCHANGED <<round, calls, event>>
      PROVE  EventsBounded'
  BY <1>5 DEF EventsBounded
<1>6. CASE ActivateOptions
  BY <1>5, <1>6 DEF ActivateOptions
<1>7. CASE WriteEvent \/ Reconnect \/ Drop
  BY <1>4, <1>7 DEF WriteEvent, Reconnect, Drop
<1>8. ASSUME NEW n \in 1..Len(array), Send(n)
      PROVE  EventsBounded'
  BY <1>5, <1>8 DEF Send
<1>9. CASE SendFails \/ Exit
  BY <1>5, <1>9 DEF SendFails, Exit
<1>10. ASSUME NEW c \in DOMAIN conns, ServerStep(c) \/ LearnReset(c)
       PROVE  EventsBounded'
  BY <1>5, <1>10 DEF ServerStep, Accept, Read, Disconnect, LearnReset, client
<1>11. CASE Crash \/ Restart \/ UNCHANGED vars
  BY <1>5, <1>11 DEF Crash, Restart, vars, client
<1> QED
  BY <1>3, <1>6, <1>7, <1>8, <1>9, <1>10, <1>11 DEF Next, ClientStep

LEMMA BoundedNumbers ==
  ASSUME EventsBounded, event \in Nat
  PROVE  event \in Numbers
<1>1. /\ round \in Nat /\ Events \in Nat /\ Rounds \in Nat /\ calls \in Nat
      /\ round <= Rounds /\ calls <= Events /\ event <= round * Events + calls
  BY DeliveryAssumption DEF EventsBounded
<1>2. PICK k \in Nat : Rounds = round + k
  <2>1. Rounds - round \in Nat /\ Rounds = round + (Rounds - round)
    BY <1>1
  <2> QED
    BY <2>1
<1>3. (Rounds + 1) * Events = round * Events + k * Events + Events
  BY <1>1, <1>2
<1>4. round * Events \in Nat /\ k * Events \in Nat
  BY <1>1, <1>2
<1> DEFINE x == round * Events
           y == k * Events
           z == (Rounds + 1) * Events
<1>5. z = x + y + Events /\ x \in Nat /\ y \in Nat /\ event <= x + calls
  BY <1>1, <1>3, <1>4
<1> HIDE DEF x, y, z
<1>6. z \in Nat /\ event <= z
  BY <1>1, <1>5
<1> QED
  BY <1>6 DEF Numbers, z

LInv == IInv /\ EventsBounded /\ LogInv

LEMMA InitiallyLog == Init => LInv
<1> SUFFICES ASSUME Init PROVE LInv
  OBVIOUS
<1>1. /\ conns = <<>> /\ sessions = <<>> /\ log = <<>>
      /\ round = 0 /\ calls = 0 /\ event = 0
  BY DEF Init
<1>2. DOMAIN conns = {} /\ Len(log) = 0 /\ <<>> \in Seq(Nat)
  BY <1>1, EmptySeq
<1>3. EventsBounded
  BY <1>1, DeliveryAssumption DEF EventsBounded
<1>4. GivenOnce /\ ReadIsFront
  BY <1>2 DEF GivenOnce, ReadIsFront
<1>5. SessionsHold
  BY <1>1 DEF SessionsHold
<1>6. LogFits
  BY <1>1, <1>2 DEF LogFits, Distinct
<1> QED
  BY <1>3, <1>4, <1>5, <1>6, Initially DEF LInv, LogInv

LEMMA StepKeepsLog == LInv /\ [Next]_vars => LInv'
<1> SUFFICES ASSUME LInv, [Next]_vars PROVE LInv'
  OBVIOUS
<1>1. IInv /\ EventsBounded /\ LogInv /\ event \in Nat
  BY DEF LInv, IInv, Typed
<1>2. event \in Numbers
  BY <1>1, BoundedNumbers
<1>3. IInv'
  BY <1>1, StepKeeps
<1>4. EventsBounded'
  BY <1>1, StepBounded
<1>5. LogInv'
  BY <1>1, <1>2, StepLog
<1> QED
  BY <1>3, <1>4, <1>5 DEF LInv

LEMMA LogInvSuffices == LInv => LoggedOnce
<1> SUFFICES ASSUME LInv PROVE LoggedOnce
  OBVIOUS
<1>1. IsInjective(log)
  BY LenProperties DEF LInv, LogInv, LogFits, Distinct, IsInjective
<1>2. ASSUME NEW c \in DOMAIN conns
      PROVE  IsPrefix(Only(log, Range(conns[c].given)), conns[c].given)
  <2> DEFINE given == conns[c].given
             n == Len(conns[c].read)
             front == Part(given, 0, Ends(n))
  <2>1. given \in Seq(Nat) /\ n \in Nat /\ n <= Len(Whole(given))
    BY Fields, LenProperties DEF LInv, IInv, LogInv, ReadIsFront
  <2>2. Only(log, Range(given)) = front
    BY DEF LInv, LogInv, LogFits, LogHas
  <2> HIDE DEF given, n
  <2>3. Ends(n) \in 0..Len(given)
    BY <2>1, EndsBound
  <2>4. front \in Seq(Nat) /\ Len(front) = Ends(n)
    BY <2>1, <2>3, FrontIs
  <2>5. front = SubSeq(given, 1, Ends(n))
    BY DEF Part
  <2> HIDE DEF front
  <2>6. SubSeq(front, 1, Len(front)) = front
    BY <2>4, SubSeqFull
  <2>7. Len(front) <= Len(given)
    BY <2>1, <2>3, <2>4, LenProperties
  <2> QED
    BY <2>2, <2>4, <2>5, <2>6, <2>7 DEF IsPrefix, given
<1> QED
  BY <1>1, <1>2 DEF LoggedOnce

\* Over any number of rounds, events and ends of the server, no event is logged twice,
\* and those of a connection in the order of the calls, without a gap
\* (socketappender.cpp:77-110, log4cxxSelectSocketServer.cpp:27-83).
THEOREM DeliveryLoggedOnce == Spec => []LoggedOnce
<1>1. Spec => []LInv
  BY InitiallyLog, StepKeepsLog, PTL DEF Spec
<1> QED
  BY <1>1, LogInvSuffices, PTL
=============================================================================
