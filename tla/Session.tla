------------------------------ MODULE Session ------------------------------
(***************************************************************************)
(* A whole call of Client::forceLog as one operator, for the modules of the  *)
(* servers: the servers are single-threaded between two calls of recv, and   *)
(* nothing outside the session is touched but the appenders.  MCClient       *)
(* checks that it agrees with the step-by-step module Client.                *)
(***************************************************************************)
EXTENDS Frames, FiniteSetsExt

SessionState == [func : Protocols \cup {NoFunc}, buf : Seq(Token)]

\* Client::Client(SOCKET): no decoder, empty buffer.
FreshSession == [func |-> NoFunc, buf |-> <<>>]

Outcome(func, buf, events, ok) ==
  [session |-> [func |-> func, buf |-> buf], events |-> events, ok |-> ok]

\* The while loop: frames are erased and logged up to the first place that is
\* not the beginning of a whole frame; it fails if that place is malformed.
DecodeAll(func, buf) ==
  LET Clean(n) == \A m \in 1..n : buf[m].kind \in FrameKinds
      done      == Max({n \in 1..Len(buf) : Clean(n) /\ buf[n].kind \in FrameEnds} \cup {0})
      permitted == Only(SubSeq(buf, 1, done), {t \in Token : t.kind = "event"})
  IN  Outcome(func, Erase(buf, done), permitted, Clean(Len(buf)))

\* forceLog(bytes) on a session; events are the last tokens of what it logs.
ForceLogResult(s, bytes) ==
  LET buf == s.buf \o bytes IN
  IF s.func # NoFunc THEN DecodeAll(s.func, buf)
  ELSE IF StartIncomplete(buf) THEN Outcome(NoFunc, buf, <<>>, TRUE)
  ELSE IF StartUnknown(buf) THEN Outcome(NoFunc, buf, <<>>, FALSE)
  ELSE DecodeAll(CHOOSE p \in Protocols : Matches(buf, p), Erase(buf, MarkerLen))
=============================================================================
