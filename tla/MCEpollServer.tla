--------------------------- MODULE MCEpollServer ---------------------------
(***************************************************************************)
(* EpollServer with two connections on two descriptors: one peer sends an  *)
(* event in two parts and the other bytes that its decoder refuses, or one  *)
(* sends an event and the other the marker of a protocol no loader knows.   *)
(***************************************************************************)
EXTENDS EpollServer, TLC

CONSTANTS c1, c2

MCWrites ==
  c1 :> <<"magic", "bytes", "body", "event">> @@ c2 :> <<"magic", "default", "bad">>

MCShortWrites ==
  c1 :> <<"magic", "bytes", "event">> @@ c2 :> <<"magic", "json">>

MCId == Conn \X (1..4)
=============================================================================
