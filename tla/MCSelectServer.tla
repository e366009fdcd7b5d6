--------------------------- MODULE MCSelectServer ---------------------------
(***************************************************************************)
(* SelectServer with two connections on two descriptors: one peer sends an *)
(* event, the other bytes that its decoder refuses.  MCSelectServerFull.cfg *)
(* gives them a single descriptor.                                         *)
(***************************************************************************)
EXTENDS SelectServer, TLC

CONSTANTS c1, c2

MCWrites ==
  c1 :> <<"magic", "bytes", "event">> @@ c2 :> <<"magic", "default", "bad">>

MCId == Conn \X (1..3)
=============================================================================
