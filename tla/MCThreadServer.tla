--------------------------- MODULE MCThreadServer ---------------------------
(***************************************************************************)
(* ThreadServer with two connections on two descriptors: one peer sends an *)
(* event in two parts and then what the decoder refuses, the other the     *)
(* marker of a protocol this server does not know.                         *)
(***************************************************************************)
EXTENDS ThreadServer, TLC

CONSTANTS c1, c2

MCWrites ==
  c1 :> <<"magic", "default", "body", "event", "bad">> @@ c2 :> <<"magic", "bytes">>

MCId == Conn \X (1..5)
=============================================================================
