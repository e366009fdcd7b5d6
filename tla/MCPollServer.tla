---------------------------- MODULE MCPollServer ----------------------------
(***************************************************************************)
(* PollServer with two connections on two descriptors: one peer sends an   *)
(* event in two parts, the other the marker of a protocol no loader knows. *)
(***************************************************************************)
EXTENDS PollServer, TLC

CONSTANTS c1, c2

MCWrites ==
  c1 :> <<"magic", "bytes", "body", "event">> @@ c2 :> <<"magic", "json">>

MCId == Conn \X (1..4)
=============================================================================
