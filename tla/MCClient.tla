------------------------------ MODULE MCClient ------------------------------
(***************************************************************************)
(* Client on every stream of a start marker, of each protocol and of none,  *)
(* and up to StreamLen - 2 tokens of well-formed or malformed events; every  *)
(* way to cut them into chunks.                                             *)
(***************************************************************************)
EXTENDS Client

CONSTANT StreamLen

Tagged(kinds) == [i \in 1..Len(kinds) |-> [kind |-> kinds[i], id |-> i]]

Bodies == UNION {[1..n -> FrameKinds \cup {"bad"}] : n \in 0..(StreamLen - MarkerLen)}

MCStreams ==
  {Tagged(start \o body) : start \in {<<"magic", "msgpack">>, <<"magic", "json">>, <<"bad", "body">>},
                           body \in Bodies}
  \cup {Tagged(<<"magic", p, "body", "event", "body", "magic", p>>) : p \in Protocols}

MCId == 1..(StreamLen + MarkerLen)
=============================================================================
