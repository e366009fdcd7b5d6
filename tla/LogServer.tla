----------------------------- MODULE LogServer -----------------------------
(***************************************************************************)
(* What every C++ log server of src/ promises: connections live as in       *)
(* Lifecycle, and taking bytes of a stream logs exactly the events they     *)
(* complete, of this connection, in their order.                            *)
(***************************************************************************)
EXTENDS Lifecycle

VARIABLE events        \* for each connection, the events logged, in order

vars == <<lifeVars, events>>

Init == LifeInit /\ events = [c \in Conn |-> <<>>]

\* The events that end in tokens from + 1 to "to" of c's stream, in order.
Completed(c, from, to) ==
  Only(SubSeq(Stream(c), from + 1, to), {t \in Token : t.id[2] \in Owed(Stream(c), to)})

\* Bytes are taken and their events logged.
Log(c) ==
  /\ Read(c)
  /\ events' = [events EXCEPT ![c] = @ \o Completed(c, taken[c], taken'[c])]

Next == (Moves /\ UNCHANGED events) \/ \E c \in Conn : Log(c)

Spec == Init /\ [][Next]_vars
=============================================================================
