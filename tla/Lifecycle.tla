----------------------------- MODULE Lifecycle -----------------------------
(***************************************************************************)
(* What becomes of a connection at a log server, whatever the server waits  *)
(* with: it is queued, then open, then closed; the bytes of its stream are  *)
(* taken in order and only while it is open; and only a connection that is  *)
(* finished, reset or refused is closed, unless the server ends.            *)
(* Descriptors, buffers, chunks and readiness are the servers' own affair.  *)
(***************************************************************************)
EXTENDS Frames, FiniteSets

CONSTANTS Conn, Writes

VARIABLES
  peer, sent, taken,   (* as in Sockets                                      *)
  phase                (* "none", "queued", "open" or "closed"               *)

lifeVars == <<peer, sent, taken, phase>>

Stream(c) == [i \in 1..Len(Writes[c]) |-> [kind |-> Writes[c][i], id |-> <<c, i>>]]

LifeInit ==
  /\ peer = [c \in Conn |-> "idle"]
  /\ sent = [c \in Conn |-> 0]
  /\ taken = [c \in Conn |-> 0]
  /\ phase = [c \in Conn |-> "none"]

Phase(c, from, to) == phase[c] = from /\ phase' = [phase EXCEPT ![c] = to]

-----------------------------------------------------------------------------
\* The peers.
Connect(c) ==
  /\ peer[c] = "idle"
  /\ peer' = [peer EXCEPT ![c] = "open"]
  /\ Phase(c, "none", "queued")
  /\ UNCHANGED <<sent, taken>>

Write(c) ==
  /\ peer[c] = "open" /\ phase[c] \in {"queued", "open"}
  /\ \E n \in (sent[c] + 1)..Len(Writes[c]) : sent' = [sent EXCEPT ![c] = n]
  /\ UNCHANGED <<peer, taken, phase>>

Leave(c) ==
  /\ phase[c] \in {"queued", "open"}
  /\ \/ peer[c] = "open" /\ peer' = [peer EXCEPT ![c] = "fin"]
     \/ peer[c] \in {"open", "fin"} /\ peer' = [peer EXCEPT ![c] = "rst"]
  /\ UNCHANGED <<sent, taken, phase>>

-----------------------------------------------------------------------------
\* The server.
Accept(c) == Phase(c, "queued", "open") /\ UNCHANGED <<peer, sent, taken>>

\* Bytes are taken; a refused stream may be closed in the same step.
Read(c) ==
  /\ phase[c] = "open"
  /\ \E n \in (taken[c] + 1)..sent[c] :
       /\ taken' = [taken EXCEPT ![c] = n]
       /\ UNCHANGED phase \/ (~Acceptable(Stream(c), n) /\ Phase(c, "open", "closed"))
  /\ UNCHANGED <<peer, sent>>

Close(c) ==
  /\ \/ peer[c] = "rst"
     \/ peer[c] = "fin" /\ taken[c] = sent[c]
     \/ ~Acceptable(Stream(c), taken[c])
  /\ Phase(c, "open", "closed")
  /\ UNCHANGED <<peer, sent, taken>>

\* A connection the system gives the server no use of.
Drop(c) == Phase(c, "queued", "closed") /\ UNCHANGED <<peer, sent, taken>>

\* The server listens no longer.
StopListening ==
  /\ phase' = [c \in Conn |-> IF phase[c] = "queued" THEN "closed" ELSE phase[c]]
  /\ UNCHANGED <<peer, sent, taken>>

\* The server ends and takes every connection with it.
Stop ==
  /\ phase' = [c \in Conn |-> IF phase[c] = "none" THEN "none" ELSE "closed"]
  /\ UNCHANGED <<peer, sent, taken>>

\* Every step but the taking of bytes.
Moves ==
  \/ \E c \in Conn : Connect(c) \/ Write(c) \/ Leave(c)
  \/ \E c \in Conn : Accept(c) \/ Close(c) \/ Drop(c)
  \/ StopListening
  \/ Stop

LifeNext == Moves \/ \E c \in Conn : Read(c)

LifeSpec == LifeInit /\ [][LifeNext]_lifeVars
=============================================================================
