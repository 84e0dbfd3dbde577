--------------------------- MODULE MessageChannel ---------------------------
(***************************************************************************)
(* What a connection promises the two programs at its ends: the messages   *)
(* that arrive are those that were sent, whole, once each and in order; a  *)
(* connection that breaks loses the last ones.                             *)
(***************************************************************************)
EXTENDS Naturals, Sequences

CONSTANT Message   \* what can be sent

VARIABLES
  outgoing,    \* the messages given to the connection
  incoming,    \* the messages handed to the receiver's callback
  intact       \* the connection is up

chvars == <<outgoing, incoming, intact>>

Start == outgoing = <<>> /\ incoming = <<>> /\ intact = TRUE

Post ==
  /\ intact
  /\ \E m \in Message : outgoing' = Append(outgoing, m)
  /\ UNCHANGED <<incoming, intact>>

Deliver ==
  /\ Len(incoming) < Len(outgoing)
  /\ incoming' = Append(incoming, outgoing[Len(incoming) + 1])
  /\ UNCHANGED <<outgoing, intact>>

Break == intact' = FALSE /\ UNCHANGED <<outgoing, incoming>>

Spec == Start /\ [][Post \/ Deliver \/ Break]_chvars
=============================================================================
