-------------------------------- MODULE MCChat --------------------------------
(* The instance of Chat for TLC: a client whose connections overlap at the server. *)
EXTENDS Chat

CONSTANT timer

MCSlots == {1, 2}
MCClients == {1}
MCSessionIDs == MCSlots \X (1 .. MaxConnections)

MCSpot == [k \in 1 .. MaxConnections |-> <<k - 1, 0>>]
MCMaxPackets == [k \in 1 .. MaxConnections |-> IF k = 1 THEN 1 ELSE 0]
=============================================================================
