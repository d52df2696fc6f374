------------------------------ MODULE BusOwner ------------------------------
(***************************************************************************)
(* What GatewayManager promises the field buses (protocol_gateway.py, the  *)
(* class comment of GatewayManager): one gateway at a time holds the       *)
(* connections, and a new one takes them only after the old one let go.    *)
(***************************************************************************)
CONSTANTS Gateways, NoGateway

VARIABLE owner

Init == owner = NoGateway

\* A gateway connects its transports to buses nobody holds.
Take(g) == owner = NoGateway /\ owner' = g

\* The owner closes its connections.
Release == owner # NoGateway /\ owner' = NoGateway

Next == Release \/ \E g \in Gateways : Take(g)

Spec == Init /\ [][Next]_owner
=============================================================================
