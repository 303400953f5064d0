--------------------------- MODULE MCCommandRelay ---------------------------
(* Two gateways, one of which registers, both served by one client.         *)
EXTENDS CommandRelay, TLC

CONSTANTS c1, c2, a1, a2, d1, k1

Gateways == {c1, c2}
Clients  == {k1}
Devices  == {a1, a2, d1}

Addr     == (c1 :> a1) @@ (c2 :> a2)
OneRegisters == (c1 :> {d1}) @@ (c2 :> {})
OneClient == [d \in DeviceId |-> k1]
=============================================================================
