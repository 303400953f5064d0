----------------------------- MODULE MCJsonRpc -----------------------------
(* Two gateways, of which one registers, and one browser.                   *)
EXTENDS JsonRpc, TLC

CONSTANTS c1, c2, a1, a2, d1, b1

Gateways == {c1, c2}
Browsers == {b1}
Devices  == {a1, a2, d1}

Addr   == (c1 :> a1) @@ (c2 :> a2)
OneRegisters == (c1 :> {d1}) @@ (c2 :> {})
=============================================================================
