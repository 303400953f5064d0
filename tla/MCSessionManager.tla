-------------------------- MODULE MCSessionManager --------------------------
(* Two gateways for TLC: with ids of their own, or one id for both.         *)
EXTENDS SessionRefinement, TLC

CONSTANTS c1, c2, a1, a2, d1, d2

Gateways2 == {c1, c2}

Addr == (c1 :> a1) @@ (c2 :> a2)
Own  == (c1 :> d1) @@ (c2 :> d2)

MCAddrId == [c \in Channel |-> Addr[c]]

\* Every gateway registers with its own id, or both with d1.
OwnIds == [c \in Channel |-> {Own[c]}]
OneId  == [c \in Channel |-> {d1}]

Devices == {Addr[c] : c \in Channel} \cup UNION {TokenIds[c] : c \in Channel}
=============================================================================
