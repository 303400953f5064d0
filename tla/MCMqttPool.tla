----------------------------- MODULE MCMqttPool -----------------------------
(* Two clients, and two threads with devices of their own: three and one.    *)
EXTENDS MqttPool, TLC

CONSTANTS t1, t2, k1, k2, d1, d2, d3, d4

Threads    == {t1, t2}
Clients    == {k1, k2}
TwoClients == <<k1, k2>>
AllDevices == {d1, d2, d3, d4}

OwnDevices == t1 :> {d1, d2, d3} @@ t2 :> {d4}
Calls      == t1 :> 3 @@ t2 :> 2

\* The devices of t1 can be exchanged.
Sym == Permutations({d1, d2, d3})
=============================================================================
