--------------------------- MODULE MCMqttReconnect ---------------------------
(* Two clients that lose their connections a few times.                      *)
EXTENDS MqttReconnect

CONSTANTS k1, k2

TwoClients == {k1, k2}
==============================================================================
