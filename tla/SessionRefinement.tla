------------------------- MODULE SessionRefinement -------------------------
(* The handlers and lists of SessionManager implement DeviceDirectory when  *)
(* no two gateways register under the same device id.                       *)
EXTENDS SessionManager

\* The id under which findByDeviceId finds session s.
PlaceOf(s) ==
  IF \E d \in DeviceId : Listed(s, d) THEN CHOOSE d \in DeviceId : Listed(s, d)
  ELSE Null

Directory ==
  INSTANCE DeviceDirectory WITH
    Session <- Channel, Device <- DeviceId, Addr <- AddrId, Tokens <- TokenIds,
    life <- chan,
    name <- [c \in Channel |-> ses[c].deviceId],
    place <- [c \in Channel |-> PlaceOf(c)],
    status <- sts,
    told <- log

\* Every step of the handlers is a step of the directory or invisible to those
\* who look devices up and listen to their status topics.
ImplementsDirectory == Directory!DirSpec
=============================================================================
