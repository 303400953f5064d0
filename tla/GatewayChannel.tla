--------------------------- MODULE GatewayChannel ---------------------------
(***************************************************************************)
(* One TCP connection of a gateway as its Netty pipeline sees it:          *)
(* IdleStateHandler, handler/HeartbeatHandler, handler/RegistHandler and   *)
(* handler/ModbusHandler, set up by application/TcServer.                  *)
(*                                                                         *)
(* There is no frame decoder: what one channelRead gets is whatever TCP    *)
(* delivers at once, a part of a message of the gateway or several of      *)
(* them.  Bytes are the units the parser tells apart; the marker REG: is   *)
(* two of them, so that TCP can cut it as well.                            *)
(*                                                                         *)
(* What channelActive, updateDeviceId and channelInactive do to the        *)
(* directory is the matter of SessionManager, with the ways in which it    *)
(* fails; here each is one step that succeeds.                             *)
(***************************************************************************)
EXTENDS Integers, SequencesExt

CONSTANTS
  Addr,         \* the id made of the address of the peer
  Ids,          \* ids a gateway registers with: sequences of Text
  Text,         \* the characters ids, tokens and data are made of
  Messages,     \* what a gateway may send: sequences of units
  MqttReliable, \* FALSE: the publication of data may throw
  MaxBytes      \* bound: how many units a gateway sends

Unit == {"RE", "G:", "comma", "semicolon", "bar", "eol", "blank"} \cup Text

ASSUME ChannelAssumption ==
  /\ Ids \subseteq Seq(Text) \ {<<>>} /\ Addr \notin Seq(Text)
  /\ Text \cap {"RE", "G:", "comma", "semicolon", "bar", "eol", "blank"} = {}
  /\ Messages \subseteq Seq(Unit) \ {<<>>}
  /\ MqttReliable \in BOOLEAN /\ MaxBytes \in Nat

VARIABLES
  chan,        \* "new", "open", "closed", and "gone" after channelInactive
  peer,        \* "up", "finished" (it has sent its FIN), "vanished" (no FIN)
  sent,        \* the messages the gateway has sent
  read,        \* the chunks channelRead was given
  registering, \* RegistHandler is in the pipeline
  name,        \* the device id of the proxies
  data,        \* what was published on TC/DAT/
  status,      \* the status events published
  refused,     \* regError was called
  quiet,       \* nothing was read or written since the last look of the timer
  unacked      \* something was written that the peer will never acknowledge

vars == <<chan, peer, sent, read, registering, name, data, status, refused,
          quiet, unacked>>

Chunk == Seq(Unit) \ {<<>>}

ChannelTypeOK ==
  /\ chan \in {"new", "open", "closed", "gone"}
  /\ peer \in {"up", "finished", "vanished"}
  /\ sent \in Seq(Messages)
  /\ read \in Seq(Chunk)
  /\ registering \in BOOLEAN
  /\ name = Addr \/ name \in Chunk
  /\ \A i \in 1..Len(data) : data[i].bytes \in Chunk
  /\ \A i \in 1..Len(status) : status[i].event \in {"on", "off"}
  /\ refused \in BOOLEAN /\ quiet \in BOOLEAN /\ unacked \in BOOLEAN

Init ==
  /\ chan = "new" /\ peer = "up"
  /\ sent = <<>> /\ read = <<>>
  /\ registering = TRUE /\ name = Addr
  /\ data = <<>> /\ status = <<>>
  /\ refused = FALSE /\ quiet = FALSE /\ unacked = FALSE

-----------------------------------------------------------------------------
(* The registration line.                                                  *)

RegStart == <<"RE", "G:">>

\* String.trim: blanks and line ends go at both ends.
Trim(s) ==
  LET Ink(u) == u \notin {"blank", "eol"}
      first == SelectInSeq(s, Ink)
  IN IF first = 0 THEN <<>> ELSE SubSeq(s, first, SelectLastInSeq(s, Ink))

\* replaceAll("[\\n|\\r]", ""): inside brackets the bar is a character like
\* the others, and goes as well.
Clean(s) ==
  FlattenSeq([i \in 1..Len(s) |-> IF s[i] \in {"eol", "bar"} THEN <<>> ELSE <<s[i]>>])

\* Seeded fault: what follows the marker is taken as it is.
RegInfoRaw(chunk) == SubSeq(chunk, Len(RegStart) + 1, Len(chunk))

\* What follows the marker.
RegInfo(chunk) == Clean(Trim(SubSeq(chunk, Len(RegStart) + 1, Len(chunk))))

\* regInfo.indexOf(REG_SPLIT), counted from 1.
SplitAt(info) == SelectInSeq(info, LAMBDA u : u = "comma")

\* regByToken, up to the use of the device id.  Its checkToken always agrees.
RegStatus(chunk) ==
  LET info == RegInfo(chunk) IN
  IF ~IsPrefix(RegStart, chunk) THEN "IGNORE"
  ELSE IF SplitAt(info) < 2 \/ Last(info) # "semicolon" THEN "ERROR"
  ELSE "OK"

\* Seeded fault: the id ends one character early.
DeviceIdShort(chunk) == SubSeq(RegInfo(chunk), 1, SplitAt(RegInfo(chunk)) - 2)

\* regInfo.substring(0, splitIdx).
DeviceIdOf(chunk) == SubSeq(RegInfo(chunk), 1, SplitAt(RegInfo(chunk)) - 1)

-----------------------------------------------------------------------------
(* The gateway and the network.                                            *)

Bytes(s) == FlattenSeq(s)

\* What the gateway has sent and no channelRead has been given yet.
Wire == SubSeq(Bytes(sent), Len(Bytes(read)) + 1, Len(Bytes(sent)))

\* What it sends after the server has closed the connection nobody reads.
Send ==
  /\ peer = "up" /\ chan = "open"
  /\ \E m \in Messages : /\ Len(Bytes(sent)) + Len(m) <= MaxBytes
                         /\ sent' = Append(sent, m)
  /\ UNCHANGED <<chan, peer, read, registering, name, data, status, refused,
                 quiet, unacked>>

\* The gateway closes its end, or its host or its line goes dead.
Leave ==
  /\ peer = "up" /\ chan # "new"
  /\ peer' \in {"finished", "vanished"}
  /\ UNCHANGED <<chan, sent, read, registering, name, data, status, refused,
                 quiet, unacked>>

-----------------------------------------------------------------------------
(* The pipeline.                                                           *)

Announce(e, id) == status' = Append(status, [event |-> e, dev |-> id])

\* RegistHandler.channelActive: regByAddress.
ChannelActive ==
  /\ chan = "new"
  /\ chan' = "open"
  /\ Announce("on", Addr)
  /\ UNCHANGED <<peer, sent, read, registering, name, data, refused, quiet, unacked>>

\* Seeded fault: the handler of the registration stays in the pipeline.
RegisteredStays(chunk) ==
  /\ registering /\ RegStatus(chunk) = "OK"
  /\ name' = DeviceIdOf(chunk)
  /\ Announce("on", DeviceIdOf(chunk))
  /\ UNCHANGED <<chan, registering, data, refused>>

\* RegistHandler.channelRead of a line that is accepted: the proxies take the
\* id, and the handler leaves the pipeline.
Registered(chunk) ==
  /\ registering /\ RegStatus(chunk) = "OK"
  /\ registering' = FALSE
  /\ name' = DeviceIdOf(chunk)
  /\ Announce("on", DeviceIdOf(chunk))
  /\ UNCHANGED <<chan, data, refused>>

\* regError: an answer, and the end of the connection.
RegError(chunk) ==
  /\ registering /\ RegStatus(chunk) = "ERROR"
  /\ refused' = TRUE
  /\ chan' = "closed"
  /\ UNCHANGED <<registering, name, data, status>>

\* ModbusHandler.channelRead: all else is data.  An exception of the
\* publication, thrown before or after its effect, reaches exceptionCaught,
\* which closes the connection.
Forward(chunk) ==
  /\ ~registering \/ RegStatus(chunk) = "IGNORE"
  /\ \/ /\ data' = Append(data, [dev |-> name, bytes |-> chunk])
        /\ chan' \in IF MqttReliable THEN {chan} ELSE {chan, "closed"}
     \/ ~MqttReliable /\ chan' = "closed" /\ UNCHANGED data
  /\ UNCHANGED <<registering, name, status, refused>>

\* channelRead: TCP delivers any part of what is on the wire.
ChannelRead ==
  /\ chan = "open"
  /\ \E n \in 1..Len(Wire) :
       LET chunk == SubSeq(Wire, 1, n) IN
       /\ read' = Append(read, chunk)
       /\ Registered(chunk) \/ RegError(chunk) \/ Forward(chunk)
  /\ quiet' = FALSE
  /\ UNCHANGED <<peer, sent, unacked>>

\* Something is written to the channel.  A peer that has vanished will never
\* acknowledge it.
Write ==
  /\ quiet' = FALSE
  /\ unacked' = (unacked \/ peer = "vanished")
  /\ UNCHANGED <<chan, peer, sent, read, registering, name, data, status, refused>>

\* DeviceProxy.recieveCommand.
RecieveCommand == chan = "open" /\ Write

\* Seeded fault: the timer goes off and nothing is written.
HeartbeatUnsent ==
  /\ chan = "open" /\ quiet
  /\ quiet' = FALSE
  /\ UNCHANGED <<chan, peer, sent, read, registering, name, data, status, refused,
                 unacked>>

\* HeartbeatHandler: the connection has been idle for the time of the
\* IdleStateHandler, and a heartbeat is written.
Heartbeat == chan = "open" /\ quiet /\ Write

\* Time passes without a read or a write.
Idle ==
  /\ chan = "open" /\ ~quiet
  /\ quiet' = TRUE
  /\ UNCHANGED <<chan, peer, sent, read, registering, name, data, status, refused,
                 unacked>>

\* The end of the connection comes to light: the FIN of the peer behind the
\* last of its data, or TCP gives up on what nobody acknowledges.
\* CLOSE_ON_FAILURE and exceptionCaught close the channel.
Broken ==
  /\ chan = "open"
  /\ (peer = "finished" /\ Wire = <<>>) \/ unacked
  /\ chan' = "closed"
  /\ UNCHANGED <<peer, sent, read, registering, name, data, status, refused,
                 quiet, unacked>>

\* ModbusHandler.channelInactive: closeSession.
ChannelInactive ==
  /\ chan = "closed"
  /\ chan' = "gone"
  /\ Announce("off", name)
  /\ UNCHANGED <<peer, sent, read, registering, name, data, refused, quiet, unacked>>

-----------------------------------------------------------------------------
Next ==
  \/ Send \/ Leave
  \/ ChannelActive \/ ChannelRead \/ RecieveCommand \/ Idle \/ Heartbeat
  \/ Broken \/ ChannelInactive

Spec == Init /\ [][Next]_vars

\* The timer runs, TCP gives up in the end on what is not acknowledged, and a
\* closed channel gets its channelInactive.  Neither gateways nor commands have
\* to come, and what was sent before a gateway vanished may never arrive.
Fairness ==
  /\ WF_vars(Idle) /\ WF_vars(Heartbeat)
  /\ WF_vars(Broken) /\ WF_vars(ChannelInactive)

FairSpec == Spec /\ Fairness

-----------------------------------------------------------------------------
(* Properties.                                                             *)

\* The bytes of the data published with the i-th event, and all of it.
Published == [i \in 1..Len(data) |-> data[i].bytes]

\* Chunk i was not published: regByToken kept it, as the registration or as one
\* that is refused, or its publication threw and the connection has ended.
MayBeKept(i) == IsPrefix(RegStart, read[i]) \/ (chan # "open" /\ i = Len(read))

\* The server is transparent (`touchuan'): what the gateway sends is published
\* in the order in which it was sent, nothing is added, and nothing is missing
\* but the chunk that regByToken kept and the last chunk, with which the
\* connection ended: neither of them, one of them or both.  What came before the
\* kept chunk is under the address of the gateway, what came after it under the
\* id the gateway registered.
Transparent ==
  \/ Published = read /\ \A i \in 1..Len(data) : data[i].dev = Addr
  \/ \E i \in 1..Len(read) :
       /\ MayBeKept(i)
       /\ Published = RemoveAt(read, i)
       /\ \A j \in 1..Len(data) : data[j].dev = IF j < i THEN Addr ELSE name
  \/ \E i \in 1..Len(read) - 1 :
       /\ chan # "open" /\ IsPrefix(RegStart, read[i])
       /\ Published = RemoveAt(Front(read), i)
       /\ \A j \in 1..Len(data) : data[j].dev = IF j < i THEN Addr ELSE name

\* A registration line as the device simulator sends it, whatever its token,
\* with or without an end of line.
IsLine(m, id) ==
  \E token \in {<<>>} \cup {<<x>> : x \in Text}, end \in {<<>>, <<"eol">>} :
    m = RegStart \o id \o <<"comma">> \o token \o <<"semicolon">> \o end

\* A gateway goes by the id of its registration line once channelRead is given
\* that line on its own, unless an earlier chunk began with REG: as well: it is
\* not refused, and no later chunk changes the id.
LinesRegister ==
  \A i \in 1..Len(read), id \in Ids :
    /\ IsLine(read[i], id)
    /\ \A j \in 1..i-1 : ~IsPrefix(RegStart, read[j])
    => name = id /\ ~refused

\* A gateway that vanishes without a word is announced off in the end, whether
\* commands for it keep coming or not.
VanishedIsNoticed ==
  peer = "vanished" ~> status # <<>> /\ Last(status) = [event |-> "off", dev |-> name]
=============================================================================
