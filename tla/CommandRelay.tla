---------------------------- MODULE CommandRelay ----------------------------
(***************************************************************************)
(* How commands get from the MQTT broker to the gateways: messageArrived   *)
(* of a client calls MqttProxy.recieve, which looks the device up in the   *)
(* session directory and writes the command to the channel of every        *)
(* session it finds there.  It runs in the callback thread of the client,  *)
(* at the same time as the handlers of SessionManager, and reads what they *)
(* write without a lock.                                                   *)
(*                                                                         *)
(* An exception that leaves messageArrived makes the Paho client shut its  *)
(* connection down.  The pool reconnects it (see MqttReconnect) with       *)
(* cleanSession, so the broker has forgotten the subscriptions it had, and *)
(* nobody subscribes again.                                                *)
(***************************************************************************)
EXTENDS SessionManager, FiniteSets

CONSTANTS
  Mqtt,        \* the clients of the pool
  ClientOf,    \* ClientOf[d]: the client the pool gives to device d
  MaxCommands  \* bound: how many commands a client receives

ASSUME RelayAssumption ==
  /\ ClientOf \in [DeviceId -> Mqtt]
  /\ MaxCommands \in Nat

VARIABLES
  up,       \* the clients that are connected
  rel,      \* rel[k]: the frame of recieve in the callback thread of k
  commands  \* commands[k]: how many commands k has received

relayVars == <<vars, up, rel, commands>>

RelayPc == {"idle", "lookup", "iterate", "send", "done", "failed"}

\* Of the for-each over the list: the list, the position of the iterator, and
\* whether others have modified the list since.  found is what is left of
\* cpList, a controller as the session it belongs to; sent are the sessions
\* written to.  steady observes who was settled under dev all the time.
RelayFrames ==
  [pc : RelayPc, dev : DeviceId \cup {Null}, lst : ListId \cup {Null}, cursor : Nat,
   dirty : BOOLEAN, found : Seq(Channel \cup {Null}), sent : Seq(Channel),
   steady : SUBSET Channel]

RelayTypeOK ==
  /\ up \in SUBSET Mqtt
  /\ rel \in [Mqtt -> RelayFrames]
  /\ \A k \in Mqtt : rel[k].pc = "iterate" => rel[k].lst # Null
  /\ commands \in [Mqtt -> 0..MaxCommands]

RelayInit ==
  /\ Init
  /\ up = Mqtt
  /\ rel = [k \in Mqtt |-> [pc |-> "idle", dev |-> Null, lst |-> Null, cursor |-> 0,
                            dirty |-> FALSE, found |-> <<>>, sent |-> <<>>,
                            steady |-> {}]]
  /\ commands = [k \in Mqtt |-> 0]

-----------------------------------------------------------------------------
In(k, p) == rel[k].pc = p

SettledAs(d) == {c \in Channel : Settled(c) /\ ses[c].deviceId = d}

\* A command for a device some client subscribes to.  It is on its way until
\* the callback thread looks the device up.
Arrive(k) ==
  /\ k \in up /\ rel[k].pc \in {"idle", "done"} /\ commands[k] < MaxCommands
  /\ \E d \in {e \in subs : ClientOf[e] = k} :
       rel' = [rel EXCEPT ![k] = [@ EXCEPT !.pc = "lookup", !.dev = d, !.sent = <<>>,
                                           !.steady = SettledAs(d)]]
  /\ commands' = [commands EXCEPT ![k] = @ + 1]
  /\ UNCHANGED <<vars, up>>

\* The connection of k is gone, and with it what it subscribed to.
Drop(k) ==
  /\ up' = up \ {k}
  /\ subs' = {d \in subs : ClientOf[d] # k}
  /\ UNCHANGED <<chan, directory, ses, sts, log, th, todo, failed, commands>>

\* A NullPointerException, a ConcurrentModificationException or a
\* NoSuchElementException leaves recieve.
Fail(k) ==
  /\ rel' = [rel EXCEPT ![k] = [@ EXCEPT !.pc = "failed", !.lst = Null, !.cursor = 0,
                                         !.dirty = FALSE, !.found = <<>>]]
  /\ Drop(k)

\* Seeded fault: the list is gone over without asking whether there is one.
LookupUnchecked(k) ==
  /\ In(k, "lookup")
  /\ rel' = [rel EXCEPT ![k] = [@ EXCEPT !.pc = "iterate", !.cursor = 0, !.dirty = FALSE,
                                         !.lst = deviceMap[rel[k].dev]]]
  /\ UNCHANGED <<vars, up, commands>>

\* ControllerProxyManager.findByDeviceId asks for the list of the device: the
\* for-each begins, or throws when there is none.
Lookup(k) ==
  LET l == deviceMap[rel[k].dev] IN
  /\ In(k, "lookup")
  /\ \/ l = Null /\ Fail(k)
     \/ /\ l # Null
        /\ rel' = [rel EXCEPT ![k] = [@ EXCEPT !.pc = "iterate", !.lst = l,
                                               !.cursor = 0, !.dirty = FALSE]]
        /\ UNCHANGED <<vars, up, commands>>

\* Seeded fault: the for-each ends one session too early.
FindProxyShort(k) ==
  LET l == lists[rel[k].lst]
      s == IF rel[k].cursor < Size(l) THEN l[rel[k].cursor + 1] ELSE Null
  IN
  /\ In(k, "iterate")
  /\ \/ /\ rel[k].cursor + 1 >= Size(l)
        /\ rel' = [rel EXCEPT ![k] = [@ EXCEPT !.pc = "send", !.dirty = FALSE]]
        /\ UNCHANGED <<vars, up, commands>>
     \/ /\ rel[k].cursor + 1 < Size(l)
        /\ rel[k].dirty \/ s \notin sessionMap
        /\ Fail(k)
     \/ /\ rel[k].cursor + 1 < Size(l) /\ ~rel[k].dirty /\ s \in sessionMap
        /\ rel' = [rel EXCEPT ![k] = [@ EXCEPT !.cursor = rel[k].cursor + 1,
              !.found = Append(rel[k].found, IF ses[s].ctl = Null THEN Null ELSE s)]]
        /\ UNCHANGED <<vars, up, commands>>

\* The next session of the for-each, and its controller if it has one.  The
\* loop ends when the iterator stands at the size of the list, modified or not;
\* next() throws when the list has been modified or its size is negative,
\* findProxy when the slot is empty or the session is not in _sessionMap any more.
FindProxy(k) ==
  LET l == lists[rel[k].lst]
      s == IF rel[k].cursor < Size(l) THEN l[rel[k].cursor + 1] ELSE Null
  IN
  /\ In(k, "iterate")
  /\ \/ /\ rel[k].cursor = Size(l)
        /\ rel' = [rel EXCEPT ![k] = [@ EXCEPT !.pc = "send", !.dirty = FALSE]]
        /\ UNCHANGED <<vars, up, commands>>
     \/ /\ rel[k].cursor # Size(l)
        /\ rel[k].dirty \/ s \notin sessionMap
        /\ Fail(k)
     \/ /\ rel[k].cursor # Size(l) /\ ~rel[k].dirty /\ s \in sessionMap
        /\ rel' = [rel EXCEPT ![k] = [@ EXCEPT !.cursor = rel[k].cursor + 1,
              !.found = Append(rel[k].found, IF ses[s].ctl = Null THEN Null ELSE s)]]
        /\ UNCHANGED <<vars, up, commands>>

\* DeviceProxy.recieveCommand: the command goes to the channel of session s.
\* Whether anybody still reads there is not looked at.
RecieveCommand(k, s) ==
  /\ rel' = [rel EXCEPT ![k] = [@ EXCEPT !.found = Tail(rel[k].found),
                                         !.sent = Append(rel[k].sent, s)]]
  /\ UNCHANGED <<vars, up, commands>>

\* cpList.forEach(sendCommand).  It throws when there was no controller, when
\* the session has left _sessionMap or when it has no DeviceProxy yet.
SendCommand(k) ==
  /\ In(k, "send")
  /\ \/ /\ rel[k].found = <<>>
        /\ rel' = [rel EXCEPT ![k] = [@ EXCEPT !.pc = "done", !.lst = Null, !.cursor = 0]]
        /\ UNCHANGED <<vars, up, commands>>
     \/ \E s \in sessionMap :
          /\ rel[k].found # <<>> /\ s = Head(rel[k].found) /\ ses[s].proxied
          /\ RecieveCommand(k, s)
     \/ /\ rel[k].found # <<>>
        /\ Head(rel[k].found) \notin {s \in sessionMap : ses[s].proxied}
        /\ Fail(k)

\* The connection breaks between two commands.
ConnectionLost(k) ==
  /\ k \in up /\ rel[k].pc \in {"idle", "done"}
  /\ Drop(k)
  /\ UNCHANGED rel

\* MqttPool.reconnect: E.connect(_connOpts), and no more than that.
Reconnect(k) ==
  /\ k \notin up
  /\ up' = up \cup {k}
  /\ rel' = [rel EXCEPT ![k] = [@ EXCEPT !.pc = "idle", !.dev = Null, !.sent = <<>>,
                                         !.steady = {}]]
  /\ UNCHANGED <<vars, commands>>

-----------------------------------------------------------------------------
\* A handler of SessionManager goes on.  A client that is not connected takes
\* no subscription; the call throws.
HandlerStep ==
  /\ Next
  /\ \A d \in subs' \ subs : ClientOf[d] \in up
  /\ rel' = [k \in Mqtt |->
       [rel[k] EXCEPT !.dirty = @ \/ (In(k, "iterate") /\ Modifies(rel[k].lst)),
                      !.steady = {c \in @ : th'[c].pc \in {"idle", "registered"}
                                            /\ ses'[c].deviceId = rel[k].dev}]]
  /\ UNCHANGED <<up, commands>>

RelayNext ==
  \/ HandlerStep
  \/ \E k \in Mqtt : \/ Arrive(k) \/ Lookup(k) \/ FindProxy(k) \/ SendCommand(k)
                     \/ ConnectionLost(k) \/ Reconnect(k)

RelaySpec == RelayInit /\ [][RelayNext]_relayVars

-----------------------------------------------------------------------------
(* Properties.                                                             *)

\* A gateway that is settled under its id from the moment a command for that
\* id arrives until recieve returns is written the command exactly once, and
\* nobody is written it twice.
SteadyIsServed ==
  \A k \in Mqtt : In(k, "done") =>
    \A c \in Channel :
      LET times == Cardinality({i \in 1..Len(rel[k].sent) : rel[k].sent[i] = c})
      IN  times = 1 \/ (times = 0 /\ c \notin rel[k].steady)

\* A command for a gateway that is settled all the while does not make recieve
\* throw: only a gateway that comes, registers or goes in the meantime costs
\* the client its connection.
SteadyIsSafe == \A k \in Mqtt : In(k, "failed") => rel[k].steady = {}

\* The command topic of a settled gateway has a subscription whenever the
\* client that serves it is connected.
SettledIsReachable ==
  \A c \in Channel :
    Settled(c) /\ ClientOf[ses[c].deviceId] \in up => ses[c].deviceId \in subs
=============================================================================
