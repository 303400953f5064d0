--------------------------- MODULE SessionManager ---------------------------
(***************************************************************************)
(* The session directory of jbus and every handler that writes it:         *)
(* session/SessionManager, handler/RegistHandler, the closing half of      *)
(* handler/ModbusHandler, proxy/DeviceProxy, proxy/ControllerProxy and     *)
(* session/EventManager.                                                   *)
(*                                                                         *)
(* A gateway opens one TCP connection (a Channel).  Netty runs the         *)
(* handlers of one channel one after the other on an event loop; handlers  *)
(* of different channels, and the thread that looks for dead connections   *)
(* (LostTask), run at the same time and share the maps without a lock.     *)
(* The model therefore gives every channel a thread of its own and         *)
(* interleaves all of them at the level of single map, list and MQTT       *)
(* calls.                                                                  *)
(*                                                                         *)
(* A channel makes at most one session, whose id is a fresh UUID: the      *)
(* session, its id and its channel are one value here.                     *)
(***************************************************************************)
EXTENDS ArrayLists

CONSTANTS
  Channel,      \* TCP connections of gateways, and the sessions they make
  LostTask,     \* the thread started by SessionManager.checkLostTask
  DeviceId,     \* device ids: the keys of _device2SessionMap
  AddrId,       \* AddrId[c]: makeDeviceId(host, port) of the peer of c
  TokenIds,     \* TokenIds[c]: the ids the gateway behind c registers with
  MqttReliable  \* FALSE: any call to an MQTT client may throw MqttException

\* Two live connections have different peer addresses, and no gateway
\* registers under a name of the form host__port.
ASSUME AddressAssumption ==
  /\ AddrId \in [Channel -> DeviceId]
  /\ \A c, e \in Channel : AddrId[c] = AddrId[e] => c = e
  /\ TokenIds \in [Channel -> SUBSET DeviceId]
  /\ \A c, e \in Channel : AddrId[c] \notin TokenIds[e]

ASSUME ThreadAssumption ==
  /\ LostTask \notin Channel
  /\ Null \notin Channel \cup DeviceId \cup (Channel \X DeviceId)
  /\ MqttReliable \in BOOLEAN

VARIABLES
  chan,        \* chan[c]: Channel.isActive() of c, or "new" before it connects
  sessionMap,  \* _sessionMap: the sessions it holds
  deviceMap,   \* _device2SessionMap: the list object of a device id, or Null
  lists,       \* the contents of every list object
  ses,         \* the proxies hung on a session: see SessionFields
  subs,        \* devices whose command topic TC/CMD/ has a subscription
  sts,         \* the last message published on TC/STS/{deviceId}, or Null
  log,         \* log[s]: every status event published for session s
  th,          \* th[t]: the frame of thread t
  todo,        \* inactiveSessionList of the LostTask thread
  failed       \* history: the sessions for which a call to an MQTT client threw

vars == <<chan, sessionMap, deviceMap, lists, ses, subs, sts, log, th, todo, failed>>

Thread == Channel \cup {LostTask}

\* A `new ArrayList' is named by the session and the device it was made for:
\* one session makes at most one list for one device.
ListId == Channel \X DeviceId

\* What a handler is doing: channelActive, channelRead of REG:, closeSession.
Op == {"create", "update", "close", "none"}

Pc == {"new", "idle", "registered", "inactive", "done",      \* channels
       "scan", "next",                                       \* LostTask
       "listGet", "remFind", "remShift", "isEmpty", "mapRemove",
       "contains", "put", "get", "addRead", "addStore",
       "subscribe", "unsubscribe", "setController", "setDevice",
       "closeUnsub", "readCount", "publish"}

\* Session.getDeviceProxy() # null, DeviceProxy.deviceId and the deviceId of
\* the ControllerProxy (Null while the session has none).
SessionFields ==
  [proxied : BOOLEAN, deviceId : DeviceId \cup {Null}, ctl : DeviceId \cup {Null}]

Event == [event : {"on", "off"}, dev : DeviceId, count : Int]

Frames ==
  [pc : Pc, op : Op, cur : Channel \cup {Null}, dev : DeviceId \cup {Null},
   lst : ListId \cup {Null}, idx : Int, cnt : Int]

Frame(p, o, s, d) ==
  [pc |-> p, op |-> o, cur |-> s, dev |-> d, lst |-> Null, idx |-> 0, cnt |-> 0]

TypeOK ==
  /\ chan \in [Channel -> {"new", "open", "closed"}]
  /\ sessionMap \in SUBSET Channel
  /\ deviceMap \in [DeviceId -> ListId \cup {Null}]
  /\ lists \in [ListId -> ListOf(Channel \cup {Null})]
  /\ ses \in [Channel -> SessionFields]
  /\ subs \in SUBSET DeviceId
  /\ sts \in [DeviceId -> Event \cup {Null}]
  /\ log \in [Channel -> Seq(Event)]
  /\ th \in [Thread -> Frames]
  /\ todo \in SUBSET Channel
  /\ failed \in SUBSET Channel

Init ==
  /\ chan = [c \in Channel |-> "new"]
  /\ sessionMap = {}
  /\ deviceMap = [d \in DeviceId |-> Null]
  /\ lists = [l \in ListId |-> <<>>]
  /\ ses = [c \in Channel |-> [proxied |-> FALSE, deviceId |-> Null, ctl |-> Null]]
  /\ subs = {}
  /\ sts = [d \in DeviceId |-> Null]
  /\ log = [c \in Channel |-> <<>>]
  /\ th = [t \in Thread |->
             Frame(IF t = LostTask THEN "scan" ELSE "new", "none", Null, Null)]
  /\ todo = {}
  /\ failed = {}

-----------------------------------------------------------------------------
(* Control: moving a thread on, returning from a handler, and throwing.    *)

directory == <<sessionMap, deviceMap, lists>>
broker    == <<subs, sts, log>>

At(t, p) == th[t].pc = p

\* The thread goes on with its handler at p.
Goto(t, p) ==
  /\ th' = [th EXCEPT ![t].pc = p]
  /\ UNCHANGED <<chan, todo, failed>>

\* The thread goes on at p, with frame f for its locals.
GotoWith(t, f) ==
  /\ th' = [th EXCEPT ![t] = f]
  /\ UNCHANGED <<chan, todo, failed>>

\* The handler has returned: the channel waits for its next message (or is
\* gone), the LostTask thread takes the next session of its list.
Return(t) ==
  GotoWith(t, Frame(CASE t = LostTask -> IF todo = {} THEN "scan" ELSE "next"
                      [] th[t].op = "create" -> "idle"
                      [] th[t].op = "update" -> "registered"
                      [] OTHER -> "done", "none", Null, Null))

\* An exception leaves the handler.  In a handler of an open channel it
\* reaches ModbusHandler.exceptionCaught, which closes the channel; out of
\* channelInactive that changes nothing any more; the LostTask thread gives up
\* the rest of its list, logs, and scans again.
Abandon(t) ==
  IF t = LostTask
  THEN /\ th' = [th EXCEPT ![t] = Frame("scan", "none", Null, Null)]
       /\ todo' = {}
       /\ UNCHANGED chan
  ELSE /\ chan' = [chan EXCEPT ![t] = "closed"]
       /\ th' = [th EXCEPT ![t] =
                   Frame(IF th[t].op = "close" THEN "done" ELSE "inactive",
                         "none", Null, Null)]
       /\ UNCHANGED todo

\* The exception is not one of MQTT: a list is not there, or not what it was.
Throw(t) == Abandon(t) /\ UNCHANGED failed

-----------------------------------------------------------------------------
(* Taking a session off the list of a device.  deviceIdUpdateEvent does it *)
(* with the old id, closeSession with the last one; dev is that id.        *)

\* Seeded fault: the session is put back under the id it had before.
ToCreateEventOldId(t) ==
  GotoWith(t, Frame("contains", "update", t, AddrId[t]))

\* deviceIdUpdateEvent has taken the session off the old list: it goes on with
\* deviceIdCreateEvent for the new id.
ToCreateEvent(t) ==
  GotoWith(t, Frame("contains", "update", t, ses[t].deviceId))

\* Seeded fault: deviceIdUpdateEvent leaves the session on the old list.
ListGetNoRemoval(t) ==
  /\ At(t, "listGet")
  /\ \/ th[t].op = "update" /\ ToCreateEvent(t)
     \/ /\ deviceMap[th[t].dev] # Null /\ th[t].op = "close"
        /\ GotoWith(t, [th[t] EXCEPT !.pc = "remFind", !.lst = deviceMap[th[t].dev]])
     \/ /\ deviceMap[th[t].dev] = Null /\ th[t].op = "close"
        /\ Throw(t)
  /\ UNCHANGED <<directory, ses, broker>>

\* _device2SessionMap.get(deviceId).  Without a list deviceIdUpdateEvent skips
\* the removal; closeSession calls remove on null.
ListGet(t) ==
  /\ At(t, "listGet")
  /\ \/ /\ deviceMap[th[t].dev] # Null
        /\ GotoWith(t, [th[t] EXCEPT !.pc = "remFind", !.lst = deviceMap[th[t].dev]])
     \/ /\ deviceMap[th[t].dev] = Null /\ th[t].op = "update"
        /\ ToCreateEvent(t)
     \/ /\ deviceMap[th[t].dev] = Null /\ th[t].op = "close"
        /\ Throw(t)
  /\ UNCHANGED <<directory, ses, broker>>

\* sessionList.remove(session), first half.
RemFind(t) ==
  LET i == IndexOf(lists[th[t].lst], th[t].cur) IN
  /\ At(t, "remFind")
  /\ GotoWith(t, [th[t] EXCEPT !.pc = IF i = 0 THEN "isEmpty" ELSE "remShift",
                               !.idx = i])
  /\ UNCHANGED <<directory, ses, broker>>

\* sessionList.remove(session), second half.  On a list that others have
\* emptied meanwhile it takes the size below zero and throws.
RemShift(t) ==
  /\ At(t, "remShift")
  /\ lists' = [lists EXCEPT ![th[t].lst] = ShiftFrom(@, th[t].idx)]
  /\ IF Size(lists[th[t].lst]) <= 0 THEN Throw(t) ELSE Goto(t, "isEmpty")
  /\ UNCHANGED <<sessionMap, deviceMap, ses, broker>>

\* Seeded fault: an empty list stays in the map.
IsEmptyKeep(t) ==
  /\ At(t, "isEmpty")
  /\ IF th[t].op = "update" THEN ToCreateEvent(t) ELSE Goto(t, "readCount")
  /\ UNCHANGED <<directory, ses, broker>>

\* sessionList.isEmpty(): is the size 0?
IsEmpty(t) ==
  /\ At(t, "isEmpty")
  /\ \/ /\ lists[th[t].lst] = <<>>
        /\ Goto(t, "mapRemove")
     \/ /\ lists[th[t].lst] # <<>> /\ th[t].op = "update"
        /\ ToCreateEvent(t)
     \/ /\ lists[th[t].lst] # <<>> /\ th[t].op = "close"
        /\ Goto(t, "readCount")
  /\ UNCHANGED <<directory, ses, broker>>

\* _device2SessionMap.remove(deviceId).
MapRemove(t) ==
  /\ At(t, "mapRemove")
  /\ deviceMap' = [deviceMap EXCEPT ![th[t].dev] = Null]
  /\ IF th[t].op = "update" THEN ToCreateEvent(t) ELSE Goto(t, "closeUnsub")
  /\ UNCHANGED <<sessionMap, lists, ses, broker>>

-----------------------------------------------------------------------------
(* Putting a session on the list of a device: deviceIdCreateEvent.         *)

\* _device2SessionMap.containsKey(deviceId).
ContainsKey(t) ==
  /\ At(t, "contains")
  /\ Goto(t, IF deviceMap[th[t].dev] = Null THEN "put" ELSE "get")
  /\ UNCHANGED <<directory, ses, broker>>

\* _device2SessionMap.put(deviceId, new ArrayList()): replaces a list that
\* another thread has put since containsKey.
PutList(t) ==
  LET l == <<th[t].cur, th[t].dev>> IN
  /\ At(t, "put")
  /\ lists' = [lists EXCEPT ![l] = <<>>]
  /\ deviceMap' = [deviceMap EXCEPT ![th[t].dev] = l]
  /\ Goto(t, "get")
  /\ UNCHANGED <<sessionMap, ses, broker>>

\* _device2SessionMap.get(deviceId): null when another thread has removed the
\* list since, and then sessionList.add throws.
GetList(t) ==
  /\ At(t, "get")
  /\ IF deviceMap[th[t].dev] = Null
     THEN Throw(t)
     ELSE GotoWith(t, [th[t] EXCEPT !.pc = "addRead", !.lst = deviceMap[th[t].dev]])
  /\ UNCHANGED <<directory, ses, broker>>

\* sessionList.add(session), first half.
AddRead(t) ==
  /\ At(t, "addRead")
  /\ GotoWith(t, [th[t] EXCEPT !.pc = "addStore", !.idx = Size(lists[th[t].lst])])
  /\ UNCHANGED <<directory, ses, broker>>

\* sessionList.add(session), second half.  createOrUpdateController follows: it
\* makes the ControllerProxy of a new session and updates that of an old one.
\* On a list of a negative size the store throws.
AddStore(t) ==
  /\ At(t, "addStore")
  /\ lists' = [lists EXCEPT ![th[t].lst] = StoreAt(@, th[t].idx, th[t].cur)]
  /\ IF th[t].idx < 0 THEN Throw(t)
     ELSE Goto(t, IF ses[t].ctl = Null THEN "subscribe" ELSE "unsubscribe")
  /\ UNCHANGED <<sessionMap, deviceMap, ses, broker>>

-----------------------------------------------------------------------------
(* MQTT: subscriptions and status events.  A call of MqttProxy goes to the *)
(* pool of the broker and then to that of the local broker.  It returns    *)
(* with its effect or, unless MqttReliable, throws: before it had the      *)
(* effect, or after (no acknowledgement came, or the second pool failed).  *)

MqttThrows(t) ==
  /\ ~MqttReliable
  /\ Abandon(t)
  /\ failed' = failed \cup {th[t].cur}

\* Seeded fault: updateDeviceId forgets to subscribe under the new id.
UnsubscribeOnly(t) ==
  /\ At(t, "unsubscribe")
  /\ ses' = [ses EXCEPT ![t].ctl = ses[t].deviceId]
  /\ subs' = subs \ {ses[t].ctl}
  /\ Goto(t, "readCount")
  /\ UNCHANGED <<directory, sts, log>>

\* ControllerProxy.updateDeviceId: the new id is set before unSubscribe(old).
Unsubscribe(t) ==
  /\ At(t, "unsubscribe")
  /\ ses' = [ses EXCEPT ![t].ctl = ses[t].deviceId]
  /\ \/ subs' = subs \ {ses[t].ctl} /\ (Goto(t, "subscribe") \/ MqttThrows(t))
     \/ UNCHANGED subs /\ MqttThrows(t)
  /\ UNCHANGED <<directory, sts, log>>

\* MqttProxy.subscribe of the ControllerProxy, in its constructor or in
\* updateDeviceId.
Subscribe(t) ==
  /\ At(t, "subscribe")
  /\ \/ /\ subs' = subs \cup {ses[t].deviceId}
        /\ \/ Goto(t, IF ses[t].ctl = Null THEN "setController" ELSE "readCount")
           \/ MqttThrows(t)
     \/ UNCHANGED subs /\ MqttThrows(t)
  /\ UNCHANGED <<directory, ses, sts, log>>

\* ControllerProxyManager.createProxy hangs the new proxy on the session.
SetController(t) ==
  /\ At(t, "setController")
  /\ ses' = [ses EXCEPT ![t].ctl = ses[t].deviceId]
  /\ Goto(t, "setDevice")
  /\ UNCHANGED <<directory, broker>>

\* DeviceProxyManager.createProxy does so with the DeviceProxy, last.
SetDevice(t) ==
  /\ At(t, "setDevice")
  /\ ses' = [ses EXCEPT ![t].proxied = TRUE]
  /\ Goto(t, "readCount")
  /\ UNCHANGED <<directory, broker>>

\* Seeded fault: the last session of a device goes without an off event.
CloseUnsubSilent(t) ==
  /\ At(t, "closeUnsub")
  /\ subs' = subs \ {th[t].dev}
  /\ Return(t)
  /\ UNCHANGED <<directory, ses, sts, log>>

\* closeSession: MqttProxy.unSubscribe of a device that has no session left.
CloseUnsub(t) ==
  /\ At(t, "closeUnsub")
  /\ \/ subs' = subs \ {th[t].dev} /\ (Goto(t, "readCount") \/ MqttThrows(t))
     \/ UNCHANGED subs /\ MqttThrows(t)
  /\ UNCHANGED <<directory, ses, sts, log>>

\* Seeded fault: a device without a list has no count.
ReadCountNoDefault(t) ==
  LET l == deviceMap[ses[th[t].cur].deviceId] IN
  /\ At(t, "readCount")
  /\ GotoWith(t, [th[t] EXCEPT !.pc = "publish",
                               !.cnt = IF l = Null THEN Null ELSE Size(lists[l])])
  /\ UNCHANGED <<directory, ses, broker>>

\* EventManager.publish: onlineCount is read first ...
ReadCount(t) ==
  LET l == deviceMap[ses[th[t].cur].deviceId] IN
  /\ At(t, "readCount")
  /\ GotoWith(t, [th[t] EXCEPT !.pc = "publish",
                               !.cnt = IF l = Null THEN 0 ELSE Size(lists[l])])
  /\ UNCHANGED <<directory, ses, broker>>

\* ... and published later.
Publish(t) ==
  LET s == th[t].cur
      e == [event |-> IF th[t].op = "close" THEN "off" ELSE "on",
            dev |-> ses[s].deviceId, count |-> th[t].cnt]
      Reaches == /\ sts' = [sts EXCEPT ![e.dev] = e]
                 /\ log' = [log EXCEPT ![s] = Append(@, e)]
  IN
  /\ At(t, "publish")
  /\ \/ Reaches /\ (Return(t) \/ MqttThrows(t))
     \/ UNCHANGED <<sts, log>> /\ MqttThrows(t)
  /\ UNCHANGED <<directory, ses, subs>>

-----------------------------------------------------------------------------
(* The handlers.                                                           *)

\* RegistHandler.channelActive, up to deviceIdCreateEvent: createSession, then
\* the DeviceProxy constructor with the id made of the peer's address.
Connect(c) ==
  /\ At(c, "new")
  /\ chan' = [chan EXCEPT ![c] = "open"]
  /\ sessionMap' = sessionMap \cup {c}
  /\ ses' = [ses EXCEPT ![c].deviceId = AddrId[c]]
  /\ th' = [th EXCEPT ![c] = Frame("contains", "create", c, AddrId[c])]
  /\ UNCHANGED <<deviceMap, lists, broker, todo, failed>>

\* RegistHandler.channelRead of a well-formed REG:id,token; up to
\* deviceIdUpdateEvent.  The handler is still in the pipeline only at "idle".
Register(c) ==
  /\ At(c, "idle")
  /\ \E d \in TokenIds[c] : ses' = [ses EXCEPT ![c].deviceId = d]
  /\ GotoWith(c, Frame("listGet", "update", c, ses[c].deviceId))
  /\ UNCHANGED <<directory, broker>>

\* The connection ends between two messages: the peer closes it, a heartbeat
\* cannot be written, forwarding data throws, or a REG: message is malformed
\* and regError closes it.  channelInactive runs later.
Disconnect(c) ==
  /\ th[c].pc \in {"idle", "registered"}
  /\ chan' = [chan EXCEPT ![c] = "closed"]
  /\ th' = [th EXCEPT ![c].pc = "inactive"]
  /\ UNCHANGED <<directory, ses, broker, todo, failed>>

\* Seeded fault: whether the session was still in the map is not looked at.
CloseSessionTwice(t, s) ==
  /\ sessionMap' = sessionMap \ {s}
  /\ IF ses[s].proxied
     THEN th' = [th EXCEPT ![t] = Frame("listGet", "close", s, ses[s].deviceId)]
     ELSE th' = [th EXCEPT ![t] =
                   Frame(IF t = LostTask THEN "scan" ELSE "done", "none", Null, Null)]
  /\ UNCHANGED <<chan, deviceMap, lists, ses, broker, failed>>

\* Seeded fault: a session without a DeviceProxy is left in the map.
CloseSessionProxied(t, s) ==
  /\ IF s \in sessionMap /\ ses[s].proxied
     THEN /\ sessionMap' = sessionMap \ {s}
          /\ th' = [th EXCEPT ![t] = Frame("listGet", "close", s, ses[s].deviceId)]
     ELSE /\ th' = [th EXCEPT ![t] =
                      Frame(IF t = LostTask THEN "scan" ELSE "done", "none", Null, Null)]
          /\ UNCHANGED sessionMap
  /\ UNCHANGED <<chan, deviceMap, lists, ses, broker, failed>>

\* _sessionMap.remove returned session s, in thread t, when s is in the map.
\* Otherwise it returned null and the next call throws, as it does when s never
\* got its DeviceProxy.
CloseSession(t, s) ==
  /\ sessionMap' = sessionMap \ {s}
  /\ IF s \in sessionMap /\ ses[s].proxied
     THEN th' = [th EXCEPT ![t] = Frame("listGet", "close", s, ses[s].deviceId)]
     ELSE th' = [th EXCEPT ![t] =
                   Frame(IF t = LostTask THEN "scan" ELSE "done", "none", Null, Null)]
  /\ UNCHANGED <<chan, deviceMap, lists, ses, broker, failed>>

\* ModbusHandler.channelInactive.
ChannelInactive(c) ==
  /\ At(c, "inactive")
  /\ CloseSession(c, c)
  /\ UNCHANGED todo

\* Seeded fault: every session counts as inactive.
LostScanAll ==
  /\ At(LostTask, "scan")
  /\ todo' = sessionMap
  /\ th' = [th EXCEPT ![LostTask].pc = IF todo' = {} THEN "scan" ELSE "next"]
  /\ UNCHANGED <<chan, directory, ses, broker, failed>>

\* checkLostTask: collect the sessions whose channel is no longer active.
LostScan ==
  /\ At(LostTask, "scan")
  /\ todo' = {s \in sessionMap : chan[s] # "open"}
  /\ th' = [th EXCEPT ![LostTask].pc = IF todo' = {} THEN "scan" ELSE "next"]
  /\ UNCHANGED <<chan, directory, ses, broker, failed>>

\* checkLostTask: close one of them.  An exception abandons the others.
LostClose ==
  /\ At(LostTask, "next")
  /\ \E s \in todo :
       /\ CloseSession(LostTask, s)
       /\ todo' = IF s \in sessionMap /\ ses[s].proxied THEN todo \ {s} ELSE {}

-----------------------------------------------------------------------------
\* One step of a call that thread t has begun.
Step(t) ==
  \/ ListGet(t) \/ RemFind(t) \/ RemShift(t) \/ IsEmpty(t) \/ MapRemove(t)
  \/ ContainsKey(t) \/ PutList(t) \/ GetList(t) \/ AddRead(t) \/ AddStore(t)
  \/ Unsubscribe(t) \/ Subscribe(t) \/ SetController(t) \/ SetDevice(t)
  \/ CloseUnsub(t) \/ ReadCount(t) \/ Publish(t)

Next ==
  \/ \E c \in Channel : \/ Connect(c) \/ Register(c) \/ Disconnect(c)
                        \/ ChannelInactive(c)
  \/ LostScan \/ LostClose
  \/ \E t \in Thread : Step(t)

Spec == Init /\ [][Next]_vars

\* Event loops and the LostTask thread keep running: a handler that has begun
\* goes on, and dead connections are looked for again and again.  Peers need not
\* do anything, and nothing is assumed of channelInactive: the rounds of
\* checkLostTask alone must find every session that is left behind.
Fairness ==
  /\ \A t \in Thread : WF_vars(Step(t))
  /\ WF_vars(LostScan)
  /\ WF_vars(LostClose)

FairSpec == Spec /\ Fairness

-----------------------------------------------------------------------------
(* Properties.                                                             *)

\* No two gateways register under the same device id.
DistinctTokens ==
  \A c, e \in Channel : c # e => TokenIds[c] \cap TokenIds[e] = {}

\* No handler is running and no dead connection waits to be closed.
AtRest ==
  /\ \A c \in Channel : th[c].pc \in {"new", "idle", "registered", "done"}
  /\ At(LostTask, "scan")

\* A step of a handler at list l that raises its modCount.
Modifies(l) ==
  \E t \in Thread : /\ th[t].lst = l /\ th[t].pc \in {"addRead", "remShift"}
                    /\ th'[t].pc # th[t].pc

\* Gateway c is connected and its last message has been handled.
Settled(c) == th[c].pc \in {"idle", "registered"}

\* The list findByDeviceId(d) returns holds session s.
Listed(s, d) ==
  deviceMap[d] # Null /\ \E i \in 1..Size(lists[deviceMap[d]]) : lists[deviceMap[d]][i] = s

\* Devices some connected gateway goes by.
Present == {ses[c].deviceId : c \in {e \in Channel : chan[e] = "open"}}

\* A session is in _sessionMap as long as its channel is active: neither its own
\* handlers nor the LostTask thread ever close the session of a live gateway.
LiveSession == \A c \in Channel : chan[c] = "open" => c \in sessionMap

\* Whoever of channelInactive and the LostTask thread closes a session, its off
\* event is published at most once, after every on event, for the last id the
\* gateway went by, and only when the session is gone.
OffIsLast ==
  \A c \in Channel : \A i \in 1..Len(log[c]) :
    log[c][i].event = "off" =>
      /\ i = Len(log[c])
      /\ log[c][i].dev = ses[c].deviceId
      /\ chan[c] = "closed" /\ c \notin sessionMap

\* findByDeviceId finds every settled gateway under the id it goes by.
SettledIsListed == \A c \in Channel : Settled(c) => Listed(c, ses[c].deviceId)

\* The command topic of every settled gateway has a subscription.
SettledIsSubscribed == \A c \in Channel : Settled(c) => ses[c].deviceId \in subs

\* The ids some connected gateway goes by are all the directory and the
\* subscriptions know, those of `others' left aside.
KnowsOnly(others) ==
  /\ \A d \in DeviceId : deviceMap[d] # Null => d \in Present \cup others
  /\ subs \subseteq Present \cup others

\* When all is at rest, the directory and the subscriptions hold the ids of the
\* connected gateways and nothing else: no id of a gateway that has left.  An
\* MQTT call that throws may leave the ids of its own session behind, and no
\* others.
NoGhost ==
  AtRest => KnowsOnly(UNION {TokenIds[c] \cup {AddrId[c]} : c \in failed})

\* The same without allowance for MQTT calls that throw.
NoGhostAtAll == AtRest => KnowsOnly({})

\* When all is at rest, the last status published for an id that gateways
\* register with agrees with the directory, the number of sessions included,
\* however the MQTT calls of other sessions have failed.
StatusIsTrue ==
  AtRest => \A c \in Channel \ failed : \A d \in TokenIds[c] :
    sts[d] # Null =>
      /\ sts[d].event = "on" <=> deviceMap[d] # Null
      /\ sts[d].count = IF deviceMap[d] = Null THEN 0 ELSE Size(lists[deviceMap[d]])

\* A connection that has ended leaves _sessionMap.
ClosedIsForgotten ==
  \A c \in Channel : chan[c] = "closed" ~> c \notin sessionMap

\* A connection that has ended is announced by an off event, unless an MQTT
\* call for this very session has thrown.
ClosedIsAnnounced ==
  \A c \in Channel :
    chan[c] = "closed" ~>
      c \in failed \/ \E i \in 1..Len(log[c]) : log[c][i].event = "off"
=============================================================================
