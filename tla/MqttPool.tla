------------------------------ MODULE MqttPool ------------------------------
(***************************************************************************)
(* mqtt/MqttPool: the table that spreads the devices over a fixed number   *)
(* of MQTT clients, proxy/MqttProxy, which calls it, and the query         *)
(* getMqttInfo, which looks at it.                                         *)
(*                                                                         *)
(* getInstance(deviceId), release and counter read and write four maps     *)
(* without a lock; every read and every write is a step of its own here.   *)
(* The threads are those that run session handlers.  A session subscribes  *)
(* its device when it takes the id, publishes while it holds it, and the   *)
(* last one to give the id up unsubscribes it (SessionManager.closeSession,*)
(* ControllerProxy.updateDeviceId).                                        *)
(*                                                                         *)
(* Connections of the clients are the matter of MqttReconnect.             *)
(***************************************************************************)
EXTENDS ArrayLists, FiniteSetsExt

CONSTANTS
  Thread,       \* threads that run session handlers
  Client,       \* the MQTT clients of the pool
  Order,        \* the clients in the order in which a map iterates over them
  First,        \* _mqttClientList.get(0)
  DeviceId,
  Devices,      \* Devices[t]: the ids the sessions of t may take
  MqttReliable, \* FALSE: subscribe, unsubscribe and publish may throw
  MaxCalls      \* bound: MaxCalls[t], how many calls of MqttProxy t makes

ASSUME PoolAssumption ==
  /\ Client # {} /\ First \in Client
  /\ IsFiniteSet(Client) /\ IsFiniteSet(DeviceId)
  /\ Order \in Seq(Client) /\ {Order[i] : i \in 1..Len(Order)} = Client
  /\ Devices \in [Thread -> SUBSET DeviceId]
  /\ Null \notin Client \cup DeviceId
  /\ MqttReliable \in BOOLEAN
  /\ MaxCalls \in [Thread -> Nat]

VARIABLES
  clientOf,    \* _deviceId2MqttClientMap: the client of a device, or Null
  count,       \* _clientId2Count
  devices,     \* _clientId2DeviceIdMap: the list of a client
  subscribed,  \* the devices whose command topic a client is subscribed to
  held,        \* which thread has a session under which id
  th,          \* the frame of a thread
  info,        \* the frame of getMqttInfo
  failed,      \* history: the devices whose last (un)subscription did not get
               \* through: it threw in the call of the client or before it
  raced        \* history: have two threads been in the books at once?

vars == <<clientOf, count, devices, subscribed, held, th, info, failed, raced>>

Pc == {"idle", "contains", "get", "average", "pick", "put", "countRead",
       "countWrite", "addRead", "addStore", "call", "mapRemove", "remFind",
       "remShift"}

\* Calls on the client at hand.
UsesClient == {"put", "countRead", "countWrite", "addRead", "addStore", "call",
               "remFind", "remShift"}

Op == {"subscribe", "unsubscribe", "publish", "none"}

\* The lines that read the load of the clients or write the books.
Books == {"average", "pick", "put", "countRead", "countWrite", "addRead",
          "addStore", "remFind", "remShift"}

\* n is the local that is live: an average, a count, a size or an index.
Frames ==
  [pc : Pc, op : Op, dev : DeviceId \cup {Null}, cl : Client \cup {Null},
   n : Int, plus : {1, -1}, calls : Nat]

\* read: how many clients getMqttInfo has looked at, or -1 when it does not run;
\* size: what it has just read.  steady observes: the devices that the books have
\* had with a client still to come since the request came; still: has nothing
\* else happened since?
Infos ==
  [read : Int, size : Int, steady : SUBSET (DeviceId \X Client), still : BOOLEAN]

TypeOK ==
  /\ clientOf \in [DeviceId -> Client \cup {Null}]
  /\ count \in [Client -> Int]
  /\ devices \in [Client -> ListOf(DeviceId \cup {Null})]
  /\ subscribed \in [Client -> SUBSET DeviceId]
  /\ held \in SUBSET (Thread \X DeviceId)
  /\ th \in [Thread -> Frames]
  /\ info \in Infos /\ info.read \in -1..Len(Order) - 1
  /\ failed \in SUBSET DeviceId /\ raced \in BOOLEAN
  /\ \A t \in Thread : th[t].pc \in UsesClient => th[t].cl # Null

\* A frame without a client: a call that begins, or none.
Frame(p, o, d, m) ==
  [pc |-> p, op |-> o, dev |-> d, cl |-> Null, n |-> 0, plus |-> 1, calls |-> m]

Init ==
  /\ clientOf = [d \in DeviceId |-> Null]
  /\ count = [k \in Client |-> 0]
  /\ devices = [k \in Client |-> <<>>]
  /\ subscribed = [k \in Client |-> {}]
  /\ held = {}
  /\ th = [t \in Thread |-> Frame("idle", "none", Null, 0)]
  /\ info = [read |-> -1, size |-> 0, steady |-> {}, still |-> FALSE]
  /\ failed = {} /\ raced = FALSE

-----------------------------------------------------------------------------
At(t, p) == th[t].pc = p

Holders(d) == {t \in Thread : <<t, d>> \in held}

Goto(t, p) == th' = [th EXCEPT ![t].pc = p]

\* The call has returned or thrown.
Done(t) ==
  th' = [th EXCEPT ![t] = Frame("idle", "none", Null, th[t].calls)]

\* An exception leaves getInstance: nothing has been asked of a client.
NotCalled(t) ==
  /\ Done(t)
  /\ failed' = IF th[t].op = "publish" THEN failed ELSE failed \cup {th[t].dev}

\* A call of MqttProxy begins: each starts with getInstance(deviceId).
Enter(t, o, d) ==
  th' = [th EXCEPT ![t] = Frame("contains", o, d, th[t].calls + 1)]

\* A session takes an id: MqttProxy.subscribe.
Subscribe(t) ==
  /\ At(t, "idle") /\ th[t].calls < MaxCalls[t]
  /\ \E d \in Devices[t] :
       /\ <<t, d>> \notin held
       /\ held' = held \cup {<<t, d>>}
       /\ Enter(t, "subscribe", d)
  /\ UNCHANGED <<clientOf, count, devices, subscribed, failed>>

\* Data of the gateway arrives: MqttProxy.publish.
PublishData(t) ==
  /\ At(t, "idle") /\ th[t].calls < MaxCalls[t]
  /\ \E d \in Devices[t] : <<t, d>> \in held /\ Enter(t, "publish", d)
  /\ UNCHANGED <<clientOf, count, devices, subscribed, held, failed>>

\* A session gives its id up; the last one of a device calls
\* MqttProxy.unSubscribe.
Unsubscribe(t) ==
  /\ At(t, "idle") /\ th[t].calls < MaxCalls[t]
  /\ \E d \in Devices[t] :
       /\ <<t, d>> \in held
       /\ held' = held \ {<<t, d>>}
       /\ IF Holders(d) = {t} THEN Enter(t, "unsubscribe", d) ELSE UNCHANGED th
  /\ UNCHANGED <<clientOf, count, devices, subscribed, failed>>

-----------------------------------------------------------------------------
(* getInstance(deviceId).                                                  *)

\* Seeded fault: a device that has a client is given one again.
ContainsKeyIgnored(t) ==
  /\ At(t, "contains")
  /\ Goto(t, "average")
  /\ UNCHANGED <<clientOf, count, devices, subscribed, held, failed>>

\* _deviceId2MqttClientMap.containsKey(deviceId).
ContainsKey(t) ==
  /\ At(t, "contains")
  /\ Goto(t, IF clientOf[th[t].dev] = Null THEN "average" ELSE "get")
  /\ UNCHANGED <<clientOf, count, devices, subscribed, held, failed>>

\* return _deviceId2MqttClientMap.get(deviceId): null if it has been released
\* since, and then the caller throws.
GetClient(t) ==
  /\ At(t, "get")
  /\ IF clientOf[th[t].dev] = Null
     THEN NotCalled(t)
     ELSE /\ th' = [th EXCEPT ![t] = [@ EXCEPT !.pc = "call", !.cl = clientOf[th[t].dev]]]
          /\ UNCHANGED failed
  /\ UNCHANGED <<clientOf, count, devices, subscribed, held>>

\* whoNotBusy: the average load, rounded down, plus one.
ReadAverage(t) ==
  LET mapped == {d \in DeviceId : clientOf[d] # Null} IN
  /\ At(t, "average")
  /\ th' = [th EXCEPT ![t] = [@ EXCEPT !.pc = "pick",
              !.n = Cardinality(mapped) \div Cardinality(Client) + 1]]
  /\ UNCHANGED <<clientOf, count, devices, subscribed, held, failed>>

\* Seeded fault: the comparison is the wrong way round.
WhoNotBusyHeavy(avg) ==
  LET heavy == {i \in 1..Len(Order) : count[Order[i]] > avg}
  IN IF heavy = {} THEN First ELSE Order[Max(heavy)]

\* whoNotBusy: the last client of the iteration whose count is at most avg, or
\* else the first of the pool (`return' in the lambda does not end the loop).
WhoNotBusy(avg) ==
  LET light == {i \in 1..Len(Order) : count[Order[i]] <= avg}
  IN IF light = {} THEN First ELSE Order[Max(light)]

Pick(t) ==
  /\ At(t, "pick")
  /\ th' = [th EXCEPT ![t] = [@ EXCEPT !.pc = "put", !.cl = WhoNotBusy(th[t].n)]]
  /\ UNCHANGED <<clientOf, count, devices, subscribed, held, failed>>

\* _deviceId2MqttClientMap.put(deviceId, instance).
Put(t) ==
  /\ At(t, "put")
  /\ clientOf' = [clientOf EXCEPT ![th[t].dev] = th[t].cl]
  /\ th' = [th EXCEPT ![t] = [@ EXCEPT !.pc = "countRead", !.plus = 1]]
  /\ UNCHANGED <<count, devices, subscribed, held, failed>>

\* counter(clientId, plus): read ...
CountRead(t) ==
  /\ At(t, "countRead")
  /\ th' = [th EXCEPT ![t] = [@ EXCEPT !.pc = "countWrite", !.n = count[th[t].cl]]]
  /\ UNCHANGED <<clientOf, count, devices, subscribed, held, failed>>

\* ... and write.
CountWrite(t) ==
  /\ At(t, "countWrite")
  /\ count' = [count EXCEPT ![th[t].cl] = th[t].n + th[t].plus]
  /\ Goto(t, IF th[t].plus = 1 THEN "addRead" ELSE "remFind")
  /\ UNCHANGED <<clientOf, devices, subscribed, held, failed>>

\* _clientId2DeviceIdMap.get(clientId).add(deviceId), in its two halves.
AddRead(t) ==
  /\ At(t, "addRead")
  /\ th' = [th EXCEPT ![t] = [@ EXCEPT !.pc = "addStore", !.n = Size(devices[th[t].cl])]]
  /\ UNCHANGED <<clientOf, count, devices, subscribed, held, failed>>

\* On a list of a negative size the store throws.
AddStore(t) ==
  /\ At(t, "addStore")
  /\ devices' = [devices EXCEPT ![th[t].cl] = StoreAt(@, th[t].n, th[t].dev)]
  /\ IF th[t].n < 0 THEN NotCalled(t) ELSE Goto(t, "call") /\ UNCHANGED failed
  /\ UNCHANGED <<clientOf, count, subscribed, held>>

-----------------------------------------------------------------------------
(* The call of the client, and release(deviceId).                          *)

\* What the call does to the subscriptions of the client.
Effect(t) ==
  LET d == th[t].dev IN
  CASE th[t].op = "subscribe" -> subscribed' = [subscribed EXCEPT ![th[t].cl] = @ \cup {d}]
    [] th[t].op = "unsubscribe" -> subscribed' = [subscribed EXCEPT ![th[t].cl] = @ \ {d}]
    [] OTHER -> UNCHANGED subscribed

\* subscribe, unsubscribe or publish of the client.  After unsubscribe comes
\* release.  Unless MqttReliable the call may throw, with its effect or without.
Call(t) ==
  /\ At(t, "call")
  /\ \/ /\ Effect(t)
        /\ IF th[t].op = "unsubscribe" THEN Goto(t, "mapRemove") ELSE Done(t)
        /\ failed' = IF th[t].op = "publish" THEN failed ELSE failed \ {th[t].dev}
     \/ /\ ~MqttReliable
        /\ Effect(t) \/ UNCHANGED subscribed
        /\ Done(t)
        /\ failed' = IF th[t].op = "publish" THEN failed ELSE failed \cup {th[t].dev}
  /\ UNCHANGED <<clientOf, count, devices, held>>

\* Seeded fault: release does not count the device off.
MapRemoveUncounted(t) ==
  /\ At(t, "mapRemove")
  /\ clientOf' = [clientOf EXCEPT ![th[t].dev] = Null]
  /\ th' = [th EXCEPT ![t] = [@ EXCEPT !.pc = "remFind", !.cl = clientOf[th[t].dev]]]
  /\ UNCHANGED <<count, devices, subscribed, held, failed>>

\* Seeded fault: release removes the entry first and then asks for its client.
MapRemoveThenGet(t) ==
  /\ At(t, "mapRemove")
  /\ clientOf' = [clientOf EXCEPT ![th[t].dev] = Null]
  /\ th' = [th EXCEPT ![t] = [@ EXCEPT !.pc = "countRead", !.plus = -1,
                                       !.cl = clientOf'[th[t].dev]]]
  /\ UNCHANGED <<count, devices, subscribed, held, failed>>

\* _deviceId2MqttClientMap.remove(deviceId); a null client throws.
MapRemove(t) ==
  /\ At(t, "mapRemove")
  /\ clientOf' = [clientOf EXCEPT ![th[t].dev] = Null]
  /\ IF clientOf[th[t].dev] = Null
     THEN Done(t)
     ELSE th' = [th EXCEPT ![t] = [@ EXCEPT !.pc = "countRead", !.plus = -1,
                                            !.cl = clientOf[th[t].dev]]]
  /\ UNCHANGED <<count, devices, subscribed, held, failed>>

\* _clientId2DeviceIdMap.get(clientId).remove(deviceId), in its two halves.
RemFind(t) ==
  LET i == IndexOf(devices[th[t].cl], th[t].dev) IN
  /\ At(t, "remFind")
  /\ IF i = 0 THEN Done(t)
     ELSE th' = [th EXCEPT ![t] = [@ EXCEPT !.pc = "remShift", !.n = i]]
  /\ UNCHANGED <<clientOf, count, devices, subscribed, held, failed>>

\* On a list that another thread has emptied meanwhile it takes the size below
\* zero and throws, out of release.
RemShift(t) ==
  /\ At(t, "remShift")
  /\ devices' = [devices EXCEPT ![th[t].cl] = ShiftFrom(@, th[t].n)]
  /\ Done(t)
  /\ UNCHANGED <<clientOf, count, subscribed, held, failed>>

-----------------------------------------------------------------------------
(* getMqttInfo.                                                            *)

\* The devices the books have, and where.
Kept == {p \in DeviceId \X Client :
           /\ clientOf[p[1]] = p[2]
           /\ \E i \in 1..Size(devices[p[2]]) : devices[p[2]][i] = p[1]}

AtRest == \A t \in Thread : At(t, "idle")

AskInfo ==
  /\ info.read = -1
  /\ info' = [read |-> 0, size |-> 0, steady |-> Kept, still |-> AtRest]
  /\ UNCHANGED <<clientOf, count, devices, subscribed, held, th, failed>>

\* The clients still to come when i have been read.
ToCome(i) == {Order[j] : j \in i + 1..Len(Order)}

\* One more client has been looked at; after the last one the answer is given.
HasRead(n) ==
  LET i == info.read + 1 IN
  info' = IF i = Len(Order)
          THEN [read |-> -1, size |-> n, steady |-> {}, still |-> FALSE]
          ELSE [info EXCEPT !.read = i, !.size = n,
                            !.steady = {p \in @ : p[2] \in ToCome(i)}]

\* Seeded fault: the list of the first client is asked for again and again.
ReadSizeOfFirst ==
  /\ info.read >= 0
  /\ HasRead(Size(devices[First]))
  /\ UNCHANGED <<clientOf, count, devices, subscribed, held, th, failed>>

\* getDeviceIdsOfMqttClient(clientId).size() for the next client.
ReadSize ==
  /\ info.read >= 0
  /\ HasRead(Size(devices[Order[info.read + 1]]))
  /\ UNCHANGED <<clientOf, count, devices, subscribed, held, th, failed>>

\* What a step of a thread does to what the request observes.
Seen == info' = [info EXCEPT !.size = 0, !.steady = @ \cap Kept', !.still = FALSE]

-----------------------------------------------------------------------------
Step(t) ==
  \/ ContainsKey(t) \/ GetClient(t) \/ ReadAverage(t) \/ Pick(t) \/ Put(t)
  \/ CountRead(t) \/ CountWrite(t) \/ AddRead(t) \/ AddStore(t)
  \/ Call(t) \/ MapRemove(t) \/ RemFind(t) \/ RemShift(t)

Racing == \E t, u \in Thread : t # u /\ th[t].pc \in Books /\ th[u].pc \in Books

Next ==
  /\ \/ \E t \in Thread :
          (Subscribe(t) \/ PublishData(t) \/ Unsubscribe(t) \/ Step(t)) /\ Seen
     \/ AskInfo \/ ReadSize
  /\ raced' = (raced \/ Racing')

Spec == Init /\ [][Next]_vars

-----------------------------------------------------------------------------
(* Properties.                                                             *)

\* The devices the pool has given to client k.
Load(k) == {d \in DeviceId : clientOf[d] = k}

\* The client that is subscribed to the command topic of a device is the one
\* the map names: no device is subscribed twice, or through a client that
\* release will not find.
SubscribedWhereMapped ==
  \A k \in Client : \A d \in subscribed[k] : clientOf[d] = k

\* When all is at rest, exactly the devices of the sessions are subscribed, but
\* for those whose last subscription or unsubscription threw before the client
\* was done with it.  The next one that does not throw puts that right.
SubscribedIsHeld ==
  AtRest => \A d \in DeviceId \ failed :
    Holders(d) # {} <=> \E k \in Client : d \in subscribed[k]

\* When all is at rest, the books of the pool agree, whatever calls have thrown:
\* the count of a client and its list of devices are those of the map.  Two
\* threads that are in the books at once may spoil them for good.
BooksAgree ==
  AtRest /\ ~raced => \A k \in Client :
    /\ count[k] = Cardinality(Load(k))
    /\ Size(devices[k]) = count[k]
    /\ {devices[k][i] : i \in 1..Size(devices[k])} = Load(k)

\* A device that is new to the pool goes to client k.
Given(k) == \E d \in DeviceId : clientOf[d] = Null /\ clientOf'[d] = k

Mapped == {d \in DeviceId : clientOf[d] # Null}

\* A new device goes to a client whose load exceeds the average by at most one,
\* unless two threads have been in the books at once.
GivenToLight ==
  [][\A k \in Client : Given(k) /\ ~raced' =>
       Cardinality(Load(k)) <= Cardinality(Mapped) \div Cardinality(Client) + 1]_vars

\* getMqttInfo counts every device that keeps its place while it reads client
\* after client, and when nothing else happens it counts no other.
InfoCounts ==
  [][~raced /\ info.read >= 0 /\ info'.read # info.read =>
       LET Keeps == {p \in info.steady : p[2] = Order[info.read + 1]} IN
       /\ info'.size >= Cardinality(Keeps)
       /\ info.still => info'.size = Cardinality(Keeps)]_vars
=============================================================================
