--------------------------- MODULE LifecycleProofs ---------------------------
(***************************************************************************)
(* The life of a session whose gateway shares its ids with nobody, from    *)
(* its connection to its off event, as long as no MQTT call for it throws: *)
(* proofs of NoGhost and StatusIsTrue of SessionManager, for any number of *)
(* gateways and whatever happens to the calls of the others.               *)
(*                                                                         *)
(* Stage says, line by line of the handlers, what the directory, the list  *)
(* of the device, the subscriptions and the last status hold for the       *)
(* session that is being served; Up and Down say it of one that is not.    *)
(***************************************************************************)
EXTENDS SessionRefinement, SessionManagerProofs, FiniteSetTheorems

\* Thread t runs a handler of session c, or closes it.
Serves(t, c) == th[t].op # "none" /\ th[t].cur = c

\* Of the ids of the gateway behind c, those of m are in the directory ...
Known(c, m) == \A d \in Own(c) : deviceMap[d] = IF d \in m THEN <<c, d>> ELSE Null

\* ... and those of s have a subscription.
Heard(c, s, kept) == kept => \A d \in Own(c) : d \in subs <=> d \in s

\* The lists c has made are under the id they were made for, with c or nobody on
\* them.
Tidy(c) ==
  \A d \in Own(c) :
    deviceMap[d] # Null => deviceMap[d] = <<c, d>> /\ lists[<<c, d>>] \in {<<>>, <<c>>}

\* What has been told of the ids the gateway registers with: of the last one
\* that it is on, or off, and nothing (e = "none", and of the others).
Told(c, e) ==
  \A d \in TokenIds[c] :
    sts[d] = IF e # "none" /\ d = ses[c].deviceId
             THEN [event |-> e, dev |-> d, count |-> IF e = "on" THEN 1 ELSE 0]
             ELSE Null

\* A session that is listed and, unless a call for it has thrown, subscribed and
\* announced.
Up(c, kept) ==
  /\ Known(c, {ses[c].deviceId})
  /\ lists[<<c, ses[c].deviceId>>] = <<c>>
  /\ c \notin failed => /\ Heard(c, {ses[c].deviceId}, kept)
                       /\ ses[c].proxied /\ ses[c].ctl = ses[c].deviceId
                       /\ Told(c, "on")

\* A session that has left nothing behind.
Down(c, kept) == Known(c, {}) /\ Heard(c, {}, kept) /\ Told(c, "off")

GoodbyePc == {"readCount", "publish"}
EmptyPc   == {"isEmpty", "mapRemove", "get", "addRead", "addStore"}

\* Thread t is at a line where the device it works on has no list.
Unlisted(t) == \/ th[t].pc \in {"contains", "put", "closeUnsub"}
               \/ th[t].op = "close" /\ th[t].pc \in GoodbyePc

\* The ids of c in the directory, those with a subscription and the one its
\* ControllerProxy has, when t serves c.
Keys(t) == IF Unlisted(t) THEN {} ELSE {th[t].dev}

Topics(t, c) ==
  CASE th[t].op # "close" /\ th[t].pc \in SubscribedPc -> {ses[c].deviceId}
    [] th[t].op = "update" /\ th[t].pc \notin SubscribedPc \cup {"subscribe"} -> {AddrId[c]}
    [] th[t].op = "close" /\ th[t].pc \notin GoodbyePc -> {ses[c].deviceId}
    [] OTHER -> {}

Controller(t, c) ==
  CASE th[t].op = "create" /\ th[t].pc \notin {"setDevice", "readCount", "publish"} -> Null
    [] th[t].op = "update" /\ th[t].pc \notin AddedPc \ {"unsubscribe"} -> AddrId[c]
    [] OTHER -> ses[c].deviceId

\* The locals of t when it serves c.
Locals(t, c) ==
  /\ th[t].dev = IF th[t].op = "update" /\ th[t].pc \in RemovePc
                 THEN AddrId[c] ELSE ses[c].deviceId
  /\ th[t].op = "create" => th[t].pc # "unsubscribe"
  /\ th[t].op = "update" => th[t].pc \notin {"setController", "setDevice"}
  /\ th[t].pc \in ListPc => th[t].lst = <<c, th[t].dev>>
  /\ th[t].pc = "remShift" => th[t].idx = 1
  /\ th[t].pc = "addStore" => th[t].idx = 0
  /\ th[t].pc = "publish" => th[t].cnt = IF th[t].op = "close" THEN 0 ELSE 1

\* The fields of session c when t serves it.
Fields(t, c) ==
  /\ th[t].op = "create" => ses[c].deviceId = AddrId[c]
  /\ th[t].op = "update" => ses[c].deviceId \in TokenIds[c]
  /\ th[t].op # "close" => ses[c].ctl = Controller(t, c)
  /\ th[t].op # "create" \/ th[t].pc \in GoodbyePc => ses[c].proxied

\* All that holds of session c at the line where t, which serves it, is.
Stage(t, c, kept) ==
  /\ Locals(t, c)
  /\ Fields(t, c)
  /\ Known(c, Keys(t))
  /\ ~Unlisted(t) =>
       lists[<<c, th[t].dev>>] = IF th[t].pc \in EmptyPc THEN <<>> ELSE <<c>>
  /\ c \notin failed => /\ Heard(c, Topics(t, c), kept)
                       /\ Told(c, IF th[t].op = "close" THEN "on" ELSE "none")

\* And at any other time.
Life(c, kept) ==
  /\ Tidy(c)
  /\ c \in failed => chan[c] = "closed"
  /\ chan[c] = "new" => Known(c, {}) /\ Heard(c, {}, kept) /\ ses[c].ctl = Null /\ Told(c, "none")
  /\ Settled(c) \/ (chan[c] = "closed" /\ c \in sessionMap) => Up(c, kept)
  /\ th[c].pc = "idle" => ses[c].deviceId = AddrId[c]
  /\ th[c].pc = "registered" => ses[c].deviceId \in TokenIds[c]
  /\ th[c].pc = "done" => c \notin sessionMap
  /\ /\ chan[c] = "closed" /\ c \notin sessionMap \cup failed
     /\ \A t \in Thread : ~Serves(t, c)
     => Down(c, kept)
  /\ \A t \in Thread : Serves(t, c) => Stage(t, c, kept)

LifeInv(kept) ==
  /\ OwnInv(kept)
  /\ subs \subseteq UNION {Own(c) : c \in Channel}
  /\ \A c \in Channel : Life(c, kept)

-----------------------------------------------------------------------------
(* A session has one server, and the others leave it alone.                *)

LEMMA OneServer ==
  ASSUME NEW kept \in BOOLEAN,
         OwnInv(kept), NEW c \in Channel, NEW t \in Thread, NEW u \in Thread,
         Serves(t, c), Serves(u, c)
  PROVE  t = u
<1>1. /\ th[t].op \in {"create", "update", "close"} /\ th[u].op \in {"create", "update", "close"}
      /\ th[t].op # "close" => t = c /\ Busy(c)
      /\ th[u].op # "close" => u = c /\ Busy(c)
  BY OwnCall DEF Serves, Frames, Op
<1>2. Busy(c) => chan[c] = "open"
  BY DEF OwnInv, Inv, Control, ChanOK, Busy
<1>3. th[t].op = "close" \/ th[u].op = "close" => chan[c] = "closed"
  BY DEF Serves, OwnInv, Inv, Announce, CloseOK
<1>4. th[t].op = "close" /\ th[u].op = "close" => t = u
  BY DEF Serves, OwnInv, Inv, Announce, CloseOK
<1>. QED  BY <1>1, <1>2, <1>3, <1>4

\* What a step of t in the service of s leaves alone beside Elsewhere.
Local(t, s) ==
  /\ \A u \in Thread : u # t => th'[u] = th[u]
  /\ th'[t].op # "none" => th'[t].cur = s
  /\ failed \subseteq failed'
  /\ \A c \in Channel : c # s => /\ chan'[c] = chan[c]
                                 /\ c \in failed' <=> c \in failed
                                 /\ c \in sessionMap' <=> c \in sessionMap
  /\ \A d \in DeviceId : d \notin Own(s) => sts'[d] = sts[d]

LEMMA ElsewhereLife ==
  ASSUME NEW kept \in BOOLEAN,
         DistinctTokens, OwnInv(kept), NEW t \in Thread, NEW s \in Channel,
         t \in Channel => t = s, th[t].op # "none" => th[t].cur = s,
         Elsewhere(s), Local(t, s),
         NEW c \in Channel, c # s, Life(c, kept)
  PROVE  Life(c, kept)'
<1>1. c \in Thread /\ c # t /\ th'[c] = th[c] /\ ses'[c] = ses[c] /\ chan'[c] = chan[c]
      /\ (c \in sessionMap' <=> c \in sessionMap) /\ (c \in failed' <=> c \in failed)
  BY DEF Thread, Local, Elsewhere
<1>2. ASSUME NEW u \in Thread
      PROVE  /\ Serves(u, c)' <=> Serves(u, c)
             /\ Serves(u, c) => th'[u] = th[u]
  BY <1>1 DEF Serves, Local
<1>3. ASSUME NEW d \in Own(c)
      PROVE  /\ deviceMap'[d] = deviceMap[d] /\ (d \in subs' <=> d \in subs)
             /\ sts'[d] = sts[d] /\ lists'[<<c, d>>] = lists[<<c, d>>]
  <2>1. d \in DeviceId /\ d \notin Own(s)
    BY OwnIds
  <2>2. <<c, d>> \in ListId /\ <<c, d>>[1] = c
    BY <2>1 DEF ListId
  <2>. QED  BY <2>1, <2>2 DEF Elsewhere, Local
<1>4. chan[c] # "new" => ses[c].deviceId \in Own(c)
  <2>1. chan[c] # "new" => ses[c].deviceId \in DeviceId
    BY DEF OwnInv, Inv, Control, ChanOK
  <2>. QED  BY <2>1, OwnSessionIds, ThreadAssumption
<1>5. TokenIds[c] \subseteq Own(c)
  BY DEF Own
<1>6. ASSUME chan[c] # "new" PROVE Up(c, kept)' <=> Up(c, kept)
  <2>1. /\ Known(c, {ses[c].deviceId})' <=> Known(c, {ses[c].deviceId})
        /\ Heard(c, {ses[c].deviceId}, kept)' <=> Heard(c, {ses[c].deviceId}, kept)
    BY <1>1, <1>3 DEF Known, Heard
  <2>2. Told(c, "on")' <=> Told(c, "on")
    BY <1>1, <1>3, <1>5 DEF Told
  <2>3. lists'[<<c, ses[c].deviceId>>] = lists[<<c, ses[c].deviceId>>]
    BY <1>3, <1>4, <1>6
  <2>. QED  BY <1>1, <2>1, <2>2, <2>3 DEF Up
<1>7. /\ Down(c, kept)' <=> Down(c, kept)
      /\ Tidy(c)' <=> Tidy(c)
  BY <1>1, <1>3, <1>5, ZenonT(30) DEF Down, Known, Heard, Told, Tidy
<1>8. /\ Known(c, {})' <=> Known(c, {})
      /\ Heard(c, {}, kept)' <=> Heard(c, {}, kept)
      /\ Told(c, "none")' <=> Told(c, "none")
  BY <1>1, <1>3, <1>5 DEF Known, Heard, Told
<1>9. ASSUME NEW u \in Thread, Serves(u, c) PROVE Stage(u, c, kept)' <=> Stage(u, c, kept)
  <2>1. th'[u] = th[u] /\ th[u].dev \in Own(c)
    BY <1>2, <1>9, OwnCall DEF Serves
  <2>2. (Locals(u, c)' <=> Locals(u, c)) /\ (Fields(u, c)' <=> Fields(u, c))
    BY <1>1, <2>1 DEF Locals, Fields, Controller
  <2>3. Keys(u)' = Keys(u) /\ Topics(u, c)' = Topics(u, c) /\ (Unlisted(u)' <=> Unlisted(u))
    BY <1>1, <2>1 DEF Keys, Topics, Unlisted
  <2>4. /\ Known(c, Keys(u))' <=> Known(c, Keys(u))
        /\ Heard(c, Topics(u, c), kept)' <=> Heard(c, Topics(u, c), kept)
    BY <1>3, <2>3 DEF Known, Heard
  <2>5. Told(c, IF th[u].op = "close" THEN "on" ELSE "none")'
        <=> Told(c, IF th[u].op = "close" THEN "on" ELSE "none")
    BY <1>1, <1>3, <1>5, <2>1, ZenonT(30) DEF Told
  <2>6. lists'[<<c, th[u].dev>>] = lists[<<c, th[u].dev>>]
    BY <1>3, <2>1
  <2>. QED  BY <1>1, <2>1, <2>2, <2>3, <2>4, <2>5, <2>6 DEF Stage
<1>10. Settled(c) => chan[c] = "open"
  BY DEF Settled, OwnInv, Inv, Control, ChanOK
<1>. QED  BY <1>1, <1>2, <1>6, <1>7, <1>8, <1>9, <1>10 DEF Life, Settled
-----------------------------------------------------------------------------
(* What a step of a call changes.                                          *)

\* The ways in which a step moves its thread on.
LEMMA GotoLocal ==
  ASSUME NEW kept \in BOOLEAN,
         OwnInv(kept), NEW t \in Thread, th[t].op # "none", NEW s \in Channel, th[t].cur = s,
         NEW p, Goto(t, p), UNCHANGED <<sessionMap, sts>>
  PROVE  Local(t, s)
<1>1. th'[t] = [th[t] EXCEPT !.pc = p] /\ \A u \in Thread : u # t => th'[u] = th[u]
  BY GotoMoves DEF OwnInv, Inv
<1>2. th'[t].cur = s
  BY <1>1, OwnCall DEF Frames
<1>. QED  BY <1>1, <1>2 DEF Goto, Local

LEMMA GotoWithLocal ==
  ASSUME NEW kept \in BOOLEAN,
         OwnInv(kept), NEW t \in Thread, NEW s \in Channel, NEW f, f.cur = s,
         GotoWith(t, f), UNCHANGED <<sessionMap, sts>>
  PROVE  Local(t, s)
<1>1. th'[t].cur = s /\ \A u \in Thread : u # t => th'[u] = th[u]
  BY GotoWithMoves DEF OwnInv, Inv
<1>. QED  BY <1>1 DEF GotoWith, Local

LEMMA ReturnLocal ==
  ASSUME NEW kept \in BOOLEAN,
         OwnInv(kept), NEW t \in Thread, NEW s \in Channel, Return(t), UNCHANGED sessionMap,
         \A d \in DeviceId : d \notin Own(s) => sts'[d] = sts[d]
  PROVE  Local(t, s)
<1>1. th'[t].op = "none" /\ \A u \in Thread : u # t => th'[u] = th[u]
  BY ReturnMoves DEF OwnInv, Inv
<1>2. UNCHANGED <<chan, failed>>
  BY DEF Return, GotoWith
<1>. QED  BY <1>1, <1>2 DEF Local

LEMMA AbandonLocal ==
  ASSUME NEW kept \in BOOLEAN,
         OwnInv(kept), NEW t \in Thread, NEW s \in Channel, t \in Channel => t = s,
         Abandon(t), UNCHANGED sessionMap, failed' \in {failed, failed \cup {s}},
         \A d \in DeviceId : d \notin Own(s) => sts'[d] = sts[d]
  PROVE  Local(t, s)
<1>1. th'[t].op = "none" /\ \A u \in Thread : u # t => th'[u] = th[u]
  BY AbandonMoves DEF OwnInv, Inv
<1>2. \A c \in Channel : c # s => chan'[c] = chan[c]
  BY DEF Abandon, OwnInv, Inv, Control, TypeOK, Thread
<1>. QED  BY <1>1, <1>2 DEF Local

LEMMA StepSessions ==
  ASSUME NEW t \in Thread, Step(t)
  PROVE  UNCHANGED sessionMap
BY DEF Step, directory, broker, ListGet, RemFind, RemShift, IsEmpty, MapRemove,
     ContainsKey, PutList, GetList, AddRead, AddStore, Unsubscribe, Subscribe,
     SetController, SetDevice, CloseUnsub, ReadCount, Publish

LEMMA StepLocal ==
  ASSUME NEW kept \in BOOLEAN,
         OwnInv(kept), NEW t \in Thread, Step(t), NEW s \in Channel, th[t].cur = s
  PROVE  Local(t, s)
<1>1. th[t].op # "none" /\ th[t].op \in {"create", "update", "close"} /\ th[t] \in Frames
      /\ (t \in Channel => t = s) /\ ses[s].deviceId \in Own(s)
      /\ (th[t].op # "close" => t = s)
  BY StepServes, OwnCall DEF OwnInv, Frames, Op
<1>2. UNCHANGED sessionMap
  BY StepSessions
<1>3. CASE Publish(t)
  <2>1. Return(t) \/ MqttThrows(t)
    BY <1>3 DEF Publish
  <2>2. \A d \in DeviceId : d \notin Own(s) => sts'[d] = sts[d]
    BY <1>1, <1>3 DEF Publish, OwnInv, Inv, Control, TypeOK
  <2>. QED  BY <1>1, <1>2, <2>1, <2>2, ReturnLocal, AbandonLocal DEF MqttThrows
<1>4. CASE ~Publish(t)
  <2>1. UNCHANGED sts
    BY <1>4 DEF Step, directory, broker, ListGet, RemFind, RemShift, IsEmpty, MapRemove,
       ContainsKey, PutList, GetList, AddRead, AddStore, Unsubscribe, Subscribe,
       SetController, SetDevice, CloseUnsub, ReadCount
  <2>2. ASSUME NEW p, Goto(t, p) PROVE Local(t, s)
    BY <1>1, <1>2, <2>1, <2>2, GotoLocal
  <2>3. ASSUME NEW f, GotoWith(t, f), f.cur = s PROVE Local(t, s)
    BY <1>2, <2>1, <2>3, GotoWithLocal
  <2>4. ASSUME Throw(t) \/ MqttThrows(t) PROVE Local(t, s)
    BY <1>1, <1>2, <2>1, <2>4, AbandonLocal DEF Throw, MqttThrows
  <2>5. ASSUME ToCreateEvent(t), th[t].op = "update" PROVE Local(t, s)
    <3>1. Frame("contains", "update", t, ses[t].deviceId).cur = t
      BY DEF Frame
    <3>. QED  BY <1>1, <2>3, <2>5, <3>1 DEF ToCreateEvent
  <2>6. CASE ListGet(t)
    <3> DEFINE f == [th[t] EXCEPT !.pc = "remFind", !.lst = deviceMap[th[t].dev]]
    <3>1. f.cur = s
      BY <1>1 DEF Frames
    <3>2. GotoWith(t, f) \/ (th[t].op = "update" /\ ToCreateEvent(t)) \/ Throw(t)
      BY <2>6 DEF ListGet
    <3>. HIDE DEF f
    <3>. QED  BY <3>1, <3>2, <2>3, <2>4, <2>5
  <2>7. CASE RemFind(t)
    <3> DEFINE f == [th[t] EXCEPT !.pc = IF IndexOf(lists[th[t].lst], th[t].cur) = 0
                                       THEN "isEmpty" ELSE "remShift",
                                 !.idx = IndexOf(lists[th[t].lst], th[t].cur)]
    <3>1. f.cur = s
      BY <1>1 DEF Frames
    <3>2. GotoWith(t, f)
      BY <2>7 DEF RemFind
    <3>. HIDE DEF f
    <3>. QED  BY <3>1, <3>2, <2>3
  <2>8. CASE RemShift(t)
    BY <2>8, <2>2, <2>4 DEF RemShift
  <2>9. CASE IsEmpty(t)
    BY <2>9, <2>2, <2>5 DEF IsEmpty
  <2>10. CASE MapRemove(t)
    BY <2>10, <2>2, <2>5 DEF MapRemove
  <2>11. CASE ContainsKey(t)
    BY <2>11, <2>2 DEF ContainsKey
  <2>12. CASE PutList(t)
    BY <2>12, <2>2 DEF PutList
  <2>13. CASE GetList(t)
    <3> DEFINE f == [th[t] EXCEPT !.pc = "addRead", !.lst = deviceMap[th[t].dev]]
    <3>1. f.cur = s
      BY <1>1 DEF Frames
    <3>2. GotoWith(t, f) \/ Throw(t)
      BY <2>13 DEF GetList
    <3>. HIDE DEF f
    <3>. QED  BY <3>1, <3>2, <2>3, <2>4
  <2>14. CASE AddRead(t)
    <3> DEFINE f == [th[t] EXCEPT !.pc = "addStore", !.idx = Size(lists[th[t].lst])]
    <3>1. f.cur = s
      BY <1>1 DEF Frames
    <3>2. GotoWith(t, f)
      BY <2>14 DEF AddRead
    <3>. HIDE DEF f
    <3>. QED  BY <3>1, <3>2, <2>3
  <2>15. CASE AddStore(t)
    BY <2>15, <2>2, <2>4 DEF AddStore
  <2>16. CASE Unsubscribe(t)
    BY <2>16, <2>2, <2>4 DEF Unsubscribe
  <2>17. CASE Subscribe(t)
    BY <2>17, <2>2, <2>4 DEF Subscribe
  <2>18. CASE SetController(t)
    BY <2>18, <2>2 DEF SetController
  <2>19. CASE SetDevice(t)
    BY <2>19, <2>2 DEF SetDevice
  <2>20. CASE CloseUnsub(t)
    BY <2>20, <2>2, <2>4 DEF CloseUnsub
  <2>21. CASE ReadCount(t)
    <3> DEFINE f == [th[t] EXCEPT !.pc = "publish",
                                 !.cnt = IF deviceMap[ses[th[t].cur].deviceId] = Null THEN 0
                                         ELSE Size(lists[deviceMap[ses[th[t].cur].deviceId]])]
    <3>1. f.cur = s
      BY <1>1 DEF Frames
    <3>2. GotoWith(t, f)
      BY <2>21 DEF ReadCount
    <3>. HIDE DEF f
    <3>. QED  BY <3>1, <3>2, <2>3
  <2>. QED  BY <1>4, <2>6, <2>7, <2>8, <2>9, <2>10, <2>11, <2>12, <2>13, <2>14, <2>15, <2>16, <2>17, <2>18, <2>19, <2>20, <2>21 DEF Step
<1>. QED  BY <1>3, <1>4
-----------------------------------------------------------------------------
(* From one line of a handler to the next.                                 *)

LEMMA ServerFacts ==
  ASSUME NEW kept \in BOOLEAN,
         OwnInv(kept), NEW t \in Thread, NEW s \in Channel, Serves(t, s)
  PROVE  /\ th[t] \in Frames /\ Fits(t, th[t])
         /\ th[t].op \in {"create", "update", "close"} /\ th[t].cur = s
         /\ th[t].op # "close" => t = s
         /\ th[t].dev \in Own(s) /\ ses[s].deviceId \in Own(s)
         /\ Own(s) \subseteq DeviceId /\ Null \notin DeviceId
         /\ AddrId[s] \in Own(s) \ TokenIds[s]
         /\ TokenIds[s] \subseteq Own(s)
         /\ \A d \in DeviceId : <<s, d>> \in ListId
BY OwnCall, AddressAssumption, ThreadAssumption DEF Serves, Frames, Op, Own, ListId

LEMMA GoesOn ==
  ASSUME NEW kept \in BOOLEAN,
         OwnInv(kept), NEW t \in Thread, NEW s \in Channel, Serves(t, s),
         NEW f, GotoWith(t, f), f.op # "none", f.cur = s
  PROVE  th'[t] = f /\ Serves(t, s)' /\ failed' = failed
BY GotoWithMoves DEF Serves, GotoWith, OwnInv, Inv

LEMMA ListGetStage ==
  ASSUME NEW kept \in BOOLEAN,
         OwnInv(kept), NEW t \in Thread, NEW s \in Channel, Serves(t, s), Stage(t, s, kept), ListGet(t)
  PROVE  Serves(t, s)' /\ Stage(t, s, kept)' /\ failed' = failed
<1> DEFINE f == [th[t] EXCEPT !.pc = "remFind", !.lst = deviceMap[th[t].dev]]
<1>1. /\ th[t].pc = "listGet" /\ th[t].op \in {"update", "close"}
      /\ UNCHANGED <<deviceMap, lists, ses, subs, sts>>
  BY ServerFacts DEF ListGet, At, directory, broker, Fits, CreatePc
<1>2. deviceMap[th[t].dev] = <<s, th[t].dev>> /\ deviceMap[th[t].dev] # Null
  BY <1>1, ServerFacts, ThreadAssumption DEF Stage, Known, Heard, Keys, Unlisted, GoodbyePc
<1>3. GotoWith(t, f)
  BY <1>1, <1>2 DEF ListGet
<1>4. /\ f.pc = "remFind" /\ f.op = th[t].op /\ f.cur = s /\ f.dev = th[t].dev
      /\ f.lst = <<s, th[t].dev>>
  BY <1>2, ServerFacts DEF Frames
<1>. HIDE DEF f
<1>5. th'[t] = f /\ Serves(t, s)' /\ failed' = failed
  BY <1>1, <1>3, <1>4, GoesOn
<1>. QED  BY <1>1, <1>4, <1>5 DEF Stage, Locals, Fields, Controller, Known, Heard, Keys, Topics,
          Unlisted, Told, GoodbyePc, EmptyPc, RemovePc, ListPc, AddedPc, SubscribedPc

LEMMA GoesTo ==
  ASSUME NEW kept \in BOOLEAN,
         OwnInv(kept), NEW t \in Thread, NEW s \in Channel, Serves(t, s), NEW p, Goto(t, p)
  PROVE  /\ Serves(t, s)' /\ th'[t].pc = p /\ th'[t].op = th[t].op
         /\ th'[t].dev = th[t].dev /\ th'[t].lst = th[t].lst
         /\ th'[t].idx = th[t].idx /\ th'[t].cnt = th[t].cnt /\ failed' = failed
<1>1. th'[t] = [th[t] EXCEPT !.pc = p] /\ th[t] \in Frames
  BY GotoMoves, ServerFacts DEF OwnInv, Inv
<1>. QED  BY <1>1 DEF Goto, Frames, Serves

LEMMA GoesToCreate ==
  ASSUME NEW kept \in BOOLEAN,
         OwnInv(kept), NEW t \in Thread, NEW s \in Channel, Serves(t, s), th[t].op = "update",
         ToCreateEvent(t)
  PROVE  /\ Serves(t, s)' /\ th'[t].pc = "contains" /\ th'[t].op = "update"
         /\ th'[t].dev = ses[s].deviceId /\ failed' = failed
<1> DEFINE f == Frame("contains", "update", t, ses[t].deviceId)
<1>1. t = s
  BY ServerFacts
<1>2. GotoWith(t, f) /\ f.op = "update" /\ f.cur = s /\ f.pc = "contains"
      /\ f.dev = ses[s].deviceId
  BY <1>1 DEF ToCreateEvent, Frame
<1>. HIDE DEF f
<1>. QED  BY <1>2, GoesOn

LEMMA RemFindStage ==
  ASSUME NEW kept \in BOOLEAN,
         OwnInv(kept), NEW t \in Thread, NEW s \in Channel, Serves(t, s), Stage(t, s, kept), RemFind(t)
  PROVE  Serves(t, s)' /\ Stage(t, s, kept)' /\ failed' = failed
<1> DEFINE i == IndexOf(lists[th[t].lst], th[t].cur)
           f == [th[t] EXCEPT !.pc = IF i = 0 THEN "isEmpty" ELSE "remShift", !.idx = i]
<1>1. /\ th[t].pc = "remFind" /\ th[t].op \in {"update", "close"}
      /\ UNCHANGED <<deviceMap, lists, ses, subs, sts>> /\ GotoWith(t, f)
  BY ServerFacts DEF RemFind, At, directory, broker, Fits, CreatePc
<1>2. lists[th[t].lst] = <<s>> /\ th[t].cur = s
  BY <1>1, ServerFacts DEF Stage, Locals, Unlisted, GoodbyePc, EmptyPc, ListPc
<1>3. i = 1
  BY <1>2, OneElement
<1>. HIDE DEF i
<1>4. /\ f.pc = "remShift" /\ f.op = th[t].op /\ f.cur = s /\ f.dev = th[t].dev
      /\ f.lst = th[t].lst /\ f.idx = 1
  BY <1>3, ServerFacts DEF Frames
<1>. HIDE DEF f
<1>5. th'[t] = f /\ Serves(t, s)' /\ failed' = failed
  BY <1>1, <1>4, GoesOn
<1>. QED  BY <1>1, <1>4, <1>5 DEF Stage, Locals, Fields, Controller, Known, Heard, Keys, Topics,
          Unlisted, Told, GoodbyePc, EmptyPc, RemovePc, ListPc, AddedPc, SubscribedPc

LEMMA RemShiftStage ==
  ASSUME NEW kept \in BOOLEAN,
         OwnInv(kept), NEW t \in Thread, NEW s \in Channel, Serves(t, s), Stage(t, s, kept), RemShift(t)
  PROVE  Serves(t, s)' /\ Stage(t, s, kept)' /\ failed' = failed
<1>1. /\ th[t].pc = "remShift" /\ th[t].op \in {"update", "close"}
      /\ UNCHANGED <<deviceMap, ses, subs, sts>>
  BY ServerFacts DEF RemShift, At, broker, Fits, CreatePc
<1>2. /\ lists[th[t].lst] = <<s>> /\ th[t].idx = 1
      /\ th[t].lst = <<s, th[t].dev>> /\ th[t].lst \in ListId
  BY <1>1, ServerFacts DEF Stage, Locals, Unlisted, GoodbyePc, EmptyPc, ListPc
<1>3. lists' = [lists EXCEPT ![th[t].lst] = ShiftFrom(<<s>>, 1)] /\ Goto(t, "isEmpty")
  BY <1>2, OneElement DEF RemShift
<1>4. lists'[<<s, th[t].dev>>] = <<>>
  BY <1>2, <1>3, OneElement DEF OwnInv, Inv, Control, TypeOK
<1>5. /\ Serves(t, s)' /\ th'[t].pc = "isEmpty" /\ th'[t].op = th[t].op
      /\ th'[t].dev = th[t].dev /\ failed' = failed
        /\ th'[t].lst = th[t].lst
  BY <1>3, GoesTo
<1>. QED  BY <1>1, <1>4, <1>5 DEF Stage, Locals, Fields, Controller, Known, Heard, Keys, Topics,
          Unlisted, Told, GoodbyePc, EmptyPc, RemovePc, ListPc, AddedPc, SubscribedPc

LEMMA IsEmptyStage ==
  ASSUME NEW kept \in BOOLEAN,
         OwnInv(kept), NEW t \in Thread, NEW s \in Channel, Serves(t, s), Stage(t, s, kept), IsEmpty(t)
  PROVE  Serves(t, s)' /\ Stage(t, s, kept)' /\ failed' = failed
<1>1. /\ th[t].pc = "isEmpty" /\ th[t].op \in {"update", "close"}
      /\ UNCHANGED <<deviceMap, lists, ses, subs, sts>>
  BY ServerFacts DEF IsEmpty, At, directory, broker, Fits, CreatePc
<1>2. lists[th[t].lst] = <<>>
  BY <1>1 DEF Stage, Locals, Unlisted, GoodbyePc, EmptyPc, ListPc
<1>3. Goto(t, "mapRemove")
  BY <1>2 DEF IsEmpty
<1>4. /\ Serves(t, s)' /\ th'[t].pc = "mapRemove" /\ th'[t].op = th[t].op
      /\ th'[t].dev = th[t].dev /\ failed' = failed
  BY <1>3, GoesTo
<1>. QED  BY <1>1, <1>4 DEF Stage, Locals, Fields, Controller, Known, Heard, Keys, Topics,
          Unlisted, Told, GoodbyePc, EmptyPc, RemovePc, ListPc, AddedPc, SubscribedPc

LEMMA MapRemoveStage ==
  ASSUME NEW kept \in BOOLEAN,
         OwnInv(kept), NEW t \in Thread, NEW s \in Channel, Serves(t, s), Stage(t, s, kept), MapRemove(t)
  PROVE  Serves(t, s)' /\ Stage(t, s, kept)' /\ failed' = failed
<1>1. /\ th[t].pc = "mapRemove" /\ th[t].op \in {"update", "close"}
      /\ deviceMap' = [deviceMap EXCEPT ![th[t].dev] = Null]
      /\ UNCHANGED <<lists, ses, subs, sts>>
  BY ServerFacts DEF MapRemove, At, broker, Fits, CreatePc
<1>2. \A d \in Own(s) : deviceMap'[d] = Null
  <2>1. \A d \in DeviceId : deviceMap'[d] = IF d = th[t].dev THEN Null ELSE deviceMap[d]
    BY <1>1 DEF OwnInv, Inv, Control, TypeOK
  <2>2. \A d \in Own(s) : d # th[t].dev => deviceMap[d] = Null
    BY <1>1 DEF Stage, Known, Heard, Keys, Unlisted, GoodbyePc
  <2>. QED  BY <2>1, <2>2, ServerFacts
<1>3. CASE th[t].op = "update" /\ ToCreateEvent(t)
  <2>1. /\ Serves(t, s)' /\ th'[t].pc = "contains" /\ th'[t].op = "update"
        /\ th'[t].dev = ses[s].deviceId /\ failed' = failed
    BY <1>3, GoesToCreate
  <2>. QED  BY <1>1, <1>2, <1>3, <2>1 DEF Stage, Locals, Fields, Controller, Known, Heard, Keys, Topics,
          Unlisted, Told, GoodbyePc, EmptyPc, RemovePc, ListPc, AddedPc, SubscribedPc
<1>4. CASE th[t].op = "close" /\ Goto(t, "closeUnsub")
  <2>1. /\ Serves(t, s)' /\ th'[t].pc = "closeUnsub" /\ th'[t].op = th[t].op
        /\ th'[t].dev = th[t].dev /\ failed' = failed
    BY <1>4, GoesTo
  <2>. QED  BY <1>1, <1>2, <1>4, <2>1 DEF Stage, Locals, Fields, Controller, Known, Heard, Keys, Topics,
          Unlisted, Told, GoodbyePc, EmptyPc, RemovePc, ListPc, AddedPc, SubscribedPc
<1>. QED  BY <1>1, <1>3, <1>4 DEF MapRemove

LEMMA ContainsKeyStage ==
  ASSUME NEW kept \in BOOLEAN,
         OwnInv(kept), NEW t \in Thread, NEW s \in Channel, Serves(t, s), Stage(t, s, kept), ContainsKey(t)
  PROVE  Serves(t, s)' /\ Stage(t, s, kept)' /\ failed' = failed
<1>1. /\ th[t].pc = "contains" /\ th[t].op \in {"create", "update"}
      /\ UNCHANGED <<deviceMap, lists, ses, subs, sts>>
  BY ServerFacts DEF ContainsKey, At, directory, broker, Fits, ClosePc, RemovePc
<1>2. deviceMap[th[t].dev] = Null
  BY <1>1, ServerFacts DEF Stage, Known, Heard, Keys, Unlisted
<1>3. Goto(t, "put")
  BY <1>2 DEF ContainsKey
<1>4. /\ Serves(t, s)' /\ th'[t].pc = "put" /\ th'[t].op = th[t].op
      /\ th'[t].dev = th[t].dev /\ failed' = failed
  BY <1>3, GoesTo
<1>. QED  BY <1>1, <1>4 DEF Stage, Locals, Fields, Controller, Known, Heard, Keys, Topics,
          Unlisted, Told, GoodbyePc, EmptyPc, RemovePc, ListPc, AddedPc, SubscribedPc

LEMMA PutListStage ==
  ASSUME NEW kept \in BOOLEAN,
         OwnInv(kept), NEW t \in Thread, NEW s \in Channel, Serves(t, s), Stage(t, s, kept), PutList(t)
  PROVE  Serves(t, s)' /\ Stage(t, s, kept)' /\ failed' = failed
<1>1. /\ th[t].pc = "put" /\ th[t].op \in {"create", "update"} /\ th[t].cur = s
      /\ lists' = [lists EXCEPT ![<<s, th[t].dev>>] = <<>>]
      /\ deviceMap' = [deviceMap EXCEPT ![th[t].dev] = <<s, th[t].dev>>]
      /\ UNCHANGED <<ses, subs, sts>> /\ Goto(t, "get")
  BY ServerFacts DEF PutList, At, broker, Fits, ClosePc, RemovePc
<1>2. \A d \in Own(s) : deviceMap'[d] = IF d = th[t].dev THEN <<s, d>> ELSE Null
  <2>1. \A d \in DeviceId : deviceMap'[d] = IF d = th[t].dev THEN <<s, th[t].dev>> ELSE deviceMap[d]
    BY <1>1 DEF OwnInv, Inv, Control, TypeOK
  <2>2. \A d \in Own(s) : deviceMap[d] = Null
    BY <1>1 DEF Stage, Known, Heard, Keys, Unlisted
  <2>. QED  BY <2>1, <2>2, ServerFacts
<1>3. lists'[<<s, th[t].dev>>] = <<>>
  BY <1>1, ServerFacts DEF OwnInv, Inv, Control, TypeOK
<1>4. /\ Serves(t, s)' /\ th'[t].pc = "get" /\ th'[t].op = th[t].op
      /\ th'[t].dev = th[t].dev /\ failed' = failed
  BY <1>1, GoesTo
<1>. QED  BY <1>1, <1>2, <1>3, <1>4 DEF Stage, Locals, Fields, Controller, Known, Heard, Keys, Topics,
          Unlisted, Told, GoodbyePc, EmptyPc, RemovePc, ListPc, AddedPc, SubscribedPc

LEMMA GetListStage ==
  ASSUME NEW kept \in BOOLEAN,
         OwnInv(kept), NEW t \in Thread, NEW s \in Channel, Serves(t, s), Stage(t, s, kept), GetList(t)
  PROVE  Serves(t, s)' /\ Stage(t, s, kept)' /\ failed' = failed
<1> DEFINE f == [th[t] EXCEPT !.pc = "addRead", !.lst = deviceMap[th[t].dev]]
<1>1. /\ th[t].pc = "get" /\ th[t].op \in {"create", "update"}
      /\ UNCHANGED <<deviceMap, lists, ses, subs, sts>>
  BY ServerFacts DEF GetList, At, directory, broker, Fits, ClosePc, RemovePc
<1>2. deviceMap[th[t].dev] = <<s, th[t].dev>> /\ deviceMap[th[t].dev] # Null
  BY <1>1, ServerFacts, ThreadAssumption DEF Stage, Known, Heard, Keys, Unlisted, GoodbyePc
<1>3. GotoWith(t, f)
  BY <1>2 DEF GetList
<1>4. /\ f.pc = "addRead" /\ f.op = th[t].op /\ f.cur = s /\ f.dev = th[t].dev
      /\ f.lst = <<s, th[t].dev>>
  BY <1>2, ServerFacts DEF Frames
<1>. HIDE DEF f
<1>5. th'[t] = f /\ Serves(t, s)' /\ failed' = failed
  BY <1>1, <1>3, <1>4, GoesOn
<1>. QED  BY <1>1, <1>4, <1>5 DEF Stage, Locals, Fields, Controller, Known, Heard, Keys, Topics,
          Unlisted, Told, GoodbyePc, EmptyPc, RemovePc, ListPc, AddedPc, SubscribedPc

LEMMA AddReadStage ==
  ASSUME NEW kept \in BOOLEAN,
         OwnInv(kept), NEW t \in Thread, NEW s \in Channel, Serves(t, s), Stage(t, s, kept), AddRead(t)
  PROVE  Serves(t, s)' /\ Stage(t, s, kept)' /\ failed' = failed
<1> DEFINE f == [th[t] EXCEPT !.pc = "addStore", !.idx = Size(lists[th[t].lst])]
<1>1. /\ th[t].pc = "addRead" /\ th[t].op \in {"create", "update"} /\ GotoWith(t, f)
      /\ UNCHANGED <<deviceMap, lists, ses, subs, sts>>
  BY ServerFacts DEF AddRead, At, directory, broker, Fits, ClosePc, RemovePc
<1>2. lists[th[t].lst] = <<>> /\ Size(lists[th[t].lst]) = 0
  BY <1>1, EmptyList DEF Stage, Locals, Unlisted, GoodbyePc, EmptyPc, ListPc
<1>3. /\ f.pc = "addStore" /\ f.op = th[t].op /\ f.cur = s /\ f.dev = th[t].dev
      /\ f.lst = th[t].lst /\ f.idx = 0
  BY <1>2, ServerFacts DEF Frames
<1>. HIDE DEF f
<1>4. th'[t] = f /\ Serves(t, s)' /\ failed' = failed
  BY <1>1, <1>3, GoesOn
<1>. QED  BY <1>1, <1>3, <1>4 DEF Stage, Locals, Fields, Controller, Known, Heard, Keys, Topics,
          Unlisted, Told, GoodbyePc, EmptyPc, RemovePc, ListPc, AddedPc, SubscribedPc

LEMMA AddStoreStage ==
  ASSUME NEW kept \in BOOLEAN,
         OwnInv(kept), NEW t \in Thread, NEW s \in Channel, Serves(t, s), Stage(t, s, kept), AddStore(t)
  PROVE  Serves(t, s)' /\ Stage(t, s, kept)' /\ failed' = failed
<1>1. /\ th[t].pc = "addStore" /\ th[t].op \in {"create", "update"} /\ t = s
      /\ UNCHANGED <<deviceMap, ses, subs, sts>>
  BY ServerFacts DEF AddStore, At, broker, Fits, ClosePc, RemovePc
<1>2. /\ lists[th[t].lst] = <<>> /\ th[t].idx = 0 /\ th[t].cur = s
      /\ th[t].lst = <<s, th[t].dev>> /\ th[t].lst \in ListId
  BY <1>1, ServerFacts DEF Stage, Locals, Unlisted, GoodbyePc, EmptyPc, ListPc
<1>3. lists' = [lists EXCEPT ![th[t].lst] = StoreAt(<<>>, 0, s)]
  BY <1>2 DEF AddStore
<1>4. lists'[<<s, th[t].dev>>] = <<s>>
  BY <1>2, <1>3, OneElement DEF OwnInv, Inv, Control, TypeOK
<1>5. ses[s].ctl = IF th[t].op = "create" THEN Null ELSE AddrId[s]
  BY <1>1 DEF Stage, Fields, Controller, AddedPc
<1>6. PICK p \in {"subscribe", "unsubscribe"} :
        Goto(t, p) /\ (p = "subscribe" <=> th[t].op = "create")
  BY <1>1, <1>2, <1>5, ServerFacts DEF AddStore
<1>7. /\ Serves(t, s)' /\ th'[t].pc = p /\ th'[t].op = th[t].op
      /\ th'[t].dev = th[t].dev /\ failed' = failed
  BY <1>6, GoesTo
<1>. QED  BY <1>1, <1>4, <1>6, <1>7 DEF Stage, Locals, Fields, Controller, Known, Heard, Keys, Topics,
          Unlisted, Told, GoodbyePc, EmptyPc, RemovePc, ListPc, AddedPc, SubscribedPc

LEMMA UnsubscribeStage ==
  ASSUME NEW kept \in BOOLEAN,
         OwnInv(kept), NEW t \in Thread, NEW s \in Channel, Serves(t, s), Stage(t, s, kept),
         Unsubscribe(t), ~MqttThrows(t)
  PROVE  Serves(t, s)' /\ Stage(t, s, kept)' /\ failed' = failed
<1>1. /\ th[t].pc = "unsubscribe" /\ th[t].op = "update" /\ t = s
      /\ UNCHANGED <<deviceMap, lists, sts>>
  BY ServerFacts DEF Unsubscribe, At, directory, Stage, Locals, Fits, ClosePc, RemovePc
<1>2. /\ ses' = [ses EXCEPT ![s].ctl = ses[s].deviceId]
      /\ subs' = subs \ {ses[s].ctl} /\ Goto(t, "subscribe")
  BY <1>1, ServerFacts DEF Unsubscribe
<1>3. ses[s].ctl = AddrId[s]
  BY <1>1 DEF Stage, Fields, Controller, AddedPc
<1>4. /\ ses'[s].deviceId = ses[s].deviceId /\ ses'[s].ctl = ses[s].deviceId
      /\ ses'[s].proxied = ses[s].proxied
  BY <1>2 DEF OwnInv, Inv, Control, TypeOK, SessionFields
<1>5. s \notin failed /\ kept => \A d \in Own(s) : d \notin subs'
  BY <1>1, <1>2, <1>3 DEF Stage, Known, Heard, Topics, AddedPc, SubscribedPc
<1>6. /\ Serves(t, s)' /\ th'[t].pc = "subscribe" /\ th'[t].op = th[t].op
      /\ th'[t].dev = th[t].dev /\ failed' = failed
  BY <1>2, GoesTo
<1>. QED  BY <1>1, <1>4, <1>5, <1>6 DEF Stage, Locals, Fields, Controller, Known, Heard, Keys, Topics,
          Unlisted, Told, GoodbyePc, EmptyPc, RemovePc, ListPc, AddedPc, SubscribedPc

LEMMA SubscribeStage ==
  ASSUME NEW kept \in BOOLEAN,
         OwnInv(kept), NEW t \in Thread, NEW s \in Channel, Serves(t, s), Stage(t, s, kept),
         Subscribe(t), ~MqttThrows(t)
  PROVE  Serves(t, s)' /\ Stage(t, s, kept)' /\ failed' = failed
<1>1. /\ th[t].pc = "subscribe" /\ th[t].op \in {"create", "update"} /\ t = s
      /\ UNCHANGED <<deviceMap, lists, ses, sts>>
  BY ServerFacts DEF Subscribe, At, directory, Fits, ClosePc, RemovePc
<1>2. ses[s].ctl = IF th[t].op = "create" THEN Null ELSE ses[s].deviceId
  BY <1>1 DEF Stage, Fields, Controller, AddedPc
<1>3. /\ subs' = subs \cup {ses[s].deviceId}
      /\ Goto(t, IF ses[s].ctl = Null THEN "setController" ELSE "readCount")
  BY <1>1, ServerFacts DEF Subscribe
<1>4. s \notin failed /\ kept => \A d \in Own(s) : d \in subs' <=> d = ses[s].deviceId
  BY <1>1, <1>3 DEF Stage, Known, Heard, Topics, AddedPc, SubscribedPc
<1>5. PICK p \in {"setController", "readCount"} :
        Goto(t, p) /\ (p = "setController" <=> th[t].op = "create")
  BY <1>1, <1>2, <1>3, ServerFacts
<1>6. /\ Serves(t, s)' /\ th'[t].pc = p /\ th'[t].op = th[t].op
      /\ th'[t].dev = th[t].dev /\ failed' = failed
  BY <1>5, GoesTo
<1>. QED  BY <1>1, <1>4, <1>5, <1>6 DEF Stage, Locals, Fields, Controller, Known, Heard, Keys, Topics,
          Unlisted, Told, GoodbyePc, EmptyPc, RemovePc, ListPc, AddedPc, SubscribedPc

LEMMA SetControllerStage ==
  ASSUME NEW kept \in BOOLEAN,
         OwnInv(kept), NEW t \in Thread, NEW s \in Channel, Serves(t, s), Stage(t, s, kept), SetController(t)
  PROVE  Serves(t, s)' /\ Stage(t, s, kept)' /\ failed' = failed
<1>1. /\ th[t].pc = "setController" /\ th[t].op = "create" /\ t = s
      /\ ses' = [ses EXCEPT ![s].ctl = ses[s].deviceId]
      /\ UNCHANGED <<deviceMap, lists, subs, sts>> /\ Goto(t, "setDevice")
  <2>1. th[t].pc = "setController" /\ th[t].op \in {"create", "update"} /\ t = s
    BY ServerFacts DEF SetController, At, Fits, ClosePc, RemovePc
  <2>2. th[t].op = "create"
    BY <2>1 DEF Stage, Locals
  <2>. QED  BY <2>1, <2>2 DEF SetController, directory, broker
<1>2. /\ ses'[s].deviceId = ses[s].deviceId /\ ses'[s].ctl = ses[s].deviceId
      /\ ses'[s].proxied = ses[s].proxied
  BY <1>1 DEF OwnInv, Inv, Control, TypeOK, SessionFields
<1>3. /\ Serves(t, s)' /\ th'[t].pc = "setDevice" /\ th'[t].op = th[t].op
      /\ th'[t].dev = th[t].dev /\ failed' = failed
  BY <1>1, GoesTo
<1>. QED  BY <1>1, <1>2, <1>3 DEF Stage, Locals, Fields, Controller, Known, Heard, Keys, Topics,
          Unlisted, Told, GoodbyePc, EmptyPc, RemovePc, ListPc, AddedPc, SubscribedPc

LEMMA SetDeviceStage ==
  ASSUME NEW kept \in BOOLEAN,
         OwnInv(kept), NEW t \in Thread, NEW s \in Channel, Serves(t, s), Stage(t, s, kept), SetDevice(t)
  PROVE  Serves(t, s)' /\ Stage(t, s, kept)' /\ failed' = failed
<1>1. /\ th[t].pc = "setDevice" /\ th[t].op = "create" /\ t = s
      /\ ses' = [ses EXCEPT ![s].proxied = TRUE]
      /\ UNCHANGED <<deviceMap, lists, subs, sts>> /\ Goto(t, "readCount")
  <2>1. th[t].pc = "setDevice" /\ th[t].op \in {"create", "update"} /\ t = s
    BY ServerFacts DEF SetDevice, At, Fits, ClosePc, RemovePc
  <2>2. th[t].op = "create"
    BY <2>1 DEF Stage, Locals
  <2>. QED  BY <2>1, <2>2 DEF SetDevice, directory, broker
<1>2. /\ ses'[s].deviceId = ses[s].deviceId /\ ses'[s].ctl = ses[s].ctl
      /\ ses'[s].proxied = TRUE
  BY <1>1 DEF OwnInv, Inv, Control, TypeOK, SessionFields
<1>3. /\ Serves(t, s)' /\ th'[t].pc = "readCount" /\ th'[t].op = th[t].op
      /\ th'[t].dev = th[t].dev /\ failed' = failed
  BY <1>1, GoesTo
<1>. QED  BY <1>1, <1>2, <1>3 DEF Stage, Locals, Fields, Controller, Known, Heard, Keys, Topics,
          Unlisted, Told, GoodbyePc, EmptyPc, RemovePc, ListPc, AddedPc, SubscribedPc

LEMMA CloseUnsubStage ==
  ASSUME NEW kept \in BOOLEAN,
         OwnInv(kept), NEW t \in Thread, NEW s \in Channel, Serves(t, s), Stage(t, s, kept),
         CloseUnsub(t), ~MqttThrows(t)
  PROVE  Serves(t, s)' /\ Stage(t, s, kept)' /\ failed' = failed
<1>1. /\ th[t].pc = "closeUnsub" /\ th[t].op = "close"
      /\ UNCHANGED <<deviceMap, lists, ses, sts>>
  BY ServerFacts DEF CloseUnsub, At, directory, Fits, CreatePc, UpdatePc, RemovePc
<1>2. th[t].dev = ses[s].deviceId
  BY <1>1 DEF Stage, Locals
<1>3. subs' = subs \ {ses[s].deviceId} /\ Goto(t, "readCount")
  BY <1>1, <1>2, ServerFacts DEF CloseUnsub
<1>4. s \notin failed /\ kept => \A d \in Own(s) : d \notin subs'
  BY <1>1, <1>3 DEF Stage, Known, Heard, Topics, GoodbyePc
<1>5. /\ Serves(t, s)' /\ th'[t].pc = "readCount" /\ th'[t].op = th[t].op
      /\ th'[t].dev = th[t].dev /\ failed' = failed
  BY <1>3, GoesTo
<1>. QED  BY <1>1, <1>4, <1>5 DEF Stage, Locals, Fields, Controller, Known, Heard, Keys, Topics,
          Unlisted, Told, GoodbyePc, EmptyPc, RemovePc, ListPc, AddedPc, SubscribedPc

LEMMA ReadCountStage ==
  ASSUME NEW kept \in BOOLEAN,
         OwnInv(kept), NEW t \in Thread, NEW s \in Channel, Serves(t, s), Stage(t, s, kept), ReadCount(t)
  PROVE  Serves(t, s)' /\ Stage(t, s, kept)' /\ failed' = failed
<1> DEFINE l == deviceMap[ses[s].deviceId]
           n == IF l = Null THEN 0 ELSE Size(lists[l])
           f == [th[t] EXCEPT !.pc = "publish", !.cnt = n]
<1>1. /\ th[t].pc = "readCount" /\ th[t].cur = s
      /\ UNCHANGED <<deviceMap, lists, ses, subs, sts>> /\ GotoWith(t, f)
  BY ServerFacts DEF ReadCount, At, directory, broker
<1>2. n = IF th[t].op = "close" THEN 0 ELSE 1
  <2>0. th[t].dev = ses[s].deviceId
    BY <1>1 DEF Stage, Locals, RemovePc
  <2>1. CASE th[t].op = "close"
    <3>1. l = Null
      BY <1>1, <2>1, ServerFacts DEF Stage, Known, Heard, Keys, Unlisted, GoodbyePc
    <3>. QED  BY <2>1, <3>1
  <2>2. CASE th[t].op # "close"
    <3>1. l = <<s, ses[s].deviceId>> /\ l # Null
      BY <1>1, <2>0, <2>2, ServerFacts, ThreadAssumption DEF Stage, Known, Heard, Keys, Unlisted
    <3>2. lists[<<s, ses[s].deviceId>>] = <<s>> /\ Size(<<s>>) = 1
      BY <1>1, <2>0, <2>2, OneElement DEF Stage, Unlisted, EmptyPc
    <3>. QED  BY <2>2, <3>1, <3>2
  <2>. QED  BY <2>1, <2>2
<1>. HIDE DEF n
<1>3. /\ f.pc = "publish" /\ f.op = th[t].op /\ f.cur = s /\ f.dev = th[t].dev
      /\ f.cnt = n
  BY <1>1, ServerFacts DEF Frames
<1>. HIDE DEF f
<1>4. th'[t] = f /\ Serves(t, s)' /\ failed' = failed
  BY <1>1, <1>3, ServerFacts, GoesOn
<1>. QED  BY <1>1, <1>2, <1>3, <1>4 DEF Stage, Locals, Fields, Controller, Known, Heard, Keys, Topics,
          Unlisted, Told, GoodbyePc, EmptyPc, RemovePc, ListPc, AddedPc, SubscribedPc

-----------------------------------------------------------------------------
(* The life of a session, from one state to the next.                      *)

\* That it is served, at this line, is all there is to say of a session.
LEMMA ServedLife ==
  ASSUME NEW kept \in BOOLEAN,
         OwnInv(kept)', NEW t \in Thread, NEW s \in Channel, Serves(t, s)', Stage(t, s, kept)',
         s \in failed' => chan'[s] = "closed"
  PROVE  Life(s, kept)'
<1>1. \A u \in Thread : th'[u] \in Frames /\ Fits(u, th'[u])
  BY DEF OwnInv, Inv, Control, TypeOK, FrameOK
<1>2. ASSUME NEW u \in Thread, Serves(u, s)'
      PROVE  /\ th'[u].op \in {"create", "update", "close"}
             /\ th'[u].op # "close" => u = s /\ chan'[s] = "open" /\ th'[s].pc \in UpdatePc
             /\ th'[u].op = "close" => chan'[s] = "closed" /\ s \notin sessionMap'
  <2>1. th'[u].op \in {"create", "update", "close"} /\ th'[u].cur = s
    BY <1>1, <1>2 DEF Serves, Frames, Op
  <2>2. CASE th'[u].op = "close"
    BY <2>1, <2>2 DEF OwnInv, Inv, Announce, CloseOK
  <2>3. CASE th'[u].op # "close"
    <3>1. u = s /\ th'[u].pc \in UpdatePc
      BY <1>1, <2>1, <2>3 DEF Fits, UpdatePc
    <3>. QED  BY <2>1, <2>3, <3>1 DEF OwnInv, Inv, Control, ChanOK
  <2>. QED  BY <2>1, <2>2, <2>3
<1>3. ASSUME NEW u \in Thread, Serves(u, s)' PROVE u = t
  <2>1. th'[u].op = "close" /\ th'[t].op = "close" => u = t
    BY <1>3 DEF Serves, OwnInv, Inv, Announce, CloseOK
  <2>. QED  BY <1>2, <1>3, <2>1
<1>4. Settled(s)' => chan'[s] = "open"
  BY DEF Settled, OwnInv, Inv, Control, ChanOK
<1>5. chan'[s] # "new" /\ ~Settled(s)' /\ (chan'[s] = "closed" => s \notin sessionMap')
      /\ (th'[s].pc = "done" => s \notin sessionMap')
  BY <1>2, <1>4 DEF Settled, UpdatePc, RemovePc, CreatePc
<1>6. Tidy(s)'
  BY DEF Stage, Known, Keys, Tidy
<1>. QED  BY <1>3, <1>5, <1>6 DEF Life, Settled

\* The handler returns.
LEMMA PublishLife ==
  ASSUME NEW kept \in BOOLEAN,
         OwnInv(kept), OwnInv(kept)', NEW t \in Thread, NEW s \in Channel, Serves(t, s), Life(s, kept),
         Publish(t), ~MqttThrows(t)
  PROVE  Life(s, kept)'
<1> DEFINE e == [event |-> IF th[t].op = "close" THEN "off" ELSE "on",
                 dev |-> ses[s].deviceId, count |-> IF th[t].op = "close" THEN 0 ELSE 1]
<1>0. Stage(t, s, kept)
  BY DEF Life
<1>1. /\ th[t].pc = "publish" /\ th[t].cur = s /\ Return(t)
      /\ sts' = [sts EXCEPT ![ses[s].deviceId] = e]
      /\ UNCHANGED <<sessionMap, deviceMap, lists, ses, subs>>
  <2>1. th[t].pc = "publish" /\ th[t].cur = s
    BY ServerFacts DEF Publish, At
  <2>2. th[t].cnt = IF th[t].op = "close" THEN 0 ELSE 1
    BY <1>0, <2>1 DEF Stage, Locals
  <2>. QED  BY <2>1, <2>2 DEF Publish, directory
<1>2. ASSUME NEW d \in TokenIds[s]
      PROVE  sts'[d] = IF d = ses[s].deviceId THEN e ELSE sts[d]
  BY <1>1, ServerFacts DEF OwnInv, Inv, Control, TypeOK
<1>3. s \notin failed =>
        \A d \in TokenIds[s] : sts'[d] = IF d = ses'[s].deviceId THEN e ELSE Null
  <2>1. s \notin failed => \A d \in TokenIds[s] : d # ses[s].deviceId => sts[d] = Null
    BY <1>0 DEF Stage, Told
  <2>. QED  BY <1>1, <1>2, <2>1
<1>4. ASSUME NEW u \in Thread PROVE ~Serves(u, s)'
  BY <1>1, OneServer, ReturnMoves DEF OwnInv, Inv, Serves
<1>5. UNCHANGED <<chan, failed>> /\ Tidy(s)'
  BY <1>1 DEF Return, GotoWith, Life, Tidy
<1>6. CASE th[t].op = "close"
  <2>1. chan[s] = "closed" /\ s \notin sessionMap
    BY <1>1, <1>6 DEF OwnInv, Inv, Announce, CloseOK
  <2>2. ~Settled(s)'
    BY <1>5, <2>1 DEF Settled, OwnInv, Inv, Control, ChanOK
  <2>3. Known(s, {}) /\ (s \notin failed => Heard(s, {}, kept))
    BY <1>0, <1>1, <1>6 DEF Stage, Keys, Topics, Unlisted, GoodbyePc, SubscribedPc, AddedPc
  <2>4. s \notin failed => Down(s, kept)'
    BY <1>1, <1>3, <1>6, <2>3 DEF Down, Known, Heard, Told
  <2>. QED  BY <1>1, <1>4, <1>5, <2>1, <2>2, <2>4 DEF Life, Settled
<1>7. CASE th[t].op # "close"
  <2>1. t = s /\ th[s].op \in {"create", "update"} /\ chan[s] = "open"
    BY <1>7, ServerFacts DEF OwnInv, Inv, Control, ChanOK
  <2>2. th'[s].pc = IF th[s].op = "create" THEN "idle" ELSE "registered"
    <3>1. s # LostTask
      BY ThreadAssumption
    <3>. QED  BY <1>1, <2>1, <3>1 DEF Return, GotoWith, Frame, OwnInv, Inv, Control, TypeOK
  <2>3. s \notin failed
    BY <2>1 DEF Life
  <2>4. /\ Known(s, {ses[s].deviceId}) /\ Heard(s, {ses[s].deviceId}, kept)
        /\ lists[<<s, ses[s].deviceId>>] = <<s>>
        /\ ses[s].proxied /\ ses[s].ctl = ses[s].deviceId
    BY <1>0, <1>1, <1>7, <2>1, <2>3 DEF Stage, Locals, Fields, Controller, Keys, Topics,
       Unlisted, GoodbyePc, EmptyPc, RemovePc, SubscribedPc, AddedPc
  <2>5. Up(s, kept)'
    BY <1>1, <1>3, <1>7, <2>3, <2>4 DEF Up, Known, Heard, Told
  <2>6. /\ th[s].op = "create" => ses[s].deviceId = AddrId[s]
        /\ th[s].op = "update" => ses[s].deviceId \in TokenIds[s]
    BY <1>0, <2>1 DEF Stage, Fields
  <2>. QED  BY <1>1, <1>4, <1>5, <2>1, <2>2, <2>3, <2>5, <2>6 DEF Life, Settled
<1>. QED  BY <1>6, <1>7

\* A call to an MQTT client throws: the session is where it was, and has failed.
LEMMA ThrownLife ==
  ASSUME NEW kept \in BOOLEAN,
         OwnInv(kept), OwnInv(kept)', NEW t \in Thread, NEW s \in Channel, Serves(t, s), Life(s, kept),
         th[t].pc \in {"unsubscribe", "subscribe", "closeUnsub", "publish"},
         MqttThrows(t), UNCHANGED <<sessionMap, deviceMap, lists>>,
         ses'[s].deviceId = ses[s].deviceId
  PROVE  Life(s, kept)'
<1>1. Stage(t, s, kept) /\ s \in failed' /\ th[t].cur = s /\ Abandon(t)
  BY ServerFacts DEF Life, MqttThrows
<1>2. Tidy(s)' /\ \A u \in Thread : ~Serves(u, s)'
  BY <1>1, OneServer, AbandonMoves DEF OwnInv, Inv, Serves, Life, Tidy
<1>3. CASE th[t].op = "close"
  <2>1. chan[s] = "closed" /\ s \notin sessionMap
    BY <1>1, <1>3 DEF OwnInv, Inv, Announce, CloseOK
  <2>2. chan'[s] = "closed"
    BY <1>1, <2>1 DEF Abandon, OwnInv, Inv, Control, TypeOK
  <2>3. ~Settled(s)'
    BY <2>2 DEF Settled, OwnInv, Inv, Control, ChanOK
  <2>. QED  BY <1>1, <1>2, <2>1, <2>2, <2>3 DEF Life, Settled
<1>4. CASE th[t].op # "close"
  <2>1. t = s /\ t \in Channel /\ th[t].pc # "closeUnsub"
    BY <1>4, ServerFacts DEF Fits, UpdatePc, RemovePc, CreatePc
  <2>2. chan'[s] = "closed"
    BY <1>1, <2>1, AbandonMoves DEF OwnInv, Inv
  <2>3. th'[s].pc = "inactive"
    BY <1>1, <1>4, <2>1, ThreadAssumption DEF Abandon, Frame, OwnInv, Inv, Control, TypeOK
  <2>4. Known(s, {ses[s].deviceId}) /\ lists[<<s, ses[s].deviceId>>] = <<s>>
    BY <1>1, <1>4, <2>1 DEF Stage, Locals, Keys, Unlisted, GoodbyePc, EmptyPc, RemovePc
  <2>5. Up(s, kept)'
    BY <1>1, <2>4 DEF Up, Known
  <2>. QED  BY <1>1, <1>2, <2>2, <2>3, <2>5 DEF Life, Settled
<1>. QED  BY <1>3, <1>4

\* What one step of a call, or one handler, leaves of LifeInv.
LEMMA OthersLife ==
  ASSUME NEW kept \in BOOLEAN,
         DistinctTokens, LifeInv(kept), OwnInv(kept)', NEW t \in Thread, NEW s \in Channel,
         t \in Channel => t = s, th[t].op # "none" => th[t].cur = s,
         Elsewhere(s), Local(t, s), Life(s, kept)'
  PROVE  LifeInv(kept)'
<1>1. subs' \subseteq UNION {Own(c) : c \in Channel}
  <2> SUFFICES ASSUME NEW d \in subs' PROVE \E c \in Channel : d \in Own(c)
    OBVIOUS
  <2>1. d \in DeviceId
    BY DEF OwnInv, Inv, Control, TypeOK
  <2>2. d \notin Own(s) => d \in subs
    BY <2>1 DEF Elsewhere
  <2>. QED  BY <2>2 DEF LifeInv
<1>2. ASSUME NEW c \in Channel, c # s PROVE Life(c, kept)'
  BY <1>2, ElsewhereLife DEF LifeInv
<1>. QED  BY <1>1, <1>2 DEF LifeInv

LEMMA StepLife ==
  ASSUME NEW kept \in BOOLEAN,
         DistinctTokens, LifeInv(kept), NEW t \in Thread, Step(t)
  PROVE  LifeInv(kept)'
<1>0. OwnInv(kept) /\ Inv'
  BY NextInv DEF LifeInv, OwnInv, Next
<1>1. PICK s \in Channel : th[t].cur = s
  BY <1>0, StepServes, OwnCall DEF OwnInv
<1>2. th[t].op # "none" /\ Serves(t, s) /\ (t \in Channel => t = s)
  BY <1>0, <1>1, StepServes, OwnCall DEF OwnInv, Serves
<1>3. OwnInv(kept)' /\ Elsewhere(s)
  BY <1>0, <1>1, StepKeeps
<1>4. Local(t, s)
  BY <1>0, <1>1, StepLocal
<1>5. Life(s, kept)'
  <2> DEFINE Calls == Unsubscribe(t) \/ Subscribe(t) \/ CloseUnsub(t) \/ Publish(t)
  <2>1. Life(s, kept) /\ Stage(t, s, kept)
    BY <1>2 DEF LifeInv, Life
  <2>2. CASE Publish(t) /\ ~MqttThrows(t)
    BY <1>0, <1>2, <1>3, <2>1, <2>2, PublishLife
  <2>3. CASE Calls /\ MqttThrows(t)
    <3>1. /\ th[t].pc \in {"unsubscribe", "subscribe", "closeUnsub", "publish"}
          /\ UNCHANGED <<sessionMap, deviceMap, lists>>
      BY <2>3 DEF Unsubscribe, Subscribe, CloseUnsub, Publish, At, directory
    <3>2. ses'[s].deviceId = ses[s].deviceId
      <4>1. ses' = ses \/ ses' = [ses EXCEPT ![t].ctl = ses[t].deviceId]
        BY <2>3 DEF Unsubscribe, Subscribe, CloseUnsub, Publish
      <4>2. ses \in [Channel -> SessionFields] /\ ses[s] \in SessionFields
        BY <1>0 DEF OwnInv, Inv, Control, TypeOK
      <4>3. CASE t = s
        BY <4>1, <4>2, <4>3 DEF SessionFields
      <4>4. CASE t # s
        BY <4>1, <4>2, <4>4
      <4>. QED  BY <4>3, <4>4
    <3>. QED  BY <1>0, <1>2, <1>3, <2>1, <2>3, <3>1, <3>2, ThrownLife
  <2>4. CASE ~Publish(t) /\ (Calls => ~MqttThrows(t))
    <3>1. Serves(t, s)' /\ Stage(t, s, kept)' /\ failed' = failed
      BY <1>0, <1>2, <2>1, <2>4, ListGetStage, RemFindStage, RemShiftStage,
         IsEmptyStage, MapRemoveStage, ContainsKeyStage, PutListStage, GetListStage,
         AddReadStage, AddStoreStage, UnsubscribeStage, SubscribeStage,
         SetControllerStage, SetDeviceStage, CloseUnsubStage, ReadCountStage
      DEF Step
    <3>2. s \in failed' => chan'[s] = "closed"
      BY <1>0, <2>1, <3>1, StepQuiet DEF Life, QuietThreads, OwnInv
    <3>. QED  BY <1>3, <3>1, <3>2, ServedLife
  <2>. QED  BY <2>2, <2>3, <2>4
<1>. QED  BY <1>1, <1>2, <1>3, <1>4, <1>5, OthersLife

-----------------------------------------------------------------------------
(* The handlers.                                                           *)

LEMMA RestFacts ==
  ASSUME NEW kept \in BOOLEAN,
         OwnInv(kept), NEW t \in Thread, th[t].pc \in RestPc \cup LostPc
  PROVE  th[t].op = "none"
BY CallPc DEF OwnInv, Inv, Control, TypeOK, FrameOK

\* Who serves a session, as long as its channel is open or not yet connected.
LEMMA NoCloser ==
  ASSUME NEW kept \in BOOLEAN,
         OwnInv(kept), NEW c \in Channel, chan[c] # "closed", th[c].op = "none", NEW t \in Thread
  PROVE  ~Serves(t, c)
<1>1. Serves(t, c) => th[t].op = "close"
  BY OwnCall DEF Serves, Frames, Op
<1>2. th[t].op = "close" => chan[th[t].cur] = "closed"
  BY DEF OwnInv, Inv, Announce, CloseOK
<1>. QED  BY <1>1, <1>2 DEF Serves

LEMMA ConnectLife ==
  ASSUME NEW kept \in BOOLEAN,
         DistinctTokens, LifeInv(kept), OwnInv(kept)', NEW c \in Channel, Connect(c)
  PROVE  LifeInv(kept)'
<1> DEFINE f == Frame("contains", "create", c, AddrId[c])
<1>1. /\ th[c].pc = "new" /\ chan' = [chan EXCEPT ![c] = "open"]
      /\ sessionMap' = sessionMap \cup {c}
      /\ ses' = [ses EXCEPT ![c].deviceId = AddrId[c]] /\ th' = [th EXCEPT ![c] = f]
      /\ UNCHANGED <<deviceMap, lists, subs, sts, failed>>
  BY DEF Connect, At, broker
<1>2. f.pc = "contains" /\ f.op = "create" /\ f.cur = c /\ f.dev = AddrId[c]
  BY DEF Frame
<1>. HIDE DEF f
<1>3. /\ c \in Thread /\ th'[c] = f /\ \A u \in Thread : u # c => th'[u] = th[u]
      /\ \A e \in Channel : e # c => ses'[e] = ses[e] /\ chan'[e] = chan[e]
      /\ ses'[c].deviceId = AddrId[c] /\ ses'[c].ctl = ses[c].ctl
      /\ chan[c] = "new" /\ th[c].op = "none"
  <2>1. c \in Thread /\ OwnInv(kept)
    BY DEF LifeInv, Thread
  <2>2. th[c].op = "none"
    BY <1>1, <2>1, RestFacts DEF RestPc
  <2>. QED  BY <1>1, <2>1, <2>2 DEF OwnInv, Inv, Control, TypeOK, SessionFields, ChanOK
<1>4. Elsewhere(c) /\ Local(c, c)
  BY <1>1, <1>2, <1>3 DEF Elsewhere, Local
<1>5. Life(c, kept)'
  <2>1. Life(c, kept) /\ AddrId[c] \notin TokenIds[c]
    BY AddressAssumption DEF LifeInv
  <2>2. /\ Known(c, {}) /\ Heard(c, {}, kept) /\ ses[c].ctl = Null /\ Told(c, "none")
        /\ c \notin failed
    BY <1>3, <2>1 DEF Life
  <2>3. Serves(c, c)'
    BY <1>2, <1>3 DEF Serves
  <2>4. Stage(c, c, kept)'
    BY <1>1, <1>2, <1>3, <2>2 DEF Stage, Locals, Fields, Controller, Known, Heard, Keys, Topics,
       Unlisted, Told, GoodbyePc, EmptyPc, RemovePc, ListPc, AddedPc, SubscribedPc
  <2>. QED  BY <1>1, <1>3, <2>2, <2>3, <2>4, ServedLife
<1>. QED  BY <1>3, <1>4, <1>5, OthersLife

LEMMA RegisterLife ==
  ASSUME NEW kept \in BOOLEAN,
         DistinctTokens, LifeInv(kept), OwnInv(kept)', NEW c \in Channel, Register(c)
  PROVE  LifeInv(kept)'
<1> DEFINE f == Frame("listGet", "update", c, ses[c].deviceId)
<1>1. PICK d \in TokenIds[c] :
        /\ th[c].pc = "idle"
        /\ ses' = [ses EXCEPT ![c].deviceId = d] /\ GotoWith(c, f)
        /\ UNCHANGED <<sessionMap, deviceMap, lists, subs, sts>>
  BY DEF Register, At, directory, broker
<1>2. f.pc = "listGet" /\ f.op = "update" /\ f.cur = c /\ f.dev = ses[c].deviceId
  BY DEF Frame
<1>. HIDE DEF f
<1>3. /\ c \in Thread /\ th'[c] = f /\ \A u \in Thread : u # c => th'[u] = th[u]
      /\ UNCHANGED <<chan, failed>>
  BY <1>1, GotoWithMoves DEF LifeInv, OwnInv, Inv, Thread, GotoWith
<1>4. /\ \A e \in Channel : e # c => ses'[e] = ses[e]
      /\ ses'[c].deviceId = d /\ ses'[c].ctl = ses[c].ctl /\ ses'[c].proxied = ses[c].proxied
  BY <1>1 DEF LifeInv, OwnInv, Inv, Control, TypeOK, SessionFields
<1>5. th[c].op = "none"
  BY <1>1, <1>3, RestFacts DEF LifeInv, RestPc
<1>6. Elsewhere(c) /\ Local(c, c)
  BY <1>1, <1>2, <1>3, <1>4 DEF Elsewhere, Local
<1>7. Life(c, kept)'
  <2>1. Life(c, kept) /\ AddrId[c] \notin TokenIds[c] /\ chan[c] = "open"
    BY <1>1, AddressAssumption DEF LifeInv, OwnInv, Inv, Control, ChanOK
  <2>2. Up(c, kept) /\ ses[c].deviceId = AddrId[c] /\ c \notin failed
    BY <1>1, <2>1 DEF Life, Settled
  <2>3. Serves(c, c)'
    BY <1>2, <1>3 DEF Serves
  <2>4. Told(c, "none")'
    BY <1>1, <2>1, <2>2 DEF Up, Told
  <2>5. Stage(c, c, kept)'
    BY <1>1, <1>2, <1>3, <1>4, <2>2, <2>4 DEF Up, Stage, Locals, Fields, Controller, Known, Heard,
       Keys, Topics, Unlisted, GoodbyePc, EmptyPc, RemovePc, ListPc, AddedPc, SubscribedPc
  <2>. QED  BY <1>3, <2>2, <2>3, <2>5, ServedLife
<1>. QED  BY <1>3, <1>5, <1>6, <1>7, OthersLife

LEMMA DisconnectLife ==
  ASSUME NEW kept \in BOOLEAN,
         DistinctTokens, LifeInv(kept), OwnInv(kept)', NEW c \in Channel, Disconnect(c)
  PROVE  LifeInv(kept)'
<1>1. /\ th[c].pc \in {"idle", "registered"} /\ th' = [th EXCEPT ![c].pc = "inactive"]
      /\ chan' = [chan EXCEPT ![c] = "closed"]
      /\ UNCHANGED <<sessionMap, deviceMap, lists, ses, subs, sts, failed>>
  BY DEF Disconnect, directory, broker
<1>2. c \in Thread /\ th[c] \in Frames /\ th[c].op = "none" /\ chan[c] = "open"
      /\ c \in sessionMap
  BY <1>1, RestFacts DEF LifeInv, OwnInv, Inv, Control, TypeOK, ChanOK, Announce, LiveSession,
     Thread, RestPc
<1>3. /\ th'[c].op = "none" /\ th'[c].pc = "inactive"
      /\ \A u \in Thread : u # c => th'[u] = th[u]
      /\ chan'[c] = "closed" /\ \A e \in Channel : e # c => chan'[e] = chan[e]
  BY <1>1, <1>2 DEF LifeInv, OwnInv, Inv, Control, TypeOK, Frames
<1>4. Elsewhere(c) /\ Local(c, c)
  BY <1>1, <1>3 DEF Elsewhere, Local
<1>5. Life(c, kept)'
  <2>1. Up(c, kept)
    BY <1>1 DEF LifeInv, Life, Settled
  <2>2. Up(c, kept)' /\ Tidy(c)'
    BY <1>1, <2>1 DEF Up, Known, Heard, Told, LifeInv, Life, Tidy
  <2>3. ASSUME NEW u \in Thread PROVE ~Serves(u, c)'
    <3>1. ~Serves(u, c)
      BY <1>2, NoCloser DEF LifeInv
    <3>. QED  BY <1>3, <3>1 DEF Serves
  <2>. QED  BY <1>1, <1>2, <1>3, <2>2, <2>3 DEF Life, Settled
<1>. QED  BY <1>2, <1>4, <1>5, OthersLife

\* Threads that serve nobody move on, and only a session that has failed is
\* taken from the map without being served.
LEMMA RestLife ==
  ASSUME NEW kept \in BOOLEAN,
         OwnInv(kept), NEW t \in Thread, th[t].op = "none", th'[t].op = "none",
         \A u \in Thread : u # t => th'[u] = th[u],
         UNCHANGED <<chan, deviceMap, lists, ses, subs, sts, failed>>,
         NEW c \in Channel, Life(c, kept),
         th'[c].pc \in {"idle", "registered"} => th'[c].pc = th[c].pc,
         th'[c].pc = "done" => c \notin sessionMap',
         c \in sessionMap' => c \in sessionMap,
         c \in sessionMap /\ c \notin sessionMap' => c \in failed
  PROVE  Life(c, kept)'
<1>1. ASSUME NEW u \in Thread
      PROVE  (Serves(u, c)' <=> Serves(u, c)) /\ (Serves(u, c) => th'[u] = th[u])
  BY DEF Serves
<1>2. /\ Up(c, kept)' <=> Up(c, kept)
      /\ Down(c, kept)' <=> Down(c, kept)
      /\ Tidy(c)' <=> Tidy(c)
      /\ Known(c, {})' <=> Known(c, {})
      /\ Heard(c, {}, kept)' <=> Heard(c, {}, kept)
      /\ Told(c, "none")' <=> Told(c, "none")
  BY DEF Up, Down, Known, Heard, Told, Tidy
<1>3. ASSUME NEW u \in Thread, Serves(u, c) PROVE Stage(u, c, kept)' <=> Stage(u, c, kept)
  <2>1. th'[u] = th[u]
    BY <1>1, <1>3
  <2>. QED  BY <2>1 DEF Stage, Locals, Fields, Controller, Known, Heard, Keys, Topics, Unlisted, Told
<1>. QED  BY <1>1, <1>2, <1>3 DEF Life, Settled

LEMMA CloseSessionLife ==
  ASSUME NEW kept \in BOOLEAN,
         DistinctTokens, LifeInv(kept), OwnInv(kept)', NEW t \in Thread, NEW s \in Channel,
         t \in Channel => t = s, th[t].op = "none", chan[s] = "closed", CloseSession(t, s)
  PROVE  LifeInv(kept)'
<1> DEFINE f == Frame("listGet", "close", s, ses[s].deviceId)
           g == Frame(IF t = LostTask THEN "scan" ELSE "done", "none", Null, Null)
<1>1. /\ sessionMap' = sessionMap \ {s}
      /\ th' = [th EXCEPT ![t] = IF s \in sessionMap /\ ses[s].proxied THEN f ELSE g]
      /\ UNCHANGED <<chan, deviceMap, lists, ses, subs, sts, failed>>
  BY DEF CloseSession, broker
<1>2. /\ f.pc = "listGet" /\ f.op = "close" /\ f.cur = s /\ f.dev = ses[s].deviceId
      /\ g.op = "none" /\ g.pc \in {"scan", "done"}
  BY DEF Frame
<1>. HIDE DEF f, g
<1>3. /\ th'[t] = IF s \in sessionMap /\ ses[s].proxied THEN f ELSE g
      /\ \A u \in Thread : u # t => th'[u] = th[u]
  BY <1>1 DEF LifeInv, OwnInv, Inv, Control, TypeOK
<1>4. Elsewhere(s) /\ Local(t, s)
  BY <1>1, <1>2, <1>3 DEF Elsewhere, Local
<1>5. Life(s, kept)'
  <2>1. Life(s, kept) /\ (s \in sessionMap => Up(s, kept))
    BY DEF LifeInv, Life
  <2>2. CASE s \in sessionMap /\ ses[s].proxied
    <3>1. th'[t] = f
      BY <1>3, <2>2
    <3>2. Serves(t, s)'
      BY <1>2, <3>1 DEF Serves
    <3>3. Stage(t, s, kept)'
      BY <1>1, <1>2, <2>1, <2>2, <3>1 DEF Up, Stage, Locals, Fields, Controller, Known, Heard,
         Keys, Topics, Unlisted, Told, GoodbyePc, EmptyPc, RemovePc, ListPc, AddedPc, SubscribedPc
    <3>. QED  BY <1>1, <3>2, <3>3, ServedLife
  <2>3. CASE ~(s \in sessionMap /\ ses[s].proxied)
    <3>1. th'[t].op = "none" /\ th'[t].pc \in {"scan", "done"}
      BY <1>2, <1>3, <2>3
    <3>2. s \in Thread /\ th'[s].pc \in {"idle", "registered"} => th'[s].pc = th[s].pc
      BY <1>3, <3>1 DEF Thread
    <3>3. s \notin sessionMap' /\ (s \in sessionMap => s \in failed)
      BY <1>1, <2>1, <2>3 DEF Up
    <3>. QED  BY <1>1, <1>3, <2>1, <3>1, <3>2, <3>3, RestLife DEF LifeInv, Thread
  <2>. QED  BY <2>2, <2>3
<1>. QED  BY <1>4, <1>5, OthersLife

LEMMA LostScanLife ==
  ASSUME NEW kept \in BOOLEAN,
         LifeInv(kept), OwnInv(kept)', LostScan
  PROVE  LifeInv(kept)'
<1>1. /\ \E p \in {"scan", "next"} : th' = [th EXCEPT ![LostTask].pc = p]
      /\ th[LostTask].pc = "scan"
      /\ UNCHANGED <<chan, sessionMap, deviceMap, lists, ses, subs, sts, failed>>
  BY DEF LostScan, At, directory, broker
<1>2. LostTask \in Thread /\ LostTask \notin Channel /\ th[LostTask] \in Frames
  BY ThreadAssumption DEF Thread, LifeInv, OwnInv, Inv, Control, TypeOK
<1>3. th[LostTask].op = "none"
  BY <1>1, <1>2, RestFacts DEF LifeInv, LostPc
<1>4. th'[LostTask].op = "none" /\ \A u \in Thread : u # LostTask => th'[u] = th[u]
  BY <1>1, <1>2, <1>3 DEF LifeInv, OwnInv, Inv, Control, TypeOK, Frames
<1>5. ASSUME NEW c \in Channel PROVE Life(c, kept)'
  <2>1. Life(c, kept) /\ th'[c] = th[c] /\ OwnInv(kept)
    BY <1>1, <1>2, <1>4, <1>5 DEF LifeInv, Thread
  <2>2. th'[c].pc = "done" => c \notin sessionMap'
    BY <1>1, <2>1 DEF Life
  <2>. QED  BY <1>1, <1>2, <1>3, <1>4, <2>1, <2>2, RestLife
<1>. QED  BY <1>1, <1>5 DEF LifeInv

-----------------------------------------------------------------------------
(* The theorems.                                                           *)

LEMMA InitLife ==
  ASSUME NEW kept \in BOOLEAN, Init
  PROVE  LifeInv(kept)
<1>1. \A t \in Thread : th[t].op = "none" /\ th[t].pc \in {"scan", "new"}
  BY DEF Init, Frame
<1>2. ASSUME NEW c \in Channel PROVE Life(c, kept)
  <2>1. c \in Thread /\ Own(c) \subseteq DeviceId /\ TokenIds[c] \subseteq DeviceId
    BY AddressAssumption DEF Thread, Own
  <2>2. /\ Known(c, {}) /\ Heard(c, {}, kept) /\ ses[c].ctl = Null /\ Told(c, "none")
        /\ chan[c] = "new" /\ failed = {} /\ Tidy(c)
    BY <2>1 DEF Init, Known, Heard, Told, Tidy
  <2>. QED  BY <1>1, <2>1, <2>2 DEF Life, Settled, Serves
<1>3. subs = {}
  BY DEF Init
<1>. QED  BY <1>2, <1>3, InitOwn DEF LifeInv

LEMMA NextLife ==
  ASSUME NEW kept \in BOOLEAN, DistinctTokens, LifeInv(kept), [Next]_vars
  PROVE  LifeInv(kept)'
<1>0. OwnInv(kept) /\ OwnInv(kept)'
  BY NextOwn DEF LifeInv
<1>1. ASSUME NEW c \in Channel, Connect(c) PROVE LifeInv(kept)'
  BY <1>0, <1>1, ConnectLife
<1>2. ASSUME NEW c \in Channel, Register(c) PROVE LifeInv(kept)'
  BY <1>0, <1>2, RegisterLife
<1>3. ASSUME NEW c \in Channel, Disconnect(c) PROVE LifeInv(kept)'
  BY <1>0, <1>3, DisconnectLife
<1>4. ASSUME NEW c \in Channel, ChannelInactive(c) PROVE LifeInv(kept)'
  <2>1. th[c].pc = "inactive" /\ CloseSession(c, c) /\ c \in Thread
    BY <1>4 DEF ChannelInactive, At, Thread
  <2>2. th[c].op = "none"
    BY <1>0, <2>1, RestFacts DEF RestPc
  <2>3. chan[c] = "closed"
    BY <1>0, <2>1, <2>2 DEF OwnInv, Inv, Control, TypeOK, ChanOK
  <2>. QED  BY <1>0, <2>1, <2>2, <2>3, CloseSessionLife
<1>5. CASE LostScan
  BY <1>0, <1>5, LostScanLife
<1>6. CASE LostClose
  <2>1. PICK s \in todo : CloseSession(LostTask, s)
    BY <1>6 DEF LostClose
  <2>2. s \in Channel /\ chan[s] = "closed" /\ LostTask \in Thread \ Channel
    BY <1>0, ThreadAssumption DEF OwnInv, Inv, Control, TypeOK, ChanOK, Thread
  <2>3. th[LostTask].op = "none"
    BY <1>0, <1>6, <2>2, RestFacts DEF LostClose, At, LostPc
  <2>. QED  BY <1>0, <2>1, <2>2, <2>3, CloseSessionLife
<1>7. ASSUME NEW t \in Thread, Step(t) PROVE LifeInv(kept)'
  BY <1>7, StepLife
<1>8. CASE UNCHANGED vars
  <2>1. UNCHANGED <<chan, sessionMap, deviceMap, lists, ses, subs, sts, th, failed>>
    BY <1>8 DEF vars
  <2>2. ASSUME NEW c \in Channel PROVE Life(c, kept)' <=> Life(c, kept)
    BY <2>1 DEF Life, Tidy, Settled, Serves, Up, Down, Stage, Locals, Fields, Controller, Known, Heard,
       Keys, Topics, Unlisted, Told
  <2>. QED  BY <1>0, <2>1, <2>2 DEF LifeInv
<1>. QED  BY <1>1, <1>2, <1>3, <1>4, <1>5, <1>6, <1>7, <1>8 DEF Next

\* The strengthened invariant holds when no two gateways share an id.
THEOREM LifeInvariance == ASSUME DistinctTokens PROVE Spec => []LifeInv(TRUE)
<1>1. Init => LifeInv(TRUE)
  BY InitLife
<1>2. LifeInv(TRUE) /\ [Next]_vars => LifeInv(TRUE)'
  BY NextLife
<1>. QED  BY <1>1, <1>2, PTL DEF Spec

\* A settled gateway is on the list of its id, with its proxies.
LEMMA SettledIsUp ==
  ASSUME NEW kept \in BOOLEAN, LifeInv(kept), NEW c \in Channel, Settled(c), NEW d, ses[c].deviceId = d
  PROVE  /\ d \in DeviceId /\ deviceMap[d] = <<c, d>> /\ <<c, d>> \in ListId
         /\ lists[<<c, d>>] = <<c>>
         /\ c \in sessionMap /\ ses[c].proxied /\ ses[c].ctl # Null
<1>1. chan[c] = "open" /\ Inv /\ OwnInv(kept)
  BY DEF LifeInv, OwnInv, Inv, Control, ChanOK, Settled
<1>2. c \in sessionMap /\ d \in DeviceId /\ d # Null
  BY <1>1, ThreadAssumption DEF Inv, Announce, LiveSession, Control, ChanOK
<1>3. Up(c, kept) /\ c \notin failed
  BY <1>1 DEF LifeInv, Life
<1>4. d \in Own(c)
  BY <1>1, <1>2, OwnSessionIds
<1>. QED  BY <1>2, <1>3, <1>4 DEF Up, Known, ListId

\* And no handler is changing that list.
LEMMA SettledIsAlone ==
  ASSUME NEW kept \in BOOLEAN, OwnInv(kept), NEW c \in Channel, Settled(c),
         NEW d \in DeviceId, NEW t \in Thread, th[t].lst = <<c, d>>
  PROVE  th[t].pc \notin {"addRead", "remShift"}
<1> SUFFICES ASSUME th[t].pc \in {"addRead", "remShift"}
             PROVE  FALSE
  OBVIOUS
<1>1. th[t] \in Frames /\ Fits(t, th[t]) /\ t \in Channel \cup {LostTask}
  BY DEF OwnInv, Inv, Control, TypeOK, FrameOK, Thread
<1>2. th[t].op # "none"
  BY <1>1, CallHasOp DEF RestPc, LostPc, OwnInv, Inv
<1>3. th[t].cur = c
  <2>1. th[t].pc \in ListPc
    BY DEF ListPc
  <2>2. th[t].lst[1] = th[t].cur
    BY <1>2, <2>1 DEF OwnInv, OwnOK, OwnFrame
  <2>. QED  BY <2>2
<1>4. CASE t \in Channel
  <2>1. th[t].cur = t
    BY <1>2, <1>4, OwnCall
  <2>. QED  BY <1>3, <2>1 DEF Settled
<1>5. CASE t = LostTask
  <2>1. th[t].op = "close"
    BY <1>2, <1>5, OwnCall, ThreadAssumption
  <2>2. chan[c] = "closed"
    BY <1>3, <2>1 DEF OwnInv, Inv, Announce, CloseOK
  <2>. QED  BY <2>2 DEF OwnInv, Inv, Control, ChanOK, Settled
<1>. QED  BY <1>1, <1>4, <1>5

\* What is left of a session when nobody serves any.
LEMMA RestingLife ==
  ASSUME NEW kept \in BOOLEAN,
         LifeInv(kept), AtRest, NEW c \in Channel \ failed
  PROVE  \/ chan[c] = "new" /\ Known(c, {}) /\ Heard(c, {}, kept) /\ Told(c, "none")
         \/ chan[c] = "open" /\ Up(c, kept)
         \/ Down(c, kept)
<1>1. OwnInv(kept) /\ Life(c, kept) /\ c \in Thread
  BY DEF LifeInv, Thread
<1>2. \A t \in Thread : th[t].op = "none"
  BY <1>1, RestFacts DEF AtRest, At, Thread, RestPc, LostPc
<1>3. \A t \in Thread : ~Serves(t, c)
  BY <1>2 DEF Serves
<1>4. chan[c] \in {"new", "open", "closed"} /\ (chan[c] = "open" => Settled(c))
      /\ (chan[c] = "new" <=> th[c].pc = "new")
  BY <1>1, <1>2 DEF OwnInv, Inv, Control, TypeOK, ChanOK, Settled
<1>5. chan[c] = "closed" => th[c].pc = "done"
  BY <1>1, <1>2, <1>4 DEF AtRest, OwnInv, Inv, Control, ChanOK
<1>. QED  BY <1>1, <1>3, <1>4, <1>5 DEF Life

\* When no handler runs, the directory and the broker know of no gateway that
\* has left, but for those an MQTT call failed for: their own ids may stay
\* behind, and no others do, however many gateways come and go
\* (SessionManager.closeSession, deviceIdUpdateEvent, checkLostTask).
THEOREM NoGhosts == ASSUME DistinctTokens PROVE Spec => []NoGhost
<1>1. LifeInv(TRUE) => NoGhost
  <2> SUFFICES ASSUME LifeInv(TRUE), AtRest
               PROVE  KnowsOnly(UNION {TokenIds[c] \cup {AddrId[c]} : c \in failed})
    BY DEF NoGhost
  <2>1. ASSUME NEW d \in DeviceId, deviceMap[d] # Null \/ d \in subs
        PROVE  d \in Present \cup UNION {TokenIds[c] \cup {AddrId[c]} : c \in failed}
    <3>1. PICK c \in Channel : d \in Own(c)
      <4>1. CASE deviceMap[d] # Null
        <5>1. deviceMap[d] \in ListId
          BY <4>1 DEF LifeInv, OwnInv, Inv, Control, TypeOK
        <5>. QED  BY <4>1, <5>1, ListIds DEF LifeInv, OwnInv, OwnOK, OwnList
      <4>2. CASE d \in subs
        BY <4>2 DEF LifeInv
      <4>. QED  BY <2>1, <4>1, <4>2
    <3>2. CASE c \in failed
      BY <3>1, <3>2 DEF Own
    <3>3. CASE c \notin failed
      <4>1. ~Known(c, {}) \/ ~Heard(c, {}, TRUE)
        BY <2>1, <3>1 DEF Known, Heard
      <4>2. chan[c] = "open" /\ Up(c, TRUE)
        BY <3>3, <4>1, RestingLife DEF Down
      <4>3. d = ses[c].deviceId
        BY <2>1, <3>1, <3>3, <4>2 DEF Up, Known, Heard
      <4>. QED  BY <4>2, <4>3 DEF Present
    <3>. QED  BY <3>2, <3>3
  <2>2. subs \subseteq DeviceId
    BY DEF LifeInv, OwnInv, Inv, Control, TypeOK
  <2>. QED  BY <2>1, <2>2 DEF KnowsOnly
<1>. QED  BY <1>1, LifeInvariance, PTL

\* And the last status of an id that a gateway registers with, that no MQTT
\* call failed for, tells whether the directory has it and how many sessions
\* are on its list (EventManager.publish).
THEOREM StatusesAreTrue == ASSUME DistinctTokens PROVE Spec => []StatusIsTrue
<1>1. LifeInv(TRUE) => StatusIsTrue
  <2> SUFFICES ASSUME LifeInv(TRUE), AtRest, NEW c \in Channel \ failed, NEW d \in TokenIds[c],
                      sts[d] # Null
               PROVE  /\ sts[d].event = "on" <=> deviceMap[d] # Null
                      /\ sts[d].count = IF deviceMap[d] = Null THEN 0 ELSE Size(lists[deviceMap[d]])
    BY DEF StatusIsTrue
  <2>1. d \in Own(c) /\ d \in DeviceId
    BY AddressAssumption DEF Own
  <2>2. ~Told(c, "none")
    BY DEF Told
  <2>3. CASE Up(c, TRUE)
    <3>1. sts[d] = [event |-> "on", dev |-> d, count |-> 1] /\ d = ses[c].deviceId
      BY <2>3 DEF Up, Told
    <3>2. deviceMap[d] = <<c, d>> /\ deviceMap[d] # Null /\ lists[<<c, d>>] = <<c>>
      BY <2>1, <2>3, <3>1, ThreadAssumption DEF Up, Known, Heard
    <3>3. Size(lists[deviceMap[d]]) = 1
      BY <3>2, OneElement
    <3>. QED  BY <3>1, <3>2, <3>3
  <2>4. CASE Down(c, TRUE)
    <3>1. sts[d] = [event |-> "off", dev |-> d, count |-> 0]
      BY <2>4 DEF Down, Told
    <3>2. deviceMap[d] = Null
      BY <2>1, <2>4 DEF Down, Known, Heard
    <3>. QED  BY <3>1, <3>2
  <2>. QED  BY <2>2, <2>3, <2>4, RestingLife
<1>. QED  BY <1>1, LifeInvariance, PTL

-----------------------------------------------------------------------------
(***************************************************************************)
(* The handlers and lists of SessionManager implement DeviceDirectory when *)
(* no two gateways register under the same device id: a proof of           *)
(* ImplementsDirectory of SessionRefinement, for any number of gateways    *)
(* and whichever MQTT calls throw.                                         *)
(*                                                                         *)
(* The argument: where a session is to be found follows from the line at   *)
(* which its handler is (StagePlace), it changes with the two stores into  *)
(* the lists only (RemShift and AddStore), and the count that is published *)
(* is the one that was read, since nobody else touches the list.           *)
(***************************************************************************)

\* Session c is on the list of d.
Spot(c, d) == d \in Own(c) /\ deviceMap[d] = <<c, d>> /\ lists[<<c, d>>] = <<c>>

-----------------------------------------------------------------------------
(* Where a session is found.                                               *)

LEMMA ListedIsSpot ==
  LifeInv(TRUE) => \A c \in Channel, d \in DeviceId : Listed(c, d) <=> Spot(c, d)
<1>. SUFFICES ASSUME LifeInv(TRUE), NEW c \in Channel, NEW d \in DeviceId
              PROVE  Listed(c, d) <=> Spot(c, d)
  OBVIOUS
<1>1. ASSUME Listed(c, d) PROVE Spot(c, d)
  <2>1. deviceMap[d] # Null /\ deviceMap[d] \in ListId
    BY <1>1 DEF Listed, LifeInv, OwnInv, Inv, Control, TypeOK
  <2>2. PICK e \in Channel : e = deviceMap[d][1] /\ d \in Own(e)
    BY <2>1, ListIds DEF LifeInv, OwnInv, OwnOK, OwnList
  <2>3. deviceMap[d] = <<e, d>> /\ lists[<<e, d>>] \in {<<>>, <<e>>}
    BY <2>1, <2>2 DEF LifeInv, Life, Tidy
  <2>4. lists[<<e, d>>] = <<e>> /\ e = c
    BY <1>1, <2>3, OneElement, EmptyList DEF Listed
  <2>. QED  BY <2>2, <2>3, <2>4 DEF Spot
<1>2. ASSUME Spot(c, d) PROVE Listed(c, d)
  BY <1>2, OneElement, ThreadAssumption DEF Spot, Listed
<1>. QED  BY <1>1, <1>2

LEMMA PlaceIsSpot ==
  LifeInv(TRUE) => \A c \in Channel :
    \/ PlaceOf(c) = Null /\ \A d \in DeviceId : ~Spot(c, d)
    \/ PlaceOf(c) \in DeviceId /\ Spot(c, PlaceOf(c))
<1>. SUFFICES ASSUME LifeInv(TRUE), NEW c \in Channel
              PROVE  \/ PlaceOf(c) = Null /\ \A d \in DeviceId : ~Spot(c, d)
                     \/ PlaceOf(c) \in DeviceId /\ Spot(c, PlaceOf(c))
  OBVIOUS
<1>1. CASE \E d \in DeviceId : Listed(c, d)
  <2>1. PlaceOf(c) \in DeviceId /\ Listed(c, PlaceOf(c))
    BY <1>1 DEF PlaceOf
  <2>. QED  BY <2>1, ListedIsSpot
<1>2. CASE ~\E d \in DeviceId : Listed(c, d)
  BY <1>2, ListedIsSpot DEF PlaceOf
<1>. QED  BY <1>1, <1>2

\* A handler knows where its session is.
LEMMA StagePlace ==
  LifeInv(TRUE) => \A t \in Thread, c \in Channel :
    Serves(t, c) =>
      PlaceOf(c) = IF Unlisted(t) \/ th[t].pc \in EmptyPc THEN Null ELSE th[t].dev
<1>. SUFFICES ASSUME LifeInv(TRUE), NEW t \in Thread, NEW c \in Channel, Serves(t, c)
              PROVE  PlaceOf(c) = IF Unlisted(t) \/ th[t].pc \in EmptyPc THEN Null ELSE th[t].dev
  OBVIOUS
<1>1. Stage(t, c, TRUE) /\ OwnInv(TRUE)
  BY DEF LifeInv, Life
<1>2. th[t].dev \in Own(c) /\ th[t].dev \in DeviceId
  BY <1>1, ServerFacts
<1>3. \A d \in DeviceId : Spot(c, d) => d = th[t].dev /\ ~Unlisted(t) /\ th[t].pc \notin EmptyPc
  BY <1>1, ThreadAssumption, SMTT(30) DEF Stage, Known, Keys, Spot
<1>4. ~Unlisted(t) /\ th[t].pc \notin EmptyPc => Spot(c, th[t].dev)
  BY <1>1, <1>2 DEF Stage, Known, Keys, Spot
<1>. QED  BY <1>2, <1>3, <1>4, PlaceIsSpot

\* The same in the next state.
LEMMA NextPlace ==
  ASSUME LifeInv(TRUE)'
  PROVE  /\ \A c \in Channel, d \in DeviceId : Listed(c, d)' <=> Spot(c, d)'
         /\ \A t \in Thread, c \in Channel :
              Serves(t, c)' =>
                PlaceOf(c)' = IF Unlisted(t)' \/ th'[t].pc \in EmptyPc THEN Null ELSE th'[t].dev
<1>1. (LifeInv(TRUE) => \A c \in Channel, d \in DeviceId : Listed(c, d) <=> Spot(c, d))'
  BY ListedIsSpot, PTL
<1>2. (LifeInv(TRUE) => \A t \in Thread, c \in Channel :
         Serves(t, c) =>
           PlaceOf(c) = IF Unlisted(t) \/ th[t].pc \in EmptyPc THEN Null ELSE th[t].dev)'
  BY StagePlace, PTL
<1>. QED  BY <1>1, <1>2

\* Whom a step leaves alone stays where it is.
LEMMA SamePlace ==
  ASSUME LifeInv(TRUE), LifeInv(TRUE)', NEW c \in Channel,
         \A d \in Own(c) : deviceMap'[d] = deviceMap[d] /\ lists'[<<c, d>>] = lists[<<c, d>>]
  PROVE  PlaceOf(c)' = PlaceOf(c)
<1>1. \A d \in DeviceId : Listed(c, d)' <=> Listed(c, d)
  BY ListedIsSpot, NextPlace DEF Spot
<1>. QED  BY <1>1 DEF PlaceOf

LEMMA PlaceElsewhere ==
  ASSUME DistinctTokens, LifeInv(TRUE), LifeInv(TRUE)', NEW s \in Channel, Elsewhere(s),
         NEW c \in Channel, c # s
  PROVE  PlaceOf(c)' = PlaceOf(c)
<1>1. ASSUME NEW d \in Own(c)
      PROVE  deviceMap'[d] = deviceMap[d] /\ lists'[<<c, d>>] = lists[<<c, d>>]
  <2>1. d \in DeviceId /\ d \notin Own(s)
    BY OwnIds
  <2>. QED  BY <2>1 DEF Elsewhere, ListId
<1>. QED  BY <1>1, SamePlace

\* The sessions that are found under an id of session s: itself or none.
LEMMA CountOwn ==
  ASSUME DistinctTokens, LifeInv(TRUE), NEW s \in Channel, NEW d \in Own(s)
  PROVE  Cardinality({c \in Channel : PlaceOf(c) = d}) = IF PlaceOf(s) = d THEN 1 ELSE 0
<1>1. ASSUME NEW c \in Channel, PlaceOf(c) = d PROVE c = s
  <2>1. d \in DeviceId /\ d # Null
    BY OwnIds
  <2>2. d \in Own(c)
    BY <1>1, <2>1, PlaceIsSpot DEF Spot
  <2>. QED  BY <2>2, OwnIds
<1>2. {c \in Channel : PlaceOf(c) = d} = IF PlaceOf(s) = d THEN {s} ELSE {}
  BY <1>1
<1>. QED  BY <1>2, FS_EmptySet, FS_Singleton

-----------------------------------------------------------------------------
(* Steps nobody sees.                                                      *)

LEMMA Unseen ==
  ASSUME UNCHANGED <<chan, sts, log>>, SameIds, \A c \in Channel : PlaceOf(c)' = PlaceOf(c)
  PROVE  UNCHANGED Directory!dvars
<1>1. /\ [c \in Channel |-> ses'[c].deviceId] = [c \in Channel |-> ses[c].deviceId]
      /\ [c \in Channel |-> PlaceOf(c)'] = [c \in Channel |-> PlaceOf(c)]
  BY DEF SameIds
<1>. QED  BY <1>1 DEF Directory!dvars

\* Or of which they see that a connection has ended.
LEMMA UnseenOrDeparts ==
  ASSUME LifeInv(TRUE), NEW s \in Channel, chan[s] # "new",
         chan' \in {chan, [chan EXCEPT ![s] = "closed"]},
         UNCHANGED <<sts, log>>, SameIds, \A c \in Channel : PlaceOf(c)' = PlaceOf(c)
  PROVE  [Directory!DirNext]_(Directory!dvars)
<1>0. chan \in [Channel -> {"new", "open", "closed"}]
  BY DEF LifeInv, OwnInv, Inv, Control, TypeOK
<1>1. CASE chan' = chan
  BY <1>1, Unseen
<1>2. CASE chan' # chan
  <2>1. chan[s] = "open" /\ chan' = [chan EXCEPT ![s] = "closed"]
    BY <1>0, <1>2
  <2>2. /\ [c \in Channel |-> ses'[c].deviceId] = [c \in Channel |-> ses[c].deviceId]
        /\ [c \in Channel |-> PlaceOf(c)'] = [c \in Channel |-> PlaceOf(c)]
    BY DEF SameIds
  <2>3. Directory!Depart(s)
    BY <2>1, <2>2 DEF Directory!Depart
  <2>. QED  BY <2>3 DEF Directory!DirNext
<1>. QED  BY <1>1, <1>2

LEMMA AbandonChan ==
  ASSUME NEW t \in Thread, NEW s \in Channel, t \in Channel => t = s, Abandon(t)
  PROVE  chan' \in {chan, [chan EXCEPT ![s] = "closed"]}
BY DEF Abandon, Thread

LEMMA StepChan ==
  ASSUME NEW t \in Thread, NEW s \in Channel, t \in Channel => t = s, Step(t)
  PROVE  chan' \in {chan, [chan EXCEPT ![s] = "closed"]}
<1>1. Abandon(t) \/ UNCHANGED chan
  BY DEF Step, ListGet, RemFind, RemShift, IsEmpty, MapRemove, ContainsKey, PutList, GetList,
     AddRead, AddStore, Unsubscribe, Subscribe, SetController, SetDevice, CloseUnsub, ReadCount,
     Publish, Goto, GotoWith, Return, ToCreateEvent, Throw, MqttThrows
<1>. QED  BY <1>1, AbandonChan

LEMMA StepIds ==
  ASSUME Inv, NEW t \in Thread, Step(t)
  PROVE  SameIds
<1>1. CASE Publish(t)
  BY <1>1 DEF Publish, SameIds
<1>2. CASE ~Publish(t)
  BY <1>2, ListGetOK, RemFindOK, RemShiftOK, IsEmptyOK, MapRemoveOK, ContainsKeyOK,
     PutListOK, GetListOK, AddReadOK, AddStoreOK, UnsubscribeOK, SubscribeOK,
     SetControllerOK, SetDeviceOK, CloseUnsubOK, ReadCountOK
  DEF Step, Inv, Announce, Quiet
<1>. QED  BY <1>1, <1>2

-----------------------------------------------------------------------------
(* The two steps that move a session.                                      *)

LEMMA RemShiftRefines ==
  ASSUME DistinctTokens, LifeInv(TRUE), LifeInv(TRUE)', NEW t \in Thread, NEW s \in Channel,
         Serves(t, s), RemShift(t), SameIds, Elsewhere(s)
  PROVE  Directory!Vanish(s)
<1>1. /\ Stage(t, s, TRUE) /\ OwnInv(TRUE) /\ th[t].pc = "remShift" /\ th[t].op \in {"update", "close"}
      /\ UNCHANGED <<sts, log>>
  <2>1. Stage(t, s, TRUE) /\ OwnInv(TRUE) /\ th[t].pc = "remShift" /\ UNCHANGED <<sts, log>>
    BY DEF LifeInv, Life, RemShift, At, broker
  <2>. QED  BY <2>1, ServerFacts DEF Fits, CreatePc
<1>2. Goto(t, "isEmpty") /\ UNCHANGED chan
  <2>1. lists[th[t].lst] = <<s>>
    BY <1>1, ServerFacts DEF Stage, Locals, Unlisted, GoodbyePc, EmptyPc, ListPc
  <2>. QED  BY <2>1, OneElement DEF RemShift, Goto
<1>3. th'[t].pc = "isEmpty" /\ th'[t].op = th[t].op /\ Serves(t, s)'
  BY <1>1, <1>2, GoesTo
<1>4. PlaceOf(s) = th[t].dev /\ PlaceOf(s)' = Null
  BY <1>1, <1>3, StagePlace, NextPlace DEF Unlisted, GoodbyePc, EmptyPc
<1>5. chan[s] = "closed" \/ ses[s].deviceId # PlaceOf(s)
  <2>1. CASE th[t].op = "close"
    BY <1>1, <2>1, ServerFacts DEF OwnInv, Inv, Announce, CloseOK
  <2>2. CASE th[t].op = "update"
    <3>1. AddrId[s] \notin TokenIds[s]
      BY <1>1, ServerFacts
    <3>. QED  BY <1>1, <1>4, <2>2, <3>1 DEF Stage, Locals, Fields, RemovePc
  <2>. QED  BY <1>1, <2>1, <2>2
<1>6. /\ [c \in Channel |-> ses'[c].deviceId] = [c \in Channel |-> ses[c].deviceId]
      /\ [c \in Channel |-> PlaceOf(c)'] = [[c \in Channel |-> PlaceOf(c)] EXCEPT ![s] = Null]
  BY <1>4, PlaceElsewhere DEF SameIds
<1>. QED  BY <1>1, <1>2, <1>5, <1>6 DEF Directory!Vanish

LEMMA AddStoreRefines ==
  ASSUME DistinctTokens, LifeInv(TRUE), LifeInv(TRUE)', NEW t \in Thread, NEW s \in Channel,
         Serves(t, s), AddStore(t), SameIds, Elsewhere(s)
  PROVE  Directory!Appear(s)
<1>1. /\ Stage(t, s, TRUE) /\ OwnInv(TRUE) /\ th[t].pc = "addStore" /\ UNCHANGED <<chan, sts, log>>
      /\ \E p \in {"subscribe", "unsubscribe"} : Goto(t, p)
  <2>1. Stage(t, s, TRUE) /\ OwnInv(TRUE) /\ th[t].pc = "addStore" /\ UNCHANGED <<sts, log>>
    BY DEF LifeInv, Life, AddStore, At, broker
  <2>2. th[t].idx = 0
    BY <2>1 DEF Stage, Locals
  <2>3. Goto(t, IF ses[t].ctl = Null THEN "subscribe" ELSE "unsubscribe")
    BY <2>2 DEF AddStore
  <2>4. \E p \in {"subscribe", "unsubscribe"} : Goto(t, p)
    BY <2>3
  <2>. QED  BY <2>1, <2>3, <2>4 DEF Goto
<1>2. t = s /\ th[t].op \in {"create", "update"}
  BY <1>1, ServerFacts DEF Fits, ClosePc, RemovePc
<1>3. th'[t].pc \in {"subscribe", "unsubscribe"} /\ th'[t].op = th[t].op
      /\ th'[t].dev = th[t].dev /\ Serves(t, s)'
  BY <1>1, GoesTo
<1>4. th[t].dev = ses[s].deviceId
  BY <1>1 DEF Stage, Locals, RemovePc
<1>5. PlaceOf(s) = Null /\ PlaceOf(s)' = ses[s].deviceId
  BY <1>1, <1>2, <1>3, <1>4, StagePlace, NextPlace DEF Unlisted, GoodbyePc, EmptyPc
<1>6. chan[s] = "open"
  BY <1>1, <1>2 DEF OwnInv, Inv, Control, ChanOK
<1>7. /\ [c \in Channel |-> ses'[c].deviceId] = [c \in Channel |-> ses[c].deviceId]
      /\ [c \in Channel |-> PlaceOf(c)'] =
           [[c \in Channel |-> PlaceOf(c)] EXCEPT ![s] = ses[s].deviceId]
  BY <1>5, PlaceElsewhere DEF SameIds
<1>. QED  BY <1>1, <1>5, <1>6, <1>7 DEF Directory!Appear

-----------------------------------------------------------------------------
(* The steps that do not.                                                  *)

LEMMA MapRemovePlace ==
  ASSUME LifeInv(TRUE), LifeInv(TRUE)', NEW t \in Thread, NEW s \in Channel, Serves(t, s), MapRemove(t)
  PROVE  PlaceOf(s)' = PlaceOf(s)
<1>1. OwnInv(TRUE) /\ th[t].pc = "mapRemove" /\ th[t].op \in {"update", "close"}
  <2>1. OwnInv(TRUE) /\ th[t].pc = "mapRemove"
    BY DEF LifeInv, MapRemove, At
  <2>. QED  BY <2>1, ServerFacts DEF Fits, CreatePc
<1>2. Serves(t, s)' /\ th'[t].pc \in {"contains", "closeUnsub"}
  <2>1. CASE th[t].op = "update"
    BY <1>1, <2>1, GoesToCreate DEF MapRemove
  <2>2. CASE th[t].op = "close"
    BY <1>1, <2>2, GoesTo DEF MapRemove
  <2>. QED  BY <1>1, <2>1, <2>2
<1>. QED  BY <1>1, <1>2, StagePlace, NextPlace DEF Unlisted, EmptyPc

LEMMA PutListPlace ==
  ASSUME LifeInv(TRUE), LifeInv(TRUE)', NEW t \in Thread, NEW s \in Channel, Serves(t, s), PutList(t)
  PROVE  PlaceOf(s)' = PlaceOf(s)
<1>1. OwnInv(TRUE) /\ th[t].pc = "put" /\ Goto(t, "get")
  BY DEF LifeInv, PutList, At
<1>2. Serves(t, s)' /\ th'[t].pc = "get"
  BY <1>1, GoesTo
<1>. QED  BY <1>1, <1>2, StagePlace, NextPlace DEF Unlisted, EmptyPc

LEMMA StepPlace ==
  ASSUME DistinctTokens, LifeInv(TRUE), LifeInv(TRUE)', NEW t \in Thread, NEW s \in Channel,
         Serves(t, s), Step(t), Elsewhere(s), RemShift(t) \/ AddStore(t) => UNCHANGED lists
  PROVE  \A c \in Channel : PlaceOf(c)' = PlaceOf(c)
<1>1. CASE MapRemove(t)
  BY <1>1, MapRemovePlace, PlaceElsewhere
<1>2. CASE PutList(t)
  BY <1>2, PutListPlace, PlaceElsewhere
<1>3. CASE ~MapRemove(t) /\ ~PutList(t)
  <2>1. UNCHANGED <<deviceMap, lists>>
    BY <1>3 DEF Step, directory, ListGet, RemFind, RemShift, IsEmpty, ContainsKey, GetList,
       AddRead, AddStore, Unsubscribe, Subscribe, SetController, SetDevice, CloseUnsub,
       ReadCount, Publish
  <2>. QED  BY <2>1, SamePlace
<1>. QED  BY <1>1, <1>2, <1>3

\* The count of the directory.
LEMMA CountIs ==
  ASSUME NEW d
  PROVE  Directory!Count(d) = Cardinality({c \in Channel : PlaceOf(c) = d})
<1>1. {c \in Channel : [e \in Channel |-> PlaceOf(e)][c] = d} = {c \in Channel : PlaceOf(c) = d}
  OBVIOUS
<1>2. Directory!Count(d) = Cardinality({c \in Channel : [e \in Channel |-> PlaceOf(e)][c] = d})
  BY Zenon DEF Directory!Count, Directory!Cardinality, Cardinality
<1>. QED  BY <1>1, <1>2

\* What has to be published of a session.
LEMMA TellIs ==
  ASSUME NEW s \in Channel, NEW x, NEW m,
         m = [event |-> x, dev |-> ses[s].deviceId, count |-> Directory!Count(ses[s].deviceId)],
         sts' = [sts EXCEPT ![ses[s].deviceId] = m],
         log' = [log EXCEPT ![s] = Append(@, m)]
  PROVE  Directory!Tell(s, x)
<1>1. [c \in Channel |-> ses[c].deviceId][s] = ses[s].deviceId
  OBVIOUS
<1>. QED  BY <1>1, Zenon DEF Directory!Tell

\* What a publisher publishes is true.
LEMMA PublishRefines ==
  ASSUME DistinctTokens, LifeInv(TRUE), LifeInv(TRUE)', NEW t \in Thread, NEW s \in Channel,
         Serves(t, s), t \in Channel => t = s, Publish(t), SameIds,
         chan' \in {chan, [chan EXCEPT ![s] = "closed"]},
         \A c \in Channel : PlaceOf(c)' = PlaceOf(c),
         ~UNCHANGED <<sts, log>>
  PROVE  Directory!DirNext
<1> DEFINE n == [c \in Channel |-> ses[c].deviceId]
           p == [c \in Channel |-> PlaceOf(c)]
           d == ses[s].deviceId
           e == [event |-> IF th[t].op = "close" THEN "off" ELSE "on", dev |-> d,
                 count |-> th[t].cnt]
<1>1. /\ Stage(t, s, TRUE) /\ OwnInv(TRUE) /\ th[t].pc = "publish" /\ th[t].cur = s
      /\ sts' = [sts EXCEPT ![d] = e] /\ log' = [log EXCEPT ![s] = Append(@, e)]
  BY DEF LifeInv, Life, Publish, At, Serves
<1>2. th[t].op \in {"create", "update", "close"} /\ d \in Own(s)
      /\ (th[t].op # "close" => t = s)
  BY <1>1, ServerFacts
<1>3. n[s] = d /\ p[s] = PlaceOf(s) /\ n' = n /\ p' = p
  BY DEF SameIds
<1>4. Directory!Count(d) = IF PlaceOf(s) = d THEN 1 ELSE 0
  BY <1>2, CountOwn, CountIs
<1>5. CASE th[t].op # "close"
  <2>1. th[t].cnt = 1 /\ PlaceOf(s) = d
    BY <1>1, <1>5, StagePlace DEF Stage, Locals, Unlisted, EmptyPc, RemovePc
  <2>2. chan[s] = "open"
    BY <1>1, <1>2, <1>5 DEF OwnInv, Inv, Control, ChanOK
  <2>3. Directory!Tell(s, "on")
    <3>1. e = [event |-> "on", dev |-> d, count |-> 1]
      BY <1>5, <2>1
    <3>2. Directory!Count(d) = 1
      BY <1>4, <2>1
    <3>. QED  BY <1>1, <3>1, <3>2, TellIs
  <2>4. Directory!AnnounceOn(s)
    BY <1>3, <2>1, <2>2, <2>3 DEF Directory!AnnounceOn
  <2>. QED  BY <2>4 DEF Directory!DirNext
<1>6. CASE th[t].op = "close"
  <2>1. th[t].cnt = 0 /\ PlaceOf(s) = Null /\ d # Null
    <3>1. d # Null
      BY <1>2, AddressAssumption, ThreadAssumption DEF Own
    <3>. QED  BY <1>1, <1>6, <3>1, StagePlace DEF Stage, Locals, Unlisted, GoodbyePc
  <2>2. chan[s] = "closed" /\ NoOff(s)
    BY <1>1, <1>6 DEF OwnInv, Inv, Announce, CloseOK
  <2>3. \A i \in 1..Len(log[s]) : log[s][i].event = "on"
    <3>1. log[s] \in Seq(Event)
      BY <1>1 DEF OwnInv, Inv, Control, TypeOK
    <3>2. \A i \in 1..Len(log[s]) : log[s][i] \in Event
      BY <3>1
    <3>3. \A m \in Event : m.event \in {"on", "off"}
      BY DEF Event
    <3>. QED  BY <2>2, <3>2, <3>3 DEF NoOff
  <2>4. chan' = chan
    BY <1>1, <2>2 DEF OwnInv, Inv, Control, TypeOK
  <2>5. Directory!Tell(s, "off")
    <3>1. e = [event |-> "off", dev |-> d, count |-> 0]
      BY <1>6, <2>1
    <3>2. Directory!Count(d) = 0
      BY <1>4, <2>1
    <3>. QED  BY <1>1, <3>1, <3>2, TellIs
  <2>6. Directory!AnnounceOff(s)
    BY <1>3, <2>1, <2>2, <2>3, <2>4, <2>5 DEF Directory!AnnounceOff
  <2>. QED  BY <2>6 DEF Directory!DirNext
<1>. QED  BY <1>5, <1>6

LEMMA StepRefines ==
  ASSUME DistinctTokens, LifeInv(TRUE), LifeInv(TRUE)', NEW t \in Thread, Step(t)
  PROVE  [Directory!DirNext]_(Directory!dvars)
<1>1. OwnInv(TRUE) /\ Inv' /\ th[t].op # "none"
  BY StepServes DEF LifeInv, OwnInv
<1>2. PICK s \in Channel : Serves(t, s)
  BY <1>1, OwnCall DEF Serves
<1>3. Serves(t, s) /\ (t \in Channel => t = s) /\ chan[s] # "new"
  <2>1. th[t].cur \in Channel /\ (t \in Channel => th[t].cur = t) /\ chan[th[t].cur] # "new"
    BY <1>1, CallerIsOpenOrClosing DEF OwnInv, Inv, Announce
  <2>. QED  BY <1>1, <1>2, <2>1 DEF Serves
<1>4. Elsewhere(s) /\ SameIds /\ chan' \in {chan, [chan EXCEPT ![s] = "closed"]}
  BY <1>1, <1>3, StepKeeps, StepIds, StepChan DEF Serves, OwnInv
<1>5. CASE RemShift(t) /\ ~UNCHANGED lists
  BY <1>3, <1>4, <1>5, RemShiftRefines DEF Directory!DirNext
<1>6. CASE AddStore(t) /\ ~UNCHANGED lists
  BY <1>3, <1>4, <1>6, AddStoreRefines DEF Directory!DirNext
<1>7. CASE RemShift(t) \/ AddStore(t) => UNCHANGED lists
  <2>1. \A c \in Channel : PlaceOf(c)' = PlaceOf(c)
    BY <1>3, <1>4, <1>7, StepPlace
  <2>2. CASE UNCHANGED <<sts, log>>
    BY <1>3, <1>4, <2>1, <2>2, UnseenOrDeparts
  <2>3. CASE ~UNCHANGED <<sts, log>>
    <3>1. Publish(t)
      BY <2>3 DEF Step, broker, ListGet, RemFind, RemShift, IsEmpty, MapRemove, ContainsKey,
         PutList, GetList, AddRead, AddStore, Unsubscribe, Subscribe, SetController, SetDevice,
         CloseUnsub, ReadCount
    <3>. QED  BY <1>3, <1>4, <2>1, <2>3, <3>1, PublishRefines
  <2>. QED  BY <2>2, <2>3
<1>. QED  BY <1>5, <1>6, <1>7

-----------------------------------------------------------------------------
(* The handlers begin, and connections end.                                *)

LEMMA ConnectRefines ==
  ASSUME LifeInv(TRUE), LifeInv(TRUE)', NEW c \in Channel, Connect(c)
  PROVE  Directory!Arrive(c)
<1>1. /\ chan[c] = "new" /\ chan' = [chan EXCEPT ![c] = "open"]
      /\ ses' = [ses EXCEPT ![c].deviceId = AddrId[c]]
      /\ UNCHANGED <<deviceMap, lists, sts, log>>
  BY DEF Connect, At, broker, LifeInv, OwnInv, Inv, Control, ChanOK
<1>2. \A e \in Channel : ses'[e].deviceId = IF e = c THEN AddrId[c] ELSE ses[e].deviceId
  BY <1>1 DEF LifeInv, OwnInv, Inv, Control, TypeOK, SessionFields
<1>3. /\ [e \in Channel |-> ses'[e].deviceId] =
           [[e \in Channel |-> ses[e].deviceId] EXCEPT ![c] = AddrId[c]]
      /\ [e \in Channel |-> PlaceOf(e)'] = [e \in Channel |-> PlaceOf(e)]
  BY <1>1, <1>2, SamePlace
<1>. QED  BY <1>1, <1>3 DEF Directory!Arrive

LEMMA RegisterRefines ==
  ASSUME LifeInv(TRUE), LifeInv(TRUE)', NEW c \in Channel, Register(c)
  PROVE  Directory!Register(c)
<1>1. PICK d \in TokenIds[c] :
        /\ th[c].pc = "idle" /\ ses' = [ses EXCEPT ![c].deviceId = d]
        /\ UNCHANGED <<chan, deviceMap, lists, sts, log>>
  BY DEF Register, At, directory, broker, GotoWith
<1>2. chan[c] = "open" /\ ses[c].deviceId = AddrId[c]
  BY <1>1 DEF LifeInv, Life, OwnInv, Inv, Control, ChanOK
<1>3. \A e \in Channel : ses'[e].deviceId = IF e = c THEN d ELSE ses[e].deviceId
  BY <1>1 DEF LifeInv, OwnInv, Inv, Control, TypeOK, SessionFields
<1>4. /\ [e \in Channel |-> ses'[e].deviceId] =
           [[e \in Channel |-> ses[e].deviceId] EXCEPT ![c] = d]
      /\ [e \in Channel |-> PlaceOf(e)'] = [e \in Channel |-> PlaceOf(e)]
  BY <1>1, <1>3, SamePlace
<1>. QED  BY <1>1, <1>2, <1>4 DEF Directory!Register

LEMMA DisconnectRefines ==
  ASSUME LifeInv(TRUE), LifeInv(TRUE)', NEW c \in Channel, Disconnect(c)
  PROVE  [Directory!DirNext]_(Directory!dvars)
<1>1. /\ chan' = [chan EXCEPT ![c] = "closed"] /\ th[c].pc # "new"
      /\ UNCHANGED <<deviceMap, lists, ses, sts, log>>
  BY DEF Disconnect, directory, broker
<1>2. chan[c] # "new" /\ SameIds /\ \A e \in Channel : PlaceOf(e)' = PlaceOf(e)
  BY <1>1, SamePlace DEF SameIds, LifeInv, OwnInv, Inv, Control, ChanOK
<1>. QED  BY <1>1, <1>2, UnseenOrDeparts

LEMMA OtherwiseUnseen ==
  ASSUME LifeInv(TRUE), LifeInv(TRUE)', UNCHANGED <<chan, deviceMap, lists, ses, sts, log>>
  PROVE  UNCHANGED Directory!dvars
BY SamePlace, Unseen DEF SameIds

-----------------------------------------------------------------------------
(* The theorem.                                                            *)

LEMMA InitRefines == Init => Directory!DirInit
<1>. SUFFICES ASSUME Init PROVE Directory!DirInit
  OBVIOUS
<1>1. \A c \in Channel : PlaceOf(c) = Null /\ ses[c].deviceId = Null
  BY DEF Init, PlaceOf, Listed
<1>2. /\ [c \in Channel |-> ses[c].deviceId] = [c \in Channel |-> Null]
      /\ [c \in Channel |-> PlaceOf(c)] = [c \in Channel |-> Null]
  BY <1>1
<1>. QED  BY <1>2 DEF Init, Directory!DirInit

LEMMA NextRefines ==
  DistinctTokens /\ LifeInv(TRUE) /\ LifeInv(TRUE)' /\ [Next]_vars => [Directory!DirNext]_(Directory!dvars)
<1>. SUFFICES ASSUME DistinctTokens, LifeInv(TRUE), LifeInv(TRUE)', [Next]_vars
              PROVE  [Directory!DirNext]_(Directory!dvars)
  OBVIOUS
<1>1. ASSUME NEW c \in Channel, Connect(c) PROVE Directory!DirNext
  BY <1>1, ConnectRefines DEF Directory!DirNext
<1>2. ASSUME NEW c \in Channel, Register(c) PROVE Directory!DirNext
  BY <1>2, RegisterRefines DEF Directory!DirNext
<1>3. ASSUME NEW c \in Channel, Disconnect(c) PROVE [Directory!DirNext]_(Directory!dvars)
  BY <1>3, DisconnectRefines
<1>4. CASE (\E c \in Channel : ChannelInactive(c)) \/ LostScan \/ LostClose \/ UNCHANGED vars
  <2>1. UNCHANGED <<chan, deviceMap, lists, ses, sts, log>>
    BY <1>4 DEF ChannelInactive, LostScan, LostClose, CloseSession, vars, directory, broker
  <2>. QED  BY <2>1, OtherwiseUnseen
<1>5. ASSUME NEW t \in Thread, Step(t) PROVE [Directory!DirNext]_(Directory!dvars)
  BY <1>5, StepRefines
<1>. QED  BY <1>1, <1>2, <1>3, <1>4, <1>5 DEF Next

\* Whoever looks gateways up by id and listens to their status topics sees a
\* directory in which a session appears and vanishes in one step, under one id
\* at a time, and in which every status tells the count at the moment it is
\* published, although the handlers take a dozen steps for it
\* (SessionManager.deviceIdCreateEvent, deviceIdUpdateEvent and closeSession,
\* EventManager.publish).
THEOREM DirectoryImplemented == ASSUME DistinctTokens PROVE Spec => ImplementsDirectory
<1>1. LifeInv(TRUE) /\ LifeInv(TRUE)' /\ [Next]_vars => [Directory!DirNext]_(Directory!dvars)
  BY NextRefines
<1>. QED  BY <1>1, InitRefines, LifeInvariance, PTL DEF Spec, ImplementsDirectory, Directory!DirSpec
=============================================================================
