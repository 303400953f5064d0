------------------------ MODULE SessionManagerProofs ------------------------
(***************************************************************************)
(* What the handlers of SessionManager never do, however many gateways     *)
(* there are, whatever ids they share and whichever MQTT calls throw:      *)
(* proofs of TypeOK, LiveSession and OffIsLast.                            *)
(*                                                                         *)
(* None of the three is inductive.  FrameOK, ChanOK and CloseOK add what   *)
(* the code keeps true of its threads: which handler runs which call with  *)
(* which locals, which handlers run while a channel is open, and that      *)
(* _sessionMap.remove hands a session to one closer only.                  *)
(***************************************************************************)
EXTENDS SessionManager, ArrayListsProofs, TLAPS

CreatePc == {"contains", "put", "get", "addRead", "addStore", "unsubscribe",
             "subscribe", "setController", "setDevice", "readCount", "publish"}
RemovePc == {"listGet", "remFind", "remShift", "isEmpty", "mapRemove"}
UpdatePc == RemovePc \cup CreatePc
ClosePc  == RemovePc \cup {"closeUnsub", "readCount", "publish"}
RestPc   == {"new", "idle", "registered", "inactive", "done"}
LostPc   == {"scan", "next"}
ListPc   == {"remFind", "remShift", "isEmpty", "addRead", "addStore"}

\* Frame f fits thread t: its call belongs to the handler that runs, and its
\* locals are set: the session, the device id and, where one is used, the list.
Fits(t, f) ==
  /\ f.op \in {"create", "update"} => t \in Channel
  /\ f.op = "create" => f.pc \in CreatePc
  /\ f.op = "update" => f.pc \in UpdatePc
  /\ f.op = "close" => f.pc \in ClosePc
  /\ f.op = "none" /\ t = LostTask => f.pc \in LostPc
  /\ f.op = "none" /\ t \in Channel => f.pc \in RestPc
  /\ f.op # "none" => /\ f.cur \in Channel /\ f.dev \in DeviceId
                      /\ t \in Channel => f.cur = t
  /\ f.pc \in ListPc => f.lst \in ListId

FrameOK == \A t \in Thread : Fits(t, th[t])

\* A channel is open exactly between channelActive and the end of its last
\* handler; the sessions and the list of the LostTask thread fit that.
ChanOK ==
  \A c \in Channel :
    /\ chan[c] = "new" <=> th[c].pc = "new"
    /\ chan[c] = "open" <=> \/ th[c].op \in {"create", "update"}
                            \/ th[c].pc \in {"idle", "registered"}
    /\ chan[c] # "new" => ses[c].deviceId \in DeviceId
    /\ c \in sessionMap => chan[c] # "new"
    /\ c \in todo => chan[c] = "closed"

NoOff(s) == \A i \in 1..Len(log[s]) : log[s][i].event # "off"

\* A session that is being closed is gone from _sessionMap, has one closer, and
\* its off event has not been published.
CloseOK ==
  \A t \in Thread : th[t].op = "close" =>
    /\ th[t].cur \notin sessionMap
    /\ chan[th[t].cur] = "closed"
    /\ NoOff(th[t].cur)
    /\ \A u \in Thread : th[u].op = "close" /\ th[u].cur = th[t].cur => u = t

Control == TypeOK /\ FrameOK /\ ChanOK

Announce == LiveSession /\ CloseOK /\ OffIsLast

Inv == Control /\ Announce

\* The part of Control that moving a thread on can disturb.
ThreadOK ==
  /\ chan \in [Channel -> {"new", "open", "closed"}]
  /\ th \in [Thread -> Frames]
  /\ todo \in SUBSET Channel
  /\ failed \in SUBSET Channel
  /\ FrameOK
  /\ ChanOK

\* No session is opened, no handler begins to close one, and open channels can
\* only close.
QuietThreads ==
  /\ \A c \in Channel : chan'[c] = chan[c] \/ (chan[c] = "open" /\ chan'[c] = "closed")
  /\ \A u \in Thread : th'[u].op = "close" => th[u].op = "close" /\ th'[u].cur = th[u].cur

SameIds == \A c \in Channel : ses'[c].deviceId = ses[c].deviceId

\* A step that neither opens nor closes a session nor announces anything.
Quiet == QuietThreads /\ UNCHANGED <<sessionMap, log>> /\ SameIds

-----------------------------------------------------------------------------
(* Moving a thread on.                                                     *)

LEMMA CallerIsOpenOrClosing ==
  ASSUME Control, CloseOK, NEW t \in Thread, th[t].op # "none"
  PROVE  /\ th[t].cur \in Channel /\ th[t].dev \in DeviceId
         /\ t \in Channel => th[t].cur = t
         /\ chan[th[t].cur] # "new"
         /\ ses[th[t].cur].deviceId \in DeviceId
<1>1. th[t] \in Frames /\ Fits(t, th[t])
  BY DEF Control, TypeOK, FrameOK
<1>2. th[t].cur \in Channel /\ th[t].dev \in DeviceId /\ (t \in Channel => th[t].cur = t)
  BY <1>1 DEF Fits
<1>3. chan[th[t].cur] # "new"
  <2>1. CASE th[t].op = "close"
    BY <2>1 DEF CloseOK
  <2>2. CASE th[t].op # "close"
    BY <1>1, <1>2, <2>2 DEF Control, ChanOK, Fits, Frames, Op
  <2>. QED  BY <2>1, <2>2
<1>. QED  BY <1>2, <1>3 DEF Control, ChanOK

LEMMA CallPc ==
  ASSUME NEW t, NEW f \in Frames, Fits(t, f), f.op # "none"
  PROVE  f.pc \notin RestPc \cup LostPc
<1>1. f.op \in {"create", "update", "close"}
  BY DEF Frames, Op
<1>. QED
  BY <1>1 DEF Fits, CreatePc, UpdatePc, RemovePc, ClosePc, RestPc, LostPc

LEMMA GotoWithOK ==
  ASSUME Control, NEW t \in Thread, NEW f \in Frames, Fits(t, f),
         th[t].op # "none", f.op = th[t].op, f.cur = th[t].cur,
         GotoWith(t, f), UNCHANGED sessionMap, SameIds
  PROVE  ThreadOK' /\ QuietThreads
<1>1. th' = [th EXCEPT ![t] = f] /\ chan' = chan /\ todo' = todo /\ failed' = failed
  BY DEF GotoWith
<1>2. th \in [Thread -> Frames]
  BY DEF Control, TypeOK
<1>3. th'[t] = f /\ (\A u \in Thread : u # t => th'[u] = th[u]) /\ th' \in [Thread -> Frames]
  BY <1>1, <1>2
<1>4. FrameOK'
  <2> SUFFICES ASSUME NEW u \in Thread PROVE Fits(u, th'[u])
    BY DEF FrameOK, Fits
  <2>1. CASE u = t  BY <2>1, <1>3
  <2>2. CASE u # t  BY <2>2, <1>3 DEF Control, FrameOK
  <2>. QED  BY <2>1, <2>2
<1>5. ChanOK'
  <2> SUFFICES ASSUME NEW c \in Channel
               PROVE  /\ chan[c] = "new" <=> th'[c].pc = "new"
                      /\ chan[c] = "open" <=> \/ th'[c].op \in {"create", "update"}
                                              \/ th'[c].pc \in {"idle", "registered"}
    BY <1>1 DEF ChanOK, Control, SameIds
  <2>1. CASE c = t
    <3>1. th[t].pc \notin RestPc /\ f.pc \notin RestPc
      <4>1. th[t] \in Frames /\ Fits(t, th[t])
        BY <1>2 DEF Control, FrameOK
      <4>. QED  BY <4>1, CallPc
    <3>. QED  BY <2>1, <1>3, <3>1 DEF Control, ChanOK, RestPc
  <2>2. CASE c # t
    BY <2>2, <1>3 DEF Control, ChanOK, Thread
  <2>. QED  BY <2>1, <2>2
<1>6. QuietThreads
  <2>1. \A c \in Channel : chan'[c] = chan[c]
    BY <1>1
  <2>2. ASSUME NEW u \in Thread, th'[u].op = "close"
        PROVE  th[u].op = "close" /\ th'[u].cur = th[u].cur
    <3>1. CASE u = t  BY <1>3, <2>2, <3>1
    <3>2. CASE u # t  BY <1>3, <2>2, <3>2
    <3>. QED  BY <3>1, <3>2
  <2>. QED  BY <2>1, <2>2 DEF QuietThreads
<1>. QED  BY <1>1, <1>3, <1>4, <1>5, <1>6 DEF ThreadOK, Control, TypeOK

LEMMA GotoOK ==
  ASSUME Control, NEW t \in Thread, NEW p \in Pc, Fits(t, [th[t] EXCEPT !.pc = p]),
         th[t].op # "none", Goto(t, p), UNCHANGED sessionMap, SameIds
  PROVE  ThreadOK' /\ QuietThreads
<1> DEFINE f == [th[t] EXCEPT !.pc = p]
<1>1. th \in [Thread -> Frames] /\ th[t] \in Frames
  BY DEF Control, TypeOK
<1>2. f \in Frames /\ f.op = th[t].op /\ f.cur = th[t].cur
  BY <1>1 DEF Frames
<1>3. GotoWith(t, f)
  BY DEF Goto, GotoWith
<1>. QED  BY <1>2, <1>3, GotoWithOK

\* A handler that ends: the thread has no session any more.
LEMMA RestOK ==
  ASSUME Control, NEW t \in Thread, NEW p \in Pc, th[t].op # "none",
         t = LostTask => p \in LostPc,
         t \in Channel => p \in RestPc \ {"new"},
         th' = [th EXCEPT ![t] = Frame(p, "none", Null, Null)],
         chan' \in [Channel -> {"new", "open", "closed"}],
         \A c \in Channel : c # t => chan'[c] = chan[c],
         t \in Channel => /\ chan'[t] = IF p \in {"idle", "registered"}
                                        THEN "open" ELSE "closed"
                          /\ chan'[t] = chan[t] \/ chan[t] = "open",
         todo' \in SUBSET todo, failed' \in SUBSET Channel, UNCHANGED sessionMap, SameIds
  PROVE  ThreadOK' /\ QuietThreads
<1> DEFINE f == Frame(p, "none", Null, Null)
<1>1. f \in Frames /\ f.op = "none" /\ f.pc = p /\ p \notin ListPc
  BY ThreadAssumption DEF Frame, Frames, Op, LostPc, RestPc, ListPc, Thread
<1>2. Fits(t, f)
  BY <1>1, ThreadAssumption DEF Fits
<1>3. th \in [Thread -> Frames]
  BY DEF Control, TypeOK
<1>4. th'[t] = f /\ (\A u \in Thread : u # t => th'[u] = th[u]) /\ th' \in [Thread -> Frames]
  BY <1>1, <1>3
<1>5. FrameOK'
  <2> SUFFICES ASSUME NEW u \in Thread PROVE Fits(u, th'[u])
    BY DEF FrameOK, Fits
  <2>1. CASE u = t  BY <2>1, <1>2, <1>4
  <2>2. CASE u # t  BY <2>2, <1>4 DEF Control, FrameOK
  <2>. QED  BY <2>1, <2>2
<1>6. ChanOK'
  <2> SUFFICES ASSUME NEW c \in Channel
               PROVE  /\ chan'[c] = "new" <=> th'[c].pc = "new"
                      /\ chan'[c] = "open" <=> \/ th'[c].op \in {"create", "update"}
                                               \/ th'[c].pc \in {"idle", "registered"}
                      /\ chan'[c] # "new" => ses[c].deviceId \in DeviceId
                      /\ c \in sessionMap => chan'[c] # "new"
                      /\ c \in todo => chan'[c] = "closed"
    BY DEF ChanOK, SameIds
  <2>0. c \in Thread
    BY DEF Thread
  <2>1. CASE c = t
    <3>1. th[t].pc \notin RestPc
      BY <1>3, CallPc DEF Control, FrameOK
    <3>2. chan[c] # "new" /\ (c \in todo => chan[c] = "closed")
      BY <3>1, <2>1 DEF Control, ChanOK, RestPc
    <3>. QED  BY <2>1, <1>1, <1>4, <3>2 DEF Control, ChanOK, RestPc
  <2>2. CASE c # t
    BY <2>0, <2>2, <1>4 DEF Control, ChanOK
  <2>. QED  BY <2>1, <2>2
<1>7. QuietThreads
  <2>1. ASSUME NEW c \in Channel
        PROVE  chan'[c] = chan[c] \/ (chan[c] = "open" /\ chan'[c] = "closed")
    <3>1. CASE c = t  BY <3>1
    <3>2. CASE c # t  BY <3>2
    <3>. QED  BY <3>1, <3>2
  <2>2. ASSUME NEW u \in Thread, th'[u].op = "close"
        PROVE  th[u].op = "close" /\ th'[u].cur = th[u].cur
    BY <2>2, <1>1, <1>4
  <2>. QED  BY <2>1, <2>2 DEF QuietThreads
<1>. QED  BY <1>4, <1>5, <1>6, <1>7 DEF ThreadOK, Control, TypeOK

LEMMA ReturnOK ==
  ASSUME Control, NEW t \in Thread, th[t].op # "none", Return(t),
         UNCHANGED sessionMap, SameIds
  PROVE  ThreadOK' /\ QuietThreads
<1> DEFINE p == CASE t = LostTask -> IF todo = {} THEN "scan" ELSE "next"
                  [] th[t].op = "create" -> "idle"
                  [] th[t].op = "update" -> "registered"
                  [] OTHER -> "done"
<1>1. /\ th' = [th EXCEPT ![t] = Frame(p, "none", Null, Null)]
      /\ chan' = chan /\ todo' = todo /\ failed' = failed
  BY DEF Return, GotoWith
<1>2. CASE t = LostTask
  <2>0. th[t].op \notin {"create", "update"}
    BY <1>2, ThreadAssumption DEF Control, FrameOK, Fits
  <2>1. p \in {"scan", "next"}
    BY <1>2, <2>0
  <2>. HIDE DEF p
  <2>2. p \in LostPc /\ p \in Pc /\ t \notin Channel
    BY <1>2, <2>1, ThreadAssumption DEF LostPc, Pc
  <2>. QED  BY <1>1, <1>2, <2>2, RestOK DEF Control, TypeOK
<1>3. CASE t \in Channel
  <2>0. th[t] \in Frames /\ t # LostTask /\ chan[t] \in {"new", "open", "closed"}
    BY <1>3, ThreadAssumption DEF Control, TypeOK
  <2>1. \/ th[t].op = "create" /\ p = "idle" /\ chan[t] = "open"
        \/ th[t].op = "update" /\ p = "registered" /\ chan[t] = "open"
        \/ th[t].op = "close" /\ p = "done" /\ chan[t] = "closed"
    <3>1. th[t].pc \notin RestPc
      BY <2>0, CallPc DEF Control, FrameOK
    <3>. QED  BY <1>3, <2>0, <3>1 DEF Control, ChanOK, Frames, Op, RestPc
  <2>. HIDE DEF p
  <2>2. p \in RestPc \ {"new"} /\ p \in Pc
    BY <2>1 DEF RestPc, Pc
  <2>3. chan'[t] = IF p \in {"idle", "registered"} THEN "open" ELSE "closed"
    BY <2>1, <1>1
  <2>. QED  BY <1>1, <2>0, <2>2, <2>3, RestOK DEF Control, TypeOK
<1>. QED  BY <1>2, <1>3 DEF Thread

LEMMA AbandonOK ==
  ASSUME Control, NEW t \in Thread, th[t].op # "none", Abandon(t),
         failed' \in SUBSET Channel, UNCHANGED sessionMap, SameIds
  PROVE  ThreadOK' /\ QuietThreads
<1>1. CASE t = LostTask
  <2>1. "scan" \in LostPc /\ "scan" \in Pc /\ t \notin Channel
    BY <1>1, ThreadAssumption DEF LostPc, Pc
  <2>2. /\ th' = [th EXCEPT ![t] = Frame("scan", "none", Null, Null)]
        /\ todo' = {} /\ chan' = chan
    BY <1>1 DEF Abandon
  <2>. QED  BY <1>1, <2>1, <2>2, RestOK DEF Control, TypeOK
<1>2. CASE t \in Channel
  <2> DEFINE p == IF th[t].op = "close" THEN "done" ELSE "inactive"
  <2>1. p \in RestPc \ {"new"} /\ p \in Pc /\ p \notin {"idle", "registered"} /\ t # LostTask
    BY <1>2, ThreadAssumption DEF RestPc, Pc
  <2>2. /\ th' = [th EXCEPT ![t] = Frame(p, "none", Null, Null)]
        /\ todo' = todo /\ chan' = [chan EXCEPT ![t] = "closed"]
    BY <2>1 DEF Abandon
  <2>. HIDE DEF p
  <2>3. chan'[t] = "closed" /\ chan' \in [Channel -> {"new", "open", "closed"}]
        /\ \A c \in Channel : c # t => chan'[c] = chan[c]
    BY <1>2, <2>2 DEF Control, TypeOK
  <2>4. chan[t] # "new"
    <3>1. th[t].pc \notin RestPc
      BY CallPc DEF Control, FrameOK, TypeOK
    <3>. QED  BY <1>2, <3>1 DEF Control, ChanOK, RestPc
  <2>5. chan[t] \in {"open", "closed"}
    BY <1>2, <2>4 DEF Control, TypeOK
  <2>. QED  BY <2>1, <2>2, <2>3, <2>5, RestOK
<1>. QED  BY <1>1, <1>2 DEF Thread

LEMMA ThrowOK ==
  ASSUME Control, NEW t \in Thread, th[t].op # "none", Throw(t),
         UNCHANGED sessionMap, SameIds
  PROVE  ThreadOK' /\ QuietThreads
BY AbandonOK DEF Throw, Control, TypeOK

-----------------------------------------------------------------------------
(* The steps of a call, one lemma per action.                              *)

\* What every step of a call keeps, whatever it is.
LEMMA CallFacts ==
  ASSUME Control, NEW t \in Thread, th[t].op # "none"
  PROVE  /\ th[t] \in Frames /\ Fits(t, th[t])
         /\ th[t].op \in {"create", "update", "close"}
         /\ th[t].cur \in Channel /\ th[t].dev \in DeviceId
BY DEF Control, TypeOK, FrameOK, Fits, Frames, Op

LEMMA CallHasOp ==
  ASSUME Control, NEW t \in Thread, th[t].pc \notin RestPc \cup LostPc
  PROVE  th[t].op # "none"
BY DEF Control, FrameOK, Fits, Thread

LEMMA ToCreateEventOK ==
  ASSUME Control, NEW t \in Thread, th[t].op = "update", ToCreateEvent(t),
         UNCHANGED sessionMap, SameIds
  PROVE  ThreadOK' /\ QuietThreads
<1> DEFINE f == Frame("contains", "update", t, ses[t].deviceId)
<1>1. t \in Channel /\ th[t].cur = t
  BY CallFacts DEF Fits
<1>2. ses[t].deviceId \in DeviceId
  BY <1>1 DEF Control, ChanOK
<1>3. f \in Frames /\ Fits(t, f) /\ f.op = th[t].op /\ f.cur = th[t].cur
  BY <1>1, <1>2, ThreadAssumption DEF Frame, Frames, Fits, Op, Pc, UpdatePc, CreatePc, ListPc
<1>4. GotoWith(t, f)
  BY DEF ToCreateEvent
<1>. QED  BY <1>3, <1>4, GotoWithOK

LEMMA ListGetOK ==
  ASSUME Control, NEW t \in Thread, ListGet(t)
  PROVE  Control' /\ Quiet
<1>1. th[t].pc = "listGet" /\ UNCHANGED <<sessionMap, deviceMap, lists, ses, subs, sts, log>>
  BY DEF ListGet, At, directory, broker
<1>2. th[t].op # "none"
  BY <1>1, CallHasOp DEF RestPc, LostPc
<1>3. SameIds
  BY <1>1 DEF SameIds
<1>4. ThreadOK' /\ QuietThreads
  <2>1. CASE /\ deviceMap[th[t].dev] # Null
             /\ GotoWith(t, [th[t] EXCEPT !.pc = "remFind", !.lst = deviceMap[th[t].dev]])
    <3> DEFINE f == [th[t] EXCEPT !.pc = "remFind", !.lst = deviceMap[th[t].dev]]
    <3>1. deviceMap[th[t].dev] \in ListId
      BY <1>2, <2>1, CallFacts DEF Control, TypeOK
    <3>2. f \in Frames /\ f.op = th[t].op /\ f.cur = th[t].cur
      BY <1>2, <3>1, CallFacts, ZenonT(30) DEF Frames, Pc
    <3>3. Fits(t, f)
      BY <1>1, <1>2, <3>1, CallFacts DEF Fits, Frames, RemovePc, CreatePc, UpdatePc, ClosePc
    <3>. QED  BY <1>1, <1>2, <1>3, <2>1, <3>2, <3>3, GotoWithOK
  <2>2. CASE th[t].op = "update" /\ ToCreateEvent(t)
    BY <1>1, <1>3, <2>2, ToCreateEventOK
  <2>3. CASE th[t].op = "close" /\ Throw(t)
    BY <1>1, <1>3, <2>3, ThrowOK
  <2>. QED  BY <2>1, <2>2, <2>3 DEF ListGet
<1>. QED  BY <1>1, <1>3, <1>4 DEF Control, TypeOK, ThreadOK, Quiet

LEMMA RemFindOK ==
  ASSUME Control, NEW t \in Thread, RemFind(t)
  PROVE  Control' /\ Quiet
<1> DEFINE i == IndexOf(lists[th[t].lst], th[t].cur)
           f == [th[t] EXCEPT !.pc = IF i = 0 THEN "isEmpty" ELSE "remShift", !.idx = i]
<1>1. /\ th[t].pc = "remFind" /\ UNCHANGED <<sessionMap, deviceMap, lists, ses, subs, sts, log>>
      /\ GotoWith(t, f)
  BY DEF RemFind, At, directory, broker
<1>2. th[t].op # "none"
  BY <1>1, CallHasOp DEF RestPc, LostPc
<1>3. SameIds
  BY <1>1 DEF SameIds
<1>4. th[t].lst \in ListId
  BY <1>1, <1>2, CallFacts DEF Fits, ListPc
<1>5. i \in Int
  <2>1. lists[th[t].lst] \in ListOf(Channel \cup {Null})
    BY <1>4 DEF Control, TypeOK
  <2>2. i \in Nat
    BY <2>1, IndexOfList
  <2>. QED  BY <2>2
<1>6. f \in Frames /\ f.op = th[t].op /\ f.cur = th[t].cur
  BY <1>2, <1>5, CallFacts, ZenonT(30) DEF Frames, Pc
<1>7. Fits(t, f)
  BY <1>1, <1>2, <1>4, CallFacts DEF Fits, Frames, RemovePc, CreatePc, UpdatePc, ClosePc
<1>8. ThreadOK' /\ QuietThreads
  BY <1>1, <1>2, <1>3, <1>6, <1>7, GotoWithOK
<1>. QED  BY <1>1, <1>3, <1>8 DEF Control, TypeOK, ThreadOK, Quiet

LEMMA RemShiftOK ==
  ASSUME Control, NEW t \in Thread, RemShift(t)
  PROVE  Control' /\ Quiet
<1>1. th[t].pc = "remShift" /\ UNCHANGED <<sessionMap, deviceMap, ses, subs, sts, log>>
  BY DEF RemShift, At, broker
<1>2. th[t].op # "none"
  BY <1>1, CallHasOp DEF RestPc, LostPc
<1>3. SameIds
  BY <1>1 DEF SameIds
<1>4. lists' = [lists EXCEPT ![th[t].lst] = ShiftFrom(@, th[t].idx)]
  BY DEF RemShift
<1>5. th[t].idx \in Int /\ th[t].lst \in ListId
  BY <1>1, <1>2, CallFacts DEF Frames, Fits, ListPc
<1>6. lists' \in [ListId -> ListOf(Channel \cup {Null})]
  BY <1>4, <1>5, ShiftFromList DEF Control, TypeOK
<1>7. ThreadOK' /\ QuietThreads
  <2>1. CASE Size(lists[th[t].lst]) <= 0
    <3>1. Throw(t)
      BY <2>1 DEF RemShift
    <3>. QED  BY <1>1, <1>2, <1>3, <3>1, ThrowOK
  <2>2. CASE ~(Size(lists[th[t].lst]) <= 0)
    <3>1. Goto(t, "isEmpty")
      BY <2>2 DEF RemShift
    <3>2. Fits(t, [th[t] EXCEPT !.pc = "isEmpty"]) /\ "isEmpty" \in Pc
      BY <1>1, <1>2, <1>5, CallFacts DEF Fits, Frames, Pc, RemovePc, CreatePc, UpdatePc, ClosePc
    <3>. QED  BY <1>1, <1>2, <1>3, <3>1, <3>2, GotoOK
  <2>. QED  BY <2>1, <2>2
<1>. QED  BY <1>1, <1>3, <1>6, <1>7 DEF Control, TypeOK, ThreadOK, Quiet

\* Moving on to a call that uses no list, or the list already at hand.
LEMMA GotoFits ==
  ASSUME Control, NEW t \in Thread, NEW p \in Pc, th[t].op # "none",
         th[t].op = "create" => p \in CreatePc,
         th[t].op = "update" => p \in UpdatePc,
         th[t].op = "close" => p \in ClosePc,
         p \in ListPc => th[t].pc \in ListPc,
         Goto(t, p), UNCHANGED sessionMap, SameIds
  PROVE  ThreadOK' /\ QuietThreads
<1> DEFINE f == [th[t] EXCEPT !.pc = p]
<1>1. /\ f.pc = p /\ f.op = th[t].op /\ f.cur = th[t].cur
      /\ f.dev = th[t].dev /\ f.lst = th[t].lst
  BY CallFacts DEF Frames
<1>. HIDE DEF f
<1>2. Fits(t, f)
  BY <1>1, CallFacts DEF Fits
<1>. QED  BY <1>2, GotoOK DEF f

LEMMA IsEmptyOK ==
  ASSUME Control, NEW t \in Thread, IsEmpty(t)
  PROVE  Control' /\ Quiet
<1>1. th[t].pc = "isEmpty" /\ UNCHANGED <<sessionMap, deviceMap, lists, ses, subs, sts, log>>
  BY DEF IsEmpty, At, directory, broker
<1>2. th[t].op # "none" /\ th[t].op # "create"
  BY <1>1, CallHasOp, CallFacts DEF RestPc, LostPc, Fits, CreatePc
<1>3. SameIds
  BY <1>1 DEF SameIds
<1>4. ThreadOK' /\ QuietThreads
  <2>1. CASE Goto(t, "mapRemove")
    BY <1>1, <1>2, <1>3, <2>1, GotoFits DEF Pc, UpdatePc, ClosePc, RemovePc, ListPc
  <2>2. CASE th[t].op = "update" /\ ToCreateEvent(t)
    BY <1>1, <1>3, <2>2, ToCreateEventOK
  <2>3. CASE th[t].op = "close" /\ Goto(t, "readCount")
    BY <1>1, <1>2, <1>3, <2>3, GotoFits DEF Pc, ClosePc, ListPc
  <2>. QED  BY <2>1, <2>2, <2>3 DEF IsEmpty
<1>. QED  BY <1>1, <1>3, <1>4 DEF Control, TypeOK, ThreadOK, Quiet

LEMMA MapRemoveOK ==
  ASSUME Control, NEW t \in Thread, MapRemove(t)
  PROVE  Control' /\ Quiet
<1>1. /\ th[t].pc = "mapRemove" /\ UNCHANGED <<sessionMap, lists, ses, subs, sts, log>>
      /\ deviceMap' = [deviceMap EXCEPT ![th[t].dev] = Null]
  BY DEF MapRemove, At, broker
<1>2. th[t].op # "none" /\ th[t].op # "create"
  BY <1>1, CallHasOp, CallFacts DEF RestPc, LostPc, Fits, CreatePc
<1>3. SameIds
  BY <1>1 DEF SameIds
<1>4. ThreadOK' /\ QuietThreads
  <2>1. CASE th[t].op = "update" /\ ToCreateEvent(t)
    BY <1>1, <1>3, <2>1, ToCreateEventOK
  <2>2. CASE th[t].op # "update" /\ Goto(t, "closeUnsub")
    BY <1>1, <1>2, <1>3, <2>2, GotoFits DEF Pc, ClosePc, ListPc
  <2>. QED  BY <2>1, <2>2 DEF MapRemove
<1>. QED  BY <1>1, <1>3, <1>4 DEF Control, TypeOK, ThreadOK, Quiet

LEMMA ContainsKeyOK ==
  ASSUME Control, NEW t \in Thread, ContainsKey(t)
  PROVE  Control' /\ Quiet
<1>1. th[t].pc = "contains" /\ UNCHANGED <<sessionMap, deviceMap, lists, ses, subs, sts, log>>
  BY DEF ContainsKey, At, directory, broker
<1>2. th[t].op # "none" /\ th[t].op # "close"
  BY <1>1, CallHasOp, CallFacts DEF RestPc, LostPc, Fits, ClosePc, RemovePc
<1>3. SameIds
  BY <1>1 DEF SameIds
<1>4. PICK p \in {"put", "get"} : Goto(t, p)
  BY DEF ContainsKey
<1>5. ThreadOK' /\ QuietThreads
  BY <1>1, <1>2, <1>3, <1>4, GotoFits DEF Pc, CreatePc, UpdatePc, ListPc
<1>. QED  BY <1>1, <1>3, <1>5 DEF Control, TypeOK, ThreadOK, Quiet

LEMMA PutListOK ==
  ASSUME Control, NEW t \in Thread, PutList(t)
  PROVE  Control' /\ Quiet
<1> DEFINE l == <<th[t].cur, th[t].dev>>
<1>1. /\ th[t].pc = "put" /\ UNCHANGED <<sessionMap, ses, subs, sts, log>>
      /\ lists' = [lists EXCEPT ![l] = <<>>]
      /\ deviceMap' = [deviceMap EXCEPT ![th[t].dev] = l]
      /\ Goto(t, "get")
  BY DEF PutList, At, broker
<1>2. th[t].op # "none" /\ th[t].op # "close"
  BY <1>1, CallHasOp, CallFacts DEF RestPc, LostPc, Fits, ClosePc, RemovePc
<1>3. SameIds
  BY <1>1 DEF SameIds
<1>4. l \in ListId
  BY <1>2, CallFacts DEF ListId
<1>5. /\ lists' \in [ListId -> ListOf(Channel \cup {Null})]
      /\ deviceMap' \in [DeviceId -> ListId \cup {Null}]
  <2>. HIDE DEF l
  <2>1. <<>> \in ListOf(Channel \cup {Null})
    BY EmptyList
  <2>. QED  BY <1>1, <1>4, <2>1 DEF Control, TypeOK
<1>6. ThreadOK' /\ QuietThreads
  BY <1>1, <1>2, <1>3, GotoFits DEF Pc, CreatePc, UpdatePc, ListPc
<1>. QED  BY <1>1, <1>3, <1>5, <1>6 DEF Control, TypeOK, ThreadOK, Quiet

LEMMA GetListOK ==
  ASSUME Control, NEW t \in Thread, GetList(t)
  PROVE  Control' /\ Quiet
<1>1. th[t].pc = "get" /\ UNCHANGED <<sessionMap, deviceMap, lists, ses, subs, sts, log>>
  BY DEF GetList, At, directory, broker
<1>2. th[t].op # "none" /\ th[t].op # "close"
  BY <1>1, CallHasOp, CallFacts DEF RestPc, LostPc, Fits, ClosePc, RemovePc
<1>3. SameIds
  BY <1>1 DEF SameIds
<1>4. ThreadOK' /\ QuietThreads
  <2>1. CASE deviceMap[th[t].dev] = Null
    BY <1>1, <1>2, <1>3, <2>1, ThrowOK DEF GetList
  <2>2. CASE deviceMap[th[t].dev] # Null
    <3> DEFINE f == [th[t] EXCEPT !.pc = "addRead", !.lst = deviceMap[th[t].dev]]
    <3>1. deviceMap[th[t].dev] \in ListId
      BY <1>2, <2>2, CallFacts DEF Control, TypeOK
    <3>2. f \in Frames /\ f.op = th[t].op /\ f.cur = th[t].cur
      BY <1>2, <3>1, CallFacts, ZenonT(30) DEF Frames, Pc
    <3>3. Fits(t, f)
      BY <1>1, <1>2, <3>1, CallFacts DEF Fits, Frames, CreatePc, UpdatePc
    <3>. QED  BY <1>1, <1>2, <1>3, <2>2, <3>2, <3>3, GotoWithOK DEF GetList
  <2>. QED  BY <2>1, <2>2
<1>. QED  BY <1>1, <1>3, <1>4 DEF Control, TypeOK, ThreadOK, Quiet

LEMMA AddReadOK ==
  ASSUME Control, NEW t \in Thread, AddRead(t)
  PROVE  Control' /\ Quiet
<1> DEFINE f == [th[t] EXCEPT !.pc = "addStore", !.idx = Size(lists[th[t].lst])]
<1>1. /\ th[t].pc = "addRead" /\ UNCHANGED <<sessionMap, deviceMap, lists, ses, subs, sts, log>>
      /\ GotoWith(t, f)
  BY DEF AddRead, At, directory, broker
<1>2. th[t].op # "none" /\ th[t].op # "close"
  BY <1>1, CallHasOp, CallFacts DEF RestPc, LostPc, Fits, ClosePc, RemovePc
<1>3. SameIds
  BY <1>1 DEF SameIds
<1>4. th[t].lst \in ListId
  BY <1>1, <1>2, CallFacts DEF Fits, ListPc
<1>5. Size(lists[th[t].lst]) \in Int
  BY <1>4, SizeType DEF Control, TypeOK
<1>6. f \in Frames /\ f.op = th[t].op /\ f.cur = th[t].cur
  BY <1>2, <1>5, CallFacts, ZenonT(30) DEF Frames, Pc
<1>7. Fits(t, f)
  BY <1>1, <1>2, <1>4, CallFacts DEF Fits, Frames, CreatePc, UpdatePc
<1>8. ThreadOK' /\ QuietThreads
  BY <1>1, <1>2, <1>3, <1>6, <1>7, GotoWithOK
<1>. QED  BY <1>1, <1>3, <1>8 DEF Control, TypeOK, ThreadOK, Quiet

LEMMA AddStoreOK ==
  ASSUME Control, NEW t \in Thread, AddStore(t)
  PROVE  Control' /\ Quiet
<1>1. /\ th[t].pc = "addStore" /\ UNCHANGED <<sessionMap, deviceMap, ses, subs, sts, log>>
      /\ lists' = [lists EXCEPT ![th[t].lst] = StoreAt(@, th[t].idx, th[t].cur)]
  BY DEF AddStore, At, broker
<1>2. th[t].op # "none" /\ th[t].op # "close"
  BY <1>1, CallHasOp, CallFacts DEF RestPc, LostPc, Fits, ClosePc, RemovePc
<1>3. SameIds
  BY <1>1 DEF SameIds
<1>4. th[t].lst \in ListId /\ th[t].idx \in Int /\ th[t].cur \in Channel
  BY <1>1, <1>2, CallFacts DEF Fits, ListPc, Frames
<1>5. lists' \in [ListId -> ListOf(Channel \cup {Null})]
  BY <1>1, <1>4, StoreAtList DEF Control, TypeOK
<1>6. ThreadOK' /\ QuietThreads
  <2>1. CASE th[t].idx < 0
    <3>1. Throw(t)
      BY <2>1 DEF AddStore
    <3>. QED  BY <1>1, <1>2, <1>3, <3>1, ThrowOK
  <2>2. CASE ~(th[t].idx < 0)
    <3>1. PICK p \in {"subscribe", "unsubscribe"} : Goto(t, p)
      BY <2>2 DEF AddStore
    <3>. QED  BY <1>1, <1>2, <1>3, <3>1, GotoFits DEF Pc, CreatePc, UpdatePc, ListPc
  <2>. QED  BY <2>1, <2>2
<1>. QED  BY <1>1, <1>3, <1>5, <1>6 DEF Control, TypeOK, ThreadOK, Quiet

\* A call of an MQTT client: it returns or it throws.
LEMMA MqttThrowsOK ==
  ASSUME Control, NEW t \in Thread, th[t].op # "none", MqttThrows(t),
         UNCHANGED sessionMap, SameIds
  PROVE  ThreadOK' /\ QuietThreads
<1>1. failed' \in SUBSET Channel /\ Abandon(t)
  BY CallFacts DEF MqttThrows, Control, TypeOK
<1>. QED  BY <1>1, AbandonOK

LEMMA UnsubscribeOK ==
  ASSUME Control, NEW t \in Thread, Unsubscribe(t)
  PROVE  Control' /\ Quiet
<1>1. th[t].pc = "unsubscribe" /\ UNCHANGED <<sessionMap, deviceMap, lists, sts, log>>
  BY DEF Unsubscribe, At, directory, broker
<1>2. th[t].op # "none" /\ th[t].op # "close"
  BY <1>1, CallHasOp, CallFacts DEF RestPc, LostPc, Fits, ClosePc, RemovePc
<1>3. t \in Channel /\ ses[t].deviceId \in DeviceId
  BY <1>2, CallFacts DEF Fits, Control, ChanOK
<1>4. ses' = [ses EXCEPT ![t].ctl = ses[t].deviceId] /\ subs' \in SUBSET DeviceId
  BY DEF Unsubscribe, Control, TypeOK
<1>5. ses' \in [Channel -> SessionFields] /\ SameIds
  BY <1>3, <1>4, ZenonT(30) DEF Control, TypeOK, SessionFields, SameIds
<1>6. ThreadOK' /\ QuietThreads
  <2>1. CASE Goto(t, "subscribe")
    BY <1>1, <1>2, <1>5, <2>1, GotoFits DEF Pc, CreatePc, UpdatePc, ListPc
  <2>2. CASE MqttThrows(t)
    BY <1>1, <1>2, <1>5, <2>2, MqttThrowsOK
  <2>. QED  BY <2>1, <2>2 DEF Unsubscribe
<1>. QED  BY <1>1, <1>4, <1>5, <1>6 DEF Control, TypeOK, ThreadOK, Quiet

LEMMA SubscribeOK ==
  ASSUME Control, NEW t \in Thread, Subscribe(t)
  PROVE  Control' /\ Quiet
<1>1. th[t].pc = "subscribe" /\ UNCHANGED <<sessionMap, deviceMap, lists, ses, sts, log>>
  BY DEF Subscribe, At, directory, broker
<1>2. th[t].op # "none" /\ th[t].op # "close"
  BY <1>1, CallHasOp, CallFacts DEF RestPc, LostPc, Fits, ClosePc, RemovePc
<1>3. t \in Channel /\ ses[t].deviceId \in DeviceId
  BY <1>2, CallFacts DEF Fits, Control, ChanOK
<1>4. subs' \in SUBSET DeviceId /\ SameIds
  BY <1>1, <1>3 DEF Subscribe, Control, TypeOK, SameIds
<1>5. ThreadOK' /\ QuietThreads
  <2>1. ASSUME NEW p \in {"setController", "readCount"}, Goto(t, p)
        PROVE  ThreadOK' /\ QuietThreads
    BY <1>1, <1>2, <1>4, <2>1, GotoFits DEF Pc, CreatePc, UpdatePc, ListPc
  <2>2. CASE MqttThrows(t)
    BY <1>1, <1>2, <1>4, <2>2, MqttThrowsOK
  <2>. QED  BY <2>1, <2>2 DEF Subscribe
<1>. QED  BY <1>1, <1>4, <1>5 DEF Control, TypeOK, ThreadOK, Quiet

LEMMA SetControllerOK ==
  ASSUME Control, NEW t \in Thread, SetController(t)
  PROVE  Control' /\ Quiet
<1>1. th[t].pc = "setController" /\ UNCHANGED <<sessionMap, deviceMap, lists, subs, sts, log>>
  BY DEF SetController, At, directory, broker
<1>2. th[t].op # "none" /\ th[t].op # "close"
  BY <1>1, CallHasOp, CallFacts DEF RestPc, LostPc, Fits, ClosePc, RemovePc
<1>3. t \in Channel /\ ses[t].deviceId \in DeviceId
  BY <1>2, CallFacts DEF Fits, Control, ChanOK
<1>4. ses' = [ses EXCEPT ![t].ctl = ses[t].deviceId] /\ Goto(t, "setDevice")
  BY DEF SetController
<1>5. ses' \in [Channel -> SessionFields] /\ SameIds
  BY <1>3, <1>4, ZenonT(30) DEF Control, TypeOK, SessionFields, SameIds
<1>6. ThreadOK' /\ QuietThreads
  BY <1>1, <1>2, <1>4, <1>5, GotoFits DEF Pc, CreatePc, UpdatePc, ListPc
<1>. QED  BY <1>1, <1>5, <1>6 DEF Control, TypeOK, ThreadOK, Quiet

LEMMA SetDeviceOK ==
  ASSUME Control, NEW t \in Thread, SetDevice(t)
  PROVE  Control' /\ Quiet
<1>1. th[t].pc = "setDevice" /\ UNCHANGED <<sessionMap, deviceMap, lists, subs, sts, log>>
  BY DEF SetDevice, At, directory, broker
<1>2. th[t].op # "none" /\ th[t].op # "close"
  BY <1>1, CallHasOp, CallFacts DEF RestPc, LostPc, Fits, ClosePc, RemovePc
<1>3. t \in Channel /\ ses[t].deviceId \in DeviceId
  BY <1>2, CallFacts DEF Fits, Control, ChanOK
<1>4. ses' = [ses EXCEPT ![t].proxied = TRUE] /\ Goto(t, "readCount")
  BY DEF SetDevice
<1>5. ses' \in [Channel -> SessionFields] /\ SameIds
  BY <1>3, <1>4, ZenonT(30) DEF Control, TypeOK, SessionFields, SameIds
<1>6. ThreadOK' /\ QuietThreads
  BY <1>1, <1>2, <1>4, <1>5, GotoFits DEF Pc, CreatePc, UpdatePc, ListPc
<1>. QED  BY <1>1, <1>5, <1>6 DEF Control, TypeOK, ThreadOK, Quiet

LEMMA CloseUnsubOK ==
  ASSUME Control, NEW t \in Thread, CloseUnsub(t)
  PROVE  Control' /\ Quiet
<1>1. /\ th[t].pc = "closeUnsub" /\ UNCHANGED <<sessionMap, deviceMap, lists, ses, sts, log>>
      /\ subs' \in SUBSET subs
  BY DEF CloseUnsub, At, directory
<1>2. th[t].op = "close"
  BY <1>1, CallHasOp, CallFacts DEF RestPc, LostPc, Fits, CreatePc, UpdatePc, RemovePc
<1>3. SameIds
  BY <1>1 DEF SameIds
<1>4. ThreadOK' /\ QuietThreads
  <2>1. CASE Goto(t, "readCount")
    BY <1>1, <1>2, <1>3, <2>1, GotoFits DEF Pc, ClosePc, ListPc
  <2>2. CASE MqttThrows(t)
    BY <1>1, <1>2, <1>3, <2>2, MqttThrowsOK
  <2>. QED  BY <2>1, <2>2 DEF CloseUnsub
<1>. QED  BY <1>1, <1>3, <1>4 DEF Control, TypeOK, ThreadOK, Quiet

LEMMA ReadCountOK ==
  ASSUME Control, CloseOK, NEW t \in Thread, ReadCount(t)
  PROVE  Control' /\ Quiet
<1> DEFINE l == deviceMap[ses[th[t].cur].deviceId]
           n == IF l = Null THEN 0 ELSE Size(lists[l])
           f == [th[t] EXCEPT !.pc = "publish", !.cnt = n]
<1>1. /\ th[t].pc = "readCount" /\ UNCHANGED <<sessionMap, deviceMap, lists, ses, subs, sts, log>>
      /\ GotoWith(t, f)
  BY DEF ReadCount, At, directory, broker
<1>2. th[t].op # "none"
  BY <1>1, CallHasOp DEF RestPc, LostPc
<1>3. SameIds
  BY <1>1 DEF SameIds
<1>4. n \in Int
  <2>1. ses[th[t].cur].deviceId \in DeviceId
    BY <1>2, CallerIsOpenOrClosing
  <2>2. l # Null => lists[l] \in ListOf(Channel \cup {Null})
    BY <2>1 DEF Control, TypeOK
  <2>. QED  BY <2>2, SizeType
<1>5. f \in Frames /\ f.op = th[t].op /\ f.cur = th[t].cur
  BY <1>2, <1>4, CallFacts, ZenonT(30) DEF Frames, Pc
<1>6. Fits(t, f)
  BY <1>1, <1>2, CallFacts DEF Fits, Frames, CreatePc, UpdatePc, ClosePc, ListPc
<1>7. ThreadOK' /\ QuietThreads
  BY <1>1, <1>2, <1>3, <1>5, <1>6, GotoWithOK
<1>. QED  BY <1>1, <1>3, <1>7 DEF Control, TypeOK, ThreadOK, Quiet

-----------------------------------------------------------------------------
(* Announcing.                                                             *)

LEMMA LogType ==
  ASSUME TypeOK, NEW c \in Channel
  PROVE  log[c] \in Seq(Event) /\ Len(log[c]) \in Nat
BY DEF TypeOK

LEMMA QuietKeeps ==
  ASSUME Inv, Quiet, Control'
  PROVE  Announce'
<1>. USE DEF Inv, Announce, Quiet
<1>1. LiveSession'
  BY DEF LiveSession, QuietThreads
<1>2. CloseOK'
  <2> SUFFICES ASSUME NEW t \in Thread, th'[t].op = "close"
               PROVE  /\ th'[t].cur \notin sessionMap
                      /\ chan'[th'[t].cur] = "closed"
                      /\ NoOff(th'[t].cur)
                      /\ \A u \in Thread : th'[u].op = "close" /\ th'[u].cur = th'[t].cur => u = t
    BY DEF CloseOK, NoOff
  <2>1. th[t].op = "close" /\ th'[t].cur = th[t].cur
    BY DEF QuietThreads
  <2>2. th[t].cur \in Channel
    BY <2>1, CallFacts
  <2>. QED  BY <2>1, <2>2 DEF CloseOK, QuietThreads
<1>3. OffIsLast'
  BY DEF OffIsLast, QuietThreads, SameIds
<1>. QED  BY <1>1, <1>2, <1>3

LEMMA PublishOK ==
  ASSUME Inv, NEW t \in Thread, Publish(t)
  PROVE  Inv'
<1> DEFINE s == th[t].cur
           e == [event |-> IF th[t].op = "close" THEN "off" ELSE "on",
                 dev |-> ses[s].deviceId, count |-> th[t].cnt]
<1>1. /\ th[t].pc = "publish" /\ UNCHANGED <<sessionMap, deviceMap, lists, ses, subs>>
      /\ \/ /\ sts' = [sts EXCEPT ![e.dev] = e]
            /\ log' = [log EXCEPT ![s] = Append(@, e)]
            /\ Return(t) \/ MqttThrows(t)
         \/ UNCHANGED <<sts, log>> /\ MqttThrows(t)
  BY DEF Publish, At, directory
<1>2. th[t].op # "none"
  BY <1>1, CallHasOp DEF RestPc, LostPc, Inv
<1>3. SameIds
  BY <1>1 DEF SameIds
<1>4. ThreadOK' /\ QuietThreads
  BY <1>1, <1>2, <1>3, ReturnOK, MqttThrowsOK DEF Inv
<1>5. /\ s \in Channel /\ (t \in Channel => s = t)
      /\ ses[s].deviceId \in DeviceId /\ th[t].cnt \in Int
  BY <1>2, CallerIsOpenOrClosing, CallFacts DEF Inv, Announce, Frames
<1>6. e \in Event
  BY <1>5 DEF Event
<1>7. Control'
  <2>1. sts' \in [DeviceId -> Event \cup {Null}] /\ log' \in [Channel -> Seq(Event)]
    <3>1. e.dev \in DeviceId
      BY <1>5
    <3>2. Append(log[s], e) \in Seq(Event)
      BY <1>5, <1>6, LogType DEF Inv, Control
    <3>3. sts \in [DeviceId -> Event \cup {Null}] /\ log \in [Channel -> Seq(Event)]
      BY DEF Inv, Control, TypeOK
    <3>. HIDE DEF e, s
    <3>4. sts' = [sts EXCEPT ![e.dev] = e] \/ sts' = sts
      BY <1>1
    <3>5. log' = [log EXCEPT ![s] = Append(log[s], e)] \/ log' = log
      BY <1>1
    <3>. QED  BY <1>5, <1>6, <3>1, <3>2, <3>3, <3>4, <3>5
  <2>. QED  BY <1>1, <1>4, <2>1 DEF Inv, Control, TypeOK, ThreadOK
<1>8. CASE UNCHANGED log
  BY <1>1, <1>3, <1>4, <1>7, <1>8, QuietKeeps DEF Quiet, Inv
<1>9. CASE log' = [log EXCEPT ![s] = Append(@, e)] /\ (Return(t) \/ MqttThrows(t))
  <2>1. th'[t].op = "none"
    <3>1. th \in [Thread -> Frames]
      BY DEF Inv, Control, TypeOK
    <3>. QED  BY <1>9, <3>1 DEF Return, GotoWith, MqttThrows, Abandon, Frame
  <2>2. log[s] \in Seq(Event) /\ log'[s] = Append(log[s], e)
        /\ \A c \in Channel : c # s => log'[c] = log[c]
    BY <1>5, <1>9, LogType DEF Inv, Control, TypeOK
  <2>3. /\ Len(log'[s]) = Len(log[s]) + 1
        /\ log'[s][Len(log[s]) + 1] = e
        /\ \A i \in 1..Len(log[s]) : log'[s][i] = log[s][i]
    <3>. HIDE DEF e, s
    <3>. QED  BY <1>6, <2>2
  <2>4. \/ th[t].op = "close" /\ e.event = "off" /\ chan[s] = "closed" /\ s \notin sessionMap
        \/ th[t].op # "close" /\ e.event = "on" /\ chan[s] = "open"
    <3>1. CASE th[t].op = "close"
      BY <3>1 DEF Inv, Announce, CloseOK
    <3>2. CASE th[t].op # "close"
      BY <1>2, <1>5, <3>2, CallFacts DEF Inv, Control, ChanOK, Fits
    <3>. QED  BY <3>1, <3>2
  <2>5. NoOff(s)
    BY <1>5, <2>4 DEF Inv, Announce, CloseOK, OffIsLast, NoOff
  <2>. HIDE DEF s
  <2>6. LiveSession'
    BY <1>1, <1>4 DEF Inv, Announce, LiveSession, QuietThreads
  <2>7. CloseOK'
    <3> SUFFICES ASSUME NEW u \in Thread, th'[u].op = "close"
                 PROVE  /\ th'[u].cur \notin sessionMap
                        /\ chan'[th'[u].cur] = "closed"
                        /\ \A i \in 1..Len(log'[th'[u].cur]) : log'[th'[u].cur][i].event # "off"
                        /\ \A v \in Thread : th'[v].op = "close" /\ th'[v].cur = th'[u].cur => v = u
      BY <1>1 DEF CloseOK, NoOff
    <3>1. th[u].op = "close" /\ th'[u].cur = th[u].cur /\ u # t
      BY <1>4, <2>1 DEF QuietThreads
    <3>2. th[u].cur \in Channel
      BY <3>1, CallFacts DEF Inv
    <3>3. /\ th[u].cur \notin sessionMap /\ chan[th[u].cur] = "closed" /\ NoOff(th[u].cur)
          /\ \A v \in Thread : th[v].op = "close" /\ th[v].cur = th[u].cur => v = u
      BY <3>1 DEF Inv, Announce, CloseOK
    <3>4. th[u].cur # s
      BY <2>4, <3>1, <3>3 DEF s
    <3>. QED  BY <1>4, <2>2, <3>1, <3>2, <3>3, <3>4 DEF QuietThreads, NoOff
  <2>8. OffIsLast'
    <3> SUFFICES ASSUME NEW c \in Channel, NEW i \in 1..Len(log'[c]), log'[c][i].event = "off"
                 PROVE  /\ i = Len(log'[c])
                        /\ log'[c][i].dev = ses'[c].deviceId
                        /\ chan'[c] = "closed" /\ c \notin sessionMap'
      BY DEF OffIsLast
    <3>1. CASE c # s
      BY <1>1, <1>4, <2>2, <3>1 DEF Inv, Announce, OffIsLast, QuietThreads
    <3>2. CASE c = s
      <4>1. i \notin 1..Len(log[s])
        BY <2>3, <2>5, <3>2 DEF NoOff
      <4>2. i = Len(log[s]) + 1 /\ log'[s][i] = e
        BY <2>2, <2>3, <3>2, <4>1
      <4>3. e.event = "off" /\ e.dev = ses[s].deviceId
        BY <3>2, <4>2
      <4>4. chan[s] = "closed" /\ s \notin sessionMap
        BY <2>4, <4>3
      <4>5. chan'[s] = "closed" /\ sessionMap' = sessionMap /\ ses' = ses
        BY <1>1, <1>4, <1>5, <4>4 DEF QuietThreads
      <4>. HIDE DEF e, s
      <4>. QED  BY <2>3, <3>2, <4>2, <4>3, <4>4, <4>5
    <3>. QED  BY <3>1, <3>2
  <2>. QED  BY <1>7, <2>6, <2>7, <2>8 DEF Inv, Announce
<1>. QED  BY <1>1, <1>7, <1>8, <1>9 DEF Inv

-----------------------------------------------------------------------------
(* The handlers.                                                           *)

LEMMA ConnectOK ==
  ASSUME Inv, NEW c \in Channel, Connect(c)
  PROVE  Inv'
<1> DEFINE f == Frame("contains", "create", c, AddrId[c])
<1>. USE DEF Inv, Announce
<1>1. /\ th[c].pc = "new"
      /\ chan' = [chan EXCEPT ![c] = "open"]
      /\ sessionMap' = sessionMap \cup {c}
      /\ ses' = [ses EXCEPT ![c].deviceId = AddrId[c]]
      /\ th' = [th EXCEPT ![c] = f]
      /\ UNCHANGED <<deviceMap, lists, subs, sts, log, todo, failed>>
  BY DEF Connect, At, broker
<1>2. c \in Thread /\ c # LostTask /\ AddrId[c] \in DeviceId
  BY ThreadAssumption, AddressAssumption DEF Thread
<1>3. f \in Frames /\ Fits(c, f) /\ f.op = "create" /\ f.pc = "contains"
  BY <1>2, ThreadAssumption DEF Frame, Frames, Fits, Op, Pc, CreatePc, ListPc
<1>. HIDE DEF f
<1>4. chan[c] = "new" /\ chan'[c] = "open" /\ ses'[c].deviceId = AddrId[c]
      /\ \A d \in Channel : d # c => chan'[d] = chan[d] /\ ses'[d] = ses[d]
  BY <1>1 DEF Control, TypeOK, ChanOK, SessionFields
<1>5. th'[c] = f /\ \A u \in Thread : u # c => th'[u] = th[u]
  BY <1>1, <1>2 DEF Control, TypeOK
<1>6. TypeOK'
  BY <1>1, <1>2, <1>3 DEF Control, TypeOK, SessionFields
<1>7. FrameOK'
  BY <1>3, <1>5 DEF Control, FrameOK, Fits
<1>8. ChanOK'
  <2> SUFFICES ASSUME NEW d \in Channel
               PROVE  /\ chan'[d] = "new" <=> th'[d].pc = "new"
                      /\ chan'[d] = "open" <=> \/ th'[d].op \in {"create", "update"}
                                               \/ th'[d].pc \in {"idle", "registered"}
                      /\ chan'[d] # "new" => ses'[d].deviceId \in DeviceId
                      /\ d \in sessionMap' => chan'[d] # "new"
                      /\ d \in todo' => chan'[d] = "closed"
    BY DEF ChanOK
  <2>1. CASE d = c
    BY <1>1, <1>2, <1>3, <1>4, <1>5, <2>1 DEF Control, ChanOK
  <2>2. CASE d # c
    BY <1>1, <1>4, <1>5, <2>2 DEF Control, ChanOK, Thread
  <2>. QED  BY <2>1, <2>2
<1>9. LiveSession'
  BY <1>1, <1>4 DEF LiveSession
<1>10. CloseOK'
  <2> SUFFICES ASSUME NEW t \in Thread, th'[t].op = "close"
               PROVE  /\ th'[t].cur \notin sessionMap'
                      /\ chan'[th'[t].cur] = "closed"
                      /\ NoOff(th'[t].cur)
                      /\ \A u \in Thread : th'[u].op = "close" /\ th'[u].cur = th'[t].cur => u = t
    BY <1>1 DEF CloseOK, NoOff
  <2>1. t # c /\ th'[t] = th[t] /\ \A u \in Thread : th'[u].op = "close" => th'[u] = th[u]
    BY <1>3, <1>5
  <2>2. th[t].cur \in Channel
    BY <2>1, CallFacts
  <2>3. th[t].cur # c
    BY <1>4, <2>1 DEF CloseOK
  <2>. QED  BY <1>1, <1>4, <2>1, <2>2, <2>3 DEF CloseOK
<1>11. OffIsLast'
  BY <1>1, <1>4 DEF OffIsLast
<1>. QED  BY <1>6, <1>7, <1>8, <1>9, <1>10, <1>11 DEF Control

LEMMA RegisterOK ==
  ASSUME Inv, NEW c \in Channel, Register(c)
  PROVE  Inv'
<1> DEFINE f == Frame("listGet", "update", c, ses[c].deviceId)
<1>. USE DEF Inv, Announce
<1>1. PICK d \in TokenIds[c] :
        /\ th[c].pc = "idle"
        /\ ses' = [ses EXCEPT ![c].deviceId = d]
        /\ th' = [th EXCEPT ![c] = f]
        /\ UNCHANGED <<chan, sessionMap, deviceMap, lists, subs, sts, log, todo, failed>>
  BY DEF Register, At, GotoWith, directory, broker
<1>2. c \in Thread /\ c # LostTask /\ d \in DeviceId
  BY ThreadAssumption, AddressAssumption DEF Thread
<1>3. chan[c] = "open" /\ ses[c].deviceId \in DeviceId
  BY <1>1 DEF Control, ChanOK
<1>4. f \in Frames /\ Fits(c, f) /\ f.op = "update" /\ f.pc = "listGet"
  BY <1>2, <1>3, ThreadAssumption
  DEF Frame, Frames, Fits, Op, Pc, UpdatePc, RemovePc, ListPc
<1>. HIDE DEF f
<1>5. th'[c] = f /\ \A u \in Thread : u # c => th'[u] = th[u]
  BY <1>1, <1>2 DEF Control, TypeOK
<1>6. ses'[c].deviceId = d /\ \A e \in Channel : e # c => ses'[e] = ses[e]
  BY <1>1 DEF Control, TypeOK, SessionFields
<1>7. TypeOK'
  BY <1>1, <1>2, <1>4 DEF Control, TypeOK, SessionFields
<1>8. FrameOK'
  BY <1>4, <1>5 DEF Control, FrameOK, Fits
<1>9. ChanOK'
  <2> SUFFICES ASSUME NEW e \in Channel
               PROVE  /\ chan[e] = "new" <=> th'[e].pc = "new"
                      /\ chan[e] = "open" <=> \/ th'[e].op \in {"create", "update"}
                                              \/ th'[e].pc \in {"idle", "registered"}
                      /\ chan[e] # "new" => ses'[e].deviceId \in DeviceId
    BY <1>1 DEF ChanOK, Control
  <2>1. CASE e = c
    BY <1>2, <1>3, <1>4, <1>5, <1>6, <2>1
  <2>2. CASE e # c
    BY <1>5, <1>6, <2>2 DEF Control, ChanOK, Thread
  <2>. QED  BY <2>1, <2>2
<1>10. LiveSession'
  BY <1>1 DEF LiveSession
<1>11. CloseOK'
  <2>1. \A u \in Thread : th'[u].op = "close" => th'[u] = th[u]
    BY <1>4, <1>5
  <2>. QED  BY <1>1, <2>1 DEF CloseOK, NoOff
<1>12. OffIsLast'
  BY <1>1, <1>3, <1>6 DEF OffIsLast
<1>. QED  BY <1>7, <1>8, <1>9, <1>10, <1>11, <1>12 DEF Control

LEMMA DisconnectOK ==
  ASSUME Inv, NEW c \in Channel, Disconnect(c)
  PROVE  Inv'
<1>. USE DEF Inv, Announce
<1> DEFINE f == [th[c] EXCEPT !.pc = "inactive"]
<1>1. /\ th[c].pc \in {"idle", "registered"}
      /\ chan' = [chan EXCEPT ![c] = "closed"]
      /\ th' = [th EXCEPT ![c] = f]
      /\ UNCHANGED <<sessionMap, deviceMap, lists, ses, subs, sts, log, todo, failed>>
  BY DEF Disconnect, directory, broker
<1>2. c \in Thread /\ c # LostTask /\ th[c] \in Frames /\ Fits(c, th[c])
  BY ThreadAssumption DEF Thread, Control, TypeOK, FrameOK
<1>3. th[c].op = "none" /\ chan[c] = "open"
  BY <1>1, <1>2, CallPc DEF Control, ChanOK, RestPc
<1>4. f \in Frames /\ f.op = "none" /\ f.pc = "inactive" /\ Fits(c, f)
  BY <1>2, <1>3 DEF Frames, Fits, Pc, RestPc, ListPc
<1>. HIDE DEF f
<1>5. th'[c] = f /\ \A u \in Thread : u # c => th'[u] = th[u]
  BY <1>1, <1>2 DEF Control, TypeOK
<1>6. chan'[c] = "closed" /\ \A d \in Channel : d # c => chan'[d] = chan[d]
  BY <1>1 DEF Control, TypeOK
<1>7. TypeOK'
  BY <1>1, <1>2, <1>4 DEF Control, TypeOK
<1>8. FrameOK'
  BY <1>4, <1>5 DEF Control, FrameOK, Fits
<1>9. ChanOK'
  <2> SUFFICES ASSUME NEW d \in Channel
               PROVE  /\ chan'[d] = "new" <=> th'[d].pc = "new"
                      /\ chan'[d] = "open" <=> \/ th'[d].op \in {"create", "update"}
                                               \/ th'[d].pc \in {"idle", "registered"}
                      /\ chan'[d] # "new" => ses[d].deviceId \in DeviceId
                      /\ d \in sessionMap => chan'[d] # "new"
                      /\ d \in todo => chan'[d] = "closed"
    BY <1>1 DEF ChanOK
  <2>1. CASE d = c
    BY <1>2, <1>3, <1>4, <1>5, <1>6, <2>1 DEF Control, ChanOK
  <2>2. CASE d # c
    BY <1>5, <1>6, <2>2 DEF Control, ChanOK, Thread
  <2>. QED  BY <2>1, <2>2
<1>10. Quiet
  <2>1. \A u \in Thread : th'[u].op = "close" => th'[u] = th[u]
    BY <1>4, <1>5
  <2>. QED  BY <1>1, <1>3, <1>6, <2>1 DEF Quiet, QuietThreads, SameIds
<1>. QED  BY <1>7, <1>8, <1>9, <1>10, QuietKeeps DEF Control

\* closeSession of an inactive session, by the thread of its channel or by the
\* LostTask thread: only one of them finds the session in the map.
LEMMA CloseSessionOK ==
  ASSUME Inv, NEW t \in Thread, NEW s \in Channel, CloseSession(t, s),
         th[t].op = "none", chan[s] = "closed", todo' \in SUBSET todo,
         t \in Channel => s = t /\ th[t].pc = "inactive",
         t = LostTask => th[t].pc = "next"
  PROVE  Inv'
<1>. USE DEF Inv, Announce
<1> DEFINE f == Frame("listGet", "close", s, ses[s].deviceId)
           g == Frame(IF t = LostTask THEN "scan" ELSE "done", "none", Null, Null)
<1>1. /\ sessionMap' = sessionMap \ {s}
      /\ UNCHANGED <<chan, deviceMap, lists, ses, subs, sts, log, failed>>
      /\ \/ s \in sessionMap /\ th' = [th EXCEPT ![t] = f]
         \/ th' = [th EXCEPT ![t] = g]
  BY DEF CloseSession, broker
<1>2. ses[s].deviceId \in DeviceId
  BY DEF Control, ChanOK
<1>3. /\ f \in Frames /\ Fits(t, f)
      /\ f.op = "close" /\ f.cur = s /\ f.pc = "listGet"
  BY <1>2, ThreadAssumption
  DEF Frame, Frames, Fits, Op, Pc, ClosePc, RemovePc, ListPc
<1>4. /\ g \in Frames /\ Fits(t, g)
      /\ g.op = "none" /\ g.pc \in {"scan", "done"}
  BY ThreadAssumption DEF Frame, Frames, Fits, Op, Pc, RestPc, LostPc, ListPc, Thread
<1>. HIDE DEF f, g
<1>5. PICK h \in {f, g} : /\ th' = [th EXCEPT ![t] = h]
                          /\ h = f => s \in sessionMap
  <2>1. f # g
    BY <1>3, <1>4
  <2>. QED  BY <1>1, <2>1
<1>6. th'[t] = h /\ \A u \in Thread : u # t => th'[u] = th[u]
  <2>1. th \in [Thread -> Frames]
    BY DEF Control, TypeOK
  <2>2. th' = [th EXCEPT ![t] = h]
    BY <1>5
  <2>. QED  BY <2>1, <2>2
<1>7. TypeOK'
  BY <1>1, <1>3, <1>4, <1>5 DEF Control, TypeOK
<1>8. FrameOK'
  BY <1>3, <1>4, <1>6 DEF Control, FrameOK, Fits
<1>9. ChanOK'
  <2> SUFFICES ASSUME NEW d \in Channel
               PROVE  /\ chan[d] = "new" <=> th'[d].pc = "new"
                      /\ chan[d] = "open" <=> \/ th'[d].op \in {"create", "update"}
                                              \/ th'[d].pc \in {"idle", "registered"}
    BY <1>1 DEF ChanOK, Control
  <2>1. CASE d = t
    BY <1>3, <1>4, <1>5, <1>6, <2>1
  <2>2. CASE d # t
    BY <1>6, <2>2 DEF Control, ChanOK, Thread
  <2>. QED  BY <2>1, <2>2
<1>10. LiveSession'
  BY <1>1 DEF LiveSession
<1>11. CloseOK'
  <2> SUFFICES ASSUME NEW u \in Thread, th'[u].op = "close"
               PROVE  /\ th'[u].cur \notin sessionMap'
                      /\ chan[th'[u].cur] = "closed"
                      /\ NoOff(th'[u].cur)
                      /\ \A v \in Thread : th'[v].op = "close" /\ th'[v].cur = th'[u].cur => v = u
    BY <1>1 DEF CloseOK, NoOff
  <2>1. CASE u = t
    <3>0. h # g
      BY <1>4, <1>6, <2>1
    <3>1. h = f /\ th'[u].cur = s /\ s \in sessionMap
      BY <1>3, <1>5, <1>6, <2>1, <3>0
    <3>2. NoOff(s)
      BY <3>1 DEF OffIsLast, NoOff
    <3>3. \A v \in Thread : th[v].op = "close" => th[v].cur # s
      BY <3>1 DEF CloseOK
    <3>. QED  BY <1>1, <1>6, <2>1, <3>1, <3>2, <3>3
  <2>2. CASE u # t
    <3>1. th'[u] = th[u] /\ th[u].cur \notin sessionMap /\ chan[th[u].cur] = "closed"
          /\ NoOff(th[u].cur)
      BY <1>6, <2>2 DEF CloseOK
    <3>2. ASSUME NEW v \in Thread, th'[v].op = "close", th'[v].cur = th[u].cur PROVE v = u
      <4>1. CASE v = t
        <5>1. h # g
          BY <1>4, <1>6, <3>2, <4>1
        <5>2. h = f /\ th'[v].cur = s /\ s \in sessionMap
          BY <1>3, <1>5, <1>6, <4>1, <5>1
        <5>. QED  BY <3>1, <3>2, <5>2
      <4>2. CASE v # t
        BY <1>6, <2>2, <3>1, <3>2, <4>2 DEF CloseOK
      <4>. QED  BY <4>1, <4>2
    <3>. QED  BY <1>1, <3>1, <3>2
  <2>. QED  BY <2>1, <2>2
<1>12. OffIsLast'
  BY <1>1 DEF OffIsLast
<1>. QED  BY <1>7, <1>8, <1>9, <1>10, <1>11, <1>12 DEF Control

LEMMA ChannelInactiveOK ==
  ASSUME Inv, NEW c \in Channel, ChannelInactive(c)
  PROVE  Inv'
<1>1. th[c].pc = "inactive" /\ CloseSession(c, c) /\ todo' = todo
  BY DEF ChannelInactive, At
<1>2. c \in Thread /\ c # LostTask /\ th[c] \in Frames /\ Fits(c, th[c])
  BY ThreadAssumption DEF Thread, Inv, Control, TypeOK, FrameOK
<1>3. th[c].op = "none"
  BY <1>1, <1>2, CallPc DEF RestPc
<1>4. chan[c] = "closed"
  BY <1>1, <1>3 DEF Inv, Control, TypeOK, ChanOK
<1>. QED  BY <1>1, <1>2, <1>3, <1>4, CloseSessionOK

LEMMA LostCloseOK ==
  ASSUME Inv, LostClose
  PROVE  Inv'
<1>1. PICK s \in todo : /\ CloseSession(LostTask, s)
                        /\ todo' \in SUBSET todo
  BY DEF LostClose
<1>2. /\ LostTask \in Thread /\ LostTask \notin Channel /\ th[LostTask].pc = "next"
      /\ th[LostTask] \in Frames /\ Fits(LostTask, th[LostTask])
  BY ThreadAssumption DEF LostClose, At, Thread, Inv, Control, TypeOK, FrameOK
<1>3. th[LostTask].op = "none"
  BY <1>2, CallPc DEF LostPc
<1>4. s \in Channel /\ chan[s] = "closed"
  BY DEF Inv, Control, TypeOK, ChanOK
<1>. QED  BY <1>1, <1>2, <1>3, <1>4, CloseSessionOK

LEMMA LostScanOK ==
  ASSUME Inv, LostScan
  PROVE  Inv'
<1>. USE DEF Inv, Announce
<1>1. PICK p \in {"scan", "next"} :
        /\ th[LostTask].pc = "scan" /\ th' = [th EXCEPT ![LostTask].pc = p]
        /\ todo' = {s \in sessionMap : chan[s] # "open"}
        /\ UNCHANGED <<chan, sessionMap, deviceMap, lists, ses, subs, sts, log, failed>>
  BY DEF LostScan, At, directory, broker
<1> DEFINE f == [th[LostTask] EXCEPT !.pc = p]
<1>2. LostTask \in Thread /\ LostTask \notin Channel
      /\ th[LostTask] \in Frames /\ Fits(LostTask, th[LostTask])
  BY ThreadAssumption DEF Thread, Control, TypeOK, FrameOK
<1>3. th[LostTask].op = "none"
  BY <1>1, <1>2, CallPc DEF LostPc
<1>4. f \in Frames /\ f.op = "none" /\ Fits(LostTask, f)
  BY <1>2, <1>3 DEF Frames, Fits, Pc, LostPc, ListPc
<1>. HIDE DEF f
<1>5. th' = [th EXCEPT ![LostTask] = f]
  BY <1>1 DEF f
<1>6. th'[LostTask] = f /\ \A u \in Thread : u # LostTask => th'[u] = th[u]
  BY <1>2, <1>5 DEF Control, TypeOK
<1>7. TypeOK'
  BY <1>1, <1>4, <1>5 DEF Control, TypeOK
<1>8. FrameOK'
  BY <1>4, <1>6 DEF Control, FrameOK, Fits
<1>9. ChanOK'
  <2>1. \A c \in Channel : th'[c] = th[c]
    BY <1>2, <1>6 DEF Thread
  <2>2. \A c \in todo' : chan[c] = "closed"
    BY <1>1 DEF Control, TypeOK, ChanOK
  <2>. QED  BY <1>1, <2>1, <2>2 DEF Control, ChanOK
<1>10. Quiet
  <2>1. \A u \in Thread : th'[u].op = "close" => th'[u] = th[u]
    BY <1>4, <1>6
  <2>. QED  BY <1>1, <2>1 DEF Quiet, QuietThreads, SameIds
<1>. QED  BY <1>7, <1>8, <1>9, <1>10, QuietKeeps DEF Control

-----------------------------------------------------------------------------
(* The theorems.                                                           *)

LEMMA InitInv == Init => Inv
<1>. SUFFICES ASSUME Init PROVE Inv
  OBVIOUS
<1>1. \A t \in Thread :
        /\ th[t].op = "none"
        /\ th[t].pc = IF t = LostTask THEN "scan" ELSE "new"
  <2> SUFFICES ASSUME NEW t \in Thread
               PROVE  /\ th[t].op = "none"
                      /\ th[t].pc = IF t = LostTask THEN "scan" ELSE "new"
    OBVIOUS
  <2> DEFINE p == IF t = LostTask THEN "scan" ELSE "new"
  <2>1. th[t] = Frame(p, "none", Null, Null)
    BY DEF Init
  <2>2. ASSUME NEW q PROVE Frame(q, "none", Null, Null).op = "none"
                          /\ Frame(q, "none", Null, Null).pc = q
    BY DEF Frame
  <2>. QED  BY <2>1, <2>2
<1>2. \A p \in {"scan", "new"} : Frame(p, "none", Null, Null) \in Frames
  BY DEF Frame, Frames, Pc, Op
<1>3. TypeOK
  <2>1. <<>> \in ListOf(Channel \cup {Null})
    BY EmptyList
  <2>. QED  BY <1>2, <2>1, ThreadAssumption DEF Init, TypeOK, SessionFields
<1>4. FrameOK
  <2> SUFFICES ASSUME NEW t \in Thread PROVE Fits(t, th[t])
    BY DEF FrameOK
  <2>. QED  BY <1>1, ThreadAssumption DEF Fits, LostPc, RestPc, ListPc, Thread
<1>5. ChanOK
  BY <1>1, ThreadAssumption DEF Init, ChanOK, Thread
<1>6. Announce
  <2>1. LiveSession
    BY DEF Init, LiveSession
  <2>3. CloseOK
    BY <1>1 DEF CloseOK
  <2>4. OffIsLast
    BY DEF Init, OffIsLast
  <2>. QED  BY <2>1, <2>3, <2>4 DEF Announce
<1>. QED  BY <1>3, <1>4, <1>5, <1>6 DEF Inv, Control

LEMMA StepInv ==
  ASSUME Inv, NEW t \in Thread, Step(t)
  PROVE  Inv'
<1>1. CASE Publish(t)
  BY <1>1, PublishOK
<1>2. CASE ~Publish(t)
  <2>1. Control' /\ Quiet
    BY <1>2, ListGetOK, RemFindOK, RemShiftOK, IsEmptyOK, MapRemoveOK, ContainsKeyOK,
       PutListOK, GetListOK, AddReadOK, AddStoreOK, UnsubscribeOK, SubscribeOK,
       SetControllerOK, SetDeviceOK, CloseUnsubOK, ReadCountOK
    DEF Step, Inv, Announce
  <2>. QED  BY <2>1, QuietKeeps DEF Inv
<1>. QED  BY <1>1, <1>2

LEMMA NextInv == Inv /\ [Next]_vars => Inv'
<1>. SUFFICES ASSUME Inv, [Next]_vars PROVE Inv'
  OBVIOUS
<1>1. ASSUME NEW c \in Channel, Connect(c) PROVE Inv'
  BY <1>1, ConnectOK
<1>2. ASSUME NEW c \in Channel, Register(c) PROVE Inv'
  BY <1>2, RegisterOK
<1>3. ASSUME NEW c \in Channel, Disconnect(c) PROVE Inv'
  BY <1>3, DisconnectOK
<1>4. ASSUME NEW c \in Channel, ChannelInactive(c) PROVE Inv'
  BY <1>4, ChannelInactiveOK
<1>5. CASE LostScan
  BY <1>5, LostScanOK
<1>6. CASE LostClose
  BY <1>6, LostCloseOK
<1>7. ASSUME NEW t \in Thread, Step(t) PROVE Inv'
  BY <1>7, StepInv
<1>8. CASE UNCHANGED vars
  <2>1. TypeOK'
    BY <1>8 DEF vars, Inv, Control, TypeOK
  <2>2. FrameOK' /\ ChanOK'
    BY <1>8 DEF vars, Inv, Control, FrameOK, Fits, ChanOK
  <2>3. Announce'
    BY <1>8 DEF vars, Inv, Announce, LiveSession, CloseOK, NoOff, OffIsLast
  <2>. QED  BY <2>1, <2>2, <2>3 DEF Inv, Control
<1>. QED  BY <1>1, <1>2, <1>3, <1>4, <1>5, <1>6, <1>7, <1>8 DEF Next

\* The inductive invariant holds in every reachable state.
THEOREM Invariance == Spec => []Inv
BY InitInv, NextInv, PTL DEF Spec

\* Whatever the interleaving, every variable keeps its type, and a handler never
\* makes a call without the session, the device id and, where the call is one on
\* a list, the list it needs.  A list may have a negative size: two removals of
\* one element take it there (SessionManager.deviceIdUpdateEvent, closeSession),
\* and then the position add reads and the count published may be negative too.
THEOREM TypeCorrect == Spec => [](TypeOK /\ FrameOK)
<1>1. Inv => TypeOK /\ FrameOK
  BY DEF Inv, Control
<1>. QED  BY <1>1, Invariance, PTL

\* Neither its own handlers nor the LostTask thread ever close the session of a
\* gateway whose channel is active (SessionManager.checkLostTask, closeSession).
THEOREM LiveSessionsAreKept == Spec => []LiveSession
<1>1. Inv => LiveSession
  BY DEF Inv, Announce
<1>. QED  BY <1>1, Invariance, PTL

\* A session is announced off at most once, by one closer, after all that was
\* said of it before, under its last id (closeSession, EventManager.publish).
THEOREM OffIsFinal == Spec => []OffIsLast
<1>1. Inv => OffIsLast
  BY DEF Inv, Announce
<1>. QED  BY <1>1, Invariance, PTL

-----------------------------------------------------------------------------
(***************************************************************************)
(* What the directory promises to gateways that share no device id, however*)
(* many there are and whichever MQTT calls throw: proofs of                *)
(* SettledIsListed and SettledIsSubscribed of SessionManager.              *)
(*                                                                         *)
(* The argument: the keys, lists and topics a handler touches belong to    *)
(* the session it serves (OwnOK), an open session is served by the thread  *)
(* of its channel only (ChanOK and CloseOK), and that thread takes it from *)
(* step to step towards being listed and subscribed (Arrives).             *)
(***************************************************************************)

\* The ids a gateway ever goes by.
Own(c) == TokenIds[c] \cup {AddrId[c]}

\* Every handler works with ids and lists of the session it serves, and the
\* list of a device is one that a session with that id has made.
OwnFrame(t) ==
  th[t].op # "none" => /\ th[t].dev \in Own(th[t].cur)
                       /\ th[t].pc \in ListPc => th[t].lst[1] = th[t].cur

OwnSession(c) == {ses[c].deviceId, ses[c].ctl} \subseteq Own(c) \cup {Null}

OwnList(d) == deviceMap[d] # Null => d \in Own(deviceMap[d][1])

OwnOK ==
  /\ \A t \in Thread : OwnFrame(t)
  /\ \A c \in Channel : OwnSession(c)
  /\ \A d \in DeviceId : OwnList(d)

AddedPc == {"unsubscribe", "subscribe", "setController", "setDevice", "readCount", "publish"}
SubscribedPc == AddedPc \ {"unsubscribe", "subscribe"}

Busy(c) == th[c].op \in {"create", "update"}

\* How far the thread of channel c has come with its session.  kept says that no
\* subscription gets lost but by the handlers; it is TRUE of Spec.
Arrives(c, kept) ==
  /\ Busy(c) /\ th[c].pc \in CreatePc => th[c].dev = ses[c].deviceId
  /\ Busy(c) /\ th[c].pc \in {"addRead", "addStore"} => th[c].lst = deviceMap[th[c].dev]
  /\ Settled(c) \/ (Busy(c) /\ th[c].pc \in AddedPc) => Listed(c, ses[c].deviceId)
  /\ Settled(c) \/ (Busy(c) /\ th[c].pc \in SubscribedPc) =>
       (kept => ses[c].deviceId \in subs)

OwnInv(kept) == Inv /\ OwnOK /\ \A c \in Channel : Arrives(c, kept)

LEMMA OwnIds ==
  ASSUME DistinctTokens, NEW c \in Channel, NEW e \in Channel, NEW d \in Own(c), d \in Own(e)
  PROVE  c = e /\ d \in DeviceId /\ d # Null
BY AddressAssumption, ThreadAssumption DEF Own, DistinctTokens

LEMMA ListIds ==
  ASSUME NEW l \in ListId
  PROVE  l[1] \in Channel /\ l # Null
BY ThreadAssumption DEF ListId

-----------------------------------------------------------------------------
(* A step in the service of session s leaves all other sessions alone.     *)

Elsewhere(s) ==
  /\ \A c \in Channel : c # s => ses'[c] = ses[c]
  /\ \A d \in DeviceId : d \notin Own(s) => /\ deviceMap'[d] = deviceMap[d]
                                            /\ d \in subs' <=> d \in subs
  /\ \A l \in ListId : l[1] # s => lists'[l] = lists[l]

\* And it keeps to what belongs to s.
Keeps(t, s) ==
  /\ \A u \in Thread : u # t => th'[u] = th[u]
  /\ th'[t].op # "none" => th'[t].cur = s
  /\ OwnFrame(t)'
  /\ OwnSession(s)'
  /\ \A d \in Own(s) : OwnList(d)'

LEMMA ElsewhereArrives ==
  ASSUME NEW kept \in BOOLEAN,
         DistinctTokens, OwnInv(kept), Inv', NEW s \in Channel, NEW c \in Channel, c # s,
         Elsewhere(s), th'[c] = th[c], Arrives(c, kept)
  PROVE  Arrives(c, kept)'
<1>. USE DEF OwnInv
<1>0. c \in Thread
  BY DEF Thread
<1>1. ses'[c] = ses[c]
  BY DEF Elsewhere
<1>2. ASSUME NEW d \in Own(c)
      PROVE  d \in DeviceId /\ deviceMap'[d] = deviceMap[d] /\ (d \in subs' <=> d \in subs)
  <2>1. d \in DeviceId /\ d \notin Own(s)
    BY OwnIds
  <2>. QED  BY <2>1 DEF Elsewhere
<1>3. ASSUME NEW d \in Own(c), Listed(c, d) PROVE Listed(c, d)'
  <2>1. deviceMap[d] # Null /\ deviceMap'[d] = deviceMap[d] /\ d \in DeviceId
    BY <1>2, <1>3 DEF Listed
  <2>2. deviceMap[d] \in ListId
    BY <2>1 DEF Inv, Control, TypeOK
  <2>3. deviceMap[d][1] = c
    BY <2>1, <2>2, ListIds, OwnIds DEF OwnOK, OwnList
  <2>4. lists'[deviceMap[d]] = lists[deviceMap[d]]
    BY <2>2, <2>3 DEF Elsewhere
  <2>. QED  BY <1>3, <2>1, <2>4 DEF Listed
<1>4. CASE Busy(c)
  <2>1. th[c].dev \in Own(c)
    BY <1>0, <1>4, CallFacts DEF OwnOK, OwnFrame, Inv, Busy, Fits
  <2>2. ses[c].deviceId \in Own(c)
    <3>1. ses[c].deviceId \in DeviceId
      <4>1. chan[c] = "open"
        BY <1>4 DEF Inv, Control, ChanOK, Busy
      <4>. QED  BY <4>1 DEF Inv, Control, ChanOK
    <3>. QED  BY <3>1, ThreadAssumption DEF OwnOK, OwnSession
  <2>. QED  BY <1>1, <1>2, <1>3, <1>4, <2>1, <2>2 DEF Arrives, Busy, Settled
<1>5. CASE Settled(c)
  <2>1. ses[c].deviceId \in Own(c)
    <3>1. ses[c].deviceId \in DeviceId
      <4>1. chan[c] = "open"
        BY <1>5 DEF Inv, Control, ChanOK, Settled
      <4>. QED  BY <4>1 DEF Inv, Control, ChanOK
    <3>. QED  BY <3>1, ThreadAssumption DEF OwnOK, OwnSession
  <2>2. ~Busy(c)
    <3>1. th[c] \in Frames /\ Fits(c, th[c])
      BY <1>0 DEF Inv, Control, TypeOK, FrameOK
    <3>. QED  BY <1>5, <3>1, CallPc DEF Busy, Settled, RestPc
  <2>. QED  BY <1>1, <1>2, <1>3, <1>5, <2>1, <2>2 DEF Arrives, Busy, Settled
<1>6. CASE ~Busy(c) /\ ~Settled(c)
  BY <1>6 DEF Arrives, Busy, Settled
<1>. QED  BY <1>4, <1>5, <1>6

LEMMA KeepsOwn ==
  ASSUME NEW kept \in BOOLEAN,
         DistinctTokens, OwnInv(kept), NEW t \in Thread, NEW s \in Channel,
         Elsewhere(s), Keeps(t, s)
  PROVE  OwnOK'
<1>1. ASSUME NEW u \in Thread PROVE OwnFrame(u)'
  BY DEF OwnInv, OwnOK, OwnFrame, Keeps
<1>2. ASSUME NEW c \in Channel PROVE OwnSession(c)'
  BY DEF OwnInv, OwnOK, OwnSession, Keeps, Elsewhere
<1>3. ASSUME NEW d \in DeviceId PROVE OwnList(d)'
  BY DEF OwnInv, OwnOK, OwnList, Keeps, Elsewhere
<1>. QED  BY <1>1, <1>2, <1>3 DEF OwnOK

\* The channel of a session that is not being set up has nothing to arrive at.
LEMMA ClosedArrives ==
  ASSUME NEW kept \in BOOLEAN,
         Inv', NEW c \in Channel, chan'[c] # "open"
  PROVE  Arrives(c, kept)'
BY DEF Inv, Control, ChanOK, Arrives, Busy, Settled

\* What is left to show of a step of a call.
LEMMA CallKeeps ==
  ASSUME NEW kept \in BOOLEAN,
         DistinctTokens, OwnInv(kept), Inv', NEW t \in Thread, th[t].op # "none",
         NEW s \in Channel, th[t].cur = s,
         QuietThreads, Elsewhere(s), Keeps(t, s),
         t \in Channel /\ Busy(t) => Arrives(t, kept)'
  PROVE  OwnInv(kept)' /\ Elsewhere(s)
<1>1. /\ th[t].op \in {"create", "update", "close"} /\ s \in Channel
      /\ t \in Channel => s = t
      /\ Busy(t) => t \in Channel
  BY CallFacts DEF OwnInv, Inv, Fits, Busy
<1>2. OwnOK'
  BY <1>1, KeepsOwn
<1>3. ASSUME NEW c \in Channel PROVE Arrives(c, kept)'
  <2>1. CASE c # s
    <3>1. c # t /\ c \in Thread
      BY <1>1, <2>1 DEF Thread
    <3>2. th'[c] = th[c]
      BY <3>1 DEF Keeps
    <3>. QED  BY <1>1, <2>1, <3>2, ElsewhereArrives DEF OwnInv
  <2>2. CASE c = s /\ th[t].op = "close"
    <3>1. chan[c] = "closed"
      BY <2>2 DEF OwnInv, Inv, Announce, CloseOK
    <3>2. chan'[c] # "open"
      BY <3>1 DEF QuietThreads
    <3>. QED  BY <3>2, ClosedArrives
  <2>3. CASE c = s /\ th[t].op # "close"
    BY <1>1, <2>3 DEF Busy
  <2>. QED  BY <2>1, <2>2, <2>3
<1>. QED  BY <1>2, <1>3 DEF OwnInv

-----------------------------------------------------------------------------
(* Moving a thread on.                                                     *)

LEMMA OwnCall ==
  ASSUME NEW kept \in BOOLEAN,
         OwnInv(kept), NEW t \in Thread, th[t].op # "none"
  PROVE  /\ th[t] \in Frames /\ Fits(t, th[t])
         /\ th[t].cur \in Channel /\ th[t].dev \in Own(th[t].cur)
         /\ ses[th[t].cur].deviceId \in Own(th[t].cur)
         /\ th[t].op # "close" => t \in Channel /\ th[t].cur = t /\ Busy(t)
         /\ t \in Channel => th[t].cur = t
         /\ Own(th[t].cur) \subseteq DeviceId
<1>1. ses[th[t].cur].deviceId \in DeviceId
  BY CallerIsOpenOrClosing DEF OwnInv, Inv, Announce
<1>2. th[t].cur \in Channel /\ th[t].op \in {"create", "update", "close"}
  BY CallFacts DEF OwnInv, Inv
<1>3. ses[th[t].cur].deviceId \in Own(th[t].cur)
  BY <1>1, <1>2, ThreadAssumption DEF OwnInv, OwnOK, OwnSession
<1>4. Own(th[t].cur) \subseteq DeviceId
  BY <1>2, AddressAssumption DEF Own
<1>. QED  BY <1>2, <1>3, <1>4, CallFacts DEF OwnInv, OwnOK, OwnFrame, Inv, Fits, Busy

LEMMA GotoWithMoves ==
  ASSUME Control, NEW t \in Thread, NEW f, GotoWith(t, f)
  PROVE  th'[t] = f /\ \A u \in Thread : u # t => th'[u] = th[u]
BY DEF GotoWith, Control, TypeOK

LEMMA GotoMoves ==
  ASSUME Control, NEW t \in Thread, NEW p, Goto(t, p)
  PROVE  /\ th'[t] = [th[t] EXCEPT !.pc = p]
         /\ \A u \in Thread : u # t => th'[u] = th[u]
BY DEF Goto, Control, TypeOK

LEMMA ReturnMoves ==
  ASSUME Control, NEW t \in Thread, Return(t)
  PROVE  th'[t].op = "none" /\ \A u \in Thread : u # t => th'[u] = th[u]
BY DEF Return, GotoWith, Frame, Control, TypeOK

LEMMA AbandonMoves ==
  ASSUME Control, NEW t \in Thread, Abandon(t)
  PROVE  /\ th'[t].op = "none" /\ \A u \in Thread : u # t => th'[u] = th[u]
         /\ t \in Channel => chan'[t] = "closed"
BY ThreadAssumption DEF Abandon, Frame, Control, TypeOK

\* The lists, the ids and the topics are as they were, or differ only in what
\* belongs to s.
OwnData(s) == Elsewhere(s) /\ OwnSession(s)' /\ \A d \in Own(s) : OwnList(d)'

LEMMA SameData ==
  ASSUME NEW kept \in BOOLEAN,
         OwnInv(kept), NEW s \in Channel, UNCHANGED <<deviceMap, lists, ses, subs>>
  PROVE  OwnData(s)
<1>1. Own(s) \subseteq DeviceId
  BY AddressAssumption DEF Own
<1>. QED  BY <1>1 DEF OwnData, Elsewhere, OwnInv, OwnOK, OwnSession, OwnList

\* Changing the lists of s.
LEMMA ListData ==
  ASSUME NEW kept \in BOOLEAN,
         OwnInv(kept), NEW s \in Channel, UNCHANGED <<ses, subs>>,
         \A l \in ListId : l[1] # s => lists'[l] = lists[l],
         \A d \in DeviceId : \/ deviceMap'[d] = deviceMap[d]
                            \/ /\ d \in Own(s)
                               /\ deviceMap'[d] = Null \/ deviceMap'[d][1] = s
  PROVE  OwnData(s)
<1>1. Elsewhere(s)
  BY DEF Elsewhere
<1>2. OwnSession(s)'
  BY DEF OwnInv, OwnOK, OwnSession
<1>3. ASSUME NEW d \in Own(s) PROVE OwnList(d)'
  <2>1. d \in DeviceId
    BY AddressAssumption DEF Own
  <2>. QED  BY <2>1 DEF OwnInv, OwnOK, OwnList
<1>. QED  BY <1>1, <1>2, <1>3 DEF OwnData

\* Taking a topic of s away, or adding it, and setting the ids of s.
LEMMA TopicData ==
  ASSUME NEW kept \in BOOLEAN,
         OwnInv(kept), NEW s \in Channel, UNCHANGED <<deviceMap, lists>>,
         \A c \in Channel : c # s => ses'[c] = ses[c],
         {ses'[s].deviceId, ses'[s].ctl} \subseteq Own(s) \cup {Null},
         NEW d \in Own(s) \cup {Null},
         subs' = subs \/ subs' = subs \ {d} \/ (d # Null /\ subs' = subs \cup {d})
  PROVE  OwnData(s)
<1>1. Own(s) \subseteq DeviceId
  BY AddressAssumption DEF Own
<1>2. \A x \in DeviceId : x \notin Own(s) => x # d
  BY ThreadAssumption
<1>. QED  BY <1>1, <1>2 DEF OwnData, Elsewhere, OwnInv, OwnOK, OwnSession, OwnList

\* A call that throws.
LEMMA AbandonOwn ==
  ASSUME NEW kept \in BOOLEAN,
         DistinctTokens, OwnInv(kept), Inv', NEW t \in Thread, th[t].op # "none",
         NEW s \in Channel, th[t].cur = s,
         QuietThreads, Abandon(t), OwnData(s)
  PROVE  OwnInv(kept)' /\ Elsewhere(s)
<1>1. /\ th'[t].op = "none" /\ \A u \in Thread : u # t => th'[u] = th[u]
      /\ t \in Channel => chan'[t] = "closed"
  BY AbandonMoves DEF OwnInv, Inv
<1>2. Keeps(t, s) /\ Elsewhere(s)
  BY <1>1 DEF Keeps, OwnData, OwnFrame
<1>3. t \in Channel => Arrives(t, kept)'
  BY <1>1, ClosedArrives
<1>. QED  BY <1>2, <1>3, CallKeeps

\* A call that goes on, with its session and its device.
LEMMA GotoOwn ==
  ASSUME NEW kept \in BOOLEAN,
         DistinctTokens, OwnInv(kept), Inv', NEW t \in Thread, th[t].op # "none",
         NEW s \in Channel, th[t].cur = s,
         QuietThreads, NEW f, GotoWith(t, f), OwnData(s),
         f.op = th[t].op, f.cur = th[t].cur, f.dev \in Own(th[t].cur),
         f.pc \in ListPc => f.lst[1] = th[t].cur,
         t \in Channel /\ Busy(t) => Arrives(t, kept)'
  PROVE  OwnInv(kept)' /\ Elsewhere(s)
<1>1. th'[t] = f /\ \A u \in Thread : u # t => th'[u] = th[u]
  BY GotoWithMoves DEF OwnInv, Inv
<1>2. Keeps(t, s) /\ Elsewhere(s)
  BY <1>1 DEF Keeps, OwnData, OwnFrame
<1>. QED  BY <1>2, CallKeeps

-----------------------------------------------------------------------------
(* The steps of a call.                                                    *)

LEMMA ToCreateEventOwn ==
  ASSUME NEW kept \in BOOLEAN,
         DistinctTokens, OwnInv(kept), Inv', NEW t \in Thread, th[t].op = "update",
         QuietThreads, ToCreateEvent(t), OwnData(t), UNCHANGED ses
  PROVE  OwnInv(kept)' /\ Elsewhere(t)
<1> DEFINE f == Frame("contains", "update", t, ses[t].deviceId)
<1>1. t \in Channel /\ th[t].cur = t /\ ses[t].deviceId \in Own(t)
  BY OwnCall
<1>2. GotoWith(t, f) /\ f.op = "update" /\ f.cur = t /\ f.dev = ses[t].deviceId
      /\ f.pc = "contains"
  BY DEF ToCreateEvent, Frame
<1>. HIDE DEF f
<1>3. th'[t] = f
  BY <1>2, GotoWithMoves DEF OwnInv, Inv
<1>4. Arrives(t, kept)'
  BY <1>2, <1>3 DEF Arrives, Busy, Settled, AddedPc, SubscribedPc
<1>5. f.pc \notin ListPc /\ th[t].op # "none"
  BY <1>2 DEF ListPc
<1>. QED  BY <1>1, <1>2, <1>4, <1>5, GotoOwn

LEMMA ListGetOwn ==
  ASSUME NEW kept \in BOOLEAN,
         DistinctTokens, OwnInv(kept), Inv', NEW t \in Thread, th[t].op # "none",
         NEW s \in Channel, th[t].cur = s,
         QuietThreads, ListGet(t)
  PROVE  OwnInv(kept)' /\ Elsewhere(s)
<1>1. th[t].pc = "listGet" /\ UNCHANGED <<deviceMap, lists, ses, subs>>
  BY DEF ListGet, At, directory, broker
<1>2. OwnData(s)
  BY <1>1, OwnCall, SameData
<1>3. CASE /\ deviceMap[th[t].dev] # Null
           /\ GotoWith(t, [th[t] EXCEPT !.pc = "remFind", !.lst = deviceMap[th[t].dev]])
  <2> DEFINE f == [th[t] EXCEPT !.pc = "remFind", !.lst = deviceMap[th[t].dev]]
  <2>1. /\ f.pc = "remFind" /\ f.op = th[t].op /\ f.cur = th[t].cur
        /\ f.dev = th[t].dev /\ f.lst = deviceMap[th[t].dev]
    BY OwnCall DEF Frames
  <2>2. GotoWith(t, f)
    BY <1>3
  <2>. HIDE DEF f
  <2>3. f.lst[1] = th[t].cur
    <3>1. th[t].dev \in DeviceId /\ deviceMap[th[t].dev] \in ListId
      BY <1>3, OwnCall DEF OwnInv, Inv, Control, TypeOK
    <3>. QED  BY <1>3, <2>1, <3>1, OwnCall, ListIds, OwnIds DEF OwnInv, OwnOK, OwnList
  <2>4. th'[t] = f
    BY <2>2, GotoWithMoves DEF OwnInv, Inv
  <2>5. Arrives(t, kept)'
    BY <2>1, <2>4 DEF Arrives, Busy, Settled, AddedPc, SubscribedPc, CreatePc
  <2>. QED  BY <1>2, <2>1, <2>2, <2>3, <2>5, OwnCall, GotoOwn
<1>4. CASE th[t].op = "update" /\ ToCreateEvent(t)
  BY <1>1, <1>2, <1>4, OwnCall, ToCreateEventOwn
<1>5. CASE Throw(t)
  BY <1>2, <1>5, AbandonOwn DEF Throw
<1>. QED  BY <1>3, <1>4, <1>5 DEF ListGet

LEMMA RemFindOwn ==
  ASSUME NEW kept \in BOOLEAN,
         DistinctTokens, OwnInv(kept), Inv', NEW t \in Thread, th[t].op # "none",
         NEW s \in Channel, th[t].cur = s,
         QuietThreads, RemFind(t)
  PROVE  OwnInv(kept)' /\ Elsewhere(s)
<1> DEFINE i == IndexOf(lists[th[t].lst], th[t].cur)
           f == [th[t] EXCEPT !.pc = IF i = 0 THEN "isEmpty" ELSE "remShift", !.idx = i]
<1>1. th[t].pc = "remFind" /\ UNCHANGED <<deviceMap, lists, ses, subs>> /\ GotoWith(t, f)
  BY DEF RemFind, At, directory, broker
<1>2. /\ f.pc \in {"isEmpty", "remShift"} /\ f.op = th[t].op /\ f.cur = th[t].cur
      /\ f.dev = th[t].dev /\ f.lst = th[t].lst
  BY OwnCall DEF Frames
<1>. HIDE DEF f
<1>3. f.lst[1] = th[t].cur
  BY <1>1, <1>2 DEF OwnInv, OwnOK, OwnFrame, ListPc
<1>4. th'[t] = f
  BY <1>1, GotoWithMoves DEF OwnInv, Inv
<1>5. Arrives(t, kept)'
  BY <1>2, <1>4 DEF Arrives, Busy, Settled, AddedPc, SubscribedPc, CreatePc
<1>. QED  BY <1>1, <1>2, <1>3, <1>5, OwnCall, SameData, GotoOwn

\* Moving on to a line of the same call.
LEMMA GotoPcOwn ==
  ASSUME NEW kept \in BOOLEAN,
         DistinctTokens, OwnInv(kept), Inv', NEW t \in Thread, th[t].op # "none",
         NEW s \in Channel, th[t].cur = s,
         QuietThreads, NEW p, Goto(t, p), OwnData(s),
         p \in ListPc => th[t].pc \in ListPc,
         t \in Channel /\ Busy(t) =>
           /\ p \in CreatePc => th[t].dev = ses'[t].deviceId
           /\ p \notin {"addRead", "addStore", "idle", "registered"}
           /\ p \in AddedPc => Listed(t, ses[t].deviceId)'
           /\ p \in SubscribedPc => (kept => ses'[t].deviceId \in subs')
  PROVE  OwnInv(kept)' /\ Elsewhere(s)
<1> DEFINE f == [th[t] EXCEPT !.pc = p]
<1>1. /\ f.pc = p /\ f.op = th[t].op /\ f.cur = th[t].cur
      /\ f.dev = th[t].dev /\ f.lst = th[t].lst
  BY OwnCall DEF Frames
<1>2. GotoWith(t, f)
  BY DEF Goto, GotoWith
<1>. HIDE DEF f
<1>3. th'[t] = f
  BY <1>2, GotoWithMoves DEF OwnInv, Inv
<1>4. p \in ListPc => f.lst[1] = th[t].cur
  BY <1>1 DEF OwnInv, OwnOK, OwnFrame
<1>5. t \in Channel /\ Busy(t) => Arrives(t, kept)'
  BY <1>1, <1>3 DEF Arrives, Busy, Settled
<1>. QED  BY <1>1, <1>2, <1>4, <1>5, OwnCall, GotoOwn

LEMMA RemShiftOwn ==
  ASSUME NEW kept \in BOOLEAN,
         DistinctTokens, OwnInv(kept), Inv', NEW t \in Thread, th[t].op # "none",
         NEW s \in Channel, th[t].cur = s,
         QuietThreads, RemShift(t)
  PROVE  OwnInv(kept)' /\ Elsewhere(s)
<1>1. th[t].pc = "remShift" /\ UNCHANGED <<deviceMap, ses, subs>>
  BY DEF RemShift, At, broker
<1>2. th[t].lst \in ListId /\ th[t].lst[1] = th[t].cur
  BY <1>1, OwnCall DEF OwnInv, OwnOK, OwnFrame, ListPc, Fits
<1>3. OwnData(s)
  <2>1. \A l \in ListId : l[1] # s => lists'[l] = lists[l]
    <3>1. lists' = [lists EXCEPT ![th[t].lst] = ShiftFrom(@, th[t].idx)]
      BY DEF RemShift
    <3>. QED  BY <1>2, <3>1 DEF OwnInv, Inv, Control, TypeOK
  <2>2. \A d \in DeviceId : deviceMap'[d] = deviceMap[d]
    BY <1>1
  <2>3. UNCHANGED <<ses, subs>>
    BY <1>1, OwnCall
  <2>. QED  BY <2>1, <2>2, <2>3, ListData
<1>4. CASE Throw(t)
  BY <1>3, <1>4, AbandonOwn DEF Throw
<1>5. CASE Goto(t, "isEmpty")
  BY <1>1, <1>3, <1>5, GotoPcOwn DEF ListPc, CreatePc, AddedPc, SubscribedPc
<1>. QED  BY <1>4, <1>5 DEF RemShift

LEMMA IsEmptyOwn ==
  ASSUME NEW kept \in BOOLEAN,
         DistinctTokens, OwnInv(kept), Inv', NEW t \in Thread, th[t].op # "none",
         NEW s \in Channel, th[t].cur = s,
         QuietThreads, IsEmpty(t)
  PROVE  OwnInv(kept)' /\ Elsewhere(s)
<1>1. th[t].pc = "isEmpty" /\ UNCHANGED <<deviceMap, lists, ses, subs>>
  BY DEF IsEmpty, At, directory, broker
<1>2. OwnData(s)
  BY <1>1, OwnCall, SameData
<1>3. CASE Goto(t, "mapRemove")
  BY <1>1, <1>2, <1>3, GotoPcOwn DEF ListPc, CreatePc, AddedPc, SubscribedPc
<1>4. CASE th[t].op = "update" /\ ToCreateEvent(t)
  BY <1>1, <1>2, <1>4, OwnCall, ToCreateEventOwn
<1>5. CASE th[t].op = "close" /\ Goto(t, "readCount")
  BY <1>1, <1>2, <1>5, GotoPcOwn DEF ListPc, Busy
<1>. QED  BY <1>3, <1>4, <1>5 DEF IsEmpty

LEMMA MapRemoveOwn ==
  ASSUME NEW kept \in BOOLEAN,
         DistinctTokens, OwnInv(kept), Inv', NEW t \in Thread, th[t].op # "none",
         NEW s \in Channel, th[t].cur = s,
         QuietThreads, MapRemove(t)
  PROVE  OwnInv(kept)' /\ Elsewhere(s)
<1>1. /\ th[t].pc = "mapRemove" /\ UNCHANGED <<lists, ses, subs>>
      /\ deviceMap' = [deviceMap EXCEPT ![th[t].dev] = Null]
  BY DEF MapRemove, At, broker
<1>2. OwnData(s)
  <2>1. \A d \in DeviceId : deviceMap'[d] = IF d = th[t].dev THEN Null ELSE deviceMap[d]
    BY <1>1 DEF OwnInv, Inv, Control, TypeOK
  <2>2. \A d \in DeviceId : \/ deviceMap'[d] = deviceMap[d]
                            \/ /\ d \in Own(s)
                               /\ deviceMap'[d] = Null \/ deviceMap'[d][1] = s
    BY <2>1, OwnCall
  <2>3. UNCHANGED <<ses, subs>>
    BY <1>1, OwnCall
  <2>4. \A l \in ListId : l[1] # s => lists'[l] = lists[l]
    BY <1>1
  <2>. QED  BY <2>2, <2>3, <2>4, ListData
<1>3. CASE th[t].op = "update" /\ ToCreateEvent(t)
  BY <1>1, <1>2, <1>3, OwnCall, ToCreateEventOwn
<1>4. CASE th[t].op # "update" /\ Goto(t, "closeUnsub")
  <2>1. th[t].op # "create"
    BY <1>1, OwnCall DEF Fits, CreatePc
  <2>. QED  BY <1>1, <1>2, <1>4, <2>1, GotoPcOwn DEF ListPc, Busy
<1>. QED  BY <1>3, <1>4 DEF MapRemove

LEMMA ContainsKeyOwn ==
  ASSUME NEW kept \in BOOLEAN,
         DistinctTokens, OwnInv(kept), Inv', NEW t \in Thread, th[t].op # "none",
         NEW s \in Channel, th[t].cur = s,
         QuietThreads, ContainsKey(t)
  PROVE  OwnInv(kept)' /\ Elsewhere(s)
<1>1. th[t].pc = "contains" /\ UNCHANGED <<deviceMap, lists, ses, subs>>
  BY DEF ContainsKey, At, directory, broker
<1>2. PICK p \in {"put", "get"} : Goto(t, p)
  BY DEF ContainsKey
<1>3. t \in Channel /\ Busy(t) => th[t].dev = ses[t].deviceId
  BY <1>1 DEF OwnInv, Arrives, CreatePc
<1>. QED  BY <1>1, <1>2, <1>3, SameData, GotoPcOwn DEF ListPc, AddedPc, SubscribedPc

LEMMA PutListOwn ==
  ASSUME NEW kept \in BOOLEAN,
         DistinctTokens, OwnInv(kept), Inv', NEW t \in Thread, th[t].op # "none",
         NEW s \in Channel, th[t].cur = s,
         QuietThreads, PutList(t)
  PROVE  OwnInv(kept)' /\ Elsewhere(s)
<1> DEFINE l == <<th[t].cur, th[t].dev>>
<1>1. /\ th[t].pc = "put" /\ UNCHANGED <<ses, subs>> /\ Goto(t, "get")
      /\ lists' = [lists EXCEPT ![l] = <<>>]
      /\ deviceMap' = [deviceMap EXCEPT ![th[t].dev] = l]
  BY DEF PutList, At, broker
<1>2. l[1] = s
  OBVIOUS
<1>3. OwnData(s)
  <2>. HIDE DEF l
  <2>1. \A k \in ListId : k[1] # s => lists'[k] = lists[k]
    BY <1>1, <1>2 DEF OwnInv, Inv, Control, TypeOK
  <2>2. \A d \in DeviceId : \/ deviceMap'[d] = deviceMap[d]
                            \/ /\ d \in Own(s)
                               /\ deviceMap'[d] = Null \/ deviceMap'[d][1] = s
    <3>1. th[t].dev \in DeviceId /\ th[t].dev \in Own(s)
      BY OwnCall
    <3>. QED  BY <1>1, <1>2, <3>1 DEF OwnInv, Inv, Control, TypeOK
  <2>3. UNCHANGED <<ses, subs>>
    BY <1>1
  <2>. QED  BY <2>1, <2>2, <2>3, ListData
<1>4. t \in Channel /\ Busy(t) => th[t].dev = ses[t].deviceId
  BY <1>1 DEF OwnInv, Arrives, CreatePc
<1>. QED  BY <1>1, <1>3, <1>4, GotoPcOwn DEF ListPc, AddedPc, SubscribedPc

LEMMA GetListOwn ==
  ASSUME NEW kept \in BOOLEAN,
         DistinctTokens, OwnInv(kept), Inv', NEW t \in Thread, th[t].op # "none",
         NEW s \in Channel, th[t].cur = s,
         QuietThreads, GetList(t)
  PROVE  OwnInv(kept)' /\ Elsewhere(s)
<1>1. th[t].pc = "get" /\ UNCHANGED <<deviceMap, lists, ses, subs>>
  BY DEF GetList, At, directory, broker
<1>2. OwnData(s)
  BY <1>1, SameData
<1>3. CASE deviceMap[th[t].dev] = Null
  BY <1>2, <1>3, AbandonOwn DEF GetList, Throw
<1>4. CASE deviceMap[th[t].dev] # Null
  <2> DEFINE f == [th[t] EXCEPT !.pc = "addRead", !.lst = deviceMap[th[t].dev]]
  <2>1. /\ f.pc = "addRead" /\ f.op = th[t].op /\ f.cur = th[t].cur
        /\ f.dev = th[t].dev /\ f.lst = deviceMap[th[t].dev]
    BY OwnCall DEF Frames
  <2>2. GotoWith(t, f)
    BY <1>4 DEF GetList
  <2>. HIDE DEF f
  <2>3. f.lst[1] = th[t].cur
    <3>1. th[t].dev \in DeviceId /\ deviceMap[th[t].dev] \in ListId
      BY <1>4, OwnCall DEF OwnInv, Inv, Control, TypeOK
    <3>. QED  BY <1>4, <2>1, <3>1, OwnCall, ListIds, OwnIds DEF OwnInv, OwnOK, OwnList
  <2>4. th'[t] = f
    BY <2>2, GotoWithMoves DEF OwnInv, Inv
  <2>5. t \in Channel /\ Busy(t) => Arrives(t, kept)'
    <3>1. t \in Channel /\ Busy(t) => th[t].dev = ses[t].deviceId
      BY <1>1 DEF OwnInv, Arrives, CreatePc
    <3>. QED  BY <1>1, <2>1, <2>4, <3>1 DEF Arrives, Busy, Settled, AddedPc, SubscribedPc
  <2>. QED  BY <1>2, <2>1, <2>2, <2>3, <2>5, OwnCall, GotoOwn
<1>. QED  BY <1>3, <1>4

LEMMA AddReadOwn ==
  ASSUME NEW kept \in BOOLEAN,
         DistinctTokens, OwnInv(kept), Inv', NEW t \in Thread, th[t].op # "none",
         NEW s \in Channel, th[t].cur = s,
         QuietThreads, AddRead(t)
  PROVE  OwnInv(kept)' /\ Elsewhere(s)
<1> DEFINE f == [th[t] EXCEPT !.pc = "addStore", !.idx = Size(lists[th[t].lst])]
<1>1. th[t].pc = "addRead" /\ UNCHANGED <<deviceMap, lists, ses, subs>> /\ GotoWith(t, f)
  BY DEF AddRead, At, directory, broker
<1>2. /\ f.pc = "addStore" /\ f.op = th[t].op /\ f.cur = th[t].cur
      /\ f.dev = th[t].dev /\ f.lst = th[t].lst
  BY OwnCall DEF Frames
<1>. HIDE DEF f
<1>3. f.lst[1] = th[t].cur
  BY <1>1, <1>2 DEF OwnInv, OwnOK, OwnFrame, ListPc
<1>4. th'[t] = f
  BY <1>1, GotoWithMoves DEF OwnInv, Inv
<1>5. t \in Channel /\ Busy(t) => Arrives(t, kept)'
  <2>1. t \in Channel /\ Busy(t) => /\ th[t].dev = ses[t].deviceId
                                  /\ th[t].lst = deviceMap[th[t].dev]
    BY <1>1 DEF OwnInv, Arrives, CreatePc
  <2>. QED  BY <1>1, <1>2, <1>4, <2>1 DEF Arrives, Busy, Settled, AddedPc, SubscribedPc
<1>. QED  BY <1>1, <1>2, <1>3, <1>5, OwnCall, SameData, GotoOwn

\* The session is on the list of its device from here on.
LEMMA AddStoreOwn ==
  ASSUME NEW kept \in BOOLEAN,
         DistinctTokens, OwnInv(kept), Inv', NEW t \in Thread, th[t].op # "none",
         NEW s \in Channel, th[t].cur = s,
         QuietThreads, AddStore(t)
  PROVE  OwnInv(kept)' /\ Elsewhere(s)
<1> DEFINE l == th[t].lst
           n == th[t].idx
<1>1. /\ th[t].pc = "addStore" /\ UNCHANGED <<deviceMap, ses, subs>>
      /\ lists' = [lists EXCEPT ![l] = StoreAt(lists[l], n, s)]
  BY DEF AddStore, At, broker
<1>2. /\ l \in ListId /\ l[1] = s /\ n \in Int /\ l # Null
  BY <1>1, OwnCall, ListIds DEF OwnInv, OwnOK, OwnFrame, ListPc, Fits, Frames
<1>3. OwnData(s)
  <2>1. \A k \in ListId : k[1] # s => lists'[k] = lists[k]
    BY <1>1, <1>2 DEF OwnInv, Inv, Control, TypeOK
  <2>2. \A d \in DeviceId : deviceMap'[d] = deviceMap[d]
    BY <1>1
  <2>3. UNCHANGED <<ses, subs>>
    BY <1>1
  <2>. QED  BY <2>1, <2>2, <2>3, ListData
<1>4. CASE n < 0
  <2>1. Abandon(t)
    BY <1>4 DEF AddStore, Throw
  <2>. QED  BY <1>3, <2>1, AbandonOwn
<1>5. CASE ~(n < 0)
  <2>1. PICK p \in {"subscribe", "unsubscribe"} : Goto(t, p)
    BY <1>5 DEF AddStore
  <2>2. ASSUME t \in Channel, Busy(t)
        PROVE  th[t].dev = ses[t].deviceId /\ Listed(t, ses[t].deviceId)'
    <3>1. th[t].dev = ses[t].deviceId /\ l = deviceMap[th[t].dev] /\ s = t
      BY <1>1, <2>2, OwnCall DEF OwnInv, Arrives, CreatePc
    <3>2. lists'[l] = StoreAt(lists[l], n, s) /\ lists[l] \in ListOf(Channel \cup {Null})
      BY <1>1, <1>2 DEF OwnInv, Inv, Control, TypeOK
    <3>3. Size(lists'[l]) = n + 1 /\ lists'[l][n + 1] = s /\ n + 1 \in 1..(n + 1)
      BY <1>2, <1>5, <3>2, StoreAtLast
    <3>. QED  BY <1>1, <1>2, <3>1, <3>3 DEF Listed
  <2>. QED  BY <1>1, <1>3, <2>1, <2>2, GotoPcOwn DEF ListPc, SubscribedPc
<1>. QED  BY <1>4, <1>5

\* The ids of a session and the calls of its own channel.
LEMMA OwnSessionIds ==
  ASSUME NEW kept \in BOOLEAN,
         OwnInv(kept), NEW s \in Channel
  PROVE  {ses[s].deviceId, ses[s].ctl} \subseteq Own(s) \cup {Null}
BY DEF OwnInv, OwnOK, OwnSession

LEMMA NotClosing ==
  ASSUME NEW kept \in BOOLEAN,
         OwnInv(kept), NEW t \in Thread, th[t].op # "none",
         th[t].pc \notin ClosePc
  PROVE  t \in Channel /\ th[t].cur = t /\ Busy(t)
BY OwnCall DEF Fits

LEMMA UnsubscribeOwn ==
  ASSUME NEW kept \in BOOLEAN,
         DistinctTokens, OwnInv(kept), Inv', NEW t \in Thread, th[t].op # "none",
         NEW s \in Channel, th[t].cur = s,
         QuietThreads, Unsubscribe(t)
  PROVE  OwnInv(kept)' /\ Elsewhere(s)
<1>1. /\ th[t].pc = "unsubscribe" /\ UNCHANGED <<deviceMap, lists>>
      /\ ses' = [ses EXCEPT ![t].ctl = ses[t].deviceId]
  BY DEF Unsubscribe, At, directory
<1>2. t \in Channel /\ s = t /\ Busy(t) /\ ses[t].deviceId \in Own(s)
  BY <1>1, NotClosing, OwnCall DEF ClosePc, RemovePc
<1>3. /\ \A c \in Channel : c # s => ses'[c] = ses[c]
      /\ ses'[s].deviceId = ses[s].deviceId /\ ses'[s].ctl = ses[s].deviceId
  BY <1>1, <1>2 DEF OwnInv, Inv, Control, TypeOK, SessionFields
<1>4. OwnData(s)
  <2>1. ses[s].ctl \in Own(s) \cup {Null}
    BY OwnSessionIds
  <2>2. subs' = subs \/ subs' = subs \ {ses[s].ctl}
    BY <1>2 DEF Unsubscribe
  <2>. QED  BY <1>1, <1>2, <1>3, <2>1, <2>2, TopicData
<1>5. th[t].dev = ses[t].deviceId /\ Listed(t, ses[t].deviceId)
  BY <1>1, <1>2 DEF OwnInv, Arrives, CreatePc, AddedPc
<1>6. CASE Goto(t, "subscribe")
  <2>1. Listed(t, ses[t].deviceId)'
    BY <1>1, <1>2, <1>3, <1>5 DEF Listed
  <2>. QED  BY <1>2, <1>3, <1>4, <1>5, <1>6, <2>1, GotoPcOwn DEF ListPc, SubscribedPc
<1>7. CASE MqttThrows(t)
  BY <1>4, <1>7, AbandonOwn DEF MqttThrows
<1>. QED  BY <1>6, <1>7 DEF Unsubscribe

\* The topic of the session has a subscription from here on.
LEMMA SubscribeOwn ==
  ASSUME NEW kept \in BOOLEAN,
         DistinctTokens, OwnInv(kept), Inv', NEW t \in Thread, th[t].op # "none",
         NEW s \in Channel, th[t].cur = s,
         QuietThreads, Subscribe(t)
  PROVE  OwnInv(kept)' /\ Elsewhere(s)
<1>1. th[t].pc = "subscribe" /\ UNCHANGED <<deviceMap, lists, ses>>
  BY DEF Subscribe, At, directory
<1>2. t \in Channel /\ s = t /\ Busy(t) /\ ses[t].deviceId \in Own(s)
      /\ ses[t].deviceId # Null
  BY <1>1, NotClosing, OwnCall, ThreadAssumption DEF ClosePc, RemovePc
<1>3. OwnData(s)
  <2>1. subs' = subs \/ subs' = subs \cup {ses[s].deviceId}
    BY <1>2 DEF Subscribe
  <2>. QED  BY <1>1, <1>2, <2>1, OwnSessionIds, TopicData
<1>4. th[t].dev = ses[t].deviceId /\ Listed(t, ses[t].deviceId)
  BY <1>1, <1>2 DEF OwnInv, Arrives, CreatePc, AddedPc
<1>5. ASSUME NEW p \in {"setController", "readCount"}, Goto(t, p),
             subs' = subs \cup {ses[t].deviceId}
      PROVE  OwnInv(kept)' /\ Elsewhere(s)
  <2>1. Listed(t, ses[t].deviceId)'
    BY <1>1, <1>4 DEF Listed
  <2>. QED  BY <1>1, <1>3, <1>4, <1>5, <2>1, GotoPcOwn DEF ListPc
<1>6. CASE MqttThrows(t)
  BY <1>3, <1>6, AbandonOwn DEF MqttThrows
<1>. QED  BY <1>5, <1>6 DEF Subscribe

\* Steps of a session that is listed and subscribed, and stays so.
LEMMA SubscribedGotoOwn ==
  ASSUME NEW kept \in BOOLEAN,
         DistinctTokens, OwnInv(kept), Inv', NEW t \in Channel, Busy(t),
         QuietThreads, NEW p \in {"setDevice", "readCount"}, Goto(t, p),
         th[t].pc \in SubscribedPc, UNCHANGED <<deviceMap, lists, subs>>,
         \A c \in Channel : c # t => ses'[c] = ses[c],
         ses'[t].deviceId = ses[t].deviceId,
         ses'[t].ctl \in {ses[t].ctl, ses[t].deviceId}
  PROVE  OwnInv(kept)' /\ Elsewhere(t)
<1>1. t \in Thread /\ th[t].op # "none" /\ th[t].cur = t
  BY OwnCall DEF Thread, Busy
<1>2. OwnData(t)
  BY OwnSessionIds, TopicData
<1>3. /\ th[t].dev = ses[t].deviceId /\ Listed(t, ses[t].deviceId)
      /\ kept => ses[t].deviceId \in subs
  BY DEF OwnInv, Arrives, CreatePc, SubscribedPc, AddedPc
<1>4. Listed(t, ses[t].deviceId)'
  BY <1>3 DEF Listed
<1>. QED  BY <1>1, <1>2, <1>3, <1>4, GotoPcOwn DEF ListPc

LEMMA SetProxiesOwn ==
  ASSUME NEW kept \in BOOLEAN,
         DistinctTokens, OwnInv(kept), Inv', NEW t \in Thread, th[t].op # "none",
         NEW s \in Channel, th[t].cur = s,
         QuietThreads, SetController(t) \/ SetDevice(t)
  PROVE  OwnInv(kept)' /\ Elsewhere(s)
<1>1. th[t].pc \in {"setController", "setDevice"} /\ UNCHANGED <<deviceMap, lists, subs>>
  BY DEF SetController, SetDevice, At, directory, broker
<1>2. t \in Channel /\ s = t /\ Busy(t)
  BY <1>1, NotClosing DEF ClosePc, RemovePc
<1>3. /\ \A c \in Channel : c # t => ses'[c] = ses[c]
      /\ ses'[t].deviceId = ses[t].deviceId
      /\ ses'[t].ctl \in {ses[t].ctl, ses[t].deviceId}
  BY <1>2 DEF SetController, SetDevice, OwnInv, Inv, Control, TypeOK, SessionFields
<1>4. PICK p \in {"setDevice", "readCount"} : Goto(t, p)
  BY DEF SetController, SetDevice
<1>5. th[t].pc \in SubscribedPc
  BY <1>1 DEF SubscribedPc, AddedPc
<1>. QED  BY <1>1, <1>2, <1>3, <1>4, <1>5, SubscribedGotoOwn

LEMMA CloseUnsubOwn ==
  ASSUME NEW kept \in BOOLEAN,
         DistinctTokens, OwnInv(kept), Inv', NEW t \in Thread, th[t].op # "none",
         NEW s \in Channel, th[t].cur = s,
         QuietThreads, CloseUnsub(t)
  PROVE  OwnInv(kept)' /\ Elsewhere(s)
<1>1. th[t].pc = "closeUnsub" /\ UNCHANGED <<deviceMap, lists, ses>>
  BY DEF CloseUnsub, At, directory
<1>2. OwnData(s)
  <2>1. th[t].dev \in Own(s) /\ (subs' = subs \/ subs' = subs \ {th[t].dev})
    BY OwnCall DEF CloseUnsub
  <2>. QED  BY <1>1, <2>1, OwnSessionIds, TopicData
<1>3. CASE Goto(t, "readCount")
  <2>1. ~Busy(t)
    BY <1>1, OwnCall DEF Fits, Busy, CreatePc, UpdatePc, RemovePc
  <2>. QED  BY <1>1, <1>2, <1>3, <2>1, GotoPcOwn DEF ListPc
<1>4. CASE MqttThrows(t)
  BY <1>2, <1>4, AbandonOwn DEF MqttThrows
<1>. QED  BY <1>3, <1>4 DEF CloseUnsub

LEMMA ReadCountOwn ==
  ASSUME NEW kept \in BOOLEAN,
         DistinctTokens, OwnInv(kept), Inv', NEW t \in Thread, th[t].op # "none",
         NEW s \in Channel, th[t].cur = s,
         QuietThreads, ReadCount(t)
  PROVE  OwnInv(kept)' /\ Elsewhere(s)
<1> DEFINE l == deviceMap[ses[th[t].cur].deviceId]
           f == [th[t] EXCEPT !.pc = "publish", !.cnt = IF l = Null THEN 0 ELSE Size(lists[l])]
<1>1. th[t].pc = "readCount" /\ UNCHANGED <<deviceMap, lists, ses, subs>> /\ GotoWith(t, f)
  BY DEF ReadCount, At, directory, broker
<1>2. /\ f.pc = "publish" /\ f.op = th[t].op /\ f.cur = th[t].cur
      /\ f.dev = th[t].dev /\ f.lst = th[t].lst
  BY OwnCall DEF Frames
<1>. HIDE DEF f
<1>3. th'[t] = f
  BY <1>1, GotoWithMoves DEF OwnInv, Inv
<1>4. t \in Channel /\ Busy(t) => Arrives(t, kept)'
  <2>1. t \in Channel /\ Busy(t) =>
          /\ th[t].dev = ses[t].deviceId /\ Listed(t, ses[t].deviceId)
          /\ kept => ses[t].deviceId \in subs
    BY <1>1 DEF OwnInv, Arrives, CreatePc, AddedPc, SubscribedPc
  <2>2. Listed(t, ses[t].deviceId)' <=> Listed(t, ses[t].deviceId)
    BY <1>1 DEF Listed
  <2>. QED  BY <1>1, <1>2, <1>3, <2>1, <2>2 DEF Arrives, Busy, Settled
<1>. QED  BY <1>1, <1>2, <1>4, OwnCall, SameData, GotoOwn DEF ListPc

\* The handler returns: a session that has been set up or moved is settled.
LEMMA PublishOwn ==
  ASSUME NEW kept \in BOOLEAN,
         DistinctTokens, OwnInv(kept), Inv', NEW t \in Thread, th[t].op # "none",
         NEW s \in Channel, th[t].cur = s,
         QuietThreads, Publish(t)
  PROVE  OwnInv(kept)' /\ Elsewhere(s)
<1>1. th[t].pc = "publish" /\ UNCHANGED <<deviceMap, lists, ses, subs>>
  BY DEF Publish, At, directory
<1>2. OwnData(s)
  BY <1>1, SameData
<1>3. CASE Return(t)
  <2>1. th'[t].op = "none" /\ \A u \in Thread : u # t => th'[u] = th[u]
    BY <1>3, ReturnMoves DEF OwnInv, Inv
  <2>2. Keeps(t, s) /\ Elsewhere(s)
    BY <1>2, <2>1 DEF Keeps, OwnData, OwnFrame
  <2>3. ASSUME t \in Channel, Busy(t) PROVE Arrives(t, kept)'
    <3>1. Listed(t, ses[t].deviceId) /\ (kept => ses[t].deviceId \in subs)
      BY <1>1, <2>3 DEF OwnInv, Arrives, CreatePc, AddedPc, SubscribedPc
    <3>2. Listed(t, ses[t].deviceId)'
      BY <1>1, <3>1 DEF Listed
    <3>. QED  BY <1>1, <2>1, <3>1, <3>2 DEF Arrives, Busy
  <2>. QED  BY <2>2, <2>3, CallKeeps
<1>4. CASE MqttThrows(t)
  BY <1>2, <1>4, AbandonOwn DEF MqttThrows
<1>. QED  BY <1>3, <1>4 DEF Publish
-----------------------------------------------------------------------------
(* The handlers.                                                           *)

LEMMA HandlerKeeps ==
  ASSUME NEW kept \in BOOLEAN,
         DistinctTokens, OwnInv(kept), Inv', NEW t \in Thread, NEW s \in Channel,
         t \in Channel => t = s, Elsewhere(s), Keeps(t, s), Arrives(s, kept)'
  PROVE  OwnInv(kept)'
<1>1. OwnOK'
  BY KeepsOwn
<1>2. ASSUME NEW c \in Channel, c # s PROVE Arrives(c, kept)'
  <2>1. c # t /\ c \in Thread
    BY <1>2 DEF Thread
  <2>2. th'[c] = th[c]
    BY <2>1 DEF Keeps
  <2>. QED  BY <1>2, <2>2, ElsewhereArrives DEF OwnInv
<1>. QED  BY <1>1, <1>2 DEF OwnInv

LEMMA ConnectOwn ==
  ASSUME NEW kept \in BOOLEAN,
         DistinctTokens, OwnInv(kept), Inv', NEW c \in Channel, Connect(c)
  PROVE  OwnInv(kept)'
<1> DEFINE f == Frame("contains", "create", c, AddrId[c])
<1>1. /\ ses' = [ses EXCEPT ![c].deviceId = AddrId[c]] /\ th' = [th EXCEPT ![c] = f]
      /\ UNCHANGED <<deviceMap, lists, subs>>
  BY DEF Connect, broker
<1>2. f.pc = "contains" /\ f.op = "create" /\ f.cur = c /\ f.dev = AddrId[c]
  BY DEF Frame
<1>. HIDE DEF f
<1>3. /\ c \in Thread /\ th'[c] = f /\ \A u \in Thread : u # c => th'[u] = th[u]
      /\ \A e \in Channel : e # c => ses'[e] = ses[e]
      /\ ses'[c].deviceId = AddrId[c] /\ ses'[c].ctl = ses[c].ctl
  BY <1>1 DEF OwnInv, Inv, Control, TypeOK, SessionFields, Thread
<1>4. OwnData(c)
  <2>1. {ses'[c].deviceId, ses'[c].ctl} \subseteq Own(c) \cup {Null}
    BY <1>3, OwnSessionIds DEF Own
  <2>. QED  BY <1>1, <1>3, <2>1, TopicData
<1>5. Elsewhere(c) /\ Keeps(c, c)
  BY <1>2, <1>3, <1>4 DEF OwnData, Keeps, OwnFrame, Own, ListPc
<1>6. Arrives(c, kept)'
  BY <1>2, <1>3 DEF Arrives, Busy, Settled, AddedPc, SubscribedPc
<1>. QED  BY <1>3, <1>5, <1>6, HandlerKeeps

LEMMA RegisterOwn ==
  ASSUME NEW kept \in BOOLEAN,
         DistinctTokens, OwnInv(kept), Inv', NEW c \in Channel, Register(c)
  PROVE  OwnInv(kept)'
<1> DEFINE f == Frame("listGet", "update", c, ses[c].deviceId)
<1>1. PICK d \in TokenIds[c] :
        /\ th[c].pc = "idle"
        /\ ses' = [ses EXCEPT ![c].deviceId = d] /\ GotoWith(c, f)
        /\ UNCHANGED <<deviceMap, lists, subs>>
  BY DEF Register, At, directory, broker
<1>2. f.pc = "listGet" /\ f.op = "update" /\ f.cur = c /\ f.dev = ses[c].deviceId
  BY DEF Frame
<1>. HIDE DEF f
<1>3. /\ c \in Thread /\ th'[c] = f /\ \A u \in Thread : u # c => th'[u] = th[u]
  BY <1>1, GotoWithMoves DEF OwnInv, Inv, Thread
<1>4. /\ \A e \in Channel : e # c => ses'[e] = ses[e]
      /\ ses'[c].deviceId = d /\ ses'[c].ctl = ses[c].ctl
  BY <1>1 DEF OwnInv, Inv, Control, TypeOK, SessionFields
<1>5. OwnData(c)
  <2>1. {ses'[c].deviceId, ses'[c].ctl} \subseteq Own(c) \cup {Null}
    BY <1>4, OwnSessionIds DEF Own
  <2>. QED  BY <1>1, <1>4, <2>1, TopicData
<1>6. ses[c].deviceId \in Own(c)
  <2>1. chan[c] = "open"
    BY <1>1 DEF OwnInv, Inv, Control, ChanOK
  <2>2. ses[c].deviceId \in DeviceId
    BY <2>1 DEF OwnInv, Inv, Control, ChanOK
  <2>. QED  BY <2>2, OwnSessionIds, ThreadAssumption
<1>7. Elsewhere(c) /\ Keeps(c, c)
  BY <1>2, <1>3, <1>5, <1>6 DEF OwnData, Keeps, OwnFrame, ListPc
<1>8. Arrives(c, kept)'
  BY <1>2, <1>3 DEF Arrives, Busy, Settled, AddedPc, SubscribedPc, CreatePc
<1>. QED  BY <1>3, <1>7, <1>8, HandlerKeeps

LEMMA DisconnectOwn ==
  ASSUME NEW kept \in BOOLEAN,
         DistinctTokens, OwnInv(kept), Inv', NEW c \in Channel, Disconnect(c)
  PROVE  OwnInv(kept)'
<1>1. /\ th[c].pc \in {"idle", "registered"} /\ th' = [th EXCEPT ![c].pc = "inactive"]
      /\ chan' = [chan EXCEPT ![c] = "closed"]
      /\ UNCHANGED <<deviceMap, lists, ses, subs>>
  BY DEF Disconnect, directory, broker
<1>2. c \in Thread /\ th[c] \in Frames /\ Fits(c, th[c]) /\ chan'[c] = "closed"
  BY <1>1 DEF OwnInv, Inv, Control, TypeOK, FrameOK, Thread
<1>3. th[c].op = "none"
  BY <1>1, <1>2, CallPc DEF RestPc
<1>4. th'[c].op = "none" /\ \A u \in Thread : u # c => th'[u] = th[u]
  BY <1>1, <1>2, <1>3 DEF OwnInv, Inv, Control, TypeOK, Frames
<1>5. OwnData(c)
  BY <1>1, SameData
<1>6. Elsewhere(c) /\ Keeps(c, c)
  BY <1>4, <1>5 DEF OwnData, Keeps, OwnFrame
<1>. QED  BY <1>2, <1>6, ClosedArrives, HandlerKeeps

LEMMA CloseSessionOwn ==
  ASSUME NEW kept \in BOOLEAN,
         DistinctTokens, OwnInv(kept), Inv', NEW t \in Thread, NEW s \in Channel,
         t \in Channel => t = s, chan[s] = "closed", CloseSession(t, s)
  PROVE  OwnInv(kept)'
<1> DEFINE f == Frame("listGet", "close", s, ses[s].deviceId)
           g == Frame(IF t = LostTask THEN "scan" ELSE "done", "none", Null, Null)
<1>1. /\ th' = [th EXCEPT ![t] = f] \/ th' = [th EXCEPT ![t] = g]
      /\ UNCHANGED <<chan, deviceMap, lists, ses, subs>>
  BY DEF CloseSession, broker
<1>2. f.pc = "listGet" /\ f.cur = s /\ f.dev = ses[s].deviceId /\ g.op = "none"
  BY DEF Frame
<1>. HIDE DEF f, g
<1>3. th'[t] \in {f, g} /\ \A u \in Thread : u # t => th'[u] = th[u]
  BY <1>1 DEF OwnInv, Inv, Control, TypeOK
<1>4. ses[s].deviceId \in Own(s)
  <2>1. ses[s].deviceId \in DeviceId
    BY DEF OwnInv, Inv, Control, ChanOK
  <2>. QED  BY <2>1, OwnSessionIds, ThreadAssumption
<1>5. OwnData(s)
  BY <1>1, SameData
<1>6. Elsewhere(s) /\ Keeps(t, s)
  BY <1>2, <1>3, <1>4, <1>5 DEF OwnData, Keeps, OwnFrame, ListPc
<1>7. Arrives(s, kept)'
  BY <1>1, ClosedArrives
<1>. QED  BY <1>6, <1>7, HandlerKeeps

LEMMA LostScanOwn ==
  ASSUME NEW kept \in BOOLEAN,
         DistinctTokens, OwnInv(kept), Inv', LostScan
  PROVE  OwnInv(kept)'
<1>1. /\ \E p \in {"scan", "next"} : th' = [th EXCEPT ![LostTask].pc = p]
      /\ th[LostTask].pc = "scan" /\ UNCHANGED <<deviceMap, lists, ses, subs>>
  BY DEF LostScan, At, directory, broker
<1>2. /\ LostTask \in Thread /\ LostTask \notin Channel
      /\ th[LostTask] \in Frames /\ Fits(LostTask, th[LostTask])
  BY ThreadAssumption DEF Thread, OwnInv, Inv, Control, TypeOK, FrameOK
<1>3. th[LostTask].op = "none"
  BY <1>1, <1>2, CallPc DEF LostPc
<1>4. th'[LostTask].op = "none" /\ \A u \in Thread : u # LostTask => th'[u] = th[u]
  BY <1>1, <1>2, <1>3 DEF OwnInv, Inv, Control, TypeOK, Frames
<1>5. OwnOK'
  BY <1>1, <1>4 DEF OwnInv, OwnOK, OwnFrame, OwnSession, OwnList
<1>6. ASSUME NEW c \in Channel PROVE Arrives(c, kept)'
  <2>1. th'[c] = th[c]
    BY <1>2, <1>4 DEF Thread
  <2>. QED  BY <1>1, <2>1 DEF OwnInv, Arrives, Busy, Settled, Listed
<1>. QED  BY <1>5, <1>6 DEF OwnInv

-----------------------------------------------------------------------------
(* The theorems.                                                           *)

LEMMA InitOwn ==
  ASSUME NEW kept \in BOOLEAN, Init
  PROVE  OwnInv(kept)
<1>1. \A t \in Thread : th[t].op = "none" /\ th[t].pc \in {"scan", "new"}
  BY DEF Init, Frame
<1>2. OwnOK
  BY <1>1 DEF Init, OwnOK, OwnFrame, OwnSession, OwnList
<1>3. \A c \in Channel : Arrives(c, kept)
  BY <1>1 DEF Arrives, Busy, Settled, Thread
<1>. QED  BY <1>2, <1>3, InitInv DEF OwnInv

LEMMA PublishQuiet ==
  ASSUME Inv, NEW t \in Thread, Publish(t)
  PROVE  QuietThreads
<1>1. th[t].pc = "publish" /\ UNCHANGED <<sessionMap, ses>> /\ (Return(t) \/ MqttThrows(t))
  BY DEF Publish, At, directory
<1>2. th[t].op # "none" /\ SameIds
  BY <1>1, CallHasOp DEF RestPc, LostPc, Inv, SameIds
<1>. QED  BY <1>1, <1>2, ReturnOK, MqttThrowsOK DEF Inv

LEMMA StepQuiet ==
  ASSUME Inv, NEW t \in Thread, Step(t)
  PROVE  QuietThreads
<1>1. CASE Publish(t)
  BY <1>1, PublishQuiet
<1>2. CASE ~Publish(t)
  BY <1>2, ListGetOK, RemFindOK, RemShiftOK, IsEmptyOK, MapRemoveOK, ContainsKeyOK,
     PutListOK, GetListOK, AddReadOK, AddStoreOK, UnsubscribeOK, SubscribeOK,
     SetControllerOK, SetDeviceOK, CloseUnsubOK, ReadCountOK
  DEF Step, Inv, Announce, Quiet
<1>. QED  BY <1>1, <1>2

LEMMA StepServes ==
  ASSUME Inv, NEW t \in Thread, Step(t)
  PROVE  th[t].op # "none"
<1>1. th[t].pc \in RemovePc \cup CreatePc \cup ClosePc
  BY DEF Step, At, RemovePc, CreatePc, ClosePc, ListGet, RemFind, RemShift, IsEmpty,
     MapRemove, ContainsKey, PutList, GetList, AddRead, AddStore, Unsubscribe,
     Subscribe, SetController, SetDevice, CloseUnsub, ReadCount, Publish
<1>2. th[t].pc \notin RestPc \cup LostPc
  BY <1>1 DEF RemovePc, CreatePc, ClosePc, RestPc, LostPc
<1>. QED  BY <1>2, CallHasOp DEF Inv

LEMMA StepKeeps ==
  ASSUME NEW kept \in BOOLEAN,
         DistinctTokens, OwnInv(kept), Inv', NEW t \in Thread, Step(t),
         NEW s \in Channel, th[t].cur = s
  PROVE  OwnInv(kept)' /\ Elsewhere(s)
<1>1. th[t].op # "none" /\ QuietThreads
  BY StepServes, StepQuiet DEF OwnInv
<1>. QED  BY <1>1, ListGetOwn, RemFindOwn, RemShiftOwn, IsEmptyOwn, MapRemoveOwn,
          ContainsKeyOwn, PutListOwn, GetListOwn, AddReadOwn, AddStoreOwn, UnsubscribeOwn,
          SubscribeOwn, SetProxiesOwn, CloseUnsubOwn, ReadCountOwn, PublishOwn
     DEF Step

LEMMA StepOwn ==
  ASSUME NEW kept \in BOOLEAN,
         DistinctTokens, OwnInv(kept), Inv', NEW t \in Thread, Step(t)
  PROVE  OwnInv(kept)'
<1>1. PICK s \in Channel : th[t].cur = s
  BY StepServes, OwnCall DEF OwnInv
<1>. QED  BY <1>1, StepKeeps

LEMMA NextOwn ==
  ASSUME NEW kept \in BOOLEAN, DistinctTokens, OwnInv(kept), [Next]_vars
  PROVE  OwnInv(kept)'
<1>0. Inv'
  BY NextInv DEF OwnInv
<1>1. ASSUME NEW c \in Channel, Connect(c) PROVE OwnInv(kept)'
  BY <1>0, <1>1, ConnectOwn
<1>2. ASSUME NEW c \in Channel, Register(c) PROVE OwnInv(kept)'
  BY <1>0, <1>2, RegisterOwn
<1>3. ASSUME NEW c \in Channel, Disconnect(c) PROVE OwnInv(kept)'
  BY <1>0, <1>3, DisconnectOwn
<1>4. ASSUME NEW c \in Channel, ChannelInactive(c) PROVE OwnInv(kept)'
  <2>1. th[c].pc = "inactive" /\ CloseSession(c, c) /\ c \in Thread
    BY <1>4 DEF ChannelInactive, At, Thread
  <2>2. th[c].op = "none"
    BY <2>1, CallPc DEF RestPc, OwnInv, Inv, Control, TypeOK, FrameOK
  <2>3. chan[c] = "closed"
    BY <2>1, <2>2 DEF OwnInv, Inv, Control, TypeOK, ChanOK
  <2>. QED  BY <1>0, <2>1, <2>3, CloseSessionOwn
<1>5. CASE LostScan
  BY <1>0, <1>5, LostScanOwn
<1>6. CASE LostClose
  <2>1. PICK s \in todo : CloseSession(LostTask, s)
    BY <1>6 DEF LostClose
  <2>2. s \in Channel /\ chan[s] = "closed" /\ LostTask \in Thread \ Channel
    BY ThreadAssumption DEF OwnInv, Inv, Control, TypeOK, ChanOK, Thread
  <2>. QED  BY <1>0, <2>1, <2>2, CloseSessionOwn
<1>7. ASSUME NEW t \in Thread, Step(t) PROVE OwnInv(kept)'
  BY <1>0, <1>7, StepOwn
<1>8. CASE UNCHANGED vars
  BY <1>0, <1>8 DEF vars, OwnInv, OwnOK, OwnFrame, OwnSession, OwnList, Arrives, Busy,
     Settled, Listed
<1>. QED  BY <1>1, <1>2, <1>3, <1>4, <1>5, <1>6, <1>7, <1>8 DEF Next

\* The strengthened invariant holds when no two gateways share an id.
THEOREM OwnInvariance == ASSUME DistinctTokens PROVE Spec => []OwnInv(TRUE)
<1>1. Init => OwnInv(TRUE)
  BY InitOwn
<1>2. OwnInv(TRUE) /\ [Next]_vars => OwnInv(TRUE)'
  BY NextOwn
<1>. QED  BY <1>1, <1>2, PTL DEF Spec

\* However the handlers of other gateways run, fail and end, findByDeviceId
\* finds a gateway that has an id of its own once its message has been handled
\* (SessionManager.deviceIdCreateEvent, deviceIdUpdateEvent, closeSession).
THEOREM SettledAreListed == ASSUME DistinctTokens PROVE Spec => []SettledIsListed
<1>1. OwnInv(TRUE) => SettledIsListed
  BY DEF OwnInv, Arrives, SettledIsListed
<1>. QED  BY <1>1, OwnInvariance, PTL

\* And its command topic has a subscription, which no closing session of
\* another gateway takes away (ControllerProxy, SessionManager.closeSession).
THEOREM SettledAreSubscribed == ASSUME DistinctTokens PROVE Spec => []SettledIsSubscribed
<1>1. OwnInv(TRUE) => SettledIsSubscribed
  BY DEF OwnInv, Arrives, SettledIsSubscribed
<1>. QED  BY <1>1, OwnInvariance, PTL
=============================================================================
