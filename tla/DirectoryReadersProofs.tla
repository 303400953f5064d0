------------------------ MODULE DirectoryReadersProofs ------------------------
(***************************************************************************)
(* The two that read the session directory while the handlers of           *)
(* SessionManager change it: the callback threads of the MQTT clients      *)
(* (CommandRelay) and the logics of the JSON-RPC server (JsonRpc).  First  *)
(* what a command can count on, then what an answer is worth, however many *)
(* gateways, clients, commands and requests there are.                     *)
(*                                                                         *)
(* Commands, when no two gateways share an id: a list holds one session at *)
(* most (OneListed), so that nobody is written twice, and while a gateway  *)
(* is settled its session is alone on the list of its id and nobody else   *)
(* touches that list.  Served says at every line of recieve what it has    *)
(* found and sent for such a gateway.  All that is known of the sessions   *)
(* is LifeInv(FALSE): the handlers share the subscriptions with            *)
(* connections that lose them.                                             *)
(*                                                                         *)
(* OnlyAfterLogin speaks of answers; Grant says it of every query that     *)
(* has got past the checks of the router.  Fit says of the frame of a      *)
(* logic which of its locals are set, and to what.                         *)
(*                                                                         *)
(* SteadyIsReported: a gateway that stays settled is in what the logic has *)
(* found or still has to look at (Found), and nobody else writes to the    *)
(* list of its device, so the walk over that list does not break (Walks).  *)
(*                                                                         *)
(* CalmIsExact: at rest the session map, the device map and the            *)
(* subscriptions say the same (RestingDirectory), and what a logic has     *)
(* found is that but for what it still has to look at (Calm).              *)
(***************************************************************************)
EXTENDS CommandRelay, JsonRpc, LifecycleProofs

-----------------------------------------------------------------------------
(* The commands.                                                           *)

\* A callback thread that looks up or goes on has a device and a list to look at,
\* and one whose client is not connected is not in the middle of recieve.
Reads(k) ==
  /\ In(k, "lookup") => rel[k].dev # Null
  /\ In(k, "iterate") => rel[k].lst # Null
  /\ k \notin up => rel[k].pc \in {"idle", "done", "failed"}

RelayBase ==
  /\ Inv
  /\ up \in SUBSET Mqtt
  /\ rel \in [Mqtt -> RelayFrames]
  /\ commands \in [Mqtt -> 0..MaxCommands]
  /\ \A k \in Mqtt : Reads(k)

\* A list is empty or holds the session that has made it.
OneListed == \A l \in ListId : lists[l] \in {<<>>, <<l[1]>>}

\* What recieve has found and what it has sent is one session at most.
OneFound(k) ==
  /\ Len(rel[k].found) + Len(rel[k].sent) <= 1
  /\ rel[k].pc \in {"lookup", "iterate"} => rel[k].sent = <<>>
  /\ In(k, "iterate") => rel[k].cursor = Len(rel[k].found)
  /\ rel[k].pc \notin {"iterate", "send"} => rel[k].found = <<>>

\* Where recieve is with a gateway that has been settled all the while.
Served(k, c) ==
  /\ Settled(c) /\ ses[c].deviceId = rel[k].dev
  /\ rel[k].pc \in {"lookup", "iterate", "send", "done"}
  /\ In(k, "iterate") => /\ rel[k].lst = <<c, rel[k].dev>> /\ ~rel[k].dirty
                         /\ rel[k].found \in {<<>>, <<c>>}
  /\ In(k, "send") => <<rel[k].found, rel[k].sent>> \in {<<(<<c>>), <<>>>>, <<(<<>>), <<c>>>>}
  /\ In(k, "done") => rel[k].sent = <<c>>

Serving(k) == OneFound(k) /\ \A c \in rel[k].steady : Served(k, c)

RelayInv == RelayBase /\ LifeInv(FALSE) /\ OneListed /\ \A k \in Mqtt : Serving(k)
-----------------------------------------------------------------------------
(* What the steps of a callback thread do to its frame.                    *)

\* The frame of k alone changes.
FrameOf(k) ==
  /\ rel' \in [Mqtt -> RelayFrames]
  /\ \A j \in Mqtt : j # k => rel'[j] = rel[j]

\* The command and the gateways that wait for it stay the same.
Same(k) == rel'[k].dev = rel[k].dev /\ rel'[k].steady = rel[k].steady

LEMMA NothingYet == ASSUME NEW S PROVE <<>> \in Seq(S)
OBVIOUS

LEMMA FrameMoves ==
  ASSUME RelayBase, NEW k \in Mqtt, NEW f \in RelayFrames, rel' = [rel EXCEPT ![k] = f]
  PROVE  FrameOf(k) /\ rel'[k] = f
BY DEF RelayBase, FrameOf

LEMMA ArriveFacts ==
  ASSUME RelayBase, NEW k \in Mqtt, Arrive(k)
  PROVE  /\ FrameOf(k) /\ k \in up /\ rel[k].pc \in {"idle", "done"}
         /\ rel'[k].pc = "lookup" /\ rel'[k].dev \in DeviceId
         /\ rel'[k].found = rel[k].found /\ rel'[k].sent = <<>>
         /\ rel'[k].steady = SettledAs(rel'[k].dev)
         /\ commands' \in [Mqtt -> 0..MaxCommands] /\ UNCHANGED <<vars, up>>
<1>1. PICK d \in subs :
        rel' = [rel EXCEPT ![k] = [@ EXCEPT !.pc = "lookup", !.dev = d, !.sent = <<>>,
                                            !.steady = SettledAs(d)]]
  BY DEF Arrive
<1> DEFINE f == [rel[k] EXCEPT !.pc = "lookup", !.dev = d, !.sent = <<>>,
                               !.steady = SettledAs(d)]
<1>2. rel[k] \in RelayFrames /\ d \in DeviceId /\ SettledAs(d) \in SUBSET Channel
  BY DEF RelayBase, Inv, Control, TypeOK, SettledAs
<1>3. /\ f \in RelayFrames /\ f.pc = "lookup" /\ f.dev = d /\ f.found = rel[k].found
      /\ f.sent = <<>> /\ f.steady = SettledAs(d)
  <2>1. <<>> \in Seq(Channel)
    BY NothingYet
  <2>2. f \in RelayFrames
    BY <1>2, <2>1 DEF RelayFrames, RelayPc
  <2>. QED  BY <1>2, <2>2 DEF RelayFrames
<1>4. rel' = [rel EXCEPT ![k] = f]
  BY <1>1
<1>. HIDE DEF f
<1>5. FrameOf(k) /\ rel'[k] = f
  BY <1>3, <1>4, FrameMoves
<1>6. commands' \in [Mqtt -> 0..MaxCommands]
  BY RelayAssumption DEF Arrive, RelayBase
<1>. QED  BY <1>2, <1>3, <1>5, <1>6 DEF Arrive

\* recieve throws: the connection is gone, and with it some subscriptions.
Fails(k) ==
  /\ FrameOf(k) /\ rel'[k].pc = "failed" /\ Same(k)
  /\ rel'[k].found = <<>> /\ rel'[k].sent = rel[k].sent
  /\ up' = up \ {k} /\ subs' \subseteq subs
  /\ UNCHANGED <<chan, directory, ses, sts, log, th, todo, failed, commands>>

LEMMA FailFacts ==
  ASSUME RelayBase, NEW k \in Mqtt, Fail(k)
  PROVE  Fails(k)
<1> DEFINE f == [rel[k] EXCEPT !.pc = "failed", !.lst = Null, !.cursor = 0,
                               !.dirty = FALSE, !.found = <<>>]
<1>1. rel[k] \in RelayFrames
  BY DEF RelayBase
<1>2. /\ f \in RelayFrames /\ f.pc = "failed" /\ f.found = <<>> /\ f.sent = rel[k].sent
      /\ f.dev = rel[k].dev /\ f.steady = rel[k].steady
  <2>1. <<>> \in Seq(Channel \cup {Null})
    BY NothingYet
  <2>2. f \in RelayFrames
    BY <1>1, <2>1 DEF RelayFrames, RelayPc
  <2>. QED  BY <1>1, <2>2 DEF RelayFrames
<1>3. rel' = [rel EXCEPT ![k] = f]
  BY DEF Fail
<1>. HIDE DEF f
<1>. QED  BY <1>2, <1>3, FrameMoves DEF Fail, Drop, Fails, Same

LEMMA LookupFacts ==
  ASSUME RelayBase, NEW k \in Mqtt, Lookup(k)
  PROVE  /\ In(k, "lookup") /\ k \in up /\ rel[k].dev \in DeviceId
         /\ \/ deviceMap[rel[k].dev] = Null /\ Fails(k)
            \/ /\ FrameOf(k) /\ Same(k)
               /\ rel'[k].pc = "iterate" /\ rel'[k].cursor = 0 /\ ~rel'[k].dirty
               /\ rel'[k].lst = deviceMap[rel[k].dev] /\ rel'[k].lst \in ListId
               /\ rel'[k].found = rel[k].found /\ rel'[k].sent = rel[k].sent
               /\ UNCHANGED <<vars, up, commands>>
<1> DEFINE l == deviceMap[rel[k].dev]
           f == [rel[k] EXCEPT !.pc = "iterate", !.lst = l, !.cursor = 0, !.dirty = FALSE]
<1>1. In(k, "lookup") /\ (l = Null \/ l # Null)
  BY DEF Lookup
<1>2. rel[k] \in RelayFrames /\ rel[k].dev \in DeviceId /\ k \in up
  BY <1>1 DEF RelayBase, RelayFrames, Reads, In
<1>3. l \in ListId \cup {Null}
  BY <1>2 DEF RelayBase, Inv, Control, TypeOK
<1>. HIDE DEF l
<1>4. CASE l = Null /\ Fail(k)
  BY <1>1, <1>2, <1>4, FailFacts DEF l
<1>5. CASE ~(l = Null /\ Fail(k))
  <2>1. l # Null /\ rel' = [rel EXCEPT ![k] = f] /\ UNCHANGED <<vars, up, commands>>
    BY <1>5 DEF Lookup, l
  <2>2. /\ f \in RelayFrames /\ f.pc = "iterate" /\ f.lst = l /\ f.cursor = 0 /\ f.dirty = FALSE
        /\ f.found = rel[k].found /\ f.sent = rel[k].sent
        /\ f.dev = rel[k].dev /\ f.steady = rel[k].steady
    BY <1>2, <1>3 DEF RelayFrames, RelayPc
  <2>. HIDE DEF f
  <2>3. FrameOf(k) /\ rel'[k] = f
    BY <2>1, <2>2, FrameMoves
  <2>4. l \in ListId
    BY <1>3, <2>1
  <2>. QED  BY <1>1, <1>2, <2>1, <2>2, <2>3, <2>4 DEF Same, l
<1>. QED  BY <1>4, <1>5

LEMMA FindProxyFacts ==
  ASSUME RelayBase, NEW k \in Mqtt, FindProxy(k),
         NEW l, l = lists[rel[k].lst]
  PROVE  /\ In(k, "iterate") /\ k \in up /\ rel[k].lst \in ListId
         /\ l \in ListOf(Channel \cup {Null})
         /\ \/ /\ rel[k].cursor = Size(l) /\ FrameOf(k) /\ Same(k)
               /\ rel'[k].pc = "send"
               /\ rel'[k].found = rel[k].found /\ rel'[k].sent = rel[k].sent
               /\ UNCHANGED <<vars, up, commands>>
            \/ /\ rel[k].cursor # Size(l) /\ Fails(k)
               /\ \/ rel[k].dirty
                  \/ rel[k].cursor < Size(l) => l[rel[k].cursor + 1] \notin sessionMap
            \/ /\ rel[k].cursor < Size(l) /\ ~rel[k].dirty /\ FrameOf(k) /\ Same(k)
               /\ l[rel[k].cursor + 1] \in sessionMap
               /\ rel'[k].pc = "iterate" /\ rel'[k].cursor = rel[k].cursor + 1
               /\ ~rel'[k].dirty /\ rel'[k].lst = rel[k].lst
               /\ rel'[k].found = Append(rel[k].found,
                    IF ses[l[rel[k].cursor + 1]].ctl = Null THEN Null
                    ELSE l[rel[k].cursor + 1])
               /\ rel'[k].sent = rel[k].sent
               /\ UNCHANGED <<vars, up, commands>>
<1> DEFINE n == rel[k].cursor
           s == IF n < Size(l) THEN l[n + 1] ELSE Null
           x == IF ses[s].ctl = Null THEN Null ELSE s
           e == [rel[k] EXCEPT !.pc = "send", !.dirty = FALSE]
           f == [rel[k] EXCEPT !.cursor = n + 1, !.found = Append(rel[k].found, x)]
<1>1. /\ In(k, "iterate")
      /\ \/ /\ n = Size(l) /\ rel' = [rel EXCEPT ![k] = e] /\ UNCHANGED <<vars, up, commands>>
         \/ n # Size(l) /\ (rel[k].dirty \/ s \notin sessionMap) /\ Fail(k)
         \/ /\ n # Size(l) /\ ~rel[k].dirty /\ s \in sessionMap
            /\ rel' = [rel EXCEPT ![k] = f] /\ UNCHANGED <<vars, up, commands>>
  BY Zenon DEF FindProxy
<1>2. /\ rel[k] \in RelayFrames /\ rel[k].lst # Null /\ k \in up
      /\ sessionMap \subseteq Channel /\ Null \notin Channel
  BY <1>1, ThreadAssumption DEF RelayBase, Reads, In, Inv, Control, TypeOK
<1>3. rel[k].lst \in ListId /\ l \in ListOf(Channel \cup {Null}) /\ n \in Nat
  BY <1>2 DEF RelayFrames, RelayBase, Inv, Control, TypeOK
<1>4. CASE n = Size(l) /\ rel' = [rel EXCEPT ![k] = e] /\ UNCHANGED <<vars, up, commands>>
  <2>1. /\ e \in RelayFrames /\ e.pc = "send" /\ e.found = rel[k].found
        /\ e.sent = rel[k].sent /\ e.dev = rel[k].dev /\ e.steady = rel[k].steady
    BY <1>2 DEF RelayFrames, RelayPc
  <2>. HIDE DEF e
  <2>2. FrameOf(k) /\ rel'[k] = e
    BY <1>4, <2>1, FrameMoves
  <2>. QED  BY <1>1, <1>2, <1>3, <1>4, <2>1, <2>2 DEF Same
<1>5. CASE n # Size(l) /\ (rel[k].dirty \/ s \notin sessionMap) /\ Fail(k)
  <2>1. Fails(k)
    BY <1>5, FailFacts
  <2>2. rel[k].dirty \/ (n < Size(l) => l[n + 1] \notin sessionMap)
    BY <1>5
  <2>. QED  BY <1>1, <1>2, <1>3, <1>5, <2>1, <2>2
<1>6. CASE /\ n # Size(l) /\ ~rel[k].dirty /\ s \in sessionMap
           /\ rel' = [rel EXCEPT ![k] = f] /\ UNCHANGED <<vars, up, commands>>
  <2>1. n < Size(l) /\ s = l[n + 1] /\ s \in Channel
    BY <1>2, <1>6
  <2>2. x \in Channel \cup {Null}
    BY <2>1
  <2>3. x = IF ses[l[n + 1]].ctl = Null THEN Null ELSE l[n + 1]
    BY <2>1
  <2>. HIDE DEF x
  <2>4. rel[k].found \in Seq(Channel \cup {Null})
    BY <1>2 DEF RelayFrames
  <2>5. Append(rel[k].found, x) \in Seq(Channel \cup {Null})
    BY <2>2, <2>4
  <2>6. f \in RelayFrames
    <3>1. n + 1 \in Nat
      BY <1>3
    <3>. HIDE DEF n
    <3>2. f = [rel[k] EXCEPT !.cursor = n + 1, !.found = Append(rel[k].found, x)]
      BY <1>2 DEF RelayFrames, n
    <3>. QED  BY <1>2, <2>5, <3>1, <3>2 DEF RelayFrames
  <2>7. /\ f.pc = rel[k].pc /\ f.cursor = n + 1 /\ f.dirty = rel[k].dirty
        /\ f.lst = rel[k].lst /\ f.found = Append(rel[k].found, x)
        /\ f.sent = rel[k].sent /\ f.dev = rel[k].dev /\ f.steady = rel[k].steady
    BY <1>2 DEF RelayFrames
  <2>. HIDE DEF f, s
  <2>8. FrameOf(k) /\ rel'[k] = f
    BY <1>6, <2>6, FrameMoves
  <2>. QED  BY <1>1, <1>2, <1>3, <1>6, <2>1, <2>3, <2>7, <2>8 DEF Same, In
<1>. HIDE DEF e, f, s
<1>. QED  BY <1>1, <1>4, <1>5, <1>6

LEMMA SendCommandFacts ==
  ASSUME RelayBase, NEW k \in Mqtt, SendCommand(k)
  PROVE  /\ In(k, "send") /\ k \in up
         /\ \/ /\ rel[k].found = <<>> /\ FrameOf(k) /\ Same(k)
               /\ rel'[k].pc = "done"
               /\ rel'[k].found = rel[k].found /\ rel'[k].sent = rel[k].sent
               /\ UNCHANGED <<vars, up, commands>>
            \/ /\ rel[k].found # <<>> /\ Head(rel[k].found) \in sessionMap
               /\ FrameOf(k) /\ Same(k) /\ rel'[k].pc = "send"
               /\ rel'[k].found = Tail(rel[k].found)
               /\ rel'[k].sent = Append(rel[k].sent, Head(rel[k].found))
               /\ UNCHANGED <<vars, up, commands>>
            \/ /\ rel[k].found # <<>> /\ Fails(k)
               /\ Head(rel[k].found) \notin {s \in sessionMap : ses[s].proxied}
<1> DEFINE h == Head(rel[k].found)
           e == [rel[k] EXCEPT !.pc = "done", !.lst = Null, !.cursor = 0]
           f == [rel[k] EXCEPT !.found = Tail(rel[k].found), !.sent = Append(rel[k].sent, h)]
<1>1. /\ In(k, "send")
      /\ \/ /\ rel[k].found = <<>>
            /\ rel' = [rel EXCEPT ![k] = e] /\ UNCHANGED <<vars, up, commands>>
         \/ /\ rel[k].found # <<>> /\ h \in sessionMap
            /\ rel' = [rel EXCEPT ![k] = f] /\ UNCHANGED <<vars, up, commands>>
         \/ /\ rel[k].found # <<>> /\ h \notin {s \in sessionMap : ses[s].proxied}
            /\ Fail(k)
  <2>1. In(k, "send")
    BY DEF SendCommand
  <2>2. CASE \E s \in sessionMap : /\ rel[k].found # <<>> /\ s = Head(rel[k].found)
                                   /\ RecieveCommand(k, s)
    <3>1. /\ rel[k].found # <<>> /\ h \in sessionMap /\ RecieveCommand(k, h)
      BY <2>2, Zenon
    <3>. HIDE DEF h
    <3>. QED  BY <2>1, <3>1 DEF RecieveCommand
  <2>3. CASE rel[k].found # <<>> /\ Fail(k) /\ h \notin {s \in sessionMap : ses[s].proxied}
    BY <2>1, <2>3
  <2>4. CASE rel[k].found = <<>> /\ rel' = [rel EXCEPT ![k] = e]
             /\ UNCHANGED <<vars, up, commands>>
    BY <2>1, <2>4
  <2>. QED  BY <2>2, <2>3, <2>4 DEF SendCommand
<1>2. /\ rel[k] \in RelayFrames /\ k \in up /\ sessionMap \subseteq Channel
  BY <1>1 DEF RelayBase, Reads, In, Inv, Control, TypeOK
<1>3. rel[k].found \in Seq(Channel \cup {Null}) /\ rel[k].sent \in Seq(Channel)
  BY <1>2 DEF RelayFrames
<1>4. CASE /\ rel[k].found = <<>>
           /\ rel' = [rel EXCEPT ![k] = e] /\ UNCHANGED <<vars, up, commands>>
  <2>1. /\ e \in RelayFrames /\ e.pc = "done" /\ e.found = rel[k].found
        /\ e.sent = rel[k].sent /\ e.dev = rel[k].dev /\ e.steady = rel[k].steady
    BY <1>2 DEF RelayFrames, RelayPc
  <2>. HIDE DEF e
  <2>2. FrameOf(k) /\ rel'[k] = e
    BY <1>4, <2>1, FrameMoves
  <2>. QED  BY <1>1, <1>2, <1>4, <2>1, <2>2 DEF Same
<1>5. CASE /\ rel[k].found # <<>> /\ h \in sessionMap
           /\ rel' = [rel EXCEPT ![k] = f] /\ UNCHANGED <<vars, up, commands>>
  <2>1. Tail(rel[k].found) \in Seq(Channel \cup {Null}) /\ Append(rel[k].sent, h) \in Seq(Channel)
    BY <1>2, <1>3, <1>5
  <2>2. f \in RelayFrames
    BY <1>2, <2>1 DEF RelayFrames
  <2>3. /\ f.pc = rel[k].pc /\ f.found = Tail(rel[k].found) /\ f.sent = Append(rel[k].sent, h)
        /\ f.dev = rel[k].dev /\ f.steady = rel[k].steady
    BY <1>2 DEF RelayFrames
  <2>. HIDE DEF f
  <2>4. FrameOf(k) /\ rel'[k] = f
    BY <1>5, <2>2, FrameMoves
  <2>. QED  BY <1>1, <1>2, <1>5, <2>3, <2>4 DEF Same, In
<1>6. CASE /\ rel[k].found # <<>> /\ h \notin {s \in sessionMap : ses[s].proxied}
           /\ Fail(k)
  BY <1>1, <1>2, <1>6, FailFacts
<1>. HIDE DEF e, f, h
<1>. QED  BY <1>1, <1>4, <1>5, <1>6

LEMMA ReconnectFacts ==
  ASSUME RelayBase, NEW k \in Mqtt, Reconnect(k)
  PROVE  /\ FrameOf(k) /\ k \notin up /\ up' = up \cup {k}
         /\ rel[k].pc \in {"idle", "done", "failed"}
         /\ rel'[k].pc = "idle" /\ rel'[k].steady = {}
         /\ rel'[k].found = rel[k].found /\ rel'[k].sent = <<>>
         /\ UNCHANGED <<vars, commands>>
<1> DEFINE f == [rel[k] EXCEPT !.pc = "idle", !.dev = Null, !.sent = <<>>, !.steady = {}]
<1>1. rel[k] \in RelayFrames
  BY DEF RelayBase
<1>2. /\ f \in RelayFrames /\ f.pc = "idle" /\ f.found = rel[k].found
      /\ f.sent = <<>> /\ f.steady = {}
  <2>1. <<>> \in Seq(Channel)
    BY NothingYet
  <2>2. f \in RelayFrames
    BY <1>1, <2>1 DEF RelayFrames, RelayPc
  <2>. QED  BY <1>1, <2>2 DEF RelayFrames
<1>3. rel' = [rel EXCEPT ![k] = f]
  BY DEF Reconnect
<1>. HIDE DEF f
<1>4. FrameOf(k) /\ rel'[k] = f
  BY <1>2, <1>3, FrameMoves
<1>5. k \notin up /\ up' = up \cup {k} /\ UNCHANGED <<vars, commands>>
  BY DEF Reconnect
<1>6. rel[k].pc \in {"idle", "done", "failed"}
  BY <1>5 DEF RelayBase, Reads
<1>. QED  BY <1>2, <1>4, <1>5, <1>6

\* While the handlers of SessionManager go on, an iterator may become invalid
\* and a gateway may cease to be settled; nothing else happens to a frame.
LEMMA SessionStepFacts ==
  ASSUME RelayBase, HandlerStep
  PROVE  /\ rel' \in [Mqtt -> RelayFrames] /\ UNCHANGED <<up, commands>>
         /\ \A k \in Mqtt :
              /\ rel'[k].pc = rel[k].pc /\ rel'[k].dev = rel[k].dev
              /\ rel'[k].lst = rel[k].lst /\ rel'[k].cursor = rel[k].cursor
              /\ rel'[k].found = rel[k].found /\ rel'[k].sent = rel[k].sent
              /\ rel'[k].dirty => rel[k].dirty \/ (In(k, "iterate") /\ Modifies(rel[k].lst))
              /\ \A c \in rel'[k].steady : /\ c \in rel[k].steady
                                           /\ th'[c].pc \in {"idle", "registered"}
                                           /\ ses'[c].deviceId = rel[k].dev
<1> DEFINE dirt(k) == rel[k].dirty \/ (In(k, "iterate") /\ Modifies(rel[k].lst))
           stay(k) == {c \in rel[k].steady : th'[c].pc \in {"idle", "registered"}
                                             /\ ses'[c].deviceId = rel[k].dev}
           f(k) == [rel[k] EXCEPT !.dirty = dirt(k), !.steady = stay(k)]
<1>1. rel' = [k \in Mqtt |-> f(k)] /\ UNCHANGED <<up, commands>>
  BY DEF HandlerStep
<1>2. ASSUME NEW k \in Mqtt
      PROVE  /\ f(k) \in RelayFrames
             /\ f(k).pc = rel[k].pc /\ f(k).dev = rel[k].dev /\ f(k).lst = rel[k].lst
             /\ f(k).cursor = rel[k].cursor
             /\ f(k).found = rel[k].found /\ f(k).sent = rel[k].sent
             /\ f(k).dirty = dirt(k) /\ f(k).steady = stay(k)
  <2>1. rel[k] \in RelayFrames /\ rel[k].steady \in SUBSET Channel
    BY DEF RelayBase, RelayFrames
  <2>2. dirt(k) \in BOOLEAN
    OBVIOUS
  <2>3. stay(k) \in SUBSET Channel
    BY <2>1
  <2>. HIDE DEF dirt, stay
  <2>4. f(k) \in RelayFrames
    BY <2>1, <2>2, <2>3 DEF RelayFrames
  <2>. QED  BY <2>1, <2>4 DEF RelayFrames
<1>. HIDE DEF f
<1>3. rel' \in [Mqtt -> RelayFrames] /\ \A k \in Mqtt : rel'[k] = f(k)
  BY <1>1, <1>2
<1>4. ASSUME NEW k \in Mqtt
      PROVE  /\ rel'[k].dirty => dirt(k)
             /\ \A c \in rel'[k].steady : c \in stay(k)
  BY <1>2, <1>3, Zenon
<1>. QED  BY <1>1, <1>2, <1>3, <1>4

LEMMA LostFacts ==
  ASSUME RelayBase, NEW k \in Mqtt, ConnectionLost(k)
  PROVE  /\ rel' = rel /\ rel[k].pc \in {"idle", "done"}
         /\ up' = up \ {k} /\ subs' \subseteq subs
         /\ UNCHANGED <<chan, directory, ses, sts, log, th, todo, failed, commands>>
BY DEF ConnectionLost, Drop

-----------------------------------------------------------------------------
(* Types.                                                                  *)

\* Losing subscriptions does not disturb the handlers.
LEMMA DropInv ==
  ASSUME Inv, subs' \subseteq subs,
         UNCHANGED <<chan, directory, ses, sts, log, th, todo, failed>>
  PROVE  Inv'
<1>1. UNCHANGED <<chan, sessionMap, deviceMap, lists, ses, sts, log, th, todo, failed>>
  BY DEF directory
<1>2. TypeOK'
  BY <1>1 DEF Inv, Control, TypeOK
<1>3. FrameOK' /\ ChanOK'
  BY <1>1 DEF Inv, Control, FrameOK, Fits, ChanOK
<1>4. LiveSession' /\ CloseOK' /\ OffIsLast'
  BY <1>1 DEF Inv, Announce, LiveSession, CloseOK, NoOff, OffIsLast
<1>. QED  BY <1>2, <1>3, <1>4 DEF Inv, Control, Announce

LEMMA RelayInitBase == RelayInit => RelayBase
<1>. SUFFICES ASSUME RelayInit PROVE RelayBase
  OBVIOUS
<1> DEFINE f == [pc |-> "idle", dev |-> Null, lst |-> Null, cursor |-> 0,
                 dirty |-> FALSE, found |-> <<>>, sent |-> <<>>, steady |-> {}]
<1>1. Init /\ up = Mqtt /\ rel = [k \in Mqtt |-> f] /\ commands = [k \in Mqtt |-> 0]
  BY DEF RelayInit
<1>2. f \in RelayFrames /\ f.pc = "idle"
  <2>1. <<>> \in Seq(Channel) /\ <<>> \in Seq(Channel \cup {Null})
    BY NothingYet
  <2>. QED  BY <2>1 DEF RelayFrames, RelayPc
<1>. HIDE DEF f
<1>3. rel \in [Mqtt -> RelayFrames] /\ \A k \in Mqtt : rel[k].pc = "idle"
  BY <1>1, <1>2
<1>4. commands \in [Mqtt -> 0..MaxCommands]
  BY <1>1, RelayAssumption
<1>5. Inv
  BY <1>1, InitInv
<1>. QED  BY <1>1, <1>3, <1>4, <1>5 DEF RelayBase, Reads, In

\* A step of the callback thread of k, and what is left to show of it.
LEMMA FrameBase ==
  ASSUME RelayBase, Inv', NEW k \in Mqtt, FrameOf(k),
         up' \in {up, up \ {k}, up \cup {k}}, commands' \in [Mqtt -> 0..MaxCommands],
         Reads(k)'
  PROVE  RelayBase'
<1>1. ASSUME NEW j \in Mqtt, j # k PROVE Reads(j)'
  <2>1. rel'[j] = rel[j] /\ (j \in up' <=> j \in up)
    BY <1>1 DEF FrameOf
  <2>. QED  BY <2>1 DEF RelayBase, Reads, In
<1>. QED  BY <1>1 DEF RelayBase, FrameOf

LEMMA FailsBase ==
  ASSUME RelayBase, NEW k \in Mqtt, Fails(k)
  PROVE  RelayBase'
<1>1. Inv'
  BY DropInv DEF RelayBase, Fails
<1>2. Reads(k)'
  BY DEF Fails, Reads, In
<1>. QED  BY <1>1, <1>2, FrameBase DEF Fails, RelayBase

LEMMA SameInv ==
  ASSUME Inv, UNCHANGED vars
  PROVE  Inv'
BY NextInv

LEMMA RelayNextBase == RelayBase /\ [RelayNext]_relayVars => RelayBase'
<1>. SUFFICES ASSUME RelayBase, [RelayNext]_relayVars PROVE RelayBase'
  OBVIOUS
<1>0. Inv /\ commands \in [Mqtt -> 0..MaxCommands]
  BY DEF RelayBase
<1>1. CASE HandlerStep
  <2>1. Inv'
    BY <1>0, <1>1, NextInv DEF HandlerStep
  <2>2. \A k \in Mqtt : Reads(k)'
    BY <1>1, SessionStepFacts DEF RelayBase, Reads, In
  <2>. QED  BY <1>1, <2>1, <2>2, SessionStepFacts DEF RelayBase
<1>2. ASSUME NEW k \in Mqtt, Arrive(k) PROVE RelayBase'
  <2>1. Reads(k)' /\ FrameOf(k) /\ up' = up
    BY <1>2, ArriveFacts, ThreadAssumption DEF Reads, In
  <2>. QED  BY <1>0, <1>2, <2>1, ArriveFacts, SameInv, FrameBase
<1>3. ASSUME NEW k \in Mqtt, Lookup(k) PROVE RelayBase'
  <2>1. CASE Fails(k)
    BY <2>1, FailsBase
  <2>2. CASE ~Fails(k)
    <3>1. Reads(k)' /\ FrameOf(k) /\ UNCHANGED <<vars, up, commands>>
      BY <1>3, <2>2, LookupFacts, ThreadAssumption DEF Reads, In, ListId
    <3>. QED  BY <1>0, <3>1, SameInv, FrameBase
  <2>. QED  BY <2>1, <2>2
<1>4. ASSUME NEW k \in Mqtt, FindProxy(k) PROVE RelayBase'
  <2>1. CASE Fails(k)
    BY <2>1, FailsBase
  <2>2. CASE ~Fails(k)
    <3>1. /\ FrameOf(k) /\ UNCHANGED <<vars, up, commands>> /\ k \in up
          /\ rel'[k].pc = "send" \/ (rel'[k].pc = "iterate" /\ rel'[k].lst = rel[k].lst)
          /\ In(k, "iterate")
      BY <1>4, <2>2, FindProxyFacts
    <3>2. Reads(k)'
      BY <3>1 DEF RelayBase, Reads, In
    <3>. QED  BY <1>0, <3>1, <3>2, SameInv, FrameBase
  <2>. QED  BY <2>1, <2>2
<1>5. ASSUME NEW k \in Mqtt, SendCommand(k) PROVE RelayBase'
  <2>1. CASE Fails(k)
    BY <2>1, FailsBase
  <2>2. CASE ~Fails(k)
    <3>1. /\ FrameOf(k) /\ UNCHANGED <<vars, up, commands>> /\ k \in up
          /\ rel'[k].pc \in {"send", "done"}
      BY <1>5, <2>2, SendCommandFacts
    <3>2. Reads(k)'
      BY <3>1 DEF Reads, In
    <3>. QED  BY <1>0, <3>1, <3>2, SameInv, FrameBase
  <2>. QED  BY <2>1, <2>2
<1>6. ASSUME NEW k \in Mqtt, ConnectionLost(k) PROVE RelayBase'
  <2>1. Inv' /\ rel' = rel /\ up' = up \ {k} /\ commands' = commands
    BY <1>0, <1>6, LostFacts, DropInv
  <2>2. \A j \in Mqtt : Reads(j)'
    BY <1>6, <2>1, LostFacts DEF RelayBase, Reads, In
  <2>. QED  BY <2>1, <2>2 DEF RelayBase
<1>7. ASSUME NEW k \in Mqtt, Reconnect(k) PROVE RelayBase'
  <2>1. Reads(k)' /\ FrameOf(k) /\ up' = up \cup {k} /\ UNCHANGED <<vars, commands>>
    BY <1>7, ReconnectFacts DEF Reads, In
  <2>. QED  BY <1>0, <2>1, SameInv, FrameBase
<1>8. CASE UNCHANGED relayVars
  <2>1. UNCHANGED <<vars, up, rel, commands>>
    BY <1>8 DEF relayVars
  <2>. QED  BY <1>0, <2>1, SameInv DEF RelayBase, Reads, In
<1>. QED  BY <1>1, <1>2, <1>3, <1>4, <1>5, <1>6, <1>7, <1>8 DEF RelayNext

THEOREM RelayInvariance == RelaySpec => []RelayBase
BY RelayInitBase, RelayNextBase, PTL DEF RelaySpec

\* The variables of the relay keep their types, and the for-each of recieve
\* always has a list to go over, whatever ids the gateways share
\* (MqttProxy.recieve, ControllerProxyManager.findByDeviceId).
THEOREM RelayTypeCorrect == RelaySpec => []RelayTypeOK
<1>1. RelayBase => RelayTypeOK
  BY DEF RelayBase, Reads, In, RelayTypeOK
<1>. QED  BY <1>1, RelayInvariance, PTL

-----------------------------------------------------------------------------
(* What recieve can count on in the directory.                             *)

LEMMA DropLife ==
  ASSUME LifeInv(FALSE), subs' \subseteq subs,
         UNCHANGED <<chan, directory, ses, sts, log, th, todo, failed>>
  PROVE  LifeInv(FALSE)'
<1>1. UNCHANGED <<chan, sessionMap, deviceMap, lists, ses, sts, th, failed>>
  BY DEF directory
<1>2. OwnInv(FALSE)'
  <2>1. Inv'
    BY DropInv DEF LifeInv, OwnInv
  <2>2. OwnOK'
    BY <1>1 DEF LifeInv, OwnInv, OwnOK, OwnFrame, OwnSession, OwnList
  <2>3. \A c \in Channel : Arrives(c, FALSE)'
    BY <1>1 DEF LifeInv, OwnInv, Arrives, Busy, Settled, Listed
  <2>. QED  BY <2>1, <2>2, <2>3 DEF OwnInv
<1>3. ASSUME NEW c \in Channel PROVE Life(c, FALSE)' <=> Life(c, FALSE)
  BY <1>1 DEF Life, Tidy, Settled, Serves, Up, Down, Stage, Locals, Fields, Controller, Known,
     Heard, Keys, Topics, Unlisted, Told
<1>. QED  BY <1>2, <1>3 DEF LifeInv

\* The list a handler changes is the one of its session and its device, and it is
\* under that id in the directory.
LEMMA StepOneListed ==
  ASSUME NEW kept \in BOOLEAN, LifeInv(kept), LifeInv(kept)', OneListed,
         NEW t \in Thread, Step(t)
  PROVE  OneListed'
<1> DEFINE Changes == RemShift(t) \/ PutList(t) \/ AddStore(t)
<1>1. CASE ~Changes
  <2>1. UNCHANGED lists
    BY <1>1 DEF Step, directory, ListGet, RemFind, IsEmpty, MapRemove, ContainsKey, GetList,
       AddRead, Unsubscribe, Subscribe, SetController, SetDevice, CloseUnsub, ReadCount, Publish
  <2>. QED  BY <2>1 DEF OneListed
<1>2. CASE Changes
  <2>1. PICK s \in Channel : th[t].cur = s /\ Serves(t, s)
    BY StepServes, OwnCall DEF LifeInv, OwnInv, Serves
  <2>2. PICK d \in DeviceId : th[t].dev = d /\ d \in Own(s) /\ <<s, d>> \in ListId
    BY <2>1, ServerFacts DEF LifeInv
  <2>3. Stage(t, s, kept)
    BY <2>1 DEF LifeInv, Life
  <2>4. deviceMap'[d] = <<s, d>> /\ (th[t].pc \in {"remShift", "addStore"} => th[t].lst = <<s, d>>)
    <3>1. CASE PutList(t)
      BY <2>1, <2>2, <3>1 DEF PutList, At, LifeInv, OwnInv, Inv, Control, TypeOK
    <3>2. CASE RemShift(t) \/ AddStore(t)
      <4>1. th[t].pc \in {"remShift", "addStore"} /\ UNCHANGED deviceMap
        BY <3>2 DEF RemShift, AddStore, At
      <4>2. ~Unlisted(t) /\ th[t].pc \in ListPc
        BY <4>1 DEF Unlisted, GoodbyePc, ListPc
      <4>. QED  BY <2>2, <2>3, <4>1, <4>2 DEF Stage, Locals, Known, Keys
    <3>. QED  BY <1>2, <3>1, <3>2
  <2>5. \A l \in ListId : l # <<s, d>> => lists'[l] = lists[l]
    <3>1. lists \in [ListId -> ListOf(Channel \cup {Null})]
      BY DEF LifeInv, OwnInv, Inv, Control, TypeOK
    <3>2. CASE RemShift(t)
      <4>1. lists' = [lists EXCEPT ![th[t].lst] = ShiftFrom(@, th[t].idx)]
        BY <3>2 DEF RemShift
      <4>2. th[t].lst = <<s, d>>
        BY <2>4, <3>2 DEF RemShift, At
      <4>. QED  BY <2>2, <3>1, <4>1, <4>2
    <3>3. CASE PutList(t)
      BY <2>1, <2>2, <3>1, <3>3 DEF PutList
    <3>4. CASE AddStore(t)
      <4>1. lists' = [lists EXCEPT ![th[t].lst] = StoreAt(@, th[t].idx, th[t].cur)]
        BY <3>4 DEF AddStore
      <4>2. th[t].lst = <<s, d>>
        BY <2>4, <3>4 DEF AddStore, At
      <4>. QED  BY <2>2, <3>1, <4>1, <4>2
    <3>. QED  BY <1>2, <3>2, <3>3, <3>4
  <2>6. lists'[<<s, d>>] \in {<<>>, <<s>>}
    <3>1. Tidy(s)'
      BY DEF LifeInv, Life
    <3>2. <<s, d>> # Null
      BY ThreadAssumption
    <3>. QED  BY <2>2, <2>4, <3>1, <3>2 DEF Tidy
  <2>7. ASSUME NEW l \in ListId PROVE lists'[l] \in {<<>>, <<l[1]>>}
    <3>1. CASE l = <<s, d>>
      BY <2>6, <3>1
    <3>2. CASE l # <<s, d>>
      BY <2>5, <3>2 DEF OneListed
    <3>. QED  BY <3>1, <3>2
  <2>. QED  BY <2>7 DEF OneListed
<1>. QED  BY <1>1, <1>2

LEMMA NextOneListed ==
  ASSUME NEW kept \in BOOLEAN, LifeInv(kept), LifeInv(kept)', OneListed, [Next]_vars
  PROVE  OneListed'
<1>1. CASE \E t \in Thread : Step(t)
  BY <1>1, StepOneListed
<1>2. CASE ~\E t \in Thread : Step(t)
  <2>1. UNCHANGED lists
    BY <1>2 DEF Next, Connect, Register, Disconnect, ChannelInactive, LostScan, LostClose,
       CloseSession, directory, vars
  <2>. QED  BY <2>1 DEF OneListed
<1>. QED  BY <1>1, <1>2

\* A settled gateway is where a command for it looks, with its proxies.
LEMMA SettledFacts ==
  ASSUME LifeInv(FALSE), NEW c \in Channel, Settled(c), NEW d, ses[c].deviceId = d
  PROVE  /\ d \in DeviceId /\ deviceMap[d] = <<c, d>> /\ <<c, d>> \in ListId
         /\ lists[<<c, d>>] = <<c>>
         /\ c \in sessionMap /\ ses[c].proxied /\ ses[c].ctl # Null
BY SettledIsUp

\* And no handler is changing its list.
LEMMA NobodyModifies ==
  ASSUME OwnInv(FALSE), NEW c \in Channel, Settled(c), NEW d \in DeviceId
  PROVE  ~Modifies(<<c, d>>)
BY SettledIsAlone DEF Modifies

-----------------------------------------------------------------------------
(* What recieve does for a gateway that is settled all the while.          *)

\* The other callback threads go on as they were.
LEMMA FrameServing ==
  ASSUME \A j \in Mqtt : Serving(j), NEW k \in Mqtt, FrameOf(k), UNCHANGED <<th, ses>>,
         Serving(k)'
  PROVE  (\A j \in Mqtt : Serving(j))'
<1>1. ASSUME NEW j \in Mqtt, j # k PROVE Serving(j)'
  <2>1. rel'[j] = rel[j]
    BY <1>1 DEF FrameOf
  <2>2. OneFound(j)' <=> OneFound(j)
    BY <2>1 DEF OneFound, In
  <2>3. \A c \in rel[j].steady : Served(j, c)' <=> Served(j, c)
    BY <2>1 DEF Served, In, Settled
  <2>. QED  BY <2>1, <2>2, <2>3 DEF Serving
<1>. QED  BY <1>1

\* A sequence that holds one element at most.
LEMMA ShortSeq ==
  ASSUME NEW S, NEW q \in Seq(S), Len(q) <= 1
  PROVE  q = <<>> \/ (Len(q) = 1 /\ q = <<q[1]>> /\ Head(q) = q[1] /\ Tail(q) = <<>>)
<1>1. CASE Len(q) = 0
  BY <1>1
<1>2. CASE Len(q) = 1
  <2>1. q = <<q[1]>>
    BY <1>2
  <2>2. Head(q) = q[1]
    BY <1>2
  <2>3. Tail(q) = <<>>
    <3>1. Tail(q) \in Seq(S) /\ Len(Tail(q)) = 0
      BY <1>2
    <3>. QED  BY <3>1
  <2>. QED  BY <1>2, <2>1, <2>2, <2>3
<1>3. Len(q) = 0 \/ Len(q) = 1
  <2>1. \A n \in Nat : n <= 1 => n = 0 \/ n = 1
    OBVIOUS
  <2>2. Len(q) \in Nat
    OBVIOUS
  <2>. QED  BY <2>1, <2>2, Zenon
<1>. QED  BY <1>1, <1>2, <1>3

\* recieve may throw when no gateway waits for the command.
LEMMA FailsServing ==
  ASSUME RelayInv, NEW k \in Mqtt, Fails(k), rel[k].steady = {}
  PROVE  (\A j \in Mqtt : Serving(j))'
<1>1. UNCHANGED <<th, ses>> /\ OneFound(k)
  BY DEF RelayInv, Fails, Serving
<1>2. rel[k] \in RelayFrames
  BY DEF RelayInv, RelayBase
<1>3. Len(rel[k].found) \in Nat /\ Len(rel[k].sent) \in Nat
  BY <1>2 DEF RelayFrames
<1>4. OneFound(k)'
  <2>1. Len(<<>>) = 0
    OBVIOUS
  <2>2. /\ rel'[k].pc = "failed" /\ rel'[k].found = <<>> /\ rel'[k].sent = rel[k].sent
        /\ Len(rel[k].found) + Len(rel[k].sent) <= 1
    BY <1>1 DEF Fails, OneFound
  <2>3. Len(rel'[k].found) = 0 /\ Len(rel'[k].sent) = Len(rel[k].sent)
    BY <2>1, <2>2, Zenon
  <2>4. Len(rel'[k].found) + Len(rel'[k].sent) <= 1
    <3>1. \A m, n \in Nat : m + n <= 1 => 0 + n <= 1
      OBVIOUS
    <3>. QED  BY <1>3, <2>2, <2>3, <3>1, Zenon
  <2>. QED  BY <2>2, <2>4 DEF OneFound, In
<1>5. Serving(k)'
  BY <1>4 DEF Fails, Same, Serving
<1>. QED  BY <1>1, <1>5, FrameServing DEF RelayInv, Fails

LEMMA ArriveServing ==
  ASSUME RelayInv, NEW k \in Mqtt, Arrive(k)
  PROVE  (\A j \in Mqtt : Serving(j))'
<1>1. /\ FrameOf(k) /\ UNCHANGED <<th, ses>> /\ rel[k].pc \in {"idle", "done"}
      /\ rel'[k].pc = "lookup" /\ rel'[k].found = rel[k].found /\ rel'[k].sent = <<>>
      /\ rel'[k].steady = SettledAs(rel'[k].dev)
  BY ArriveFacts DEF RelayInv, vars
<1>2. rel'[k].found = <<>>
  BY <1>1 DEF RelayInv, Serving, OneFound, In
<1>3. OneFound(k)'
  BY <1>1, <1>2 DEF OneFound, In
<1>4. ASSUME NEW c \in rel'[k].steady PROVE Served(k, c)'
  BY <1>1, <1>4 DEF Served, In, SettledAs, Settled
<1>5. Serving(k)'
  BY <1>3, <1>4 DEF Serving
<1>. QED  BY <1>1, <1>5, FrameServing DEF RelayInv

LEMMA LookupServing ==
  ASSUME RelayInv, NEW k \in Mqtt, Lookup(k)
  PROVE  (\A j \in Mqtt : Serving(j))'
<1>1. In(k, "lookup") /\ OneFound(k) /\ rel[k].steady \subseteq Channel
  BY LookupFacts DEF RelayInv, Serving, RelayBase, RelayFrames
<1>2. ASSUME NEW c \in rel[k].steady
      PROVE  /\ Settled(c) /\ ses[c].deviceId = rel[k].dev
             /\ deviceMap[rel[k].dev] = <<c, rel[k].dev>>
             /\ <<c, rel[k].dev>> \in ListId
  <2>1. c \in Channel /\ Settled(c) /\ ses[c].deviceId = rel[k].dev
    BY <1>1, <1>2 DEF RelayInv, Serving, Served
  <2>. QED  BY <2>1, SettledFacts DEF RelayInv
<1>3. CASE Fails(k) /\ deviceMap[rel[k].dev] = Null
  <2>1. Null \notin ListId
    BY ThreadAssumption DEF ListId
  <2>. QED  BY <1>2, <1>3, <2>1, FailsServing
<1>4. CASE ~(Fails(k) /\ deviceMap[rel[k].dev] = Null)
  <2>1. /\ FrameOf(k) /\ Same(k) /\ rel'[k].pc = "iterate" /\ rel'[k].cursor = 0 /\ ~rel'[k].dirty
        /\ rel'[k].lst = deviceMap[rel[k].dev]
        /\ rel'[k].found = rel[k].found /\ rel'[k].sent = rel[k].sent /\ UNCHANGED <<th, ses>>
    BY <1>4, LookupFacts DEF RelayInv, vars
  <2>2. rel'[k].found = <<>> /\ rel'[k].sent = <<>>
    BY <1>1, <2>1 DEF OneFound, In
  <2>3. OneFound(k)'
    BY <2>1, <2>2 DEF OneFound, In
  <2>4. ASSUME NEW c \in rel[k].steady PROVE Served(k, c)'
    BY <1>2, <2>1, <2>2 DEF Served, In, Same, Settled
  <2>5. Serving(k)'
    BY <2>1, <2>3, <2>4 DEF Serving, Same
  <2>. QED  BY <2>1, <2>5, FrameServing DEF RelayInv
<1>. QED  BY <1>3, <1>4

\* What the for-each has to go over, and for whom.
LEMMA IterateFacts ==
  ASSUME RelayInv, NEW k \in Mqtt, In(k, "iterate"), NEW l, l = lists[rel[k].lst]
  PROVE  /\ rel[k].lst \in ListId
         /\ (l = <<>> /\ Size(l) = 0) \/ (Size(l) = 1 /\ l = <<l[1]>>)
         /\ rel[k].sent = <<>> /\ rel[k].cursor = Len(rel[k].found)
         /\ rel[k].cursor \in {0, 1} /\ (rel[k].cursor = 0 => rel[k].found = <<>>)
         /\ \A c \in rel[k].steady :
              /\ c \in Channel /\ Settled(c) /\ ses[c].deviceId = rel[k].dev
              /\ ~rel[k].dirty /\ l = <<c>> /\ rel[k].found \in {<<>>, <<c>>}
              /\ c \in sessionMap /\ ses[c].ctl # Null
<1>1. rel[k] \in RelayFrames /\ rel[k].lst # Null /\ OneFound(k)
  BY DEF RelayInv, RelayBase, Reads, Serving
<1>2. rel[k].lst \in ListId
  BY <1>1 DEF RelayFrames
<1>3. PICK x : l \in {<<>>, <<x>>}
  BY <1>2 DEF RelayInv, OneListed
<1>4. (l = <<>> /\ Size(l) = 0) \/ (Size(l) = 1 /\ l = <<l[1]>>)
  BY <1>3, OneElement, EmptyList
<1>5. /\ rel[k].sent = <<>> /\ rel[k].cursor = Len(rel[k].found)
      /\ Len(rel[k].found) + Len(rel[k].sent) <= 1
  BY <1>1 DEF OneFound, In
<1>6. rel[k].found \in Seq(Channel \cup {Null})
  BY <1>1 DEF RelayFrames
<1>7. Len(rel[k].sent) = 0
  BY <1>5
<1>8. rel[k].cursor \in {0, 1} /\ (rel[k].cursor = 0 => rel[k].found = <<>>)
  <2>1. \A m, n \in Nat : m + n <= 1 /\ n = 0 => m <= 1
    OBVIOUS
  <2>2. Len(rel[k].found) \in Nat
    BY <1>6
  <2>3. Len(rel[k].found) <= 1
    BY <1>5, <1>7, <2>1, <2>2, Zenon
  <2>4. rel[k].found = <<>> \/ Len(rel[k].found) = 1
    BY <1>6, <2>3, ShortSeq
  <2>5. Len(<<>>) = 0
    OBVIOUS
  <2>. QED  BY <1>5, <2>4, <2>5
<1>9. ASSUME NEW c \in rel[k].steady
      PROVE  /\ c \in Channel /\ Settled(c) /\ ses[c].deviceId = rel[k].dev
             /\ ~rel[k].dirty /\ l = <<c>> /\ rel[k].found \in {<<>>, <<c>>}
             /\ c \in sessionMap /\ ses[c].ctl # Null
  <2>1. c \in Channel /\ Served(k, c)
    BY <1>1, <1>9 DEF RelayFrames, RelayInv, Serving
  <2>2. /\ Settled(c) /\ ses[c].deviceId = rel[k].dev
        /\ rel[k].lst = <<c, rel[k].dev>> /\ ~rel[k].dirty /\ rel[k].found \in {<<>>, <<c>>}
    BY <2>1 DEF Served
  <2>3. lists[<<c, rel[k].dev>>] = <<c>> /\ c \in sessionMap /\ ses[c].ctl # Null
    BY <2>1, <2>2, SettledFacts DEF RelayInv
  <2>. QED  BY <2>1, <2>2, <2>3
<1>. QED  BY <1>2, <1>3, <1>4, <1>5, <1>8, <1>9

LEMMA FindProxyServing ==
  ASSUME RelayInv, NEW k \in Mqtt, FindProxy(k)
  PROVE  (\A j \in Mqtt : Serving(j))'
<1> DEFINE n == rel[k].cursor
<1>0. PICK l : l = lists[rel[k].lst]
  OBVIOUS
<1>1. In(k, "iterate")
  BY DEF FindProxy
<1>2. /\ (l = <<>> /\ Size(l) = 0) \/ (Size(l) = 1 /\ l = <<l[1]>>)
      /\ rel[k].sent = <<>> /\ n = Len(rel[k].found)
      /\ n \in {0, 1} /\ (n = 0 => rel[k].found = <<>>)
      /\ \A c \in rel[k].steady :
           /\ c \in Channel /\ Settled(c) /\ ses[c].deviceId = rel[k].dev
           /\ ~rel[k].dirty /\ l = <<c>> /\ rel[k].found \in {<<>>, <<c>>}
           /\ c \in sessionMap /\ ses[c].ctl # Null
  BY <1>0, <1>1, IterateFacts
<1>3. Size(l) = 1 \/ Size(l) = 0
  BY <1>2
<1>4. CASE /\ n = Size(l) /\ FrameOf(k) /\ Same(k) /\ rel'[k].pc = "send"
           /\ rel'[k].found = rel[k].found /\ rel'[k].sent = rel[k].sent /\ UNCHANGED vars
  <2>1. OneFound(k)'
    BY <1>4 DEF RelayInv, Serving, OneFound, In
  <2>2. ASSUME NEW c \in rel[k].steady PROVE Served(k, c)'
    <3>1. Size(l) = 1 /\ rel[k].found \in {<<>>, <<c>>} /\ Settled(c) /\ ses[c].deviceId = rel[k].dev
      BY <1>2, <2>2, OneElement
    <3>2. Len(<<>>) = 0
      OBVIOUS
    <3>3. rel[k].found = <<c>>
      <4>1. n = 1 /\ n = Len(rel[k].found)
        BY <1>2, <1>4, <3>1
      <4>2. 0 # 1
        OBVIOUS
      <4>. QED  BY <3>1, <3>2, <4>1, <4>2, Zenon
    <3>4. <<rel[k].found, rel[k].sent>> = <<(<<c>>), <<>>>>
      BY <1>2, <3>3
    <3>. QED  BY <1>4, <3>1, <3>4 DEF Served, In, Same, Settled, vars
  <2>3. Serving(k)'
    BY <1>4, <2>1, <2>2 DEF Serving, Same
  <2>. QED  BY <1>4, <2>3, FrameServing DEF RelayInv, vars
<1>5. CASE /\ n # Size(l) /\ Fails(k)
           /\ rel[k].dirty \/ (n < Size(l) => l[n + 1] \notin sessionMap)
  <2>1. ASSUME NEW c \in rel[k].steady PROVE FALSE
    <3>1. l = <<c>> /\ c \in sessionMap /\ ~rel[k].dirty
      BY <1>2, <2>1
    <3>2. Size(l) = 1 /\ l[1] = c
      BY <3>1, OneElement
    <3>3. n = 0
      BY <1>2, <1>5, <3>2
    <3>. QED  BY <1>5, <3>1, <3>2, <3>3
  <2>2. rel[k].steady = {}
    BY <2>1
  <2>. QED  BY <1>5, <2>2, FailsServing
<1>6. CASE /\ n < Size(l) /\ FrameOf(k) /\ Same(k) /\ rel'[k].pc = "iterate"
           /\ rel'[k].cursor = n + 1 /\ ~rel'[k].dirty /\ rel'[k].lst = rel[k].lst
           /\ rel'[k].found = Append(rel[k].found,
                                     IF ses[l[n + 1]].ctl = Null THEN Null ELSE l[n + 1])
           /\ rel'[k].sent = rel[k].sent /\ UNCHANGED vars
  <2>1. n = 0 /\ rel[k].found = <<>>
    BY <1>2, <1>3, <1>6
  <2>2. PICK x : x = IF ses[l[1]].ctl = Null THEN Null ELSE l[1]
    OBVIOUS
  <2>3. rel'[k].cursor = 1 /\ rel'[k].found = Append(<<>>, x)
    BY <1>6, <2>1, <2>2
  <2>4. Append(<<>>, x) = <<x>> /\ Len(<<x>>) = 1 /\ Len(<<>>) = 0
    OBVIOUS
  <2>5. rel'[k].found = <<x>> /\ Len(rel'[k].found) = 1 /\ Len(rel'[k].sent) = 0
    BY <1>2, <1>6, <2>3, <2>4
  <2>6. OneFound(k)'
    BY <1>2, <1>6, <2>3, <2>5 DEF OneFound, In
  <2>7. ASSUME NEW c \in rel[k].steady PROVE Served(k, c)'
    <3>1. l = <<c>> /\ ses[c].ctl # Null /\ Settled(c) /\ ses[c].deviceId = rel[k].dev
      BY <1>2, <2>7
    <3>2. x = c
      BY <2>2, <3>1
    <3>3. rel[k].lst = <<c, rel[k].dev>>
      BY <1>1, <2>7 DEF RelayInv, Serving, Served
    <3>. QED  BY <1>6, <2>5, <3>1, <3>2, <3>3 DEF Served, In, Same, Settled, vars
  <2>8. Serving(k)'
    BY <1>6, <2>6, <2>7 DEF Serving, Same
  <2>. QED  BY <1>6, <2>8, FrameServing DEF RelayInv, vars
<1>. HIDE DEF n
<1>7. RelayBase
  BY DEF RelayInv
<1>. QED  BY <1>0, <1>4, <1>5, <1>6, <1>7, FindProxyFacts DEF n

\* What there is to send, and for whom.
LEMMA SendFacts ==
  ASSUME RelayInv, NEW k \in Mqtt, In(k, "send")
  PROVE  /\ rel[k].found = <<>> \/
            \E x : /\ rel[k].found = <<x>> /\ Head(rel[k].found) = x
                   /\ Tail(rel[k].found) = <<>> /\ rel[k].sent = <<>>
         /\ \A c \in rel[k].steady :
              /\ c \in Channel /\ Settled(c) /\ ses[c].deviceId = rel[k].dev
              /\ c \in sessionMap /\ ses[c].proxied
              /\ <<rel[k].found, rel[k].sent>> \in {<<(<<c>>), <<>>>>, <<(<<>>), <<c>>>>}
<1>1. rel[k] \in RelayFrames /\ OneFound(k)
  BY DEF RelayInv, RelayBase, Serving
<1>2. /\ rel[k].found \in Seq(Channel \cup {Null}) /\ rel[k].sent \in Seq(Channel)
      /\ Len(rel[k].found) + Len(rel[k].sent) <= 1
  BY <1>1 DEF RelayFrames, OneFound
<1>3. Len(rel[k].found) \in Nat /\ Len(rel[k].sent) \in Nat
  BY <1>2
<1>4. Len(rel[k].found) <= 1 /\ (Len(rel[k].found) = 1 => Len(rel[k].sent) = 0)
  <2>1. \A m, n \in Nat : m + n <= 1 => m <= 1 /\ (m = 1 => n = 0)
    OBVIOUS
  <2>. QED  BY <1>2, <1>3, <2>1, Zenon
<1>5. rel[k].found = <<>> \/
        (/\ rel[k].found = <<rel[k].found[1]>> /\ Head(rel[k].found) = rel[k].found[1]
         /\ Tail(rel[k].found) = <<>> /\ rel[k].sent = <<>>)
  <2>1. CASE rel[k].found # <<>>
    <3>1. /\ Len(rel[k].found) = 1 /\ rel[k].found = <<rel[k].found[1]>>
          /\ Head(rel[k].found) = rel[k].found[1] /\ Tail(rel[k].found) = <<>>
      BY <1>2, <1>4, <2>1, ShortSeq
    <3>2. rel[k].sent = <<>>
      BY <1>2, <1>4, <3>1
    <3>. QED  BY <3>1, <3>2
  <2>. QED  BY <2>1
<1>6. ASSUME NEW c \in rel[k].steady
      PROVE  /\ c \in Channel /\ Settled(c) /\ ses[c].deviceId = rel[k].dev
             /\ c \in sessionMap /\ ses[c].proxied
             /\ <<rel[k].found, rel[k].sent>> \in {<<(<<c>>), <<>>>>, <<(<<>>), <<c>>>>}
  <2>1. c \in Channel /\ Served(k, c)
    BY <1>1, <1>6 DEF RelayFrames, RelayInv, Serving
  <2>2. /\ Settled(c) /\ ses[c].deviceId = rel[k].dev
        /\ <<rel[k].found, rel[k].sent>> \in {<<(<<c>>), <<>>>>, <<(<<>>), <<c>>>>}
    BY <2>1 DEF Served
  <2>3. c \in sessionMap /\ ses[c].proxied
    BY <2>1, <2>2, SettledFacts DEF RelayInv
  <2>. QED  BY <2>1, <2>2, <2>3
<1>. QED  BY <1>5, <1>6

LEMMA SendCommandServing ==
  ASSUME RelayInv, NEW k \in Mqtt, SendCommand(k)
  PROVE  (\A j \in Mqtt : Serving(j))'
<1>1. In(k, "send") /\ RelayBase
  BY DEF SendCommand, RelayInv
<1>2. ASSUME NEW c \in rel[k].steady
      PROVE  /\ c \in Channel /\ Settled(c) /\ ses[c].deviceId = rel[k].dev
             /\ c \in sessionMap /\ ses[c].proxied
             /\ <<rel[k].found, rel[k].sent>> \in {<<(<<c>>), <<>>>>, <<(<<>>), <<c>>>>}
  BY <1>1, <1>2, SendFacts
<1>3. CASE /\ rel[k].found = <<>> /\ FrameOf(k) /\ Same(k) /\ rel'[k].pc = "done"
           /\ rel'[k].found = rel[k].found /\ rel'[k].sent = rel[k].sent /\ UNCHANGED vars
  <2>1. OneFound(k)'
    BY <1>3 DEF RelayInv, Serving, OneFound, In
  <2>2. ASSUME NEW c \in rel[k].steady PROVE Served(k, c)'
    <3>1. <<c>> # <<>>
      OBVIOUS
    <3>2. rel[k].sent = <<c>>
      BY <1>2, <1>3, <2>2, <3>1
    <3>. QED  BY <1>2, <1>3, <2>2, <3>2 DEF Served, In, Same, Settled, vars
  <2>3. Serving(k)'
    BY <1>3, <2>1, <2>2 DEF Serving, Same
  <2>. QED  BY <1>3, <2>3, FrameServing DEF RelayInv, vars
<1>4. CASE /\ rel[k].found # <<>> /\ FrameOf(k) /\ Same(k) /\ rel'[k].pc = "send"
           /\ rel'[k].found = Tail(rel[k].found)
           /\ rel'[k].sent = Append(rel[k].sent, Head(rel[k].found)) /\ UNCHANGED vars
  <2>1. PICK x : /\ rel[k].found = <<x>> /\ Head(rel[k].found) = x
                 /\ Tail(rel[k].found) = <<>> /\ rel[k].sent = <<>>
    BY <1>1, <1>4, SendFacts
  <2>2. Append(<<>>, x) = <<x>> /\ Len(<<x>>) = 1 /\ Len(<<>>) = 0
    OBVIOUS
  <2>3. rel'[k].found = <<>> /\ rel'[k].sent = <<x>>
    BY <1>4, <2>1, <2>2, Zenon
  <2>4. Len(rel'[k].found) = 0 /\ Len(rel'[k].sent) = 1
    BY <2>2, <2>3, Zenon
  <2>5. OneFound(k)'
    <3>1. Len(rel'[k].found) + Len(rel'[k].sent) <= 1
      BY <2>4
    <3>. QED  BY <1>4, <3>1 DEF OneFound, In
  <2>6. ASSUME NEW c \in rel[k].steady PROVE Served(k, c)'
    <3>1. x = c
      BY <1>2, <2>1, <2>6
    <3>2. <<rel'[k].found, rel'[k].sent>> = <<(<<>>), <<c>>>>
      BY <2>3, <3>1
    <3>. QED  BY <1>2, <1>4, <2>6, <3>2 DEF Served, In, Same, Settled, vars
  <2>7. Serving(k)'
    BY <1>4, <2>5, <2>6 DEF Serving, Same
  <2>. QED  BY <1>4, <2>7, FrameServing DEF RelayInv, vars
<1>5. CASE /\ rel[k].found # <<>> /\ Fails(k)
           /\ Head(rel[k].found) \notin {s \in sessionMap : ses[s].proxied}
  <2>1. ASSUME NEW c \in rel[k].steady PROVE FALSE
    <3>1. Head(<<c>>) = c
      OBVIOUS
    <3>2. rel[k].found = <<c>> /\ c \in sessionMap /\ ses[c].proxied
      BY <1>2, <1>5, <2>1
    <3>. QED  BY <1>5, <3>1, <3>2
  <2>2. rel[k].steady = {}
    BY <2>1
  <2>. QED  BY <1>5, <2>2, FailsServing
<1>. QED  BY <1>1, <1>3, <1>4, <1>5, SendCommandFacts

LEMMA LostServing ==
  ASSUME RelayInv, NEW k \in Mqtt, ConnectionLost(k)
  PROVE  (\A j \in Mqtt : Serving(j))'
<1>1. rel' = rel /\ UNCHANGED <<th, ses>>
  BY LostFacts DEF RelayInv
<1>2. ASSUME NEW j \in Mqtt PROVE Serving(j)'
  <2>1. OneFound(j)' <=> OneFound(j)
    BY <1>1 DEF OneFound, In
  <2>2. \A c \in rel[j].steady : Served(j, c)' <=> Served(j, c)
    BY <1>1 DEF Served, In, Settled
  <2>. QED  BY <1>1, <2>1, <2>2 DEF RelayInv, Serving
<1>. QED  BY <1>2

LEMMA ReconnectServing ==
  ASSUME RelayInv, NEW k \in Mqtt, Reconnect(k)
  PROVE  (\A j \in Mqtt : Serving(j))'
<1>1. /\ FrameOf(k) /\ UNCHANGED <<th, ses>> /\ rel[k].pc \in {"idle", "done", "failed"}
      /\ rel'[k].pc = "idle" /\ rel'[k].steady = {}
      /\ rel'[k].found = rel[k].found /\ rel'[k].sent = <<>>
  BY ReconnectFacts DEF RelayInv, vars
<1>2. rel'[k].found = <<>>
  BY <1>1 DEF RelayInv, Serving, OneFound, In
<1>3. OneFound(k)'
  BY <1>1, <1>2 DEF OneFound, In
<1>4. Serving(k)'
  BY <1>1, <1>3 DEF Serving
<1>. QED  BY <1>1, <1>4, FrameServing DEF RelayInv

\* No handler disturbs what is done for a gateway that stays settled.
LEMMA SessionStepServing ==
  ASSUME RelayInv, HandlerStep
  PROVE  (\A j \in Mqtt : Serving(j))'
<1> SUFFICES ASSUME NEW k \in Mqtt PROVE Serving(k)'
  OBVIOUS
<1>1. /\ rel'[k].pc = rel[k].pc /\ rel'[k].dev = rel[k].dev
      /\ rel'[k].lst = rel[k].lst /\ rel'[k].cursor = rel[k].cursor
      /\ rel'[k].found = rel[k].found /\ rel'[k].sent = rel[k].sent
      /\ rel'[k].dirty => rel[k].dirty \/ Modifies(rel[k].lst)
      /\ \A c \in rel'[k].steady : /\ c \in rel[k].steady /\ th'[c].pc \in {"idle", "registered"}
                                   /\ ses'[c].deviceId = rel[k].dev
  BY SessionStepFacts DEF RelayInv
<1>2. OneFound(k)' 
  BY <1>1 DEF RelayInv, Serving, OneFound, In
<1>3. ASSUME NEW c \in rel'[k].steady PROVE Served(k, c)'
  <2>1. /\ c \in rel[k].steady /\ Served(k, c)
        /\ th'[c].pc \in {"idle", "registered"} /\ ses'[c].deviceId = rel[k].dev
    BY <1>1, <1>3 DEF RelayInv, Serving
  <2>2. c \in Channel /\ Settled(c) /\ ses[c].deviceId = rel[k].dev
    BY <2>1 DEF RelayInv, RelayBase, RelayFrames, Served
  <2>3. rel[k].dev \in DeviceId
    BY <2>2, SettledFacts DEF RelayInv
  <2>4. ~Modifies(<<c, rel[k].dev>>)
    BY <2>2, <2>3, NobodyModifies DEF RelayInv, LifeInv
  <2>5. In(k, "iterate") => ~rel'[k].dirty
    BY <1>1, <2>1, <2>4 DEF Served
  <2>. QED  BY <1>1, <2>1, <2>5 DEF Served, In, Settled
<1>. QED  BY <1>2, <1>3 DEF Serving

-----------------------------------------------------------------------------
LEMMA RelayInitServing == RelayInit => RelayInv
<1>. SUFFICES ASSUME RelayInit PROVE RelayInv
  OBVIOUS
<1>1. RelayBase /\ LifeInv(FALSE)
  BY RelayInitBase, InitLife DEF RelayInit
<1>2. OneListed
  BY DEF RelayInit, Init, OneListed
<1>3. ASSUME NEW k \in Mqtt PROVE Serving(k)
  <2> DEFINE f == [pc |-> "idle", dev |-> Null, lst |-> Null, cursor |-> 0,
                   dirty |-> FALSE, found |-> <<>>, sent |-> <<>>, steady |-> {}]
  <2>1. f.pc = "idle" /\ f.found = <<>> /\ f.sent = <<>> /\ f.steady = {}
    OBVIOUS
  <2>2. rel[k] = f
    BY DEF RelayInit
  <2>. HIDE DEF f
  <2>3. rel[k].pc = "idle" /\ rel[k].found = <<>> /\ rel[k].sent = <<>> /\ rel[k].steady = {}
    BY <2>1, <2>2
  <2>4. Len(rel[k].found) + Len(rel[k].sent) <= 1
    BY <2>3
  <2>5. OneFound(k)
    BY <2>3, <2>4 DEF OneFound, In
  <2>. QED  BY <2>3, <2>5 DEF Serving
<1>. QED  BY <1>1, <1>2, <1>3 DEF RelayInv

LEMMA RelayNextServing ==
  ASSUME DistinctTokens, RelayInv, [RelayNext]_relayVars
  PROVE  RelayInv'
<1>1. RelayBase'
  BY RelayNextBase DEF RelayInv
<1>2. LifeInv(FALSE)' /\ OneListed'
  <2>1. CASE [Next]_vars
    <3>1. LifeInv(FALSE)'
      BY <2>1, NextLife DEF RelayInv
    <3>. QED  BY <2>1, <3>1, NextOneListed DEF RelayInv
  <2>2. CASE /\ subs' \subseteq subs
             /\ UNCHANGED <<chan, directory, ses, sts, log, th, todo, failed>>
    <3>1. LifeInv(FALSE)'
      BY <2>2, DropLife DEF RelayInv
    <3>. QED  BY <2>2, <3>1 DEF RelayInv, OneListed, directory
  <2>3. CASE HandlerStep \/ UNCHANGED relayVars
    BY <2>1, <2>3 DEF HandlerStep, relayVars
  <2>4. ASSUME NEW k \in Mqtt, Arrive(k) \/ Reconnect(k)
        PROVE  LifeInv(FALSE)' /\ OneListed'
    BY <2>1, <2>4, ArriveFacts, ReconnectFacts DEF RelayInv
  <2>5. ASSUME NEW k \in Mqtt, Lookup(k) \/ FindProxy(k) \/ SendCommand(k)
        PROVE  LifeInv(FALSE)' /\ OneListed'
    <3>1. RelayBase
      BY DEF RelayInv
    <3>2. Fails(k) \/ UNCHANGED vars
      <4>1. CASE Lookup(k)
        BY <3>1, <4>1, LookupFacts
      <4>2. CASE FindProxy(k)
        BY <3>1, <4>2, FindProxyFacts
      <4>3. CASE SendCommand(k)
        BY <3>1, <4>3, SendCommandFacts
      <4>. QED  BY <2>5, <4>1, <4>2, <4>3
    <3>. QED  BY <2>1, <2>2, <3>2 DEF Fails
  <2>6. ASSUME NEW k \in Mqtt, ConnectionLost(k)
        PROVE  LifeInv(FALSE)' /\ OneListed'
    BY <2>2, <2>6, LostFacts DEF RelayInv
  <2>. QED  BY <2>3, <2>4, <2>5, <2>6 DEF RelayNext
<1>3. (\A k \in Mqtt : Serving(k))'
  <2>1. CASE UNCHANGED relayVars
    <3>1. rel' = rel /\ UNCHANGED <<th, ses>>
      BY <2>1 DEF relayVars, vars
    <3>2. ASSUME NEW j \in Mqtt PROVE Serving(j)'
      <4>1. OneFound(j)' <=> OneFound(j)
        BY <3>1 DEF OneFound, In
      <4>2. \A c \in rel[j].steady : Served(j, c)' <=> Served(j, c)
        BY <3>1 DEF Served, In, Settled
      <4>. QED  BY <3>1, <4>1, <4>2 DEF RelayInv, Serving
    <3>. QED  BY <3>2
  <2>. QED  BY <2>1, SessionStepServing, ArriveServing, LookupServing, FindProxyServing,
               SendCommandServing, LostServing, ReconnectServing DEF RelayNext
<1>. QED  BY <1>1, <1>2, <1>3 DEF RelayInv

\* The strengthened invariant holds when no two gateways share an id, whatever
\* connections to the broker break.
THEOREM ServingInvariance == ASSUME DistinctTokens PROVE RelaySpec => []RelayInv
<1>1. RelayInit => RelayInv
  BY RelayInitServing
<1>2. RelayInv /\ [RelayNext]_relayVars => RelayInv'
  BY RelayNextServing
<1>. QED  BY <1>1, <1>2, PTL DEF RelaySpec

\* When no two gateways share an id, a gateway that is settled from the moment
\* a command for it arrives until recieve returns is written the command
\* exactly once, and nobody is written it twice, whatever the handlers of
\* other gateways do to the directory in the meantime (MqttProxy.recieve,
\* ControllerProxyManager.findByDeviceId).
THEOREM SteadyAreServed == ASSUME DistinctTokens PROVE RelaySpec => []SteadyIsServed
<1>1. RelayInv => SteadyIsServed
  <2> SUFFICES ASSUME RelayInv, NEW k \in Mqtt, In(k, "done"), NEW c \in Channel,
                      NEW n, n = Cardinality({i \in 1..Len(rel[k].sent) : rel[k].sent[i] = c})
               PROVE  n = 1 \/ (n = 0 /\ c \notin rel[k].steady)
    BY DEF SteadyIsServed
  <2> DEFINE q == rel[k].sent
             at == {i \in 1..Len(q) : q[i] = c}
  <2>1. /\ q \in Seq(Channel) /\ Len(rel[k].found) + Len(q) <= 1
        /\ rel[k].found = <<>> /\ (c \in rel[k].steady => q = <<c>>)
    BY DEF RelayInv, RelayBase, RelayFrames, Serving, OneFound, Served, In
  <2>2. Len(<<>>) = 0 /\ Len(q) \in Nat
    BY <2>1
  <2>3. Len(q) <= 1
    <3>1. \A m \in Nat : 0 + m <= 1 => m <= 1
      OBVIOUS
    <3>. QED  BY <2>1, <2>2, <3>1, Zenon
  <2>4. q = <<>> \/ (Len(q) = 1 /\ q = <<q[1]>>)
    BY <2>1, <2>3, ShortSeq
  <2>5. CASE Len(q) = 1 /\ q[1] = c
    <3>1. at = {1}
      BY <2>5
    <3>. QED  BY <3>1, FS_Singleton
  <2>6. CASE ~(Len(q) = 1 /\ q[1] = c)
    <3>1. at = {}
      BY <2>2, <2>4, <2>6
    <3>2. c \notin rel[k].steady
      <4>1. Len(<<c>>) = 1 /\ <<c>>[1] = c
        OBVIOUS
      <4>2. q # <<c>>
        BY <2>6, <4>1, Zenon
      <4>. QED  BY <2>1, <4>2
    <3>. QED  BY <3>1, <3>2, FS_EmptySet
  <2>. QED  BY <2>5, <2>6
<1>. QED  BY <1>1, ServingInvariance, PTL

\* When no two gateways share an id, a command for a gateway that is settled
\* all the while never makes recieve throw, and so never costs the client its
\* connection and its subscriptions (MqttProxy.recieve, SessionManager.findProxy).
THEOREM SteadyAreSafe == ASSUME DistinctTokens PROVE RelaySpec => []SteadyIsSafe
<1>1. RelayInv => SteadyIsSafe
  BY DEF RelayInv, RelayBase, RelayFrames, Serving, Served, SteadyIsSafe, In
<1>. QED  BY <1>1, ServingInvariance, PTL

-----------------------------------------------------------------------------
(* The answers.                                                            *)

Fit(f) ==
  /\ f.method \in {"getDeviceInfo", "getOnlineInfoOfDevices"} => f.todo \subseteq DeviceId
  /\ f.method = "getSessionInfo" => f.todo \subseteq Channel
  /\ f.pc = "mqttId" => f.at \in Channel
  /\ f.pc = "walk" => f.at \in DeviceId /\ f.lst \in ListId /\ f.i # 0
  /\ f.pc # "answered" => f.status = Null

Grant(f, logged) == f.method \in Query /\ f.status \in {Null, "0"} => logged

\* Frame f is one that a browser with or without a token may have.
Good(f, logged) == f \in RpcFrames /\ Fit(f) /\ Grant(f, logged)

RpcInv ==
  /\ token \in [Browser -> BOOLEAN]
  /\ requests \in [Browser -> 0..MaxRequests]
  /\ rpc \in [Browser -> RpcFrames]
  /\ \A b \in Browser : Good(rpc[b], token[b])

-----------------------------------------------------------------------------
LEMMA Names ==
  /\ Null \notin Method
  /\ "login" \notin Query
BY RpcAssumption DEF Method, Query

LEMMA BlankGood == ASSUME NEW logged PROVE Good(Blank, logged)
<1>1. {} \in SUBSET (Channel \cup DeviceId) /\ <<>> \in Seq(Nat)
  OBVIOUS
<1>2. Blank \in RpcFrames
  BY <1>1 DEF Blank, RpcFrames
<1>. QED  BY <1>2, Names DEF Good, Fit, Grant, Blank, Method

\* A step that gives browser b a good frame keeps the frames good.
LEMMA SetFrame ==
  ASSUME RpcInv, NEW b \in Browser, NEW f, Good(f, token'[b]),
         rpc' = [rpc EXCEPT ![b] = f],
         token' \in [Browser -> BOOLEAN],
         \A e \in Browser : token[e] => token'[e],
         requests' \in [Browser -> 0..MaxRequests]
  PROVE  RpcInv'
<1>1. f \in RpcFrames
  BY DEF Good
<1>2. rpc' \in [Browser -> RpcFrames]
  BY <1>1 DEF RpcInv
<1>3. ASSUME NEW e \in Browser PROVE Good(rpc'[e], token'[e])
  <2>1. CASE e = b
    BY <2>1 DEF RpcInv
  <2>2. CASE e # b
    BY <2>2 DEF RpcInv, Good, Grant
  <2>. QED  BY <2>1, <2>2
<1>. QED  BY <1>2, <1>3 DEF RpcInv

LEMMA AnswerGood ==
  ASSUME RpcInv, NEW b \in Browser, NEW f \in RpcFrames, NEW s \in Status,
         Answer(b, f, s), f.method \in Query /\ s = "0" => token'[b],
         token' \in [Browser -> BOOLEAN],
         \A e \in Browser : token[e] => token'[e],
         requests' \in [Browser -> 0..MaxRequests]
  PROVE  RpcInv'
<1>. DEFINE g == [f EXCEPT !.pc = "answered", !.status = s, !.todo = {}, !.at = Null,
                           !.lst = Null, !.i = 0, !.n = 0, !.dirty = FALSE]
<1>0. 0 \in Nat /\ 0 \in Int
  OBVIOUS
<1>1. g \in RpcFrames
  BY <1>0 DEF RpcFrames
<1>2. g.pc = "answered" /\ g.todo = {} /\ g.method = f.method /\ g.status = s
  BY DEF RpcFrames
<1>3. rpc' = [rpc EXCEPT ![b] = g]
  BY DEF Answer
<1>. HIDE DEF g
<1>4. Fit(g)
  BY <1>2 DEF Fit
<1>5. s # Null
  BY RpcAssumption DEF Status
<1>6. Good(g, token'[b])
  BY <1>1, <1>2, <1>4, <1>5 DEF Good, Grant
<1>. QED  BY <1>3, <1>6, SetFrame

\* The router: a query gets past it only with the token of the administrator.
LEMMA RefusalFacts ==
  ASSUME NEW r \in Request
  PROVE  /\ Refusal(r) \in Status \cup {Null}
         /\ r.method \in Query => Refusal(r) # "0"
         /\ Refusal(r) = Null => r.method \in Query /\ r.auth = "admin"
<1>. USE DEF Status
<1>1. Null \notin Status /\ Null \notin Query /\ "login" \notin Query
  BY RpcAssumption DEF Query
<1>2. r.method \in Query \cup {"login", Null}
  BY DEF Request, Method
<1>3. CASE r.method = Null
  BY <1>1, <1>3 DEF Refusal
<1>4. CASE r.method = "login"
  BY <1>1, <1>4 DEF Refusal, LoginAnswer
<1>5. CASE r.method \in Query /\ (Breaks(r) \/ ~Validate(r))
  BY <1>1, <1>5 DEF Refusal
<1>6. CASE r.method \in Query /\ ~Breaks(r) /\ Validate(r)
  <2>1. Refusal(r) = IF ~Auth(r) THEN "-2" ELSE IF r.data = "odd" THEN "-1" ELSE Null
    BY <1>1, <1>6 DEF Refusal
  <2>2. Auth(r) => r.auth = "admin"
    BY <1>1, <1>6 DEF Auth
  <2>. QED  BY <1>1, <1>6, <2>1, <2>2
<1>. QED  BY <1>2, <1>3, <1>4, <1>5, <1>6

LEMMA BlankType ==
  ASSUME NEW m \in Method
  PROVE  [Blank EXCEPT !.method = m, !.steady = Pairs, !.calm = AtRest] \in RpcFrames
<1>1. Blank \in RpcFrames
  BY BlankGood DEF Good
<1>2. Pairs \in SUBSET (Channel \X DeviceId)
  BY DEF Pairs
<1>3. AtRest \in BOOLEAN
  BY DEF AtRest
<1>. HIDE DEF Blank, Pairs, AtRest
<1>. QED  BY <1>1, <1>2, <1>3 DEF RpcFrames

\* A frame that goes on with a query in the hands of somebody with the token.
LEMMA Begins ==
  ASSUME RpcInv, NEW b \in Browser, NEW f, f \in RpcFrames, Fit(f), token'[b],
         rpc' = [rpc EXCEPT ![b] = f],
         token' \in [Browser -> BOOLEAN],
         \A e \in Browser : token[e] => token'[e],
         requests' \in [Browser -> 0..MaxRequests]
  PROVE  RpcInv'
<1>1. Good(f, token'[b])
  BY DEF Good, Grant
<1>. QED  BY <1>1, SetFrame

LEMMA ProcessInv ==
  ASSUME RpcInv, Inv, NEW b \in Browser, NEW r \in Request, Process(b, r),
         r.auth = "admin" => token[b],
         token' \in [Browser -> BOOLEAN],
         \A e \in Browser : token[e] => token'[e],
         requests' \in [Browser -> 0..MaxRequests]
  PROVE  RpcInv'
<1>1. CASE Refusal(r) # Null
  <2>. DEFINE f == [Blank EXCEPT !.method = r.method]
  <2>1. f \in RpcFrames /\ f.method = r.method
    <3>1. Blank \in RpcFrames /\ r.method \in Method \cup {Null}
      BY BlankGood DEF Good, Request
    <3>. HIDE DEF Blank
    <3>. QED  BY <3>1 DEF RpcFrames
  <2>2. Answer(b, f, Refusal(r))
    BY <1>1 DEF Process
  <2>. HIDE DEF f
  <2>3. Refusal(r) \in Status /\ (r.method \in Query => Refusal(r) # "0")
    BY <1>1, RefusalFacts
  <2>. QED  BY <2>1, <2>2, <2>3, AnswerGood
<1>2. CASE Refusal(r) = Null
  <2>1. r.method \in Query /\ token'[b]
    BY <1>2, RefusalFacts
  <2>. DEFINE f == [Blank EXCEPT !.method = r.method, !.steady = Pairs, !.calm = AtRest]
  <2>2. f \in RpcFrames /\ f.method = r.method /\ f.pc = "idle" /\ f.status = Null
    <3>1. f \in RpcFrames
      BY <2>1, BlankType DEF Method
    <3>. QED  BY <3>1 DEF RpcFrames, Blank
  <2>3. /\ sessionMap \subseteq Channel
        /\ Cardinality(sessionMap) \in Nat
    <3>1. sessionMap \subseteq Channel
      BY DEF Inv, Control, TypeOK
    <3>. QED  BY <3>1, RpcAssumption, FS_Subset, FS_CardinalityType
  <2>4. CASE r.method = "getOnlineInfoOfDevices"
    <3>1. rpc' = [rpc EXCEPT ![b] = [f EXCEPT !.pc = "next", !.todo = DeviceId]]
      BY <1>2, <2>4 DEF Process
    <3>. HIDE DEF f
    <3>. DEFINE g == [f EXCEPT !.pc = "next", !.todo = DeviceId]
    <3>2. g \in RpcFrames /\ Fit(g)
      BY <2>2, <2>4, ZenonT(30) DEF RpcFrames, Fit
    <3>. HIDE DEF g
    <3>. QED  BY <2>1, <3>1, <3>2, Begins DEF g
  <2>5. CASE r.method = "getSessionInfo"
    <3>1. rpc' = [rpc EXCEPT ![b] = [f EXCEPT !.pc = "next", !.todo = sessionMap]]
      BY <1>2, <2>5 DEF Process
    <3>. HIDE DEF f
    <3>. DEFINE g == [f EXCEPT !.pc = "next", !.todo = sessionMap]
    <3>2. g \in RpcFrames /\ Fit(g)
      BY <2>2, <2>3, <2>5, ZenonT(30) DEF RpcFrames, Fit
    <3>. HIDE DEF g
    <3>. QED  BY <2>1, <3>1, <3>2, Begins DEF g
  <2>6. CASE r.method = "getDeviceInfo"
    <3>. DEFINE D == {d \in DeviceId : deviceMap[d] # Null}
    <3>1. rpc' = [rpc EXCEPT ![b] = [f EXCEPT !.pc = "next", !.todo = D]]
      BY <1>2, <2>6 DEF Process
    <3>2. D \subseteq DeviceId
      OBVIOUS
    <3>. HIDE DEF f, D
    <3>. DEFINE g == [f EXCEPT !.pc = "next", !.todo = D]
    <3>3. g \in RpcFrames /\ Fit(g)
      BY <2>2, <2>6, <3>2, ZenonT(30) DEF RpcFrames, Fit
    <3>. HIDE DEF g
    <3>. QED  BY <2>1, <3>1, <3>3, Begins DEF g
  <2>7. CASE r.method = "getDashboard"
    <3>1. rpc' = [rpc EXCEPT ![b] = [f EXCEPT !.pc = "count",
                                              !.counts = <<Cardinality(sessionMap)>>]]
      BY <1>2, <2>7 DEF Process
    <3>2. <<Cardinality(sessionMap)>> \in Seq(Nat)
      BY <2>3
    <3>. HIDE DEF f
    <3>. DEFINE g == [f EXCEPT !.pc = "count", !.counts = <<Cardinality(sessionMap)>>]
    <3>3. g \in RpcFrames /\ Fit(g)
      BY <2>2, <2>7, <3>2, ZenonT(30) DEF RpcFrames, Fit
    <3>. HIDE DEF g
    <3>. QED  BY <2>1, <3>1, <3>3, Begins DEF g
  <2>. QED  BY <2>1, <2>4, <2>5, <2>6, <2>7 DEF Query
<1>. QED  BY <1>1, <1>2

-----------------------------------------------------------------------------
(* One lemma per action.                                                   *)

LEMMA MayAskType ==
  ASSUME RpcInv, NEW b \in Browser, MayAsk(b)
  PROVE  requests' \in [Browser -> 0..MaxRequests]
BY RpcAssumption DEF MayAsk, RpcInv

LEMMA LoginInv ==
  ASSUME RpcInv, Inv, NEW b \in Browser, Login(b)
  PROVE  RpcInv'
<1>1. PICK right \in BOOLEAN :
        LET r == [method |-> "login", auth |-> "absent", data |-> "needed", right |-> right]
        IN  Process(b, r) /\ token' = [token EXCEPT ![b] = @ \/ Refusal(r) = "0"]
  BY DEF Login
<1>. DEFINE r == [method |-> "login", auth |-> "absent", data |-> "needed", right |-> right]
<1>2. Process(b, r) /\ token' = [token EXCEPT ![b] = @ \/ Refusal(r) = "0"]
  BY <1>1
<1>3. r \in Request /\ r.auth # "admin"
  BY DEF Request, Method
<1>4. requests' \in [Browser -> 0..MaxRequests]
  BY MayAskType DEF Login
<1>. HIDE DEF r
<1>5. token' \in [Browser -> BOOLEAN] /\ \A e \in Browser : token[e] => token'[e]
  BY <1>2 DEF RpcInv
<1>. QED  BY <1>2, <1>3, <1>4, <1>5, ProcessInv

LEMMA AskInv ==
  ASSUME RpcInv, Inv, NEW b \in Browser, LoadData(b) \/ Post(b) \/ Get(b)
  PROVE  RpcInv'
<1>1. MayAsk(b) /\ token' = token
  BY DEF LoadData, Post, Get
<1>2. PICK r \in Request : (r.auth = "admin" => token[b]) /\ Process(b, r)
  <2>1. CASE LoadData(b)
    <3>1. PICK m \in Query : token[b] /\ Process(b, [method |-> m, auth |-> "admin",
                                                     data |-> "empty", right |-> FALSE])
      BY <2>1 DEF LoadData
    <3>2. [method |-> m, auth |-> "admin", data |-> "empty", right |-> FALSE] \in Request
      BY DEF Request, Method
    <3>. QED  BY <3>1, <3>2
  <2>2. CASE Post(b)
    BY <2>2 DEF Post, PostRequest
  <2>3. CASE Get(b)
    <3>1. PICK m \in Method \cup {Null} : Process(b, [method |-> m, auth |-> "absent",
                                                      data |-> "empty", right |-> FALSE])
      BY <2>3 DEF Get
    <3>. DEFINE r == [method |-> m, auth |-> "absent", data |-> "empty", right |-> FALSE]
    <3>2. r \in Request /\ r.auth # "admin"
      BY DEF Request
    <3>. HIDE DEF r
    <3>. QED  BY <3>1, <3>2 DEF r
  <2>. QED  BY <2>1, <2>2, <2>3
<1>3. token' \in [Browser -> BOOLEAN] /\ \A e \in Browser : token[e] => token'[e]
  BY <1>1 DEF RpcInv
<1>4. requests' \in [Browser -> 0..MaxRequests]
  BY <1>1, MayAskType
<1>. QED  BY <1>2, <1>3, <1>4, ProcessInv

\* A logic that goes on keeps the method and the status of its frame.
LEMMA ReadInv ==
  ASSUME RpcInv, NEW b \in Browser, NEW f \in RpcFrames, Read(b, f), Fit(f),
         f.method = rpc[b].method, f.status = rpc[b].status
  PROVE  RpcInv'
<1>1. Good(f, token'[b])
  BY DEF RpcInv, Good, Grant, Read
<1>. QED  BY <1>1, SetFrame DEF Read, RpcInv

\* A logic that is at work has been asked by somebody with the token, or fails.
LEMMA AnswerNowInv ==
  ASSUME RpcInv, NEW b \in Browser, NEW s \in Status, AnswerNow(b, s),
         rpc[b].pc # "answered"
  PROVE  RpcInv'
<1>1. rpc[b] \in RpcFrames /\ (rpc[b].method \in Query => token[b])
  BY DEF RpcInv, Good, Grant, Fit
<1>. QED  BY <1>1, AnswerGood DEF AnswerNow, RpcInv

LEMMA LookInv ==
  ASSUME RpcInv, Inv, NEW b \in Browser, Finish(b) \/ OnlineState(b)
  PROVE  RpcInv'
<1>1. rpc[b] \in RpcFrames /\ Fit(rpc[b])
  BY DEF RpcInv, Good
<1>2. CASE Finish(b)
  BY <1>2, AnswerNowInv DEF Finish, Status
<1>3. CASE OnlineState(b)
  <2>1. PICK d \in rpc[b].todo :
          Read(b, [rpc[b] EXCEPT !.todo = @ \ {d},
                     !.result = IF deviceMap[d] = Null THEN @ ELSE @ \cup {<<Null, d>>}])
    BY <1>3 DEF OnlineState
  <2>. DEFINE res == IF deviceMap[d] = Null THEN rpc[b].result
                     ELSE rpc[b].result \cup {<<Null, d>>}
              f == [rpc[b] EXCEPT !.todo = @ \ {d}, !.result = res]
  <2>2. d \in DeviceId /\ rpc[b].pc = "next"
    BY <1>1, <1>3 DEF OnlineState, Fit
  <2>3. res \in SUBSET ((Channel \cup {Null}) \X (DeviceId \cup {Null}))
    <3>1. rpc[b].result \in SUBSET ((Channel \cup {Null}) \X (DeviceId \cup {Null}))
      BY <1>1 DEF RpcFrames
    <3>. QED  BY <2>2, <3>1
  <2>4. Read(b, f)
    BY <2>1
  <2>. HIDE DEF res
  <2>5. f \in RpcFrames /\ Fit(f) /\ f.method = rpc[b].method /\ f.status = rpc[b].status
    BY <1>1, <2>2, <2>3, ZenonT(30) DEF RpcFrames, Fit
  <2>. HIDE DEF f
  <2>. QED  BY <2>4, <2>5, ReadInv
<1>. QED  BY <1>2, <1>3

LEMMA SessionInfoInv ==
  ASSUME RpcInv, Inv, NEW b \in Browser, SessionInfo(b) \/ MqttId(b)
  PROVE  RpcInv'
<1>1. rpc[b] \in RpcFrames /\ Fit(rpc[b])
  BY DEF RpcInv, Good
<1>2. CASE AnswerNow(b, "-1")
  <2>1. rpc[b].pc # "answered"
    BY DEF SessionInfo, MqttId
  <2>. QED  BY <1>2, <2>1, AnswerNowInv DEF Status
<1>3. CASE SessionInfo(b) /\ ~AnswerNow(b, "-1")
  <2>1. PICK s \in rpc[b].todo :
          Read(b, [rpc[b] EXCEPT !.todo = @ \ {s}, !.pc = "mqttId", !.at = s,
                                 !.result = @ \cup {<<s, ses[s].deviceId>>}])
    BY <1>3 DEF SessionInfo
  <2>. DEFINE res == rpc[b].result \cup {<<s, ses[s].deviceId>>}
              f == [rpc[b] EXCEPT !.todo = @ \ {s}, !.pc = "mqttId", !.at = s, !.result = res]
  <2>2. s \in Channel /\ rpc[b].pc = "next"
    BY <1>1, <1>3 DEF SessionInfo, Fit
  <2>3. ses[s].deviceId \in DeviceId \cup {Null}
    BY <2>2 DEF Inv, Control, TypeOK, SessionFields
  <2>4. res \in SUBSET ((Channel \cup {Null}) \X (DeviceId \cup {Null}))
    <3>1. rpc[b].result \in SUBSET ((Channel \cup {Null}) \X (DeviceId \cup {Null}))
      BY <1>1 DEF RpcFrames
    <3>. QED  BY <2>2, <2>3, <3>1
  <2>5. Read(b, f)
    BY <2>1
  <2>. HIDE DEF res
  <2>6. f \in RpcFrames /\ Fit(f) /\ f.method = rpc[b].method /\ f.status = rpc[b].status
    BY <1>1, <2>2, <2>4, ZenonT(30) DEF RpcFrames, Fit
  <2>. HIDE DEF f
  <2>. QED  BY <2>5, <2>6, ReadInv
<1>4. CASE MqttId(b) /\ ~AnswerNow(b, "-1")
  <2>. DEFINE f == [rpc[b] EXCEPT !.pc = "next", !.at = Null]
  <2>1. Read(b, f) /\ rpc[b].pc = "mqttId"
    BY <1>4 DEF MqttId
  <2>2. f \in RpcFrames /\ Fit(f) /\ f.method = rpc[b].method /\ f.status = rpc[b].status
    BY <1>1, <2>1 DEF RpcFrames, Fit
  <2>. HIDE DEF f
  <2>. QED  BY <2>1, <2>2, ReadInv
<1>. QED  BY <1>2, <1>3, <1>4

LEMMA DeviceInfoInv ==
  ASSUME RpcInv, Inv, NEW b \in Browser, DeviceInfo(b)
  PROVE  RpcInv'
<1>1. rpc[b] \in RpcFrames /\ Fit(rpc[b])
  BY DEF RpcInv, Good
<1>2. CASE AnswerNow(b, "-1")
  BY <1>2, AnswerNowInv DEF DeviceInfo, Status
<1>3. CASE ~AnswerNow(b, "-1")
  <2>1. PICK d \in rpc[b].todo :
          /\ deviceMap[d] # Null
          /\ Read(b, [rpc[b] EXCEPT !.todo = @ \ {d}, !.pc = "walk", !.at = d, !.i = 1,
                       !.lst = deviceMap[d], !.n = Size(lists[deviceMap[d]]), !.dirty = FALSE])
    BY <1>3 DEF DeviceInfo
  <2>2. d \in DeviceId /\ rpc[b].pc = "next"
    BY <1>1 DEF DeviceInfo, Fit
  <2>3. deviceMap[d] \in ListId
    BY <2>1, <2>2 DEF Inv, Control, TypeOK
  <2>. DEFINE l == deviceMap[d]
              size == Size(lists[l])
              f == [rpc[b] EXCEPT !.todo = @ \ {d}, !.pc = "walk", !.at = d, !.i = 1,
                                  !.lst = l, !.n = size, !.dirty = FALSE]
  <2>4. size \in Int
    BY <2>3, SizeType DEF Inv, Control, TypeOK
  <2>5. Read(b, f)
    BY <2>1
  <2>6. l \in ListId
    BY <2>3
  <2>. HIDE DEF size, l
  <2>7. /\ f \in RpcFrames /\ f.pc = "walk" /\ f.method = rpc[b].method
        /\ f.status = rpc[b].status /\ f.todo \subseteq rpc[b].todo
        /\ f.at = d /\ f.lst = l /\ f.i = 1
    BY <1>1, <2>2, <2>4, <2>6 DEF RpcFrames
  <2>. HIDE DEF f
  <2>8. Fit(f)
    BY <1>1, <2>2, <2>6, <2>7 DEF Fit
  <2>. QED  BY <2>5, <2>7, <2>8, ReadInv
<1>. QED  BY <1>2, <1>3

LEMMA WalkInv ==
  ASSUME RpcInv, Inv, NEW b \in Browser, Walk(b)
  PROVE  RpcInv'
<1>. DEFINE r == rpc[b]
            e == IF r.i <= Size(lists[r.lst]) THEN lists[r.lst][r.i] ELSE Null
            res == r.result \cup {<<e, r.at>>}
            f == [r EXCEPT !.pc = "next", !.at = Null, !.lst = Null, !.i = 0, !.n = 0]
            after == r.i + 1
            g == [r EXCEPT !.i = after, !.result = res]
<1>1. r \in RpcFrames /\ Fit(r)
  BY DEF RpcInv, Good
<1>2. r.pc = "walk" /\ r.at \in DeviceId /\ r.lst \in ListId
  BY <1>1 DEF Walk, Fit
<1>3. Read(b, f) \/ (e # Null /\ Read(b, g)) \/ AnswerNow(b, "-1")
  BY DEF Walk
<1>4. CASE Read(b, f)
  <2>0. 0 \in Nat /\ 0 \in Int
    OBVIOUS
  <2>1. f \in RpcFrames /\ Fit(f) /\ f.method = r.method /\ f.status = r.status
    BY <1>1, <1>2, <2>0 DEF RpcFrames, Fit
  <2>. HIDE DEF f
  <2>. QED  BY <1>4, <2>1, ReadInv
<1>5. CASE e # Null /\ Read(b, g)
  <2>1. e \in Channel \cup {Null}
    <3>1. lists[r.lst] \in ListOf(Channel \cup {Null})
      BY <1>2 DEF Inv, Control, TypeOK
    <3>2. r.i \in Nat \ {0}
      BY <1>1, <1>2 DEF RpcFrames, Fit
    <3>3. CASE r.i \in 1..Size(lists[r.lst])
      <4>1. lists[r.lst][r.i] \in Channel \cup {Null}
        BY <3>1, <3>3, SlotType
      <4>. QED  BY <4>1
    <3>4. CASE r.i \notin 1..Size(lists[r.lst])
      <4>1. Size(lists[r.lst]) \in Int
        BY <3>1, SizeType
      <4>. QED  BY <3>2, <3>4, <4>1
    <3>. QED  BY <3>3, <3>4
  <2>. HIDE DEF e
  <2>2. res \in SUBSET ((Channel \cup {Null}) \X (DeviceId \cup {Null}))
    <3>1. r.result \in SUBSET ((Channel \cup {Null}) \X (DeviceId \cup {Null}))
      BY <1>1 DEF RpcFrames
    <3>. QED  BY <1>2, <2>1, <3>1
  <2>. HIDE DEF res
  <2>3. after \in Nat /\ after # 0
    <3>1. r.i \in Nat
      BY <1>1 DEF RpcFrames
    <3>. QED  BY <3>1
  <2>. HIDE DEF after
  <2>4. g \in RpcFrames
    BY <1>1, <2>2, <2>3 DEF RpcFrames
  <2>5. /\ g.pc = r.pc /\ g.method = r.method /\ g.status = r.status
        /\ g.todo = r.todo /\ g.at = r.at /\ g.lst = r.lst /\ g.i = after
    BY <1>1 DEF RpcFrames
  <2>. HIDE DEF g
  <2>6. Fit(g)
    BY <1>1, <1>2, <2>3, <2>5 DEF Fit
  <2>. QED  BY <1>5, <2>4, <2>5, <2>6, ReadInv
<1>6. CASE AnswerNow(b, "-1")
  BY <1>2, <1>6, AnswerNowInv DEF Status
<1>. QED  BY <1>3, <1>4, <1>5, <1>6

LEMMA DashboardInv ==
  ASSUME RpcInv, Inv, NEW b \in Browser, Dashboard(b)
  PROVE  RpcInv'
<1>. DEFINE D == {d \in DeviceId : deviceMap[d] # Null}
            more == Append(rpc[b].counts, Cardinality(D))
            f == [rpc[b] EXCEPT !.counts = more]
<1>1. rpc[b] \in RpcFrames /\ Good(rpc[b], token[b]) /\ rpc[b].pc = "count"
  BY DEF RpcInv, Dashboard
<1>2. Cardinality(D) \in Nat
  <2>1. D \subseteq DeviceId
    OBVIOUS
  <2>. QED  BY <2>1, RpcAssumption, FS_Subset, FS_CardinalityType
<1>3. Answer(b, f, "0") /\ UNCHANGED <<vars, token, requests>>
  BY DEF Dashboard
<1>. HIDE DEF D
<1>4. more \in Seq(Nat)
  BY <1>1, <1>2 DEF RpcFrames
<1>. HIDE DEF more
<1>5. f \in RpcFrames /\ f.method = rpc[b].method
  BY <1>1, <1>4 DEF RpcFrames
<1>. HIDE DEF f
<1>6. f.method \in Query => token'[b]
  BY <1>1, <1>3, <1>5 DEF Good, Grant, Fit
<1>. QED  BY <1>3, <1>5, <1>6, AnswerGood DEF RpcInv, Status

-----------------------------------------------------------------------------
(* The handlers of SessionManager, and the theorems.                       *)

LEMMA SessionStepInv ==
  ASSUME RpcInv, SessionStep
  PROVE  RpcInv'
<1>1. token' = token /\ requests' = requests
  BY DEF SessionStep
<1>. DEFINE dirt(b) == rpc[b].dirty \/ (rpc[b].pc = "walk" /\ Modifies(rpc[b].lst))
            stay(b) == {p \in rpc[b].steady : th'[p[1]].pc \in {"idle", "registered"}
                                              /\ ses'[p[1]].deviceId = p[2]}
            f(b) == [rpc[b] EXCEPT !.dirty = dirt(b), !.steady = stay(b), !.calm = FALSE]
<1>2. rpc' = [b \in Browser |-> IF rpc[b].pc \in {"idle", "answered"} THEN Blank ELSE f(b)]
  BY DEF SessionStep
<1>3. ASSUME NEW b \in Browser PROVE Good(f(b), token'[b])
  <2>1. Good(rpc[b], token[b])
    BY DEF RpcInv
  <2>2. rpc[b] \in RpcFrames /\ rpc[b].steady \in SUBSET (Channel \X DeviceId)
    BY <2>1 DEF Good, RpcFrames
  <2>3. stay(b) \in SUBSET (Channel \X DeviceId)
    BY <2>2
  <2>4. dirt(b) \in BOOLEAN
    OBVIOUS
  <2>. HIDE DEF dirt, stay
  <2>5. f(b) \in RpcFrames
    BY <2>2, <2>3, <2>4, ZenonT(30) DEF RpcFrames
  <2>6. /\ f(b).pc = rpc[b].pc /\ f(b).method = rpc[b].method /\ f(b).status = rpc[b].status
        /\ f(b).todo = rpc[b].todo /\ f(b).at = rpc[b].at /\ f(b).lst = rpc[b].lst
        /\ f(b).i = rpc[b].i
    BY <2>2 DEF RpcFrames
  <2>. HIDE DEF f
  <2>7. Fit(f(b))
    BY <2>1, <2>6 DEF Good, Fit
  <2>. QED  BY <1>1, <2>1, <2>5, <2>6, <2>7 DEF Good, Grant
<1>. HIDE DEF f
<1>4. ASSUME NEW b \in Browser PROVE Good(rpc'[b], token'[b])
  <2>1. CASE rpc[b].pc \in {"idle", "answered"}
    BY <1>2, <2>1, BlankGood
  <2>2. CASE rpc[b].pc \notin {"idle", "answered"}
    BY <1>2, <1>3, <2>2
  <2>. QED  BY <2>1, <2>2
<1>5. rpc' \in [Browser -> RpcFrames]
  <2>1. \A b \in Browser : rpc'[b] \in RpcFrames
    BY <1>4 DEF Good
  <2>. QED  BY <1>2, <2>1
<1>. QED  BY <1>1, <1>4, <1>5 DEF RpcInv

LEMMA RpcInitInv == RpcInit => Inv /\ RpcInv
<1>. SUFFICES ASSUME RpcInit PROVE Inv /\ RpcInv
  OBVIOUS
<1>1. Inv
  BY InitInv DEF RpcInit
<1>2. \A b \in Browser : rpc[b] = Blank /\ Good(rpc[b], token[b])
  <2>1. \A b \in Browser : rpc[b] = Blank
    BY DEF RpcInit
  <2>. QED  BY <2>1, BlankGood
<1>3. rpc \in [Browser -> RpcFrames]
  <2>1. Blank \in RpcFrames
    BY BlankGood DEF Good
  <2>. QED  BY <2>1 DEF RpcInit
<1>4. token \in [Browser -> BOOLEAN]
  BY DEF RpcInit
<1>5. requests \in [Browser -> 0..MaxRequests]
  <2>1. 0 \in 0..MaxRequests
    BY RpcAssumption
  <2>. QED  BY <2>1 DEF RpcInit
<1>. QED  BY <1>1, <1>2, <1>3, <1>4, <1>5 DEF RpcInv

LEMMA RpcNextInv == Inv /\ RpcInv /\ [RpcNext]_rpcVars => Inv' /\ RpcInv'
<1>. SUFFICES ASSUME Inv, RpcInv, [RpcNext]_rpcVars PROVE Inv' /\ RpcInv'
  OBVIOUS
<1>1. CASE SessionStep
  BY <1>1, SessionStepInv, NextInv DEF SessionStep
<1>2. ASSUME NEW b \in Browser,
             \/ Login(b) \/ LoadData(b) \/ Post(b) \/ Get(b) \/ Finish(b) \/ OnlineState(b)
             \/ SessionInfo(b) \/ MqttId(b) \/ DeviceInfo(b) \/ Walk(b) \/ Dashboard(b)
      PROVE  Inv' /\ RpcInv'
  <2>1. UNCHANGED vars
    BY <1>2 DEF Login, LoadData, Post, Get, Finish, OnlineState, SessionInfo, MqttId,
       DeviceInfo, Walk, Dashboard, Read, AnswerNow
  <2>2. Inv'
    BY <2>1, NextInv
  <2>3. RpcInv'
    BY <1>2, LoginInv, AskInv, LookInv, SessionInfoInv, DeviceInfoInv, WalkInv, DashboardInv
  <2>. QED  BY <2>2, <2>3
<1>3. CASE UNCHANGED rpcVars
  <2>1. Inv'
    BY <1>3, NextInv DEF rpcVars
  <2>2. RpcInv'
    BY <1>3 DEF rpcVars, RpcInv
  <2>. QED  BY <2>1, <2>2
<1>. QED  BY <1>1, <1>2, <1>3 DEF RpcNext

\* The session directory keeps its invariant while it is being read, and no
\* query is served for a browser that holds no token.
THEOREM RpcInvariance == RpcSpec => [](Inv /\ RpcInv)
BY RpcInitInv, RpcNextInv, PTL DEF RpcSpec

\* However the handlers interleave with a logic that walks their lists without
\* a lock, its locals stay what the code declares them (the logics of plugin/jsonrpc).
THEOREM RpcTypeCorrect == RpcSpec => []RpcTypeOK
<1>1. RpcInv => RpcTypeOK
  BY DEF RpcInv, RpcTypeOK
<1>. QED  BY <1>1, RpcInvariance, PTL

\* A query is answered with data only to a client that has logged in as the
\* administrator (RpcLogic.auth, LogicRouter.runProcess).
THEOREM DataOnlyAfterLogin == RpcSpec => []OnlyAfterLogin
<1>1. RpcInv => OnlyAfterLogin
  <2>1. RpcInv => \A b \in Browser : Grant(rpc[b], token[b])
    BY DEF RpcInv, Good
  <2>. QED  BY <2>1 DEF OnlyAfterLogin, Answered, Grant
<1>. QED  BY <1>1, RpcInvariance, PTL

-----------------------------------------------------------------------------
(* What a logic reads when no two gateways share an id.                    *)

\* Gateway p[1] is settled under the id p[2], and the logic has a result for it
\* or has still to look.
Still(p) == Settled(p[1]) /\ ses[p[1]].deviceId = p[2]

Found(f, p) ==
  /\ f.method = "getOnlineInfoOfDevices" => p[2] \in f.todo \/ <<Null, p[2]>> \in f.result
  /\ f.method = "getSessionInfo" => p[1] \in f.todo \/ p \in f.result
  /\ f.method = "getDeviceInfo" => \/ p[2] \in f.todo \/ p \in f.result
                                   \/ f.pc = "walk" /\ f.at = p[2] /\ f.i = 1

\* Nobody disturbs the walk over the list of such a gateway.
Walks(f, p) ==
  f.pc = "walk" /\ f.at = p[2] => f.lst = <<p[1], p[2]>> /\ ~f.dirty /\ f.n = 1

Reports(f) ==
  /\ f.pc = "count" => f.method = "getDashboard"
  /\ f.pc = "answered" => f.todo = {}
  /\ \A p \in f.steady : /\ f.pc # "answered" => Still(p) /\ Walks(f, p)
                         /\ f.pc # "answered" \/ f.status = "0" => Found(f, p)

\* A logic at work, nothing having happened since the request: what it has seen
\* is what there is, but for what it has still to look at.
Calm(f) ==
  /\ AtRest /\ f.steady = Pairs
  /\ f.method = "getOnlineInfoOfDevices" =>
       f.result = {<<Null, d>> : d \in {q[2] : q \in Pairs} \ f.todo}
  /\ f.method = "getSessionInfo" =>
       f.todo \subseteq sessionMap /\ f.result = {p \in Pairs : p[1] \notin f.todo}
  /\ f.method = "getDeviceInfo" =>
       /\ f.todo \subseteq {q[2] : q \in Pairs}
       /\ f.result = {p \in Pairs : p[2] \notin f.todo
                                    /\ ~(f.pc = "walk" /\ f.i = 1 /\ f.at = p[2])}
  /\ f.method = "getDashboard" => f.pc = "count" /\ f.counts = <<Cardinality(sessionMap)>>
  /\ f.pc = "mqttId" => f.method = "getSessionInfo" /\ f.at \in sessionMap
  /\ f.pc = "walk" => /\ f.method = "getDeviceInfo" /\ f.at \notin f.todo
                      /\ ~f.dirty /\ f.n = 1 /\ f.i \in {1, 2}
                      /\ \E p \in Pairs : f.at = p[2] /\ f.lst = <<p[1], p[2]>>

Exact(f) ==
  /\ f.method \in {"getSessionInfo", "getDeviceInfo"} => f.result = f.steady
  /\ f.method = "getOnlineInfoOfDevices" => f.result = {<<Null, p[2]>> : p \in f.steady}
  /\ f.method = "getDashboard" => f.counts = [x \in 1..2 |-> Cardinality(f.steady)]

CalmOrExact(f) ==
  f.calm => /\ f.pc # "answered" => Calm(f)
            /\ f.pc = "answered" => f.status # "-1" /\ (f.status = "0" => Exact(f))

ReportInv == RpcInv /\ LifeInv(TRUE) /\ \A b \in Browser : Reports(rpc[b])

CalmInv == ReportInv /\ failed = {} /\ \A b \in Browser : CalmOrExact(rpc[b])

-----------------------------------------------------------------------------
(* What the steps of a logic do to its frame.                              *)

\* The frame of b alone changes.
Others(b) == \A e \in Browser : e # b => rpc'[e] = rpc[e]

\* The request stays what it was when it came.
Asked(b) ==
  /\ rpc'[b].method = rpc[b].method
  /\ rpc'[b].steady = rpc[b].steady /\ rpc'[b].calm = rpc[b].calm

LEMMA ReadFacts ==
  ASSUME RpcInv, NEW b \in Browser, NEW f, Read(b, f)
  PROVE  Others(b) /\ rpc'[b] = f /\ UNCHANGED vars
BY DEF RpcInv, Others, Read

LEMMA AnswerFacts ==
  ASSUME RpcInv, NEW b \in Browser, NEW f \in RpcFrames, NEW s, Answer(b, f, s)
  PROVE  /\ Others(b) /\ rpc'[b].pc = "answered" /\ rpc'[b].status = s
         /\ rpc'[b].method = f.method /\ rpc'[b].result = f.result
         /\ rpc'[b].counts = f.counts /\ rpc'[b].todo = {}
         /\ rpc'[b].steady = f.steady /\ rpc'[b].calm = f.calm
<1>. DEFINE g == [f EXCEPT !.pc = "answered", !.status = s, !.todo = {}, !.at = Null,
                           !.lst = Null, !.i = 0, !.n = 0, !.dirty = FALSE]
<1>1. /\ g.pc = "answered" /\ g.status = s /\ g.method = f.method /\ g.result = f.result
      /\ g.counts = f.counts /\ g.todo = {} /\ g.steady = f.steady /\ g.calm = f.calm
  BY DEF RpcFrames
<1>2. rpc' = [rpc EXCEPT ![b] = g]
  BY DEF Answer
<1>. HIDE DEF g
<1>. QED  BY <1>1, <1>2 DEF RpcInv, Others

\* An answer to the query that b has asked.
Answers(b, s) ==
  /\ Others(b) /\ Asked(b) /\ UNCHANGED vars
  /\ rpc'[b].pc = "answered" /\ rpc'[b].status = s
  /\ rpc'[b].result = rpc[b].result /\ rpc'[b].counts = rpc[b].counts /\ rpc'[b].todo = {}

LEMMA AnswerNowFacts ==
  ASSUME RpcInv, NEW b \in Browser, NEW s, AnswerNow(b, s)
  PROVE  Answers(b, s)
BY AnswerFacts DEF AnswerNow, Answers, Asked, RpcInv

\* A query that has got past the router, with nothing found yet.
Begun(b) ==
  /\ rpc'[b].status = Null /\ rpc'[b].result = {} /\ ~rpc'[b].dirty
  /\ rpc'[b].steady = Pairs /\ rpc'[b].calm = AtRest

LEMMA ProcessFacts ==
  ASSUME RpcInv, Inv, NEW b \in Browser, NEW r \in Request, Process(b, r)
  PROVE  /\ Others(b)
         /\ \/ /\ rpc'[b].pc = "answered" /\ rpc'[b].todo = {}
               /\ rpc'[b].steady = {} /\ ~rpc'[b].calm
            \/ /\ Begun(b) /\ rpc'[b].method = r.method /\ rpc'[b].pc = "next"
               /\ \/ r.method = "getOnlineInfoOfDevices" /\ rpc'[b].todo = DeviceId
                  \/ r.method = "getSessionInfo" /\ rpc'[b].todo = sessionMap
                  \/ /\ r.method = "getDeviceInfo"
                     /\ rpc'[b].todo = {d \in DeviceId : deviceMap[d] # Null}
            \/ /\ Begun(b) /\ rpc'[b].method = r.method /\ rpc'[b].pc = "count"
               /\ r.method = "getDashboard" /\ rpc'[b].counts = <<Cardinality(sessionMap)>>
<1>1. CASE Refusal(r) # Null
  <2>. DEFINE f == [Blank EXCEPT !.method = r.method]
  <2>1. f \in RpcFrames /\ f.steady = {} /\ f.calm = FALSE
    <3>1. Blank \in RpcFrames /\ r.method \in Method \cup {Null}
      BY BlankGood DEF Good, Request
    <3>2. Blank.steady = {} /\ Blank.calm = FALSE
      BY DEF Blank
    <3>. HIDE DEF Blank
    <3>. QED  BY <3>1, <3>2 DEF RpcFrames
  <2>2. Answer(b, f, Refusal(r))
    BY <1>1 DEF Process
  <2>. HIDE DEF f
  <2>. QED  BY <2>1, <2>2, AnswerFacts
<1>2. CASE Refusal(r) = Null
  <2>1. r.method \in Query
    BY <1>2, RefusalFacts
  <2>. DEFINE f == [Blank EXCEPT !.method = r.method, !.steady = Pairs, !.calm = AtRest]
  <2>2. /\ f \in RpcFrames /\ f.method = r.method /\ f.status = Null /\ f.result = {}
        /\ f.dirty = FALSE /\ f.steady = Pairs /\ f.calm = AtRest
    <3>1. f \in RpcFrames
      BY <2>1, BlankType DEF Method
    <3>. QED  BY <3>1 DEF RpcFrames, Blank
  <2>3. ASSUME NEW t, rpc' = [rpc EXCEPT ![b] = [f EXCEPT !.pc = "next", !.todo = t]]
        PROVE  /\ Others(b) /\ Begun(b) /\ rpc'[b].method = r.method
               /\ rpc'[b].pc = "next" /\ rpc'[b].todo = t
    <3>. HIDE DEF f
    <3>. DEFINE g == [f EXCEPT !.pc = "next", !.todo = t]
    <3>1. /\ g.pc = "next" /\ g.todo = t /\ g.method = f.method /\ g.status = f.status
          /\ g.result = f.result /\ g.dirty = f.dirty /\ g.steady = f.steady /\ g.calm = f.calm
      BY <2>2 DEF RpcFrames
    <3>2. rpc' = [rpc EXCEPT ![b] = g]
      BY <2>3
    <3>. HIDE DEF g
    <3>3. Others(b) /\ rpc'[b] = g
      BY <3>2 DEF RpcInv, Others
    <3>. QED  BY <2>2, <3>1, <3>3 DEF Begun
  <2>. USE <1>2 DEF Process
  <2>4. CASE r.method = "getOnlineInfoOfDevices"
    BY <2>3, <2>4
  <2>5. CASE r.method = "getSessionInfo"
    BY <2>3, <2>5
  <2>6. CASE r.method = "getDeviceInfo"
    BY <2>3, <2>6
  <2>7. CASE r.method = "getDashboard"
    <3>. DEFINE g == [f EXCEPT !.pc = "count", !.counts = <<Cardinality(sessionMap)>>]
    <3>1. rpc' = [rpc EXCEPT ![b] = g]
      BY <2>7
    <3>. HIDE DEF f
    <3>2. /\ g.pc = "count" /\ g.counts = <<Cardinality(sessionMap)>>
          /\ g.method = f.method /\ g.status = f.status
          /\ g.result = f.result /\ g.dirty = f.dirty /\ g.steady = f.steady /\ g.calm = f.calm
      BY <2>2 DEF RpcFrames
    <3>. HIDE DEF g
    <3>3. Others(b) /\ rpc'[b] = g
      BY <3>1 DEF RpcInv, Others
    <3>. QED  BY <2>2, <2>7, <3>2, <3>3 DEF Begun
  <2>. QED  BY <2>1, <2>4, <2>5, <2>6, <2>7 DEF Query
<1>. QED  BY <1>1, <1>2

\* A logic that goes on: what it does not say otherwise, its frame keeps.
Goes(b) == Others(b) /\ Asked(b) /\ UNCHANGED vars /\ rpc'[b].status = rpc[b].status
           /\ rpc'[b].counts = rpc[b].counts

LEMMA OnlineStateFacts ==
  ASSUME RpcInv, NEW b \in Browser, OnlineState(b)
  PROVE  /\ rpc[b].method = "getOnlineInfoOfDevices" /\ rpc[b].pc = "next" /\ Goes(b)
         /\ \E d \in rpc[b].todo :
              /\ d \in DeviceId /\ rpc'[b].pc = "next" /\ rpc'[b].todo = rpc[b].todo \ {d}
              /\ rpc'[b].result = IF deviceMap[d] = Null THEN rpc[b].result
                                  ELSE rpc[b].result \cup {<<Null, d>>}
<1>1. rpc[b] \in RpcFrames /\ Fit(rpc[b])
  BY DEF RpcInv, Good
<1>2. PICK d \in rpc[b].todo :
        Read(b, [rpc[b] EXCEPT !.todo = @ \ {d},
                   !.result = IF deviceMap[d] = Null THEN @ ELSE @ \cup {<<Null, d>>}])
  BY DEF OnlineState
<1>. DEFINE res == IF deviceMap[d] = Null THEN rpc[b].result
                   ELSE rpc[b].result \cup {<<Null, d>>}
            f == [rpc[b] EXCEPT !.todo = rpc[b].todo \ {d}, !.result = res]
<1>3. Read(b, f)
  BY <1>2
<1>. HIDE DEF res
<1>4. /\ f.pc = rpc[b].pc /\ f.method = rpc[b].method /\ f.status = rpc[b].status
      /\ f.steady = rpc[b].steady /\ f.calm = rpc[b].calm /\ f.counts = rpc[b].counts
      /\ f.todo = rpc[b].todo \ {d} /\ f.result = res
  BY <1>1 DEF RpcFrames
<1>. HIDE DEF f
<1>5. Others(b) /\ rpc'[b] = f /\ UNCHANGED vars
  BY <1>3, ReadFacts
<1>6. rpc[b].method = "getOnlineInfoOfDevices" /\ rpc[b].pc = "next" /\ d \in DeviceId
  BY <1>1 DEF OnlineState, Fit
<1>7. Goes(b)
  BY <1>4, <1>5 DEF Goes, Asked
<1>. QED  BY <1>4, <1>5, <1>6, <1>7 DEF res

LEMMA SessionInfoFacts ==
  ASSUME RpcInv, NEW b \in Browser, SessionInfo(b)
  PROVE  /\ rpc[b].method = "getSessionInfo" /\ rpc[b].pc = "next"
         /\ \E s \in rpc[b].todo :
              \/ ~ses[s].proxied /\ Answers(b, "-1")
              \/ /\ Goes(b) /\ rpc'[b].pc = "mqttId" /\ rpc'[b].at = s
                 /\ rpc'[b].todo = rpc[b].todo \ {s}
                 /\ rpc'[b].result = rpc[b].result \cup {<<s, ses[s].deviceId>>}
<1>1. rpc[b] \in RpcFrames
  BY DEF RpcInv
<1>2. rpc[b].method = "getSessionInfo" /\ rpc[b].pc = "next"
  BY DEF SessionInfo
<1>3. PICK s \in rpc[b].todo :
        IF ses[s].proxied
        THEN Read(b, [rpc[b] EXCEPT !.todo = @ \ {s}, !.pc = "mqttId", !.at = s,
                                    !.result = @ \cup {<<s, ses[s].deviceId>>}])
        ELSE AnswerNow(b, "-1")
  BY DEF SessionInfo
<1>4. CASE ~ses[s].proxied
  BY <1>2, <1>3, <1>4, AnswerNowFacts
<1>5. CASE ses[s].proxied
  <2>. DEFINE res == rpc[b].result \cup {<<s, ses[s].deviceId>>}
              f == [rpc[b] EXCEPT !.todo = rpc[b].todo \ {s}, !.pc = "mqttId", !.at = s,
                                  !.result = res]
  <2>1. Read(b, f)
    BY <1>3, <1>5
  <2>. HIDE DEF res
  <2>2. /\ f.pc = "mqttId" /\ f.at = s /\ f.method = rpc[b].method /\ f.status = rpc[b].status
        /\ f.steady = rpc[b].steady /\ f.calm = rpc[b].calm /\ f.counts = rpc[b].counts
        /\ f.todo = rpc[b].todo \ {s} /\ f.result = res
    BY <1>1 DEF RpcFrames
  <2>. HIDE DEF f
  <2>3. Others(b) /\ rpc'[b] = f /\ UNCHANGED vars
    BY <2>1, ReadFacts
  <2>4. Goes(b)
    BY <2>2, <2>3 DEF Goes, Asked
  <2>. QED  BY <1>2, <2>2, <2>3, <2>4 DEF res
<1>. QED  BY <1>4, <1>5

LEMMA MqttIdFacts ==
  ASSUME RpcInv, NEW b \in Browser, MqttId(b)
  PROVE  /\ rpc[b].pc = "mqttId"
         /\ \/ ses[rpc[b].at].deviceId \notin subs /\ Answers(b, "-1")
            \/ /\ Goes(b) /\ rpc'[b].pc = "next"
               /\ rpc'[b].todo = rpc[b].todo /\ rpc'[b].result = rpc[b].result
<1>1. rpc[b] \in RpcFrames /\ rpc[b].pc = "mqttId"
  BY DEF RpcInv, MqttId
<1>. DEFINE f == [rpc[b] EXCEPT !.pc = "next", !.at = Null]
<1>2. CASE ses[rpc[b].at].deviceId \notin subs
  BY <1>1, <1>2, AnswerNowFacts DEF MqttId
<1>3. CASE ses[rpc[b].at].deviceId \in subs
  <2>1. Read(b, f)
    BY <1>3 DEF MqttId
  <2>2. /\ f.pc = "next" /\ f.method = rpc[b].method /\ f.status = rpc[b].status
        /\ f.steady = rpc[b].steady /\ f.calm = rpc[b].calm /\ f.counts = rpc[b].counts
        /\ f.todo = rpc[b].todo /\ f.result = rpc[b].result
    BY <1>1 DEF RpcFrames
  <2>. HIDE DEF f
  <2>3. Others(b) /\ rpc'[b] = f /\ UNCHANGED vars
    BY <2>1, ReadFacts
  <2>4. Goes(b)
    BY <2>2, <2>3 DEF Goes, Asked
  <2>. QED  BY <1>1, <2>2, <2>3, <2>4
<1>. QED  BY <1>2, <1>3

LEMMA DeviceInfoFacts ==
  ASSUME RpcInv, NEW b \in Browser, DeviceInfo(b)
  PROVE  /\ rpc[b].method = "getDeviceInfo" /\ rpc[b].pc = "next"
         /\ \E d \in rpc[b].todo :
              \/ deviceMap[d] = Null /\ Answers(b, "-1")
              \/ /\ d \in DeviceId /\ deviceMap[d] # Null /\ Goes(b)
                 /\ rpc'[b].pc = "walk" /\ rpc'[b].at = d /\ rpc'[b].i = 1
                 /\ rpc'[b].lst = deviceMap[d] /\ rpc'[b].n = Size(lists[deviceMap[d]])
                 /\ ~rpc'[b].dirty
                 /\ rpc'[b].todo = rpc[b].todo \ {d} /\ rpc'[b].result = rpc[b].result
<1>1. rpc[b] \in RpcFrames /\ Fit(rpc[b])
  BY DEF RpcInv, Good
<1>2. rpc[b].method = "getDeviceInfo" /\ rpc[b].pc = "next"
  BY DEF DeviceInfo
<1>3. PICK d \in rpc[b].todo :
        IF deviceMap[d] = Null
        THEN AnswerNow(b, "-1")
        ELSE Read(b, [rpc[b] EXCEPT !.todo = @ \ {d}, !.pc = "walk", !.at = d, !.i = 1,
                        !.lst = deviceMap[d], !.n = Size(lists[deviceMap[d]]), !.dirty = FALSE])
  BY DEF DeviceInfo
<1>4. CASE deviceMap[d] = Null
  BY <1>2, <1>3, <1>4, AnswerNowFacts
<1>5. CASE deviceMap[d] # Null
  <2>. DEFINE l == deviceMap[d]
              size == Size(lists[l])
              f == [rpc[b] EXCEPT !.todo = rpc[b].todo \ {d}, !.pc = "walk", !.at = d, !.i = 1,
                                  !.lst = l, !.n = size, !.dirty = FALSE]
  <2>1. Read(b, f)
    BY <1>3, <1>5
  <2>. HIDE DEF size, l
  <2>2. /\ f.pc = "walk" /\ f.at = d /\ f.i = 1 /\ f.lst = l /\ f.n = size /\ f.dirty = FALSE
        /\ f.method = rpc[b].method /\ f.status = rpc[b].status
        /\ f.steady = rpc[b].steady /\ f.calm = rpc[b].calm /\ f.counts = rpc[b].counts
        /\ f.todo = rpc[b].todo \ {d} /\ f.result = rpc[b].result
    BY <1>1 DEF RpcFrames
  <2>. HIDE DEF f
  <2>3. Others(b) /\ rpc'[b] = f /\ UNCHANGED vars
    BY <2>1, ReadFacts
  <2>4. Goes(b)
    BY <2>2, <2>3 DEF Goes, Asked
  <2>5. d \in DeviceId
    BY <1>1, <1>2 DEF Fit
  <2>. QED  BY <1>2, <1>5, <2>2, <2>3, <2>4, <2>5 DEF l, size
<1>. QED  BY <1>4, <1>5

LEMMA WalkFacts ==
  ASSUME RpcInv, NEW b \in Browser, Walk(b), NEW l, l = lists[rpc[b].lst]
  PROVE  /\ rpc[b].pc = "walk"
         /\ \/ /\ ~rpc[b].dirty /\ rpc[b].i > rpc[b].n /\ Goes(b)
               /\ rpc'[b].pc = "next"
               /\ rpc'[b].todo = rpc[b].todo /\ rpc'[b].result = rpc[b].result
            \/ /\ ~rpc[b].dirty /\ rpc[b].i <= rpc[b].n /\ Goes(b)
               /\ rpc'[b].pc = "walk" /\ rpc'[b].at = rpc[b].at /\ rpc'[b].lst = rpc[b].lst
               /\ rpc'[b].n = rpc[b].n /\ ~rpc'[b].dirty
               /\ rpc'[b].i = rpc[b].i + 1 /\ rpc'[b].todo = rpc[b].todo
               /\ rpc'[b].result = rpc[b].result \cup
                    {<<IF rpc[b].i <= Size(l) THEN l[rpc[b].i] ELSE Null, rpc[b].at>>}
            \/ /\ rpc[b].dirty \/ (/\ rpc[b].i <= rpc[b].n
                                   /\ rpc[b].i <= Size(l) => l[rpc[b].i] = Null)
               /\ Answers(b, "-1")
<1>. DEFINE r == rpc[b]
            e == IF r.i <= Size(l) THEN l[r.i] ELSE Null
            res == r.result \cup {<<e, r.at>>}
            f == [r EXCEPT !.pc = "next", !.at = Null, !.lst = Null, !.i = 0, !.n = 0]
            after == r.i + 1
            g == [r EXCEPT !.i = after, !.result = res]
<1>1. r \in RpcFrames /\ r.pc = "walk"
  BY DEF RpcInv, Walk
<1>2. \/ ~r.dirty /\ r.i > r.n /\ Read(b, f)
      \/ ~r.dirty /\ r.i <= r.n /\ Read(b, g)
      \/ (r.dirty \/ (r.i <= r.n /\ e = Null)) /\ AnswerNow(b, "-1")
  BY DEF Walk
<1>3. CASE ~r.dirty /\ r.i > r.n /\ Read(b, f)
  <2>1. /\ f.pc = "next" /\ f.method = r.method /\ f.status = r.status
        /\ f.steady = r.steady /\ f.calm = r.calm /\ f.counts = r.counts
        /\ f.todo = r.todo /\ f.result = r.result
    BY <1>1 DEF RpcFrames
  <2>. HIDE DEF f
  <2>2. Others(b) /\ rpc'[b] = f /\ UNCHANGED vars
    BY <1>3, ReadFacts
  <2>3. Goes(b)
    BY <2>1, <2>2 DEF Goes, Asked
  <2>. QED  BY <1>1, <1>3, <2>1, <2>2, <2>3
<1>4. CASE ~r.dirty /\ r.i <= r.n /\ Read(b, g)
  <2>. HIDE DEF res, after
  <2>1. /\ g.pc = r.pc /\ g.at = r.at /\ g.lst = r.lst /\ g.n = r.n /\ g.dirty = r.dirty
        /\ g.i = after /\ g.method = r.method /\ g.status = r.status
        /\ g.steady = r.steady /\ g.calm = r.calm /\ g.counts = r.counts
        /\ g.todo = r.todo /\ g.result = res
    BY <1>1 DEF RpcFrames
  <2>. HIDE DEF g
  <2>2. Others(b) /\ rpc'[b] = g /\ UNCHANGED vars
    BY <1>4, ReadFacts
  <2>3. Goes(b)
    BY <2>1, <2>2 DEF Goes, Asked
  <2>. QED  BY <1>1, <1>4, <2>1, <2>2, <2>3 DEF res, after
<1>5. CASE (r.dirty \/ (r.i <= r.n /\ e = Null)) /\ AnswerNow(b, "-1")
  <2>1. Answers(b, "-1")
    BY <1>5, AnswerNowFacts
  <2>. QED  BY <1>1, <1>5, <2>1
<1>. HIDE DEF f, g, e
<1>. QED  BY <1>2, <1>3, <1>4, <1>5

LEMMA DashboardFacts ==
  ASSUME RpcInv, NEW b \in Browser, Dashboard(b)
  PROVE  /\ rpc[b].pc = "count" /\ Others(b) /\ Asked(b) /\ UNCHANGED vars
         /\ rpc'[b].pc = "answered" /\ rpc'[b].status = "0" /\ rpc'[b].todo = {}
         /\ rpc'[b].result = rpc[b].result
         /\ rpc'[b].counts =
              Append(rpc[b].counts, Cardinality({d \in DeviceId : deviceMap[d] # Null}))
<1>. DEFINE size == Cardinality({d \in DeviceId : deviceMap[d] # Null})
            more == Append(rpc[b].counts, size)
            f == [rpc[b] EXCEPT !.counts = more]
<1>1. rpc[b] \in RpcFrames /\ rpc[b].pc = "count"
  BY DEF RpcInv, Dashboard
<1>2. Answer(b, f, "0") /\ UNCHANGED vars
  BY DEF Dashboard
<1>3. more \in Seq(Nat)
  <2>1. {d \in DeviceId : deviceMap[d] # Null} \subseteq DeviceId
    OBVIOUS
  <2>2. size \in Nat
    BY <2>1, RpcAssumption, FS_Subset, FS_CardinalityType
  <2>. HIDE DEF size
  <2>. QED  BY <1>1, <2>2 DEF RpcFrames
<1>. HIDE DEF more
<1>4. /\ f \in RpcFrames /\ f.method = rpc[b].method /\ f.result = rpc[b].result
      /\ f.steady = rpc[b].steady /\ f.calm = rpc[b].calm /\ f.counts = more
  BY <1>1, <1>3 DEF RpcFrames
<1>. HIDE DEF f
<1>5. /\ Others(b) /\ rpc'[b].pc = "answered" /\ rpc'[b].status = "0"
      /\ rpc'[b].method = f.method /\ rpc'[b].result = f.result
      /\ rpc'[b].counts = f.counts /\ rpc'[b].todo = {}
      /\ rpc'[b].steady = f.steady /\ rpc'[b].calm = f.calm
  BY <1>2, <1>4, AnswerFacts
<1>. QED  BY <1>1, <1>2, <1>4, <1>5 DEF Asked, more

\* While the handlers go on, an iterator may become invalid, a gateway may cease
\* to be settled, and nothing is calm any more.
LEMMA SessionStepFrames ==
  ASSUME RpcInv, SessionStep, NEW b \in Browser
  PROVE  \/ rpc'[b] = Blank
         \/ /\ rpc[b].pc \notin {"idle", "answered"} /\ ~rpc'[b].calm
            /\ rpc'[b].pc = rpc[b].pc /\ rpc'[b].method = rpc[b].method
            /\ rpc'[b].status = rpc[b].status /\ rpc'[b].todo = rpc[b].todo
            /\ rpc'[b].at = rpc[b].at /\ rpc'[b].lst = rpc[b].lst
            /\ rpc'[b].i = rpc[b].i /\ rpc'[b].n = rpc[b].n
            /\ rpc'[b].result = rpc[b].result
            /\ rpc'[b].dirty => rpc[b].dirty \/ Modifies(rpc[b].lst)
            /\ \A p \in rpc'[b].steady : /\ p \in rpc[b].steady
                                         /\ th'[p[1]].pc \in {"idle", "registered"}
                                         /\ ses'[p[1]].deviceId = p[2]
<1>. DEFINE dirt == rpc[b].dirty \/ (rpc[b].pc = "walk" /\ Modifies(rpc[b].lst))
            stay == {p \in rpc[b].steady : th'[p[1]].pc \in {"idle", "registered"}
                                           /\ ses'[p[1]].deviceId = p[2]}
            f == [rpc[b] EXCEPT !.dirty = dirt, !.steady = stay, !.calm = FALSE]
<1>1. rpc'[b] = IF rpc[b].pc \in {"idle", "answered"} THEN Blank ELSE f
  BY DEF SessionStep
<1>2. rpc[b] \in RpcFrames
  BY DEF RpcInv
<1>3. \A p \in stay : /\ p \in rpc[b].steady /\ th'[p[1]].pc \in {"idle", "registered"}
                      /\ ses'[p[1]].deviceId = p[2]
  OBVIOUS
<1>4. dirt => rpc[b].dirty \/ Modifies(rpc[b].lst)
  OBVIOUS
<1>. HIDE DEF dirt, stay
<1>5. /\ f.pc = rpc[b].pc /\ f.method = rpc[b].method /\ f.status = rpc[b].status
      /\ f.todo = rpc[b].todo /\ f.at = rpc[b].at /\ f.lst = rpc[b].lst
      /\ f.i = rpc[b].i /\ f.n = rpc[b].n /\ f.result = rpc[b].result
      /\ f.dirty = dirt /\ f.steady = stay /\ f.calm = FALSE
  BY <1>2 DEF RpcFrames
<1>. HIDE DEF f, Blank
<1>. QED  BY <1>1, <1>3, <1>4, <1>5

-----------------------------------------------------------------------------
(* What a logic finds.                                                     *)

\* The frames of the others still report.
LEMMA OthersReport ==
  ASSUME \A e \in Browser : Reports(rpc[e]), NEW b \in Browser, Others(b),
         UNCHANGED vars, Reports(rpc[b])'
  PROVE  (\A e \in Browser : Reports(rpc[e]))'
<1>1. ASSUME NEW e \in Browser, e # b PROVE Reports(rpc[e])'
  <2>1. rpc'[e] = rpc[e] /\ Reports(rpc[e])
    BY <1>1 DEF Others
  <2>. QED  BY <2>1 DEF Reports, Still, Settled, Walks, Found, vars
<1>. QED  BY <1>1

\* A gateway that has been settled since the request.
LEMMA SteadyFacts ==
  ASSUME ReportInv, NEW b \in Browser, NEW p \in rpc[b].steady, rpc[b].pc # "answered"
  PROVE  /\ p \in Channel \X DeviceId /\ p = <<p[1], p[2]>> /\ Still(p)
         /\ Walks(rpc[b], p) /\ Found(rpc[b], p)
         /\ deviceMap[p[2]] = p /\ lists[p] = <<p[1]>>
         /\ p[1] \in sessionMap /\ ses[p[1]].proxied
<1>1. p \in Channel \X DeviceId
  BY DEF ReportInv, RpcInv, RpcFrames
<1>2. p = <<p[1], p[2]>> /\ p[1] \in Channel /\ p[2] \in DeviceId
  BY <1>1
<1>3. Still(p) /\ Walks(rpc[b], p) /\ Found(rpc[b], p)
  BY DEF ReportInv, Reports
<1>4. Settled(p[1]) /\ ses[p[1]].deviceId = p[2] /\ LifeInv(TRUE)
  BY <1>3 DEF Still, ReportInv
<1>5. /\ deviceMap[p[2]] = <<p[1], p[2]>> /\ lists[<<p[1], p[2]>>] = <<p[1]>>
      /\ p[1] \in sessionMap /\ ses[p[1]].proxied
  BY <1>2, <1>4, SettledIsUp
<1>. QED  BY <1>1, <1>2, <1>3, <1>5

LEMMA AnswersReport ==
  ASSUME ReportInv, NEW b \in Browser, NEW s, Answers(b, s),
         s = "0" => \A p \in rpc[b].steady : Found(rpc'[b], p)
  PROVE  (\A e \in Browser : Reports(rpc[e]))'
<1>1. Reports(rpc[b])'
  BY DEF Answers, Asked, Reports, Found
<1>. QED  BY <1>1, OthersReport DEF Answers, ReportInv

LEMMA ProcessReport ==
  ASSUME ReportInv, NEW b \in Browser, NEW r \in Request, Process(b, r), UNCHANGED vars
  PROVE  (\A e \in Browser : Reports(rpc[e]))'
<1>0. RpcInv /\ Inv /\ LifeInv(TRUE)
  BY DEF ReportInv, LifeInv, OwnInv
<1>1. /\ Others(b)
      /\ \/ rpc'[b].pc = "answered" /\ rpc'[b].steady = {} /\ rpc'[b].todo = {}
         \/ /\ rpc'[b].pc = "next" /\ rpc'[b].steady = Pairs /\ rpc'[b].status = Null
            /\ rpc'[b].method = r.method
            /\ \/ r.method = "getOnlineInfoOfDevices" /\ rpc'[b].todo = DeviceId
               \/ r.method = "getSessionInfo" /\ rpc'[b].todo = sessionMap
               \/ /\ r.method = "getDeviceInfo"
                  /\ rpc'[b].todo = {d \in DeviceId : deviceMap[d] # Null}
         \/ /\ rpc'[b].pc = "count" /\ rpc'[b].method = "getDashboard"
            /\ rpc'[b].steady = Pairs /\ rpc'[b].status = Null
  BY <1>0, ProcessFacts DEF Begun
<1>2. ASSUME NEW p \in Pairs
      PROVE  /\ p[1] \in sessionMap /\ p[2] \in {d \in DeviceId : deviceMap[d] # Null}
             /\ Still(p)' /\ Still(p)
  <2>1. p[1] \in Channel /\ p[2] \in DeviceId /\ Settled(p[1]) /\ ses[p[1]].deviceId = p[2]
    BY DEF Pairs
  <2>2. p[1] \in sessionMap /\ deviceMap[p[2]] \in ListId
    BY <1>0, <2>1, SettledIsUp
  <2>3. deviceMap[p[2]] # Null
    BY <2>2, ThreadAssumption DEF ListId
  <2>. QED  BY <2>1, <2>2, <2>3 DEF Still, Settled, vars
<1>3. Reports(rpc[b])'
  BY <1>1, <1>2 DEF Reports, Found, Walks, Still, Settled
<1>. QED  BY <1>1, <1>3, OthersReport DEF ReportInv

LEMMA FinishReport ==
  ASSUME ReportInv, NEW b \in Browser, Finish(b)
  PROVE  (\A e \in Browser : Reports(rpc[e]))'
<1>1. /\ rpc[b].pc = "next" /\ rpc[b].todo = {} /\ Answers(b, "0")
  BY AnswerNowFacts DEF Finish, ReportInv
<1>2. ASSUME NEW p \in rpc[b].steady PROVE Found(rpc'[b], p)
  <2>1. Found(rpc[b], p)
    BY <1>1, SteadyFacts
  <2>. QED  BY <1>1, <2>1 DEF Found, Answers, Asked
<1>. QED  BY <1>1, <1>2, AnswersReport

LEMMA OnlineStateReport ==
  ASSUME ReportInv, NEW b \in Browser, OnlineState(b)
  PROVE  (\A e \in Browser : Reports(rpc[e]))'
<1>1. PICK d \in rpc[b].todo :
        /\ rpc[b].method = "getOnlineInfoOfDevices" /\ rpc[b].pc = "next" /\ Goes(b)
        /\ rpc'[b].pc = "next" /\ rpc'[b].todo = rpc[b].todo \ {d}
        /\ rpc'[b].result = IF deviceMap[d] = Null THEN rpc[b].result
                            ELSE rpc[b].result \cup {<<Null, d>>}
  BY OnlineStateFacts DEF ReportInv
<1>2. ASSUME NEW p \in rpc[b].steady PROVE (Still(p) /\ Walks(rpc[b], p) /\ Found(rpc[b], p))'
  <2>1. Still(p) /\ Found(rpc[b], p) /\ deviceMap[p[2]] # Null
    <3>1. p \in Channel \X DeviceId /\ deviceMap[p[2]] = p /\ Still(p) /\ Found(rpc[b], p)
      BY <1>1, SteadyFacts
    <3>. QED  BY <3>1, ThreadAssumption
  <2>2. Still(p)'
    BY <1>1, <2>1 DEF Goes, vars, Still, Settled
  <2>3. rpc'[b].method = "getOnlineInfoOfDevices"
    BY <1>1 DEF Goes, Asked
  <2>. QED  BY <1>1, <2>1, <2>2, <2>3 DEF Walks, Found
<1>3. Reports(rpc[b])'
  BY <1>1, <1>2 DEF Reports, Goes, Asked
<1>. QED  BY <1>1, <1>3, OthersReport DEF Goes, ReportInv

LEMMA SessionInfoReport ==
  ASSUME ReportInv, NEW b \in Browser, SessionInfo(b)
  PROVE  (\A e \in Browser : Reports(rpc[e]))'
<1>1. PICK s \in rpc[b].todo :
        /\ rpc[b].method = "getSessionInfo" /\ rpc[b].pc = "next"
        /\ \/ Answers(b, "-1")
           \/ /\ Goes(b) /\ rpc'[b].pc = "mqttId" /\ rpc'[b].todo = rpc[b].todo \ {s}
              /\ rpc'[b].result = rpc[b].result \cup {<<s, ses[s].deviceId>>}
  BY SessionInfoFacts DEF ReportInv
<1>2. CASE Answers(b, "-1")
  BY <1>2, AnswersReport
<1>3. CASE /\ Goes(b) /\ rpc'[b].pc = "mqttId" /\ rpc'[b].todo = rpc[b].todo \ {s}
           /\ rpc'[b].result = rpc[b].result \cup {<<s, ses[s].deviceId>>}
  <2>1. ASSUME NEW p \in rpc[b].steady PROVE (Still(p) /\ Walks(rpc[b], p) /\ Found(rpc[b], p))'
    <3>1. Still(p) /\ Found(rpc[b], p) /\ p = <<p[1], p[2]>>
      BY <1>1, SteadyFacts
    <3>2. Still(p)'
      BY <1>3, <3>1 DEF Goes, vars, Still, Settled
    <3>3. rpc'[b].method = "getSessionInfo"
      BY <1>1, <1>3 DEF Goes, Asked
    <3>4. s = p[1] => p \in rpc'[b].result
      BY <1>3, <3>1 DEF Still
    <3>. QED  BY <1>1, <1>3, <3>1, <3>2, <3>3, <3>4 DEF Walks, Found
  <2>2. Reports(rpc[b])'
    BY <1>3, <2>1 DEF Reports, Goes, Asked
  <2>. QED  BY <1>3, <2>2, OthersReport DEF Goes, ReportInv
<1>. QED  BY <1>1, <1>2, <1>3

LEMMA MqttIdReport ==
  ASSUME ReportInv, NEW b \in Browser, MqttId(b)
  PROVE  (\A e \in Browser : Reports(rpc[e]))'
<1>1. /\ rpc[b].pc = "mqttId"
      /\ \/ Answers(b, "-1")
         \/ /\ Goes(b) /\ rpc'[b].pc = "next"
            /\ rpc'[b].todo = rpc[b].todo /\ rpc'[b].result = rpc[b].result
  BY MqttIdFacts DEF ReportInv
<1>2. CASE Answers(b, "-1")
  BY <1>2, AnswersReport
<1>3. CASE /\ Goes(b) /\ rpc'[b].pc = "next"
           /\ rpc'[b].todo = rpc[b].todo /\ rpc'[b].result = rpc[b].result
  <2>1. ASSUME NEW p \in rpc[b].steady PROVE (Still(p) /\ Walks(rpc[b], p) /\ Found(rpc[b], p))'
    <3>1. Still(p) /\ Found(rpc[b], p)
      BY <1>1, SteadyFacts
    <3>2. Still(p)'
      BY <1>3, <3>1 DEF Goes, vars, Still, Settled
    <3>. QED  BY <1>1, <1>3, <3>1, <3>2 DEF Walks, Found, Goes, Asked
  <2>2. Reports(rpc[b])'
    BY <1>3, <2>1 DEF Reports, Goes, Asked
  <2>. QED  BY <1>3, <2>2, OthersReport DEF Goes, ReportInv
<1>. QED  BY <1>1, <1>2, <1>3

LEMMA DeviceInfoReport ==
  ASSUME ReportInv, NEW b \in Browser, DeviceInfo(b)
  PROVE  (\A e \in Browser : Reports(rpc[e]))'
<1>1. PICK d \in rpc[b].todo :
        /\ rpc[b].method = "getDeviceInfo" /\ rpc[b].pc = "next"
        /\ \/ Answers(b, "-1")
           \/ /\ Goes(b)
              /\ rpc'[b].pc = "walk" /\ rpc'[b].at = d /\ rpc'[b].i = 1
              /\ rpc'[b].lst = deviceMap[d] /\ rpc'[b].n = Size(lists[deviceMap[d]])
              /\ ~rpc'[b].dirty
              /\ rpc'[b].todo = rpc[b].todo \ {d} /\ rpc'[b].result = rpc[b].result
  BY DeviceInfoFacts DEF ReportInv
<1>2. CASE Answers(b, "-1")
  BY <1>2, AnswersReport
<1>3. CASE ~Answers(b, "-1")
  <2>0. /\ Goes(b)
        /\ rpc'[b].pc = "walk" /\ rpc'[b].at = d /\ rpc'[b].i = 1
        /\ rpc'[b].lst = deviceMap[d] /\ rpc'[b].n = Size(lists[deviceMap[d]])
        /\ ~rpc'[b].dirty
        /\ rpc'[b].todo = rpc[b].todo \ {d} /\ rpc'[b].result = rpc[b].result
    BY <1>1, <1>3
  <2>1. ASSUME NEW p \in rpc[b].steady PROVE (Still(p) /\ Walks(rpc[b], p) /\ Found(rpc[b], p))'
    <3>1. /\ Still(p) /\ Found(rpc[b], p) /\ p = <<p[1], p[2]>>
          /\ deviceMap[p[2]] = p /\ lists[p] = <<p[1]>>
      BY <1>1, SteadyFacts
    <3>2. Still(p)'
      BY <2>0, <3>1 DEF Goes, vars, Still, Settled
    <3>3. rpc'[b].method = "getDeviceInfo"
      BY <1>1, <2>0 DEF Goes, Asked
    <3>4. d = p[2] => rpc'[b].lst = <<p[1], p[2]>> /\ rpc'[b].n = 1
      <4>1. Size(<<p[1]>>) = 1
        BY OneElement
      <4>. QED  BY <2>0, <3>1, <4>1
    <3>5. Walks(rpc[b], p)'
      BY <2>0, <3>4 DEF Walks
    <3>6. Found(rpc[b], p)'
      BY <1>1, <2>0, <3>1, <3>3 DEF Found
    <3>. QED  BY <3>2, <3>5, <3>6
  <2>2. Reports(rpc[b])'
    BY <2>0, <2>1 DEF Reports, Goes, Asked
  <2>. QED  BY <2>0, <2>2, OthersReport DEF Goes, ReportInv
<1>. QED  BY <1>2, <1>3

LEMMA WalkReport ==
  ASSUME ReportInv, NEW b \in Browser, Walk(b)
  PROVE  (\A e \in Browser : Reports(rpc[e]))'
<1>0. PICK l : l = lists[rpc[b].lst]
  OBVIOUS
<1>1. RpcInv /\ rpc[b].pc = "walk"
  BY DEF Walk, ReportInv
<1>2. CASE Answers(b, "-1")
  BY <1>2, AnswersReport
<1>3. CASE /\ rpc[b].i > rpc[b].n /\ Goes(b) /\ rpc'[b].pc = "next"
           /\ rpc'[b].todo = rpc[b].todo /\ rpc'[b].result = rpc[b].result
  <2>1. ASSUME NEW p \in rpc[b].steady PROVE (Still(p) /\ Walks(rpc[b], p) /\ Found(rpc[b], p))'
    <3>1. Still(p) /\ Found(rpc[b], p) /\ Walks(rpc[b], p)
      BY <1>1, SteadyFacts
    <3>2. Still(p)'
      BY <1>3, <3>1 DEF Goes, vars, Still, Settled
    <3>3. ~(rpc[b].at = p[2] /\ rpc[b].i = 1)
      BY <1>1, <1>3, <3>1 DEF Walks
    <3>. QED  BY <1>1, <1>3, <3>1, <3>2, <3>3 DEF Walks, Found, Goes, Asked
  <2>2. Reports(rpc[b])'
    BY <1>3, <2>1 DEF Reports, Goes, Asked
  <2>. QED  BY <1>3, <2>2, OthersReport DEF Goes, ReportInv
<1>4. CASE /\ rpc[b].i <= rpc[b].n /\ Goes(b)
           /\ rpc'[b].pc = "walk" /\ rpc'[b].at = rpc[b].at /\ rpc'[b].lst = rpc[b].lst
           /\ rpc'[b].n = rpc[b].n /\ ~rpc'[b].dirty
           /\ rpc'[b].i = rpc[b].i + 1 /\ rpc'[b].todo = rpc[b].todo
           /\ rpc'[b].result = rpc[b].result \cup
                {<<IF rpc[b].i <= Size(l) THEN l[rpc[b].i] ELSE Null, rpc[b].at>>}
  <2>1. ASSUME NEW p \in rpc[b].steady PROVE (Still(p) /\ Walks(rpc[b], p) /\ Found(rpc[b], p))'
    <3>1. /\ Still(p) /\ Found(rpc[b], p) /\ Walks(rpc[b], p)
          /\ p = <<p[1], p[2]>> /\ lists[p] = <<p[1]>>
      BY <1>1, SteadyFacts
    <3>2. Still(p)'
      BY <1>4, <3>1 DEF Goes, vars, Still, Settled
    <3>3. ASSUME rpc[b].at = p[2], rpc[b].i = 1 PROVE p \in rpc'[b].result
      <4>1. l = <<p[1]>>
        BY <1>0, <1>1, <3>1, <3>3 DEF Walks
      <4>2. (IF 1 <= Size(l) THEN l[1] ELSE Null) = p[1]
        BY <4>1, OneElement
      <4>3. <<p[1], p[2]>> \in rpc'[b].result
        BY <1>4, <3>3, <4>2
      <4>. QED  BY <3>1, <4>3
    <3>4. Walks(rpc[b], p)'
      BY <1>1, <1>4, <3>1 DEF Walks
    <3>5. Found(rpc[b], p)'
      BY <1>1, <1>4, <3>1, <3>3 DEF Found, Goes, Asked
    <3>. QED  BY <3>2, <3>4, <3>5
  <2>2. Reports(rpc[b])'
    BY <1>4, <2>1 DEF Reports, Goes, Asked
  <2>. QED  BY <1>4, <2>2, OthersReport DEF Goes, ReportInv
<1>. QED  BY <1>0, <1>1, <1>2, <1>3, <1>4, WalkFacts

LEMMA DashboardReport ==
  ASSUME ReportInv, NEW b \in Browser, Dashboard(b)
  PROVE  (\A e \in Browser : Reports(rpc[e]))'
<1>1. /\ rpc[b].pc = "count" /\ Others(b) /\ Asked(b) /\ UNCHANGED vars
      /\ rpc'[b].pc = "answered" /\ rpc'[b].status = "0" /\ rpc'[b].todo = {}
      /\ rpc'[b].result = rpc[b].result
  BY DashboardFacts DEF ReportInv
<1>2. rpc'[b].method = "getDashboard"
  BY <1>1 DEF ReportInv, Reports, Asked
<1>3. Reports(rpc[b])'
  BY <1>1, <1>2 DEF Reports, Found
<1>. QED  BY <1>1, <1>3, OthersReport DEF ReportInv

\* The handlers leave alone the list of a gateway that stays settled.
LEMMA SessionStepReport ==
  ASSUME ReportInv, SessionStep
  PROVE  (\A e \in Browser : Reports(rpc[e]))'
<1>. SUFFICES ASSUME NEW b \in Browser PROVE Reports(rpc[b])'
  OBVIOUS
<1>1. CASE rpc'[b] = Blank
  <2>1. Blank.steady = {} /\ Blank.pc = "idle"
    BY DEF Blank
  <2>. QED  BY <1>1, <2>1 DEF Reports
<1>2. CASE rpc'[b] # Blank
  <2>1. /\ rpc[b].pc \notin {"idle", "answered"}
        /\ rpc'[b].pc = rpc[b].pc /\ rpc'[b].method = rpc[b].method
        /\ rpc'[b].todo = rpc[b].todo
        /\ rpc'[b].at = rpc[b].at /\ rpc'[b].lst = rpc[b].lst
        /\ rpc'[b].i = rpc[b].i /\ rpc'[b].n = rpc[b].n
        /\ rpc'[b].result = rpc[b].result
        /\ rpc'[b].dirty => rpc[b].dirty \/ Modifies(rpc[b].lst)
        /\ \A p \in rpc'[b].steady : /\ p \in rpc[b].steady
                                     /\ th'[p[1]].pc \in {"idle", "registered"}
                                     /\ ses'[p[1]].deviceId = p[2]
    BY <1>2, SessionStepFrames DEF ReportInv
  <2>2. ASSUME NEW p \in rpc'[b].steady
        PROVE  (Still(p) /\ Walks(rpc[b], p) /\ Found(rpc[b], p))'
    <3>1. p \in rpc[b].steady /\ Still(p)'
      BY <2>1, <2>2 DEF Still, Settled
    <3>2. /\ p \in Channel \X DeviceId /\ Still(p)
          /\ Walks(rpc[b], p) /\ Found(rpc[b], p)
      BY <2>1, <3>1, SteadyFacts
    <3>3. ~Modifies(<<p[1], p[2]>>)
      <4>1. p[1] \in Channel /\ p[2] \in DeviceId /\ OwnInv(TRUE)
        BY <3>2 DEF ReportInv, LifeInv
      <4>. QED  BY <3>2, <4>1, SettledIsAlone DEF Still, Modifies
    <3>4. Walks(rpc[b], p)'
      BY <2>1, <3>2, <3>3 DEF Walks
    <3>5. Found(rpc[b], p)'
      BY <2>1, <3>2 DEF Found
    <3>. QED  BY <3>1, <3>4, <3>5
  <2>3. rpc'[b].pc = "count" => rpc'[b].method = "getDashboard"
    BY <2>1 DEF ReportInv, Reports
  <2>. QED  BY <2>1, <2>2, <2>3 DEF Reports
<1>. QED  BY <1>1, <1>2

-----------------------------------------------------------------------------
LEMMA AskFacts ==
  ASSUME NEW b \in Browser, Login(b) \/ LoadData(b) \/ Post(b) \/ Get(b)
  PROVE  UNCHANGED vars /\ \E r \in Request : Process(b, r)
<1>0. UNCHANGED vars
  BY DEF Login, LoadData, Post, Get
<1>1. CASE Login(b)
  <2>1. PICK right \in BOOLEAN :
          Process(b, [method |-> "login", auth |-> "absent", data |-> "needed", right |-> right])
    BY <1>1 DEF Login
  <2>2. [method |-> "login", auth |-> "absent", data |-> "needed", right |-> right] \in Request
    BY DEF Request, Method
  <2>. QED  BY <1>0, <2>1, <2>2
<1>2. CASE LoadData(b)
  <2>1. PICK m \in Query : Process(b, [method |-> m, auth |-> "admin",
                                       data |-> "empty", right |-> FALSE])
    BY <1>2 DEF LoadData
  <2>2. [method |-> m, auth |-> "admin", data |-> "empty", right |-> FALSE] \in Request
    BY DEF Request, Method
  <2>. QED  BY <1>0, <2>1, <2>2
<1>3. CASE Post(b)
  BY <1>0, <1>3 DEF Post, PostRequest
<1>4. CASE Get(b)
  <2>1. PICK m \in Method \cup {Null} : Process(b, [method |-> m, auth |-> "absent",
                                                    data |-> "empty", right |-> FALSE])
    BY <1>4 DEF Get
  <2>2. [method |-> m, auth |-> "absent", data |-> "empty", right |-> FALSE] \in Request
    BY DEF Request
  <2>. QED  BY <1>0, <2>1, <2>2
<1>. QED  BY <1>1, <1>2, <1>3, <1>4

LEMMA ReportInit == RpcInit => ReportInv
<1>. SUFFICES ASSUME RpcInit PROVE ReportInv
  OBVIOUS
<1>1. RpcInv /\ LifeInv(TRUE)
  BY RpcInitInv, InitLife DEF RpcInit
<1>2. ASSUME NEW b \in Browser PROVE Reports(rpc[b])
  <2>1. rpc[b] = Blank
    BY DEF RpcInit
  <2>2. Blank.steady = {} /\ Blank.pc = "idle"
    BY DEF Blank
  <2>. HIDE DEF Blank
  <2>. QED  BY <2>1, <2>2 DEF Reports
<1>. QED  BY <1>1, <1>2 DEF ReportInv

\* The server takes the steps of the handlers or leaves their state alone.
LEMMA HandlersStep == [RpcNext]_rpcVars => [Next]_vars
<1>1. CASE SessionStep
  BY <1>1 DEF SessionStep
<1>2. CASE ~SessionStep
  BY <1>2 DEF RpcNext, rpcVars, Login, LoadData, Post, Get, Finish, OnlineState,
     SessionInfo, MqttId, DeviceInfo, Walk, Dashboard, Read, AnswerNow
<1>. QED  BY <1>1, <1>2

LEMMA ReportNext ==
  ASSUME DistinctTokens, ReportInv, [RpcNext]_rpcVars
  PROVE  ReportInv'
<1>1. RpcInv'
  BY RpcNextInv DEF ReportInv, LifeInv, OwnInv
<1>2. LifeInv(TRUE)'
  BY HandlersStep, NextLife DEF ReportInv
<1>3. (\A b \in Browser : Reports(rpc[b]))'
  <2>1. CASE UNCHANGED rpcVars
    BY <2>1 DEF rpcVars, vars, ReportInv, Reports, Still, Settled, Walks, Found
  <2>2. ASSUME NEW b \in Browser, Login(b) \/ LoadData(b) \/ Post(b) \/ Get(b)
        PROVE  (\A e \in Browser : Reports(rpc[e]))'
    BY <2>2, AskFacts, ProcessReport
  <2>. QED  BY <2>1, <2>2, SessionStepReport, FinishReport, OnlineStateReport, SessionInfoReport,
               MqttIdReport, DeviceInfoReport, WalkReport, DashboardReport DEF RpcNext
<1>. QED  BY <1>1, <1>2, <1>3 DEF ReportInv

THEOREM ReportInvariance == ASSUME DistinctTokens PROVE RpcSpec => []ReportInv
<1>1. RpcInit => ReportInv
  BY ReportInit
<1>2. ReportInv /\ [RpcNext]_rpcVars => ReportInv'
  BY ReportNext
<1>. QED  BY <1>1, <1>2, PTL DEF RpcSpec

\* When no two gateways share an id, a query that is answered with status 0 has
\* found every gateway that was settled under its id from the request to the
\* answer, although the directory is read in several steps and without a lock
\* (GetOnlineInfoOfDevicesLogic, GetSessionInfoLogic, GetDeviceInfoLogic).
THEOREM SteadyAreReported == ASSUME DistinctTokens PROVE RpcSpec => []SteadyIsReported
<1>1. ReportInv => SteadyIsReported
  <2>. SUFFICES ASSUME ReportInv, NEW b \in Browser, Answered(b), rpc[b].status = "0",
                       NEW p \in rpc[b].steady
                PROVE  CASE rpc[b].method \in {"getSessionInfo", "getDeviceInfo"} ->
                              p \in rpc[b].result
                         [] rpc[b].method = "getOnlineInfoOfDevices" ->
                              <<Null, p[2]>> \in rpc[b].result
                         [] OTHER -> TRUE
    BY DEF SteadyIsReported
  <2>1. Found(rpc[b], p) /\ rpc[b].pc = "answered"
    BY DEF ReportInv, Reports, Answered
  <2>2. rpc[b].todo = {}
    BY <2>1 DEF ReportInv, Reports
  <2>. QED  BY <2>1, <2>2 DEF Found
<1>. QED  BY <1>1, ReportInvariance, PTL

-----------------------------------------------------------------------------
(* What a logic finds when nothing happens.                                *)

\* The directory at rest, when no MQTT call has failed: its sessions and its
\* devices are those of the settled gateways.
LEMMA RestingDirectory ==
  ASSUME LifeInv(TRUE), failed = {}, AtRest
  PROVE  /\ \A p \in Pairs : /\ p \in Channel \X DeviceId /\ p = <<p[1], p[2]>>
                             /\ p[1] \in sessionMap /\ ses[p[1]].deviceId = p[2]
                             /\ deviceMap[p[2]] = p /\ lists[p] = <<p[1]>>
         /\ \A c \in sessionMap : /\ <<c, ses[c].deviceId>> \in Pairs
                                  /\ ses[c].proxied /\ ses[c].deviceId \in subs
         /\ \A d \in DeviceId : deviceMap[d] # Null => deviceMap[d] \in Pairs /\ deviceMap[d][2] = d
<1>0. OwnInv(TRUE) /\ Inv
  BY DEF LifeInv, OwnInv
<1>1. ASSUME NEW p \in Pairs
      PROVE  /\ p \in Channel \X DeviceId /\ p = <<p[1], p[2]>>
             /\ p[1] \in sessionMap /\ ses[p[1]].deviceId = p[2]
             /\ deviceMap[p[2]] = p /\ lists[p] = <<p[1]>>
  <2>1. p \in Channel \X DeviceId /\ Settled(p[1]) /\ ses[p[1]].deviceId = p[2]
    BY DEF Pairs
  <2>2. p = <<p[1], p[2]>> /\ p[1] \in Channel /\ p[2] \in DeviceId
    BY <2>1
  <2>3. /\ p[1] \in sessionMap /\ deviceMap[p[2]] = <<p[1], p[2]>>
        /\ lists[<<p[1], p[2]>>] = <<p[1]>>
    BY <2>1, <2>2, SettledIsUp
  <2>. QED  BY <2>1, <2>2, <2>3
<1>2. ASSUME NEW c \in sessionMap
      PROVE  /\ <<c, ses[c].deviceId>> \in Pairs
             /\ ses[c].proxied /\ ses[c].deviceId \in subs
  <2>1. c \in Channel /\ chan[c] # "new"
    BY <1>0 DEF Inv, Control, TypeOK, ChanOK
  <2>2. th[c].pc # "done" /\ th[c].pc # "new"
    BY <1>0, <2>1 DEF LifeInv, Life, Inv, Control, ChanOK
  <2>3. Settled(c)
    BY <2>1, <2>2 DEF AtRest, Settled
  <2>4. ses[c].deviceId \in DeviceId /\ ses[c].proxied
    BY <2>1, <2>3, SettledIsUp
  <2>5. ses[c].deviceId \in Own(c)
    BY <1>0, <2>1, <2>4, OwnSessionIds, ThreadAssumption
  <2>6. Up(c, TRUE)
    BY <2>1, <2>3 DEF LifeInv, Life
  <2>7. ses[c].deviceId \in subs
    BY <2>5, <2>6 DEF Up, Heard
  <2>8. <<c, ses[c].deviceId>> \in Pairs
    BY <2>1, <2>3, <2>4 DEF Pairs
  <2>. QED  BY <2>4, <2>7, <2>8
<1>3. ASSUME NEW d \in DeviceId, deviceMap[d] # Null
      PROVE  deviceMap[d] \in Pairs /\ deviceMap[d][2] = d
  <2>1. PICK c \in Channel : d \in Own(c)
    <3>1. deviceMap[d] \in ListId
      BY <1>0, <1>3 DEF Inv, Control, TypeOK
    <3>. QED  BY <1>0, <1>3, <3>1, ListIds DEF OwnInv, OwnOK, OwnList
  <2>2. ~Known(c, {})
    BY <1>3, <2>1 DEF Known
  <2>3. chan[c] = "open" /\ Up(c, TRUE)
    BY <2>2, RestingLife DEF Down
  <2>4. d = ses[c].deviceId /\ deviceMap[d] = <<c, d>>
    BY <1>3, <2>1, <2>3 DEF Up, Known
  <2>5. th[c].pc # "done" /\ th[c].pc # "new"
    BY <1>0, <2>3, RestFacts DEF LifeInv, Life, Inv, Control, ChanOK, RestPc, Thread
  <2>6. Settled(c)
    BY <2>5 DEF AtRest, Settled
  <2>. QED  BY <2>4, <2>6 DEF Pairs
<1>. QED  BY <1>1, <1>2, <1>3

\* So there are as many sessions as devices as settled gateways.
LEMMA RestingCounts ==
  ASSUME LifeInv(TRUE), failed = {}, AtRest
  PROVE  /\ Cardinality(sessionMap) = Cardinality(Pairs)
         /\ Cardinality({d \in DeviceId : deviceMap[d] # Null}) = Cardinality(Pairs)
<1>. DEFINE D == {d \in DeviceId : deviceMap[d] # Null}
            f == [c \in sessionMap |-> <<c, ses[c].deviceId>>]
            g == [d \in D |-> deviceMap[d]]
<1>1. IsFiniteSet(sessionMap) /\ IsFiniteSet(D)
  <2>1. sessionMap \subseteq Channel /\ D \subseteq DeviceId
    BY DEF LifeInv, OwnInv, Inv, Control, TypeOK
  <2>. HIDE DEF D
  <2>. QED  BY <2>1, RpcAssumption, FS_Subset
<1>2. ASSUME NEW p \in Pairs
      PROVE  /\ p[1] \in sessionMap /\ p = <<p[1], ses[p[1]].deviceId>>
             /\ p[2] \in D /\ deviceMap[p[2]] = p
  <2>1. /\ p \in Channel \X DeviceId /\ p = <<p[1], p[2]>>
        /\ p[1] \in sessionMap /\ ses[p[1]].deviceId = p[2] /\ deviceMap[p[2]] = p
    BY RestingDirectory
  <2>2. p # Null
    BY <2>1, ThreadAssumption
  <2>. QED  BY <2>1, <2>2
<1>3. f \in Bijection(sessionMap, Pairs)
  <2>1. f \in [sessionMap -> Pairs]
    BY RestingDirectory
  <2>2. IsInjective(f)
    BY DEF IsInjective
  <2>3. \A p \in Pairs : \E c \in sessionMap : f[c] = p
    BY <1>2
  <2>. HIDE DEF f
  <2>. QED  BY <2>1, <2>2, <2>3 DEF Bijection, Injection, Surjection
<1>4. g \in Bijection(D, Pairs)
  <2>1. \A d \in D : deviceMap[d] \in Pairs /\ deviceMap[d][2] = d
    BY RestingDirectory
  <2>. HIDE DEF D
  <2>2. g \in [D -> Pairs]
    BY <2>1
  <2>3. IsInjective(g)
    <3>. SUFFICES ASSUME NEW d \in D, NEW e \in D, g[d] = g[e] PROVE d = e
      BY DEF IsInjective
    <3>. QED  BY <2>1
  <2>4. \A p \in Pairs : \E d \in D : g[d] = p
    BY <1>2
  <2>. HIDE DEF g
  <2>. QED  BY <2>2, <2>3, <2>4 DEF Bijection, Injection, Surjection
<1>. HIDE DEF f, g, D
<1>5. Cardinality(sessionMap) = Cardinality(Pairs)
  BY <1>1, <1>3, FS_Bijection DEF ExistsBijection
<1>6. Cardinality(D) = Cardinality(Pairs)
  BY <1>1, <1>4, FS_Bijection DEF ExistsBijection
<1>. QED  BY <1>5, <1>6 DEF D

LEMMA QuietFacts ==
  ASSUME UNCHANGED vars
  PROVE  /\ Pairs' = Pairs /\ AtRest' = AtRest
         /\ sessionMap' = sessionMap /\ failed' = failed
BY DEF Pairs, AtRest, At, Settled, vars, directory

\* The frames of the others stay calm.
LEMMA OthersCalm ==
  ASSUME \A e \in Browser : CalmOrExact(rpc[e]), NEW b \in Browser, Others(b),
         UNCHANGED vars, CalmOrExact(rpc[b])'
  PROVE  (\A e \in Browser : CalmOrExact(rpc[e]))'
<1>1. ASSUME NEW e \in Browser, e # b PROVE CalmOrExact(rpc[e])'
  <2>1. rpc'[e] = rpc[e] /\ CalmOrExact(rpc[e])
    BY <1>1 DEF Others
  <2>2. Pairs' = Pairs /\ AtRest' = AtRest /\ sessionMap' = sessionMap
    BY QuietFacts
  <2>3. Calm(rpc[e])' = Calm(rpc[e])
    BY <2>1, <2>2 DEF Calm
  <2>4. Exact(rpc[e])' = Exact(rpc[e])
    BY <2>1 DEF Exact
  <2>. QED  BY <2>1, <2>3, <2>4 DEF CalmOrExact
<1>. QED  BY <1>1

LEMMA AnswersCalm ==
  ASSUME CalmInv, NEW b \in Browser, NEW s, Answers(b, s),
         rpc[b].calm => s # "-1" /\ (s = "0" => Exact(rpc'[b]))
  PROVE  (\A e \in Browser : CalmOrExact(rpc[e]))'
<1>1. CalmOrExact(rpc[b])'
  BY DEF Answers, Asked, CalmOrExact, Exact
<1>. QED  BY <1>1, OthersCalm DEF Answers, CalmInv

\* What a logic at work has before it and behind it when nothing happens.
LEMMA CalmFacts ==
  ASSUME CalmInv, NEW b \in Browser, rpc[b].calm, rpc[b].pc # "answered"
  PROVE  /\ Calm(rpc[b]) /\ rpc[b].steady = Pairs
         /\ \A p \in Pairs : /\ p \in Channel \X DeviceId /\ p = <<p[1], p[2]>>
                             /\ p[1] \in sessionMap /\ ses[p[1]].deviceId = p[2]
                             /\ deviceMap[p[2]] = p /\ lists[p] = <<p[1]>>
         /\ \A c \in sessionMap : /\ <<c, ses[c].deviceId>> \in Pairs
                                  /\ ses[c].proxied /\ ses[c].deviceId \in subs
         /\ \A d \in DeviceId : deviceMap[d] # Null => deviceMap[d] \in Pairs /\ deviceMap[d][2] = d
<1>1. Calm(rpc[b])
  BY DEF CalmInv, CalmOrExact
<1>2. AtRest /\ LifeInv(TRUE) /\ failed = {} /\ rpc[b].steady = Pairs
  BY <1>1 DEF Calm, CalmInv, ReportInv
<1>. QED  BY <1>1, <1>2, RestingDirectory

LEMMA FinishCalm ==
  ASSUME CalmInv, NEW b \in Browser, Finish(b)
  PROVE  (\A e \in Browser : CalmOrExact(rpc[e]))'
<1>1. rpc[b].pc = "next" /\ rpc[b].todo = {} /\ Answers(b, "0")
  BY AnswerNowFacts DEF Finish, CalmInv, ReportInv
<1>2. ASSUME rpc[b].calm PROVE Exact(rpc'[b])
  <2>1. Calm(rpc[b]) /\ rpc[b].steady = Pairs
    BY <1>1, <1>2, CalmFacts
  <2>2. /\ rpc'[b].method = rpc[b].method /\ rpc'[b].result = rpc[b].result
        /\ rpc'[b].steady = Pairs
    BY <1>1, <2>1 DEF Answers, Asked
  <2>3. rpc[b].method \in {"getSessionInfo", "getDeviceInfo"} => rpc[b].result = Pairs
    BY <1>1, <2>1 DEF Calm
  <2>4. rpc[b].method = "getOnlineInfoOfDevices" =>
          rpc[b].result = {<<Null, p[2]>> : p \in Pairs}
    <3>1. {<<Null, d>> : d \in {q[2] : q \in Pairs} \ {}} = {<<Null, p[2]>> : p \in Pairs}
      OBVIOUS
    <3>. QED  BY <1>1, <2>1, <3>1 DEF Calm
  <2>5. rpc[b].method # "getDashboard"
    BY <1>1, <2>1 DEF Calm
  <2>. QED  BY <2>2, <2>3, <2>4, <2>5 DEF Exact
<1>. QED  BY <1>1, <1>2, AnswersCalm

LEMMA ProcessCalm ==
  ASSUME CalmInv, NEW b \in Browser, NEW r \in Request, Process(b, r), UNCHANGED vars
  PROVE  (\A e \in Browser : CalmOrExact(rpc[e]))'
<1>0. RpcInv /\ Inv /\ LifeInv(TRUE) /\ failed = {}
  BY DEF CalmInv, ReportInv, LifeInv, OwnInv
<1>1. /\ Others(b)
      /\ \/ ~rpc'[b].calm
         \/ /\ Begun(b) /\ rpc'[b].method = r.method /\ rpc'[b].pc = "next"
            /\ \/ r.method = "getOnlineInfoOfDevices" /\ rpc'[b].todo = DeviceId
               \/ r.method = "getSessionInfo" /\ rpc'[b].todo = sessionMap
               \/ /\ r.method = "getDeviceInfo"
                  /\ rpc'[b].todo = {d \in DeviceId : deviceMap[d] # Null}
         \/ /\ Begun(b) /\ rpc'[b].method = "getDashboard" /\ rpc'[b].pc = "count"
            /\ rpc'[b].counts = <<Cardinality(sessionMap)>>
  BY <1>0, ProcessFacts
<1>2. Pairs' = Pairs /\ AtRest' = AtRest /\ sessionMap' = sessionMap
  BY QuietFacts
<1>3. CASE Begun(b) /\ AtRest
  <2>1. /\ \A p \in Pairs : p[1] \in sessionMap /\ p[2] \in DeviceId /\ deviceMap[p[2]] = p
                            /\ p # Null
        /\ \A d \in DeviceId : deviceMap[d] # Null => deviceMap[d] \in Pairs /\ deviceMap[d][2] = d
    <3>1. \A p \in Pairs : /\ p \in Channel \X DeviceId
                           /\ p[1] \in sessionMap /\ deviceMap[p[2]] = p
      BY <1>0, <1>3, RestingDirectory
    <3>2. \A p \in Pairs : p # Null /\ p[2] \in DeviceId
      BY <3>1, ThreadAssumption
    <3>. QED  BY <1>0, <1>3, <3>1, <3>2, RestingDirectory
  <2>2. rpc'[b].result = {} /\ rpc'[b].steady = Pairs
    BY <1>3 DEF Begun
  <2>3. ASSUME r.method = "getOnlineInfoOfDevices", rpc'[b].todo = DeviceId,
               rpc'[b].method = r.method, rpc'[b].pc = "next"
        PROVE  CalmOrExact(rpc[b])'
    <3>1. {q[2] : q \in Pairs} \ DeviceId = {}
      BY <2>1
    <3>2. {<<Null, d>> : d \in {q[2] : q \in Pairs} \ DeviceId} = {}
      BY <3>1
    <3>. QED  BY <1>1, <1>2, <1>3, <2>2, <2>3, <3>2 DEF CalmOrExact, Calm
  <2>4. ASSUME r.method = "getSessionInfo", rpc'[b].todo = sessionMap,
               rpc'[b].method = r.method, rpc'[b].pc = "next"
        PROVE  CalmOrExact(rpc[b])'
    <3>1. {p \in Pairs : p[1] \notin sessionMap} = {}
      BY <2>1
    <3>. QED  BY <1>1, <1>2, <1>3, <2>2, <2>4, <3>1 DEF CalmOrExact, Calm
  <2>5. ASSUME r.method = "getDeviceInfo", rpc'[b].method = r.method, rpc'[b].pc = "next",
               rpc'[b].todo = {d \in DeviceId : deviceMap[d] # Null}
        PROVE  CalmOrExact(rpc[b])'
    <3>1. rpc'[b].todo \subseteq {q[2] : q \in Pairs}
      BY <2>1, <2>5
    <3>2. {p \in Pairs : p[2] \notin rpc'[b].todo
                         /\ ~(rpc'[b].pc = "walk" /\ rpc'[b].i = 1 /\ rpc'[b].at = p[2])} = {}
      BY <2>1, <2>5
    <3>. QED  BY <1>1, <1>2, <1>3, <2>2, <2>5, <3>1, <3>2 DEF CalmOrExact, Calm
  <2>6. ASSUME rpc'[b].method = "getDashboard", rpc'[b].pc = "count",
               rpc'[b].counts = <<Cardinality(sessionMap)>>
        PROVE  CalmOrExact(rpc[b])'
    BY <1>1, <1>2, <1>3, <2>2, <2>6 DEF CalmOrExact, Calm
  <2>7. ASSUME ~rpc'[b].calm PROVE CalmOrExact(rpc[b])'
    BY <2>7 DEF CalmOrExact
  <2>8. CalmOrExact(rpc[b])'
    BY <1>1, <2>3, <2>4, <2>5, <2>6, <2>7
  <2>. QED  BY <1>1, <2>8, OthersCalm DEF CalmInv
<1>4. CASE ~(Begun(b) /\ AtRest)
  <2>1. ~rpc'[b].calm
    BY <1>1, <1>4 DEF Begun
  <2>2. CalmOrExact(rpc[b])'
    BY <2>1 DEF CalmOrExact
  <2>. QED  BY <1>1, <2>2, OthersCalm DEF CalmInv
<1>. QED  BY <1>3, <1>4

LEMMA GoesCalm ==
  ASSUME CalmInv, NEW b \in Browser, Goes(b), rpc'[b].pc # "answered",
         rpc[b].calm => Calm(rpc'[b])
  PROVE  (\A e \in Browser : CalmOrExact(rpc[e]))'
<1>1. Pairs' = Pairs /\ AtRest' = AtRest /\ sessionMap' = sessionMap
  BY QuietFacts DEF Goes
<1>2. Calm(rpc[b])' <=> Calm(rpc'[b])
  BY <1>1 DEF Calm
<1>3. CalmOrExact(rpc[b])'
  BY <1>2 DEF Goes, Asked, CalmOrExact
<1>. QED  BY <1>3, OthersCalm DEF Goes, CalmInv

LEMMA OnlineStateCalm ==
  ASSUME CalmInv, NEW b \in Browser, OnlineState(b)
  PROVE  (\A e \in Browser : CalmOrExact(rpc[e]))'
<1>1. PICK d \in rpc[b].todo :
        /\ rpc[b].method = "getOnlineInfoOfDevices" /\ rpc[b].pc = "next" /\ Goes(b)
        /\ d \in DeviceId /\ rpc'[b].pc = "next" /\ rpc'[b].todo = rpc[b].todo \ {d}
        /\ rpc'[b].result = IF deviceMap[d] = Null THEN rpc[b].result
                            ELSE rpc[b].result \cup {<<Null, d>>}
  BY OnlineStateFacts DEF CalmInv, ReportInv
<1>2. ASSUME rpc[b].calm PROVE Calm(rpc'[b])
  <2>. DEFINE D == {q[2] : q \in Pairs}
  <2>1. /\ AtRest /\ rpc[b].steady = Pairs
        /\ rpc[b].result = {<<Null, x>> : x \in D \ rpc[b].todo}
    BY <1>1, <1>2, CalmFacts DEF Calm
  <2>2. /\ \A p \in Pairs : p # Null /\ deviceMap[p[2]] = p
        /\ deviceMap[d] # Null => deviceMap[d] \in Pairs /\ deviceMap[d][2] = d
    <3>1. \A p \in Pairs : p \in Channel \X DeviceId /\ deviceMap[p[2]] = p
      BY <1>1, <1>2, CalmFacts
    <3>2. \A p \in Pairs : p # Null
      BY <3>1, ThreadAssumption
    <3>. QED  BY <1>1, <1>2, <3>1, <3>2, CalmFacts
  <2>3. d \in D <=> deviceMap[d] # Null
    BY <2>2
  <2>. HIDE DEF D
  <2>4. rpc'[b].result = {<<Null, x>> : x \in D \ rpc'[b].todo}
    <3>1. CASE deviceMap[d] = Null
      <4>1. D \ rpc'[b].todo = D \ rpc[b].todo
        BY <1>1, <2>3, <3>1
      <4>. QED  BY <1>1, <2>1, <3>1, <4>1
    <3>2. CASE deviceMap[d] # Null
      <4>1. D \ rpc'[b].todo = (D \ rpc[b].todo) \cup {d}
        BY <1>1, <2>3, <3>2
      <4>2. rpc'[b].result = {<<Null, x>> : x \in D \ rpc[b].todo} \cup {<<Null, d>>}
        BY <1>1, <2>1, <3>2
      <4>3. {<<Null, x>> : x \in (D \ rpc[b].todo) \cup {d}}
              = {<<Null, x>> : x \in D \ rpc[b].todo} \cup {<<Null, d>>}
        OBVIOUS
      <4>. QED  BY <4>1, <4>2, <4>3
    <3>. QED  BY <3>1, <3>2
  <2>. QED  BY <1>1, <2>1, <2>4 DEF Calm, Goes, Asked, D
<1>. QED  BY <1>1, <1>2, GoesCalm

LEMMA SessionInfoCalm ==
  ASSUME CalmInv, NEW b \in Browser, SessionInfo(b)
  PROVE  (\A e \in Browser : CalmOrExact(rpc[e]))'
<1>1. PICK s \in rpc[b].todo :
        /\ rpc[b].method = "getSessionInfo" /\ rpc[b].pc = "next"
        /\ \/ ~ses[s].proxied /\ Answers(b, "-1")
           \/ /\ Goes(b) /\ rpc'[b].pc = "mqttId" /\ rpc'[b].at = s
              /\ rpc'[b].todo = rpc[b].todo \ {s}
              /\ rpc'[b].result = rpc[b].result \cup {<<s, ses[s].deviceId>>}
  BY SessionInfoFacts DEF CalmInv, ReportInv
<1>2. rpc[b].calm =>
        /\ AtRest /\ rpc[b].steady = Pairs /\ rpc[b].todo \subseteq sessionMap
        /\ rpc[b].result = {p \in Pairs : p[1] \notin rpc[b].todo}
  BY <1>1, CalmFacts DEF Calm
<1>3. CASE ~ses[s].proxied /\ Answers(b, "-1")
  <2>1. ~rpc[b].calm
    BY <1>1, <1>2, <1>3, CalmFacts
  <2>. QED  BY <1>3, <2>1, AnswersCalm
<1>4. CASE /\ Goes(b) /\ rpc'[b].pc = "mqttId" /\ rpc'[b].at = s
           /\ rpc'[b].todo = rpc[b].todo \ {s}
           /\ rpc'[b].result = rpc[b].result \cup {<<s, ses[s].deviceId>>}
  <2>1. ASSUME rpc[b].calm PROVE Calm(rpc'[b])
    <3>1. s \in sessionMap /\ <<s, ses[s].deviceId>> \in Pairs
      BY <1>1, <1>2, <2>1, CalmFacts
    <3>2. \A p \in Pairs : p = <<p[1], p[2]>> /\ ses[p[1]].deviceId = p[2]
      BY <1>1, <2>1, CalmFacts
    <3>3. {p \in Pairs : p[1] \notin rpc'[b].todo}
            = {p \in Pairs : p[1] \notin rpc[b].todo} \cup {<<s, ses[s].deviceId>>}
      <4>1. {p \in Pairs : p[1] = s} = {<<s, ses[s].deviceId>>}
        BY <3>1, <3>2
      <4>2. {p \in Pairs : p[1] \notin rpc'[b].todo}
              = {p \in Pairs : p[1] \notin rpc[b].todo} \cup {p \in Pairs : p[1] = s}
        BY <1>4
      <4>. QED  BY <4>1, <4>2
    <3>4. rpc'[b].result = {p \in Pairs : p[1] \notin rpc'[b].todo}
      BY <1>2, <1>4, <2>1, <3>3
    <3>. QED  BY <1>1, <1>2, <1>4, <2>1, <3>1, <3>4 DEF Calm, Goes, Asked
  <2>. QED  BY <1>4, <2>1, GoesCalm
<1>. QED  BY <1>1, <1>3, <1>4

LEMMA MqttIdCalm ==
  ASSUME CalmInv, NEW b \in Browser, MqttId(b)
  PROVE  (\A e \in Browser : CalmOrExact(rpc[e]))'
<1>1. /\ rpc[b].pc = "mqttId"
      /\ \/ ses[rpc[b].at].deviceId \notin subs /\ Answers(b, "-1")
         \/ /\ Goes(b) /\ rpc'[b].pc = "next"
            /\ rpc'[b].todo = rpc[b].todo /\ rpc'[b].result = rpc[b].result
  BY MqttIdFacts DEF CalmInv, ReportInv
<1>2. rpc[b].calm => Calm(rpc[b]) /\ rpc[b].method = "getSessionInfo" /\ rpc[b].at \in sessionMap
  BY <1>1, CalmFacts DEF Calm
<1>3. CASE ses[rpc[b].at].deviceId \notin subs /\ Answers(b, "-1")
  <2>1. ~rpc[b].calm
    BY <1>1, <1>2, <1>3, CalmFacts
  <2>. QED  BY <1>3, <2>1, AnswersCalm
<1>4. CASE /\ Goes(b) /\ rpc'[b].pc = "next"
           /\ rpc'[b].todo = rpc[b].todo /\ rpc'[b].result = rpc[b].result
  <2>1. ASSUME rpc[b].calm PROVE Calm(rpc'[b])
    BY <1>2, <1>4, <2>1 DEF Calm, Goes, Asked
  <2>. QED  BY <1>4, <2>1, GoesCalm
<1>. QED  BY <1>1, <1>3, <1>4

LEMMA DeviceInfoCalm ==
  ASSUME CalmInv, NEW b \in Browser, DeviceInfo(b)
  PROVE  (\A e \in Browser : CalmOrExact(rpc[e]))'
<1>1. PICK d \in rpc[b].todo :
        /\ rpc[b].method = "getDeviceInfo" /\ rpc[b].pc = "next"
        /\ \/ deviceMap[d] = Null /\ Answers(b, "-1")
           \/ /\ Goes(b) /\ rpc'[b].pc = "walk" /\ rpc'[b].at = d /\ rpc'[b].i = 1
              /\ rpc'[b].lst = deviceMap[d] /\ rpc'[b].n = Size(lists[deviceMap[d]])
              /\ ~rpc'[b].dirty
              /\ rpc'[b].todo = rpc[b].todo \ {d} /\ rpc'[b].result = rpc[b].result
  BY DeviceInfoFacts DEF CalmInv, ReportInv
<1>2. ASSUME rpc[b].calm
      PROVE  /\ AtRest /\ rpc[b].steady = Pairs /\ rpc[b].todo \subseteq {q[2] : q \in Pairs}
             /\ rpc[b].result = {p \in Pairs : p[2] \notin rpc[b].todo}
             /\ \A p \in Pairs : /\ p # Null /\ p = <<p[1], p[2]>>
                                 /\ deviceMap[p[2]] = p /\ lists[p] = <<p[1]>>
  <2>1. /\ Calm(rpc[b]) /\ rpc[b].steady = Pairs
        /\ \A p \in Pairs : /\ p \in Channel \X DeviceId /\ p = <<p[1], p[2]>>
                            /\ deviceMap[p[2]] = p /\ lists[p] = <<p[1]>>
    BY <1>1, <1>2, CalmFacts
  <2>2. \A p \in Pairs : p # Null
    BY <2>1, ThreadAssumption
  <2>3. {p \in Pairs : p[2] \notin rpc[b].todo
                       /\ ~(rpc[b].pc = "walk" /\ rpc[b].i = 1 /\ rpc[b].at = p[2])}
          = {p \in Pairs : p[2] \notin rpc[b].todo}
    BY <1>1
  <2>. QED  BY <1>1, <2>1, <2>2, <2>3 DEF Calm
<1>3. CASE deviceMap[d] = Null /\ Answers(b, "-1")
  <2>1. ~rpc[b].calm
    BY <1>1, <1>2, <1>3
  <2>. QED  BY <1>3, <2>1, AnswersCalm
<1>4. CASE /\ Goes(b) /\ rpc'[b].pc = "walk" /\ rpc'[b].at = d /\ rpc'[b].i = 1
           /\ rpc'[b].lst = deviceMap[d] /\ rpc'[b].n = Size(lists[deviceMap[d]])
           /\ ~rpc'[b].dirty
           /\ rpc'[b].todo = rpc[b].todo \ {d} /\ rpc'[b].result = rpc[b].result
  <2>1. ASSUME rpc[b].calm PROVE Calm(rpc'[b])
    <3>1. PICK p \in Pairs : d = p[2]
      BY <1>1, <1>2, <2>1
    <3>2. rpc'[b].lst = <<p[1], p[2]>> /\ rpc'[b].n = 1
      <4>1. Size(<<p[1]>>) = 1
        BY OneElement
      <4>2. deviceMap[d] = p /\ lists[p] = <<p[1]>> /\ p = <<p[1], p[2]>>
        BY <1>2, <2>1, <3>1
      <4>3. lists[deviceMap[d]] = <<p[1]>>
        BY <4>2
      <4>. QED  BY <1>4, <4>1, <4>2, <4>3
    <3>3. rpc'[b].result
            = {q \in Pairs : /\ q[2] \notin rpc'[b].todo
                             /\ ~(rpc'[b].pc = "walk" /\ rpc'[b].i = 1 /\ rpc'[b].at = q[2])}
      BY <1>1, <1>2, <1>4, <2>1
    <3>4. rpc'[b].method = "getDeviceInfo" /\ rpc'[b].steady = Pairs
      BY <1>1, <1>2, <1>4, <2>1 DEF Goes, Asked
    <3>5. /\ rpc'[b].todo \subseteq {q[2] : q \in Pairs} /\ rpc'[b].at \notin rpc'[b].todo
          /\ rpc'[b].i \in {1, 2} /\ rpc'[b].pc = "walk" /\ rpc'[b].at = p[2]
      BY <1>2, <1>4, <2>1, <3>1
    <3>. QED  BY <1>2, <1>4, <2>1, <3>2, <3>3, <3>4, <3>5 DEF Calm
  <2>. QED  BY <1>4, <2>1, GoesCalm
<1>. QED  BY <1>1, <1>3, <1>4

LEMMA WalkCalm ==
  ASSUME CalmInv, NEW b \in Browser, Walk(b)
  PROVE  (\A e \in Browser : CalmOrExact(rpc[e]))'
<1>0. PICK l : l = lists[rpc[b].lst]
  OBVIOUS
<1>1. RpcInv /\ rpc[b].pc = "walk"
  BY DEF Walk, CalmInv, ReportInv
<1>. DEFINE r == rpc[b]
            q == rpc'[b]
            seen(f) == {x \in Pairs : x[2] \notin f.todo
                                      /\ ~(f.pc = "walk" /\ f.i = 1 /\ f.at = x[2])}
<1>2. ASSUME r.calm
      PROVE  /\ AtRest /\ r.steady = Pairs /\ r.method = "getDeviceInfo"
             /\ r.todo \subseteq {x[2] : x \in Pairs} /\ r.result = seen(r)
             /\ r.at \notin r.todo /\ ~r.dirty /\ r.n = 1 /\ r.i \in {1, 2}
             /\ \E p \in Pairs : /\ r.at = p[2] /\ r.lst = <<p[1], p[2]>>
                                 /\ l = <<p[1]>> /\ p[1] # Null
                                 /\ \A x \in Pairs : x[2] = r.at => x = <<p[1], r.at>>
  <2>1. /\ Calm(r) /\ r.steady = Pairs
        /\ \A p \in Pairs : /\ p \in Channel \X DeviceId /\ p = <<p[1], p[2]>>
                            /\ deviceMap[p[2]] = p /\ lists[p] = <<p[1]>>
    BY <1>1, <1>2, CalmFacts
  <2>2. /\ AtRest /\ r.method = "getDeviceInfo"
        /\ r.todo \subseteq {x[2] : x \in Pairs} /\ r.result = seen(r)
        /\ r.at \notin r.todo /\ ~r.dirty /\ r.n = 1 /\ r.i \in {1, 2}
    BY <1>1, <2>1 DEF Calm
  <2>3. PICK p \in Pairs : r.at = p[2] /\ r.lst = <<p[1], p[2]>>
    BY <1>1, <2>1 DEF Calm
  <2>4. l = <<p[1]>> /\ p[1] \in Channel
    BY <1>0, <2>1, <2>3
  <2>5. p[1] # Null
    BY <2>4, ThreadAssumption
  <2>6. \A x \in Pairs : x[2] = r.at => x = <<p[1], r.at>>
    BY <2>1, <2>3
  <2>. HIDE DEF r, seen
  <2>. QED  BY <2>1, <2>2, <2>3, <2>4, <2>5, <2>6
<1>3. CASE /\ r.dirty \/ (r.i <= r.n /\ (r.i <= Size(l) => l[r.i] = Null))
           /\ Answers(b, "-1")
  <2>1. ~r.calm
    <3>. SUFFICES ASSUME r.calm PROVE FALSE
      OBVIOUS
    <3>1. PICK p \in Pairs : l = <<p[1]>> /\ p[1] # Null
      BY <1>2
    <3>2. Size(l) = 1 /\ l[1] # Null
      BY <3>1, OneElement
    <3>3. ~r.dirty /\ r.n = 1 /\ r.i \in {1, 2}
      BY <1>2
    <3>4. r.i = 1
      BY <1>3, <3>3
    <3>. QED  BY <1>3, <3>2, <3>3, <3>4
  <2>. QED  BY <1>3, <2>1, AnswersCalm
<1>4. CASE /\ r.i > r.n /\ Goes(b) /\ q.pc = "next"
           /\ q.todo = r.todo /\ q.result = r.result
  <2>1. ASSUME r.calm PROVE Calm(q)
    <3>1. r.i = 2
      <4>1. r.n = 1 /\ r.i \in {1, 2}
        BY <1>2, <2>1
      <4>. QED  BY <1>4, <4>1
    <3>2. seen(q) = seen(r)
      BY <1>4, <3>1
    <3>3. q.method = "getDeviceInfo" /\ q.steady = Pairs
      BY <1>2, <1>4, <2>1 DEF Goes, Asked
    <3>. QED  BY <1>2, <1>4, <2>1, <3>2, <3>3 DEF Calm
  <2>. QED  BY <1>4, <2>1, GoesCalm
<1>5. CASE /\ r.i <= r.n /\ Goes(b)
           /\ q.pc = "walk" /\ q.at = r.at /\ q.lst = r.lst /\ q.n = r.n /\ ~q.dirty
           /\ q.i = r.i + 1 /\ q.todo = r.todo
           /\ q.result = r.result \cup {<<IF r.i <= Size(l) THEN l[r.i] ELSE Null, r.at>>}
  <2>1. ASSUME r.calm PROVE Calm(q)
    <3>1. PICK p \in Pairs : /\ r.at = p[2] /\ r.lst = <<p[1], p[2]>>
                             /\ l = <<p[1]>> /\ p[1] # Null
                             /\ \A x \in Pairs : x[2] = r.at => x = <<p[1], r.at>>
      BY <1>2, <2>1
    <3>2. r.i = 1 /\ q.i = 2
      <4>1. r.n = 1 /\ r.i \in {1, 2}
        BY <1>2, <2>1
      <4>. QED  BY <1>5, <4>1
    <3>3. q.result = r.result \cup {<<p[1], r.at>>}
      <4>1. (IF 1 <= Size(l) THEN l[1] ELSE Null) = p[1]
        BY <3>1, OneElement
      <4>. QED  BY <1>5, <3>2, <4>1
    <3>4. seen(q) = seen(r) \cup {<<p[1], r.at>>}
      <4>1. seen(q) = {x \in Pairs : x[2] \notin r.todo}
        BY <1>5, <3>2
      <4>2. seen(r) = {x \in Pairs : x[2] \notin r.todo /\ r.at # x[2]}
        BY <1>1, <3>2
      <4>3. <<p[1], r.at>> \in Pairs /\ r.at \notin r.todo /\ <<p[1], r.at>>[2] = r.at
        BY <1>2, <2>1, <3>1
      <4>. HIDE DEF seen
      <4>4. {x \in Pairs : x[2] \notin r.todo}
              = {x \in Pairs : x[2] \notin r.todo /\ r.at # x[2]} \cup {<<p[1], r.at>>}
        BY <3>1, <4>3
      <4>. QED  BY <4>1, <4>2, <4>4
    <3>5. q.result = seen(q)
      BY <1>2, <2>1, <3>3, <3>4
    <3>6. q.method = "getDeviceInfo" /\ q.steady = Pairs
      BY <1>2, <1>5, <2>1 DEF Goes, Asked
    <3>7. /\ q.todo \subseteq {x[2] : x \in Pairs} /\ q.at \notin q.todo
          /\ ~q.dirty /\ q.n = 1 /\ q.i \in {1, 2} /\ q.pc = "walk"
          /\ q.at = p[2] /\ q.lst = <<p[1], p[2]>> /\ AtRest
      BY <1>2, <1>5, <2>1, <3>1, <3>2
    <3>. QED  BY <3>5, <3>6, <3>7 DEF Calm
  <2>. QED  BY <1>5, <2>1, GoesCalm
<1>. QED  BY <1>0, <1>1, <1>3, <1>4, <1>5, WalkFacts

LEMMA DashboardCalm ==
  ASSUME CalmInv, NEW b \in Browser, Dashboard(b)
  PROVE  (\A e \in Browser : CalmOrExact(rpc[e]))'
<1>. DEFINE size == Cardinality({d \in DeviceId : deviceMap[d] # Null})
<1>1. /\ rpc[b].pc = "count" /\ Others(b) /\ Asked(b) /\ UNCHANGED vars
      /\ rpc'[b].pc = "answered" /\ rpc'[b].status = "0"
      /\ rpc'[b].counts = Append(rpc[b].counts, size)
  BY DashboardFacts DEF CalmInv, ReportInv
<1>2. ASSUME rpc[b].calm PROVE Exact(rpc'[b])
  <2>1. Calm(rpc[b]) /\ rpc[b].steady = Pairs
    BY <1>1, <1>2, CalmFacts
  <2>2. rpc[b].method = "getDashboard"
    BY <1>1 DEF CalmInv, ReportInv, Reports
  <2>3. rpc[b].counts = <<Cardinality(Pairs)>> /\ size = Cardinality(Pairs)
    <3>1. AtRest /\ rpc[b].counts = <<Cardinality(sessionMap)>>
      BY <2>1, <2>2 DEF Calm
    <3>2. LifeInv(TRUE) /\ failed = {}
      BY DEF CalmInv, ReportInv
    <3>. QED  BY <3>1, <3>2, RestingCounts
  <2>. HIDE DEF size
  <2>4. \A k : Append(<<k>>, k) = [x \in 1..2 |-> k]
    OBVIOUS
  <2>5. rpc'[b].counts = [x \in 1..2 |-> Cardinality(Pairs)]
    BY <1>1, <2>3, <2>4
  <2>6. rpc'[b].method = "getDashboard" /\ rpc'[b].steady = Pairs
    BY <1>1, <2>1, <2>2 DEF Asked
  <2>. QED  BY <2>5, <2>6 DEF Exact
<1>3. CalmOrExact(rpc[b])'
  <2>1. rpc'[b].calm = rpc[b].calm
    BY <1>1 DEF Asked
  <2>2. Exact(rpc'[b]) => Exact(rpc[b])'
    BY DEF Exact
  <2>. QED  BY <1>1, <1>2, <2>1, <2>2 DEF CalmOrExact
<1>. QED  BY <1>1, <1>3, OthersCalm DEF CalmInv

LEMMA SessionStepCalm ==
  ASSUME CalmInv, SessionStep
  PROVE  (\A e \in Browser : CalmOrExact(rpc[e]))'
<1>. SUFFICES ASSUME NEW b \in Browser PROVE CalmOrExact(rpc[b])'
  OBVIOUS
<1>1. rpc'[b] = Blank \/ ~rpc'[b].calm
  BY SessionStepFrames DEF CalmInv, ReportInv
<1>2. Blank.calm = FALSE
  BY DEF Blank
<1>. QED  BY <1>1, <1>2 DEF CalmOrExact

\* No call to an MQTT client throws where the broker can be relied on.
LEMMA NoFailure ==
  ASSUME MqttReliable, failed = {}, [Next]_vars
  PROVE  failed' = {}
<1>1. ASSUME NEW t PROVE ~MqttThrows(t)
  BY DEF MqttThrows
<1>2. ASSUME NEW t, Step(t) PROVE UNCHANGED failed
  <2>1. CASE \/ ListGet(t) \/ RemFind(t) \/ RemShift(t) \/ IsEmpty(t) \/ MapRemove(t)
             \/ ContainsKey(t) \/ PutList(t) \/ GetList(t) \/ AddRead(t) \/ AddStore(t)
    BY <2>1 DEF ListGet, RemFind, RemShift, IsEmpty, MapRemove, ContainsKey, PutList, GetList,
       AddRead, AddStore, ToCreateEvent, Goto, GotoWith, Throw
  <2>2. CASE \/ Unsubscribe(t) \/ Subscribe(t) \/ SetController(t) \/ SetDevice(t)
             \/ CloseUnsub(t) \/ ReadCount(t) \/ Publish(t)
    BY <1>1, <2>2 DEF Unsubscribe, Subscribe, SetController, SetDevice, CloseUnsub, ReadCount,
       Publish, Return, Goto, GotoWith
  <2>. QED  BY <1>2, <2>1, <2>2 DEF Step
<1>3. CASE UNCHANGED vars
  BY <1>3 DEF vars
<1>4. ASSUME NEW c \in Channel, Connect(c) \/ Register(c) \/ Disconnect(c) \/ ChannelInactive(c)
      PROVE  UNCHANGED failed
  BY <1>4 DEF Connect, Register, Disconnect, ChannelInactive, CloseSession, GotoWith
<1>5. CASE LostScan \/ LostClose
  BY <1>5 DEF LostScan, LostClose, CloseSession
<1>. QED  BY <1>2, <1>3, <1>4, <1>5 DEF Next

LEMMA CalmInit == RpcInit => CalmInv
<1>. SUFFICES ASSUME RpcInit PROVE CalmInv
  OBVIOUS
<1>1. ReportInv /\ failed = {}
  BY ReportInit DEF RpcInit, Init
<1>2. ASSUME NEW b \in Browser PROVE CalmOrExact(rpc[b])
  <2>1. rpc[b] = Blank
    BY DEF RpcInit
  <2>2. Blank.calm = FALSE
    BY DEF Blank
  <2>. HIDE DEF Blank
  <2>. QED  BY <2>1, <2>2 DEF CalmOrExact
<1>. QED  BY <1>1, <1>2 DEF CalmInv

LEMMA CalmNext ==
  ASSUME DistinctTokens, MqttReliable, CalmInv, [RpcNext]_rpcVars
  PROVE  CalmInv'
<1>1. ReportInv'
  BY ReportNext DEF CalmInv
<1>2. failed' = {}
  BY HandlersStep, NoFailure DEF CalmInv
<1>3. (\A b \in Browser : CalmOrExact(rpc[b]))'
  <2>1. CASE UNCHANGED rpcVars
    <3>1. Pairs' = Pairs /\ AtRest' = AtRest /\ sessionMap' = sessionMap /\ rpc' = rpc
      BY <2>1, QuietFacts DEF rpcVars
    <3>2. ASSUME NEW e \in Browser PROVE CalmOrExact(rpc[e])'
      <4>1. rpc'[e] = rpc[e] /\ CalmOrExact(rpc[e])
        BY <3>1 DEF CalmInv
      <4>2. Calm(rpc[e])' = Calm(rpc[e])
        BY <3>1 DEF Calm
      <4>3. Exact(rpc[e])' = Exact(rpc[e])
        BY <3>1 DEF Exact
      <4>. QED  BY <4>1, <4>2, <4>3 DEF CalmOrExact
    <3>. QED  BY <3>2
  <2>2. ASSUME NEW b \in Browser, Login(b) \/ LoadData(b) \/ Post(b) \/ Get(b)
        PROVE  (\A e \in Browser : CalmOrExact(rpc[e]))'
    BY <2>2, AskFacts, ProcessCalm
  <2>. QED  BY <2>1, <2>2, SessionStepCalm, FinishCalm, OnlineStateCalm, SessionInfoCalm,
               MqttIdCalm, DeviceInfoCalm, WalkCalm, DashboardCalm DEF RpcNext
<1>. QED  BY <1>1, <1>2, <1>3 DEF CalmInv

THEOREM CalmInvariance == ASSUME DistinctTokens, MqttReliable PROVE RpcSpec => []CalmInv
<1>1. RpcInit => CalmInv
  BY CalmInit
<1>2. CalmInv /\ [RpcNext]_rpcVars => CalmInv'
  BY CalmNext
<1>. QED  BY <1>1, <1>2, PTL DEF RpcSpec

\* When no two gateways share an id and the broker can be relied on, a query
\* during which no gateway came, moved or went is not answered with an error,
\* and its answer is who is connected, under which id, and how many they are:
\* sessionMap, _device2SessionMap and the proxies of the sessions say the same
\* (the logics of plugin/jsonrpc/logic, SessionManager, ControllerProxy).
THEOREM CalmAnswersAreExact ==
  ASSUME DistinctTokens, MqttReliable PROVE RpcSpec => []CalmIsExact
<1>1. CalmInv => CalmIsExact
  <2>. SUFFICES ASSUME CalmInv, NEW b \in Browser, Answered(b), rpc[b].calm
                PROVE  /\ rpc[b].status # "-1"
                       /\ rpc[b].status = "0" =>
                            CASE rpc[b].method \in {"getSessionInfo", "getDeviceInfo"} ->
                                   rpc[b].result = rpc[b].steady
                              [] rpc[b].method = "getOnlineInfoOfDevices" ->
                                   rpc[b].result = {<<Null, p[2]>> : p \in rpc[b].steady}
                              [] rpc[b].method = "getDashboard" ->
                                   rpc[b].counts = [x \in 1..2 |-> Cardinality(rpc[b].steady)]
    BY DEF CalmIsExact
  <2>1. rpc[b].status # "-1" /\ (rpc[b].status = "0" => Exact(rpc[b]))
    BY DEF CalmInv, CalmOrExact, Answered
  <2>2. rpc[b].method \in Query
    BY DEF Answered
  <2>. QED  BY <2>1, <2>2 DEF Exact, Query
<1>. QED  BY <1>1, CalmInvariance, PTL
=============================================================================
