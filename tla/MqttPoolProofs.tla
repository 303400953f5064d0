--------------------------- MODULE MqttPoolProofs ---------------------------
(***************************************************************************)
(* The pool for any number of threads, clients, devices and calls: proofs  *)
(* of all its properties, of SubscribedWhereMapped and SubscribedIsHeld    *)
(* when no two threads share a device.                                     *)
(*                                                                         *)
(* None is inductive.  FrameType says which locals a call has set when it  *)
(* reaches a line.  FramePlace and FrameHeld say what a call may rely on   *)
(* between two of its lines although there is no lock: before put its      *)
(* device has no client, after it the client at hand is the one the map    *)
(* names, and before release nobody is subscribed to the device.  All of   *)
(* this is about the device of the call alone, and other threads have      *)
(* others.  Stage says which part of the books is behind at every line of  *)
(* the thread that is in them, as long as it is the only one.              *)
(***************************************************************************)
EXTENDS MqttPool, ArrayListsProofs, FiniteSetTheorems, WellFoundedInduction, TLAPS

FrameType(f) ==
  /\ f.pc # "idle" => f.dev \in DeviceId
  /\ f.pc \in UsesClient => f.cl \in Client

TypeInv == TypeOK /\ \A t \in Thread : FrameType(th[t])

\* Thread t alone moves on, to a frame that is in order.
Moves(t) ==
  /\ th' = [th EXCEPT ![t] = th'[t]]
  /\ th'[t] \in Frames /\ FrameType(th'[t])

\* The variables of the pool keep their types.
PoolOK ==
  /\ clientOf \in [DeviceId -> Client \cup {Null}]
  /\ count \in [Client -> Int]
  /\ devices \in [Client -> ListOf(DeviceId \cup {Null})]
  /\ subscribed \in [Client -> SUBSET DeviceId]
  /\ held \in SUBSET (Thread \X DeviceId)
  /\ failed \in SUBSET DeviceId

InfoOK == info \in Infos /\ info.read \in -1..Len(Order) - 1

LEMMA InitType == Init => TypeInv
<1>. SUFFICES ASSUME Init PROVE TypeInv
  OBVIOUS
<1>1. PoolOK
  <2>1. <<>> \in ListOf(DeviceId \cup {Null})
    BY EmptyList
  <2>. QED  BY <2>1 DEF Init, PoolOK
<1>2. th \in [Thread -> Frames] /\ \A t \in Thread : th[t].pc = "idle"
  BY DEF Init, Frame, Frames, Pc, Op
<1>3. Len(Order) \in Nat /\ Len(Order) > 0
  BY PoolAssumption
<1>4. InfoOK
  BY <1>3 DEF Init, InfoOK, Infos
<1>5. raced \in BOOLEAN
  BY DEF Init
<1>. QED  BY <1>1, <1>2, <1>4, <1>5 DEF TypeInv, TypeOK, PoolOK, InfoOK, FrameType, UsesClient

\* A step of thread t that keeps the variables of the pool in order.
LEMMA StepType ==
  ASSUME TypeInv, NEW t \in Thread, Moves(t), PoolOK', InfoOK', raced' \in BOOLEAN
  PROVE  TypeInv'
<1>1. th' \in [Thread -> Frames] /\ \A u \in Thread : u # t => th'[u] = th[u]
  BY DEF Moves, TypeInv, TypeOK
<1>2. \A u \in Thread : FrameType(th'[u])
  BY <1>1 DEF Moves, TypeInv
<1>3. \A u \in Thread : th'[u].pc \in UsesClient => th'[u].cl # Null
  BY <1>2, PoolAssumption DEF FrameType
<1>. QED  BY <1>1, <1>2, <1>3 DEF TypeInv, TypeOK, PoolOK, InfoOK, FrameType

LEMMA SeenType == ASSUME TypeInv, Seen PROVE InfoOK'
<1>1. info \in Infos /\ info.read \in -1..Len(Order) - 1
  BY DEF TypeInv, TypeOK
<1> DEFINE rest == info.steady \cap Kept'
<1>2. info' = [info EXCEPT !.size = 0, !.steady = rest, !.still = FALSE]
  BY DEF Seen
<1>3. rest \in SUBSET (DeviceId \X Client)
  BY <1>1 DEF Infos
<1>. HIDE DEF rest
<1>4. info'.read = info.read
  BY <1>1, <1>2 DEF Infos
<1>5. info' \in Infos
  BY <1>1, <1>2, <1>3, 0 \in Int DEF Infos
<1>. QED  BY <1>1, <1>4, <1>5 DEF InfoOK

LEMMA NextPool == TypeInv => PoolOK
  BY DEF TypeInv, TypeOK, PoolOK

LEMMA FrameMoves ==
  ASSUME TypeInv, NEW t \in Thread, NEW f \in Frames, FrameType(f),
         th' = [th EXCEPT ![t] = f]
  PROVE  Moves(t)
<1>1. th \in [Thread -> Frames]
  BY DEF TypeInv, TypeOK
<1>2. th'[t] = f
  BY <1>1
<1>. QED  BY <1>1, <1>2 DEF Moves

\* The call ends.
LEMMA DoneMoves == ASSUME TypeInv, NEW t \in Thread, Done(t) PROVE Moves(t)
<1>1. th[t] \in Frames
  BY DEF TypeInv, TypeOK
<1>2. Frame("idle", "none", Null, th[t].calls) \in Frames
  BY <1>1 DEF Frame, Frames, Pc, Op
<1>3. FrameType(Frame("idle", "none", Null, th[t].calls))
  BY DEF Frame, FrameType, UsesClient
<1>. QED  BY <1>2, <1>3, FrameMoves DEF Done

\* A call begins.
LEMMA EnterMoves ==
  ASSUME TypeInv, NEW t \in Thread, NEW o \in Op, NEW d \in DeviceId, Enter(t, o, d)
  PROVE  Moves(t)
<1>1. th[t] \in Frames
  BY DEF TypeInv, TypeOK
<1>2. Frame("contains", o, d, th[t].calls + 1) \in Frames
  BY <1>1 DEF Frame, Frames, Pc
<1>3. FrameType(Frame("contains", o, d, th[t].calls + 1))
  BY DEF Frame, FrameType, UsesClient
<1>. QED  BY <1>2, <1>3, FrameMoves DEF Enter

LEMMA StayMoves == ASSUME TypeInv, NEW t \in Thread, UNCHANGED th PROVE Moves(t)
<1>1. th' = th /\ th[t] \in Frames /\ FrameType(th[t]) /\ th \in [Thread -> Frames]
  BY DEF TypeInv, TypeOK
<1>2. th = [th EXCEPT ![t] = th[t]]
  BY <1>1
<1>. QED  BY <1>1, <1>2 DEF Moves

LEMMA GotoMoves ==
  ASSUME TypeInv, NEW t \in Thread, NEW p \in Pc, Goto(t, p), th[t].pc # "idle",
         p \in UsesClient => th[t].pc \in UsesClient
  PROVE  Moves(t)
<1>1. th \in [Thread -> Frames] /\ th[t] \in Frames /\ FrameType(th[t])
  BY DEF TypeInv, TypeOK
<1>2. th' = [th EXCEPT ![t] = [th[t] EXCEPT !.pc = p]]
  BY <1>1 DEF Goto
<1>3. [th[t] EXCEPT !.pc = p] \in Frames /\ FrameType([th[t] EXCEPT !.pc = p])
  BY <1>1 DEF Frames, FrameType
<1>. QED  BY <1>1, <1>2, <1>3 DEF Moves

\* The average load is a number: there are finitely many devices, and clients.
LEMMA AverageType ==
  Cardinality({d \in DeviceId : clientOf[d] # Null}) \div Cardinality(Client) + 1 \in Nat
<1>1. Cardinality({d \in DeviceId : clientOf[d] # Null}) \in Nat
  BY PoolAssumption, FS_Subset, FS_CardinalityType
<1>2. Cardinality(Client) \in Nat /\ Cardinality(Client) # 0
  BY PoolAssumption, FS_CardinalityType, FS_EmptySet
<1>. QED  BY <1>1, <1>2

\* A set of positions has a last one.
LEMMA MaxType ==
  ASSUME NEW n \in Nat, NEW S \in SUBSET (1..n), S # {}
  PROVE  Max(S) \in S
<1> DEFINE T == {n - x : x \in S}
           R == {p \in Nat \X Nat : p[1] < p[2]}
<1>1. T \subseteq Nat /\ T # {}
  OBVIOUS
<1>2. IsWellFoundedOn(R, Nat)
  BY NatLessThanWellFounded DEF OpToRel
<1>3. PICK m \in T : \A j \in T : <<j, m>> \notin R
  <2>. HIDE DEF T, R
  <2>. QED  BY <1>1, <1>2, WFMin
<1>4. PICK x \in S : m = n - x
  BY <1>3
<1>5. ASSUME NEW y \in S PROVE x >= y
  <2>1. n - y \in T /\ n - y \in Nat /\ m \in Nat
    BY <1>1, <1>3
  <2>2. ~(n - y < m)
    BY <2>1, <1>3
  <2>3. x \in Nat /\ y \in Nat
    <3>. HIDE DEF T, R
    <3>1. x \in 1..n /\ y \in 1..n
      BY Zenon
    <3>. QED  BY <3>1
  <2>. QED  BY <2>2, <2>3, <1>4
<1>. QED  BY <1>5 DEF Max

\* whoNotBusy always finds a client.
LEMMA WhoNotBusyType == ASSUME NEW avg PROVE WhoNotBusy(avg) \in Client
<1> DEFINE light == {i \in 1..Len(Order) : count[Order[i]] <= avg}
<1>1. CASE light = {}
  BY <1>1, PoolAssumption DEF WhoNotBusy
<1>2. CASE light # {}
  <2>1. Max(light) \in 1..Len(Order)
    <3>1. light \in SUBSET (1..Len(Order)) /\ Len(Order) \in Nat
      BY PoolAssumption
    <3>. HIDE DEF light
    <3>. QED  BY <3>1, <1>2, MaxType
  <2>. QED  BY <1>2, <2>1, PoolAssumption DEF WhoNotBusy
<1>. QED  BY <1>1, <1>2

\* The calls a session makes.
LEMMA BeginType ==
  ASSUME TypeInv, NEW t \in Thread, Subscribe(t) \/ PublishData(t) \/ Unsubscribe(t)
  PROVE  Moves(t) /\ PoolOK'
<1>1. PoolOK /\ Devices[t] \subseteq DeviceId
  BY NextPool, PoolAssumption
<1>2. CASE Subscribe(t)
  <2>1. PICK d \in Devices[t] : held' = held \cup {<<t, d>>} /\ Enter(t, "subscribe", d)
    BY <1>2 DEF Subscribe
  <2>2. PoolOK'
    <3>1. held' \in SUBSET (Thread \X DeviceId)
      BY <1>1, <2>1 DEF PoolOK
    <3>. QED  BY <1>1, <1>2, <3>1 DEF Subscribe, PoolOK
  <2>. QED  BY <1>1, <2>1, <2>2, EnterMoves DEF Op
<1>3. CASE PublishData(t)
  <2>1. PICK d \in Devices[t] : Enter(t, "publish", d)
    BY <1>3 DEF PublishData
  <2>2. PoolOK'
    BY <1>1, <1>3 DEF PublishData, PoolOK
  <2>. QED  BY <1>1, <2>1, <2>2, EnterMoves DEF Op
<1>4. CASE Unsubscribe(t)
  <2>1. PICK d \in Devices[t] : /\ held' = held \ {<<t, d>>}
                                /\ Enter(t, "unsubscribe", d) \/ UNCHANGED th
    BY <1>4 DEF Unsubscribe
  <2>2. PoolOK'
    BY <1>1, <1>4, <2>1 DEF Unsubscribe, PoolOK
  <2>. QED  BY <1>1, <2>1, <2>2, EnterMoves, StayMoves DEF Op
<1>. QED  BY <1>2, <1>3, <1>4

\* The lines of getInstance that write no book.
LEMMA LookType ==
  ASSUME TypeInv, NEW t \in Thread,
         ContainsKey(t) \/ GetClient(t) \/ ReadAverage(t) \/ Pick(t)
  PROVE  Moves(t) /\ PoolOK'
<1>1. PoolOK /\ th \in [Thread -> Frames] /\ th[t] \in Frames /\ FrameType(th[t])
  BY NextPool DEF TypeInv, TypeOK
<1>2. CASE ContainsKey(t)
  <2>1. \E p \in {"average", "get"} : Goto(t, p)
    BY <1>2 DEF ContainsKey
  <2>2. th[t].pc # "idle"
    BY <1>2 DEF ContainsKey, At
  <2>. QED  BY <1>1, <1>2, <2>1, <2>2, GotoMoves DEF ContainsKey, PoolOK, Pc, UsesClient
<1>3. CASE GetClient(t)
  <2>0. th[t].dev \in DeviceId /\ failed' \subseteq DeviceId
    BY <1>1, <1>3 DEF GetClient, At, PoolOK, FrameType, NotCalled
  <2>1. PoolOK' /\ th[t].dev \in DeviceId
    BY <1>1, <1>3, <2>0 DEF GetClient, PoolOK
  <2>2. CASE clientOf[th[t].dev] = Null
    BY <1>3, <2>1, <2>2, DoneMoves DEF GetClient, NotCalled
  <2>3. CASE clientOf[th[t].dev] # Null
    <3> DEFINE f == [th[t] EXCEPT !.pc = "call", !.cl = clientOf[th[t].dev]]
    <3>1. th' = [th EXCEPT ![t] = f]
      BY <1>1, <1>3, <2>3 DEF GetClient
    <3>2. clientOf[th[t].dev] \in Client
      BY <1>1, <2>1, <2>3 DEF PoolOK
    <3>3. f \in Frames /\ FrameType(f)
      BY <1>1, <2>1, <3>2 DEF Frames, FrameType, Pc
    <3>. QED  BY <2>1, <3>1, <3>3, FrameMoves
  <2>. QED  BY <2>2, <2>3
<1>4. CASE ReadAverage(t)
  <2> DEFINE n == Cardinality({d \in DeviceId : clientOf[d] # Null}) \div Cardinality(Client) + 1
             f == [th[t] EXCEPT !.pc = "pick", !.n = n]
  <2>1. th' = [th EXCEPT ![t] = f] /\ PoolOK' /\ th[t].dev \in DeviceId
    BY <1>1, <1>4 DEF ReadAverage, At, PoolOK, FrameType
  <2>2. n \in Int
    BY AverageType
  <2>3. f \in Frames /\ FrameType(f)
    <3>. HIDE DEF n
    <3>. QED  BY <1>1, <2>1, <2>2 DEF Frames, FrameType, Pc, UsesClient
  <2>. QED  BY <2>1, <2>3, FrameMoves
<1>5. CASE Pick(t)
  <2> DEFINE f == [th[t] EXCEPT !.pc = "put", !.cl = WhoNotBusy(th[t].n)]
  <2>1. th' = [th EXCEPT ![t] = f] /\ PoolOK' /\ th[t].dev \in DeviceId
    BY <1>1, <1>5 DEF Pick, At, PoolOK, FrameType
  <2>2. WhoNotBusy(th[t].n) \in Client
    BY WhoNotBusyType
  <2>3. f \in Frames /\ FrameType(f)
    BY <1>1, <2>1, <2>2 DEF Frames, FrameType, Pc
  <2>. QED  BY <2>1, <2>3, FrameMoves
<1>. QED  BY <1>2, <1>3, <1>4, <1>5

\* What a thread at a line may count on.
LEMMA Locals ==
  ASSUME TypeInv, NEW t \in Thread
  PROVE  /\ PoolOK /\ th \in [Thread -> Frames] /\ th[t] \in Frames
         /\ th[t].pc # "idle" => th[t].dev \in DeviceId
         /\ th[t].pc \in UsesClient => th[t].cl \in Client
         /\ th[t].n \in Int
<1>1. th[t] \in Frames
  BY DEF TypeInv, TypeOK
<1>. QED  BY <1>1, NextPool DEF TypeInv, TypeOK, FrameType, Frames

\* A size or an index becomes the local that is live.
LEMMA LocalN ==
  ASSUME NEW f \in Frames, f.dev \in DeviceId, f.cl \in Client, NEW n \in Int,
         NEW p \in {"addStore", "remShift"}
  PROVE  /\ [f EXCEPT !.pc = p, !.n = n] \in Frames
         /\ FrameType([f EXCEPT !.pc = p, !.n = n])
<1>1. p \in Pc
  BY DEF Pc
<1>2. [f EXCEPT !.pc = p, !.n = n] \in Frames
  BY <1>1 DEF Frames
<1>3. FrameType([f EXCEPT !.pc = p, !.n = n])
  BY DEF Frames, FrameType
<1>. QED  BY <1>2, <1>3

\* The lines that write the books: put, counter and add.
LEMMA BookType ==
  ASSUME TypeInv, NEW t \in Thread,
         Put(t) \/ CountRead(t) \/ CountWrite(t) \/ AddRead(t) \/ AddStore(t)
  PROVE  Moves(t) /\ PoolOK'
<1>1. PoolOK /\ th \in [Thread -> Frames] /\ th[t] \in Frames
  BY Locals
<1>2. th[t].dev \in DeviceId /\ th[t].cl \in Client
  BY Locals DEF Put, CountRead, CountWrite, AddRead, AddStore, At, UsesClient
<1>3. CASE Put(t)
  <2> DEFINE f == [th[t] EXCEPT !.pc = "countRead", !.plus = 1]
  <2>1. th' = [th EXCEPT ![t] = f] /\ PoolOK'
    BY <1>1, <1>2, <1>3 DEF Put, PoolOK
  <2>2. f \in Frames /\ FrameType(f)
    BY <1>1, <1>2 DEF Frames, FrameType, Pc, UsesClient
  <2>. QED  BY <2>1, <2>2, FrameMoves
<1>4. CASE CountRead(t)
  <2> DEFINE f == [th[t] EXCEPT !.pc = "countWrite", !.n = count[th[t].cl]]
  <2>1. th' = [th EXCEPT ![t] = f] /\ PoolOK'
    BY <1>1, <1>4 DEF CountRead, PoolOK
  <2>2. count[th[t].cl] \in Int
    BY <1>1, <1>2 DEF PoolOK
  <2>3. f \in Frames /\ FrameType(f)
    BY <1>1, <1>2, <2>2 DEF Frames, FrameType, Pc, UsesClient
  <2>. QED  BY <2>1, <2>3, FrameMoves
<1>5. CASE CountWrite(t)
  <2>1. th[t].n + th[t].plus \in Int
    BY <1>1 DEF Frames
  <2>2. PoolOK'
    BY <1>1, <1>2, <1>5, <2>1 DEF CountWrite, PoolOK
  <2>3. \E p \in {"addRead", "remFind"} : Goto(t, p)
    BY <1>5 DEF CountWrite
  <2>4. th[t].pc = "countWrite"
    BY <1>5 DEF CountWrite, At
  <2>. QED  BY <2>2, <2>3, <2>4, GotoMoves DEF Pc, UsesClient
<1>6. CASE AddRead(t)
  <2> DEFINE n == Size(devices[th[t].cl])
             f == [th[t] EXCEPT !.pc = "addStore", !.n = n]
  <2>1. th' = [th EXCEPT ![t] = f] /\ PoolOK'
    BY <1>1, <1>6 DEF AddRead, PoolOK
  <2>2. n \in Int
    BY <1>1, <1>2, SizeType DEF PoolOK
  <2>3. f \in Frames /\ FrameType(f)
    <3>. HIDE DEF n
    <3>. QED  BY <1>1, <1>2, <2>2, LocalN
  <2>. QED  BY <2>1, <2>3, FrameMoves
<1>7. CASE AddStore(t)
  <2>1. th[t].pc = "addStore" /\ th[t].n \in Int
    BY <1>7, Locals DEF AddStore, At
  <2>2. StoreAt(devices[th[t].cl], th[t].n, th[t].dev) \in ListOf(DeviceId \cup {Null})
    BY <1>1, <1>2, <2>1, StoreAtList DEF PoolOK
  <2>3. failed' \subseteq DeviceId
    BY <1>1, <1>2, <1>7 DEF AddStore, NotCalled, PoolOK
  <2>4. PoolOK'
    BY <1>1, <1>2, <1>7, <2>2, <2>3 DEF AddStore, PoolOK
  <2>5. Done(t) \/ Goto(t, "call")
    BY <1>7 DEF AddStore, NotCalled
  <2>. QED  BY <2>1, <2>4, <2>5, DoneMoves, GotoMoves DEF Pc, UsesClient
<1>. QED  BY <1>3, <1>4, <1>5, <1>6, <1>7

\* The call of the client changes its subscriptions alone.
LEMMA EffectType ==
  ASSUME PoolOK, NEW t \in Thread, th[t].dev \in DeviceId, th[t].cl \in Client,
         Effect(t) \/ UNCHANGED subscribed
  PROVE  subscribed' \in [Client -> SUBSET DeviceId]
<1>1. CASE UNCHANGED subscribed
  BY <1>1 DEF PoolOK
<1>2. CASE Effect(t)
  <2>1. \/ UNCHANGED subscribed
        \/ subscribed' = [subscribed EXCEPT ![th[t].cl] = @ \cup {th[t].dev}]
        \/ subscribed' = [subscribed EXCEPT ![th[t].cl] = @ \ {th[t].dev}]
    BY <1>2 DEF Effect
  <2>2. subscribed \in [Client -> SUBSET DeviceId] /\ subscribed[th[t].cl] \subseteq DeviceId
    BY DEF PoolOK
  <2>3. /\ subscribed[th[t].cl] \cup {th[t].dev} \in SUBSET DeviceId
        /\ subscribed[th[t].cl] \ {th[t].dev} \in SUBSET DeviceId
    BY <2>2
  <2>. QED  BY <2>1, <2>2, <2>3
<1>. QED  BY <1>1, <1>2

\* The call, and release.
LEMMA CallType ==
  ASSUME TypeInv, NEW t \in Thread,
         Call(t) \/ MapRemove(t) \/ RemFind(t) \/ RemShift(t)
  PROVE  Moves(t) /\ PoolOK'
<1>1. PoolOK /\ th \in [Thread -> Frames] /\ th[t] \in Frames /\ th[t].dev \in DeviceId
  BY Locals DEF Call, MapRemove, RemFind, RemShift, At
<1>2. CASE Call(t)
  <2>1. th[t].pc = "call" /\ th[t].cl \in Client
    BY <1>2, Locals DEF Call, At, UsesClient
  <2>2. /\ Effect(t) \/ UNCHANGED subscribed
        /\ Done(t) \/ Goto(t, "mapRemove")
        /\ failed' \in {failed, failed \ {th[t].dev}, failed \cup {th[t].dev}}
        /\ UNCHANGED <<clientOf, count, devices, held>>
    BY <1>2 DEF Call
  <2>3. subscribed' \in [Client -> SUBSET DeviceId]
    BY <1>1, <2>1, <2>2, EffectType
  <2>4. PoolOK'
    BY <1>1, <2>2, <2>3 DEF PoolOK
  <2>. QED  BY <2>1, <2>2, <2>4, DoneMoves, GotoMoves DEF Pc, UsesClient
<1>3. CASE MapRemove(t)
  <2>1. PoolOK'
    BY <1>1, <1>3 DEF MapRemove, PoolOK
  <2>2. CASE clientOf[th[t].dev] = Null
    BY <1>3, <2>1, <2>2, DoneMoves DEF MapRemove
  <2>3. CASE clientOf[th[t].dev] # Null
    <3> DEFINE k == clientOf[th[t].dev]
               f == [th[t] EXCEPT !.pc = "countRead", !.plus = -1, !.cl = k]
    <3>1. th' = [th EXCEPT ![t] = f]
      BY <1>1, <1>3, <2>3 DEF MapRemove
    <3>2. k \in Client
      BY <1>1, <2>3 DEF PoolOK
    <3>3. f \in Frames /\ FrameType(f)
      <4>. HIDE DEF k
      <4>. QED  BY <1>1, <3>2 DEF Frames, FrameType, Pc, UsesClient
    <3>. QED  BY <2>1, <3>1, <3>3, FrameMoves
  <2>. QED  BY <2>2, <2>3
<1>4. CASE RemFind(t)
  <2> DEFINE i == IndexOf(devices[th[t].cl], th[t].dev)
             f == [th[t] EXCEPT !.pc = "remShift", !.n = i]
  <2>1. th[t].cl \in Client /\ PoolOK'
    BY <1>1, <1>4, Locals DEF RemFind, At, UsesClient, PoolOK
  <2>2. i \in Nat
    BY <1>1, <2>1, IndexOfList DEF PoolOK
  <2>3. CASE i = 0
    BY <1>4, <2>1, <2>3, DoneMoves DEF RemFind
  <2>4. CASE i # 0
    <3>1. th' = [th EXCEPT ![t] = f]
      BY <1>1, <1>4, <2>4 DEF RemFind
    <3>2. f \in Frames /\ FrameType(f)
      <4>1. i \in Int
        BY <2>2
      <4>. HIDE DEF i
      <4>. QED  BY <1>1, <2>1, <4>1, LocalN
    <3>. QED  BY <2>1, <3>1, <3>2, FrameMoves
  <2>. QED  BY <2>3, <2>4
<1>5. CASE RemShift(t)
  <2>1. th[t].cl \in Client /\ th[t].n \in Int
    BY <1>5, Locals DEF RemShift, At, UsesClient
  <2>2. ShiftFrom(devices[th[t].cl], th[t].n) \in ListOf(DeviceId \cup {Null})
    BY <1>1, <2>1, ShiftFromList DEF PoolOK
  <2>3. PoolOK'
    BY <1>1, <1>5, <2>1, <2>2 DEF RemShift, PoolOK
  <2>. QED  BY <1>5, <2>3, DoneMoves DEF RemShift
<1>. QED  BY <1>2, <1>3, <1>4, <1>5

\* getMqttInfo keeps to itself.
LEMMA InfoType ==
  ASSUME TypeInv, AskInfo \/ ReadSize
  PROVE  /\ InfoOK'
         /\ UNCHANGED <<clientOf, count, devices, subscribed, held, th, failed>>
<1>1. InfoOK /\ PoolOK
  BY NextPool DEF TypeInv, TypeOK, InfoOK
<1>4. Len(Order) \in Nat /\ Len(Order) > 0
  BY PoolAssumption
<1>2. CASE AskInfo
  <2>1. Kept \subseteq DeviceId \X Client /\ AtRest \in BOOLEAN
    BY DEF Kept, AtRest
  <2>. QED  BY <1>4, <1>2, <2>1 DEF AskInfo, InfoOK, Infos
<1>3. CASE ReadSize
  <2> DEFINE size == Size(devices[Order[info.read + 1]])
  <2>1. info.read + 1 \in 1..Len(Order)
    BY <1>1, <1>3, <1>4 DEF ReadSize, InfoOK, Infos
  <2>2. size \in Int
    <3>1. Order[info.read + 1] \in Client
      BY <2>1, PoolAssumption
    <3>. QED  BY <1>1, <3>1, SizeType DEF PoolOK
  <2>3. HasRead(size)
    BY <1>3 DEF ReadSize
  <2>4. InfoOK'
    <3> DEFINE i == info.read + 1
               rest == {p \in info.steady : p[2] \in ToCome(i)}
    <3>. HIDE DEF size
    <3>1. rest \in SUBSET (DeviceId \X Client) /\ i \in 1..Len(Order)
      BY <1>1, <2>1 DEF InfoOK, Infos
    <3>2. CASE i = Len(Order)
      <4>1. info' = [read |-> -1, size |-> size, steady |-> {}, still |-> FALSE]
        BY <2>3, <3>2 DEF HasRead
      <4>. QED  BY <1>4, <2>2, <4>1 DEF InfoOK, Infos
    <3>3. CASE i # Len(Order)
      <4>1. info' = [info EXCEPT !.read = i, !.size = size, !.steady = rest]
        BY <1>1, <2>3, <3>3 DEF HasRead, InfoOK, Infos
      <4>2. i \in Int /\ i \in -1..Len(Order) - 1
        BY <1>4, <3>1, <3>3
      <4>. HIDE DEF i, rest
      <4>. QED  BY <1>1, <2>2, <3>1, <4>1, <4>2 DEF InfoOK, Infos
    <3>. QED  BY <3>2, <3>3
  <2>. QED  BY <1>3, <2>4 DEF ReadSize
<1>. QED  BY <1>2, <1>3

LEMMA NextType == TypeInv /\ [Next]_vars => TypeInv'
<1>. SUFFICES ASSUME TypeInv, [Next]_vars PROVE TypeInv'
  OBVIOUS
<1>1. CASE UNCHANGED vars
  BY <1>1 DEF vars, TypeInv, TypeOK, FrameType
<1>2. ASSUME Next PROVE TypeInv'
  <2>1. raced' \in BOOLEAN
    BY <1>2 DEF Next, TypeInv, TypeOK, Racing
  <2>2. ASSUME NEW t \in Thread, Seen,
               Subscribe(t) \/ PublishData(t) \/ Unsubscribe(t) \/ Step(t)
        PROVE  TypeInv'
    <3>1. Moves(t) /\ PoolOK'
      BY <2>2, BeginType, LookType, BookType, CallType DEF Step
    <3>. QED  BY <2>1, <2>2, <3>1, SeenType, StepType
  <2>3. CASE AskInfo \/ ReadSize
    BY <2>1, <2>3, InfoType DEF TypeInv, TypeOK, FrameType, InfoOK
  <2>. QED  BY <1>2, <2>2, <2>3 DEF Next
<1>. QED  BY <1>1, <1>2

\* However many threads are in the books at once, and although a list falls below
\* size zero and the counts off the truth when two of them race: whoNotBusy always
\* finds a client, so does get unless it throws, and no line goes on without the
\* device and the client of its call.  The positions, sizes and counts that the
\* lines carry are merely numbers, negative ones among them.
THEOREM TypeCorrect ==
  Spec => [](TypeOK /\ \A t \in Thread : FrameType(th[t]))
<1>1. TypeInv => TypeOK /\ \A t \in Thread : FrameType(th[t])
  BY DEF TypeInv
<1>. QED  BY <1>1, InitType, NextType, PTL DEF Spec

-----------------------------------------------------------------------------
(* A device is subscribed where the map says, when no two threads share one. *)

Apart == \A t, u \in Thread : t # u => Devices[t] \cap Devices[u] = {}

FramePlace(f, t) ==
  /\ f.pc # "idle" => f.dev \in Devices[t]
  /\ f.pc \in {"average", "pick", "put"} => clientOf[f.dev] = Null
  /\ \/ f.pc \in {"addRead", "addStore", "call"}
     \/ f.pc \in {"countRead", "countWrite"} /\ f.plus = 1
     => clientOf[f.dev] = f.cl
  /\ f.pc = "mapRemove" => \A k \in Client : f.dev \notin subscribed[k]

PlaceInv == SubscribedWhereMapped /\ \A t \in Thread : FramePlace(th[t], t)

LEMMA InitPlace == Init => PlaceInv
  BY DEF Init, Frame, PlaceInv, FramePlace, SubscribedWhereMapped

\* The step of one thread leaves the devices of the others alone.
LEMMA StepPlace ==
  ASSUME TypeInv, PlaceInv, Apart, NEW t \in Thread, Moves(t),
         \A d \in DeviceId : d \notin Devices[t] =>
           /\ clientOf'[d] = clientOf[d]
           /\ \A k \in Client : d \in subscribed'[k] => d \in subscribed[k],
         SubscribedWhereMapped', FramePlace(th[t], t)'
  PROVE  PlaceInv'
<1>1. ASSUME NEW u \in Thread, u # t PROVE FramePlace(th[u], u)'
  <2>1. th'[u] = th[u]
    BY <1>1 DEF Moves, TypeInv, TypeOK
  <2>2. FramePlace(th[u], u) /\ (th[u].pc # "idle" => th[u].dev \in DeviceId)
    BY Locals DEF PlaceInv
  <2>3. CASE th[u].pc = "idle"
    BY <2>1, <2>3 DEF FramePlace
  <2>4. CASE th[u].pc # "idle"
    <3>1. th[u].dev \in Devices[u] /\ th[u].dev \notin Devices[t]
      BY <1>1, <2>2, <2>4 DEF Apart, FramePlace
    <3>. QED  BY <2>1, <2>2, <2>4, <3>1 DEF FramePlace
  <2>. QED  BY <2>3, <2>4
<1>. QED  BY <1>1 DEF PlaceInv

\* A step that touches neither the map nor the subscriptions.
LEMMA QuietPlace ==
  ASSUME TypeInv, PlaceInv, Apart, NEW t \in Thread, Moves(t),
         UNCHANGED <<clientOf, subscribed>>, FramePlace(th[t], t)'
  PROVE  PlaceInv'
  BY StepPlace DEF PlaceInv, SubscribedWhereMapped

LEMMA IdlePlace ==
  ASSUME TypeInv, NEW t \in Thread, Done(t)
  PROVE  FramePlace(th[t], t)'
<1>1. th'[t].pc = "idle"
  BY DEF Done, Frame, TypeInv, TypeOK
<1>. QED  BY <1>1 DEF FramePlace

LEMMA BeginPlace ==
  ASSUME TypeInv, PlaceInv, Apart, NEW t \in Thread,
         Subscribe(t) \/ PublishData(t) \/ Unsubscribe(t)
  PROVE  PlaceInv'
<1>1. Moves(t) /\ UNCHANGED <<clientOf, subscribed>>
  BY BeginType DEF Subscribe, PublishData, Unsubscribe
<1>2. CASE UNCHANGED th
  BY <1>1, <1>2, QuietPlace DEF PlaceInv, FramePlace
<1>3. CASE \E o \in Op, d \in Devices[t] : Enter(t, o, d)
  <2>1. PICK d \in Devices[t] : th'[t].pc = "contains" /\ th'[t].dev = d
    BY <1>3 DEF Enter, Frame, TypeInv, TypeOK
  <2>. QED  BY <1>1, <2>1, QuietPlace DEF FramePlace
<1>. QED  BY <1>2, <1>3 DEF Subscribe, PublishData, Unsubscribe, Op

\* The lines that leave the map and the subscriptions alone.
LEMMA LinePlace ==
  ASSUME TypeInv, PlaceInv, Apart, NEW t \in Thread,
         \/ ContainsKey(t) \/ GetClient(t) \/ ReadAverage(t) \/ Pick(t)
         \/ CountRead(t) \/ CountWrite(t) \/ AddRead(t) \/ AddStore(t)
         \/ RemFind(t) \/ RemShift(t)
  PROVE  PlaceInv'
<1>1. Moves(t)
  BY LookType, BookType, CallType
<1>2. UNCHANGED <<clientOf, subscribed>>
  BY DEF ContainsKey, GetClient, ReadAverage, Pick, CountRead, CountWrite, AddRead,
         AddStore, RemFind, RemShift
<1>3. /\ th \in [Thread -> Frames] /\ th[t] \in Frames /\ FramePlace(th[t], t)
  BY Locals DEF PlaceInv
<1>4. ASSUME ~Done(t) PROVE FramePlace(th[t], t)'
  <2>1. CASE ContainsKey(t)
    BY <1>2, <1>3, <2>1 DEF ContainsKey, Goto, At, FramePlace, Frames
  <2>2. CASE GetClient(t)
    <3>1. th' = [th EXCEPT ![t] = [th[t] EXCEPT !.pc = "call", !.cl = clientOf[th[t].dev]]]
      BY <1>3, <1>4, <2>2 DEF GetClient, NotCalled
    <3>2. /\ th'[t].pc = "call" /\ th'[t].dev = th[t].dev
          /\ th'[t].cl = clientOf[th[t].dev] /\ th[t].pc = "get"
      BY <1>3, <2>2, <3>1 DEF GetClient, At, Frames
    <3>. QED  BY <1>2, <1>3, <3>2 DEF FramePlace
  <2>3. CASE ReadAverage(t)
    BY <1>2, <1>3, <2>3 DEF ReadAverage, At, FramePlace, Frames
  <2>4. CASE Pick(t)
    BY <1>2, <1>3, <2>4 DEF Pick, At, FramePlace, Frames
  <2>5. CASE CountRead(t)
    BY <1>2, <1>3, <2>5 DEF CountRead, At, FramePlace, Frames
  <2>6. CASE CountWrite(t)
    BY <1>2, <1>3, <2>6 DEF CountWrite, Goto, At, FramePlace, Frames
  <2>7. CASE AddRead(t)
    BY <1>2, <1>3, <2>7 DEF AddRead, At, FramePlace, Frames
  <2>8. CASE AddStore(t)
    <3>1. Goto(t, "call")
      BY <1>4, <2>8 DEF AddStore, NotCalled
    <3>. QED  BY <1>2, <1>3, <2>8, <3>1 DEF AddStore, Goto, At, FramePlace, Frames
  <2>9. CASE RemFind(t)
    <3> DEFINE i == IndexOf(devices[th[t].cl], th[t].dev)
    <3>1. th' = [th EXCEPT ![t] = [th[t] EXCEPT !.pc = "remShift", !.n = i]]
      BY <1>3, <1>4, <2>9 DEF RemFind
    <3>. HIDE DEF i
    <3>2. th'[t].pc = "remShift" /\ th'[t].dev = th[t].dev /\ th[t].pc = "remFind"
      BY <1>3, <2>9, <3>1 DEF RemFind, At, Frames
    <3>. QED  BY <1>2, <1>3, <3>2 DEF FramePlace
  <2>10. CASE RemShift(t)
    BY <1>4, <2>10 DEF RemShift
  <2>. QED  BY <2>1, <2>2, <2>3, <2>4, <2>5, <2>6, <2>7, <2>8, <2>9, <2>10
<1>. QED  BY <1>1, <1>2, <1>4, IdlePlace, QuietPlace

\* put: the device had no client, so nobody was subscribed to it.
LEMMA PutPlace ==
  ASSUME TypeInv, PlaceInv, Apart, NEW t \in Thread, Put(t)
  PROVE  PlaceInv'
<1> DEFINE d == th[t].dev  c == th[t].cl
<1>1. /\ PoolOK /\ th \in [Thread -> Frames] /\ th[t] \in Frames
      /\ d \in DeviceId /\ c \in Client /\ th[t].pc = "put"
  BY Locals DEF Put, At, UsesClient
<1>2. d \in Devices[t] /\ clientOf[d] = Null
  BY <1>1 DEF PlaceInv, FramePlace
<1>3. clientOf' = [clientOf EXCEPT ![d] = c] /\ UNCHANGED subscribed
  BY DEF Put
<1>4. Moves(t) /\ PoolOK'
  BY BookType
<1>5. \A k \in Client : d \notin subscribed[k]
  BY <1>2, PoolAssumption DEF PlaceInv, SubscribedWhereMapped
<1>6. SubscribedWhereMapped'
  BY <1>1, <1>3, <1>5 DEF PlaceInv, SubscribedWhereMapped, PoolOK
<1>7. FramePlace(th[t], t)'
  BY <1>1, <1>2, <1>3 DEF Put, FramePlace, PoolOK, Frames
<1>8. \A e \in DeviceId : e \notin Devices[t] => clientOf'[e] = clientOf[e]
  BY <1>1, <1>2, <1>3 DEF PoolOK
<1>. QED  BY <1>3, <1>4, <1>6, <1>7, <1>8, StepPlace

\* The call: after unsubscribe nobody is subscribed to the device.
LEMMA CallPlace ==
  ASSUME TypeInv, PlaceInv, Apart, NEW t \in Thread, Call(t)
  PROVE  PlaceInv'
<1> DEFINE d == th[t].dev  c == th[t].cl
<1>1. /\ PoolOK /\ th \in [Thread -> Frames] /\ th[t] \in Frames
      /\ d \in DeviceId /\ c \in Client /\ th[t].pc = "call"
  BY Locals DEF Call, At, UsesClient
<1>2. d \in Devices[t] /\ clientOf[d] = c
  BY <1>1 DEF PlaceInv, FramePlace
<1>3. UNCHANGED clientOf /\ Moves(t) /\ PoolOK'
  BY CallType DEF Call
<1>4. \/ UNCHANGED subscribed
      \/ subscribed' = [subscribed EXCEPT ![c] = @ \cup {d}]
      \/ subscribed' = [subscribed EXCEPT ![c] = @ \ {d}]
  BY DEF Call, Effect
<1>5. SubscribedWhereMapped'
  <2>1. ASSUME NEW k \in Client, NEW e \in subscribed'[k] PROVE clientOf[e] = k
    <3>1. e \in subscribed[k] \/ (k = c /\ e = d)
      BY <1>1, <1>4, <2>1 DEF PoolOK
    <3>. QED  BY <1>2, <3>1 DEF PlaceInv, SubscribedWhereMapped
  <2>. QED  BY <1>3, <2>1 DEF SubscribedWhereMapped
<1>6. \A e \in DeviceId : e \notin Devices[t] =>
        \A k \in Client : e \in subscribed'[k] => e \in subscribed[k]
  BY <1>1, <1>2, <1>4 DEF PoolOK
<1>7. FramePlace(th[t], t)'
  <2>1. CASE Done(t)
    BY <2>1, IdlePlace
  <2>2. CASE th[t].op = "unsubscribe" /\ Effect(t) /\ Goto(t, "mapRemove")
    <3>1. subscribed' = [subscribed EXCEPT ![c] = @ \ {d}]
      BY <2>2 DEF Effect
    <3>2. \A k \in Client : d \notin subscribed'[k]
      BY <1>1, <1>2, <3>1 DEF PlaceInv, SubscribedWhereMapped, PoolOK
    <3>3. th'[t].pc = "mapRemove" /\ th'[t].dev = d
      BY <1>1, <2>2 DEF Goto, Frames
    <3>. QED  BY <1>2, <3>2, <3>3 DEF FramePlace
  <2>. QED  BY <2>1, <2>2 DEF Call
<1>. QED  BY <1>3, <1>5, <1>6, <1>7, StepPlace

\* release: nobody is subscribed to the device that leaves the map.
LEMMA MapRemovePlace ==
  ASSUME TypeInv, PlaceInv, Apart, NEW t \in Thread, MapRemove(t)
  PROVE  PlaceInv'
<1> DEFINE d == th[t].dev
<1>1. /\ PoolOK /\ th \in [Thread -> Frames] /\ th[t] \in Frames
      /\ d \in DeviceId /\ th[t].pc = "mapRemove"
  BY Locals DEF MapRemove, At
<1>2. d \in Devices[t] /\ \A k \in Client : d \notin subscribed[k]
  BY <1>1 DEF PlaceInv, FramePlace
<1>3. clientOf' = [clientOf EXCEPT ![d] = Null] /\ UNCHANGED subscribed
  BY DEF MapRemove
<1>4. Moves(t)
  BY CallType
<1>5. SubscribedWhereMapped'
  BY <1>1, <1>2, <1>3 DEF PlaceInv, SubscribedWhereMapped, PoolOK
<1>6. \A e \in DeviceId : e \notin Devices[t] => clientOf'[e] = clientOf[e]
  BY <1>1, <1>2, <1>3 DEF PoolOK
<1>7. FramePlace(th[t], t)'
  <2>1. CASE Done(t)
    BY <2>1, IdlePlace
  <2>2. CASE ~Done(t)
    <3>1. /\ clientOf[d] # Null
          /\ th' = [th EXCEPT ![t] = [th[t] EXCEPT !.pc = "countRead", !.plus = -1,
                                                   !.cl = clientOf[d]]]
      BY <2>2 DEF MapRemove
    <3>2. th'[t].pc = "countRead" /\ th'[t].dev = d /\ th'[t].plus = -1
      BY <1>1, <3>1 DEF Frames
    <3>. QED  BY <1>2, <3>2 DEF FramePlace
  <2>. QED  BY <2>1, <2>2
<1>. QED  BY <1>3, <1>4, <1>5, <1>6, <1>7, StepPlace

LEMMA NextPlace == Apart /\ TypeInv /\ PlaceInv /\ [Next]_vars => PlaceInv'
<1>. SUFFICES ASSUME Apart, TypeInv, PlaceInv, [Next]_vars PROVE PlaceInv'
  OBVIOUS
<1>1. CASE UNCHANGED vars
  BY <1>1 DEF vars, PlaceInv, SubscribedWhereMapped, FramePlace
<1>2. CASE AskInfo \/ ReadSize
  BY <1>2, InfoType DEF PlaceInv, SubscribedWhereMapped, FramePlace
<1>3. ASSUME NEW t \in Thread, Subscribe(t) \/ PublishData(t) \/ Unsubscribe(t) \/ Step(t)
      PROVE  PlaceInv'
  BY <1>3, BeginPlace, LinePlace, PutPlace, CallPlace, MapRemovePlace DEF Step
<1>. QED  BY <1>1, <1>2, <1>3 DEF Next

\* When no two threads share a device, the client that is subscribed to the
\* command topic of a device is the one the map names, so release will find
\* it, for any number of threads that run getInstance and release without a
\* lock, and whatever calls throw.
THEOREM OneClientPerDevice == ASSUME Apart PROVE Spec => []SubscribedWhereMapped
<1>1. PlaceInv => SubscribedWhereMapped
  BY DEF PlaceInv
<1>2. TypeInv /\ PlaceInv /\ [Next]_vars => PlaceInv'
  BY NextPlace
<1>. QED  BY <1>1, <1>2, InitType, InitPlace, NextType, PTL DEF Spec

-----------------------------------------------------------------------------
(* The devices of the sessions are the ones subscribed, but for those whose  *)
(* last call threw.                                                          *)

Somewhere(d) == \E k \in Client : d \in subscribed[k]

\* A call of f is to change the subscription of d.
Changing(f, d) == f.pc # "idle" /\ f.dev = d /\ f.op \in {"subscribe", "unsubscribe"}

\* f is in release.
Leaving(f) ==
  \/ f.pc \in {"mapRemove", "remFind", "remShift"}
  \/ f.pc \in {"countRead", "countWrite"} /\ f.plus = -1

\* A session subscribes what it has just taken and unsubscribes what it has just
\* given up; the device of get is still in the map, and that of release is not
\* subscribed any more.
FrameHeld(f, t) ==
  f.pc # "idle" =>
    /\ f.op # "none"
    /\ f.op = "subscribe" => <<t, f.dev>> \in held
    /\ f.op = "unsubscribe" => <<t, f.dev>> \notin held
    /\ f.pc = "get" => clientOf[f.dev] # Null
    /\ Leaving(f) => f.op = "unsubscribe" /\ ~Somewhere(f.dev)

\* No call is changing the subscription of d, a device of thread t.
OwnHeld(f, t) ==
  \A d \in Devices[t] : d \notin failed /\ ~Changing(f, d) =>
    (<<t, d>> \in held <=> Somewhere(d))

HeldInv ==
  /\ \A t \in Thread : \A d \in DeviceId : <<t, d>> \in held => d \in Devices[t]
  /\ \A d \in DeviceId : Somewhere(d) => \E t \in Thread : d \in Devices[t]
  /\ \A t \in Thread : FrameHeld(th[t], t)
  /\ \A t \in Thread : OwnHeld(th[t], t)

LEMMA InitHeld == Init => HeldInv
  BY DEF Init, Frame, HeldInv, FrameHeld, OwnHeld, Somewhere

\* The step of one thread changes nothing about the devices of the others.
LEMMA StepHeld ==
  ASSUME TypeInv, PlaceInv, HeldInv, Apart, NEW t \in Thread, Moves(t),
         \A d \in DeviceId : d \notin Devices[t] =>
           /\ clientOf'[d] = clientOf[d]
           /\ Somewhere(d)' <=> Somewhere(d)
           /\ d \in failed' <=> d \in failed,
         \A u \in Thread : \A d \in DeviceId : u # t =>
           (<<u, d>> \in held' <=> <<u, d>> \in held),
         \A d \in DeviceId : <<t, d>> \in held' => d \in Devices[t],
         FrameHeld(th[t], t)', OwnHeld(th[t], t)'
  PROVE  HeldInv'
<1>1. ASSUME NEW u \in Thread, u # t PROVE FrameHeld(th[u], u)' /\ OwnHeld(th[u], u)'
  <2>1. th'[u] = th[u]
    BY <1>1 DEF Moves, TypeInv, TypeOK
  <2>2. FrameHeld(th[u], u) /\ OwnHeld(th[u], u) /\ FramePlace(th[u], u)
    BY DEF HeldInv, PlaceInv
  <2>3. Devices[u] \subseteq DeviceId /\ \A d \in Devices[u] : d \notin Devices[t]
    BY <1>1, PoolAssumption DEF Apart
  <2>4. FrameHeld(th[u], u)'
    <3>1. SUFFICES ASSUME th[u].pc # "idle" PROVE FrameHeld(th[u], u)'
      BY <2>1 DEF FrameHeld
    <3>2. th[u].dev \in DeviceId /\ th[u].dev \notin Devices[t]
      BY <2>2, <2>3, <3>1 DEF FramePlace
    <3>3. /\ clientOf'[th[u].dev] = clientOf[th[u].dev]
          /\ Somewhere(th[u].dev)' <=> Somewhere(th[u].dev)
          /\ <<u, th[u].dev>> \in held' <=> <<u, th[u].dev>> \in held
      BY <1>1, <3>2, <2>1
    <3>. QED  BY <2>1, <2>2, <3>3 DEF FrameHeld, Leaving
  <2>5. OwnHeld(th[u], u)'
    <3>. SUFFICES ASSUME NEW d \in Devices[u], d \notin failed', ~Changing(th[u], d)
                  PROVE  <<u, d>> \in held' <=> Somewhere(d)'
      BY <2>1 DEF OwnHeld, Changing
    <3>1. d \in DeviceId /\ d \notin Devices[t]
      BY <2>3
    <3>2. d \notin failed /\ (Somewhere(d)' <=> Somewhere(d))
      BY <3>1
    <3>3. <<u, d>> \in held <=> Somewhere(d)
      BY <2>2, <3>2 DEF OwnHeld
    <3>. QED  BY <1>1, <3>1, <3>2, <3>3
  <2>. QED  BY <2>4, <2>5
<1>2. \A u \in Thread : \A d \in DeviceId : <<u, d>> \in held' => d \in Devices[u]
  BY DEF HeldInv
<1>3. \A d \in DeviceId : Somewhere(d)' => \E u \in Thread : d \in Devices[u]
  BY DEF HeldInv
<1>. QED  BY <1>1, <1>2, <1>3 DEF HeldInv

\* The lines of getInstance and of release, but not the call of the client.
Line(t) ==
  \/ ContainsKey(t) \/ GetClient(t) \/ ReadAverage(t) \/ Pick(t) \/ Put(t)
  \/ CountRead(t) \/ CountWrite(t) \/ AddRead(t) \/ AddStore(t)
  \/ MapRemove(t) \/ RemFind(t) \/ RemShift(t)

\* A line that does not end the call: the call stays what it is.
LEMMA LineStays ==
  ASSUME TypeInv, NEW t \in Thread, Line(t), ~Done(t)
  PROVE  /\ th'[t].op = th[t].op /\ th'[t].dev = th[t].dev /\ th'[t].pc # "idle"
         /\ th'[t].pc = "get" => clientOf'[th[t].dev] # Null
         /\ Leaving(th'[t]) => Leaving(th[t])
<1>1. th \in [Thread -> Frames] /\ th[t] \in Frames /\ th[t].plus \in {1, -1}
  BY Locals DEF Frames
<1>2. CASE ContainsKey(t)
  BY <1>1, <1>2 DEF ContainsKey, Goto, Frames, Leaving
<1>3. CASE GetClient(t)
  <2>1. th' = [th EXCEPT ![t] = [th[t] EXCEPT !.pc = "call", !.cl = clientOf[th[t].dev]]]
    BY <1>3 DEF GetClient, NotCalled
  <2>. QED  BY <1>1, <2>1 DEF Frames, Leaving
<1>4. CASE ReadAverage(t)
  BY <1>1, <1>4 DEF ReadAverage, Frames, Leaving
<1>5. CASE Pick(t)
  BY <1>1, <1>5 DEF Pick, Frames, Leaving
<1>6. CASE Put(t)
  BY <1>1, <1>6 DEF Put, Frames, Leaving
<1>7. CASE CountRead(t)
  BY <1>1, <1>7 DEF CountRead, At, Frames, Leaving
<1>8. CASE CountWrite(t)
  BY <1>1, <1>8 DEF CountWrite, Goto, At, Frames, Leaving
<1>9. CASE AddRead(t)
  BY <1>1, <1>9 DEF AddRead, Frames, Leaving
<1>10. CASE AddStore(t)
  <2>1. Goto(t, "call")
    BY <1>10 DEF AddStore, NotCalled
  <2>. QED  BY <1>1, <2>1 DEF Goto, Frames, Leaving
<1>11. CASE MapRemove(t)
  <2>1. th' = [th EXCEPT ![t] = [th[t] EXCEPT !.pc = "countRead", !.plus = -1,
                                              !.cl = clientOf[th[t].dev]]]
    BY <1>11 DEF MapRemove
  <2>. QED  BY <1>1, <1>11, <2>1 DEF MapRemove, At, Frames, Leaving
<1>12. CASE RemFind(t)
  <2> DEFINE i == IndexOf(devices[th[t].cl], th[t].dev)
  <2>1. th' = [th EXCEPT ![t] = [th[t] EXCEPT !.pc = "remShift", !.n = i]]
    BY <1>12 DEF RemFind
  <2>. HIDE DEF i
  <2>. QED  BY <1>1, <1>12, <2>1 DEF RemFind, At, Frames, Leaving
<1>13. CASE RemShift(t)
  BY <1>13 DEF RemShift
<1>. QED  BY <1>2, <1>3, <1>4, <1>5, <1>6, <1>7, <1>8, <1>9, <1>10, <1>11, <1>12, <1>13
          DEF Line

\* Where a line ends the call: in release, unless getInstance throws.
LEMMA LineEnds ==
  ASSUME TypeInv, NEW t \in Thread, Line(t), Done(t), ~NotCalled(t)
  PROVE  Leaving(th[t])
<1>1. th \in [Thread -> Frames] /\ th[t] \in Frames /\ th'[t].pc = "idle"
  BY Locals DEF Done, Frame
<1>2. CASE MapRemove(t) \/ RemFind(t) \/ RemShift(t)
  BY <1>2 DEF MapRemove, RemFind, RemShift, At, Leaving
<1>3. CASE GetClient(t)
  <2>1. th' = [th EXCEPT ![t] = [th[t] EXCEPT !.pc = "call", !.cl = clientOf[th[t].dev]]]
    BY <1>3 DEF GetClient
  <2>. QED  BY <1>1, <2>1 DEF Frames
<1>4. CASE ContainsKey(t) \/ ReadAverage(t) \/ Pick(t) \/ Put(t)
  BY <1>1, <1>4, ZenonT(30) DEF ContainsKey, ReadAverage, Pick, Put, Goto, Frames
<1>5. CASE CountRead(t) \/ CountWrite(t) \/ AddRead(t)
  BY <1>1, <1>5, ZenonT(30) DEF CountRead, CountWrite, AddRead, Goto, Frames
<1>6. CASE AddStore(t)
  <2>1. Goto(t, "call")
    BY <1>6 DEF AddStore
  <2>. QED  BY <1>1, <2>1 DEF Goto, Frames
<1>. QED  BY <1>2, <1>3, <1>4, <1>5, <1>6 DEF Line

LEMMA LineQuiet ==
  ASSUME TypeInv, NEW t \in Thread, Line(t)
  PROVE  /\ Moves(t) /\ th[t].pc # "idle" /\ th[t].dev \in DeviceId
         /\ UNCHANGED <<subscribed, held>>
         /\ NotCalled(t) \/ UNCHANGED failed
         /\ \A d \in DeviceId : d # th[t].dev => clientOf'[d] = clientOf[d]
<1>1. Moves(t)
  BY LookType, BookType, CallType DEF Line
<1>2. th[t].pc # "idle"
  BY DEF Line, ContainsKey, GetClient, ReadAverage, Pick, Put, CountRead, CountWrite,
         AddRead, AddStore, MapRemove, RemFind, RemShift, At
<1>3. UNCHANGED <<subscribed, held>> /\ (NotCalled(t) \/ UNCHANGED failed)
  BY DEF Line, ContainsKey, GetClient, ReadAverage, Pick, Put, CountRead, CountWrite,
         AddRead, AddStore, MapRemove, RemFind, RemShift
<1>4. \/ UNCHANGED clientOf
      \/ clientOf' = [clientOf EXCEPT ![th[t].dev] = th[t].cl]
      \/ clientOf' = [clientOf EXCEPT ![th[t].dev] = Null]
  BY DEF Line, ContainsKey, GetClient, ReadAverage, Pick, Put, CountRead, CountWrite,
         AddRead, AddStore, MapRemove, RemFind, RemShift
<1>5. PoolOK /\ th[t].dev \in DeviceId
  BY <1>2, Locals
<1>. QED  BY <1>1, <1>2, <1>3, <1>4, <1>5 DEF PoolOK

LEMMA LineHeld ==
  ASSUME TypeInv, PlaceInv, HeldInv, Apart, NEW t \in Thread, Line(t)
  PROVE  HeldInv'
<1>1. /\ Moves(t) /\ th[t].pc # "idle" /\ UNCHANGED <<subscribed, held>>
      /\ NotCalled(t) \/ UNCHANGED failed
      /\ \A d \in DeviceId : d # th[t].dev => clientOf'[d] = clientOf[d]
  BY LineQuiet
<1>2. FrameHeld(th[t], t) /\ OwnHeld(th[t], t) /\ th[t].dev \in Devices[t]
  BY <1>1 DEF HeldInv, PlaceInv, FramePlace
<1>3. \A d : Somewhere(d)' <=> Somewhere(d)
  BY <1>1 DEF Somewhere
<1>4. FrameHeld(th[t], t)' /\ OwnHeld(th[t], t)'
  <2>1. CASE Done(t)
    <3>1. th'[t].pc = "idle"
      BY <2>1, Locals DEF Done, Frame
    <3>2. OwnHeld(th[t], t)'
      <4>1. CASE NotCalled(t)
        <5>1. failed \subseteq failed'
          BY <4>1 DEF NotCalled
        <5>2. th[t].dev \notin failed' => ~Changing(th[t], th[t].dev)
          BY <4>1 DEF NotCalled, Changing
        <5>3. ASSUME NEW d \in Devices[t], d \notin failed'
              PROVE  <<t, d>> \in held <=> Somewhere(d)
          BY <1>2, <5>1, <5>2, <5>3 DEF OwnHeld, Changing
        <5>. QED  BY <1>1, <1>3, <5>3 DEF OwnHeld
      <4>2. CASE ~NotCalled(t)
        <5>1. Leaving(th[t]) /\ UNCHANGED failed
          BY <1>1, <2>1, <4>2, LineEnds
        <5>2. <<t, th[t].dev>> \notin held /\ ~Somewhere(th[t].dev)
          BY <1>1, <1>2, <5>1 DEF FrameHeld
        <5>. QED  BY <1>1, <1>2, <1>3, <5>1, <5>2 DEF OwnHeld, Changing
      <4>. QED  BY <4>1, <4>2
    <3>. QED  BY <3>1, <3>2 DEF FrameHeld
  <2>2. CASE ~Done(t)
    <3>0. UNCHANGED failed
      BY <1>1, <2>2 DEF NotCalled
    <3>1. /\ th'[t].op = th[t].op /\ th'[t].dev = th[t].dev /\ th'[t].pc # "idle"
          /\ th'[t].pc = "get" => clientOf'[th[t].dev] # Null
          /\ Leaving(th'[t]) => Leaving(th[t])
      BY <2>2, LineStays
    <3>2. FrameHeld(th[t], t)'
      <4>1. Leaving(th[t])' <=> Leaving(th'[t])
        BY DEF Leaving
      <4>. QED  BY <1>1, <1>2, <1>3, <3>1, <4>1 DEF FrameHeld
    <3>3. \A d : Changing(th[t], d) => Changing(th'[t], d)
      BY <3>1 DEF Changing
    <3>. QED  BY <1>1, <1>2, <1>3, <3>0, <3>2, <3>3 DEF OwnHeld, Changing
  <2>. QED  BY <2>1, <2>2
<1>5. \A d \in DeviceId : d \notin Devices[t] => clientOf'[d] = clientOf[d]
  BY <1>1, <1>2
<1>6. \A d \in DeviceId : <<t, d>> \in held' => d \in Devices[t]
  BY <1>1 DEF HeldInv
<1>7. \A d \in DeviceId : d \notin Devices[t] => (d \in failed' <=> d \in failed)
  BY <1>1, <1>2 DEF NotCalled
<1>. QED  BY <1>1, <1>3, <1>4, <1>5, <1>6, <1>7, StepHeld

\* Only its own thread holds a device.
LEMMA OneHolder ==
  ASSUME HeldInv, Apart, NEW t \in Thread, NEW d \in Devices[t], <<t, d>> \in held
  PROVE  Holders(d) = {t}
<1>1. d \in DeviceId
  BY PoolAssumption
<1>2. \A u \in Thread : <<u, d>> \in held => u = t
  BY <1>1 DEF HeldInv, Apart
<1>. QED  BY <1>2 DEF Holders

\* A call begins on device d of thread t, which has taken the device, given it
\* up or left it alone.
LEMMA EnterHeld ==
  ASSUME TypeInv, PlaceInv, HeldInv, Apart, NEW t \in Thread, At(t, "idle"),
         NEW d \in Devices[t], NEW o \in Op, Enter(t, o, d), Moves(t),
         UNCHANGED <<clientOf, subscribed, failed>>,
         \/ o = "subscribe" /\ held' = held \cup {<<t, d>>}
         \/ o = "unsubscribe" /\ held' = held \ {<<t, d>>}
         \/ o = "publish" /\ UNCHANGED held
  PROVE  HeldInv'
<1>1. th'[t] = Frame("contains", o, d, th[t].calls + 1) /\ d \in DeviceId
  BY Locals, PoolAssumption DEF Enter
<1>2. th'[t].pc = "contains" /\ th'[t].op = o /\ th'[t].dev = d
  BY <1>1 DEF Frame
<1>3. \A e : Somewhere(e)' <=> Somewhere(e)
  BY DEF Somewhere
<1>4. FrameHeld(th[t], t)'
  BY <1>2 DEF FrameHeld, Leaving
<1>5. OwnHeld(th[t], t)'
  <2>. SUFFICES ASSUME NEW e \in Devices[t], e \notin failed, ~Changing(th'[t], e)
                PROVE  <<t, e>> \in held' <=> Somewhere(e)
    BY <1>3 DEF OwnHeld, Changing
  <2>1. <<t, e>> \in held <=> Somewhere(e)
    BY DEF HeldInv, OwnHeld, Changing, At
  <2>. QED  BY <1>2, <2>1 DEF Changing
<1>6. /\ \A u \in Thread : \A e \in DeviceId : u # t =>
           (<<u, e>> \in held' <=> <<u, e>> \in held)
      /\ \A e \in DeviceId : <<t, e>> \in held' => e \in Devices[t]
  BY DEF HeldInv
<1>. QED  BY <1>3, <1>4, <1>5, <1>6, StepHeld

LEMMA BeginHeld ==
  ASSUME TypeInv, PlaceInv, HeldInv, Apart, NEW t \in Thread,
         Subscribe(t) \/ PublishData(t) \/ Unsubscribe(t)
  PROVE  HeldInv'
<1>1. Moves(t) /\ At(t, "idle") /\ UNCHANGED <<clientOf, subscribed, failed>>
  BY BeginType DEF Subscribe, PublishData, Unsubscribe
<1>2. CASE Subscribe(t)
  BY <1>1, <1>2, EnterHeld DEF Subscribe, Op
<1>3. CASE PublishData(t)
  BY <1>1, <1>3, EnterHeld DEF PublishData, Op
<1>4. CASE Unsubscribe(t)
  <2>1. PICK d \in Devices[t] :
          /\ <<t, d>> \in held /\ held' = held \ {<<t, d>>}
          /\ Holders(d) = {t} => Enter(t, "unsubscribe", d)
    BY <1>4 DEF Unsubscribe
  <2>2. Enter(t, "unsubscribe", d)
    BY <2>1, OneHolder
  <2>. QED  BY <1>1, <2>1, <2>2, EnterHeld DEF Op
<1>. QED  BY <1>2, <1>3, <1>4

\* What the call does to the subscription of its own device, and to no other.
LEMMA EffectSomewhere ==
  ASSUME TypeInv, PlaceInv, NEW t \in Thread, At(t, "call"), Effect(t),
         NEW d, d = th[t].dev
  PROVE  /\ th[t].op = "subscribe" => Somewhere(d)'
         /\ th[t].op = "unsubscribe" => ~Somewhere(d)'
         /\ th[t].op \notin {"subscribe", "unsubscribe"} => UNCHANGED subscribed
         /\ \A e : e # d => (Somewhere(e)' <=> Somewhere(e))
<1> DEFINE c == th[t].cl
<1>1. PoolOK /\ d \in DeviceId /\ c \in Client
  BY Locals DEF At, UsesClient
<1>2. \A k \in Client : d \in subscribed[k] => k = c
  BY <1>1 DEF At, PlaceInv, FramePlace, SubscribedWhereMapped
<1>3. CASE th[t].op = "subscribe"
  <2>1. subscribed' = [subscribed EXCEPT ![c] = @ \cup {d}]
    BY <1>3 DEF Effect
  <2>2. subscribed'[c] = subscribed[c] \cup {d}
    BY <1>1, <2>1 DEF PoolOK
  <2>3. \A k \in Client : k # c => subscribed'[k] = subscribed[k]
    BY <1>1, <2>1 DEF PoolOK
  <2>4. Somewhere(d)'
    BY <1>1, <2>2 DEF Somewhere
  <2>5. \A e : e # d => \A k \in Client : e \in subscribed'[k] <=> e \in subscribed[k]
    BY <2>2, <2>3
  <2>6. \A e : e # d => (Somewhere(e)' <=> Somewhere(e))
    BY <2>5 DEF Somewhere
  <2>. QED  BY <1>3, <2>4, <2>6
<1>4. CASE th[t].op = "unsubscribe"
  <2>1. subscribed' = [subscribed EXCEPT ![c] = @ \ {d}]
    BY <1>4 DEF Effect
  <2>2. subscribed'[c] = subscribed[c] \ {d}
    BY <1>1, <2>1 DEF PoolOK
  <2>3. \A k \in Client : k # c => subscribed'[k] = subscribed[k]
    BY <1>1, <2>1 DEF PoolOK
  <2>4. ~Somewhere(d)'
    BY <1>2, <2>2, <2>3 DEF Somewhere
  <2>5. \A e : e # d => \A k \in Client : e \in subscribed'[k] <=> e \in subscribed[k]
    BY <2>2, <2>3
  <2>6. \A e : e # d => (Somewhere(e)' <=> Somewhere(e))
    BY <2>5 DEF Somewhere
  <2>. QED  BY <1>4, <2>4, <2>6
<1>5. CASE th[t].op \notin {"subscribe", "unsubscribe"}
  BY <1>5 DEF Effect, Somewhere
<1>. QED  BY <1>3, <1>4, <1>5

LEMMA CallHeld ==
  ASSUME TypeInv, PlaceInv, HeldInv, Apart, NEW t \in Thread, Call(t),
         NEW d, d = th[t].dev
  PROVE  HeldInv'
<1>1. /\ PoolOK /\ th \in [Thread -> Frames] /\ th[t] \in Frames
      /\ d \in DeviceId /\ th[t].pc = "call" /\ At(t, "call")
  BY Locals DEF Call, At
<1>2. FrameHeld(th[t], t) /\ OwnHeld(th[t], t) /\ d \in Devices[t]
  BY <1>1 DEF HeldInv, PlaceInv, FramePlace
<1>3. Moves(t) /\ UNCHANGED <<clientOf, held>>
  BY CallType DEF Call
<1>4. Effect(t) \/ UNCHANGED subscribed
  BY DEF Call
<1>5. \A e : e # d => (Somewhere(e)' <=> Somewhere(e))
  BY <1>1, <1>4, EffectSomewhere DEF Somewhere
<1>6. \A e : e # d => (e \in failed' <=> e \in failed)
  BY DEF Call
<1>7. Changing(th[t], d) \/ th[t].op = "publish"
  BY <1>1, <1>2 DEF Frames, Op, FrameHeld, Changing
<1>8. FrameHeld(th[t], t)' /\ OwnHeld(th[t], t)'
  <2>1. CASE th[t].op = "unsubscribe" /\ Effect(t) /\ Goto(t, "mapRemove")
    <3>1. th'[t].pc = "mapRemove" /\ th'[t].dev = d /\ th'[t].op = "unsubscribe"
      BY <1>1, <2>1 DEF Goto, Frames
    <3>2. ~Somewhere(d)'
      BY <1>1, <2>1, EffectSomewhere
    <3>3. <<t, d>> \notin held'
      BY <1>1, <1>2, <1>3, <2>1 DEF FrameHeld
    <3>4. FrameHeld(th[t], t)'
      BY <3>1, <3>2, <3>3 DEF FrameHeld, Leaving
    <3>5. OwnHeld(th[t], t)'
      BY <1>2, <1>3, <1>5, <1>6, <3>1 DEF OwnHeld, Changing
    <3>. QED  BY <3>4, <3>5
  <2>2. CASE Done(t)
    <3>1. th'[t].pc = "idle"
      BY <1>1, <2>2 DEF Done, Frame
    <3>2. ASSUME d \notin failed' PROVE <<t, d>> \in held <=> Somewhere(d)'
      <4>1. CASE th[t].op = "publish"
        <5>1. UNCHANGED <<subscribed, failed>>
          BY <1>1, <1>4, <4>1, EffectSomewhere DEF Call
        <5>2. ~Changing(th[t], d) /\ d \notin failed
          BY <3>2, <4>1, <5>1 DEF Changing
        <5>3. Somewhere(d)' <=> Somewhere(d)
          BY <5>1 DEF Somewhere
        <5>. QED  BY <1>2, <5>2, <5>3 DEF OwnHeld
      <4>2. CASE th[t].op # "publish"
        <5>1. ~Goto(t, "mapRemove")
          BY <1>1, <3>1 DEF Goto, Frames
        <5>2. failed' # failed \cup {d}
          BY <3>2
        <5>3. Effect(t) /\ th[t].op # "unsubscribe"
          BY <4>2, <5>1, <5>2 DEF Call
        <5>4. th[t].op = "subscribe"
          BY <1>7, <4>2, <5>3 DEF Changing
        <5>. QED  BY <1>1, <1>2, <5>3, <5>4, EffectSomewhere DEF FrameHeld
      <4>. QED  BY <4>1, <4>2
    <3>3. ASSUME NEW e \in Devices[t], e \notin failed'
          PROVE  <<t, e>> \in held' <=> Somewhere(e)'
      <4>1. CASE e = d
        BY <1>3, <3>2, <3>3, <4>1
      <4>2. CASE e # d
        <5>1. ~Changing(th[t], e) /\ e \notin failed
          BY <1>6, <3>3, <4>2 DEF Changing
        <5>2. <<t, e>> \in held <=> Somewhere(e)
          BY <1>2, <5>1 DEF OwnHeld
        <5>. QED  BY <1>3, <1>5, <4>2, <5>2
      <4>. QED  BY <4>1, <4>2
    <3>. QED  BY <3>1, <3>3 DEF FrameHeld, OwnHeld
  <2>. QED  BY <2>1, <2>2 DEF Call
<1>9. \A e \in DeviceId : e \notin Devices[t] => e # d
  BY <1>2
<1>10. \A e \in DeviceId : <<t, e>> \in held' => e \in Devices[t]
  BY <1>3 DEF HeldInv
<1>. QED  BY <1>3, <1>5, <1>6, <1>8, <1>9, <1>10, StepHeld

LEMMA NextHeld == Apart /\ TypeInv /\ PlaceInv /\ HeldInv /\ [Next]_vars => HeldInv'
<1>. SUFFICES ASSUME Apart, TypeInv, PlaceInv, HeldInv, [Next]_vars PROVE HeldInv'
  OBVIOUS
<1>1. CASE UNCHANGED <<clientOf, subscribed, held, th, failed>>
  BY <1>1 DEF HeldInv, FrameHeld, OwnHeld, Somewhere, Leaving, Changing
<1>2. CASE AskInfo \/ ReadSize
  BY <1>1, <1>2, InfoType
<1>3. ASSUME NEW t \in Thread, Subscribe(t) \/ PublishData(t) \/ Unsubscribe(t) \/ Step(t)
      PROVE  HeldInv'
  BY <1>3, BeginHeld, LineHeld, CallHeld DEF Step, Line
<1>. QED  BY <1>1, <1>2, <1>3 DEF Next, vars

LEMMA RestHeld == TypeInv /\ HeldInv => SubscribedIsHeld
<1>. SUFFICES ASSUME TypeInv, HeldInv, AtRest, NEW d \in DeviceId \ failed
              PROVE  Holders(d) # {} <=> Somewhere(d)
  BY DEF SubscribedIsHeld, Somewhere
<1>1. ASSUME NEW t \in Thread, d \in Devices[t]
      PROVE  <<t, d>> \in held <=> Somewhere(d)
  BY <1>1 DEF AtRest, At, HeldInv, OwnHeld, Changing
<1>. QED  BY <1>1 DEF HeldInv, Holders

\* When no two threads share a device and all is at rest, exactly the devices
\* that sessions hold are subscribed, but for those whose last subscription or
\* unsubscription threw: the books the pool keeps without a lock, which other
\* threads may have spoilt, cannot make it lose a subscription or keep one.
THEOREM HeldIsSubscribed == ASSUME Apart PROVE Spec => []SubscribedIsHeld
<1>1. TypeInv /\ PlaceInv /\ [Next]_vars => PlaceInv'
  BY NextPlace
<1>2. TypeInv /\ PlaceInv /\ HeldInv /\ [Next]_vars => HeldInv'
  BY NextHeld
<1>. QED  BY <1>1, <1>2, InitType, InitPlace, InitHeld, NextType, RestHeld, PTL DEF Spec

-----------------------------------------------------------------------------
(* The books agree as long as the threads take turns in them.  Which part of *)
(* them is behind is known at every line.                                    *)

\* The list l, of no negative size, holds every member of S once.
Lists(l, S) ==
  /\ l \in Seq(DeviceId \cup {Null})
  /\ \A i, j \in 1..Len(l) : l[i] = l[j] => i = j
  /\ {l[i] : i \in 1..Len(l)} = S

Agrees(k) == count[k] = Cardinality(Load(k)) /\ Lists(devices[k], Load(k))

AllAgree == \A k \in Client : Agrees(k)

Average == Cardinality(Mapped) \div Cardinality(Client) + 1

\* A client is chosen for a device that has none.
Choosing(f) ==
  /\ AllAgree /\ clientOf[f.dev] = Null
  /\ f.pc = "pick" => f.n = Average
  /\ f.pc = "put" => count[f.cl] <= Average

\* The count of the client is one behind the map ...
Counting(f) ==
  /\ count[f.cl] = Cardinality(Load(f.cl)) - f.plus
  /\ f.pc = "countWrite" => f.n = count[f.cl]

\* ... or has caught up.
Counted(f) == count[f.cl] = Cardinality(Load(f.cl))

\* The list of the client has still to get the device ...
Adding(f) ==
  /\ clientOf[f.dev] = f.cl
  /\ Lists(devices[f.cl], Load(f.cl) \ {f.dev})
  /\ f.pc = "addStore" => f.n = Len(devices[f.cl])

\* ... or to lose it.
Removing(f) ==
  /\ clientOf[f.dev] = Null
  /\ Lists(devices[f.cl], Load(f.cl) \cup {f.dev})
  /\ f.pc = "remShift" =>
       f.n \in 1..Len(devices[f.cl]) /\ devices[f.cl][f.n] = f.dev

\* The books as a frame in them leaves them.
Stage(f) ==
  \/ f.pc \in {"average", "pick", "put"} /\ Choosing(f)
  \/ /\ \A k \in Client : k # f.cl => Agrees(k)
     /\ \/ f.pc \in {"countRead", "countWrite"} /\ f.plus = 1 /\ Counting(f) /\ Adding(f)
        \/ f.pc \in {"addRead", "addStore"} /\ Counted(f) /\ Adding(f)
        \/ f.pc \in {"countRead", "countWrite"} /\ f.plus = -1 /\ Counting(f) /\ Removing(f)
        \/ f.pc \in {"remFind", "remShift"} /\ Counted(f) /\ Removing(f)

BookInv ==
  ~raced =>
    /\ ~Racing
    /\ (\A t \in Thread : th[t].pc \notin Books) => AllAgree
    /\ \A t \in Thread : th[t].pc \in Books => Stage(th[t])

\* add puts a new element behind the others.
LEMMA ListAdd ==
  ASSUME NEW l, NEW S, Lists(l, S), NEW e \in DeviceId, e \notin S
  PROVE  Lists(StoreAt(l, Len(l), e), S \cup {e})
<1> DEFINE T == DeviceId \cup {Null}  m == StoreAt(l, Len(l), e)  n == Len(l)
<1>0. l \in Seq(T) /\ Size(l) = n /\ n \in Nat /\ ~(n < 0)
  <2>1. l \in Seq(T)
    BY DEF Lists
  <2>2. Size(l) = n /\ n \in Nat
    BY <2>1, SizeIsLen
  <2>. QED  BY <2>1, <2>2
<1>1. m = [k \in 1..(n + 1) |-> IF k = n + 1 THEN e ELSE l[k]]
  BY <1>0 DEF StoreAt
<1>2. m \in [1..(n + 1) -> T] /\ n + 1 \in Nat
  BY <1>0, <1>1
<1>3. /\ m \in Seq(T) /\ Len(m) = n + 1
      /\ m[n + 1] = e /\ \A k \in 1..n : m[k] = l[k]
  <2>1. m \in Seq(T) /\ Len(m) = n + 1
    <3>. HIDE DEF m, T, n
    <3>. QED  BY <1>2
  <2>. QED  BY <1>0, <1>1, <2>1
<1>. HIDE DEF m, n, T
<1>4. \A k \in 1..n : m[k] \in S /\ m[k] # e
  BY <1>3 DEF Lists, n
<1>5. ASSUME NEW i \in 1..Len(m), NEW j \in 1..Len(m), m[i] = m[j] PROVE i = j
  <2>1. CASE i \in 1..n /\ j \in 1..n
    BY <1>0, <1>3, <1>5, <2>1 DEF Lists, n
  <2>2. CASE i = n + 1 \/ j = n + 1
    <3>1. ~(i \in 1..n) /\ ~(j \in 1..n)
      BY <1>0, <1>3, <1>4, <1>5, <2>2
    <3>. QED  BY <1>0, <1>1, <1>3, <3>1
  <2>. QED  BY <1>0, <1>1, <1>3, <2>1, <2>2
<1>6. \A k \in 1..Len(m) : m[k] \in S \cup {e}
  BY <1>0, <1>1, <1>3, <1>4
<1>7. ASSUME NEW x \in S \cup {e} PROVE \E k \in 1..Len(m) : m[k] = x
  <2>1. CASE x = e
    BY <1>0, <1>1, <1>3, <2>1
  <2>2. CASE x \in S
    <3>1. PICK k \in 1..n : l[k] = x
      BY <2>2 DEF Lists, n
    <3>. QED  BY <1>0, <1>1, <1>3, <3>1
  <2>. QED  BY <2>1, <2>2
<1>. QED  BY <1>3, <1>5, <1>6, <1>7 DEF Lists, m, n, T

\* remove takes the element at position p out and keeps the others.
LEMMA ListRemove ==
  ASSUME NEW l, NEW S, Lists(l, S), NEW p \in 1..Len(l)
  PROVE  Lists(ShiftFrom(l, p), S \ {l[p]})
<1> DEFINE T == DeviceId \cup {Null}  m == ShiftFrom(l, p)  n == Len(l)
           at(k) == IF k < p THEN k ELSE k + 1
<1>0. l \in Seq(T) /\ Size(l) = n /\ n \in Nat
  <2>1. l \in Seq(T)
    BY DEF Lists
  <2>. QED  BY <2>1, SizeIsLen
<1>1. n \in Nat /\ n - 1 \in Nat /\ p \in 1..n /\ ~(n <= 0)
  BY <1>0
<1>2. \A k \in 1..(n - 1) : at(k) \in 1..n /\ at(k) # p
  BY <1>1
<1>3. m = [k \in 1..(n - 1) |-> l[at(k)]]
  BY <1>0, <1>1 DEF ShiftFrom
<1>4. m \in [1..(n - 1) -> T]
  <2>1. \A k \in 1..n : l[k] \in T
    BY <1>0
  <2>. HIDE DEF T
  <2>. QED  BY <1>2, <1>3, <2>1
<1>5. m \in Seq(T) /\ Len(m) = n - 1 /\ \A k \in 1..(n - 1) : m[k] = l[at(k)]
  <2>1. m \in Seq(T) /\ Len(m) = n - 1
    <3>. HIDE DEF m, T, n
    <3>. QED  BY <1>1, <1>4
  <2>. QED  BY <1>3, <2>1
<1>6. \A i, j \in 1..(n - 1) : at(i) = at(j) => i = j
  BY <1>1
<1>7. \A k \in 1..n : k # p => \E i \in 1..(n - 1) : at(i) = k
  <2>. SUFFICES ASSUME NEW k \in 1..n, k # p PROVE \E i \in 1..(n - 1) : at(i) = k
    OBVIOUS
  <2>1. CASE k < p
    BY <1>1, <2>1
  <2>2. CASE k > p
    <3>1. k - 1 \in 1..(n - 1) /\ at(k - 1) = k
      BY <1>1, <2>2
    <3>. QED  BY <3>1
  <2>. QED  BY <1>1, <2>1, <2>2
<1>. HIDE DEF m, n, at, T
<1>8. \A i, j \in 1..n : l[i] = l[j] => i = j
  BY DEF Lists, n
<1>9. \A i, j \in 1..(n - 1) : m[i] = m[j] => i = j
  BY <1>2, <1>5, <1>6, <1>8
<1>10. \A k \in 1..(n - 1) : m[k] \in S \ {l[p]}
  BY <1>1, <1>2, <1>5, <1>8 DEF Lists, n
<1>11. ASSUME NEW x \in S, x # l[p] PROVE \E k \in 1..(n - 1) : m[k] = x
  <2>1. PICK k \in 1..n : l[k] = x
    BY <1>11 DEF Lists, n
  <2>2. PICK i \in 1..(n - 1) : at(i) = k
    BY <1>7, <1>11, <2>1
  <2>. QED  BY <1>5, <2>1, <2>2
<1>. QED  BY <1>5, <1>9, <1>10, <1>11 DEF Lists, m, T

\* A list that holds every member of a set once has its size.
LEMMA ListSize ==
  ASSUME NEW l, NEW S, Lists(l, S)
  PROVE  Len(l) = Cardinality(S)
<1> DEFINE n == Len(l)
<1>1. n \in Nat /\ l \in [1..n -> S]
  BY DEF Lists
<1>2. l \in Bijection(1..n, S)
  BY <1>1 DEF Lists, Bijection, Injection, Surjection, IsInjective
<1>3. IsFiniteSet(1..n) /\ Cardinality(1..n) = n
  BY <1>1, FS_Interval
<1>. HIDE DEF n
<1>4. ExistsBijection(1..n, S)
  BY <1>2 DEF ExistsBijection
<1>5. Cardinality(S) = Cardinality(1..n)
  BY <1>3, <1>4, FS_Bijection
<1>. QED  BY <1>3, <1>5 DEF n

LEMMA LoadFinite ==
  ASSUME NEW k PROVE IsFiniteSet(Load(k)) /\ Cardinality(Load(k)) \in Nat
<1>1. Load(k) \in SUBSET DeviceId
  BY DEF Load
<1>2. IsFiniteSet(Load(k))
  BY <1>1, PoolAssumption, FS_Subset
<1>. QED  BY <1>2, FS_CardinalityType

\* A device comes to a client, and leaves it.
LEMMA LoadPut ==
  ASSUME PoolOK, NEW d \in DeviceId, NEW k \in Client, clientOf[d] = Null,
         clientOf' = [clientOf EXCEPT ![d] = k]
  PROVE  /\ Load(k)' = Load(k) \cup {d} /\ d \notin Load(k)
         /\ Cardinality(Load(k)') = Cardinality(Load(k)) + 1
         /\ \A j \in Client : j # k => Load(j)' = Load(j)
<1>1. Load(k)' = Load(k) \cup {d} /\ d \notin Load(k)
  <2>1. \A e \in DeviceId : clientOf'[e] = IF e = d THEN k ELSE clientOf[e]
    BY DEF PoolOK
  <2>2. k # Null
    BY PoolAssumption
  <2>3. Load(k)' = {e \in DeviceId : clientOf'[e] = k}
    BY DEF Load
  <2>. QED  BY <2>1, <2>2, <2>3 DEF Load
<1>2. \A j \in Client : j # k => Load(j)' = Load(j)
  BY PoolAssumption DEF Load, PoolOK
<1>. QED  BY <1>1, <1>2, LoadFinite, FS_AddElement

LEMMA LoadRemove ==
  ASSUME PoolOK, NEW d \in DeviceId, NEW k \in Client, clientOf[d] = k,
         clientOf' = [clientOf EXCEPT ![d] = Null]
  PROVE  /\ Load(k)' = Load(k) \ {d} /\ Load(k)' \cup {d} = Load(k)
         /\ Cardinality(Load(k)') = Cardinality(Load(k)) - 1
         /\ \A j \in Client : j # k => Load(j)' = Load(j)
<1>1. Load(k)' = Load(k) \ {d} /\ d \in Load(k)
  BY PoolAssumption DEF Load, PoolOK
<1>2. \A j \in Client : j # k => Load(j)' = Load(j)
  BY PoolAssumption DEF Load, PoolOK
<1>3. Cardinality(Load(k)') = Cardinality(Load(k)) - 1
  BY <1>1, LoadFinite, FS_RemoveElement
<1>. QED  BY <1>1, <1>2, <1>3

\* A thread that is in the books before or after its step has them to itself.
LEMMA TurnBook ==
  ASSUME TypeInv, BookInv, ~raced, NEW t \in Thread, Moves(t), ~Racing',
         th[t].pc \in Books \/ th'[t].pc \in Books,
         th'[t].pc \in Books => Stage(th[t])',
         th'[t].pc \notin Books => AllAgree'
  PROVE  BookInv'
<1>1. \A u \in Thread : u # t => th'[u] = th[u]
  BY DEF Moves, TypeInv, TypeOK
<1>2. \A u \in Thread : u # t => th[u].pc \notin Books
  BY <1>1 DEF BookInv, Racing
<1>3. \A u \in Thread : th'[u].pc \in Books => u = t
  BY <1>1, <1>2
<1>4. \A u \in Thread : th'[u].pc \in Books => Stage(th[u])'
  BY <1>3
<1>. QED  BY <1>3, <1>4 DEF BookInv

\* A thread that comes to the books finds them in order.
LEMMA ComeToBooks ==
  ASSUME TypeInv, BookInv, ~raced, NEW t \in Thread, Moves(t), ~Racing',
         th[t].pc \notin Books, th'[t].pc \in Books
  PROVE  AllAgree
<1>1. \A u \in Thread : u # t => th'[u] = th[u]
  BY DEF Moves, TypeInv, TypeOK
<1>2. \A u \in Thread : th[u].pc \notin Books
  BY <1>1 DEF Racing
<1>. QED  BY <1>2 DEF BookInv

\* A step outside the books.
LEMMA OutsideBook ==
  ASSUME TypeInv, BookInv, ~raced, NEW t \in Thread, Moves(t), ~Racing',
         th[t].pc \notin Books, th'[t].pc \notin Books,
         UNCHANGED <<clientOf, count, devices>>
  PROVE  BookInv'
<1>1. \A u \in Thread : u # t => th'[u] = th[u]
  BY DEF Moves, TypeInv, TypeOK
<1>2. \A k : Load(k)' = Load(k)
  BY DEF Load
<1>3. AllAgree' <=> AllAgree
  BY <1>2 DEF AllAgree, Agrees
<1>4. ASSUME NEW u \in Thread, th'[u].pc \in Books PROVE Stage(th[u])'
  <2>1. th'[u] = th[u] /\ Stage(th[u])
    BY <1>1, <1>4 DEF BookInv
  <2>2. Average' = Average
    BY DEF Average, Mapped
  <2>. QED  BY <1>2, <1>3, <2>1, <2>2
            DEF Stage, Choosing, Counting, Counted, Adding, Removing, Agrees
<1>5. (\A u \in Thread : th[u].pc \notin Books)' => AllAgree'
  BY <1>1, <1>3 DEF BookInv
<1>. QED  BY <1>4, <1>5 DEF BookInv

\* whoNotBusy: a client is chosen.
LEMMA ChooseBook ==
  ASSUME TypeInv, NEW t \in Thread, ReadAverage(t), Stage(th[t])
  PROVE  Stage(th[t])'
<1>1. PoolOK /\ th \in [Thread -> Frames] /\ th[t] \in Frames /\ th[t].pc = "average"
  BY Locals DEF ReadAverage, At
<1>2. UNCHANGED <<clientOf, count, devices>>
  BY DEF ReadAverage
<1>3. AllAgree /\ clientOf[th[t].dev] = Null
  BY <1>1 DEF Stage, Choosing
<1>4. th'[t].pc = "pick" /\ th'[t].dev = th[t].dev /\ th'[t].n = Average
  <2> DEFINE n == Cardinality({d \in DeviceId : clientOf[d] # Null}) \div Cardinality(Client) + 1
  <2>1. th' = [th EXCEPT ![t] = [th[t] EXCEPT !.pc = "pick", !.n = n]]
    BY DEF ReadAverage
  <2>2. n = Average
    BY DEF Average, Mapped
  <2>. HIDE DEF n
  <2>. QED  BY <1>1, <2>1, <2>2 DEF Frames
<1>5. AllAgree' /\ Average' = Average
  BY <1>2, <1>3 DEF AllAgree, Agrees, Load, Average, Mapped
<1>. QED  BY <1>2, <1>3, <1>4, <1>5 DEF Stage, Choosing

\* put, and the count and the list of the client catch up.
LEMMA PutBook ==
  ASSUME TypeInv, NEW t \in Thread, Put(t), Stage(th[t]),
         NEW d, d = th[t].dev, NEW k, k = th[t].cl
  PROVE  Stage(th[t])'
<1>1. /\ PoolOK /\ th \in [Thread -> Frames] /\ th[t] \in Frames /\ th[t].pc = "put"
      /\ d \in DeviceId /\ k \in Client
  BY Locals DEF Put, At, UsesClient
<1>2. clientOf' = [clientOf EXCEPT ![d] = k] /\ UNCHANGED <<count, devices>>
  BY DEF Put
<1>3. AllAgree /\ clientOf[d] = Null
  BY <1>1 DEF Stage, Choosing
<1>4. th'[t].pc = "countRead" /\ th'[t].dev = d /\ th'[t].cl = k /\ th'[t].plus = 1
  BY <1>1 DEF Put, Frames
<1>5. /\ Load(k)' = Load(k) \cup {d} /\ d \notin Load(k)
      /\ Cardinality(Load(k)') = Cardinality(Load(k)) + 1
      /\ \A j \in Client : j # k => Load(j)' = Load(j)
  BY <1>1, <1>2, <1>3, LoadPut
<1>6. \A j \in Client : j # k => Agrees(j)'
  BY <1>2, <1>3, <1>5 DEF AllAgree, Agrees
<1>7. Agrees(k) /\ Cardinality(Load(k)) \in Nat
  BY <1>1, <1>3, LoadFinite DEF AllAgree
<1>8. count'[k] = Cardinality(Load(k)') - 1
  BY <1>2, <1>5, <1>7 DEF Agrees
<1>9. Lists(devices'[k], Load(k)' \ {d})
  <2>1. Load(k)' \ {d} = Load(k)
    BY <1>5
  <2>. QED  BY <1>2, <1>7, <2>1 DEF Agrees
<1>10. clientOf'[d] = k
  BY <1>1, <1>2 DEF PoolOK
<1>11. Counting(th[t])' /\ Adding(th[t])'
  BY <1>4, <1>8, <1>9, <1>10 DEF Counting, Adding
<1>. QED  BY <1>4, <1>6, <1>11 DEF Stage

LEMMA CountReadBook ==
  ASSUME TypeInv, NEW t \in Thread, CountRead(t), Stage(th[t])
  PROVE  Stage(th[t])'
<1>1. th \in [Thread -> Frames] /\ th[t] \in Frames /\ th[t].pc = "countRead"
  BY Locals DEF CountRead, At
<1>2. UNCHANGED <<clientOf, count, devices>>
  BY DEF CountRead
<1>3. /\ th'[t].pc = "countWrite" /\ th'[t].n = count[th[t].cl]
      /\ th'[t].dev = th[t].dev /\ th'[t].cl = th[t].cl /\ th'[t].plus = th[t].plus
  BY <1>1 DEF CountRead, Frames
<1>4. /\ \A j \in Client : j # th[t].cl => Agrees(j)
      /\ Counting(th[t])
      /\ \/ th[t].plus = 1 /\ Adding(th[t])
         \/ th[t].plus = -1 /\ Removing(th[t])
  BY <1>1 DEF Stage
<1>5. \A j : Load(j)' = Load(j) /\ (Agrees(j)' <=> Agrees(j))
  BY <1>2 DEF Load, Agrees
<1>6. Counting(th[t])'
  BY <1>1, <1>2, <1>3, <1>4, <1>5 DEF Counting
<1>7. \/ th'[t].plus = 1 /\ Adding(th[t])'
      \/ th'[t].plus = -1 /\ Removing(th[t])'
  BY <1>2, <1>3, <1>4, <1>5 DEF Adding, Removing
<1>. QED  BY <1>3, <1>4, <1>5, <1>6, <1>7 DEF Stage

LEMMA CountWriteBook ==
  ASSUME TypeInv, NEW t \in Thread, CountWrite(t), Stage(th[t]),
         NEW k, k = th[t].cl
  PROVE  Stage(th[t])'
<1>1. /\ PoolOK /\ th \in [Thread -> Frames] /\ th[t] \in Frames
      /\ th[t].pc = "countWrite" /\ k \in Client
  BY Locals DEF CountWrite, At, UsesClient
<1>2. /\ UNCHANGED <<clientOf, devices>>
      /\ count' = [count EXCEPT ![k] = th[t].n + th[t].plus]
  BY DEF CountWrite
<1>3. /\ th'[t].pc = IF th[t].plus = 1 THEN "addRead" ELSE "remFind"
      /\ th'[t].dev = th[t].dev /\ th'[t].cl = k
  BY <1>1 DEF CountWrite, Goto, Frames
<1>4. /\ \A j \in Client : j # k => Agrees(j)
      /\ Counting(th[t])
      /\ \/ th[t].plus = 1 /\ Adding(th[t])
         \/ th[t].plus = -1 /\ Removing(th[t])
  BY <1>1 DEF Stage
<1>5. \A j : Load(j)' = Load(j)
  BY <1>2 DEF Load
<1>6. \A j \in Client : j # k => Agrees(j)'
  BY <1>1, <1>2, <1>4, <1>5 DEF Agrees, PoolOK
<1>7. Counted(th[t])'
  <2>1. count'[k] = th[t].n + th[t].plus
    BY <1>1, <1>2 DEF PoolOK
  <2>2. th[t].n = Cardinality(Load(k)) - th[t].plus
    BY <1>1, <1>4 DEF Counting
  <2>3. Cardinality(Load(k)) \in Nat /\ th[t].plus \in {1, -1}
    BY <1>1, LoadFinite DEF Frames
  <2>4. count'[k] = Cardinality(Load(k))
    BY <2>1, <2>2, <2>3
  <2>. QED  BY <1>3, <1>5, <2>4 DEF Counted
<1>8. \/ th'[t].pc = "addRead" /\ Adding(th[t])'
      \/ th'[t].pc = "remFind" /\ Removing(th[t])'
  <2>1. CASE th[t].plus = 1 /\ Adding(th[t])
    BY <1>2, <1>3, <1>5, <2>1 DEF Adding
  <2>2. CASE th[t].plus = -1 /\ Removing(th[t])
    <3>1. th'[t].pc = "remFind"
      BY <1>3, <2>2
    <3>. QED  BY <1>2, <1>3, <1>5, <2>2, <3>1 DEF Removing
  <2>. QED  BY <1>4, <2>1, <2>2
<1>. QED  BY <1>3, <1>6, <1>7, <1>8 DEF Stage

LEMMA AddReadBook ==
  ASSUME TypeInv, NEW t \in Thread, AddRead(t), Stage(th[t])
  PROVE  Stage(th[t])'
<1>1. th \in [Thread -> Frames] /\ th[t] \in Frames /\ th[t].pc = "addRead"
  BY Locals DEF AddRead, At
<1>2. UNCHANGED <<clientOf, count, devices>>
  BY DEF AddRead
<1>4. /\ \A j \in Client : j # th[t].cl => Agrees(j)
      /\ Counted(th[t]) /\ Adding(th[t])
  BY <1>1 DEF Stage
<1>3. /\ th'[t].pc = "addStore" /\ th'[t].n = Len(devices[th[t].cl])
      /\ th'[t].dev = th[t].dev /\ th'[t].cl = th[t].cl
  <2> DEFINE n == Size(devices[th[t].cl])
  <2>1. n = Len(devices[th[t].cl])
    BY <1>4, SizeIsLen DEF Adding, Lists
  <2>2. th' = [th EXCEPT ![t] = [th[t] EXCEPT !.pc = "addStore", !.n = n]]
    BY DEF AddRead
  <2>. HIDE DEF n
  <2>. QED  BY <1>1, <2>1, <2>2 DEF Frames
<1>5. \A j : Load(j)' = Load(j) /\ (Agrees(j)' <=> Agrees(j))
  BY <1>2 DEF Load, Agrees
<1>6. Counted(th[t])' /\ Adding(th[t])'
  BY <1>2, <1>3, <1>4, <1>5 DEF Counted, Adding
<1>. QED  BY <1>3, <1>4, <1>5, <1>6 DEF Stage

\* The list has got the device: the books agree.
LEMMA AddStoreBook ==
  ASSUME TypeInv, NEW t \in Thread, AddStore(t), Stage(th[t]),
         NEW d, d = th[t].dev, NEW k, k = th[t].cl
  PROVE  AllAgree'
<1>1. /\ PoolOK /\ th[t].pc = "addStore" /\ d \in DeviceId /\ k \in Client
  BY Locals DEF AddStore, At, UsesClient
<1>2. /\ \A j \in Client : j # k => Agrees(j)
      /\ Counted(th[t]) /\ Adding(th[t])
  BY <1>1 DEF Stage
<1>3. UNCHANGED <<clientOf, count>>
  BY DEF AddStore
<1>4. devices' = [devices EXCEPT ![k] = StoreAt(devices[k], Len(devices[k]), d)]
  <2>1. th[t].n = Len(devices[k])
    BY <1>1, <1>2 DEF Adding
  <2>. QED  BY <2>1 DEF AddStore
<1>5. \A j : Load(j)' = Load(j)
  BY <1>3 DEF Load
<1>6. \A j \in Client : j # k => Agrees(j)'
  BY <1>1, <1>2, <1>3, <1>4, <1>5 DEF Agrees, PoolOK
<1>7. Lists(devices'[k], Load(k))
  <2>1. devices[k] \in Seq(DeviceId \cup {Null}) /\ d \in Load(k)
    BY <1>1, <1>2 DEF Adding, Lists, Load
  <2>2. Lists(StoreAt(devices[k], Len(devices[k]), d), (Load(k) \ {d}) \cup {d})
    <3>1. Lists(devices[k], Load(k) \ {d}) /\ d \notin Load(k) \ {d}
      BY <1>2 DEF Adding
    <3>. QED  BY <1>1, <3>1, ListAdd
  <2>3. (Load(k) \ {d}) \cup {d} = Load(k)
    BY <2>1
  <2>4. devices'[k] = StoreAt(devices[k], Len(devices[k]), d)
    BY <1>1, <1>4 DEF PoolOK
  <2>. QED  BY <2>2, <2>3, <2>4
<1>8. Agrees(k)'
  BY <1>2, <1>3, <1>5, <1>7 DEF Agrees, Counted
<1>. QED  BY <1>6, <1>8 DEF AllAgree

\* release: the map is the first to lose the device.
LEMMA MapRemoveBook ==
  ASSUME TypeInv, NEW t \in Thread, MapRemove(t), th'[t].pc # "idle", AllAgree,
         NEW d, d = th[t].dev, NEW k, k = clientOf[d]
  PROVE  Stage(th[t])'
<1>1. /\ PoolOK /\ th \in [Thread -> Frames] /\ th[t] \in Frames /\ d \in DeviceId
  BY Locals DEF MapRemove, At
<1>2. ~Done(t)
  BY <1>1 DEF Done, Frame
<1>3. /\ k # Null /\ UNCHANGED <<count, devices>>
      /\ clientOf' = [clientOf EXCEPT ![d] = Null]
      /\ th' = [th EXCEPT ![t] = [th[t] EXCEPT !.pc = "countRead", !.plus = -1, !.cl = k]]
  BY <1>2 DEF MapRemove
<1>4. k \in Client
  BY <1>1, <1>3 DEF PoolOK
<1>5. th'[t].pc = "countRead" /\ th'[t].plus = -1 /\ th'[t].cl = k /\ th'[t].dev = d
  BY <1>1, <1>3 DEF Frames
<1>6. /\ Load(k)' \cup {d} = Load(k)
      /\ Cardinality(Load(k)') = Cardinality(Load(k)) - 1
      /\ \A j \in Client : j # k => Load(j)' = Load(j)
  BY <1>1, <1>3, <1>4, LoadRemove
<1>7. Agrees(k) /\ Cardinality(Load(k)) \in Nat
  BY <1>4, LoadFinite DEF AllAgree
<1>8. \A j \in Client : j # k => Agrees(j)'
  BY <1>3, <1>6 DEF AllAgree, Agrees
<1>9. count'[k] = Cardinality(Load(k)') - (-1)
  BY <1>3, <1>6, <1>7 DEF Agrees
<1>10. Lists(devices'[k], Load(k)' \cup {d})
  BY <1>3, <1>6, <1>7 DEF Agrees
<1>11. clientOf'[d] = Null
  BY <1>1, <1>3 DEF PoolOK
<1>12. Counting(th[t])' /\ Removing(th[t])'
  BY <1>5, <1>9, <1>10, <1>11 DEF Counting, Removing
<1>. QED  BY <1>5, <1>8, <1>12 DEF Stage

\* remove finds the device, for it is still in the list.
LEMMA RemFindBook ==
  ASSUME TypeInv, NEW t \in Thread, RemFind(t), Stage(th[t])
  PROVE  th'[t].pc = "remShift" /\ Stage(th[t])'
<1> DEFINE l == devices[th[t].cl]  i == IndexOf(l, th[t].dev)
<1>1. /\ PoolOK /\ th \in [Thread -> Frames] /\ th[t] \in Frames
      /\ th[t].pc = "remFind" /\ th[t].cl \in Client
  BY Locals DEF RemFind, At, UsesClient
<1>2. UNCHANGED <<clientOf, count, devices>>
  BY DEF RemFind
<1>3. /\ \A j \in Client : j # th[t].cl => Agrees(j)
      /\ Counted(th[t]) /\ Removing(th[t])
  BY <1>1 DEF Stage
<1>4. l \in Seq(DeviceId \cup {Null})
  BY <1>3 DEF Removing, Lists
<1>5. \E j \in 1..Len(l) : l[j] = th[t].dev
  BY <1>3 DEF Removing, Lists
<1>6. i \in 1..Len(l) /\ l[i] = th[t].dev
  <2>1. i # 0
    BY <1>4, <1>5, IndexOfType
  <2>2. i \in 0..Len(l) /\ l[i] = th[t].dev
    BY <1>4, <2>1, IndexOfType
  <2>. QED  BY <1>4, <2>1, <2>2
<1>7. /\ th'[t].pc = "remShift" /\ th'[t].n = i
      /\ th'[t].dev = th[t].dev /\ th'[t].cl = th[t].cl
  <2>1. i # 0
    BY <1>6
  <2>2. th' = [th EXCEPT ![t] = [th[t] EXCEPT !.pc = "remShift", !.n = i]]
    BY <2>1 DEF RemFind
  <2>. HIDE DEF i
  <2>. QED  BY <1>1, <2>2 DEF Frames
<1>8. \A j : Load(j)' = Load(j) /\ (Agrees(j)' <=> Agrees(j))
  BY <1>2 DEF Load, Agrees
<1>9. Counted(th[t])'
  BY <1>2, <1>3, <1>7, <1>8 DEF Counted
<1>10. Removing(th[t])'
  <2>. HIDE DEF i
  <2>. QED  BY <1>2, <1>3, <1>6, <1>7, <1>8 DEF Removing
<1>. QED  BY <1>3, <1>7, <1>8, <1>9, <1>10 DEF Stage

\* The list has lost the device: the books agree.
LEMMA RemShiftBook ==
  ASSUME TypeInv, NEW t \in Thread, RemShift(t), Stage(th[t]),
         NEW d, d = th[t].dev, NEW k, k = th[t].cl, NEW p, p = th[t].n
  PROVE  AllAgree'
<1>1. PoolOK /\ th[t].pc = "remShift" /\ d \in DeviceId /\ k \in Client
  BY Locals DEF RemShift, At, UsesClient
<1>2. /\ \A j \in Client : j # k => Agrees(j)
      /\ Counted(th[t]) /\ Removing(th[t])
  BY <1>1 DEF Stage
<1>3. UNCHANGED <<clientOf, count>>
  BY DEF RemShift
<1>4. /\ devices[k] \in Seq(DeviceId \cup {Null}) /\ p \in 1..Len(devices[k])
      /\ devices[k][p] = d /\ Lists(devices[k], Load(k) \cup {d})
  BY <1>1, <1>2 DEF Lists, Removing
<1>5. devices' = [devices EXCEPT ![k] = ShiftFrom(devices[k], p)]
  BY DEF RemShift
<1>6. \A j : Load(j)' = Load(j)
  BY <1>3 DEF Load
<1>7. \A j \in Client : j # k => Agrees(j)'
  BY <1>1, <1>2, <1>3, <1>5, <1>6 DEF Agrees, PoolOK
<1>8. Lists(devices'[k], Load(k))
  <2>1. Lists(ShiftFrom(devices[k], p), (Load(k) \cup {d}) \ {d})
    BY <1>4, ListRemove
  <2>2. d \notin Load(k)
    BY <1>1, <1>2, PoolAssumption DEF Removing, Load
  <2>3. (Load(k) \cup {d}) \ {d} = Load(k)
    BY <2>2
  <2>4. devices'[k] = ShiftFrom(devices[k], p)
    BY <1>1, <1>5 DEF PoolOK
  <2>. QED  BY <2>1, <2>3, <2>4
<1>9. Agrees(k)'
  BY <1>2, <1>3, <1>6, <1>8 DEF Agrees, Counted
<1>. QED  BY <1>7, <1>9 DEF AllAgree

LEMMA DivBound ==
  ASSUME NEW a \in Nat, NEW b \in Nat, b > 0
  PROVE  /\ a \div b \in Nat
         /\ a < b * (a \div b + 1)
<1>1. a \div b \in Nat
  BY SMTT(30)
<1>2. a < b * (a \div b + 1)
  BY SMTT(30)
<1>. QED  BY <1>1, <1>2

\* Not every client can carry more than the average: there would be more devices
\* on the clients than there are in the map.
LEMMA SomeLight ==
  ASSUME TypeInv, AllAgree
  PROVE  \E k \in Client : count[k] <= Average
<1> DEFINE c == Cardinality(Client)  a == Cardinality(Mapped)
           m == a \div c + 1
           size(k) == Cardinality(Load(k))
           f == [k \in Client |-> CHOOSE g \in Bijection(1..size(k), Load(k)) : TRUE]
           g == [p \in Client \X (1..m) |-> f[p[1]][p[2]]]
<1>1. IsFiniteSet(Mapped) /\ a \in Nat
  <2>1. Mapped \in SUBSET DeviceId
    BY DEF Mapped
  <2>. QED  BY <2>1, PoolAssumption, FS_Subset, FS_CardinalityType
<1>2. IsFiniteSet(Client) /\ c \in Nat /\ c > 0
  <2>1. c \in Nat /\ c # 0
    BY PoolAssumption, FS_CardinalityType, FS_EmptySet
  <2>. QED  BY <2>1, PoolAssumption
<1>3. m \in Nat /\ a < c * m
  <2>. HIDE DEF a, c
  <2>. QED  BY <1>1, <1>2, DivBound
<1>. SUFFICES ASSUME \A k \in Client : ~(count[k] <= m) PROVE FALSE
  BY DEF Average
<1>. HIDE DEF m
<1>4. ASSUME NEW k \in Client
      PROVE  /\ f[k] \in Bijection(1..size(k), Load(k))
             /\ size(k) \in Nat /\ 1..m \subseteq 1..size(k)
  <2>1. IsFiniteSet(Load(k)) /\ size(k) \in Nat
    BY LoadFinite
  <2>2. count[k] = size(k)
    BY DEF AllAgree, Agrees
  <2>3. size(k) > m
    BY <1>3, <2>1, <2>2
  <2>4. Bijection(1..size(k), Load(k)) # {}
    BY <2>1, FS_CardinalityType DEF ExistsBijection
  <2>. HIDE DEF size
  <2>5. f[k] \in Bijection(1..size(k), Load(k))
    BY <2>4
  <2>. QED  BY <1>3, <2>1, <2>3, <2>5
<1>5. ASSUME NEW k \in Client, NEW i \in 1..m
      PROVE  f[k][i] \in Load(k) /\ f[k][i] \in Mapped
  <2>1. f[k] \in [1..size(k) -> Load(k)] /\ i \in 1..size(k)
    BY <1>4 DEF Bijection, Injection
  <2>2. f[k][i] \in Load(k)
    <3>. HIDE DEF f, size
    <3>. QED  BY <2>1
  <2>3. k # Null
    BY PoolAssumption
  <2>. HIDE DEF f
  <2>. QED  BY <2>2, <2>3 DEF Load, Mapped
<1>6. ASSUME NEW k \in Client, NEW i \in 1..m, NEW j \in 1..m, f[k][i] = f[k][j]
      PROVE  i = j
  <2>1. /\ f[k] \in [1..size(k) -> Load(k)] /\ IsInjective(f[k])
        /\ i \in 1..size(k) /\ j \in 1..size(k)
    BY <1>4 DEF Bijection, Injection
  <2>. HIDE DEF f, size
  <2>. QED  BY <1>6, <2>1 DEF IsInjective
<1>. HIDE DEF f
<1>7. g \in [Client \X (1..m) -> Mapped]
  BY <1>5
<1>8. \A p, q \in Client \X (1..m) : g[p] = g[q] => p = q
  <2>. SUFFICES ASSUME NEW k \in Client, NEW i \in 1..m, NEW l \in Client, NEW j \in 1..m,
                       f[k][i] = f[l][j]
                PROVE  k = l /\ i = j
    OBVIOUS
  <2>1. k = l
    BY <1>5 DEF Load
  <2>. QED  BY <1>6, <2>1
<1>9. g \in Injection(Client \X (1..m), Mapped)
  <2>. HIDE DEF g
  <2>. QED  BY <1>7, <1>8 DEF Injection, IsInjective
<1>10. IsFiniteSet(1..m) /\ Cardinality(1..m) = m
  BY <1>3, FS_Interval
<1>11. Cardinality(Client \X (1..m)) = c * m
  BY <1>2, <1>10, FS_Product
<1>12. Cardinality(Client \X (1..m)) <= a
  <2>. HIDE DEF g, a
  <2>. QED  BY <1>1, <1>9, FS_Injection DEF a
<1>. HIDE DEF a, c
<1>. QED  BY <1>1, <1>2, <1>3, <1>11, <1>12

\* whoNotBusy chooses a light client: `first' is only for a pool whose counts
\* are wrong.
LEMMA PickBook ==
  ASSUME TypeInv, NEW t \in Thread, Pick(t), Stage(th[t])
  PROVE  Stage(th[t])'
<1> DEFINE light == {i \in 1..Len(Order) : count[Order[i]] <= th[t].n}
<1>1. PoolOK /\ th \in [Thread -> Frames] /\ th[t] \in Frames /\ th[t].pc = "pick"
  BY Locals DEF Pick, At
<1>2. UNCHANGED <<clientOf, count, devices>>
  BY DEF Pick
<1>3. AllAgree /\ clientOf[th[t].dev] = Null /\ th[t].n = Average
  BY <1>1 DEF Stage, Choosing
<1>4. light # {}
  <2>1. PICK k \in Client : count[k] <= Average
    BY <1>3, SomeLight
  <2>2. PICK i \in 1..Len(Order) : Order[i] = k
    BY PoolAssumption
  <2>. QED  BY <1>3, <2>1, <2>2
<1>5. Max(light) \in light
  <2>1. light \in SUBSET (1..Len(Order)) /\ Len(Order) \in Nat
    BY PoolAssumption, SMTT(30)
  <2>. HIDE DEF light
  <2>. QED  BY <1>4, <2>1, MaxType
<1>6. WhoNotBusy(th[t].n) = Order[Max(light)]
  BY <1>4 DEF WhoNotBusy
<1>7. count[WhoNotBusy(th[t].n)] <= Average
  BY <1>3, <1>5, <1>6
<1>8. th'[t].pc = "put" /\ th'[t].dev = th[t].dev /\ th'[t].cl = WhoNotBusy(th[t].n)
  BY <1>1 DEF Pick, Frames
<1>9. AllAgree' /\ Average' = Average
  BY <1>2, <1>3 DEF AllAgree, Agrees, Load, Average, Mapped
<1>. QED  BY <1>2, <1>3, <1>7, <1>8, <1>9 DEF Stage, Choosing

\* The steps of a thread: those in the books, and those into and out of them.
LEMMA BooksStep ==
  ASSUME TypeInv, BookInv, ~raced, NEW t \in Thread, ~Racing',
         \/ ReadAverage(t) \/ Pick(t) \/ Put(t) \/ CountRead(t) \/ CountWrite(t)
         \/ AddRead(t) \/ AddStore(t) \/ RemFind(t) \/ RemShift(t)
  PROVE  BookInv'
<1>1. /\ Moves(t) /\ th \in [Thread -> Frames] /\ th[t] \in Frames
      /\ th'[t] \in Frames /\ th[t].pc \in Books
  BY Locals, LookType, BookType, CallType
     DEF ReadAverage, Pick, Put, CountRead, CountWrite, AddRead, AddStore, RemFind,
         RemShift, At, Books, Moves
<1>2. Stage(th[t])
  BY <1>1 DEF BookInv
<1>3. CASE \/ ReadAverage(t) \/ Pick(t) \/ Put(t) \/ CountRead(t) \/ CountWrite(t)
           \/ AddRead(t) \/ RemFind(t)
  <2>1. Stage(th[t])'
    BY <1>2, <1>3, ChooseBook, PickBook, PutBook, CountReadBook, CountWriteBook,
       AddReadBook, RemFindBook
  <2>2. th'[t].pc \in Books
    BY <2>1 DEF Stage, Books
  <2>. QED  BY <1>1, <2>1, <2>2, TurnBook
<1>4. CASE AddStore(t) \/ RemShift(t)
  <2>1. AllAgree'
    BY <1>2, <1>4, AddStoreBook, RemShiftBook
  <2>2. th'[t].pc \notin Books
    <3>1. Done(t) \/ Goto(t, "call")
      BY <1>4 DEF AddStore, RemShift, NotCalled
    <3>2. th'[t].pc \in {"idle", "call"}
      BY <1>1, <3>1 DEF Goto, Done, Frame, Frames
    <3>. QED  BY <3>2 DEF Books
  <2>. QED  BY <1>1, <2>1, <2>2, TurnBook
<1>. QED  BY <1>3, <1>4

LEMMA OutsideStep ==
  ASSUME TypeInv, BookInv, ~raced, NEW t \in Thread, ~Racing',
         \/ Subscribe(t) \/ PublishData(t) \/ Unsubscribe(t)
         \/ ContainsKey(t) \/ GetClient(t) \/ Call(t) \/ MapRemove(t)
  PROVE  BookInv'
<1>1. /\ Moves(t) /\ PoolOK /\ th \in [Thread -> Frames] /\ th[t] \in Frames
      /\ th'[t] \in Frames
  BY Locals, BeginType, LookType, CallType DEF Moves
<1>2. th[t].pc \notin Books
  BY DEF Subscribe, PublishData, Unsubscribe, ContainsKey, GetClient, Call, MapRemove,
         At, Books
<1>3. CASE th'[t].pc \notin Books
  <2>1. UNCHANGED <<count, devices>>
    BY DEF Subscribe, PublishData, Unsubscribe, ContainsKey, GetClient, Call, MapRemove
  <2>2. UNCHANGED clientOf
    <3>1. CASE MapRemove(t)
      <4>1. clientOf[th[t].dev] = Null
        <5>1. SUFFICES ASSUME clientOf[th[t].dev] # Null PROVE FALSE
          OBVIOUS
        <5>2. th' = [th EXCEPT ![t] = [th[t] EXCEPT !.pc = "countRead", !.plus = -1,
                                                    !.cl = clientOf[th[t].dev]]]
          BY <3>1, <5>1 DEF MapRemove
        <5>3. th'[t].pc = "countRead"
          BY <1>1, <5>2 DEF Frames
        <5>. QED  BY <1>3, <5>3 DEF Books
      <4>. QED  BY <1>1, <3>1, <4>1 DEF MapRemove, PoolOK
    <3>. QED  BY <3>1 DEF Subscribe, PublishData, Unsubscribe, ContainsKey, GetClient, Call
  <2>. QED  BY <1>1, <1>2, <1>3, <2>1, <2>2, OutsideBook
<1>4. CASE th'[t].pc \in Books
  <2>1. AllAgree
    BY <1>1, <1>2, <1>4, ComeToBooks
  <2>2. CASE MapRemove(t)
    <3>1. th'[t].pc # "idle"
      BY <1>4 DEF Books
    <3>. QED  BY <1>1, <1>4, <2>1, <2>2, <3>1, MapRemoveBook, TurnBook
  <2>3. CASE ContainsKey(t)
    <3>1. UNCHANGED <<clientOf, count, devices>>
      BY <2>3 DEF ContainsKey
    <3>2. /\ th'[t].pc = "average" /\ th'[t].dev = th[t].dev
          /\ clientOf[th[t].dev] = Null
      BY <1>1, <1>4, <2>3 DEF ContainsKey, Goto, Books, Frames
    <3>3. AllAgree'
      BY <2>1, <3>1 DEF AllAgree, Agrees, Load
    <3>4. Stage(th[t])'
      BY <3>1, <3>2, <3>3 DEF Stage, Choosing
    <3>. QED  BY <1>1, <1>4, <3>4, TurnBook
  <2>4. CASE \/ Subscribe(t) \/ PublishData(t) \/ Unsubscribe(t) \/ GetClient(t) \/ Call(t)
    <3>1. th'[t].pc \in {"contains", "idle", "call", "mapRemove"}
      <4>1. CASE Subscribe(t) \/ PublishData(t) \/ Unsubscribe(t)
        <5>1. th'[t].pc = "contains" \/ (UNCHANGED th /\ th[t].pc = "idle")
          <6>1. /\ th[t].pc = "idle"
                /\ UNCHANGED th \/ \E o \in Op, d \in Devices[t] : Enter(t, o, d)
            BY <4>1 DEF Subscribe, PublishData, Unsubscribe, Op, At
          <6>2. ASSUME NEW o \in Op, NEW d \in Devices[t], Enter(t, o, d)
                PROVE  th'[t].pc = "contains"
            BY <1>1, <6>2 DEF Enter, Frame
          <6>. QED  BY <6>1, <6>2
        <5>. QED  BY <5>1
      <4>2. CASE Call(t)
        BY <1>1, <4>2 DEF Call, Goto, Done, Frame, Frames
      <4>3. CASE GetClient(t)
        <5>1. \/ Done(t)
              \/ th' = [th EXCEPT ![t] = [th[t] EXCEPT !.pc = "call", !.cl = clientOf[th[t].dev]]]
          BY <4>3 DEF GetClient, NotCalled
        <5>2. Done(t) => th'[t].pc = "idle"
          BY <1>1 DEF Done, Frame
        <5>. QED  BY <1>1, <5>1, <5>2 DEF Frames
      <4>. QED  BY <2>4, <4>1, <4>2, <4>3
    <3>. QED  BY <1>4, <3>1 DEF Books
  <2>. QED  BY <2>2, <2>3, <2>4
<1>. QED  BY <1>3, <1>4

LEMMA InitBook == Init => BookInv
<1>. SUFFICES ASSUME Init PROVE BookInv
  OBVIOUS
<1>1. \A t \in Thread : th[t].pc \notin Books
  BY DEF Init, Frame, Books
<1>2. ASSUME NEW k \in Client PROVE Agrees(k)
  <2>1. Load(k) = {}
    BY PoolAssumption DEF Init, Load
  <2>2. devices[k] = <<>> /\ count[k] = 0
    BY DEF Init
  <2>3. Lists(<<>>, {})
    <3>1. <<>> \in Seq(DeviceId \cup {Null}) /\ Len(<<>>) = 0
      OBVIOUS
    <3>. QED  BY <3>1 DEF Lists
  <2>. QED  BY <2>1, <2>2, <2>3, FS_EmptySet DEF Agrees
<1>. QED  BY <1>1, <1>2 DEF BookInv, Racing, AllAgree

LEMMA NextBook == TypeInv /\ BookInv /\ [Next]_vars => BookInv'
<1>. SUFFICES ASSUME TypeInv, BookInv, [Next]_vars PROVE BookInv'
  OBVIOUS
<1>1. CASE UNCHANGED <<clientOf, count, devices, th>> /\ (~raced' => ~raced)
  <2>1. /\ \A k : Load(k)' = Load(k) /\ (Agrees(k)' <=> Agrees(k))
        /\ Average' = Average /\ (Racing' <=> Racing)
    BY <1>1 DEF Load, Agrees, Average, Mapped, Racing
  <2>2. AllAgree' <=> AllAgree
    BY <2>1 DEF AllAgree
  <2>3. \A t \in Thread : Stage(th[t]) => Stage(th[t])'
    BY <1>1, <2>1, <2>2, ZenonT(30) DEF Stage, Choosing, Counting, Counted, Adding, Removing
  <2>. QED  BY <1>1, <2>1, <2>2, <2>3 DEF BookInv
<1>2. CASE Next /\ ~raced'
  <2>1. ~raced /\ ~Racing'
    BY <1>2 DEF Next
  <2>2. CASE AskInfo \/ ReadSize
    BY <1>1, <1>2, <2>1, <2>2, InfoType DEF Next
  <2>3. ASSUME NEW t \in Thread, Subscribe(t) \/ PublishData(t) \/ Unsubscribe(t) \/ Step(t)
        PROVE  BookInv'
    BY <2>1, <2>3, BooksStep, OutsideStep DEF Step
  <2>. QED  BY <1>2, <2>2, <2>3 DEF Next
<1>3. CASE raced'
  BY <1>3 DEF BookInv
<1>. QED  BY <1>1, <1>2, <1>3 DEF vars

LEMMA RestAgrees == TypeInv /\ BookInv => BooksAgree
<1>. SUFFICES ASSUME TypeInv, BookInv, AtRest, ~raced, NEW k \in Client
              PROVE  /\ count[k] = Cardinality(Load(k)) /\ Size(devices[k]) = count[k]
                     /\ {devices[k][i] : i \in 1..Size(devices[k])} = Load(k)
  BY DEF BooksAgree
<1>1. \A t \in Thread : th[t].pc \notin Books
  BY DEF AtRest, At, Books
<1>2. Agrees(k)
  BY <1>1 DEF BookInv, AllAgree
<1>3. Lists(devices[k], Load(k)) /\ Size(devices[k]) = Len(devices[k])
  BY <1>2, SizeIsLen DEF Agrees, Lists
<1>4. Len(devices[k]) = Cardinality(Load(k))
  BY <1>3, ListSize
<1>. QED  BY <1>2, <1>3, <1>4 DEF Agrees, Lists

\* As long as no two threads have been in the books at once, the three of them
\* agree whenever all is at rest, whatever calls have thrown: a device is on the
\* list of its client once, and the count is the size of the list.  Threads may
\* share devices.
THEOREM BooksBalance == Spec => []BooksAgree
<1>. QED  BY InitType, NextType, InitBook, NextBook, RestAgrees, PTL DEF Spec

\* Only put gives a device a client.
LEMMA OnlyPutGives ==
  ASSUME TypeInv, NEW d \in DeviceId, clientOf[d] = Null, clientOf'[d] # Null,
         [Next]_vars
  PROVE  \E t \in Thread : Put(t) /\ clientOf'[d] = th[t].cl
<1>1. clientOf' # clientOf /\ ~UNCHANGED vars
  BY DEF vars
<1>2. PICK t \in Thread : Subscribe(t) \/ PublishData(t) \/ Unsubscribe(t) \/ Step(t)
  BY <1>1, InfoType DEF Next
<1>3. Put(t) \/ MapRemove(t)
  BY <1>1, <1>2 DEF Subscribe, PublishData, Unsubscribe, Step, ContainsKey, GetClient,
     ReadAverage, Pick, CountRead, CountWrite, AddRead, AddStore, Call, RemFind, RemShift
<1>4. PoolOK
  BY Locals
<1>5. ~MapRemove(t)
  BY <1>4 DEF MapRemove, PoolOK
<1>. QED  BY <1>3, <1>4, <1>5 DEF Put, PoolOK

\* As long as no two threads have been in the books at once, a device that is new
\* to the pool goes to a client whose load exceeds the average by at most one:
\* there is always such a client, and whoNotBusy finds it.
THEOREM LightOnesGetIt == Spec => GivenToLight
<1> DEFINE Light == \A k \in Client : Given(k) /\ ~raced' =>
                      Cardinality(Load(k)) <= Cardinality(Mapped) \div Cardinality(Client) + 1
<1>1. TypeInv /\ BookInv /\ [Next]_vars => [Light]_vars
  <2>. SUFFICES ASSUME TypeInv, BookInv, [Next]_vars, ~UNCHANGED vars,
                       NEW k \in Client, Given(k), ~raced'
                PROVE  Cardinality(Load(k)) <= Average
    BY DEF Average
  <2>1. PICK d \in DeviceId : clientOf[d] = Null /\ clientOf'[d] = k
    BY DEF Given
  <2>2. PICK t \in Thread : Put(t) /\ clientOf'[d] = th[t].cl
    BY <2>1, PoolAssumption, OnlyPutGives
  <2>3. ~raced /\ th[t].pc = "put" /\ th[t].cl = k
    BY <2>1, <2>2 DEF Next, Put, At
  <2>4. Choosing(th[t])
    BY <2>3 DEF BookInv, Stage, Books
  <2>. QED  BY <2>3, <2>4 DEF Choosing, AllAgree, Agrees
<1>. QED  BY <1>1, InitType, NextType, InitBook, NextBook, PTL DEF Spec, GivenToLight

-----------------------------------------------------------------------------
(* getMqttInfo counts what stays.                                            *)

\* What the request observes is still in the books; as long as nothing else
\* happens it is all that the books have with the clients to come.
InfoInv ==
  /\ info.steady \subseteq Kept
  /\ info.still => AtRest /\ info.steady = {p \in Kept : p[2] \in ToCome(info.read)}

LEMMA InitInfo == Init => InfoInv
  BY DEF Init, InfoInv

LEMMA NextInfo == TypeInv /\ InfoInv /\ [Next]_vars => InfoInv'
<1>. SUFFICES ASSUME TypeInv, InfoInv, [Next]_vars PROVE InfoInv'
  OBVIOUS
<1>1. info \in Infos
  BY DEF TypeInv, TypeOK
<1>2. CASE UNCHANGED vars
  BY <1>2 DEF vars, InfoInv, Kept, AtRest, At
<1>3. CASE Seen
  BY <1>1, <1>3 DEF Seen, InfoInv, Infos
<1>4. CASE AskInfo \/ ReadSize
  <2>1. Kept' = Kept /\ (AtRest' <=> AtRest)
    BY <1>4, InfoType DEF Kept, AtRest, At
  <2>2. CASE AskInfo
    <3>1. info' = [read |-> 0, size |-> 0, steady |-> Kept, still |-> AtRest]
      BY <2>2 DEF AskInfo
    <3>2. ToCome(0) = Client
      BY PoolAssumption, SMTT(30) DEF ToCome
    <3>3. Kept = {p \in Kept : p[2] \in ToCome(0)}
      BY <3>2 DEF Kept
    <3>4. info'.steady = Kept /\ info'.read = 0 /\ (info'.still <=> AtRest)
      BY <3>1
    <3>. QED  BY <2>1, <3>3, <3>4 DEF InfoInv
  <2>3. CASE ReadSize
    <3> DEFINE n == Size(devices[Order[info.read + 1]])  i == info.read + 1
               rest == {p \in info.steady : p[2] \in ToCome(i)}
    <3>1. \/ info' = [read |-> -1, size |-> n, steady |-> {}, still |-> FALSE]
          \/ info' = [info EXCEPT !.read = i, !.size = n, !.steady = rest]
      BY <2>3 DEF ReadSize, HasRead
    <3>2. ToCome(i) \subseteq ToCome(info.read)
      <4>1. info.read \in Int /\ Len(Order) \in Nat
        BY <1>1, PoolAssumption DEF Infos
      <4>2. \A j \in i + 1..Len(Order) : j \in info.read + 1..Len(Order)
        BY <4>1
      <4>. QED  BY <4>2 DEF ToCome
    <3>3. /\ rest \subseteq info.steady
          /\ info.steady = {p \in Kept : p[2] \in ToCome(info.read)} =>
               rest = {p \in Kept : p[2] \in ToCome(i)}
      BY <3>2
    <3>. HIDE DEF n, i, rest
    <3>4. CASE info' = [read |-> -1, size |-> n, steady |-> {}, still |-> FALSE]
      <4>1. info'.steady = {} /\ info'.still = FALSE
        BY <3>4
      <4>. QED  BY <4>1 DEF InfoInv
    <3>5. CASE info' = [info EXCEPT !.read = i, !.size = n, !.steady = rest]
      <4>1. info'.steady = rest /\ info'.read = i /\ info'.still = info.still
        BY <1>1, <3>5 DEF Infos
      <4>2. info'.steady \subseteq Kept'
        BY <2>1, <3>3, <4>1 DEF InfoInv
      <4>3. ASSUME info'.still
            PROVE  AtRest' /\ info'.steady = {p \in Kept' : p[2] \in ToCome(info'.read)}
        BY <2>1, <3>3, <4>1, <4>3 DEF InfoInv
      <4>. QED  BY <4>2, <4>3 DEF InfoInv
    <3>. QED  BY <3>1, <3>4, <3>5
  <2>. QED  BY <1>4, <2>2, <2>3
<1>. QED  BY <1>2, <1>3, <1>4 DEF Next

\* As long as no two threads have been in the books at once no list has a
\* negative size.
LEMMA BooksAreLists ==
  ASSUME TypeInv, BookInv, ~raced, NEW k \in Client
  PROVE  devices[k] \in Seq(DeviceId \cup {Null}) /\ Size(devices[k]) = Len(devices[k])
<1>1. Agrees(k) => devices[k] \in Seq(DeviceId \cup {Null})
  BY DEF Agrees, Lists
<1>2. CASE \A t \in Thread : th[t].pc \notin Books
  BY <1>1, <1>2, SizeIsLen DEF BookInv, AllAgree
<1>3. ASSUME NEW t \in Thread, th[t].pc \in Books
      PROVE  devices[k] \in Seq(DeviceId \cup {Null})
  <2>1. Stage(th[t])
    BY <1>3 DEF BookInv
  <2>2. \/ AllAgree \/ (k # th[t].cl /\ Agrees(k))
        \/ k = th[t].cl /\ (Adding(th[t]) \/ Removing(th[t]))
    BY <2>1 DEF Stage, Choosing
  <2>. QED  BY <1>1, <2>2 DEF AllAgree, Adding, Removing, Lists
<1>. QED  BY <1>2, <1>3, SizeIsLen

\* The devices of one client that are in the books are at different positions
\* of its list.
LEMMA KeepsFit ==
  ASSUME TypeInv, BookInv, ~raced, NEW k \in Client,
         NEW K \in SUBSET Kept, \A p \in K : p[2] = k
  PROVE  Cardinality(K) \in Nat /\ Cardinality(K) <= Len(devices[k])
<1> DEFINE l == devices[k]  n == Len(l)
           h == [p \in K |-> CHOOSE i \in 1..n : l[i] = p[1]]
<1>1. n \in Nat /\ Size(l) = n
  BY BooksAreLists, SizeIsLen
<1>2. ASSUME NEW p \in K PROVE h[p] \in 1..n /\ l[h[p]] = p[1] /\ p = <<p[1], k>>
  <2>1. \E i \in 1..n : l[i] = p[1]
    <3>. HIDE DEF n
    <3>. QED  BY <1>1 DEF Kept
  <2>2. p \in DeviceId \X Client /\ p[2] = k
    BY DEF Kept
  <2>. QED  BY <2>1, <2>2
<1>. HIDE DEF n, l
<1>3. h \in [K -> 1..n]
  BY <1>2
<1>. HIDE DEF h
<1>4. \A p, q \in K : h[p] = h[q] => p = q
  <2>. SUFFICES ASSUME NEW p \in K, NEW q \in K, h[p] = h[q] PROVE p = q
    OBVIOUS
  <2>1. p[1] = q[1]
    BY <1>2
  <2>2. p = <<p[1], k>> /\ q = <<q[1], k>>
    BY <1>2
  <2>. QED  BY <2>1, <2>2
<1>5. h \in Injection(K, 1..n)
  BY <1>3, <1>4 DEF Injection, IsInjective
<1>6. IsFiniteSet(1..n) /\ Cardinality(1..n) = n
  BY <1>1, FS_Interval
<1>7. IsFiniteSet(K) /\ Cardinality(K) <= n
  BY <1>5, <1>6, FS_Injection
<1>. QED  BY <1>7, FS_CardinalityType DEF n, l

\* When the books agree they have all devices of a client.
LEMMA KeepsAll ==
  ASSUME TypeInv, NEW k \in Client, Agrees(k)
  PROVE  Cardinality({p \in Kept : p[2] = k}) = Len(devices[k])
<1> DEFINE K == {p \in Kept : p[2] = k}  g == [d \in Load(k) |-> <<d, k>>]
<1>0. Size(devices[k]) = Len(devices[k])
  BY SizeIsLen DEF Agrees, Lists
<1>1. \A d \in Load(k) : <<d, k>> \in K
  BY <1>0 DEF Load, Kept, Agrees, Lists
<1>2. \A p \in K : p[1] \in Load(k) /\ p = <<p[1], k>>
  BY DEF Load, Kept
<1>. HIDE DEF K
<1>3. g \in Bijection(Load(k), K)
  <2>1. g \in [Load(k) -> K]
    BY <1>1
  <2>2. IsInjective(g)
    BY DEF IsInjective
  <2>3. \A p \in K : \E d \in Load(k) : g[d] = p
    BY <1>2
  <2>. HIDE DEF g
  <2>. QED  BY <2>1, <2>2, <2>3 DEF Bijection, Injection, Surjection
<1>4. Cardinality(K) = Cardinality(Load(k))
  BY <1>3, LoadFinite, FS_Bijection DEF ExistsBijection
<1>. QED  BY <1>4, ListSize DEF Agrees, K

\* As long as no two threads have been in the books at once, getMqttInfo counts
\* every device that keeps its place while it reads client after client, and
\* no other when nothing else happens.
THEOREM InfoCountsWhatStays == Spec => InfoCounts
<1> DEFINE
  Keeps == {p \in info.steady : p[2] = Order[info.read + 1]}
  Counts == ~raced /\ info.read >= 0 /\ info'.read # info.read =>
              /\ info'.size >= Cardinality(Keeps)
              /\ info.still => info'.size = Cardinality(Keeps)
<1>1. TypeInv /\ BookInv /\ InfoInv /\ [Next]_vars => [Counts]_vars
  <2>. SUFFICES ASSUME TypeInv, BookInv, InfoInv, [Next]_vars, ~raced, info.read >= 0,
                       info'.read # info.read
                PROVE  /\ info'.size >= Cardinality(Keeps)
                       /\ info.still => info'.size = Cardinality(Keeps)
    OBVIOUS
  <2> DEFINE k == Order[info.read + 1]
  <2>1. info \in Infos /\ info.read \in -1..Len(Order) - 1
    BY DEF TypeInv, TypeOK
  <2>2. ~Seen /\ ~AskInfo /\ ~UNCHANGED vars
    <3>1. ~Seen
      BY <2>1 DEF Seen, Infos
    <3>2. ~AskInfo
      BY DEF AskInfo
    <3>3. ~UNCHANGED vars
      BY DEF vars
    <3>. QED  BY <3>1, <3>2, <3>3
  <2>3. ReadSize
    BY <2>2 DEF Next
  <2>4. info.read + 1 \in 1..Len(Order) /\ k \in Client
    <3>1. Len(Order) \in Nat /\ info.read \in Nat
      BY <2>1, PoolAssumption
    <3>2. info.read + 1 \in 1..Len(Order)
      BY <2>1, <3>1
    <3>. QED  BY <3>2, PoolAssumption
  <2>5. info'.size = Len(devices[k])
    <3>1. info'.size = Size(devices[k])
      BY <2>1, <2>3 DEF ReadSize, HasRead, Infos
    <3>. HIDE DEF k
    <3>. QED  BY <2>4, <3>1, BooksAreLists
  <2>6. Keeps \in SUBSET Kept /\ \A p \in Keeps : p[2] = k
    BY DEF InfoInv
  <2>7. Cardinality(Keeps) \in Nat /\ Cardinality(Keeps) <= Len(devices[k])
    <3>. HIDE DEF k, Keeps
    <3>. QED  BY <2>4, <2>6, KeepsFit
  <2>8. Len(devices[k]) \in Nat
    <3>. HIDE DEF k
    <3>. QED  BY <2>4, BooksAreLists, SizeIsLen
  <2>9. ASSUME info.still PROVE Cardinality(Keeps) = Len(devices[k])
    <3>1. AtRest /\ info.steady = {p \in Kept : p[2] \in ToCome(info.read)}
      BY <2>9 DEF InfoInv
    <3>2. Agrees(k)
      BY <2>4, <3>1 DEF BookInv, AllAgree, AtRest, At, Books
    <3>3. k \in ToCome(info.read)
      BY <2>4 DEF ToCome
    <3>4. Keeps = {p \in Kept : p[2] = k}
      BY <3>1, <3>3
    <3>. HIDE DEF k, Keeps
    <3>. QED  BY <2>4, <3>2, <3>4, KeepsAll
  <2>10. info'.size >= Cardinality(Keeps)
    <3>. HIDE DEF k, Keeps
    <3>. QED  BY <2>5, <2>7, <2>8
  <2>. QED  BY <2>5, <2>9, <2>10
<1>. QED  BY <1>1, InitType, NextType, InitBook, NextBook, InitInfo, NextInfo, PTL
          DEF Spec, InfoCounts
=============================================================================
