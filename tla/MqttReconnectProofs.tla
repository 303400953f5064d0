------------------------ MODULE MqttReconnectProofs ------------------------
(***************************************************************************)
(* No lost connection is forgotten by the list, however many clients there *)
(* are and however their connectionLost callbacks interleave with the      *)
(* reconnect thread: proofs of TypeOK and NobodyForgotten.                 *)
(*                                                                         *)
(* NobodyForgotten speaks of the moments when the thread sleeps.  Accounted*)
(* says what carries it there: before the removals of reconnect() an       *)
(* unconnected client keeps the list non-empty, and during the full check  *)
(* it does so or is still to be looked at.                                 *)
(***************************************************************************)
EXTENDS MqttReconnect, ArrayListsProofs, TLAPS

Accounted ==
  \A k \in Client : k \notin up /\ cb[k].pc = "idle" =>
    /\ rt \in {"asleep", "each", "connect"} => list # <<>>
    /\ rt = "check" => k \in left \/ list # <<>>

Inv ==
  /\ TypeOK
  /\ Accounted
  /\ rt = "remShift" => list # <<>>

LEMMA InitInv == Init => Inv
<1>. SUFFICES ASSUME Init PROVE Inv
  OBVIOUS
<1>. USE DEF Init
<1>1. list \in Seq(Client \cup {Null}) /\ ok \in Seq(Client)
  <2>1. <<>> \in Seq(Client \cup {Null}) /\ <<>> \in Seq(Client)
    OBVIOUS
  <2>. QED  BY <2>1
<1>2. cb \in [Client -> [pc : CbPc, n : Nat]]
  BY DEF CbPc
<1>3. losses \in 0..MaxLosses
  BY ReconnectAssumption
<1>4. up \in SUBSET Client /\ left \in SUBSET Client /\ dirty \in BOOLEAN
  OBVIOUS
<1>5. rt \in RtPc /\ i \in Nat /\ n \in Nat /\ cur \in Client \cup {Null}
  BY DEF RtPc
<1>6. rt \notin {"connect", "addRead", "addStore"}
  OBVIOUS
<1>7. TypeOK
  <2>. HIDE DEF Init
  <2>. QED  BY <1>1, <1>2, <1>3, <1>4, <1>5, <1>6 DEF TypeOK
<1>8. Accounted /\ (rt = "remShift" => list # <<>>)
  BY DEF Accounted
<1>. QED  BY <1>7, <1>8 DEF Inv

LEMMA CallbackInv ==
  ASSUME Inv, NEW k \in Client, Lose(k) \/ Callback(k)
  PROVE  Inv'
<1>. USE DEF Inv
<1>1. CASE Lose(k)
  <2>1. TypeOK'
    BY <1>1, ReconnectAssumption DEF Lose, TypeOK, CbPc, thread
  <2>2. Accounted' /\ (rt = "remShift" => list # <<>>)'
    BY <1>1 DEF Lose, TypeOK, Accounted, thread
  <2>. QED  BY <2>1, <2>2
<1>2. CASE LostContains(k)
  <2>1. TypeOK'
    BY <1>2 DEF LostContains, TypeOK, CbPc, thread
  <2>2. cb'[k].pc = "idle" => list # <<>>
    BY <1>2, IndexOfType DEF LostContains, TypeOK
  <2>3. \A j \in Client : j # k => cb'[j] = cb[j]
    BY <1>2 DEF LostContains, TypeOK
  <2>4. Accounted' /\ (rt = "remShift" => list # <<>>)'
    BY <1>2, <2>2, <2>3 DEF LostContains, Accounted, thread
  <2>. QED  BY <2>1, <2>4
<1>3. CASE LostAddRead(k)
  <2>1. TypeOK'
    BY <1>3 DEF LostAddRead, TypeOK, CbPc, thread
  <2>2. Accounted' /\ (rt = "remShift" => list # <<>>)'
    BY <1>3 DEF LostAddRead, TypeOK, Accounted, thread
  <2>. QED  BY <2>1, <2>2
<1>4. CASE LostAddStore(k)
  <2>1. list' \in Seq(Client \cup {Null}) /\ list' # <<>>
    BY <1>4, StoreAtType DEF LostAddStore, TypeOK
  <2>2. TypeOK'
    BY <1>4, <2>1 DEF LostAddStore, TypeOK, CbPc, thread
  <2>3. Accounted' /\ (rt = "remShift" => list # <<>>)'
    BY <2>1 DEF Accounted
  <2>. QED  BY <2>2, <2>3
<1>. QED  BY <1>1, <1>2, <1>3, <1>4 DEF Callback

LEMMA ReconnectInv ==
  ASSUME Inv, Reconnect
  PROVE  Inv'
<1>. USE DEF Inv, client
<1>1. CASE WakeUp
  <2>1. Len(list) \in Nat
    BY DEF TypeOK
  <2>2. TypeOK'
    BY <1>1, <2>1 DEF WakeUp, TypeOK, RtPc
  <2>3. Accounted' /\ (rt = "remShift" => list # <<>>)'
    BY <1>1 DEF WakeUp, Accounted
  <2>. QED  BY <2>2, <2>3
<1>2. CASE Each
  <2> DEFINE e == IF i <= Len(list) THEN list[i] ELSE Null
  <2>1. UNCHANGED <<list, dirty, up, losses, cb, left, n>>
    BY <1>2 DEF Each, Die
  <2>2. rt' \in {"each", "drop", "connect", "dead"} /\ rt = "each"
    BY <1>2 DEF Each, Die
  <2>3. ok' \in Seq(Client) /\ i' \in Nat
    <3>1. CASE UNCHANGED ok /\ (UNCHANGED i \/ i' = 1)
      BY <3>1 DEF TypeOK
    <3>2. CASE e \in up /\ ok' = Append(ok, e) /\ i' = i + 1
      <4>1. e \in Client /\ i + 1 \in Nat
        BY <3>2 DEF TypeOK
      <4>. HIDE DEF e
      <4>. QED  BY <3>2, <4>1 DEF TypeOK
    <3>. QED  BY <1>2, <3>1, <3>2 DEF Each, Die
  <2>4. cur' \in Client \cup {Null} /\ (rt' = "connect" => cur' # Null)
    BY <1>2, ReconnectAssumption DEF Each, Die, TypeOK
  <2>5. TypeOK'
    BY <2>1, <2>2, <2>3, <2>4 DEF TypeOK, RtPc
  <2>6. Accounted'
    BY <2>1, <2>2 DEF Accounted
  <2>. QED  BY <2>2, <2>5, <2>6
<1>3. ASSUME NEW k \in Client, Connect(k) PROVE Inv'
  <2>1. TypeOK'
    BY <1>3 DEF Connect, TypeOK, RtPc
  <2>2. Accounted' /\ (rt = "remShift" => list # <<>>)'
    BY <1>3 DEF Connect, Accounted
  <2>. QED  BY <2>1, <2>2
<1>4. CASE ConnectFails
  BY <1>4 DEF ConnectFails, TypeOK, RtPc, Accounted
<1>5. CASE Drop
  <2>1. IndexOf(list, ok[i]) \in Nat /\ (IndexOf(list, ok[i]) # 0 => list # <<>>)
    BY IndexOfType DEF TypeOK
  <2>2. TypeOK'
    <3>1. <<>> \in Seq(Client)
      OBVIOUS
    <3>2. ok' \in Seq(Client)
      BY <1>5, <3>1 DEF Drop, TypeOK
    <3>3. i' \in Nat /\ n' \in Nat /\ left' \in SUBSET Client
      BY <1>5, <2>1 DEF Drop, TypeOK
    <3>4. rt' \in {"check", "drop", "remShift"}
      BY <1>5 DEF Drop
    <3>. QED  BY <1>5, <3>2, <3>3, <3>4 DEF Drop, TypeOK, RtPc
  <2>3. Accounted' /\ (rt = "remShift" => list # <<>>)'
    BY <1>5, <2>1 DEF Drop, Accounted
  <2>. QED  BY <2>2, <2>3
<1>6. CASE RemShift
  <2>1. list' \in Seq(Client \cup {Null})
    BY <1>6, ShiftFromType DEF RemShift, TypeOK
  <2>2. TypeOK' /\ Accounted' /\ (rt = "remShift" => list # <<>>)'
    BY <1>6, <2>1 DEF RemShift, TypeOK, RtPc, Accounted
  <2>. QED  BY <2>2
<1>7. CASE Check
  <2>1. CASE left = {} /\ rt' = "asleep" /\ UNCHANGED <<cur, left>>
    BY <1>7, <2>1 DEF Check, TypeOK, RtPc, Accounted
  <2>2. ASSUME NEW k \in left, left' = left \ {k}, k \in up \/ IndexOf(list, k) # 0,
               UNCHANGED <<rt, cur>>
        PROVE  Inv'
    <3>1. k \in up \/ list # <<>>
      BY <2>2, IndexOfType DEF TypeOK
    <3>. QED  BY <1>7, <2>2, <3>1 DEF Check, TypeOK, RtPc, Accounted
  <2>3. ASSUME NEW k \in left, left' = left \ {k}, rt' = "addRead", cur' = k
        PROVE  Inv'
    BY <1>7, <2>3, ReconnectAssumption DEF Check, TypeOK, RtPc, Accounted
  <2>. QED  BY <1>7, <2>1, <2>2, <2>3 DEF Check
<1>8. CASE AddRead
  BY <1>8 DEF AddRead, TypeOK, RtPc, Accounted
<1>9. CASE AddStore
  <2>1. list' \in Seq(Client \cup {Null}) /\ list' # <<>>
    BY <1>9, StoreAtType DEF AddStore, TypeOK
  <2>2. TypeOK' /\ Accounted' /\ (rt = "remShift" => list # <<>>)'
    BY <1>9, <2>1 DEF AddStore, TypeOK, RtPc, Accounted
  <2>. QED  BY <2>2
<1>. QED
  BY <1>1, <1>2, <1>3, <1>4, <1>5, <1>6, <1>7, <1>8, <1>9 DEF Reconnect

\* The inductive invariant holds in every reachable state.
THEOREM Invariance == Spec => []Inv
<1>1. Inv /\ [Next]_vars => Inv'
  <2>1. CASE UNCHANGED vars
    BY <2>1 DEF vars, Inv, TypeOK, Accounted
  <2>. QED  BY <2>1, CallbackInv, ReconnectInv DEF Next
<1>. QED  BY <1>1, InitInv, PTL DEF Spec

\* Every variable keeps its type: the reconnect thread never connects or lists
\* a client it has not got.
THEOREM TypeCorrect == Spec => []TypeOK
<1>1. Inv => TypeOK
  BY DEF Inv
<1>. QED  BY <1>1, Invariance, PTL

\* Whatever adds to the list connectionLost and the reconnect thread make each
\* other lose, the full check of MqttPool.reconnect leaves no state in which an
\* unconnected client would never be looked at again.
THEOREM NothingForgotten == Spec => []NobodyForgotten
<1>1. Inv => NobodyForgotten
  BY DEF Inv, TypeOK, Accounted, NobodyForgotten
<1>. QED  BY <1>1, Invariance, PTL
=============================================================================
