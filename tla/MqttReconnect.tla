--------------------------- MODULE MqttReconnect ---------------------------
(***************************************************************************)
(* mqtt/MqttPool: how lost connections of the MQTT clients come back.      *)
(*                                                                         *)
(* The callback connectionLost of a client, run by a thread of the client, *)
(* puts it on _mqttClientDisconnectedList.  A thread of the pool wakes up  *)
(* every ten seconds and, when the list is not empty, runs reconnect():    *)
(* reconnect the clients on the list, take those that succeeded off it,    *)
(* then look at all clients and list those that are not connected.         *)
(* `synchronized' keeps nobody out: connectionLost does not take the lock. *)
(*                                                                         *)
(* The list is an ArrayList (see ArrayLists); its forEach throws           *)
(* ConcurrentModificationException when the list has been modified since   *)
(* it began.  Nothing catches that, and the thread ends.                   *)
(***************************************************************************)
EXTENDS ArrayLists, FiniteSets

CONSTANTS
  Client,      \* the MQTT clients of the pool
  MaxLosses    \* bound: how often connections are lost

ASSUME ReconnectAssumption ==
  /\ IsFiniteSet(Client) /\ Null \notin Client /\ MaxLosses \in Nat

VARIABLES
  up,      \* the clients whose isConnected() is true
  list,    \* _mqttClientDisconnectedList
  losses,  \* connections lost so far
  cb,      \* cb[k]: where connectionLost of k is, and the size it has read
  rt,      \* where the reconnect thread is
  i,       \* its index in the list it runs through
  n,       \* its bound, size or position
  cur,     \* the client it connects or adds, or Null
  dirty,   \* has another thread modified the list since forEach began?
  ok,      \* successList
  left     \* the clients the full check has still to look at

vars == <<up, list, losses, cb, rt, i, n, cur, dirty, ok, left>>

CbPc == {"idle", "contains", "addRead", "addStore"}
RtPc == {"asleep", "each", "connect", "drop", "remShift", "check", "addRead",
         "addStore", "dead"}

TypeOK ==
  /\ up \in SUBSET Client
  /\ list \in Seq(Client \cup {Null})
  /\ losses \in 0..MaxLosses
  /\ cb \in [Client -> [pc : CbPc, n : Nat]]
  /\ rt \in RtPc /\ i \in Nat /\ n \in Nat /\ cur \in Client \cup {Null}
  /\ dirty \in BOOLEAN
  /\ ok \in Seq(Client)
  /\ left \in SUBSET Client
  /\ rt \in {"connect", "addRead", "addStore"} => cur # Null

\* initPool has connected all clients.
Init ==
  /\ up = Client
  /\ list = <<>>
  /\ losses = 0
  /\ cb = [k \in Client |-> [pc |-> "idle", n |-> 0]]
  /\ rt = "asleep" /\ i = 0 /\ n = 0 /\ cur = Null
  /\ dirty = FALSE
  /\ ok = <<>>
  /\ left = {}

thread == <<rt, i, n, cur, ok, left>>

-----------------------------------------------------------------------------
(* The clients.                                                            *)

\* A connection breaks, and the client calls connectionLost.
Lose(k) ==
  /\ k \in up /\ cb[k].pc = "idle" /\ losses < MaxLosses
  /\ up' = up \ {k}
  /\ losses' = losses + 1
  /\ cb' = [cb EXCEPT ![k].pc = "contains"]
  /\ UNCHANGED <<list, dirty, thread>>

\* if (!_mqttClientDisconnectedList.contains(mqttClient)) ...
LostContains(k) ==
  /\ cb[k].pc = "contains"
  /\ cb' = [cb EXCEPT ![k].pc = IF IndexOf(list, k) = 0 THEN "addRead" ELSE "idle"]
  /\ UNCHANGED <<up, list, losses, dirty, thread>>

\* ... add(mqttClient): modCount and size first ...
LostAddRead(k) ==
  /\ cb[k].pc = "addRead"
  /\ cb' = [cb EXCEPT ![k] = [pc |-> "addStore", n |-> Len(list)]]
  /\ dirty' = TRUE
  /\ UNCHANGED <<up, list, losses, thread>>

\* ... then the element.
LostAddStore(k) ==
  /\ cb[k].pc = "addStore"
  /\ list' = StoreAt(list, cb[k].n, k)
  /\ cb' = [cb EXCEPT ![k] = [pc |-> "idle", n |-> 0]]
  /\ UNCHANGED <<up, losses, dirty, thread>>

-----------------------------------------------------------------------------
(* The thread of checkLostTask: reconnect().                               *)

client == <<up, losses, cb>>

\* if (_mqttClientDisconnectedList.size() > 0) reconnect(): forEach begins.
WakeUp ==
  /\ rt = "asleep" /\ list # <<>>
  /\ rt' = "each" /\ i' = 1 /\ n' = Len(list)
  /\ dirty' = FALSE
  /\ UNCHANGED <<list, cur, ok, left, client>>

\* An exception that nothing catches: the thread ends.
Die == rt' = "dead" /\ UNCHANGED <<i, n, cur, ok, left>>

\* Seeded fault: a slot that was never filled is taken for a client.
EachNullToo ==
  LET e == IF i <= Len(list) THEN list[i] ELSE Null IN
  /\ rt = "each"
  /\ \/ dirty /\ Die
     \/ /\ ~dirty /\ i > n
        /\ rt' = "drop" /\ i' = 1 /\ UNCHANGED <<n, cur, ok, left>>
     \/ /\ ~dirty /\ i <= n /\ e \in up
        /\ ok' = Append(ok, e) /\ i' = i + 1 /\ UNCHANGED <<rt, n, cur, left>>
     \/ /\ ~dirty /\ i <= n /\ e \notin up
        /\ rt' = "connect" /\ cur' = e /\ UNCHANGED <<i, n, ok, left>>
  /\ UNCHANGED <<list, dirty, client>>

\* forEach looks at its next element, unless it is at the end or the list has
\* been modified.  A slot that was never filled holds null.
Each ==
  LET e == IF i <= Len(list) THEN list[i] ELSE Null IN
  /\ rt = "each"
  /\ \/ dirty /\ Die
     \/ /\ ~dirty /\ i > n
        /\ rt' = "drop" /\ i' = 1 /\ UNCHANGED <<n, cur, ok, left>>
     \/ ~dirty /\ i <= n /\ e = Null /\ Die
     \/ /\ ~dirty /\ i <= n /\ e \in up
        /\ ok' = Append(ok, e) /\ i' = i + 1 /\ UNCHANGED <<rt, n, cur, left>>
     \/ /\ ~dirty /\ i <= n /\ e \in Client \ up
        /\ rt' = "connect" /\ cur' = e /\ UNCHANGED <<i, n, ok, left>>
  /\ UNCHANGED <<list, dirty, client>>

\* E.connect(_connOpts) succeeds ...
Connect(k) ==
  /\ rt = "connect" /\ cur = k
  /\ up' = up \cup {k}
  /\ ok' = Append(ok, k)
  /\ rt' = "each" /\ i' = i + 1 /\ cur' = Null
  /\ UNCHANGED <<list, losses, cb, dirty, n, left>>

\* ... or throws MqttException, which is logged.
ConnectFails ==
  /\ rt = "connect"
  /\ rt' = "each" /\ i' = i + 1 /\ cur' = Null
  /\ UNCHANGED <<list, dirty, n, ok, left, client>>

\* Seeded fault: reconnect() returns without the full check.
DropNoCheck ==
  /\ rt = "drop"
  /\ \/ /\ i > Len(ok)
        /\ rt' = "asleep" /\ i' = 0 /\ n' = 0 /\ ok' = <<>>
     \/ /\ i <= Len(ok) /\ IndexOf(list, ok[i]) = 0
        /\ i' = i + 1 /\ UNCHANGED <<rt, n, ok>>
     \/ /\ i <= Len(ok) /\ IndexOf(list, ok[i]) # 0
        /\ rt' = "remShift" /\ n' = IndexOf(list, ok[i]) /\ UNCHANGED <<i, ok>>
  /\ UNCHANGED <<list, dirty, cur, left, client>>

\* successList.forEach(remove): the first half of the next remove, or on to the
\* full check of all clients.
Drop ==
  /\ rt = "drop"
  /\ \/ /\ i > Len(ok)
        /\ rt' = "check" /\ left' = Client /\ i' = 0 /\ n' = 0 /\ ok' = <<>>
     \/ /\ i <= Len(ok) /\ IndexOf(list, ok[i]) = 0
        /\ i' = i + 1 /\ UNCHANGED <<rt, n, ok, left>>
     \/ /\ i <= Len(ok) /\ IndexOf(list, ok[i]) # 0
        /\ rt' = "remShift" /\ n' = IndexOf(list, ok[i]) /\ UNCHANGED <<i, ok, left>>
  /\ UNCHANGED <<list, dirty, cur, client>>

\* The second half of remove.  Nobody else removes, so the list is not empty and
\* keeps a size that is not negative.
RemShift ==
  /\ rt = "remShift"
  /\ list' = ShiftFrom(list, n)
  /\ rt' = "drop" /\ i' = i + 1
  /\ UNCHANGED <<dirty, n, cur, ok, left, client>>

\* The full check of one client: a client that is neither connected nor listed
\* is added.  Then the thread sleeps.
Check ==
  /\ rt = "check"
  /\ \/ left = {} /\ rt' = "asleep" /\ UNCHANGED <<cur, left>>
     \/ \E k \in left :
          /\ left' = left \ {k}
          /\ IF k \in up \/ IndexOf(list, k) # 0
             THEN UNCHANGED <<rt, cur>>
             ELSE rt' = "addRead" /\ cur' = k
  /\ UNCHANGED <<list, dirty, i, n, ok, client>>

\* add(E) of the full check, in its two halves.
AddRead ==
  /\ rt = "addRead"
  /\ n' = Len(list) /\ rt' = "addStore"
  /\ UNCHANGED <<list, dirty, i, cur, ok, left, client>>

AddStore ==
  /\ rt = "addStore"
  /\ list' = StoreAt(list, n, cur)
  /\ rt' = "check" /\ n' = 0 /\ cur' = Null
  /\ UNCHANGED <<dirty, i, ok, left, client>>

-----------------------------------------------------------------------------
Callback(k) == LostContains(k) \/ LostAddRead(k) \/ LostAddStore(k)

Reconnect ==
  \/ WakeUp \/ Each \/ ConnectFails \/ Drop \/ RemShift \/ Check \/ AddRead \/ AddStore
  \/ \E k \in Client : Connect(k)

Next ==
  \/ \E k \in Client : Lose(k) \/ Callback(k)
  \/ Reconnect

Spec == Init /\ [][Next]_vars

\* The threads run, and a client that tries to connect again and again succeeds
\* some time: the broker does not stay away for ever.
Fairness ==
  /\ WF_vars(Reconnect)
  /\ \A k \in Client : WF_vars(Callback(k)) /\ SF_vars(Connect(k))

FairSpec == Spec /\ Fairness

-----------------------------------------------------------------------------
(* Properties.                                                             *)

\* While the reconnect thread sleeps and no connectionLost is running, a client
\* that is not connected leaves the list non-empty: the thread will wake up and,
\* in the full check, find every such client, the listed and the unlisted.
NobodyForgotten ==
  rt = "asleep" /\ up # Client /\ (\A k \in Client : cb[k].pc = "idle") => list # <<>>

\* A client that has lost its connection gets it back, or the reconnect thread
\* has ended.
RecoversWhileAlive == \A k \in Client : k \notin up ~> (k \in up \/ rt = "dead")

\* A client that has lost its connection gets it back.
Recovers == \A k \in Client : k \notin up ~> k \in up
=============================================================================
