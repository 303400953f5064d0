-------------------------- MODULE DeviceDirectory --------------------------
(***************************************************************************)
(* What jbus promises to those who ask it which gateways are online.       *)
(* Every session is to be found under at most one device id; it appears    *)
(* there after it has connected, changes the id its address gave it for    *)
(* the one it registers with, and vanishes for good after it has           *)
(* disconnected.  Status events say what is true: `on' of a session that   *)
(* is to be found, with the number of sessions of its device, `off' of one *)
(* that is not any more, once.                                             *)
(*                                                                         *)
(* There are no lists, maps or threads here: to appear and to vanish is    *)
(* one step.                                                               *)
(***************************************************************************)
EXTENDS Naturals, Sequences, FiniteSets

CONSTANTS Session, Device, Addr, Tokens, Null

VARIABLES
  life,    \* life[s]: "new", "open" or "closed"
  name,    \* name[s]: the id the gateway goes by, or Null
  place,   \* place[s]: the id under which s is found, or Null
  status,  \* status[d]: the last event published on the topic of d, or Null
  told     \* told[s]: the events published for s

dvars == <<life, name, place, status, told>>

Count(d) == Cardinality({s \in Session : place[s] = d})

Tell(s, e) ==
  LET m == [event |-> e, dev |-> name[s], count |-> Count(name[s])] IN
  /\ status' = [status EXCEPT ![name[s]] = m]
  /\ told' = [told EXCEPT ![s] = Append(@, m)]

DirInit ==
  /\ life = [s \in Session |-> "new"]
  /\ name = [s \in Session |-> Null]
  /\ place = [s \in Session |-> Null]
  /\ status = [d \in Device |-> Null]
  /\ told = [s \in Session |-> <<>>]

Arrive(s) ==
  /\ life[s] = "new"
  /\ life' = [life EXCEPT ![s] = "open"]
  /\ name' = [name EXCEPT ![s] = Addr[s]]
  /\ UNCHANGED <<place, status, told>>

Register(s) ==
  /\ life[s] = "open" /\ name[s] = Addr[s]
  /\ \E d \in Tokens[s] : name' = [name EXCEPT ![s] = d]
  /\ UNCHANGED <<life, place, status, told>>

Appear(s) ==
  /\ life[s] = "open" /\ place[s] = Null
  /\ place' = [place EXCEPT ![s] = name[s]]
  /\ UNCHANGED <<life, name, status, told>>

\* A live gateway vanishes only from an id it does not go by any more.
Vanish(s) ==
  /\ life[s] = "closed" \/ name[s] # place[s]
  /\ place' = [place EXCEPT ![s] = Null]
  /\ UNCHANGED <<life, name, status, told>>

\* The connection may break over the announcement.
AnnounceOn(s) ==
  /\ life[s] = "open" /\ place[s] = name[s]
  /\ Tell(s, "on")
  /\ life' \in {life, [life EXCEPT ![s] = "closed"]}
  /\ UNCHANGED <<name, place>>

AnnounceOff(s) ==
  /\ life[s] = "closed" /\ place[s] = Null
  /\ \A i \in 1..Len(told[s]) : told[s][i].event = "on"
  /\ Tell(s, "off")
  /\ UNCHANGED <<life, name, place>>

Depart(s) ==
  /\ life[s] = "open"
  /\ life' = [life EXCEPT ![s] = "closed"]
  /\ UNCHANGED <<name, place, status, told>>

DirNext ==
  \E s \in Session : \/ Arrive(s) \/ Register(s) \/ Appear(s) \/ Vanish(s)
                     \/ AnnounceOn(s) \/ AnnounceOff(s) \/ Depart(s)

DirSpec == DirInit /\ [][DirNext]_dvars
=============================================================================
