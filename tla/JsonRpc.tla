------------------------------ MODULE JsonRpc ------------------------------
(***************************************************************************)
(* The JSON-RPC server and the admin pages that call it:                   *)
(* plugin/jsonrpc/handler/JsonRpcHandler, logic/LogicRouter and the logics *)
(* it routes to, and admin/app.                                            *)
(*                                                                         *)
(* A request is routed, validated, authenticated and executed in the event *)
(* loop of its HTTP connection, while the handlers of SessionManager run   *)
(* in theirs.  A logic reads the session directory in several steps and    *)
(* without a lock.  An exception in a logic becomes the answer -1.         *)
(*                                                                         *)
(* A request is what the router can tell of it: the method, and which of   *)
(* the members of the JSON object are there.                               *)
(***************************************************************************)
EXTENDS SessionManager, FiniteSets

CONSTANTS
  Browser,     \* the HTTP clients, one connection each
  MaxRequests  \* bound: how many requests a client sends

ASSUME RpcAssumption ==
  /\ Null \notin {"login", "getOnlineInfoOfDevices", "getSessionInfo", "getDeviceInfo",
                  "getDashboard", "0", "-1", "-2", "-3", "-10"}
  /\ IsFiniteSet(Channel) /\ IsFiniteSet(DeviceId) /\ MaxRequests \in Nat

VARIABLES
  token,     \* token[b]: does localStorage of b hold appId and appToken?
  rpc,       \* rpc[b]: the request of b and the frame of the logic that serves it
  requests   \* requests[b]: how many requests b has sent

rpcVars == <<vars, token, rpc, requests>>

\* getMqttInfo, which reads the pool and not the directory, is in MqttPool.
Query == {"getOnlineInfoOfDevices", "getSessionInfo", "getDeviceInfo", "getDashboard"}
Method == Query \cup {"login"}

\* method is Null when the content is no JSON, has no method or an unknown one;
\* auth or data is "odd" when the member is there but no JSON object; data is
\* "needed" when it has the members the method asks for; right says whether
\* account and password are those of the administrator.
Request ==
  [method : Method \cup {Null}, auth : {"absent", "odd", "wrong", "admin"},
   data : {"absent", "odd", "empty", "needed"}, right : BOOLEAN]

Status == {"0", "-1", "-2", "-3", "-10"}

\* todo: the devices or sessions the logic has still to look at, at: the one it
\* looks at, lst, i and n: its forEach over a list, result: what it has found.
\* steady and calm observe: which gateways have been settled since the request
\* came, and whether nothing else has happened at all since then.
RpcFrames ==
  [pc : {"idle", "next", "walk", "mqttId", "count", "answered"},
   method : Method \cup {Null}, status : Status \cup {Null},
   todo : SUBSET (Channel \cup DeviceId), at : Channel \cup DeviceId \cup {Null},
   lst : ListId \cup {Null}, i : Nat, n : Int, dirty : BOOLEAN,
   result : SUBSET ((Channel \cup {Null}) \X (DeviceId \cup {Null})), counts : Seq(Nat),
   steady : SUBSET (Channel \X DeviceId), calm : BOOLEAN]

RpcTypeOK ==
  /\ token \in [Browser -> BOOLEAN]
  /\ rpc \in [Browser -> RpcFrames]
  /\ requests \in [Browser -> 0..MaxRequests]

Blank ==
  [pc |-> "idle", method |-> Null, status |-> Null, todo |-> {}, at |-> Null,
   lst |-> Null, i |-> 0, n |-> 0, dirty |-> FALSE, result |-> {}, counts |-> <<>>,
   steady |-> {}, calm |-> FALSE]

RpcInit ==
  /\ Init
  /\ token = [b \in Browser |-> FALSE]
  /\ rpc = [b \in Browser |-> Blank]
  /\ requests = [b \in Browser |-> 0]

-----------------------------------------------------------------------------
(* Routing: LogicRouter.runProcess.                                        *)

\* A cast or a null throws before the request is known to be in order: auth in
\* RpcLogic.validate, data in the overrides for login and getOnlineInfoOfDevices.
Breaks(r) ==
  \/ r.method = "login" /\ r.data = "odd"
  \/ r.method \in Query /\ r.data # "absent" /\ r.auth = "odd"
  \/ r.method = "getOnlineInfoOfDevices" /\ r.data = "odd" /\ r.auth # "absent"

\* LoginLogic.validate.
ValidateLogin(r) == r.data = "needed"

\* RpcLogic.validate ...
ValidateQuery(r) == r.auth # "absent" /\ r.data # "absent"

\* ... which that of GetOnlineInfoOfDevicesLogic calls first.
ValidateOnline(r) == ValidateQuery(r) /\ r.data = "needed"

Validate(r) ==
  CASE r.method = "login" -> ValidateLogin(r)
    [] r.method = "getOnlineInfoOfDevices" -> ValidateOnline(r)
    [] OTHER -> ValidateQuery(r)

\* Seeded fault: it is enough to send some appId and appToken.
AuthByPresence(r) == r.method = "login" \/ r.auth # "absent"

\* RpcLogic.auth, and its override for login.
Auth(r) == r.method = "login" \/ r.auth = "admin"

\* LoginLogic.execute.
LoginAnswer(r) == IF r.right THEN "0" ELSE "-10"

\* What the router answers without asking a query logic, or Null.  The cast of
\* data comes after auth.
Refusal(r) ==
  CASE r.method = Null -> "-3"
    [] r.method # Null /\ Breaks(r) -> "-1"
    [] r.method # Null /\ ~Breaks(r) /\ ~Validate(r) -> "-3"
    [] r.method \in Query /\ ~Breaks(r) /\ Validate(r) ->
         CASE ~Auth(r) -> "-2" [] Auth(r) /\ r.data = "odd" -> "-1" [] OTHER -> Null
    [] OTHER -> LoginAnswer(r)

Pairs == {p \in Channel \X DeviceId : Settled(p[1]) /\ ses[p[1]].deviceId = p[2]}

Answer(b, f, s) == rpc' = [rpc EXCEPT ![b] = [f EXCEPT !.pc = "answered", !.status = s,
                                                !.todo = {}, !.at = Null, !.lst = Null,
                                                !.i = 0, !.n = 0, !.dirty = FALSE]]

\* LogicRouter.process: the request is refused, or its logic begins.  The
\* session and device lists are taken in one step, as sets.
Process(b, r) ==
  LET f == [Blank EXCEPT !.method = r.method, !.steady = Pairs, !.calm = AtRest] IN
  IF Refusal(r) # Null
  THEN Answer(b, [Blank EXCEPT !.method = r.method], Refusal(r))
  ELSE CASE r.method = "getOnlineInfoOfDevices" ->
              rpc' = [rpc EXCEPT ![b] = [f EXCEPT !.pc = "next", !.todo = DeviceId]]
         [] r.method = "getSessionInfo" ->
              rpc' = [rpc EXCEPT ![b] = [f EXCEPT !.pc = "next", !.todo = sessionMap]]
         [] r.method = "getDeviceInfo" ->
              rpc' = [rpc EXCEPT ![b] = [f EXCEPT !.pc = "next",
                        !.todo = {d \in DeviceId : deviceMap[d] # Null}]]
         [] r.method = "getDashboard" ->
              rpc' = [rpc EXCEPT ![b] = [f EXCEPT !.pc = "count",
                        !.counts = <<Cardinality(sessionMap)>>]]

-----------------------------------------------------------------------------
(* Requests.                                                               *)

MayAsk(b) ==
  /\ rpc[b].pc \in {"idle", "answered"} /\ requests[b] < MaxRequests
  /\ requests' = [requests EXCEPT ![b] = @ + 1]

\* login.js: _login with the account and password somebody types.
Login(b) ==
  /\ MayAsk(b)
  /\ \E right \in BOOLEAN :
       LET r == [method |-> "login", auth |-> "absent", data |-> "needed", right |-> right]
       IN  Process(b, r) /\ token' = [token EXCEPT ![b] = @ \/ Refusal(r) = "0"]
  /\ UNCHANGED vars

\* loadData of a page: checkAuth, then the query with the stored token.
LoadData(b) ==
  /\ MayAsk(b) /\ token[b]
  /\ \E m \in Query \ {"getOnlineInfoOfDevices"} :
       Process(b, [method |-> m, auth |-> "admin", data |-> "empty", right |-> FALSE])
  /\ UNCHANGED <<vars, token>>

PostRequest == {r \in Request : r.method # "login" /\ ~r.right}

\* POST of any other program, with the token if it has been given it.
Post(b) ==
  /\ MayAsk(b)
  /\ \E r \in PostRequest : (r.auth = "admin" => token[b]) /\ Process(b, r)
  /\ UNCHANGED <<vars, token>>

\* GET: the method comes from the address, data is empty, and there is no auth.
Get(b) ==
  /\ MayAsk(b)
  /\ \E m \in Method \cup {Null} :
       Process(b, [method |-> m, auth |-> "absent", data |-> "empty", right |-> FALSE])
  /\ UNCHANGED <<vars, token>>

-----------------------------------------------------------------------------
(* The logics.                                                             *)

Read(b, f) == rpc' = [rpc EXCEPT ![b] = f] /\ UNCHANGED <<vars, token, requests>>

AnswerNow(b, s) == Answer(b, rpc[b], s) /\ UNCHANGED <<vars, token, requests>>

\* All has been looked at.
Finish(b) ==
  /\ rpc[b].pc = "next" /\ rpc[b].todo = {}
  /\ AnswerNow(b, "0")

\* getOnlineStateOfDevices: containsKey, device by device.
OnlineState(b) ==
  /\ rpc[b].pc = "next" /\ rpc[b].method = "getOnlineInfoOfDevices"
  /\ \E d \in rpc[b].todo :
       Read(b, [rpc[b] EXCEPT !.todo = @ \ {d},
                  !.result = IF deviceMap[d] = Null THEN @ ELSE @ \cup {<<Null, d>>}])

\* GetSessionInfoLogic: the device of the next session, which throws while the
\* session has no DeviceProxy ...
SessionInfo(b) ==
  /\ rpc[b].pc = "next" /\ rpc[b].method = "getSessionInfo"
  /\ \E s \in rpc[b].todo :
       IF ses[s].proxied
       THEN Read(b, [rpc[b] EXCEPT !.todo = @ \ {s}, !.pc = "mqttId", !.at = s,
                                   !.result = @ \cup {<<s, ses[s].deviceId>>}])
       ELSE AnswerNow(b, "-1")

\* ... and its MQTT client, which throws when the pool has none for the device.
\* The pool maps a device in the step that subscribes it.
MqttId(b) ==
  /\ rpc[b].pc = "mqttId"
  /\ IF ses[rpc[b].at].deviceId \in subs
     THEN Read(b, [rpc[b] EXCEPT !.pc = "next", !.at = Null])
     ELSE AnswerNow(b, "-1")

\* Seeded fault: a list that is gone is not noticed, and has no length.
DeviceInfoUnchecked(b) ==
  /\ rpc[b].pc = "next" /\ rpc[b].method = "getDeviceInfo"
  /\ \E d \in rpc[b].todo :
       Read(b, [rpc[b] EXCEPT !.todo = @ \ {d}, !.pc = "walk", !.at = d, !.i = 1,
                  !.lst = deviceMap[d], !.dirty = FALSE,
                  !.n = IF deviceMap[d] = Null THEN Null ELSE Size(lists[deviceMap[d]])])

\* GetDeviceInfoLogic: the list of the next device, which throws when it is gone.
DeviceInfo(b) ==
  /\ rpc[b].pc = "next" /\ rpc[b].method = "getDeviceInfo"
  /\ \E d \in rpc[b].todo :
       IF deviceMap[d] = Null
       THEN AnswerNow(b, "-1")
       ELSE Read(b, [rpc[b] EXCEPT !.todo = @ \ {d}, !.pc = "walk", !.at = d, !.i = 1,
                       !.lst = deviceMap[d], !.n = Size(lists[deviceMap[d]]), !.dirty = FALSE])

\* Seeded fault: the forEach leaves out the last session of a list.
WalkShort(b) ==
  LET f == rpc[b]
      e == IF f.i <= Size(lists[f.lst]) THEN lists[f.lst][f.i] ELSE Null
  IN
  /\ f.pc = "walk"
  /\ \/ /\ ~f.dirty /\ f.i >= f.n
        /\ Read(b, [f EXCEPT !.pc = "next", !.at = Null, !.lst = Null, !.i = 0, !.n = 0])
     \/ /\ ~f.dirty /\ f.i < f.n /\ e # Null
        /\ Read(b, [f EXCEPT !.i = @ + 1, !.result = @ \cup {<<e, f.at>>}])
     \/ /\ f.dirty \/ (f.i < f.n /\ e = Null)
        /\ AnswerNow(b, "-1")

\* forEach over the list: it throws when the list has been modified or a slot
\* is empty.
Walk(b) ==
  LET f == rpc[b]
      e == IF f.i <= Size(lists[f.lst]) THEN lists[f.lst][f.i] ELSE Null
  IN
  /\ f.pc = "walk"
  /\ \/ /\ ~f.dirty /\ f.i > f.n
        /\ Read(b, [f EXCEPT !.pc = "next", !.at = Null, !.lst = Null, !.i = 0, !.n = 0])
     \/ /\ ~f.dirty /\ f.i <= f.n /\ e # Null
        /\ Read(b, [f EXCEPT !.i = @ + 1, !.result = @ \cup {<<e, f.at>>}])
     \/ /\ f.dirty \/ (f.i <= f.n /\ e = Null)
        /\ AnswerNow(b, "-1")

\* GetDashboardLogic: the number of devices, read after that of sessions.
Dashboard(b) ==
  /\ rpc[b].pc = "count"
  /\ Answer(b, [rpc[b] EXCEPT !.counts =
                  Append(@, Cardinality({d \in DeviceId : deviceMap[d] # Null}))], "0")
  /\ UNCHANGED <<vars, token, requests>>

-----------------------------------------------------------------------------
\* A handler of SessionManager goes on.  An answer is looked at when it is given
\* and is history then.
SessionStep ==
  /\ Next
  /\ rpc' = [b \in Browser |->
       IF rpc[b].pc \in {"idle", "answered"} THEN Blank
       ELSE [rpc[b] EXCEPT
               !.dirty = @ \/ (rpc[b].pc = "walk" /\ Modifies(rpc[b].lst)),
               !.steady = {p \in @ : th'[p[1]].pc \in {"idle", "registered"}
                                     /\ ses'[p[1]].deviceId = p[2]},
               !.calm = FALSE]]
  /\ UNCHANGED <<token, requests>>

RpcNext ==
  \/ SessionStep
  \/ \E b \in Browser : \/ Login(b) \/ LoadData(b) \/ Post(b) \/ Get(b)
                        \/ Finish(b) \/ OnlineState(b) \/ SessionInfo(b) \/ MqttId(b)
                        \/ DeviceInfo(b) \/ Walk(b) \/ Dashboard(b)

RpcSpec == RpcInit /\ [][RpcNext]_rpcVars

-----------------------------------------------------------------------------
(* Properties.                                                             *)

Answered(b) == rpc[b].pc = "answered" /\ rpc[b].method \in Query

\* A query that is answered with status 0 has found every gateway that was
\* settled under its id from the request to the answer.
SteadyIsReported ==
  \A b \in Browser : Answered(b) /\ rpc[b].status = "0" =>
    \A p \in rpc[b].steady :
      CASE rpc[b].method \in {"getSessionInfo", "getDeviceInfo"} -> p \in rpc[b].result
        [] rpc[b].method = "getOnlineInfoOfDevices" -> <<Null, p[2]>> \in rpc[b].result
        [] OTHER -> TRUE

\* A query during which no gateway came, moved or went is not answered with an
\* error, and its answer is what the connections say: who is connected, under
\* which id, and how many they are.
CalmIsExact ==
  \A b \in Browser : Answered(b) /\ rpc[b].calm =>
    /\ rpc[b].status # "-1"
    /\ rpc[b].status = "0" =>
         CASE rpc[b].method \in {"getSessionInfo", "getDeviceInfo"} ->
                rpc[b].result = rpc[b].steady
           [] rpc[b].method = "getOnlineInfoOfDevices" ->
                rpc[b].result = {<<Null, p[2]>> : p \in rpc[b].steady}
           [] rpc[b].method = "getDashboard" ->
                rpc[b].counts = [x \in 1..2 |-> Cardinality(rpc[b].steady)]

\* Nobody gets the data of a query who has not logged in with the account and
\* password of the administrator.
OnlyAfterLogin ==
  \A b \in Browser : Answered(b) /\ rpc[b].status = "0" => token[b]
=============================================================================
