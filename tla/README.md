# jbus in TLA+

jbus is a Netty server that relays between gateways, which hold one TCP
connection each, and controllers, which talk MQTT. It keeps a directory of the
gateways that are online, subscribes their command topics, publishes their data
and their coming and going, and answers questions about all this over JSON-RPC;
a small admin console in the browser asks them.

This directory holds TLA+ models of its parts, TLC configurations that check
them on small instances, and proofs that TLAPS checks for every size. Paths
below are relative to `src/project/jbus/src/main/java/cc/touchuan/jbus/`, those
of the console to `src/project/jbus/admin/`.

## 1. The system

| component | state | operations | talks to |
|---|---|---|---|
| gateway connections (`handler/`, `application/TcServer`) | the channel, its pipeline, its session id | channelActive, REG: line, data, channelInactive, exceptionCaught | session directory, proxies, events |
| heartbeat (`handler/HeartbeatHandler`) | the idle timer | writes a byte to an idle connection | the channel |
| session directory (`session/SessionManager`) | `_sessionMap`, `_device2SessionMap` (an ArrayList of sessions per device) | createSession, deviceIdCreateEvent, deviceIdUpdateEvent, closeSession, checkLostTask, lookups | everything |
| device and controller proxies (`proxy/`) | the device id, twice | creation, updateDeviceId, sendData, sendCommand | directory, MQTT proxy |
| status events (`session/EventManager`) | - | publish on TC/STS/{id} | directory, MQTT proxy |
| MQTT proxy (`proxy/MqttProxy`) | - | subscribe, unSubscribe, publish, publishEvent, recieve | pool, proxies |
| MQTT pool (`mqtt/MqttPool`) | device -> client, count and device list per client | getInstance, release, counter, whoNotBusy | Paho clients |
| MQTT reconnection (`mqtt/MqttPool`) | list of lost clients | connectionLost, reconnect thread | Paho clients |
| JSON-RPC (`plugin/jsonrpc/`) | the administrator's account and token | login, five queries | directory, pool |
| admin console (`app/`, `index.html`, `static/h-ui.admin/js/H-ui.admin.js`) | the token in localStorage, tabs, frames | login, logout, tabs, loadData | JSON-RPC |
| vendored browser libraries, static files, load testers, configuration, start-up, device authentication, helpers | - | - | - |

What makes it hard. Netty runs the handlers of one channel in sequence, but
those of different channels at the same time; the thread of `checkLostTask`,
the callback threads of the MQTT clients, the reconnect thread and the event
loops of the HTTP connections run beside them. They share maps, which are
`ConcurrentHashMap`s, and the lists in them, which are plain `ArrayList`s,
without a lock: every look-up-then-act is a race, and lists can be corrupted.
MQTT calls throw, and most code does nothing about it. Connections to the
broker break and come back; those of gateways vanish without a word; and TCP cuts
and joins what a gateway sends, while no decoder puts it together again.

What makes each part correct:

* directory: a live gateway keeps its session; a settled one (connected, its
  last message handled) is found and subscribed under its id; one that has gone
  leaves nothing behind; its `off` is published once, last, under the right id.
* channel: data goes through unchanged and in order; a registration line gives
  the gateway its id; one that vanishes is announced `off` in the end.
* pool: one client per device, the one that is subscribed; the books agree; new
  devices go to lightly loaded clients; getMqttInfo counts what is there.
* reconnection: no lost client is forgotten; every one comes back.
* relay: a command reaches the gateway that is there exactly once; commands for
  others that move do not cost it its connection.
* JSON-RPC: a gateway that stays is in every answer, an answer given in peace is
  exact, and nobody gets data without having logged in.
* console: the n-th tab belongs to the n-th frame; what is done with one tab
  leaves the pages of the others as they are.

## 2. The modules

| module | models | notes |
|---|---|---|
| `ArrayLists` | `java.util.ArrayList` without synchronisation | `add` and `remove` in two halves, as their unsynchronised code lets other threads see and spoil them; what is left is a list with lost elements or null slots, or one of a negative size |
| `SessionManager` | directory, registration, closing, proxies, events of many connections | the core; one thread per channel and `LostTask` |
| `DeviceDirectory` | what the directory promises | abstract: no lists, no threads |
| `SessionRefinement` | the mapping between the two | `ImplementsDirectory` |
| `GatewayChannel` | the pipeline of one connection: RegistHandler with its parser, ModbusHandler, HeartbeatHandler | TCP delivers any part of what is on the wire |
| `CommandRelay` | messageArrived to writeAndFlush | over `SessionManager`, whose steps interleave with the callback threads |
| `JsonRpc` | routing, checks, login, four queries, what the pages send | over `SessionManager`, likewise |
| `MqttPool` | getInstance, release, counter, whoNotBusy, their callers in MqttProxy, and getMqttInfo | access by access |
| `MqttReconnect` | connectionLost and the reconnect thread | access by access, with the fail-fast `forEach` |
| `AdminConsole` | login.js, common.js, loadData, index.html and the tabs of H-ui.admin.js | a step is one event with all the handlers it bubbles to |
| `MC*` | instances for TLC | |
| `ArrayListsProofs`, `SessionManagerProofs`, `LifecycleProofs` | theorems on the directory and its refinement, each over the one before | section 4 |
| `DirectoryReadersProofs` | theorems on `CommandRelay` and `JsonRpc`, over those | section 4 |
| `GatewayChannelProofs`, `MqttPoolProofs`, `MqttReconnectProofs`, `AdminConsoleProofs` | theorems on these modules | section 4 |

State and actions follow the code by name: `sessionMap` is `_sessionMap`,
`deviceMap` and `lists` are `_device2SessionMap` and the lists in it, `ses` the
fields of a `Session` and its proxies, `clientOf`, `count`, `devices` the maps
of the pool, `list` the list of lost clients, `tabs` and `frames` the elements of
`#min_title_list` and `#iframe_box`. A thread has a frame (`th[t]`, `rel[k]`,
`rpc[b]`, `cb[k]`, `rt` and `info`): where it is and its live locals. An
action is one access to something shared: `ContainsKey`, `PutList`, `GetList`,
`AddRead`, `AddStore` are the lines of deviceIdCreateEvent. `Throw` is the end of
a handler by an exception: the channel closes, and the frame is gone, with
whatever it had done by then.

A definition with the comment "Seeded fault" is a plausible bug of the
definition after it. Nothing uses it; with it in the place of that definition a
property must fail (the `mutants` of `PROJECT.json`).

History variables and fields say what the properties must excuse, and no action
depends on them: `failed` of `SessionManager` (sessions an MQTT call threw for),
`failed` and `raced` of `MqttPool` (devices whose last call threw; whether two
threads were in the books at once), `steady`, `calm` and `still` of a command or
a request (what did not move while it ran).

### Abstractions

* A session, its UUID and its channel are one value. Device ids are model
  values; an address id (`host__port`) belongs to one connection at a time and
  nobody registers with one.
* The handlers of every channel have a thread of their own. Netty's loops serve
  several channels each, so some interleavings of the model need enough loops.
* One operation of a `ConcurrentHashMap` is one step. Iterating over one
  (`LostScan`, `WhoNotBusy`, the snapshots `getSessionList` and
  `getDeviceList`) is one step too.
* `ArrayList` is that of Java 8, for which `pom.xml` compiles. Its remove ends in
  `elementData[--size] = null` and its add in `elementData[size++] = e`: the size
  is stored before an index out of bounds is noticed. Two threads that take the
  last elements of one list leave it with the size -1; it is not empty then, the
  next add throws and leaves it with the size 0. A later JDK throws in that add
  before it stores the size, and the list stays as it is.
* The broker and the local broker are one. A call on both may fail on the second
  after its effect on the first: a call of the model may throw before or after
  its effect. The two pools are instances of the same code.
* In `SessionManager` and the modules over it, a call of the MQTT proxy is one
  step; `MqttPool` takes the calls apart. `CommandRelay` has a constant
  assignment of devices to clients.
* The callback thread of a client delivers one message at a time (as Paho does);
  a client that is not connected takes no subscription.
* One connection is modelled twice. `GatewayChannel` has its bytes, its parser
  and its timer, and there the directory always succeeds; in `SessionManager` the
  directory is taken apart, a REG: message is well formed, and one that is not is
  one of the ways in which a connection ends (`Disconnect`). Authentication of
  devices always succeeds, as in the code.
* In `GatewayChannel` the marker REG: is two units, so that TCP can cut it; ids
  and tokens are sequences of a few characters.
* A JSON-RPC request is its method, which members it has, and whether the token
  or the password is right. Limits of 1000 rows in the answers are not reached.
* In `AdminConsole` the elements of a page are sequences, and jQuery's `index`,
  `eq` and bubbling are what the code relies on; rows, layout and skins are left
  out.

## 3. The runs

| run | instance | states | shows |
|---|---|---|---|
| `session_one_id` | 2 gateways, one id for both, MQTT may throw | 684,060 | `TypeOK`, `LiveSession`, `OffIsLast` hold in the worst case, in which the list of the id falls apart |
| `session_own_ids` | 2 gateways, own ids, MQTT may throw, fairness | 106,425 | `SettledIsListed`, `SettledIsSubscribed`, `NoGhost`, `StatusIsTrue`, `ImplementsDirectory`, `ClosedIsForgotten`, `ClosedIsAnnounced` |
| `shared_id_subscribed` | one id for both, MQTT reliable | | **violated**: `SettledIsSubscribed` |
| `fault_ghost` | own ids, MQTT may throw | | **violated**: `NoGhostAtAll` |
| `channel` | 1 gateway, 4 lines and data, up to 10 units, MQTT may throw, fairness | 775,361 | `Transparent`, `LinesRegister`, `VanishedIsNoticed`, types |
| `relay` | 2 gateways of which one registers, 1 client, 1 command | 1,880,540 | `SteadyIsServed`, `SteadyIsSafe`, types |
| `relay_lost` | the same | | **violated**: `SettledIsReachable` |
| `rpc` | 2 gateways of which one registers, 1 browser, 2 requests | 689,158 | `SteadyIsReported`, `CalmIsExact`, `OnlyAfterLogin`, types |
| `pool` | 2 clients; one thread with 3 devices and 3 calls, one with 1 device and 2 calls; MQTT may throw | 2,889,572 | `SubscribedWhereMapped`, `SubscribedIsHeld`, `BooksAgree`, `GivenToLight`, `InfoCounts`, types |
| `reconnect` | 2 clients, 4 losses, fairness | 88,034 | `NobodyForgotten`, `RecoversWhileAlive`, types |
| `reconnect_dies` | 2 clients, 2 losses, fairness | | **violated**: `Recovers` |
| `console` | 2 pages of the menu, 2 accounts | 7,502 | `TabsAgree`, `OneTabPerPage`, `ScrolledToATab`, `PagesKeepRows`, types |

The violations are what the code does against what its documentation says:

1. **shared_id_subscribed** - A registers with an id, goes, and B registers with
   it. closeSession of A saw the list empty before B came and unsubscribes after
   B has subscribed. B is online and gets no command.
2. **fault_ghost** - the subscription of a new gateway throws. Its address id is
   in the directory, but its session has no DeviceProxy, so closeSession fails
   half way: the id is reported `on` for ever. `NoGhost`, which holds, says that
   nothing worse comes of it: only ids of the failed session itself stay behind.
3. **relay_lost** - a client reconnects with a clean session. Nobody subscribes
   its devices again.
4. **reconnect_dies** - connectionLost appends to the list over which reconnect()
   runs `forEach`. The exception ends the thread; no client comes back any more.

**Bounds.** Two gateways are the smallest instance of every race between two
channels; with the LostTask thread there are three threads. What the directory
promises holds for any number by proof. Every gateway connects once: a
reconnection is another channel, with another session and another address, as
in the code. With one id for both the second gateway stands for the first one
come back. A gateway registers once, since its handler leaves the pipeline.
`MaxCommands = 1` per client lets a command meet every step of the handlers; a
second command finds nothing the first does not. `MaxRequests = 2` allows a login
and a query. `MaxBytes = 10` lets a gateway send a line with some data around it,
or two lines, and TCP cut them anywhere. `MaxCalls` lets a device be subscribed,
used and given up beside another thread, and one thread load one client more than
the other. Four losses of two clients let each be lost again while it is being
reconnected, removed or checked. Three tabs are enough for one to close between
two others. Names of devices that one thread of the pool has may be exchanged,
which is what the symmetry of `pool` uses; that run has no liveness property.

**Deadlock** is checked where somebody can always go on. It is off in `channel`,
whose connection ends, and in `reconnect` and `reconnect_dies`, where the losses
are used up or the thread is dead.

**Fairness.** The session run assumes that the event loops and the LostTask thread
go on with what they have begun, and that checkLostTask looks again: these are
loops without an exit whose exceptions are caught. It does not assume that
channelInactive runs, although Netty delivers it, so that what a broken round of
checkLostTask has dropped is up to a later round. Peers need not do anything. The
channel run assumes that the idle timer runs and its handler writes, that TCP
gives up in the end on what nobody acknowledges, and that channelInactive comes;
nothing is assumed of the gateway, of commands, or of what was on the wire when it
vanished. The reconnect runs assume that the callbacks go on and the reconnect
thread as long as it lives, and that a client that tries to connect for ever
succeeds some time (strong fairness: between its tries the thread does other
things). The pool, relay, RPC and console runs check safety only.

## 4. The proofs

All theorems hold for any sets of gateways, ids, clients, threads and requests,
and for MQTT calls that throw or do not. They rest on the named assumptions of
the modules: addresses differ and nobody registers with an address id, the names
of threads and values are distinct, and sets that the code counts are finite.

**What holds whatever ids are shared** (`SessionManagerProofs`): `TypeOK`,
`LiveSession` and `OffIsLast`. None is inductive. `Inv` adds

* `FrameOK`: a handler that is inside a call is at a line of that call, and the
  locals it will use are set. This is what makes `TypeOK` inductive: the list a
  handler adds to is one it has got. Of the list itself `TypeOK` says
  little, since with a shared id its slots may be null, and its size and the count
  that is published negative; `TypeCorrect` states `FrameOK` beside it, which is
  what the code can rely on all the same.
* `ChanOK`: which handlers may be running while a channel is new, open or closed;
  `todo` holds only closed ones. It carries `LiveSession` over checkLostTask.
* `CloseOK`: `_sessionMap.remove` hands a session to one closer only, and a
  session that is being closed has not been announced `off`. It carries
  `OffIsLast`: channelInactive and checkLostTask race for one removal, and the
  loser's exception is what prevents the second event.

**What gateways with ids of their own can rely on.** The theorems below assume
`DistinctTokens`: no two gateways register under one id. With a shared id the
statements are false (section 5).

* `SettledIsListed` and `SettledIsSubscribed` (`SessionManagerProofs`, second
  part). `OwnOK` says that every key, list and topic a handler touches belongs to
  the session it serves, so a step leaves the rest alone (`Elsewhere`); `Arrives`
  follows the one thread that serves an open session from line to line towards
  being listed and subscribed.
* `NoGhost` and `StatusIsTrue` (`LifecycleProofs`), through `LifeInv`. Its part
  `Stage` is the annotation of the handlers: at each line, what the directory, the
  list, the subscriptions and the last status hold for the session being served.
  `Up` and `Down` say it between handlers; `Tidy` is what is left to say of a
  session for which a call threw, and it is enough to show that such a session
  spoils nothing of others.
* `ImplementsDirectory` (`LifecycleProofs`, second part), that is `Spec`
  implements `DeviceDirectory`. By `Stage`, where a session is found follows from
  the line its handler is at (`StagePlace`); only the stores of remove and add
  move it (`RemShiftRefines`, `AddStoreRefines`); and the count that is published
  is the count of the directory, although it was read a step earlier
  (`PublishRefines`). The first lines of channelActive and of a registration are
  steps of the directory too; all others are stutters, or end a connection.

These invariants take a Boolean `kept`: whether the subscriptions are the
handlers' alone. `kept = TRUE` is `SessionManager` by itself. In `CommandRelay`
connections lose subscriptions as well, and what remains of the invariants,
`kept = FALSE`, is what its proofs stand on.

**The relay** (`DirectoryReadersProofs`): `RelayTypeOK` holds for shared ids too;
`SteadyIsServed` and `SteadyIsSafe` need ids of their own. recieve looks a list
up, walks it, and sends, without a lock and while every handler goes on. `Served`
is its annotation: at each line, where a gateway that has been settled since the
command came is to be found, on the list still to be walked, among what was
found, or among what was written to. It stays true under steps of others because
the list of a settled gateway has one session, its own, and no other handler has
got hold of it (`SettledIsAlone`), so nobody raises its modCount either. That is
also why the for-each does not throw. `OneListed` bounds every list, of gateways
that move as well, by one session, and with it the copies of a command.

**JSON-RPC** (`DirectoryReadersProofs`, second part). `RpcTypeOK` and
`OnlyAfterLogin` hold over the whole of `SessionManager`: its steps keep `Inv` by
`NextInv`, and a logic needs `Inv` for what it reads without a lock. `RpcInv` adds
`Fit`, what the locals of a logic are at each line, and `Grant`: a frame that
serves a query, or has answered one with 0, belongs to a browser with the token.
`SteadyIsReported` (ids of their own) is about an iteration that others
interleave with: `Found` says of every gateway that stays settled that it is in
the result already or in what the loops still have to look at, `Walks` that the
inner loop stands where its list says. `CalmIsExact` is the converse and needs
more: at rest the session map, the device map and the ids of the connections say
the same (`RestingDirectory`), which is false once an MQTT call has thrown. It
therefore assumes `MqttReliable`, as its run does; with failures, `NoGhost` says
what an answer may hold too much.

**The connection** (`GatewayChannelProofs`): `ChannelTypeOK`, `Transparent` and
`LinesRegister`, for any ids, tokens, messages and ways in which TCP cuts and
joins them. The first part proves what `FlattenSeq`, the trim, the replaceAll and
the indexOf of the parser return: a registration line is accepted and its id
comes out as it went in (`LineFacts`), and what is accepted is never empty
(`AcceptedFacts`). `Transparent` does not say when which of its cases holds;
`FlowInv` does, by the state of the pipeline. `LineInv` says that no chunk with
the marker has been read as long as the handler of the registration is there, and
one has since.

**The pool** (`MqttPoolProofs`): `TypeOK` with `FrameType`, which says what locals
each line has, whether threads share devices or not and whatever becomes of the
lists (the size of one may be negative);
`SubscribedWhereMapped` and `SubscribedIsHeld` when each device is the business
of one thread (`Apart`). `FramePlace` says what a call may rely on between two of
its lines: before `put` its device has no client, after it the client at hand is
the one the map names, before `release` nobody is subscribed to the device.
`HeldInv` relates the subscriptions to what the sessions hold, call by call
(`FrameHeld`, `OwnHeld`). `BooksAgree` and `GivenToLight` hold without `Apart`, as
long as no two threads are in the books at once: `BookInv` says with `Stage` which
of the three books, the map, the count or the list, is ahead of the others at
each line; when a client is chosen all agree, and not every client can carry more
than the average, since there would be more devices on the clients than in the
map (`SomeLight`).
`InfoCounts`, the action property of getMqttInfo, follows from `InfoInv`.

**Reconnection** (`MqttReconnectProofs`): `TypeOK` and `NobodyForgotten`, for any
finite set of clients and any number of losses. `NobodyForgotten` speaks of the
moments when the thread sleeps; `Accounted` carries it there: before the removals
of reconnect() a lost client keeps the list non-empty, and during the full check
it does so or is still to be looked at. Note how little is needed: the list may
be corrupted in any way, the full check makes up for it, as long as the thread is
alive.

**The console** (`AdminConsoleProofs`): all four invariants and `PagesKeepRows`,
for any pages, accounts and number of tabs. The invariants need each other: the
strip stays within its tabs because no handler closes the first one, and a page is
opened once because tabs and frames are aligned. `ConsoleInv` is their conjunction
with the position of the active tab (`Lit`). `PagesKeepRows` rests on it, since the
index of a tab must be that of a frame; `Origin` says that every frame after a
step was one before it, less its visibility, or is loaded anew in sight.

`ArrayListsProofs`: what the halves of add and remove give back, and that
`IndexOf` is a position of the element.

With these every invariant and action property of the passing runs is a theorem.
Only model-checked are the liveness properties, `ClosedIsForgotten`,
`ClosedIsAnnounced`, `VanishedIsNoticed` and `RecoversWhileAlive`: fairness and
ENABLED are out of the prover's reach. What a recursive definition computes for
every input is out of it too where it takes an induction over data; the lemmas on
`FlattenSeq`, `Min`, `Max` and `IndexOf` do without, by the least counterexample
(`WellFoundedInduction`).

## 5. What does not hold, and what is not modelled

Known to fail, and not run because no document of jbus promises it:

* with a shared id `SettledIsListed`, `StatusIsTrue`, `ImplementsDirectory` and,
  because the iterator of a list that shrinks from two to one ends early,
  `SteadyIsServed`;
* with a shared id the size of its list may become -1 (two sessions leave it at
  once and one finds it empty): `isEmpty()` is false from then on, so that the
  entry in `_device2SessionMap` and the subscription stay when the last session
  has gone, the online count that is published is -1, and the next gateway that
  takes the id is turned away by the exception of `add`. The same happens to the
  list of a client of the pool when two threads release devices of it at once:
  getMqttInfo reports -1, and the next new device of that client is neither
  listed nor subscribed;
* `SubscribedWhereMapped` and `SubscribedIsHeld` when two threads call getInstance
  for one device: it may be subscribed on two clients. The runs give every device
  to one thread, so this race is in none of them;
* `BooksAgree` once two threads were in the books at once: `counter` is a read, an
  addition and a write, and nothing ever corrects the books;
* a REG: line that TCP cuts registers nobody: its first half is refused and the
  connection closed, or it is forwarded as data;
* an id with a bar in it loses the bar (`[\n|\r]` of the parser);
* getMqttInfo counts a device that moves to another client meanwhile twice or not
  at all;
* a page whose request times out says nothing: the error callback of `ajaxPost`
  writes to the log only, and the table stays empty;
* the console stores the account that stands in the field when the answer to a
  login comes, not the one that was asked for.

Not modelled:

* **vendored browser libraries** - nearly all of the JavaScript in the
  repository: jQuery, H-ui, layer, lightbox, the validation plugin with its
  additional methods, jselect, nprogress and more. They are files of other
  projects that jbus ships unchanged, and most of them are loaded by no page of
  `app/`. What jbus wrote or uses of them (`app/*.js`, the script of
  `index.html`, `H-ui.admin.js`) is in `AdminConsole` and `JsonRpc`.
* **static files** - reads a file and writes it out, without state. HTTP verbs
  other than GET and POST have an empty answer or none; a GET of the bare address
  is answered -1.
* **configuration**, **start-up** - run once before anything else; the models
  start in the state they leave behind (`initPool` is an initial state).
* **device authentication** - both checks always agree.
* **load testers** - clients that a developer starts by hand.
* **helpers** - stateless conversions, and UUIDs, which are taken to be unique.

## 6. Plan

Order of work: the directory first, since everything reads it; then the two
halves of the pool; then what runs over the directory; then the two ends of the
system, the connection of a gateway and the console.

1. Done: all components above that keep state; the directory with its
   refinement proved; all invariants and action properties that the runs check
   proved.
2. To model next: a composition of directory, pool, reconnection and broker, in
   which a device moves to another client when it registers anew and data of a
   gateway races its release; commands on a shared id; the echo of the load
   testers and its end.
3. To prove next: an abstract specification of the pool, one step per
   subscription, with `MqttPool` under `Apart` as its implementation; what of
   `SteadyIsServed` is left for shared ids.
