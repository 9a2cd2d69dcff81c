# Homix in TLA+

Homix is a home-automation system whose parts talk over NATS: core NATS
messages (at most once, to whoever is subscribed now) and JetStream key-value
buckets (durable, last writer wins). This directory models those parts, checks
the models with TLC on small instances and proves the most important results
with TLAPS. Paths below are relative to the repository's root; `mgmt` stands
for `legacy/services/management-ui/internal/server`, `ui` for
`legacy/services/management-ui/static/js`, `engine` for
`legacy/services/automation-engine/internal/engine`, `discovery` for
`legacy/services/discovery/internal`.

## 1. Inventory

| Part | Where | State | Operations | What is hard |
|---|---|---|---|---|
| Management UI, automations | `mgmt/handlers.go` 224-446, `server.go` | map of shared `*Automation` under `s.mu`; bucket `automations` | create, update, enable, disable, delete; load at start | writes the bucket after the lock is released; requests overlap; events are lost |
| Management UI, devices, scenes, sessions, discovery, event log | `mgmt/handlers.go`, `server.go`, `routes.go` | maps `devices`, `scenes`, `sessions`, slice `events`, discovery flag | HTTP handlers, NATS handlers, timers | copies never refreshed from the bucket; a timer of one discovery ends the next; TTL of the bucket against a map that never expires |
| Management UI, WebSocket hub | `mgmt/websocket.go`, `server.go` 452-493 | map of clients, a channel of 256 per client | register, readPump, writePump, broadcast | channels closed from two goroutines, map changed under a read lock |
| Automation engine | `engine/engine.go`, `evaluator.go` | map of enabled automations, device states | load, reload, subscribe, events, evaluate, run, record | load/subscribe gap, unlocked Get, write-back of a whole document after a run |
| Discovery, device registry | `discovery/registry`, `service`, `models` | bucket of devices that expires, map of decoded devices in front of it | announce, status, get, delete, monitor, expiry | shared devices changed without a lock, whole device written back, a status update that always sets online |
| Discovery, configuration manager | `discovery/configmgr` | buckets of configurations and backups, schemas | get, set, delete, validate, backup, restore | versions without compare-and-set, backups named by the second, restore entry by entry |
| Health monitor | `legacy/services/health-monitor/internal/monitor` | statuses, alerts, subscribers | state, announce, alert, offline sweep, dashboards | offline detection against late messages; alert list capped in one place only |
| Device provisioner | `services/device-provisioner/internal/provisioner` | bucket of provisioned devices, JWTs | provision, revoke | check-then-put across replicas; tokens that outlive their revocation |
| Device simulator | `services/device-simulator/main.go` | devices, tickers, WebSocket hub | create, command, delete, import, broadcast | goroutines that outlive their device; map read without its lock |
| MQTT bridge | `bridges/mqtt-nats-bridge` | mappings, subscriptions, states | connect, forward both ways, reconnect | subscriptions duplicated at every reconnect |
| Zigbee2MQTT bridge | `bridges/zigbee2mqtt-nats/internal/bridge` | device table | MQTT handlers, NATS commands | no re-subscription after an MQTT reconnect |
| Arduino client | `arduino-nats-client/src` | 10 subscription slots, 5 request slots, connection | connect, loop, publish, subscribe, request, reconnect | slots leaked, reconnect gives up after 5 attempts |
| ESPHome components | `esphome-components/components` | connection state, queue, callbacks | loop, connect, parse, publish, subscribe | TCP loss never noticed, unbounded queue |
| Home Assistant integration | `ha-integration/custom_components/nats_bridge` | connection, discovered devices, entities | setup, discover, update, unload | signals lost before the platforms are ready |
| Edge gateway | `edge/cmd/edge/main.go` | two connections | start, bridge | start blocks, subjects that never match |
| CLI and TUI | `tools/nats-ha-cli` | none that lasts | request/reply over NATS | - |
| Web site, documentation, templates, deployment | `cloud`, `device-templates`, `infrastructure`, `scripts` | none, or form state in the browser | - | - |
| Management page, scenes | `ui/scene-editor.js`, `ui/app.js` | scenes, the scene of the dialog, device states | create, edit, save, delete, list | the dialog works on the objects the page shows; answers come late, out of order or never |
| Management page, automations | `ui/simple-flow-designer.js`, `automation-builder.js`, `app.js` | automations, one canvas and one builder for all of them | draw, fill in, convert, save, switch, toggle, delete | what is left of the automation edited before; arrays shared after a save; fields the server does not keep |
| Management page, devices | `ui/websocket.js`, `device-controls.js`, `monitoring.js`, `app.js`, `ui.js` | devices, dialog, event table, monitor, timers | live updates, reconnect, commands, refresh, discovery | updates overtake answers and lists; a refresh that comes into another dialog; buttons drawn for an older state |
| Simulator's page | `services/device-simulator/static/js` | devices, filters, cards, dialogs | list, live messages, save, control, delete, import, filter | nothing is asked for again after a drop; deletions that are told to nobody |
| Health monitor's page | `legacy/services/health-monitor/static/app.js` | the dashboard that came last, connection | live updates, reconnect, counts, cards, chart | dashboards missed or older than what is shown; counts made in several places |
| Login, older designers, avatars | `ui/auth.js`, `ui/rete-automation-designer*.js` | a token | REST calls | - |

How they interact: the management UI writes automations, scenes and device
configurations into buckets and announces each change on a subject; the
engine keeps a copy, follows the subject, reads device states from
`home.devices.*.*.state` and publishes commands; discovery, health monitor,
bridges, simulator and devices exchange announcements, states and commands on
`home.*`. Nothing is transactional: between a write and its announcement
anything can happen.

What makes each part correct:

* a service's copy of a bucket agrees with the bucket once nothing is under
  way, and the exceptions are known;
* what a user deleted or disabled stays so;
* an answered request has happened;
* a channel is closed once and never written to after;
* a slot, queue or counter with a limit is given back, and the limit holds;
* an offline device is reported offline, and comes back when it speaks again;
* a page shows what its server has, or is about to be told, and the exceptions
  are known;
* a dialog changes nothing before it is saved, and what is saved is what was
  made in it, all of it, and of nothing else;
* a button does what it says, and a dialog shows what its title says.

## 2. Plan

Each module has one action per operation, its parameters as CONSTANTS with
named assumptions, and no RECURSIVE operator where theorems are wanted.

| Step | Modules | State |
|---|---|---|
| 1. Automations: requests, engine, composition | `AutomationStore`, `AutomationUI`, `AutomationEngine`, `AutomationSystem`, `AutomationService` (abstract), `AutomationSystem_proofs` | done |
| 2. What a page may rely on, and the two hubs | `Fanout`, `JoinedFanout` (abstract), `SimHub`, `Simulator_proofs`, `WsHub`, `WsHub_proofs` | done |
| 3. Arduino client | `ArduinoClient`, `ArduinoClient_proofs` | done |
| 4. Device registry | `DiscoveryRegistry`, `DeviceDirectory` (abstract), `Services_proofs` | done |
| 5. Scenes: dialog, page, handlers | `SceneEditor`, `SceneEditor_proofs` | done |
| 6. Automations: canvas, builder, page | `FlowNodes`, `BuilderItems` (functions), `AutomationEditor`, `AutomationEditor_proofs` | done |
| 7. Devices: socket, list, dialog, events, monitor, discovery | `PageSocket`, `DeviceControls` (functions), `DevicePage`, `DevicePage_proofs` | done |
| 8. Simulator: page and handlers | `SimulatorControls` (functions), `SimulatorPage`, `Simulator_proofs` | done |
| 9. Health monitor and its page | `HealthMonitor`, `HealthPage`, `Services_proofs` | done |
| 10. Configuration manager, provisioner | `ConfigManager`, `Provisioner` | planned |
| 11. Comparisons and time windows as functions against a reference | `Evaluate` | planned |

Steps 5 to 9 came before the configuration manager because the pages hold most
of the code and most of the state that two actors share.

Runs keep to instances of one or two of everything, which is where two actors
first meet. Every safety property of the runs is proved for any size as well.
Four abstract specifications say what a part promises to those outside it:
`AutomationService`, `Fanout` and `JoinedFanout` (one for each hub) and
`DeviceDirectory`.
Each refinement is checked by a run and proved. Worth proving next: that the
pages implement one abstract specification of a copy that follows its server.

## 3. Automations: requests and engine

**Modules.** `AutomationStore` declares what is shared: `kv` (the bucket, ids
to documents), `events` (the engine's subscription queue), `subscribed`,
`faults`. A document is its id, its enabled flag and two halves, triggers and
actions, that an edit assigns one after the other. `AutomationUI` is the
management UI: `automations` and `heap` are the map and the objects it points
to, `http[h]` is where request `h` stands; a request locks, changes the
object, unlocks, marshals, writes the bucket, publishes. `AutomationEngine` is
the engine: `cache` is its map, `loader`/`keysLeft` the load or reload in
progress, `pending` the document its event goroutine has fetched and not yet
applied, `run` the automation runs. `AutomationSystem` composes them by
interleaving and states the properties; `MCAutomation` adds the symmetry set.
`AutomationService` is what the API promises: a table of automations whose
requests take effect at one instant each, a write of each to the bucket that
is still to come, and a restart that goes back to what was written. It has no
lock, no objects and no stages.

| Action | Code |
|---|---|
| `Create`, `Update`/`UpdateActions`, `SetEnabled`, `Delete` | the handlers of `mgmt/handlers.go` 238-409 up to the unlock |
| `Marshal`, `PutDoc`, `RemoveDoc`, `PublishEvent` | `saveAutomation`, `kv.Delete`, `publishAutomationEvent` |
| `UICrash`, `UILoadKey`, `UIServe` | restart, `loadData`, start of the HTTP server |
| `ListKeys`, `ClearCache`, `FillKey`, `Subscribe` | `loadAutomations` by `Start` and by the ticker, `startSubscriptions` |
| `FetchEvent`, `ApplyFetched`, `RemoveOnEvent` | `handleAutomationEvent`, `loadAutomation` |
| `StartRun`, `NotMet`, `Act`, `Record` | `evaluate*Triggers`, `EvaluateAutomation`, `updateAutomationRunInfo` |
| `EngineCrash` | restart; `Start` gives up on an empty bucket and is started again, so `ListKeys` waits for a key |

`engExcused` and `uiExcused` are history variables: they name the ids a copy
may hold out of date and are set by the actions that make it so. No guard
reads them.

`ImplementsService` is the refinement. The table's `shown` is `Served`: what a
request that takes `s.mu` finds, with a half-done edit counted as done (it
holds the lock until it is), and during `loadData` the bucket's document for
what is not loaded yet. `stored` is `kv`, `dirty` the ids being written
(`ToWrite`), `astray` is `uiExcused`. So `Update` is the step of the table and
`UpdateActions` a stutter, `PutDoc` is the table's write, a crash is its
restart and `loadData` stutters. `UIStaleOnlyIfExcused` follows from it for an API
that is up, and is proved by itself; no run checks it again. For an id that is astray the table
promises only that the bucket gets some document. A GET encodes its answer
after it has given the lock back, when an edit may be half done again, so what
it sends is not covered.

| Run | Question | Bounds |
|---|---|---|
| `automation_overlap` | do two overlapping requests, events, reloads and a run keep the copies right, is each request atomic to the others, and does an overlap leave halves of two edits | 1 id, 2 bodies, 2 requests at once, 3 in all, 1 run |
| `automation_faults` | do restarts and lost calls, is the API still that table, and does the engine catch up | 1 id, 2 bodies, 1 request at once, 2 in all, 1 fault, 1 restart of each service, 1 run; fair |

**Bounds.** Three requests are a creation, a change and an overlap with a
third; with one request at a time two are enough for a creation and what
undoes or loses it. Every property speaks of one id, and ids meet only in the
event queue and the reload, which take them one after the other.
`CHECK_DEADLOCK FALSE`: requests, runs and crashes are bounded and need not
come, so a behaviour may end.

**Fairness.** Weak fairness on the steps of a request under way, on the UI's
load, on the engine's load and reload (the ticker ticks for ever), on its event
goroutine and on runs: each is a goroutine the Go scheduler keeps running. None
on requests, triggers, faults and restarts.

**Proofs** (`AutomationSystem_proofs`). The safety properties follow from
`IInv = TypeOK /\ Filed /\ EngineInv /\ UIInv`. `Filed`: every reference leads
to a live object of its id and every document is filed under its id; without
it an update of one automation could change another. `EngineInv`: a cached
document that differs from the bucket has a *repair* on its way: an excuse, the
announcement of a deletion if the key is gone (a Get that finds nothing leaves
the cache alone, so only this helps), or any announcement if the key is there.
`UIInv`: for an id that is not excused at most one request writes, and the
object, the document it carries and the map agree according to its stage. Each
part has one lemma per service and one step per action; `Invariance` joins
them.

`EditsStayWhole` is about edits of one automation that overlap. An edit changes
the shared object in two steps under `s.mu`, and `saveAutomation` marshals that
object after it has given the lock back, so while one request marshals another
may be half through. The bucket then gets triggers of one edit with actions of
the other: this happens, and the property says when it may, namely for an id
that `uiExcused` has (overlapping requests, or the write-back of a run). The
object in the map must not: whatever overlaps, an edit that has begun is
finished by its own request before anybody else changes it, unless `loadData`
read such a document from the bucket. A handler that does not take the lock
breaks it, with two requests at once. `EditsWhole` proves it for any number of
requests and any faults: with `EditInv` (below) the object of a half-done edit
is only touched by the request that has the other half, and by `MixInv` a
request which nobody overlapped marshals and puts what is whole, unless the
bucket had the mixture already.

`NeverTorn` is the stronger statement for requests on one automation that never
overlap, `[]OneWriter`: then no mixture reaches the bucket at all. `WholeInv`
is what carries it: only an object whose request stands between the
two halves is torn; that request has the half still to be written, and nobody
else is inside the lock; every document in the bucket, in the cache, in a run
or on its way is whole. A restart in the middle loses the object and leaves
the bucket as it was.

`ServiceImplemented` needs no hypothesis. `UIInv` already says that a request
which writes alone carries what the map shows, so its Put is the table's
write; beside it `EditInv` is needed: a request between the two halves of an
edit holds the object that carries its own triggers and the body it has still to
write, and it is the only one there. There is one lemma per kind of step:
requests that arrive, requests that leave something, the rest of a request,
restart and loading, and the engine, of which only the write-back of a run changes
anything the table has. `ServiceDurable` is the abstract specification's own
promise, that a restart loses nothing but what is still to be written or
astray, carried down by the refinement.

**Abstractions.** The marshalling of a document is one step (a torn document is
possible already because an edit is two); names, conditions, time stamps and
counters are left out; which trigger or condition holds is nondeterministic.

## 4. Live updates: two hubs and what a page may rely on

**Modules.** `Fanout` is the promise: a source numbers its broadcasts, and a
client that has joined gets those of each source from then on, in order and
without a gap, until its connection ends. `JoinedFanout` promises less: the
updates of each source go out on the connection in order and without a gap, and
of these the client misses those that share a frame with another message, and
no others. `SimHub` is the simulator's hub
(`services/device-simulator/main.go`), which writes a frame for each message: one goroutine that owns the map and the
channels. `WsHub` is the management UI's (`mgmt/websocket.go`, `broadcast` in
`mgmt/server.go`): every NATS subscription broadcasts in its own goroutine,
walks the map under a read lock, and closes and deletes a slow client under
that same read lock, while `readPump` answers over the channel with no lock. Its `writePump` takes a
message, counts what else is waiting and joins as many with newlines into one
frame (`mgmt/websocket.go:105`). The page's `JSON.parse` (`ui/websocket.js:60`)
takes a frame of one message and drops one of several: `wire` is what went out,
`got` what of it the page could read.

| Action | Code |
|---|---|
| `SimHub`: `Connect`, `Register` | `handleWebSocket`, first case of `WSHub.run` |
| `StopReading`, `Unregister` | `readPump` and its deferred send, second case |
| `Offer`, `TakeBroadcast`, `FanOut` | `broadcastUpdate`, third case, one turn of its loop |
| `Write`, `StopWriting` | `writePump`: a message; the channel closed and empty |
| `WsHub`: `Connect`, `Greet` | `handleWebSocket`, `sendInitialData` (its goroutine's panic is recovered by net/http) |
| `Receive`, `Answer`, `StopReading`, `Misread`, `Leave` | `readPump`: a message and its answer, an error, JSON that does not decode, the deferred function |
| `Broadcast`, `Visit`, `CloseSlow`, `DeleteSlow`, `EndBroadcast` | `broadcast`: the lock, one turn, the close and the delete of its default branch, the unlock |
| `Take`, `Count`, `Join`, `Flush`, `StopWriting` | `writePump`: its select, `n := len(client.send)`, a turn of the loop that joins, `w.Close()`, a return |

`first`/`from`, `written` in `SimHub` and `wire`, `got` in `WsHub` are history variables for the refinements. `up` turns
false when a goroutine panics, which ends the process.

| Run | Question | Bounds |
|---|---|---|
| `sim_hub` | no panic, implements `Fanout`, everything delivered, connections that end cleaned up | 2 clients, 1 sender, channels of 2, 4 broadcasts; fair |
| `ws_hub` | no entry left behind, implements `JoinedFanout` while it runs, a slow client is cut off | 1 client, 2 sources, channels of 1, 2 broadcasts of each, 1 answer; fair |
| `ws_hub_panic` | can the server end because of a slow client | 2 clients, 2 sources, 1 broadcast of each, 1 answer |

**Bounds.** A channel is full after one or two messages instead of 256; what
matters is that it can be full while messages still come. Two sources are
needed for the races. A channel of one still joins messages: one is taken
before what is waiting is counted. In `WsHub` clients meet only in the walk and in the
lock, so one client shows what a second would; `SimHub`'s single goroutine
serves clients one after the other, and has two. `CHECK_DEADLOCK FALSE`:
connections and broadcasts are bounded.

**Fairness.** Weak fairness on the hub's goroutine, on the steps of a
broadcast under way and on each pump; none on connections, peers and sources.
That `SimHub`'s `Write` is fair assumes that a write to a socket returns, with
or without success: the code sets no write deadline (`main.go:262`), and a peer
that neither reads nor goes away can hold its pump until TCP gives up.
`WsHub`'s pump has a deadline of ten seconds.

**Proofs** (`Simulator_proofs`, with the page's). `HubInv = TypeOK /\ up /\ StageOK /\ MapOK /\
QueueOK`. `StageOK`: what each connection's goroutines may be doing, by stage.
`MapOK`: a client that was registered is in the map or its channel is closed,
never both; the map's clients have readers, and a broadcast has only clients
of the map still to come to. This is why unregistering somebody the
hub has dropped does not close twice. `QueueOK`: for a page that still
reads, what is written followed by what is queued are consecutive numbers from
its joining on, up to the last broadcast or, if the broadcast in progress has
not come to it, the one before. The refinement maps joined to "its
`readPump` reads", published to `number`, got to `written`; `PagesStep` maps each
step to a step of `Fanout` or a stutter.

**Proofs** (`WsHub_proofs`). That the server can panic (`ws_hub_panic`) does not
make the rest false. `HubInv = TypeOK /\ StageOK /\ MapOK /\ QueueOK`.
`StageOK`: a connection not yet made has nothing. `MapOK`: the map's clients
have readers; a closed channel is in it only while the broadcast that closed
it is about to delete it; and a broadcast meets nobody who has not been in the
map. `FrameOK`: what the pump has put into its frame goes on from what has gone out,
and a frame of one message has one update at most. `QueueOK`: what a channel
holds of each source goes on from what has been taken (`Follows`), ends at or before the last broadcast and, while the client
is in the map and its channel open, exactly at the last one that has come to it
(`Holds`, `Last`). Sources share a channel, so all of this is said of one
source's messages among the others'. In the refinement `Flush` is the step: the
delivery of one update, of a joined frame, or, for an answer alone, a stutter.
It needs no assumption that nothing panics: a panic stops
everything, and `JoinedFanout` may stop at any time.

**Abstractions.** A message is its source and number. Go's writer preference
of `RWMutex` is left out: it delays readers and never reorders them. The data
race of `sendInitialData`, which marshals maps without their lock, is left to
the hazard list.

## 5. Arduino client

**Module.** `ArduinoClient` is `arduino-nats-client/src/NATSClient.cpp` and
the server's side of its connection: `subs` and `pend` are the slot arrays,
`connected` is `_connected` and `link` the socket's own state, `stage` says
whether the sketch, `loop()` or a handler runs; a handler may call the client
again. `toServer` and `fromServer` are the two directions of the connection and
`server` the server's table for it. An inbox is named by its sid. The SUBs a
reconnection prints in a row are one command.

| Action | Code |
|---|---|
| `Subscribe`, `Unsubscribe`, `Request`, `Disconnect`, `Connect` | the calls of the same names |
| `NoticeLoss`, `Reconnect`, `EnterLoop`, `Receive`, `Return`, `LeaveLoop` | `loop()`: loss, `_reconnect`, the read loop and its handlers, `_cleanupPendingRequests` |
| `Expire` | a request's time is over |
| `Take`, `Emit`, `Break`, `Recover` | server and network (external) |

| Run | Question | Bounds |
|---|---|---|
| `arduino` | does a late message reach only the handler it is for, are slots given back, does the server's table agree after reconnections, does every request end, does the device try until it is back or has failed five times in a row | 1 subject, 2 slots, 2 requests, 4 sids, 2 messages, 1 outage, 5 attempts; fair |

**Bounds.** Two slots and two requests fill both tables; four sids let each
slot be reused; two messages put one in front of another. One outage includes
calls between the loss and its detection. The attempts are the code's five, so
a device may fail four times and be connected by the fifth, or fail five times.
`CHECK_DEADLOCK FALSE`: sids, messages and outages are bounded.

**Fairness.** The sketch calls `loop()` for ever (README of the library),
handlers return, time passes, the server works off what it is sent and comes
back. None on the sketch's other calls and on outages.

**Proofs** (`ArduinoClient_proofs`). `ClientInv = TypeOK /\ KnownOK /\ SlotsOK
/\ RequestsOK` over everything *known* of a sid: in a slot, at the server, on
its way there or back. `KnownOK`: two known entries with one sid are the same,
and no sid is ahead of `nextSid`; this is what makes sids, rather than slot
numbers, safe against late messages. `SlotsOK`: slots share no sid, and an
inbox is named by its own. `RequestsOK`: no two requests wait on one inbox,
each one's inbox has a slot, and an inbox slot without a request is an orphan,
lost because a handler disconnected in the `loop()` in which the request ran
out. For `ServerAgrees`, `TableInv` says how the server's table will come to
agree: of the commands on their way the last that names an entry decides, SUB
for those in a slot and UNSUB for all others, and where none names it the table
has it already, or has it not. Without a connection, table and commands are empty,
which is what lets a reconnection subscribe all slots anew.

**Abstractions.** Publishing, payloads, parsing and the answer's content are
left out. Whether a server that is reached says the `+OK` that `connect()` waits
for (`NATSClient.cpp:99`) is left open: the client asks for `verbose: false`
(430), with which NATS sends none, and then every attempt fails after its
time-out. An attempt may therefore fail whether the server is reachable or not,
and `BackUnlessGivenUp` counts the failures in a history variable of its own,
`failures`: a client that forgets to set `attempts` back would give up too early.

## 6. Device registry

**Module.** `DiscoveryRegistry` is `discovery/registry/registry.go` with the
handlers of `discovery/service/service.go` that call it. Four goroutines, one
per subscription and the monitor, serve one message at a time; `task[p]` is
where goroutine `p` stands. `kv` is the bucket, `cache` the map, and both the
map and the goroutines point into `heap`, whose devices are changed without a
lock. LastSeen is set just before the Put, so the entry's `age` stands for
LastSeen and for the bucket's own clock.

| Action | Code |
|---|---|
| `Announce` | `handleDeviceAnnouncement` and the head of `Register` up to its Put: nobody else sees the device yet |
| `Status`, `GetDevice`, `DeleteDevice` | `handleDeviceStatus`, `handleServiceCommand` |
| `MonitorList`, `MonitorNext` | `monitorDeviceStatus`: the list, one stale device |
| `LookUp`, `Fetch`, `NotFound`, `FetchFails`, `KeepEntry` | `Registry.Get` |
| `Mark` | `Registry.UpdateStatus` |
| `Revive`, `Marshal`, `Put`, `PutFails`, `Store` | `Registry.Register` |
| `RemoveEntry`, `RemoveFails`, `Drop` | `Registry.Delete` |
| `Tick`, `Expire`, `Restart` | time, the bucket's TTL, `New` and `loadCache` |

`latest`, `torn` and `doubted` are history variables: what a device announced
last; the ids for which an announcement or a deletion overlapped another
handler or failed since the last one that ran alone (`torn`); and those that a
status or the monitor has called offline, or whose report failed, since they
reported last (`doubted`). No guard reads them.

`OnlineUnlessTold` says that a device which has reported is shown online once
its report is through, unless somebody has called it offline since, whoever
else reads, deletes, announces or writes back the shared device meanwhile. It
holds of this code and would hold of one in which the monitor works. The
opposite direction, that a device nobody hears of is shown offline, is what the
code means to do and does not (section 13): no property states it. A report ends
the doubt only when nobody is still updating the device: a status "online"
which is overlapped by the monitor's marking marshals the flag the monitor has
just cleared, and may put that even after a later announcement.

`DeviceDirectory` is what a client of the registry may rely on: for each
device one answer, and calls that begin, work and return. An answer may change
only to what was announced last or to nothing, so the old never comes back
after the new; when a call that writes has returned the old is gone, unless it
left the device astray. A device is astray from when calls on it overlap, one of
which writes (a Get among them too: it may put the entry it fetched before a deletion
into the map after it), or one that writes fails or is cut off, until a
call that writes is alone with it again. `ImplementsDirectory` maps the answer to what
`Registry.Get` would find (`Answer`: the device in the map, else the bucket's
entry), the calls to the goroutines at work and astray to `torn`. It says of the
steps, those while a write is under way among them, what `BucketLatest` and
`CacheLatest` say of the states in which none is, and implies the second, which
is proved and has no run of its own.

| Run | Question | Bounds |
|---|---|---|
| `registry` | do write-backs by a status or the monitor, failures, expiry and restarts bring nothing older back, and do bucket and map look like one directory | 1 device, 2 bodies, 3 addresses, ages 0-2, 2 goroutines at work at once |

**Bounds.** Devices never meet: every step concerns one id. Two goroutines at
work are the first to race, and three addresses are what the map and two
goroutines can point to. `Stale` 0 and `TTL` 1 keep the order of the code's
thresholds (a device is stale before its entry expires).

**Proofs** (`Services_proofs`). `RegistryInv = Shape /\ Alone /\
BodyInv`. `Shape` is `TypeOK`, the stages each operation can be
at, and that every live address is filed under the id that uses it. `Alone`:
two goroutines on one id, one of which writes, have made it torn. `BodyInv`: for such an
id the bucket, the map, the devices pointed to and the documents about to be
put hold what was announced last, according to the stage of the one who
writes. `OnlineInv`, beside it, is about a device that is not doubted: nobody at
work on it was told that it is offline, whatever is marshalled or about to be put
of it says online, and where the bucket still says offline a report is on its
way to the Put; `AnnouncedInv` adds that an announcement puts it online whatever
else is said. Steps
are of three kinds, beginnings, ends and advances, with a lemma for each, so
that each action cites its kind.

`OneDirectory` rests on the same invariant. `AnswerSettled`: for a device
that is not torn and has no writer under way, map and bucket hold what was
announced last, so any answer is the last or none, and every step of a call
that only reads or updates is covered by it. Left are the steps of
an announcement or deletion that is alone with its device, where bucket and map
differ in between: `AnswerWrite` takes them one by one. `CallsAre` and its
lemmas show that a call begins, works and returns as the directory's do.

**Abstractions.** The monitor's list of the bucket is one step. A torn read
of LastSeen and a device announced under another's id are left out.
`List`, `GetStats` and discovery requests change nothing. `Watch` is not used.

## 7. Scenes page

**Module.** `SceneEditor` is the dialog (`ui/scene-editor.js`), the requests
of `ui/app.js` 1025-1130 and the handlers of scenes in `mgmt/handlers.go`.
The page works on shared objects, so a scene is a member of `Objs` and the
state it holds for a device a member of `Refs`, with `objs` and `heap` giving
their values; the server has values. `requests` are requests and answers in
flight, `list` an initial list on its way.

| Action | Code |
|---|---|
| `ShowCreateScene`, `EditScene`, `CloseDialog` | the dialog is filled and shown, and hidden |
| `ToggleDevice`, `UpdateDeviceState`, `UpdateDeviceCustomState`, `TypeName`, `PickIcon` | `toggleDevice`, `updateDeviceState`, `updateDeviceCustomState`, the inputs |
| `SaveScene`, `DeleteScene` | up to their `await` |
| `ServerHandles` | `handleCreateScene`, `handleUpdateScene`, `handleDeleteScene` |
| `Answer`, `Lose` | what follows the `await`, or its `catch`; the network |
| `SendInitialData`, `LoadScenes` | the list a new connection is sent, `loadScenes` |

**Properties.** `LocalAgrees` names the ways the page and the server come to
differ; `DialogKeepsScenes` and `UnlistedDevicesKept` are action properties:
nothing but an answer or a list changes what a scene is called and which
devices it has, and saving drops no device the dialog could not show,
unless the scene was given another's devices: the answer to a save goes to
whatever scene is selected by then (`mixed` is the history of these).
`OnlyOfferedStates` is about what reaches the server: a light's colour
temperature and the temperature of a thermostat whose box was emptied never do:
`parseFloat` makes them NaN, and JSON null (`Parsed`, `Json`). The JSON a user types
for a device of another type (`UpdateDeviceCustomState`) may be no object, such as
`5` or `[]`; it is `NotObject`, a state no control makes. The server's `getMap`
(`mgmt/handlers.go:1126`) keeps `{}` for it (`Received`), and after an update the
page keeps what was typed: one of the exceptions of `LocalAgrees`. After a
creation the answer has the server's scene.

**Bounds** of `scene_editor`: a light, a thermostat, a device of a type without
controls and one the page does not know; 3 ids of which 2 have scenes, 2 requests, 1 edit, 1
list or loss. Two requests are the first that overtake each other, and two
scenes let the dialog turn from one to the other while a save is under way:
without `mixed` that refutes `UnlistedDevicesKept`, which no instance with one
scene and two requests does. `VIEW` drops objects nothing refers to and what a closed
dialog holds, which opening it fills anew.

**Proofs** (`SceneEditor_proofs`), for any scenes, devices, objects and number
of requests. Assumed: the sets are finite (the objects `New` makes exist
because the guard counts them), what a user may enter is no `NaN`, and the
stored scenes are JSON documents whose states the page can have stored
(`StoredAssumption`). `Parsing` is the lemma the rest needs: documents become
different new objects that hold what the documents say. `TypeInv` adds to
`TypeOK` the shape of documents and of requests and that the objects in use
are of the right scene. The invariants on top of it:

* `Agreement` (for `LocalAgrees`): a scene that is shown otherwise than the
  server has it is excused or has an answer on its way. It needs `Born`: a
  scene whose deletion is answered is not on the server and, as ids are given
  out once, does not come back.
* `UnlistedInv` (for `UnlistedDevicesKept`): whatever stands for a scene that
  is not `mixed` has the server's unlisted devices, be it an object of the
  page, also one nothing refers to yet, the open dialog, a request or a list.
  All four are needed because each is where the next one is made from.
* `StatesInv` (for `OnlyOfferedStates`): a state object in use is held for one
  device only, so that a change made for one cannot reach another's, and what
  it is as JSON is offered for that device; the same of every document.

**Abstractions.** Descriptions are handled like names and left out; numbers
are strings from the sets `Percent` and `Degrees`. The bounds 16 and 30 of the
thermostat's box are hints that no code enforces; a number beyond them is stored
like any other, so `Degrees` stands for whatever number is typed. Activating a scene publishes commands and changes no scene.

## 8. Automations page

**Modules.** `FlowNodes` has the designer's node types: ports, the data of a
new node, the form, and what an automation gets from a node. `BuilderItems`
has the builder's dialogs, what the builder dereferences to draw an item, and
the fields the server's structs keep. Both are functions. `AutomationEditor`
is the page: one canvas (`nodes`, `connections`, `nextNodeId`) and one builder
for all automations, the modal around them, and `requests`. An automation
saved from the canvas or the builder refers to the array that is still worked
on: its lists, or its flow's connections, are `shared`, and `Everywhere` gives
them a value of their own when the editor takes a new array.

| Action | Code |
|---|---|
| `AddNode`, `DeleteNode`, `Connect`, `DeleteConnection`, `EditNode`, `ClearAll` | `SimpleFlowDesigner` |
| `OpenDialog`, `CloseDialog`, `SaveTrigger`, `SaveCondition`, `SaveAction`, `RemoveItem` | `AutomationBuilder` and its dialogs |
| `ShowCreateAutomation`, `EditAutomation`, `ShowTraditionalBuilder`, `HideModal` | the modal of `ui/app.js` |
| `SaveReteAutomation`, `SaveAutomation`, `ToggleAutomation`, `DeleteAutomation` | up to their `await` |
| `ServerHandles`, `Lose`, `Answer` | the handler (in detail in `AutomationUI`), the network, what follows the `await` |
| `SendInitialData`, `LoadAutomations` | the list a new connection is sent |

`owner`, which every node and item carries, is the model's own: the automation
it was made for. `strayed`, `loose` and `excused` are history.

**Properties.** `LocalAgrees` as for scenes. `OwnItems`: what is stored of an
automation was made for it, but for two ways the canvas of another gets in.
`CanvasSound`: numbers of nodes are never given twice, connections join nodes
of the canvas unless their array is shared. `BuilderOpens`: an item makes the
builder throw only because the server has cut it down, or because it is a
command of the designer: any text may be typed there
(`simple-flow-designer.js:950`), and for `set_brightness`, `set_color` and
`set_temperature` the builder expects data that the designer never adds.

**Bounds** of `automation_editor`: 2 automations, one stored, 2 nodes, 1
connection and 1 item of each list, 2 requests, lists or losses, 2 edits; the
palette has one trigger and one action, the builder's dialogs three types. One
automation edited while another's save is under way is the case that matters,
and two nodes are what a connection joins. The `VIEW` is as for scenes. A
`Lose`, a second list and a request draw on one bound, so that each pair of
them is met.

**Proofs** (`AutomationEditor_proofs`), for any automations, palette, texts,
names, objects and bounds. Assumed: ids and objects are finitely many, and the
stored automations are ones the page can have made (`StoredAssumption`: what
the server keeps of them is all of them, and their items were made for them).
The functions of `FlowNodes` and `BuilderItems` get lemmas of their own: what
is kept is kept for good (`KeptIs`), every node and every dialog makes an item
with a type, and a command of the dialogs has the data that drawing it takes
(`ItemMade`, `DialogMade`). `LeavingLists` and `LeavingConnections` say what
`Everywhere` does to objects and requests, `Handling` what the server does,
`Assigning`, `Making`, `Switching` and `Loading` what answers and lists do;
all invariants rest on these, and each follows an automation through the three
places that may show it: an object, an array shared with an editor, a request.

* `TypeInv`: well-formed documents, objects, canvas and requests; the objects
  in use are of the right automation (`Linked`); numbers of the nodes of a
  flow have been given out (`FlowsBelow`), without which a new node could take
  the number of one that a flow brings back.
* `SoundInv` (for `CanvasSound`): the connections of the canvas and of every
  flow, also of one in a request, join nodes it has.
* `OwnInv` (for `OwnItems`): documents, objects, flows, requests and both
  editors hold what was made for their automation, unless it has `strayed`.
* `BornInv` and `AgreeInv` (for `LocalAgrees`): ids are given out once; an
  automation that is not excused agrees, or an answer that will set it right
  is on its way. While the answer to a toggle is, all but the box agrees
  (`NearAt`): the answer sets nothing else.

**Abstractions.** Wording, positions and dragging, the names inside items.

## 9. Devices page

**Modules.** `PageSocket` is the page's socket and the server's side of it:
`greeting` is the initial data that `sendInitialData` puts together in one
step and queues in another, `wire` what waits, and a frame may be several
messages of it, which the page cannot parse. `DeviceControls` says which
controls a device has and which command each sends. `DevicePage` adds what the
page holds (`devices`, the dialog's `controls`, `events`, `monitor`), what it
has drawn from it (`cards`, `body`, `rows`) and its requests and timers.

| Action | Code |
|---|---|
| `OnOpen`, `OnClose`, `Reconnect`, `Receive` | `ui/websocket.js` |
| `MarshalInitialData`, `SendInitialData`, `HandleDeviceState`, `HandleDeviceAnnounce`, `HandleDeleteDevice`, `HandleEvent` | `mgmt/websocket.go` 232-290, `mgmt/server.go`, `mgmt/handlers.go` |
| `ShowPage`, `FilterDevices`, `ShowDeviceDetails`, `ShowAddDevice`, `CloseDialog`, `CreateDevice` | `ui/app.js` |
| `Click`, `RefreshDevice`, `RefreshTimer` | `ui/device-controls.js` 545-680 |
| `MonitorTick`, `RefreshAll` | `ui/monitoring.js` |
| `RunDeviceDiscovery`, `DiscoveryComplete`, `FailSafe` | `ui/app.js` 1160-1260 |
| `ServerHandles`, `Answer`, `Lose` | the handlers, what follows each `await`, the network |

`excused`, `undrawn`, `upset` and `crossed` are history variables: devices the
page may show out of date, what was changed without being drawn, a dialog
opened with a refresh still to come, an event table asked for twice.

**Bounds** of `device_page`: a lamp the server knows and a heater it may come
to know, 1 change, 1 loss, 3 requests, 2 pages or dialogs. One update that
overtakes an answer, a list or the greeting needs one change; a refresh that
comes into another dialog needs two dialogs; events asked for twice need two
requests. One `refreshAll` and one discovery interval at a time.

**Fairness.** Weak, on `Reconnect` (the timer fires) and on `OnOpen` (a server
that is up accepts), for `Reconnects` only. A refusal is a drop and bounded.

**Proofs** (`DevicePage_proofs`). A refresh that arrives draws its own device
into whatever the dialog shows, so `DialogAsTitled` is not inductive. The
invariant `DialogInv` says of a dialog opened with no refresh to come: below a
device's name every refresh on its way is of that device, and so is the device
the controls refer to, which is what the timers will ask for; below another
title nothing is on its way, no timer runs and no command is unanswered.
`Calm` is what most steps have in common: they send no command or refresh and
change no request's device. `TitleAssumption`: the other titles are no devices.

`TypeInv` says what messages, answers, lists and the objects of the dialog may
be; the other invariants need it because a field is looked up in most of them.
`RowsInv`: on the page of events either nothing is asked for and the rows are
the events, or one request is under way and the rows are still empty; a second
request is what `crossed` records, and without it rows would be there twice.
`DrawnInv`: what is drawn is drawn from what the page holds, unless it is in
`undrawn`, so that a button's command is the one for the state it was drawn for.

`AgreeInv` is the argument for `DevicesAgree`. For a device that is not excused
(`Sound`): the page has it as the server has it, or the last message on the
wire that names it says what the server has, or a greeting to come says so, or
the answer to its creation is on its way; the page shows no device the server
has not; and an initial list on the wire holds exactly the devices the server
holds. It is the *last* message that counts: messages between may be old. That
nothing is on its way over a socket that is not open (`SocketInv`) is why a
reconnection starts from the greeting alone. `ObjectsAssumption`: stored devices
are devices, and the marks for "none" and "by reference" are not.

**Abstractions.** What is hidden and drawn anew before it is seen: cards and
rows of another page, the body of a closed dialog. The commands of buttons
change nothing here and succeed or fail; the device answers, if it does, as a
change of its state. The monitor's statistics read fields the server's
`Device` does not have. `saveDevice` has no caller.

## 10. Simulator's page

**Modules.** `SimulatorControls` says which commands a device's controls send
and what `handleCommand` makes of them. `SimulatorPage` is the page
(`services/device-simulator/static/js/device-simulator.js`) and the handlers
of `main.go` it calls. A handler changes the device and puts the message
together in one step, and in another the hub takes the message and the answer
is written; what the hub does with it is the subject of `SimHub`.

| Action | Code |
|---|---|
| `ConnectWebSocket`, `OnOpen`, `OnClose`, `OnMessage` | `connectWebSocket` and its handlers, `handleWebSocketMessage` |
| `ChangeBox`, `SearchDevices`, `ShowAddDevice`, `EditDevice`, `ShowDeviceControls`, `CloseDialog` | `setupFilterHandlers`, `filterDevice`, the modals |
| `SaveDevice`, `QuickAction`, `UseControl`, `DeleteDevice`, `ImportDevices` | `saveDevice`, `toggleDevice`, `toggleLock`, `toggleCover`, the controls, `deleteDevice`, `importDevices` up to their `await` |
| `Answer`, `Lose` | what follows the `await`, or its `catch`; the network |
| `Handle`, `Publish` | the handlers of `main.go`: the change and the message, then the hub and the answer |
| `ChangeElsewhere`, `ChangeUntold` | another page, a command over NATS, a tick of a sensor; a change no page is told of |

The power button of a dialog makes two requests: its own handler toggles, and
the one every button has asks for a change of nothing
(`device-simulator.js:682`, 723).

`excused` and `early` are history variables: devices the page may show out of
date, a box that was changed while the page was loading.

**Properties.** `PageAgrees` names when the page and the simulator come to
differ; `CardsAsAsked` that the cards are those the boxes and the search ask
for, as they are held.

**Bounds** of `simulator_page`: a lamp that exists and a blind that may, 3
requests, 2 dialogs or boxes, 1 change made elsewhere, 1 loss. Two requests
and a change elsewhere are what overtakes what.

**Proofs** (`Simulator_proofs`). `CardsAsAsked` speaks of the boxes the user
sees, the code draws from the set of filters. `CardsInv`: once loading is over
the two are the same set, "all" is among them only when it is alone, and the
cards are those of the filters. The second part is why unticking the last box
and ticking another after "all" agree: without it the code's handling of a
set of one would not say which box is ticked. One lemma follows the handlers
of the boxes, the others show that every step that changes devices draws.

For `PageAgrees`, `Agreement` says of each device that is not excused: once the
page is ready it has what the simulator has, or something is coming that will
say so; and if any message about the device is on the wire, then the last one
says what the simulator has, or a handler has changed the device and not yet
published. The second part is what makes the first inductive: a message that
arrives may be old, but then another follows. A deletion is published to
nobody, and an answer to it comes instead (`Deleted`).

**Abstractions.** The list of device types is there from the start; toasts and
text are left out; the colour control has no handler in the code. A sensor's
drift is a change made elsewhere.

## 11. Health monitor and its page

**Modules.** `HealthMonitor` is the service
(`legacy/services/health-monitor/internal/monitor`): `devices` is its map,
`now` a clock that moves with every change of a device, `dashboard` what the
broadcast has put together and not yet offered, `subscribers` the channels of
the pages, `stage` and `initial` how far `handleWebSocket` is for each.
`HealthPage` adds one page (`static/app.js`): `socket`, the connection the
server has with it, the message on the wire, and `shown`, the message it shows
last. Everything the page draws but the dialog of one device is drawn anew
from that message, so `Cards` and `Bars` are functions of it.

| Action | Code |
|---|---|
| `HandleDeviceState`, `HandleDeviceAnnounce`, `HandleAlert` | the handlers of those names, `updateDeviceStatus` |
| `CheckOffline` | one turn of `checkOfflineDevices` |
| `Collect`, `Broadcast` | `broadcastStatus`: `GetDashboardData`, then the loop over the subscribers |
| `OnOpen` (`Subscribe`), `CollectInitial`, `ServeInitial`, `ServeUpdate`, `Leave` (`Unsubscribe`) | `handleWebSocket` |
| `OnMessage`, `OnClose`, `InitializeWebSocket` | `handleWebSocketMessage` and `updateDashboard`; `onclose`; its timer of 5 s |

| Run | Question | Bounds |
|---|---|---|
| `health` | does an offline device say so, do the numbers of one page agree, does the page go forward and catch up | 1 device, 3 changes of it, batteries at 0, 10, 20 and none, 1 page, a channel of 1, 1 alert kept, 1 drop; fair |

**Properties.** `OfflineAlerted`: cutting the list of alerts never takes away
the one that says that a device is offline while an older one stays.
`CountsAgree`: the monitor counts, and the page counts again, with conditions
of its own; where they differ is named. `ShownForward`: updates may be skipped
and connections lost, but what is shown gets older only once in a connection,
because a page is subscribed before its initial data is put together
(`server.go:120`). `CatchesUp`: a page that is slow or was cut off shows the
devices as they are once they rest.

**Bounds.** Each number of `CountsAgree` is a count of devices by a condition
on one device, and an alert belongs to one device, so one shows what more
would. Three changes are a report, the sweep and an alert, or a change before,
between and after two dashboards. A channel of 1 instead of 10 is full after
one dashboard. Pages share nothing but the broadcast, which treats each
channel on its own.

**Fairness.** Weak fairness on the broadcast (a ticker), on each connection's
goroutine, on the page's timer and on what the browser does with a message,
and on connecting: a server that is up accepts. None on devices, the sweep and
drops. `CHECK_DEADLOCK FALSE`: an instance with no fairness on devices may
rest, and the bounds end its changes.

**Proofs** (`Services_proofs`). `OfflineAlerted` is kept by every change only
because the alerts after the sweep's are later than what was heard last too:
once `handleAlert` cuts the sweep's alert off, as many later ones as are kept
are all that is left (`Marked`). And the sweep's alert is later because
nothing was heard of a device after now. `KeepsLast` says what the cut leaves,
`StaysMarked` that it keeps the mark, and all steps that are not about devices
leave both alone. For `CountsAgree`, `Flight` says that channels, wire and page
hold only dashboards put together from some devices (`Dashboards`), and
`SameNumbers` that for each of those the sets counted are the same. This is
what lets the run do with one device.

For `ShownForward`, `OrderInv`: no dashboard is ahead of the clock (`Past`), a
channel holds them by their time and none later than the one being offered
(`Sorted`), a wire belongs to the connection the page has (`Connected`), and
what is on the wire, and after it in the channel, is no older than what is
shown, except that the first update after the initial data may be
(`Forward`). `NoneAssumption`: "none" is neither a time nor a page.

**Abstractions.** Putting a dashboard together is one step, although it copies
one device after the other: no property relates two devices at one time. How
long a device was silent is left to chance: the sweep may find any device
that is online overdue. Metrics besides the battery, the filters by type and
search, message rates and the ping are left out.

## 12. Theorems

For all values of the constants, from the modules' named assumptions (bounds
are naturals, "absent" values are not members of what they stand outside of).

| Module | Theorem | States |
|---|---|---|
| `AutomationSystem_proofs` | `TypeCorrect` | `TypeOK` |
| | `OnlyEnabled` | the engine caches and runs only what was enabled when it read it |
| | `EngineStale` | the engine's copy is stale only for a listed reason or with its event under way |
| | `UIStale` | the UI's copy differs only after overlapping requests, a write-back or a failed call |
| | `NeverTorn` | the bucket never mixes two edits, if no two requests on one automation overlap |
| | `EditsWhole` | overlapping edits leave no object with halves of two of them, and a mixture in the bucket only from requests that overlapped or a write-back |
| | `ServiceImplemented` | requests, events and restarts implement `AutomationService` |
| | `ServiceDurable` | a restart loses nothing but what is still to be written or astray |
| `Simulator_proofs`, the hub | `HubTypeCorrect`, `NeverPanics`, `ClosedForgotten` | `TypeOK`; no channel is closed twice or used after (`NoPanic`); it is closed exactly when its client has been registered and forgotten |
| | `HubImplements` | the simulator's hub implements `Fanout` |
| `WsHub_proofs` | `TypeCorrect`, `NoEntryStale` | `TypeOK`; the map holds nobody who has gone |
| | `Implements` | the management UI's broadcasts implement `JoinedFanout`, without a hub, until a panic: a page misses what came in joined frames and nothing else |
| `ArduinoClient_proofs` | `TypeCorrect` | `TypeOK` |
| | `HandlersRight` | a message reaches a slot subscribed to its subject or none |
| | `InboxesHeld` | inbox slots and pending requests correspond, orphans excepted |
| | `TableAgrees` | once all that was sent has arrived the server has what the slots say |
| `Services_proofs`, the registry | `TypeCorrect` | `TypeOK` |
| | `BucketHoldsLatest`, `CacheHoldsLatest` | bucket and map hold what was announced last, or nothing, unless torn |
| | `OnlineIfHeard` | a device that has reported is shown online, unless it was called offline since or the report failed |
| | `OneDirectory` | bucket and map implement `DeviceDirectory` |
| `DevicePage_proofs` | `DialogShowsTitle` | the device dialog shows what its title says, unless a refresh was to come when it was opened |
| | `TableHasEvents` | the event table has the events, each once, unless asked for twice |
| | `ButtonsDo` | a button sends what it was drawn for |
| | `PageHasDevices` | the page has each device as the server has it or is about to be told, but for the listed exceptions |
| `Simulator_proofs`, the page | `CardsAsked` | the cards are those the boxes and the search ask for |
| | `PageHasDevices` | the page has each device as the simulator has it or is about to be told, but for the listed exceptions |
| `SceneEditor_proofs` | `TypeCorrect` | `TypeOK` |
| | `PageHasScenes` | the page shows the scenes the server has, but for the listed exceptions |
| | `DialogKeeps`, `UnlistedKept` | the dialog changes no scene before it is saved; saving drops no device it did not list, `mixed` scenes excepted |
| | `StatesOffered` | the stored states are those the dialog offers, but for temperatures that become null |
| `AutomationEditor_proofs` | `TypeCorrect` | `TypeInv`: what is stored, shown, drawn and sent is well formed |
| | `Agree` | the page shows the automations the server has, but for the listed exceptions |
| | `Own` | what is stored of an automation was made for it, but for two ways another's gets in |
| | `Sound` | numbers of nodes are given once, connections join nodes of the canvas |
| | `Opens` | the builder draws what it is given, but for fields dropped and commands typed |
| `Services_proofs`, health | `OfflineSaid` | a device that was heard of and is offline has an alert that says so, later than that |
| | `NumbersAgree` | the numbers, the cards, the filters and the chart agree but for batteries at 0 and 20 |
| | `NeverBack` | what is shown gets older at most once in a connection, after its initial data |

`AutomationSystem_proofs.NeverTorn` has no run: with one request at a time it
says little, and it is false with two. Only model-checked: all liveness (`EngineCatchesUp`,
`AllDelivered`, `CleanedUp`, `SlowClientGone`, `RequestEnds`,
`BackUnlessGivenUp`, `Reconnects`, `CatchesUp`): liveness under fairness and ENABLED are
out of the prover's reach, as are induction over data and RECURSIVE operators,
which no module uses. `TypeOK` of `AutomationSystem`, `SimHub`,
`WsHub`, `ArduinoClient`, `DiscoveryRegistry` and `SceneEditor`, `UIStaleOnlyIfExcused`
and `CacheLatest` are proved and no run checks them again: the first are types,
the other two follow from the refinements that `automation_*` and `registry` check.

## 13. Disagreements found

By a run:

* `ws_hub_panic`: a slow client is closed under the read lock
  (`mgmt/server.go:488`), so two broadcasts can both close it, one can send on
  what the other has closed, and `readPump` can answer over it: each ends the
  server.

In the models, without a run of their own (the properties make them
exceptions, or the actions show them):

* A run writes its whole document back when it ends
  (`engine/evaluator.go:399`); an automation deleted meanwhile is in the bucket
  again, enabled, and the next reload runs it. The UI has answered "deleted
  successfully" (`mgmt/handlers.go:353`). The same undoes a disable. `Record`
  is the action; `UIStaleOnlyIfExcused` and `EngineStaleOnlyIfExcused` have it
  among their excuses.
* "Keep only last 10 alerts" (`monitor.go:253` of the health monitor) is done
  for the alerts of devices only: a battery that stays low adds one with each
  report (287), and the list grows without end. `HandleDeviceState` and
  `CheckOffline` show it.
* Low battery is decided by five conditions: the filter takes 20 and nothing
  else does, and a battery at 0 is low for the count and the card, not for the
  filter and the chart (`health-monitor/static/app.js:107`, 184, 351;
  `monitor.go:286`, 424). Exceptions of `CountsAgree`.
* `kv.Keys()` of an empty bucket is an error (`engine/engine.go:137`), so a
  reload then clears nothing: if the announcement of the last deletion was
  missed, that automation runs on. `EngineCatchesUp` excepts it.
* "Automatically reconnects to NATS server on connection loss" (README of
  `arduino-nats-client`, line 9): after five failed attempts `loop()` tries no
  more (`NATSClient.cpp:610`), however long the server is back.
  `BackUnlessGivenUp` has this as its second half.
* `connect()` waits for a `+OK` (`NATSClient.cpp:99`-149) and has asked for
  `verbose: false` (430), with which a NATS server sends none.
* "Mark offline if not seen recently" (`discovery/service/service.go:387`): the
  monitor clears the flag and calls `Register`
  (`discovery/registry/registry.go:67`), which sets it and renews LastSeen and the
  entry: the device stays online. "Devices expire after 5 minutes without
  updates" (`registry.go:31`) fails by the same call, made every time the device
  is found stale. `Mark` and `Revive` are the actions. A status "offline" is
  undone in the same way.
* An event comes to the page as a field of its message and is looked for in
  `data` (`ui/websocket.js:95`), so the event log is not live, against
  `legacy/services/management-ui/README.md:28`: in `HandleMessage` the branch
  that adds a row is never taken.
* Messages that wait are joined in one frame (`mgmt/websocket.go:105`), which
  `JSON.parse` (`ui/websocket.js:60`) refuses: all of them are dropped. `ImplementsJoinedFanout` says what is lost,
  and it is an exception of `DevicesAgree`.
* The dialog `discovery-progress-modal`, closed when a discovery is over
  (`ui/app.js:1226`), does not exist: the progress stays on the screen.
* An update of an automation does not change whether it is enabled
  (`mgmt/handlers.go:307`), though the page sends it and shows it so until the
  next list. An exception of the editor's `LocalAgrees`.
* A command typed in the designer (`ui/simple-flow-designer.js:950`) such as
  `set_brightness` is stored without the data that the form builder reads to
  draw it (`ui/automation-builder.js:859`): the builder then throws on opening
  the automation. An exception of `BuilderOpens`.
* A deleted device is told to no simulator page: the broadcast looks the
  device up after it has left the map
  (`services/device-simulator/main.go:766`). An exception of `PageAgrees`.
* A light's colour temperature goes through `parseFloat`
  (`ui/scene-editor.js:323`) and is stored as null, and so does the temperature
  of a thermostat when its box is emptied (250): `OnlyOfferedStates` says what
  arrives.
* JSON that is no object, typed for a device without controls
  (`ui/scene-editor.js:347`), is `{}` on the server (`mgmt/handlers.go:1126`) and
  what was typed on the page. An exception of the scenes' `LocalAgrees`.
* The answer to a save of a scene is assigned to the scene that is selected by
  then (`ui/app.js:1081`): another scene whose dialog was opened meanwhile gets
  the saved one's name and devices on the page, and on the server with its next
  save. Exceptions of `LocalAgrees` and, with `mixed`, of `UnlistedDevicesKept`.
* `store.ttl`, documented in `legacy/services/discovery/README.md:87`, is read
  by nothing; the bucket's five minutes are fixed.

## 14. Not modelled, and further hazards

See `components` in PROJECT.json for each part's reason. Static pages,
templates, deployment scripts and the CLI have no state of their own worth
checking; the designers built on Rete are loaded by no page in use; bridges,
ESPHome and Home Assistant run where their libraries or another scheduler
decide the order. The configuration manager and the provisioner are worth a
module each and are in the plan.

Hazards beside those in PROJECT.json, which lists the ones some property is
about:

* `mgmt/handlers.go:750` the 30 s timer of an earlier discovery ends one that
  was started meanwhile; 125 a device is marshalled after the unlock.
  `mgmt/server.go:187` entries of the bucket `devices` expire after two
  minutes and the map keeps them. `mgmt/websocket.go:245` maps are marshalled
  without their lock.
* `engine/evaluator.go:227` a window from 22:00 to 06:00 is never true, and a
  time that does not parse is midnight; 165 a time trigger holds on every tick
  of its minute; 287 a limit of 0 or below is no limit; 307 comparing two maps
  panics.
* `discovery/registry/registry.go:84` entries of the bucket expire and those
  of the map do not: get_device and get_stats show devices long gone.
* `discovery/configmgr/manager.go:97` two clients that read version 1 both
  store version 2 and one edit is lost; 298 a restore goes entry by entry and
  only warns; 423 a restart puts the default schemas over those that were set.
* `health-monitor/internal/monitor/monitor.go:151` a counter that dashboards
  read without a lock. `health-monitor/cmd/root.go:45` the defaults 300 and
  30, "in seconds", are nanoseconds when no file and no flag is given, and the
  command line of the README (85), a number without a unit, is refused.
* `device-provisioner/internal/provisioner/provisioner.go:91` check and Put are
  two steps, so two requests for one device are both given credentials; 204
  the same of a revocation, which writes back what it has read.
* `services/device-simulator/main.go:308` a device created under a used id
  replaces the one in the map, whose goroutine keeps running; 860 an import
  checks and creates in two steps.
* `mqtt-nats-bridge/bridge.py:439` a reconnection of MQTT sets up the NATS
  subscriptions again too, and the reverse: each message is then forwarded
  twice. `zigbee2mqtt-nats/internal/bridge/bridge.go:106` nothing is
  subscribed again after an MQTT reconnection.
* `nats_client.cpp:21` `connected_` is cleared only on an authorization error,
  so a lost connection is never noticed; 251 an unbounded queue; 147 a payload
  not yet received in full is cut short.
* `nats_bridge/__init__.py:98` signals are sent before the platforms listen;
  `discovery.py:111` a device is marked discovered before it is subscribed.
