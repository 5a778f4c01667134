# Specification of the local smart-house

TLA+ modules for the services of this repository, the TLC configurations that
check them, and TLAPS proofs. Paths below are relative to the repository root;
`services/` stands for `backend/services/`.

## 1. The system and its parts

The house is a set of Node services around Redis, with MQTT and Home Assistant
(HA) on one side and people on the other. Device snapshots live in Redis, one
key per device; three pub/sub channels carry snapshots (with or without a
button event), actions, and action results. Configuration lives in JSON files
that the gateway writes and other services poll by modification time.

| Part | State it keeps | Operations | What is hard |
|---|---|---|---|
| Automation engine, `rules-engine/src/automation-engine.js` | automation list, one runtime object per id (timers, cooldown, executing flag), device map, waiters, suspended runs | `setAutomations`, `stop`, `handleDeviceUpdate`, timer callbacks, resumption of runs | runs suspended in awaits while updates, timers and reloads go on |
| Rules engine process, `rules-engine/src/index.js`, `rules.js` | last mtime, subscription | seeding, message handler, periodic refresh | subscribe / seed / attach order, failed loads |
| Gateway stores, `api-gateway/src/*-store.js` | JSON files | create, update, delete, validate, expand | unlocked read-modify-write, two stores over one file, graph invariants |
| Scene runner, agentic scene runner | one run per call, run table | publish, await result, poll state, fall back | lost, late and misattributed results |
| Switch bindings | compiled automations | validate, compile, save | concurrent duplicates, loops of automations |
| Home Assistant mirror, `ha-sync.js` | debounce timer, current run, registry in HA | schedule, run, reconcile | changes during a run, half-applied reconciliations |
| Device adapter | Zigbee and HA caches, overrides | MQTT and HA messages, actions, refresh, reconnect | stale snapshots written back |
| Device simulator | runtime templates | actions with latency | lost update of a device |
| Agent and MCP server | sessions with a pending plan, idempotency cache | turn, confirm, cancel, invoke | double execution, stale sessions |
| Voice satellite server, firmware | session and capture state, busy flag, send queue | wake, capture, reply, follow-up | timeouts racing late messages |
| Web frontend, `frontend/web/pages` | drafts of floorplans, overrides, scenes, automations; the calls under way | load, edit, save, delete, upload | drafts older than the file; answers that come late and in another order |
| LLM bridge, device model, tools | none of their own | proxying, validating | — |

`PROJECT.json` lists every part with its files and whether it is modelled, and
under "hazards" the places where the code can go wrong in ways a test hardly
reaches.


## 2. Modules

| Module | Models | Checked by | Proved in |
|---|---|---|---|
| `AutomationEngine` | automation engine: triggers, delayed runs, timers, plans, reload, stop | `MCEngineRuns`, `MCEngineTimers` | `AutomationEngineProofs` |
| `SceneRun` | classic and agentic scene runs, the action and result channels, adapter and simulator as executors | `MCSceneRun` | `SceneRunProofs` |
| `SceneCatalogue` | what the scene store promises: a valid list, changed by legal edits | refined by `SceneStore` | `GatewayProofs` |
| `SceneStore` | scenes.json under overlapping requests, failed writes and crashes | `MCSceneStore` | `GatewayProofs` |
| `DeviceConfig` | floorplans.json and devices.config.json: their writers, reconciliation, editors with drafts | `MCDeviceConfig` | `DeviceConfigProofs` |
| `FloorplanPage` | the page that edits floorplans and the calls it waits for; extends `DeviceConfig` | `MCDeviceConfig` | `DeviceConfigProofs` |
| `SwitchBindings` | automations.json as the gateway and its pages write it | with `RulesProcess` | `RulesProcessProofs` |
| `RulesProcess` | how the rules engine takes that file over; extends `SwitchBindings` | `MCRulesProcess` | `RulesProcessProofs` |
| `HaMirror` | the mirror of floorplans and scenes in Home Assistant, call by call | `MCHaMirror` | `GatewayProofs` |
| `DeviceAdapter` | the writers of the device store: Zigbee, Home Assistant, overrides | `MCDeviceAdapter` | `AdapterProofs` |
| `DeviceActions` | the vocabulary of actions: what is offered, sent and understood | with `ActionDelivery` | `AdapterProofs` |
| `ActionDelivery` | how an action reaches a device: MQTT, Home Assistant, voice | `MCDeviceAdapter` | `AdapterProofs` |
| `AgentTurn` | turns of the agent on one session, and the write tools of the MCP server | `MCAgentTurn` | `AgentProofs` |
| `AgentStandby` | the inventories the agent keeps in stock for its next turn | `MCAgentTurn` | `AgentProofs` |
| `VoiceSession` | a satellite, its firmware and the voice server over one connection | `MCVoiceSession` | `VoiceSessionProofs` |

A module named `MC...` only gives constants their values; a `.cfg` beside it
names the properties. A definition whose comment says *variant* is a faulty
version of its successor, a bug the code could have had. No action uses it; it
is there to confirm that some property would notice the bug. The pairs are
listed in `PROJECT.json` under "mutants".

### 2.1 AutomationEngine

The engine is one object of a single-threaded event loop, so a call, a timer
callback or the resumption of a suspended run is one action.

| Code (`automation-engine.js`) | Specification |
|---|---|
| `automations`, `runtimeById` | `list`, `gen`: an id's definition and the generation of its runtime object |
| `pendingHandle` and the definition its callback captured, `cooldownUntilMs`, `executing`, `lastEventId`, `intervalHandle`/`timeHandle` | `pending` and `pendingLeft`, `cooldown`, `executing`, `lastEvent`, `timer` and `timerLeft`, one per object |
| `devices`, `waitersByDeviceId` | `devices`, `waiters` |
| the suspended continuations of `_executeAutomation` | `run`: a phase and the rest of the plan, per call frame of an object |
| `setAutomations`, `stop`, `handleDeviceUpdate` | `SetAutomations`, `Stop`, `HandleDeviceUpdate` |
| callbacks of `setTimeout`/`setInterval` | `DelayedRun`, `TimerTrigger`, `WaitTimeout` |
| continuations after an `await` | `Published`, `Expanded`, `Resume`, `Abort` |

Runtime objects have generations because a run that is in flight keeps the
object of its automation when that is removed; the id may come back with a
fresh object, and then a detached and an attached run of one id exist side by
side. A condition is the set of (device readings, clock) pairs at which it is
true, a comparison the set of readings it accepts. A message is handled by
passing over all automations; they share nothing that this changes, so the
action treats them at once. Time is a countdown per timer, and a timer that
reached zero may fire at any later moment, since a busy event loop is late but
never early.

### 2.2 SceneRun

| Code | Specification |
|---|---|
| a call of `run()`, `out.steps` | `run[r]`: phase, scene, plan, `report` |
| the device store in Redis | `stored` (the supported actions, or absent), `value` (the trait `wait_for` reads) |
| action channel: requests received by the adapter, queue of the simulator's subscriber | `adapter` (a set: the adapter does not serialise), `simulator` (a sequence) |
| result channel | `results` |
| `sceneStore.expand`, `buildPlan`, the checks of `confirm` and `dryRun` | `Start` |
| look-up, `publishAction`, registration of the listener, its timer | `Look`, `Publish` or `PublishFails`, `Listen`, `ResultTimeout` |
| handlers of the bus | `Receive`: one result is given to every listening run |
| `waitForStateCondition` | `Poll` |
| `DeviceAdapter.handleAction`, `DeviceSimulator.handleAction` | `AdapterActs`; `SimulatorActs`, `SimulatorAnswers` |

Results carry a time stamp instead of a request id. `fresh` of a result is the
set of runs whose current step had begun when it was stamped. When a run begins
a step, the results in flight up to some point were stamped in an earlier
millisecond (and stop being fresh for it), the rest in the same one. Ranking of candidates (`device-identity.js`) is
left open among the devices the selector admits. `carried` is a history
variable: the requests that an executor carried out.

The two runners are one module because they share the protocol; `scene.mode`
tells where they differ: confirmation, what a missing device counts as,
`wait_for`, and abort.

### 2.3 SceneCatalogue, SceneStore

| Code (`scene-store.js`) | Specification |
|---|---|
| `scenes.json` | `file`; `versions` is the history of what it held |
| `list`, the edit and its validation | `Read`: `Allowed`, `Edited`, `Removed`, on the list as read |
| `save`: temporary file, `rename` | `WriteTmp`, `Rename`, `WriteFails` |
| `collectDependents`, the depth-first cycle check, `expand` | `Dependents`, `NoCycle`, `Expansion` |

`SceneCatalogue` says what the store is for: the `current` list is valid, and
every new one is one legal edit of a list that was ever `held`. With no lock the
list that is edited need not be the last one. `SceneStore` implements it with
`current <- file` and with the lists in `versions` as `held`: a reader of the
promise need not know in which order they were, nor anything of temporary files,
phases and crashes.

### 2.4 DeviceConfig

| Code | Specification |
|---|---|
| `floorplans.json`, `devices.config.json` | `plans`, `config` |
| routes of floorplans | `PlanRead`, `PlanRename`, then `ListPlans`, `Load`, `Reconcile` |
| `applyFloorplanPlacement`, `reconcileFloorplanPlacementEntries` | `Apply`, `Clean`, `Reconciled` |
| `upsert` of an override and its second write for a microphone | `PutRead`, `SaveLoad`, `SaveRename`, `MicRead`, `MicRename` |
| routes of virtual devices | `VirtualRead`, `VirtualRename` |
| floorplan page, switch inspector | `Open`, `Rename`: drafts that are saved later |
| startup | a `boot` request; `Crash` |

Each writer reads the file, changes its part of it and writes all of it.
`disturbed` remembers that requests overlapped, failed or crashed; a
reconciliation that read what it then replaced clears it, and `asked` is what
users were told since.

### 2.5 FloorplanPage

| Code (`floorplan.tsx`) | Specification |
|---|---|
| `stage`, `activeId`, `mode`, `draft`, `savedPlan`, `placingDevice` | `page` |
| a `fetch` that was not answered yet, or whose answer was not handled yet | `calls` |
| `enterEditor` and `loadFloorplan` | `EnterEditor`, `Loaded` |
| `saveFloorplan`, `createFloorplan`, `deleteFloorplan`, `saveVirtualDevice`, `uploadAsset` | the part before the await under its name; `Saved`, `Created`, `Deleted`, `VirtualSaved`, `ImageReplaced` after it |
| handlers of the drawing and of the lists | `FinishRoom`, `RemoveRoom`, `StartPlacing`, `PlaceDevice`, `MoveDevice`, `RemoveDevice`, ... |
| the routes of floorplans | `Serve`, `Refuse`, `StoreAndRefuse`; `Lost`; `Elsewhere` for other clients |

The page does not wait: while a call is under way the user edits, leaves, or opens
another plan, and an answer is applied to whatever is shown when it comes. `doubt`
remembers that calls overlapped, got lost or failed halfway, or that another client
wrote, until a plan is opened undisturbed; `hasty` that the draft was edited while a
call was under way. Here a request is served at once: the gap between its read and
its write is the subject of `DeviceConfig`, whose names for plans, devices and rooms
the module takes.

### 2.6 SwitchBindings, RulesProcess

| Code | Specification |
|---|---|
| `validateAndCompile`, `validateStateBindingCycles` | `Allowed`, `Loop`: a set of channels each of which acts on one of the set |
| `create`, `update`, `delete` of the automation store | `ReadList`, `Write` |
| the page of the automations | `PageOpen`, `PageNew` |
| `refreshAutomations` | `Tick`, `Compare`, `ReadFile` or `ReadFails`, `Apply` |

The two modules are composed by EXTENDS: they share `file` and `mtime`, and
every step is one of the gateway or one of the engine's process.

### 2.7 HaMirror

| Code (`ha-sync.js`) | Specification |
|---|---|
| the gateway's files; the registries, dashboards and generated files | `local`, `ha` |
| `currentRun` and the run's position | `run`: stage, calls left, snapshot, lists |
| `schedule`, `start`, `runSync` | `Change`, `DebounceFires`, `IntervalFires`, `SyncNow`, `Restart` |
| `#reconcile` and the `reconcile...` functions | `List`, `SyncFloor`, `SyncArea`, `SyncDevice`, `WriteFile`, `SyncBoard`, `SaveBoard`, `Reload`: one call of Home Assistant each |
| errors, timeouts, a closed socket | `Refused`, `RunFails`; `Calls` may lose its answer; `HaSilent` |

`Due` gives the calls of a stage as a set, from the snapshot and the lists of
the run's beginning. What is wanted is created before the rest is deleted; the
order among equals is left open.

### 2.8 DeviceAdapter, DeviceActions, ActionDelivery

`DeviceAdapter` has the three writers of the store as processes: the queue of
MQTT messages (`HandleState`; `SyncLists`, `SyncWrites`, `SyncKnows`,
`SyncRemoves` for one `bridge/devices`; `WriteEndpoint` for each relay of a panel,
after the panel itself), Home Assistant (`HandleEvent`,
`PollAnswered`, `PollWrites`, `SocketOpens`, `SocketLost`) and the refresh of
overrides (`RefreshStarts` to `RefreshWrites`). What one writes while another
holds a list read before is noted in that list (`touched`); `stale` names the
devices that were then written from it. The code takes a panel's placement from the
overrides once (`adapter.js:520`, `:473`) and gives it to the endpoints over awaits
of the store: `panel` holds what was taken, and a refresh may come between any two
endpoints. An endpoint that is then put back where the panel was is `displaced`.

`DeviceActions` gives what the adapter offers for a device, what it sends for an
action, and, as relations marked external, what Home Assistant, Zigbee2MQTT and
the simulator make of it. `ActionDelivery` has one call of `handleAction` per
request: `ServeMqtt`, `ServeHa` and `HaAnswers`, or a dialogue (`SpeakWake`,
`Listen`, `SpeakCommand`) with the microphone that `Nearest` picks. `told` is
what the device was told, compared with what was asked; it is the same whenever the
order is `Meant`: offered on the way it takes, and not the brightness of a Zigbee
device. Any order may be given: for others the answer may be `ok` although the device
does something else, or its service understands something else (`Other`).

### 2.9 AgentTurn, AgentStandby

| Code | Specification |
|---|---|
| the stored session; a turn's copy of it | `pending`; `turn[r].copy` |
| `turn()`: confirm and cancel, the loop with the model, the final plan | `Confirm`, `Cancel`, `ToolCall`, `Answer`, `NoFinal`, `Propose`, `Execute`, `Clarify`, `Finish` |
| `enforcePolicy`, `assessVoiceRiskGate`, `decideExecutionMode` | `DryRunEnforced`, `Executes` |
| `withIdempotency` around the batch and around each item | `BatchLooks`, `ItemLooks`, `ItemPosts`, `ItemAnswered`, `BatchAnswered` over `cache` |
| items a batch passes over with `ok: false`: invalid, a scene that cannot be expanded, not supported by the device | `ItemInvalid`, `ItemUnsupported`; `refused` remembers those of calls for real |
| `prewarm`, `bootstrapFacts`, `queuePrewarm`, the refresh timer | `Prewarm` and the actions of `AgentStandby` |
| an action that was published and answered as queued; the adapter's write of the store | `Acts`; `Reports` |

What the model answers is any element of `Plans`, ids included: nothing in the
code makes it choose a new one. A batch goes on after an item it passed over, and only
the preflight of a plan to be executed looks for such results; a plan the user confirms
has had none, so `executed` may be reported of a plan of which a part was refused. In
`AgentStandby` an inventory is the number of effects of turns it has seen, of those
that have reached the store: what a turn did is `queued` until then, and a fetch may
read before. `known` is what the store knew of when the standby was last asked for.

### 2.10 VoiceSession

The device has the wake engine, the message worker, one task per turn and the
ping task; the server has the handler of the connection and the watchdog. They
share `up` and `queue`, the two directions of the connection; each critical
section of the firmware and each await of the server is an action. No lock joins
taking a message from the firmware's queue and handling it (`ws_client.c:109-114`):
when the connection is marked as lost and the queue emptied, the worker may hold one
message (`late`), which it handles on a session that is forgotten. A failed send
that leaves the connection standing (`Deafens`), a lock not had in time
(`Withheld`), a full message queue (`Arrives`) and a lost connection
(`LinkLost`) are the faults. A capture whose `audio_end` is not sent leaves the
server waiting for it, and `begin_capture` then keeps the audio it has
(`remote_server.py:163`): `unended` remembers that, until a wake word or an end is
sent, and a capture that starts meanwhile counts as mixed (`raced`).

### 2.11 Plan

Done, in the order of the plan: the engine, the scene runs, the JSON stores of
the gateway and their readers, the mirror, the adapter, the agent, the voice
session, the floorplan page. Left, the most important first:

1. `wait_for` in `handleDeviceStep` (`tools.js`), whose timeout ends a batch;
2. the run table of `agentic-scene-runner.js` and its expiry;
3. offline mode and `stop()` of the adapter;
4. the other pages that hold a draft while calls are under way (`scenes.tsx`,
   `automations.tsx`), as far as they differ from the floorplan page.

## 3. What the runs check

| Run | Instance | Properties |
|---|---|---|
| `engine_runs` | one automation, two devices of two values, two button events, two generations, two frames, one clock hour | `OneRunPerObject`, `PendingJustified`, `NoLostWakeup`, `StepsAwaitTheirConditions`, `StartsJustified` |
| `engine_timers` | one automation, one device, a day of three hours | `TimersFollowList`, `RunsEnd` |
| `scene_runs` | two calls, a simulated lamp and a fan behind MQTT, five scenes | `OkIsEarned`, `AbortedStaysAborted`, `UnconfirmedIsHarmless`, `RunsEnd` |
| `scene_simulated` | the same | `SimulatedIsNotRefused`: violated |
| `scene_wait` | the same | `GoesOnWhenMet`: violated |
| `scene_store` | three scenes, two requests, three stored lists | `FileAlwaysValid`, `ExpansionTerminates`, `LostOnlyToOverlap`, `KeepsPromise` (refinement) |
| `device_config` | a lamp and a microphone, two floorplans; two slots and three requests or crashes; the page with two calls at a time, three in all, and two edits | `PlacementsRepaired`, `TypedRoomKept`, `SavedPartsKept`; `DraftInOrder`, `ShowsWhatIsStored` |
| `switch_bindings` | two channels, two ids, two requests, two refreshes at a time | `OneBindingPerSource`, `NoStateLoop`, `RecordedIsLoaded`, `EngineCatchesUp` |
| `ha_mirror` | two floorplans, three entities of two devices, a scene and a script, two changes, one fault, one edit | `RunMirrors`, `OwnAreaKept`, `BecomesMirrored` |
| `device_adapter` | two Zigbee devices with two names, one of them a panel with an endpoint, one entity, two placements; two requests of twelve kinds | `CurrentUnlessOverlapped`, `OverridesInForce`, `Settles`; `AnswersTrue`, `CommandIsAwaited` |
| `agent_turns` | three turns, three plans, one fault; two clients of the standby | `PendingAsOffered`, `WritesAreConfirmed`, `NotWrittenTwice`, `ReportedIsWritten`; `ArrivedIsSeen` |
| `voice_session` | two utterances of up to two chunks, one fault | `OneCapture`, `ListensInSession`, `HearsAgain` |

Each module has a type invariant besides (`TypeOK`, `BindingsTypeOK`,
`DeliveryTypeOK`, `StandbyTypeOK`, `StoreTypeOK`). The configurations name the
properties that can fail for a reason in the code; the types are proved.

*Engine.* An automation runs at most once at a time; whatever starts it, it is
the loaded, enabled definition outside its cooldown with its condition true; a
pending `forMs` run never outlives its justification; timers are neither
forgotten nor left behind by a reload; a suspended run is woken by the update
it waits for, or by its timeout, and always ends.

*Scenes.* A step reported `ok` was carried out by someone, although results are
shared between runs; after a step that did not end well an aborting scene asks
for nothing more; without confirmation nothing is done at a risk that wants it;
every run ends although services and messages may be absent.

*Stores.* Whatever overlaps, fails or crashes, scenes.json is whole and valid,
because every save replaces the file by a list that was valid when it was
checked. What can be lost is an acknowledged edit, and only to a request that
had read the list before it. In devices.config.json even that can mix up two
parts of the file, but one undisturbed reconciliation repairs every placement,
and without overlap rooms that users typed, names and virtual devices are kept.
Two bindings of a source, or a loop of state bindings, come to be only by a race
or, for the loop, on the page of the automations, whose route knows no bindings.
A page that saves a plan shows afterwards what the server has, and nobody
is in a room that was removed; it can show another plan than the one that was opened,
and lose or double an edit, when calls overlap or edits are made while one is under way.
The rules engine in the end runs the last list, unless a read failed after the
time was recorded, or an older of two overlapping refreshes finished last.

*Mirror.* A run that comes to its end has made Home Assistant what its snapshot
says, whatever earlier runs left half done; an area that people gave a device is
respected unless the gateway places the device; changes during a run, which
start none, are covered by the interval. A server that accepts the connection
and never asks for authorization hangs the run for good: `connect` has no
timeout (`HaSilent`, excluded by name in `BecomesMirrored`).

*Adapter.* With nothing on its way the store shows each device as last reported
and where the overrides say, except what was written from a copy read before
(the refresh of overrides, overlapping polls) or missed while the socket was
down; and none of that lasts for devices that report again or are polled. Also
excepted, by name, are the endpoints of a panel that began to be written before the
placement in force was loaded: they are put where the panel was, with nothing pending
that would repair it, until the panel reports again. An action is answered once; `ok`
means that the device was told one thing, and what was asked if the device offers that.
A spoken command waits for an acknowledgement, except that two dialogues at the
same time may take each other's.

*Agent.* A confirmation executes what was shown last; a risky action or a
binding is written only after a confirmation (the steps of a scene are not
looked at); nothing is written twice, unless two calls of one id overlap, an answer is
lost or the cache has expired. What is reported as executed was written but for the
items the batch passed over, and then the answer is not ok, unless the model takes an
id again or a plan has one device twice. A turn sees what had reached the store when
the turn before it ended, apart from overlaps, failures and fetches that were under
way; what the turn before did and the adapter had not reported yet it may miss.

*Voice.* Audio of two captures becomes one utterance only when two turns start at
once or a capture without the wake word follows one whose end was not sent (which
takes three captures, so the exception shows in the proof and not in the run); the
session that answers is the one that listened, and the device comes back to the wake word
after any fault but three: a send that fails on a connection that stands, a dropped
`session_closed`, and a connection lost while the worker holds the start of a reply:
it begins a playback after playback was aborted, and reconnecting does not end it.

*Findings.* (1) For a device that only the simulator serves, the adapter, which
listens to the same channel, answers `no_delivery_path`; the runner takes the
first result and reports an error for an action that is carried out. (2) The
classic runner never reads `wait_for`, while the requirements make the next step
wait for it.

*Conditions in properties.* A property that exempts a case names a behaviour of
the code that a reader should know of. Besides those above: a plan id that the
model takes again meets the cached answer of the earlier plan (`tools.js:956`);
`loadDeviceOverrides` refers to a name that is out of scope when the file cannot
be read (`device-config.js:8`); a friendly name that passes to another device
brings the state kept for the name along (`adapter.js:474`); a virtual device that is saved to be placed waits for the click that
places it on a plan without a scale too, whatever `startPlacingDevice` refuses
(`floorplan.tsx:1414`), and what it adds cannot be saved then; a microphone of the
device's room is chosen first even when it is too far and another one is near
(`voice-control.js:252`); the standby is stamped fresh when a turn reuses it
(`smart-house-agent.js:162`). Of the vocabulary in `DeviceActions`:
a Zigbee plug that is carried out over Home Assistant offers actions that its
switch entity refuses; actions that the Zigbee side does not know become
`TOGGLE`; the brightness of a Zigbee device is published in percent while
Zigbee2MQTT counts to 254 (both are answered `ok`, and excepted by `Meant`); the simulator
knows no `toggle` and names three traits differently from the adapter.

### Bounds

- `Gens = {0, 1}`, `Frames = {1, 2}`: a removed and a present object of one id,
  and a second call on one object (which `OneRunPerObject` excludes, and could
  not exclude with one frame). A third generation could only repeat a role.
  `SetAutomations` re-adds an id only when a generation is free.
- `Day = 1` in `engine_runs`, where nothing depends on the clock, and 3 in
  `engine_timers`: a window across midnight needs before, within and after.
- Event ids are only compared, so two, taken as symmetric, suffice.
- Waits, delays and cooldowns are of 0 to 2 units: due, one unit early, and two
  timers in either order.
- Automations share only `devices`, which the environment changes freely, so one
  id shows what several would; the proofs are for any number.
- Two calls show every exchange of results between two runs; `Wanted` says which
  scenes each call may ask for. Scenes have at most two steps: a step with a
  predecessor and one without. `polls` replaces the deadline of a wait.
- `Observed`: devices change and report only while some call is about to read the
  store. A call that has not begun counts as such, so while one of the two calls
  is idle the environment is unrestricted; while both are between their reads,
  changes wait. It keeps the interleavings of the environment down.

- `scene_store`: three scenes make references of every shape that the checks
  tell apart (a chain, a shared target, cycles of one to three); overlap is a
  matter of two requests, since a third could only lose to either of them.
- `device_config`: three requests are one that disturbs, one that repairs and
  one after it. The floorplans put the lamp and the microphone in one room, the
  lamp alone in another, or on the plan in none.
  The page shares no variable with the requests, so the run explores each of the two
  while the other has not begun. Two calls are enough for answers out of order, a third
  comes after them; two edits are one before and one during a call. The lamp is
  virtual; the other client deletes plans and saves none, which the proofs do not assume.
- `switch_bindings`: a loop needs two channels and two bindings; a third request
  would only repeat one of the two. Refreshes overlap in pairs.
- `ha_mirror`: the three contents of the files rename, move, add and remove each
  kind of entry; a device with two entities may be in two places. One fault and
  one edit per behaviour, at any call.
- `device_adapter`: the two halves share no variable; the run explores each
  while the other has not begun. Two names are enough for a name that passes
  from one device to another: the panel's name does, the panel is renamed, or is gone.
  `MaxQueue = 1` lets one message wait while another is handled (the message of a
  list stays in the queue until its end); a second one waiting is taken in the same way.
  Before the first edit everything is in the kitchen and the panel is the only
  device. The proofs assume none of this.
- `agent_turns`: three turns are one that proposes, one that confirms and one
  that interferes. Two of the plans have one id, one of them with a scene and
  the other with one device twice; the third is a plan of binding writes. Two turns
  at most are under way at a time (`AtATime`). The standby has two clients, taken as
  symmetric, one inventory, two effects (one that arrived, one that is queued) and two
  failures; the proofs are for any number of each.
- `voice_session`: two utterances, so that one can get into the other; two
  chunks, so that one can be missing; `MaxUnderWay = 1` lets a wake word be
  spoken while one message is on its way. With three utterances the safety
  properties were checked up to chunks of one; liveness then takes too long.

`CHECK_DEADLOCK FALSE` in all but the engine's runs: when all requests, calls or
utterances that the bounds allow are over, everything may stop.

## 4. Fairness

`AutomationEngine`: weak fairness of `Tick`, of the settlement of each await
(`Published` or `Abort`, `Expanded` or `Abort`), of resumption and of the wait
timers, per call. This is the event loop: due callbacks run, promises settle
(HTTP and Redis clients time out). No fairness is assumed of devices, reloads or
triggers.

`SceneRun`: weak fairness of each run's own steps: the awaits of the store and
of `publishAction` settle, the result timer fires, polling goes on. Nothing is
assumed of adapter, simulator or Redis, so `RunsEnd` there holds although nobody
ever answers.

`RulesProcess`: weak fairness of the interval and of each refresh's steps.
Requests of users are not fair; `EngineCatchesUp` assumes in its own words that
the process stops restarting.

`HaMirror`: weak fairness of the calls of a run, which have timeouts, and of the
interval. Changes, faults and edits are bounded and owe nothing. `SyncNow`, the
manual run, is not fair.

`DeviceAdapter`: weak fairness of the refresh, the message queue, the events,
the subscription and the polls, which are timers and loops of the adapter.
Strong fairness of `Report`: a device reports its state again and again, and is
free to do so whenever the queue has room.

`VoiceSession`: weak fairness of the tasks, of delivery, of the reconnecting
client and of the watchdog. Nobody has to speak.

The safety properties of the stores, the agent and the delivery of actions hold
without fairness, and these modules state none.

## 5. Proofs

`AutomationEngineProofs` proves for every value of the constants that satisfy
the named assumptions of `AutomationEngine` (a day has an hour, the special
values differ from ordinary ones, definitions are well-formed with a non-empty
plan, scenes expand to device steps):

- `EngineInvariant`: `Spec => []IInv`;
- one theorem for each safety property of the two runs: `EngineTypeCorrect`,
  `EngineOneRun`, `EnginePendingJustified`, `EngineTimersFollowList`,
  `EngineNoLostWakeup`, and the action properties `EngineStartsJustified` and
  `EngineStepsAwait`;
- `EngineWaitersMatchRuns`: each waiter belongs to one suspended run and each
  waiting run has its waiter, which `NoLostWakeup` rests on; no run checks it;
- `EngineRunsAdvance`, the part of `RunsEnd` that is safety (no run checks it): under
  updates, reloads, `stop()` and timers a suspended run stays where it is or gets
  further, and gets further whenever a promise it awaits settles or its wait times
  out. Further means fewer scenes left in the plan, then fewer steps, then a later
  phase of the step. A plan grows when a scene is expanded, so the scenes come first;
  they are counted from the end of the plan (`SceneSteps`), where an expansion
  changes nothing.

`IInv` is the conjunction of those invariants with two that make them
inductive: `ListedHasObject` (an id is listed exactly when it has an object,
without which a timer of an unlisted object could not be excluded) and
`RunsWellFormed` (the phase of a suspended run fits the head of its plan: only a
device step is published or awaited). `OneRunPerObject` needs both directions of
its equivalence: that a flag which is down means that no call is suspended is
what lets `FreeFrame` exist. The step is proved one action at a time;
`ExecuteFacts` and `MaybeScheduleFacts` state once what starting runs preserves.

`GatewayProofs` is about two parts of the gateway. For the scene store it proves,
for any scenes, requests and valid stored lists, `StoreTypeCorrect`, `FileValid`,
`LostOnlyByOverlap`, `ScenesExpand` and `Implementation`: every behaviour of `SceneStore` is, under
the mapping of 2.3, one of `SceneCatalogue`. The invariant adds to the types that
what a request is about to save is a valid edit of the version it read (`Pending`).
The argument that matters is in the lemmas: a deletion does not validate what it
leaves, so it has to be shown that removing a scene with all its dependents, or
one that has none, leaves no reference without its scene. What is lost is shown
from `History`: a request saves the edit of its own base (`Derived`), and a scene
that was put is in every list since, or a later request removed it or saved over it
the list it had read before (`Kept`, `Taken`).

`ScenesExpand` needs what a recursion computes: `Expansion` follows the references of
a scene with the set of scenes it has seen. The recursion has a solution for any set
of scenes, since its right-hand side is monotone in the failures it finds: the least
guess that allows for itself is one (`LeastIsSolution`). What follows is shown of every
solution (`NothingWorse`). In place of an induction over the graph stands the validity
of the list: the scenes whose expansion goes wrong would each refer to another such
scene, and `NoCycle` excludes such a set. `ValidIffExpandable` states it as an
equivalence: for a finite list the validation on saving and the expansion on running
agree.

For the mirror it proves `MirrorTypeCorrect`, `RunsMirror` and `OwnAreasKept`, for
any floorplans, devices, entities, scenes and edits, assuming of the gateway's
files that rooms are on floorplans that exist. `MirrorInv` says that what a run
that nobody interfered with has not before it is right already: `Todo` is what is
left of the stage and all that is due in the stages to come, and `Right` says of
every floor, area, device, file and dashboard outside of it that it is what the
snapshot wants. What earlier runs left half done is in `Todo`, because the lists
were taken from Home Assistant after them.

Two more theorems are about what `BecomesMirrored` says beyond that; no run checks
them. `CallsDwindle`: a run that has its lists makes one of the calls of `Todo` with
every step, or ends, and nothing else adds to them. `MirrorLasts`: when Home Assistant
is what the files say and no run for older files is under way, that stays so through
further runs, failures and restarts until the files change or people edit it. With
`RunsMirror` they leave to the fairness only that calls are made at all.

`DeviceConfigProofs` proves for any devices, microphones, floorplans, drafts and
requests `TypeCorrect`, `PlacementsAreRepaired`, `TypedRoomsStay` and
`SavedPartsStay`. While nothing has disturbed, one request at most is under way
(`Solitary`), and `Ready` says of each of its phases that what it has read is still
so and that what it will write keeps what users were told and follows the
floorplans, unless the reconciliation that is to repair them is still to come. The
hard step is the one that ends a disturbance: a reconciliation that read what it
replaces makes `Undisturbed` true whatever the leftovers were.

About the floorplan page it proves for any plans, devices, rooms, calls and clients
`DraftStaysInOrder` and `StoredIsShown`. `PageInv` says of every call what its answer
will bring (`CallsNamed`, `AnswersSound`: a plan that was served is sound, whatever
became of the file since), that the draft has no device in a room it lacks
(`RoomsExist`), and two things more. Without doubt (`Undoubted`) one call at most is
under way, an answer to it is what the file holds now, and with none the saved plan is
in the file. If the draft was not edited under a call either (`Unhurried`), what is
about to be placed is not on it, nor on the one that is being saved. Edits, calls,
the server and answers have a lemma each (`EditingKeeps`, `SendingKeeps`,
`ServerKeeps`, `AnsweringKeeps`); what an edit does to a plan is stated apart from
the page (`RoomRemoved`, `DeviceMoved`, `DeviceAdded`, `DeviceRemoved`).

`AdapterProofs` has two parts as well. About the store it proves for any devices,
names, entities, messages, overrides and restarts `StoreTypeCorrect`,
`StoreCurrent` and `PlacedByOverrides`, assuming that a list of the bridge gives a
device one name. For the writers of a list `Written`, `Removed` and `Known` say how
far the store has followed it, for Home Assistant `LastEvent`, `PollCurrent` and
`Mirrored` that the last event on its way, or the store, says how an entity is;
`Listed` that what a refresh read is still so unless somebody was noted; `InForce`
that a device which is not `displaced` has the place of the overrides (`Right`) or is
still to be written or removed (`ToWrite`; `Pending` is an endpoint whose panel was
just written). `Following` says that the endpoints being written are those of the
device which has the name, in the list that is followed (`Followed`).
All but the last two are about the devices outside of `stale`.

About the delivery of actions it proves for any devices, orders and microphones
`TrueAnswers` and `AwaitedCommands`, and about the vocabulary `HaUnderstands`,
`SimulatedAlike` and `BrightnessKept`: what is offered is
understood as what was asked, in every number of its range. `DeliveryAssumption` only
gives the constants their types: an order may ask a device for anything, and what is
not as asked is excepted in the property (`Meant`). `IInv` is the
conjunction of `DeliveryTypeOK`, `Fits` (what the device was told and what was
answered fit how far the request is), `Heard` (a command was preceded by the
device's own acknowledgement unless dialogues crossed), `Alone` (a dialogue that
is not marked as crossed is alone) and `Expected` (only a dialogue that listens
is acknowledged). All actions but a few touch one request: the lemma about
`Moves` states once that the others are left as they were.

`AgentProofs` proves for any clients and kinds of inventories
`TurnsSeeWhatArrived` and `StandbyIsNeverForgotten`. `StandbyInv` adds to the types
and the latter: what a turn goes by is at least what it should know
(`ServedSince`); between turns the standby, or the fetch that replaces it, shows what
the next one should (`known`), which the store knows of (`InOrder`); a standby is
there only with the catalogue
of tools (`Catalogued`). That some standby is always there or on its way
(`StandbyIsKept`) is only proved.

`RulesProcessProofs` proves for any switches, bindings, requests and refreshes
`SourcesStayOnce`, `LoopsStayOut` and `RecordedMeansLoaded`. `IInv` adds to the
types that no noted time is ahead of the file's (`Times`), that a request which
was decided on the list as it still is leaves it in order (`Sound`), that this
order holds of every list in force, those on the way to the engine included
(`Once`, `Free`), and that the recorded time is that of the engine's list or of
one a refresh has yet to apply (`Recorded`). What an allowed change does to a
list is stated by `AllowedKeeps`, `OrdinaryKeeps` and `EditKeeps`: a loop in the
new list is one through the new binding, which `Loop` would have found. The
list at the start is assumed to be in order (`FirstFilesAssumption`).

`AgentProofs` also proves for any turns, items, modes and plans of any length
`OfferedIsPending`, `ConfirmedBeforeWritten`, `WrittenOnce` and
`WrittenBeforeReported`. `Fits` says what a turn holds at each stage and that a
call for real was confirmed or needs no confirmation; `Orderly` is the argument
for the offer. For writing once: two calls of one id under way are excused
(`Exclusive`), who is about to write found no entry (`Clear`), and what was
written has an entry or its answer is on the way (`Remembered`). For the report
the cache has to be trusted: an id that was not used again stands for one plan
that some turn has had (`Traced`, `Single`), and an entry under such an id says
that something was written, or passed over if it is not ok (`Cached`), so that a turn
at its end has dealt with all (`Advanced`, `DealtAll`).

`SceneRunProofs` proves for any runs, scenes, goals and devices `TypeCorrect`,
`OkWasEarned`, `AbortIsFinal` and `ConfirmedBeforeAsked`, from the assumptions
of `SceneRun` on its constants. `IInv` adds to the types how far a run is
(`Fits`), that what was published is a step of a run that was accepted and is
not ahead of its report (`Requested`), and that a result, a poll and a report
say ok only of what was carried out (`Honest`): results are matched by device
and action, so honesty is about those and not about requests. In a turn every
run `Follows` itself, which is stated once (`AfterMoves`) and shown action by
action; services touch one request (`ServiceInv`). `RunsOnlyAdvance` is the part of
`RunsEnd` that is safety: every turn of a run takes it further (`Further`: its report
grows by one, or it is at a later phase of the same step, or has one poll less, or has
failed), the report never outgrows the plan, and nothing else moves it.

`VoiceSessionProofs` proves for captures and queues of any length and any number
of faults `TypeCorrect`, `CapturesStayApart` and `AnswersListen`. The invariant
looks at one stream: the audio the server has, the messages under way, and what
the turn sends next. In it every chunk comes after the chunk before it or after an
`audio_start` (`InOrder`), between a chunk and the next `audio_start` there is an
end or a wake word (`Delimited`), and when no turn is in the middle of a capture
and no end is missing, all audio has its end (`AllEnded`). That one turn runs at a
time (`Alone`) is part of it, as long as nothing has mixed. Streams grow at one end
and shrink at the other, which is stated once for each (`OrderGrows`,
`OrderShrinks`, `DelimitedGrows`, `EndsShrink`). The proof found the exception of
2.10: without `unended` the invariant does not hold, nor does the property.

Only model-checked: liveness (`RunsEnd` of both modules, `EngineCatchesUp`,
`BecomesMirrored`, `Settles`, `HearsAgain`), which needs fairness and ENABLED and is
out of the prover's reach. Of the first and the fourth the theorems above prove what
does not: that every step of the kind that fairness grants brings the end nearer. All
safety properties that the runs expect to hold are theorems.

## 6. What is not modelled

Not modelled at all: the local voice satellite (one sequential loop around audio
devices), the LLM bridge (a stateless proxy), the device model (validation of
one document), tools, schema and container wiring. Of the web frontend the
floorplan page is modelled, and as clients of the stores the other pages that hold a
draft while the file changes; forms, drawing and rendering are not. Of the gateway's HTTP API the routes that change
state are steps of the modules of their stores; authorization, the shape of
payloads, uploads of assets and the stateless rules are left out.

Left out of modelled parts: the wording of logs and reasons, ranking scores,
geometry of floorplans, layout of dashboards, `summarizeStatus` (a pure function
of a finished report), metrics and probes, audio engines, codecs and drivers. In
the agent and the MCP server: `wait_for` in a batch, the in-memory session store, the tools that only read. In the adapter:
offline mode, `stop()`, the optional database. In the voice server: the registry file, debugging, and
authorization. In the scene runners: the run table and its expiry.
