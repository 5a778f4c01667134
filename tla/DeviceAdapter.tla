----------------------------- MODULE DeviceAdapter -----------------------------
(***************************************************************************)
(* How the device adapter keeps the device store                           *)
(* (backend/services/device-adapter/src/adapter.js, ha.js, store.js).      *)
(*                                                                         *)
(* Three writers meet in the store: the messages of Zigbee2MQTT, one after *)
(* another; the events of Home Assistant and the polls of its states,      *)
(* which may overlap; and the refresh that applies a changed overrides     *)
(* file to a list of devices it read before.  Commands to the store keep   *)
(* their order, so reading and writing what depends on it are steps where  *)
(* the code sends them.                                                    *)
(*                                                                         *)
(* A device has one id, one trait and one placement.  A panel, a device    *)
(* with several relays, is stored with an endpoint for each: they are      *)
(* written after it, one after another, and a placement that the file      *)
(* gives the panel is theirs too, unless it gives them their own.  With    *)
(* one trait pendingZigbeeStates never differs from zigbeeStateByFriendly. *)
(***************************************************************************)
EXTENDS Integers, Sequences

CONSTANTS
  Zigbee,      \* Zigbee devices
  Endpoints,   \* the relay channels of those that are panels
  PanelOf,     \* whose they are
  Entities,    \* Home Assistant entities
  Names,       \* friendly names
  Nets,        \* what names the devices may have, [Names -> Zigbee or None]
  Values,      \* what a device may report
  Files,       \* contents of the overrides file, [Ids -> placements] or Broken
  Broken,      \* a file that is missing or no JSON
  Places,
  None,
  MaxQueue,    \* bound: MQTT messages that wait, events on the way
  MaxEdits,    \* bound: edits of the file
  MaxChanges,  \* bound: state changes of devices
  MaxMoves,    \* bound: devices renamed, paired or removed
  MaxFaults    \* bound: restarts and lost sockets

VARIABLES
  mode,        \* MODE, and whether HA_POLL_INTERVAL_MS is set
  file, mtime,
  overrides,   \* deviceOverrides
  seen,        \* deviceOverridesLastMtimeMs
  refresh,     \* refreshDeviceOverridesIfChanged under way
  store,
  net,         \* Zigbee2MQTT's devices by friendly name
  real,        \* the state each device is in
  queue,       \* mqttMessageQueue
  job,         \* syncZigbeeDevices under way
  panel,       \* the panel whose endpoints are being written, and the placement the
               \* overrides gave it when that began
  known,       \* zigbeeDevicesByFriendly
  stateOf,     \* zigbeeStateByFriendly
  socket, wire, polls,   \* the subscription, its events, syncHaOnce under way
  stale,       \* (history) devices a refresh or a poll wrote from an outdated copy, or
               \* that changed while Home Assistant was not subscribed to
  displaced,   \* (history) endpoints written with a placement of their panel that the
               \* overrides had changed since
  edits, changes, moves, faults

shared == <<file, mtime, overrides, seen, refresh>>
zig == <<net, queue, job, panel, known, stateOf>>
ha == <<socket, wire, polls>>
bounds == <<edits, changes, moves, faults>>
history == <<stale, displaced>>
vars == <<mode, shared, store, zig, real, ha, history, bounds>>

Things == Zigbee \cup Entities
Ids == Things \cup Endpoints
Z2M == Zigbee \cup Endpoints
Device == [traits : Values \cup {None}, place : Places \cup {None}]
Map == [Ids -> Places \cup {None}]
Stored == [Ids -> Device \cup {None}]
Net == [Names -> Zigbee \cup {None}]
Slots == 1 .. 2
Idle == [phase |-> "idle"]
Refresh == {Idle, [phase |-> "load"], [phase |-> "list"]}
             \cup [phase : {"write"}, list : Stored, left : SUBSET Ids, touched : SUBSET Ids]
Job == {Idle} \cup [phase : {"write", "remove"}, net : Net, list : Stored, left : SUBSET (Names \cup Z2M)]
Panel == {Idle} \cup [phase : {"endpoints"}, name : Names, left : SUBSET Endpoints,
                     given : Places \cup {None}, place : Places \cup {None}]
Poll == {Idle} \cup [phase : {"write"}, states : [Entities -> Values], left : SUBSET Entities, touched : SUBSET Ids]
Message == [kind : {"devices"}, net : Net] \cup [kind : {"state"}, name : Names, value : Values]

ASSUME AdapterAssumption ==
  /\ Files \subseteq Map \cup {Broken} /\ Files # {Broken}
  /\ Nets \subseteq Net /\ \A n \in Nets, f, g \in Names : n[f] # None /\ n[f] = n[g] => f = g
  /\ PanelOf \in [Endpoints -> Zigbee] /\ Endpoints \cap Things = {}
  /\ Values # {} /\ Broken \notin Map /\ None \notin Values \cup Places \cup Ids \cup Device
  /\ {MaxQueue, MaxEdits, MaxChanges, MaxMoves, MaxFaults} \subseteq Nat

TypeOK ==
  /\ mode \in [source : {"mqtt", "ha"}, polling : BOOLEAN]
  /\ file \in Files /\ mtime \in Nat /\ overrides \in Map /\ seen \in Nat /\ seen <= mtime
  /\ refresh \in Refresh /\ store \in Stored
  /\ net \in Net /\ real \in [Things -> Values] /\ queue \in Seq(Message)
  /\ job \in Job /\ panel \in Panel
  /\ known \in Net /\ stateOf \in [Names -> Values \cup {None}]
  /\ socket \in {"down", "first", "again", "open"}
  /\ wire \in Seq([id : Entities, value : Values]) /\ polls \in [Slots -> Poll]
  /\ stale \subseteq Ids /\ displaced \subseteq Endpoints

-----------------------------------------------------------------------------
(* The store.                                                               *)

\* The device whose messages are about d.
BaseOf(d) == IF d \in Endpoints THEN PanelOf[d] ELSE d
EndpointsOf(d) == {c \in Endpoints : PanelOf[c] = d}

\* The placement a file gives d: what it says of d, else of its panel.
Wanted(given, d) == IF given[d] # None THEN given[d] ELSE given[BaseOf(d)]

PlacedFirst(d, existing) ==   \* variant: the placement that is there wins
  IF existing # None /\ existing.place # None THEN existing.place ELSE Wanted(overrides, d)
\* applyDeviceOverrides: a placement in the file wins, else the one there is stays.
Placed(d, existing) ==
  IF Wanted(overrides, d) # None THEN Wanted(overrides, d) ELSE IF existing = None THEN None ELSE existing.place

\* The write of d is noted in the lists that others have read.
Note(record, d) == IF record.phase = "write" THEN [record EXCEPT !.touched = @ \cup {d}] ELSE record
Touch(d) == refresh' = Note(refresh, d)
TouchAll(d) == Touch(d) /\ polls' = [s \in Slots |-> Note(polls[s], d)]

\* A list that was read before someone else wrote d makes its write of d outdated.
Outdated(d, touched) == stale' = IF d \in touched THEN stale \cup {d} ELSE stale

-----------------------------------------------------------------------------
(* The overrides file.                                                      *)

EditFile(f) ==
  /\ f # file /\ edits < MaxEdits /\ edits' = edits + 1
  /\ file' = f /\ mtime' = mtime + 1
  /\ UNCHANGED <<mode, overrides, seen, refresh, store, zig, real, ha, history, changes, moves, faults>>

\* The modification time is recorded before the file is read.
RefreshStarts ==
  /\ refresh = Idle /\ mtime # seen
  /\ seen' = mtime /\ refresh' = [phase |-> "load"]
  /\ UNCHANGED <<mode, file, mtime, overrides, store, zig, real, ha, history, bounds>>

\* A missing or broken file is an error (the handler in loadDeviceOverrides refers to
\* a name that is out of scope): the overrides stay as they were.
RefreshLoads ==
  /\ refresh.phase = "load"
  /\ IF file = Broken
     THEN refresh' = Idle /\ UNCHANGED overrides
     ELSE overrides' = file /\ refresh' = [phase |-> "list"]
  /\ UNCHANGED <<mode, file, mtime, seen, store, zig, real, ha, history, bounds>>

RefreshListsUnplaced ==   \* variant: devices that have a placement are passed over
  /\ refresh.phase = "list"
  /\ LET left == {d \in Ids : store[d] # None /\ store[d].place = None}
     IN refresh' = IF left = {} THEN Idle
                   ELSE [phase |-> "write", list |-> store, left |-> left, touched |-> {}]
  /\ UNCHANGED <<mode, file, mtime, overrides, seen, store, zig, real, ha, history, bounds>>

RefreshLists ==
  /\ refresh.phase = "list"
  /\ LET left == {d \in Ids : store[d] # None}
     IN refresh' = IF left = {} THEN Idle
                   ELSE [phase |-> "write", list |-> store, left |-> left, touched |-> {}]
  /\ UNCHANGED <<mode, file, mtime, overrides, seen, store, zig, real, ha, history, bounds>>

RefreshWrites(d) ==
  /\ refresh.phase = "write" /\ d \in refresh.left
  /\ store' = [store EXCEPT ![d] = [traits |-> refresh.list[d].traits, place |-> Placed(d, refresh.list[d])]]
  /\ refresh' = IF refresh.left = {d} THEN Idle ELSE [refresh EXCEPT !.left = @ \ {d}]
  /\ polls' = [s \in Slots |-> Note(polls[s], d)]
  /\ Outdated(d, refresh.touched) /\ displaced' = displaced \ {d}
  /\ UNCHANGED <<mode, file, mtime, overrides, seen, zig, real, socket, wire, bounds>>

-----------------------------------------------------------------------------
(* Zigbee2MQTT.                                                             *)

NameOf(n, d) == {f \in Names : n[f] = d}
Send(m) == Len(queue) < MaxQueue /\ queue' = Append(queue, m)

\* A device reports its state under its name, a new one or once more.
Report(d) ==
  /\ mode.source = "mqtt" /\ Len(queue) < MaxQueue
  /\ \E f \in NameOf(net, d) : Send([kind |-> "state", name |-> f, value |-> real[d]])
  /\ UNCHANGED <<mode, shared, store, net, job, panel, known, stateOf, real, ha, history, bounds>>

Changes(d, v) ==
  /\ changes < MaxChanges /\ changes' = changes + 1
  /\ real[d] # v /\ real' = [real EXCEPT ![d] = v]

DeviceChanges(d, v) ==
  /\ mode.source = "mqtt"
  /\ Changes(d, v)
  /\ \E f \in NameOf(net, d) : Send([kind |-> "state", name |-> f, value |-> v])
  /\ UNCHANGED <<mode, shared, store, net, job, panel, known, stateOf, ha, history, edits, moves, faults>>

\* Devices are paired, removed or renamed: the whole list is published.
Rearrange(n) ==
  /\ mode.source = "mqtt" /\ moves < MaxMoves /\ moves' = moves + 1
  /\ n # net
  /\ Send([kind |-> "devices", net |-> n]) /\ net' = n
  /\ UNCHANGED <<mode, shared, store, job, panel, known, stateOf, real, ha, history, edits, changes, faults>>

Next1(kind) ==
  mode.source = "mqtt" /\ job = Idle /\ panel = Idle /\ queue # <<>> /\ Head(queue).kind = kind

\* The placement that the overrides give a panel is looked up once, as the panel is
\* written; its endpoints follow, each after an answer of the store.
Begins(f, d, existing) ==
  panel' = IF EndpointsOf(d) = {} THEN Idle
           ELSE [phase |-> "endpoints", name |-> f, left |-> EndpointsOf(d),
                 given |-> overrides[d], place |-> Placed(d, existing)]

SyncTraitsExisting(f, d, existing) ==   \* variant: the traits in the store win over the state kept for the name
  IF existing # None THEN existing.traits ELSE stateOf[f]

\* The traits of d, whose messages come under name f; a panel keeps none.
SyncTraits(f, d, existing) ==
  IF stateOf[f] # None \/ existing = None \/ EndpointsOf(d) # {} THEN stateOf[f] ELSE existing.traits

\* The endpoint's own placement is looked up when it is written.
Inherited(c, existing) ==
  CASE overrides[c] # None -> overrides[c]
    [] overrides[c] = None /\ panel.given # None -> panel.given
    [] OTHER -> IF existing = None THEN panel.place ELSE existing.place

WriteEndpoint(c) ==
  /\ panel # Idle /\ c \in panel.left
  /\ LET f == panel.name
         existing == IF job = Idle THEN store[c] ELSE job.list[c]
     IN /\ store' = [store EXCEPT ![c] = [traits |-> SyncTraits(f, c, existing), place |-> Inherited(c, existing)]]
        /\ Touch(c) /\ stale' = IF stateOf[f] # None THEN stale \ {c} ELSE stale
  /\ displaced' = IF overrides[c] = None /\ panel.given # overrides[PanelOf[c]]
                  THEN displaced \cup {c} ELSE displaced \ {c}
  /\ panel' = IF panel.left = {c} THEN Idle ELSE [panel EXCEPT !.left = @ \ {c}]
  /\ UNCHANGED <<mode, file, mtime, overrides, seen, net, queue, job, known, stateOf, real, ha, bounds>>

\* updateZigbeeState: the state of a name that is not known waits for the list.
HandleState ==
  /\ Next1("state") /\ queue' = Tail(queue)
  /\ LET m == Head(queue)
         d == known[m.name]
     IN /\ stateOf' = [stateOf EXCEPT ![m.name] = m.value]
        /\ IF d = None
           THEN UNCHANGED <<store, refresh, stale, panel>>
           ELSE /\ store' = [store EXCEPT ![d] = [traits |-> m.value, place |-> Placed(d, store[d])]]
                /\ Touch(d) /\ stale' = stale \ {d}
                /\ Begins(m.name, d, store[d])
  /\ UNCHANGED <<mode, file, mtime, overrides, seen, net, job, known, real, ha, displaced, bounds>>

\* syncZigbeeDevices: the list of the store is read once ...
SyncLists ==
  /\ Next1("devices")
  /\ job' = [phase |-> "write", net |-> Head(queue).net, list |-> store,
             left |-> {f \in Names : Head(queue).net[f] # None}]
  /\ UNCHANGED <<mode, shared, store, net, queue, panel, known, stateOf, real, ha, history, bounds>>

\* ... each device is written, and its endpoints before the next one ...
SyncWrites(f) ==
  /\ job.phase = "write" /\ panel = Idle /\ f \in job.left
  /\ LET d == job.net[f]
     IN /\ store' = [store EXCEPT ![d] = [traits |-> SyncTraits(f, d, job.list[d]), place |-> Placed(d, job.list[d])]]
        /\ Touch(d) /\ stale' = IF stateOf[f] # None THEN stale \ {d} ELSE stale
        /\ Begins(f, d, job.list[d])
  /\ job' = [job EXCEPT !.left = @ \ {f}]
  /\ UNCHANGED <<mode, file, mtime, overrides, seen, net, queue, known, stateOf, real, ha, displaced, bounds>>

SyncEnds == job' = Idle /\ queue' = Tail(queue)

\* ... the names are replaced ...
SyncKnows ==
  /\ job.phase = "write" /\ panel = Idle /\ job.left = {}
  /\ known' = job.net
  /\ LET left == {d \in Z2M : job.list[d] # None /\ NameOf(job.net, BaseOf(d)) = {}}
     IN IF left = {} THEN SyncEnds
        ELSE job' = [job EXCEPT !.phase = "remove", !.left = left] /\ UNCHANGED queue
  /\ UNCHANGED <<mode, shared, store, net, panel, stateOf, real, ha, history, bounds>>

\* ... and what the list had besides is removed.
SyncRemoves(d) ==
  /\ job.phase = "remove" /\ d \in job.left
  /\ store' = [store EXCEPT ![d] = None]
  /\ Touch(d) /\ stale' = stale \ {d} /\ displaced' = displaced \ {d}
  /\ IF job.left = {d} THEN SyncEnds ELSE job' = [job EXCEPT !.left = @ \ {d}] /\ UNCHANGED queue
  /\ UNCHANGED <<mode, file, mtime, overrides, seen, net, panel, known, stateOf, real, ha, bounds>>

-----------------------------------------------------------------------------
(* Home Assistant.                                                          *)

Missed(E) ==
  /\ stale' = stale \cup E
  /\ polls' = [s \in Slots |-> IF polls[s] = Idle THEN Idle ELSE [polls[s] EXCEPT !.touched = @ \cup E]]

EntityChanges(e, v) ==
  /\ mode.source = "ha"
  /\ Changes(e, v)
  /\ IF socket = "open"
     THEN Len(wire) < MaxQueue /\ wire' = Append(wire, [id |-> e, value |-> v]) /\ UNCHANGED <<polls, stale>>
     ELSE Missed({e}) /\ UNCHANGED wire
  /\ UNCHANGED <<mode, shared, store, zig, socket, displaced, edits, moves, faults>>

\* connectHaWs has subscribed; nothing is fetched for what happened before.
SocketOpens ==
  /\ socket \in {"first", "again"}
  /\ socket' = "open"
  /\ UNCHANGED <<mode, shared, store, zig, real, wire, polls, history, bounds>>

\* onDisconnected: the retry loop connects again.
SocketLost ==
  /\ socket = "open" /\ faults < MaxFaults /\ faults' = faults + 1
  /\ socket' = "again" /\ wire' = <<>>
  /\ Missed({wire[n].id : n \in 1 .. Len(wire)})
  /\ UNCHANGED <<mode, shared, store, zig, real, displaced, edits, changes, moves>>

Upsert(e, v) == store' = [store EXCEPT ![e] = [traits |-> v, place |-> Placed(e, store[e])]]

HandleEvent ==
  /\ wire # <<>> /\ wire' = Tail(wire)
  /\ Upsert(Head(wire).id, Head(wire).value)
  /\ TouchAll(Head(wire).id) /\ stale' = stale \ {Head(wire).id}
  /\ UNCHANGED <<mode, file, mtime, overrides, seen, zig, real, socket, displaced, bounds>>

\* syncHaOnce of the interval, which starts after the first subscription, has the
\* answer; an earlier one may be under way.
PollAnswered(s) ==
  /\ mode.source = "ha" /\ mode.polling /\ socket \in {"again", "open"} /\ polls[s] = Idle
  /\ polls' = [polls EXCEPT ![s] = [phase |-> "write", states |-> [e \in Entities |-> real[e]],
                                    left |-> Entities, touched |-> {}]]
  /\ UNCHANGED <<mode, shared, store, zig, real, socket, wire, history, bounds>>

PollWrites(s, e) ==
  /\ polls[s].phase = "write" /\ e \in polls[s].left
  /\ Upsert(e, polls[s].states[e])
  /\ polls' = [t \in Slots |->
       IF t # s THEN Note(polls[t], e)
       ELSE IF polls[s].left = {e} THEN Idle ELSE [polls[s] EXCEPT !.left = @ \ {e}]]
  /\ Touch(e)
  /\ stale' = IF e \in polls[s].touched THEN stale \cup {e} ELSE stale \ {e}
  /\ socket' = IF socket = "down" /\ polls[s].left = {e} THEN "first" ELSE socket
  /\ UNCHANGED <<mode, file, mtime, overrides, seen, zig, real, wire, displaced, bounds>>

-----------------------------------------------------------------------------

\* start() loads the overrides; it fails when it cannot, and the process ends.  In mode
\* ha a first syncHaOnce precedes the subscription; in mode mqtt Zigbee2MQTT's list is retained.
Started ==
  /\ file # Broken
  /\ overrides' = file /\ seen' = mtime /\ refresh' = Idle
  /\ job' = Idle /\ panel' = Idle /\ known' = [f \in Names |-> None] /\ stateOf' = [f \in Names |-> None]
  /\ queue' = IF mode.source = "mqtt" THEN <<[kind |-> "devices", net |-> net]>> ELSE <<>>
  /\ socket' = "down" /\ wire' = <<>>
  /\ polls' = [s \in Slots |-> IF mode.source = "ha" /\ s = 1
                 THEN [phase |-> "write", states |-> [e \in Entities |-> real[e]], left |-> Entities, touched |-> {}]
                 ELSE Idle]

Restart ==
  /\ faults < MaxFaults /\ faults' = faults + 1
  /\ Started
  /\ UNCHANGED <<mode, file, mtime, store, net, real, history, edits, changes, moves>>

\* The adapter has started; the file may have been broken since.
Init ==
  /\ mode \in [source : {"mqtt", "ha"}, polling : BOOLEAN] /\ (mode.source = "mqtt" => ~mode.polling)
  /\ overrides \in Files \ {Broken} /\ file \in Files \cap {overrides, Broken}
  /\ mtime = 0 /\ seen = 0 /\ refresh = Idle
  /\ store = [d \in Ids |-> None]
  /\ net \in Nets /\ real = [d \in Things |-> CHOOSE v \in Values : TRUE]
  /\ queue = IF mode.source = "mqtt" THEN <<[kind |-> "devices", net |-> net]>> ELSE <<>>
  /\ job = Idle /\ panel = Idle /\ known = [f \in Names |-> None] /\ stateOf = [f \in Names |-> None]
  /\ socket = "down" /\ wire = <<>>
  /\ polls = [s \in Slots |-> IF mode.source = "ha" /\ s = 1
                THEN [phase |-> "write", states |-> [e \in Entities |-> real[e]], left |-> Entities, touched |-> {}]
                ELSE Idle]
  /\ stale = {} /\ displaced = {} /\ edits = 0 /\ changes = 0 /\ moves = 0 /\ faults = 0

RefreshStep == RefreshStarts \/ RefreshLoads \/ RefreshLists \/ \E d \in Ids : RefreshWrites(d)
QueueStep ==
  \/ HandleState \/ SyncLists \/ SyncKnows
  \/ \E f \in Names : SyncWrites(f)
  \/ \E c \in Endpoints : WriteEndpoint(c)
  \/ \E d \in Z2M : SyncRemoves(d)
PollStep(s) == PollAnswered(s) \/ \E e \in Entities : PollWrites(s, e)

Next ==
  \/ \E f \in Files : EditFile(f)
  \/ RefreshStep \/ QueueStep
  \/ \E d \in Zigbee : Report(d) \/ \E v \in Values : DeviceChanges(d, v)
  \/ \E n \in Nets : Rearrange(n)
  \/ \E e \in Entities, v \in Values : EntityChanges(e, v)
  \/ SocketOpens \/ SocketLost \/ HandleEvent
  \/ \E s \in Slots : PollStep(s)
  \/ Restart

\* The adapter's timers and queues go on; a device reports again and again.
Fairness ==
  /\ WF_vars(RefreshStep) /\ WF_vars(QueueStep) /\ WF_vars(HandleEvent) /\ WF_vars(SocketOpens)
  /\ \A s \in Slots : WF_vars(PollStep(s))
  /\ \A d \in Zigbee : SF_vars(Report(d))

Spec == Init /\ [][Next]_vars /\ Fairness

-----------------------------------------------------------------------------
(* Properties.                                                              *)

Quiet == queue = <<>> /\ job = Idle /\ panel = Idle /\ socket \in (IF mode.source = "ha" THEN {"first", "again", "open"} ELSE {"down"})

InPlace(d) ==
  file # Broken /\ store[d] # None /\ Wanted(file, d) # None => store[d].place = Wanted(file, d)

Awaited(e) == (\E n \in 1 .. Len(wire) : wire[n].id = e) \/ \E s \in Slots : polls[s] # Idle /\ e \in polls[s].left

\* When nothing is on its way, the store has the Zigbee devices of the list and their
\* endpoints, each with the state last published under its name, and each entity in the state it is in; only
\* a device written from an outdated copy, or missed while unsubscribed, may differ.
CurrentUnlessOverlapped ==
  Quiet =>
    /\ mode.source = "mqtt" => \A d \in Z2M \ stale :
         /\ store[d] # None <=> NameOf(known, BaseOf(d)) # {}
         /\ \A f \in NameOf(known, BaseOf(d)) : stateOf[f] # None => store[d].traits = stateOf[f]
    /\ mode.source = "ha" => \A e \in Entities \ stale : ~Awaited(e) => store[e].traits = real[e]

\* When the refresh has caught up with a valid file, no device in the store has another
\* placement than the file gives it or its panel, whatever was written while it was under
\* way.  Excepted are endpoints of a panel that began to be written before the file's
\* placement of the panel was loaded: they are put where the panel was, and left there.
OverridesInForce ==
  Quiet /\ refresh = Idle /\ seen = mtime /\ file # Broken =>
    \A d \in Ids \ displaced : InPlace(d)

\* What a refresh or a reconnection made outdated or put back does not stay: a Zigbee
\* device that goes on reporting with its endpoints, and with polling every entity, is in
\* the end shown as it is and where the file says.
Settles ==
  <>[](/\ \A d \in Z2M : mode.source = "mqtt" /\ NameOf(net, BaseOf(d)) # {} =>
            store[d] # None /\ store[d].traits = real[BaseOf(d)] /\ InPlace(d)
       /\ mode.polling => \A e \in Entities : store[e] # None /\ store[e].traits = real[e] /\ InPlace(e))
=============================================================================
