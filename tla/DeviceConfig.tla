----------------------------- MODULE DeviceConfig -----------------------------
(***************************************************************************)
(* floorplans.json and devices.config.json of the gateway                  *)
(* (backend/services/api-gateway/src/{floorplan-store,                     *)
(* device-overrides-store,virtual-devices-store,floorplan-coordinates,     *)
(* index}.js and the routes of server.js that write them).                 *)
(*                                                                         *)
(* devices.config.json has three writers: the overrides store (devices and *)
(* voice_control.mics), the virtual devices store (virtual) and the        *)
(* reconciliation of placements after each change of a floorplan and at    *)
(* startup.  Every one reads the whole file, changes its part and writes   *)
(* the whole file back; nothing is locked.  The editor of the frontend     *)
(* loads an override into a draft and saves the draft's placement later.   *)
(***************************************************************************)
EXTENDS Integers, FiniteSets

CONSTANTS
  Devices,
  Mics,        \* the devices that are microphones of voice_control
  Plans,
  Layouts,     \* contents of a floorplan: the room of each device on it, None when off it
  Rooms,       \* names of rooms; "" is no room
  Typed,       \* what a user may type as the room, None for leaving it alone
  Slots,       \* requests in progress at a time
  Files,       \* what devices.config.json may hold at first
  MaxRequests, \* bound: requests and crashes in a behaviour
  None

VARIABLES
  plans,       \* floorplans.json: the layout of each plan, None when there is none
  config,      \* devices.config.json
  req,         \* the requests in progress
  up,          \* the gateway serves requests (it is past its startup)
  count,       \* requests and crashes so far
  disturbed,   \* history: requests overlapped, failed or crashed since the last
               \* reconciliation that read what it then replaced
  asked        \* history: what was acknowledged to users, as long as undisturbed

vars == <<plans, config, req, up, count, disturbed, asked>>

Named == Rooms \cup {""}
Layout == [Devices -> Named \cup {None}]
Meta == [room : Named, manages : BOOLEAN]
Entry == [name : BOOLEAN, room : Named, at : Plans \cup {"none", "manual"}, meta : Meta \cup {None}]
Config == [devices : [Devices -> Entry \cup {None}], mics : [Mics -> Entry], virtual : 0 .. MaxRequests]
Derived == [plan : Plans, room : Named]

Blank == [name |-> FALSE, room |-> "", at |-> "none", meta |-> None]

ASSUME DeviceConfigAssumption ==
  /\ Mics \subseteq Devices /\ "" \notin Rooms /\ Typed \subseteq Named \cup {None}
  /\ Layouts \subseteq Layout /\ Files \subseteq Config
  /\ {"none", "manual"} \cap Plans = {} /\ None \notin Plans \cup Derived \cup Entry
  /\ MaxRequests \in Nat

Kinds == {"plan", "put", "delete", "virtual", "boot"}
Phases == {"idle", "drafted", "saving", "saved", "listed", "loaded", "writing", "mic", "micWriting"}

\* got is what the request read of the config and is going to write back with its
\* changes; map what it read of the plans; typed the room the user typed, None if none.
Request == [kind : Kinds, phase : Phases, plan : Plans \cup {None}, dev : Devices \cup {None},
            next : [Plans -> Layouts \cup {None}], map : [Devices -> Derived \cup {None}],
            draft : Entry, typed : Named \cup {None}, got : Config]

Asked == [room : [Devices -> Rooms \cup {None}], name : SUBSET Devices, virtual : 0 .. MaxRequests]

TypeOK ==
  /\ plans \in [Plans -> Layouts \cup {None}]
  /\ config \in Config
  /\ \A r \in Slots : req[r].phase # "idle" => req[r] \in Request
  /\ up \in BOOLEAN /\ disturbed \in BOOLEAN
  /\ count \in 0 .. MaxRequests
  /\ asked \in Asked

-----------------------------------------------------------------------------
(* Placements.                                                              *)

\* A device is on at most one floorplan.
ValidPlans(ps) ==
  \A d \in Devices : Cardinality({p \in Plans : ps[p] # None /\ ps[p][d] # None}) <= 1

On(ps, p, d) == ps[p] # None /\ ps[p][d] # None

PlacementMap(ps) == [d \in Devices |->
  IF \E p \in Plans : On(ps, p, d)
  THEN LET p == CHOOSE p \in Plans : On(ps, p, d) IN [plan |-> p, room |-> ps[p][d]]
  ELSE None]

\* The room is the one the floorplan gave.
Managed(e) == e.meta # None /\ e.meta.manages /\ e.room = e.meta.room

ApplyOver(e, derived) ==   \* variant: the room of the floorplan wins over the user's
  [e EXCEPT !.at = derived.plan, !.room = IF derived.room # "" THEN derived.room ELSE @,
            !.meta = [room |-> derived.room, manages |-> derived.room # ""]]

\* The room of the floorplan is taken when there is none or the present one came
\* from a floorplan; it is taken away when the floorplan no longer names one.
Apply(e, derived) ==
  LET manages == derived.room # "" /\ (e.room = "" \/ Managed(e))
  IN [e EXCEPT !.at = derived.plan,
               !.room = IF manages THEN derived.room ELSE IF derived.room = "" /\ Managed(e) THEN "" ELSE @,
               !.meta = [room |-> derived.room, manages |-> manages]]

\* The entry of a device that is on no floorplan loses what a floorplan gave it; an
\* entry that is left without content is dropped.
Clean(e) ==
  [e EXCEPT !.at = IF @ \in Plans THEN "none" ELSE @, !.room = IF Managed(e) THEN "" ELSE @, !.meta = None]

KeepUnplaced(e, derived) ==   \* variant: entries that left the floorplans are kept
  IF derived # None THEN Apply(e, derived) ELSE e

Reconciled(e, derived) ==
  IF derived # None THEN Apply(e, derived)
  ELSE IF e.at \in Plans \/ e.meta # None THEN Clean(e) ELSE e

ReconciledConfig(c, map) == [c EXCEPT
  !.devices = [d \in Devices |->
    IF c.devices[d] = None
    THEN IF map[d] # None THEN Apply(Blank, map[d]) ELSE None
    ELSE LET e == Reconciled(c.devices[d], map[d]) IN IF e = Blank THEN None ELSE e],
  !.mics = [m \in Mics |-> Reconciled(c.mics[m], map[m])]]

-----------------------------------------------------------------------------
(* The editor's draft and what saving it does.                              *)

\* The placement of the second is laid over the first; "" and "none" are absent.
Over(a, b) == [a EXCEPT !.room = IF b.room = "" THEN @ ELSE b.room, !.at = IF b.at = "none" THEN @ ELSE b.at]

\* GET /device-overrides/:id; a microphone shows the placement of both entries.
Shown(d) ==
  LET e == IF config.devices[d] = None THEN Blank ELSE config.devices[d]
  IN IF d \in Mics THEN Over(config.mics[d], e) ELSE e

\* The draft's placement and name over the stored override.
Merged(q) ==
  LET e == IF config.devices[q.dev] = None THEN Blank ELSE config.devices[q.dev]
      m == [Over(e, q.draft) EXCEPT !.name = @ \/ q.draft.name]
  IN IF q.typed = None THEN m ELSE [m EXCEPT !.room = q.typed]

-----------------------------------------------------------------------------
(* History.                                                                 *)

InFlight(r) == req[r].phase # "idle"
Others(r) == \E q \in Slots \ {r} : InFlight(q)
NothingAsked == [room |-> [d \in Devices |-> None], name |-> {}, virtual |-> config.virtual]

\* What users may count on from here: what is there when nothing disturbs.
Disturb(b) ==
  /\ disturbed' = (disturbed \/ b)
  /\ IF b THEN asked' = NothingAsked ELSE UNCHANGED asked

-----------------------------------------------------------------------------
(* Requests.                                                                *)

Idle == [phase |-> "idle"]

Begin(r, q) ==
  /\ up /\ req[r].phase = "idle" /\ count < MaxRequests
  /\ count' = count + 1
  /\ req' = [req EXCEPT ![r] = q]
  /\ Disturb(Others(r))

NewRequest(kind, phase) ==
  [kind |-> kind, phase |-> phase, plan |-> None, dev |-> None, next |-> plans, draft |-> Blank,
   map |-> [d \in Devices |-> None], typed |-> None, got |-> config]

\* POST, PUT and DELETE /floorplans: the file is read, the new list validated.
PlanRead(r, p, layout) ==
  LET next == [plans EXCEPT ![p] = layout] IN
  /\ ValidPlans(next)
  /\ layout = None => plans[p] # None
  /\ Begin(r, [NewRequest("plan", "saving") EXCEPT !.plan = p, !.next = next])
  /\ UNCHANGED <<plans, config, up>>

PlanRename(r) ==
  /\ req[r].phase = "saving" /\ req[r].kind = "plan"
  /\ plans' = req[r].next
  /\ req' = [req EXCEPT ![r].phase = "saved"]
  /\ UNCHANGED <<config, up, count, disturbed, asked>>

\* The floorplans are listed and the placements computed from them.
ListPlans(r) ==
  /\ req[r].phase = "saved"
  /\ req' = [req EXCEPT ![r].phase = "listed", ![r].map = PlacementMap(plans)]
  /\ UNCHANGED <<plans, config, up, count, disturbed, asked>>

\* reconcileFloorplanPlacements() has read the config and computed the new one.
Load(r) ==
  /\ req[r].phase = "listed"
  /\ req' = [req EXCEPT ![r].phase = "loaded", ![r].got = ReconciledConfig(config, req[r].map)]
  /\ UNCHANGED <<plans, config, up, count, disturbed, asked>>

\* The reconciled config takes the place of the file.  When nothing else was under
\* way and what was read is still so, whatever had happened before is repaired.
Reconcile(r) ==
  /\ req[r].phase = "loaded"
  /\ config' = req[r].got
  /\ req' = [req EXCEPT ![r] = Idle]
  /\ up' = TRUE
  /\ LET fresh == ~Others(r) /\ req[r].map = PlacementMap(plans)
                    /\ req[r].got = ReconciledConfig(config, req[r].map)
     IN IF disturbed /\ fresh
        THEN disturbed' = FALSE /\ asked' = [NothingAsked EXCEPT !.virtual = config'.virtual]
        ELSE UNCHANGED <<disturbed, asked>>
  /\ UNCHANGED <<plans, count>>

\* The editor loads an override, or the switch panel is about to rename a channel.
Open(r, d, typed) ==
  /\ Begin(r, [NewRequest("put", "drafted") EXCEPT !.dev = d, !.draft = Shown(d), !.typed = typed])
  /\ UNCHANGED <<plans, config, up>>

Rename(r, d) ==
  /\ Begin(r, [NewRequest("put", "drafted") EXCEPT !.dev = d, !.draft.name = TRUE])
  /\ UNCHANGED <<plans, config, up>>

\* PUT /device-overrides/:id: upsert() has read the overrides and merged.
PutRead(r) ==
  /\ req[r].phase = "drafted"
  /\ req' = [req EXCEPT ![r].phase = "saving", ![r].got.devices = [config.devices EXCEPT ![req[r].dev] = Merged(req[r])]]
  /\ UNCHANGED <<plans, config, up, count, disturbed, asked>>

DeleteRead(r, d) ==
  /\ config.devices[d] # None
  /\ Begin(r, [NewRequest("delete", "saving") EXCEPT !.dev = d, !.got.devices[d] = None])
  /\ UNCHANGED <<plans, config, up>>

SaveLoadNothing(r) ==   \* variant: the file is written with the devices alone
  /\ req[r].phase = "saving" /\ req[r].kind \in {"put", "delete"}
  /\ req' = [req EXCEPT ![r].phase = "writing", ![r].got.virtual = 0]
  /\ UNCHANGED <<plans, config, up, count, disturbed, asked>>

\* save() reads the file once more for everything but the devices.
SaveLoad(r) ==
  /\ req[r].phase = "saving" /\ req[r].kind \in {"put", "delete"}
  /\ req' = [req EXCEPT ![r].phase = "writing", ![r].got = [config EXCEPT !.devices = req[r].got.devices]]
  /\ UNCHANGED <<plans, config, up, count, disturbed, asked>>

\* What the user may now count on: a room that is not the one of a floorplan.
Promised(q) ==
  LET e == q.got.devices[q.dev]
      own == e.room # "" /\ ~Managed(e)
  IN IF q.kind = "delete" THEN [asked EXCEPT !.room[q.dev] = None, !.name = @ \ {q.dev}]
     ELSE [asked EXCEPT !.name = IF e.name THEN @ \cup {q.dev} ELSE @,
                        !.room[q.dev] = IF own /\ q.typed \in Rooms THEN q.typed
                                        ELSE IF q.typed = None THEN @ ELSE None]

SaveRename(r) ==
  /\ req[r].phase = "writing" /\ req[r].kind \in {"put", "delete"}
  /\ config' = req[r].got
  /\ req' = [req EXCEPT ![r] = IF req[r].kind = "put" /\ req[r].dev \in Mics THEN [req[r] EXCEPT !.phase = "mic"] ELSE Idle]
  /\ IF disturbed THEN UNCHANGED asked ELSE asked' = Promised(req[r])
  /\ UNCHANGED <<plans, up, count, disturbed>>

\* upsertVoiceMic(): a second read and write of the whole file.
MicRead(r) ==
  LET q == req[r] IN
  /\ q.phase = "mic"
  /\ req' = [req EXCEPT ![r].phase = "micWriting",
       ![r].got = [config EXCEPT !.mics[q.dev] = Over(@, q.got.devices[q.dev])]]
  /\ UNCHANGED <<plans, config, up, count, disturbed, asked>>

MicRename(r) ==
  /\ req[r].phase = "micWriting"
  /\ config' = req[r].got
  /\ req' = [req EXCEPT ![r] = Idle]
  /\ UNCHANGED <<plans, up, count, disturbed, asked>>

\* saveConfig, upsert, delete and the models: the whole file is read and its part
\* for the virtual devices changed.
VirtualRead(r) ==
  /\ Begin(r, [NewRequest("virtual", "writing") EXCEPT !.got.virtual = count + 1])
  /\ UNCHANGED <<plans, config, up>>

\* saveRoot(), after which the route has its answer.
VirtualRename(r) ==
  /\ req[r].phase = "writing" /\ req[r].kind = "virtual"
  /\ config' = req[r].got
  /\ req' = [req EXCEPT ![r] = Idle]
  /\ IF disturbed THEN UNCHANGED asked ELSE asked' = [asked EXCEPT !.virtual = config'.virtual]
  /\ UNCHANGED <<plans, up, count, disturbed>>

\* A read or write fails: the request is answered with an error, or the startup
\* goes on without reconciling.  A saved floorplan stays.  A draft is left unsaved.
Fails(r) ==
  /\ InFlight(r)
  /\ up' = TRUE
  /\ Disturb(req[r].phase \in {"saved", "listed", "loaded", "mic", "micWriting"})
  /\ req' = [req EXCEPT ![r] = Idle]
  /\ UNCHANGED <<plans, config, count>>

\* The gateway stops; it starts with a reconciliation, before it serves requests.
Crash(r) ==
  /\ count < MaxRequests /\ count' = count + 1
  /\ Disturb(\E q \in Slots : InFlight(q))
  /\ up' = FALSE
  /\ req' = [q \in Slots |-> IF q = r THEN NewRequest("boot", "saved") ELSE Idle]
  /\ UNCHANGED <<plans, config>>

Init ==
  /\ plans \in {ps \in [Plans -> Layouts \cup {None}] : ValidPlans(ps)}
  /\ config \in Files
  /\ \E r \in Slots : req = [q \in Slots |-> IF q = r THEN NewRequest("boot", "saved") ELSE Idle]
  /\ up = FALSE /\ count = 0 /\ disturbed = TRUE /\ asked = NothingAsked

Next == \E r \in Slots :
  \/ \E p \in Plans, layout \in Layouts \cup {None} : PlanRead(r, p, layout)
  \/ PlanRename(r) \/ ListPlans(r) \/ Load(r) \/ Reconcile(r)
  \/ \E d \in Devices :
       \/ \E typed \in Typed : Open(r, d, typed)
       \/ Rename(r, d)
       \/ DeleteRead(r, d)
  \/ PutRead(r) \/ SaveLoad(r) \/ SaveRename(r)
  \/ MicRead(r) \/ MicRename(r)
  \/ VirtualRead(r) \/ VirtualRename(r)
  \/ Fails(r) \/ Crash(r)

Spec == Init /\ [][Next]_vars

-----------------------------------------------------------------------------
(* Properties.                                                              *)

Quiet == ~disturbed /\ \A r \in Slots : ~InFlight(r)

\* An entry claims a position or a room of a floorplan only as the floorplan gives it.
FollowsPlans(e, d) ==
  LET derived == PlacementMap(plans)[d] IN
  /\ e.at \in Plans => derived # None /\ derived.plan = e.at
  /\ e.meta # None => derived # None /\ e.meta.room = derived.room

\* Whatever overlapped, failed or crashed before: after one reconciliation that
\* nothing disturbs, at startup or after a change of a floorplan, no entry and no
\* microphone holds on to a floorplan it is not on, or to a room of that name, and
\* this lasts as long as requests do not overlap.
PlacementsRepaired == Quiet =>
  /\ \A d \in Devices : config.devices[d] # None => FollowsPlans(config.devices[d], d)
  /\ \A m \in Mics : FollowsPlans(config.mics[m], m)

\* A room that a user typed in place of the floorplan's stays through any change of
\* floorplans and any restart.
TypedRoomKept == Quiet =>
  \A d \in Devices : asked.room[d] # None => config.devices[d] # None /\ config.devices[d].room = asked.room[d]

\* What was saved in one part of devices.config.json survives the writes of the
\* others: the names of overrides and the virtual devices.
SavedPartsKept == Quiet =>
  /\ config.virtual = asked.virtual
  /\ \A d \in asked.name : config.devices[d] # None /\ config.devices[d].name
=============================================================================
