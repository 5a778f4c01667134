------------------------------- MODULE HaMirror -------------------------------
(***************************************************************************)
(* The mirror of floorplans and scenes in Home Assistant                   *)
(* (backend/services/api-gateway/src/ha-sync.js, class HaSyncService and   *)
(* its websocket client).                                                  *)
(*                                                                         *)
(* A run takes a snapshot of the gateway's files, lists the registries of  *)
(* Home Assistant once and then makes one call after another: floors,      *)
(* areas, areas of devices, generated files, dashboards, reload.  Any call *)
(* may fail or lose its answer; the next run starts over.  A change arms a *)
(* debounce timer; what asks for a run while one is under way starts none. *)
(* Entries of Home Assistant that are not marked as managed are never in   *)
(* the lists the code compares with; of those only the area a person gave  *)
(* a device ("own") is kept here.  A floorplan has one room at most.       *)
(***************************************************************************)
EXTENDS Integers, FiniteSets

CONSTANTS
  Plans,
  Names,
  Entities,    \* Home Assistant entities of the gateway's devices
  HaDevices,
  DeviceOf,    \* [Entities -> HaDevices]
  Scenes,      \* scenes that become Home Assistant scenes or scripts
  KindOf,      \* [Scenes -> {"scene", "script"}]
  Locals,      \* what the gateway's files may hold
  MaxChanges,  \* bound: changes of the files
  MaxFaults,   \* bound: failed calls, lost answers, restarts, silent servers
  MaxEdits,    \* bound: edits by people in Home Assistant
  None

VARIABLES
  local,       \* floorplans.json, scenes.json and the device store
  ha,          \* Home Assistant
  run,         \* the run under way: stage, calls left, snapshot, lists
  debounce,    \* the debounce timer is armed
  changes, faults, edits

vars == <<local, ha, run, debounce, changes, faults, edits>>

Kinds == {"scene", "script"}
Local == [plans : [Plans -> Names \cup {None}], rooms : [Plans -> Names \cup {None}],
          at : [Entities -> Plans \cup {None}], scenes : SUBSET Scenes]
Area == [name : Names, floor : BOOLEAN]
Shown == [entities : SUBSET Entities, scenes : SUBSET Scenes]
Board == [title : Names, shows : Shown \cup {None}]
Ha == [floors : [Plans -> Names \cup {None}], areas : [Plans -> Area \cup {None}],
       area : [HaDevices -> Plans \cup {"own", None}], boards : [Plans -> Board \cup {None}],
       files : [Kinds -> SUBSET Scenes], loaded : [Kinds -> SUBSET Scenes]]

ASSUME HaMirrorAssumption ==
  /\ Locals \subseteq Local
  /\ DeviceOf \in [Entities -> HaDevices] /\ KindOf \in [Scenes -> Kinds]
  /\ \A l \in Locals, p \in Plans : l.plans[p] = None => l.rooms[p] = None   \* rooms are on floorplans
  /\ None \notin Plans \cup Names \cup Area \cup Board /\ "own" \notin Plans \cup {None}
  /\ MaxChanges \in Nat /\ MaxFaults \in Nat /\ MaxEdits \in Nat

Stages == <<"floors", "areas", "devices", "files", "boards", "reload">>
Idle == [stage |-> "idle"]
Hung == [stage |-> "hung"]
Parts == {"title", "config"}
Items == Plans \cup Entities \cup Kinds \cup (Plans \X Parts)
Running == [stage : {"connect"} \cup {Stages[n] : n \in 1 .. 6}, left : SUBSET Items, snap : Local, seen : Ha, edited : BOOLEAN]

TypeOK ==
  /\ local \in Local /\ ha \in Ha
  /\ run \in {Idle, Hung} \/ run \in Running
  /\ debounce \in BOOLEAN
  /\ changes \in 0 .. MaxChanges /\ faults \in 0 .. MaxFaults /\ edits \in 0 .. MaxEdits

-----------------------------------------------------------------------------
(* What is wanted of Home Assistant, and the calls that are due.            *)

WantedArea(l, p) == IF l.rooms[p] = None THEN None ELSE [name |-> l.rooms[p], floor |-> TRUE]
WantedPlace(l, e) == IF l.rooms[l.at[e]] = None THEN None ELSE l.at[e]
WantedFile(l, k) == {s \in l.scenes : KindOf[s] = k}
Shows(l, p) == [entities |-> {e \in Entities : l.at[e] = p}, scenes |-> l.scenes]
WantedBoard(l, p) == IF l.plans[p] = None THEN None ELSE [title |-> l.plans[p], shows |-> Shows(l, p)]

FloorsDue(l, h) == {p \in Plans : h.floors[p] # l.plans[p]}
AreasDueByName(l, h) ==   \* variant: an area that hangs on no floor is left alone
  {p \in Plans : (IF h.areas[p] = None THEN None ELSE h.areas[p].name) # l.rooms[p]}
AreasDue(l, h) == {p \in Plans : h.areas[p] # WantedArea(l, p)}

DevicesDueAny(l, h) ==   \* variant: the area of a device on no floorplan is always cleared
  {e \in Entities : LET now == h.area[DeviceOf[e]] IN IF l.at[e] = None THEN now # None ELSE now # WantedPlace(l, e)}

\* A device that is on no floorplan only leaves the area of a room.
DevicesDue(l, h) == {e \in Entities :
  LET now == h.area[DeviceOf[e]] IN
  IF l.at[e] = None THEN now \in Plans /\ l.rooms[now] # None ELSE now # WantedPlace(l, e)}

\* The content of a dashboard is always saved, its entry only when it differs.
BoardsDue(l, h) ==
  {<<p, "config">> : p \in {p \in Plans : l.plans[p] # None}}
  \cup {<<p, "title">> : p \in {p \in Plans : (IF h.boards[p] = None THEN None ELSE h.boards[p].title) # l.plans[p]}}

Due(stage, l, h) ==
  CASE stage = "floors" -> FloorsDue(l, h)
    [] stage = "areas" -> AreasDue(l, h)
    [] stage = "devices" -> DevicesDue(l, h)
    [] stage = "files" -> Kinds
    [] stage = "boards" -> BoardsDue(l, h)
    [] stage = "reload" -> Kinds

-----------------------------------------------------------------------------
(* A run.                                                                   *)

Start == run' = [stage |-> "connect", left |-> {}, snap |-> local, seen |-> ha, edited |-> FALSE]

\* The first stage after the n-th that has something to do.
StageAfter(n) ==
  LET due == {m \in n + 1 .. 6 : Due(Stages[m], run.snap, run.seen) # {}}
  IN IF due = {} THEN Idle
     ELSE LET m == CHOOSE m \in due : \A k \in due : m <= k
          IN [run EXCEPT !.stage = Stages[m], !.left = Due(Stages[m], run.snap, run.seen)]

After(n, x) == IF run.left = {x} THEN StageAfter(n) ELSE [run EXCEPT !.left = @ \ {x}]

Fault == faults < MaxFaults /\ faults' = faults + 1

\* The call of x is made: it is answered, or done and its answer lost.
Calls(n, x) ==
  /\ run.stage = Stages[n] /\ x \in run.left
  /\ \/ run' = After(n, x) /\ UNCHANGED faults
     \/ run' = Idle /\ Fault
  /\ UNCHANGED <<local, debounce, changes, edits>>

\* What is wanted is created or updated before the rest is deleted.
Wanted(p) == run.snap.plans[p] # None
UpsertsFirst(p, P) == Wanted(p) \/ \A q \in P : ~Wanted(q)

\* connect() and the five lists.
List ==
  /\ run.stage = "connect"
  /\ LET r == [run EXCEPT !.seen = ha, !.edited = FALSE]
         due == {m \in 1 .. 6 : Due(Stages[m], r.snap, r.seen) # {}}
         m == CHOOSE m \in due : \A k \in due : m <= k
     IN run' = [r EXCEPT !.stage = Stages[m], !.left = Due(Stages[m], r.snap, r.seen)]
  /\ UNCHANGED <<local, ha, debounce, changes, faults, edits>>

\* What people deleted during the run is refused when the run updates or deletes it.
Gone(listed, now) == listed # None /\ now = None

Refused ==
  /\ \E p \in Plans :
       \/ run.stage = "floors" /\ p \in run.left /\ Gone(run.seen.floors[p], ha.floors[p])
       \/ run.stage = "areas" /\ p \in run.left /\ Gone(run.seen.areas[p], ha.areas[p])
       \/ run.stage = "boards" /\ <<p, "title">> \in run.left /\ Gone(run.seen.boards[p], ha.boards[p])
       \/ run.stage = "boards" /\ <<p, "config">> \in run.left /\ <<p, "title">> \notin run.left /\ ha.boards[p] = None
  /\ run' = Idle
  /\ UNCHANGED <<local, ha, debounce, changes, faults, edits>>

\* Home Assistant takes a deleted floor off its areas.
SyncFloor(p) ==
  /\ Calls(1, p) /\ UpsertsFirst(p, run.left) /\ ~Gone(run.seen.floors[p], ha.floors[p])
  /\ ha' = [ha EXCEPT !.floors[p] = run.snap.plans[p],
              !.areas[p] = IF Wanted(p) \/ @ = None THEN @ ELSE [@ EXCEPT !.floor = FALSE]]

\* Home Assistant takes a deleted area off its devices.
SyncArea(p) ==
  /\ Calls(2, p) /\ ~Gone(run.seen.areas[p], ha.areas[p])
  /\ run.snap.rooms[p] = None => \A q \in run.left : run.snap.rooms[q] = None
  /\ ha' = [ha EXCEPT !.areas[p] = WantedArea(run.snap, p),
              !.area = [d \in HaDevices |-> IF @[d] = p /\ run.snap.rooms[p] = None THEN None ELSE @[d]]]

SyncDevice(e) ==
  /\ Calls(3, e)
  /\ ha' = [ha EXCEPT !.area[DeviceOf[e]] = IF run.snap.at[e] = None THEN None ELSE WantedPlace(run.snap, e)]

\* scenes.yaml and scripts.yaml: each is merged and replaced.
WriteFile(k) ==
  /\ Calls(4, k)
  /\ ha' = [ha EXCEPT !.files[k] = WantedFile(run.snap, k)]

SyncBoard(p) ==
  /\ Calls(5, <<p, "title">>) /\ UpsertsFirst(p, {x[1] : x \in run.left})
  /\ ~Gone(run.seen.boards[p], ha.boards[p])
  /\ ha' = [ha EXCEPT !.boards[p] =
       IF ~Wanted(p) THEN None
       ELSE [title |-> run.snap.plans[p], shows |-> IF @ = None THEN None ELSE @.shows]]

SaveBoard(p) ==
  /\ Calls(5, <<p, "config">>) /\ <<p, "title">> \notin run.left
  /\ ha.boards[p] # None
  /\ ha' = [ha EXCEPT !.boards[p].shows = Shows(run.snap, p)]

Reload(k) ==
  /\ Calls(6, k)
  /\ ha' = [ha EXCEPT !.loaded[k] = ha.files[k]]

RunFailsBusy ==   \* variant: currentRun is not cleared after a failure
  /\ run.stage \notin {"idle", "hung"}
  /\ Fault
  /\ run' = [run EXCEPT !.left = {}]
  /\ UNCHANGED <<local, ha, debounce, changes, edits>>

\* A call is refused, times out or finds the socket closed.
RunFails ==
  /\ run.stage \notin {"idle", "hung"}
  /\ Fault
  /\ run' = Idle
  /\ UNCHANGED <<local, ha, debounce, changes, edits>>

\* The server accepts the connection and never says auth_required: connect() has no
\* timeout.
HaSilent ==
  /\ run.stage = "connect"
  /\ Fault
  /\ run' = Hung
  /\ UNCHANGED <<local, ha, debounce, changes, edits>>

-----------------------------------------------------------------------------
(* What starts a run, and what happens besides.                             *)

\* schedule(): a route has changed a floorplan, a scene or an override.
Change(l) ==
  /\ l # local /\ changes < MaxChanges
  /\ local' = l /\ changes' = changes + 1
  /\ debounce' = TRUE
  /\ UNCHANGED <<ha, run, faults, edits>>

\* runSync() joins the run under way.
DebounceFires ==
  /\ debounce /\ debounce' = FALSE
  /\ IF run.stage = "idle" THEN Start ELSE UNCHANGED run
  /\ UNCHANGED <<local, ha, changes, faults, edits>>

\* POST /ha/sync; a caller that finds a run under way waits for that one.
SyncNow ==
  /\ run.stage = "idle"
  /\ Start
  /\ UNCHANGED <<local, ha, debounce, changes, faults, edits>>

\* setInterval
IntervalFires ==
  /\ run.stage = "idle"
  /\ Start
  /\ UNCHANGED <<local, ha, debounce, changes, faults, edits>>

\* The gateway restarts: start() schedules a run.
Restart ==
  /\ Fault
  /\ run' = Idle /\ debounce' = TRUE
  /\ UNCHANGED <<local, ha, changes, edits>>

\* People move a device to an area of their own, or delete a managed entry.
Edit ==
  /\ edits < MaxEdits /\ edits' = edits + 1
  /\ \/ \E d \in HaDevices : ha' = [ha EXCEPT !.area[d] = "own"]
     \/ \E p \in Plans :
          \/ ha.floors[p] # None
             /\ ha' = [ha EXCEPT !.floors[p] = None, !.areas[p] = IF @ = None THEN None ELSE [@ EXCEPT !.floor = FALSE]]
          \/ ha.areas[p] # None
             /\ ha' = [ha EXCEPT !.areas[p] = None, !.area = [d \in HaDevices |-> IF @[d] = p THEN None ELSE @[d]]]
          \/ ha.boards[p] # None /\ ha' = [ha EXCEPT !.boards[p] = None]
  /\ run' = IF run.stage \in {"idle", "hung"} THEN run ELSE [run EXCEPT !.edited = TRUE]
  /\ UNCHANGED <<local, debounce, changes, faults>>

Nothing == [floors |-> [p \in Plans |-> None], areas |-> [p \in Plans |-> None],
            area |-> [d \in HaDevices |-> None], boards |-> [p \in Plans |-> None],
            files |-> [k \in Kinds |-> {}], loaded |-> [k \in Kinds |-> {}]]

Init ==
  /\ local \in Locals /\ ha = Nothing
  /\ run = Idle /\ debounce = TRUE
  /\ changes = 0 /\ faults = 0 /\ edits = 0

RunStep ==
  \/ List \/ Refused
  \/ \E p \in Plans : SyncFloor(p) \/ SyncArea(p) \/ SyncBoard(p) \/ SaveBoard(p)
  \/ \E e \in Entities : SyncDevice(e)
  \/ \E k \in Kinds : WriteFile(k) \/ Reload(k)

Next ==
  \/ RunStep \/ RunFails \/ HaSilent
  \/ \E l \in Locals : Change(l)
  \/ DebounceFires \/ SyncNow \/ IntervalFires \/ Restart \/ Edit

\* The run goes on, and the interval fires; failures and changes need not happen.
Fairness == WF_vars(RunStep) /\ WF_vars(IntervalFires)

Spec == Init /\ [][Next]_vars /\ Fairness

-----------------------------------------------------------------------------
(* Properties.                                                              *)

EntitiesOf(d) == {e \in Entities : DeviceOf[e] = d}

\* A device may be left in an area that people deleted during a run: it is in none.
AreaOf(h, d) == IF h.area[d] \in Plans /\ h.areas[h.area[d]] = None THEN None ELSE h.area[d]

\* A device of Home Assistant all of whose entities are in one place is in its area.
DevicePlaced(l, h, d) ==
  \/ \E e, f \in EntitiesOf(d) : l.at[e] # l.at[f]
  \/ \A e \in EntitiesOf(d) :
       IF l.at[e] = None THEN AreaOf(h, d) \in {"own", None} ELSE AreaOf(h, d) = WantedPlace(l, e)

Mirrors(h, l) ==
  /\ \A p \in Plans : h.floors[p] = l.plans[p] /\ h.areas[p] = WantedArea(l, p)
  /\ \A d \in HaDevices : DevicePlaced(l, h, d)
  /\ \A p \in Plans : h.boards[p] = WantedBoard(l, p)
  /\ \A k \in Kinds : h.files[k] = WantedFile(l, k) /\ h.loaded[k] = h.files[k]

\* Whatever prefix earlier runs left behind, a run that comes to its end has made
\* Home Assistant what its snapshot says, unless people changed it meanwhile.
RunMirrors ==
  [][run.stage = "reload" /\ run' = Idle /\ faults' = faults /\ ~run.edited => Mirrors(ha', run.snap)]_vars

\* An area that people gave a device is taken from it only when the gateway places
\* one of its entities, or when they gave it during a run that had listed another.
OwnAreaKept ==
  [][\A d \in HaDevices :
       ha.area[d] = "own" /\ ha'.area[d] # "own" =>
         run.edited \/ \E e \in EntitiesOf(d) : run.snap.at[e] # None]_vars

\* When changes, faults and edits end, Home Assistant becomes what the gateway has and
\* stays so through all further runs, also for a change during a run, which starts
\* none by itself; only a server that never answers the connection keeps it from it.
BecomesMirrored == <>[](Mirrors(ha, local) \/ run = Hung)
=============================================================================
