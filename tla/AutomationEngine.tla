--------------------------- MODULE AutomationEngine ---------------------------
(***************************************************************************)
(* The automation engine of the rules engine                               *)
(* (backend/services/rules-engine/src/automation-engine.js).               *)
(*                                                                         *)
(* The engine is one JavaScript object driven by an event loop.  A call    *)
(* runs to completion, so each call and each timer callback is one action. *)
(* What interleaves are the asynchronous runs: a run is suspended while    *)
(* publishAction or expandScene is pending, or while it waits for a device *)
(* condition, and everything else may happen in between.                   *)
(*                                                                         *)
(* Runtime state hangs on objects, not on automation ids: removing an id   *)
(* and adding it again makes a new object, while a run that is in flight   *)
(* keeps the old, detached one.  An object is a pair <<id, generation>>.   *)
(*                                                                         *)
(* Time is a countdown per timer.  Tick lets one unit pass; a timer that   *)
(* reached 0 may fire, at any later moment (a busy loop fires late, never  *)
(* early).  Clock readings are the hours of the day, 0 .. Day-1.           *)
(*                                                                         *)
(* A definition marked "variant" is a faulty version of the one after it.  *)
(* No action uses it; it shows that some property tells the two apart.     *)
(***************************************************************************)
EXTENDS Integers, Sequences

CONSTANTS
  Ids,          \* automation ids
  Gens,         \* generations of runtime objects of one id (bound on detached runs)
  Frames,       \* call frames of _executeAutomation an object can have in flight
  Devices,      \* device ids
  Values,       \* values of the trait the conditions read
  EventIds,     \* ids of transient device events
  Gestures,     \* kinds of transient device events
  Day,          \* clock readings in a day
  Defs,         \* automation definitions that validateAutomationList accepts
  Configs,      \* automation lists: functions from ids to definitions or None
  Expansions,   \* answers of expandScene
  None,         \* null / undefined
  Undef,        \* the device is known, the trait is not in its snapshot
  Unseen        \* the device is not in the map

Clock == 0 .. Day - 1
Snapshot == Values \cup {Undef}
Reading == Snapshot \cup {Unseen}
Obj == Ids \X Gens
Calls == Obj \X Frames
Event == [id : EventIds, gesture : Gestures]

\* A step of a plan publishes an action for dev; wait = 0 means no wait_for,
\* otherwise the run waits at most wait units for a reading in want.
DeviceStep == [kind : {"device"}, dev : Devices, want : SUBSET Reading, wait : Nat]
SceneStep == [kind : {"scene"}]
Plan == Seq(DeviceStep \cup SceneStep)

Trigger ==
  [kind : {"device"}, devs : SUBSET Devices, vals : SUBSET Reading, changed : BOOLEAN]
  \cup [kind : {"device_event"}, dev : Devices, gesture : Gestures]
  \cup [kind : {"interval"}, every : Nat]
  \cup [kind : {"time"}, at : SUBSET Clock]

Definition ==
  [enabled : BOOLEAN, trigger : Trigger, hold : Nat, cooldown : Nat, then : Plan,
   when : SUBSET ([Devices -> Reading] \X Clock)]

ASSUME BoundsAssumption == Day \in Nat \ {0} /\ Gens # {} /\ Frames # {}
ASSUME ReadingAssumption == Undef \notin Values /\ Unseen \notin Snapshot
ASSUME DefsAssumption ==
  /\ Defs \subseteq Definition
  /\ None \notin Defs /\ None \notin Gens /\ None \notin EventIds /\ None \notin Event
  /\ \A d \in Defs : d.then # <<>>
ASSUME ConfigsAssumption == Configs \subseteq [Ids -> Defs \cup {None}]
ASSUME ExpansionsAssumption == Expansions \subseteq Seq(DeviceStep)

VARIABLES
  list,         \* this.automations: the definition of each id, None when absent
  gen,          \* this.runtimeById: the generation of the object of each id
  pending,      \* pendingHandle: the definition the delayed run captured
  pendingLeft,  \* time until the delayed run is due
  cooldown,     \* time until cooldownUntilMs
  executing,    \* executing
  lastEvent,    \* lastEventId
  timer,        \* intervalHandle / timeHandle: the definition the callback captured
  timerLeft,    \* time until that callback is due
  devices,      \* this.devices
  waiters,      \* this.waitersByDeviceId, all devices together
  run,          \* the suspended calls of _executeAutomation
  clock         \* the time of day

objVars == <<list, gen, timer, timerLeft>>
stateVars == <<pending, pendingLeft, cooldown, executing, lastEvent>>
vars == <<objVars, stateVars, devices, waiters, run, clock>>

\* todo is what is left of the plan, its head being the step in progress; met
\* is a history flag: the head's wait_for was true in a snapshot handled since
\* the head was published.
Phases == {"idle", "publishing", "expanding", "waiting", "resumed", "rejected"}
Run == [phase : Phases, todo : Plan, met : BOOLEAN]
Waiter == [call : Calls, dev : Devices, want : SUBSET Reading, left : Nat]

Idle == [phase |-> "idle", todo |-> <<>>, met |-> FALSE]
NoDefs == [o \in {} |-> None]

TypeOK ==
  /\ list \in [Ids -> Defs \cup {None}]
  /\ gen \in [Ids -> Gens \cup {None}]
  /\ pending \in [Obj -> Defs \cup {None}]
  /\ pendingLeft \in [Obj -> Nat]
  /\ cooldown \in [Obj -> Nat]
  /\ executing \in [Obj -> BOOLEAN]
  /\ lastEvent \in [Obj -> EventIds \cup {None}]
  /\ timer \in [Obj -> Defs \cup {None}]
  /\ timerLeft \in [Obj -> Nat]
  /\ devices \in [Devices -> Reading]
  /\ waiters \subseteq Waiter
  /\ run \in [Calls -> Run]
  /\ clock \in Clock

\* The object of the list entry i, and the objects the engine still knows.
Cur(i) == <<i, gen[i]>>
Attached == {o \in Obj : gen[o[1]] = o[2]}
Listed == {i \in Ids : list[i] # None}

Busy(c) == run[c].phase # "idle"

-----------------------------------------------------------------------------
(* The pure parts: triggers, conditions, the next time of day.              *)

EvaluateWhen(def, dv) == <<dv, clock>> \in def.when

CooldownIgnored(o) == TRUE   \* variant: the check is forgotten

CooldownOk(o) == cooldown[o] = 0

MatchesTrigger(t, d, prev, cur, ev) ==
  \/ /\ t.kind = "device"
     /\ d \in t.devs
     /\ cur \in t.vals
     /\ t.changed => prev # Unseen /\ prev # cur
  \/ /\ t.kind = "device_event"
     /\ ev # None
     /\ d = t.dev /\ ev.gesture = t.gesture

\* Later today, or tomorrow when the clock already shows t.
Until(t) == IF t > clock THEN t - clock ELSE t - clock + Day

NextTimeTrigger(at) ==
  LET delays == {Until(t) : t \in at} IN CHOOSE d \in delays : \A e \in delays : d <= e

HasTimer(def) ==
  \/ def.trigger.kind = "interval" /\ def.trigger.every > 0
  \/ def.trigger.kind = "time" /\ def.trigger.at # {}

TimerDelay(def) == IF def.trigger.kind = "interval" THEN def.trigger.every
                                                    ELSE NextTimeTrigger(def.trigger.at)

-----------------------------------------------------------------------------
(* Runs.                                                                    *)

\* The synchronous stretch of _executeAutomation up to its next await: the
\* next step is published, the next scene asked for, or the run is over.
Proceed(todo) ==
  IF todo = <<>> THEN Idle
  ELSE [phase |-> IF Head(todo).kind = "scene" THEN "expanding" ELSE "publishing",
        todo |-> todo, met |-> FALSE]

FreeFrame(o) == CHOOSE f \in Frames : ~Busy(<<o, f>>)

\* A call returns to the event loop as r; the flag falls with the last step.
Return(c, r) ==
  /\ run' = [run EXCEPT ![c] = r]
  /\ executing' = [executing EXCEPT ![c[1]] = r.phase # "idle"]

StartableReentrant(starts) == DOMAIN starts   \* variant: no look at executing

\* Which of the requested runs _executeAutomation starts: starts maps objects
\* to the definitions their callbacks captured.
Startable(starts) == {o \in DOMAIN starts : ~executing[o]}

\* _executeAutomation, for all objects of starts, after pend and calls have
\* replaced pending and run.
ExecuteAutomation(starts, pend, calls) ==
  LET S == Startable(starts) IN
  /\ executing' = [o \in Obj |-> executing[o] \/ o \in S]
  /\ cooldown' = [o \in Obj |-> IF o \in S THEN starts[o].cooldown ELSE cooldown[o]]
  /\ pending' = [o \in Obj |-> IF o \in S THEN None ELSE pend[o]]
  /\ run' = [c \in Calls |-> IF c[1] \in S /\ c[2] = FreeFrame(c[1])
                             THEN Proceed(starts[c[1]].then) ELSE calls[c]]

\* _maybeScheduleOrExecute, for all objects of fired at once: they share no
\* state, so the order of the list does not matter.
MaybeScheduleOrExecute(fired, dv, pend, calls) ==
  LET holds == {o \in DOMAIN fired : EvaluateWhen(fired[o], dv)}
      delayed == {o \in holds : fired[o].hold > 0}
      armed == {o \in delayed : pend[o] = None}
  IN
  /\ ExecuteAutomation([o \in holds \ delayed |-> fired[o]],
                       [o \in Obj |-> IF o \in armed THEN fired[o] ELSE pend[o]], calls)
  /\ pendingLeft' = [o \in Obj |-> IF o \in armed THEN fired[o].hold
                                   ELSE IF pending'[o] = None THEN 0 ELSE pendingLeft[o]]

-----------------------------------------------------------------------------
(* Calls into the engine.                                                   *)

\* seedDevices ran before the first message; no automation is loaded yet.
Init ==
  /\ list = [i \in Ids |-> None]
  /\ gen = [i \in Ids |-> None]
  /\ pending = [o \in Obj |-> None]
  /\ pendingLeft = [o \in Obj |-> 0]
  /\ cooldown = [o \in Obj |-> 0]
  /\ executing = [o \in Obj |-> FALSE]
  /\ lastEvent = [o \in Obj |-> None]
  /\ timer = [o \in Obj |-> None]
  /\ timerLeft = [o \in Obj |-> 0]
  /\ devices \in [Devices -> Reading]
  /\ waiters = {}
  /\ run = [c \in Calls |-> Idle]
  /\ clock \in Clock

\* Generations whose object is garbage: no run in flight holds it.
FreshGens(i) == {g \in Gens : gen[i] # g /\ \A f \in Frames : ~Busy(<<<<i, g>>, f>>)}

\* The objects of the ids that config keeps or adds: an existing object stays.
NextGen(config, i) ==
  IF config[i] = None THEN None
  ELSE IF gen[i] # None THEN gen[i] ELSE CHOOSE g \in FreshGens(i) : TRUE

TimerForgotten(config, o) ==   \* variant: removal does not clear timers
  IF config[o[1]] = None THEN timer[o]
  ELSE IF o[2] = NextGen(config, o[1]) /\ HasTimer(config[o[1]]) THEN config[o[1]] ELSE None

\* _setupNonDeviceTriggers for the entries of config; the timers of removed
\* objects and of previous definitions are cleared.
TimerAfterReload(config, o) ==
  IF config[o[1]] # None /\ o[2] = NextGen(config, o[1]) /\ HasTimer(config[o[1]])
  THEN config[o[1]] ELSE None

\* After setAutomations every known object is either stopped or set up anew.
SetAutomations(config) ==
  /\ \A i \in Ids : config[i] # None /\ gen[i] = None => FreshGens(i) # {}
  /\ list' = config
  /\ gen' = [i \in Ids |-> NextGen(config, i)]
  /\ LET Keeps(o) == gen[o[1]] = o[2] /\ config[o[1]] # None
     IN /\ pending' = [o \in Obj |-> None]
        /\ pendingLeft' = [o \in Obj |-> 0]
        /\ cooldown' = [o \in Obj |-> IF Keeps(o) THEN cooldown[o] ELSE 0]
        /\ lastEvent' = [o \in Obj |-> IF Keeps(o) THEN lastEvent[o] ELSE None]
  /\ timer' = [o \in Obj |-> TimerAfterReload(config, o)]
  /\ timerLeft' = [o \in Obj |-> IF timer'[o] = None THEN 0 ELSE TimerDelay(timer'[o])]
  /\ UNCHANGED <<executing, devices, waiters, run, clock>>

\* stop(): all timers are cleared and all waiters rejected, but a run that is
\* suspended elsewhere goes on.
Stop ==
  /\ list' = [i \in Ids |-> None]
  /\ gen' = [i \in Ids |-> None]
  /\ pending' = [o \in Obj |-> None]
  /\ pendingLeft' = [o \in Obj |-> 0]
  /\ cooldown' = [o \in Obj |-> 0]
  /\ lastEvent' = [o \in Obj |-> None]
  /\ timer' = [o \in Obj |-> None]
  /\ timerLeft' = [o \in Obj |-> 0]
  /\ devices' = [d \in Devices |-> Unseen]
  /\ waiters' = {}
  /\ run' = [c \in Calls |-> IF \E w \in waiters : w.call = c
                             THEN [run[c] EXCEPT !.phase = "rejected"] ELSE run[c]]
  /\ UNCHANGED <<executing, clock>>

ResolvedBeforeStore(d, dv) ==   \* variant: waiters are looked at before the map is updated
  {w \in waiters : w.dev = d /\ devices[d] \in w.want}

\* _resolveWaitersForDevice looks at the snapshot just stored.
Resolved(d, dv) == {w \in waiters : w.dev = d /\ dv[d] \in w.want}

AwaitsReading(r, d, v) ==
  /\ r.phase \in {"publishing", "waiting"}
  /\ Head(r.todo).dev = d /\ v \in Head(r.todo).want

SurvivesAnyUpdate(o, dv) == TRUE   \* variant: updates cancel nothing

\* Pending runs that survive an update: still enabled, condition still true.
SurvivesUpdate(o, dv) ==
  o \in Attached /\ list[o[1]] # None =>
    list[o[1]].enabled /\ EvaluateWhen(list[o[1]], dv)

\* A button event counts once; an automation that is cooling down ignores it.
NewEvent(o, ev) == ev # None /\ lastEvent[o] # ev.id

Triggered(d, prev, v, ev) ==
  {o \in Attached :
     LET def == list[o[1]] IN
     /\ def # None
     /\ def.enabled
     /\ CooldownOk(o)
     /\ MatchesTrigger(def.trigger, d, prev, v, ev)
     /\ def.trigger.kind = "device_event" => NewEvent(o, ev)}

\* The suspended runs, once the waiters in done are resolved.
Woken(done, d, v) ==
  [c \in Calls |->
     [phase |-> IF \E w \in done : w.call = c THEN "resumed" ELSE run[c].phase,
      todo |-> run[c].todo,
      met |-> run[c].met \/ AwaitsReading(run[c], d, v)]]

HandleDeviceUpdate(d, v, ev) ==
  LET dv == [devices EXCEPT ![d] = v]
      done == Resolved(d, dv)
      fired == Triggered(d, devices[d], v, ev)
  IN
  /\ devices' = dv
  /\ waiters' = waiters \ done
  /\ lastEvent' = [o \in Obj |-> IF o \in fired /\ list[o[1]].trigger.kind = "device_event"
                                 THEN ev.id ELSE lastEvent[o]]
  /\ MaybeScheduleOrExecute(
       [o \in fired |-> list[o[1]]], dv,
       [o \in Obj |-> IF SurvivesUpdate(o, dv) THEN pending[o] ELSE None],
       Woken(done, d, v))
  /\ UNCHANGED <<objVars, clock>>

-----------------------------------------------------------------------------
(* Timer callbacks.                                                         *)

\* The forMs timer: everything is checked again before the run starts.
DelayedRun(o) ==
  LET def == pending[o]
      go == def.enabled /\ CooldownOk(o) /\ EvaluateWhen(def, devices)
  IN
  /\ pending[o] # None /\ pendingLeft[o] = 0
  /\ ExecuteAutomation([x \in {y \in {o} : go} |-> def], [pending EXCEPT ![o] = None], run)
  /\ pendingLeft' = [pendingLeft EXCEPT ![o] = 0]
  /\ UNCHANGED <<objVars, lastEvent, devices, waiters, clock>>

\* The interval and time-of-day timers, which re-arm themselves.
TimerTrigger(o) ==
  LET def == timer[o] IN
  /\ timer[o] # None /\ timerLeft[o] = 0
  /\ timerLeft' = [timerLeft EXCEPT ![o] = TimerDelay(def)]
  /\ MaybeScheduleOrExecute([x \in {y \in {o} : def.enabled /\ CooldownOk(o)} |-> def],
                            devices, pending, run)
  /\ UNCHANGED <<list, gen, timer, lastEvent, devices, waiters, clock>>

WaitTimeoutLeaks(w) ==   \* variant: _removeWaiter is not called
  /\ w \in waiters /\ w.left = 0
  /\ run' = [run EXCEPT ![w.call].phase = "rejected"]
  /\ UNCHANGED <<objVars, stateVars, devices, waiters, clock>>

WaitTimeoutGoesOn(w) ==   \* variant: a timeout counts as an answer
  /\ w \in waiters /\ w.left = 0
  /\ waiters' = waiters \ {w}
  /\ run' = [run EXCEPT ![w.call].phase = "resumed"]
  /\ UNCHANGED <<objVars, stateVars, devices, clock>>

\* The timer of _waitForCondition: the waiter goes, its promise is rejected.
WaitTimeout(w) ==
  /\ w \in waiters /\ w.left = 0
  /\ waiters' = waiters \ {w}
  /\ run' = [run EXCEPT ![w.call].phase = "rejected"]
  /\ UNCHANGED <<objVars, stateVars, devices, clock>>

-----------------------------------------------------------------------------
(* Resumptions of a suspended run.                                          *)

\* publishAction succeeded: wait_for is looked at only now.
Published(c) ==
  LET step == Head(run[c].todo) IN
  /\ run[c].phase = "publishing"
  /\ IF step.wait = 0 \/ devices[step.dev] \in step.want
     THEN /\ Return(c, Proceed(Tail(run[c].todo)))
          /\ UNCHANGED waiters
     ELSE /\ Return(c, [run[c] EXCEPT !.phase = "waiting"])
          /\ waiters' = waiters \cup
               {[call |-> c, dev |-> step.dev, want |-> step.want, left |-> step.wait]}
  /\ UNCHANGED <<objVars, pending, pendingLeft, cooldown, lastEvent, devices, clock>>

\* expandScene answered with the device steps of the scene.
Expanded(c, steps) ==
  /\ run[c].phase = "expanding"
  /\ Return(c, Proceed(steps \o Tail(run[c].todo)))
  /\ UNCHANGED <<objVars, pending, pendingLeft, cooldown, lastEvent, devices, waiters, clock>>

\* The awaited condition became true: on to the next step.
Resume(c) ==
  /\ run[c].phase = "resumed"
  /\ Return(c, Proceed(Tail(run[c].todo)))
  /\ UNCHANGED <<objVars, pending, pendingLeft, cooldown, lastEvent, devices, waiters, clock>>

AbortKeepsFlag(c) ==   \* variant: no finally around the plan
  /\ run[c].phase \in {"publishing", "expanding", "rejected"}
  /\ run' = [run EXCEPT ![c] = Idle]
  /\ UNCHANGED <<objVars, stateVars, devices, waiters, clock>>

\* An await threw (publish or expansion failed, the wait timed out, the engine
\* was stopped): the rest of the plan is dropped.
Abort(c) ==
  /\ run[c].phase \in {"publishing", "expanding", "rejected"}
  /\ Return(c, Idle)
  /\ UNCHANGED <<objVars, pending, pendingLeft, cooldown, lastEvent, devices, waiters, clock>>

-----------------------------------------------------------------------------

Less(n) == IF n = 0 THEN 0 ELSE n - 1

Tick ==
  /\ clock' = IF clock = Day - 1 THEN 0 ELSE clock + 1
  /\ pendingLeft' = [o \in Obj |-> Less(pendingLeft[o])]
  /\ timerLeft' = [o \in Obj |-> Less(timerLeft[o])]
  /\ cooldown' = [o \in Obj |-> Less(cooldown[o])]
  /\ waiters' = {[w EXCEPT !.left = Less(@)] : w \in waiters}
  /\ UNCHANGED <<list, gen, pending, executing, lastEvent, timer, devices, run>>

Environment ==
  \/ \E config \in Configs : SetAutomations(config)
  \/ Stop
  \/ \E d \in Devices, v \in Snapshot, ev \in Event \cup {None} : HandleDeviceUpdate(d, v, ev)

Timers ==
  \/ \E o \in Obj : DelayedRun(o)
  \/ \E o \in Obj : TimerTrigger(o)
  \/ \E w \in waiters : WaitTimeout(w)

Resumptions ==
  \E c \in Calls :
    \/ Published(c)
    \/ \E steps \in Expansions : Expanded(c, steps)
    \/ Resume(c)
    \/ Abort(c)

Next == Environment \/ Timers \/ Resumptions \/ Tick

Spec == Init /\ [][Next]_vars

\* The event loop runs every callback that is due, every promise settles and
\* time passes.  Nothing is assumed of devices and of configuration changes.
Fairness ==
  /\ WF_vars(Tick)
  /\ \A c \in Calls :
       /\ WF_vars(Published(c) \/ Abort(c))
       /\ WF_vars((\E steps \in Expansions : Expanded(c, steps)) \/ Abort(c))
       /\ WF_vars(Resume(c))
       /\ WF_vars(\E w \in waiters : w.call = c /\ WaitTimeout(w))

FairSpec == Spec /\ Fairness

-----------------------------------------------------------------------------
(* Properties.                                                              *)

\* The engine knows an object for an id exactly while the list has that id.
ListedHasObject == \A i \in Ids : list[i] # None <=> gen[i] # None

\* The executing flag (automation-engine.js:229-230, 297) means what it says:
\* it is up exactly while one call of _executeAutomation on that object is
\* suspended, and there are never two, however triggers, timers, failures,
\* reloads and stop() interleave with the awaits of a run.
OneRunPerObject ==
  \A o \in Obj :
    /\ executing[o] <=> \E f \in Frames : Busy(<<o, f>>)
    /\ \A f, g \in Frames : Busy(<<o, f>>) /\ Busy(<<o, g>>) => f = g

\* A condition that reads only devices, not the time of day.
TimeFree(when) ==
  \A dv \in [Devices -> Reading], a, b \in Clock : <<dv, a>> \in when => <<dv, b>> \in when

\* docs/feature/automation/README.md:94: a delayed run is cancelled as soon as
\* an update makes its condition false.  While one is pending it runs the
\* definition that is loaded now, of an enabled automation that is not cooling
\* down, and the condition holds of the latest snapshots (lines 43-45, 76-87,
\* 196-213, 234).
PendingJustified ==
  \A o \in Obj : pending[o] # None =>
    /\ o \in Attached
    /\ pending[o] = list[o[1]]
    /\ pending[o].enabled
    /\ cooldown[o] = 0
    /\ TimeFree(pending[o].when) => EvaluateWhen(pending[o], devices)

\* Reloading leaves no timer of an old definition behind and loses none of a
\* new one: an interval or time-of-day callback is armed exactly for the
\* definitions in the list that ask for one, and captured that definition
\* (lines 29-34, 127-171).
TimersFollowList ==
  \A o \in Obj :
    /\ timer[o] # None => o \in Attached /\ timer[o] = list[o[1]] /\ HasTimer(timer[o])
    /\ o \in Attached /\ list[o[1]] # None /\ HasTimer(list[o[1]]) => timer[o] # None

\* Every registered waiter belongs to a run that is suspended on exactly that
\* wait, and every suspended wait has its waiter, whose timer will end it: no
\* run is forgotten and no waiter leaks (lines 301-360, 55-61).
WaitersMatchRuns ==
  /\ \A w \in waiters : LET r == run[w.call] IN
       /\ r.phase = "waiting"
       /\ Head(r.todo).dev = w.dev /\ Head(r.todo).want = w.want
  /\ \A c \in Calls : run[c].phase = "waiting" => \E w \in waiters : w.call = c
  /\ \A u, w \in waiters : u.call = w.call => u = w

\* No lost wake-up: a run never sleeps on a condition that the latest snapshot
\* already satisfies (line 71 stores before line 73 resolves; 308-310 look
\* before 330-332 register).
NoLostWakeup == \A w \in waiters : devices[w.dev] \notin w.want

\* The run goes on to the step after a wait_for.
PassesWait(c) ==
  LET r == run[c] IN
  /\ r.phase # "idle" /\ Head(r.todo).kind = "device" /\ Head(r.todo).wait > 0
  /\ run'[c].phase # "idle" /\ run'[c].todo = Tail(r.todo)

AwaitedStep ==
  \A c \in Calls : PassesWait(c) =>
    run[c].met \/ devices[Head(run[c].todo).dev] \in Head(run[c].todo).want

\* docs/feature/automation/README.md:101: the step after a wait_for is reached
\* only if the awaited reading was seen after the awaited step was published;
\* a timeout drops the rest of the plan.
StepsAwaitTheirConditions == [][AwaitedStep]_vars

JustifiedStart ==
  \A o \in Obj : ~executing[o] /\ executing'[o] =>
    LET def == list[o[1]] IN
    /\ o \in Attached /\ def # None
    /\ def.enabled /\ cooldown[o] = 0 /\ EvaluateWhen(def, devices')
    /\ \E f \in Frames : run'[<<o, f>>].todo = def.then
    /\ cooldown'[o] = def.cooldown

\* Whatever started it (update, event, delay, interval, time of day), a run
\* executes the plan of the definition that is in the list at that moment, of
\* an enabled automation outside its cooldown whose condition holds, and arms
\* that definition's cooldown.
StartsJustified == [][JustifiedStart]_vars

\* Every run ends, whatever devices, reloads and stop() do: each await settles,
\* is rejected or times out, so the executing flag, which makes all later
\* triggers be dropped (line 229), always falls again.
RunsEnd == \A o \in Obj : executing[o] ~> ~executing[o]

=============================================================================
