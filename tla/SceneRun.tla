------------------------------- MODULE SceneRun -------------------------------
(***************************************************************************)
(* Scene runs: the scene runner and the agentic scene runner of the        *)
(* gateway, the Redis channels, and the services that carry actions out    *)
(* (backend/services/api-gateway/src/{scene-runner,agentic-scene-runner,   *)
(* bus}.js, device-adapter/src/adapter.js, device-simulator/src).          *)
(*                                                                         *)
(* A run takes its steps in turn: it looks the device up, publishes the    *)
(* action, and only after publishing was acknowledged listens for a result *)
(* of that device and action.  Results carry no request id; a result is    *)
(* taken by every run that listens for its device and action, unless it    *)
(* was stamped before the run's step began.                                *)
(*                                                                         *)
(* Redis hands an action to whoever is connected: the adapter, which       *)
(* serves requests concurrently, and the simulator, which queues them.     *)
(***************************************************************************)
EXTENDS Integers, Sequences, FiniteSets

CONSTANTS
  Runs,         \* calls of run()
  Devices,
  Actions,
  Values,       \* values of the trait that actions set and wait_for reads
  Undef,        \* reading of a device that is gone
  Via,          \* how each device is reached: "simulator", "mqtt", "ha" or "none"
  Inventories,  \* what each device may be in the store: sets of supported actions, None
  Effect,       \* the value an action sets
  Scenes,       \* stored scenes
  Wanted,       \* the scenes each call may ask for
  None

Levels == 0 .. 2    \* low, medium, high

\* A step of a plan; polls is how often wait_for is polled (0: no wait_for).
\* dev = None: no candidate was found for the goal.
Step == [dev : Devices \cup {None}, act : Actions, want : SUBSET (Values \cup {Undef}), polls : Nat]

\* A goal names the devices its selector and the scene's constraints admit, and
\* the risk of the action on each of them (on None: with no candidate).  A
\* classic scene is a list of goals that admit one device each.
Goal == [among : SUBSET Devices, act : Actions, want : SUBSET (Values \cup {Undef}), polls : Nat,
         risk : [Devices \cup {None} -> Levels]]

Scene == [mode : {"classic", "agentic"}, goals : Seq(Goal), abort : BOOLEAN, confirmOn : SUBSET Levels]

ASSUME SceneAssumption ==
  /\ None \notin Devices /\ Undef \notin Values
  /\ Via \in [Devices -> {"simulator", "mqtt", "ha", "none"}]
  /\ Inventories \in [Devices -> SUBSET (SUBSET Actions \cup {None})]
  /\ Effect \in [Actions -> Values]
  /\ \A d \in Devices : Via[d] = "simulator" => None \notin Inventories[d]
  /\ Scenes \subseteq Scene /\ Wanted \in [Runs -> SUBSET Scenes]
  /\ \A sc \in Scenes : sc.mode = "classic" =>
       \A i \in DOMAIN sc.goals : Cardinality(sc.goals[i].among) = 1

VARIABLES
  run,        \* the runs
  stored,     \* the device store: supported actions, None when absent
  value,      \* the trait of each device in the store
  adapter,    \* requests the adapter has received and not answered
  simulator,  \* the request queue of the simulator
  wrote,      \* the head of that queue is carried out, its result not yet published
  results,    \* action results on their way to the gateway
  carried     \* history: the requests a service has carried out

vars == <<run, stored, value, adapter, simulator, wrote, results, carried>>

Statuses == {"ok", "error", "timeout", "skipped", "dry_run"}
Phases == {"idle", "looking", "publishing", "published", "waiting", "polling", "done", "failed"}
Run == [phase : Phases, scene : Scenes \cup {None}, confirmed : BOOLEAN, plan : Seq(Step),
        report : Seq(Statuses), polls : Nat]

\* A request is named by its run and the index of the step: runId:index.
Request == Runs \X (Nat \ {0})
Result == [dev : Devices, act : Actions, ok : BOOLEAN, fresh : SUBSET Runs]

NoRun == [phase |-> "idle", scene |-> None, confirmed |-> FALSE, plan |-> <<>>, report |-> <<>>, polls |-> 0]

TypeOK ==
  /\ run \in [Runs -> Run]
  /\ stored \in [Devices -> SUBSET Actions \cup {None}]
  /\ value \in [Devices -> Values]
  /\ adapter \subseteq Request
  /\ simulator \in Seq(Request)
  /\ wrote \in BOOLEAN
  /\ results \in Seq(Result)
  /\ carried \subseteq Request

\* The step a run is at, and what a request asks for.
Current(rn) == rn.plan[Len(rn.report) + 1]
Asked(q) == run[q[1]].plan[q[2]]

-----------------------------------------------------------------------------
(* Planning.                                                                *)

Admits(g, d) == d \in g.among /\ stored[d] # None /\ g.act \in stored[d]

\* The devices that buildPlan may choose for a goal: the best by rank, which is
\* left open, or None.  A classic scene names its device, present or not.
Choices(sc, g) ==
  IF sc.mode = "classic" THEN g.among
  ELSE LET fit == {d \in Devices : Admits(g, d)} IN IF fit = {} THEN {None} ELSE fit

PlanFor(sc, choice) ==
  [i \in DOMAIN sc.goals |-> [dev |-> choice[i], act |-> sc.goals[i].act,
                              want |-> sc.goals[i].want, polls |-> sc.goals[i].polls]]

MaxRiskLast(sc, choice) ==   \* variant: each goal replaces the risk so far
  IF sc.goals = <<>> THEN 0 ELSE sc.goals[Len(sc.goals)].risk[choice[Len(sc.goals)]]

MaxRisk(sc, choice) ==
  LET risks == {0} \cup {sc.goals[i].risk[choice[i]] : i \in DOMAIN sc.goals}
  IN CHOOSE l \in risks : \A k \in risks : k <= l

\* A classic run always wants confirm=true, an agentic one for the risks listed.
NeedsConfirm(sc, choice) ==
  sc.mode = "classic" \/ MaxRisk(sc, choice) \in sc.confirmOn

-----------------------------------------------------------------------------
(* Steps of a run.                                                          *)

EndedNeverAborts(rn, s) ==   \* variant: the fallback policy is ignored
  LET report == Append(rn.report, s)
  IN [rn EXCEPT !.report = report, !.polls = 0,
                !.phase = IF Len(report) = Len(rn.plan) THEN "done" ELSE "looking"]

\* The step ended with status s; the next one begins or the run is over.
Ended(rn, s) ==
  LET report == Append(rn.report, s)
      stop == rn.scene.mode = "agentic" /\ rn.scene.abort /\ s # "ok"
  IN [rn EXCEPT !.report = report, !.polls = 0,
                !.phase = IF stop \/ Len(report) = Len(rn.plan) THEN "done" ELSE "looking"]

\* The runs of S begin a step: the first n results were stamped in an earlier
\* millisecond, the rest in this one.
Aged(rs, n, S) ==
  [k \in DOMAIN rs |-> [rs[k] EXCEPT !.fresh = IF k <= n THEN @ \ S ELSE @]]

Begins(rn) == rn.phase = "looking"

\* Run r becomes rn; the results in flight are rs.
Turn(r, rn, rs) ==
  /\ run' = [run EXCEPT ![r] = rn]
  /\ IF Begins(rn) THEN \E n \in 0 .. Len(rs) : results' = Aged(rs, n, {r}) ELSE results' = rs

services == <<adapter, simulator, wrote, carried>>

\* run() has expanded the scene or built the plan.
Start(r, sc, confirm, dry) ==
  /\ run[r].phase = "idle"
  /\ \E choice \in [DOMAIN sc.goals -> Devices \cup {None}] :
       /\ \A i \in DOMAIN sc.goals : choice[i] \in Choices(sc, sc.goals[i])
       /\ LET plan == PlanFor(sc, choice)
              rn == [NoRun EXCEPT !.scene = sc, !.confirmed = confirm, !.plan = plan]
          IN Turn(r, IF dry THEN [rn EXCEPT !.phase = "done",
                                    !.report = [i \in DOMAIN plan |->
                                      IF plan[i].dev = None THEN "skipped" ELSE "dry_run"]]
                     ELSE IF ~confirm /\ NeedsConfirm(sc, choice) THEN [rn EXCEPT !.phase = "failed"]
                     ELSE [rn EXCEPT !.phase = IF plan = <<>> THEN "done" ELSE "looking"], results)
  /\ UNCHANGED <<stored, value, services>>

\* POST /scenes/:id/run: the mode chooses the runner, confirm and dryRun are the
\* caller's.
Called(r) == \E sc \in Wanted[r], confirm, dry \in BOOLEAN : Start(r, sc, confirm, dry)

\* The device is looked up.  (The agentic loop passes over planned skips
\* without an await; here each is a step of its own.)
Look(r) ==
  LET rn == run[r]
      s == Current(rn)
      missing == IF rn.scene.mode = "agentic" THEN "skipped" ELSE "error"
  IN
  /\ rn.phase = "looking"
  /\ Turn(r, IF s.dev = None \/ stored[s.dev] = None THEN Ended(rn, missing)
             ELSE IF s.act \notin stored[s.dev] THEN Ended(rn, "error")
             ELSE [rn EXCEPT !.phase = "publishing"], results)
  /\ UNCHANGED <<stored, value, services>>

\* Redis takes the action and hands it to the services.  One that is down misses
\* it: an adapter that is down is one that never serves the request.  The
\* simulator passes over requests for devices that are not its own.
Publish(r) ==
  LET q == <<r, Len(run[r].report) + 1>> IN
  /\ run[r].phase = "publishing"
  /\ run' = [run EXCEPT ![r].phase = "published"]
  /\ adapter' = adapter \cup {q}
  /\ \/ UNCHANGED simulator
     \/ Via[Current(run[r]).dev] = "simulator" /\ simulator' = Append(simulator, q)
  /\ UNCHANGED <<stored, value, wrote, results, carried>>

\* publishAction was rejected: run() throws and there is no report.
PublishFails(r) ==
  /\ run[r].phase = "publishing"
  /\ run' = [run EXCEPT ![r].phase = "failed"]
  /\ UNCHANGED <<stored, value, services, results>>

\* The acknowledgement arrived: the listener is registered, the timer armed.
Listen(r) ==
  /\ run[r].phase = "published"
  /\ run' = [run EXCEPT ![r].phase = "waiting"]
  /\ UNCHANGED <<stored, value, services, results>>

TimeoutUnsettled(r) ==   \* variant: the timer clears itself and resolves nothing
  FALSE

ResultTimeout(r) ==
  /\ run[r].phase = "waiting"
  /\ Turn(r, Ended(run[r], "timeout"), results)
  /\ UNCHANGED <<stored, value, services>>

MatchesDevice(r, a) ==   \* variant: the action is not compared
  /\ run[r].phase = "waiting"
  /\ Current(run[r]).dev = a.dev
  /\ r \in a.fresh

Matches(r, a) ==
  /\ run[r].phase = "waiting"
  /\ Current(run[r]).dev = a.dev /\ Current(run[r]).act = a.act
  /\ r \in a.fresh

\* A step that succeeded still has to see its wait_for, in an agentic run.
Answered(rn, ok) ==
  IF ~ok THEN Ended(rn, "error")
  ELSE IF rn.scene.mode = "agentic" /\ Current(rn).polls > 0
  THEN [rn EXCEPT !.phase = "polling", !.polls = Current(rn).polls]
  ELSE Ended(rn, "ok")

\* The bus hands a result to all listeners.
Receive ==
  /\ results # <<>>
  /\ LET a == Head(results)
         S == {r \in Runs : Matches(r, a)}
     IN /\ run' = [r \in Runs |-> IF r \in S THEN Answered(run[r], a.ok) ELSE run[r]]
        /\ \E n \in 0 .. Len(Tail(results)) :
             results' = Aged(Tail(results), n, {r \in S : Begins(run'[r])})
  /\ UNCHANGED <<stored, value, services>>

\* waitForStateCondition reads the store until the deadline.
Poll(r) ==
  LET rn == run[r]
      s == Current(rn)
      seen == IF stored[s.dev] = None THEN Undef ELSE value[s.dev]
  IN
  /\ rn.phase = "polling"
  /\ Turn(r, IF seen \in s.want THEN Ended(rn, "ok")
             ELSE IF rn.polls = 1 THEN Ended(rn, "timeout")
             ELSE [rn EXCEPT !.polls = @ - 1], results)
  /\ UNCHANGED <<stored, value, services>>

-----------------------------------------------------------------------------
(* The services.                                                            *)

\* A result is stamped now, after the current step of every run began.
Answer(q, ok) ==
  results' = Append(results, [dev |-> Asked(q).dev, act |-> Asked(q).act, ok |-> ok,
                              fresh |-> {r \in Runs : run[r].phase \notin {"done", "failed"}}])

\* MQTT is answered without waiting for the device, HA (and voice control, which
\* is taken with it) with the outcome; a device that no transport reaches,
\* simulated ones included, is answered with an error.
AdapterAnswers(d) == CASE Via[d] = "mqtt" -> {TRUE} [] Via[d] = "ha" -> BOOLEAN [] OTHER -> {FALSE}

\* The adapter serves a request; it does not answer for an unknown device.
AdapterActs(q) ==
  /\ q \in adapter
  /\ adapter' = adapter \ {q}
  /\ IF stored[Asked(q).dev] = None THEN UNCHANGED <<results, carried>>
     ELSE \E ok \in AdapterAnswers(Asked(q).dev) :
            /\ Answer(q, ok)
            /\ carried' = IF ok THEN carried \cup {q} ELSE carried
  /\ UNCHANGED <<run, stored, value, simulator, wrote>>

\* The simulator takes the head of its queue: a refusal (unsupported, invalid or
\* simulated failure), or the action is carried out.
SimulatorActs ==
  /\ simulator # <<>> /\ ~wrote
  /\ LET q == Head(simulator)
         s == Asked(q)
     IN \/ /\ Answer(q, FALSE)
           /\ simulator' = Tail(simulator)
           /\ UNCHANGED <<value, wrote, carried>>
        \/ /\ s.act \in stored[s.dev]
           /\ value' = [value EXCEPT ![s.dev] = Effect[s.act]]
           /\ wrote' = TRUE
           /\ carried' = carried \cup {q}
           /\ UNCHANGED <<simulator, results>>
  /\ UNCHANGED <<run, stored, adapter>>

SimulatorAnswers ==
  /\ wrote
  /\ Answer(Head(simulator), TRUE)
  /\ simulator' = Tail(simulator)
  /\ wrote' = FALSE
  /\ UNCHANGED <<run, stored, value, adapter, carried>>

\* A run that may read the store next.  A change that nobody is about to read
\* may as well happen later (bound on the interleavings of the environment).
Observed == \E r \in Runs : run[r].phase \in {"idle", "looking", "polling"}

\* Physical devices report what they like, come and go.
DeviceReports(d, v) ==
  /\ Observed
  /\ Via[d] # "simulator"
  /\ value' = [value EXCEPT ![d] = v]
  /\ UNCHANGED <<run, stored, services, results>>

InventoryChanges(d, acts) ==
  /\ Observed
  /\ stored' = [stored EXCEPT ![d] = acts]
  /\ UNCHANGED <<run, value, services, results>>

\* The gateway's subscription misses a result.
LoseResult ==
  /\ results # <<>>
  /\ results' = Tail(results)
  /\ UNCHANGED <<run, stored, value, services>>

-----------------------------------------------------------------------------

Init ==
  /\ run = [r \in Runs |-> NoRun]
  /\ stored \in {s \in [Devices -> SUBSET Actions \cup {None}] : \A d \in Devices : s[d] \in Inventories[d]}
  /\ value \in [Devices -> Values]
  /\ adapter = {}
  /\ simulator = <<>>
  /\ wrote = FALSE
  /\ results = <<>>
  /\ carried = {}

RunStep(r) ==
  Look(r) \/ Publish(r) \/ PublishFails(r) \/ Listen(r) \/ ResultTimeout(r) \/ Poll(r)

Next ==
  \/ \E r \in Runs : RunStep(r)
  \/ \E r \in Runs : Called(r)
  \/ Receive
  \/ \E q \in adapter : AdapterActs(q)
  \/ SimulatorActs
  \/ SimulatorAnswers
  \/ \E d \in Devices, v \in Values : DeviceReports(d, v)
  \/ \E d \in Devices : \E acts \in Inventories[d] : InventoryChanges(d, acts)
  \/ LoseResult

Spec == Init /\ [][Next]_vars

\* Awaits settle, timers fire, polls go on.  Nothing is assumed of the services
\* or of the delivery of messages.
Fairness == \A r \in Runs : WF_vars(RunStep(r))
FairSpec == Spec /\ Fairness

-----------------------------------------------------------------------------
(* Properties.                                                              *)

SomeOk(rn) == \E i \in DOMAIN rn.report : rn.report[i] = "ok"

\* scene-runner.js:165-171, agentic-scene-runner.js:476-481: a step is reported
\* ok only if a service carried out this action on this device, although
\* results are lost, late, out of order and shared between runs.
OkIsEarned ==
  \A r \in Runs : \A i \in DOMAIN run[r].report : run[r].report[i] = "ok" =>
    \E q \in carried : Asked(q).dev = run[r].plan[i].dev /\ Asked(q).act = run[r].plan[i].act

\* agentic-scene-runner.js:92-172: under the policy abort nothing is asked of a
\* device once a step did not end well, and in any run a step is asked for only
\* after all the earlier ones were reported.
AbortedStaysAborted ==
  \A r \in Runs : LET rn == run[r] IN
    /\ rn.scene # None /\ rn.scene.mode = "agentic" /\ rn.scene.abort /\ rn.phase # "done" =>
         \A i \in DOMAIN rn.report : rn.report[i] = "ok"
    /\ \A q \in carried \cup adapter : q[1] = r => q[2] <= Len(rn.report) + 1

UpwardClosed(L) == \A l \in L, k \in Levels : k >= l => k \in L

\* agentic-scene-runner.js:52-57, 218-311: an unconfirmed run asks nothing of a
\* device at a risk level that the scene wants confirmed (when the levels
\* listed include all higher ones).
UnconfirmedIsHarmless ==
  \A q \in carried \cup adapter : LET rn == run[q[1]] IN
    ~rn.confirmed /\ UpwardClosed(rn.scene.confirmOn) =>
      rn.scene.goals[q[2]].risk[Asked(q).dev] \notin rn.scene.confirmOn

\* scene-runner.js:63-137, agentic-scene-runner.js:92-172: every run comes to an
\* end, whatever is lost and whoever is down, because the result timer and the
\* deadline of wait_for settle what nobody answers.
RunsEnd ==
  \A r \in Runs : run[r].phase # "idle" ~> run[r].phase \in {"done", "failed"}

\* docs/feature/device_simulation/README.md:10-12: simulated devices coexist with
\* real ones and are used like them: a request that the simulator carried out is
\* not reported as an error.
SimulatedIsNotRefused ==
  \A q \in carried : Via[Asked(q).dev] = "simulator" /\ q[2] \in DOMAIN run[q[1]].report =>
    run[q[1]].report[q[2]] # "error"

\* docs/feature/scene_integration/requirements.md:45: a step with a wait_for is
\* over only when the condition holds; only then the next step follows.
GoesOnWhenMet ==
  [][\A r \in Runs : LET i == Len(run[r].report) + 1 IN
       /\ i \in DOMAIN run'[r].report /\ run'[r].report[i] = "ok" /\ run[r].phase # "idle"
       /\ Current(run[r]).polls > 0
       => value[Current(run[r]).dev] \in Current(run[r]).want]_vars
=============================================================================
