------------------------ MODULE AutomationEngineProofs ------------------------
(***************************************************************************)
(* Proofs about the automation engine: the safety properties of            *)
(* AutomationEngine hold for every set of ids, devices, definitions,       *)
(* automation lists and scene expansions, and a suspended run only gets    *)
(* further through its plan.                                               *)
(***************************************************************************)
EXTENDS AutomationEngine, TLAPS, SequenceTheorems, WellFoundedInduction

-----------------------------------------------------------------------------
(* The inductive invariant.                                                 *)

\* A suspended run has a step in progress; the phases that publish and wait
\* are about a device step; a resumption was earned.
WellFormed(r) ==
  /\ r \in Run
  /\ r.phase = "idle" <=> r.todo = <<>>
  /\ r.phase \in {"publishing", "waiting", "resumed"} => Head(r.todo) \in DeviceStep
  /\ r.phase = "expanding" => Head(r.todo).kind = "scene"
  /\ r.phase = "resumed" => r.met

RunsWellFormed == \A c \in Calls : WellFormed(run[c])

IInv ==
  /\ TypeOK
  /\ ListedHasObject
  /\ RunsWellFormed
  /\ OneRunPerObject
  /\ PendingJustified
  /\ TimersFollowList
  /\ WaitersMatchRuns
  /\ NoLostWakeup

-----------------------------------------------------------------------------
(* Facts about the pure operators.                                          *)

\* A plan is taken apart step by step: head and rest are well typed.
LEMMA PlanFacts ==
  ASSUME NEW todo \in Plan, todo # <<>>
  PROVE  /\ Head(todo) \in DeviceStep \cup SceneStep
         /\ Tail(todo) \in Plan
         /\ Head(todo).kind \in {"device", "scene"}
         /\ Head(todo).kind = "device" <=> Head(todo) \in DeviceStep
<1>1. Head(todo) \in DeviceStep \cup SceneStep /\ Tail(todo) \in Plan
  BY HeadTailProperties DEF Plan
<1>2. QED
  BY <1>1 DEF DeviceStep, SceneStep

\* The synchronous stretch leaves a well-formed run behind, idle at the end of
\* the plan only.
LEMMA ProceedFacts ==
  ASSUME NEW todo \in Plan
  PROVE  /\ WellFormed(Proceed(todo))
         /\ Proceed(todo).todo = todo
         /\ Proceed(todo).phase \in {"idle", "publishing", "expanding"}
<1>1. CASE todo = <<>>
  BY <1>1 DEF Proceed, Idle, WellFormed, Run, Phases
<1>2. CASE todo # <<>>
  <2>1. /\ Proceed(todo) = [phase |-> IF Head(todo).kind = "scene" THEN "expanding" ELSE "publishing",
                            todo |-> todo, met |-> FALSE]
        /\ Head(todo).kind # "scene" => Head(todo) \in DeviceStep
    BY <1>2, PlanFacts DEF Proceed
  <2>2. QED
    BY <1>2, <2>1 DEF WellFormed, Run, Phases
<1>3. QED
  BY <1>1, <1>2

\* The steps of a scene followed by the rest of a plan are a plan.
LEMMA ExpansionFacts ==
  ASSUME NEW steps \in Expansions, NEW todo \in Plan, todo # <<>>
  PROVE  steps \o Tail(todo) \in Plan
<1>1. Tail(todo) \in Plan
  BY PlanFacts
<1>2. steps \in Plan
  BY ExpansionsAssumption, SeqDef DEF Plan
<1>3. QED
  BY <1>1, <1>2, ConcatProperties DEF Plan

\* A non-empty set of numbers has a least element.
LEMMA LeastElement ==
  ASSUME NEW T \in SUBSET Nat, T # {}
  PROVE  \E x \in T : \A y \in T : x <= y
<1> DEFINE R == {p \in Nat \X Nat : p[1] < p[2]}
<1>1. IsWellFoundedOn(R, Nat)
  BY NatLessThanWellFounded DEF OpToRel
<1>2. \A x, y \in Nat : <<y, x>> \in R <=> y < x
  OBVIOUS
<1> HIDE DEF R
<1>3. PICK x \in T : \A y \in T : ~ (<<y, x>> \in R)
  BY <1>1, WFMin
<1>4. ASSUME NEW y \in T
      PROVE  x <= y
  <2>1. x \in Nat /\ y \in Nat /\ ~ (y < x)
    BY <1>2, <1>3
  <2>2. QED
    BY <2>1
<1>5. QED
  BY <1>4

\* The next time of day is at most a day away, and never now.
LEMMA NextTimeFacts ==
  ASSUME TypeOK, NEW at \in SUBSET Clock, at # {}
  PROVE  NextTimeTrigger(at) \in 1 .. Day
<1> DEFINE delays == {Until(t) : t \in at}
<1>1. \A t \in at : Until(t) \in 1 .. Day
  BY BoundsAssumption DEF TypeOK, Clock, Until
<1>2. delays \in SUBSET Nat /\ delays # {} /\ delays \subseteq 1 .. Day
  BY <1>1, BoundsAssumption
<1>3. \E d \in delays : \A e \in delays : d <= e
  BY <1>2, LeastElement
<1>4. QED
  BY <1>2, <1>3 DEF NextTimeTrigger

\* The delay of an interval or time-of-day timer is a number.
LEMMA TimerDelayType ==
  ASSUME NEW def \in Defs, HasTimer(def), TypeOK
  PROVE  TimerDelay(def) \in Nat
<1>1. def.trigger \in Trigger
  BY DefsAssumption DEF Definition
<1>2. CASE def.trigger.kind = "interval"
  BY <1>1, <1>2 DEF TimerDelay, Trigger
<1>3. CASE def.trigger.kind # "interval"
  <2>1. def.trigger.kind = "time" /\ def.trigger.at \in SUBSET Clock /\ def.trigger.at # {}
    BY <1>1, <1>3 DEF HasTimer, Trigger
  <2>2. NextTimeTrigger(def.trigger.at) \in 1 .. Day
    BY <2>1, NextTimeFacts
  <2>3. QED
    BY <1>3, <2>2, BoundsAssumption DEF TimerDelay
<1>4. QED
  BY <1>2, <1>3

\* What validation guarantees of a definition.
LEMMA DefFacts ==
  ASSUME NEW def \in Defs
  PROVE  /\ def # None
         /\ def.enabled \in BOOLEAN /\ def.hold \in Nat /\ def.cooldown \in Nat
         /\ def.then \in Plan /\ def.then # <<>>
BY DefsAssumption DEF Definition

-----------------------------------------------------------------------------
(* What starting runs does.                                                 *)

\* An object that is not executing has a free call frame.
LEMMA FreeFrameFacts ==
  ASSUME TypeOK, OneRunPerObject, NEW o \in Obj, ~executing[o]
  PROVE  FreeFrame(o) \in Frames /\ ~Busy(<<o, FreeFrame(o)>>)
<1>1. \E f \in Frames : ~Busy(<<o, f>>)
  BY BoundsAssumption DEF OneRunPerObject
<1>2. QED
  BY <1>1 DEF FreeFrame

\* What is known after _executeAutomation was asked to start the runs of S.
Started(S, starts, pend, calls) ==
  /\ pending' \in [Obj -> Defs \cup {None}]
  /\ cooldown' \in [Obj -> Nat]
  /\ executing' \in [Obj -> BOOLEAN]
  /\ run' \in [Calls -> Run]
  /\ RunsWellFormed'
  /\ OneRunPerObject'
  /\ \A c \in Calls : Busy(c) => run'[c] = calls[c]
  /\ \A c \in Calls : ~Busy(c) => run'[c].phase \in {"idle", "publishing", "expanding"}
  /\ \A o \in Obj : pending'[o] # None => pending'[o] = pend[o] /\ cooldown'[o] = cooldown[o]
  /\ \A o \in Obj : ~executing[o] /\ executing'[o] =>
       /\ o \in S /\ cooldown'[o] = starts[o].cooldown
       /\ \E f \in Frames : run'[<<o, f>>].todo = starts[o].then

\* _executeAutomation keeps the objects well typed, every started object has
\* one run, and runs that were suspended are as the caller left them.
LEMMA ExecuteFacts ==
  ASSUME IInv,
         NEW S \in SUBSET Obj, NEW starts \in [S -> Defs],
         NEW pend \in [Obj -> Defs \cup {None}],
         NEW calls \in [Calls -> Run],
         \A c \in Calls : WellFormed(calls[c]),
         \A c \in Calls : calls[c].phase = "idle" <=> ~Busy(c),
         ExecuteAutomation(starts, pend, calls)
  PROVE  Started(S, starts, pend, calls)
<1> DEFINE T == Startable(starts)
<1>1. /\ T \subseteq S /\ DOMAIN starts = S
      /\ \A o \in T : ~executing[o]
      /\ \A o \in T : starts[o] \in Defs
      /\ TypeOK /\ RunsWellFormed /\ OneRunPerObject
  BY DEF Startable, IInv
<1>2. /\ executing' = [o \in Obj |-> executing[o] \/ o \in T]
      /\ cooldown' = [o \in Obj |-> IF o \in T THEN starts[o].cooldown ELSE cooldown[o]]
      /\ pending' = [o \in Obj |-> IF o \in T THEN None ELSE pend[o]]
      /\ run' = [c \in Calls |-> IF c[1] \in T /\ c[2] = FreeFrame(c[1])
                                 THEN Proceed(starts[c[1]].then) ELSE calls[c]]
  BY DEF ExecuteAutomation
<1> HIDE DEF T
<1>3. \A o \in T : FreeFrame(o) \in Frames /\ \A f \in Frames : ~Busy(<<o, f>>)
  BY <1>1, FreeFrameFacts DEF OneRunPerObject
<1>4. ASSUME NEW o \in T
      PROVE  LET r == Proceed(starts[o].then) IN
             /\ WellFormed(r) /\ r \in Run
             /\ r.phase \in {"publishing", "expanding"}
             /\ r.todo = starts[o].then
  <2>1. starts[o].then \in Plan /\ starts[o].then # <<>>
    BY <1>1, DefFacts
  <2>2. QED
    BY <2>1, ProceedFacts DEF WellFormed
<1>5. \A c \in Calls : c = <<c[1], c[2]>> /\ c[1] \in Obj /\ c[2] \in Frames
  BY DEF Calls
<1>6. \A o \in Obj, f \in Frames : <<o, f>> \in Calls
  BY DEF Calls
<1>7. /\ pending' \in [Obj -> Defs \cup {None}]
      /\ executing' \in [Obj -> BOOLEAN]
  BY <1>1, <1>2 DEF TypeOK
<1>8. cooldown' \in [Obj -> Nat]
  <2>1. \A o \in T : starts[o].cooldown \in Nat
    BY <1>1, DefFacts
  <2>2. QED
    BY <1>1, <1>2, <2>1 DEF TypeOK
<1>9. /\ run' \in [Calls -> Run]
      /\ \A c \in Calls : WellFormed(run'[c])
  BY <1>2, <1>4, <1>5
<1>10. \A c \in Calls : Busy(c) => run'[c] = calls[c]
  BY <1>2, <1>3, <1>5, <1>6
<1>11. \A c \in Calls : ~Busy(c) => run'[c].phase \in {"idle", "publishing", "expanding"}
  BY <1>2, <1>4, <1>5
<1>12. \A o \in Obj, f \in Frames : run'[<<o, f>>].phase # "idle" <=>
         (Busy(<<o, f>>) \/ (o \in T /\ f = FreeFrame(o)))
  BY <1>2, <1>3, <1>4, <1>6
<1>13. OneRunPerObject'
  <2>1. \A o \in Obj : executing'[o] <=> \E f \in Frames : run'[<<o, f>>].phase # "idle"
    BY <1>1, <1>2, <1>3, <1>12 DEF OneRunPerObject
  <2>2. ASSUME NEW o \in Obj, NEW f \in Frames, NEW g \in Frames,
               run'[<<o, f>>].phase # "idle", run'[<<o, g>>].phase # "idle"
        PROVE  f = g
    BY <1>1, <1>3, <1>12, <2>2 DEF OneRunPerObject
  <2>3. QED
    BY <2>1, <2>2 DEF OneRunPerObject, Busy
<1>14. \A o \in Obj : pending'[o] # None => pending'[o] = pend[o] /\ cooldown'[o] = cooldown[o]
  BY <1>2
<1>15. ASSUME NEW o \in Obj, ~executing[o], executing'[o]
       PROVE  /\ o \in S /\ cooldown'[o] = starts[o].cooldown
              /\ \E f \in Frames : run'[<<o, f>>].todo = starts[o].then
  <2>1. o \in T
    BY <1>2, <1>15
  <2>2. run'[<<o, FreeFrame(o)>>] = Proceed(starts[o].then)
    BY <1>2, <1>3, <1>6, <2>1
  <2>3. QED
    BY <1>1, <1>2, <1>3, <1>4, <2>1, <2>2
<1>16. QED
  BY <1>7, <1>8, <1>9, <1>10, <1>11, <1>13, <1>14, <1>15 DEF RunsWellFormed, Started

Scheduled(S, fired, dv, pend, calls) ==
  /\ pending' \in [Obj -> Defs \cup {None}]
  /\ pendingLeft' \in [Obj -> Nat]
  /\ cooldown' \in [Obj -> Nat]
  /\ executing' \in [Obj -> BOOLEAN]
  /\ run' \in [Calls -> Run]
  /\ RunsWellFormed'
  /\ OneRunPerObject'
  /\ \A c \in Calls : Busy(c) => run'[c] = calls[c]
  /\ \A c \in Calls : ~Busy(c) => run'[c].phase \in {"idle", "publishing", "expanding"}
  /\ \A o \in Obj : pending'[o] # None =>
       /\ cooldown'[o] = cooldown[o]
       /\ \/ pending'[o] = pend[o]
          \/ o \in S /\ pending'[o] = fired[o] /\ EvaluateWhen(fired[o], dv)
  /\ \A o \in Obj : ~executing[o] /\ executing'[o] =>
       /\ o \in S /\ cooldown'[o] = fired[o].cooldown
       /\ EvaluateWhen(fired[o], dv)
       /\ \E f \in Frames : run'[<<o, f>>].todo = fired[o].then

\* _maybeScheduleOrExecute: the same, and a pending run that is not one of the
\* caller's was armed for a fired definition whose condition holds.
LEMMA MaybeScheduleFacts ==
  ASSUME IInv,
         NEW S \in SUBSET Obj, NEW fired \in [S -> Defs], NEW dv,
         NEW pend \in [Obj -> Defs \cup {None}],
         NEW calls \in [Calls -> Run],
         \A c \in Calls : WellFormed(calls[c]),
         \A c \in Calls : calls[c].phase = "idle" <=> ~Busy(c),
         MaybeScheduleOrExecute(fired, dv, pend, calls)
  PROVE  Scheduled(S, fired, dv, pend, calls)
<1> DEFINE holds == {o \in DOMAIN fired : EvaluateWhen(fired[o], dv)}
           delayed == {o \in holds : fired[o].hold > 0}
           armed == {o \in delayed : pend[o] = None}
           B == holds \ delayed
           begin == [o \in B |-> fired[o]]
           hold == [o \in Obj |-> IF o \in armed THEN fired[o] ELSE pend[o]]
<1>1. /\ holds \subseteq S /\ armed \subseteq holds
      /\ \A o \in holds : fired[o] \in Defs /\ EvaluateWhen(fired[o], dv)
  OBVIOUS
<1>2. /\ B \in SUBSET Obj
      /\ begin \in [B -> Defs]
      /\ hold \in [Obj -> Defs \cup {None}]
  BY <1>1
<1>3. /\ ExecuteAutomation(begin, hold, calls)
      /\ pendingLeft' = [o \in Obj |-> IF o \in armed THEN fired[o].hold
                                       ELSE IF pending'[o] = None THEN 0 ELSE pendingLeft[o]]
  BY DEF MaybeScheduleOrExecute
<1>4. \A o \in armed : fired[o].hold \in Nat
  BY <1>1, DefFacts
<1>5. pendingLeft' \in [Obj -> Nat]
  BY <1>3, <1>4 DEF IInv, TypeOK
<1>6. \A o \in Obj : hold[o] = pend[o] \/ (o \in holds /\ hold[o] = fired[o])
  BY <1>1
<1>7. B \subseteq holds /\ \A o \in B : begin[o] = fired[o]
  OBVIOUS
<1> HIDE DEF holds, delayed, armed, B, begin, hold
<1>8. Started(B, begin, hold, calls)
  BY <1>2, <1>3, ExecuteFacts
<1>9. \A o \in Obj : pending'[o] # None =>
        /\ cooldown'[o] = cooldown[o]
        /\ \/ pending'[o] = pend[o]
           \/ o \in S /\ pending'[o] = fired[o] /\ EvaluateWhen(fired[o], dv)
  BY <1>1, <1>6, <1>8 DEF Started
<1>10. \A o \in Obj : ~executing[o] /\ executing'[o] =>
         /\ o \in S /\ cooldown'[o] = fired[o].cooldown
         /\ EvaluateWhen(fired[o], dv)
         /\ \E f \in Frames : run'[<<o, f>>].todo = fired[o].then
  BY <1>1, <1>7, <1>8 DEF Started
<1>11. QED
  BY <1>5, <1>8, <1>9, <1>10 DEF Started, Scheduled

-----------------------------------------------------------------------------
(* A step of a suspended run touches nothing but its own call.              *)

\* Every wait_for has its waiter, seen from a run that is not waiting.
LEMMA OtherWaiters ==
  ASSUME WaitersMatchRuns, NEW c \in Calls, run[c].phase # "waiting", NEW w \in waiters
  PROVE  w.call # c
BY DEF WaitersMatchRuns

\* A call that returns as r keeps the flag honest.
LEMMA ReturnFacts ==
  ASSUME IInv, NEW c \in Calls, Busy(c), NEW r, WellFormed(r), Return(c, r)
  PROVE  /\ run' \in [Calls -> Run]
         /\ executing' \in [Obj -> BOOLEAN]
         /\ RunsWellFormed'
         /\ OneRunPerObject'
         /\ run'[c] = r
         /\ \A d \in Calls : d # c => run'[d] = run[d]
         /\ \A o \in Obj : executing'[o] => executing[o]
<1>1. /\ run' = [run EXCEPT ![c] = r] /\ r \in Run
      /\ executing' = [executing EXCEPT ![c[1]] = r.phase # "idle"]
      /\ run \in [Calls -> Run] /\ executing \in [Obj -> BOOLEAN]
      /\ OneRunPerObject /\ RunsWellFormed
  BY DEF Return, WellFormed, IInv, TypeOK
<1>2. c = <<c[1], c[2]>> /\ c[1] \in Obj /\ c[2] \in Frames
  BY DEF Calls
<1>3. \A o \in Obj, f \in Frames : <<o, f>> \in Calls /\ (<<o, f>> = c <=> o = c[1] /\ f = c[2])
  BY <1>2 DEF Calls
<1>4. \A f \in Frames : Busy(<<c[1], f>>) => f = c[2]
  BY <1>1, <1>2 DEF OneRunPerObject
<1>5. /\ run' \in [Calls -> Run] /\ executing' \in [Obj -> BOOLEAN]
      /\ run'[c] = r /\ \A d \in Calls : d # c => run'[d] = run[d]
  BY <1>1
<1>6. \A d \in Calls : WellFormed(run'[d])
  BY <1>1, <1>5 DEF RunsWellFormed
<1>7. executing[c[1]]
  BY <1>1, <1>2 DEF OneRunPerObject
<1>8. \A o \in Obj : executing'[o] <=> \E f \in Frames : run'[<<o, f>>].phase # "idle"
  <2>1. ASSUME NEW o \in Obj, o # c[1]
        PROVE  executing'[o] <=> \E f \in Frames : run'[<<o, f>>].phase # "idle"
    <3>1. executing'[o] = executing[o]
      BY <1>1, <2>1
    <3>2. \A f \in Frames : run'[<<o, f>>] = run[<<o, f>>]
      BY <1>3, <1>5, <2>1
    <3>3. QED
      BY <1>1, <3>1, <3>2 DEF OneRunPerObject, Busy
  <2>2. executing'[c[1]] <=> \E f \in Frames : run'[<<c[1], f>>].phase # "idle"
    BY <1>1, <1>2, <1>3, <1>4, <1>5 DEF Busy
  <2>3. QED
    BY <2>1, <2>2
<1>9. ASSUME NEW o \in Obj, NEW f \in Frames, NEW g \in Frames,
             run'[<<o, f>>].phase # "idle", run'[<<o, g>>].phase # "idle"
      PROVE  f = g
  BY <1>1, <1>3, <1>4, <1>5, <1>9 DEF OneRunPerObject, Busy
<1>10. \A o \in Obj : executing'[o] => executing[o]
  BY <1>1, <1>7
<1>11. QED
  BY <1>5, <1>6, <1>8, <1>9, <1>10 DEF RunsWellFormed, OneRunPerObject, Busy

-----------------------------------------------------------------------------
(* Every step preserves the invariant.                                      *)

\* The parts that only automation objects and devices can disturb.
ObjectsInv ==
  /\ ListedHasObject
  /\ PendingJustified
  /\ TimersFollowList

\* A step of a suspended run keeps what concerns lists, timers and pending runs.
LEMMA ObjectsUntouched ==
  ASSUME ObjectsInv, UNCHANGED <<objVars, pending, cooldown, devices, clock>>
  PROVE  ObjectsInv'
<1>1. /\ list' = list /\ gen' = gen /\ timer' = timer /\ pending' = pending
      /\ cooldown' = cooldown /\ devices' = devices /\ clock' = clock
      /\ Attached' = Attached
  BY DEF objVars, Attached
<1>2. ListedHasObject'
  BY <1>1 DEF ObjectsInv, ListedHasObject
<1>3. PendingJustified'
  BY <1>1 DEF ObjectsInv, PendingJustified, EvaluateWhen, TimeFree
<1>4. TimersFollowList'
  BY <1>1 DEF ObjectsInv, TimersFollowList, HasTimer
<1>5. QED
  BY <1>2, <1>3, <1>4 DEF ObjectsInv

\* A call returns without starting to wait: publish or expansion answered, the
\* awaited condition came true, or an await threw.
LEMMA QuietReturn ==
  ASSUME IInv, NEW c \in Calls, Busy(c), run[c].phase # "waiting",
         NEW r, WellFormed(r), r.phase # "waiting", Return(c, r),
         UNCHANGED <<objVars, pending, pendingLeft, cooldown, lastEvent, devices, waiters, clock>>
  PROVE  IInv'
<1>1. /\ run' \in [Calls -> Run] /\ executing' \in [Obj -> BOOLEAN]
      /\ RunsWellFormed' /\ OneRunPerObject'
      /\ run'[c] = r /\ \A d \in Calls : d # c => run'[d] = run[d]
  BY ReturnFacts
<1>2. TypeOK'
  BY <1>1 DEF IInv, TypeOK, objVars
<1>3. ObjectsInv'
  BY ObjectsUntouched DEF IInv, ObjectsInv
<1>4. WaitersMatchRuns'
  <2>1. waiters' = waiters /\ WaitersMatchRuns /\ TypeOK
    BY DEF IInv
  <2>2. \A w \in waiters : w.call \in Calls /\ w.call # c
    BY <2>1, OtherWaiters DEF TypeOK, Waiter
  <2>3. QED
    BY <1>1, <2>1, <2>2 DEF WaitersMatchRuns
<1>5. NoLostWakeup'
  BY DEF IInv, NoLostWakeup
<1>6. QED
  BY <1>1, <1>2, <1>3, <1>4, <1>5 DEF IInv, ObjectsInv

\* The plan of a suspended run: a step is in progress and there is a rest.
LEMMA BusyPlan ==
  ASSUME IInv, NEW c \in Calls, Busy(c)
  PROVE  /\ run[c] \in Run /\ WellFormed(run[c])
         /\ run[c].todo \in Plan /\ run[c].todo # <<>>
         /\ Tail(run[c].todo) \in Plan
<1>1. run[c] \in Run /\ WellFormed(run[c]) /\ run[c].phase # "idle"
  BY DEF IInv, TypeOK, RunsWellFormed, Busy
<1>2. run[c].todo \in Plan /\ run[c].todo # <<>>
  BY <1>1 DEF WellFormed, Run
<1>3. QED
  BY <1>1, <1>2, PlanFacts

\* publishAction answered: the invariant is kept, a new waiter matches its run.
LEMMA PublishedStep ==
  ASSUME IInv, NEW c \in Calls, Published(c)
  PROVE  IInv'
<1> DEFINE step == Head(run[c].todo)
<1>1. /\ run[c].phase = "publishing" /\ Busy(c) /\ run[c].phase # "waiting"
      /\ UNCHANGED <<objVars, pending, pendingLeft, cooldown, lastEvent, devices, clock>>
  BY DEF Published, Busy
<1>2. step \in DeviceStep
  BY <1>1, BusyPlan DEF WellFormed
<1>3. CASE step.wait = 0 \/ devices[step.dev] \in step.want
  <2> DEFINE r == Proceed(Tail(run[c].todo))
  <2>1. WellFormed(r) /\ r.phase # "waiting"
    BY <1>1, BusyPlan, ProceedFacts
  <2>2. Return(c, r) /\ UNCHANGED waiters
    BY <1>3 DEF Published
  <2> HIDE DEF r
  <2>3. QED
    BY <1>1, <2>1, <2>2, QuietReturn
<1>4. CASE ~(step.wait = 0 \/ devices[step.dev] \in step.want)
  <2> DEFINE r == [run[c] EXCEPT !.phase = "waiting"]
             w == [call |-> c, dev |-> step.dev, want |-> step.want, left |-> step.wait]
  <2>1. Return(c, r) /\ waiters' = waiters \cup {w}
    BY <1>4 DEF Published
  <2>2. WellFormed(r) /\ r.phase = "waiting" /\ r.todo = run[c].todo
    BY <1>1, <1>2, BusyPlan DEF WellFormed, Run, Phases
  <2>3. w \in Waiter /\ devices[w.dev] \notin w.want
    BY <1>2, <1>4 DEF DeviceStep, Waiter
  <2>4. /\ w.call = c /\ Head(r.todo).dev = w.dev /\ Head(r.todo).want = w.want
    BY <2>2
  <2> HIDE DEF r, w
  <2>5. /\ run' \in [Calls -> Run] /\ executing' \in [Obj -> BOOLEAN]
        /\ RunsWellFormed' /\ OneRunPerObject'
        /\ run'[c] = r /\ \A d \in Calls : d # c => run'[d] = run[d]
    BY <1>1, <2>1, <2>2, ReturnFacts
  <2>6. TypeOK'
    BY <1>1, <2>1, <2>3, <2>5 DEF IInv, TypeOK, objVars
  <2>7. ObjectsInv'
    BY <1>1, ObjectsUntouched DEF IInv, ObjectsInv
  <2>8. WaitersMatchRuns'
    <3>1. \A u \in waiters : u.call \in Calls /\ u.call # c
      BY <1>1, OtherWaiters DEF IInv, TypeOK, Waiter
    <3>2. WaitersMatchRuns
      BY DEF IInv
    <3>3. \A u \in waiters' : run'[u.call].phase = "waiting"
                /\ Head(run'[u.call].todo).dev = u.dev /\ Head(run'[u.call].todo).want = u.want
      BY <2>1, <2>2, <2>4, <2>5, <3>1, <3>2 DEF WaitersMatchRuns
    <3>4. \A d \in Calls : run'[d].phase = "waiting" => \E u \in waiters' : u.call = d
      BY <2>1, <2>4, <2>5, <3>2 DEF WaitersMatchRuns
    <3>5. \A u, v \in waiters' : u.call = v.call => u = v
      BY <2>1, <2>4, <3>1, <3>2 DEF WaitersMatchRuns
    <3>6. QED
      BY <3>3, <3>4, <3>5 DEF WaitersMatchRuns
  <2>9. NoLostWakeup'
    BY <1>1, <2>1, <2>3 DEF IInv, NoLostWakeup
  <2>10. QED
    BY <2>5, <2>6, <2>7, <2>8, <2>9 DEF IInv, ObjectsInv
<1>5. QED
  BY <1>3, <1>4

\* expandScene answered: the invariant is kept.
LEMMA ExpandedStep ==
  ASSUME IInv, NEW c \in Calls, NEW steps \in Expansions, Expanded(c, steps)
  PROVE  IInv'
<1> DEFINE r == Proceed(steps \o Tail(run[c].todo))
<1>1. Busy(c) /\ run[c].phase # "waiting" /\ Return(c, r)
      /\ UNCHANGED <<objVars, pending, pendingLeft, cooldown, lastEvent, devices, waiters, clock>>
  BY DEF Expanded, Busy
<1>2. WellFormed(r) /\ r.phase # "waiting"
  BY <1>1, BusyPlan, ExpansionFacts, ProceedFacts
<1> HIDE DEF r
<1>3. QED
  BY <1>1, <1>2, QuietReturn

\* The awaited condition came true: the invariant is kept.
LEMMA ResumeStep ==
  ASSUME IInv, NEW c \in Calls, Resume(c)
  PROVE  IInv'
<1> DEFINE r == Proceed(Tail(run[c].todo))
<1>1. Busy(c) /\ run[c].phase # "waiting" /\ Return(c, r)
      /\ UNCHANGED <<objVars, pending, pendingLeft, cooldown, lastEvent, devices, waiters, clock>>
  BY DEF Resume, Busy
<1>2. WellFormed(r) /\ r.phase # "waiting"
  BY <1>1, BusyPlan, ProceedFacts
<1> HIDE DEF r
<1>3. QED
  BY <1>1, <1>2, QuietReturn

\* An await threw: the invariant is kept.
LEMMA AbortStep ==
  ASSUME IInv, NEW c \in Calls, Abort(c)
  PROVE  IInv'
<1>1. Busy(c) /\ run[c].phase # "waiting" /\ Return(c, Idle)
      /\ UNCHANGED <<objVars, pending, pendingLeft, cooldown, lastEvent, devices, waiters, clock>>
  BY DEF Abort, Busy
<1>2. WellFormed(Idle) /\ Idle.phase # "waiting"
  BY DEF Idle, WellFormed, Run, Phases, Plan
<1>3. QED
  BY <1>1, <1>2, QuietReturn

\* The run of a waiter is suspended on it.
LEMMA WaiterRun ==
  ASSUME IInv, NEW w \in waiters
  PROVE  /\ w.call \in Calls /\ run[w.call].phase = "waiting" /\ Busy(w.call)
         /\ Head(run[w.call].todo) \in DeviceStep
         /\ Head(run[w.call].todo).dev = w.dev /\ Head(run[w.call].todo).want = w.want
<1>1. w.call \in Calls
  BY DEF IInv, TypeOK, Waiter
<1>2. QED
  BY <1>1 DEF IInv, WaitersMatchRuns, RunsWellFormed, WellFormed, Busy

\* Suspended runs change their phase, none starts or ends.
LEMMA Relabelled ==
  ASSUME IInv, executing' = executing,
         \A c \in Calls : WellFormed(run'[c]),
         \A c \in Calls : run'[c].phase = "idle" <=> ~Busy(c)
  PROVE  RunsWellFormed' /\ OneRunPerObject'
<1>1. RunsWellFormed'
  BY DEF RunsWellFormed
<1>2. \A o \in Obj, f \in Frames : <<o, f>> \in Calls
  BY DEF Calls
<1>3. OneRunPerObject
  BY DEF IInv
<1>4. QED
  BY <1>1, <1>2, <1>3 DEF OneRunPerObject, Busy

\* A wait timed out: the invariant is kept.
LEMMA WaitTimeoutStep ==
  ASSUME IInv, NEW w \in waiters, WaitTimeout(w)
  PROVE  IInv'
<1> DEFINE r == [run[w.call] EXCEPT !.phase = "rejected"]
<1>1. /\ waiters' = waiters \ {w} /\ run' = [run EXCEPT ![w.call] = r]
      /\ UNCHANGED <<objVars, pending, pendingLeft, cooldown, executing, lastEvent, devices, clock>>
  BY DEF WaitTimeout, stateVars
<1>2. WellFormed(r) /\ r \in Run /\ r.phase = "rejected"
  BY WaiterRun, BusyPlan DEF WellFormed, Run, Phases
<1> HIDE DEF r
<1>3. /\ run' \in [Calls -> Run] /\ run'[w.call] = r
      /\ \A d \in Calls : d # w.call => run'[d] = run[d]
  BY <1>1, <1>2, WaiterRun DEF IInv, TypeOK
<1>4. TypeOK'
  BY <1>1, <1>3 DEF IInv, TypeOK, objVars
<1>5. RunsWellFormed' /\ OneRunPerObject'
  <2>1. \A c \in Calls : WellFormed(run'[c]) /\ (run'[c].phase = "idle" <=> ~Busy(c))
    BY <1>2, <1>3, WaiterRun DEF IInv, RunsWellFormed, Busy
  <2>2. QED
    BY <1>1, <2>1, Relabelled
<1>6. ObjectsInv'
  BY <1>1, ObjectsUntouched DEF IInv, ObjectsInv
<1>7. WaitersMatchRuns'
  <2>1. WaitersMatchRuns /\ \A u \in waiters : u.call \in Calls
    BY WaiterRun DEF IInv
  <2>2. \A u \in waiters' : u \in waiters /\ u.call # w.call /\ run'[u.call] = run[u.call]
    BY <1>1, <1>3, <2>1 DEF WaitersMatchRuns
  <2>3. \A c \in Calls : run'[c].phase = "waiting" => c # w.call /\ run[c].phase = "waiting"
    BY <1>2, <1>3
  <2>4. QED
    BY <1>1, <2>1, <2>2, <2>3 DEF WaitersMatchRuns
<1>8. NoLostWakeup'
  BY <1>1 DEF IInv, NoLostWakeup
<1>9. QED
  BY <1>4, <1>5, <1>6, <1>7, <1>8 DEF IInv, ObjectsInv

\* stop() keeps the invariant, the runs it rejects included.
LEMMA StopStep ==
  ASSUME IInv, Stop
  PROVE  IInv'
<1> DEFINE r(c) == IF \E w \in waiters : w.call = c
                   THEN [run[c] EXCEPT !.phase = "rejected"] ELSE run[c]
<1>1. /\ list' = [i \in Ids |-> None] /\ gen' = [i \in Ids |-> None]
      /\ pending' = [o \in Obj |-> None] /\ pendingLeft' = [o \in Obj |-> 0]
      /\ cooldown' = [o \in Obj |-> 0] /\ lastEvent' = [o \in Obj |-> None]
      /\ timer' = [o \in Obj |-> None] /\ timerLeft' = [o \in Obj |-> 0]
      /\ devices' = [d \in Devices |-> Unseen] /\ waiters' = {}
      /\ run' = [c \in Calls |-> r(c)]
      /\ executing' = executing /\ clock' = clock
  BY DEF Stop
<1>2. ASSUME NEW c \in Calls
      PROVE  WellFormed(r(c)) /\ r(c) \in Run /\ (r(c).phase = "idle" <=> ~Busy(c))
  <2>1. CASE \E w \in waiters : w.call = c
    <3>1. Busy(c)
      BY <2>1, WaiterRun
    <3>2. r(c) = [run[c] EXCEPT !.phase = "rejected"]
      BY <2>1
    <3>3. QED
      BY <3>1, <3>2, BusyPlan DEF WellFormed, Run, Phases
  <2>2. CASE ~ \E w \in waiters : w.call = c
    BY <2>2 DEF IInv, TypeOK, RunsWellFormed, Busy
  <2>3. QED
    BY <2>1, <2>2
<1>3. \A c \in Calls : r(c).phase # "waiting"
  <2>1. \A c \in Calls : run[c].phase = "waiting" => \E w \in waiters : w.call = c
    BY DEF IInv, WaitersMatchRuns
  <2>2. QED
    BY <2>1 DEF IInv, TypeOK, Run
<1> HIDE DEF r
<1>4. TypeOK'
  BY <1>1, <1>2 DEF IInv, TypeOK, Reading
<1>5. RunsWellFormed' /\ OneRunPerObject'
  BY <1>1, <1>2, Relabelled
<1>6. ListedHasObject' /\ PendingJustified' /\ NoLostWakeup'
  BY <1>1 DEF ListedHasObject, PendingJustified, NoLostWakeup
<1>7. TimersFollowList'
  <2>1. \A o \in Obj : o[1] \in Ids /\ o[2] \in Gens
    BY DEF Obj
  <2>2. Attached' = {}
    BY <1>1, <2>1, DefsAssumption DEF Attached
  <2>3. QED
    BY <1>1, <2>2 DEF TimersFollowList
<1>8. WaitersMatchRuns'
  BY <1>1, <1>3 DEF WaitersMatchRuns
<1>9. QED
  BY <1>4, <1>5, <1>6, <1>7, <1>8 DEF IInv

\* Reloading the list keeps the invariant, whatever runs are in flight.
LEMMA SetAutomationsStep ==
  ASSUME IInv, NEW config \in Configs, SetAutomations(config)
  PROVE  IInv'
<1>1. /\ \A i \in Ids : config[i] # None /\ gen[i] = None => FreshGens(i) # {}
      /\ list' = config /\ gen' = [i \in Ids |-> NextGen(config, i)]
      /\ pending' = [o \in Obj |-> None] /\ pendingLeft' = [o \in Obj |-> 0]
      /\ timer' = [o \in Obj |-> TimerAfterReload(config, o)]
      /\ timerLeft' = [o \in Obj |-> IF timer'[o] = None THEN 0 ELSE TimerDelay(timer'[o])]
      /\ UNCHANGED <<executing, devices, waiters, run, clock>>
  BY DEF SetAutomations
<1>2. /\ config \in [Ids -> Defs \cup {None}] /\ None \notin Defs /\ None \notin Gens
      /\ TypeOK
  BY ConfigsAssumption, DefsAssumption DEF IInv
<1>3. cooldown' \in [Obj -> Nat] /\ lastEvent' \in [Obj -> EventIds \cup {None}]
  BY <1>2 DEF SetAutomations, TypeOK
<1>4. \A i \in Ids :
        /\ config[i] = None => NextGen(config, i) = None
        /\ config[i] # None => NextGen(config, i) \in Gens
  BY <1>1, <1>2 DEF NextGen, FreshGens, TypeOK
<1>5. \A o \in Obj : o[1] \in Ids /\ o[2] \in Gens
  BY DEF Obj
<1>6. \A o \in Obj : timer'[o] # None =>
        /\ timer'[o] = config[o[1]] /\ timer'[o] \in Defs /\ HasTimer(timer'[o])
        /\ o[2] = gen'[o[1]]
  BY <1>1, <1>2, <1>5 DEF TimerAfterReload
<1>7. timerLeft' \in [Obj -> Nat] /\ timer' \in [Obj -> Defs \cup {None}]
  BY <1>1, <1>2, <1>6, TimerDelayType
<1>8. ASSUME NEW i \in Ids
      PROVE  /\ list'[i] = config[i]
             /\ gen'[i] \in Gens \cup {None}
             /\ list'[i] # None <=> gen'[i] # None
  <2>1. gen'[i] = NextGen(config, i) /\ list'[i] = config[i]
    BY <1>1
  <2>2. CASE config[i] = None
    BY <1>4, <2>1, <2>2
  <2>3. CASE config[i] # None
    BY <1>2, <1>4, <2>1, <2>3
  <2>4. QED
    BY <2>1, <2>2, <2>3
<1>9. TypeOK' /\ ListedHasObject'
  <2>1. gen' \in [Ids -> Gens \cup {None}]
    BY <1>1, <1>8
  <2>2. QED
    BY <1>1, <1>2, <1>3, <1>7, <1>8, <2>1 DEF TypeOK, ListedHasObject
<1>10. PendingJustified'
  BY <1>1 DEF PendingJustified
<1>11. TimersFollowList'
  <2>1. ASSUME NEW o \in Obj, timer'[o] # None
        PROVE  gen'[o[1]] = o[2] /\ timer'[o] = list'[o[1]] /\ HasTimer(timer'[o])
    BY <1>1, <1>6, <2>1
  <2>2. ASSUME NEW o \in Obj, gen'[o[1]] = o[2], list'[o[1]] # None, HasTimer(list'[o[1]])
        PROVE  timer'[o] # None
    <3>1. gen'[o[1]] = NextGen(config, o[1]) /\ config[o[1]] \in Defs
      BY <1>1, <1>2, <1>5, <2>2
    <3>2. timer'[o] = config[o[1]]
      BY <1>1, <2>2, <3>1 DEF TimerAfterReload
    <3>3. QED
      BY <1>2, <3>1, <3>2
  <2>3. QED
    BY <2>1, <2>2 DEF TimersFollowList, Attached, HasTimer
<1>12. RunsWellFormed' /\ OneRunPerObject' /\ WaitersMatchRuns' /\ NoLostWakeup'
  BY <1>1 DEF IInv, RunsWellFormed, OneRunPerObject, WaitersMatchRuns, NoLostWakeup, Busy
<1>13. QED
  BY <1>9, <1>10, <1>11, <1>12 DEF IInv

\* The passage of time keeps the invariant.
LEMMA TickStep ==
  ASSUME IInv, Tick
  PROVE  IInv'
<1>1. /\ clock' = IF clock = Day - 1 THEN 0 ELSE clock + 1
      /\ pendingLeft' = [o \in Obj |-> Less(pendingLeft[o])]
      /\ timerLeft' = [o \in Obj |-> Less(timerLeft[o])]
      /\ cooldown' = [o \in Obj |-> Less(cooldown[o])]
      /\ waiters' = {[w EXCEPT !.left = Less(@)] : w \in waiters}
      /\ UNCHANGED <<list, gen, pending, executing, lastEvent, timer, devices, run>>
      /\ TypeOK
  BY DEF Tick, IInv
<1>2. \A n \in Nat : Less(n) \in Nat /\ (n = 0 => Less(n) = 0)
  BY DEF Less
<1>3. clock' \in Clock /\ clock \in Clock
  BY <1>1, BoundsAssumption DEF TypeOK, Clock
<1>4. \A u \in waiters' : \E w \in waiters :
        /\ u \in Waiter /\ u.call = w.call /\ u.dev = w.dev /\ u.want = w.want
        /\ u = [w EXCEPT !.left = Less(@)]
  BY <1>1, <1>2 DEF TypeOK, Waiter
<1>5. \A w \in waiters : \E u \in waiters' : u.call = w.call
  <2>1. ASSUME NEW w \in waiters
        PROVE  [w EXCEPT !.left = Less(@)] \in waiters' /\ [w EXCEPT !.left = Less(@)].call = w.call
    BY <1>1 DEF TypeOK, Waiter
  <2>2. QED
    BY <2>1
<1>6. TypeOK'
  BY <1>1, <1>2, <1>3, <1>4 DEF TypeOK
<1>7. PendingJustified'
  <2>1. SUFFICES ASSUME NEW o \in Obj, pending[o] # None
                 PROVE  /\ o \in Attached /\ pending[o] = list[o[1]] /\ pending[o].enabled
                        /\ cooldown'[o] = 0
                        /\ TimeFree(pending[o].when) => <<devices, clock'>> \in pending[o].when
    BY <1>1 DEF PendingJustified, Attached, TimeFree, EvaluateWhen
  <2>2. /\ o \in Attached /\ pending[o] = list[o[1]] /\ pending[o].enabled /\ cooldown[o] = 0
        /\ TimeFree(pending[o].when) => <<devices, clock>> \in pending[o].when
    BY <2>1 DEF IInv, PendingJustified, EvaluateWhen
  <2>3. QED
    BY <1>1, <1>2, <1>3, <2>2 DEF TypeOK, TimeFree
<1>8. ListedHasObject' /\ TimersFollowList'
  BY <1>1 DEF IInv, ListedHasObject, TimersFollowList, Attached, HasTimer
<1>9. RunsWellFormed' /\ OneRunPerObject'
  BY <1>1 DEF IInv, RunsWellFormed, OneRunPerObject, Busy
<1>10. WaitersMatchRuns'
  <2>1. WaitersMatchRuns /\ run' = run
    BY <1>1 DEF IInv
  <2>2. \A u, v \in waiters' : u.call = v.call => u = v
    BY <1>4, <2>1 DEF WaitersMatchRuns
  <2>3. QED
    BY <1>4, <1>5, <2>1, <2>2 DEF WaitersMatchRuns
<1>11. NoLostWakeup'
  BY <1>1, <1>4 DEF IInv, NoLostWakeup
<1>12. QED
  BY <1>6, <1>7, <1>8, <1>9, <1>10, <1>11 DEF IInv

\* What a step that may start runs leaves of the waiters: those of done are
\* gone, the rest still have their runs.
LEMMA WaitersAfterStarts ==
  ASSUME IInv, NEW done \in SUBSET waiters, NEW calls \in [Calls -> Run],
         waiters' = waiters \ done,
         \A c \in Calls : Busy(c) => run'[c] = calls[c],
         \A c \in Calls : ~Busy(c) => run'[c].phase \in {"idle", "publishing", "expanding"},
         \A c \in Calls : calls[c].todo = run[c].todo,
         \A c \in Calls : (\E w \in done : w.call = c) => calls[c].phase # "waiting",
         \A c \in Calls : (~ \E w \in done : w.call = c) => calls[c].phase = run[c].phase
  PROVE  WaitersMatchRuns'
<1>1. WaitersMatchRuns
  BY DEF IInv
<1>2. ASSUME NEW w \in waiters'
      PROVE  /\ run'[w.call].phase = "waiting"
             /\ Head(run'[w.call].todo).dev = w.dev /\ Head(run'[w.call].todo).want = w.want
  <2>1. w \in waiters /\ w \notin done
    OBVIOUS
  <2>2. w.call \in Calls /\ Busy(w.call) /\ run[w.call].phase = "waiting"
        /\ Head(run[w.call].todo).dev = w.dev /\ Head(run[w.call].todo).want = w.want
    BY <2>1, WaiterRun
  <2>3. ~ \E u \in done : u.call = w.call
    BY <1>1, <2>1 DEF WaitersMatchRuns
  <2>4. QED
    BY <2>2, <2>3
<1>3. ASSUME NEW c \in Calls, run'[c].phase = "waiting"
      PROVE  \E w \in waiters' : w.call = c
  <2>1. Busy(c) /\ run'[c] = calls[c]
    BY <1>3
  <2>2. run[c].phase = "waiting" /\ ~ \E w \in done : w.call = c
    BY <1>3, <2>1
  <2>3. QED
    BY <1>1, <2>2 DEF WaitersMatchRuns
<1>4. \A u, w \in waiters' : u.call = w.call => u = w
  BY <1>1 DEF WaitersMatchRuns
<1>5. QED
  BY <1>2, <1>3, <1>4 DEF WaitersMatchRuns

\* Timer callbacks start runs without touching the suspended ones.
LEMMA WaitersAfterTimer ==
  ASSUME IInv, waiters' = waiters,
         \A c \in Calls : Busy(c) => run'[c] = run[c],
         \A c \in Calls : ~Busy(c) => run'[c].phase \in {"idle", "publishing", "expanding"}
  PROVE  WaitersMatchRuns'
<1>1. /\ WaitersMatchRuns
      /\ \A c \in Calls : run[c].phase = "waiting" => Busy(c)
      /\ \A c \in Calls : run'[c].phase = "waiting" => Busy(c) /\ run'[c] = run[c]
  BY DEF IInv, Busy
<1>2. \A w \in waiters : w.call \in Calls /\ run'[w.call] = run[w.call]
  BY WaiterRun
<1>3. QED
  BY <1>1, <1>2 DEF WaitersMatchRuns

\* Suspended runs keep the rest of their plans.
PlansKept == \A c \in Calls : Busy(c) => run'[c].todo = run[c].todo

\* The calls a start finds are typed and well formed.
LEMMA OldCalls ==
  ASSUME IInv
  PROVE  /\ run \in [Calls -> Run] /\ pending \in [Obj -> Defs \cup {None}]
         /\ \A c \in Calls : WellFormed(run[c]) /\ (run[c].phase = "idle" <=> ~Busy(c))
BY DEF IInv, TypeOK, RunsWellFormed, Busy

\* A pending or armed definition is the one in the list.
LEMMA CapturedIsListed ==
  ASSUME IInv, NEW o \in Obj
  PROVE  /\ pending[o] # None => /\ pending[o] \in Defs /\ pending[o] = list[o[1]]
                                 /\ o \in Attached /\ pending[o].enabled /\ cooldown[o] = 0
         /\ timer[o] # None => /\ timer[o] \in Defs /\ timer[o] = list[o[1]]
                               /\ o \in Attached /\ HasTimer(timer[o])
BY DEF IInv, TypeOK, PendingJustified, TimersFollowList

\* A delayed run keeps the invariant, starts only if justified and keeps plans.
LEMMA DelayedRunStep ==
  ASSUME IInv, NEW o \in Obj, DelayedRun(o)
  PROVE  IInv' /\ JustifiedStart /\ PlansKept
<1> DEFINE def == pending[o]
           go == def.enabled /\ CooldownOk(o) /\ EvaluateWhen(def, devices)
           S == {y \in {o} : go}
           starts == [x \in S |-> def]
           pend == [pending EXCEPT ![o] = None]
<1>1. /\ def # None /\ ExecuteAutomation(starts, pend, run)
      /\ pendingLeft' = [pendingLeft EXCEPT ![o] = 0]
      /\ UNCHANGED <<objVars, lastEvent, devices, waiters, clock>>
  BY DEF DelayedRun
<1>2. /\ def \in Defs /\ def = list[o[1]] /\ o \in Attached /\ def.enabled /\ cooldown[o] = 0
  BY <1>1, CapturedIsListed
<1>3. /\ S \in SUBSET Obj /\ starts \in [S -> Defs]
      /\ \A x \in S : x = o /\ EvaluateWhen(def, devices)
      /\ pend \in [Obj -> Defs \cup {None}]
      /\ \A x \in Obj : pend[x] # None => pend[x] = pending[x]
  BY <1>2, OldCalls
<1>4. \A x \in S : starts[x] = def
  OBVIOUS
<1> HIDE DEF def, S, starts, pend
<1>5. Started(S, starts, pend, run)
  BY <1>1, <1>3, OldCalls, ExecuteFacts
<1>6. /\ pending' \in [Obj -> Defs \cup {None}] /\ cooldown' \in [Obj -> Nat]
      /\ executing' \in [Obj -> BOOLEAN] /\ run' \in [Calls -> Run]
      /\ RunsWellFormed' /\ OneRunPerObject'
      /\ \A c \in Calls : Busy(c) => run'[c] = run[c]
      /\ \A c \in Calls : ~Busy(c) => run'[c].phase \in {"idle", "publishing", "expanding"}
      /\ \A x \in Obj : pending'[x] # None => pending'[x] = pend[x] /\ cooldown'[x] = cooldown[x]
  BY <1>5 DEF Started
<1>7. TypeOK'
  BY <1>1, <1>6 DEF IInv, TypeOK, objVars
<1>8. WaitersMatchRuns'
  BY <1>1, <1>6, WaitersAfterTimer
<1>9. PendingJustified'
  <2>1. \A x \in Obj : pending'[x] # None => pending[x] # None /\ pending'[x] = pending[x]
                                              /\ cooldown'[x] = cooldown[x]
    BY <1>3, <1>6
  <2>2. list' = list /\ gen' = gen /\ devices' = devices /\ clock' = clock /\ Attached' = Attached
    BY <1>1 DEF objVars, Attached
  <2>3. QED
    BY <2>1, <2>2 DEF IInv, PendingJustified, EvaluateWhen, TimeFree
<1>10. ListedHasObject' /\ TimersFollowList' /\ NoLostWakeup'
  BY <1>1 DEF IInv, ListedHasObject, TimersFollowList, NoLostWakeup, objVars, Attached, HasTimer
<1>11. IInv'
  BY <1>6, <1>7, <1>8, <1>9, <1>10 DEF IInv
<1>12. ASSUME NEW x \in Obj, ~executing[x], executing'[x]
       PROVE  /\ x = o /\ EvaluateWhen(def, devices) /\ cooldown'[x] = def.cooldown
              /\ \E f \in Frames : run'[<<x, f>>].todo = def.then
  BY <1>3, <1>4, <1>5, <1>12 DEF Started
<1>13. JustifiedStart
  BY <1>1, <1>2, <1>12 DEF JustifiedStart
<1>14. PlansKept
  BY <1>6 DEF PlansKept
<1>15. QED
  BY <1>11, <1>13, <1>14

\* An interval or time-of-day callback does the same.
LEMMA TimerTriggerStep ==
  ASSUME IInv, NEW o \in Obj, TimerTrigger(o)
  PROVE  IInv' /\ JustifiedStart /\ PlansKept
<1> DEFINE def == timer[o]
           S == {y \in {o} : def.enabled /\ CooldownOk(o)}
           fired == [x \in S |-> def]
<1>1. /\ def # None /\ MaybeScheduleOrExecute(fired, devices, pending, run)
      /\ timerLeft' = [timerLeft EXCEPT ![o] = TimerDelay(def)]
      /\ UNCHANGED <<list, gen, timer, lastEvent, devices, waiters, clock>>
  BY DEF TimerTrigger
<1>2. def \in Defs /\ def = list[o[1]] /\ o \in Attached /\ HasTimer(def)
  BY <1>1, CapturedIsListed
<1>3. /\ S \in SUBSET Obj /\ fired \in [S -> Defs]
      /\ \A x \in S : x = o /\ fired[x] = def /\ def.enabled /\ cooldown[o] = 0
  BY <1>2 DEF CooldownOk
<1>4. timerLeft' \in [Obj -> Nat]
  BY <1>1, <1>2, TimerDelayType DEF IInv, TypeOK
<1> HIDE DEF def, S, fired
<1>5. Scheduled(S, fired, devices, pending, run)
  BY <1>1, <1>3, OldCalls, MaybeScheduleFacts
<1>6. /\ pending' \in [Obj -> Defs \cup {None}] /\ pendingLeft' \in [Obj -> Nat]
      /\ cooldown' \in [Obj -> Nat]
      /\ executing' \in [Obj -> BOOLEAN] /\ run' \in [Calls -> Run]
      /\ RunsWellFormed' /\ OneRunPerObject'
      /\ \A c \in Calls : Busy(c) => run'[c] = run[c]
      /\ \A c \in Calls : ~Busy(c) => run'[c].phase \in {"idle", "publishing", "expanding"}
  BY <1>5 DEF Scheduled
<1>7. TypeOK'
  BY <1>1, <1>4, <1>6 DEF IInv, TypeOK
<1>8. WaitersMatchRuns'
  BY <1>1, <1>6, WaitersAfterTimer
<1>9. PendingJustified'
  <2>1. ASSUME NEW x \in Obj, pending'[x] # None
        PROVE  /\ cooldown'[x] = cooldown[x]
               /\ \/ pending[x] # None /\ pending'[x] = pending[x]
                  \/ x = o /\ pending'[x] = def /\ def.enabled /\ cooldown[x] = 0
                     /\ EvaluateWhen(def, devices)
    BY <1>3, <1>5, <2>1 DEF Scheduled
  <2>2. list' = list /\ gen' = gen /\ devices' = devices /\ clock' = clock /\ Attached' = Attached
    BY <1>1 DEF Attached
  <2>3. ASSUME NEW x \in Obj, pending'[x] # None
        PROVE  /\ x \in Attached /\ pending'[x] = list[x[1]] /\ pending'[x].enabled
               /\ cooldown'[x] = 0
               /\ TimeFree(pending'[x].when) => EvaluateWhen(pending'[x], devices)
    BY <1>2, <2>1, <2>3 DEF IInv, PendingJustified
  <2>4. QED
    BY <2>2, <2>3 DEF PendingJustified, EvaluateWhen, TimeFree
<1>10. ListedHasObject' /\ TimersFollowList' /\ NoLostWakeup'
  BY <1>1 DEF IInv, ListedHasObject, TimersFollowList, NoLostWakeup, Attached, HasTimer
<1>11. IInv'
  BY <1>6, <1>7, <1>8, <1>9, <1>10 DEF IInv
<1>12. ASSUME NEW x \in Obj, ~executing[x], executing'[x]
       PROVE  /\ x = o /\ def.enabled /\ cooldown[x] = 0
              /\ EvaluateWhen(def, devices) /\ cooldown'[x] = def.cooldown
              /\ \E f \in Frames : run'[<<x, f>>].todo = def.then
  <2>1. /\ x \in S /\ cooldown'[x] = fired[x].cooldown
        /\ EvaluateWhen(fired[x], devices)
        /\ \E f \in Frames : run'[<<x, f>>].todo = fired[x].then
    BY <1>5, <1>12 DEF Scheduled
  <2>2. x = o /\ fired[x] = def /\ def.enabled /\ cooldown[o] = 0
    BY <1>3, <2>1
  <2>3. QED
    BY <2>1, <2>2
<1>13. JustifiedStart
  BY <1>1, <1>2, <1>12 DEF JustifiedStart
<1>14. PlansKept
  BY <1>6 DEF PlansKept
<1>15. QED
  BY <1>11, <1>13, <1>14

\* What an update may make of the suspended runs: those whose waiter is done
\* leave their wait, no other changes its phase.
CallsFollow(done, calls) ==
  /\ calls \in [Calls -> Run]
  /\ \A c \in Calls : WellFormed(calls[c])
  /\ \A c \in Calls : calls[c].phase = "idle" <=> ~Busy(c)
  /\ \A c \in Calls : calls[c].todo = run[c].todo
  /\ \A c \in Calls : (\E w \in done : w.call = c) => calls[c].phase # "waiting"
  /\ \A c \in Calls : (~ \E w \in done : w.call = c) => calls[c].phase = run[c].phase

\* An update resumes the runs whose waiters it resolves, and these have seen
\* the reading they wait for.
LEMMA CallsAfterUpdate ==
  ASSUME IInv, NEW d \in Devices, NEW v \in Reading
  PROVE  LET done == Resolved(d, [devices EXCEPT ![d] = v])
         IN CallsFollow(done, Woken(done, d, v))
<1> DEFINE done == Resolved(d, [devices EXCEPT ![d] = v])
           calls == Woken(done, d, v)
<1>1. /\ devices \in [Devices -> Reading]
      /\ \A c \in Calls : run[c] \in Run /\ WellFormed(run[c])
  BY DEF IInv, TypeOK, RunsWellFormed
<1>2. \A w \in done : w \in waiters /\ w.dev = d /\ v \in w.want
  BY <1>1 DEF Resolved
<1>3. calls = [c \in Calls |->
                 [phase |-> IF \E w \in done : w.call = c THEN "resumed" ELSE run[c].phase,
                  todo |-> run[c].todo,
                  met |-> run[c].met \/ AwaitsReading(run[c], d, v)]]
  BY DEF Woken
<1> HIDE DEF done, calls
<1>4. ASSUME NEW c \in Calls, NEW r, r = calls[c]
      PROVE  /\ r \in Run
             /\ WellFormed(r)
             /\ r.phase = "idle" <=> ~Busy(c)
             /\ r.todo = run[c].todo
             /\ (\E w \in done : w.call = c) => r.phase # "waiting"
             /\ (~ \E w \in done : w.call = c) => r.phase = run[c].phase
  <2> DEFINE m == run[c].met \/ AwaitsReading(run[c], d, v)
             p == IF \E w \in done : w.call = c THEN "resumed" ELSE run[c].phase
  <2>1. m \in BOOLEAN /\ p \in Phases
    BY <1>1 DEF Run, Phases, AwaitsReading
  <2>2. r = [phase |-> p, todo |-> run[c].todo, met |-> m]
    BY <1>3, <1>4
  <2>3. run[c].met => m
    OBVIOUS
  <2>4. (\E w \in done : w.call = c) =>
          /\ p = "resumed" /\ run[c].phase = "waiting" /\ Busy(c) /\ m
          /\ Head(run[c].todo) \in DeviceStep
    <3>1. SUFFICES ASSUME NEW w \in done, w.call = c
                   PROVE  /\ run[c].phase = "waiting" /\ Busy(c)
                          /\ Head(run[c].todo) \in DeviceStep
                          /\ AwaitsReading(run[c], d, v)
      OBVIOUS
    <3>2. /\ run[c].phase = "waiting" /\ Busy(c) /\ Head(run[c].todo) \in DeviceStep
          /\ Head(run[c].todo).dev = d /\ v \in Head(run[c].todo).want
      BY <1>2, <3>1, WaiterRun
    <3>3. QED
      BY <3>2 DEF AwaitsReading
  <2>5. (~ \E w \in done : w.call = c) => p = run[c].phase
    OBVIOUS
  <2> HIDE DEF m, p
  <2>6. r.phase = p /\ r.todo = run[c].todo /\ r \in Run
    BY <1>1, <2>1, <2>2 DEF Run
  <2>7. m => r.met
    BY <2>2
  <2>8. r.phase = "resumed" => r.met
    BY <1>1, <2>3, <2>4, <2>5, <2>6, <2>7 DEF WellFormed
  <2>9. /\ r.phase = "idle" <=> r.todo = <<>>
        /\ r.phase \in {"publishing", "waiting", "resumed"} => Head(r.todo) \in DeviceStep
        /\ r.phase = "expanding" => Head(r.todo).kind = "scene"
    BY <1>1, <2>4, <2>5, <2>6 DEF WellFormed, Busy
  <2>10. r.phase = "idle" <=> ~Busy(c)
    BY <2>4, <2>5, <2>6 DEF Busy
  <2>11. QED
    BY <2>4, <2>5, <2>6, <2>8, <2>9, <2>10 DEF WellFormed
<1>5. calls \in [Calls -> Run]
  BY <1>3, <1>4
<1>6. CallsFollow(done, calls)
  BY <1>4, <1>5 DEF CallsFollow
<1>7. QED
  BY <1>6 DEF done, calls

\* A device update keeps the invariant, starts only justified runs and leaves
\* the plans of suspended runs alone.
LEMMA HandleDeviceUpdateStep ==
  ASSUME IInv, NEW d \in Devices, NEW v \in Snapshot, NEW ev \in Event \cup {None},
         HandleDeviceUpdate(d, v, ev)
  PROVE  IInv' /\ JustifiedStart /\ PlansKept
<1> DEFINE dv == [devices EXCEPT ![d] = v]
           done == Resolved(d, dv)
           S == Triggered(d, devices[d], v, ev)
           fired == [o \in S |-> list[o[1]]]
           pend == [o \in Obj |-> IF SurvivesUpdate(o, dv) THEN pending[o] ELSE None]
           calls == Woken(done, d, v)
<1>1. /\ devices' = dv /\ waiters' = waiters \ done
      /\ lastEvent' = [o \in Obj |-> IF o \in S /\ list[o[1]].trigger.kind = "device_event"
                                     THEN ev.id ELSE lastEvent[o]]
      /\ MaybeScheduleOrExecute(fired, dv, pend, calls)
      /\ UNCHANGED <<objVars, clock>>
  BY DEF HandleDeviceUpdate
<1>2. v \in Reading /\ devices \in [Devices -> Reading] /\ dv \in [Devices -> Reading]
  BY DEF IInv, TypeOK, Reading
<1>3. /\ S \in SUBSET Obj
      /\ \A o \in S : /\ o \in Attached /\ list[o[1]] # None /\ list[o[1]].enabled
                      /\ cooldown[o] = 0
                      /\ list[o[1]].trigger.kind = "device_event" => ev # None
  BY DEF Triggered, Attached, CooldownOk, NewEvent
<1>4. fired \in [S -> Defs] /\ \A o \in S : fired[o] = list[o[1]]
  <2>1. \A o \in S : list[o[1]] \in Defs
    BY <1>3 DEF IInv, TypeOK, Obj
  <2>2. QED
    BY <2>1
<1>5. pend \in [Obj -> Defs \cup {None}]
  BY OldCalls
<1>6. CallsFollow(done, calls)
  BY <1>2, CallsAfterUpdate
<1>7. done \in SUBSET waiters /\ \A w \in waiters \ done : dv[w.dev] \notin w.want
  <2>1. NoLostWakeup /\ \A w \in waiters : w.dev \in Devices
    BY DEF IInv, TypeOK, Waiter
  <2>2. QED
    BY <1>2, <2>1 DEF Resolved, NoLostWakeup
<1>8. \A o \in Obj : pend[o] # None => pend[o] = pending[o] /\ SurvivesUpdate(o, dv)
  OBVIOUS
<1>9. lastEvent' \in [Obj -> EventIds \cup {None}]
  <2>1. \A o \in S : list[o[1]].trigger.kind = "device_event" => ev.id \in EventIds
    BY <1>3 DEF Event
  <2>2. QED
    BY <1>1, <2>1 DEF IInv, TypeOK
<1> HIDE DEF dv, done, S, fired, pend, calls
<1>10. Scheduled(S, fired, dv, pend, calls)
  BY <1>1, <1>3, <1>4, <1>5, <1>6, MaybeScheduleFacts DEF CallsFollow
<1>11. /\ pending' \in [Obj -> Defs \cup {None}] /\ pendingLeft' \in [Obj -> Nat]
       /\ cooldown' \in [Obj -> Nat]
       /\ executing' \in [Obj -> BOOLEAN] /\ run' \in [Calls -> Run]
       /\ RunsWellFormed' /\ OneRunPerObject'
       /\ \A c \in Calls : Busy(c) => run'[c] = calls[c]
       /\ \A c \in Calls : ~Busy(c) => run'[c].phase \in {"idle", "publishing", "expanding"}
  BY <1>10 DEF Scheduled
<1>12. TypeOK'
  BY <1>1, <1>2, <1>7, <1>9, <1>11 DEF IInv, TypeOK, objVars
<1>13. WaitersMatchRuns'
  BY <1>1, <1>6, <1>7, <1>11, WaitersAfterStarts DEF CallsFollow
<1>14. NoLostWakeup'
  BY <1>1, <1>7 DEF NoLostWakeup
<1>15. list' = list /\ gen' = gen /\ timer' = timer /\ clock' = clock /\ Attached' = Attached
  BY <1>1 DEF objVars, Attached
<1>16. ASSUME NEW o \in Obj, pending'[o] # None
       PROVE  /\ o \in Attached /\ pending'[o] = list[o[1]] /\ pending'[o].enabled
              /\ cooldown'[o] = 0 /\ EvaluateWhen(pending'[o], dv)
  <2>1. /\ cooldown'[o] = cooldown[o]
        /\ \/ pending'[o] = pend[o]
           \/ o \in S /\ pending'[o] = fired[o] /\ EvaluateWhen(fired[o], dv)
    BY <1>10, <1>16 DEF Scheduled
  <2>2. CASE pending'[o] = pend[o]
    <3>1. pending'[o] = pending[o] /\ pending[o] # None /\ SurvivesUpdate(o, dv)
      BY <1>8, <1>16, <2>2
    <3>2. QED
      BY <1>16, <2>1, <3>1, CapturedIsListed DEF SurvivesUpdate
  <2>3. CASE o \in S /\ pending'[o] = fired[o] /\ EvaluateWhen(fired[o], dv)
    BY <1>3, <1>4, <2>1, <2>3
  <2>4. QED
    BY <2>1, <2>2, <2>3
<1>17. PendingJustified'
  BY <1>1, <1>15, <1>16 DEF PendingJustified, EvaluateWhen
<1>18. ListedHasObject' /\ TimersFollowList'
  BY <1>15 DEF IInv, ListedHasObject, TimersFollowList, HasTimer
<1>19. IInv'
  BY <1>11, <1>12, <1>13, <1>14, <1>17, <1>18 DEF IInv
<1>20. ASSUME NEW o \in Obj, ~executing[o], executing'[o]
       PROVE  /\ o \in Attached /\ list[o[1]] # None
              /\ list[o[1]].enabled /\ cooldown[o] = 0 /\ EvaluateWhen(list[o[1]], dv)
              /\ \E f \in Frames : run'[<<o, f>>].todo = list[o[1]].then
              /\ cooldown'[o] = list[o[1]].cooldown
  <2>1. /\ o \in S /\ cooldown'[o] = fired[o].cooldown
        /\ EvaluateWhen(fired[o], dv)
        /\ \E f \in Frames : run'[<<o, f>>].todo = fired[o].then
    BY <1>10, <1>20 DEF Scheduled
  <2>2. QED
    BY <1>3, <1>4, <2>1
<1>21. JustifiedStart
  BY <1>1, <1>20 DEF JustifiedStart
<1>22. PlansKept
  BY <1>6, <1>11 DEF PlansKept, CallsFollow
<1>23. QED
  BY <1>19, <1>21, <1>22

-----------------------------------------------------------------------------
(* The theorems.                                                            *)

\* The initial states satisfy the invariant.
LEMMA InitInv ==
  ASSUME Init
  PROVE  IInv
<1>1. /\ list = [i \in Ids |-> None] /\ gen = [i \in Ids |-> None]
      /\ pending = [o \in Obj |-> None] /\ pendingLeft = [o \in Obj |-> 0]
      /\ cooldown = [o \in Obj |-> 0] /\ executing = [o \in Obj |-> FALSE]
      /\ lastEvent = [o \in Obj |-> None] /\ timer = [o \in Obj |-> None]
      /\ timerLeft = [o \in Obj |-> 0] /\ devices \in [Devices -> Reading]
      /\ waiters = {} /\ run = [c \in Calls |-> Idle] /\ clock \in Clock
  BY DEF Init
<1>2. WellFormed(Idle) /\ Idle \in Run /\ Idle.phase = "idle"
  BY DEF Idle, WellFormed, Run, Phases, Plan
<1>3. TypeOK
  BY <1>1, <1>2 DEF TypeOK
<1>4. \A c \in Calls : run[c] = Idle
  BY <1>1
<1>5. \A o \in Obj, f \in Frames : <<o, f>> \in Calls
  BY DEF Calls
<1>6. RunsWellFormed /\ OneRunPerObject
  BY <1>1, <1>2, <1>4, <1>5 DEF RunsWellFormed, OneRunPerObject, Busy
<1>7. Attached = {}
  BY <1>1, DefsAssumption DEF Attached, Obj
<1>8. ListedHasObject /\ PendingJustified /\ TimersFollowList
  BY <1>1, <1>7 DEF ListedHasObject, PendingJustified, TimersFollowList
<1>9. WaitersMatchRuns /\ NoLostWakeup
  BY <1>1, <1>2, <1>4 DEF WaitersMatchRuns, NoLostWakeup
<1>10. QED
  BY <1>3, <1>6, <1>8, <1>9 DEF IInv

\* A step that starts no run is no unjustified start.
LEMMA NoStart ==
  ASSUME \A o \in Obj : executing'[o] => executing[o]
  PROVE  JustifiedStart
BY DEF JustifiedStart

\* A plan differs from its own rest.
LEMMA TailDiffers ==
  ASSUME NEW s \in Plan, s # <<>>
  PROVE  Tail(s) # s
<1>1. /\ s \in Seq(DeviceStep \cup SceneStep)
      /\ Len(Tail(s)) = Len(s) - 1
  BY HeadTailProperties DEF Plan
<1>2. Len(s) \in Nat
  BY <1>1, LenProperties
<1>3. \A n \in Nat : n - 1 # n
  OBVIOUS
<1>4. Len(Tail(s)) # Len(s)
  BY <1>1, <1>2, <1>3, Zenon
<1>5. QED
  BY <1>4

\* A step that keeps the plans of suspended runs passes no wait.
LEMMA NoPass ==
  ASSUME IInv, PlansKept
  PROVE  AwaitedStep
<1>1. ASSUME NEW c \in Calls, PassesWait(c)
      PROVE  FALSE
  <2>1. Busy(c) /\ run'[c].todo = Tail(run[c].todo)
    BY <1>1 DEF PassesWait, Busy
  <2>2. run'[c].todo = run[c].todo
    BY <2>1 DEF PlansKept
  <2>3. QED
    BY <2>1, <2>2, BusyPlan, TailDiffers
<1>2. QED
  BY <1>1 DEF AwaitedStep

\* A step of one suspended call starts nothing, and passes a wait only when the
\* call has seen the awaited reading.
LEMMA ResumptionStep ==
  ASSUME IInv, NEW c \in Calls,
         \/ Published(c)
         \/ \E steps \in Expansions : Expanded(c, steps)
         \/ Resume(c)
         \/ Abort(c)
  PROVE  IInv' /\ JustifiedStart /\ AwaitedStep
<1>1. IInv'
  BY PublishedStep, ExpandedStep, ResumeStep, AbortStep
<1>2. PICK r : Return(c, r) /\ Busy(c)
  BY DEF Published, Expanded, Resume, Abort, Busy
<1>3. /\ run \in [Calls -> Run] /\ executing \in [Obj -> BOOLEAN]
      /\ c[1] \in Obj /\ c[2] \in Frames /\ c = <<c[1], c[2]>>
      /\ OneRunPerObject
  BY DEF IInv, TypeOK, Calls
<1>4. executing[c[1]]
  BY <1>2, <1>3 DEF OneRunPerObject
<1>5. JustifiedStart
  BY <1>2, <1>3, <1>4, NoStart DEF Return
<1>6. \A d \in Calls : d # c => run'[d] = run[d]
  BY <1>2, <1>3 DEF Return
<1>7. ASSUME NEW d \in Calls, PassesWait(d)
      PROVE  run[d].met \/ devices[Head(run[d].todo).dev] \in Head(run[d].todo).want
  <2>1. /\ Busy(d) /\ Head(run[d].todo).kind = "device" /\ Head(run[d].todo).wait > 0
        /\ run'[d].phase # "idle" /\ run'[d].todo = Tail(run[d].todo)
    BY <1>7 DEF PassesWait, Busy
  <2>2. run'[d].todo # run[d].todo
    BY <2>1, BusyPlan, TailDiffers
  <2>3. d = c
    BY <1>6, <2>2
  <2>4. CASE Published(c)
    <3>1. CASE Head(run[c].todo).wait = 0 \/ devices[Head(run[c].todo).dev] \in Head(run[c].todo).want
      <4>1. Head(run[c].todo).wait # 0
        <5>1. Head(run[c].todo) \in DeviceStep
          BY <2>1, <2>3, <2>4, BusyPlan DEF Published, WellFormed
        <5>2. QED
          BY <2>1, <2>3, <5>1 DEF DeviceStep
      <4>2. QED
        BY <2>3, <3>1, <4>1
    <3>2. CASE ~(Head(run[c].todo).wait = 0 \/ devices[Head(run[c].todo).dev] \in Head(run[c].todo).want)
      <4>1. run'[c] = [run[c] EXCEPT !.phase = "waiting"]
        BY <1>3, <2>4, <3>2 DEF Published, Return
      <4>2. run'[c].todo = run[c].todo
        BY <1>3, <4>1 DEF Run
      <4>3. QED
        BY <2>2, <2>3, <4>2
    <3>3. QED
      BY <3>1, <3>2
  <2>5. CASE \E steps \in Expansions : Expanded(c, steps)
    BY <2>1, <2>3, <2>5, BusyPlan DEF Expanded, WellFormed
  <2>6. CASE Resume(c)
    BY <2>1, <2>3, <2>6, BusyPlan DEF Resume, WellFormed
  <2>7. CASE Abort(c)
    BY <1>3, <2>1, <2>3, <2>7 DEF Abort, Return, Idle
  <2>8. QED
    BY <2>4, <2>5, <2>6, <2>7
<1>8. QED
  BY <1>1, <1>5, <1>7 DEF AwaitedStep

\* The waits that a timeout or stop() ends keep their plans.
LEMMA RejectedPlans ==
  ASSUME IInv, NEW R \in SUBSET Calls,
         \A c \in Calls : run'[c] = IF c \in R THEN [run[c] EXCEPT !.phase = "rejected"] ELSE run[c]
  PROVE  PlansKept
<1>1. \A c \in Calls : run[c] \in Run
  BY DEF IInv, TypeOK
<1>2. \A c \in Calls : [run[c] EXCEPT !.phase = "rejected"].todo = run[c].todo
  BY <1>1 DEF Run
<1>3. QED
  BY <1>2 DEF PlansKept

\* Every step keeps the invariant and obeys both action properties.
LEMMA StepInv ==
  ASSUME IInv, [Next]_vars
  PROVE  IInv' /\ [JustifiedStart]_vars /\ [AwaitedStep]_vars
<1>1. ASSUME NEW config \in Configs, SetAutomations(config)
      PROVE  IInv' /\ JustifiedStart /\ AwaitedStep
  BY <1>1, SetAutomationsStep, NoStart, NoPass DEF SetAutomations, PlansKept
<1>2. ASSUME Stop
      PROVE  IInv' /\ JustifiedStart /\ AwaitedStep
  <2>1. IInv' /\ JustifiedStart
    BY <1>2, StopStep, NoStart DEF Stop
  <2>2. \A c \in Calls : run'[c] = IF c \in {x \in Calls : \E w \in waiters : w.call = x}
                                   THEN [run[c] EXCEPT !.phase = "rejected"] ELSE run[c]
    BY <1>2 DEF Stop
  <2>3. PlansKept
    BY <2>2, RejectedPlans
  <2>4. QED
    BY <2>1, <2>3, NoPass
<1>3. ASSUME NEW d \in Devices, NEW v \in Snapshot, NEW ev \in Event \cup {None},
             HandleDeviceUpdate(d, v, ev)
      PROVE  IInv' /\ JustifiedStart /\ AwaitedStep
  BY <1>3, HandleDeviceUpdateStep, NoPass
<1>4. ASSUME NEW o \in Obj, DelayedRun(o)
      PROVE  IInv' /\ JustifiedStart /\ AwaitedStep
  BY <1>4, DelayedRunStep, NoPass
<1>5. ASSUME NEW o \in Obj, TimerTrigger(o)
      PROVE  IInv' /\ JustifiedStart /\ AwaitedStep
  BY <1>5, TimerTriggerStep, NoPass
<1>6. ASSUME NEW w \in waiters, WaitTimeout(w)
      PROVE  IInv' /\ JustifiedStart /\ AwaitedStep
  <2>1. IInv' /\ JustifiedStart
    BY <1>6, WaitTimeoutStep, NoStart DEF WaitTimeout, stateVars
  <2>2. /\ run' = [run EXCEPT ![w.call].phase = "rejected"]
        /\ run \in [Calls -> Run] /\ w.call \in Calls
    BY <1>6, WaiterRun DEF WaitTimeout, IInv, TypeOK
  <2>3. \A c \in Calls : run'[c] = IF c \in {w.call} THEN [run[c] EXCEPT !.phase = "rejected"]
                                                    ELSE run[c]
    BY <2>2
  <2>4. PlansKept
    BY <2>2, <2>3, RejectedPlans
  <2>5. QED
    BY <2>1, <2>4, NoPass
<1>7. ASSUME Tick
      PROVE  IInv' /\ JustifiedStart /\ AwaitedStep
  BY <1>7, TickStep, NoStart, NoPass DEF Tick, PlansKept
<1>8. ASSUME UNCHANGED vars
      PROVE  IInv'
  <2>1. ObjectsInv'
    BY <1>8, ObjectsUntouched DEF vars, stateVars, IInv, ObjectsInv
  <2>2. TypeOK' /\ RunsWellFormed' /\ OneRunPerObject' /\ WaitersMatchRuns' /\ NoLostWakeup'
    BY <1>8 DEF vars, objVars, stateVars, IInv, TypeOK, RunsWellFormed, OneRunPerObject,
                WaitersMatchRuns, NoLostWakeup, Busy
  <2>3. QED
    BY <2>1, <2>2 DEF IInv, ObjectsInv
<1>9. QED
  BY <1>1, <1>2, <1>3, <1>4, <1>5, <1>6, <1>7, <1>8, ResumptionStep
  DEF Next, Environment, Timers, Resumptions

\* The inductive invariant holds in every reachable state.
THEOREM EngineInvariant == Spec => []IInv
<1>1. Init => IInv
  BY InitInv
<1>2. IInv /\ [Next]_vars => IInv'
  BY StepInv
<1>3. QED
  BY <1>1, <1>2, PTL DEF Spec

\* Every variable keeps its type.
THEOREM EngineTypeCorrect == Spec => []TypeOK
<1>1. IInv => TypeOK
  BY DEF IInv
<1>2. QED
  BY <1>1, EngineInvariant, PTL

\* The executing flag is up exactly while one run of the object is suspended.
THEOREM EngineOneRun == Spec => []OneRunPerObject
<1>1. IInv => OneRunPerObject
  BY DEF IInv
<1>2. QED
  BY <1>1, EngineInvariant, PTL

\* A pending delayed run is of the loaded, enabled definition, and its condition
\* holds of the latest snapshots.
THEOREM EnginePendingJustified == Spec => []PendingJustified
<1>1. IInv => PendingJustified
  BY DEF IInv
<1>2. QED
  BY <1>1, EngineInvariant, PTL

\* Interval and time-of-day callbacks are armed exactly for the loaded
\* definitions that ask for one.
THEOREM EngineTimersFollowList == Spec => []TimersFollowList
<1>1. IInv => TimersFollowList
  BY DEF IInv
<1>2. QED
  BY <1>1, EngineInvariant, PTL

\* Waiters and waiting runs correspond one to one.
THEOREM EngineWaitersMatchRuns == Spec => []WaitersMatchRuns
<1>1. IInv => WaitersMatchRuns
  BY DEF IInv
<1>2. QED
  BY <1>1, EngineInvariant, PTL

\* No run sleeps on a condition the latest snapshot satisfies.
THEOREM EngineNoLostWakeup == Spec => []NoLostWakeup
<1>1. IInv => NoLostWakeup
  BY DEF IInv
<1>2. QED
  BY <1>1, EngineInvariant, PTL

\* Every run that starts is of the loaded, enabled definition, outside its
\* cooldown, with its condition true.
THEOREM EngineStartsJustified == Spec => StartsJustified
<1>1. IInv /\ [Next]_vars => [JustifiedStart]_vars
  BY StepInv
<1>2. QED
  BY <1>1, EngineInvariant, PTL DEF Spec, StartsJustified

\* A run goes past a wait_for only with the awaited reading seen.
THEOREM EngineStepsAwait == Spec => StepsAwaitTheirConditions
<1>1. IInv /\ [Next]_vars => [AwaitedStep]_vars
  BY StepInv
<1>2. QED
  BY <1>1, EngineInvariant, PTL DEF Spec, StepsAwaitTheirConditions

-----------------------------------------------------------------------------
(* Towards RunsEnd: what a suspended run still has before it gets less.     *)

\* The scenes that a plan still asks for, each by its distance from the end.
SceneSteps(todo) == {Len(todo) - i : i \in {j \in 1 .. Len(todo) : todo[j].kind = "scene"}}

Order(phase) ==
  CASE phase \in {"publishing", "expanding"} -> 1 [] phase = "waiting" -> 2
    [] phase \in {"resumed", "rejected"} -> 3

\* A run is further when it is over, has fewer scenes before it, has fewer steps, or is
\* further in the step it is at.
Further(r, new) ==
  \/ new = Idle
  \/ SceneSteps(new.todo) \subseteq SceneSteps(r.todo) /\ SceneSteps(new.todo) # SceneSteps(r.todo)
  \/ SceneSteps(new.todo) = SceneSteps(r.todo) /\ Len(new.todo) < Len(r.todo)
  \/ new.todo = r.todo /\ new.phase # "idle" /\ Order(r.phase) < Order(new.phase)

\* What a suspended run waits for settles: a promise, or the timer of its wait.
Settles(c) ==
  \/ Published(c) \/ (\E steps \in Expansions : Expanded(c, steps)) \/ Resume(c) \/ Abort(c)
  \/ \E w \in waiters : w.call = c /\ WaitTimeout(w)

\* Whatever happens, a suspended run stays where it is or gets further; it gets further
\* whenever what it waits for settles.
Advances ==
  \A c \in Calls : Busy(c) =>
    /\ \/ Further(run[c], run'[c])
       \/ run'[c].todo = run[c].todo /\ run'[c].phase = run[c].phase
    /\ Settles(c) => Further(run[c], run'[c])
RunsAdvance == [][Advances]_vars

\* Going on to the next step leaves the scenes that come later.
LEMMA RestScenes ==
  ASSUME NEW todo \in Plan, todo # <<>>
  PROVE  /\ Len(Tail(todo)) < Len(todo)
         /\ Head(todo).kind # "scene" => SceneSteps(Tail(todo)) = SceneSteps(todo)
         /\ Head(todo).kind = "scene" => /\ SceneSteps(Tail(todo)) \subseteq SceneSteps(todo)
                                         /\ SceneSteps(Tail(todo)) # SceneSteps(todo)
<1> DEFINE n == Len(todo)
           rest == Tail(todo)
<1>1. /\ n \in Nat \ {0} /\ Len(rest) = n - 1 /\ Head(todo) = todo[1]
      /\ \A i \in 1 .. n - 1 : rest[i] = todo[i + 1]
  BY EmptySeq, LenProperties, HeadTailProperties DEF Plan
<1> HIDE DEF rest, n
<1>2. SceneSteps(rest) = {n - 1 - i : i \in {j \in 1 .. n - 1 : rest[j].kind = "scene"}}
  BY <1>1 DEF SceneSteps
<1>3. SceneSteps(todo) = {n - i : i \in {j \in 1 .. n : todo[j].kind = "scene"}}
  BY DEF SceneSteps, n
<1>4. ASSUME NEW x \in SceneSteps(rest)
      PROVE  x \in SceneSteps(todo) /\ x < n - 1
  <2>1. PICK i \in 1 .. n - 1 : rest[i].kind = "scene" /\ x = n - 1 - i
    BY <1>2
  <2>2. i + 1 \in 1 .. n /\ todo[i + 1].kind = "scene" /\ x = n - (i + 1)
    BY <1>1, <2>1
  <2> QED
    BY <1>1, <1>3, <2>1, <2>2
<1>5. ASSUME NEW x \in SceneSteps(todo), x # n - 1
      PROVE  x \in SceneSteps(rest)
  <2>1. PICK i \in 1 .. n : todo[i].kind = "scene" /\ x = n - i
    BY <1>3
  <2>2. i - 1 \in 1 .. n - 1 /\ rest[i - 1].kind = "scene" /\ x = n - 1 - (i - 1)
    BY <1>1, <1>5, <2>1
  <2> QED
    BY <1>2, <2>2
<1>6. n - 1 \in SceneSteps(todo) <=> Head(todo).kind = "scene"
  <2>1. 1 \in 1 .. n
    BY <1>1
  <2>2. \A i \in 1 .. n : n - i = n - 1 <=> i = 1
    BY <1>1
  <2> QED
    BY <1>1, <1>3, <2>1, <2>2
<1>7. Len(rest) < n
  BY <1>1
<1> QED
  BY <1>4, <1>5, <1>6, <1>7 DEF rest, n

\* A scene brings no scene: those of the expanded plan are those of its rest.
LEMMA ExpandedScenes ==
  ASSUME NEW steps \in Expansions, NEW rest \in Plan
  PROVE  SceneSteps(steps \o rest) = SceneSteps(rest)
<1> DEFINE m == Len(steps)
           n == Len(rest)
           all == steps \o rest
<1>1. /\ steps \in Seq(DeviceStep) /\ rest \in Seq(DeviceStep \cup SceneStep)
      /\ steps \in Seq(DeviceStep \cup SceneStep)
  BY ExpansionsAssumption, SeqDef DEF Plan
<1>2. /\ m \in Nat /\ n \in Nat /\ Len(all) = m + n
      /\ \A i \in 1 .. m + n : all[i] = IF i <= m THEN steps[i] ELSE rest[i - m]
  BY <1>1, ConcatProperties, LenProperties
<1>3. \A i \in 1 .. m : steps[i].kind # "scene"
  <2>1. \A i \in 1 .. m : steps[i] \in DeviceStep
    BY <1>1, ElementOfSeq
  <2> QED
    BY <2>1 DEF DeviceStep
<1> HIDE DEF all, m, n
<1>4. SceneSteps(all) = {m + n - i : i \in {j \in 1 .. m + n : all[j].kind = "scene"}}
  BY <1>2 DEF SceneSteps
<1>5. SceneSteps(rest) = {n - i : i \in {j \in 1 .. n : rest[j].kind = "scene"}}
  BY DEF SceneSteps, n
<1>6. ASSUME NEW x \in SceneSteps(all)
      PROVE  x \in SceneSteps(rest)
  <2>1. PICK i \in 1 .. m + n : all[i].kind = "scene" /\ x = m + n - i
    BY <1>4
  <2>2. ~(i <= m)
    BY <1>2, <1>3, <2>1
  <2>3. i - m \in 1 .. n /\ rest[i - m].kind = "scene" /\ x = n - (i - m)
    BY <1>2, <2>1, <2>2
  <2> QED
    BY <1>5, <2>3
<1>7. ASSUME NEW x \in SceneSteps(rest)
      PROVE  x \in SceneSteps(all)
  <2>1. PICK i \in 1 .. n : rest[i].kind = "scene" /\ x = n - i
    BY <1>5
  <2>2. i + m \in 1 .. m + n /\ ~(i + m <= m) /\ (i + m) - m = i /\ x = m + n - (i + m)
    BY <1>2, <2>1
  <2>3. all[i + m] = rest[i]
    BY <1>2, <2>2
  <2> QED
    BY <1>4, <2>1, <2>2, <2>3
<1> QED
  BY <1>6, <1>7 DEF all

\* A promise of a suspended run settles: it gets further, and the others stay.
LEMMA ResumptionAdvances ==
  ASSUME IInv, NEW c \in Calls,
         \/ Published(c)
         \/ \E steps \in Expansions : Expanded(c, steps)
         \/ Resume(c)
         \/ Abort(c)
  PROVE  Busy(c) /\ Further(run[c], run'[c]) /\ \A d \in Calls \ {c} : run'[d] = run[d]
<1> DEFINE r == run[c]
           todo == run[c].todo
<1>1. run \in [Calls -> Run] /\ Busy(c)
  BY DEF IInv, TypeOK, Published, Expanded, Resume, Abort, Busy
<1>2. ASSUME NEW new, Return(c, new)
      PROVE  run'[c] = new /\ \A d \in Calls \ {c} : run'[d] = run[d]
  BY <1>1, <1>2 DEF Return
<1>3. /\ r \in Run /\ WellFormed(r) /\ todo \in Plan /\ todo # <<>> /\ Tail(todo) \in Plan
      /\ Head(todo).kind # "scene" <=> Head(todo) \in DeviceStep
  BY <1>1, BusyPlan, PlanFacts
<1>4. ASSUME Head(todo) \in DeviceStep, Return(c, Proceed(Tail(todo)))
      PROVE  Further(r, run'[c])
  <2>1. run'[c].todo = Tail(todo)
    BY <1>2, <1>3, <1>4, ProceedFacts
  <2> QED
    BY <1>3, <1>4, <2>1, RestScenes DEF Further
<1>5. CASE Published(c)
  <2>1. r.phase = "publishing" /\ Head(todo) \in DeviceStep
    BY <1>3, <1>5 DEF Published, WellFormed
  <2>2. CASE Return(c, Proceed(Tail(todo)))
    BY <1>1, <1>2, <1>4, <2>1, <2>2
  <2>3. CASE Return(c, [r EXCEPT !.phase = "waiting"])
    <3>1. /\ run'[c].phase = "waiting" /\ run'[c].todo = todo
          /\ \A d \in Calls \ {c} : run'[d] = run[d]
      BY <1>2, <1>3, <2>3 DEF Run
    <3> QED
      BY <1>1, <2>1, <3>1 DEF Further, Order
  <2> QED
    BY <1>5, <2>2, <2>3 DEF Published
<1>6. CASE \E steps \in Expansions : Expanded(c, steps)
  <2>1. PICK steps \in Expansions : r.phase = "expanding" /\ Return(c, Proceed(steps \o Tail(todo)))
    BY <1>6 DEF Expanded
  <2>2. Head(todo).kind = "scene"
    BY <1>3, <2>1 DEF WellFormed
  <2>3. run'[c].todo = steps \o Tail(todo)
    BY <1>2, <1>3, <2>1, ExpansionFacts, ProceedFacts
  <2>4. SceneSteps(run'[c].todo) = SceneSteps(Tail(todo))
    BY <1>3, <2>3, ExpandedScenes
  <2>5. Further(r, run'[c])
    BY <1>3, <2>2, <2>4, RestScenes DEF Further
  <2> QED
    BY <1>1, <1>2, <2>1, <2>5
<1>7. CASE Resume(c)
  <2>1. Head(todo) \in DeviceStep /\ Return(c, Proceed(Tail(todo)))
    BY <1>3, <1>7 DEF Resume, WellFormed
  <2> QED
    BY <1>1, <1>2, <1>4, <2>1
<1>8. CASE Abort(c)
  BY <1>1, <1>2, <1>8 DEF Abort, Further
<1> QED
  BY <1>5, <1>6, <1>7, <1>8

\* Starting runs leaves those that are suspended as the caller left them.
LEMMA StartsLeaveOthers ==
  ASSUME IInv, NEW starts, NEW pend, NEW calls, ExecuteAutomation(starts, pend, calls),
         NEW c \in Calls, Busy(c)
  PROVE  run'[c] = calls[c]
<1>1. c[1] \in Obj /\ c[2] \in Frames /\ c = <<c[1], c[2]>>
  BY DEF Calls
<1>2. executing[c[1]]
  BY <1>1 DEF IInv, OneRunPerObject
<1>3. c[1] \notin Startable(starts)
  BY <1>2 DEF Startable
<1> QED
  BY <1>3 DEF ExecuteAutomation

\* A wait that ends, well or not, is further.
LEMMA WaitOver ==
  ASSUME NEW r, NEW new, r.phase = "waiting", new.phase \in {"resumed", "rejected"}, new.todo = r.todo
  PROVE  Further(r, new)
BY DEF Further, Order

\* Every step takes suspended runs further or leaves them where they are.
LEMMA StepAdvances ==
  ASSUME IInv, [Next]_vars
  PROVE  [Advances]_vars
<1> DEFINE Stays(c) == run'[c].todo = run[c].todo /\ run'[c].phase = run[c].phase
<1>1. run \in [Calls -> Run] /\ \A w \in waiters : w.call \in Calls /\ run[w.call].phase = "waiting"
  BY WaiterRun DEF IInv, TypeOK
<1>2. ASSUME NEW c \in Calls, NEW w \in waiters, w.call = c, WaitTimeout(w)
      PROVE  Further(run[c], run'[c]) /\ \A d \in Calls \ {c} : run'[d] = run[d]
  <2>1. run' = [run EXCEPT ![c].phase = "rejected"]
    BY <1>2 DEF WaitTimeout
  <2>2. run'[c].phase = "rejected" /\ run'[c].todo = run[c].todo
    BY <1>1, <2>1 DEF Run
  <2> QED
    BY <1>1, <1>2, <2>1, <2>2, WaitOver
<1>3. ASSUME NEW c \in Calls, Settles(c)
      PROVE  Further(run[c], run'[c]) /\ \A d \in Calls \ {c} : run'[d] = run[d]
  BY <1>2, <1>3, ResumptionAdvances DEF Settles
<1>4. ASSUME NEW c \in Calls, Busy(c), Next
      PROVE  Further(run[c], run'[c]) \/ Stays(c)
  <2>1. CASE \E config \in Configs : SetAutomations(config)
    BY <2>1 DEF SetAutomations
  <2>2. CASE Stop
    <3>1. run'[c] = IF \E w \in waiters : w.call = c THEN [run[c] EXCEPT !.phase = "rejected"] ELSE run[c]
      BY <2>2 DEF Stop
    <3>2. CASE \E w \in waiters : w.call = c
      <4>1. run[c].phase = "waiting" /\ run'[c].phase = "rejected" /\ run'[c].todo = run[c].todo
        BY <1>1, <3>1, <3>2 DEF Run
      <4> QED
        BY <4>1, WaitOver
    <3> QED
      BY <3>1, <3>2
  <2>3. CASE \E d \in Devices, v \in Snapshot, ev \in Event \cup {None} : HandleDeviceUpdate(d, v, ev)
    <3>1. PICK d \in Devices, v \in Snapshot, ev \in Event \cup {None} : HandleDeviceUpdate(d, v, ev)
      BY <2>3
    <3> DEFINE done == Resolved(d, [devices EXCEPT ![d] = v])
               calls == Woken(done, d, v)
    <3>2. PICK starts, pend : ExecuteAutomation(starts, pend, calls)
      BY <3>1 DEF HandleDeviceUpdate, MaybeScheduleOrExecute
    <3>3. run'[c] = calls[c]
      BY <1>4, <3>2, StartsLeaveOthers
    <3>4. calls[c] = [phase |-> IF \E w \in done : w.call = c THEN "resumed" ELSE run[c].phase,
                      todo |-> run[c].todo, met |-> run[c].met \/ AwaitsReading(run[c], d, v)]
      BY DEF Woken
    <3>5. \A w \in done : w \in waiters
      BY DEF Resolved
    <3> HIDE DEF done, calls
    <3>6. CASE \E w \in done : w.call = c
      <4>1. run[c].phase = "waiting"
        BY <1>1, <3>5, <3>6
      <4>2. run'[c].phase = "resumed" /\ run'[c].todo = run[c].todo
        BY <3>3, <3>4, <3>6
      <4> QED
        BY <4>1, <4>2, WaitOver
    <3> QED
      BY <3>3, <3>4, <3>6
  <2>4. CASE \E o \in Obj : DelayedRun(o)
    <3>1. PICK starts, pend : ExecuteAutomation(starts, pend, run)
      BY <2>4 DEF DelayedRun
    <3> QED
      BY <1>4, <3>1, StartsLeaveOthers
  <2>5. CASE \E o \in Obj : TimerTrigger(o)
    <3>1. PICK starts, pend : ExecuteAutomation(starts, pend, run)
      BY <2>5 DEF TimerTrigger, MaybeScheduleOrExecute
    <3> QED
      BY <1>4, <3>1, StartsLeaveOthers
  <2>6. CASE \E w \in waiters : WaitTimeout(w)
    <3>1. PICK w \in waiters : WaitTimeout(w)
      BY <2>6
    <3> QED
      BY <1>1, <1>2, <3>1
  <2>7. CASE Resumptions
    <3>1. PICK d \in Calls : Settles(d)
      BY <2>7 DEF Resumptions, Settles
    <3> QED
      BY <1>3, <3>1
  <2>8. CASE Tick
    BY <2>8 DEF Tick
  <2> QED
    BY <1>4, <2>1, <2>2, <2>3, <2>4, <2>5, <2>6, <2>7, <2>8 DEF Next, Environment, Timers
<1> QED
  BY <1>3, <1>4 DEF Advances

\* The safety half of RunsEnd: whatever updates, reloads, stops and timers do, a
\* suspended run only gets further through its plan, and does so whenever a promise it
\* awaits settles or its wait times out.  A scene is replaced by its steps and brings no
\* other scene, so that a plan can be expanded only as often as it has scenes.
THEOREM EngineRunsAdvance == Spec => RunsAdvance
<1>1. IInv /\ [Next]_vars => [Advances]_vars
  BY StepAdvances
<1>2. QED
  BY <1>1, EngineInvariant, PTL DEF Spec, RunsAdvance

=============================================================================
