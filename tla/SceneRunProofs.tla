---------------------------- MODULE SceneRunProofs ----------------------------
(***************************************************************************)
(* Proofs about scene runs: whatever the number of runs, scenes and        *)
(* devices, a step reported ok was carried out, and nothing is asked of a  *)
(* device before its turn, after an abort, or without confirmation; and a  *)
(* run only gets further through its plan.                                 *)
(*                                                                         *)
(* The steps of a run are one case: a run Follows itself when its plan     *)
(* stays, its report only grows, and it reports ok only what was earned.   *)
(***************************************************************************)
EXTENDS SceneRun, SequenceTheorems, TLAPS

UnderWay == {"looking", "publishing", "published", "waiting", "polling"}

\* No step needs a confirmation that its run does not have.
Accepted(rn) ==
  \/ rn.confirmed
  \/ ~UpwardClosed(rn.scene.confirmOn)
  \/ \A i \in 1 .. Len(rn.plan) : rn.scene.goals[i].risk[rn.plan[i].dev] \notin rn.scene.confirmOn

\* How far a run is fits its plan and its report.
Fits(rn) ==
  /\ rn.phase = "idle" => rn = NoRun
  /\ rn.phase # "idle" => rn.scene \in Scenes /\ Len(rn.report) <= Len(rn.plan)
  /\ rn.phase \in UnderWay => Len(rn.report) < Len(rn.plan) /\ Accepted(rn)
  /\ rn.phase \in UnderWay \ {"looking"} => Current(rn).dev # None
  /\ rn.phase = "polling" => rn.polls > 0
  /\ rn.phase \in UnderWay \cup {"failed"} /\ rn.scene.mode = "agentic" /\ rn.scene.abort =>
       \A i \in 1 .. Len(rn.report) : rn.report[i] = "ok"
AllFit == \A r \in Runs : Fits(run[r])

\* A request is the current or an earlier step of a run.
Requested(q) == LET rn == run[q[1]] IN
  /\ rn.phase # "idle" /\ Accepted(rn)
  /\ q[2] <= Len(rn.report) + 1 /\ q[2] <= Len(rn.plan)
  /\ Asked(q).dev # None
AllRequested ==
  /\ \A q \in carried \cup adapter : Requested(q)
  /\ \A k \in 1 .. Len(simulator) : Requested(simulator[k])

\* Who says that an action succeeded says so of one that was carried out.
Earned(dev, act) == \E q \in carried : Asked(q).dev = dev /\ Asked(q).act = act
EarnedBy(rn) == Earned(Current(rn).dev, Current(rn).act)
Honest ==
  /\ \A k \in 1 .. Len(results) : results[k].ok => Earned(results[k].dev, results[k].act)
  /\ wrote => simulator # <<>> /\ simulator[1] \in carried
  /\ \A r \in Runs : run[r].phase = "polling" => EarnedBy(run[r])
  /\ \A r \in Runs : \A i \in 1 .. Len(run[r].report) :
       run[r].report[i] = "ok" => Earned(run[r].plan[i].dev, run[r].plan[i].act)

IInv == TypeOK /\ AllFit /\ AllRequested /\ Honest

-----------------------------------------------------------------------------
(* One run.                                                                 *)

\* What a run becomes in one step: its plan stays, its report grows, and it reports ok, or
\* begins to poll, only for what was carried out.
Follows(rn, new) ==
  /\ new \in Run /\ Fits(new)
  /\ rn.phase # "idle" =>
       /\ new.phase # "idle" /\ new.plan = rn.plan /\ new.scene = rn.scene /\ new.confirmed = rn.confirmed
       /\ Len(rn.report) <= Len(new.report) /\ \A i \in 1 .. Len(rn.report) : new.report[i] = rn.report[i]
  /\ \A i \in 1 .. Len(new.report) : new.report[i] = "ok" =>
       i \in 1 .. Len(rn.report) \/ (i = Len(rn.report) + 1 /\ rn.phase # "idle" /\ EarnedBy(rn))
  /\ new.phase = "polling" => rn.phase # "idle" /\ new.report = rn.report /\ EarnedBy(rn)

\* A report with one more step.
LEMMA Longer ==
  ASSUME NEW report \in Seq(Statuses), NEW s \in Statuses
  PROVE  LET longer == Append(report, s) IN
         /\ longer \in Seq(Statuses) /\ Len(longer) = Len(report) + 1 /\ Len(report) \in Nat
         /\ longer[Len(report) + 1] = s /\ \A i \in 1 .. Len(report) : longer[i] = report[i]
BY AppendProperties

\* A step that ends.
LEMMA EndedFollows ==
  ASSUME NEW rn \in Run, Fits(rn), rn.phase \in UnderWay, NEW s \in Statuses, s = "ok" => EarnedBy(rn)
  PROVE  Follows(rn, Ended(rn, s))
<1> DEFINE new == Ended(rn, s)
           report == Append(rn.report, s)
<1>1. rn.report \in Seq(Statuses) /\ rn.plan \in Seq(Step) /\ Len(rn.plan) \in Nat
  BY DEF Run
<1>2. /\ report \in Seq(Statuses) /\ Len(report) = Len(rn.report) + 1 /\ Len(rn.report) \in Nat
      /\ report[Len(rn.report) + 1] = s /\ \A i \in 1 .. Len(rn.report) : report[i] = rn.report[i]
  BY <1>1, Longer
<1>3. /\ new.report = report /\ new.plan = rn.plan /\ new.scene = rn.scene /\ new.confirmed = rn.confirmed
      /\ new.phase \in {"done", "looking"} /\ new.polls = 0
      /\ new.phase = "looking" => /\ Len(report) # Len(rn.plan)
                                  /\ ~(rn.scene.mode = "agentic" /\ rn.scene.abort /\ s # "ok")
  BY DEF Ended, Run
<1>4. new \in Run
  BY <1>2 DEF Ended, Run, Phases
<1> HIDE DEF new, report
<1>5. Len(report) <= Len(rn.plan) /\ (new.phase = "looking" => Len(report) < Len(rn.plan))
  BY <1>1, <1>2, <1>3 DEF Fits, UnderWay
<1>6. \A i \in 1 .. Len(report) : i \in 1 .. Len(rn.report) \/ i = Len(rn.report) + 1
  BY <1>2
<1>7. Fits(new)
  BY <1>2, <1>3, <1>5, <1>6 DEF Fits, UnderWay, Accepted
<1> QED
  BY <1>2, <1>3, <1>4, <1>5, <1>6, <1>7 DEF Follows, UnderWay, new

\* A step that goes on.
LEMMA PhaseFollows ==
  ASSUME NEW rn \in Run, Fits(rn), rn.phase \in UnderWay,
         NEW new \in Run, new.phase \in {"publishing", "published", "waiting", "polling", "failed"},
         new.report = rn.report, new.plan = rn.plan, new.scene = rn.scene, new.confirmed = rn.confirmed,
         new.phase \in UnderWay => Current(rn).dev # None,
         new.phase = "polling" => new.polls > 0 /\ EarnedBy(rn)
  PROVE  Follows(rn, new)
<1>1. Current(new) = Current(rn)
  BY DEF Current
<1>2. Len(rn.report) \in Nat /\ Len(rn.plan) \in Nat
  BY DEF Run
<1>3. Fits(new)
  BY <1>1, <1>2 DEF Fits, UnderWay, Accepted
<1> QED
  BY <1>2, <1>3 DEF Follows, UnderWay

-----------------------------------------------------------------------------
(* The start of a run.                                                      *)

\* MaxRisk is the highest risk of the plan.
LEMMA MaxRiskIsMax ==
  ASSUME NEW sc \in Scene, NEW choice \in [DOMAIN sc.goals -> Devices \cup {None}]
  PROVE  /\ MaxRisk(sc, choice) \in Levels
         /\ \A i \in DOMAIN sc.goals : /\ sc.goals[i].risk[choice[i]] \in Levels
                                       /\ sc.goals[i].risk[choice[i]] <= MaxRisk(sc, choice)
<1> DEFINE risks == {0} \cup {sc.goals[i].risk[choice[i]] : i \in DOMAIN sc.goals}
<1>1. \A i \in DOMAIN sc.goals : sc.goals[i] \in Goal
  BY DEF Scene
<1>2. \A i \in DOMAIN sc.goals : sc.goals[i].risk[choice[i]] \in Levels
  BY <1>1 DEF Goal
<1>3. risks \subseteq {0, 1, 2} /\ 0 \in risks
  BY <1>2 DEF Levels
<1>4. \A i \in DOMAIN sc.goals : sc.goals[i].risk[choice[i]] \in risks
  OBVIOUS
<1>5. MaxRisk(sc, choice) = CHOOSE l \in risks : \A k \in risks : k <= l
  BY DEF MaxRisk
<1> HIDE DEF risks
<1>6. \E l \in risks : \A k \in risks : k <= l
  <2>1. CASE 2 \in risks
    BY <1>3, <2>1
  <2>2. CASE 2 \notin risks /\ 1 \in risks
    BY <1>3, <2>2
  <2>3. CASE 2 \notin risks /\ 1 \notin risks
    BY <1>3, <2>3
  <2> QED
    BY <2>1, <2>2, <2>3
<1>7. MaxRisk(sc, choice) \in risks /\ \A k \in risks : k <= MaxRisk(sc, choice)
  BY <1>5, <1>6
<1>8. MaxRisk(sc, choice) \in Levels
  <2>1. MaxRisk(sc, choice) \in {0, 1, 2}
    BY <1>3, <1>7
  <2> QED
    BY <2>1 DEF Levels
<1> QED
  BY <1>2, <1>4, <1>7, <1>8

\* A plan has a step for each goal.
LEMMA PlanIsPlan ==
  ASSUME NEW sc \in Scene, NEW choice \in [DOMAIN sc.goals -> Devices \cup {None}]
  PROVE  /\ PlanFor(sc, choice) \in Seq(Step) /\ Len(PlanFor(sc, choice)) = Len(sc.goals)
         /\ Len(sc.goals) \in Nat /\ DOMAIN sc.goals = 1 .. Len(sc.goals)
         /\ \A i \in 1 .. Len(sc.goals) : PlanFor(sc, choice)[i].dev = choice[i]
<1>1. sc.goals \in Seq(Goal) /\ Len(sc.goals) \in Nat /\ DOMAIN sc.goals = 1 .. Len(sc.goals)
  BY DEF Scene
<1>2. \A i \in 1 .. Len(sc.goals) : sc.goals[i] \in Goal
  BY <1>1
<1>3. \A i \in 1 .. Len(sc.goals) :
        [dev |-> choice[i], act |-> sc.goals[i].act, want |-> sc.goals[i].want, polls |-> sc.goals[i].polls] \in Step
  BY <1>1, <1>2 DEF Step, Goal
<1>4. PlanFor(sc, choice) \in [1 .. Len(sc.goals) -> Step]
  BY <1>1, <1>3 DEF PlanFor
<1>5. PlanFor(sc, choice) \in Seq(Step) /\ Len(PlanFor(sc, choice)) = Len(sc.goals)
  BY <1>1, <1>4
<1> QED
  BY <1>1, <1>5 DEF PlanFor

\* A plan that needs no confirmation, or has it, is accepted.
LEMMA PlanAccepted ==
  ASSUME NEW sc \in Scene, NEW choice \in [DOMAIN sc.goals -> Devices \cup {None}],
         NEW rn \in Run, rn.scene = sc, rn.plan = PlanFor(sc, choice),
         rn.confirmed \/ ~NeedsConfirm(sc, choice)
  PROVE  Accepted(rn)
<1> SUFFICES ASSUME ~rn.confirmed, UpwardClosed(sc.confirmOn), NEW i \in 1 .. Len(rn.plan)
             PROVE  sc.goals[i].risk[rn.plan[i].dev] \notin sc.confirmOn
  BY DEF Accepted
<1>1. i \in DOMAIN sc.goals /\ rn.plan[i].dev = choice[i]
  BY PlanIsPlan
<1>2. MaxRisk(sc, choice) \notin sc.confirmOn /\ MaxRisk(sc, choice) \in Levels
  BY MaxRiskIsMax DEF NeedsConfirm
<1>3. sc.goals[i].risk[choice[i]] \in Levels /\ sc.goals[i].risk[choice[i]] <= MaxRisk(sc, choice)
  BY <1>1, MaxRiskIsMax
<1> QED
  BY <1>1, <1>2, <1>3 DEF UpwardClosed, Levels

\* A run that starts.
LEMMA StartFollows ==
  ASSUME SceneAssumption, TypeOK, AllFit,
         NEW r \in Runs, NEW sc \in Scenes, NEW confirm \in BOOLEAN, NEW dry \in BOOLEAN, Start(r, sc, confirm, dry)
  PROVE  \E new : Follows(run[r], new) /\ Turn(r, new, results)
<1>1. PICK choice \in [DOMAIN sc.goals -> Devices \cup {None}] :
        LET plan == PlanFor(sc, choice)
            rn == [NoRun EXCEPT !.scene = sc, !.confirmed = confirm, !.plan = plan]
        IN Turn(r, IF dry THEN [rn EXCEPT !.phase = "done",
                                  !.report = [i \in DOMAIN plan |->
                                    IF plan[i].dev = None THEN "skipped" ELSE "dry_run"]]
                   ELSE IF ~confirm /\ NeedsConfirm(sc, choice) THEN [rn EXCEPT !.phase = "failed"]
                   ELSE [rn EXCEPT !.phase = IF plan = <<>> THEN "done" ELSE "looking"], results)
  BY DEF Start
<1> DEFINE plan == PlanFor(sc, choice)
           rn == [NoRun EXCEPT !.scene = sc, !.confirmed = confirm, !.plan = plan]
           dryReport == [i \in DOMAIN plan |-> IF plan[i].dev = None THEN "skipped" ELSE "dry_run"]
<1>2. sc \in Scene
  BY DEF SceneAssumption
<1>3. run[r].phase = "idle" /\ run[r] = NoRun
  BY DEF Start, AllFit, Fits
<1>4. plan \in Seq(Step) /\ Len(plan) \in Nat
  BY <1>2, PlanIsPlan
<1>6. Len(<<>>) = 0 /\ <<>> \in Seq(Statuses)
  OBVIOUS
<1> HIDE DEF plan
<1>12. NoRun \in Run /\ NoRun.report = <<>>
  BY DEF NoRun, Run, Phases
<1>5. rn \in Run /\ rn.scene = sc /\ rn.confirmed = confirm /\ rn.plan = plan /\ rn.report = <<>>
  BY <1>4, <1>12 DEF Run
<1> HIDE DEF rn
<1>7. ASSUME NEW new, new.phase \in {"done", "failed", "looking"}, new \in Run, new.scene = sc, new.plan = plan,
             new.phase # "done" => new.report = <<>>,
             \A i \in 1 .. Len(new.report) : new.report[i] # "ok",
             Len(new.report) <= Len(plan), new.phase = "looking" => Len(plan) > 0 /\ Accepted(new)
      PROVE  Follows(run[r], new)
  <2>1. Fits(new)
    BY <1>7, <1>6, <1>4 DEF Fits, UnderWay
  <2> QED
    BY <2>1, <1>7, <1>3 DEF Follows
<1>8. CASE dry
  <2> DEFINE new == [rn EXCEPT !.phase = "done", !.report = dryReport]
  <2>1. dryReport \in [1 .. Len(plan) -> {"skipped", "dry_run"}]
    BY <1>4
  <2>2. dryReport \in Seq(Statuses) /\ Len(dryReport) = Len(plan)
    BY <2>1, <1>4 DEF Statuses
  <2>3. \A i \in 1 .. Len(dryReport) : dryReport[i] # "ok"
    BY <2>1, <2>2
  <2> HIDE DEF dryReport
  <2>4. /\ new \in Run /\ new.phase = "done" /\ new.scene = sc /\ new.plan = plan /\ new.report = dryReport
    BY <1>5, <2>2 DEF Run, Phases
  <2> HIDE DEF new
  <2>7. Len(new.report) <= Len(plan) /\ \A i \in 1 .. Len(new.report) : new.report[i] # "ok"
    BY <1>4, <2>2, <2>3, <2>4
  <2>5. Follows(run[r], new)
    BY <1>7, <2>4, <2>7
  <2>6. Turn(r, new, results)
    BY <1>1, <1>8 DEF new, dryReport, plan, rn
  <2> QED
    BY <2>5, <2>6
<1>9. CASE ~dry /\ ~confirm /\ NeedsConfirm(sc, choice)
  <2> DEFINE new == [rn EXCEPT !.phase = "failed"]
  <2>1. new \in Run /\ new.phase = "failed" /\ new.scene = sc /\ new.plan = plan /\ new.report = <<>>
    BY <1>5, <1>6 DEF Run, Phases
  <2>2. Turn(r, new, results)
    BY <1>1, <1>9 DEF plan, rn
  <2> HIDE DEF new
  <2>3. Follows(run[r], new)
    BY <1>4, <1>6, <1>7, <2>1
  <2> QED
    BY <2>2, <2>3
<1>10. CASE ~dry /\ ~(~confirm /\ NeedsConfirm(sc, choice))
  <2> DEFINE phase == IF plan = <<>> THEN "done" ELSE "looking"
             new == [rn EXCEPT !.phase = phase]
  <2>1. /\ new \in Run /\ new.phase = (IF plan = <<>> THEN "done" ELSE "looking")
        /\ new.scene = sc /\ new.plan = plan /\ new.report = <<>> /\ new.confirmed = confirm
    BY <1>5, <1>6 DEF Run, Phases
  <2>2. Turn(r, new, results)
    BY <1>1, <1>10 DEF plan, rn
  <2> HIDE DEF new
  <2>3. Accepted(new)
    BY <1>2, <1>10, <2>1, PlanAccepted DEF plan
  <2>4. plan # <<>> => Len(plan) > 0
    BY <1>4
  <2>5. Follows(run[r], new)
    BY <1>4, <1>6, <1>7, <2>1, <2>3, <2>4
  <2> QED
    BY <2>2, <2>5
<1> QED
  BY <1>8, <1>9, <1>10

-----------------------------------------------------------------------------
(* All runs.                                                                *)

Moves == run' \in [Runs -> Run] /\ \A r \in Runs : Follows(run[r], run'[r])

\* The results rs are some of the results old, which says nothing new.
Same(new, old) == new.dev = old.dev /\ new.act = old.act /\ new.ok = old.ok
SomeOf(rs, old) ==
  /\ rs \in Seq(Result) /\ Len(rs) <= Len(old)
  /\ \A k \in 1 .. Len(rs) : \E j \in 1 .. Len(old) : Same(rs[k], old[j])

\* A run that does nothing.
LEMMA StaysFollows ==
  ASSUME IInv, NEW r \in Runs
  PROVE  Follows(run[r], run[r])
<1>1. run[r] \in Run /\ Fits(run[r])
  BY DEF IInv, TypeOK, AllFit
<1>2. run[r].phase = "idle" => run[r].report = <<>>
  BY <1>1 DEF Fits, NoRun
<1>3. run[r].phase = "polling" => EarnedBy(run[r])
  BY DEF IInv, Honest
<1>4. Len(run[r].report) \in Nat
  BY <1>1 DEF Run
<1>5. run[r].phase = "polling" => run[r].phase # "idle"
  OBVIOUS
<1> QED
  BY <1>1, <1>3, <1>4, <1>5 DEF Follows

\* Stamping says nothing new.
LEMMA AgedIsSome ==
  ASSUME NEW rs \in Seq(Result), NEW n, NEW S
  PROVE  SomeOf(Aged(rs, n, S), rs)
<1> DEFINE F(k) == [rs[k] EXCEPT !.fresh = IF k <= n THEN @ \ S ELSE @]
<1>1. Len(rs) \in Nat /\ DOMAIN rs = 1 .. Len(rs)
  OBVIOUS
<1>2. \A k \in 1 .. Len(rs) : rs[k] \in Result
  OBVIOUS
<1>3. \A k \in 1 .. Len(rs) : F(k) \in Result /\ Same(F(k), rs[k])
  BY <1>2 DEF Result, Same
<1>4. Aged(rs, n, S) = [k \in 1 .. Len(rs) |-> F(k)]
  BY <1>1 DEF Aged
<1> HIDE DEF F
<1>5. Aged(rs, n, S) \in [1 .. Len(rs) -> Result] /\ \A k \in 1 .. Len(rs) : Aged(rs, n, S)[k] = F(k)
  BY <1>3, <1>4
<1>6. Aged(rs, n, S) \in Seq(Result) /\ Len(Aged(rs, n, S)) = Len(rs)
  BY <1>1, <1>5
<1> QED
  BY <1>1, <1>3, <1>5, <1>6 DEF SomeOf

\* Results that stay.
LEMMA AllIsSome ==
  ASSUME NEW rs \in Seq(Result)
  PROVE  SomeOf(rs, rs)
BY DEF SomeOf, Same

\* Results without the first.
LEMMA TailIsSome ==
  ASSUME NEW rs \in Seq(Result), rs # <<>>
  PROVE  SomeOf(Tail(rs), rs) /\ Tail(rs) \in Seq(Result)
<1>1. Tail(rs) \in Seq(Result) /\ Len(Tail(rs)) = Len(rs) - 1 /\ \A i \in 1 .. Len(Tail(rs)) : Tail(rs)[i] = rs[i + 1]
  BY HeadTailProperties
<1>2. Len(rs) \in Nat
  OBVIOUS
<1> QED
  BY <1>1, <1>2 DEF SomeOf, Same

\* Some of some are some.
LEMMA SomeOfSome ==
  ASSUME NEW rs \in Seq(Result), NEW mid \in Seq(Result), NEW old \in Seq(Result), SomeOf(rs, mid), SomeOf(mid, old)
  PROVE  SomeOf(rs, old)
<1>1. Len(rs) \in Nat /\ Len(mid) \in Nat /\ Len(old) \in Nat
  OBVIOUS
<1>2. ASSUME NEW k \in 1 .. Len(rs)
      PROVE  \E j \in 1 .. Len(old) : Same(rs[k], old[j])
  <2>1. PICK i \in 1 .. Len(mid) : Same(rs[k], mid[i])
    BY DEF SomeOf
  <2>2. PICK j \in 1 .. Len(old) : Same(mid[i], old[j])
    BY DEF SomeOf
  <2> QED
    BY <2>1, <2>2 DEF Same
<1> QED
  BY <1>1, <1>2 DEF SomeOf

\* The turn of one run.
LEMMA TurnMoves ==
  ASSUME IInv, NEW r \in Runs, NEW rn, Follows(run[r], rn), Turn(r, rn, results)
  PROVE  Moves /\ SomeOf(results', results)
<1>1. run \in [Runs -> Run] /\ results \in Seq(Result)
  BY DEF IInv, TypeOK
<1>2. rn \in Run /\ run' = [run EXCEPT ![r] = rn]
  BY DEF Follows, Turn
<1>3. run' \in [Runs -> Run]
  BY <1>1, <1>2
<1>4. \A x \in Runs : Follows(run[x], run'[x])
  <2> TAKE x \in Runs
  <2>1. CASE x = r
    BY <1>1, <1>2, <2>1
  <2>2. CASE x # r
    BY <1>1, <1>2, <2>2, StaysFollows
  <2> QED
    BY <2>1, <2>2
<1>5. SomeOf(results', results)
  BY <1>1, AgedIsSome, AllIsSome DEF Turn
<1> QED
  BY <1>3, <1>4, <1>5 DEF Moves

\* What was asked for and carried out stays so, and what is reported was earned.
LEMMA AfterMoves ==
  ASSUME IInv, Moves, carried \subseteq carried'
  PROVE  /\ AllFit'
         /\ \A q \in Request : Requested(q) => Requested(q)' /\ Asked(q)' = Asked(q)
         /\ \A dev, act : Earned(dev, act) => Earned(dev, act)'
         /\ \A r \in Runs : run'[r].phase = "polling" => EarnedBy(run[r])' /\ run[r].phase # "idle"
         /\ \A r \in Runs : \A i \in 1 .. Len(run'[r].report) :
              run'[r].report[i] = "ok" => Earned(run[r].plan[i].dev, run[r].plan[i].act)'
<1>1. AllFit'
  BY DEF Moves, Follows, AllFit
<1>2. ASSUME NEW q \in Request, Requested(q)
      PROVE  Requested(q)' /\ Asked(q)' = Asked(q)
  <2>1. q[1] \in Runs /\ q[2] \in Nat
    BY DEF Request
  <2> DEFINE old == run[q[1]]
             new == run'[q[1]]
  <2>2. old.phase # "idle" /\ Follows(old, new) /\ new \in Run /\ old \in Run
    BY <1>2, <2>1 DEF Requested, Moves, IInv, TypeOK
  <2>3. /\ new.phase # "idle" /\ new.plan = old.plan /\ new.scene = old.scene /\ new.confirmed = old.confirmed
        /\ Len(old.report) <= Len(new.report) /\ Len(old.report) \in Nat /\ Len(new.report) \in Nat
        /\ Len(old.plan) \in Nat
    BY <2>2 DEF Follows, Run
  <2>4. Accepted(new)
    BY <1>2, <2>3 DEF Requested, Accepted
  <2>5. Asked(q)' = Asked(q)
    BY <2>3 DEF Asked
  <2>6. Asked(q).dev # None /\ q[2] <= Len(old.report) + 1 /\ q[2] <= Len(old.plan)
    BY <1>2 DEF Requested
  <2>7. q[2] <= Len(new.report) + 1 /\ q[2] <= Len(new.plan)
    <3> HIDE DEF old, new
    <3> QED
      BY <2>1, <2>3, <2>6
  <2>8. Asked(q)'.dev # None
    BY <2>5, <2>6
  <2> QED
    BY <2>3, <2>4, <2>5, <2>7, <2>8 DEF Requested
<1>3. ASSUME NEW dev, NEW act, Earned(dev, act)
      PROVE  Earned(dev, act)'
  <2>1. PICK q \in carried : Asked(q).dev = dev /\ Asked(q).act = act
    BY <1>3 DEF Earned
  <2>2. q \in Request /\ Requested(q)
    BY DEF IInv, TypeOK, AllRequested
  <2>3. Asked(q)' = Asked(q) /\ q \in carried'
    BY <1>2, <2>2
  <2> QED
    BY <2>1, <2>3 DEF Earned
<1>4. ASSUME NEW r \in Runs, run[r].phase # "idle"
      PROVE  run'[r].plan = run[r].plan /\ \A i \in 1 .. Len(run[r].report) : run'[r].report[i] = run[r].report[i]
  BY <1>4 DEF Moves, Follows
<1>5. ASSUME NEW r \in Runs, run'[r].phase = "polling"
      PROVE  EarnedBy(run[r])' /\ run[r].phase # "idle"
  <2>1. run[r].phase # "idle" /\ run'[r].report = run[r].report /\ EarnedBy(run[r])
    BY <1>5 DEF Moves, Follows
  <2>2. run'[r].plan = run[r].plan
    BY <1>4, <2>1
  <2> DEFINE dev == Current(run[r]).dev
             act == Current(run[r]).act
  <2>3. Earned(dev, act)
    BY <2>1 DEF EarnedBy
  <2>4. PICK d, a : d = dev /\ a = act
    OBVIOUS
  <2>5. Earned(d, a)'
    BY <1>3, <2>3, <2>4
  <2>6. Current(run[r])' = Current(run[r])
    BY <2>1, <2>2 DEF Current
  <2> QED
    BY <2>1, <2>4, <2>5, <2>6 DEF EarnedBy
<1>6. ASSUME NEW r \in Runs, NEW i \in 1 .. Len(run'[r].report), run'[r].report[i] = "ok"
      PROVE  Earned(run[r].plan[i].dev, run[r].plan[i].act)'
  <2>1. i \in 1 .. Len(run[r].report) \/ (i = Len(run[r].report) + 1 /\ run[r].phase # "idle" /\ EarnedBy(run[r]))
    BY <1>6 DEF Moves, Follows
  <2>2. run[r].phase # "idle"
    BY <2>1 DEF IInv, AllFit, Fits, NoRun
  <2>3. run'[r].plan = run[r].plan
    BY <1>4, <2>2
  <2>4. Earned(run[r].plan[i].dev, run[r].plan[i].act)
    <3>1. CASE i \in 1 .. Len(run[r].report)
      BY <1>4, <1>6, <2>2, <3>1 DEF IInv, Honest
    <3>2. CASE i = Len(run[r].report) + 1 /\ EarnedBy(run[r])
      BY <3>2 DEF EarnedBy, Current
    <3> QED
      BY <2>1, <3>1, <3>2
  <2>5. PICK d, a : d = run[r].plan[i].dev /\ a = run[r].plan[i].act
    OBVIOUS
  <2>6. Earned(d, a)'
    BY <1>3, <2>4, <2>5
  <2> QED
    BY <2>3, <2>5, <2>6 DEF Earned
<1> QED
  BY <1>1, <1>2, <1>3, <1>5, <1>6

-----------------------------------------------------------------------------
(* The actions of a run.                                                    *)

\* A turn of a run changes nothing but the run and the stamps.
Quiet == /\ Moves /\ SomeOf(results', results)
         /\ UNCHANGED services
         /\ stored' \in [Devices -> SUBSET Actions \cup {None}] /\ value' \in [Devices -> Values]

\* A run under way, with its types.
LEMMA RunFacts ==
  ASSUME IInv, NEW r \in Runs
  PROVE  /\ run[r] \in Run /\ Fits(run[r])
         /\ run[r].phase = "polling" => EarnedBy(run[r])
         /\ run[r].phase \in UnderWay => Current(run[r]) \in Step
<1>1. run[r] \in Run /\ Fits(run[r])
  BY DEF IInv, TypeOK, AllFit
<1>2. run[r].phase = "polling" => EarnedBy(run[r])
  BY DEF IInv, Honest
<1>3. run[r].plan \in Seq(Step) /\ Len(run[r].plan) \in Nat /\ Len(run[r].report) \in Nat
  BY <1>1 DEF Run
<1>4. run[r].phase \in UnderWay => Len(run[r].report) < Len(run[r].plan)
  BY <1>1 DEF Fits
<1>5. run[r].phase \in UnderWay => Len(run[r].report) + 1 \in 1 .. Len(run[r].plan)
  BY <1>3, <1>4
<1> QED
  BY <1>1, <1>2, <1>3, <1>5 DEF Current

\* agentic-scene-runner.js:109-134, scene-runner.js:74-92: the lookup.
LEMMA LookQuiet ==
  ASSUME IInv, NEW r \in Runs, Look(r)
  PROVE  Quiet
<1> DEFINE rn == run[r]
           missing == IF rn.scene.mode = "agentic" THEN "skipped" ELSE "error"
           next == [rn EXCEPT !.phase = "publishing"]
<1>1. rn \in Run /\ Fits(rn) /\ rn.phase = "looking" /\ rn.phase \in UnderWay
  BY RunFacts DEF Look, UnderWay
<1>2. Follows(rn, Ended(rn, missing)) /\ Follows(rn, Ended(rn, "error"))
  BY <1>1, EndedFollows DEF Statuses
<1>3. /\ next \in Run /\ next.phase = "publishing" /\ next.report = rn.report /\ next.plan = rn.plan
      /\ next.scene = rn.scene /\ next.confirmed = rn.confirmed
  BY <1>1 DEF Run, Phases
<1> HIDE DEF next, rn, missing
<1>4. ASSUME Current(rn).dev # None
      PROVE  Follows(rn, next)
  BY <1>1, <1>3, <1>4, PhaseFollows
<1>5. PICK new : new \in {Ended(rn, missing), Ended(rn, "error"), next} /\ Turn(r, new, results)
                 /\ (new = next => new \in {Ended(rn, missing), Ended(rn, "error")} \/ Current(rn).dev # None)
  BY DEF Look, rn, missing, next
<1>6. Follows(run[r], new)
  BY <1>2, <1>4, <1>5 DEF rn
<1>7. Moves /\ SomeOf(results', results)
  BY <1>5, <1>6, TurnMoves
<1> QED
  BY <1>7 DEF Quiet, Look, IInv, TypeOK

\* The result timer.
LEMMA TimeoutQuiet ==
  ASSUME IInv, NEW r \in Runs, ResultTimeout(r)
  PROVE  Quiet
<1>1. Follows(run[r], Ended(run[r], "timeout"))
  BY RunFacts, EndedFollows DEF ResultTimeout, UnderWay, Statuses
<1>2. Moves /\ SomeOf(results', results)
  BY <1>1, TurnMoves DEF ResultTimeout
<1> QED
  BY <1>2 DEF Quiet, ResultTimeout, IInv, TypeOK

\* A poll of wait_for.
LEMMA PollQuiet ==
  ASSUME IInv, NEW r \in Runs, Poll(r)
  PROVE  Quiet
<1> DEFINE rn == run[r]
           next == [rn EXCEPT !.polls = @ - 1]
<1>1. rn \in Run /\ Fits(rn) /\ rn.phase = "polling" /\ rn.phase \in UnderWay /\ EarnedBy(rn)
  BY RunFacts DEF Poll, UnderWay
<1>2. Follows(rn, Ended(rn, "ok")) /\ Follows(rn, Ended(rn, "timeout"))
  BY <1>1, EndedFollows DEF Statuses
<1>3. ASSUME rn.polls # 1
      PROVE  Follows(rn, next)
  <2>1. rn.polls \in Nat /\ rn.polls > 0 /\ Current(rn).dev # None
    BY <1>1 DEF Run, Fits, UnderWay
  <2>2. rn.polls - 1 \in Nat /\ rn.polls - 1 > 0
    BY <2>1, <1>3
  <2>3. /\ next \in Run /\ next.phase = "polling" /\ next.report = rn.report /\ next.plan = rn.plan
        /\ next.scene = rn.scene /\ next.confirmed = rn.confirmed /\ next.polls > 0
    BY <1>1, <2>2 DEF Run
  <2> HIDE DEF next, rn
  <2> QED
    BY <1>1, <2>1, <2>3, PhaseFollows
<1> HIDE DEF next, rn
<1>4. PICK new : new \in {Ended(rn, "ok"), Ended(rn, "timeout"), next} /\ Turn(r, new, results)
                 /\ (new = next => new \in {Ended(rn, "ok"), Ended(rn, "timeout")} \/ rn.polls # 1)
  BY DEF Poll, rn, next
<1>5. Follows(run[r], new)
  BY <1>2, <1>3, <1>4 DEF rn
<1>6. Moves /\ SomeOf(results', results)
  BY <1>4, <1>5, TurnMoves
<1> QED
  BY <1>6 DEF Quiet, Poll, IInv, TypeOK

\* The steps of a run that touch its phase only.
LEMMA PhaseMoves ==
  ASSUME IInv, NEW r \in Runs, run[r].phase \in {"publishing", "published"},
         NEW phase \in {"published", "waiting", "failed"}, run' = [run EXCEPT ![r].phase = phase]
  PROVE  Moves
<1> DEFINE rn == run[r]
           new == [rn EXCEPT !.phase = phase]
<1>1. rn \in Run /\ Fits(rn) /\ rn.phase \in UnderWay \ {"looking"}
  BY RunFacts DEF UnderWay
<1>2. /\ new \in Run /\ new.phase = phase /\ new.report = rn.report /\ new.plan = rn.plan
      /\ new.scene = rn.scene /\ new.confirmed = rn.confirmed
  BY <1>1 DEF Run, Phases
<1>3. Current(rn).dev # None
  BY <1>1 DEF Fits
<1>4. run \in [Runs -> Run] /\ run' = [run EXCEPT ![r] = new]
  BY DEF IInv, TypeOK
<1> HIDE DEF rn, new
<1>5. Follows(rn, new)
  BY <1>1, <1>2, <1>3, PhaseFollows
<1>6. \A x \in Runs : Follows(run[x], run'[x])
  <2> TAKE x \in Runs
  <2>1. CASE x = r
    BY <1>4, <1>5, <2>1 DEF rn
  <2>2. CASE x # r
    BY <1>4, <2>2, StaysFollows
  <2> QED
    BY <2>1, <2>2
<1> QED
  BY <1>2, <1>4, <1>6 DEF Moves

\* The acknowledgement of a publish, or its failure.
LEMMA ListenFailQuiet ==
  ASSUME IInv, NEW r \in Runs, Listen(r) \/ PublishFails(r)
  PROVE  Quiet
<1>1. Moves
  BY PhaseMoves DEF Listen, PublishFails
<1>2. SomeOf(results', results)
  BY AllIsSome DEF Listen, PublishFails, IInv, TypeOK
<1> QED
  BY <1>1, <1>2 DEF Quiet, Listen, PublishFails, IInv, TypeOK

\* A call of run().
LEMMA CalledQuiet ==
  ASSUME SceneAssumption, IInv, NEW r \in Runs, Called(r)
  PROVE  Quiet
<1>1. PICK sc \in Scenes, confirm \in BOOLEAN, dry \in BOOLEAN : Start(r, sc, confirm, dry)
  BY DEF Called, SceneAssumption
<1>2. PICK new : Follows(run[r], new) /\ Turn(r, new, results)
  BY <1>1, StartFollows DEF IInv
<1>3. Moves /\ SomeOf(results', results)
  BY <1>2, TurnMoves
<1> QED
  BY <1>1, <1>3 DEF Quiet, Start, IInv, TypeOK

\* A result goes to all who listen for it.
LEMMA ReceiveQuiet ==
  ASSUME IInv, Receive
  PROVE  Quiet
<1> DEFINE a == Head(results)
           S == {r \in Runs : Matches(r, a)}
<1>1. results \in Seq(Result) /\ results # <<>>
  BY DEF IInv, TypeOK, Receive
<1>2. a = results[1] /\ 1 \in 1 .. Len(results)
  BY <1>1
<1>3. run' = [r \in Runs |-> IF r \in S THEN Answered(run[r], a.ok) ELSE run[r]]
  BY DEF Receive
<1>4. a.ok => Earned(a.dev, a.act)
  BY <1>2 DEF IInv, Honest
<1> HIDE DEF a
<1>5. ASSUME NEW r \in Runs, Matches(r, a)
      PROVE  Follows(run[r], Answered(run[r], a.ok))
  <2> DEFINE rn == run[r]
             polling == [rn EXCEPT !.phase = "polling", !.polls = Current(rn).polls]
  <2>1. rn \in Run /\ Fits(rn) /\ rn.phase = "waiting" /\ rn.phase \in UnderWay /\ Current(rn) \in Step
    BY <1>5, RunFacts DEF Matches, UnderWay
  <2>2. a.ok => EarnedBy(rn)
    BY <1>4, <1>5 DEF EarnedBy, Matches
  <2>3. CASE ~a.ok
    <3>1. Follows(rn, Ended(rn, "error"))
      BY <2>1, EndedFollows DEF Statuses
    <3> QED
      BY <2>3, <3>1 DEF Answered
  <2>4. CASE a.ok /\ rn.scene.mode = "agentic" /\ Current(rn).polls > 0
    <3>1. /\ polling \in Run /\ polling.phase = "polling" /\ polling.report = rn.report /\ polling.plan = rn.plan
          /\ polling.scene = rn.scene /\ polling.confirmed = rn.confirmed /\ polling.polls = Current(rn).polls
      BY <2>1 DEF Run, Step, Phases
    <3>2. Current(rn).dev # None
      BY <2>1 DEF Fits, UnderWay
    <3>3. Answered(rn, a.ok) = polling
      BY <2>4 DEF Answered
    <3> HIDE DEF polling, rn
    <3>4. Follows(rn, polling)
      BY <2>1, <2>2, <2>4, <3>1, <3>2, PhaseFollows
    <3> QED
      BY <3>3, <3>4 DEF rn
  <2>5. CASE a.ok /\ ~(rn.scene.mode = "agentic" /\ Current(rn).polls > 0)
    <3>1. Follows(rn, Ended(rn, "ok"))
      BY <2>1, <2>2, <2>5, EndedFollows DEF Statuses
    <3> QED
      BY <2>5, <3>1 DEF Answered
  <2> QED
    BY <2>3, <2>4, <2>5
<1>6. \A r \in Runs : Follows(run[r], run'[r])
  <2> TAKE r \in Runs
  <2>1. CASE r \in S
    BY <1>3, <1>5, <2>1
  <2>2. CASE r \notin S
    BY <1>3, <2>2, StaysFollows
  <2> QED
    BY <2>1, <2>2
<1>7. run' \in [Runs -> Run]
  <2>1. \A r \in Runs : run'[r] \in Run
    BY <1>6 DEF Follows
  <2> QED
    BY <1>3, <2>1
<1>8. Moves
  BY <1>6, <1>7 DEF Moves
<1>9. SomeOf(results', results)
  <2>1. PICK n : results' = Aged(Tail(results), n, {r \in {x \in Runs : Matches(x, Head(results))} : Begins(run'[r])})
    BY DEF Receive
  <2>2. SomeOf(Tail(results), results) /\ Tail(results) \in Seq(Result)
    BY <1>1, TailIsSome
  <2>3. SomeOf(results', Tail(results))
    BY <2>1, <2>2, AgedIsSome
  <2>4. results' \in Seq(Result)
    BY <2>3 DEF SomeOf
  <2> QED
    BY <1>1, <2>2, <2>3, <2>4, SomeOfSome
<1> QED
  BY <1>8, <1>9 DEF Quiet, Receive, IInv, TypeOK

\* The environment.
LEMMA OutsideQuiet ==
  ASSUME SceneAssumption, IInv,
         \/ \E d \in Devices, v \in Values : DeviceReports(d, v)
         \/ \E d \in Devices : \E acts \in Inventories[d] : InventoryChanges(d, acts)
         \/ LoseResult
         \/ UNCHANGED vars
  PROVE  Quiet
<1>1. run' = run
  BY DEF DeviceReports, InventoryChanges, LoseResult, vars
<1>2. Moves
  BY <1>1, StaysFollows DEF Moves, IInv, TypeOK
<1>3. SomeOf(results', results)
  BY AllIsSome, TailIsSome DEF DeviceReports, InventoryChanges, LoseResult, vars, IInv, TypeOK
<1>4. UNCHANGED services
  BY DEF DeviceReports, InventoryChanges, LoseResult, vars, services
<1>5. value' \in [Devices -> Values]
  BY DEF DeviceReports, InventoryChanges, LoseResult, vars, IInv, TypeOK
<1>6. stored' \in [Devices -> SUBSET Actions \cup {None}]
  <2>1. ASSUME NEW d \in Devices, NEW acts \in Inventories[d], InventoryChanges(d, acts)
        PROVE  stored' \in [Devices -> SUBSET Actions \cup {None}]
    <3>1. acts \in SUBSET Actions \cup {None}
      BY DEF SceneAssumption
    <3> QED
      BY <2>1, <3>1 DEF InventoryChanges, IInv, TypeOK
  <2> QED
    BY <2>1 DEF DeviceReports, LoseResult, vars, IInv, TypeOK
<1> QED
  BY <1>2, <1>3, <1>4, <1>5, <1>6 DEF Quiet

\* A quiet step preserves the invariant.
LEMMA QuietInv ==
  ASSUME IInv, Quiet
  PROVE  IInv'
<1>1. /\ AllFit'
      /\ \A q \in Request : Requested(q) => Requested(q)' /\ Asked(q)' = Asked(q)
      /\ \A dev, act : Earned(dev, act) => Earned(dev, act)'
      /\ \A r \in Runs : run'[r].phase = "polling" => EarnedBy(run[r])' /\ run[r].phase # "idle"
      /\ \A r \in Runs : \A i \in 1 .. Len(run'[r].report) :
           run'[r].report[i] = "ok" => Earned(run[r].plan[i].dev, run[r].plan[i].act)'
  BY AfterMoves DEF Quiet, services
<1>2. TypeOK'
  BY DEF Quiet, Moves, SomeOf, services, IInv, TypeOK
<1>3. AllRequested'
  <2>1. adapter' = adapter /\ carried' = carried /\ simulator' = simulator
    BY DEF Quiet, services
  <2>2. \A q \in carried \cup adapter : q \in Request /\ Requested(q)
    BY DEF IInv, TypeOK, AllRequested
  <2>3. \A k \in 1 .. Len(simulator) : simulator[k] \in Request /\ Requested(simulator[k])
    BY DEF IInv, TypeOK, AllRequested
  <2>4. \A q \in carried \cup adapter : Requested(q)'
    BY <1>1, <2>2
  <2>5. \A q \in Request : Requested(q) => Requested(q)'
    BY <1>1
  <2>6. ASSUME NEW k \in 1 .. Len(simulator)
        PROVE  Requested(simulator[k])'
    <3>1. PICK q \in Request : q = simulator[k]
      BY <2>3
    <3>2. Requested(q)'
      BY <2>3, <2>5, <3>1
    <3> QED
      BY <2>1, <3>1, <3>2 DEF Requested, Asked
  <2> QED
    BY <2>1, <2>4, <2>6 DEF AllRequested
<1>4. Honest'
  <2>1. ASSUME NEW k \in 1 .. Len(results'), results'[k].ok
        PROVE  Earned(results[k].dev, results[k].act)'
    <3>1. PICK j \in 1 .. Len(results) : Same(results'[k], results[j])
      BY DEF Quiet, SomeOf
    <3>2. Earned(results[j].dev, results[j].act)
      BY <2>1, <3>1 DEF Same, IInv, Honest
    <3>3. PICK d, a : d = results[j].dev /\ a = results[j].act
      OBVIOUS
    <3>4. Earned(d, a)'
      BY <1>1, <3>2, <3>3
    <3> QED
      BY <3>1, <3>3, <3>4 DEF Same, Earned
  <2>2. wrote' => simulator' # <<>> /\ simulator'[1] \in carried'
    BY DEF Quiet, services, IInv, Honest
  <2> QED
    BY <1>1, <2>1, <2>2 DEF Honest
<1> QED
  BY <1>1, <1>2, <1>3, <1>4 DEF IInv

-----------------------------------------------------------------------------
(* The actions of the services.                                             *)

\* A run publishes its step.
LEMMA PublishInv ==
  ASSUME IInv, NEW r \in Runs, Publish(r)
  PROVE  IInv'
<1> DEFINE q == <<r, Len(run[r].report) + 1>>
<1>1. Moves
  BY PhaseMoves DEF Publish
<1>2. carried' = carried /\ results' = results /\ wrote' = wrote /\ stored' = stored /\ value' = value
  BY DEF Publish
<1>3. adapter' = adapter \cup {q} /\ simulator' \in {simulator, Append(simulator, q)}
  BY DEF Publish
<1>4. /\ AllFit'
      /\ \A x \in Request : Requested(x) => Requested(x)' /\ Asked(x)' = Asked(x)
      /\ \A dev, act : Earned(dev, act) => Earned(dev, act)'
      /\ \A x \in Runs : run'[x].phase = "polling" => EarnedBy(run[x])' /\ run[x].phase # "idle"
      /\ \A x \in Runs : \A i \in 1 .. Len(run'[x].report) :
           run'[x].report[i] = "ok" => Earned(run[x].plan[i].dev, run[x].plan[i].act)'
  BY <1>1, <1>2, AfterMoves
<1>5. run[r] \in Run /\ Fits(run[r]) /\ run[r].phase = "publishing" /\ run[r].phase \in UnderWay
  BY RunFacts DEF Publish, UnderWay
<1>6. Len(run[r].report) \in Nat /\ Len(run[r].plan) \in Nat
  BY <1>5 DEF Run
<1>7. q \in Request
  BY <1>6 DEF Request
<1>8. Requested(q)
  <2>1. q[1] = r /\ q[2] = Len(run[r].report) + 1
    OBVIOUS
  <2>2. Accepted(run[r]) /\ Len(run[r].report) < Len(run[r].plan) /\ Current(run[r]).dev # None
    BY <1>5 DEF Fits, UnderWay
  <2>3. Asked(q) = Current(run[r])
    BY <2>1 DEF Asked, Current
  <2>4. q[2] <= Len(run[r].report) + 1 /\ q[2] <= Len(run[r].plan)
    BY <1>6, <2>1, <2>2
  <2> QED
    BY <1>5, <2>1, <2>2, <2>3, <2>4 DEF Requested
<1> HIDE DEF q
<1>9. simulator \in Seq(Request) /\ Len(simulator) \in Nat
  BY DEF IInv, TypeOK
<1>10. /\ simulator' \in Seq(Request)
       /\ \A k \in 1 .. Len(simulator') : simulator'[k] = q \/ (k \in 1 .. Len(simulator) /\ simulator'[k] = simulator[k])
       /\ simulator # <<>> => simulator' # <<>> /\ simulator'[1] = simulator[1]
  <2>1. CASE simulator' = simulator
    BY <1>9, <2>1
  <2>2. CASE simulator' = Append(simulator, q)
    BY <1>7, <1>9, <2>2, AppendProperties
  <2> QED
    BY <1>3, <2>1, <2>2
<1>11. TypeOK'
  BY <1>1, <1>2, <1>3, <1>7, <1>10 DEF Moves, IInv, TypeOK
<1>12. AllRequested'
  <2>1. \A x \in carried' \cup adapter' : x \in Request /\ Requested(x)
    BY <1>2, <1>3, <1>7, <1>8 DEF IInv, TypeOK, AllRequested
  <2>2. \A x \in carried' \cup adapter' : Requested(x)'
    BY <1>4, <2>1
  <2>3. ASSUME NEW k \in 1 .. Len(simulator')
        PROVE  Requested(simulator[k])'
    <3>1. simulator'[k] \in Request /\ Requested(simulator'[k])
      <4>1. CASE simulator'[k] = q
        BY <1>7, <1>8, <4>1
      <4>2. CASE k \in 1 .. Len(simulator) /\ simulator'[k] = simulator[k]
        BY <1>9, <4>2 DEF IInv, AllRequested
      <4> QED
        BY <1>10, <4>1, <4>2
    <3>2. PICK x \in Request : x = simulator'[k]
      BY <3>1
    <3>3. Requested(x)'
      BY <1>4, <3>1, <3>2
    <3> QED
      BY <3>2, <3>3 DEF Requested, Asked
  <2> QED
    BY <2>2, <2>3 DEF AllRequested
<1>13. Honest'
  <2>1. ASSUME NEW k \in 1 .. Len(results'), results'[k].ok
        PROVE  Earned(results[k].dev, results[k].act)'
    <3>1. Earned(results[k].dev, results[k].act)
      BY <1>2, <2>1 DEF IInv, Honest
    <3>2. PICK d, a : d = results[k].dev /\ a = results[k].act
      OBVIOUS
    <3>3. Earned(d, a)'
      BY <1>4, <3>1, <3>2
    <3> QED
      BY <1>2, <3>2, <3>3 DEF Earned
  <2>2. wrote' => simulator' # <<>> /\ simulator'[1] \in carried'
    BY <1>2, <1>10 DEF IInv, Honest
  <2> QED
    BY <1>4, <2>1, <2>2 DEF Honest
<1> QED
  BY <1>4, <1>11, <1>12, <1>13 DEF IInv

\* What a request asks for is a step on a device.
LEMMA AskedIsStep ==
  ASSUME IInv, NEW q \in Request, Requested(q)
  PROVE  Asked(q) \in Step /\ Asked(q).dev \in Devices /\ Asked(q).act \in Actions
<1>1. q[1] \in Runs /\ q[2] \in Nat \ {0}
  BY DEF Request
<1>2. run[q[1]].plan \in Seq(Step) /\ Len(run[q[1]].plan) \in Nat
  BY <1>1 DEF IInv, TypeOK, Run
<1>3. q[2] \in 1 .. Len(run[q[1]].plan)
  BY <1>1, <1>2 DEF Requested
<1>4. Asked(q) \in Step
  BY <1>2, <1>3 DEF Asked
<1> QED
  BY <1>4 DEF Step, Requested

\* A service works on request q: it may carry it out, and answer it.
LEMMA ServiceInv ==
  ASSUME IInv, UNCHANGED <<run, stored>>, value' \in [Devices -> Values], adapter' \subseteq adapter,
         NEW q \in Request, Requested(q), carried \subseteq carried', carried' \subseteq carried \cup {q},
         simulator' = simulator \/ (simulator # <<>> /\ simulator' = Tail(simulator)),
         wrote' \in BOOLEAN, wrote' => simulator' # <<>> /\ simulator'[1] \in carried',
         results' = results \/ \E ok \in BOOLEAN : Answer(q, ok) /\ (ok => q \in carried')
  PROVE  IInv'
<1>1. /\ AllFit'
      /\ \A x \in Request : Requested(x) => Requested(x)' /\ Asked(x)' = Asked(x)
      /\ \A dev, act : Earned(dev, act) => Earned(dev, act)'
      /\ \A x \in Runs : run'[x].phase = "polling" => EarnedBy(run[x])' /\ run[x].phase # "idle"
      /\ \A x \in Runs : \A i \in 1 .. Len(run'[x].report) :
           run'[x].report[i] = "ok" => Earned(run[x].plan[i].dev, run[x].plan[i].act)'
  <2>1. Moves
    BY StaysFollows DEF Moves, IInv, TypeOK
  <2> QED
    BY <2>1, AfterMoves
<1>2. /\ simulator \in Seq(Request) /\ simulator' \in Seq(Request)
      /\ \A k \in 1 .. Len(simulator') : \E j \in 1 .. Len(simulator) : simulator'[k] = simulator[j]
  <2>1. simulator \in Seq(Request) /\ Len(simulator) \in Nat
    BY DEF IInv, TypeOK
  <2>2. CASE simulator' = simulator
    BY <2>1, <2>2
  <2>3. CASE simulator # <<>> /\ simulator' = Tail(simulator)
    <3>1. /\ Tail(simulator) \in Seq(Request) /\ Len(Tail(simulator)) = Len(simulator) - 1
          /\ \A i \in 1 .. Len(Tail(simulator)) : Tail(simulator)[i] = simulator[i + 1]
      BY <2>1, <2>3, HeadTailProperties
    <3>2. ASSUME NEW k \in 1 .. Len(simulator')
          PROVE  \E j \in 1 .. Len(simulator) : simulator'[k] = simulator[j]
      <4>1. k \in 1 .. Len(Tail(simulator)) /\ simulator'[k] = simulator[k + 1]
        BY <2>3, <3>1
      <4>2. k + 1 \in 1 .. Len(simulator)
        BY <2>1, <3>1, <4>1
      <4> QED
        BY <4>1, <4>2
    <3> QED
      BY <2>1, <2>3, <3>1, <3>2
  <2> QED
    BY <2>2, <2>3, <2>1
<1>3. results \in Seq(Result) /\ Len(results) \in Nat
  BY DEF IInv, TypeOK
<1>4. /\ results' \in Seq(Result)
      /\ \A k \in 1 .. Len(results') : results'[k].ok =>
           \/ k \in 1 .. Len(results) /\ results'[k] = results[k]
           \/ q \in carried' /\ results'[k].dev = Asked(q).dev /\ results'[k].act = Asked(q).act
  <2>1. CASE results' = results
    BY <1>3, <2>1
  <2>2. CASE \E ok \in BOOLEAN : Answer(q, ok) /\ (ok => q \in carried')
    <3>1. PICK ok \in BOOLEAN : Answer(q, ok) /\ (ok => q \in carried')
      BY <2>2
    <3> DEFINE res == [dev |-> Asked(q).dev, act |-> Asked(q).act, ok |-> ok,
                       fresh |-> {r \in Runs : run[r].phase \notin {"done", "failed"}}]
    <3>2. res \in Result
      BY AskedIsStep DEF Result
    <3>3. results' = Append(results, res)
      BY <3>1 DEF Answer
    <3>4. res.dev = Asked(q).dev /\ res.act = Asked(q).act /\ (res.ok => q \in carried')
      BY <3>1
    <3> HIDE DEF res
    <3>5. /\ Append(results, res) \in Seq(Result) /\ Len(Append(results, res)) = Len(results) + 1
          /\ Append(results, res)[Len(results) + 1] = res
          /\ \A i \in 1 .. Len(results) : Append(results, res)[i] = results[i]
      BY <1>3, <3>2, AppendProperties
    <3>6. \A k \in 1 .. Len(results') : k \in 1 .. Len(results) \/ k = Len(results) + 1
      BY <1>3, <3>3, <3>5
    <3> QED
      BY <3>3, <3>4, <3>5, <3>6
  <2> QED
    BY <2>1, <2>2
<1>5. TypeOK'
  BY <1>2, <1>4 DEF IInv, TypeOK
<1>6. AllRequested'
  <2>1. \A x \in carried' \cup adapter' : x \in Request /\ Requested(x)
    BY DEF IInv, TypeOK, AllRequested
  <2>2. \A x \in carried' \cup adapter' : Requested(x)'
    BY <1>1, <2>1
  <2>3. ASSUME NEW k \in 1 .. Len(simulator')
        PROVE  Requested(simulator[k])'
    <3>1. PICK j \in 1 .. Len(simulator) : simulator'[k] = simulator[j]
      BY <1>2
    <3>2. simulator[j] \in Request /\ Requested(simulator[j])
      BY <1>2 DEF IInv, AllRequested
    <3>3. PICK x \in Request : x = simulator[j]
      BY <3>2
    <3>4. Requested(x)'
      BY <1>1, <3>2, <3>3
    <3> QED
      BY <3>1, <3>3, <3>4 DEF Requested, Asked
  <2> QED
    BY <2>2, <2>3 DEF AllRequested
<1>7. Honest'
  <2>1. ASSUME NEW k \in 1 .. Len(results'), results'[k].ok
        PROVE  Earned(results[k].dev, results[k].act)'
    <3>1. CASE k \in 1 .. Len(results) /\ results'[k] = results[k]
      <4>1. Earned(results[k].dev, results[k].act)
        BY <2>1, <3>1 DEF IInv, Honest
      <4>2. PICK d, a : d = results[k].dev /\ a = results[k].act
        OBVIOUS
      <4>3. Earned(d, a)'
        BY <1>1, <4>1, <4>2
      <4> QED
        BY <3>1, <4>2, <4>3 DEF Earned
    <3>2. CASE q \in carried' /\ results'[k].dev = Asked(q).dev /\ results'[k].act = Asked(q).act
      <4>1. Asked(q)' = Asked(q)
        BY <1>1
      <4> QED
        BY <3>2, <4>1 DEF Earned
    <3> QED
      BY <1>4, <2>1, <3>1, <3>2
  <2> QED
    BY <1>1, <2>1 DEF Honest
<1> QED
  BY <1>1, <1>5, <1>6, <1>7 DEF IInv

\* The adapter serves a request.
LEMMA AdapterInv ==
  ASSUME IInv, NEW q \in adapter, AdapterActs(q)
  PROVE  IInv'
<1>1. q \in Request /\ Requested(q)
  BY DEF IInv, TypeOK, AllRequested
<1>2. /\ UNCHANGED <<run, stored>> /\ value' = value /\ simulator' = simulator /\ wrote' = wrote
      /\ adapter' = adapter \ {q}
  BY DEF AdapterActs
<1>3. /\ results' = results \/ \E ok \in BOOLEAN : Answer(q, ok) /\ (ok => q \in carried')
      /\ carried' = carried \/ carried' = carried \cup {q}
  <2>1. CASE stored[Asked(q).dev] = None
    BY <2>1 DEF AdapterActs
  <2>2. CASE stored[Asked(q).dev] # None
    <3>1. PICK ok \in AdapterAnswers(Asked(q).dev) :
            Answer(q, ok) /\ carried' = IF ok THEN carried \cup {q} ELSE carried
      BY <2>2 DEF AdapterActs
    <3>2. ok \in BOOLEAN
      BY DEF AdapterAnswers
    <3>3. CASE ok
      BY <3>1, <3>2, <3>3
    <3>4. CASE ~ok
      BY <3>1, <3>2, <3>4
    <3> QED
      BY <3>3, <3>4
  <2> QED
    BY <2>1, <2>2
<1>4. value' \in [Devices -> Values] /\ wrote' \in BOOLEAN
      /\ (wrote' => simulator' # <<>> /\ simulator'[1] \in carried')
  BY <1>2, <1>3 DEF IInv, TypeOK, Honest
<1> QED
  BY <1>1, <1>2, <1>3, <1>4, ServiceInv

\* The simulator serves the head of its queue.
LEMMA SimulatorInv ==
  ASSUME SceneAssumption, IInv, SimulatorActs \/ SimulatorAnswers
  PROVE  IInv'
<1> DEFINE q == Head(simulator)
<1>1. simulator \in Seq(Request) /\ simulator # <<>>
  BY DEF IInv, TypeOK, Honest, SimulatorActs, SimulatorAnswers
<1>2. q = simulator[1] /\ 1 \in 1 .. Len(simulator) /\ q \in Request
  BY <1>1
<1>3. Requested(q)
  BY <1>2 DEF IInv, AllRequested
<1>4. UNCHANGED <<run, stored>> /\ adapter' = adapter
  BY DEF SimulatorActs, SimulatorAnswers
<1> HIDE DEF q
<1>5. CASE SimulatorActs /\ Answer(q, FALSE) /\ simulator' = Tail(simulator) /\ UNCHANGED <<value, wrote, carried>>
  <2>1. ~wrote'
    BY <1>5 DEF SimulatorActs
  <2> QED
    BY <1>1, <1>2, <1>3, <1>4, <1>5, <2>1, ServiceInv DEF IInv, TypeOK
<1>6. CASE /\ SimulatorActs /\ value' = [value EXCEPT ![Asked(q).dev] = Effect[Asked(q).act]]
           /\ wrote' = TRUE /\ carried' = carried \cup {q} /\ UNCHANGED <<simulator, results>>
  <2>1. value' \in [Devices -> Values]
    BY <1>2, <1>3, <1>6, AskedIsStep DEF IInv, TypeOK, SceneAssumption
  <2>2. wrote' \in BOOLEAN /\ simulator' # <<>> /\ simulator'[1] \in carried'
    BY <1>1, <1>2, <1>6
  <2> QED
    BY <1>1, <1>2, <1>3, <1>4, <1>6, <2>1, <2>2, ServiceInv
<1>7. CASE SimulatorAnswers
  <2>1. Answer(q, TRUE) /\ simulator' = Tail(simulator) /\ wrote' = FALSE /\ value' = value /\ carried' = carried /\ wrote
    BY <1>7 DEF SimulatorAnswers, q
  <2>2. q \in carried'
    BY <1>2, <2>1 DEF IInv, Honest
  <2>3. value' \in [Devices -> Values] /\ wrote' \in BOOLEAN /\ ~wrote'
    BY <2>1 DEF IInv, TypeOK
  <2>4. \E ok \in BOOLEAN : Answer(q, ok) /\ (ok => q \in carried')
    BY <2>1, <2>2
  <2> QED
    BY <1>1, <1>2, <1>3, <1>4, <2>1, <2>3, <2>4, ServiceInv
<1> QED
  BY <1>5, <1>6, <1>7 DEF SimulatorActs, q

-----------------------------------------------------------------------------
(* The theorems.                                                            *)

\* The invariant holds at first.
LEMMA InitInv == SceneAssumption /\ Init => IInv
<1> SUFFICES ASSUME SceneAssumption, Init
             PROVE  IInv
  OBVIOUS
<1>1. \A r \in Runs : run[r] = NoRun
  BY DEF Init
<1>2. NoRun \in Run /\ NoRun.phase = "idle" /\ Len(NoRun.report) = 0
  BY DEF NoRun, Run, Phases
<1>3. stored \in [Devices -> SUBSET Actions \cup {None}]
  BY DEF Init
<1>4. TypeOK
  <2>1. run \in [Runs -> Run] /\ value \in [Devices -> Values]
    BY <1>2 DEF Init
  <2>2. adapter \subseteq Request /\ carried \subseteq Request /\ wrote \in BOOLEAN
    BY DEF Init
  <2>3. simulator \in Seq(Request) /\ results \in Seq(Result)
    BY DEF Init
  <2> QED
    BY <1>3, <2>1, <2>2, <2>3 DEF TypeOK
<1>5. AllFit
  BY <1>1, <1>2 DEF AllFit, Fits, UnderWay
<1>6. AllRequested
  BY DEF Init, AllRequested
<1>7. Honest
  BY <1>1, <1>2 DEF Init, Honest
<1> QED
  BY <1>4, <1>5, <1>6, <1>7 DEF IInv

\* Every step preserves the invariant.
LEMMA StepInv == SceneAssumption /\ IInv /\ [Next]_vars => IInv'
<1> SUFFICES ASSUME SceneAssumption, IInv, [Next]_vars
             PROVE  IInv'
  OBVIOUS
<1>1. ASSUME NEW r \in Runs, RunStep(r)
      PROVE  IInv'
  <2>1. CASE Publish(r)
    BY <2>1, PublishInv
  <2>2. CASE Look(r)
    BY <2>2, LookQuiet, QuietInv
  <2>3. CASE Listen(r) \/ PublishFails(r)
    BY <2>3, ListenFailQuiet, QuietInv
  <2>4. CASE ResultTimeout(r)
    BY <2>4, TimeoutQuiet, QuietInv
  <2>5. CASE Poll(r)
    BY <2>5, PollQuiet, QuietInv
  <2> QED
    BY <1>1, <2>1, <2>2, <2>3, <2>4, <2>5 DEF RunStep
<1>2. ASSUME NEW r \in Runs, Called(r)
      PROVE  IInv'
  BY <1>2, CalledQuiet, QuietInv
<1>3. CASE Receive
  BY <1>3, ReceiveQuiet, QuietInv
<1>4. ASSUME NEW q \in adapter, AdapterActs(q)
      PROVE  IInv'
  BY <1>4, AdapterInv
<1>5. CASE SimulatorActs \/ SimulatorAnswers
  BY <1>5, SimulatorInv
<1>6. CASE \/ \E d \in Devices, v \in Values : DeviceReports(d, v)
           \/ \E d \in Devices : \E acts \in Inventories[d] : InventoryChanges(d, acts)
           \/ LoseResult
           \/ UNCHANGED vars
  BY <1>6, OutsideQuiet, QuietInv
<1> QED
  BY <1>1, <1>2, <1>3, <1>4, <1>5, <1>6 DEF Next

\* The invariant of scene runs: how far each run is fits its plan and report, what was
\* published is a step of a run that was accepted, and whoever claims success is right.
THEOREM RunsInvariant == Spec => []IInv
<1>1. Init => IInv
  BY InitInv, SceneAssumption
<1>2. IInv /\ [Next]_vars => IInv'
  BY StepInv, SceneAssumption
<1> QED
  BY <1>1, <1>2, PTL DEF Spec

\* scene-runner.js, agentic-scene-runner.js, bus.js: every variable keeps its type.
THEOREM TypeCorrect == Spec => []TypeOK
<1>1. IInv => TypeOK
  BY DEF IInv
<1> QED
  BY <1>1, RunsInvariant, PTL

\* scene-runner.js:165-171, agentic-scene-runner.js:476-481: for any number of runs, scenes
\* and devices, a step reported ok was carried out on its device, although results carry no
\* request id, are lost and are shared between the runs that listen.
THEOREM OkWasEarned == Spec => []OkIsEarned
<1>1. ASSUME IInv
      PROVE  OkIsEarned
  <2> SUFFICES ASSUME NEW r \in Runs, NEW i \in DOMAIN run[r].report, run[r].report[i] = "ok"
               PROVE  Earned(run[r].plan[i].dev, run[r].plan[i].act)
    BY DEF OkIsEarned, Earned
  <2>1. DOMAIN run[r].report = 1 .. Len(run[r].report)
    BY <1>1 DEF IInv, TypeOK, Run
  <2> QED
    BY <1>1, <2>1 DEF IInv, Honest
<1> QED
  BY <1>1, RunsInvariant, PTL

\* agentic-scene-runner.js:92-172: under abort no step follows one that did not end well, and
\* nothing is asked of a device before the earlier steps of its run were reported.
THEOREM AbortIsFinal == Spec => []AbortedStaysAborted
<1>1. ASSUME IInv, NEW r \in Runs, run[r].scene # None, run[r].scene.mode = "agentic", run[r].scene.abort,
             run[r].phase # "done", NEW i \in DOMAIN run[r].report
      PROVE  run[r].report[i] = "ok"
  <2>1. run[r] \in Run /\ Fits(run[r])
    BY <1>1 DEF IInv, TypeOK, AllFit
  <2>2. i \in 1 .. Len(run[r].report)
    BY <1>1, <2>1 DEF Run
  <2>3. run[r].phase # "idle"
    BY <1>1, <2>1 DEF Fits, NoRun
  <2>4. run[r].phase \in UnderWay \cup {"failed"}
    BY <1>1, <2>1, <2>3 DEF Run, Phases, UnderWay
  <2> QED
    BY <1>1, <2>1, <2>2, <2>4 DEF Fits
<1>2. ASSUME IInv, NEW r \in Runs, NEW q \in carried \cup adapter, q[1] = r
      PROVE  q[2] <= Len(run[r].report) + 1
  BY <1>2 DEF IInv, AllRequested, Requested
<1>3. IInv => AbortedStaysAborted
  BY <1>1, <1>2 DEF AbortedStaysAborted
<1> QED
  BY <1>3, RunsInvariant, PTL

\* agentic-scene-runner.js:52-57, 218-311: a run that nobody confirmed never asks for an
\* action at a risk level that its scene wants confirmed.
THEOREM ConfirmedBeforeAsked == Spec => []UnconfirmedIsHarmless
<1>1. ASSUME IInv, NEW q \in carried \cup adapter,
             ~run[q[1]].confirmed, UpwardClosed(run[q[1]].scene.confirmOn)
      PROVE  run[q[1]].scene.goals[q[2]].risk[Asked(q).dev] \notin run[q[1]].scene.confirmOn
  <2>1. q \in Request /\ Requested(q)
    BY <1>1 DEF IInv, TypeOK, AllRequested
  <2>2. q[1] \in Runs /\ q[2] \in Nat \ {0} /\ Len(run[q[1]].plan) \in Nat
    BY <1>1, <2>1 DEF Request, IInv, TypeOK, Run
  <2>3. q[2] \in 1 .. Len(run[q[1]].plan) /\ Accepted(run[q[1]])
    BY <2>1, <2>2 DEF Requested
  <2> QED
    BY <1>1, <2>3 DEF Accepted, Asked
<1>2. IInv => UnconfirmedIsHarmless
  BY <1>1 DEF UnconfirmedIsHarmless
<1> QED
  BY <1>2, RunsInvariant, PTL

-----------------------------------------------------------------------------
(* Towards RunsEnd: what a run still has before it gets less in every step. *)

Order(phase) ==
  CASE phase = "looking" -> 1 [] phase = "publishing" -> 2 [] phase = "published" -> 3
    [] phase = "waiting" -> 4 [] phase = "polling" -> 5

\* A run is further when it has reported a step more, is further in the step it is at,
\* polls for the next time, or has failed.
Further(rn, new) ==
  \/ Len(new.report) = Len(rn.report) + 1 /\ \A i \in 1 .. Len(rn.report) : new.report[i] = rn.report[i]
  \/ new.report = rn.report /\ new.phase \in UnderWay /\ Order(rn.phase) < Order(new.phase)
  \/ new = [rn EXCEPT !.polls = rn.polls - 1] /\ rn.phase = "polling" /\ new.polls > 0
  \/ new = [rn EXCEPT !.phase = "failed"]

Advances(rn, new) ==
  \/ rn.phase = "idle" \/ new = rn
  \/ rn.phase \in UnderWay /\ new.plan = rn.plan /\ Further(rn, new)

\* A run under way only gets further, within its plan, and one that is over stays as it is.
RunsAdvance ==
  [][\A r \in Runs : /\ Advances(run[r], run'[r]) /\ Len(run'[r].report) <= Len(run'[r].plan)
                     /\ RunStep(r) => run'[r] # run[r] /\ \A s \in Runs \ {r} : run'[s] = run[s]]_vars

\* A step that ends is one more in the report.
LEMMA EndedFurther ==
  ASSUME NEW rn \in Run, rn.phase \in UnderWay, NEW s \in Statuses
  PROVE  Ended(rn, s).plan = rn.plan /\ Further(rn, Ended(rn, s)) /\ Ended(rn, s) # rn
<1>1. rn.report \in Seq(Statuses)
  BY DEF Run
<1>2. Ended(rn, s).report = Append(rn.report, s) /\ Ended(rn, s).plan = rn.plan
  BY DEF Ended, Run
<1> QED
  BY <1>1, <1>2, Longer DEF Further

\* A run whose turn it is gets further, and no other one moves.
LEMMA TurnAdvances ==
  ASSUME IInv, NEW r \in Runs, RunStep(r)
  PROVE  /\ run[r].phase \in UnderWay /\ run'[r].plan = run[r].plan /\ Further(run[r], run'[r])
         /\ run'[r] # run[r] /\ \A s \in Runs \ {r} : run'[s] = run[s]
<1> DEFINE rn == run[r]
<1>1. run \in [Runs -> Run] /\ rn \in Run /\ Fits(rn)
  BY DEF IInv, TypeOK, AllFit
<1>2. ASSUME NEW new, run' = [run EXCEPT ![r] = new]
      PROVE  run'[r] = new /\ \A s \in Runs \ {r} : run'[s] = run[s]
  BY <1>1, <1>2
<1>3. ASSUME NEW s \in Statuses, rn.phase \in UnderWay, Turn(r, Ended(rn, s), results)
      PROVE  /\ run'[r].plan = rn.plan /\ Further(rn, run'[r]) /\ run'[r] # rn
             /\ \A t \in Runs \ {r} : run'[t] = run[t]
  BY <1>1, <1>2, <1>3, EndedFurther DEF Turn
<1>4. ASSUME NEW phase \in UnderWay, rn.phase \in UnderWay, Order(rn.phase) < Order(phase), phase # rn.phase,
             run' = [run EXCEPT ![r] = [rn EXCEPT !.phase = phase]]
      PROVE  /\ run'[r].plan = rn.plan /\ Further(rn, run'[r]) /\ run'[r] # rn
             /\ \A t \in Runs \ {r} : run'[t] = run[t]
  <2>1. /\ [rn EXCEPT !.phase = phase].phase = phase /\ [rn EXCEPT !.phase = phase].report = rn.report
        /\ [rn EXCEPT !.phase = phase].plan = rn.plan
    BY <1>1 DEF Run
  <2> QED
    BY <1>2, <1>4, <2>1 DEF Further
<1>5. CASE Look(r)
  <2>1. rn.phase = "looking"
    BY <1>5 DEF Look
  <2>2. \/ \E s \in Statuses : Turn(r, Ended(rn, s), results)
        \/ run' = [run EXCEPT ![r] = [rn EXCEPT !.phase = "publishing"]]
    BY <1>5 DEF Look, Turn, Statuses
  <2> QED
    BY <1>3, <1>4, <2>1, <2>2 DEF UnderWay, Order
<1>6. CASE Publish(r)
  BY <1>4, <1>6 DEF Publish, UnderWay, Order
<1>7. CASE PublishFails(r)
  <2>1. run' = [run EXCEPT ![r] = [rn EXCEPT !.phase = "failed"]] /\ rn.phase = "publishing"
    BY <1>7 DEF PublishFails
  <2>2. [rn EXCEPT !.phase = "failed"].plan = rn.plan /\ [rn EXCEPT !.phase = "failed"].phase = "failed"
    BY <1>1 DEF Run
  <2> QED
    BY <1>2, <2>1, <2>2 DEF Further, UnderWay
<1>8. CASE Listen(r)
  BY <1>4, <1>8 DEF Listen, UnderWay, Order
<1>9. CASE ResultTimeout(r)
  BY <1>3, <1>9 DEF ResultTimeout, UnderWay, Statuses
<1>10. CASE Poll(r)
  <2>1. rn.phase = "polling" /\ rn.polls \in Nat /\ rn.polls > 0
    BY <1>1, <1>10 DEF Poll, Fits, Run
  <2>2. \/ \E s \in Statuses : Turn(r, Ended(rn, s), results)
        \/ rn.polls # 1 /\ run' = [run EXCEPT ![r] = [rn EXCEPT !.polls = @ - 1]]
    BY <1>10 DEF Poll, Turn, Statuses
  <2>3. CASE rn.polls # 1 /\ run' = [run EXCEPT ![r] = [rn EXCEPT !.polls = @ - 1]]
    <3> DEFINE new == [rn EXCEPT !.polls = rn.polls - 1]
    <3>1. new.polls = rn.polls - 1 /\ new.plan = rn.plan
      BY <1>1 DEF Run
    <3>2. run'[r] = new /\ \A s \in Runs \ {r} : run'[s] = run[s]
      BY <1>2, <2>3
    <3>3. Further(rn, new)
      BY <2>1, <2>3, <3>1 DEF Further
    <3> HIDE DEF new
    <3>4. new.polls # rn.polls
      BY <2>1, <3>1
    <3>5. new # rn /\ rn.phase \in UnderWay
      BY <2>1, <3>4 DEF UnderWay
    <3> QED
      BY <3>1, <3>2, <3>3, <3>5
  <2> QED
    BY <1>3, <2>1, <2>2, <2>3 DEF UnderWay
<1> QED
  BY <1>5, <1>6, <1>7, <1>8, <1>9, <1>10 DEF RunStep, UnderWay

\* So does a run that is told a result, and no other one is.
LEMMA ReceiveAdvances ==
  ASSUME IInv, Receive, NEW r \in Runs
  PROVE  Advances(run[r], run'[r])
<1> DEFINE rn == run[r]
           a == Head(results)
<1>1. rn \in Run
  BY DEF IInv, TypeOK
<1>2. run'[r] = rn \/ (Matches(r, a) /\ run'[r] = Answered(rn, a.ok))
  BY DEF Receive
<1>3. CASE Matches(r, a) /\ run'[r] = Answered(rn, a.ok)
  <2>1. rn.phase = "waiting"
    BY <1>3 DEF Matches
  <2>2. \/ \E s \in Statuses : Answered(rn, a.ok) = Ended(rn, s)
        \/ Answered(rn, a.ok) = [rn EXCEPT !.phase = "polling", !.polls = Current(rn).polls]
    BY DEF Answered, Statuses
  <2>3. CASE \E s \in Statuses : Answered(rn, a.ok) = Ended(rn, s)
    BY <1>1, <1>3, <2>1, <2>3, EndedFurther DEF Advances, UnderWay
  <2>4. CASE Answered(rn, a.ok) = [rn EXCEPT !.phase = "polling", !.polls = Current(rn).polls]
    <3> DEFINE new == [rn EXCEPT !.phase = "polling", !.polls = Current(rn).polls]
    <3>1. new.report = rn.report /\ new.plan = rn.plan /\ new.phase = "polling"
      BY <1>1 DEF Run
    <3>2. run'[r] = new
      BY <1>3, <2>4
    <3> HIDE DEF new
    <3>3. Further(rn, new)
      BY <2>1, <3>1 DEF Further, UnderWay, Order
    <3> QED
      BY <2>1, <3>1, <3>2, <3>3 DEF Advances, UnderWay
  <2> QED
    BY <2>2, <2>3, <2>4
<1> QED
  BY <1>2, <1>3 DEF Advances

\* scene-runner.js:63-137, agentic-scene-runner.js:92-172: every step of a run brings it
\* further, through its plan one step after the other, and nothing takes it back; a result
\* that comes after its end changes nothing.
THEOREM RunsOnlyAdvance == Spec => RunsAdvance
<1>1. ASSUME IInv, [Next]_vars, NEW r \in Runs
      PROVE  /\ Advances(run[r], run'[r]) /\ Len(run'[r].report) <= Len(run'[r].plan)
             /\ RunStep(r) => run'[r] # run[r] /\ \A s \in Runs \ {r} : run'[s] = run[s]
  <2>1. RunStep(r) => run'[r] # run[r] /\ \A s \in Runs \ {r} : run'[s] = run[s]
    BY <1>1, TurnAdvances
  <2>2. ASSUME NEW s \in Runs, RunStep(s) PROVE Advances(run[r], run'[r])
    BY <1>1, <2>2, TurnAdvances DEF Advances
  <2>3. ASSUME NEW s \in Runs, Called(s) PROVE Advances(run[r], run'[r])
    <3>1. PICK sc \in Scenes, confirm \in BOOLEAN, dry \in BOOLEAN : Start(s, sc, confirm, dry)
      BY <2>3, SceneAssumption DEF Called
    <3>2. run[s].phase = "idle" /\ \E new : run' = [run EXCEPT ![s] = new]
      <4>1. \E new : Turn(s, new, results)
        BY <1>1, <3>1, SceneAssumption, StartFollows DEF IInv
      <4> QED
        BY <3>1, <4>1 DEF Start, Turn
    <3>3. r = s \/ run'[r] = run[r]
      BY <1>1, <3>2 DEF IInv, TypeOK
    <3> QED
      BY <3>2, <3>3 DEF Advances
  <2>4. ASSUME run' = run PROVE Advances(run[r], run'[r])
    BY <2>4 DEF Advances
  <2>5. ASSUME Receive PROVE Advances(run[r], run'[r])
    BY <1>1, <2>5, ReceiveAdvances
  <2>6. ASSUME \/ \E q \in adapter : AdapterActs(q)
               \/ SimulatorActs \/ SimulatorAnswers \/ LoseResult \/ UNCHANGED vars
               \/ \E d \in Devices, v \in Values : DeviceReports(d, v)
               \/ \E d \in Devices : \E acts \in Inventories[d] : InventoryChanges(d, acts)
        PROVE  run' = run
    BY <2>6 DEF AdapterActs, SimulatorActs, SimulatorAnswers, DeviceReports, InventoryChanges, LoseResult, vars
  <2>7. Len(run'[r].report) <= Len(run'[r].plan)
    <3>1. Fits(run'[r])
      BY <1>1, SceneAssumption, StepInv DEF IInv, AllFit
    <3> QED
      BY <3>1 DEF Fits, NoRun
  <2> QED
    BY <1>1, <2>1, <2>2, <2>3, <2>4, <2>5, <2>6, <2>7 DEF Next
<1>2. IInv /\ [Next]_vars =>
        [\A r \in Runs : /\ Advances(run[r], run'[r]) /\ Len(run'[r].report) <= Len(run'[r].plan)
                         /\ RunStep(r) => run'[r] # run[r] /\ \A s \in Runs \ {r} : run'[s] = run[s]]_vars
  BY <1>1
<1> QED
  BY <1>2, RunsInvariant, PTL DEF Spec, RunsAdvance
=============================================================================
