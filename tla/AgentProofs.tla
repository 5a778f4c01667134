------------------------------ MODULE AgentProofs ------------------------------
(***************************************************************************)
(* Proofs about the agent: the turns on one session, and the standby that  *)
(* its clients share.  The two modules have no variable in common, and     *)
(* each theorem is of the specification of one of them.                    *)
(***************************************************************************)
EXTENDS AgentTurn, AgentStandby, TLAPS

-----------------------------------------------------------------------------
(* The turns of the agent on one session.                                   *)

Calls == {"look", "item", "post", "posted"}

\* The types, without the bounds of the counters.
Types ==
  /\ pending \in Plans \cup {None} /\ offered \in Plans \cup {None}
  /\ turn \in [Turns -> {Ready} \cup Busied \cup Done]
  /\ cache \in [Keys -> Answers]
  /\ refused \subseteq Plans \X (1 .. Longest)
  /\ posts \subseteq Turns \X Plans \X (1 .. Longest) \X Sources
  /\ crossed \in BOOLEAN /\ reused \subseteq PlanIds /\ excused \subseteq PlanIds

\* How far a turn is fits what it holds; a call for real is one the user confirmed or one
\* that needs no confirmation.
Fits(t) ==
  /\ t.stage = "loaded" => t.copy # None
  /\ t.stage \in {"loaded", "llm"} => t.plan = None /\ ~t.dry /\ t.suffix = "plain" /\ t.source = "model"
  /\ t.stage \in Calls \cup {"propose", "finish"} => t.plan # None
  /\ t.stage \in Calls /\ ~t.dry => t.suffix = "plain"
  /\ t.stage = "item" => t.n <= Len(t.plan.items) + 1
  /\ t.stage \in {"post", "posted"} => ~t.dry /\ t.n <= Len(t.plan.items)
  /\ t.stage \in Calls /\ t.source = "tool" => t.dry
  /\ t.stage \in Calls /\ t.source = "model" => Executes(t.plan)
AllFit == \A r \in Turns : Busy(r) => Fits(turn[r])

\* What reached the gateway is an item of its plan, and needed no confirmation or had one.
Posted == \A p \in posts :
  /\ p[3] <= Len(p[2].items)
  /\ p[4] # "tool" /\ (p[4] = "model" => Executes(p[2]))

\* Turns that neither overlap nor fail: each holds what was offered, or what it offers.
Orderly == ~crossed =>
  /\ \A r, q \in Turns : Busy(r) /\ Busy(q) => r = q
  /\ \A r \in Turns : Busy(r) =>
       IF turn[r].stage = "propose" THEN turn[r].copy = turn[r].plan ELSE turn[r].copy \in {offered, None}
  /\ (\A r \in Turns : ~Busy(r)) => pending \in {offered, None}

\* Two calls of one id at a time are excused.
Exclusive == \A r, q \in Turns, id \in PlanIds : r # q /\ Calling(r, id) /\ Calling(q, id) => id \in excused

\* Who is about to write found nothing in the cache, and what was written is there, or
\* its answer is on the way.
KeyOfPost(p) == <<p[2].id, "plain", ItemPart(p[2], p[3])>>
Clear == \A r \in Turns : turn[r].stage = "post" /\ turn[r].plan.id \notin excused =>
  cache[KeyFor(r, ItemPart(turn[r].plan, turn[r].n))] = "none"
OnItsWay(p) == turn[p[1]].stage = "posted" /\ turn[p[1]].plan = p[2] /\ turn[p[1]].n = p[3]
Remembered == \A p \in posts : p[2].id \notin excused => cache[KeyOfPost(p)] = "done" \/ OnItsWay(p)

\* The dry runs of the model use up an id.
Asked == \A r \in Turns : turn[r].stage \in Calls /\ turn[r].source = "tool" => turn[r].plan.id \in reused

\* An id that was not used again stands for one plan, which some turn has had.
Has(r, plan) == turn[r] # Ready /\ turn[r].plan = plan
Held == {pending} \cup {turn[r].copy : r \in {r \in Turns : Busy(r)}}
Traced ==
  /\ \A plan \in Held \ {None} : plan.id \in reused \/ \E r \in Turns : Has(r, plan)
  /\ \A key \in Keys : cache[key] # "none" => key[1] \in reused \/ \E r \in Turns, plan \in Plans : Has(r, plan) /\ plan.id = key[1]
Single == \A r, q \in Turns, a, b \in Plans : Has(r, a) /\ Has(q, b) /\ a.id = b.id => a = b \/ a.id \in reused

\* For such a plan what is cached was written or passed over, in order; only the model's
\* own dry runs leave something else under the same keys.
Wrote(plan, m) == \E p \in posts : p[2] = plan /\ p[3] = m
Dealt(plan, m, ok) == Wrote(plan, m) \/ (~ok /\ <<plan, m>> \in refused)
DealtAll(plan, ok) == \A m \in 1 .. Len(plan.items) : Dealt(plan, m, ok)
Plain(plan) == plan.id \notin reused /\ Distinct(plan)
Backed(plan) ==
  /\ \A m \in 1 .. Len(plan.items) : LET answer == cache[<<plan.id, "plain", ItemPart(plan, m)>>]
                                     IN answer # "none" => Dealt(plan, m, answer # "refused")
  /\ LET answer == cache[<<plan.id, "plain", <<"plan">>>>]
     IN plan.kind = "actions" /\ answer # "none" => DealtAll(plan, answer # "refused")
Cached == \A r \in Turns, plan \in Plans : Has(r, plan) /\ Plain(plan) => Backed(plan)
Progress(t) ==
  /\ t.stage \in Calls /\ t.dry => t.suffix = "dryrun"
  /\ t.stage \in {"item", "post", "posted"} /\ ~t.dry => \A m \in 1 .. t.n - 1 : Dealt(t.plan, m, t.ok)
  /\ t.stage = "posted" => Wrote(t.plan, t.n)
  /\ t.stage = "finish" \/ (t.stage = "done" /\ t.outcome = "executed") => DealtAll(t.plan, t.ok)
Advanced == \A r \in Turns : turn[r] # Ready /\ turn[r].plan # None /\ Plain(turn[r].plan) => Progress(turn[r])

\* An execution that is reported is that of a plan.
Ended == \A r \in Turns : turn[r].stage = "done" /\ turn[r].outcome = "executed" => turn[r].plan # None

IInv ==
  /\ Types /\ AllFit
  /\ Posted /\ Orderly
  /\ Exclusive /\ Clear /\ Remembered /\ NotWrittenTwice
  /\ Asked /\ Traced /\ Single /\ Cached /\ Advanced /\ Ended
-----------------------------------------------------------------------------
(* The types.                                                               *)

\* What the proofs need of the constants.
LEMMA Constants ==
  /\ None \notin Plans /\ Longest \in Nat \ {0}
  /\ \A p \in Plans : p.kind \in {"actions", "writes"} /\ p.id \in PlanIds
BY AgentAssumption DEF PlanIds

\* Positions in a plan.
LEMMA Bounded ==
  ASSUME NEW p \in Plans
  PROVE  /\ 1 <= Len(p.items) + 1 /\ Len(p.items) \in 1 .. Longest
         /\ \A n \in 1 .. Len(p.items) : /\ n \in 1 .. Longest /\ n + 1 \in 1 .. Longest + 1 /\ n \in Nat
                                         /\ n <= Len(p.items) /\ n + 1 <= Len(p.items) + 1 /\ p.items[n] \in Items
<1>1. p.items \in Seq(Items) /\ Len(p.items) \in 1 .. Longest
  BY AgentAssumption
<1>2. \A n \in 1 .. Len(p.items) : p.items[n] \in Items
  BY <1>1
<1> DEFINE l == Len(p.items)
<1>3. l \in 1 .. Longest /\ Longest \in Nat
  BY <1>1, Constants
<1> HIDE DEF l
<1>4. 1 <= l + 1 /\ \A n \in 1 .. l : n \in 1 .. Longest /\ n + 1 \in 1 .. Longest + 1 /\ n \in Nat /\ n <= l /\ n + 1 <= l + 1
  BY <1>3
<1> QED
  BY <1>1, <1>2, <1>4 DEF l

\* The cache key of an item is not that of its plan.
LEMMA PartsAreKeys ==
  ASSUME NEW p \in Plans, NEW n \in 1 .. Len(p.items)
  PROVE  ItemPart(p, n) \in Parts /\ ItemPart(p, n) # <<"plan">>
<1>1. n \in 1 .. Longest /\ p.items[n] \in Items
  BY Bounded
<1>2. \A k : <<"item", k>> # <<"plan">> /\ <<"write", k>> # <<"plan">>
  OBVIOUS
<1> QED
  BY <1>1, <1>2 DEF ItemPart, Parts

\* A turn under way has all of its fields.
LEMMA BusyTurns ==
  ASSUME Types, NEW r \in Turns, Busy(r)
  PROVE  turn[r] \in Busied
BY DEF Types, Busy, Busied, Done, Ready, Stages

\* No turn has begun at first.
LEMMA InitTypes == Init => Types /\ AllFit
<1> SUFFICES ASSUME Init PROVE Types /\ AllFit
  OBVIOUS
<1>1. turn \in [Turns -> {Ready} \cup Busied \cup Done]
  BY DEF Init
<1>2. cache \in [Keys -> Answers]
  BY DEF Init, Answers
<1>3. AllFit
  BY DEF Init, AllFit, Busy, Ready
<1> QED
  BY <1>1, <1>2, <1>3 DEF Init, Types

\* A turn that becomes what it may be leaves the others as they were.
LEMMA OneTurn ==
  ASSUME Types, AllFit, NEW r \in Turns, NEW t \in {Ready} \cup Busied \cup Done,
         turn' = [turn EXCEPT ![r] = t], t.stage \notin {"ready", "done"} => Fits(t)
  PROVE  turn' \in [Turns -> {Ready} \cup Busied \cup Done] /\ AllFit'
<1>1. turn' \in [Turns -> {Ready} \cup Busied \cup Done]
  BY DEF Types
<1>2. ASSUME NEW q \in Turns, Busy(q)'
      PROVE  Fits(turn'[q])
  <2>1. CASE q = r
    BY <1>2, <2>1 DEF Busy, Types
  <2>2. CASE q # r
    BY <1>2, <2>2 DEF Busy, Types, AllFit
  <2> QED
    BY <2>1, <2>2
<1> QED
  BY <1>1, <1>2 DEF AllFit, Busy, Fits

\* What is noted of an id keeps what was noted.
LEMMA Noted ==
  ASSUME Types
  PROVE  /\ \A r \in Turns, id \in PlanIds : Overlaps(r, id) => excused' \subseteq PlanIds /\ excused \subseteq excused'
         /\ \A plan \in Plans : Named(plan) => reused' \subseteq PlanIds /\ reused \subseteq reused'
BY Constants DEF Types, Overlaps, Named

\* The answer of a tool takes the turn where it fits.
LEMMA Returned ==
  ASSUME Types, AllFit, NEW r \in Turns, turn[r] \in Busied, Fits(turn[r]), turn[r].stage \in Calls,
         NEW ok \in BOOLEAN, Returns(r, ok)
  PROVE  turn' \in [Turns -> {Ready} \cup Busied \cup Done] /\ AllFit'
<1> USE DEF Busied, Done, Stages, Calls, Sources
<1> DEFINE asked == [turn[r] EXCEPT !.stage = "llm", !.source = "model", !.plan = None, !.dry = FALSE, !.suffix = "plain", !.ok = TRUE]
           real == [turn[r] EXCEPT !.stage = "look", !.suffix = "plain", !.dry = FALSE]
           unclear == [turn[r] EXCEPT !.stage = "clarify"]
           finished == [turn[r] EXCEPT !.stage = "finish", !.ok = ok]
<1>1. asked \in Busied /\ Fits(asked)
  BY DEF Fits
<1>2. turn[r].source # "tool" => real \in Busied /\ Fits(real)
  BY DEF Fits
<1>3. finished \in Busied /\ Fits(finished) /\ unclear \in Busied /\ Fits(unclear)
  BY DEF Fits
<1>4. \/ turn' = [turn EXCEPT ![r] = asked]
      \/ turn[r].source # "tool" /\ turn' = [turn EXCEPT ![r] = real]
      \/ turn' = [turn EXCEPT ![r] = finished]
      \/ turn' = [turn EXCEPT ![r] = unclear]
  BY DEF Returns, Types
<1> HIDE DEF asked, real, finished, unclear
<1> QED
  BY <1>1, <1>2, <1>3, <1>4, OneTurn

\* A call that passes over an item is one of a batch, and goes on.
LEMMA Refused ==
  ASSUME Types, AllFit, NEW r \in Turns, Refuses(r),
         turn[r].stage = "post" \/ (turn[r].stage = "item" /\ turn[r].n <= Len(turn[r].plan.items))
  PROVE  /\ turn' \in [Turns -> {Ready} \cup Busied \cup Done] /\ AllFit'
         /\ refused' \subseteq Plans \X (1 .. Longest)
         /\ turn[r] \in Busied /\ turn[r].plan \in Plans /\ turn[r].n \in 1 .. Len(turn[r].plan.items)
<1> USE Constants
<1> USE DEF Busied, Done, Stages, Calls, Sources
<1> DEFINE t == [turn[r] EXCEPT !.stage = "item", !.n = @ + 1, !.ok = FALSE]
<1>1. turn[r] \in Busied /\ Fits(turn[r])
  BY BusyTurns DEF Busy, AllFit
<1>2. turn[r].plan \in Plans /\ turn[r].n \in 1 .. Longest + 1 /\ turn[r].n <= Len(turn[r].plan.items)
  BY <1>1 DEF Fits
<1>3. turn[r].n \in 1 .. Len(turn[r].plan.items)
  BY <1>2, Bounded
<1>4. turn[r].n + 1 \in 1 .. Longest + 1 /\ turn[r].n + 1 <= Len(turn[r].plan.items) + 1 /\ turn[r].n \in 1 .. Longest
  BY <1>2, <1>3, Bounded
<1>5. t \in Busied /\ Fits(t)
  BY <1>1, <1>2, <1>3, <1>4 DEF Fits
<1>6. turn' = [turn EXCEPT ![r] = t]
  BY DEF Refuses
<1>7. refused' \subseteq Plans \X (1 .. Longest)
  BY <1>2, <1>4 DEF Refuses, Types
<1> HIDE DEF t
<1>8. AllFit' /\ turn' \in [Turns -> {Ready} \cup Busied \cup Done]
  BY <1>5, <1>6, OneTurn
<1> QED
  BY <1>1, <1>2, <1>3, <1>7, <1>8

\* Every action leaves the types and how turns fit.
LEMMA NextTypes ==
  ASSUME Types, AllFit, Next
  PROVE  Types' /\ AllFit'
<1> USE Constants
<1> USE DEF Busied, Done, Stages, Calls, Sources
<1>1. ASSUME NEW r \in Turns, NEW input \in Inputs, Begin(r, input) PROVE Types' /\ AllFit'
  <2> DEFINE t == [stage |-> IF input # "ask" /\ pending # None THEN "loaded" ELSE "llm",
        input |-> input, copy |-> pending, plan |-> None, suffix |-> "plain", dry |-> FALSE, n |-> 1, source |-> "model",
        ok |-> TRUE]
  <2>1. t \in Busied /\ Fits(t)
    BY DEF Types, Fits
  <2>2. turn' = [turn EXCEPT ![r] = t]
    BY <1>1 DEF Begin
  <2> HIDE DEF t
  <2>3. AllFit' /\ turn' \in [Turns -> {Ready} \cup Busied \cup Done]
    BY <2>1, <2>2, OneTurn
  <2> QED
    BY <1>1, <2>3 DEF Begin, Types
<1>2. ASSUME NEW r \in Turns, Cancel(r) PROVE Types' /\ AllFit'
  <2> DEFINE t == [stage |-> "done", outcome |-> "canceled", plan |-> turn[r].copy, ok |-> turn[r].ok]
  <2>1. turn[r] \in Busied
    BY <1>2, BusyTurns DEF Cancel, Busy
  <2>2. t \in Busied \cup Done /\ (t.stage # "done" => Fits(t))
    BY <1>2, <2>1 DEF Cancel, Types, AllFit, Fits, Busy
  <2>3. turn' = [turn EXCEPT ![r] = t]
    BY <1>2, <2>1 DEF Cancel, Ends, Types
  <2> HIDE DEF t
  <2>4. AllFit' /\ turn' \in [Turns -> {Ready} \cup Busied \cup Done]
    BY <2>2, <2>3, OneTurn
  <2> QED
    BY <1>2, <2>1, <2>4 DEF Cancel, Ends, Types, Busy, AllFit, Fits
<1>3. ASSUME NEW r \in Turns, Confirm(r) PROVE Types' /\ AllFit'
  <2> DEFINE t == [turn[r] EXCEPT !.stage = "look", !.plan = turn[r].copy, !.copy = None, !.source = "session"]
  <2>1. turn[r] \in Busied
    BY <1>3, BusyTurns DEF Confirm, Overlaps, Busy
  <2>2. t \in Busied \cup Done /\ (t.stage # "done" => Fits(t))
    BY <1>3, <2>1 DEF Confirm, Overlaps, Types, AllFit, Fits, Busy
  <2>3. turn' = [turn EXCEPT ![r] = t]
    BY <1>3, <2>1 DEF Confirm, Overlaps, Types
  <2> HIDE DEF t
  <2>4. AllFit' /\ turn' \in [Turns -> {Ready} \cup Busied \cup Done]
    BY <2>2, <2>3, OneTurn
  <2>5. excused' \subseteq PlanIds
    BY <1>3, <2>1, Noted DEF Confirm, AllFit, Fits, Busy, Types
  <2> QED
    BY <1>3, <2>1, <2>4, <2>5 DEF Confirm, Types, Busy, AllFit, Fits
<1>4. ASSUME NEW r \in Turns, Answer(r) PROVE Types' /\ AllFit'
  <2> DEFINE t == [stage |-> "done", outcome |-> "answered", plan |-> None, ok |-> turn[r].ok]
  <2>1. turn[r] \in Busied
    BY <1>4, BusyTurns DEF Answer, Busy
  <2>2. t \in Busied \cup Done /\ (t.stage # "done" => Fits(t))
    BY <1>4, <2>1 DEF Answer, Types, AllFit, Fits, Busy
  <2>3. turn' = [turn EXCEPT ![r] = t]
    BY <1>4, <2>1 DEF Answer, Ends, Types
  <2> HIDE DEF t
  <2>4. AllFit' /\ turn' \in [Turns -> {Ready} \cup Busied \cup Done]
    BY <2>2, <2>3, OneTurn
  <2> QED
    BY <1>4, <2>1, <2>4 DEF Answer, Ends, Types, Busy, AllFit, Fits
<1>5. ASSUME NEW r \in Turns, NoFinal(r) PROVE Types' /\ AllFit'
  <2> DEFINE t == [stage |-> "done", outcome |-> "failed", plan |-> None, ok |-> turn[r].ok]
  <2>1. turn[r] \in Busied
    BY <1>5, BusyTurns DEF NoFinal, Busy
  <2>2. t \in Busied \cup Done /\ (t.stage # "done" => Fits(t))
    BY <1>5, <2>1 DEF NoFinal, Types, AllFit, Fits, Busy
  <2>3. turn' = [turn EXCEPT ![r] = t]
    BY <1>5, <2>1 DEF NoFinal, Ends, Types
  <2> HIDE DEF t
  <2>4. AllFit' /\ turn' \in [Turns -> {Ready} \cup Busied \cup Done]
    BY <2>2, <2>3, OneTurn
  <2> QED
    BY <1>5, <2>1, <2>4 DEF NoFinal, Ends, Types, Busy, AllFit, Fits
<1>6. ASSUME NEW r \in Turns, Proposed(r) PROVE Types' /\ AllFit'
  <2> DEFINE t == [stage |-> "done", outcome |-> "proposed", plan |-> turn[r].plan, ok |-> turn[r].ok]
  <2>1. turn[r] \in Busied
    BY <1>6, BusyTurns DEF Proposed, Busy
  <2>2. t \in Busied \cup Done /\ (t.stage # "done" => Fits(t))
    BY <1>6, <2>1 DEF Proposed, Types, AllFit, Fits, Busy
  <2>3. turn' = [turn EXCEPT ![r] = t]
    BY <1>6, <2>1 DEF Proposed, Ends, Types
  <2> HIDE DEF t
  <2>4. AllFit' /\ turn' \in [Turns -> {Ready} \cup Busied \cup Done]
    BY <2>2, <2>3, OneTurn
  <2> QED
    BY <1>6, <2>1, <2>4 DEF Proposed, Ends, Types, Busy, AllFit, Fits
<1>7. ASSUME NEW r \in Turns, Clarify(r) PROVE Types' /\ AllFit'
  <2> DEFINE t == [stage |-> "done", outcome |-> "clarify", plan |-> turn[r].plan, ok |-> turn[r].ok]
  <2>1. turn[r] \in Busied
    BY <1>7, BusyTurns DEF Clarify, Busy
  <2>2. t \in Busied \cup Done /\ (t.stage # "done" => Fits(t))
    BY <1>7, <2>1 DEF Clarify, Types, AllFit, Fits, Busy
  <2>3. turn' = [turn EXCEPT ![r] = t]
    BY <1>7, <2>1 DEF Clarify, Ends, Types
  <2> HIDE DEF t
  <2>4. AllFit' /\ turn' \in [Turns -> {Ready} \cup Busied \cup Done]
    BY <2>2, <2>3, OneTurn
  <2> QED
    BY <1>7, <2>1, <2>4 DEF Clarify, Ends, Types, Busy, AllFit, Fits
<1>8. ASSUME NEW r \in Turns, Finish(r) PROVE Types' /\ AllFit'
  <2> DEFINE t == [stage |-> "done", outcome |-> "executed", plan |-> turn[r].plan, ok |-> turn[r].ok]
  <2>1. turn[r] \in Busied
    BY <1>8, BusyTurns DEF Finish, Reported, Busy
  <2>2. t \in Busied \cup Done /\ (t.stage # "done" => Fits(t))
    BY <1>8, <2>1 DEF Finish, Reported, Types, AllFit, Fits, Busy
  <2>3. turn' = [turn EXCEPT ![r] = t]
    BY <1>8, <2>1 DEF Finish, Reported, Ends, Types
  <2> HIDE DEF t
  <2>4. AllFit' /\ turn' \in [Turns -> {Ready} \cup Busied \cup Done]
    BY <2>2, <2>3, OneTurn
  <2> QED
    BY <1>8, <2>1, <2>4 DEF Finish, Ends, Reported, Types, Busy, AllFit, Fits
<1>9. ASSUME NEW r \in Turns, FinishConfirmed(r) PROVE Types' /\ AllFit'
  <2> DEFINE t == [stage |-> "done", outcome |-> "executed", plan |-> turn[r].plan, ok |-> turn[r].ok]
  <2>1. turn[r] \in Busied
    BY <1>9, BusyTurns DEF FinishConfirmed, Reported, Busy
  <2>2. t \in Busied \cup Done /\ (t.stage # "done" => Fits(t))
    BY <1>9, <2>1 DEF FinishConfirmed, Reported, Types, AllFit, Fits, Busy
  <2>3. turn' = [turn EXCEPT ![r] = t]
    BY <1>9, <2>1 DEF FinishConfirmed, Reported, Ends, Types
  <2> HIDE DEF t
  <2>4. AllFit' /\ turn' \in [Turns -> {Ready} \cup Busied \cup Done]
    BY <2>2, <2>3, OneTurn
  <2> QED
    BY <1>9, <2>1, <2>4 DEF FinishConfirmed, Ends, Reported, Types, Busy, AllFit, Fits
<1>10. ASSUME NEW r \in Turns, WriteFails(r) PROVE Types' /\ AllFit'
  <2> DEFINE t == [stage |-> "done", outcome |-> "failed", plan |-> turn[r].plan, ok |-> turn[r].ok]
  <2>1. turn[r] \in Busied
    BY <1>10, BusyTurns DEF WriteFails, Busy
  <2>2. t \in Busied \cup Done /\ (t.stage # "done" => Fits(t))
    BY <1>10, <2>1 DEF WriteFails, Types, AllFit, Fits, Busy
  <2>3. turn' = [turn EXCEPT ![r] = t]
    BY <1>10, <2>1 DEF WriteFails, Ends, Types
  <2> HIDE DEF t
  <2>4. AllFit' /\ turn' \in [Turns -> {Ready} \cup Busied \cup Done]
    BY <2>2, <2>3, OneTurn
  <2> QED
    BY <1>10, <2>1, <2>4 DEF WriteFails, Ends, Types, Busy, AllFit, Fits
<1>11. ASSUME NEW r \in Turns, TurnFails(r) PROVE Types' /\ AllFit'
  <2> DEFINE t == [stage |-> "done", outcome |-> "failed", plan |-> turn[r].plan, ok |-> turn[r].ok]
  <2>1. turn[r] \in Busied
    BY <1>11, BusyTurns DEF TurnFails, Busy
  <2>2. t \in Busied \cup Done /\ (t.stage # "done" => Fits(t))
    BY <1>11, <2>1 DEF TurnFails, Types, AllFit, Fits, Busy
  <2>3. turn' = [turn EXCEPT ![r] = t]
    BY <1>11, <2>1 DEF TurnFails, Ends, Types
  <2> HIDE DEF t
  <2>4. AllFit' /\ turn' \in [Turns -> {Ready} \cup Busied \cup Done]
    BY <2>2, <2>3, OneTurn
  <2> QED
    BY <1>11, <2>1, <2>4 DEF TurnFails, Ends, Types, Busy, AllFit, Fits
<1>12. ASSUME NEW r \in Turns, NEW p \in Plans, Propose(r, p) PROVE Types' /\ AllFit'
  <2> DEFINE t == [turn[r] EXCEPT !.stage = "propose", !.copy = p, !.plan = p]
  <2>1. turn[r] \in Busied
    BY <1>12, BusyTurns DEF Propose, Named, Busy
  <2>2. t \in Busied \cup Done /\ (t.stage # "done" => Fits(t))
    BY <1>12, <2>1 DEF Propose, Named, Types, AllFit, Fits, Busy
  <2>3. turn' = [turn EXCEPT ![r] = t]
    BY <1>12, <2>1 DEF Propose, Named, Types
  <2> HIDE DEF t
  <2>4. AllFit' /\ turn' \in [Turns -> {Ready} \cup Busied \cup Done]
    BY <2>2, <2>3, OneTurn
  <2>5. reused' \subseteq PlanIds
    BY <1>12, Noted DEF Propose, Types
  <2> QED
    BY <1>12, <2>1, <2>4, <2>5 DEF Propose, Types, Busy, AllFit, Fits
<1>13. ASSUME NEW r \in Turns, NEW p \in Plans, Execute(r, p) PROVE Types' /\ AllFit'
  <2> DEFINE t == [turn[r] EXCEPT !.stage = "look", !.plan = p, !.suffix = "dryrun", !.dry = TRUE]
  <2>1. turn[r] \in Busied
    BY <1>13, BusyTurns DEF Execute, Named, Overlaps, Busy
  <2>2. t \in Busied \cup Done /\ (t.stage # "done" => Fits(t))
    BY <1>13, <2>1 DEF Execute, Named, Overlaps, Types, AllFit, Fits, Busy
  <2>3. turn' = [turn EXCEPT ![r] = t]
    BY <1>13, <2>1 DEF Execute, Named, Overlaps, Types
  <2> HIDE DEF t
  <2>4. AllFit' /\ turn' \in [Turns -> {Ready} \cup Busied \cup Done]
    BY <2>2, <2>3, OneTurn
  <2>5. reused' \subseteq PlanIds /\ excused' \subseteq PlanIds
    BY <1>13, Noted DEF Execute, Types
  <2> QED
    BY <1>13, <2>1, <2>4, <2>5 DEF Execute, Types, Busy, AllFit, Fits
<1>14. ASSUME NEW r \in Turns, NEW p \in Plans, NEW asked \in BOOLEAN, ToolCall(r, p, asked) PROVE Types' /\ AllFit'
  <2> DEFINE t == [turn[r] EXCEPT !.stage = "look", !.plan = p, !.dry = TRUE, !.n = 1, !.source = "tool",
                               !.suffix = IF p.kind = "writes" THEN "dryrun" ELSE "plain"]
  <2>1. turn[r] \in Busied
    BY <1>14, BusyTurns DEF ToolCall, Overlaps, DryRunEnforced, Busy
  <2>2. t \in Busied \cup Done /\ (t.stage # "done" => Fits(t))
    BY <1>14, <2>1 DEF ToolCall, Overlaps, DryRunEnforced, Types, AllFit, Fits, Busy
  <2>3. turn' = [turn EXCEPT ![r] = t]
    BY <1>14, <2>1 DEF ToolCall, Overlaps, DryRunEnforced, Types
  <2> HIDE DEF t
  <2>4. AllFit' /\ turn' \in [Turns -> {Ready} \cup Busied \cup Done]
    BY <2>2, <2>3, OneTurn
  <2>5. reused' \subseteq PlanIds /\ excused' \subseteq PlanIds
    BY <1>14, Noted DEF ToolCall, Types
  <2> QED
    BY <1>14, <2>1, <2>4, <2>5 DEF ToolCall, Types, Busy, AllFit, Fits
<1>15. ASSUME NEW r \in Turns, ItemPosts(r) PROVE Types' /\ AllFit'
  <2> DEFINE t == [turn[r] EXCEPT !.stage = "posted"]
  <2>1. turn[r] \in Busied
    BY <1>15, BusyTurns DEF ItemPosts, Busy
  <2>2. t \in Busied \cup Done /\ (t.stage # "done" => Fits(t))
    BY <1>15, <2>1 DEF ItemPosts, Types, AllFit, Fits, Busy
  <2>3. turn' = [turn EXCEPT ![r] = t]
    BY <1>15, <2>1 DEF ItemPosts, Types
  <2> HIDE DEF t
  <2>4. AllFit' /\ turn' \in [Turns -> {Ready} \cup Busied \cup Done]
    BY <2>2, <2>3, OneTurn
  <2>5. turn[r].plan \in Plans /\ turn[r].n \in 1 .. Longest + 1 /\ turn[r].n <= Len(turn[r].plan.items)
    BY <1>15, <2>1 DEF ItemPosts, Fits, AllFit, Busy
  <2>6. turn[r].plan \in Plans /\ turn[r].n \in 1 .. Longest
    BY <2>5, Bounded
  <2>7. posts' \subseteq Turns \X Plans \X (1 .. Longest) \X Sources
    BY <1>15, <2>1, <2>6, Bounded DEF ItemPosts, Taken, Types
  <2> QED
    BY <1>15, <2>1, <2>4, <2>7 DEF ItemPosts, Types, Busy, AllFit, Fits
<1>16. ASSUME NEW r \in Turns, ItemAnswered(r) PROVE Types' /\ AllFit'
  <2> DEFINE t == [turn[r] EXCEPT !.stage = "item", !.n = @ + 1]
  <2>1. turn[r] \in Busied /\ Fits(turn[r])
    BY <1>16, BusyTurns DEF ItemAnswered, Busy, AllFit
  <2>2. turn[r].plan \in Plans /\ turn[r].n \in 1 .. Longest + 1 /\ turn[r].n <= Len(turn[r].plan.items)
    BY <1>16, <2>1 DEF ItemAnswered, Fits
  <2>3. turn[r].plan \in Plans /\ turn[r].n \in 1 .. Len(turn[r].plan.items)
    BY <2>2, Bounded
  <2>4. turn[r].n + 1 \in 1 .. Longest + 1 /\ turn[r].n + 1 <= Len(turn[r].plan.items) + 1
    BY <2>3, Bounded
  <2>5. t \in Busied /\ Fits(t)
    BY <1>16, <2>1, <2>3, <2>4 DEF ItemAnswered, Fits
  <2>6. turn' = [turn EXCEPT ![r] = t]
    BY <1>16 DEF ItemAnswered
  <2> HIDE DEF t
  <2>7. AllFit' /\ turn' \in [Turns -> {Ready} \cup Busied \cup Done]
    BY <2>5, <2>6, OneTurn
  <2>8. cache' \in [Keys -> Answers]
    BY <1>16 DEF ItemAnswered, Types, Answers
  <2> QED
    BY <1>16, <2>7, <2>8 DEF ItemAnswered, Types
<1>17. ASSUME NEW r \in Turns, BatchLooks(r) PROVE Types' /\ AllFit'
  <2>1. turn[r] \in Busied /\ Fits(turn[r])
    BY <1>17, BusyTurns DEF BatchLooks, Busy, AllFit
  <2>2. CASE Returns(r, cache[KeyFor(r, <<"plan">>)] # "refused")
    BY <1>17, <2>1, <2>2, Returned DEF BatchLooks, Types
  <2>3. CASE turn' = [turn EXCEPT ![r].stage = "item", ![r].n = 1]
    <3> DEFINE t == [turn[r] EXCEPT !.stage = "item", !.n = 1]
    <3>1. turn[r].plan \in Plans /\ 1 <= Len(turn[r].plan.items) + 1
      BY <1>17, <2>1, Bounded DEF BatchLooks, Fits
    <3>2. t \in Busied
      <4>1. \A b \in Busied, n \in 1 .. Longest + 1 : [b EXCEPT !.stage = "item", !.n = n] \in Busied
        OBVIOUS
      <4>2. 1 \in 1 .. Longest + 1
        OBVIOUS
      <4> HIDE DEF Busied
      <4> QED
        BY <2>1, <4>1, <4>2
    <3>3. Fits(t)
      BY <1>17, <2>1, <3>1 DEF BatchLooks, Fits
    <3>4. turn' = [turn EXCEPT ![r] = t]
      BY <2>3
    <3> HIDE DEF t
    <3>5. AllFit' /\ turn' \in [Turns -> {Ready} \cup Busied \cup Done]
      BY <3>2, <3>3, <3>4, OneTurn
    <3> QED
      BY <1>17, <3>5 DEF BatchLooks, Types
  <2> QED
    BY <1>17, <2>2, <2>3 DEF BatchLooks
<1>18. ASSUME NEW r \in Turns, ItemLooks(r) PROVE Types' /\ AllFit'
  <2> DEFINE next == [turn[r] EXCEPT !.n = @ + 1, !.ok = @ /\ cache[KeyFor(r, ItemPart(turn[r].plan, turn[r].n))] # "refused"]
             post == [turn[r] EXCEPT !.stage = "post"]
             key == KeyFor(r, ItemPart(turn[r].plan, turn[r].n))
  <2>1. turn[r] \in Busied /\ Fits(turn[r])
    BY <1>18, BusyTurns DEF ItemLooks, Busy, AllFit
  <2>2. turn[r].plan \in Plans /\ turn[r].n \in 1 .. Longest + 1 /\ turn[r].n <= Len(turn[r].plan.items)
    BY <1>18, <2>1 DEF ItemLooks, Fits
  <2>3. turn[r].plan \in Plans /\ turn[r].n \in 1 .. Len(turn[r].plan.items)
    BY <2>2, Bounded
  <2>4. turn[r].n + 1 \in 1 .. Longest + 1 /\ turn[r].n + 1 <= Len(turn[r].plan.items) + 1
    BY <2>3, Bounded
  <2>5. next \in Busied /\ Fits(next)
    BY <1>18, <2>1, <2>3, <2>4 DEF ItemLooks, Fits
  <2>6. ~turn[r].dry => post \in Busied /\ Fits(post)
    BY <1>18, <2>1, <2>3 DEF ItemLooks, Fits
  <2> HIDE DEF key
  <2>7. \/ turn' = [turn EXCEPT ![r] = next] /\ cache' = [cache EXCEPT ![key] = IF @ = "none" THEN "dry" ELSE @]
        \/ ~turn[r].dry /\ turn' = [turn EXCEPT ![r] = post] /\ cache' = cache
    BY <1>18 DEF ItemLooks, key
  <2> HIDE DEF next, post
  <2>8. AllFit' /\ turn' \in [Turns -> {Ready} \cup Busied \cup Done]
    BY <2>5, <2>6, <2>7, OneTurn
  <2>9. cache' \in [Keys -> Answers]
    BY <2>7 DEF Types, Answers
  <2> QED
    BY <1>18, <2>8, <2>9 DEF ItemLooks, Types
<1>19. ASSUME NEW r \in Turns, BatchAnswered(r) PROVE Types' /\ AllFit'
  <2>1. turn[r] \in Busied /\ Fits(turn[r])
    BY <1>19, BusyTurns DEF BatchAnswered, Busy, AllFit
  <2>2. AllFit' /\ turn' \in [Turns -> {Ready} \cup Busied \cup Done]
    BY <1>19, <2>1, Returned DEF BatchAnswered
  <2>3. cache' \in [Keys -> Answers]
    BY <1>19 DEF BatchAnswered, Types, Answers
  <2> QED
    BY <1>19, <2>2, <2>3 DEF BatchAnswered, Types
<1>20. CASE CacheExpires
  <2>1. cache' \in [Keys -> Answers] /\ excused' \subseteq PlanIds
    BY <1>20 DEF CacheExpires, Types, Keys, Answers
  <2> QED
    BY <1>20, <2>1 DEF CacheExpires, Types, AllFit, Busy
<1>21. CASE SessionExpires
  BY <1>21 DEF SessionExpires, Types, AllFit, Busy
<1>22. ASSUME NEW r \in Turns, ItemInvalid(r) \/ ItemUnsupported(r) PROVE Types' /\ AllFit'
  <2>1. turn'\in [Turns -> {Ready} \cup Busied \cup Done] /\ AllFit' /\ refused' \subseteq Plans \X (1 .. Longest)
    BY <1>22, Refused DEF ItemInvalid, ItemUnsupported
  <2>2. cache' \in [Keys -> Answers]
    BY <1>22 DEF ItemInvalid, ItemUnsupported, Types, Answers
  <2>3. /\ pending' = pending /\ posts' = posts /\ offered' = offered
        /\ crossed' = crossed /\ reused' = reused /\ excused' = excused
    BY <1>22 DEF ItemInvalid, ItemUnsupported, Refuses
  <2> HIDE DEF Busied, Done, Sources
  <2> QED
    BY <2>1, <2>2, <2>3 DEF Types
<1> QED
  BY <1>1, <1>2, <1>3, <1>4, <1>5, <1>6, <1>7, <1>8, <1>9, <1>10, <1>11, <1>12, <1>13, <1>14, <1>15, <1>16,
     <1>17, <1>18, <1>19, <1>20, <1>21, <1>22 DEF Next, TurnStep

\* So does a step that changes nothing.
LEMMA NextTypesStutter ==
  ASSUME Types, AllFit, [Next]_vars
  PROVE  Types' /\ AllFit'
<1>1. CASE UNCHANGED vars
  BY <1>1 DEF vars, Types, AllFit, Busy
<1> QED
  BY <1>1, NextTypes

-----------------------------------------------------------------------------
(* Confirmation.                                                            *)

\* A step of one turn leaves the others alone.
Moves(r) == TurnStep(r) \/ TurnFails(r) \/ \E input \in Inputs : Begin(r, input)

LEMMA Others ==
  ASSUME NEW r \in Turns, Types, AllFit, Moves(r)
  PROVE  \A q \in Turns \ {r} : turn'[q] = turn[q]
<1> USE DEF Types
<1>1. CASE Cancel(r) \/ Answer(r) \/ NoFinal(r) \/ Proposed(r) \/ Clarify(r)
  BY <1>1 DEF Cancel, Answer, NoFinal, Proposed, Clarify, Ends
<1>2. CASE Finish(r) \/ FinishConfirmed(r) \/ WriteFails(r) \/ TurnFails(r)
  BY <1>2 DEF Finish, FinishConfirmed, Reported, WriteFails, TurnFails, Ends
<1>3. CASE Confirm(r) \/ ItemPosts(r) \/ ItemAnswered(r)
  BY <1>3 DEF Confirm, ItemPosts, ItemAnswered
<1>4. CASE BatchLooks(r) \/ BatchAnswered(r)
  BY <1>4 DEF BatchLooks, BatchAnswered, Returns
<1>5. CASE ItemLooks(r) \/ ItemInvalid(r) \/ ItemUnsupported(r)
  BY <1>5 DEF ItemLooks, ItemInvalid, ItemUnsupported, Refuses
<1>6. CASE \E p \in Plans : Propose(r, p) \/ Execute(r, p) \/ \E asked \in BOOLEAN : ToolCall(r, p, asked)
  <2>1. ASSUME NEW p \in Plans, Propose(r, p) PROVE \A q \in Turns \ {r} : turn'[q] = turn[q]
    BY <2>1 DEF Propose
  <2>2. ASSUME NEW p \in Plans, Execute(r, p) PROVE \A q \in Turns \ {r} : turn'[q] = turn[q]
    BY <2>2 DEF Execute
  <2>3. ASSUME NEW p \in Plans, NEW asked \in BOOLEAN, ToolCall(r, p, asked)
        PROVE  \A q \in Turns \ {r} : turn'[q] = turn[q]
    BY <2>3 DEF ToolCall
  <2> QED
    BY <1>6, <2>1, <2>2, <2>3
<1>7. CASE \E input \in Inputs : Begin(r, input)
  BY <1>7 DEF Begin
<1> QED
  BY <1>1, <1>2, <1>3, <1>4, <1>5, <1>6, <1>7 DEF Moves, TurnStep

\* Only a write reaches the gateway.
LEMMA OnlyPosts ==
  ASSUME NEW r \in Turns, Moves(r)
  PROVE  ItemPosts(r) \/ posts' = posts
BY DEF Moves, TurnStep, TurnFails, Begin, Cancel, Confirm, Answer, NoFinal, Proposed, Clarify, Finish, FinishConfirmed,
       Reported, WriteFails, Propose, Execute, ToolCall, BatchLooks, ItemLooks, ItemInvalid, ItemUnsupported, Refuses, ItemAnswered, BatchAnswered

\* Who is about to write writes an item of a plan, not of a dry run.
LEMMA AtPost ==
  ASSUME Types, AllFit, NEW r \in Turns, turn[r].stage \in {"post", "posted"}
  PROVE  /\ turn[r] \in Busied /\ turn[r].plan \in Plans /\ turn[r].n \in 1 .. Len(turn[r].plan.items)
         /\ turn[r].suffix = "plain" /\ turn[r].source # "tool" /\ (turn[r].source = "model" => Executes(turn[r].plan))
<1> USE Constants DEF Busied, Calls
<1>1. turn[r] \in Busied /\ Fits(turn[r])
  BY BusyTurns DEF Busy, AllFit
<1>2. turn[r].plan \in Plans /\ turn[r].n \in 1 .. Longest + 1 /\ turn[r].n <= Len(turn[r].plan.items)
  BY <1>1 DEF Fits
<1>3. turn[r].n \in 1 .. Len(turn[r].plan.items)
  BY <1>2, Bounded
<1> QED
  BY <1>1, <1>2, <1>3 DEF Fits

\* What is written is an item for which the turn was entitled.
LEMMA NextPosted ==
  ASSUME Types, AllFit, Posted, [Next]_vars
  PROVE  Posted'
<1>1. ASSUME NEW r \in Turns, ItemPosts(r) PROVE Posted'
  <2> DEFINE p == <<r, turn[r].plan, turn[r].n, turn[r].source>>
  <2>1. posts' = posts \cup {p}
    BY <1>1 DEF ItemPosts, Taken
  <2>2. /\ turn[r].n <= Len(turn[r].plan.items) /\ turn[r].source # "tool"
        /\ turn[r].source = "model" => Executes(turn[r].plan)
    BY <1>1, AtPost, Bounded DEF ItemPosts
  <2> QED
    BY <2>1, <2>2 DEF Posted, Executes, ItemsOf
<1>2. CASE posts' = posts
  BY <1>2 DEF Posted, Executes, ItemsOf
<1>3. CacheExpires \/ SessionExpires \/ UNCHANGED vars => posts' = posts
  BY DEF CacheExpires, SessionExpires, vars
<1> QED
  BY <1>1, <1>2, <1>3, OnlyPosts DEF Next, Moves

-----------------------------------------------------------------------------
(* The plan that was offered.                                               *)

\* A turn that goes on, and does not come to a proposal, keeps the order.
LEMMA GoesOn ==
  ASSUME Orderly, NEW r \in Turns, \A q \in Turns \ {r} : turn'[q] = turn[q],
         Busy(r), turn'[r].stage \notin {"ready", "done", "propose"}, turn[r].stage # "propose",
         turn'[r].copy = turn[r].copy, crossed' = crossed, offered' = offered
  PROVE  Orderly'
BY DEF Orderly, Busy

\* A turn that ends and leaves its copy, or nothing, keeps it too.
LEMMA EndsWell ==
  ASSUME Orderly, NEW r \in Turns, \A q \in Turns \ {r} : turn'[q] = turn[q],
         Busy(r), turn'[r].stage = "done", turn[r].stage # "propose",
         pending' = turn[r].copy, crossed' = crossed, offered' = offered
  PROVE  Orderly'
BY DEF Orderly, Busy

\* Turns that neither overlap nor fail leave the plan that was offered, or none.
LEMMA NextOrderly ==
  ASSUME Types, AllFit, Orderly, [Next]_vars
  PROVE  Orderly'
<1>1. ASSUME NEW r \in Turns, NEW input \in Inputs, Begin(r, input) PROVE Orderly'
  BY <1>1, Others DEF Begin, Moves, Orderly, Busy, Types
<1>2. ASSUME NEW r \in Turns, Cancel(r) PROVE Orderly'
  BY <1>2, Others DEF Cancel, Ends, Moves, TurnStep, Orderly, Busy, Types
<1>3. ASSUME NEW r \in Turns, Confirm(r) PROVE Orderly'
  <2>1. turn[r] \in Busied
    BY <1>3, BusyTurns DEF Confirm, Busy
  <2>2. turn'[r].stage = "look" /\ turn'[r].copy = None
    BY <1>3, <2>1 DEF Confirm, Types, Busied
  <2> QED
    BY <1>3, <2>2, Others DEF Confirm, Moves, TurnStep, Orderly, Busy, Types
<1>4. ASSUME NEW r \in Turns, Answer(r) \/ NoFinal(r) \/ Clarify(r) \/ Finish(r) \/ FinishConfirmed(r) \/ WriteFails(r) PROVE Orderly'
  <2>1. /\ turn'[r].stage = "done" /\ pending' = turn[r].copy /\ crossed' = crossed /\ offered' = offered
        /\ turn[r].stage \notin {"ready", "done", "propose"}
    BY <1>4 DEF Answer, NoFinal, Clarify, Finish, FinishConfirmed, Reported, WriteFails, Ends, Types
  <2> QED
    BY <1>4, <2>1, EndsWell, Others DEF Moves, TurnStep, Busy
<1>5. ASSUME NEW r \in Turns, Proposed(r) PROVE Orderly'
  BY <1>5, Others DEF Proposed, Ends, Moves, TurnStep, Orderly, Busy, Types
<1>6. ASSUME NEW r \in Turns, TurnFails(r) PROVE Orderly'
  BY <1>6 DEF TurnFails, Orderly
<1>7. ASSUME NEW r \in Turns, NEW p \in Plans, Propose(r, p) PROVE Orderly'
  <2>1. turn[r] \in Busied
    BY <1>7, BusyTurns DEF Propose, Busy
  <2>2. turn'[r].stage = "propose" /\ turn'[r].copy = p /\ turn'[r].plan = p
    BY <1>7, <2>1 DEF Propose, Types, Busied
  <2> QED
    BY <1>7, <2>2, Others DEF Propose, Moves, TurnStep, Orderly, Busy, Types
<1>8. ASSUME NEW r \in Turns,
             \/ \E p \in Plans : Execute(r, p) \/ \E asked \in BOOLEAN : ToolCall(r, p, asked)
             \/ BatchLooks(r) \/ ItemLooks(r) \/ ItemInvalid(r) \/ ItemUnsupported(r) \/ ItemPosts(r) \/ ItemAnswered(r) \/ BatchAnswered(r)
      PROVE  Orderly'
  <2>1. turn[r].stage \notin {"ready", "done", "propose"} /\ crossed' = crossed /\ offered' = offered
    BY <1>8 DEF Execute, ToolCall, BatchLooks, ItemLooks, ItemInvalid, ItemUnsupported, Refuses, ItemPosts, ItemAnswered, BatchAnswered
  <2>2. turn[r] \in Busied
    BY <2>1, BusyTurns DEF Busy
  <2>3. turn'[r].copy = turn[r].copy /\ turn'[r].stage \notin {"ready", "done", "propose"}
    <3> USE <2>2 DEF Types, Busied
    <3>1. \A ok : Returns(r, ok) => turn'[r].copy = turn[r].copy /\ turn'[r].stage \in {"llm", "look", "clarify", "finish"}
      BY DEF Returns
    <3>2. CASE BatchLooks(r) \/ BatchAnswered(r)
      BY <3>1, <3>2 DEF BatchLooks, BatchAnswered
    <3>3. CASE ItemLooks(r) \/ ItemInvalid(r) \/ ItemUnsupported(r)
      BY <3>3 DEF ItemLooks, ItemInvalid, ItemUnsupported, Refuses
    <3>4. CASE ItemPosts(r) \/ ItemAnswered(r)
      BY <3>4 DEF ItemPosts, ItemAnswered
    <3>5. ASSUME NEW p \in Plans, Execute(r, p)
          PROVE  turn'[r].copy = turn[r].copy /\ turn'[r].stage \notin {"ready", "done", "propose"}
      BY <3>5 DEF Execute
    <3>6. ASSUME NEW p \in Plans, NEW asked \in BOOLEAN, ToolCall(r, p, asked)
          PROVE  turn'[r].copy = turn[r].copy /\ turn'[r].stage \notin {"ready", "done", "propose"}
      BY <3>6 DEF ToolCall
    <3> QED
      BY <1>8, <3>2, <3>3, <3>4, <3>5, <3>6
  <2> QED
    BY <1>8, <2>1, <2>3, GoesOn, Others DEF Moves, TurnStep, Busy
<1>9. CASE CacheExpires
  BY <1>9 DEF CacheExpires, Orderly, Busy
<1>10. CASE SessionExpires
  BY <1>10 DEF SessionExpires, Orderly, Busy
<1>11. CASE UNCHANGED vars
  BY <1>11 DEF vars, Orderly, Busy
<1> QED
  BY <1>1, <1>2, <1>3, <1>4, <1>5, <1>6, <1>7, <1>8, <1>9, <1>10, <1>11 DEF Next, TurnStep

-----------------------------------------------------------------------------
(* Writing once.                                                            *)

\* What was excused stays excused.
LEMMA ExcusedGrows ==
  ASSUME [Next]_vars
  PROVE  excused \subseteq excused'
<1>1. ASSUME NEW r \in Turns, Moves(r) PROVE excused \subseteq excused'
  <2>1. \A id : Overlaps(r, id) => excused \subseteq excused'
    BY DEF Overlaps
  <2>2. CASE TurnFails(r) \/ WriteFails(r)
    BY <2>2 DEF TurnFails, WriteFails
  <2>3. CASE Confirm(r) \/ \E p \in Plans : Execute(r, p) \/ \E asked \in BOOLEAN : ToolCall(r, p, asked)
    BY <2>1, <2>3 DEF Confirm, Execute, ToolCall
  <2>4. CASE \/ Cancel(r) \/ Answer(r) \/ NoFinal(r) \/ Proposed(r) \/ Clarify(r) \/ Finish(r) \/ FinishConfirmed(r)
             \/ BatchLooks(r) \/ ItemLooks(r) \/ ItemInvalid(r) \/ ItemUnsupported(r) \/ ItemPosts(r) \/ ItemAnswered(r) \/ BatchAnswered(r)
             \/ (\E p \in Plans : Propose(r, p)) \/ \E input \in Inputs : Begin(r, input)
    BY <2>4 DEF Cancel, Answer, NoFinal, Proposed, Clarify, Finish, FinishConfirmed, Reported,
         BatchLooks, ItemLooks, ItemInvalid, ItemUnsupported, Refuses, ItemPosts, ItemAnswered, BatchAnswered, Propose, Begin
  <2> QED
    BY <1>1, <2>2, <2>3, <2>4 DEF Moves, TurnStep
<1>2. CacheExpires \/ SessionExpires \/ UNCHANGED vars => excused \subseteq excused'
  BY DEF CacheExpires, SessionExpires, vars
<1> QED
  BY <1>1, <1>2 DEF Next, Moves

\* The tools: the steps of a call that is under way.
Tools(r) == BatchLooks(r) \/ ItemLooks(r) \/ ItemInvalid(r) \/ ItemUnsupported(r) \/ ItemPosts(r) \/ ItemAnswered(r) \/ BatchAnswered(r)

\* A step of a tool belongs to a call of a plan.
LEMMA ToolsCall ==
  ASSUME Types, AllFit, NEW r \in Turns, Tools(r)
  PROVE  /\ turn[r] \in Busied /\ turn[r].plan \in Plans /\ Busy(r)
         /\ Calling(r, turn[r].plan.id)
<1>1. turn[r].stage \in Calls
  BY DEF Tools, BatchLooks, ItemLooks, ItemInvalid, ItemUnsupported, ItemPosts, ItemAnswered, BatchAnswered, Calls
<1>2. Busy(r)
  BY <1>1 DEF Busy, Calls
<1>3. turn[r] \in Busied /\ Fits(turn[r])
  BY <1>2, BusyTurns DEF AllFit
<1> QED
  BY <1>1, <1>2, <1>3 DEF Calling, Calls, Fits, Busied

\* A call that goes on is one of the same plan.
LEMMA GoesOnCalling ==
  ASSUME Types, AllFit, NEW r \in Turns, Tools(r), turn'[r].stage \in Calls
  PROVE  turn'[r].plan = turn[r].plan /\ turn'[r].source = turn[r].source
<1>1. turn[r] \in Busied
  BY ToolsCall
<1> USE <1>1 DEF Types, Busied, Calls
<1>2. \A ok : Returns(r, ok) /\ turn'[r].stage \in Calls => turn'[r].plan = turn[r].plan /\ turn'[r].source = turn[r].source
  BY DEF Returns
<1>3. CASE BatchLooks(r) \/ BatchAnswered(r)
  BY <1>2, <1>3 DEF BatchLooks, BatchAnswered
<1>4. CASE ItemLooks(r) \/ ItemInvalid(r) \/ ItemUnsupported(r)
  BY <1>4 DEF ItemLooks, ItemInvalid, ItemUnsupported, Refuses
<1>5. CASE ItemPosts(r)
  BY <1>5 DEF ItemPosts
<1>6. CASE ItemAnswered(r)
  BY <1>6 DEF ItemAnswered
<1> QED
  BY <1>3, <1>4, <1>5, <1>6 DEF Tools

\* A call begins with a confirmation, a plan to execute or a tool the model asks for.
LEMMA CallsBegin ==
  ASSUME Types, AllFit, NEW r \in Turns, Moves(r), turn'[r].stage \in Calls
  PROVE  Tools(r) \/ Confirm(r) \/ \E p \in Plans : Execute(r, p) \/ \E asked \in BOOLEAN : ToolCall(r, p, asked)
<1> USE DEF Calls
<1>1. ASSUME NEW p \in Plans, Propose(r, p) PROVE turn'[r].stage = "propose"
  <2>1. turn[r] \in Busied
    BY <1>1, BusyTurns DEF Propose, Busy
  <2> QED
    BY <1>1, <2>1 DEF Propose, Types, Busied
<1>2. ASSUME NEW input \in Inputs, Begin(r, input) PROVE turn'[r].stage \in {"loaded", "llm"}
  BY <1>2 DEF Begin, Types
<1>3. (Cancel(r) \/ Answer(r) \/ NoFinal(r) \/ Proposed(r) \/ Clarify(r) \/ Finish(r) \/ FinishConfirmed(r) \/ WriteFails(r) \/ TurnFails(r)) => turn'[r].stage = "done"
  BY DEF Cancel, Answer, NoFinal, Proposed, Clarify, Finish, FinishConfirmed, Reported, Ends, WriteFails, TurnFails, Types
<1> QED
  BY <1>1, <1>2, <1>3 DEF Moves, TurnStep, Tools

\* Only a call that starts, and notes what it overlaps, becomes one.
LEMMA StartsCalling ==
  ASSUME Types, AllFit, NEW r \in Turns, Moves(r), turn'[r].stage \in Calls
  PROVE  Tools(r) \/ (turn'[r].plan \in Plans /\ Overlaps(r, turn'[r].plan.id))
<1> USE DEF Calls
<1>1. ASSUME Confirm(r) PROVE turn'[r].plan \in Plans /\ Overlaps(r, turn'[r].plan.id)
  <2>1. turn[r] \in Busied /\ Fits(turn[r])
    BY <1>1, BusyTurns DEF Confirm, Busy, AllFit
  <2> QED
    BY <1>1, <2>1 DEF Confirm, Types, Busied, Fits
<1>2. ASSUME NEW p \in Plans, Execute(r, p) PROVE turn'[r].plan \in Plans /\ Overlaps(r, turn'[r].plan.id)
  <2>1. turn[r] \in Busied
    BY <1>2, BusyTurns DEF Execute, Busy
  <2> QED
    BY <1>2, <2>1 DEF Execute, Types, Busied
<1>3. ASSUME NEW p \in Plans, NEW asked \in BOOLEAN, ToolCall(r, p, asked) PROVE turn'[r].plan \in Plans /\ Overlaps(r, turn'[r].plan.id)
  <2>1. turn[r] \in Busied
    BY <1>3, BusyTurns DEF ToolCall, Busy
  <2> QED
    BY <1>3, <2>1 DEF ToolCall, Types, Busied
<1> QED
  BY <1>1, <1>2, <1>3, CallsBegin

\* Calls of one id that are under way together are excused.
LEMMA NextExclusive ==
  ASSUME Types, AllFit, Exclusive, [Next]_vars
  PROVE  Exclusive'
<1>1. ASSUME NEW r \in Turns, Moves(r) PROVE Exclusive'
  <2>1. \A q \in Turns \ {r} : turn'[q] = turn[q]
    BY <1>1, Others
  <2>2. excused \subseteq excused'
    BY ExcusedGrows
  <2>3. ASSUME NEW q \in Turns, q # r, NEW id \in PlanIds, Calling(r, id)', Calling(q, id)
        PROVE  id \in excused'
    <3>1. turn'[r].stage \in Calls /\ turn'[r].plan.id = id
      BY <2>3 DEF Calling, Calls
    <3>2. CASE Tools(r)
      BY <3>1, <3>2, <2>2, <2>3, ToolsCall, GoesOnCalling DEF Exclusive
    <3>3. CASE Overlaps(r, turn'[r].plan.id)
      BY <3>1, <3>3, <2>3 DEF Overlaps
    <3> QED
      BY <1>1, <3>1, <3>2, <3>3, StartsCalling
  <2>4. \A q \in Turns \ {r}, id \in PlanIds : Calling(q, id)' <=> Calling(q, id)
    BY <2>1 DEF Calling, Busy
  <2> QED
    BY <2>2, <2>3, <2>4 DEF Exclusive
<1>2. CASE turn' = turn
  BY <1>2, ExcusedGrows DEF Exclusive, Calling, Busy
<1>3. CacheExpires \/ SessionExpires \/ UNCHANGED vars => turn' = turn
  BY DEF CacheExpires, SessionExpires, vars
<1> QED
  BY <1>1, <1>2, <1>3 DEF Next, Moves

\* The tools change the cache only under the id of their plan.
LEMMA CacheSteps ==
  ASSUME Types, AllFit, NEW r \in Turns, Moves(r), cache' # cache
  PROVE  /\ Tools(r)
         /\ \A key \in Keys : key[1] # turn[r].plan.id => cache'[key] = cache[key]
<1>1. ItemLooks(r) \/ ItemUnsupported(r) \/ ItemAnswered(r) \/ BatchAnswered(r)
  BY DEF Moves, TurnStep, TurnFails, Begin, Cancel, Confirm, Answer, NoFinal, Proposed, Clarify, Finish, FinishConfirmed,
       Reported, WriteFails, Propose, Execute, ToolCall, BatchLooks, ItemInvalid, ItemPosts
<1>2. CASE ItemLooks(r)
  BY <1>2 DEF ItemLooks, KeyFor, Types, Tools
<1>3. CASE ItemAnswered(r)
  BY <1>3 DEF ItemAnswered, KeyFor, Types, Tools
<1>4. CASE BatchAnswered(r)
  BY <1>4 DEF BatchAnswered, KeyFor, Types, Tools
<1>5. CASE ItemUnsupported(r)
  BY <1>5 DEF ItemUnsupported, KeyFor, Types, Tools
<1> QED
  BY <1>1, <1>2, <1>3, <1>4, <1>5

\* They forget a write only of an excused id: a call that finds its device without the
\* action had looked before another one wrote.
LEMMA WritesStay ==
  ASSUME Types, AllFit, Clear, NEW r \in Turns, Moves(r),
         NEW key \in Keys, cache[key] = "done", key[3] # <<"plan">>, key[1] \notin excused
  PROVE  cache'[key] = "done"
<1>1. CASE cache' = cache
  BY <1>1
<1>2. CASE ItemLooks(r)
  BY <1>2 DEF ItemLooks, Types
<1>3. CASE ItemAnswered(r)
  BY <1>3 DEF ItemAnswered, Types
<1>4. CASE BatchAnswered(r)
  BY <1>4 DEF BatchAnswered, KeyFor, Types
<1>5. CASE ItemUnsupported(r)
  <2> DEFINE mine == KeyFor(r, ItemPart(turn[r].plan, turn[r].n))
  <2>1. cache' = [cache EXCEPT ![mine] = "refused"] /\ (turn[r].stage = "post" \/ cache[mine] = "none")
    BY <1>5 DEF ItemUnsupported
  <2>2. mine[1] = turn[r].plan.id
    BY DEF KeyFor
  <2>3. mine # key
    BY <2>1, <2>2 DEF Clear
  <2> HIDE DEF mine
  <2> QED
    BY <2>1, <2>3 DEF Types
<1>6. cache' = cache \/ ItemLooks(r) \/ ItemUnsupported(r) \/ ItemAnswered(r) \/ BatchAnswered(r)
  BY DEF Moves, TurnStep, TurnFails, Begin, Cancel, Confirm, Answer, NoFinal, Proposed, Clarify, Finish, FinishConfirmed,
       Reported, WriteFails, Propose, Execute, ToolCall, BatchLooks, ItemInvalid, ItemPosts
<1> QED
  BY <1>1, <1>2, <1>3, <1>4, <1>5, <1>6

\* The key under which a write will be remembered.
LEMMA AtPostKey ==
  ASSUME Types, AllFit, NEW r \in Turns, turn[r].stage \in {"post", "posted"}
  PROVE  /\ KeyFor(r, ItemPart(turn[r].plan, turn[r].n)) \in Keys
         /\ KeyFor(r, ItemPart(turn[r].plan, turn[r].n))[1] = turn[r].plan.id
         /\ Calling(r, turn[r].plan.id) /\ turn[r].plan.id \in PlanIds
BY AtPost, PartsAreKeys, Constants DEF KeyFor, Keys, Calling, Busy

\* Only a look at an item comes to a write.
LEMMA ReachesPost ==
  ASSUME Types, AllFit, NEW r \in Turns, Moves(r), turn'[r].stage = "post"
  PROVE  ItemLooks(r)
<1>1. CASE Tools(r)
  <2>1. turn[r] \in Busied
    BY <1>1, ToolsCall
  <2> USE <2>1 DEF Types, Busied
  <2>2. \A ok : Returns(r, ok) => turn'[r].stage \in {"llm", "look", "clarify", "finish"}
    BY DEF Returns
  <2>3. ~(BatchLooks(r) \/ BatchAnswered(r) \/ ItemPosts(r) \/ ItemAnswered(r) \/ ItemInvalid(r) \/ ItemUnsupported(r))
    BY <2>2 DEF BatchLooks, BatchAnswered, ItemPosts, ItemAnswered, ItemInvalid, ItemUnsupported, Refuses
  <2> QED
    BY <1>1, <2>3 DEF Tools
<1>2. ASSUME ~Tools(r) PROVE FALSE
  <2>1. ASSUME NEW p \in Plans, Propose(r, p) \/ Execute(r, p) \/ \E asked \in BOOLEAN : ToolCall(r, p, asked) PROVE FALSE
    <3>1. turn[r] \in Busied
      BY <2>1, BusyTurns DEF Propose, Execute, ToolCall, Busy
    <3>2. ~Propose(r, p)
      BY <3>1 DEF Propose, Types, Busied
    <3>3. ~Execute(r, p)
      BY <3>1 DEF Execute, Types, Busied
    <3>4. ASSUME NEW asked \in BOOLEAN, ToolCall(r, p, asked) PROVE FALSE
      BY <3>1, <3>4 DEF ToolCall, Types, Busied
    <3> QED
      BY <2>1, <3>2, <3>3, <3>4
  <2>2. CASE Confirm(r)
    <3>1. turn[r] \in Busied
      BY <2>2, BusyTurns DEF Confirm, Busy
    <3> QED
      BY <2>2, <3>1 DEF Confirm, Types, Busied
  <2>3. CASE \E input \in Inputs : Begin(r, input)
    BY <2>3 DEF Begin, Types
  <2>4. CASE Cancel(r) \/ Answer(r) \/ NoFinal(r) \/ Proposed(r) \/ Clarify(r) \/ Finish(r) \/ FinishConfirmed(r) \/ WriteFails(r) \/ TurnFails(r)
    BY <2>4 DEF Cancel, Answer, NoFinal, Proposed, Clarify, Finish, FinishConfirmed, Reported, Ends, WriteFails, TurnFails, Types
  <2> QED
    BY <1>2, <2>1, <2>2, <2>3, <2>4 DEF Moves, TurnStep, Tools
<1> QED
  BY <1>1, <1>2

\* Nobody else fills the entry of a write that is about to go out, without being excused.
LEMMA NextClear ==
  ASSUME Types, AllFit, Exclusive, Clear, [Next]_vars
  PROVE  Clear'
<1>1. ASSUME NEW r \in Turns, Moves(r) PROVE Clear'
  <2>1. \A q \in Turns \ {r} : turn'[q] = turn[q]
    BY <1>1, Others
  <2>2. excused \subseteq excused' /\ Types' /\ AllFit'
    BY <1>1, ExcusedGrows, NextTypes DEF Next, Moves
  <2> SUFFICES ASSUME NEW q \in Turns, turn'[q].stage = "post", turn'[q].plan.id \notin excused'
               PROVE  (cache[KeyFor(q, ItemPart(turn[q].plan, turn[q].n))])' = "none"
    BY DEF Clear
  <2>3. CASE q = r
    <3>1. ItemLooks(r)
      BY <1>1, <2>3, ReachesPost
    <3>2. turn[r] \in Busied
      BY <1>1, <3>1, ToolsCall DEF Tools
    <3> DEFINE key == KeyFor(r, ItemPart(turn[r].plan, turn[r].n))
    <3>3. cache' = cache /\ cache[key] = "none" /\ turn' = [turn EXCEPT ![r].stage = "post"]
      BY <2>3, <3>1, <3>2 DEF ItemLooks, Types, Busied
    <3>4. turn'[r].plan = turn[r].plan /\ turn'[r].n = turn[r].n /\ turn'[r].suffix = turn[r].suffix
      BY <3>2, <3>3 DEF Types, Busied
    <3> QED
      BY <2>3, <3>3, <3>4 DEF KeyFor, ItemPart
  <2>4. CASE q # r
    <3>1. turn[q].stage = "post" /\ turn[q].plan.id \notin excused /\ turn'[q] = turn[q]
      BY <2>1, <2>2, <2>4
    <3>2. cache[KeyFor(q, ItemPart(turn[q].plan, turn[q].n))] = "none"
      BY <3>1 DEF Clear
    <3>3. Calling(q, turn[q].plan.id) /\ turn[q].plan.id \in PlanIds
      BY <3>1, AtPostKey
    <3>4. cache' # cache => turn[r].plan.id # turn[q].plan.id
      BY <1>1, <2>4, <3>1, <3>3, CacheSteps, ToolsCall DEF Exclusive
    <3>5. cache'[KeyFor(q, ItemPart(turn[q].plan, turn[q].n))] = "none"
      BY <1>1, <3>1, <3>2, <3>4, CacheSteps, AtPostKey
    <3> QED
      BY <3>1, <3>5 DEF KeyFor, ItemPart
  <2> QED
    BY <2>3, <2>4
<1>2. CASE CacheExpires
  <2>1. \A r \in Turns : turn[r].stage # "post" /\ turn' = turn
    BY <1>2 DEF CacheExpires, Busy
  <2> QED
    BY <2>1 DEF Clear
<1>3. CASE SessionExpires \/ UNCHANGED vars
  BY <1>3 DEF SessionExpires, vars, Clear, KeyFor, ItemPart
<1> QED
  BY <1>1, <1>2, <1>3 DEF Next, Moves

\* A write is remembered until the cache expires, from when its answer is back.
LEMMA NextRemembered ==
  ASSUME Types, AllFit, Posted, Clear, Remembered, [Next]_vars
  PROVE  Remembered'
<1>1. ASSUME NEW r \in Turns, Moves(r) PROVE Remembered'
  <2>1. \A q \in Turns \ {r} : turn'[q] = turn[q]
    BY <1>1, Others
  <2>2. excused \subseteq excused'
    BY <1>1, ExcusedGrows DEF Next, Moves
  <2> SUFFICES ASSUME NEW p \in posts', p[2].id \notin excused'
               PROVE  cache'[KeyOfPost(p)] = "done" \/ OnItsWay(p)'
    BY DEF Remembered, KeyOfPost, ItemPart
  <2>3. CASE p \in posts
    <3>1. p[1] \in Turns /\ p[2] \in Plans /\ p[3] \in 1 .. Len(p[2].items)
      BY <2>3 DEF Types, Posted
    <3>2. KeyOfPost(p) \in Keys /\ KeyOfPost(p)[3] # <<"plan">>
      BY <3>1, PartsAreKeys, Constants DEF KeyOfPost, Keys
    <3>3. CASE cache[KeyOfPost(p)] = "done"
      <4>1. KeyOfPost(p)[1] = p[2].id /\ p[2].id \notin excused
        BY <2>2 DEF KeyOfPost
      <4> QED
        BY <1>1, <3>2, <3>3, <4>1, WritesStay
    <3>4. CASE OnItsWay(p) /\ p[1] # r
      BY <2>1, <3>1, <3>4 DEF OnItsWay
    <3>5. CASE OnItsWay(p) /\ p[1] = r
      <4>1. turn[r].stage = "posted" /\ turn[r].plan = p[2] /\ turn[r].n = p[3]
        BY <3>5 DEF OnItsWay
      <4>2. ItemAnswered(r) \/ WriteFails(r) \/ TurnFails(r)
        BY <1>1, <4>1 DEF Moves, TurnStep, TurnFails, Begin, Cancel, Confirm, Answer, NoFinal, Proposed, Clarify, Finish, FinishConfirmed,
             Reported, WriteFails, Propose, Execute, ToolCall, BatchLooks, ItemLooks, ItemInvalid, ItemUnsupported, ItemPosts, BatchAnswered, Ready
      <4>3. ItemAnswered(r)
        BY <4>1, <4>2 DEF WriteFails, TurnFails
      <4>4. KeyFor(r, ItemPart(turn[r].plan, turn[r].n)) = KeyOfPost(p)
        BY <4>1, AtPost DEF KeyFor, KeyOfPost
      <4> QED
        BY <3>2, <4>3, <4>4 DEF ItemAnswered, Types
    <3> QED
      BY <2>2, <2>3, <3>3, <3>4, <3>5 DEF Remembered
  <2>4. CASE p \notin posts
    <3>1. ItemPosts(r)
      BY <1>1, <2>4, OnlyPosts
    <3>2. p = <<r, turn[r].plan, turn[r].n, turn[r].source>>
      BY <2>4, <3>1 DEF ItemPosts, Taken
    <3>3. turn[r] \in Busied
      BY <3>1, AtPost DEF ItemPosts
    <3>4. turn'[r].stage = "posted" /\ turn'[r].plan = turn[r].plan /\ turn'[r].n = turn[r].n
      BY <3>1, <3>3 DEF ItemPosts, Types, Busied
    <3> QED
      BY <3>2, <3>4 DEF OnItsWay
  <2> QED
    BY <2>3, <2>4
<1>2. CASE CacheExpires
  <2> SUFFICES ASSUME NEW p \in posts, p[2].id \notin excused'
               PROVE  FALSE
    BY <1>2 DEF CacheExpires, Remembered
  <2>1. p[1] \in Turns /\ p[2] \in Plans /\ p[3] \in 1 .. Len(p[2].items)
    BY DEF Types, Posted
  <2>2. KeyOfPost(p) \in Keys /\ KeyOfPost(p)[1] = p[2].id
    BY <2>1, PartsAreKeys, Constants DEF KeyOfPost, Keys
  <2>3. ~OnItsWay(p)
    BY <1>2, <2>1 DEF CacheExpires, Busy, OnItsWay
  <2>4. cache[KeyOfPost(p)] = "none"
    BY <1>2, <2>2 DEF CacheExpires
  <2> QED
    BY <1>2, <2>3, <2>4 DEF CacheExpires, Remembered
<1>3. CASE SessionExpires \/ UNCHANGED vars
  BY <1>3 DEF SessionExpires, vars, Remembered, OnItsWay, KeyOfPost, ItemPart
<1> QED
  BY <1>1, <1>2, <1>3 DEF Next, Moves

\* A second write of an item finds the first one remembered or under way.
LEMMA NextWritten ==
  ASSUME Types, AllFit, Posted, Exclusive, Clear, Remembered, NotWrittenTwice, [Next]_vars
  PROVE  NotWrittenTwice'
<1>1. ASSUME NEW r \in Turns, ItemPosts(r), NEW b \in posts, turn[r].plan.id = b[2].id,
             ItemPart(turn[r].plan, turn[r].n) = ItemPart(b[2], b[3])
      PROVE  turn[r].plan.id \in excused
  <2>1. turn[r].stage = "post"
    BY <1>1 DEF ItemPosts
  <2>2. b[1] \in Turns
    BY DEF Types
  <2>3. KeyFor(r, ItemPart(turn[r].plan, turn[r].n)) = KeyOfPost(b)
    BY <1>1, <2>1, AtPost DEF KeyFor, KeyOfPost
  <2>4. CASE OnItsWay(b)
    <3>1. b[1] # r /\ turn[b[1]].stage = "posted" /\ turn[b[1]].plan = b[2]
      BY <2>1, <2>4 DEF OnItsWay
    <3> QED
      BY <1>1, <2>1, <2>2, <3>1, AtPostKey DEF Exclusive
  <2>5. CASE cache[KeyOfPost(b)] = "done"
    BY <2>1, <2>3, <2>5 DEF Clear
  <2> QED
    BY <1>1, <2>4, <2>5 DEF Remembered
<1>2. ASSUME NEW r \in Turns, ItemPosts(r) PROVE NotWrittenTwice'
  <2> DEFINE p == <<r, turn[r].plan, turn[r].n, turn[r].source>>
  <2>1. posts' = posts \cup {p} /\ excused' = excused
    BY <1>2 DEF ItemPosts, Taken
  <2> SUFFICES ASSUME NEW a \in posts', NEW b \in posts', a # b, a[2].id = b[2].id, a[2].kind = b[2].kind,
                      ItemPart(a[2], a[3]) = ItemPart(b[2], b[3])
               PROVE  a[2].id \in excused
    BY <2>1 DEF NotWrittenTwice, ItemPart
  <2>2. CASE a \in posts /\ b \in posts
    BY <2>2 DEF NotWrittenTwice
  <2>3. CASE a = p /\ b \in posts
    BY <1>1, <1>2, <2>3
  <2>4. CASE a \in posts /\ b = p
    BY <1>1, <1>2, <2>4
  <2> QED
    BY <2>1, <2>2, <2>3, <2>4
<1>3. CASE posts' = posts
  BY <1>3, ExcusedGrows DEF NotWrittenTwice, ItemPart
<1>4. CacheExpires \/ SessionExpires \/ UNCHANGED vars => posts' = posts
  BY DEF CacheExpires, SessionExpires, vars
<1> QED
  BY <1>2, <1>3, <1>4, OnlyPosts DEF Next, Moves

-----------------------------------------------------------------------------
(* Plans and their ids.                                                     *)

\* What becomes of the plan of a turn that makes a step: it is kept, dropped with a dry
\* run of the model, taken from the session, or new.
Keeps(r) == turn[r] # Ready /\ turn'[r].plan = turn[r].plan
Drops(r) == turn'[r].plan = None /\ (Busy(r) /\ turn[r].plan # None => turn[r].stage \in Calls /\ turn[r].source = "tool") /\ turn[r].stage # "done"
Takes(r) == Busy(r) /\ turn[r].plan = None /\ turn'[r].plan = turn[r].copy
Makes(r) == Busy(r) /\ turn[r].plan = None /\ turn'[r].plan \in Plans /\ (Named(turn'[r].plan) \/ turn'[r].plan.id \in reused')

LEMMA PlanSteps ==
  ASSUME Types, AllFit, NEW r \in Turns, Moves(r)
  PROVE  turn'[r].stage # "ready" /\ (Keeps(r) \/ Drops(r) \/ Takes(r) \/ Makes(r))
<1>1. ASSUME NEW input \in Inputs, Begin(r, input) PROVE turn'[r].stage # "ready" /\ Drops(r)
  BY <1>1 DEF Begin, Types, Drops, Busy, Ready
<1>2. ASSUME Tools(r) PROVE turn'[r].stage # "ready" /\ (Keeps(r) \/ Drops(r))
  <2>1. turn[r] \in Busied /\ turn[r].stage \in Calls
    BY <1>2, ToolsCall DEF Calling, Calls
  <2> USE <2>1 DEF Types, Busied, Ready, Calls
  <2>2. \A ok : Returns(r, ok) => turn'[r].stage # "ready" /\ (turn'[r].plan = turn[r].plan \/ (turn'[r].plan = None /\ turn[r].source = "tool"))
    BY DEF Returns
  <2>3. CASE BatchLooks(r) \/ BatchAnswered(r)
    BY <2>2, <2>3 DEF BatchLooks, BatchAnswered, Keeps, Drops
  <2>4. CASE ItemLooks(r) \/ ItemInvalid(r) \/ ItemUnsupported(r)
    BY <2>4 DEF ItemLooks, ItemInvalid, ItemUnsupported, Refuses, Keeps
  <2>5. CASE ItemPosts(r)
    BY <2>5 DEF ItemPosts, Keeps
  <2>6. CASE ItemAnswered(r)
    BY <2>6 DEF ItemAnswered, Keeps
  <2> QED
    BY <1>2, <2>3, <2>4, <2>5, <2>6 DEF Tools
<1>3. ASSUME \/ Proposed(r) \/ Clarify(r) \/ Finish(r) \/ FinishConfirmed(r) \/ WriteFails(r) \/ TurnFails(r)
      PROVE  turn'[r].stage # "ready" /\ Keeps(r)
  BY <1>3 DEF Proposed, Clarify, Finish, FinishConfirmed, Reported, Ends, WriteFails, TurnFails, Types, Keeps, Ready, Busy
<1>4. ASSUME Answer(r) \/ NoFinal(r) PROVE turn'[r].stage # "ready" /\ Drops(r)
  BY <1>4 DEF Answer, NoFinal, Ends, Types, Drops, AllFit, Fits, Busy
<1>5. ASSUME Cancel(r) PROVE turn'[r].stage # "ready" /\ Takes(r)
  BY <1>5 DEF Cancel, Ends, Types, Takes, AllFit, Fits, Busy
<1>6. ASSUME Confirm(r) PROVE turn'[r].stage # "ready" /\ Takes(r)
  <2>1. turn[r] \in Busied
    BY <1>6, BusyTurns DEF Confirm, Busy
  <2> QED
    BY <1>6, <2>1 DEF Confirm, Types, Busied, Takes, AllFit, Fits, Busy
<1>7. ASSUME NEW p \in Plans, Propose(r, p) PROVE turn'[r].stage # "ready" /\ Makes(r)
  <2>1. turn[r] \in Busied
    BY <1>7, BusyTurns DEF Propose, Busy
  <2> QED
    BY <1>7, <2>1 DEF Propose, Types, Busied, Makes, AllFit, Fits, Busy
<1>8. ASSUME NEW p \in Plans, Execute(r, p) PROVE turn'[r].stage # "ready" /\ Makes(r)
  <2>1. turn[r] \in Busied
    BY <1>8, BusyTurns DEF Execute, Busy
  <2> QED
    BY <1>8, <2>1 DEF Execute, Types, Busied, Makes, AllFit, Fits, Busy
<1>9. ASSUME NEW p \in Plans, NEW asked \in BOOLEAN, ToolCall(r, p, asked) PROVE turn'[r].stage # "ready" /\ Makes(r)
  <2>1. turn[r] \in Busied
    BY <1>9, BusyTurns DEF ToolCall, Busy
  <2>2. turn'[r].plan = p /\ turn'[r].stage = "look" /\ p.id \in reused'
    BY <1>9, <2>1 DEF ToolCall, Types, Busied
  <2> QED
    BY <1>9, <2>1, <2>2 DEF ToolCall, Makes, AllFit, Fits, Busy
<1> QED
  BY <1>1, <1>2, <1>3, <1>4, <1>5, <1>6, <1>7, <1>8, <1>9 DEF Moves, TurnStep, Tools

\* An id that was used again stays so.
LEMMA ReusedGrows ==
  ASSUME [Next]_vars
  PROVE  reused \subseteq reused'
<1>1. ASSUME NEW r \in Turns, Moves(r) PROVE reused \subseteq reused'
  <2>1. \A p : Named(p) => reused \subseteq reused'
    BY DEF Named
  <2>2. CASE \E p \in Plans : Propose(r, p) \/ Execute(r, p) \/ \E asked \in BOOLEAN : ToolCall(r, p, asked)
    BY <2>1, <2>2 DEF Propose, Execute, ToolCall
  <2>3. CASE \/ Cancel(r) \/ Confirm(r) \/ Answer(r) \/ NoFinal(r) \/ Proposed(r) \/ Clarify(r) \/ Finish(r) \/ FinishConfirmed(r)
             \/ BatchLooks(r) \/ ItemLooks(r) \/ ItemInvalid(r) \/ ItemUnsupported(r) \/ ItemPosts(r) \/ ItemAnswered(r) \/ BatchAnswered(r)
             \/ WriteFails(r) \/ TurnFails(r) \/ \E input \in Inputs : Begin(r, input)
    BY <2>3 DEF Cancel, Confirm, Answer, NoFinal, Proposed, Clarify, Finish, FinishConfirmed, Reported,
         BatchLooks, ItemLooks, ItemInvalid, ItemUnsupported, Refuses, ItemPosts, ItemAnswered, BatchAnswered, WriteFails, TurnFails, Begin
  <2> QED
    BY <1>1, <2>2, <2>3 DEF Moves, TurnStep
<1>2. CacheExpires \/ SessionExpires \/ UNCHANGED vars => reused \subseteq reused'
  BY DEF CacheExpires, SessionExpires, vars
<1> QED
  BY <1>1, <1>2 DEF Next, Moves

\* A dry run the model asks for uses up its id.
LEMMA NextAsked ==
  ASSUME Types, AllFit, Asked, [Next]_vars
  PROVE  Asked'
<1>1. ASSUME NEW r \in Turns, Moves(r) PROVE Asked'
  <2>1. \A q \in Turns \ {r} : turn'[q] = turn[q]
    BY <1>1, Others
  <2>2. reused \subseteq reused'
    BY <1>1, ReusedGrows DEF Next, Moves
  <2>3. ASSUME turn'[r].stage \in Calls, turn'[r].source = "tool" PROVE turn'[r].plan.id \in reused'
    <3>1. CASE Tools(r)
      <4>1. turn[r] \in Busied /\ turn[r].stage \in Calls
        BY <3>1, ToolsCall DEF Calling, Calls
      <4> QED
        BY <2>2, <2>3, <3>1, <4>1, GoesOnCalling DEF Asked
    <3>2. ASSUME NEW p \in Plans, NEW asked \in BOOLEAN, ToolCall(r, p, asked) PROVE turn'[r].plan.id \in reused'
      <4>1. turn[r] \in Busied
        BY <3>2, BusyTurns DEF ToolCall, Busy
      <4> QED
        BY <3>2, <4>1 DEF ToolCall, Types, Busied
    <3>3. ASSUME NEW p \in Plans, Execute(r, p) PROVE FALSE
      <4>1. turn[r] \in Busied
        BY <3>3, BusyTurns DEF Execute, Busy
      <4> QED
        BY <2>3, <3>3, <4>1 DEF Execute, Types, Busied, AllFit, Fits, Busy
    <3>4. ~Confirm(r)
      <4> SUFFICES ASSUME Confirm(r) PROVE FALSE
        OBVIOUS
      <4>1. turn[r] \in Busied
        BY BusyTurns DEF Confirm, Busy
      <4> QED
        BY <2>3, <4>1 DEF Confirm, Types, Busied
    <3> QED
      BY <1>1, <2>3, <3>1, <3>2, <3>3, <3>4, CallsBegin
  <2> QED
    BY <2>1, <2>2, <2>3 DEF Asked
<1>2. CASE turn' = turn
  BY <1>2, ReusedGrows DEF Asked
<1>3. CacheExpires \/ SessionExpires \/ UNCHANGED vars => turn' = turn
  BY DEF CacheExpires, SessionExpires, vars
<1> QED
  BY <1>1, <1>2, <1>3 DEF Next, Moves

\* A plan stays with its turn, unless it was a dry run of the model.
LEMMA HasStays ==
  ASSUME Types, AllFit, Asked, [Next]_vars, NEW q \in Turns, NEW plan \in Plans, Has(q, plan)
  PROVE  Has(q, plan)' \/ plan.id \in reused
<1>1. ASSUME NEW r \in Turns, Moves(r) PROVE Has(q, plan)' \/ plan.id \in reused
  <2>1. CASE q # r
    BY <1>1, <2>1, Others DEF Has
  <2>2. CASE q = r
    <3>1. turn[r] # Ready /\ turn[r].plan = plan /\ plan # None
      BY <2>2, Constants DEF Has
    <3>2. turn'[r].stage # "ready"
      BY <1>1, PlanSteps
    <3>3. turn[r].stage = "done" \/ Busy(r)
      BY <3>1 DEF Types, Busied, Done, Stages, Busy
    <3>4. Drops(r) => plan.id \in reused
      BY <3>1, <3>3 DEF Drops, Asked
    <3>5. ~Takes(r) /\ ~Makes(r)
      BY <3>1 DEF Takes, Makes
    <3>6. Keeps(r) => Has(q, plan)'
      BY <2>2, <3>1, <3>2 DEF Keeps, Has, Ready
    <3> QED
      BY <1>1, <3>4, <3>5, <3>6, PlanSteps
  <2> QED
    BY <2>1, <2>2
<1>2. CASE turn' = turn
  BY <1>2 DEF Has
<1>3. CacheExpires \/ SessionExpires \/ UNCHANGED vars => turn' = turn
  BY DEF CacheExpires, SessionExpires, vars
<1> QED
  BY <1>1, <1>2, <1>3 DEF Next, Moves

\* What the session and the turns hold was held before, or is the plan of a turn.
LEMMA HeldSteps ==
  ASSUME Types, AllFit, [Next]_vars, NEW plan \in Held', plan # None
  PROVE  plan \in Held \/ (\E q \in Turns : Has(q, plan)')
<1>1. ASSUME NEW r \in Turns, Moves(r) PROVE plan \in Held \/ (\E q \in Turns : Has(q, plan)')
  <2>1. \A q \in Turns \ {r} : turn'[q] = turn[q]
    BY <1>1, Others
  <2>2. ASSUME NEW q \in Turns \ {r}, Busy(q)', plan = turn'[q].copy PROVE plan \in Held
    BY <2>1, <2>2 DEF Held, Busy
  <2>3. CASE Tools(r)
    <3>1. turn[r] \in Busied /\ Busy(r)
      BY <2>3, ToolsCall
    <3>2. pending' = pending /\ turn'[r].copy = turn[r].copy
      <4> USE <3>1 DEF Types, Busied
      <4>1. \A ok : Returns(r, ok) => turn'[r].copy = turn[r].copy
        BY DEF Returns
      <4>2. CASE BatchLooks(r) \/ BatchAnswered(r)
        BY <4>1, <4>2 DEF BatchLooks, BatchAnswered
      <4>3. CASE ItemLooks(r) \/ ItemInvalid(r) \/ ItemUnsupported(r)
        BY <4>3 DEF ItemLooks, ItemInvalid, ItemUnsupported, Refuses
      <4>4. CASE ItemPosts(r)
        BY <4>4 DEF ItemPosts
      <4>5. CASE ItemAnswered(r)
        BY <4>5 DEF ItemAnswered
      <4> QED
        BY <2>3, <4>2, <4>3, <4>4, <4>5 DEF Tools
    <3> QED
      BY <2>2, <3>1, <3>2 DEF Held
  <2>4. CASE \E input \in Inputs : Begin(r, input)
    <3>1. pending' = pending /\ turn'[r].copy = pending
      BY <2>4 DEF Begin, Types
    <3> QED
      BY <2>2, <3>1 DEF Held
  <2>5. CASE Cancel(r) \/ TurnFails(r)
    <3>1. pending' \in {pending, None} /\ turn'[r].stage = "done"
      BY <2>5 DEF Cancel, TurnFails, Ends, Types
    <3> QED
      BY <2>2, <3>1 DEF Held, Busy
  <2>6. CASE Confirm(r)
    <3>1. turn[r] \in Busied
      BY <2>6, BusyTurns DEF Confirm, Busy
    <3>2. pending' = None /\ turn'[r].copy = None
      BY <2>6, <3>1 DEF Confirm, Types, Busied
    <3> QED
      BY <2>2, <3>2 DEF Held
  <2>7. CASE Answer(r) \/ NoFinal(r) \/ Proposed(r) \/ Clarify(r) \/ Finish(r) \/ FinishConfirmed(r) \/ WriteFails(r)
    <3>1. Busy(r) /\ pending' = turn[r].copy /\ turn'[r].stage = "done"
      BY <2>7 DEF Answer, NoFinal, Proposed, Clarify, Finish, FinishConfirmed, Reported, WriteFails, Ends, Types, Busy
    <3> QED
      BY <2>2, <3>1 DEF Held, Busy
  <2>8. ASSUME NEW p \in Plans, Propose(r, p) PROVE plan \in Held \/ (\E q \in Turns : Has(q, plan)')
    <3>1. turn[r] \in Busied
      BY <2>8, BusyTurns DEF Propose, Busy
    <3>2. pending' = p /\ turn'[r].copy = p /\ turn'[r].plan = p /\ turn'[r].stage = "propose"
      BY <2>8, <3>1 DEF Propose, Types, Busied
    <3> QED
      BY <2>2, <3>2 DEF Held, Has, Ready
  <2>9. ASSUME NEW p \in Plans, Execute(r, p) \/ \E asked \in BOOLEAN : ToolCall(r, p, asked)
        PROVE  plan \in Held
    <3>1. turn[r] \in Busied /\ Busy(r)
      BY <2>9, BusyTurns DEF Execute, ToolCall, Busy
    <3>2. Execute(r, p) => pending' = pending /\ turn'[r].copy = turn[r].copy
      BY <3>1 DEF Execute, Types, Busied
    <3>3. ASSUME NEW asked \in BOOLEAN, ToolCall(r, p, asked) PROVE pending' = pending /\ turn'[r].copy = turn[r].copy
      BY <3>1, <3>3 DEF ToolCall, Types, Busied
    <3> QED
      BY <2>2, <2>9, <3>1, <3>2, <3>3 DEF Held
  <2> QED
    BY <1>1, <2>3, <2>4, <2>5, <2>6, <2>7, <2>8, <2>9 DEF Moves, TurnStep, Tools
<1>2. CASE turn' = turn /\ pending' \in {pending, None}
  BY <1>2 DEF Held, Busy
<1>3. CacheExpires \/ SessionExpires \/ UNCHANGED vars => turn' = turn /\ pending' \in {pending, None}
  BY DEF CacheExpires, SessionExpires, vars
<1> QED
  BY <1>1, <1>2, <1>3 DEF Next, Moves

\* Plans and cache entries go back to turns.
LEMMA NextTraced ==
  ASSUME Types, AllFit, Asked, Traced, [Next]_vars
  PROVE  Traced'
<1>1. Types' /\ AllFit'
  BY NextTypesStutter
<1>2. reused \subseteq reused'
  BY ReusedGrows
<1>3. ASSUME NEW plan \in Plans, plan.id \in reused \/ \E r \in Turns : Has(r, plan)
      PROVE  plan.id \in reused' \/ \E r \in Turns : Has(r, plan)'
  BY <1>2, <1>3, HasStays
<1>4. ASSUME NEW plan \in Held' \ {None} PROVE plan.id \in reused' \/ \E r \in Turns : Has(r, plan)'
  <2>1. plan \in Plans
    <3>1. \A r \in Turns : Busy(r)' => turn'[r] \in Busied
      BY <1>1 DEF Types, Busy, Busied, Done, Ready, Stages
    <3>2. \A r \in Turns : Busy(r)' => turn'[r].copy \in Plans \cup {None}
      BY <3>1 DEF Busied
    <3> QED
      BY <1>1, <1>4, <3>2 DEF Held, Types
  <2> QED
    BY <1>3, <1>4, <2>1, HeldSteps DEF Traced
<1>5. ASSUME NEW key \in Keys, cache'[key] # "none"
      PROVE  key[1] \in reused' \/ \E r \in Turns, plan \in Plans : Has(r, plan)' /\ plan.id = key[1]
  <2>1. CASE cache[key] # "none"
    BY <1>2, <2>1, HasStays DEF Traced
  <2>2. ASSUME cache[key] = "none", NEW r \in Turns, Moves(r)
        PROVE  key[1] \in reused' \/ \E q \in Turns, plan \in Plans : Has(q, plan)' /\ plan.id = key[1]
    <3>1. Tools(r) /\ key[1] = turn[r].plan.id
      BY <1>5, <2>2, CacheSteps
    <3>2. Has(r, turn[r].plan) /\ turn[r].plan \in Plans
      BY <3>1, ToolsCall DEF Has, Busy, Ready
    <3> QED
      BY <1>2, <3>1, <3>2, HasStays
  <2>3. CacheExpires \/ SessionExpires \/ UNCHANGED vars => cache'[key] = "none" \/ cache' = cache
    BY DEF CacheExpires, SessionExpires, vars
  <2> QED
    BY <1>5, <2>1, <2>2, <2>3 DEF Next, Moves, Types
<1> QED
  BY <1>4, <1>5 DEF Traced

\* A plan that a turn has next and none had before has an id no plan had.
LEMMA NewPlans ==
  ASSUME Types, AllFit, Traced, [Next]_vars, NEW q \in Turns, NEW plan \in Plans, Has(q, plan)', plan.id \notin reused'
  PROVE  \/ \E r \in Turns : Has(r, plan)
         \/ ~Used(plan) /\ \A r \in Turns, b \in Plans : Has(r, b) => b.id # plan.id
<1>1. ASSUME NEW r \in Turns, Moves(r)
      PROVE  \/ \E s \in Turns : Has(s, plan)
             \/ ~Used(plan) /\ \A s \in Turns, b \in Plans : Has(s, b) => b.id # plan.id
  <2>1. CASE q # r
    BY <1>1, <2>1, Others DEF Has
  <2>2. CASE q = r
    <3>1. turn'[r].plan = plan /\ plan # None
      BY <2>2, Constants DEF Has
    <3>2. Keeps(r) => Has(r, plan)
      BY <3>1 DEF Keeps, Has
    <3>3. ~Drops(r)
      BY <3>1 DEF Drops
    <3>4. Takes(r) => \E s \in Turns : Has(s, plan)
      <4>1. Takes(r) => plan \in Held
        BY <3>1 DEF Takes, Held
      <4> QED
        BY <3>1, <4>1, ReusedGrows DEF Traced
    <3>5. Makes(r) => ~Used(plan)
      BY <3>1 DEF Makes, Named
    <3>6. ~Used(plan) => \A s \in Turns, b \in Plans : Has(s, b) => b.id # plan.id
      BY Constants DEF Used, Has
    <3> QED
      BY <1>1, <3>2, <3>3, <3>4, <3>5, <3>6, PlanSteps
  <2> QED
    BY <2>1, <2>2
<1>2. CASE turn' = turn
  BY <1>2 DEF Has
<1>3. CacheExpires \/ SessionExpires \/ UNCHANGED vars => turn' = turn
  BY DEF CacheExpires, SessionExpires, vars
<1> QED
  BY <1>1, <1>2, <1>3 DEF Next, Moves

\* No two plans share an id that was not used again.
LEMMA NextSingle ==
  ASSUME Types, AllFit, Traced, Single, [Next]_vars
  PROVE  Single'
<1> SUFFICES ASSUME NEW r \in Turns, NEW q \in Turns, NEW a \in Plans, NEW b \in Plans,
                    Has(r, a)', Has(q, b)', a.id = b.id, a.id \notin reused'
             PROVE  a = b
  BY DEF Single
<1>1. a.id \notin reused
  BY ReusedGrows
<1>2. CASE (\E s \in Turns : Has(s, a)) /\ (\E s \in Turns : Has(s, b))
  BY <1>1, <1>2 DEF Single
<1>3. CASE r = q
  BY <1>3 DEF Has
<1>4. ASSUME r # q PROVE Has(r, a) \/ Has(q, b)
  <2>1. ASSUME NEW s \in Turns, Moves(s) PROVE Has(r, a) \/ Has(q, b)
    BY <1>4, <2>1, Others DEF Has
  <2>2. turn' = turn => Has(r, a)
    BY DEF Has
  <2>3. CacheExpires \/ SessionExpires \/ UNCHANGED vars => turn' = turn
    BY DEF CacheExpires, SessionExpires, vars
  <2> QED
    BY <2>1, <2>2, <2>3 DEF Next, Moves
<1> QED
  BY <1>2, <1>3, <1>4, NewPlans

-----------------------------------------------------------------------------
(* What is reported.                                                        *)

\* The keys of a plan and its items.
LEMMA KeysOfPlan ==
  ASSUME NEW plan \in Plans, NEW s \in {"plain", "dryrun"}
  PROVE  /\ <<plan.id, s, <<"plan">>>> \in Keys
         /\ \A m \in 1 .. Len(plan.items) : <<plan.id, s, ItemPart(plan, m)>> \in Keys /\ ItemPart(plan, m) # <<"plan">>
BY PartsAreKeys, Constants DEF Keys, Parts

\* What was written stays written, and what was passed over stays noted.
Grows == posts \subseteq posts' /\ refused \subseteq refused'

LEMMA PostsGrow ==
  ASSUME [Next]_vars
  PROVE  Grows
<1>1. ASSUME NEW r \in Turns, ItemPosts(r) PROVE Grows
  BY <1>1 DEF ItemPosts, Taken, Grows
<1>2. ASSUME NEW r \in Turns, ItemInvalid(r) \/ ItemUnsupported(r) PROVE Grows
  BY <1>2 DEF ItemInvalid, ItemUnsupported, Refuses, Grows
<1>3. ASSUME NEW r \in Turns, Moves(r) PROVE ItemPosts(r) \/ ItemInvalid(r) \/ ItemUnsupported(r) \/ (posts' = posts /\ refused' = refused)
  BY <1>3 DEF Moves, TurnStep, TurnFails, Begin, Cancel, Confirm, Answer, NoFinal, Proposed, Clarify, Finish, FinishConfirmed,
       Reported, WriteFails, Propose, Execute, ToolCall, BatchLooks, ItemLooks, ItemAnswered, BatchAnswered
<1>4. CacheExpires \/ SessionExpires \/ UNCHANGED vars => posts' = posts /\ refused' = refused
  BY DEF CacheExpires, SessionExpires, vars
<1> QED
  BY <1>1, <1>2, <1>3, <1>4 DEF Next, Moves, Grows

\* So does what became of an item, for an answer that may be given only then.
DealtThen(plan, m, ok) == Wrote(plan, m)' \/ (~ok /\ <<plan, m>> \in refused')
DealtAllThen(plan, ok) == \A m \in 1 .. Len(plan.items) : DealtThen(plan, m, ok)

LEMMA DealtStays ==
  ASSUME Grows
  PROVE  /\ \A plan, m, ok : Dealt(plan, m, ok) => DealtThen(plan, m, ok)
         /\ \A plan, ok : DealtAll(plan, ok) => DealtAllThen(plan, ok)
<1>1. \A plan, m, ok : Dealt(plan, m, ok) => DealtThen(plan, m, ok)
  BY DEF Dealt, DealtThen, Wrote, Grows
<1> QED
  BY <1>1 DEF DealtAll, DealtAllThen

\* An answer that is not ok says less.

LEMMA DealtWorse ==
  ASSUME NEW plan, NEW m, NEW ok \in BOOLEAN, NEW now \in BOOLEAN, Dealt(plan, m, ok), now => ok
  PROVE  Dealt(plan, m, now)
BY DEF Dealt

\* Items of a plan without repetitions have keys of their own.
LEMMA DistinctParts ==
  ASSUME NEW plan \in Plans, Distinct(plan), NEW m \in 1 .. Len(plan.items), NEW n \in 1 .. Len(plan.items),
         ItemPart(plan, m) = ItemPart(plan, n)
  PROVE  m = n
<1>1. CASE plan.kind = "writes"
  <2>1. <<"write", m>> = <<"write", n>>
    BY <1>1 DEF ItemPart
  <2> QED
    BY <2>1
<1>2. CASE plan.kind # "writes"
  <2>1. <<"item", KeyOf[plan.items[m]]>> = <<"item", KeyOf[plan.items[n]]>>
    BY <1>2 DEF ItemPart
  <2> QED
    BY <2>1 DEF Distinct
<1> QED
  BY <1>1, <1>2

\* A step of a call caches only what was written, or that it was passed over.
LEMMA ToolsBack ==
  ASSUME Types, AllFit, NEW r \in Turns, Tools(r), NEW plan \in Plans, turn[r].plan = plan,
         Grows, Progress(turn[r]), Distinct(plan), Backed(plan)
  PROVE  Backed(plan)'
<1> DEFINE item(m) == <<plan.id, "plain", ItemPart(plan, m)>>
           whole == <<plan.id, "plain", <<"plan">>>>
<1>1. turn[r] \in Busied /\ turn[r].stage \in Calls /\ Fits(turn[r])
  BY ToolsCall DEF Calling, Calls, AllFit
<1>2. turn[r].suffix = (IF turn[r].dry THEN "dryrun" ELSE "plain") /\ turn[r].dry \in BOOLEAN /\ turn[r].ok \in BOOLEAN
  BY <1>1 DEF Progress, Fits, Busied
<1>3. \A m, ok : Dealt(plan, m, ok) => DealtThen(plan, m, ok)
  BY DealtStays
<1>4. \A ok : DealtAll(plan, ok) => DealtAllThen(plan, ok)
  BY DealtStays
<1>5. whole \in Keys /\ \A m \in 1 .. Len(plan.items) : item(m) \in Keys /\ item(m) # whole
  BY KeysOfPlan
<1>6. SUFFICES /\ \A m \in 1 .. Len(plan.items) : cache'[item(m)] # "none" => DealtThen(plan, m, cache'[item(m)] # "refused")
               /\ plan.kind = "actions" /\ cache'[whole] # "none" => DealtAllThen(plan, cache'[whole] # "refused")
  BY DEF Backed, ItemPart, Dealt, DealtAll, DealtThen, DealtAllThen, Wrote
<1>7. /\ \A m \in 1 .. Len(plan.items) : cache[item(m)] # "none" => Dealt(plan, m, cache[item(m)] # "refused")
      /\ plan.kind = "actions" /\ cache[whole] # "none" => DealtAll(plan, cache[whole] # "refused")
  BY DEF Backed
<1>8. CASE cache' = cache
  BY <1>3, <1>4, <1>7, <1>8
<1>9. CASE ItemLooks(r)
  <2> DEFINE key == KeyFor(r, ItemPart(turn[r].plan, turn[r].n))
  <2>1. cache' = cache \/ (cache' = [cache EXCEPT ![key] = IF @ = "none" THEN "dry" ELSE @] /\ (cache[key] # "none" \/ turn[r].dry))
    BY <1>9 DEF ItemLooks
  <2>2. turn[r].dry => key[2] # "plain"
    BY <1>2 DEF KeyFor
  <2>3. whole[2] = "plain" /\ \A m : item(m)[2] = "plain"
    OBVIOUS
  <2> HIDE DEF key, whole, item
  <2>4. \A k \in Keys : k[2] = "plain" => cache'[k] = cache[k]
    BY <2>1, <2>2 DEF Types
  <2> QED
    BY <1>3, <1>4, <1>5, <1>7, <2>3, <2>4
<1>10. CASE ItemAnswered(r)
  <2>1. turn[r].stage = "posted" /\ turn[r].n \in 1 .. Len(plan.items)
    BY <1>10, AtPost DEF ItemAnswered
  <2>2. \A ok : Dealt(plan, turn[r].n, ok)
    BY <2>1 DEF Progress, Dealt
  <2>3. KeyFor(r, ItemPart(turn[r].plan, turn[r].n)) = item(turn[r].n)
    BY <2>1, AtPost DEF KeyFor
  <2>4. cache' = [cache EXCEPT ![item(turn[r].n)] = "done"]
    BY <1>10, <2>3 DEF ItemAnswered
  <2>5. \A m \in 1 .. Len(plan.items) : item(m) = item(turn[r].n) => m = turn[r].n
    BY <2>1, DistinctParts
  <2> HIDE DEF item, whole
  <2> QED
    BY <1>3, <1>4, <1>5, <1>7, <2>1, <2>2, <2>4, <2>5 DEF Types
<1>11. CASE BatchAnswered(r)
  <2> DEFINE key == <<plan.id, turn[r].suffix, <<"plan">>>>
  <2>1. cache' = cache \/ cache' = [cache EXCEPT ![key] = IF ~turn[r].ok THEN "refused" ELSE IF turn[r].dry THEN "dry" ELSE "done"]
    BY <1>11 DEF BatchAnswered, KeyFor
  <2>2. turn[r].stage = "item" /\ turn[r].n > Len(plan.items) /\ turn[r].n \in Nat /\ Len(plan.items) \in Nat
    BY <1>1, <1>11, Bounded DEF BatchAnswered, Busied
  <2>3. ~turn[r].dry => DealtAll(plan, turn[r].ok)
    <3> SUFFICES ASSUME ~turn[r].dry, NEW m \in 1 .. Len(plan.items) PROVE Dealt(plan, m, turn[r].ok)
      BY DEF DealtAll
    <3>1. m \in 1 .. turn[r].n - 1
      BY <2>2
    <3> QED
      BY <2>2, <3>1 DEF Progress
  <2>4. turn[r].dry => key # whole
    BY <1>2
  <2>5. \A m \in 1 .. Len(plan.items) : item(m) # key
    BY KeysOfPlan
  <2> HIDE DEF item, whole, key
  <2>6. CASE cache' = cache
    BY <1>8, <2>6
  <2>7. CASE cache' = [cache EXCEPT ![key] = IF ~turn[r].ok THEN "refused" ELSE IF turn[r].dry THEN "dry" ELSE "done"]
    <3>1. \A m \in 1 .. Len(plan.items) : cache'[item(m)] = cache[item(m)]
      BY <1>5, <2>5, <2>7 DEF Types
    <3>2. key # whole => cache'[whole] = cache[whole]
      BY <1>5, <2>7 DEF Types
    <3>3. key = whole => cache'[whole] = IF ~turn[r].ok THEN "refused" ELSE "done"
      BY <1>5, <2>4, <2>7 DEF Types
    <3>4. key = whole => (cache'[whole] # "refused") = turn[r].ok
      BY <1>2, <3>3
    <3>5. key = whole => DealtAll(plan, cache'[whole] # "refused")
      BY <2>3, <2>4, <3>4
    <3> QED
      BY <1>3, <1>4, <1>7, <3>1, <3>2, <3>5
  <2> QED
    BY <2>1, <2>6, <2>7
<1>12. CASE ItemUnsupported(r)
  <2> DEFINE key == KeyFor(r, ItemPart(turn[r].plan, turn[r].n))
  <2>1. cache' = [cache EXCEPT ![key] = "refused"] /\ turn[r].n \in 1 .. Len(plan.items)
    BY <1>12, Refused DEF ItemUnsupported
  <2>2. key = <<plan.id, turn[r].suffix, ItemPart(plan, turn[r].n)>>
    BY DEF KeyFor
  <2>3. turn[r].dry => key[2] # "plain"
    BY <1>2, <2>2
  <2>4. ~turn[r].dry => key = item(turn[r].n)
    BY <1>2, <2>2
  <2>5. ~turn[r].dry => DealtThen(plan, turn[r].n, FALSE)
    BY <1>12 DEF ItemUnsupported, Refuses, DealtThen
  <2>6. \A m \in 1 .. Len(plan.items) : item(m) = item(turn[r].n) => m = turn[r].n
    BY <2>1, DistinctParts
  <2>7. whole[2] = "plain" /\ \A m : item(m)[2] = "plain"
    OBVIOUS
  <2> HIDE DEF item, whole, key
  <2>8. \A k \in Keys : k # key => cache'[k] = cache[k]
    BY <2>1 DEF Types
  <2>9. CASE turn[r].dry
    BY <1>3, <1>4, <1>5, <1>7, <2>3, <2>7, <2>8, <2>9
  <2>10. CASE ~turn[r].dry
    <3>1. cache'[whole] = cache[whole]
      BY <1>5, <2>1, <2>4, <2>8, <2>10
    <3>2. \A m \in 1 .. Len(plan.items) : m # turn[r].n => cache'[item(m)] = cache[item(m)]
      BY <1>5, <2>4, <2>6, <2>8, <2>10
    <3>3. cache'[item(turn[r].n)] = "refused"
      BY <1>5, <2>1, <2>4, <2>10 DEF Types
    <3>4. DealtThen(plan, turn[r].n, cache'[item(turn[r].n)] # "refused")
      BY <2>5, <2>10, <3>3
    <3> QED
      BY <1>3, <1>4, <1>7, <3>1, <3>2, <3>4
  <2> QED
    BY <2>9, <2>10
<1> QED
  BY <1>8, <1>9, <1>10, <1>11, <1>12 DEF Tools, BatchLooks, ItemPosts, ItemInvalid

\* What the cache says of a plan is true as long as its entries are left alone.
LEMMA BackedStays ==
  ASSUME NEW plan \in Plans, Grows, Backed(plan),
         \A key \in Keys : key[1] = plan.id => cache'[key] = cache[key]
  PROVE  Backed(plan)'
<1>1. /\ cache'[<<plan.id, "plain", <<"plan">>>>] = cache[<<plan.id, "plain", <<"plan">>>>]
      /\ \A m \in 1 .. Len(plan.items) : cache'[<<plan.id, "plain", ItemPart(plan, m)>>] = cache[<<plan.id, "plain", ItemPart(plan, m)>>]
  BY KeysOfPlan
<1>2. /\ \A m, ok : Dealt(plan, m, ok) => DealtThen(plan, m, ok)
      /\ \A ok : DealtAll(plan, ok) => DealtAllThen(plan, ok)
  BY DealtStays
<1> QED
  BY <1>1, <1>2 DEF Backed, ItemPart, Dealt, DealtAll, DealtThen, DealtAllThen, Wrote

\* An entry for a plan that is single says what became of it.
LEMMA NextCached ==
  ASSUME Types, AllFit, Traced, Single, Cached, Advanced, [Next]_vars
  PROVE  Cached'
<1> SUFFICES ASSUME NEW q \in Turns, NEW plan \in Plans, Has(q, plan)', plan.id \notin reused', Distinct(plan)
             PROVE  Backed(plan)'
  BY DEF Cached, Plain, Distinct
<1>1. plan.id \notin reused /\ Grows
  BY ReusedGrows, PostsGrow
<1>2. Plain(plan)
  BY <1>1 DEF Plain
<1>3. \A key \in Keys : cache[key] # "none" /\ key[1] = plan.id => \E r \in Turns, b \in Plans : Has(r, b) /\ b.id = plan.id
  BY <1>1 DEF Traced
<1>4. CASE \A r \in Turns, b \in Plans : Has(r, b) => b.id # plan.id
  <2>1. \A key \in Keys : key[1] = plan.id => cache[key] = "none"
    BY <1>3, <1>4
  <2>2. \A key \in Keys : key[1] = plan.id => cache'[key] = "none"
    <3>1. ASSUME NEW r \in Turns, Moves(r), NEW key \in Keys, key[1] = plan.id PROVE cache'[key] = cache[key]
      <4>1. Tools(r) => Has(r, turn[r].plan) /\ turn[r].plan \in Plans
        BY ToolsCall DEF Has, Busy, Ready
      <4> QED
        BY <1>4, <3>1, <4>1, CacheSteps
    <3>2. CacheExpires \/ SessionExpires \/ UNCHANGED vars => cache' = cache \/ \A key \in Keys : cache'[key] = "none"
      BY DEF CacheExpires, SessionExpires, vars
    <3> QED
      BY <2>1, <3>1, <3>2 DEF Next, Moves
  <2>3. <<plan.id, "plain", <<"plan">>>> \in Keys /\ \A m \in 1 .. Len(plan.items) : <<plan.id, "plain", ItemPart(plan, m)>> \in Keys
    BY KeysOfPlan
  <2> QED
    BY <2>2, <2>3 DEF Backed, ItemPart
<1>5. ASSUME NEW s \in Turns, Has(s, plan) PROVE Backed(plan)'
  <2>1. Backed(plan)
    BY <1>2, <1>5 DEF Cached
  <2>2. ASSUME NEW r \in Turns, Tools(r) PROVE Backed(plan)'
    <3>1. Has(r, turn[r].plan) /\ turn[r].plan \in Plans
      BY <2>2, ToolsCall DEF Has, Busy, Ready
    <3>2. CASE turn[r].plan = plan
      <4>1. Progress(turn[r])
        BY <1>2, <3>1, <3>2, Constants DEF Has, Advanced
      <4> QED
        BY <1>1, <2>1, <2>2, <3>2, <4>1, ToolsBack
    <3>3. CASE turn[r].plan # plan
      <4>1. turn[r].plan.id # plan.id
        BY <1>1, <1>5, <3>1, <3>3 DEF Single
      <4>2. Moves(r)
        BY <2>2 DEF Moves, TurnStep, Tools
      <4>3. \A key \in Keys : key[1] = plan.id => cache'[key] = cache[key]
        BY <4>1, <4>2, CacheSteps
      <4> QED
        BY <1>1, <2>1, <4>3, BackedStays
    <3> QED
      BY <3>2, <3>3
  <2>3. CASE cache' = cache
    BY <1>1, <2>1, <2>3, BackedStays
  <2>4. CASE CacheExpires
    BY <2>4, KeysOfPlan DEF CacheExpires, Backed, ItemPart
  <2>5. ASSUME NEW r \in Turns, Moves(r) PROVE cache' = cache \/ Tools(r)
    BY <2>5, CacheSteps
  <2>6. SessionExpires \/ UNCHANGED vars => cache' = cache
    BY DEF SessionExpires, vars
  <2> QED
    BY <2>2, <2>3, <2>4, <2>5, <2>6 DEF Next, Moves
<1> QED
  BY <1>4, <1>5, NewPlans

\* A turn whose plan needs nothing more of it, or that stays where it was.
LEMMA ProgressStays ==
  ASSUME NEW t, Progress(t), Grows
  PROVE  Progress(t)'
<1>1. \A plan, m : Wrote(plan, m) => Wrote(plan, m)'
  BY DEF Wrote, Grows
<1> QED
  BY <1>1, DealtStays DEF Progress, Dealt, DealtAll, DealtThen, DealtAllThen, Wrote

\* A turn that gets an answer for real goes on to its report with everything written but
\* what the answer says was passed over.
LEMMA ReturnedProgress ==
  ASSUME Types, AllFit, NEW r \in Turns, turn[r] \in Busied, turn[r].stage \in Calls, NEW ok \in BOOLEAN, Returns(r, ok), Grows,
         ~turn[r].dry /\ turn[r].source # "tool" => DealtAll(turn[r].plan, ok), turn'[r].plan # None
  PROVE  Progress(turn[r])'
<1> USE DEF Types, Busied
<1>1. \A plan : DealtAll(plan, ok) => DealtAllThen(plan, ok)
  BY DealtStays
<1>2. CASE turn[r].source = "tool"
  BY <1>2 DEF Returns
<1>3. CASE turn[r].source # "tool" /\ turn[r].dry
  <2>1. (turn'[r].stage = "look" /\ ~turn'[r].dry) \/ turn'[r].stage = "clarify"
    BY <1>3 DEF Returns
  <2> QED
    BY <2>1 DEF Progress, Calls
<1>4. CASE turn[r].source # "tool" /\ ~turn[r].dry
  <2>1. turn'[r].stage = "finish" /\ turn'[r].plan = turn[r].plan /\ turn'[r].ok = ok
    BY <1>4 DEF Returns
  <2> QED
    BY <1>1, <1>4, <2>1 DEF Progress, Calls, Dealt, DealtAll, DealtThen, DealtAllThen, Wrote
<1> QED
  BY <1>2, <1>3, <1>4

\* Step by step, a call for real has written what is behind it.
LEMMA ToolsProgress ==
  ASSUME Types, AllFit, Cached, NEW r \in Turns, Tools(r), NEW plan \in Plans, turn[r].plan = plan, Plain(plan),
         Grows, Progress(turn[r]), turn'[r].plan # None
  PROVE  Progress(turn[r])'
<1>1. turn[r] \in Busied /\ turn[r].stage \in Calls /\ Fits(turn[r]) /\ Has(r, plan)
  BY ToolsCall DEF Calling, Calls, AllFit, Has, Busy, Ready
<1>2. Backed(plan)
  BY <1>1 DEF Cached
<1>3. \A m, ok : Dealt(plan, m, ok) => DealtThen(plan, m, ok)
  BY DealtStays
<1>4. turn[r].ok \in BOOLEAN /\ turn[r].n \in Nat /\ Len(plan.items) \in Nat /\ turn[r].n >= 1
  BY <1>1, Bounded DEF Busied
<1>5. CASE BatchLooks(r)
  <2> DEFINE fine == cache[KeyFor(r, <<"plan">>)] # "refused"
  <2>1. CASE Returns(r, fine) /\ plan.kind = "actions" /\ cache[KeyFor(r, <<"plan">>)] # "none"
    <3>1. ~turn[r].dry => KeyFor(r, <<"plan">>) = <<plan.id, "plain", <<"plan">>>>
      BY <1>1 DEF Fits, KeyFor
    <3>2. ~turn[r].dry => DealtAll(plan, fine)
      BY <1>2, <2>1, <3>1 DEF Backed
    <3> HIDE DEF fine
    <3>3. fine \in BOOLEAN
      BY DEF fine
    <3> QED
      BY <1>1, <2>1, <3>2, <3>3, ReturnedProgress
  <2>2. CASE turn' = [turn EXCEPT ![r].stage = "item", ![r].n = 1]
    <3>1. turn'[r].stage = "item" /\ turn'[r].n = 1 /\ turn'[r].dry = turn[r].dry /\ turn'[r].suffix = turn[r].suffix
      BY <1>1, <2>2 DEF Types, Busied
    <3> QED
      BY <1>1, <3>1 DEF Progress
  <2> QED
    BY <1>5, <2>1, <2>2 DEF BatchLooks
<1>6. CASE ItemLooks(r)
  <2> DEFINE key == KeyFor(r, ItemPart(turn[r].plan, turn[r].n))
             fine == cache[key] # "refused"
  <2>1. \/ turn' = [turn EXCEPT ![r].n = @ + 1, ![r].ok = @ /\ fine] /\ (cache[key] # "none" \/ turn[r].dry)
        \/ turn' = [turn EXCEPT ![r].stage = "post"]
    BY <1>6 DEF ItemLooks
  <2>2. turn[r].stage = "item" /\ turn[r].n \in 1 .. Len(plan.items)
    BY <1>4, <1>6 DEF ItemLooks
  <2>3. ~turn[r].dry /\ cache[key] # "none" => Dealt(plan, turn[r].n, fine)
    BY <1>1, <1>2, <2>2 DEF Backed, KeyFor, Fits
  <2>4. fine \in BOOLEAN
    OBVIOUS
  <2> HIDE DEF key, fine
  <2>5. CASE turn' = [turn EXCEPT ![r].n = @ + 1, ![r].ok = @ /\ fine] /\ (cache[key] # "none" \/ turn[r].dry)
    <3>1. /\ turn'[r].stage = "item" /\ turn'[r].n = turn[r].n + 1 /\ turn'[r].dry = turn[r].dry /\ turn'[r].suffix = turn[r].suffix /\ turn'[r].plan = plan
          /\ turn'[r].ok = (turn[r].ok /\ fine)
      BY <1>1, <2>2, <2>5 DEF Types, Busied
    <3>2. ~turn[r].dry => \A m \in 1 .. turn'[r].n - 1 : DealtThen(plan, m, turn'[r].ok)
      <4> SUFFICES ASSUME ~turn[r].dry, NEW m \in 1 .. turn'[r].n - 1 PROVE Dealt(plan, m, turn'[r].ok)
        BY <1>3
      <4>1. m = turn[r].n \/ m \in 1 .. turn[r].n - 1
        BY <1>4, <3>1
      <4>2. Dealt(plan, m, fine) \/ Dealt(plan, m, turn[r].ok)
        BY <2>2, <2>3, <2>5, <4>1 DEF Progress
      <4> QED
        BY <1>4, <2>4, <3>1, <4>2, DealtWorse
    <3> QED
      BY <1>1, <3>1, <3>2 DEF Progress, Dealt, DealtAll, DealtThen, DealtAllThen, Wrote
  <2>6. CASE turn' = [turn EXCEPT ![r].stage = "post"]
    <3>1. /\ turn'[r].stage = "post" /\ turn'[r].n = turn[r].n /\ turn'[r].dry = turn[r].dry /\ turn'[r].suffix = turn[r].suffix /\ turn'[r].plan = plan
          /\ turn'[r].ok = turn[r].ok
      BY <1>1, <2>6 DEF Types, Busied
    <3> QED
      BY <1>1, <1>3, <2>2, <3>1 DEF Progress, Dealt, DealtAll, DealtThen, DealtAllThen, Wrote
  <2> QED
    BY <2>1, <2>5, <2>6
<1>7. CASE ItemPosts(r)
  <2>1. /\ turn'[r].stage = "posted" /\ turn'[r].n = turn[r].n /\ turn'[r].dry = turn[r].dry /\ turn'[r].suffix = turn[r].suffix /\ turn'[r].plan = plan
        /\ turn'[r].ok = turn[r].ok
    BY <1>1, <1>7 DEF ItemPosts, Types, Busied
  <2>2. Wrote(plan, turn[r].n)'
    <3>1. <<r, plan, turn[r].n, turn[r].source>> \in posts'
      BY <1>7 DEF ItemPosts, Taken
    <3> QED
      BY <2>1, <3>1 DEF Wrote
  <2> QED
    BY <1>1, <1>3, <1>7, <2>1, <2>2 DEF Progress, ItemPosts, Dealt, DealtAll, DealtThen, DealtAllThen, Wrote
<1>8. CASE ItemAnswered(r)
  <2>1. turn[r].stage = "posted" /\ ~turn[r].dry
    BY <1>1, <1>8 DEF ItemAnswered, Fits
  <2>2. /\ turn'[r].stage = "item" /\ turn'[r].n = turn[r].n + 1 /\ turn'[r].dry = turn[r].dry /\ turn'[r].suffix = turn[r].suffix /\ turn'[r].plan = plan
        /\ turn'[r].ok = turn[r].ok
    BY <1>1, <1>4, <1>8 DEF ItemAnswered, Types, Busied
  <2>3. \A m \in 1 .. turn'[r].n - 1 : DealtThen(plan, m, turn'[r].ok)
    <3> SUFFICES ASSUME NEW m \in 1 .. turn'[r].n - 1 PROVE Dealt(plan, m, turn'[r].ok)
      BY <1>3
    <3>1. m = turn[r].n \/ m \in 1 .. turn[r].n - 1
      BY <1>4, <2>2
    <3> QED
      BY <2>1, <2>2, <3>1 DEF Progress, Dealt
  <2> QED
    BY <2>1, <2>2, <2>3 DEF Progress, Dealt, DealtAll, DealtThen, DealtAllThen, Wrote
<1>9. CASE BatchAnswered(r)
  <2>1. Returns(r, turn[r].ok) /\ turn[r].stage = "item" /\ turn[r].n > Len(plan.items)
    BY <1>9 DEF BatchAnswered
  <2>2. ~turn[r].dry => DealtAll(plan, turn[r].ok)
    <3> SUFFICES ASSUME ~turn[r].dry, NEW m \in 1 .. Len(plan.items) PROVE Dealt(plan, m, turn[r].ok)
      BY DEF DealtAll
    <3>1. m \in 1 .. turn[r].n - 1
      BY <1>4, <2>1
    <3> QED
      BY <2>1, <3>1 DEF Progress
  <2> QED
    BY <1>1, <1>4, <2>1, <2>2, ReturnedProgress
<1>10. CASE ItemInvalid(r) \/ ItemUnsupported(r)
  <2>1. /\ Refuses(r) /\ turn[r].stage \in {"item", "post"} /\ turn[r].n \in 1 .. Len(plan.items)
    BY <1>10, Refused DEF ItemInvalid, ItemUnsupported
  <2>2. /\ turn'[r].stage = "item" /\ turn'[r].n = turn[r].n + 1 /\ turn'[r].dry = turn[r].dry /\ turn'[r].suffix = turn[r].suffix /\ turn'[r].plan = plan
        /\ turn'[r].ok = FALSE
    BY <1>1, <1>4, <2>1 DEF Refuses, Types, Busied
  <2>3. ASSUME ~turn[r].dry, NEW m \in 1 .. turn'[r].n - 1 PROVE DealtThen(plan, m, FALSE)
    <3>1. CASE m = turn[r].n
      BY <2>1, <2>3, <3>1 DEF Refuses, DealtThen
    <3>2. CASE m \in 1 .. turn[r].n - 1
      <4>1. Dealt(plan, m, turn[r].ok)
        BY <2>1, <2>3, <3>2 DEF Progress
      <4>2. Dealt(plan, m, FALSE)
        BY <4>1 DEF Dealt
      <4> QED
        BY <1>3, <4>2
    <3>3. m = turn[r].n \/ m \in 1 .. turn[r].n - 1
      BY <1>4, <2>2, <2>3
    <3> QED
      BY <3>1, <3>2, <3>3
  <2> QED
    BY <1>1, <2>1, <2>2, <2>3 DEF Progress, Dealt, DealtAll, DealtThen, DealtAllThen, Wrote
<1> QED
  BY <1>5, <1>6, <1>7, <1>8, <1>9, <1>10 DEF Tools

\* So every turn is as far as it seems.
LEMMA NextAdvanced ==
  ASSUME Types, AllFit, Traced, Single, Cached, Advanced, [Next]_vars
  PROVE  Advanced'
<1>1. reused \subseteq reused' /\ Grows
  BY ReusedGrows, PostsGrow
<1> SUFFICES ASSUME NEW q \in Turns, turn'[q] # Ready, turn'[q].plan # None, Plain(turn[q].plan)'
             PROVE  Progress(turn[q])'
  BY DEF Advanced
<1>2. Plain(turn'[q].plan)
  BY <1>1 DEF Plain, Distinct
<1>3. CASE turn'[q] = turn[q]
  BY <1>1, <1>2, <1>3, ProgressStays DEF Advanced
<1>4. ASSUME NEW r \in Turns, Moves(r), r = q PROVE Progress(turn[q])'
  <2>1. CASE Tools(r)
    <3>1. turn[r] \in Busied /\ turn[r].plan \in Plans /\ turn[r] # Ready
      BY <2>1, ToolsCall DEF Busy, Ready
    <3>2. turn'[r].plan = turn[r].plan
      BY <1>4, <2>1, PlanSteps, <3>1, Constants DEF Keeps, Drops, Takes, Makes
    <3>3. Progress(turn[r])
      BY <1>2, <1>4, <3>1, <3>2, Constants DEF Advanced
    <3> QED
      BY <1>1, <1>2, <1>4, <2>1, <3>1, <3>2, <3>3, ToolsProgress
  <2>2. CASE Finish(r) \/ FinishConfirmed(r)
    <3>1. turn[r].stage = "finish" /\ turn'[r] = [stage |-> "done", outcome |-> "executed", plan |-> turn[r].plan, ok |-> turn[r].ok]
      BY <2>2 DEF Finish, FinishConfirmed, Reported, Ends, Types
    <3>2. Progress(turn[r])
      BY <1>2, <1>4, <3>1 DEF Advanced, Ready
    <3>3. DealtAllThen(turn[r].plan, turn'[r].ok)
      <4>1. DealtAll(turn[r].plan, turn[r].ok)
        BY <3>1, <3>2 DEF Progress
      <4> QED
        BY <1>1, <3>1, <4>1, DealtStays
    <3> QED
      BY <1>4, <3>1, <3>3 DEF Progress, Calls, Dealt, DealtAll, DealtThen, DealtAllThen, Wrote
  <2>3. CASE \/ Cancel(r) \/ Answer(r) \/ NoFinal(r) \/ Proposed(r) \/ Clarify(r) \/ WriteFails(r) \/ TurnFails(r)
    <3>1. turn'[r].stage = "done" /\ turn'[r].outcome # "executed"
      BY <2>3 DEF Cancel, Answer, NoFinal, Proposed, Clarify, WriteFails, TurnFails, Ends, Types
    <3> QED
      BY <1>4, <3>1 DEF Progress, Calls
  <2>4. CASE \E input \in Inputs : Begin(r, input)
    BY <1>4, <2>4 DEF Begin, Types
  <2>5. CASE Confirm(r)
    <3>1. turn[r] \in Busied
      BY <2>5, BusyTurns DEF Confirm, Busy
    <3>2. turn'[r].stage = "look" /\ ~turn'[r].dry
      BY <2>5, <3>1 DEF Confirm, Types, Busied, AllFit, Fits, Busy
    <3> QED
      BY <1>4, <3>2 DEF Progress
  <2>6. ASSUME NEW p \in Plans, Propose(r, p) PROVE Progress(turn[q])'
    <3>1. turn[r] \in Busied
      BY <2>6, BusyTurns DEF Propose, Busy
    <3>2. turn'[r].stage = "propose"
      BY <2>6, <3>1 DEF Propose, Types, Busied
    <3> QED
      BY <1>4, <3>2 DEF Progress, Calls
  <2>7. ASSUME NEW p \in Plans, Execute(r, p) PROVE Progress(turn[q])'
    <3>1. turn[r] \in Busied
      BY <2>7, BusyTurns DEF Execute, Busy
    <3>2. turn'[r].stage = "look" /\ turn'[r].suffix = "dryrun"
      BY <2>7, <3>1 DEF Execute, Types, Busied
    <3> QED
      BY <1>4, <3>2 DEF Progress
  <2>8. ASSUME NEW p \in Plans, NEW asked \in BOOLEAN, ToolCall(r, p, asked) PROVE Progress(turn[q])'
    <3>1. turn[r] \in Busied
      BY <2>8, BusyTurns DEF ToolCall, Busy
    <3>2. turn'[r].plan = p /\ p.id \in reused'
      BY <2>8, <3>1 DEF ToolCall, Types, Busied
    <3> QED
      BY <1>4, <3>2 DEF Plain
  <2> QED
    BY <1>4, <2>1, <2>2, <2>3, <2>4, <2>5, <2>6, <2>7, <2>8 DEF Moves, TurnStep, Tools
<1>5. ASSUME NEW r \in Turns, Moves(r), r # q PROVE turn'[q] = turn[q]
  BY <1>5, Others
<1>6. CacheExpires \/ SessionExpires \/ UNCHANGED vars => turn' = turn
  BY DEF CacheExpires, SessionExpires, vars
<1> QED
  BY <1>3, <1>4, <1>5, <1>6 DEF Next, Moves

-----------------------------------------------------------------------------
(* The invariant and what it gives.                                         *)

\* Only a plan is reported as executed.
LEMMA NextEnded ==
  ASSUME Types, AllFit, Ended, [Next]_vars
  PROVE  Ended'
<1>1. ASSUME NEW r \in Turns, Moves(r), turn'[r].stage = "done", turn'[r].outcome = "executed"
      PROVE  turn'[r].plan # None
  <2>1. CASE Finish(r) \/ FinishConfirmed(r)
    BY <2>1 DEF Finish, FinishConfirmed, Reported, Ends, Types, AllFit, Fits, Busy
  <2>2. ~(Cancel(r) \/ Answer(r) \/ NoFinal(r) \/ Proposed(r) \/ Clarify(r) \/ WriteFails(r) \/ TurnFails(r))
    BY <1>1 DEF Cancel, Answer, NoFinal, Proposed, Clarify, WriteFails, TurnFails, Ends, Types
  <2>3. ~\E input \in Inputs : Begin(r, input)
    BY <1>1 DEF Begin, Types
  <2>4. ~Tools(r)
    <3> SUFFICES ASSUME Tools(r) PROVE FALSE
      OBVIOUS
    <3>1. turn[r] \in Busied /\ turn[r].stage \in Calls
      BY ToolsCall DEF Calling, Calls
    <3> USE <3>1 DEF Types, Busied, Calls
    <3>2. \A ok : Returns(r, ok) => turn'[r].stage # "done"
      BY DEF Returns
    <3>3. ~(BatchLooks(r) \/ BatchAnswered(r))
      BY <1>1, <3>2 DEF BatchLooks, BatchAnswered
    <3>4. ~(ItemLooks(r) \/ ItemInvalid(r) \/ ItemUnsupported(r))
      BY <1>1 DEF ItemLooks, ItemInvalid, ItemUnsupported, Refuses
    <3>5. ~ItemPosts(r)
      BY <1>1 DEF ItemPosts
    <3>6. ~ItemAnswered(r)
      BY <1>1 DEF ItemAnswered
    <3> QED
      BY <3>3, <3>4, <3>5, <3>6 DEF Tools
  <2>5. ~Confirm(r)
    <3> SUFFICES ASSUME Confirm(r) PROVE FALSE
      OBVIOUS
    <3>1. turn[r] \in Busied
      BY BusyTurns DEF Confirm, Busy
    <3> QED
      BY <1>1, <3>1 DEF Confirm, Types, Busied
  <2>6. ASSUME NEW p \in Plans, Propose(r, p) PROVE FALSE
    <3>1. turn[r] \in Busied
      BY <2>6, BusyTurns DEF Propose, Busy
    <3> QED
      BY <1>1, <2>6, <3>1 DEF Propose, Types, Busied
  <2>7. ASSUME NEW p \in Plans, Execute(r, p) PROVE FALSE
    <3>1. turn[r] \in Busied
      BY <2>7, BusyTurns DEF Execute, Busy
    <3> QED
      BY <1>1, <2>7, <3>1 DEF Execute, Types, Busied
  <2>8. ASSUME NEW p \in Plans, NEW asked \in BOOLEAN, ToolCall(r, p, asked) PROVE FALSE
    <3>1. turn[r] \in Busied
      BY <2>8, BusyTurns DEF ToolCall, Busy
    <3> QED
      BY <1>1, <2>8, <3>1 DEF ToolCall, Types, Busied
  <2> QED
    BY <1>1, <2>1, <2>2, <2>3, <2>4, <2>5, <2>6, <2>7, <2>8 DEF Moves, TurnStep, Tools
<1>2. ASSUME NEW r \in Turns, Moves(r) PROVE Ended'
  BY <1>1, <1>2, Others DEF Ended
<1>3. CacheExpires \/ SessionExpires \/ UNCHANGED vars => turn' = turn
  BY DEF CacheExpires, SessionExpires, vars
<1> QED
  BY <1>2, <1>3 DEF Next, Moves, Ended

\* The invariant holds at first,
LEMMA InitIInv == Init => IInv
<1> SUFFICES ASSUME Init PROVE IInv
  OBVIOUS
<1> USE DEF Init, Ready
<1>1. Types /\ AllFit
  BY InitTypes
<1>2. Posted /\ Remembered /\ NotWrittenTwice
  BY DEF Posted, Remembered, NotWrittenTwice
<1>3. Orderly /\ Exclusive /\ Clear /\ Asked
  BY DEF Orderly, Exclusive, Clear, Asked, Busy, Calling, Calls
<1>4. Traced
  BY DEF Traced, Held, Busy
<1>5. Single /\ Cached /\ Advanced
  BY DEF Single, Cached, Advanced, Has
<1>6. Ended
  BY DEF Ended
<1> QED
  BY <1>1, <1>2, <1>3, <1>4, <1>5, <1>6 DEF IInv

\* and every step keeps it.
LEMMA NextIInv == IInv /\ [Next]_vars => IInv'
<1> SUFFICES ASSUME IInv, [Next]_vars PROVE IInv'
  OBVIOUS
<1> USE DEF IInv
<1>1. Types' /\ AllFit'
  BY NextTypesStutter
<1>2. Posted' /\ Orderly'
  BY NextPosted, NextOrderly
<1>3. Exclusive' /\ Clear' /\ Remembered' /\ NotWrittenTwice'
  BY NextExclusive, NextClear, NextRemembered, NextWritten
<1>4. Asked' /\ Traced' /\ Single'
  BY NextAsked, NextTraced, NextSingle
<1>5. Cached' /\ Advanced' /\ Ended'
  BY NextCached, NextAdvanced, NextEnded
<1> QED
  BY <1>1, <1>2, <1>3, <1>4, <1>5

\* The invariant: whatever turns overlap, fail, use ids again or meet an empty cache.
THEOREM TurnsInvariant == Spec => []IInv
BY InitIInv, NextIInv, PTL DEF Spec

\* What a confirmation would execute is what the user was shown last, for any number of
\* turns that neither overlap nor fail.
THEOREM OfferedIsPending == Spec => []PendingAsOffered
<1>1. IInv => PendingAsOffered
  BY DEF IInv, Orderly, PendingAsOffered
<1> QED
  BY <1>1, TurnsInvariant, PTL

\* No binding and no risky action that a plan names itself is written without the user
\* having confirmed, for any plans, modes and answers of the model.
THEOREM ConfirmedBeforeWritten == Spec => []WritesAreConfirmed
<1>1. IInv => WritesAreConfirmed
  <2> SUFFICES ASSUME IInv, NEW p \in posts, p[2].kind = "writes" \/ p[2].items[p[3]] \in Risky \ SceneSteps
               PROVE  p[4] = "session"
    BY DEF WritesAreConfirmed
  <2>1. p[2] \in Plans /\ p[3] \in 1 .. Longest /\ p[4] \in Sources
    BY DEF IInv, Types
  <2>2. p[3] <= Len(p[2].items) /\ p[4] # "tool" /\ (p[4] = "model" => Executes(p[2]))
    BY DEF IInv, Posted
  <2>3. Len(p[2].items) \in Nat
    BY <2>1, Bounded
  <2>4. p[3] \in 1 .. Len(p[2].items)
    BY <2>1, <2>2, <2>3
  <2>5. p[2].items[p[3]] \in ItemsOf(p[2])
    BY <2>4 DEF ItemsOf
  <2> QED
    BY <2>1, <2>2, <2>5 DEF Executes, Sources
<1> QED
  BY <1>1, TurnsInvariant, PTL

\* The cache makes an item written once, for any number of turns that bring a plan back,
\* unless calls overlapped, an answer was lost or the cache expired.
THEOREM WrittenOnce == Spec => []NotWrittenTwice
<1>1. IInv => NotWrittenTwice
  BY DEF IInv
<1> QED
  BY <1>1, TurnsInvariant, PTL

\* And no execution is reported that did not write every item of its plan, but those that
\* its answer says were passed over, unless an id was used again or a device gets an
\* action twice.
THEOREM WrittenBeforeReported == Spec => []ReportedIsWritten
<1>1. IInv => ReportedIsWritten
  <2> SUFFICES ASSUME IInv, NEW r \in Turns, turn[r].stage = "done", turn[r].outcome = "executed",
                      turn[r].plan.id \notin reused, Distinct(turn[r].plan)
               PROVE  DealtAll(turn[r].plan, turn[r].ok)
    BY DEF ReportedIsWritten, DealtAll, Dealt, Wrote
  <2>1. turn[r] # Ready
    BY DEF Ready
  <2>2. CASE turn[r].plan # None
    BY <2>1, <2>2 DEF IInv, Advanced, Plain, Progress
  <2>3. turn[r].plan # None
    BY DEF IInv, Ended
  <2> QED
    BY <2>2, <2>3
<1> QED
  BY <1>1, TurnsInvariant, PTL

-----------------------------------------------------------------------------
(* The standby of the agent, for any clients, inventories and bounds.       *)

\* What was read is at least as recent as n.
Since(got, n) == \A k \in Kinds : got[k] \in Nat => got[k] >= n

\* A turn reads later than it began, and what it has read is recent enough.
Served(r) ==
  r.stage # "idle" =>
    /\ r.stage = "reading" => r.since <= r.from
    /\ r.stage = "joined" => r.since = 0
    /\ r.stage = "acting" => Holds(r.got)
    /\ Since(r.got, r.since)
ServedSince == \A c \in Clients : Served(serving[c])

NoneActive == \A c \in Clients : ~Active(c)

\* Between turns the standby, or the fetch that replaces it, shows what the next turn
\* should see, which the store knows of.
InOrder ==
  /\ known <= effects
  /\ NoneActive =>
       /\ fetch # Nothing => fetch.from >= known /\ Since(fetch.got, known)
       /\ fetch = Nothing /\ standby # Nothing => Since(standby, known)

\* A standby is written with the catalogue, which then is there for good.
Catalogued == standby # Nothing => catalogue = "known"

StandbyInv == StandbyTypeOK /\ ServedSince /\ InOrder /\ Catalogued /\ StandbyIsKept

-----------------------------------------------------------------------------
(* Parts of the steps.                                                      *)

\* A fetch that has not been answered is of the moment it began.
LEMMA NewFetch ==
  ASSUME NEW f, f = [from |-> effects, got |-> NothingYet], effects \in Nat
  PROVE  f \in Fetch /\ f # Nothing /\ f.from = effects /\ Since(f.got, effects)
BY StandbyAssumption DEF Fetch, Reading, NothingYet, Since

\* prewarm keeps a fetch under way, and when forced leaves one.
LEMMA PrewarmFacts ==
  ASSUME StandbyTypeOK, Catalogued, NEW force \in BOOLEAN, Prewarm(force), standby' = standby
  PROVE  /\ fetch' = Nothing \/ fetch' \in Fetch
         /\ catalogue' \in {"unknown", "asked", "known"}
         /\ Catalogued'
         /\ fetch # Nothing => fetch' = fetch
         /\ fetch = Nothing /\ (force \/ ~HasCompleteFreshStandby) =>
              fetch' # Nothing /\ fetch'.from = effects /\ Since(fetch'.got, effects)
<1>1. CASE fetch # Nothing \/ (~force /\ HasCompleteFreshStandby)
  BY <1>1 DEF Prewarm, StandbyTypeOK, Catalogued
<1>2. CASE ~(fetch # Nothing \/ (~force /\ HasCompleteFreshStandby))
  <2>1. fetch' = [from |-> effects, got |-> NothingYet] /\ CatalogueNeeded
    BY <1>2 DEF Prewarm
  <2>2. fetch' \in Fetch /\ fetch' # Nothing /\ fetch'.from = effects /\ Since(fetch'.got, effects)
    BY <2>1, NewFetch DEF StandbyTypeOK
  <2> QED
    BY <1>2, <2>1, <2>2 DEF CatalogueNeeded, StandbyTypeOK, Catalogued
<1> QED
  BY <1>1, <1>2

\* What a turn takes from the standby keeps its place; the rest it reads from now on.
LEMMA BootstrapFacts ==
  ASSUME effects \in Nat, NEW stock \in Stock, NEW used \in BOOLEAN, NEW n \in Nat, n <= effects, Since(stock, n)
  PROVE  /\ Bootstrap(stock, used, n) \in Serving /\ Served(Bootstrap(stock, used, n))
         /\ Bootstrap(stock, used, n).stage # "idle"
<1>1. Lacking(stock) \in Reading /\ Since(Lacking(stock), n)
  BY StandbyAssumption DEF Stock, Reading, Since, Lacking
<1> QED
  BY <1>1 DEF Bootstrap, Serving, Served

\* A stock has nothing that is still awaited, and an empty one nothing that is old.
LEMMA StockHolds == ASSUME NEW stock \in Stock PROVE Holds(stock)
BY StandbyAssumption DEF Stock, Holds

LEMMA EmptyStock == ASSUME NEW n PROVE NoStock \in Stock /\ Since(NoStock, n)
BY StandbyAssumption DEF NoStock, Stock, Since

\* A turn that had joined a fetch then reads from a snapshot, or for itself.
LEMMA JoinedReads ==
  ASSUME StandbyInv, NEW c \in Clients, serving[c].stage = "joined", NEW stock \in Stock, NEW used \in BOOLEAN
  PROVE  LET r == Bootstrap(stock, used, serving[c].since)
         IN  r \in Serving /\ Served(r) /\ r.stage # "idle"
<1>1. serving[c].since = 0 /\ effects \in Nat
  BY DEF StandbyInv, ServedSince, Served, StandbyTypeOK
<1>2. 0 <= effects /\ Since(stock, 0)
  BY <1>1 DEF Since, Stock
<1> QED
  BY <1>1, <1>2, BootstrapFacts

\* A step of one turn leaves the others as they are.
LEMMA OneClient ==
  ASSUME StandbyInv, NEW c \in Clients, NEW new \in Serving, serving' = [serving EXCEPT ![c] = new], Served(new)
  PROVE  /\ serving' \in [Clients -> Serving] /\ ServedSince'
         /\ new.stage # "idle" => ~NoneActive'
<1>1. serving \in [Clients -> Serving]
  BY DEF StandbyInv, StandbyTypeOK
<1>2. \A d \in Clients : serving'[d] = IF d = c THEN new ELSE serving[d]
  BY <1>1
<1> QED
  BY <1>1, <1>2 DEF StandbyInv, ServedSince, Served, Since, NoneActive, Active

-----------------------------------------------------------------------------
(* The steps of the standby.                                                *)

LEMMA StandbyInitially == ASSUME StandbyInit PROVE StandbyInv
<1>1. fetch \in Fetch /\ fetch.from = effects /\ Since(fetch.got, effects)
  BY NewFetch DEF StandbyInit
<1>2. Idle \in Serving
  BY DEF Idle, Serving, NothingYet, Reading
<1>3. StandbyTypeOK
  <2>1. fresh \in BOOLEAN /\ armed \in BOOLEAN
    BY DEF StandbyInit
  <2>2. serving \in [Clients -> Serving]
    BY <1>2 DEF StandbyInit
  <2> QED
    BY <1>1, <2>1, <2>2 DEF StandbyInit, StandbyTypeOK
<1>4. ServedSince
  BY DEF StandbyInit, ServedSince, Served, Idle
<1> QED
  BY <1>1, <1>3, <1>4, NewFetch DEF StandbyInit, StandbyInv, InOrder, Catalogued, StandbyIsKept

LEMMA TimerFiresKeeps == ASSUME StandbyInv, TimerFires PROVE StandbyInv'
<1>1. /\ fetch' = Nothing \/ fetch' \in Fetch
      /\ catalogue' \in {"unknown", "asked", "known"} /\ Catalogued'
      /\ fetch # Nothing => fetch' = fetch
      /\ fetch = Nothing => fetch' # Nothing /\ fetch'.from = effects /\ Since(fetch'.got, effects)
  BY PrewarmFacts DEF TimerFires, StandbyInv
<1>2. StandbyTypeOK'
  BY <1>1 DEF TimerFires, StandbyInv, StandbyTypeOK
<1>3. ServedSince'
  BY DEF TimerFires, StandbyInv, ServedSince, Served
<1>4. InOrder'
  BY <1>1 DEF TimerFires, StandbyInv, StandbyTypeOK, InOrder, NoneActive, Active, AtRest, Since
<1>5. StandbyIsKept'
  BY <1>1 DEF StandbyIsKept
<1> QED
  BY <1>1, <1>2, <1>3, <1>4, <1>5 DEF StandbyInv

LEMMA FetchReadsKeeps ==
  ASSUME StandbyInv, NEW k \in Kinds, NEW v \in (0 .. MaxEffects) \cup {Missing}, FetchReads(k, v) PROVE StandbyInv'
<1>1. fetch \in Fetch /\ v \in Nat \cup {Missing} /\ effects \in Nat
  BY StandbyAssumption DEF FetchReads, StandbyInv, StandbyTypeOK
<1>2. fetch' = [from |-> fetch.from, got |-> [fetch.got EXCEPT ![k] = v]] /\ fetch.got \in Reading
  BY <1>1 DEF FetchReads, Fetch
<1>3. fetch' \in Fetch
  BY <1>1, <1>2 DEF Fetch, Reading
<1>4. fetch' # Nothing
  BY <1>3, StandbyAssumption
<1>5. StandbyTypeOK'
  BY <1>3 DEF FetchReads, Trouble, StandbyInv, StandbyTypeOK
<1>6. ServedSince'
  BY DEF FetchReads, StandbyInv, ServedSince, Served
<1>7. fetch.from >= known /\ Since(fetch.got, known) => fetch'.from >= known /\ Since(fetch'.got, known)
  <2>1. fetch.from \in Nat /\ known \in Nat
    BY <1>1 DEF Fetch, StandbyInv, StandbyTypeOK
  <2> QED
    BY <1>1, <1>2, <2>1, StandbyAssumption DEF FetchReads, Read, Since, Reading
<1>8. InOrder'
  BY <1>4, <1>7 DEF FetchReads, StandbyInv, InOrder, NoneActive, Active, Since
<1> QED
  BY <1>4, <1>5, <1>6, <1>8 DEF FetchReads, StandbyInv, Catalogued, StandbyIsKept

LEMMA FetchEndsKeeps == ASSUME StandbyInv, FetchEnds PROVE StandbyInv'
<1>1. fetch \in Fetch /\ fetch.got \in Reading /\ Holds(fetch.got) /\ effects \in Nat
  BY DEF FetchEnds, StandbyInv, StandbyTypeOK, Fetch
<1>2. fetch.got \in Stock
  BY <1>1 DEF Holds, Reading, Stock
<1>3. \A c \in Clients :
        serving[c].stage = "joined" =>
          /\ Bootstrap(fetch.got, TRUE, serving[c].since) \in Serving
          /\ Served(Bootstrap(fetch.got, TRUE, serving[c].since))
          /\ Bootstrap(fetch.got, TRUE, serving[c].since).stage # "idle"
  BY <1>2, JoinedReads
<1>4. serving \in [Clients -> Serving]
  BY DEF StandbyInv, StandbyTypeOK
<1>5. StandbyTypeOK'
  BY <1>2, <1>3, <1>4 DEF FetchEnds, Writes, StandbyInv, StandbyTypeOK
<1>6. ServedSince'
  BY <1>3, <1>4 DEF FetchEnds, StandbyInv, ServedSince
<1>7. NoneActive' => NoneActive
  BY <1>3, <1>4 DEF FetchEnds, NoneActive, Active
<1>8. InOrder'
  BY <1>7 DEF FetchEnds, Writes, StandbyInv, InOrder, Since
<1> QED
  BY <1>5, <1>6, <1>8 DEF FetchEnds, Writes, StandbyInv, Catalogued, StandbyIsKept

LEMMA CatalogueFailsKeeps == ASSUME StandbyInv, CatalogueFails PROVE StandbyInv'
<1>1. standby = Nothing /\ effects \in Nat
  BY DEF CatalogueFails, StandbyInv, Catalogued, StandbyTypeOK
<1>2. \A c \in Clients :
        serving[c].stage = "joined" =>
          /\ Bootstrap(NoStock, FALSE, serving[c].since) \in Serving
          /\ Served(Bootstrap(NoStock, FALSE, serving[c].since))
  BY EmptyStock, JoinedReads
<1>3. serving \in [Clients -> Serving] /\ Idle \in Serving /\ Served(Idle)
  BY DEF StandbyInv, StandbyTypeOK, Idle, Serving, NothingYet, Reading, Served
<1>4. StandbyTypeOK'
  <2>1. serving' \in [Clients -> Serving]
    BY <1>2, <1>3 DEF CatalogueFails
  <2>2. catalogue' \in {"unknown", "asked", "known"}
    BY DEF CatalogueFails
  <2>3. troubles' \in Nat /\ fetch' = Nothing
    BY DEF CatalogueFails, StandbyInv, StandbyTypeOK
  <2>4. fresh' \in BOOLEAN /\ armed' \in BOOLEAN /\ known' \in Nat /\ queued' \in Nat
    BY DEF CatalogueFails, StandbyInv, StandbyTypeOK
  <2> QED
    BY <1>1, <2>1, <2>2, <2>3, <2>4 DEF CatalogueFails, StandbyInv, StandbyTypeOK
<1>5. ServedSince'
  BY <1>2, <1>3 DEF CatalogueFails, StandbyInv, ServedSince
<1> QED
  BY <1>1, <1>4, <1>5 DEF CatalogueFails, StandbyInv, InOrder, Catalogued, StandbyIsKept

-----------------------------------------------------------------------------
(* The steps of the turns.                                                  *)

\* A turn that starts is active, so nothing is asked of the standby meanwhile.
LEMMA StartsFacts ==
  ASSUME StandbyInv, NEW c \in Clients, NEW r \in Serving, Served(r), r.stage # "idle", Starts(c, r)
  PROVE  serving' \in [Clients -> Serving] /\ known' = Should /\ ServedSince' /\ ~NoneActive'
BY OneClient DEF Starts

LEMMA ShouldFacts ==
  ASSUME StandbyInv
  PROVE  /\ effects \in Nat /\ Should \in Nat /\ Should <= effects
         /\ fetch # Nothing => Should = 0
         /\ standby # Nothing => Since(standby, Should)
<1>1. effects \in Nat /\ known \in Nat /\ (standby # Nothing => standby \in Stock)
  BY DEF StandbyInv, StandbyTypeOK
<1>2. CASE AtRest
  BY <1>1, <1>2 DEF Should, AtRest, StandbyInv, InOrder, NoneActive
<1>3. CASE ~AtRest
  BY <1>1, <1>3 DEF Should, Since
<1> QED
  BY <1>2, <1>3

LEMMA AskKeeps == ASSUME StandbyInv, NEW c \in Clients, Ask(c) PROVE StandbyInv'
<1> DEFINE Begun == serving' \in [Clients -> Serving] /\ known' = Should /\ ServedSince' /\ ~NoneActive'
<1>1. \/ HasFreshStandby /\ Starts(c, Bootstrap(standby, TRUE, Should)) /\ catalogue' = catalogue
      \/ fetch # Nothing /\ Starts(c, Joining) /\ catalogue' = catalogue
      \/ Starts(c, Bootstrap(NoStock, FALSE, Should)) /\ CatalogueNeeded
  BY DEF Ask
<1>2. ASSUME HasFreshStandby /\ Starts(c, Bootstrap(standby, TRUE, Should)) PROVE Begun
  <2>1. standby \in Stock /\ Since(standby, Should)
    BY <1>2, ShouldFacts DEF HasFreshStandby, StandbyInv, StandbyTypeOK
  <2> QED
    BY <1>2, <2>1, ShouldFacts, BootstrapFacts, StartsFacts
<1>3. ASSUME Starts(c, Joining) PROVE Begun
  <2>1. NothingYet \in Reading /\ Since(NothingYet, 0)
    BY StandbyAssumption DEF NothingYet, Reading, Since
  <2>2. Joining \in Serving /\ Served(Joining) /\ Joining.stage # "idle"
    BY <2>1 DEF Joining, Serving, Served
  <2> QED
    BY <1>3, <2>2, StartsFacts
<1>4. ASSUME Starts(c, Bootstrap(NoStock, FALSE, Should)) PROVE Begun
  <2>1. NoStock \in Stock /\ Since(NoStock, Should)
    BY EmptyStock
  <2> QED
    BY <1>4, <2>1, ShouldFacts, BootstrapFacts, StartsFacts
<1>5. Begun
  BY <1>1, <1>2, <1>3, <1>4
<1>6. catalogue' \in {"unknown", "asked", "known"} /\ (catalogue = "known" => catalogue' = "known")
  BY <1>1 DEF CatalogueNeeded, StandbyInv, StandbyTypeOK
<1>7. StandbyTypeOK'
  BY <1>5, <1>6, ShouldFacts DEF Ask, StandbyInv, StandbyTypeOK
<1> QED
  BY <1>5, <1>6, <1>7, ShouldFacts DEF Ask, StandbyInv, InOrder, Catalogued, StandbyIsKept

LEMMA DecideKeeps == ASSUME StandbyInv, NEW c \in Clients, Decide(c) PROVE StandbyInv'
<1>1. NoStock \in Reading /\ Holds(NoStock) /\ Since(NoStock, Should)
  BY EmptyStock, StockHolds DEF NoStock, Reading
<1>2. Deciding \in Serving /\ Served(Deciding) /\ Deciding.stage # "idle"
  BY <1>1, ShouldFacts DEF Deciding, Serving, Served
<1>3. serving' \in [Clients -> Serving] /\ known' = Should /\ ServedSince' /\ ~NoneActive'
  BY <1>2, StartsFacts DEF Decide
<1>4. StandbyTypeOK'
  BY <1>3, ShouldFacts DEF Decide, StandbyInv, StandbyTypeOK
<1> QED
  BY <1>3, <1>4, ShouldFacts DEF Decide, StandbyInv, InOrder, Catalogued, StandbyIsKept

LEMMA TurnReadsKeeps ==
  ASSUME StandbyInv, NEW c \in Clients, NEW k \in Kinds, NEW v \in (0 .. MaxEffects) \cup {Missing}, TurnReads(c, k, v)
  PROVE  StandbyInv'
<1> DEFINE new == [serving[c] EXCEPT !.got[k] = v]
<1>1. serving[c] \in Serving /\ v \in Nat \cup {Missing} /\ effects \in Nat /\ Served(serving[c])
  BY StandbyAssumption DEF StandbyInv, StandbyTypeOK, ServedSince
<1>2. new = [stage |-> "reading", used |-> serving[c].used, from |-> serving[c].from,
             got |-> [serving[c].got EXCEPT ![k] = v], since |-> serving[c].since]
  BY <1>1 DEF TurnReads, Serving
<1>3. serving[c].got \in Reading /\ [serving[c].got EXCEPT ![k] = v] \in Reading
  BY <1>1 DEF Serving, Reading
<1>4. v \in Nat => v >= serving[c].since
  BY <1>1, StandbyAssumption DEF TurnReads, Read, Served, Serving
<1>5. Since([serving[c].got EXCEPT ![k] = v], serving[c].since)
  BY <1>1, <1>3, <1>4 DEF TurnReads, Served, Since, Reading
<1>6. new \in Serving /\ Served(new) /\ new.stage = "reading"
  BY <1>1, <1>2, <1>3, <1>5 DEF TurnReads, Serving, Served
<1>7. serving' = [serving EXCEPT ![c] = new]
  BY <1>1 DEF TurnReads, StandbyInv, StandbyTypeOK
<1>8. serving' \in [Clients -> Serving] /\ ServedSince' /\ ~NoneActive'
  BY <1>6, <1>7, OneClient
<1>9. StandbyTypeOK'
  BY <1>8 DEF TurnReads, Trouble, StandbyInv, StandbyTypeOK
<1> QED
  BY <1>8, <1>9 DEF TurnReads, StandbyInv, InOrder, Catalogued, StandbyIsKept

LEMMA BootstrappedKeeps == ASSUME StandbyInv, NEW c \in Clients, Bootstrapped(c) PROVE StandbyInv'
<1> DEFINE new == [serving[c] EXCEPT !.stage = "acting"]
<1>1. serving[c] \in Serving /\ Served(serving[c]) /\ serving[c].got \in Reading
  BY DEF StandbyInv, StandbyTypeOK, ServedSince, Serving
<1>2. serving[c].got \in Stock
  BY <1>1 DEF Bootstrapped, Holds, Reading, Stock
<1>3. new \in Serving /\ Served(new) /\ new.stage = "acting"
  BY <1>1 DEF Bootstrapped, Serving, Served, Holds
<1>4. serving' \in [Clients -> Serving] /\ ServedSince' /\ ~NoneActive'
  BY <1>3, OneClient DEF Bootstrapped
<1>5. StandbyTypeOK'
  BY <1>2, <1>4 DEF Bootstrapped, Writes, StandbyInv, StandbyTypeOK
<1> QED
  BY <1>4, <1>5 DEF Bootstrapped, Writes, StandbyInv, InOrder, Catalogued, StandbyIsKept

LEMMA ActsKeeps == ASSUME StandbyInv, NEW c \in Clients, Acts(c) PROVE StandbyInv'
<1>1. StandbyTypeOK'
  BY DEF Acts, StandbyInv, StandbyTypeOK
<1>2. ServedSince'
  BY DEF Acts, StandbyInv, ServedSince, Served
<1>3. ~NoneActive'
  BY DEF Acts, NoneActive, Active
<1> QED
  BY <1>1, <1>2, <1>3 DEF Acts, StandbyInv, InOrder, Catalogued, StandbyIsKept

LEMMA ReportsKeeps == ASSUME StandbyInv, Reports PROVE StandbyInv'
<1>1. effects \in Nat /\ known \in Nat /\ effects' = effects + 1
  BY DEF Reports, StandbyInv, StandbyTypeOK
<1>2. StandbyTypeOK'
  BY <1>1 DEF Reports, StandbyInv, StandbyTypeOK
<1>3. ServedSince'
  BY DEF Reports, StandbyInv, ServedSince, Served
<1>4. InOrder'
  BY <1>1 DEF Reports, StandbyInv, InOrder, NoneActive, Active, Since
<1> QED
  BY <1>2, <1>3, <1>4 DEF Reports, StandbyInv, Catalogued, StandbyIsKept

\* A turn that is over is idle.
LEMMA IdleTurn == Idle \in Serving /\ Served(Idle)
BY DEF Idle, Serving, NothingYet, Reading, Served

LEMMA RepliesKeeps == ASSUME StandbyInv, NEW c \in Clients, Replies(c) PROVE StandbyInv'
<1>1. serving' \in [Clients -> Serving] /\ ServedSince'
  BY IdleTurn, OneClient DEF Replies
<1>2. serving[c].used \in BOOLEAN /\ Prewarm(serving[c].used) /\ standby' = standby
  BY DEF Replies, StandbyInv, StandbyTypeOK, Serving
<1>3. /\ fetch' = Nothing \/ fetch' \in Fetch
      /\ catalogue' \in {"unknown", "asked", "known"} /\ Catalogued'
      /\ fetch # Nothing => fetch' = fetch
      /\ fetch = Nothing /\ (serving[c].used \/ ~HasCompleteFreshStandby) =>
           fetch' # Nothing /\ fetch'.from = effects /\ Since(fetch'.got, effects)
  BY <1>2, PrewarmFacts DEF StandbyInv
<1>4. effects \in Nat /\ known' \in Nat /\ known' <= effects
  BY DEF Replies, StandbyInv, StandbyTypeOK, InOrder
<1>5. StandbyTypeOK'
  BY <1>1, <1>3, <1>4 DEF Replies, StandbyInv, StandbyTypeOK
<1>6. NoneActive' => Alone(c)
  BY DEF Replies, NoneActive, Active, Alone, StandbyInv, StandbyTypeOK
<1>7. InOrder'
  <2> SUFFICES ASSUME NoneActive'
               PROVE  /\ fetch' # Nothing => fetch'.from >= known' /\ Since(fetch'.got, known')
                      /\ fetch' = Nothing /\ standby' # Nothing => Since(standby', known')
    BY <1>4 DEF Replies, InOrder, Since
  <2>1. CASE fetch # Nothing \/ (~serving[c].used /\ HasCompleteFreshStandby)
    <3>1. known' = 0
      BY <1>6, <2>1 DEF Replies
    <3>2. fetch' # Nothing => fetch'.from \in Nat
      BY <1>3 DEF Fetch
    <3> QED
      BY <3>1, <3>2 DEF Since
  <2>2. CASE ~(fetch # Nothing \/ (~serving[c].used /\ HasCompleteFreshStandby))
    <3>1. known' = effects
      BY <1>6, <2>2 DEF Replies
    <3> QED
      BY <1>3, <1>4, <2>2, <3>1
  <2> QED
    BY <2>1, <2>2
<1> QED
  BY <1>1, <1>3, <1>5, <1>7 DEF Replies, StandbyInv, StandbyIsKept

LEMMA RejectsKeeps == ASSUME StandbyInv, NEW c \in Clients, Rejects(c) PROVE StandbyInv'
<1>1. serving' \in [Clients -> Serving] /\ ServedSince'
  BY IdleTurn, OneClient DEF Rejects
<1>2. StandbyTypeOK'
  BY <1>1 DEF Rejects, StandbyInv, StandbyTypeOK
<1>3. \A stock \in Reading : Since(stock, 0)
  BY DEF Reading, Since
<1>4. InOrder'
  BY <1>3 DEF Rejects, StandbyInv, StandbyTypeOK, InOrder, NoneActive, Active, Since, Stock, Reading, Fetch
<1> QED
  BY <1>1, <1>2, <1>4 DEF Rejects, StandbyInv, Catalogued, StandbyIsKept

-----------------------------------------------------------------------------

\* The invariant: whatever fetches, timers and turns do in whatever order.
THEOREM StandbyInvariant == StandbySpec => []StandbyInv
<1>1. ASSUME StandbyInv, [StandbyNext]_standbyVars PROVE StandbyInv'
  <2>1. CASE TimerFires BY <1>1, <2>1, TimerFiresKeeps
  <2>2. CASE StandbyExpires \/ CatalogueArrives
    BY <1>1, <2>2 DEF StandbyExpires, CatalogueArrives, StandbyInv, StandbyTypeOK, ServedSince, Served, InOrder,
                      NoneActive, Active, Since, Catalogued, StandbyIsKept
  <2>3. CASE CatalogueFails BY <1>1, <2>3, CatalogueFailsKeeps
  <2>4. CASE FetchEnds BY <1>1, <2>4, FetchEndsKeeps
  <2>5. ASSUME NEW c \in Clients,
               Ask(c) \/ Decide(c) \/ Bootstrapped(c) \/ Acts(c) \/ Replies(c) \/ Rejects(c)
        PROVE  StandbyInv'
    BY <1>1, <2>5, AskKeeps, DecideKeeps, BootstrappedKeeps, ActsKeeps, RepliesKeeps, RejectsKeeps
  <2>6. ASSUME NEW k \in Kinds, NEW v \in (0 .. MaxEffects) \cup {Missing},
               FetchReads(k, v) \/ \E c \in Clients : TurnReads(c, k, v)
        PROVE  StandbyInv'
    BY <1>1, <2>6, FetchReadsKeeps, TurnReadsKeeps
  <2>7. CASE Reports BY <1>1, <2>7, ReportsKeeps
  <2>8. CASE UNCHANGED standbyVars
    BY <1>1, <2>8 DEF standbyVars, StandbyInv, StandbyTypeOK, ServedSince, Served, InOrder, NoneActive, Active,
                      Since, Catalogued, StandbyIsKept
  <2> QED
    BY <1>1, <2>1, <2>2, <2>3, <2>4, <2>5, <2>6, <2>7, <2>8 DEF StandbyNext
<1> QED
  BY <1>1, StandbyInitially, PTL DEF StandbySpec

\* A turn that starts while nothing is under way sees what earlier turns did and devices
\* had reported by the end of the turn before it, with the exceptions ArrivedIsSeen names.
THEOREM TurnsSeeWhatArrived == StandbySpec => []ArrivedIsSeen
<1>1. ASSUME StandbyInv PROVE ArrivedIsSeen
  <2> SUFFICES ASSUME NEW c \in Clients, serving[c].stage = "acting", NEW k \in Kinds,
                      serving[c].got[k] # Missing
               PROVE  serving[c].got[k] >= serving[c].since
    BY DEF ArrivedIsSeen
  <2>1. QED
    <3>1. serving[c] \in Serving /\ Served(serving[c])
      BY <1>1 DEF StandbyInv, StandbyTypeOK, ServedSince
    <3>2. serving[c].got[k] \in Nat
      BY <3>1 DEF Served, Holds, Serving, Reading
    <3> QED
      BY <3>1, <3>2 DEF Served, Since
<1> QED
  BY <1>1, StandbyInvariant, PTL

\* The standby is always about to be fetched anew.
THEOREM StandbyIsNeverForgotten == StandbySpec => []StandbyIsKept
<1>1. StandbyInv => StandbyIsKept
  BY DEF StandbyInv
<1> QED
  BY <1>1, StandbyInvariant, PTL
=============================================================================
