----------------------------- MODULE AgentStandby ------------------------------
(***************************************************************************)
(* The inventories the smart house agent keeps in stock for its next turn  *)
(* (backend/services/smart-house-agent/src/smart-house-agent.js: prewarm,  *)
(* bootstrapFacts and where turns call them).                              *)
(*                                                                         *)
(* What an inventory says is how many of the turns' effects it has seen,   *)
(* of those that have reached the device store: a write is only queued.    *)
(* The age of the standby is a flag that time may clear; a timer may fire  *)
(* whenever it is set.                                                     *)
(***************************************************************************)
EXTENDS Integers

CONSTANTS
  Clients,     \* turns, each of which may be followed by another one
  Kinds,       \* the inventories: devices and scenes
  Missing, Awaited, Nothing,
  MaxEffects,  \* bound: effects of turns
  MaxTroubles  \* bound: failed calls and turns

VARIABLES
  standby,     \* standbyContext
  fresh,       \* it is younger than prewarmCacheTtlMs
  armed,       \* standbyRefreshTimer
  fetch,       \* standbyContextPromise
  catalogue,   \* toolCatalogTextPromise
  serving,     \* what each client's turn is doing, and on which facts
  queued,      \* actions that were taken and of which the store knows nothing yet
  effects,     \* those of which it does
  known,       \* (history) the effects the next turn should see; none for a reason named below
  troubles

standbyVars == <<standby, fresh, armed, fetch, catalogue, serving, queued, effects, known, troubles>>

Stock == [Kinds -> Nat \cup {Missing}]
Reading == [Kinds -> Nat \cup {Missing, Awaited}]
Fetch == [from : Nat, got : Reading]

ASSUME StandbyAssumption ==
  /\ Missing \notin Nat /\ Awaited \notin Nat /\ Missing # Awaited
  /\ Nothing \notin Stock \cup Fetch
  /\ MaxEffects \in Nat /\ MaxTroubles \in Nat

Serving == [stage : {"idle", "joined", "reading", "acting"}, used : BOOLEAN, from : Nat, got : Reading, since : Nat]

StandbyTypeOK ==
  /\ standby = Nothing \/ standby \in Stock
  /\ fetch = Nothing \/ fetch \in Fetch
  /\ fresh \in BOOLEAN /\ armed \in BOOLEAN
  /\ catalogue \in {"unknown", "asked", "known"}
  /\ serving \in [Clients -> Serving]
  /\ queued \in Nat /\ effects \in Nat /\ known \in Nat /\ troubles \in Nat

NothingYet == [k \in Kinds |-> Awaited]
NoStock == [k \in Kinds |-> Missing]
Idle == [stage |-> "idle", used |-> FALSE, from |-> 0, got |-> NothingYet, since |-> 0]
Active(c) == serving[c].stage # "idle"
Alone(c) == \A d \in Clients \ {c} : ~Active(d)
AtRest == fetch = Nothing /\ \A c \in Clients : ~Active(c)

Holds(got) == \A k \in Kinds : got[k] # Awaited
HasFreshStandby == standby # Nothing /\ fresh
HasCompleteFreshStandby == HasFreshStandby /\ \A k \in Kinds : standby[k] # Missing

CatalogueNeeded == catalogue' = IF catalogue = "unknown" THEN "asked" ELSE catalogue

-----------------------------------------------------------------------------
(* The standby.                                                             *)

\* prewarm: one fetch at a time, which others join.
FetchUnlessFresh(force) ==   \* variant: force is forgotten
  IF fetch # Nothing \/ HasCompleteFreshStandby
  THEN UNCHANGED <<fetch, catalogue>>
  ELSE fetch' = [from |-> effects, got |-> NothingYet] /\ CatalogueNeeded

Prewarm(force) ==
  IF fetch # Nothing \/ (~force /\ HasCompleteFreshStandby)
  THEN UNCHANGED <<fetch, catalogue>>
  ELSE fetch' = [from |-> effects, got |-> NothingYet] /\ CatalogueNeeded

WritesUntimed(stock) ==   \* variant: only a whole standby is fetched again
  /\ standby' = stock /\ fresh' = TRUE
  /\ armed' = (armed \/ \A k \in Kinds : stock[k] # Missing)

\* writeStandbyContext: stamped with the time of writing, not of reading.
Writes(stock) == standby' = stock /\ fresh' = TRUE /\ armed' = TRUE

TimerFires ==
  /\ armed /\ armed' = FALSE
  /\ Prewarm(TRUE)
  /\ known' = IF AtRest THEN effects ELSE known
  /\ UNCHANGED <<standby, fresh, serving, queued, effects, troubles>>

StandbyExpires == fresh /\ fresh' = FALSE /\ UNCHANGED <<standby, armed, fetch, catalogue, serving, queued, effects, known, troubles>>

CatalogueArrives ==
  /\ catalogue = "asked" /\ catalogue' = "known"
  /\ UNCHANGED <<standby, fresh, armed, fetch, serving, queued, effects, known, troubles>>

\* What a turn or a fetch asked for is answered with what some moment since then knows.
Read(asked, k, v) == asked.got[k] = Awaited /\ v \in (asked.from .. effects) \cup {Missing}
Trouble(v) == (v = Missing => troubles < MaxTroubles) /\ troubles' = IF v = Missing THEN troubles + 1 ELSE troubles

FetchReads(k, v) ==
  /\ fetch # Nothing /\ Read(fetch, k, v) /\ Trouble(v)
  /\ fetch' = [fetch EXCEPT !.got[k] = v]
  /\ UNCHANGED <<standby, fresh, armed, catalogue, serving, queued, effects, known>>

\* A turn reads what its snapshot lacks.
Lacking(stock) == [k \in Kinds |-> IF stock[k] = Missing THEN Awaited ELSE stock[k]]
Bootstrap(stock, used, since) ==
  [stage |-> "reading", used |-> used, from |-> effects, got |-> Lacking(stock), since |-> since]

\* The fetch is written and handed to the turns that joined it.
FetchEnds ==
  /\ fetch # Nothing /\ Holds(fetch.got) /\ catalogue = "known"
  /\ Writes(fetch.got) /\ fetch' = Nothing
  /\ serving' = [c \in Clients |-> IF serving[c].stage = "joined" THEN Bootstrap(fetch.got, TRUE, serving[c].since) ELSE serving[c]]
  /\ UNCHANGED <<catalogue, queued, effects, known, troubles>>

\* The fetch and the turns that wait for the catalogue fail; those that joined the
\* fetch read for themselves.
CatalogueFails ==
  /\ catalogue = "asked" /\ troubles < MaxTroubles /\ troubles' = troubles + 1
  /\ fetch' = Nothing
  /\ catalogue' = IF \E c \in Clients : serving[c].stage = "joined" THEN "asked" ELSE "unknown"
  /\ serving' = [c \in Clients |->
       CASE serving[c].stage = "joined" -> Bootstrap(NoStock, FALSE, serving[c].since)
         [] serving[c].stage = "reading" -> Idle
         [] OTHER -> serving[c]]
  /\ UNCHANGED <<standby, fresh, armed, queued, effects, known>>

-----------------------------------------------------------------------------
(* The turns.                                                               *)

\* What a turn should know if it starts on its own after turns that left the standby in
\* order: the effects the store knew of when the standby was last asked for.
Should == IF AtRest THEN known ELSE 0
Starts(c, r) ==
  /\ serving[c] = Idle
  /\ serving' = [serving EXCEPT ![c] = r]
  /\ known' = Should

\* turn and bootstrapFacts: the standby, the fetch under way, or reads of its own.
Joining == [stage |-> "joined", used |-> FALSE, from |-> 0, got |-> NothingYet, since |-> 0]
Ask(c) ==
  /\ CASE HasFreshStandby -> Starts(c, Bootstrap(standby, TRUE, Should)) /\ UNCHANGED catalogue
       [] ~HasFreshStandby /\ fetch # Nothing -> Starts(c, Joining) /\ UNCHANGED catalogue
       [] OTHER -> Starts(c, Bootstrap(NoStock, FALSE, Should)) /\ CatalogueNeeded
  /\ UNCHANGED <<standby, fresh, armed, fetch, queued, effects, troubles>>

\* turn: a pending plan is confirmed or canceled without looking at the house.
Deciding == [stage |-> "acting", used |-> TRUE, from |-> 0, got |-> NoStock, since |-> Should]
Decide(c) ==
  /\ Starts(c, Deciding)
  /\ UNCHANGED <<standby, fresh, armed, fetch, catalogue, queued, effects, troubles>>

TurnReads(c, k, v) ==
  /\ serving[c].stage = "reading" /\ Read(serving[c], k, v) /\ Trouble(v)
  /\ serving' = [serving EXCEPT ![c].got[k] = v]
  /\ UNCHANGED <<standby, fresh, armed, fetch, catalogue, queued, effects, known>>

Bootstrapped(c) ==
  /\ serving[c].stage = "reading" /\ Holds(serving[c].got) /\ catalogue = "known"
  /\ Writes(serving[c].got)
  /\ serving' = [serving EXCEPT ![c].stage = "acting"]
  /\ UNCHANGED <<fetch, catalogue, queued, effects, known, troubles>>

\* A tool that writes is called: the action is published and answered as queued.
Acts(c) ==
  /\ serving[c].stage = "acting" /\ queued + effects < MaxEffects
  /\ queued' = queued + 1
  /\ UNCHANGED <<standby, fresh, armed, fetch, catalogue, serving, effects, known, troubles>>

\* The device has reported to the adapter, which writes the store.
Reports ==
  /\ queued > 0 /\ queued' = queued - 1
  /\ effects' = effects + 1
  /\ UNCHANGED <<standby, fresh, armed, fetch, catalogue, serving, known, troubles>>

\* queuePrewarm: what the turn took from the standby is fetched anew.  A fetch under
\* way is not started again, and what the turn read itself is kept while it is fresh.
Replies(c) ==
  /\ serving[c].stage = "acting"
  /\ serving' = [serving EXCEPT ![c] = Idle]
  /\ Prewarm(serving[c].used)
  /\ known' = IF ~Alone(c) THEN known
              ELSE IF fetch # Nothing \/ (~serving[c].used /\ HasCompleteFreshStandby) THEN 0 ELSE effects
  /\ UNCHANGED <<standby, fresh, armed, queued, effects, troubles>>

\* The model, the session store or a tool rejects: nothing is fetched.
Rejects(c) ==
  /\ serving[c].stage = "acting" /\ troubles < MaxTroubles /\ troubles' = troubles + 1
  /\ serving' = [serving EXCEPT ![c] = Idle]
  /\ known' = 0
  /\ UNCHANGED <<standby, fresh, armed, fetch, catalogue, queued, effects>>

\* The agent prewarms as it starts.
StandbyInit ==
  /\ standby = Nothing /\ fresh = FALSE /\ armed = FALSE
  /\ fetch = [from |-> 0, got |-> NothingYet] /\ catalogue = "asked"
  /\ serving = [c \in Clients |-> Idle]
  /\ queued = 0 /\ effects = 0 /\ known = 0 /\ troubles = 0

StandbyNext ==
  \/ TimerFires \/ StandbyExpires \/ CatalogueArrives \/ CatalogueFails \/ FetchEnds \/ Reports
  \/ \E c \in Clients : Ask(c) \/ Decide(c) \/ Bootstrapped(c) \/ Acts(c) \/ Replies(c) \/ Rejects(c)
  \/ \E k \in Kinds, v \in (0 .. MaxEffects) \cup {Missing} :
       FetchReads(k, v) \/ \E c \in Clients : TurnReads(c, k, v)

StandbySpec == StandbyInit /\ [][StandbyNext]_standbyVars

-----------------------------------------------------------------------------
(* Properties.                                                              *)

\* A turn that starts while nothing is under way decides on facts that show whatever
\* turns did that had reached the store when the turn before it ended, although its
\* standby is stamped anew by every turn that uses it.  What reaches the store later may
\* be missing: an action is only queued when its turn ends.  Excepted are turns after one
\* that failed, overlapped another or ended during a fetch (which may have read before
\* it), or that read everything itself (which is kept).
ArrivedIsSeen ==
  \A c \in Clients : serving[c].stage = "acting" =>
    \A k \in Kinds : serving[c].got[k] # Missing => serving[c].got[k] >= serving[c].since

\* A standby is never forgotten: the timer is set or a fetch is under way, whichever of
\* them a turn or a failed call has cleared.
StandbyIsKept == standby # Nothing => armed \/ fetch # Nothing
=============================================================================
