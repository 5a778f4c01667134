------------------------------- MODULE AgentTurn -------------------------------
(***************************************************************************)
(* Turns of the smart house agent on one session                           *)
(* (backend/services/smart-house-agent/src/smart-house-agent.js,           *)
(* session-store.js) and the write tools of the MCP server they call       *)
(* (backend/services/smart-house-mcp-server/src/tools.js).                 *)
(*                                                                         *)
(* A turn loads the session, works on its copy and saves it whole; nothing *)
(* keeps two turns of a session apart.  The session is its pending plan:   *)
(* messages and hints do not decide what is done.  What the model answers  *)
(* is a free choice, the id of a plan included.  A scene in a plan is the  *)
(* steps it expands to; the tools that only read are left out.             *)
(***************************************************************************)
EXTENDS Integers, Sequences, FiniteSets

CONSTANTS
  Turns,
  Items,       \* what a plan may do: an action with parameters, or a binding write
  KeyOf,       \* device and action of an item, without the parameters
  Risky,       \* items whose voice action has a medium or high risk
  SceneSteps,  \* items that a plan names through a scene
  Plans,       \* what the model may come up with
  Mode,        \* executionMode
  Longest,     \* the most items of a plan
  None,
  MaxTools,    \* bound: dry runs the model asks for
  MaxFaults    \* bound: failed calls, expired sessions and cache entries

VARIABLES
  pending,     \* the plan in the stored session
  turn,
  cache,       \* idempotencyCache of the MCP server
  posts,       \* (history) writes that reached the gateway, with turn, plan, position and source
  refused,     \* (history) items of plans that a call for real passed over
  offered,     \* (history) the plan the user was last shown and has not answered
  crossed,     \* (history) two turns overlapped, or one failed
  reused,      \* (history) plan ids the model used more than once
  excused,     \* (history) ids called while a call was under way, or no longer cached
  tools, faults

vars == <<pending, turn, cache, posts, refused, offered, crossed, reused, excused, tools, faults>>

PlanIds == {p.id : p \in Plans}
Parts == {<<"plan">>} \cup {<<"item", KeyOf[i]>> : i \in Items} \cup {<<"write", n>> : n \in 1 .. Longest}
Keys == PlanIds \X {"plain", "dryrun"} \X Parts
Inputs == {"confirm", "cancel", "ask"}

ASSUME AgentAssumption ==
  /\ Risky \subseteq Items /\ SceneSteps \subseteq Items /\ DOMAIN KeyOf = Items
  /\ \A p \in Plans : /\ p.kind \in {"actions", "writes"} /\ p.type \in {"execute", "propose"}
                      /\ p.items \in Seq(Items) /\ Len(p.items) \in 1 .. Longest
  /\ Mode \in {"auto", "always_confirm", "always_execute"}
  /\ Longest \in Nat \ {0} /\ None \notin Plans /\ MaxTools \in Nat /\ MaxFaults \in Nat

Ready == [stage |-> "ready"]
Busy(r) == turn[r].stage \notin {"ready", "done"}
Sources == {"session", "model", "tool"}
Stages == {"loaded", "llm", "look", "item", "post", "posted", "propose", "clarify", "finish"}
Busied == [stage : Stages, input : Inputs, copy : Plans \cup {None}, plan : Plans \cup {None},
           suffix : {"plain", "dryrun"}, dry : BOOLEAN, n : 1 .. Longest + 1,
           source : Sources, ok : BOOLEAN]   \* ok: no result of the batch is ok: false
Done == [stage : {"done"}, outcome : {"executed", "canceled", "proposed", "answered", "clarify", "failed"},
         plan : Plans \cup {None}, ok : BOOLEAN]
Answers == {"none", "dry", "done", "refused"}

TypeOK ==
  /\ pending \in Plans \cup {None} /\ offered \in Plans \cup {None}
  /\ \A r \in Turns : turn[r] = Ready \/ turn[r] \in Busied \/ turn[r] \in Done
  /\ cache \in [Keys -> Answers]
  /\ posts \subseteq Turns \X Plans \X (1 .. Longest) \X Sources
  /\ refused \subseteq Plans \X (1 .. Longest)
  /\ crossed \in BOOLEAN /\ reused \subseteq PlanIds /\ excused \subseteq PlanIds
  /\ tools \in 0 .. MaxTools /\ faults \in 0 .. MaxFaults

-----------------------------------------------------------------------------
(* The turn.                                                                *)

\* session-store: getOrCreate.
Begin(r, input) ==
  /\ turn[r] = Ready
  /\ turn' = [turn EXCEPT ![r] =
       [stage |-> IF input # "ask" /\ pending # None THEN "loaded" ELSE "llm",
        input |-> input, copy |-> pending, plan |-> None, suffix |-> "plain", dry |-> FALSE, n |-> 1, source |-> "model",
        ok |-> TRUE]]
  /\ crossed' = (crossed \/ \E q \in Turns : Busy(q))
  /\ UNCHANGED <<pending, cache, posts, refused, offered, reused, excused, tools, faults>>

Ends(r, outcome, plan) == turn' = [turn EXCEPT ![r] = [stage |-> "done", outcome |-> outcome, plan |-> plan, ok |-> turn[r].ok]]

\* The pending plan is cleared and saved before anything is done about it.
Cancel(r) ==
  /\ turn[r].stage = "loaded" /\ turn[r].input = "cancel"
  /\ pending' = None /\ offered' = None
  /\ Ends(r, "canceled", turn[r].copy)
  /\ UNCHANGED <<cache, posts, refused, crossed, reused, excused, tools, faults>>

\* A call starts while another one of the same plan is under way.
Calling(r, id) == Busy(r) /\ turn[r].stage \in {"look", "item", "post", "posted"} /\ turn[r].plan.id = id
Overlaps(r, id) == excused' = IF \E q \in Turns \ {r} : Calling(q, id) THEN excused \cup {id} ELSE excused

ConfirmKeeps(r) ==   \* variant: the plan is cleared only when the turn is saved
  /\ turn[r].stage = "loaded" /\ turn[r].input = "confirm"
  /\ offered' = None
  /\ turn' = [turn EXCEPT ![r].stage = "look", ![r].plan = turn[r].copy, ![r].source = "session"]
  /\ Overlaps(r, turn[r].copy.id)
  /\ UNCHANGED <<pending, cache, posts, refused, crossed, reused, tools, faults>>

Confirm(r) ==
  /\ turn[r].stage = "loaded" /\ turn[r].input = "confirm"
  /\ pending' = None /\ offered' = None
  /\ turn' = [turn EXCEPT ![r].stage = "look", ![r].plan = turn[r].copy, ![r].copy = None, ![r].source = "session"]
  /\ Overlaps(r, turn[r].copy.id)
  /\ UNCHANGED <<cache, posts, refused, crossed, reused, tools, faults>>

DryRunTrusted(asked) == asked   \* variant: the model's dryRun is passed on

DryRunEnforced(asked) == TRUE   \* enforcePolicy: whatever the model asked for

\* The model takes the id of an earlier plan or dry run.
Used(plan) == \E r \in Turns : turn[r] # Ready /\ turn[r].plan # None /\ turn[r].plan.id = plan.id
Named(plan) == reused' = IF Used(plan) THEN reused \cup {plan.id} ELSE reused

\* tool_calls: a write tool, which the model may ask to run for real.  The keys of
\* binding writes tell dry runs apart, those of actions do not.
ToolCall(r, plan, asked) ==
  /\ turn[r].stage = "llm"
  /\ tools < MaxTools /\ tools' = tools + 1
  /\ LET dry == DryRunEnforced(asked)
     IN turn' = [turn EXCEPT ![r].stage = "look", ![r].plan = plan, ![r].dry = dry, ![r].n = 1, ![r].source = "tool",
                             ![r].suffix = IF dry /\ plan.kind = "writes" THEN "dryrun" ELSE "plain"]
  /\ reused' = reused \cup {plan.id} /\ Overlaps(r, plan.id)
  /\ UNCHANGED <<pending, cache, posts, refused, offered, crossed, faults>>

ItemsOf(plan) == {plan.items[n] : n \in 1 .. Len(plan.items)}

\* assessVoiceRiskGate, which passes over scenes, and decideExecutionMode; binding
\* writes are always proposed.
Executes(plan) ==
  /\ plan.kind = "actions"
  /\ ItemsOf(plan) \cap Risky \subseteq SceneSteps
  /\ Mode = "always_execute" \/ (Mode = "auto" /\ plan.type = "execute")

\* final: the model has only words, or a plan to propose, or one to execute.
Answer(r) ==
  /\ turn[r].stage = "llm"
  /\ pending' = turn[r].copy
  /\ Ends(r, "answered", None)
  /\ UNCHANGED <<cache, posts, refused, offered, crossed, reused, excused, tools, faults>>

\* Eight answers without a final one, or not even JSON: the turn ends with an error,
\* its session saved.
NoFinal(r) ==
  /\ turn[r].stage = "llm"
  /\ pending' = turn[r].copy
  /\ Ends(r, "failed", None)
  /\ UNCHANGED <<cache, posts, refused, offered, crossed, reused, excused, tools, faults>>

Propose(r, plan) ==
  /\ turn[r].stage = "llm" /\ ~Executes(plan)
  /\ pending' = plan
  /\ turn' = [turn EXCEPT ![r].stage = "propose", ![r].copy = plan, ![r].plan = plan]
  /\ Named(plan)
  /\ UNCHANGED <<cache, posts, refused, offered, crossed, excused, tools, faults>>

\* The session is saved once more with the messages, then the plan is shown.
Proposed(r) ==
  /\ turn[r].stage = "propose"
  /\ pending' = turn[r].copy /\ offered' = turn[r].plan
  /\ Ends(r, "proposed", turn[r].plan)
  /\ UNCHANGED <<cache, posts, refused, crossed, reused, excused, tools, faults>>

\* The preflight has a key of its own.
Execute(r, plan) ==
  /\ turn[r].stage = "llm" /\ Executes(plan)
  /\ turn' = [turn EXCEPT ![r].stage = "look", ![r].plan = plan, ![r].suffix = "dryrun", ![r].dry = TRUE]
  /\ Named(plan) /\ Overlaps(r, plan.id)
  /\ UNCHANGED <<pending, cache, posts, refused, offered, crossed, tools, faults>>

\* It fails, or passes over an item.
Clarify(r) ==
  /\ \/ turn[r].stage = "look" /\ turn[r].source = "model" /\ turn[r].dry
        /\ faults < MaxFaults /\ faults' = faults + 1
     \/ turn[r].stage = "clarify" /\ faults' = faults
  /\ pending' = turn[r].copy
  /\ Ends(r, "clarify", turn[r].plan)
  /\ UNCHANGED <<cache, posts, refused, offered, crossed, reused, excused, tools>>

\* The session is saved and the execution is reported: of a plan the model wanted
\* executed, and of one the user confirmed.
Reported(r, source) ==
  /\ turn[r].stage = "finish" /\ turn[r].source = source
  /\ pending' = turn[r].copy
  /\ Ends(r, "executed", turn[r].plan)
  /\ UNCHANGED <<cache, posts, refused, offered, crossed, reused, excused, tools, faults>>
Finish(r) == Reported(r, "model")
FinishConfirmed(r) == Reported(r, "session")

\* The gateway refuses a write, or its answer is lost: the rest of the plan is given
\* up, the session saved and the failure reported.
WriteFails(r) ==
  /\ turn[r].stage \in {"post", "posted"}
  /\ faults < MaxFaults /\ faults' = faults + 1
  /\ pending' = turn[r].copy
  /\ Ends(r, "failed", turn[r].plan)
  /\ excused' = IF turn[r].stage = "posted" THEN excused \cup {turn[r].plan.id} ELSE excused
  /\ UNCHANGED <<cache, posts, refused, offered, crossed, reused, tools>>

\* A call to the model, the tools or the session store is rejected: the request fails.
TurnFails(r) ==
  /\ Busy(r) /\ faults < MaxFaults /\ faults' = faults + 1
  /\ Ends(r, "failed", turn[r].plan)
  /\ crossed' = TRUE
  /\ excused' = IF turn[r].stage = "posted" THEN excused \cup {turn[r].plan.id} ELSE excused
  /\ UNCHANGED <<pending, cache, posts, refused, offered, reused, tools>>

-----------------------------------------------------------------------------
(* The tools: actions.batch_invoke with one devices.invoke per item, and     *)
(* switch_bindings.upsert and delete, one call per write.                   *)

KeyFor(r, part) == <<turn[r].plan.id, turn[r].suffix, part>>
ItemPartWhole(plan, n) == IF plan.kind = "writes" THEN <<"write", 1>> ELSE <<"item", KeyOf[plan.items[n]]>>   \* variant: the writes of a plan share its id

ItemPart(plan, n) == IF plan.kind = "writes" THEN <<"write", n>> ELSE <<"item", KeyOf[plan.items[n]]>>

\* What the agent does with the answer: only the preflight looks for results that are
\* not ok.
Returns(r, ok) ==
  turn' = [turn EXCEPT ![r] =
    IF @.source = "tool" THEN [@ EXCEPT !.stage = "llm", !.source = "model", !.plan = None, !.dry = FALSE, !.suffix = "plain", !.ok = TRUE]
    ELSE IF ~@.dry THEN [@ EXCEPT !.stage = "finish", !.ok = ok]
    ELSE IF ok THEN [@ EXCEPT !.stage = "look", !.suffix = "plain", !.dry = FALSE]
    ELSE [@ EXCEPT !.stage = "clarify"]]

\* withIdempotency around the batch: an earlier answer, of whatever kind, is returned.
BatchLooks(r) ==
  /\ turn[r].stage = "look"
  /\ IF turn[r].plan.kind = "actions" /\ cache[KeyFor(r, <<"plan">>)] # "none"
     THEN Returns(r, cache[KeyFor(r, <<"plan">>)] # "refused")
     ELSE turn' = [turn EXCEPT ![r].stage = "item", ![r].n = 1]
  /\ UNCHANGED <<pending, cache, posts, refused, offered, crossed, reused, excused, tools, faults>>

\* withIdempotency around an item.
ItemLooks(r) ==
  /\ turn[r].stage = "item" /\ turn[r].n <= Len(turn[r].plan.items)
  /\ LET key == KeyFor(r, ItemPart(turn[r].plan, turn[r].n))
     IN IF cache[key] # "none" \/ turn[r].dry
        THEN /\ turn' = [turn EXCEPT ![r].n = @ + 1, ![r].ok = @ /\ cache[key] # "refused"]
             /\ cache' = [cache EXCEPT ![key] = IF @ = "none" THEN "dry" ELSE @]
        ELSE turn' = [turn EXCEPT ![r].stage = "post"] /\ UNCHANGED cache
  /\ UNCHANGED <<pending, posts, refused, offered, crossed, reused, excused, tools, faults>>

\* An item is passed over, and the batch goes on with the next one.
Refuses(r) ==
  /\ turn[r].plan.kind = "actions" /\ faults < MaxFaults /\ faults' = faults + 1
  /\ turn' = [turn EXCEPT ![r].stage = "item", ![r].n = @ + 1, ![r].ok = FALSE]
  /\ refused' = IF turn[r].dry THEN refused ELSE refused \cup {<<turn[r].plan, turn[r].n>>}
  /\ UNCHANGED <<pending, posts, offered, crossed, reused, excused, tools>>

\* It says no device, action or wait that there is, or its scene cannot be expanded.
ItemInvalid(r) ==
  /\ turn[r].stage = "item" /\ turn[r].n <= Len(turn[r].plan.items)
  /\ Refuses(r)
  /\ UNCHANGED cache

\* Its device does not support the action, which is remembered like any answer.
ItemUnsupported(r) ==
  /\ LET key == KeyFor(r, ItemPart(turn[r].plan, turn[r].n))
     IN /\ \/ turn[r].stage = "post"
           \/ turn[r].stage = "item" /\ turn[r].n <= Len(turn[r].plan.items) /\ turn[r].dry /\ cache[key] = "none"
        /\ cache' = [cache EXCEPT ![key] = "refused"]
  /\ Refuses(r)

\* The gateway takes the write and passes it on.
Taken(r) == posts' = posts \cup {<<r, turn[r].plan, turn[r].n, turn[r].source>>}

ItemPosts(r) ==
  /\ turn[r].stage = "post"
  /\ Taken(r)
  /\ turn' = [turn EXCEPT ![r].stage = "posted"]
  /\ UNCHANGED <<pending, cache, refused, offered, crossed, reused, excused, tools, faults>>

ItemAnsweredUncached(r) ==   \* variant: only dry runs are remembered
  /\ turn[r].stage = "posted"
  /\ turn' = [turn EXCEPT ![r].stage = "item", ![r].n = @ + 1]
  /\ UNCHANGED <<pending, cache, posts, refused, offered, crossed, reused, excused, tools, faults>>

ItemAnswered(r) ==
  /\ turn[r].stage = "posted"
  /\ cache' = [cache EXCEPT ![KeyFor(r, ItemPart(turn[r].plan, turn[r].n))] = "done"]
  /\ turn' = [turn EXCEPT ![r].stage = "item", ![r].n = @ + 1]
  /\ UNCHANGED <<pending, posts, refused, offered, crossed, reused, excused, tools, faults>>

BatchAnswered(r) ==
  /\ turn[r].stage = "item" /\ turn[r].n > Len(turn[r].plan.items)
  /\ cache' = IF turn[r].plan.kind = "writes" THEN cache
              ELSE [cache EXCEPT ![KeyFor(r, <<"plan">>)] = IF ~turn[r].ok THEN "refused" ELSE IF turn[r].dry THEN "dry" ELSE "done"]
  /\ Returns(r, turn[r].ok)
  /\ UNCHANGED <<pending, posts, refused, offered, crossed, reused, excused, tools, faults>>

\* Five minutes are over, or the MCP server restarts while no call is under way.
CacheExpires ==
  /\ faults < MaxFaults /\ faults' = faults + 1
  /\ \A r \in Turns : ~Busy(r)
  /\ cache' = [k \in Keys |-> "none"]
  /\ excused' = excused \cup {k[1] : k \in {k \in Keys : cache[k] # "none"}}
  /\ UNCHANGED <<pending, turn, posts, refused, offered, crossed, reused, tools>>

SessionExpires ==
  /\ faults < MaxFaults /\ faults' = faults + 1
  /\ \A r \in Turns : ~Busy(r)
  /\ pending' = None
  /\ UNCHANGED <<turn, cache, posts, refused, offered, crossed, reused, excused, tools>>

Init ==
  /\ pending = None /\ offered = None
  /\ turn = [r \in Turns |-> Ready]
  /\ cache = [k \in Keys |-> "none"]
  /\ posts = {} /\ refused = {} /\ crossed = FALSE /\ reused = {} /\ excused = {}
  /\ tools = 0 /\ faults = 0

TurnStep(r) ==
  \/ Cancel(r) \/ Confirm(r) \/ Answer(r) \/ NoFinal(r) \/ Proposed(r) \/ Clarify(r)
  \/ Finish(r) \/ FinishConfirmed(r) \/ WriteFails(r)
  \/ \E p \in Plans : Propose(r, p) \/ Execute(r, p) \/ \E asked \in BOOLEAN : ToolCall(r, p, asked)
  \/ BatchLooks(r) \/ ItemLooks(r) \/ ItemInvalid(r) \/ ItemUnsupported(r) \/ ItemPosts(r) \/ ItemAnswered(r) \/ BatchAnswered(r)

Next ==
  \/ \E r \in Turns : TurnStep(r) \/ TurnFails(r) \/ \E input \in Inputs : Begin(r, input)
  \/ CacheExpires \/ SessionExpires

Spec == Init /\ [][Next]_vars

-----------------------------------------------------------------------------
(* Properties.                                                              *)

\* Between turns that neither overlap nor fail, what a confirmation would execute is
\* the plan the user was shown last and has not answered, whatever was asked since.
PendingAsOffered ==
  ~crossed /\ (\A r \in Turns : ~Busy(r)) => pending \in {offered, None}

\* A switch binding or a risky action that a plan names itself is written only by a turn
\* in which the user confirmed, whatever dry runs, ids and plan types the model comes
\* up with.  The steps of a scene are not asked about.
WritesAreConfirmed ==
  \A p \in posts : p[2].kind = "writes" \/ p[2].items[p[3]] \in Risky \ SceneSteps =>
    p[4] = "session"

\* Also when turns overlap or a saved session brings a plan back, an item of a plan is
\* written once: only calls at the same time, an answer that is lost and an expired
\* cache make it twice.
NotWrittenTwice ==
  \A a, b \in posts :
    a # b /\ a[2].id = b[2].id /\ a[2].kind = b[2].kind /\ ItemPart(a[2], a[3]) = ItemPart(b[2], b[3]) =>
      a[2].id \in excused

\* An execution that is reported has written every item of its plan but those that a
\* call for real passed over, which its answer lists, also when the answer came from the
\* cache; the cache misleads only when the model used the id of the plan before or one
\* device gets the same action twice.
Distinct(plan) == \A m, n \in 1 .. Len(plan.items) : KeyOf[plan.items[m]] = KeyOf[plan.items[n]] => m = n

ReportedIsWritten ==
  \A r \in Turns :
    turn[r].stage = "done" /\ turn[r].outcome = "executed" =>
      LET plan == turn[r].plan IN
      \/ plan.id \in reused \/ ~Distinct(plan)
      \/ \A n \in 1 .. Len(plan.items) : \/ \E p \in posts : p[2] = plan /\ p[3] = n
                                         \/ ~turn[r].ok /\ <<plan, n>> \in refused
=============================================================================
