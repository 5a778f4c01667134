----------------------------- MODULE RulesProcess -----------------------------
(***************************************************************************)
(* How the rules engine takes over automations.json from the gateway       *)
(* (backend/services/rules-engine/src/{index,automations}.js).             *)
(*                                                                         *)
(* An interval compares the modification time with the one it recorded     *)
(* last, records the new one, then reads the list and hands it to the      *)
(* engine.  A refresh does not wait for the one before it.  What the       *)
(* engine does with the list is AutomationEngine.                          *)
(***************************************************************************)
EXTENDS SwitchBindings

CONSTANTS
  Loads        \* refreshes in progress at a time

VARIABLES
  last,        \* lastAutomationsMtimeMs
  load,        \* the refreshes in progress
  ticking,     \* the first refresh is over, the interval runs
  engine,      \* the automations the engine runs
  engineAt,    \* history: the modification time of the list it was given
  failed,      \* history: a list could not be read after its time was recorded
  overtaken    \* history: a refresh applied a list older than the engine's

engineVars == <<last, load, ticking, engine, engineAt, failed, overtaken>>
vars == <<bindingVars, engineVars>>

NoLoad == [phase |-> "none"]
Refresh == [phase : {"stat", "read", "apply"}, mtime : 0 .. MaxRequests, got : File, at : 0 .. MaxRequests]

TypeOK ==
  /\ BindingsTypeOK
  /\ last \in 0 .. MaxRequests \cup {None}
  /\ \A l \in Loads : load[l] = NoLoad \/ load[l] \in Refresh
  /\ engine \in File /\ engineAt \in 0 .. MaxRequests
  /\ ticking \in BOOLEAN /\ failed \in BOOLEAN /\ overtaken \in BOOLEAN

Resting(l) == load[l].phase = "none"
Done(l) == load' = [load EXCEPT ![l] = NoLoad] /\ ticking' = TRUE

-----------------------------------------------------------------------------
(* A refresh: stat, compare, read, apply.                                   *)

\* The first refresh is awaited before the interval starts.
Tick(l) ==
  /\ Resting(l)
  /\ ~ticking => \A k \in Loads : Resting(k)
  /\ load' = [load EXCEPT ![l] = [phase |-> "stat", mtime |-> mtime, got |-> Nothing, at |-> 0]]
  /\ UNCHANGED <<last, ticking, engine, engineAt, failed, overtaken>>

Compare(l) ==
  /\ load[l].phase = "stat"
  /\ IF load[l].mtime = last
     THEN Done(l) /\ UNCHANGED last
     ELSE /\ last' = load[l].mtime
          /\ load' = [load EXCEPT ![l].phase = "read", ![l].mtime = 0]
          /\ UNCHANGED ticking
  /\ UNCHANGED <<engine, engineAt, failed, overtaken>>

\* A file that is not there is an empty list.
ReadFile(l) ==
  /\ load[l].phase = "read"
  /\ load' = [load EXCEPT ![l].phase = "apply", ![l].got = file, ![l].at = mtime]
  /\ UNCHANGED <<last, ticking, engine, engineAt, failed, overtaken>>

\* The previous list is kept.
ReadFails(l) ==
  /\ load[l].phase = "read"
  /\ Done(l)
  /\ failed' = TRUE
  /\ UNCHANGED <<last, engine, engineAt, overtaken>>

ApplyRecording(l) ==   \* variant: the modification time is recorded when the list is applied
  /\ load[l].phase = "apply"
  /\ engine' = load[l].got /\ engineAt' = load[l].at
  /\ last' = mtime
  /\ overtaken' = (overtaken \/ load[l].at < engineAt)
  /\ Done(l)
  /\ UNCHANGED <<failed>>

ApplyMerging(l) ==   \* variant: setAutomations() adds to what the engine runs
  /\ load[l].phase = "apply"
  /\ engine' = [i \in Ids |-> IF load[l].got[i] = None THEN engine[i] ELSE load[l].got[i]]
  /\ engineAt' = load[l].at
  /\ overtaken' = (overtaken \/ load[l].at < engineAt)
  /\ Done(l)
  /\ UNCHANGED <<last, failed>>

Apply(l) ==
  /\ load[l].phase = "apply"
  /\ engine' = load[l].got /\ engineAt' = load[l].at
  /\ overtaken' = (overtaken \/ load[l].at < engineAt)
  /\ Done(l)
  /\ UNCHANGED <<last, failed>>

\* The process restarts with nothing.
Restart ==
  /\ last' = None /\ load' = [l \in Loads |-> NoLoad] /\ ticking' = FALSE
  /\ engine' = Nothing /\ engineAt' = 0
  /\ failed' = FALSE /\ overtaken' = FALSE

Init ==
  /\ BindingsInit
  /\ last = None /\ load = [l \in Loads |-> NoLoad] /\ ticking = FALSE
  /\ engine = Nothing /\ engineAt = 0
  /\ failed = FALSE /\ overtaken = FALSE

EngineNext ==
  \/ \E l \in Loads : Tick(l) \/ Compare(l) \/ ReadFile(l) \/ ReadFails(l) \/ Apply(l)
  \/ Restart

Next ==
  \/ BindingsNext /\ UNCHANGED engineVars
  \/ EngineNext /\ UNCHANGED bindingVars

\* setInterval and the event loop keep the refreshes going; users owe nothing.
Fairness == \A l \in Loads :
  /\ WF_vars(Tick(l) /\ UNCHANGED bindingVars)
  /\ WF_vars((Compare(l) \/ ReadFile(l) \/ Apply(l)) /\ UNCHANGED bindingVars)

Spec == Init /\ [][Next]_vars /\ Fairness

-----------------------------------------------------------------------------
(* Properties.                                                              *)

\* Of two bindings of one source one is refused: the engine never runs two, and the
\* file never holds two, unless a write replaced a list that had changed since it
\* was decided on.
OneBindingPerSource == ~raced => SourcesOnce(file) /\ SourcesOnce(engine)

\* State bindings that switch one another in a circle are never in force, unless a
\* binding was changed by the page of the automations or a write raced.
NoStateLoop == ~raced /\ ~unchecked => LoopFree(file) /\ LoopFree(engine)

\* When no refresh is under way and the recorded time is the file's, the engine runs
\* what the file says, except after a failed read or an overtaken refresh.
RecordedIsLoaded ==
  (\A l \in Loads : Resting(l)) /\ last = mtime /\ ~failed /\ ~overtaken => engine = file

\* When it stops restarting, the engine in the end runs what was saved last, unless a
\* read failed or an older refresh finished after a newer one.
EngineCatchesUp == <>[][~Restart]_vars => <>[](engine = file \/ failed \/ overtaken)
=============================================================================
