---------------------------- MODULE MCEngineTimers ----------------------------
(***************************************************************************)
(* Interval and time-of-day triggers: an automation that the reload        *)
(* switches between an interval, two times of the day within a window that *)
(* wraps midnight, and absence.  Small enough for liveness.                *)
(***************************************************************************)
EXTENDS AutomationEngine

Always == [Devices -> Reading] \X Clock

\* From the hour `after` to the hour before `before`, around midnight if need be.
Between(after, before) ==
  {x \in Always : IF after <= before THEN after <= x[2] /\ x[2] < before
                                     ELSE after <= x[2] \/ x[2] < before}

Act(want, wait) == [kind |-> "device", dev |-> "fan", want |-> want, wait |-> wait]

MCDevices == {"fan"}

Periodic == [enabled |-> TRUE, trigger |-> [kind |-> "interval", every |-> 1], hold |-> 0, cooldown |-> 1,
             then |-> <<Act({"on"}, 1), Act({}, 0)>>, when |-> {x \in Always : x[1]["fan"] # "on"}]

Nightly == [enabled |-> TRUE, trigger |-> [kind |-> "time", at |-> {0, 2}], hold |-> 1, cooldown |-> 0,
            then |-> <<[kind |-> "scene"], Act(Reading \ {"on"}, 1)>>, when |-> Between(2, 1)]

MCDefs == {Periodic, Nightly, [Periodic EXCEPT !.enabled = FALSE]}
MCConfigs == [Ids -> MCDefs \cup {None}]
MCExpansions == {<<Act({"on"}, 1)>>}
=============================================================================
