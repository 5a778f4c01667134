----------------------------- MODULE MCEngineRuns -----------------------------
(***************************************************************************)
(* Device and event triggers: one automation, reloaded between a version   *)
(* that runs at once, a version with forMs, and absence; a plan of two     *)
(* steps and a scene, with wait_for on the device that also triggers.      *)
(***************************************************************************)
EXTENDS AutomationEngine, TLC

Always == [Devices -> Reading] \X Clock
WhenOn(d, v) == {x \in Always : x[1][d] = v}

Act(d, want, wait) == [kind |-> "device", dev |-> d, want |-> want, wait |-> wait]
Scene == [kind |-> "scene"]

DeviceChanged(d, v) == [kind |-> "device", devs |-> {d}, vals |-> {v}, changed |-> TRUE]
ButtonPress(d, g) == [kind |-> "device_event", dev |-> d, gesture |-> g]

MCDevices == {"lamp", "motion"}

\* Motion turns the lamp on, waits for it, then plays a scene.
AtOnce == [enabled |-> TRUE, trigger |-> DeviceChanged("motion", "on"), hold |-> 0, cooldown |-> 1,
           then |-> <<Act("lamp", {"on"}, 2), Scene>>, when |-> Always]

\* A button press, if the lamp stays off for one unit of time.
Delayed == [enabled |-> TRUE, trigger |-> ButtonPress("motion", "single"), hold |-> 1, cooldown |-> 1,
            then |-> <<Act("lamp", {"on"}, 1), Act("lamp", {}, 0)>>, when |-> WhenOn("lamp", "off")]

Disabled == [Delayed EXCEPT !.enabled = FALSE]

MCDefs == {AtOnce, Delayed, Disabled}
MCConfigs == [Ids -> MCDefs \cup {None}]
\* Event ids are only compared for equality.
EventSymmetry == Permutations(EventIds)

MCExpansions == {<<>>, <<Act("motion", {"off"}, 1)>>}
=============================================================================
