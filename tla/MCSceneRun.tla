----------------------------- MODULE MCSceneRun -----------------------------
(***************************************************************************)
(* A simulated lamp and a fan behind MQTT that may vanish; neither can be  *)
(* dimmed.  One call plays a classic scene with a wait_for, an agentic     *)
(* scene that aborts and picks between both devices, one that goes on, or  *)
(* a classic scene with an unsupported action; another call switches the   *)
(* fan off meanwhile.                                                      *)
(***************************************************************************)
EXTENDS SceneRun

MCDevices == {"lamp", "fan"}
MCVia == [d \in MCDevices |-> IF d = "lamp" THEN "simulator" ELSE "mqtt"]
MCActions == {"on", "off", "dim"}
MCEffect == [a \in MCActions |-> IF a = "off" THEN "off" ELSE "on"]
Switch == {"on", "off"}
MCInventories == [d \in MCDevices |-> IF d = "lamp" THEN {Switch} ELSE {Switch, None}]

Flat(level) == [d \in MCDevices \cup {None} |-> level]
To(devs, act) == [among |-> devs, act |-> act, want |-> {}, polls |-> 0, risk |-> Flat(0)]
Await(g, v, n) == [g EXCEPT !.want = {v}, !.polls = n]

Classic == [mode |-> "classic", abort |-> FALSE, confirmOn |-> {},
            goals |-> <<Await(To({"fan"}, "on"), "on", 1), To({"lamp"}, "on")>>]
Aborts == [mode |-> "agentic", abort |-> TRUE, confirmOn |-> {1, 2},
           goals |-> <<[Await(To(MCDevices, "on"), "on", 2) EXCEPT !.risk["fan"] = 2], To({"lamp"}, "off")>>]
GoesOn == [mode |-> "agentic", abort |-> FALSE, confirmOn |-> {2},
           goals |-> <<To({"fan"}, "off"), To({"fan"}, "on")>>]
Stray == [mode |-> "classic", abort |-> FALSE, confirmOn |-> {},
          goals |-> <<To({"lamp"}, "dim"), To({"lamp"}, "on")>>]
Single == [mode |-> "classic", abort |-> FALSE, confirmOn |-> {}, goals |-> <<To({"fan"}, "off")>>]

MCScenes == {Classic, Aborts, GoesOn, Stray, Single}
MCRuns == {"r1", "r2"}
MCWanted == [r \in MCRuns |-> IF r = "r1" THEN MCScenes \ {Single} ELSE {Single}]
=============================================================================
