------------------------------ MODULE MCHaMirror ------------------------------
(***************************************************************************)
(* Two floorplans, a lamp with two entities and a fan with one.            *)
(***************************************************************************)
EXTENDS HaMirror

MCPlans == {"p1", "p2"}
MCDeviceOf == [e \in {"lamp", "power", "fan"} |-> IF e = "fan" THEN "fan" ELSE "lamp"]
MCKindOf == [s \in {"evening", "tidy"} |-> IF s = "evening" THEN "scene" ELSE "script"]

Files(plans, rooms, lamp, power, fan, scenes) ==
  [plans |-> [p \in MCPlans |-> IF p = "p1" THEN plans[1] ELSE plans[2]],
   rooms |-> [p \in MCPlans |-> IF p = "p1" THEN rooms[1] ELSE rooms[2]],
   at |-> [e \in DOMAIN MCDeviceOf |-> CASE e = "lamp" -> lamp [] e = "power" -> power [] e = "fan" -> fan],
   scenes |-> scenes]

MCLocals ==
  {Files(<<"Ground", None>>, <<"Living", None>>, "p1", "p1", None, {"evening"}),
   Files(<<"Ground", "Upper">>, <<None, "Den">>, "p2", "p2", "p1", {"evening", "tidy"}),
   Files(<<None, "Upper">>, <<None, "Living">>, "p2", None, "p2", {})}
=============================================================================
