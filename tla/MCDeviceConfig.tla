--------------------------- MODULE MCDeviceConfig ---------------------------
(***************************************************************************)
(* A lamp and a microphone that may be on a plan, in a named room or in    *)
(* none; two requests at a time.  At first the file holds leftovers of a   *)
(* plan that may be gone and a room and position set by hand.              *)
(*                                                                         *)
(* The page that edits the plans keeps them with what it edits of them and *)
(* shares no variable with the rest, so each is explored while the other   *)
(* has not begun.  It finds a plan with a scale and the microphone in a    *)
(* room, and one that is bare; the lamp is virtual and on none of them.    *)
(* Other clients delete plans.                                             *)
(***************************************************************************)
EXTENDS FloorplanPage, TLC

MCDevices == {"lamp", "mic"}

Place(lamp, mic) == [d \in MCDevices |-> IF d = "lamp" THEN lamp ELSE mic]
MCLayouts == {Place("Living", "Living"), Place("Den", None), Place("", None)}

Empty == [devices |-> [d \in MCDevices |-> None], mics |-> [m \in {"mic"} |-> Blank], virtual |-> 0]
Leftover == [Blank EXCEPT !.room = "Living", !.at = "p2", !.meta = [room |-> "Living", manages |-> TRUE]]
ByHand == [Blank EXCEPT !.room = "Den", !.at = "manual"]

MCFiles ==
  {[Empty EXCEPT !.devices = [d \in MCDevices |-> IF d = "lamp" THEN Leftover ELSE None], !.mics["mic"] = ByHand]}

Furnished == [Bare("old") EXCEPT !.rooms["Living"] = 1, !.scaled = TRUE,
                                !.devices = {[dev |-> "mic", room |-> "Living", nth |-> 0]}]
MCPlanFiles == {[p \in Plans |-> IF p = "p1" THEN Furnished ELSE Bare("new")]}

-----------------------------------------------------------------------------

\* No call was sent; no request was made and the startup has not looked at the plans.
PageRests == sent = 0
ConfigRests == count = 0 /\ (\E r \in Slots : req[r].phase = "saved") /\ plans = [p \in Plans |-> None]

MCInit == Init /\ PageInit
MCNext ==
  \/ PageRests /\ Next /\ UNCHANGED pageVars
  \/ ConfigRests /\ PageNext /\ UNCHANGED vars
MCSpec == MCInit /\ [][MCNext]_<<vars, pageVars>>

Interchangeable == Permutations(Slots) \cup Permutations(Calls)
=============================================================================
