---------------------------- MODULE MCDeviceAdapter ----------------------------
(***************************************************************************)
(* The two halves of the adapter.  What it stores: two Zigbee devices, or  *)
(* one entity of Home Assistant; the files place one of either kind in one *)
(* of two rooms, or are broken.  What it carries out: two requests to a    *)
(* plug that Home Assistant has as a switch, a relay, a dimmable lamp, and *)
(* two devices one can speak to.                                           *)
(*                                                                         *)
(* The halves share no variable (serving a request reads its device once,  *)
(* and any of Targets may be what it reads), so each is explored while the *)
(* other has not begun.                                                    *)
(***************************************************************************)
EXTENDS DeviceAdapter, ActionDelivery

CONSTANTS d1, d2, c1, e1, n1, n2, kitchen, bath

MCZigbee == {d1, d2}
MCEndpoints == {c1}
MCPanelOf == [c \in MCEndpoints |-> d1]
MCEntities == {e1}
MCNames == {n1, n2}

\* The panel's name passes to another device; the panel is renamed, or is gone.
MCNets == {[f \in MCNames |-> IF f = n1 THEN p[1] ELSE p[2]] : p \in {<<d1, None>>, <<d2, d1>>, <<d2, None>>}}
MCFile(p, q) == [d \in Ids |-> CASE d \in {d1, e1} -> p [] d = c1 -> q [] OTHER -> None]
MCFiles == {MCFile(kitchen, None), MCFile(bath, None), MCFile(bath, kitchen), Broken}

-----------------------------------------------------------------------------

MCMics == <<[id |-> 1, enabled |-> TRUE], [id |-> 2, enabled |-> TRUE], [id |-> 3, enabled |-> FALSE]>>

Plug == [role |-> "plug", state |-> "state_left", mode |-> Absent]
Relay == [role |-> "channel", state |-> "state_left", mode |-> "operation_mode_left"]
HaEntity(domain) == [domain |-> domain, dims |-> TRUE, colors |-> TRUE, mireds |-> [least |-> 153, most |-> 500],
                     tilts |-> TRUE, coldest |-> 16, hottest |-> 30, hvac |-> {"heat"}, fans |-> {"high"}]

Seen(here, far) == [here |-> here, far |-> far]
Fan == [prefer |-> FALSE, wakes |-> TRUE, said |-> {"turn_on", "set_fan_mode"}, whole |-> {"turn_on"}, retries |-> 1,
        mics |-> {2, 3}, limit |-> 5, sees |-> [m \in 1 .. 3 |-> Seen(m = 1, IF m = 2 THEN 4 ELSE Absent)]]
Heater == [Fan EXCEPT !.prefer = TRUE, !.mics = {}, !.limit = Absent, !.retries = 0]
Distant == [Fan EXCEPT !.mics = {}, !.limit = 3, !.sees[1] = Seen(TRUE, 4), !.sees[2] = Seen(FALSE, 1)]

Has(z, e, v) == [zigbee |-> z, ha |-> e, voice |-> v]
Ask(target, a, v) == [to |-> target, what |-> <<a, v>>]

MCOrders ==
  {Ask(Has(Plug, HaEntity("switch"), Absent), "turn_on", Absent),
   Ask(Has(Plug, HaEntity("switch"), Absent), "set_cover_position", 40),
   Ask(Has(Relay, Absent, Absent), "turn_off", Absent),
   Ask(Has(Relay, Absent, Absent), "set_operation_mode", "decoupled"),
   Ask(Has(Plug, Absent, Absent), "set_brightness", 40),
   Ask(Has(Absent, HaEntity("light"), Absent), "set_color_temp", 4000),
   Ask(Has(Absent, HaEntity("switch"), Absent), "set_operation_mode", "decoupled"),
   Ask(Has(Absent, HaEntity("climate"), Heater), "set_fan_mode", "high"),
   Ask(Has(Absent, Absent, Heater), "turn_on", Absent),
   Ask(Has(Absent, Absent, Fan), "turn_on", Absent),
   Ask(Has(Absent, Absent, Distant), "turn_on", Absent),
   Ask(Has(Absent, Absent, Absent), "toggle", Absent)}
MCTargets == {o.to : o \in MCOrders}
MCTransports == {"auto", "ha", "mqtt", "voice"}

-----------------------------------------------------------------------------

\* Before the first edit everything is in the kitchen, and the panel is the only device.
First == Init /\ overrides = MCFile(kitchen, None) /\ net[n1] = d1 /\ net[n2] = None

\* The half that has not begun is in one of its initial states.
Resting ==
  /\ First /\ mode = [source |-> "mqtt", polling |-> FALSE]
  /\ file # Broken
Unasked ==
  /\ DeliveryInit /\ transport = "auto"
  /\ order = [r \in Requests |-> Ask(Has(Absent, Absent, Absent), "toggle", Absent)]

MCInit == (First /\ Unasked) \/ (Resting /\ DeliveryInit)
MCNext ==
  \/ Unasked /\ Next /\ UNCHANGED deliveryVars
  \/ Resting /\ DeliveryNext /\ UNCHANGED vars
MCSpec == MCInit /\ [][MCNext]_<<vars, deliveryVars>> /\ Fairness
=============================================================================
