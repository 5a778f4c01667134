----------------------------- MODULE DeviceActions -----------------------------
(***************************************************************************)
(* The vocabulary of actions: what the adapter says a device can do        *)
(* (device-adapter/src/{ha,normalize}.js), what it asks of Home Assistant  *)
(* and Zigbee2MQTT for an action (adapter.js), and what the simulator      *)
(* makes of it (device-simulator/src/simulator.js).                        *)
(*                                                                         *)
(* An action has at most one argument: a number, or the name of a mode.    *)
(* What the other side understands is external and given as relations      *)
(* between a request and the action it has the effect of.                  *)
(***************************************************************************)
EXTENDS Integers

CONSTANTS
  Modes,       \* names of hvac and fan modes
  Properties,  \* names Zigbee2MQTT gives the states of the endpoints of a panel
  Absent

Plain == {"turn_on", "turn_off", "toggle"}
Percent == 0 .. 100
RelayModes == {"control_relay", "decoupled"}
PlugModes == {"auto", "heat", "cool", "fan_only", "off"}

Round(n, d) == (2 * n + d) \div (2 * d)    \* Math.round of a quotient of naturals
Clamp(n, low, high) == IF n < low THEN low ELSE IF n > high THEN high ELSE n

-----------------------------------------------------------------------------
(* Home Assistant.                                                          *)

\* An entity: its domain and the attributes that decide what it can do.
Entity == [domain : {"switch", "light", "cover", "climate", "other"}, dims : BOOLEAN, colors : BOOLEAN,
           mireds : [least : Nat \cup {Absent}, most : Nat \cup {Absent}], tilts : BOOLEAN,
           coldest : Int, hottest : Int, hvac : SUBSET Modes, fans : SUBSET Modes]

Kelvins(e) ==
  (IF e.mireds.most \in {Absent, 0} THEN 1500 ELSE Clamp(Round(1000000, e.mireds.most), 1000, 20000))
  .. (IF e.mireds.least \in {Absent, 0} THEN 6500 ELSE Clamp(Round(1000000, e.mireds.least), 1000, 20000))

HaOffers(e, a, v) ==
  \/ e.domain \in {"switch", "light"} /\ a \in Plain /\ v = Absent
  \/ e.domain = "light" /\ e.dims /\ a = "set_brightness" /\ v \in Percent
  \/ e.domain = "light" /\ e.colors /\ a = "set_color_temp" /\ v \in Kelvins(e)
  \/ e.domain = "cover" /\ a = "set_cover_position" /\ v \in Percent
  \/ e.domain = "cover" /\ e.tilts /\ a = "set_cover_tilt" /\ v \in Percent
  \/ e.domain = "climate" /\ a = "set_temperature" /\ v \in e.coldest .. e.hottest
  \/ e.domain = "climate" /\ a = "set_hvac_mode" /\ v \in e.hvac
  \/ e.domain = "climate" /\ a = "set_fan_mode" /\ v \in e.fans

Call(service, data) == [service |-> service, data |-> data]

\* The service an action becomes; whatever is not known is turn_on.
HaCall(a, v) ==
  CASE a \in {"turn_off", "toggle"}  -> Call(a, {})
    [] a = "set_brightness"          -> Call("turn_on", {<<"brightness_pct", v>>})
    [] a = "set_color_temp"          -> Call("turn_on", {<<"color_temp_kelvin", v>>})
    [] a = "set_cover_position"      -> Call(a, {<<"position", v>>})
    [] a = "set_cover_tilt"          -> Call("set_cover_tilt_position", {<<"tilt_position", v>>})
    [] a = "set_temperature"         -> Call(a, {<<"temperature", v>>})
    [] a = "set_hvac_mode"           -> Call(a, {<<"hvac_mode", v>>})
    [] a = "set_fan_mode"            -> Call(a, {<<"fan_mode", v>>})
    [] OTHER                         -> Call("turn_on", {})

\* A service Home Assistant has for the domain, with fields that it takes, does a to v.
HaDoes(domain, c, a, v) ==
  \/ domain \in {"switch", "light", "climate"} /\ a \in {"turn_on", "turn_off"} /\ c = Call(a, {}) /\ v = Absent
  \/ domain \in {"switch", "light", "cover"} /\ a = "toggle" /\ c = Call(a, {}) /\ v = Absent
  \/ domain = "light" /\ a = "set_brightness" /\ c = Call("turn_on", {<<"brightness_pct", v>>})
  \/ domain = "light" /\ a = "set_color_temp" /\ c = Call("turn_on", {<<"color_temp_kelvin", v>>})
  \/ domain = "cover" /\ a = "set_cover_position" /\ c = Call(a, {<<"position", v>>})
  \/ domain = "cover" /\ a = "set_cover_tilt" /\ c = Call("set_cover_tilt_position", {<<"tilt_position", v>>})
  \/ domain = "climate" /\ a = "set_temperature" /\ c = Call(a, {<<"temperature", v>>})
  \/ domain = "climate" /\ a = "set_hvac_mode" /\ c = Call(a, {<<"hvac_mode", v>>})
  \/ domain = "climate" /\ a = "set_fan_mode" /\ c = Call(a, {<<"fan_mode", v>>})

\* The level Home Assistant keeps for a percentage, and the trait made of it again.
Level(percent) == Round(255 * percent, 100)
Brightness(level) == Round(100 * level, 255)

\* Where the value set by an action is read again.
HaTrait(a) ==
  CASE a \in Plain -> "switch.state"
    [] a = "set_brightness" -> "dimmer.brightness"
    [] a = "set_color_temp" -> "color_temp.kelvin"
    [] a = "set_cover_position" -> "cover.position"
    [] a = "set_cover_tilt" -> "cover.tilt"
    [] a = "set_temperature" -> "climate.temperature"
    [] a = "set_hvac_mode" -> "climate.hvac_mode"
    [] a = "set_fan_mode" -> "climate.fan_mode"
    [] OTHER -> Absent

-----------------------------------------------------------------------------
(* Zigbee2MQTT.                                                             *)

\* A plug, a panel of several relays, or one relay of a panel with the names of
\* its state and, if it can be decoupled, of its operation mode.
Node == [role : {"plug", "panel", "channel"}, state : Properties, mode : Properties \cup {Absent}]

PlugOffers(a, v) ==
  \/ a \in {"turn_on", "turn_off"} /\ v = Absent
  \/ a \in {"set_brightness", "set_cover_position"} /\ v \in Percent
  \/ a = "set_temperature" /\ v \in 5 .. 35
  \/ a = "set_hvac_mode" /\ v \in PlugModes

ChannelOffers(z, a, v) ==
  \/ a \in Plain /\ v = Absent
  \/ z.mode # Absent /\ a = "set_operation_mode" /\ v \in RelayModes

ZigbeeOffers(z, a, v) ==
  \/ z.role = "plug" /\ PlugOffers(a, v)
  \/ z.role = "channel" /\ ChannelOffers(z, a, v)

StateOfPanel(z) == "state"   \* variant: the binding of a channel is not looked at

\* Only the properties of a channel are in its binding.
StateOf(z) == IF z.role = "channel" THEN z.state ELSE "state"
ModeOf(z) == IF z.role = "channel" /\ z.mode # Absent THEN z.mode ELSE "operation_mode"

\* What is published under the topic of the device; whatever is not known toggles it.
Z2MPayload(z, a, v) ==
  CASE a = "turn_on"             -> {<<StateOf(z), "ON">>}
    [] a = "turn_off"            -> {<<StateOf(z), "OFF">>}
    [] a = "set_operation_mode"  -> {<<ModeOf(z), v>>}
    [] a = "set_brightness"      -> {<<"state", "ON">>, <<"brightness", v>>}
    [] a = "set_cover_position"  -> {<<"position", v>>}
    [] a = "set_cover_tilt"      -> {<<"tilt", v>>}
    [] a = "set_color_temp"      -> {<<"color_temp", Round(1000000, v)>>}
    [] a = "set_temperature"     -> {<<"temperature", v>>}
    [] a = "set_hvac_mode"       -> {<<"state", "ON">>, <<"fan_mode", v>>, <<"mode", v>>}
    [] OTHER                     -> {<<StateOf(z), "TOGGLE">>}

\* The payload tells the node to do a to v, and no other part of its panel anything.
\* Zigbee brightness goes to 254, although percents are offered and published as they are.
Z2MDoes(z, p, a, v) ==
  LET own == IF z.role = "channel" THEN z.state ELSE "state" IN
  \/ a = "turn_on"  /\ p = {<<own, "ON">>} /\ v = Absent
  \/ a = "turn_off" /\ p = {<<own, "OFF">>} /\ v = Absent
  \/ a = "toggle"   /\ p = {<<own, "TOGGLE">>} /\ v = Absent
  \/ a = "set_operation_mode" /\ z.role = "channel" /\ p = {<<z.mode, v>>}
  \/ z.role # "channel" /\
     \/ a = "set_brightness" /\ p = {<<"state", "ON">>, <<"brightness", Round(254 * v, 100)>>}
     \/ a = "set_cover_position" /\ p = {<<"position", v>>}
     \/ a = "set_temperature" /\ p = {<<"temperature", v>>}
     \/ a = "set_hvac_mode" /\ p = {<<"state", "ON">>, <<"fan_mode", v>>, <<"mode", v>>}

-----------------------------------------------------------------------------
(* The simulator.                                                           *)

\* The traits that an action sets on a simulated device, where its template says
\* nothing else.  It knows no toggle, and other names than HaTrait for some.
SimulatorSets(a, v) ==
  CASE a = "turn_on"            -> {<<"switch.state", "on">>}
    [] a = "turn_off"           -> {<<"switch.state", "off">>}
    [] a = "set_brightness"     -> {<<"dimmer.brightness", v>>, <<"dimmer.state", "on">>, <<"switch.state", "on">>}
    [] a = "set_cover_position" -> {<<"cover.position_percent", v>>, <<"cover.state", "stopped">>}
    [] a = "set_cover_tilt"     -> {<<"cover.tilt_percent", v>>}
    [] a = "set_temperature"    -> {<<"climate.target_temperature_c", v>>}
    [] a = "set_hvac_mode"      -> {<<"climate.mode", v>>}
    [] a = "set_fan_mode"       -> {<<"climate.fan_mode", v>>}
    [] a = "set_color_temp"     -> {<<"color_temp.kelvin", v>>}
    [] OTHER                    -> {}

\* The actions whose value is read in one place of a simulated and of a real device.
Alike == {"turn_on", "turn_off", "set_brightness", "set_color_temp", "set_fan_mode"}
=============================================================================
