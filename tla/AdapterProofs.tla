----------------------------- MODULE AdapterProofs -----------------------------
(***************************************************************************)
(* Proofs about the two halves of the device adapter: the actions it       *)
(* carries out, for all devices, requests, orders and microphones, and the *)
(* store it keeps, for all devices, names and overrides.  The halves have  *)
(* no variable in common, and each theorem is of the specification of one. *)
(***************************************************************************)
EXTENDS DeviceAdapter, ActionDelivery, TLAPS

-----------------------------------------------------------------------------
(* The actions of the adapter.                                              *)


\* The percentage that is read back after a brightness was set is the one asked for,
\* although Home Assistant keeps levels of 0 to 255 (ha.js:245, adapter.js:720).
THEOREM BrightnessKept == \A p \in Percent : Brightness(Level(p)) = p
BY DEF Brightness, Level, Percent, Round

\* Every action that an entity offers becomes a service its domain has, with the
\* argument in the field that the service takes (ha.js:155 against adapter.js:720).
THEOREM HaUnderstands ==
  \A e \in Entity : \A a, v : HaOffers(e, a, v) => HaDoes(e.domain, HaCall(a, v), a, v)
<1> SUFFICES ASSUME NEW e \in Entity, NEW a, NEW v, HaOffers(e, a, v)
             PROVE  HaDoes(e.domain, HaCall(a, v), a, v)
  OBVIOUS
<1>1. CASE e.domain \in {"switch", "light"} /\ a \in Plain /\ v = Absent
  BY <1>1 DEF HaDoes, HaCall, Plain, Call
<1>2. CASE e.domain = "light" /\ a = "set_brightness"
  BY <1>2 DEF HaDoes, HaCall
<1>3. CASE e.domain = "light" /\ a = "set_color_temp"
  BY <1>3 DEF HaDoes, HaCall
<1>4. CASE e.domain = "cover" /\ a = "set_cover_position"
  BY <1>4 DEF HaDoes, HaCall
<1>5. CASE e.domain = "cover" /\ a = "set_cover_tilt"
  BY <1>5 DEF HaDoes, HaCall
<1>6. CASE e.domain = "climate" /\ a \in {"set_temperature", "set_hvac_mode", "set_fan_mode"}
  BY <1>6 DEF HaDoes, HaCall
<1> QED
  BY <1>1, <1>2, <1>3, <1>4, <1>5, <1>6 DEF HaOffers

\* What a Zigbee device offers, but for a brightness, is published as DeviceActions says it
\* takes it (normalize.js:48, adapter.js:613).
LEMMA ZigbeeUnderstands ==
  \A z \in Node : \A a, v : ZigbeeOffers(z, a, v) /\ a # "set_brightness" => Z2MDoes(z, Z2MPayload(z, a, v), a, v)
<1> SUFFICES ASSUME NEW z \in Node, NEW a, NEW v, ZigbeeOffers(z, a, v), a # "set_brightness"
             PROVE  Z2MDoes(z, Z2MPayload(z, a, v), a, v)
  OBVIOUS
<1>1. CASE a \in Plain
  <2>1. v = Absent
    BY <1>1 DEF ZigbeeOffers, PlugOffers, ChannelOffers, Plain
  <2> QED
    BY <1>1, <2>1 DEF Z2MDoes, Z2MPayload, Plain, StateOf
<1>2. CASE a = "set_operation_mode"
  <2>1. z.role = "channel" /\ z.mode # Absent
    BY <1>2 DEF ZigbeeOffers, PlugOffers, ChannelOffers, Plain
  <2> QED
    BY <1>2, <2>1 DEF Z2MDoes, Z2MPayload, ModeOf
<1>3. CASE a \in {"set_cover_position", "set_temperature", "set_hvac_mode"}
  <2>1. z.role # "channel"
    BY <1>3 DEF ZigbeeOffers, PlugOffers, ChannelOffers, Plain
  <2> QED
    BY <1>3, <2>1 DEF Z2MDoes, Z2MPayload
<1> QED
  BY <1>1, <1>2, <1>3 DEF ZigbeeOffers, PlugOffers, ChannelOffers, Plain

\* A value set on a simulated device is read where the same value of a real one is, for
\* these actions (simulator.js:186 against ha.js:245).
THEOREM SimulatedAlike ==
  \A a \in Alike : \A v : \E s \in SimulatorSets(a, v) : s[1] = HaTrait(a) /\ (a \notin Plain => s[2] = v)
<1> SUFFICES ASSUME NEW a \in Alike, NEW v
             PROVE  \E s \in SimulatorSets(a, v) : s[1] = HaTrait(a) /\ (a \notin Plain => s[2] = v)
  OBVIOUS
<1>1. CASE a = "turn_on"
  BY <1>1 DEF SimulatorSets, HaTrait, Plain
<1>2. CASE a = "turn_off"
  BY <1>2 DEF SimulatorSets, HaTrait, Plain
<1>3. CASE a = "set_brightness"
  BY <1>3 DEF SimulatorSets, HaTrait, Plain
<1>4. CASE a = "set_color_temp"
  BY <1>4 DEF SimulatorSets, HaTrait, Plain
<1>5. CASE a = "set_fan_mode"
  BY <1>5 DEF SimulatorSets, HaTrait, Plain
<1> QED
  BY <1>1, <1>2, <1>3, <1>4, <1>5 DEF Alike

-----------------------------------------------------------------------------
(* The invariant.                                                           *)

\* What a device may be told when the answer is ok.
Tells(r, t) == t = <<order[r].what>> \/ (~Meant(r) /\ t = <<Other>>)

\* A request that is not done was not answered and told nobody anything; one that is
\* done ended in one of three ways.
Fits(r) ==
  /\ serving[r].phase # "done" => told[r] = <<>> /\ answers[r] = <<>>
  /\ serving[r].phase = "done" =>
       \/ told[r] = <<>> /\ answers[r] = <<>>
       \/ Tells(r, told[r]) /\ answers[r] = <<"ok">>
       \/ (told[r] = <<>> \/ r \in cut) /\ answers[r] = <<"error">>

\* Only dialogues take the way of the voice past its first step, and their command
\* follows an acknowledgement.
Heard(r) ==
  /\ r \in Talking => Route(To(r)) = "voice"
  /\ serving[r].phase = "calling" => Route(To(r)) = "ha"
  /\ r \notin crossed /\ (serving[r].phase = "commanding" \/ (Route(To(r)) = "voice" /\ told[r] # <<>>))
       => r \in acked

\* A dialogue that is not marked goes on alone, and only those that listen are about
\* to be acknowledged.
Alone == \A r \in Talking \ crossed : Talking = {r}
Expected == \A r \in acking : serving[r].phase = "listening"

IInv ==
  /\ DeliveryTypeOK
  /\ \A r \in Requests : Fits(r) /\ Heard(r)
  /\ Alone /\ Expected

-----------------------------------------------------------------------------
(* What every step does.                                                    *)

Others(q) ==
  \A r \in Requests \ {q} : serving'[r] = serving[r] /\ told'[r] = told[r] /\ answers'[r] = answers[r]

Grows ==
  /\ transport' = transport /\ order' = order
  /\ acked \subseteq acked' /\ crossed \subseteq crossed' /\ cut \subseteq cut'

\* q does not enter a dialogue, or alone, or marks everybody.
Enters(q) == q \in Talking' => q \in Talking \/ Talking = {} \/ Talking \cup {q} \subseteq crossed'

Moves(q) ==
  /\ DeliveryTypeOK' /\ Others(q) /\ Grows
  /\ Fits(q)' /\ Heard(q)' /\ Enters(q)
  /\ acking' \subseteq acking \cup {q}
  /\ q \in acking' => serving'[q].phase = "listening"

\* What is asked and which way it takes do not change.
LEMMA StaysMeant == ASSUME Grows, NEW r PROVE Meant(r)' = Meant(r) /\ \A t : Tells(r, t)' = Tells(r, t)
<1>1. Meant(r)' = Meant(r)
  BY DEF Grows, Meant, Route, To, ActionOf, Argument
<1> QED
  BY <1>1 DEF Grows, Tells

LEMMA MovesKeep == ASSUME NEW q \in Requests, IInv, Moves(q) PROVE IInv'
<1> USE DEF Moves, IInv
<1>1. ASSUME NEW r \in Requests PROVE Fits(r)'
  <2>1. CASE r = q
    BY <2>1
  <2>2. CASE r # q
    BY <2>2, StaysMeant DEF Fits, Others, Grows
  <2> QED
    BY <2>1, <2>2
<1>2. ASSUME NEW r \in Requests PROVE Heard(r)'
  <2>1. CASE r = q
    BY <2>1
  <2>2. CASE r # q
    BY <2>2 DEF Heard, Others, Grows, Talking, Route, To
  <2> QED
    BY <2>1, <2>2
<1>3. Expected'
  <2> SUFFICES ASSUME NEW r \in acking' PROVE serving'[r].phase = "listening"
    BY DEF Expected
  <2>1. r \in Requests
    BY DEF DeliveryTypeOK
  <2> QED
    BY <2>1 DEF Expected, Others
<1>4. Alone'
  <2> SUFFICES ASSUME NEW r \in Talking', r \notin crossed' PROVE Talking' = {r}
    BY DEF Alone
  <2>1. \A x \in Talking' : x # q => x \in Talking
    BY DEF Talking, Others
  <2>2. r \notin crossed
    BY DEF Grows
  <2>3. CASE r = q /\ q \notin Talking
    <3>1. Talking = {}
      BY <2>3 DEF Enters
    <3> QED
      BY <3>1, <2>1, <2>3
  <2>4. CASE r \in Talking
    <3>1. Talking = {r}
      BY <2>2, <2>4 DEF Alone
    <3>2. q \in Talking' => q = r
      BY <3>1 DEF Enters
    <3> QED
      BY <2>1, <3>1, <3>2
  <2> QED
    BY <2>1, <2>3, <2>4
<1> QED
  BY <1>1, <1>2, <1>3, <1>4

-----------------------------------------------------------------------------
(* How a request ends.                                                      *)

Ends(q, t, a) ==
  /\ serving' \in [Requests -> [phase : Phases, try : Nat]]
  /\ serving'[q].phase = "done"
  /\ told' \in [Requests -> Seq({o.what : o \in Orders} \cup {Other})]
  /\ answers' \in [Requests -> Seq({"ok", "error"})]
  /\ told'[q] = t /\ answers'[q] = a /\ Others(q)

Unserved(q) == serving[q].phase # "done" /\ told[q] = <<>> /\ answers[q] = <<>>

LEMMA DoneByPublished ==
  ASSUME NEW q \in Requests, IInv, Unserved(q), NEW status \in {"ok", "error"}, Published(q, status)
  PROVE  /\ serving' \in [Requests -> [phase : Phases, try : Nat]]
         /\ serving'[q].phase = "done"
         /\ answers' \in [Requests -> Seq({"ok", "error"})]
         /\ answers'[q] = <<status>>
         /\ \A r \in Requests \ {q} : serving'[r] = serving[r] /\ answers'[r] = answers[r]
<1> USE DEF IInv, DeliveryTypeOK
<1>1. serving' \in [Requests -> [phase : Phases, try : Nat]]
  <2>1. serving \in [Requests -> [phase : Phases, try : Nat]]
    OBVIOUS
  <2>2. serving' = [serving EXCEPT ![q] = [serving[q] EXCEPT !.phase = "done"]]
    BY DEF Published
  <2>3. [serving[q] EXCEPT !.phase = "done"] \in [phase : Phases, try : Nat]
    BY <2>1 DEF Phases
  <2> QED
    BY <2>1, <2>2, <2>3
<1>2. serving'[q].phase = "done"
  BY DEF Published
<1>3. answers'[q] = <<status>>
  BY DEF Published, Unserved
<1>4. answers' = [answers EXCEPT ![q] = <<status>>]
  BY DEF Published, Unserved
<1>5. <<status>> \in Seq({"ok", "error"})
  OBVIOUS
<1> QED
  BY <1>1, <1>2, <1>3, <1>4, <1>5 DEF Published

LEMMA EndsRefused ==
  ASSUME NEW q \in Requests, IInv, Unserved(q), Refused(q)
  PROVE  Ends(q, <<>>, <<"error">>)
<1>1. Published(q, "error") /\ told' = told
  BY DEF Refused
<1>2. told \in [Requests -> Seq({o.what : o \in Orders} \cup {Other})]
  BY DEF IInv, DeliveryTypeOK
<1> QED
  BY <1>1, <1>2, DoneByPublished DEF Ends, Others, Unserved

LEMMA EndsTold ==
  ASSUME NEW q \in Requests, IInv, Unserved(q), NEW status \in {"ok", "error"}, NEW does \in BOOLEAN,
         Effect(q, does), Published(q, status)
  PROVE  Ends(q, <<IF does THEN order[q].what ELSE Other>>, <<status>>)
<1> DEFINE x == IF does THEN order[q].what ELSE Other
<1>1. x \in {o.what : o \in Orders} \cup {Other}
  BY DEF IInv, DeliveryTypeOK
<1>2. told' = [told EXCEPT ![q] = <<x>>]
  BY DEF Effect, Unserved
<1>3. told \in [Requests -> Seq({o.what : o \in Orders} \cup {Other})]
  BY DEF IInv, DeliveryTypeOK
<1> HIDE DEF x
<1>4. <<x>> \in Seq({o.what : o \in Orders} \cup {Other})
  BY <1>1
<1>5. told' \in [Requests -> Seq({o.what : o \in Orders} \cup {Other})]
  BY <1>2, <1>3, <1>4
<1>6. told'[q] = <<x>> /\ \A r \in Requests \ {q} : told'[r] = told[r]
  BY <1>2, <1>3
<1> QED
  BY <1>5, <1>6, DoneByPublished DEF Ends, Others, x

\* A request that ends keeps the invariant, if a spoken command was acknowledged.
LEMMA EndsMoves ==
  ASSUME NEW q \in Requests, IInv, NEW t, NEW a, Ends(q, t, a), Grows,
         acking' \cup acked' \cup crossed' \cup cut' \subseteq Requests,
         \/ t = <<>> /\ a \in {<<>>, <<"error">>}
         \/ Tells(q, t) /\ a = <<"ok">>
         \/ q \in cut' /\ a = <<"error">>,
         q \notin crossed' /\ Route(To(q)) = "voice" /\ t # <<>> => q \in acked',
         acking' \subseteq acking, q \notin acking'
  PROVE  Moves(q)
<1>1. DeliveryTypeOK'
  BY DEF IInv, DeliveryTypeOK, Ends, Grows
<1>2. Fits(q)'
  BY StaysMeant DEF Fits, Ends, Grows
<1>3. q \notin Talking'
  BY DEF Talking, Ends
<1>4. Heard(q)'
  BY <1>3 DEF Heard, Ends, Grows, Route, To
<1> QED
  BY <1>1, <1>2, <1>3, <1>4 DEF Moves, Ends, Enters

-----------------------------------------------------------------------------
(* The actions.                                                             *)

LEMMA NotServed ==
  ASSUME NEW q \in Requests, IInv, serving[q].phase # "done" PROVE Unserved(q)
BY DEF IInv, Fits, Unserved

LEMMA SilentElsewhere ==
  ASSUME NEW q \in Requests, IInv, serving[q].phase # "listening" PROVE q \notin acking
BY DEF IInv, Expected

\* A request that goes on to another phase, and has told nobody anything.
GoesOn(q, phase) ==
  /\ Unserved(q) /\ UNCHANGED <<told, answers>>
  /\ phase \in Phases \ {"done"}
  /\ \E n \in Nat : serving' = [serving EXCEPT ![q] = [phase |-> phase, try |-> n]]

LEMMA NewPhase ==
  ASSUME NEW q \in Requests, IInv, NEW phase, serving' = [serving EXCEPT ![q].phase = phase]
  PROVE  /\ serving' = [serving EXCEPT ![q] = [phase |-> phase, try |-> serving[q].try]]
         /\ serving[q].try \in Nat
<1>1. serving[q] \in [phase : Phases, try : Nat]
  BY DEF IInv, DeliveryTypeOK
<1>2. [serving[q] EXCEPT !.phase = phase] = [phase |-> phase, try |-> serving[q].try]
  BY <1>1
<1> QED
  BY <1>1, <1>2

LEMMA GoesOnMoves ==
  ASSUME NEW q \in Requests, IInv, NEW phase, GoesOn(q, phase), Grows,
         acking' \cup acked' \cup crossed' \cup cut' \subseteq Requests,
         phase \in {"waking", "listening", "commanding"} => Route(To(q)) = "voice",
         phase = "calling" => Route(To(q)) = "ha",
         phase = "commanding" /\ q \notin crossed' => q \in acked',
         phase \in {"waking", "listening", "commanding"}
           => q \in Talking \/ Talking = {} \/ Talking \cup {q} \subseteq crossed',
         acking' \subseteq acking \cup {q}, q \in acking' => phase = "listening"
  PROVE  Moves(q)
<1> PICK n \in Nat : serving' = [serving EXCEPT ![q] = [phase |-> phase, try |-> n]]
  BY DEF GoesOn
<1>1. [phase |-> phase, try |-> n] \in [phase : Phases, try : Nat]
  BY DEF GoesOn
<1>2. serving \in [Requests -> [phase : Phases, try : Nat]]
  BY DEF IInv, DeliveryTypeOK
<1>3. serving' \in [Requests -> [phase : Phases, try : Nat]]
  BY <1>1, <1>2
<1>4. serving'[q].phase = phase /\ Others(q)
  BY <1>2 DEF Others, GoesOn
<1>5. told'[q] = <<>> /\ answers'[q] = <<>>
  BY DEF GoesOn, Unserved
<1>6. DeliveryTypeOK'
  BY <1>3 DEF IInv, DeliveryTypeOK, GoesOn, Grows
<1>7. Fits(q)'
  BY <1>4, <1>5 DEF Fits, GoesOn
<1>8. q \in Talking' <=> phase \in {"waking", "listening", "commanding"}
  BY <1>4 DEF Talking
<1>9. Heard(q)'
  BY <1>4, <1>5, <1>8 DEF Heard, Grows, Route, To
<1> QED
  BY <1>4, <1>6, <1>7, <1>8, <1>9 DEF Moves, Enters

LEMMA ServeUnknownMoves == ASSUME NEW q \in Requests, IInv, ServeUnknown(q) PROVE Moves(q)
<1>1. Unserved(q) /\ q \notin acking
  BY NotServed, SilentElsewhere DEF ServeUnknown
<1>2. serving' = [serving EXCEPT ![q] = [serving[q] EXCEPT !.phase = "done"]]
  BY DEF ServeUnknown
<1>3. serving \in [Requests -> [phase : Phases, try : Nat]]
  BY DEF IInv, DeliveryTypeOK
<1>4. [serving[q] EXCEPT !.phase = "done"] \in [phase : Phases, try : Nat]
  BY <1>3 DEF Phases
<1>5. serving' \in [Requests -> [phase : Phases, try : Nat]]
  BY <1>2, <1>3, <1>4
<1>6. serving'[q].phase = "done"
  BY <1>2, <1>3
<1>7. \A r \in Requests \ {q} : serving'[r] = serving[r]
  BY <1>2, <1>3
<1>8. Ends(q, <<>>, <<>>)
  BY <1>1, <1>5, <1>6, <1>7 DEF Ends, Others, Unserved, ServeUnknown, IInv, DeliveryTypeOK
<1> QED
  BY <1>1, <1>8, EndsMoves DEF ServeUnknown, NoDialogue, Grows, IInv, DeliveryTypeOK

LEMMA RefusedMoves ==
  ASSUME NEW q \in Requests, IInv, Unserved(q), Refused(q), Grows,
         acked' \cup crossed' \cup cut' \subseteq Requests,
         acking' \subseteq acking, q \notin acking'
  PROVE  Moves(q)
<1>1. Ends(q, <<>>, <<"error">>)
  BY EndsRefused
<1>2. acking' \subseteq Requests
  BY DEF IInv, DeliveryTypeOK
<1> QED
  BY <1>1, <1>2, EndsMoves

LEMMA ServeMqttMoves == ASSUME NEW q \in Requests, IInv, ServeMqtt(q) PROVE Moves(q)
<1> DEFINE z == To(q).zigbee
           does == Z2MDoes(z, Z2MPayload(z, ActionOf(q), Argument(q)), ActionOf(q), Argument(q))
<1>1. Unserved(q) /\ q \notin acking
  BY NotServed, SilentElsewhere DEF ServeMqtt, Takes
<1>2. To(q) \in Targets
  BY DeliveryAssumption DEF IInv, DeliveryTypeOK, To
<1>3. Route(To(q)) = "mqtt" /\ z # Absent
  BY DEF ServeMqtt, Takes, Route
<1>4. z \in Node
  BY <1>2, <1>3, DeliveryAssumption
<1>5. does \in BOOLEAN /\ (Meant(q) => does)
  <2>1. does \in BOOLEAN
    BY DEF Z2MDoes
  <2>2. Meant(q) => does
    BY <1>3, <1>4, ZigbeeUnderstands DEF Meant
  <2> QED
    BY <2>1, <2>2
<1>6. Effect(q, does) /\ Published(q, "ok")
  BY DEF ServeMqtt
<1> HIDE DEF does
<1>7. Ends(q, <<IF does THEN order[q].what ELSE Other>>, <<"ok">>)
  BY <1>1, <1>5, <1>6, EndsTold
<1>8. Tells(q, <<IF does THEN order[q].what ELSE Other>>)
  BY <1>5 DEF Tells
<1> QED
  BY <1>1, <1>3, <1>7, <1>8, EndsMoves DEF ServeMqtt, NoDialogue, Grows, IInv, DeliveryTypeOK

LEMMA ServeHaMoves == ASSUME NEW q \in Requests, IInv, ServeHa(q) PROVE Moves(q)
<1>1. Unserved(q) /\ q \notin acking
  BY NotServed, SilentElsewhere DEF ServeHa, Takes
<1>2. serving' = [serving EXCEPT ![q] = [phase |-> "calling", try |-> serving[q].try]] /\ serving[q].try \in Nat
  BY NewPhase DEF ServeHa
<1>3. GoesOn(q, "calling")
  BY <1>1, <1>2 DEF GoesOn, ServeHa, Phases
<1>4. Route(To(q)) = "ha"
  BY DEF ServeHa, Takes
<1> QED
  BY <1>1, <1>3, <1>4, GoesOnMoves DEF ServeHa, NoDialogue, Grows, IInv, DeliveryTypeOK

LEMMA ServeNoneMoves == ASSUME NEW q \in Requests, IInv, ServeNone(q) PROVE Moves(q)
<1>1. Unserved(q) /\ q \notin acking
  BY NotServed, SilentElsewhere DEF ServeNone, Takes
<1> QED
  BY <1>1, RefusedMoves DEF ServeNone, NoDialogue, Grows, IInv, DeliveryTypeOK

LEMMA HaAnswersMoves == ASSUME NEW q \in Requests, IInv, HaAnswers(q) PROVE Moves(q)
<1> DEFINE does == HaDoes(To(q).ha.domain, HaCall(ActionOf(q), Argument(q)), ActionOf(q), Argument(q))
<1>1. Unserved(q) /\ q \notin acking
  BY NotServed, SilentElsewhere DEF HaAnswers
<1>2. Route(To(q)) = "ha"
  BY DEF HaAnswers, IInv, Heard
<1>3. transport' = transport /\ order' = order /\ acking' = acking /\ acked' = acked /\ crossed' = crossed
  BY DEF HaAnswers, NoDialogue
<1>4. does \in BOOLEAN /\ (Meant(q) => does)
  <2>1. To(q) \in Targets /\ To(q).ha # Absent
    BY <1>2, DeliveryAssumption DEF IInv, DeliveryTypeOK, To, Route
  <2>2. To(q).ha \in Entity
    BY <2>1, DeliveryAssumption
  <2>3. does \in BOOLEAN
    BY DEF HaDoes
  <2>4. Meant(q) => does
    BY <1>2, <2>2, HaUnderstands DEF Meant
  <2> QED
    BY <2>3, <2>4
<1>5. \/ Effect(q, does) /\ Published(q, "ok") /\ cut' = cut
      \/ Refused(q) /\ cut' = cut
      \/ Effect(q, does) /\ Published(q, "error") /\ cut' = cut \cup {q}
  BY DEF HaAnswers
<1> HIDE DEF does
<1>6. CASE Effect(q, does) /\ Published(q, "ok") /\ cut' = cut
  <2>1. Ends(q, <<IF does THEN order[q].what ELSE Other>>, <<"ok">>)
    BY <1>1, <1>4, <1>6, EndsTold
  <2>2. Tells(q, <<IF does THEN order[q].what ELSE Other>>)
    BY <1>4 DEF Tells
  <2> QED
    BY <1>1, <1>2, <1>3, <1>6, <2>1, <2>2, EndsMoves DEF Grows, IInv, DeliveryTypeOK
<1>7. CASE Refused(q) /\ cut' = cut
  BY <1>1, <1>3, <1>7, RefusedMoves DEF Grows, IInv, DeliveryTypeOK
<1>8. CASE Effect(q, does) /\ Published(q, "error") /\ cut' = cut \cup {q}
  <2>1. Ends(q, <<IF does THEN order[q].what ELSE Other>>, <<"error">>)
    BY <1>1, <1>4, <1>8, EndsTold
  <2> QED
    BY <1>1, <1>2, <1>3, <1>8, <2>1, EndsMoves DEF Grows, IInv, DeliveryTypeOK
<1> QED
  BY <1>5, <1>6, <1>7, <1>8

LEMMA ServeVoiceMoves == ASSUME NEW q \in Requests, IInv, ServeVoice(q) PROVE Moves(q)
<1>1. Unserved(q) /\ q \notin acking /\ Route(To(q)) = "voice"
  BY NotServed, SilentElsewhere DEF ServeVoice, Takes
<1>2. transport' = transport /\ order' = order /\ acking' = acking /\ acked' = acked /\ cut' = cut
  BY DEF ServeVoice, Still
<1>3. CASE Speakable(q)
  <2>1. GoesOn(q, "waking")
    BY <1>1, <1>3 DEF GoesOn, ServeVoice, Phases
  <2>2. Talking = {} \/ Talking \cup {q} \subseteq crossed'
    BY <1>3 DEF ServeVoice
  <2>3. crossed \subseteq crossed' /\ crossed' \subseteq Requests
    BY <1>3 DEF ServeVoice, Talking, IInv, DeliveryTypeOK
  <2> QED
    BY <1>1, <1>2, <2>1, <2>2, <2>3, GoesOnMoves DEF Grows, IInv, DeliveryTypeOK
<1>4. CASE ~Speakable(q)
  BY <1>1, <1>2, <1>4, RefusedMoves DEF ServeVoice, Grows, IInv, DeliveryTypeOK
<1> QED
  BY <1>3, <1>4

LEMMA SpeakWakeMoves == ASSUME NEW q \in Requests, IInv, SpeakWake(q) PROVE Moves(q)
<1>1. Unserved(q) /\ q \notin acking /\ q \in Talking
  BY NotServed, SilentElsewhere DEF SpeakWake, Talking
<1>2. Route(To(q)) = "voice"
  BY <1>1 DEF IInv, Heard
<1>3. transport' = transport /\ order' = order /\ acked' = acked /\ crossed' = crossed /\ cut' = cut
  BY DEF SpeakWake, Still
<1>4. CASE serving' = [serving EXCEPT ![q].phase = "listening"] /\ acking' \in {acking, acking \cup {q}}
           /\ UNCHANGED <<told, answers>>
  <2>1. serving' = [serving EXCEPT ![q] = [phase |-> "listening", try |-> serving[q].try]] /\ serving[q].try \in Nat
    BY <1>4, NewPhase
  <2>2. GoesOn(q, "listening")
    BY <1>1, <1>4, <2>1 DEF GoesOn, Phases
  <2> QED
    BY <1>1, <1>2, <1>3, <1>4, <2>2, GoesOnMoves DEF Grows, IInv, DeliveryTypeOK
<1>5. CASE Refused(q) /\ UNCHANGED acking
  BY <1>1, <1>3, <1>5, RefusedMoves DEF Grows, IInv, DeliveryTypeOK
<1> QED
  BY <1>4, <1>5 DEF SpeakWake

LEMMA ListenMoves == ASSUME NEW q \in Requests, IInv, Listen(q) PROVE Moves(q)
<1>1. Unserved(q) /\ q \in Talking
  BY NotServed DEF Listen, Talking
<1>2. Route(To(q)) = "voice"
  BY <1>1 DEF IInv, Heard
<1>3. transport' = transport /\ order' = order /\ acking' = acking \ {q} /\ crossed' = crossed /\ cut' = cut
  BY DEF Listen, Still
<1>4. CASE Refused(q) /\ UNCHANGED acked
  BY <1>1, <1>3, <1>4, RefusedMoves DEF Grows, IInv, DeliveryTypeOK
<1>5. CASE /\ acking # {}
           /\ acked' = IF q \in acking THEN acked \cup {q} ELSE acked
           /\ \/ serving' = [serving EXCEPT ![q].phase = "commanding"] /\ UNCHANGED <<told, answers>>
              \/ Refused(q)
  <2>1. acked \subseteq acked' /\ acked' \subseteq Requests
    BY <1>5 DEF IInv, DeliveryTypeOK
  <2>2. CASE Refused(q)
    BY <1>1, <1>3, <2>1, <2>2, RefusedMoves DEF Grows, IInv, DeliveryTypeOK
  <2>3. CASE serving' = [serving EXCEPT ![q].phase = "commanding"] /\ UNCHANGED <<told, answers>>
    <3>1. serving' = [serving EXCEPT ![q] = [phase |-> "commanding", try |-> serving[q].try]] /\ serving[q].try \in Nat
      BY <2>3, NewPhase
    <3>2. GoesOn(q, "commanding")
      BY <1>1, <2>3, <3>1 DEF GoesOn, Phases
    <3>3. acking \subseteq Talking
      BY DEF IInv, Expected, Talking, DeliveryTypeOK
    <3>4. q \notin crossed => q \in acked'
      BY <1>1, <1>5, <3>3 DEF IInv, Alone
    <3> QED
      BY <1>1, <1>2, <1>3, <2>1, <3>2, <3>4, GoesOnMoves DEF Grows, IInv, DeliveryTypeOK
  <2> QED
    BY <1>5, <2>2, <2>3
<1>6. CASE /\ UNCHANGED acked
           /\ \/ /\ serving' = [serving EXCEPT ![q] = [phase |-> "waking", try |-> @.try + 1]]
                 /\ UNCHANGED <<told, answers>>
              \/ Refused(q)
  <2>1. CASE Refused(q)
    BY <1>1, <1>3, <1>6, <2>1, RefusedMoves DEF Grows, IInv, DeliveryTypeOK
  <2>2. CASE serving' = [serving EXCEPT ![q] = [phase |-> "waking", try |-> @.try + 1]] /\ UNCHANGED <<told, answers>>
    <3>1. serving[q].try + 1 \in Nat
      BY DEF IInv, DeliveryTypeOK
    <3>2. GoesOn(q, "waking")
      BY <1>1, <2>2, <3>1 DEF GoesOn, Phases
    <3> QED
      BY <1>1, <1>2, <1>3, <1>6, <3>2, GoesOnMoves DEF Grows, IInv, DeliveryTypeOK
  <2> QED
    BY <1>6, <2>1, <2>2
<1> QED
  BY <1>4, <1>5, <1>6 DEF Listen, Matches

LEMMA SpeakCommandMoves == ASSUME NEW q \in Requests, IInv, SpeakCommand(q) PROVE Moves(q)
<1>1. Unserved(q) /\ q \notin acking /\ q \in Talking
  BY NotServed, SilentElsewhere DEF SpeakCommand, Talking
<1>2. q \notin crossed => q \in acked
  BY DEF SpeakCommand, IInv, Heard
<1>3. transport' = transport /\ order' = order /\ acking' = acking /\ acked' = acked /\ crossed' = crossed
  BY DEF SpeakCommand, Still
<1>4. CASE Effect(q, TRUE) /\ Published(q, "ok") /\ cut' = cut
  <2>1. Ends(q, <<order[q].what>>, <<"ok">>)
    BY <1>1, <1>4, EndsTold
  <2> QED
    BY <1>1, <1>2, <1>3, <1>4, <2>1, EndsMoves DEF Tells, Grows, IInv, DeliveryTypeOK
<1>5. CASE Refused(q) /\ cut' = cut
  BY <1>1, <1>3, <1>5, RefusedMoves DEF Grows, IInv, DeliveryTypeOK
<1>6. CASE Effect(q, TRUE) /\ Published(q, "error") /\ cut' = cut \cup {q}
  <2>1. Ends(q, <<order[q].what>>, <<"error">>)
    BY <1>1, <1>6, EndsTold
  <2> QED
    BY <1>1, <1>2, <1>3, <1>6, <2>1, EndsMoves DEF Grows, IInv, DeliveryTypeOK
<1> QED
  BY <1>4, <1>5, <1>6 DEF SpeakCommand

-----------------------------------------------------------------------------
(* The theorems.                                                            *)

LEMMA InitHolds == DeliveryInit => IInv
<1> SUFFICES ASSUME DeliveryInit PROVE IInv
  OBVIOUS
<1> USE DEF DeliveryInit, NotYet
<1>1. DeliveryTypeOK
  BY DEF DeliveryTypeOK, Phases
<1>2. Talking = {}
  BY DEF Talking
<1> QED
  BY <1>1, <1>2 DEF IInv, Fits, Heard, Alone, Expected

LEMMA StepKeeps == IInv /\ [DeliveryNext]_deliveryVars => IInv'
<1> SUFFICES ASSUME IInv, [DeliveryNext]_deliveryVars PROVE IInv'
  OBVIOUS
<1>1. ASSUME NEW q \in Requests, Serve(q) \/ HaAnswers(q) \/ Dialogue(q) PROVE IInv'
  <2>1. Moves(q)
    BY <1>1, ServeUnknownMoves, ServeMqttMoves, ServeHaMoves, ServeNoneMoves, ServeVoiceMoves, HaAnswersMoves,
       SpeakWakeMoves, ListenMoves, SpeakCommandMoves DEF Serve, Dialogue
  <2> QED
    BY <2>1, MovesKeep
<1>2. CASE UNCHANGED deliveryVars
  <2>1. Grows
    BY <1>2 DEF deliveryVars, Grows
  <2> QED
    BY <1>2, <2>1, StaysMeant DEF deliveryVars, IInv, DeliveryTypeOK, Fits, Heard, Alone, Expected, Talking, Route, To
<1> QED
  BY <1>1, <1>2 DEF DeliveryNext

THEOREM Invariant == DeliverySpec => []IInv
BY InitHolds, StepKeeps, PTL DEF DeliverySpec

\* An ok is published once, for one thing that the device was told: what was asked, unless it
\* is nothing that the device offers or a brightness of a Zigbee device; and no error, without a
\* break, for something it was told (adapter.js:177 to 314).
THEOREM TrueAnswers == DeliverySpec => []AnswersTrue
<1>1. IInv => AnswersTrue
  <2> SUFFICES ASSUME IInv, NEW r \in Requests
               PROVE  /\ Len(answers[r]) <= 1
                      /\ answers[r] = <<"ok">> => Len(told[r]) = 1 /\ (Meant(r) => told[r] = <<order[r].what>>)
                      /\ answers[r] # <<"ok">> /\ r \notin cut => told[r] = <<>>
    BY DEF AnswersTrue
  <2>1. Fits(r)
    BY DEF IInv
  <2>2. Len(<<>>) = 0 /\ Len(<<"ok">>) = 1 /\ Len(<<"error">>) = 1
    OBVIOUS
  <2>3. answers[r] \in {<<>>, <<"ok">>, <<"error">>}
    BY <2>1 DEF Fits
  <2>4. <<"ok">> # <<>> /\ <<"ok">> # <<"error">>
    <3>1. <<"ok">>[1] # <<"error">>[1]
      OBVIOUS
    <3> QED
      BY <2>2, <3>1
  <2>5. Len(answers[r]) \in {0, 1}
    BY <2>2, <2>3, Zenon
  <2>6. answers[r] = <<"ok">> => Tells(r, told[r])
    BY <2>1, <2>4, Zenon DEF Fits
  <2>7. Tells(r, told[r]) => Len(told[r]) = 1 /\ (Meant(r) => told[r] = <<order[r].what>>)
    <3>1. Len(<<order[r].what>>) = 1 /\ Len(<<Other>>) = 1
      OBVIOUS
    <3> QED
      BY <3>1, Zenon DEF Tells
  <2>8. answers[r] # <<"ok">> /\ r \notin cut => told[r] = <<>>
    BY <2>1, Zenon DEF Fits
  <2>9. \A n : n \in {0, 1} => n <= 1
    OBVIOUS
  <2> QED
    BY <2>5, <2>6, <2>7, <2>8, <2>9
<1> QED
  BY <1>1, Invariant, PTL

\* A command that was spoken outside of overlapping dialogues was acknowledged by its
\* own device (voice-control.js:119).
THEOREM AwaitedCommands == DeliverySpec => []CommandIsAwaited
<1>1. IInv => CommandIsAwaited
  BY DEF IInv, Heard, CommandIsAwaited
<1> QED
  BY <1>1, Invariant, PTL


-----------------------------------------------------------------------------
(* The store: the inductive invariant.                                      *)

\* A list of devices is read next.
ListWaits == mode.source = "mqtt" /\ job = Idle /\ queue # <<>> /\ Head(queue).kind = "devices"

\* Each mode has only its own source.
Apart ==
  IF mode.source = "mqtt"
  THEN /\ socket = "down" /\ wire = <<>> /\ \A s \in Slots : polls[s] = Idle
       /\ \A d \in Ids : store[d] # None => d \in Z2M
       /\ refresh.phase = "write" => refresh.left \subseteq Z2M
  ELSE /\ queue = <<>> /\ job = Idle /\ panel = Idle
       /\ \A d \in Ids : store[d] # None => d \in Entities
       /\ refresh.phase = "write" => refresh.left \subseteq Entities

\* A device has one name, in every list that is around; the list that is followed heads
\* the queue.
Single(n) == \A f, g \in Names : n[f] # None /\ n[f] = n[g] => f = g
OneName ==
  /\ net \in Nets /\ Single(known)
  /\ job # Idle => job.net \in Nets /\ queue # <<>>
  /\ \A n \in 1 .. Len(queue) : queue[n].kind = "devices" => queue[n].net \in Nets

\* The endpoints that are being written are those of the device that has the name.
Followed == IF job = Idle THEN known ELSE job.net
Following == panel # Idle =>
  /\ panel.left # {} /\ \A c \in panel.left : Followed[panel.name] = PanelOf[c]
  /\ job # Idle => job.phase = "write" /\ panel.name \notin job.left
Pending(d) == panel # Idle /\ d \in panel.left

\* The overrides are those of the file whose time is recorded.
Loaded == refresh.phase # "load" /\ seen = mtime /\ file # Broken => overrides = file

\* What a refresh read is still so, unless someone was noted to write it.
Listed == refresh.phase = "write" =>
  \A d \in refresh.left : refresh.list[d] # None /\ (d \notin refresh.touched => store[d] = refresh.list[d])

\* A device that is not displaced has the placement of the overrides, or will be written
\* or removed.
Unnamed(d) == job.list[d] # None /\ NameOf(job.net, BaseOf(d)) = {}
ToWrite(d) ==
  \/ refresh.phase = "list"
  \/ refresh.phase = "write" /\ d \in refresh.left
  \/ ListWaits \/ Pending(d)
  \/ job.phase = "write" /\ ((\E f \in job.left : job.net[f] = BaseOf(d)) \/ Unnamed(d))
  \/ job.phase = "remove" /\ d \in job.left
  \/ socket = "down" /\ polls[1] # Idle /\ d \in polls[1].left
Right(d) == Wanted(overrides, d) # None => store[d].place = Wanted(overrides, d)
InForce == \A d \in Ids \ displaced : store[d] # None /\ ~ToWrite(d) => Right(d)

\* Device d is in the store, as the last message under name f left it.
Shown(d, f) == store[d] # None /\ (stateOf[f] # None => store[d].traits = stateOf[f])

\* How far the devices that are not stale follow a list: while its devices are written,
\* while what it lacks is removed, and afterwards.
Written == job.phase = "write" =>
  /\ \A f \in job.left : f \in Names /\ job.net[f] # None
  /\ \A d \in Z2M \ stale :
       /\ \A f \in Names \ job.left : job.net[f] = BaseOf(d) => Pending(d) \/ Shown(d, f)
       /\ NameOf(job.net, BaseOf(d)) = {} /\ job.list[d] = None => store[d] = None
Removed == job.phase = "remove" =>
  /\ known = job.net
  /\ \A d \in job.left : d \in Z2M /\ NameOf(known, BaseOf(d)) = {}
  /\ \A d \in Z2M \ stale :
       /\ \A f \in Names : known[f] = BaseOf(d) => Shown(d, f)
       /\ NameOf(known, BaseOf(d)) = {} /\ d \notin job.left => store[d] = None
Known == mode.source = "mqtt" /\ job = Idle /\ ~ListWaits =>
  \A d \in Z2M \ stale :
    /\ \A f \in Names : known[f] = BaseOf(d) => Pending(d) \/ Shown(d, f)
    /\ NameOf(known, BaseOf(d)) = {} => store[d] = None

\* The last event on the way says how an entity is, and so does an entity that is not stale
\* and for which nothing is on the way.
FirstPoll == socket = "down" => polls[2] = Idle
NoWire == socket # "open" => wire = <<>>
LastEvent == \A n \in 1 .. Len(wire) :
  (\A m \in n + 1 .. Len(wire) : wire[m].id # wire[n].id) => wire[n].value = real[wire[n].id]
OnWire(e) == \E n \in 1 .. Len(wire) : wire[n].id = e
PollCurrent == \A s \in Slots : polls[s] # Idle =>
  \A e \in polls[s].left \ polls[s].touched : polls[s].states[e] = real[e] \/ OnWire(e)
Mirrored == mode.source = "ha" =>
  \A e \in Entities \ stale : ~Awaited(e) => store[e] # None /\ store[e].traits = real[e]

ZigbeeInv == Following /\ Written /\ Removed /\ Known
HaInv == FirstPoll /\ NoWire /\ LastEvent /\ PollCurrent /\ Mirrored
StoreInv == TypeOK /\ Apart /\ OneName /\ Loaded /\ Listed /\ InForce /\ ZigbeeInv /\ HaInv

-----------------------------------------------------------------------------
(* Notes and placements.                                                    *)

\* A note is taken by what writes a list, and changes nothing else of it.
LEMMA RefreshNote ==
  ASSUME NEW d \in Ids, NEW r \in Refresh
  PROVE  /\ Note(r, d) \in Refresh /\ Note(r, d).phase = r.phase
         /\ Note(r, d) = Idle <=> r = Idle
         /\ r.phase = "write" => /\ Note(r, d).list = r.list /\ Note(r, d).left = r.left
                                 /\ Note(r, d).touched = r.touched \cup {d}
BY DEF Note, Refresh, Idle

\* So it is with a poll.
LEMMA PollNote ==
  ASSUME NEW d \in Ids, NEW p \in Poll
  PROVE  /\ Note(p, d) \in Poll /\ Note(p, d).phase = p.phase
         /\ Note(p, d) = Idle <=> p = Idle
         /\ p # Idle => /\ p.phase = "write" /\ Note(p, d).states = p.states /\ Note(p, d).left = p.left
                        /\ Note(p, d).touched = p.touched \cup {d}
BY DEF Note, Poll, Idle

\* Whose messages are about what is stored.
LEMMA BaseFacts ==
  /\ \A d \in Ids : BaseOf(d) \in Ids
  /\ \A d \in Z2M : BaseOf(d) \in Zigbee /\ d \in Ids
  /\ \A d \in Things : BaseOf(d) = d
  /\ \A c \in Endpoints : BaseOf(c) = PanelOf[c] /\ c \notin Zigbee
  /\ None \notin Ids
BY AdapterAssumption DEF BaseOf, Things, Ids, Z2M

\* The placement in the overrides wins.
LEMMA PlacedRight ==
  ASSUME NEW d \in Ids, overrides \in Map, NEW existing \in Device \cup {None}
  PROVE  /\ Placed(d, existing) \in Places \cup {None} /\ Wanted(overrides, d) \in Places \cup {None}
         /\ Wanted(overrides, d) # None => Placed(d, existing) = Wanted(overrides, d)
BY BaseFacts DEF Placed, Wanted, Map, Device

\* A device is no absence, whatever its traits and place.
LEMMA IsDevice ==
  ASSUME NEW t \in Values \cup {None}, NEW p \in Places \cup {None}
  PROVE  [traits |-> t, place |-> p] \in Device /\ [traits |-> t, place |-> p] # None
BY AdapterAssumption DEF Device

\* What a write of d leaves: the note of the refresh, its list, and the sources.
LEMMA Touches ==
  ASSUME StoreInv, NEW d \in Ids, NEW x \in Device \cup {None}, store' = [store EXCEPT ![d] = x], Touch(d)
  PROVE  /\ store' \in Stored /\ refresh' \in Refresh /\ refresh'.phase = refresh.phase
         /\ refresh' = Idle <=> refresh = Idle
         /\ refresh.phase = "write" => refresh'.left = refresh.left
         /\ Listed'
<1> USE DEF StoreInv, TypeOK
<1>1. refresh \in Refresh /\ refresh' = Note(refresh, d) /\ store \in Stored
  BY DEF Touch
<1>2. store' \in Stored
  BY <1>1 DEF Stored
<1>3. /\ refresh' \in Refresh /\ refresh'.phase = refresh.phase
      /\ refresh' = Idle <=> refresh = Idle
      /\ refresh.phase = "write" => /\ refresh'.list = refresh.list /\ refresh'.left = refresh.left
                                    /\ refresh'.touched = refresh.touched \cup {d}
  BY <1>1, RefreshNote
<1>4. ASSUME refresh.phase = "write", NEW e \in refresh.left
      PROVE  refresh.list[e] # None /\ (e \notin refresh.touched \cup {d} => store'[e] = refresh.list[e])
  <2>1. e \in Ids
    BY <1>1, <1>4 DEF Refresh, Idle
  <2> QED
    BY <1>1, <1>4, <2>1 DEF Listed, Stored
<1>5. Listed'
  BY <1>3, <1>4 DEF Listed
<1> QED
  BY <1>2, <1>3, <1>5

-----------------------------------------------------------------------------
(* The overrides file.                                                      *)

\* Nothing that the two sources keep is changed.
SourcesRest ==
  UNCHANGED <<mode, store, net, queue, job, panel, known, stateOf, real, socket, wire, polls, stale, displaced>>

\* Then what is known of the sources stays.
LEMMA RestKeeps ==
  ASSUME StoreInv, SourcesRest
  PROVE  ZigbeeInv' /\ HaInv' /\ OneName' /\ ListWaits' = ListWaits
<1> USE DEF StoreInv, SourcesRest
<1>1. ListWaits' = ListWaits
  BY DEF ListWaits
<1>2. ZigbeeInv'
  BY <1>1 DEF ZigbeeInv, Following, Followed, Pending, Written, Removed, Known, Shown, NameOf
<1>3. HaInv'
  BY DEF HaInv, FirstPoll, NoWire, LastEvent, PollCurrent, OnWire, Mirrored, Awaited
<1>4. OneName'
  BY DEF OneName, Single
<1> QED
  BY <1>1, <1>2, <1>3, <1>4

\* An edit of the file is not in force until it is read.
LEMMA EditKeeps == ASSUME StoreInv, NEW f \in Files, EditFile(f) PROVE StoreInv'
<1> USE DEF StoreInv
<1>1. SourcesRest /\ UNCHANGED <<refresh, overrides>>
  BY DEF EditFile, SourcesRest, zig, ha, history
<1>2. TypeOK'
  BY DEF TypeOK, EditFile, zig, ha, history
<1>3. Loaded'
  BY DEF TypeOK, EditFile, Loaded
<1>4. Apart' /\ Listed' /\ InForce'
  BY <1>1, RestKeeps DEF SourcesRest, Apart, Listed, InForce, Right, ToWrite, Pending, Unnamed, NameOf
<1> QED
  BY <1>1, <1>2, <1>3, <1>4, RestKeeps

\* From the time that is recorded to the list that is read, every device is about to be
\* written.
LEMMA RefreshStartsKeeps == ASSUME StoreInv, RefreshStarts PROVE StoreInv'
<1> USE DEF StoreInv
<1>1. SourcesRest /\ UNCHANGED overrides /\ refresh = Idle /\ refresh' = [phase |-> "load"]
  BY DEF RefreshStarts, SourcesRest, zig, ha, history
<1>2. TypeOK'
  BY <1>1 DEF TypeOK, RefreshStarts, zig, ha, history, Refresh
<1>3. Loaded' /\ Listed' /\ Apart'
  BY <1>1 DEF Loaded, Listed, Apart, SourcesRest
<1>4. InForce'
  BY <1>1, RestKeeps DEF SourcesRest, InForce, Right, ToWrite, Pending, Unnamed, NameOf, Idle
<1> QED
  BY <1>1, <1>2, <1>3, <1>4, RestKeeps

LEMMA RefreshLoadsKeeps == ASSUME StoreInv, RefreshLoads PROVE StoreInv'
<1> USE DEF StoreInv
<1>1. SourcesRest /\ refresh.phase = "load" /\ UNCHANGED <<file, mtime, seen>>
  BY DEF RefreshLoads, SourcesRest, zig, ha, history
<1>2. \/ file = Broken /\ refresh' = Idle /\ overrides' = overrides
      \/ file # Broken /\ overrides' = file /\ refresh' = [phase |-> "list"]
  BY DEF RefreshLoads
<1>3. TypeOK'
  BY <1>1, <1>2, AdapterAssumption DEF TypeOK, SourcesRest, Refresh
<1>4. Loaded' /\ Listed' /\ Apart'
  BY <1>1, <1>2 DEF Loaded, Listed, Apart, SourcesRest, Idle
<1>5. InForce'
  BY <1>1, <1>2, RestKeeps DEF SourcesRest, InForce, Right, ToWrite, Pending, Unnamed, NameOf, Idle
<1> QED
  BY <1>1, <1>3, <1>4, <1>5, RestKeeps

\* Every device of the store is in the list.
LEMMA RefreshListsKeeps == ASSUME StoreInv, RefreshLists PROVE StoreInv'
<1> USE DEF StoreInv
<1> DEFINE left == {d \in Ids : store[d] # None}
<1>1. SourcesRest /\ refresh.phase = "list" /\ UNCHANGED <<file, mtime, seen, overrides>>
  BY DEF RefreshLists, SourcesRest, zig, ha, history
<1>2. \/ left = {} /\ refresh' = Idle
      \/ refresh' = [phase |-> "write", list |-> store, left |-> left, touched |-> {}]
  BY DEF RefreshLists
<1>3. refresh' \in Refresh
  BY <1>2 DEF TypeOK, Refresh
<1>4. TypeOK'
  BY <1>1, <1>3 DEF TypeOK, SourcesRest
<1>5. Loaded'
  BY <1>1 DEF Loaded, SourcesRest
<1>6. Listed'
  BY <1>1, <1>2 DEF Listed, SourcesRest, Idle
<1>7. Apart'
  BY <1>1, <1>2 DEF Apart, SourcesRest, Idle
<1>8. InForce'
  BY <1>1, <1>2 DEF SourcesRest, InForce, Right, ToWrite, Pending, Idle
<1> QED
  BY <1>1, <1>4, <1>5, <1>6, <1>7, <1>8, RestKeeps

\* The write of one device: it is where the overrides say, and who read it before has a
\* note; if someone else wrote it since, it is stale, else it keeps its traits.
LEMMA RefreshWritesKeeps == ASSUME StoreInv, NEW d \in Ids, RefreshWrites(d) PROVE StoreInv'
<1> USE DEF StoreInv
<1> DEFINE x == [traits |-> refresh.list[d].traits, place |-> Placed(d, refresh.list[d])]
<1>1. /\ refresh.phase = "write" /\ d \in refresh.left
      /\ store' = [store EXCEPT ![d] = x]
      /\ refresh' = IF refresh.left = {d} THEN Idle ELSE [refresh EXCEPT !.left = @ \ {d}]
      /\ polls' = [s \in Slots |-> Note(polls[s], d)]
      /\ displaced' = displaced \ {d} /\ stale' = IF d \in refresh.touched THEN stale \cup {d} ELSE stale
      /\ UNCHANGED <<mode, file, mtime, overrides, seen, net, queue, job, panel, known, stateOf, real, socket, wire>>
  BY DEF RefreshWrites, Outdated, zig, ha
<1>2. /\ refresh \in Refresh /\ refresh # Idle /\ refresh.left \subseteq Ids
      /\ refresh.list \in Stored /\ refresh.list[d] \in Device
  BY <1>1 DEF TypeOK, Refresh, Idle, Listed, Stored
<1>3. x \in Device /\ x # None /\ (Wanted(overrides, d) # None => x.place = Wanted(overrides, d))
  <2>1. /\ refresh.list[d].traits \in Values \cup {None}
        /\ Placed(d, refresh.list[d]) \in Places \cup {None}
        /\ Wanted(overrides, d) # None => Placed(d, refresh.list[d]) = Wanted(overrides, d)
    BY <1>2, PlacedRight DEF TypeOK, Device
  <2> QED
    BY <2>1, IsDevice
<1>4. d \notin refresh.touched => store[d] # None /\ x.traits = store[d].traits
  BY <1>1, <1>2 DEF Listed
<1> HIDE DEF x
<1>5. store' \in Stored /\ store'[d] = x /\ \A e \in Ids \ {d} : store'[e] = store[e]
  BY <1>1, <1>3 DEF TypeOK, Stored
<1>6. refresh' \in Refresh /\ \/ refresh' = Idle /\ refresh.left = {d}
                              \/ refresh'.phase = "write" /\ refresh'.left = refresh.left \ {d}
                                 /\ refresh'.list = refresh.list /\ refresh'.touched = refresh.touched
  BY <1>1, <1>2 DEF Refresh, Idle
<1>7. \A s \in Slots : /\ polls'[s] \in Poll /\ (polls'[s] = Idle <=> polls[s] = Idle)
                       /\ polls[s] # Idle => /\ polls'[s].left = polls[s].left /\ polls'[s].states = polls[s].states
                                             /\ polls'[s].touched = polls[s].touched \cup {d}
  BY <1>1, PollNote DEF TypeOK
<1>8. TypeOK'
  <2>1. stale' \subseteq Ids /\ polls' \in [Slots -> Poll]
    BY <1>1, <1>7 DEF TypeOK
  <2> QED
    BY <1>1, <1>5, <1>6, <2>1 DEF TypeOK
<1>9. Apart'
  <2>1. mode.source = "mqtt" => d \in Z2M
    BY <1>1 DEF Apart
  <2>2. mode.source # "mqtt" => d \in Entities
    BY <1>1 DEF Apart
  <2> QED
    BY <1>1, <1>5, <1>6, <1>7, <2>1, <2>2 DEF Apart, Idle
<1>10. OneName' /\ Loaded'
  BY <1>1, <1>6 DEF OneName, Single, Loaded, Idle
<1>11. Listed'
  <2>1. ASSUME refresh'.phase = "write", NEW e \in refresh'.left
        PROVE  refresh'.list[e] # None /\ (e \notin refresh'.touched => store'[e] = refresh'.list[e])
    <3>1. /\ e \in refresh.left \ {d} /\ refresh'.list = refresh.list /\ refresh'.touched = refresh.touched
      BY <1>6, <2>1 DEF Idle
    <3>2. e \in Ids
      BY <1>2, <3>1
    <3> QED
      BY <1>1, <1>5, <3>1, <3>2 DEF Listed
  <2> QED
    BY <2>1 DEF Listed
<1>12. ListWaits' = ListWaits
  BY <1>1 DEF ListWaits
<1>13. InForce'
  <2> SUFFICES ASSUME NEW e \in Ids \ displaced', store'[e] # None, ~ToWrite(e)' PROVE Right(e)'
    BY DEF InForce
  <2>1. CASE e = d
    BY <1>1, <1>3, <1>5, <2>1 DEF Right
  <2>2. CASE e # d
    <3>1. ~ToWrite(e)
      BY <1>1, <1>6, <1>7, <1>12, <2>2 DEF ToWrite, Pending, Unnamed, NameOf, Slots
    <3> QED
      BY <1>1, <1>5, <2>2, <3>1 DEF InForce, Right
  <2> QED
    BY <2>1, <2>2
<1>14. ASSUME NEW e \in Ids \ stale'
       PROVE  e \notin stale /\ (store'[e] # None <=> store[e] # None) /\ (store[e] # None => store'[e].traits = store[e].traits)
  BY <1>1, <1>3, <1>4, <1>5, <1>14
<1>15. ZigbeeInv'
  BY <1>1, <1>12, <1>14 DEF ZigbeeInv, Following, Followed, Pending, Written, Removed, Known, Shown, NameOf, Ids
<1>16. HaInv'
  <2>1. FirstPoll' /\ NoWire' /\ LastEvent'
    BY <1>1, <1>7 DEF HaInv, FirstPoll, NoWire, LastEvent, Slots
  <2>2. PollCurrent'
    BY <1>1, <1>7 DEF HaInv, PollCurrent, OnWire
  <2>3. \A e \in Entities : Awaited(e)' <=> Awaited(e)
    BY <1>1, <1>7 DEF Awaited
  <2>4. Mirrored'
    BY <1>1, <1>14, <2>3 DEF HaInv, Mirrored, Ids
  <2> QED
    BY <2>1, <2>2, <2>4 DEF HaInv
<1> QED
  BY <1>8, <1>9, <1>10, <1>11, <1>13, <1>15, <1>16

-----------------------------------------------------------------------------
(* Zigbee2MQTT.                                                             *)

\* A message that joins the queue changes nothing of the store, nor what is read next.
LEMMA SendKeeps ==
  ASSUME StoreInv, NEW m \in Message, m.kind = "devices" => m.net \in Nets, Send(m), net' \in Nets,
         mode.source = "mqtt", real' \in [Things -> Values],
         UNCHANGED <<mode, shared, store, job, panel, known, stateOf, ha, history>>
  PROVE  StoreInv'
<1> USE DEF StoreInv
<1>1. queue' = Append(queue, m) /\ queue \in Seq(Message)
  BY DEF Send, TypeOK
<1>2. /\ queue' \in Seq(Message) /\ queue' # <<>> /\ Len(queue') = Len(queue) + 1
      /\ \A n \in 1 .. Len(queue) : queue'[n] = queue[n]
      /\ queue'[Len(queue) + 1] = m
      /\ queue # <<>> => Head(queue') = Head(queue)
  BY <1>1
<1>3. TypeOK'
  BY <1>2, AdapterAssumption DEF TypeOK, shared, ha, history
<1>4. OneName'
  <2>1. ASSUME NEW n \in 1 .. Len(queue'), queue'[n].kind = "devices" PROVE queue'[n].net \in Nets
    <3>1. CASE n = Len(queue) + 1
      BY <1>2, <2>1, <3>1
    <3>2. CASE n \in 1 .. Len(queue)
      BY <1>2, <2>1, <3>2 DEF OneName
    <3> QED
      BY <1>1, <1>2, <3>1, <3>2
  <2> QED
    BY <1>2, <2>1 DEF OneName, Single
<1>5. ListWaits => ListWaits'
  BY <1>2 DEF ListWaits
<1>6. Apart' /\ Loaded' /\ Listed'
  BY DEF Apart, Loaded, Listed, shared, ha
<1>7. InForce'
  BY <1>5 DEF InForce, Right, ToWrite, Pending, Unnamed, NameOf, shared, ha, history
<1>8. ZigbeeInv'
  BY <1>5 DEF history, ZigbeeInv, Following, Followed, Pending, Written, Removed, Known, Shown, NameOf
<1>9. HaInv'
  BY DEF HaInv, FirstPoll, NoWire, LastEvent, PollCurrent, OnWire, Mirrored, Awaited, ha, Apart
<1> QED
  BY <1>3, <1>4, <1>6, <1>7, <1>8, <1>9

LEMMA ReportKeeps == ASSUME StoreInv, NEW d \in Zigbee, Report(d) PROVE StoreInv'
<1>1. PICK f \in NameOf(net, d) : Send([kind |-> "state", name |-> f, value |-> real[d]])
  BY DEF Report
<1>2. [kind |-> "state", name |-> f, value |-> real[d]] \in Message
  BY DEF Message, NameOf, StoreInv, TypeOK, Things
<1> QED
  BY <1>1, <1>2, SendKeeps DEF Report, StoreInv, OneName, TypeOK

LEMMA DeviceChangesKeeps == ASSUME StoreInv, NEW d \in Zigbee, NEW v \in Values, DeviceChanges(d, v) PROVE StoreInv'
<1>1. PICK f \in NameOf(net, d) : Send([kind |-> "state", name |-> f, value |-> v])
  BY DEF DeviceChanges
<1>2. [kind |-> "state", name |-> f, value |-> v] \in Message /\ real' \in [Things -> Values]
  BY DEF Message, NameOf, StoreInv, TypeOK, Ids, DeviceChanges, Changes
<1> QED
  BY <1>1, <1>2, SendKeeps DEF DeviceChanges, StoreInv, OneName

LEMMA RearrangeKeeps == ASSUME StoreInv, NEW n \in Nets, Rearrange(n) PROVE StoreInv'
<1>1. [kind |-> "devices", net |-> n] \in Message
  BY AdapterAssumption DEF Message
<1> QED
  BY <1>1, SendKeeps DEF Rearrange, StoreInv, TypeOK

\* In mode mqtt there is nothing of Home Assistant.
LEMMA HaRests ==
  ASSUME StoreInv, mode.source = "mqtt", UNCHANGED <<mode, ha>>
  PROVE  HaInv' /\ polls[1] = Idle /\ polls'[1] = Idle
<1>1. socket' = "down" /\ wire' = <<>> /\ \A s \in Slots : polls'[s] = Idle /\ polls[s] = Idle
  BY DEF StoreInv, Apart, ha
<1> QED
  BY <1>1 DEF HaInv, FirstPoll, NoWire, LastEvent, PollCurrent, Mirrored, Slots

\* Next1: whose turn it is.
LEMMA AtHead ==
  ASSUME StoreInv, queue # <<>>
  PROVE  /\ mode.source = "mqtt" /\ Head(queue) \in Message /\ Tail(queue) \in Seq(Message)
         /\ Head(queue) = queue[1] /\ 1 \in 1 .. Len(queue)
         /\ Len(Tail(queue)) = Len(queue) - 1
         /\ \A n \in 1 .. Len(Tail(queue)) : Tail(queue)[n] = queue[n + 1] /\ n + 1 \in 1 .. Len(queue)
BY DEF StoreInv, TypeOK, Apart

\* What is left of the queue names its devices.
LEMMA TailNamed ==
  ASSUME StoreInv, queue # <<>>
  PROVE  \A n \in 1 .. Len(Tail(queue)) : Tail(queue)[n].kind = "devices" => Tail(queue)[n].net \in Nets
BY AtHead DEF StoreInv, OneName

\* When a device has been written its endpoints, if it has any, are to be.
LEMMA BeginsFacts ==
  ASSUME StoreInv, NEW f \in Names, NEW d \in Zigbee, NEW existing \in Device \cup {None}, Begins(f, d, existing)
  PROVE  /\ panel' \in Panel /\ (\A e : Pending(e)' <=> e \in EndpointsOf(d))
         /\ panel' # Idle => panel'.name = f /\ panel'.left = EndpointsOf(d) /\ EndpointsOf(d) # {}
<1> DEFINE p == [phase |-> "endpoints", name |-> f, left |-> EndpointsOf(d),
                 given |-> overrides[d], place |-> Placed(d, existing)]
<1>1. overrides[d] \in Places \cup {None} /\ Placed(d, existing) \in Places \cup {None} /\ EndpointsOf(d) \subseteq Endpoints
  BY BaseFacts, PlacedRight DEF StoreInv, TypeOK, Map, EndpointsOf, Z2M
<1>2. p \in Panel /\ p # Idle /\ p.left = EndpointsOf(d) /\ p.name = f
  BY <1>1 DEF Panel, Idle
<1>3. panel' = IF EndpointsOf(d) = {} THEN Idle ELSE p
  BY DEF Begins
<1> HIDE DEF p
<1> QED
  BY <1>2, <1>3 DEF Pending, Panel

\* A state is written for the device that has the name, and kept for the name.
LEMMA HandleStateKeeps == ASSUME StoreInv, HandleState PROVE StoreInv'
<1> USE DEF StoreInv
<1> DEFINE m == Head(queue)
           d == known[m.name]
<1>1. /\ job = Idle /\ panel = Idle /\ queue # <<>> /\ m.kind = "state" /\ queue' = Tail(queue)
      /\ UNCHANGED <<mode, file, mtime, overrides, seen, net, job, known, real, ha, displaced>>
      /\ stateOf' = [stateOf EXCEPT ![m.name] = m.value]
  BY DEF HandleState, Next1
<1>2. mode.source = "mqtt" /\ m \in Message /\ m.name \in Names /\ m.value \in Values /\ ~ListWaits
  BY <1>1, AtHead DEF Message, ListWaits
<1>3. d \in Zigbee \cup {None} /\ known \in Net /\ stateOf \in [Names -> Values \cup {None}]
  BY <1>2 DEF TypeOK, Net
<1>4. queue' \in Seq(Message) /\ stateOf' \in [Names -> Values \cup {None}]
  BY <1>1, <1>2, <1>3, AtHead
<1>5. HaInv' /\ polls'[1] = Idle /\ polls[1] = Idle
  BY <1>1, <1>2, HaRests
<1>6. OneName'
  BY <1>1, TailNamed DEF OneName, Single
<1>7. \A e : ~Pending(e)
  BY <1>1 DEF Pending
<1>8. \A e \in Z2M \ stale : NameOf(known, BaseOf(e)) = {} => store[e] = None
  BY <1>1, <1>2 DEF ZigbeeInv, Known
<1>9. \A e \in Z2M \ stale, f \in Names : known[f] = BaseOf(e) => Shown(e, f)
  BY <1>1, <1>2, <1>7 DEF ZigbeeInv, Known
<1>10. CASE d = None
  <2>1. UNCHANGED <<store, refresh, stale, panel>>
    BY <1>1, <1>10 DEF HandleState
  <2>2. TypeOK' /\ Apart' /\ Loaded' /\ Listed'
    BY <1>1, <1>2, <1>4, <2>1 DEF TypeOK, Apart, Loaded, Listed, ha
  <2>3. InForce'
    BY <1>1, <1>2, <1>5, <2>1 DEF InForce, Right, ToWrite, Pending, Idle
  <2>4. ZigbeeInv'
    <3>1. ASSUME NEW e \in Z2M \ stale, NEW f \in Names, known[f] = BaseOf(e) PROVE Shown(e, f)'
      <4>1. f # m.name
        BY <1>10, <3>1, BaseFacts DEF Z2M
      <4> QED
        BY <1>1, <1>3, <1>9, <2>1, <3>1, <4>1 DEF Shown
    <3> QED
      BY <1>1, <1>8, <2>1, <3>1 DEF ZigbeeInv, Following, Followed, Pending, Written, Removed, Known, Idle, NameOf
  <2> QED
    BY <1>5, <1>6, <2>2, <2>3, <2>4
<1>11. CASE d # None
  <2> DEFINE x == [traits |-> m.value, place |-> Placed(d, store[d])]
  <2>1. /\ store' = [store EXCEPT ![d] = x] /\ Touch(d) /\ stale' = stale \ {d} /\ d \in Zigbee /\ d \in Ids
        /\ Begins(m.name, d, store[d])
    BY <1>1, <1>3, <1>11 DEF HandleState, Ids, Things
  <2>2. x \in Device /\ x # None /\ (Wanted(overrides, d) # None => x.place = Wanted(overrides, d)) /\ x.traits = m.value
    BY <1>2, <2>1, PlacedRight, IsDevice DEF TypeOK, Stored
  <2> HIDE DEF x
  <2>3. /\ store' \in Stored /\ refresh' \in Refresh /\ refresh'.phase = refresh.phase
        /\ refresh' = Idle <=> refresh = Idle
        /\ refresh.phase = "write" => refresh'.left = refresh.left
        /\ Listed'
    BY <2>1, <2>2, Touches
  <2>4. store'[d] = x /\ \A e \in Ids \ {d} : store'[e] = store[e]
    BY <2>1 DEF TypeOK, Stored
  <2>5. store[d] \in Device \cup {None}
    BY <2>1 DEF TypeOK, Stored
  <2>6. /\ panel' \in Panel /\ (\A e : Pending(e)' <=> e \in EndpointsOf(d))
        /\ panel' # Idle => panel'.name = m.name /\ panel'.left = EndpointsOf(d) /\ EndpointsOf(d) # {}
    BY <1>2, <2>1, <2>5, BeginsFacts
  <2>7. TypeOK' /\ Apart' /\ Loaded'
    BY <1>1, <1>2, <1>4, <2>1, <2>3, <2>4, <2>6 DEF TypeOK, Apart, Loaded, ha, Z2M
  <2>8. InForce'
    <3> SUFFICES ASSUME NEW e \in Ids \ displaced', store'[e] # None, ~ToWrite(e)' PROVE Right(e)'
      BY DEF InForce
    <3>1. ~ToWrite(e)
      BY <1>1, <1>2, <1>5, <1>7, <2>3 DEF ToWrite, Idle
    <3> QED
      BY <1>1, <2>2, <2>4, <3>1 DEF InForce, Right
  <2>9. ZigbeeInv'
    <3>1. ASSUME NEW e \in Z2M \ stale', NEW f \in Names, known[f] = BaseOf(e) PROVE (Pending(e) \/ Shown(e, f))'
      <4>1. CASE e = d
        <5>1. f = m.name
          BY <1>2, <1>11, <2>1, <3>1, <4>1, BaseFacts DEF OneName, Single, Things
        <5> QED
          BY <1>1, <1>3, <2>2, <2>4, <4>1, <5>1 DEF Shown
      <4>2. CASE e # d /\ BaseOf(e) = d
        BY <2>6, <4>2 DEF EndpointsOf, BaseOf
      <4>3. CASE e # d /\ BaseOf(e) # d
        <5>1. f # m.name /\ Shown(e, f) /\ e \in Ids
          BY <1>9, <2>1, <3>1, <4>3, BaseFacts
        <5> QED
          BY <1>1, <1>3, <2>4, <4>3, <5>1 DEF Shown
      <4> QED
        BY <4>1, <4>2, <4>3
    <3>2. ASSUME NEW e \in Z2M \ stale', NameOf(known, BaseOf(e)) = {} PROVE store'[e] = None
      <4>1. e # d
        BY <1>2, <2>1, <3>2, BaseFacts DEF NameOf, Things
      <4> QED
        BY <1>8, <2>1, <2>4, <3>2, <4>1, BaseFacts
    <3>3. Following'
      BY <1>1, <2>6 DEF Following, Followed, EndpointsOf
    <3> QED
      BY <1>1, <3>1, <3>2, <3>3 DEF ZigbeeInv, Written, Removed, Known, Idle, NameOf
  <2> QED
    BY <1>5, <1>6, <2>3, <2>7, <2>8, <2>9
<1> QED
  BY <1>10, <1>11

\* A list starts: what the store lacks then and the list does not name stays away, unless a
\* refresh brings it back, from a copy it then is stale of.
LEMMA SyncListsKeeps == ASSUME StoreInv, SyncLists PROVE StoreInv'
<1> USE DEF StoreInv
<1> DEFINE m == Head(queue)
           names == {f \in Names : m.net[f] # None}
<1>1. /\ job = Idle /\ panel = Idle /\ queue # <<>> /\ m.kind = "devices"
      /\ job' = [phase |-> "write", net |-> m.net, list |-> store, left |-> names]
      /\ UNCHANGED <<mode, file, mtime, overrides, seen, refresh, store, net, queue, panel, known, stateOf, real, ha, stale, displaced>>
  BY DEF SyncLists, Next1, shared, history
<1>2. mode.source = "mqtt" /\ m \in Message /\ m.net \in Net /\ m.net \in Nets
  BY <1>1, AtHead DEF OneName, Message
<1>3. job' \in Job /\ job' # Idle /\ job'.phase = "write"
  BY <1>1, <1>2 DEF Job, TypeOK, Idle
<1>4. HaInv' /\ polls[1] = Idle /\ polls'[1] = Idle
  BY <1>1, <1>2, HaRests
<1>5. TypeOK'
  BY <1>1, <1>3 DEF TypeOK, ha
<1>6. Apart' /\ Loaded' /\ Listed' /\ OneName'
  BY <1>1, <1>2 DEF Apart, Loaded, Listed, ha, OneName, Single
<1>7. InForce'
  <2> SUFFICES ASSUME NEW e \in Ids, store[e] # None, ~ToWrite(e)' PROVE FALSE
    BY <1>1 DEF InForce
  <2>1. NameOf(m.net, BaseOf(e)) # {} /\ \A f \in names : m.net[f] # BaseOf(e)
    BY <1>1, <1>3 DEF ToWrite, Unnamed
  <2>2. BaseOf(e) = None
    BY <2>1 DEF NameOf
  <2> QED
    BY <2>2, BaseFacts
<1>8. ZigbeeInv'
  <2>1. \A f \in job'.left : f \in Names /\ job'.net[f] # None
    BY <1>1
  <2>2. \A d \in Z2M, f \in Names \ job'.left : job'.net[f] # BaseOf(d)
    BY <1>1, BaseFacts
  <2>3. \A d \in Z2M : job'.list[d] = store'[d]
    BY <1>1
  <2> QED
    BY <1>1, <1>3, <2>1, <2>2, <2>3 DEF ZigbeeInv, Following, Followed, Pending, Written, Removed, Known, NameOf
<1> QED
  BY <1>4, <1>5, <1>6, <1>7, <1>8

\* A job that is not idle: what it is at, and in which mode.
LEMMA AtWork ==
  ASSUME StoreInv, job.phase \in {"write", "remove"}
  PROVE  /\ mode.source = "mqtt" /\ job # Idle /\ job \in Job /\ job.net \in Net /\ job.net \in Nets /\ Single(job.net)
         /\ job.list \in Stored /\ job.left \subseteq Names \cup Z2M
<1>1. job # Idle /\ job \in Job
  BY DEF Idle, StoreInv, TypeOK
<1>2. mode.source = "mqtt" /\ job.net \in Nets
  BY <1>1 DEF StoreInv, Apart, OneName
<1>3. job.net \in Net /\ job.list \in Stored /\ job.left \subseteq Names \cup Z2M
  BY <1>1 DEF Job
<1> QED
  BY <1>1, <1>2, <1>3, AdapterAssumption DEF Single

\* A device of the list is written, with the state kept for its name.
LEMMA SyncWritesKeeps == ASSUME StoreInv, NEW f \in Names, SyncWrites(f) PROVE StoreInv'
<1> USE DEF StoreInv
<1> DEFINE d == job.net[f]
           x == [traits |-> SyncTraits(f, d, job.list[d]), place |-> Placed(d, job.list[d])]
<1>1. /\ job.phase = "write" /\ panel = Idle /\ f \in job.left
      /\ store' = [store EXCEPT ![d] = x] /\ Touch(d)
      /\ stale' = IF stateOf[f] # None THEN stale \ {d} ELSE stale
      /\ job' = [job EXCEPT !.left = @ \ {f}]
      /\ UNCHANGED <<mode, file, mtime, overrides, seen, net, queue, known, stateOf, real, ha, displaced>>
      /\ Begins(f, d, job.list[d])
  BY DEF SyncWrites
<1>2. /\ mode.source = "mqtt" /\ job # Idle /\ job \in Job /\ job.net \in Net /\ job.net \in Nets /\ Single(job.net)
      /\ job.list \in Stored
  BY <1>1, AtWork
<1>3. d \in Zigbee /\ d \in Ids
  BY <1>1, <1>2 DEF ZigbeeInv, Written, Net, Ids, Things
<1>4. /\ SyncTraits(f, d, job.list[d]) \in Values \cup {None}
      /\ stateOf[f] # None => SyncTraits(f, d, job.list[d]) = stateOf[f]
  BY <1>2, <1>3 DEF SyncTraits, TypeOK, Stored, Device
<1>5. /\ Placed(d, job.list[d]) \in Places \cup {None}
      /\ Wanted(overrides, d) # None => Placed(d, job.list[d]) = Wanted(overrides, d)
  BY <1>2, <1>3, PlacedRight DEF TypeOK, Stored
<1>6. x \in Device /\ x # None /\ (Wanted(overrides, d) # None => x.place = Wanted(overrides, d)) /\ (stateOf[f] # None => x.traits = stateOf[f])
  BY <1>4, <1>5, IsDevice
<1> HIDE DEF x
<1>7. /\ store' \in Stored /\ refresh' \in Refresh /\ refresh'.phase = refresh.phase
      /\ refresh' = Idle <=> refresh = Idle
      /\ refresh.phase = "write" => refresh'.left = refresh.left
      /\ Listed'
  BY <1>1, <1>3, <1>6, Touches
<1>8. store'[d] = x /\ \A e \in Ids \ {d} : store'[e] = store[e]
  BY <1>1, <1>3 DEF TypeOK, Stored
<1>9. /\ job' \in Job /\ job' # Idle /\ job'.phase = "write" /\ job'.net = job.net /\ job'.list = job.list
      /\ job'.left = job.left \ {f}
  BY <1>1, <1>2 DEF Job, Idle
<1>10. HaInv' /\ polls[1] = Idle /\ polls'[1] = Idle
  BY <1>1, <1>2, HaRests
<1>11. /\ panel' \in Panel /\ (\A e : Pending(e)' <=> e \in EndpointsOf(d)) /\ (\A e : ~Pending(e))
       /\ panel' # Idle => panel'.name = f /\ panel'.left = EndpointsOf(d) /\ EndpointsOf(d) # {}
  <2>1. job.list[d] \in Device \cup {None}
    BY <1>2, <1>3 DEF Stored
  <2> QED
    BY <1>1, <1>3, <2>1, BeginsFacts DEF Pending
<1>12. TypeOK' /\ Apart' /\ Loaded'
  BY <1>1, <1>2, <1>3, <1>7, <1>8, <1>9, <1>11 DEF TypeOK, Apart, Loaded, ha, Z2M
<1>13. OneName'
  BY <1>1, <1>2, <1>9 DEF OneName, Single
<1>14. InForce'
  <2> SUFFICES ASSUME NEW e \in Ids \ displaced, store'[e] # None, ~ToWrite(e)' PROVE Right(e)'
    BY <1>1 DEF InForce
  <2>1. CASE e = d
    BY <1>1, <1>6, <1>8, <2>1 DEF Right
  <2>2. CASE e # d /\ BaseOf(e) = d
    BY <1>3, <1>11, <2>2 DEF ToWrite, EndpointsOf, BaseOf
  <2>3. CASE e # d /\ BaseOf(e) # d
    <3>1. ~ListWaits
      BY <1>2 DEF ListWaits
    <3>2. ~ToWrite(e)
      BY <1>1, <1>7, <1>9, <1>10, <1>11, <2>3, <3>1 DEF ToWrite, Unnamed, NameOf
    <3> QED
      BY <1>1, <1>8, <2>3, <3>2 DEF InForce, Right
  <2> QED
    BY <2>1, <2>2, <2>3
<1>15. ZigbeeInv'
  <2>1. ASSUME NEW e \in Z2M \ stale', NEW g \in Names \ job'.left, job.net[g] = BaseOf(e) PROVE (Pending(e) \/ Shown(e, g))'
    <3>1. CASE e = d
      <4>1. g = f
        BY <1>2, <1>3, <2>1, <3>1, BaseFacts DEF Single, Things
      <4> QED
        BY <1>1, <1>6, <1>8, <3>1, <4>1 DEF Shown
    <3>2. CASE e # d /\ BaseOf(e) = d
      BY <1>11, <3>2 DEF EndpointsOf, BaseOf
    <3>3. CASE e # d /\ BaseOf(e) # d
      <4>1. g # f /\ e \in Ids
        BY <2>1, <3>3, BaseFacts
      <4>2. Shown(e, g)
        BY <1>1, <1>9, <1>11, <2>1, <3>3, <4>1 DEF ZigbeeInv, Written
      <4> QED
        BY <1>1, <1>8, <3>3, <4>1, <4>2 DEF Shown
    <3> QED
      BY <3>1, <3>2, <3>3
  <2>2. ASSUME NEW e \in Z2M \ stale', NameOf(job.net, BaseOf(e)) = {}, job.list[e] = None PROVE store'[e] = None
    <3>1. e # d /\ e \in Ids
      BY <1>3, <2>2, BaseFacts DEF NameOf, Things
    <3>2. store[e] = None
      BY <1>1, <2>2, <3>1 DEF ZigbeeInv, Written
    <3> QED
      BY <1>8, <3>1, <3>2
  <2>3. \A g \in job'.left : g \in Names /\ job'.net[g] # None
    BY <1>1, <1>9 DEF ZigbeeInv, Written
  <2>4. Following'
    BY <1>9, <1>11 DEF Following, Followed, EndpointsOf
  <2> QED
    BY <1>9, <2>1, <2>2, <2>3, <2>4 DEF ZigbeeInv, Written, Removed, Known, NameOf
<1> QED
  BY <1>7, <1>10, <1>12, <1>13, <1>14, <1>15

\* An endpoint is written with the state kept for its panel's name, and put where its own
\* placement or the one the panel was given when that began says.
LEMMA WriteEndpointKeeps == ASSUME StoreInv, NEW c \in Endpoints, WriteEndpoint(c) PROVE StoreInv'
<1> USE DEF StoreInv
<1> DEFINE f == panel.name
           existing == IF job = Idle THEN store[c] ELSE job.list[c]
           x == [traits |-> SyncTraits(f, c, existing), place |-> Inherited(c, existing)]
<1>1. /\ panel # Idle /\ c \in panel.left
      /\ store' = [store EXCEPT ![c] = x] /\ Touch(c)
      /\ stale' = IF stateOf[f] # None THEN stale \ {c} ELSE stale
      /\ displaced' = IF overrides[c] = None /\ panel.given # overrides[PanelOf[c]]
                      THEN displaced \cup {c} ELSE displaced \ {c}
      /\ panel' = IF panel.left = {c} THEN Idle ELSE [panel EXCEPT !.left = @ \ {c}]
      /\ UNCHANGED <<mode, file, mtime, overrides, seen, net, queue, job, known, stateOf, real, ha>>
  BY DEF WriteEndpoint
<1>2. /\ panel \in Panel /\ f \in Names /\ c \in Ids /\ c \in Z2M /\ BaseOf(c) = PanelOf[c] /\ PanelOf[c] \in Zigbee
      /\ panel.given \in Places \cup {None} /\ panel.place \in Places \cup {None}
  BY <1>1, BaseFacts, AdapterAssumption DEF TypeOK, Panel, Idle, Ids, Z2M
<1>3. /\ mode.source = "mqtt" /\ Followed[f] = PanelOf[c] /\ Single(Followed)
      /\ job # Idle => job.phase = "write" /\ f \notin job.left /\ job \in Job /\ job.list \in Stored /\ job.net \in Net
  <2>1. mode.source = "mqtt" /\ Followed[f] = PanelOf[c] /\ (job # Idle => job.phase = "write" /\ f \notin job.left)
    BY <1>1 DEF Apart, ZigbeeInv, Following
  <2> QED
    BY <2>1, AtWork DEF Followed, OneName
<1>4. existing \in Device \cup {None}
  BY <1>2, <1>3 DEF TypeOK, Stored
<1>5. /\ SyncTraits(f, c, existing) \in Values \cup {None}
      /\ stateOf[f] # None => SyncTraits(f, c, existing) = stateOf[f]
  BY <1>2, <1>4 DEF SyncTraits, TypeOK, Device
<1>6. /\ Inherited(c, existing) \in Places \cup {None} /\ overrides[c] \in Places \cup {None}
      /\ c \notin displaced' /\ Wanted(overrides, c) # None => Inherited(c, existing) = Wanted(overrides, c)
  <2>1. overrides[c] \in Places \cup {None}
    BY <1>2 DEF TypeOK, Map
  <2>2. CASE overrides[c] # None
    BY <2>1, <2>2 DEF Inherited, Wanted
  <2>3. CASE overrides[c] = None
    <3>1. Inherited(c, existing) \in Places \cup {None}
      BY <1>2, <1>4, <2>3 DEF Inherited, Device
    <3>2. c \notin displaced' => panel.given = overrides[PanelOf[c]]
      BY <1>1, <2>3
    <3> QED
      BY <1>2, <2>1, <2>3, <3>1, <3>2 DEF Inherited, Wanted
  <2> QED
    BY <2>2, <2>3
<1>7. /\ x \in Device /\ x # None /\ (stateOf[f] # None => x.traits = stateOf[f])
      /\ c \notin displaced' /\ Wanted(overrides, c) # None => x.place = Wanted(overrides, c)
  BY <1>5, <1>6, IsDevice
<1> HIDE DEF x, existing
<1>8. /\ store' \in Stored /\ refresh' \in Refresh /\ refresh'.phase = refresh.phase
      /\ refresh' = Idle <=> refresh = Idle
      /\ refresh.phase = "write" => refresh'.left = refresh.left
      /\ Listed'
  BY <1>1, <1>2, <1>7, Touches
<1>9. store'[c] = x /\ \A e \in Ids \ {c} : store'[e] = store[e]
  BY <1>1, <1>2 DEF TypeOK, Stored
<1>10. HaInv' /\ polls[1] = Idle /\ polls'[1] = Idle
  BY <1>1, <1>3, HaRests
<1>11. /\ panel' \in Panel /\ \A e : Pending(e)' <=> Pending(e) /\ e # c
       /\ panel' # Idle => panel'.name = f /\ panel'.left = panel.left \ {c} /\ panel'.left # {}
  <2>1. CASE panel.left = {c}
    BY <1>1, <2>1 DEF Pending, Panel
  <2>2. CASE panel.left # {c}
    <3>1. /\ panel' \in Panel /\ panel' # Idle /\ panel'.name = f /\ panel'.left = panel.left \ {c}
      BY <1>1, <1>2, <2>2 DEF Panel, Idle
    <3> QED
      BY <1>1, <2>2, <3>1 DEF Pending
  <2> QED
    BY <2>1, <2>2
<1>12. TypeOK'
  BY <1>1, <1>8, <1>11 DEF TypeOK, ha
<1>13. Apart' /\ Loaded'
  BY <1>1, <1>2, <1>3, <1>8, <1>9 DEF Apart, Loaded, ha
<1>14. OneName' /\ ListWaits' = ListWaits
  BY <1>1 DEF OneName, Single, ListWaits
<1>15. InForce'
  <2> SUFFICES ASSUME NEW e \in Ids \ displaced', store'[e] # None, ~ToWrite(e)' PROVE Right(e)'
    BY DEF InForce
  <2>1. CASE e = c
    BY <1>1, <1>7, <1>9, <2>1 DEF Right
  <2>2. CASE e # c
    <3>1. ~ToWrite(e)
      BY <1>1, <1>8, <1>10, <1>11, <1>14, <2>2 DEF ToWrite, Unnamed, NameOf
    <3>2. e \notin displaced
      BY <1>1, <2>2
    <3> QED
      BY <1>1, <1>9, <2>2, <3>1, <3>2 DEF InForce, Right
  <2> QED
    BY <2>1, <2>2
<1>16. \A e \in Z2M \ stale', g \in Names : Followed[g] = BaseOf(e) /\ (Pending(e) \/ Shown(e, g)) => (Pending(e) \/ Shown(e, g))'
  <2> SUFFICES ASSUME NEW e \in Z2M \ stale', NEW g \in Names, Followed[g] = BaseOf(e), Pending(e) \/ Shown(e, g)
               PROVE  (Pending(e) \/ Shown(e, g))'
    OBVIOUS
  <2>1. CASE e = c
    <3>1. g = f
      BY <1>2, <1>3, <2>1, BaseFacts DEF Single, Ids
    <3> QED
      BY <1>1, <1>7, <1>9, <2>1, <3>1 DEF Shown
  <2>2. CASE e # c
    BY <1>1, <1>9, <1>11, <2>2, BaseFacts DEF Shown
  <2> QED
    BY <2>1, <2>2
<1>17. \A e \in Z2M \ stale' : (e = c \/ e \notin stale) /\ (e # c => store'[e] = store[e])
  BY <1>1, <1>9, BaseFacts
<1>18. ZigbeeInv'
  <2>1. Following'
    BY <1>1, <1>11 DEF ZigbeeInv, Following, Followed
  <2>2. Written'
    <3> SUFFICES ASSUME job.phase = "write" PROVE Written'
      BY <1>1 DEF Written
    <3>1. Followed = job.net /\ job # Idle
      BY DEF Followed, Idle
    <3>2. ASSUME NEW e \in Z2M \ stale', NEW g \in Names \ job.left, job.net[g] = BaseOf(e) PROVE (Pending(e) \/ Shown(e, g))'
      <4>1. CASE e \in stale
        BY <1>1, <1>7, <1>9, <1>2, <1>3, <1>17, <3>1, <3>2, <4>1, BaseFacts DEF Shown, Single
      <4>2. CASE e \notin stale
        BY <1>16, <3>1, <3>2, <4>2 DEF ZigbeeInv, Written
      <4> QED
        BY <4>1, <4>2
    <3>3. ASSUME NEW e \in Z2M \ stale', NameOf(job.net, BaseOf(e)) = {}, job.list[e] = None PROVE store'[e] = None
      <4>1. e # c
        BY <1>2, <1>3, <3>1, <3>3 DEF NameOf
      <4> QED
        BY <1>17, <3>3, <4>1 DEF ZigbeeInv, Written
    <3> QED
      BY <1>1, <3>2, <3>3 DEF ZigbeeInv, Written, NameOf
  <2>3. Removed'
    BY <1>1, <1>3, <1>10 DEF Removed, Idle
  <2>4. Known'
    <3> SUFFICES ASSUME job = Idle, ~ListWaits PROVE Known'
      BY <1>1, <1>14 DEF Known
    <3>1. Followed = known
      BY DEF Followed
    <3>2. ASSUME NEW e \in Z2M \ stale', NEW g \in Names, known[g] = BaseOf(e) PROVE (Pending(e) \/ Shown(e, g))'
      <4>1. CASE e \in stale
        BY <1>1, <1>7, <1>9, <1>2, <1>3, <1>17, <3>1, <3>2, <4>1, BaseFacts DEF Shown, Single
      <4>2. CASE e \notin stale
        BY <1>3, <1>16, <3>1, <3>2, <4>2 DEF ZigbeeInv, Known
      <4> QED
        BY <4>1, <4>2
    <3>3. ASSUME NEW e \in Z2M \ stale', NameOf(known, BaseOf(e)) = {} PROVE store'[e] = None
      <4>1. e # c
        BY <1>2, <1>3, <3>1, <3>3 DEF NameOf
      <4> QED
        BY <1>3, <1>17, <3>3, <4>1 DEF ZigbeeInv, Known
    <3> QED
      BY <1>1, <3>2, <3>3 DEF Known, NameOf
  <2> QED
    BY <2>1, <2>2, <2>3, <2>4 DEF ZigbeeInv
<1> QED
  BY <1>8, <1>10, <1>12, <1>13, <1>14, <1>15, <1>18

\* The list has been followed: what the store has and the list names is one.
LEMMA SyncEndsKeeps ==
  ASSUME StoreInv, SyncEnds, mode.source = "mqtt", job # Idle,
         UNCHANGED <<mode, shared, net, panel, stateOf, real, ha>>, panel = Idle,
         store' \in Stored, known' \in Net, Single(known'), stale' \subseteq Ids, displaced' \subseteq Endpoints, Listed',
         \A e \in Ids : store'[e] # None => e \in Z2M,
         \A e \in Ids \ displaced' : store'[e] # None /\ refresh.phase # "list"
                          /\ ~(refresh.phase = "write" /\ e \in refresh.left) => Right(e)',
         \A e \in Z2M \ stale' :
           /\ \A f \in Names : known'[f] = BaseOf(e) => Shown(e, f)'
           /\ NameOf(known', BaseOf(e)) = {} => store'[e] = None
  PROVE  StoreInv'
<1> USE DEF StoreInv, SyncEnds
<1>1. HaInv' /\ polls[1] = Idle /\ polls'[1] = Idle
  BY HaRests
<1>2. queue' \in Seq(Message) /\ OneName'
  BY AtHead, TailNamed DEF OneName
<1>3. TypeOK'
  BY <1>2 DEF TypeOK, shared, ha, Job
<1>4. Apart' /\ Loaded'
  BY DEF Apart, Loaded, shared, ha
<1>5. InForce'
  BY DEF InForce, Right, ToWrite, Pending, shared, ha
<1>6. ZigbeeInv'
  BY DEF ZigbeeInv, Following, Followed, Pending, Written, Removed, Known, Idle
<1> QED
  BY <1>1, <1>2, <1>3, <1>4, <1>5, <1>6

\* The names are those of the list.
LEMMA SyncKnowsKeeps == ASSUME StoreInv, SyncKnows PROVE StoreInv'
<1> USE DEF StoreInv
<1> DEFINE left == {d \in Z2M : job.list[d] # None /\ NameOf(job.net, BaseOf(d)) = {}}
<1>1. /\ job.phase = "write" /\ panel = Idle /\ job.left = {} /\ known' = job.net
      /\ UNCHANGED <<mode, shared, store, net, panel, stateOf, real, ha, stale, displaced>>
  BY DEF SyncKnows, history
<1>2. /\ mode.source = "mqtt" /\ job # Idle /\ job \in Job /\ job.net \in Net /\ job.net \in Nets /\ Single(job.net)
  BY <1>1, AtWork
<1>3. ~ListWaits /\ polls[1] = Idle
  BY <1>2 DEF ListWaits, Apart, Slots
<1>4. \A e \in Ids : store[e] # None => e \in Z2M
  BY <1>2 DEF Apart
<1>5. ASSUME NEW e \in Ids \ displaced, store[e] # None, refresh.phase # "list",
             ~(refresh.phase = "write" /\ e \in refresh.left), e \notin left
      PROVE  Right(e)
  <2>1. ~ToWrite(e)
    BY <1>1, <1>3, <1>4, <1>5 DEF ToWrite, Pending, Unnamed
  <2> QED
    BY <1>5, <2>1 DEF InForce
<1>6. ASSUME NEW e \in Z2M \ stale
      PROVE  /\ \A f \in Names : job.net[f] = BaseOf(e) => Shown(e, f)
             /\ NameOf(job.net, BaseOf(e)) = {} /\ e \notin left => store[e] = None
  BY <1>1 DEF ZigbeeInv, Written, Pending
<1>7. CASE left = {}
  <2>1. SyncEnds
    BY <1>7 DEF SyncKnows
  <2>2. Listed'
    BY <1>1 DEF Listed, shared
  <2>3. store \in Stored /\ stale \subseteq Ids /\ displaced \subseteq Endpoints
    BY DEF TypeOK
  <2>4. \A e \in Z2M \ stale' : \A f \in Names : known'[f] = BaseOf(e) => Shown(e, f)'
    BY <1>1, <1>6 DEF Shown
  <2>5. \A e \in Z2M \ stale' : NameOf(known', BaseOf(e)) = {} => store'[e] = None
    BY <1>1, <1>6, <1>7
  <2>6. \A e \in Ids \ displaced' : store'[e] # None /\ refresh.phase # "list"
                          /\ ~(refresh.phase = "write" /\ e \in refresh.left) => Right(e)'
    BY <1>1, <1>5, <1>7 DEF Right, shared
  <2> HIDE DEF StoreInv
  <2> QED
    BY <1>1, <1>2, <1>4, <2>1, <2>2, <2>3, <2>4, <2>5, <2>6, SyncEndsKeeps
<1>8. CASE left # {}
  <2>1. job' = [job EXCEPT !.phase = "remove", !.left = left] /\ queue' = queue
    BY <1>8 DEF SyncKnows
  <2>2. job' \in Job /\ job'.phase = "remove" /\ job' # Idle /\ job'.net = job.net /\ job'.left = left
    BY <1>2, <2>1 DEF Job, Idle
  <2>3. HaInv' /\ polls'[1] = Idle
    BY <1>1, <1>2, HaRests
  <2>4. TypeOK'
    BY <1>1, <1>2, <2>1, <2>2 DEF TypeOK, shared, ha
  <2>5. Apart' /\ Loaded' /\ Listed' /\ OneName'
    BY <1>1, <1>2, <2>1, <2>2 DEF Apart, Loaded, Listed, OneName, Single, shared, ha
  <2>6. InForce'
    BY <1>1, <1>5, <2>2 DEF InForce, Right, ToWrite, Pending, shared
  <2>7. ZigbeeInv'
    BY <1>1, <1>6, <2>2 DEF ZigbeeInv, Following, Followed, Pending, Written, Removed, Known, Shown, NameOf
  <2> QED
    BY <2>3, <2>4, <2>5, <2>6, <2>7
<1> QED
  BY <1>7, <1>8

\* What the list lacks is removed, one after another.
LEMMA SyncRemovesKeeps == ASSUME StoreInv, NEW d \in Z2M, SyncRemoves(d) PROVE StoreInv'
<1> USE DEF StoreInv
<1>1. /\ job.phase = "remove" /\ d \in job.left /\ d \in Ids
      /\ store' = [store EXCEPT ![d] = None] /\ Touch(d) /\ stale' = stale \ {d}
      /\ UNCHANGED <<mode, file, mtime, overrides, seen, net, panel, known, stateOf, real, ha>>
      /\ displaced' = displaced \ {d}
      /\ \/ job.left = {d} /\ SyncEnds
         \/ job.left # {d} /\ job' = [job EXCEPT !.left = @ \ {d}] /\ queue' = queue
  BY BaseFacts DEF SyncRemoves
<1>2. /\ mode.source = "mqtt" /\ job # Idle /\ job \in Job /\ panel = Idle
  BY <1>1, AtWork DEF ZigbeeInv, Following
<1>3. ~ListWaits /\ polls[1] = Idle
  BY <1>2 DEF ListWaits, Apart, Slots
<1>4. /\ store' \in Stored /\ refresh' \in Refresh /\ refresh'.phase = refresh.phase
      /\ refresh' = Idle <=> refresh = Idle
      /\ refresh.phase = "write" => refresh'.left = refresh.left
      /\ Listed'
  BY <1>1, Touches
<1>5. store'[d] = None /\ \A e \in Ids \ {d} : store'[e] = store[e]
  BY <1>1 DEF TypeOK, Stored
<1>6. ASSUME NEW e \in Z2M \ stale'
      PROVE  /\ \A f \in Names : known[f] = BaseOf(e) => Shown(e, f)'
             /\ NameOf(known, BaseOf(e)) = {} /\ e \notin job.left \ {d} => store'[e] = None
  <2>1. CASE e = d
    BY <1>1, <1>5, <2>1 DEF ZigbeeInv, Removed, NameOf
  <2>2. CASE e # d
    BY <1>1, <1>5, <2>2, BaseFacts DEF ZigbeeInv, Removed, Shown
  <2> QED
    BY <2>1, <2>2
<1>7. \A e \in Ids : store'[e] # None => e # d /\ store[e] # None /\ store'[e] = store[e] /\ e \in Z2M
  BY <1>2, <1>5 DEF Apart
<1>8. known \in Net /\ Single(known) /\ stale' \subseteq Ids /\ displaced' \subseteq Endpoints
  BY <1>1 DEF TypeOK, OneName
<1>9. HaInv' /\ polls'[1] = Idle
  BY <1>1, <1>2, HaRests
<1>10. ASSUME NEW e \in Ids \ displaced', store'[e] # None, refresh.phase # "list",
              ~(refresh.phase = "write" /\ e \in refresh.left), e \notin job.left \ {d}
       PROVE  Right(e)'
  <2>1. ~ToWrite(e)
    BY <1>1, <1>2, <1>3, <1>7, <1>10 DEF ToWrite, Pending
  <2> QED
    BY <1>1, <1>7, <1>10, <2>1 DEF InForce, Right
<1>11. TypeOK' /\ Apart' /\ Loaded' /\ OneName' /\ InForce' /\ ZigbeeInv'
  <2>1. CASE job.left = {d} /\ SyncEnds
    <3>1. queue' \in Seq(Message) /\ OneName'
      BY <1>1, <1>2, <2>1, AtHead, TailNamed DEF OneName, SyncEnds, Single
    <3>2. TypeOK' /\ Apart' /\ Loaded'
      BY <1>1, <1>2, <1>4, <1>7, <1>8, <2>1, <3>1 DEF TypeOK, Apart, Loaded, SyncEnds, Job, ha
    <3>3. InForce'
      BY <1>1, <1>4, <1>10, <2>1 DEF InForce, Right, ToWrite, Pending
    <3>4. ZigbeeInv'
      BY <1>1, <1>6, <2>1 DEF ZigbeeInv, Following, Followed, Pending, Written, Removed, Known, SyncEnds, Idle
    <3> QED
      BY <3>1, <3>2, <3>3, <3>4
  <2>2. CASE job' = [job EXCEPT !.left = @ \ {d}] /\ queue' = queue
    <3>1. job' \in Job /\ job'.phase = "remove" /\ job' # Idle /\ job'.net = job.net /\ job'.left = job.left \ {d}
      BY <1>1, <1>2, <2>2 DEF Job, Idle
    <3>2. TypeOK' /\ Apart' /\ Loaded' /\ OneName'
      BY <1>1, <1>2, <1>4, <1>7, <1>8, <2>2, <3>1 DEF TypeOK, Apart, Loaded, OneName, Single, ha
    <3>3. InForce'
      BY <1>1, <1>4, <1>10, <3>1 DEF InForce, Right, ToWrite, Pending
    <3>4. ZigbeeInv'
      BY <1>1, <1>2, <1>6, <3>1 DEF ZigbeeInv, Following, Followed, Pending, Written, Removed, Known
    <3> QED
      BY <3>2, <3>3, <3>4
  <2> QED
    BY <1>1, <2>1, <2>2
<1> QED
  BY <1>4, <1>9, <1>11

-----------------------------------------------------------------------------
(* Home Assistant.                                                          *)

\* In mode ha there is nothing of Zigbee2MQTT.
LEMMA ZigbeeRests ==
  ASSUME StoreInv, mode.source # "mqtt", UNCHANGED <<mode, zig>>
  PROVE  /\ mode.source = "ha" /\ job = Idle /\ job' = Idle /\ panel = Idle /\ panel' = Idle /\ ~ListWaits /\ ~ListWaits'
         /\ ZigbeeInv' /\ OneName'
<1>1. mode.source = "ha" /\ mode' = mode /\ job = Idle /\ job' = Idle /\ panel = Idle /\ panel' = Idle
  BY DEF StoreInv, TypeOK, Apart, zig
<1>2. ~ListWaits /\ ~ListWaits'
  BY <1>1 DEF ListWaits
<1>3. ZigbeeInv'
  BY <1>1 DEF ZigbeeInv, Following, Followed, Pending, Written, Removed, Known, Idle
<1>4. OneName'
  BY DEF StoreInv, OneName, Single, zig
<1> QED
  BY <1>1, <1>2, <1>3, <1>4

\* What is on the wire is an event of an entity.
LEMMA Events ==
  ASSUME StoreInv, NEW n \in 1 .. Len(wire)
  PROVE  wire[n] \in [id : Entities, value : Values] /\ wire[n].id \in Ids
<1> DEFINE S == [id : Entities, value : Values]
<1>1. wire \in Seq(S)
  BY DEF StoreInv, TypeOK
<1> HIDE DEF S
<1>2. wire[n] \in S
  BY <1>1
<1> QED
  BY <1>2 DEF S, Ids, Things

\* A change goes on the wire, or is missed: the entity is stale then, and so is what a poll
\* has of it.
LEMMA EntityChangesKeeps == ASSUME StoreInv, NEW e \in Entities, NEW v \in Values, EntityChanges(e, v) PROVE StoreInv'
<1> USE DEF StoreInv
<1> DEFINE event == [id |-> e, value |-> v]
<1>1. /\ mode.source = "ha" /\ real' = [real EXCEPT ![e] = v]
      /\ UNCHANGED <<mode, shared, store, zig, socket, displaced>>
      /\ \/ socket = "open" /\ wire' = Append(wire, event) /\ UNCHANGED <<polls, stale>>
         \/ socket # "open" /\ Missed({e}) /\ UNCHANGED wire
  BY DEF EntityChanges, Changes, history
<1>2. /\ job = Idle /\ job' = Idle /\ panel = Idle /\ panel' = Idle /\ ~ListWaits /\ ~ListWaits' /\ ZigbeeInv' /\ OneName'
  BY <1>1, ZigbeeRests
<1>3. e \in Ids /\ real' \in [Things -> Values] /\ real'[e] = v /\ \A d \in Ids \ {e} : real'[d] = real[d]
  BY <1>1 DEF TypeOK, Ids, Things
<1>4. CASE socket = "open" /\ wire' = Append(wire, event) /\ UNCHANGED <<polls, stale>>
  <2>1. wire \in Seq([id : Entities, value : Values]) /\ event \in [id : Entities, value : Values]
    BY DEF TypeOK
  <2>2. /\ wire' \in Seq([id : Entities, value : Values]) /\ Len(wire') = Len(wire) + 1 /\ Len(wire) \in Nat
        /\ \A n \in 1 .. Len(wire) : wire'[n] = wire[n]
        /\ wire'[Len(wire) + 1] = event
    BY <1>4, <2>1
  <2>3. TypeOK'
    BY <1>1, <1>3, <1>4, <2>2 DEF TypeOK, shared, zig
  <2>4. Apart' /\ Loaded' /\ Listed'
    BY <1>1, <1>4 DEF Apart, Loaded, Listed, shared, zig
  <2>5. InForce'
    BY <1>1, <1>2, <1>4 DEF InForce, Right, ToWrite, Pending, Idle, shared, zig
  <2>6. LastEvent'
    <3> SUFFICES ASSUME NEW n \in 1 .. Len(wire'), \A m \in n + 1 .. Len(wire') : wire'[m].id # wire'[n].id
                 PROVE  wire'[n].value = real'[wire'[n].id]
      BY DEF LastEvent
    <3>1. CASE n = Len(wire) + 1
      BY <1>3, <2>2, <3>1
    <3>2. CASE n \in 1 .. Len(wire)
      <4>1. wire'[n] = wire[n] /\ wire[n].id \in Entities /\ wire[n].id # e
        <5>1. wire'[n] = wire[n] /\ wire[n] \in [id : Entities, value : Values]
          BY <2>2, <3>2, Events
        <5>2. Len(wire) + 1 \in n + 1 .. Len(wire')
          BY <2>2, <3>2
        <5>3. wire'[Len(wire) + 1].id = e
          BY <2>2
        <5> QED
          BY <5>1, <5>2, <5>3
      <4>2. \A m \in n + 1 .. Len(wire) : wire[m].id # wire[n].id
        BY <2>2, <3>2
      <4> QED
        BY <1>3, <3>2, <4>1, <4>2 DEF HaInv, LastEvent, Ids, Things
    <3> QED
      BY <2>2, <3>1, <3>2
  <2>7. OnWire(e)' /\ \A d \in Entities : OnWire(d) => OnWire(d)'
    BY <2>2 DEF OnWire
  <2>8. PollCurrent'
    <3> SUFFICES ASSUME NEW s \in Slots, polls[s] # Idle, NEW d \in polls[s].left \ polls[s].touched
                 PROVE  polls[s].states[d] = real'[d] \/ OnWire(d)'
      BY <1>4 DEF PollCurrent
    <3>1. d \in Entities
      BY DEF TypeOK, Poll, Idle
    <3>2. polls[s].states[d] = real[d] \/ OnWire(d)
      BY DEF HaInv, PollCurrent
    <3> QED
      BY <1>3, <2>7, <3>1, <3>2 DEF Ids, Things
  <2>9. Mirrored'
    <3> SUFFICES ASSUME NEW d \in Entities \ stale, ~Awaited(d)' PROVE store[d] # None /\ store[d].traits = real'[d]
      BY <1>1, <1>4 DEF Mirrored
    <3>1. d # e /\ ~Awaited(d)
      BY <1>4, <2>2 DEF Awaited
    <3> QED
      BY <1>1, <1>3, <3>1 DEF HaInv, Mirrored, Ids, Things
  <2>10. FirstPoll' /\ NoWire'
    BY <1>1, <1>4 DEF HaInv, FirstPoll, NoWire
  <2> QED
    BY <1>2, <2>3, <2>4, <2>5, <2>6, <2>8, <2>9, <2>10 DEF HaInv
<1>5. CASE socket # "open" /\ Missed({e}) /\ UNCHANGED wire
  <2>1. stale' = stale \cup {e} /\ wire = <<>> /\ wire' = <<>> /\ socket # "open"
    BY <1>5 DEF Missed, HaInv, NoWire
  <2>2. \A s \in Slots :
          /\ polls'[s] \in Poll /\ (polls'[s] = Idle <=> polls[s] = Idle)
          /\ polls[s] # Idle => /\ polls'[s].left = polls[s].left /\ polls'[s].states = polls[s].states
                                /\ polls'[s].touched = polls[s].touched \cup {e} /\ polls[s].left \subseteq Entities
    <3> SUFFICES ASSUME NEW s \in Slots
                 PROVE  /\ polls'[s] \in Poll /\ (polls'[s] = Idle <=> polls[s] = Idle)
                        /\ polls[s] # Idle => /\ polls'[s].left = polls[s].left /\ polls'[s].states = polls[s].states
                                              /\ polls'[s].touched = polls[s].touched \cup {e} /\ polls[s].left \subseteq Entities
      OBVIOUS
    <3>1. polls[s] \in Poll /\ polls'[s] = IF polls[s] = Idle THEN Idle ELSE [polls[s] EXCEPT !.touched = @ \cup {e}]
      BY <1>5 DEF Missed, TypeOK
    <3> QED
      BY <1>3, <3>1 DEF Poll, Idle
  <2>3. polls' \in [Slots -> Poll]
    BY <1>5, <2>2 DEF Missed
  <2>4. TypeOK'
    BY <1>1, <1>3, <1>5, <2>1, <2>3 DEF TypeOK, shared, zig
  <2>5. Apart' /\ Loaded' /\ Listed'
    BY <1>1 DEF Apart, Loaded, Listed, shared, zig
  <2>6. InForce'
    BY <1>1, <1>2, <2>2 DEF InForce, Right, ToWrite, Pending, Idle, shared, zig, Slots
  <2>7. PollCurrent'
    BY <1>3, <2>1, <2>2 DEF HaInv, PollCurrent, OnWire, Ids, Things
  <2>8. Mirrored'
    <3> SUFFICES ASSUME NEW d \in Entities \ stale', ~Awaited(d)' PROVE store[d] # None /\ store[d].traits = real'[d]
      BY <1>1 DEF Mirrored
    <3>1. d # e /\ d \notin stale /\ ~Awaited(d)
      BY <2>1, <2>2 DEF Awaited
    <3> QED
      BY <1>1, <1>3, <3>1 DEF HaInv, Mirrored, Ids, Things
  <2>9. FirstPoll' /\ NoWire' /\ LastEvent'
    BY <1>1, <2>1, <2>2 DEF HaInv, FirstPoll, NoWire, LastEvent, Slots
  <2> QED
    BY <1>2, <2>4, <2>5, <2>6, <2>7, <2>8, <2>9 DEF HaInv
<1> QED
  BY <1>1, <1>4, <1>5

LEMMA SocketOpensKeeps == ASSUME StoreInv, SocketOpens PROVE StoreInv'
<1> USE DEF StoreInv
<1>1. /\ socket \in {"first", "again"} /\ socket' = "open"
      /\ UNCHANGED <<mode, shared, store, zig, real, wire, polls, stale, displaced>>
  BY DEF SocketOpens, history
<1>2. mode.source # "mqtt"
  BY <1>1 DEF Apart
<1>3. job = Idle /\ job' = Idle /\ panel = Idle /\ panel' = Idle /\ ~ListWaits /\ ~ListWaits' /\ ZigbeeInv' /\ OneName'
  BY <1>1, <1>2, ZigbeeRests
<1>4. TypeOK' /\ Apart' /\ Loaded' /\ Listed'
  BY <1>1, <1>2 DEF TypeOK, Apart, Loaded, Listed, shared, zig
<1>5. InForce'
  BY <1>1, <1>3 DEF InForce, Right, ToWrite, Pending, Idle, shared
<1>6. HaInv'
  BY <1>1 DEF HaInv, FirstPoll, NoWire, LastEvent, PollCurrent, OnWire, Mirrored, Awaited
<1> QED
  BY <1>3, <1>4, <1>5, <1>6

\* What was on the wire is missed.
LEMMA SocketLostKeeps == ASSUME StoreInv, SocketLost PROVE StoreInv'
<1> USE DEF StoreInv
<1> DEFINE E == {wire[n].id : n \in 1 .. Len(wire)}
<1>1. /\ socket = "open" /\ socket' = "again" /\ wire' = <<>> /\ Missed(E)
      /\ UNCHANGED <<mode, shared, store, zig, real, displaced>>
  BY DEF SocketLost, history
<1>2. mode.source # "mqtt"
  BY <1>1 DEF Apart
<1>3. job = Idle /\ job' = Idle /\ panel = Idle /\ panel' = Idle /\ ~ListWaits /\ ~ListWaits' /\ ZigbeeInv' /\ OneName'
  BY <1>1, <1>2, ZigbeeRests
<1>4. E \subseteq Ids /\ (\A e \in Ids : OnWire(e) <=> e \in E)
  BY Events DEF OnWire
<1> HIDE DEF E
<1>5. stale' = stale \cup E
  BY <1>1 DEF Missed
<1>6. \A s \in Slots :
        /\ polls'[s] \in Poll /\ (polls'[s] = Idle <=> polls[s] = Idle)
        /\ polls[s] # Idle => /\ polls'[s].left = polls[s].left /\ polls'[s].states = polls[s].states
                              /\ polls'[s].touched = polls[s].touched \cup E /\ polls[s].left \subseteq Ids
  <2> SUFFICES ASSUME NEW s \in Slots
               PROVE  /\ polls'[s] \in Poll /\ (polls'[s] = Idle <=> polls[s] = Idle)
                      /\ polls[s] # Idle => /\ polls'[s].left = polls[s].left /\ polls'[s].states = polls[s].states
                                            /\ polls'[s].touched = polls[s].touched \cup E /\ polls[s].left \subseteq Ids
    OBVIOUS
  <2>1. polls[s] \in Poll /\ polls'[s] = IF polls[s] = Idle THEN Idle ELSE [polls[s] EXCEPT !.touched = @ \cup E]
    BY <1>1 DEF Missed, TypeOK
  <2> QED
    BY <1>4, <2>1 DEF Poll, Idle, Ids, Things
<1>7. polls' \in [Slots -> Poll]
  BY <1>1, <1>6 DEF Missed
<1>8. TypeOK'
  BY <1>1, <1>4, <1>5, <1>7 DEF TypeOK, shared, zig
<1>9. Apart' /\ Loaded' /\ Listed'
  BY <1>1, <1>2 DEF Apart, Loaded, Listed, shared, zig
<1>10. InForce'
  BY <1>1, <1>3 DEF InForce, Right, ToWrite, Pending, Idle, shared
<1>11. PollCurrent'
  BY <1>1, <1>4, <1>6 DEF HaInv, PollCurrent
<1>12. Mirrored'
  <2> SUFFICES ASSUME NEW d \in Entities \ stale', ~Awaited(d)', mode.source = "ha"
               PROVE  store[d] # None /\ store[d].traits = real[d]
    BY <1>1 DEF Mirrored
  <2>1. d \notin stale /\ ~Awaited(d)
    BY <1>4, <1>5, <1>6 DEF Awaited, OnWire, Ids, Things
  <2> QED
    BY <2>1 DEF HaInv, Mirrored
<1>13. FirstPoll' /\ NoWire' /\ LastEvent'
  BY <1>1 DEF FirstPoll, NoWire, LastEvent
<1> QED
  BY <1>3, <1>8, <1>9, <1>10, <1>11, <1>12, <1>13 DEF HaInv

\* An entity is written with its traits, where the overrides say.
LEMMA Upserted ==
  ASSUME StoreInv, NEW e \in Entities, NEW v \in Values, Upsert(e, v), Touch(e), UNCHANGED overrides
  PROVE  /\ store' \in Stored /\ store'[e] # None /\ store'[e].traits = v
         /\ Right(e)'
         /\ \A d \in Ids \ {e} : store'[d] = store[d]
         /\ refresh' \in Refresh /\ refresh'.phase = refresh.phase
         /\ refresh' = Idle <=> refresh = Idle
         /\ refresh.phase = "write" => refresh'.left = refresh.left
         /\ Listed'
<1> DEFINE x == [traits |-> v, place |-> Placed(e, store[e])]
<1>1. e \in Ids /\ store \in Stored /\ store[e] \in Device \cup {None} /\ overrides \in Map
  BY DEF StoreInv, TypeOK, Stored, Ids, Things
<1>2. x \in Device /\ x # None /\ (Wanted(overrides, e) # None => x.place = Wanted(overrides, e))
  BY <1>1, PlacedRight, IsDevice
<1>3. store' = [store EXCEPT ![e] = x]
  BY DEF Upsert
<1>4. x.traits = v
  OBVIOUS
<1> HIDE DEF x
<1>5. store'[e] = x /\ \A d \in Ids \ {e} : store'[d] = store[d]
  BY <1>1, <1>3 DEF Stored
<1> QED
  BY <1>1, <1>2, <1>3, <1>4, <1>5, Touches DEF Right

\* A list of placements stays in force when one entity is written and no exception ends but
\* its own.
LEMMA UpsertedInForce ==
  ASSUME StoreInv, NEW e \in Entities, NEW v \in Values, Upsert(e, v), Touch(e),
         mode.source # "mqtt", UNCHANGED <<mode, overrides, zig, displaced>>,
         socket = "down" /\ polls[1] # Idle =>
           \/ polls'[1] # Idle /\ socket' = "down" /\ polls[1].left \subseteq polls'[1].left \cup {e}
           \/ polls[1].left = {e}
  PROVE  InForce'
<1>1. job = Idle /\ job' = Idle /\ panel = Idle /\ panel' = Idle /\ ~ListWaits /\ ~ListWaits'
  BY ZigbeeRests
<1> SUFFICES ASSUME NEW d \in Ids \ displaced', store'[d] # None, ~ToWrite(d)' PROVE Right(d)'
  BY DEF InForce
<1>2. CASE d = e
  BY <1>2, Upserted
<1>3. CASE d # e
  <2>1. ~ToWrite(d)
    BY <1>1, <1>3, Upserted DEF ToWrite, Pending, Idle
  <2> QED
    BY <1>3, <2>1, Upserted DEF InForce, StoreInv, Right
<1> QED
  BY <1>2, <1>3

\* An event is written, and who has read its entity before has a note.
LEMMA HandleEventKeeps == ASSUME StoreInv, HandleEvent PROVE StoreInv'
<1> USE DEF StoreInv
<1> DEFINE e == wire[1].id
           v == wire[1].value
<1>1. /\ wire # <<>> /\ wire' = Tail(wire) /\ Head(wire) = wire[1]
      /\ Upsert(e, v) /\ Touch(e) /\ stale' = stale \ {e}
      /\ polls' = [s \in Slots |-> Note(polls[s], e)]
      /\ UNCHANGED <<mode, file, mtime, overrides, seen, zig, real, socket, displaced>>
  BY DEF HandleEvent, TouchAll, TypeOK
<1>2. 1 \in 1 .. Len(wire) /\ Len(wire') = Len(wire) - 1 /\ wire' \in Seq([id : Entities, value : Values])
      /\ \A n \in 1 .. Len(wire') : n + 1 \in 1 .. Len(wire) /\ wire'[n] = wire[n + 1]
  BY <1>1 DEF TypeOK
<1>3. e \in Entities /\ e \in Ids /\ v \in Values
  BY <1>2, Events
<1> HIDE DEF e, v
<1>4. mode.source # "mqtt" /\ socket = "open"
  BY <1>1 DEF Apart, HaInv, NoWire
<1>5. mode.source = "ha" /\ job = Idle /\ job' = Idle /\ panel = Idle /\ panel' = Idle /\ ~ListWaits /\ ~ListWaits' /\ ZigbeeInv' /\ OneName'
  BY <1>1, <1>4, ZigbeeRests
<1>6. \A s \in Slots : /\ polls'[s] \in Poll /\ (polls'[s] = Idle <=> polls[s] = Idle)
                       /\ polls[s] # Idle => /\ polls'[s].left = polls[s].left /\ polls'[s].states = polls[s].states
                                             /\ polls'[s].touched = polls[s].touched \cup {e} /\ polls[s].left \subseteq Entities
  <2> SUFFICES ASSUME NEW s \in Slots
               PROVE  /\ polls'[s] \in Poll /\ (polls'[s] = Idle <=> polls[s] = Idle)
                      /\ polls[s] # Idle => /\ polls'[s].left = polls[s].left /\ polls'[s].states = polls[s].states
                                            /\ polls'[s].touched = polls[s].touched \cup {e} /\ polls[s].left \subseteq Entities
    OBVIOUS
  <2>1. polls[s] \in Poll /\ polls'[s] = Note(polls[s], e)
    BY <1>1 DEF TypeOK
  <2> QED
    BY <1>3, <2>1, PollNote DEF Poll, Idle
<1>7. /\ store' \in Stored /\ store'[e] # None /\ store'[e].traits = v
      /\ \A d \in Ids \ {e} : store'[d] = store[d]
      /\ refresh' \in Refresh /\ refresh'.phase = refresh.phase
      /\ refresh.phase = "write" => refresh'.left = refresh.left
      /\ Listed'
  BY <1>1, <1>3, Upserted
<1>8. polls' \in [Slots -> Poll]
  BY <1>1, <1>6
<1>9. TypeOK'
  BY <1>1, <1>2, <1>7, <1>8 DEF TypeOK, zig
<1>10. Apart' /\ Loaded'
  BY <1>1, <1>3, <1>4, <1>7 DEF Apart, Loaded, zig
<1>11. InForce'
  BY <1>1, <1>3, <1>4, UpsertedInForce
<1>12. LastEvent'
  <2> SUFFICES ASSUME NEW n \in 1 .. Len(wire'), \A m \in n + 1 .. Len(wire') : wire'[m].id # wire'[n].id
               PROVE  wire'[n].value = real'[wire'[n].id]
    BY DEF LastEvent
  <2>1. n + 1 \in 1 .. Len(wire) /\ wire'[n] = wire[n + 1]
    BY <1>2
  <2>2. ASSUME NEW m \in n + 1 + 1 .. Len(wire) PROVE wire[m].id # wire[n + 1].id
    <3>1. m - 1 \in n + 1 .. Len(wire') /\ wire'[m - 1] = wire[m]
      BY <1>2, <2>2
    <3> QED
      BY <2>1, <3>1
  <2> QED
    BY <1>1, <2>1, <2>2 DEF HaInv, LastEvent
<1>13. ASSUME NEW d \in Ids \ {e}, OnWire(d) PROVE OnWire(d)'
  <2>1. PICK n \in 1 .. Len(wire) : wire[n].id = d
    BY <1>13 DEF OnWire
  <2>2. n - 1 \in 1 .. Len(wire') /\ wire'[n - 1] = wire[n]
    BY <1>2, <1>13, <2>1 DEF e
  <2> QED
    BY <2>1, <2>2 DEF OnWire
<1>14. PollCurrent'
  BY <1>1, <1>6, <1>13 DEF HaInv, PollCurrent, Ids, Things
<1>15. ASSUME NEW d \in Entities \ stale', ~Awaited(d)' PROVE store'[d] # None /\ store'[d].traits = real[d]
  <2>1. CASE d = e
    <3>1. \A m \in 2 .. Len(wire) : wire[m].id # e
      <4> SUFFICES ASSUME NEW m \in 2 .. Len(wire) PROVE wire[m].id # e
        OBVIOUS
      <4>1. m - 1 \in 1 .. Len(wire') /\ wire'[m - 1] = wire[m]
        BY <1>2
      <4> QED
        BY <1>15, <2>1, <4>1 DEF Awaited
    <3>2. v = real[e]
      BY <1>2, <3>1 DEF HaInv, LastEvent, e, v
    <3> QED
      BY <1>7, <2>1, <3>2
  <2>2. CASE d # e
    <3>1. ~OnWire(d)
      BY <1>13, <1>15, <2>2 DEF Awaited, OnWire, Ids, Things
    <3>2. ~Awaited(d)
      BY <1>6, <1>15, <3>1 DEF Awaited, OnWire
    <3> QED
      BY <1>1, <1>5, <1>7, <1>15, <2>2, <3>2 DEF HaInv, Mirrored, Ids, Things
  <2> QED
    BY <2>1, <2>2
<1>16. FirstPoll' /\ NoWire'
  BY <1>1, <1>4 DEF FirstPoll, NoWire
<1>17. Mirrored'
  BY <1>1, <1>15 DEF Mirrored
<1> QED
  BY <1>5, <1>7, <1>9, <1>10, <1>11, <1>12, <1>14, <1>16, <1>17 DEF HaInv

\* A poll that has its answer has every entity as it is, and is about to write all of them.
LEMMA PollAnsweredKeeps == ASSUME StoreInv, NEW s \in Slots, PollAnswered(s) PROVE StoreInv'
<1> USE DEF StoreInv
<1> DEFINE p == [phase |-> "write", states |-> [e \in Entities |-> real[e]], left |-> Entities, touched |-> {}]
<1>1. /\ mode.source = "ha" /\ socket \in {"again", "open"} /\ polls[s] = Idle
      /\ polls' = [polls EXCEPT ![s] = p]
      /\ UNCHANGED <<mode, shared, store, zig, real, socket, wire, stale, displaced>>
  BY DEF PollAnswered, history
<1>2. p \in Poll /\ p # Idle
  BY DEF TypeOK, Poll, Idle, Ids, Things
<1>3. polls'[s] = p /\ \A t \in Slots \ {s} : polls'[t] = polls[t]
  BY <1>1 DEF TypeOK
<1>4. job = Idle /\ job' = Idle /\ panel = Idle /\ panel' = Idle /\ ~ListWaits /\ ~ListWaits' /\ ZigbeeInv' /\ OneName'
  BY <1>1, ZigbeeRests
<1>5. TypeOK'
  BY <1>1, <1>2 DEF TypeOK, shared, zig
<1>6. Apart' /\ Loaded' /\ Listed'
  BY <1>1 DEF Apart, Loaded, Listed, shared, zig
<1>7. InForce'
  BY <1>1, <1>4 DEF InForce, Right, ToWrite, Pending, Idle, shared
<1>8. FirstPoll' /\ NoWire' /\ LastEvent'
  BY <1>1 DEF HaInv, FirstPoll, NoWire, LastEvent
<1>9. PollCurrent'
  <2> SUFFICES ASSUME NEW t \in Slots, polls'[t] # Idle, NEW e \in polls'[t].left \ polls'[t].touched
               PROVE  polls'[t].states[e] = real[e] \/ OnWire(e)
    BY <1>1 DEF PollCurrent, OnWire
  <2>1. CASE t = s
    BY <1>3, <2>1
  <2>2. CASE t # s
    BY <1>3, <2>2 DEF HaInv, PollCurrent
  <2> QED
    BY <2>1, <2>2
<1>10. \A e \in Entities : Awaited(e)'
  BY <1>2, <1>3 DEF Awaited
<1>11. Mirrored'
  BY <1>1, <1>10 DEF Mirrored
<1> QED
  BY <1>4, <1>5, <1>6, <1>7, <1>8, <1>9, <1>11 DEF HaInv

\* A poll writes an entity: if someone else wrote it since the answer it is stale, else it
\* is as it is, or an event says how.
LEMMA PollWritesKeeps == ASSUME StoreInv, NEW s \in Slots, NEW e \in Entities, PollWrites(s, e) PROVE StoreInv'
<1> USE DEF StoreInv
<1> DEFINE v == polls[s].states[e]
<1>1. /\ polls[s].phase = "write" /\ e \in polls[s].left /\ Upsert(e, v) /\ Touch(e)
      /\ polls' = [t \in Slots |->
           IF t # s THEN Note(polls[t], e)
           ELSE IF polls[s].left = {e} THEN Idle ELSE [polls[s] EXCEPT !.left = @ \ {e}]]
      /\ stale' = IF e \in polls[s].touched THEN stale \cup {e} ELSE stale \ {e}
      /\ socket' = IF socket = "down" /\ polls[s].left = {e} THEN "first" ELSE socket
      /\ UNCHANGED <<mode, file, mtime, overrides, seen, zig, real, wire, displaced>>
  BY DEF PollWrites
<1>2. polls[s] \in Poll /\ polls[s] # Idle /\ v \in Values /\ e \in Ids
  BY <1>1 DEF TypeOK, Poll, Idle, Ids, Things
<1>3. mode.source # "mqtt"
  BY <1>2 DEF Apart
<1>4. mode.source = "ha" /\ job = Idle /\ job' = Idle /\ panel = Idle /\ panel' = Idle /\ ~ListWaits /\ ~ListWaits' /\ ZigbeeInv' /\ OneName'
  BY <1>1, <1>3, ZigbeeRests
<1>5. /\ polls'[s] \in Poll
      /\ polls[s].left = {e} => polls'[s] = Idle
      /\ polls[s].left # {e} =>
           /\ polls'[s] # Idle /\ polls'[s].left = polls[s].left \ {e}
           /\ polls'[s].states = polls[s].states /\ polls'[s].touched = polls[s].touched
  BY <1>1, <1>2 DEF Poll, Idle
<1>6. \A t \in Slots \ {s} :
        /\ polls'[t] \in Poll /\ (polls'[t] = Idle <=> polls[t] = Idle)
        /\ polls[t] # Idle => /\ polls'[t].left = polls[t].left /\ polls'[t].states = polls[t].states
                              /\ polls'[t].touched = polls[t].touched \cup {e}
  <2> SUFFICES ASSUME NEW t \in Slots \ {s}
               PROVE  /\ polls'[t] \in Poll /\ (polls'[t] = Idle <=> polls[t] = Idle)
                      /\ polls[t] # Idle => /\ polls'[t].left = polls[t].left /\ polls'[t].states = polls[t].states
                                            /\ polls'[t].touched = polls[t].touched \cup {e}
    OBVIOUS
  <2>1. polls[t] \in Poll /\ polls'[t] = Note(polls[t], e)
    BY <1>1 DEF TypeOK
  <2> QED
    BY <1>2, <2>1, PollNote
<1>7. polls' \in [Slots -> Poll]
  BY <1>1, <1>5, <1>6
<1> HIDE DEF v
<1>8. /\ store' \in Stored /\ store'[e] # None /\ store'[e].traits = v
      /\ \A d \in Ids \ {e} : store'[d] = store[d]
      /\ refresh' \in Refresh /\ refresh'.phase = refresh.phase
      /\ refresh.phase = "write" => refresh'.left = refresh.left
      /\ Listed'
  BY <1>1, <1>2, Upserted
<1>9. TypeOK'
  <2>1. socket' \in {"down", "first", "again", "open"} /\ stale' \subseteq Ids
    BY <1>1, <1>2 DEF TypeOK
  <2> QED
    BY <1>1, <1>7, <1>8, <2>1 DEF TypeOK, zig
<1>10. Apart' /\ Loaded'
  BY <1>1, <1>3, <1>8 DEF Apart, Loaded, zig
<1>11. socket = "down" => s = 1 /\ polls[2] = Idle /\ polls'[2] = Idle
  BY <1>2, <1>6 DEF HaInv, FirstPoll, Slots
<1>12. InForce'
  <2>1. socket = "down" /\ polls[1] # Idle =>
           \/ polls'[1] # Idle /\ socket' = "down" /\ polls[1].left \subseteq polls'[1].left \cup {e}
           \/ polls[1].left = {e}
    BY <1>1, <1>5, <1>11
  <2> QED
    BY <1>1, <1>2, <1>3, <2>1, UpsertedInForce
<1>13. FirstPoll' /\ NoWire' /\ LastEvent'
  BY <1>1, <1>11 DEF HaInv, FirstPoll, NoWire, LastEvent
<1>14. PollCurrent'
  <2> SUFFICES ASSUME NEW t \in Slots, polls'[t] # Idle, NEW d \in polls'[t].left \ polls'[t].touched
               PROVE  polls'[t].states[d] = real[d] \/ OnWire(d)
    BY <1>1 DEF PollCurrent, OnWire
  <2>1. /\ polls[t] # Idle /\ d \in polls[t].left \ polls[t].touched /\ polls'[t].states = polls[t].states
    BY <1>2, <1>5, <1>6
  <2> QED
    BY <2>1 DEF HaInv, PollCurrent
<1>15. ASSUME NEW d \in Entities \ stale', ~Awaited(d)' PROVE store'[d] # None /\ store'[d].traits = real[d]
  <2>1. ~OnWire(d) /\ \A t \in Slots : polls'[t] = Idle \/ d \notin polls'[t].left
    BY <1>1, <1>15 DEF Awaited, OnWire
  <2>2. CASE d = e
    <3>1. v = real[e]
      BY <1>1, <1>2, <1>15, <2>1, <2>2 DEF HaInv, PollCurrent, v
    <3> QED
      BY <1>8, <2>2, <3>1
  <2>3. CASE d # e
    <3>1. ~Awaited(d)
      BY <1>5, <1>6, <2>1, <2>3 DEF Awaited, OnWire
    <3> QED
      BY <1>1, <1>4, <1>8, <1>15, <2>3, <3>1 DEF HaInv, Mirrored, Ids, Things
  <2> QED
    BY <2>2, <2>3
<1>16. Mirrored'
  BY <1>1, <1>15 DEF Mirrored
<1> QED
  BY <1>4, <1>8, <1>9, <1>10, <1>12, <1>13, <1>14, <1>16 DEF HaInv

-----------------------------------------------------------------------------
(* The theorems about the store.                                            *)

\* A start, the first one or another: what is in the store is written anew or removed
\* before anything is claimed of it.
LEMMA StartedHolds ==
  ASSUME TypeOK, Started,
         UNCHANGED <<mode, file, mtime, store, net, real, history>>,
         net \in Nets,
         mode.source = "mqtt" => \A d \in Ids : store[d] # None => d \in Z2M,
         mode.source # "mqtt" => \A d \in Ids : store[d] # None => d \in Entities
  PROVE  StoreInv'
<1> DEFINE p == [phase |-> "write", states |-> [e \in Entities |-> real[e]], left |-> Entities, touched |-> {}]
           m == [kind |-> "devices", net |-> net]
<1> USE DEF Started
<1>1. file \in Map /\ net \in Net /\ mode.source \in {"mqtt", "ha"}
  BY AdapterAssumption DEF TypeOK
<1>2. p \in Poll /\ p # Idle /\ m \in Message
  BY <1>1 DEF TypeOK, Poll, Idle, Ids, Things, Message
<1>3. /\ mode.source = "mqtt" => queue' = <<m>> /\ \A s \in Slots : polls'[s] = Idle
      /\ mode.source # "mqtt" => queue' = <<>> /\ polls'[1] = p /\ polls'[2] = Idle
      /\ polls' \in [Slots -> Poll]
  BY <1>1, <1>2 DEF Slots, Poll
<1> HIDE DEF p
<1>4. queue' \in Seq(Message) /\ refresh' = Idle /\ job' = Idle /\ socket' = "down" /\ wire' = <<>>
  BY <1>2, <1>3
<1>5. TypeOK'
  <2>1. known' \in Net /\ stateOf' \in [Names -> Values \cup {None}] /\ overrides' \in Map
    BY <1>1 DEF Net
  <2>2. refresh' \in Refresh /\ job' \in Job /\ panel' \in Panel /\ wire' \in Seq([id : Entities, value : Values])
    BY <1>4 DEF Refresh, Job, Panel
  <2>3. seen' \in Nat /\ seen' <= mtime'
    BY DEF TypeOK
  <2> QED
    BY <1>3, <1>4, <2>1, <2>2, <2>3 DEF TypeOK, history
<1>6. Apart'
  BY <1>1, <1>3, <1>4 DEF Apart, Idle
<1>7. OneName'
  BY <1>3, <1>4, AdapterAssumption DEF OneName, Single
<1>8. Loaded' /\ Listed'
  BY <1>4 DEF Loaded, Listed, Idle
<1>9. ListWaits' <=> mode.source = "mqtt"
  BY <1>3, <1>4 DEF ListWaits
<1>10. InForce'
  BY <1>1, <1>2, <1>3, <1>4, <1>9 DEF InForce, Right, ToWrite, Pending, p
<1>11. ZigbeeInv'
  BY <1>4, <1>9 DEF ZigbeeInv, Following, Followed, Pending, Written, Removed, Known, Idle
<1>12. FirstPoll' /\ NoWire' /\ LastEvent'
  BY <1>1, <1>3, <1>4 DEF FirstPoll, NoWire, LastEvent, Slots
<1>13. PollCurrent'
  BY <1>1, <1>3, <1>4 DEF PollCurrent, Slots, p
<1>14. Mirrored'
  BY <1>2, <1>3 DEF Mirrored, Awaited, Slots, p
<1> QED
  BY <1>5, <1>6, <1>7, <1>8, <1>10, <1>11, <1>12, <1>13, <1>14 DEF StoreInv, HaInv

\* A restart forgets what was read and heard, and is a start.
LEMMA RestartKeeps == ASSUME StoreInv, Restart PROVE StoreInv'
BY StartedHolds DEF StoreInv, Restart, Apart, OneName

\* The invariant holds when the adapter has started.
LEMMA StoreInitHolds == Init => StoreInv
<1> SUFFICES ASSUME Init PROVE StoreInv
  OBVIOUS
<1> DEFINE p == [phase |-> "write", states |-> [e \in Entities |-> real[e]], left |-> Entities, touched |-> {}]
           m == [kind |-> "devices", net |-> net]
<1> USE DEF Init
<1>1. /\ overrides \in Map /\ file \in Files /\ net \in Net /\ net \in Nets /\ mode.source \in {"mqtt", "ha"}
      /\ mode \in [source : {"mqtt", "ha"}, polling : BOOLEAN]
  BY AdapterAssumption
<1>2. real \in [Things -> Values]
  BY AdapterAssumption
<1>3. p \in Poll /\ p # Idle /\ m \in Message
  BY <1>1, <1>2 DEF Poll, Idle, Ids, Things, Message
<1>4. /\ mode.source = "mqtt" => queue = <<m>> /\ \A s \in Slots : polls[s] = Idle
      /\ mode.source # "mqtt" => queue = <<>> /\ polls[1] = p /\ polls[2] = Idle
      /\ polls \in [Slots -> Poll]
  BY <1>1, <1>3 DEF Slots, Poll
<1> HIDE DEF p
<1>5. queue \in Seq(Message) /\ refresh = Idle /\ job = Idle /\ socket = "down" /\ wire = <<>>
  BY <1>3, <1>4
<1>6. \A d \in Ids : store[d] = None
  OBVIOUS
<1>7. TypeOK
  <2>1. known \in Net /\ stateOf \in [Names -> Values \cup {None}] /\ store \in Stored
    BY DEF Net, Stored
  <2>2. refresh \in Refresh /\ job \in Job /\ panel \in Panel /\ wire \in Seq([id : Entities, value : Values])
    BY <1>5 DEF Refresh, Job, Panel
  <2>3. mtime \in Nat /\ seen \in Nat /\ seen <= mtime
    OBVIOUS
  <2> QED
    BY <1>1, <1>2, <1>4, <1>5, <2>1, <2>2, <2>3 DEF TypeOK
<1>8. Apart
  BY <1>1, <1>4, <1>5, <1>6 DEF Apart, Idle
<1>9. OneName
  BY <1>1, <1>4, <1>5, AdapterAssumption DEF OneName, Single
<1>10. Loaded /\ Listed /\ InForce
  BY <1>5, <1>6 DEF Loaded, Listed, InForce, Idle
<1>11. ListWaits <=> mode.source = "mqtt"
  BY <1>4, <1>5 DEF ListWaits
<1>12. ZigbeeInv
  BY <1>5, <1>11 DEF ZigbeeInv, Following, Followed, Pending, Written, Removed, Known, Idle
<1>13. FirstPoll /\ NoWire /\ LastEvent
  BY <1>1, <1>4, <1>5 DEF FirstPoll, NoWire, LastEvent, Slots
<1>14. PollCurrent
  BY <1>1, <1>4, <1>5 DEF PollCurrent, Slots, p
<1>15. Mirrored
  BY <1>3, <1>4 DEF Mirrored, Awaited, Slots, p
<1> QED
  BY <1>7, <1>8, <1>9, <1>10, <1>12, <1>13, <1>14, <1>15 DEF StoreInv, HaInv

\* A step of anyone keeps the invariant.
LEMMA StoreNextHolds == StoreInv /\ [Next]_vars => StoreInv'
<1> SUFFICES ASSUME StoreInv, [Next]_vars PROVE StoreInv'
  OBVIOUS
<1>1. CASE \E f \in Files : EditFile(f)
  BY <1>1, EditKeeps
<1>2. CASE RefreshStep
  BY <1>2, RefreshStartsKeeps, RefreshLoadsKeeps, RefreshListsKeeps, RefreshWritesKeeps DEF RefreshStep
<1>3. CASE QueueStep
  BY <1>3, HandleStateKeeps, SyncListsKeeps, SyncKnowsKeeps, SyncWritesKeeps, WriteEndpointKeeps, SyncRemovesKeeps
     DEF QueueStep
<1>4. CASE \E d \in Zigbee : Report(d) \/ \E v \in Values : DeviceChanges(d, v)
  BY <1>4, ReportKeeps, DeviceChangesKeeps
<1>5. CASE \E n \in Nets : Rearrange(n)
  BY <1>5, RearrangeKeeps
<1>6. CASE \E e \in Entities, v \in Values : EntityChanges(e, v)
  BY <1>6, EntityChangesKeeps
<1>7. CASE SocketOpens \/ SocketLost \/ HandleEvent \/ Restart
  BY <1>7, SocketOpensKeeps, SocketLostKeeps, HandleEventKeeps, RestartKeeps
<1>8. CASE \E s \in Slots : PollStep(s)
  BY <1>8, PollAnsweredKeeps, PollWritesKeeps DEF PollStep
<1>9. CASE UNCHANGED vars
  <2>1. SourcesRest /\ UNCHANGED <<file, mtime, seen, refresh, overrides>>
    BY <1>9 DEF vars, shared, zig, ha, history, SourcesRest
  <2>2. ZigbeeInv' /\ HaInv' /\ OneName' /\ ListWaits' = ListWaits
    BY <2>1, RestKeeps
  <2>3. TypeOK' /\ Apart' /\ Loaded' /\ Listed'
    BY <2>1 DEF StoreInv, TypeOK, Apart, Loaded, Listed, SourcesRest
  <2>4. InForce'
    BY <2>1, <2>2 DEF StoreInv, InForce, Right, ToWrite, Pending, Unnamed, NameOf, SourcesRest
  <2> QED
    BY <2>2, <2>3, <2>4 DEF StoreInv
<1> QED
  BY <1>1, <1>2, <1>3, <1>4, <1>5, <1>6, <1>7, <1>8, <1>9 DEF Next

\* adapter.js, ha.js, store.js: whatever messages, polls, refreshes and restarts meet in the
\* store, what is not about to be written is where the overrides say, and what is not stale
\* is as the last message or event said.
THEOREM StoreInvariant == Spec => []StoreInv
<1> QED
  BY StoreInitHolds, StoreNextHolds, PTL DEF Spec

\* Every variable of the store and of its writers keeps its type.
THEOREM StoreTypeCorrect == Spec => []TypeOK
<1>1. StoreInv => TypeOK
  BY DEF StoreInv
<1> QED
  BY <1>1, StoreInvariant, PTL

\* adapter.js:186-430, ha.js:300-421: once nothing is on its way the store is current, but for devices
\* that a refresh or a poll wrote from an outdated copy or that nobody told of.
THEOREM StoreCurrent == Spec => []CurrentUnlessOverlapped
<1>1. ASSUME StoreInv, Quiet PROVE ~ListWaits /\ job = Idle /\ \A d : ~Pending(d)
  BY <1>1 DEF Quiet, ListWaits, Pending
<1>2. ASSUME StoreInv, Quiet, mode.source = "mqtt", NEW d \in Z2M \ stale
      PROVE  /\ store[d] # None <=> NameOf(known, BaseOf(d)) # {}
             /\ \A f \in NameOf(known, BaseOf(d)) : stateOf[f] # None => store[d].traits = stateOf[f]
  BY <1>1, <1>2 DEF StoreInv, ZigbeeInv, Known, Shown, NameOf
<1>3. ASSUME StoreInv, mode.source = "ha", NEW e \in Entities \ stale, ~Awaited(e)
      PROVE  store[e].traits = real[e]
  BY <1>3 DEF StoreInv, HaInv, Mirrored
<1>4. StoreInv => CurrentUnlessOverlapped
  BY <1>2, <1>3 DEF CurrentUnlessOverlapped
<1> QED
  BY <1>4, StoreInvariant, PTL

\* adapter.js:144-170, :464-508, :511-546, :600-611, :1003-1057: once a refresh has caught up with a valid
\* file, every device in the store is where that file says, and every endpoint where it says of
\* the endpoint or of its panel; but for endpoints written with a placement of the panel that
\* was looked up before the file was loaded.
THEOREM PlacedByOverrides == Spec => []OverridesInForce
<1>1. StoreInv => OverridesInForce
  <2> SUFFICES ASSUME StoreInv, Quiet, refresh = Idle, seen = mtime, file # Broken, NEW d \in Ids \ displaced,
                      store[d] # None, Wanted(file, d) # None
               PROVE  store[d].place = Wanted(file, d)
    BY DEF OverridesInForce, InPlace
  <2>1. overrides = file
    BY DEF StoreInv, Loaded, Idle
  <2>2. mode.source = "mqtt" => polls[1] = Idle
    BY DEF StoreInv, Apart, Slots
  <2>3. mode.source # "mqtt" => socket # "down"
    BY DEF Quiet, StoreInv, TypeOK
  <2>4. ~ToWrite(d)
    BY <2>2, <2>3 DEF ToWrite, Pending, Quiet, ListWaits, Idle
  <2> QED
    BY <2>1, <2>4 DEF StoreInv, InForce, Right
<1> QED
  BY <1>1, StoreInvariant, PTL
=============================================================================
