---------------------------- MODULE ActionDelivery ----------------------------
(***************************************************************************)
(* How the adapter carries out the actions it is asked for                 *)
(* (device-adapter/src/adapter.js: handleAction, handleVoiceAction,        *)
(* callHaService; voice-control.js).                                       *)
(*                                                                         *)
(* Each request is served by an asynchronous call of its own: over MQTT,   *)
(* which is not waited for, over Home Assistant, or by speaking to a       *)
(* device that listens to voices: its wake word, up to some attempts,      *)
(* until a microphone hears it acknowledge, then the command.  What one    *)
(* microphone hears may be meant for another dialogue.                     *)
(***************************************************************************)
EXTENDS DeviceActions, Sequences, FiniteSets

CONSTANTS
  Requests,
  Targets,      \* devices as they may be in the store, each like Target
  Orders,       \* what may be asked: [to |-> a target, what |-> <<action, argument>>]
  Transports,   \* values of ACTION_TRANSPORT to look at
  Mics          \* microphones of the configuration, in its order, see Mic

\* A microphone as seen from a target: of the device's room, how far away (Absent: not
\* known), and whether it is enabled.
Sight == [here : BOOLEAN, far : Nat \cup {Absent}]
Mic == [id : Nat, enabled : BOOLEAN]

\* How a device is spoken to: what can be said to it, and of that what has all the
\* parameters its sentence needs; the microphones it prefers.
Voice == [prefer : BOOLEAN, wakes : BOOLEAN, said : SUBSET STRING, whole : SUBSET STRING,
          retries : Nat, mics : SUBSET Nat, limit : Nat \cup {Absent}, sees : [Nat -> Sight]]

\* Absent stands for a missing binding, or for a missing client or token.
Target == [zigbee : Node \cup {Absent}, ha : Entity \cup {Absent}, voice : Voice \cup {Absent}]

\* Anything may be asked: nobody looks at whether the device offers it.
ASSUME DeliveryAssumption ==
  /\ \A o \in Orders : o.to \in Targets
  /\ \A t \in Targets : t.zigbee \in Node \cup {Absent} /\ t.ha \in Entity \cup {Absent}
  /\ \A t \in Targets : t.voice # Absent => t.voice.retries \in Nat

VARIABLES
  transport,    \* ACTION_TRANSPORT
  order,        \* what each request asks
  serving,      \* how far each request is, and its attempt
  told,         \* what its device was told for a request
  answers,      \* action results published for a request
  acking,       \* the dialogues whose device is about to acknowledge
  acked,        \* (history) the dialogues whose own device was heard
  crossed,      \* (history) dialogues that went on beside another one
  cut           \* (history) requests of which a call or a sentence broke off

deliveryVars == <<transport, order, serving, told, answers, acking, acked, crossed, cut>>

Phases == {"sent", "calling", "waking", "listening", "commanding", "done"}
Other == <<"other", Absent>>    \* something that was not asked for
NotYet == [phase |-> "sent", try |-> 0]

DeliveryTypeOK ==
  /\ transport \in Transports /\ order \in [Requests -> Orders]
  /\ serving \in [Requests -> [phase : Phases, try : Nat]]
  /\ told \in [Requests -> Seq({o.what : o \in Orders} \cup {Other})]
  /\ answers \in [Requests -> Seq({"ok", "error"})]
  /\ acking \cup acked \cup crossed \cup cut \subseteq Requests

-----------------------------------------------------------------------------
(* The microphone.                                                          *)

\* selectNearestMic: the enabled ones, of these the preferred if there are any; the
\* room of the device comes first, then the distance, then the order.
Enabled == {i \in DOMAIN Mics : Mics[i].enabled}
Candidates(v) ==
  LET preferred == {i \in Enabled : Mics[i].id \in v.mics}
  IN IF preferred = {} THEN Enabled ELSE preferred

Before(v, i, j) ==
  LET a == v.sees[Mics[i].id]
      b == v.sees[Mics[j].id]
  IN IF a.here # b.here THEN a.here
     ELSE IF (a.far = Absent) # (b.far = Absent) THEN b.far = Absent
     ELSE IF a.far # b.far THEN a.far < b.far
     ELSE i < j

Nearest(v) == CHOOSE i \in Candidates(v) : \A j \in Candidates(v) \ {i} : Before(v, i, j)

\* The first one may still be too far, or nobody knows how far.
WithinReach(v) ==
  LET sight == v.sees[Mics[Nearest(v)].id]
  IN v.limit # Absent => IF sight.far = Absent THEN sight.here ELSE sight.far <= v.limit

MicFound(v) == Candidates(v) # {} /\ WithinReach(v)

-----------------------------------------------------------------------------
(* Serving a request.                                                       *)

ActionOf(r) == order[r].what[1]
Argument(r) == order[r].what[2]
To(r) == order[r].to

\* handleAction: which way a request takes.
Route(t) ==
  IF transport = "voice" \/ (t.voice # Absent /\ t.voice.prefer) THEN "voice"
  ELSE IF transport # "ha" /\ t.zigbee # Absent THEN "mqtt"
  ELSE IF transport # "mqtt" /\ t.ha # Absent THEN "ha"
  ELSE IF t.voice # Absent THEN "voice" ELSE "none"

Published(r, status) ==
  /\ answers' = [answers EXCEPT ![r] = Append(@, status)]
  /\ serving' = [serving EXCEPT ![r].phase = "done"]
Refused(r) == Published(r, "error") /\ UNCHANGED told

\* What the device makes of a request: the action asked for, or something else.
Effect(r, does) == told' = [told EXCEPT ![r] = Append(@, IF does THEN order[r].what ELSE Other)]
NoDialogue == UNCHANGED <<transport, order, acking, acked, crossed>>
Takes(r, route) == serving[r].phase = "sent" /\ Route(To(r)) = route

\* Nothing is answered for a device that is not in the store.
ServeUnknown(r) ==
  /\ serving[r].phase = "sent"
  /\ serving' = [serving EXCEPT ![r].phase = "done"]
  /\ UNCHANGED <<told, answers, cut>> /\ NoDialogue

ServeMqtt(r) ==
  /\ Takes(r, "mqtt")
  /\ LET z == To(r).zigbee
     IN Effect(r, Z2MDoes(z, Z2MPayload(z, ActionOf(r), Argument(r)), ActionOf(r), Argument(r)))
  /\ Published(r, "ok")
  /\ UNCHANGED cut /\ NoDialogue

ServeHa(r) ==
  /\ Takes(r, "ha")
  /\ serving' = [serving EXCEPT ![r].phase = "calling"]
  /\ UNCHANGED <<told, answers, cut>> /\ NoDialogue

ServeNone(r) == Takes(r, "none") /\ Refused(r) /\ UNCHANGED cut /\ NoDialogue

\* The service is carried out, which for what the entity does not offer need not be what was
\* asked, or it is refused, or the answer is lost.
HaAnswers(r) ==
  LET does == HaDoes(To(r).ha.domain, HaCall(ActionOf(r), Argument(r)), ActionOf(r), Argument(r)) IN
  /\ serving[r].phase = "calling"
  /\ \/ Effect(r, does) /\ Published(r, "ok") /\ UNCHANGED cut
     \/ Refused(r) /\ UNCHANGED cut
     \/ Effect(r, does) /\ Published(r, "error") /\ cut' = cut \cup {r}
  /\ NoDialogue

-----------------------------------------------------------------------------
(* A dialogue.                                                              *)

Talking == {r \in Requests : serving[r].phase \in {"waking", "listening", "commanding"}}
Still == UNCHANGED <<transport, order>>

\* executeVoiceControlAction looks at the configuration before it says a word.
Speakable(r) ==
  LET v == To(r).voice IN v # Absent /\ ActionOf(r) \in v.said /\ v.wakes /\ MicFound(v)

ServeVoice(r) ==
  /\ Takes(r, "voice")
  /\ IF Speakable(r)
     THEN /\ serving' = [serving EXCEPT ![r] = [phase |-> "waking", try |-> 1]]
          /\ crossed' = IF Talking = {} THEN crossed ELSE crossed \cup Talking \cup {r}
          /\ UNCHANGED <<told, answers>>
     ELSE Refused(r) /\ UNCHANGED crossed
  /\ UNCHANGED <<acking, acked, cut>> /\ Still

\* The wake word is spoken, and the device may hear it; or the command that speaks
\* fails or is killed.
SpeakWake(r) ==
  /\ serving[r].phase = "waking"
  /\ \/ /\ serving' = [serving EXCEPT ![r].phase = "listening"]
        /\ acking' \in {acking, acking \cup {r}}
        /\ UNCHANGED <<told, answers>>
     \/ Refused(r) /\ UNCHANGED acking
  /\ UNCHANGED <<acked, crossed, cut>> /\ Still

\* What the microphone makes of what it hears.
Texts == {"", "ack", "other words"}

MatchesAny(text) == text # ""   \* variant: any text counts

\* matchesKeyword: only devices say their keywords.
Matches(text) == text = "ack"

Attempts(r) == To(r).voice.retries + 1

\* A window ends: the device's own acknowledgement was in it or is missed, that of
\* another dialogue may be in it too.
Listen(r) ==
  /\ serving[r].phase = "listening"
  /\ acking' = acking \ {r}
  /\ \/ \E text \in Texts :
          /\ text = "ack" => acking # {}
          /\ IF Matches(text)
             THEN /\ acked' = IF r \in acking THEN acked \cup {r} ELSE acked
                  /\ IF ActionOf(r) \in To(r).voice.whole
                     THEN serving' = [serving EXCEPT ![r].phase = "commanding"] /\ UNCHANGED <<told, answers>>
                     ELSE Refused(r)
             ELSE /\ UNCHANGED acked
                  /\ IF serving[r].try < Attempts(r)
                     THEN /\ serving' = [serving EXCEPT ![r] = [phase |-> "waking", try |-> @.try + 1]]
                          /\ UNCHANGED <<told, answers>>
                     ELSE Refused(r)
     \/ Refused(r) /\ UNCHANGED acked    \* the microphone fails
  /\ UNCHANGED <<crossed, cut>> /\ Still

\* The command is spoken as a whole, or breaks off.
SpeakCommand(r) ==
  /\ serving[r].phase = "commanding"
  /\ \/ Effect(r, TRUE) /\ Published(r, "ok") /\ UNCHANGED cut
     \/ Refused(r) /\ UNCHANGED cut
     \/ Effect(r, TRUE) /\ Published(r, "error") /\ cut' = cut \cup {r}
  /\ UNCHANGED <<acking, acked, crossed>> /\ Still

-----------------------------------------------------------------------------

DeliveryInit ==
  /\ transport \in Transports /\ order \in [Requests -> Orders]
  /\ serving = [r \in Requests |-> NotYet]
  /\ told = [r \in Requests |-> <<>>] /\ answers = [r \in Requests |-> <<>>]
  /\ acking = {} /\ acked = {} /\ crossed = {} /\ cut = {}

Serve(r) == ServeUnknown(r) \/ ServeMqtt(r) \/ ServeHa(r) \/ ServeNone(r) \/ ServeVoice(r)
Dialogue(r) == SpeakWake(r) \/ Listen(r) \/ SpeakCommand(r)
DeliveryNext == \E r \in Requests : Serve(r) \/ HaAnswers(r) \/ Dialogue(r)

DeliverySpec == DeliveryInit /\ [][DeliveryNext]_deliveryVars

-----------------------------------------------------------------------------
(* Properties.                                                              *)

\* What was asked is something the device offers on the way it takes; but a brightness is
\* offered of a Zigbee device in percent, and published as if that were its scale of 254.
Meant(r) ==
  CASE Route(To(r)) = "mqtt" -> ZigbeeOffers(To(r).zigbee, ActionOf(r), Argument(r)) /\ ActionOf(r) # "set_brightness"
    [] Route(To(r)) = "ha"   -> HaOffers(To(r).ha, ActionOf(r), Argument(r))
    [] OTHER                 -> TRUE

\* Whatever way it takes, a request is answered at most once, an ok means that the
\* device was told one thing, what was asked unless the device does not offer that, and
\* after an error it was told nothing unless something broke off on the way.
AnswersTrue ==
  \A r \in Requests :
    /\ Len(answers[r]) <= 1
    /\ answers[r] = <<"ok">> => Len(told[r]) = 1 /\ (Meant(r) => told[r] = <<order[r].what>>)
    /\ answers[r] # <<"ok">> /\ r \notin cut => told[r] = <<>>

\* A command is spoken only to a device that was heard to listen, also after attempts
\* that heard nothing or something else; only a dialogue that went on beside another
\* one may have taken the acknowledgement of the other's device for it.
CommandIsAwaited ==
  \A r \in Requests \ crossed :
    serving[r].phase = "commanding" \/ (Route(To(r)) = "voice" /\ told[r] # <<>>) => r \in acked
=============================================================================
