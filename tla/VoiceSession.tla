------------------------------ MODULE VoiceSession ------------------------------
(***************************************************************************)
(* One satellite and the voice server                                      *)
(* (firmware/respeaker-satellite/main: voice_turn.c, wake_word.c,          *)
(* protocol.c, ws_client.c; backend/services/voice-satellite:              *)
(* remote_server.py).                                                      *)
(*                                                                         *)
(* On the device run the wake engine, the worker that handles what the     *)
(* server sends, one task per turn and the ping task; on the server the    *)
(* handler of the connection, which awaits each message's work before it   *)
(* reads the next, and the watchdog.  Audio is counted in chunks; a reply  *)
(* is a start, its chunks and an end.  Time is any time.                   *)
(***************************************************************************)
EXTENDS Integers, Sequences

CONSTANTS
  MaxCaptures,   \* bound: utterances, after which turns end without one
  MaxChunks,     \* the longest capture, in chunks
  MaxUnderWay,   \* bound: messages under way when the wake word is spoken
  MaxFaults      \* bound: lost connections, failed sends, full queues and turns that start at once

VARIABLES
  dev,       \* s_state of protocol.c (tts: playing_tts), s_connected, s_playback_active (playing)
  hello,     \* hello of this connection is due
  busy,      \* s_voice_turn_busy
  engine,    \* the wake-word task
  worker,    \* the message worker
  turn,      \* the turn tasks, by what starts them
  captures,
  up,        \* what the device has sent
  queue,     \* what the server has sent, to the end of s_message_queue, and first what
             \* the worker has taken out of it and not yet handled
  late,      \* the first of queue was taken before the connection was marked as lost
  srv,       \* RemoteSatelliteSession
  handler, out, dog,   \* handler, and what it and the watchdog still have to send
  raced,     \* (history) a turn started while another one ran, or a capture while one was unended
  unended,   \* (history) on this connection the end of a capture was not sent, nor a wake since
  deaf,      \* (history) on this connection a send failed that did not break it, a full queue dropped
             \* session_closed, or the start of a reply was handled late
  faults

inbox == <<queue, late>>
device == <<dev, hello, busy, engine, worker, turn, captures, inbox>>
server == <<srv, handler, out, dog>>
mixes == <<raced, unended>>
history == <<mixes, deaf>>
vars == <<device, up, server, history, faults>>

Starters == {"wake", "follow"}
NoTurn == [stage |-> "none", n |-> 0, of |-> 0]
NoSession == [state |-> "none", open |-> FALSE, first |-> FALSE, blocks |-> {}, speech |-> FALSE, stop |-> FALSE]
Chunk(c, k) == <<"chunk", c, k>>
Simple == {"hello", "ping", "wake", "audio_start", "audio_end"}
Message == {<<t>> : t \in Simple} \cup ({"chunk"} \X (1 .. MaxCaptures) \X (1 .. MaxChunks))
Event == {"hello_ack", "listening", "stop_capture", "tts_start", "tts_chunks", "tts_end", "tts_exit",
          "session_closed", "error"}

ASSUME VoiceAssumption ==
  MaxCaptures \in Nat \ {0} /\ MaxChunks \in Nat \ {0} /\ MaxUnderWay \in Nat \ {0} /\ MaxFaults \in Nat

Device == [up : BOOLEAN, ready : BOOLEAN, listening : BOOLEAN, named : BOOLEAN, stop : BOOLEAN,
           tts : BOOLEAN, playing : BOOLEAN]
Turn == [stage : {"none", "wake", "await", "begin", "hear", "open", "stream", "close"},
         n : 0 .. MaxChunks, of : 0 .. MaxCaptures]
Session == [state : {"none", "IDLE", "LISTEN", "WAIT_AUDIO_END", "SPEAK"}, open : BOOLEAN, first : BOOLEAN,
            blocks : SUBSET ((1 .. MaxCaptures) \X (1 .. MaxChunks)), speech : BOOLEAN, stop : BOOLEAN]

TypeOK ==
  /\ dev \in Device /\ srv \in Session /\ turn \in [Starters -> Turn]
  /\ hello \in BOOLEAN /\ busy \in BOOLEAN
  /\ engine \in {"hear", "prompt", "start"} /\ worker \in {"idle", "start"} /\ late \in BOOLEAN
  /\ captures \in 0 .. MaxCaptures /\ up \in Seq(Message)
  /\ queue \in Seq(Event) /\ out \in Seq(Event) /\ dog \in Seq(Event)
  /\ handler \in {"recv", "turn"}
  /\ raced \in BOOLEAN /\ unended \in BOOLEAN /\ deaf \in BOOLEAN /\ faults \in 0 .. MaxFaults

-----------------------------------------------------------------------------
(* The connection.                                                          *)

PlaybackBegins(d) == [d EXCEPT !.playing = TRUE]
PlaybackEnds(d) == [d EXCEPT !.playing = FALSE]

ResetSession(d) == [d EXCEPT !.listening = FALSE, !.stop = FALSE, !.named = FALSE, !.tts = FALSE]

Connect ==
  /\ ~dev.up
  /\ dev' = ResetSession([dev EXCEPT !.up = TRUE, !.ready = FALSE]) /\ hello' = TRUE
  /\ UNCHANGED <<busy, engine, worker, turn, captures, inbox, up, server, history, faults>>

SendHello ==
  /\ dev.up /\ hello /\ hello' = FALSE
  /\ up' = Append(up, <<"hello">>)
  /\ UNCHANGED <<dev, busy, engine, worker, turn, captures, inbox, server, history, faults>>

\* mark_disconnected: playback stops, the session is forgotten, the queue is emptied.
Forgotten(d) == ResetSession(PlaybackEnds([d EXCEPT !.ready = FALSE]))

\* No lock joins taking a message and handling it: one that the worker has taken is still
\* handled.
Emptied ==
  \/ ~late /\ queue' = <<>> /\ UNCHANGED late
  \/ worker = "idle" /\ queue # <<>> /\ queue' = <<Head(queue)>> /\ late' = TRUE

\* A call to the agent that is under way goes on, but its answer reaches nobody.
Breaks ==
  /\ dev' = [Forgotten(dev) EXCEPT !.up = FALSE] /\ hello' = FALSE
  /\ Emptied /\ up' = <<>>
  /\ srv' = NoSession /\ handler' = "recv" /\ out' = <<>> /\ dog' = <<>>
  /\ unended' = FALSE /\ deaf' = FALSE
  /\ UNCHANGED <<busy, engine, worker, turn, captures, raced>>

LinkLost == dev.up /\ faults < MaxFaults /\ faults' = faults + 1 /\ Breaks

\* A send that fails although the connection stands: the device marks itself
\* disconnected, finds the connection up and goes on without another hello.
Deafens ==
  /\ dev.up /\ faults < MaxFaults /\ faults' = faults + 1
  /\ dev' = Forgotten(dev) /\ Emptied
  /\ deaf' = TRUE /\ UNCHANGED up

\* The lock is not had in time.
Withheld == dev.up /\ faults < MaxFaults /\ faults' = faults + 1 /\ UNCHANGED <<dev, inbox, up, deaf>>

\* A ping, which matters only when it overtakes the hello.
Ping ==
  /\ dev.up
  /\ \/ hello /\ faults < MaxFaults /\ faults' = faults + 1
        /\ up' = Append(up, <<"ping">>) /\ UNCHANGED <<dev, inbox, deaf>>
     \/ Deafens
  /\ UNCHANGED <<hello, busy, engine, worker, turn, captures, server, mixes>>

-----------------------------------------------------------------------------
(* The wake engine and the start of turns: the flag is tested, then set.    *)

Hears == engine = "hear" /\ dev.up /\ dev.ready /\ ~dev.playing /\ ~busy

Detect ==
  /\ Hears /\ captures < MaxCaptures /\ Len(up) + Len(queue) < MaxUnderWay
  /\ engine' = "prompt" /\ dev' = PlaybackBegins(dev)
  /\ UNCHANGED <<hello, busy, worker, turn, captures, inbox, up, server, history, faults>>

\* The end of the prompt also ends a reply that came meanwhile.
PromptEnds ==
  /\ engine = "prompt" /\ engine' = IF busy THEN "hear" ELSE "start"
  /\ dev' = PlaybackEnds(dev)
  /\ UNCHANGED <<hello, busy, worker, turn, captures, inbox, up, server, history, faults>>

\* The task first looks whether the server is there.  bound: no third turn starts
\* beside two that run.
Starts(r) ==
  /\ turn[r] = NoTurn
  /\ IF dev.up /\ dev.ready /\ (r = "follow" => dev.listening)
     THEN busy' = TRUE /\ turn' = [turn EXCEPT ![r].stage = IF r = "wake" THEN "wake" ELSE "hear"]
     ELSE busy' = FALSE /\ UNCHANGED turn
  /\ IF \A q \in Starters : turn[q] = NoTurn THEN UNCHANGED <<raced, faults>>
     ELSE faults < MaxFaults /\ faults' = faults + 1 /\ raced' = TRUE
  /\ UNCHANGED <<dev, hello, captures, inbox, up, server, unended, deaf>>

WakeStarts == engine = "start" /\ engine' = "hear" /\ Starts("wake") /\ UNCHANGED worker
FollowStarts == worker = "start" /\ worker' = "idle" /\ Starts("follow") /\ UNCHANGED engine

-----------------------------------------------------------------------------
(* A turn task.                                                             *)

Goes(r, stage) == turn' = [turn EXCEPT ![r].stage = stage] /\ UNCHANGED busy
Ends(r) == turn' = [turn EXCEPT ![r] = NoTurn] /\ busy' = FALSE
Elsewhere == UNCHANGED <<hello, engine, worker, server>>

\* What satellite_ws_send_json and its callers can come to.
Sent(m) == dev.up /\ up' = Append(up, m) /\ UNCHANGED <<dev, inbox, deaf, faults>>
Unsent ==
  \/ ~dev.up /\ UNCHANGED <<dev, inbox, up, deaf, faults>>
  \/ Withheld \/ Deafens

TurnWakes(r) ==
  /\ turn[r].stage = "wake"
  /\ \/ Sent(<<"wake">>) /\ Goes(r, "await") /\ unended' = FALSE
     \/ Unsent /\ Ends(r) /\ UNCHANGED unended
  /\ UNCHANGED <<captures, raced>> /\ Elsewhere

\* Listening may still be set from the session before.
TurnAwaits(r) ==
  /\ turn[r].stage = "await"
  /\ IF dev.listening THEN Goes(r, "begin") ELSE Ends(r)
  /\ UNCHANGED <<dev, captures, inbox, up, history, faults>> /\ Elsewhere

\* An utterance: what asked for a stop before is forgotten.
Opens(r) ==
  /\ captures < MaxCaptures /\ captures' = captures + 1
  /\ turn' = [turn EXCEPT ![r] = [stage |-> "open", n |-> 0, of |-> captures + 1]]
  /\ UNCHANGED busy

\* The lead-in is discarded after the first audio_start.
TurnBegins(r) ==
  /\ turn[r].stage = "begin"
  /\ \/ dev.up /\ up' = Append(up, <<"audio_start">>) /\ dev' = [dev EXCEPT !.stop = FALSE]
        /\ Opens(r) /\ UNCHANGED <<inbox, history, faults>>
     \/ Unsent /\ Ends(r) /\ UNCHANGED <<captures, mixes>>
     \/ captures = MaxCaptures /\ Ends(r) /\ UNCHANGED <<dev, captures, inbox, up, history, faults>>
  /\ Elsewhere

\* The follow-up window: speech, or its end.
TurnHears(r) ==
  /\ turn[r].stage = "hear"
  /\ \/ dev.up /\ dev.ready /\ dev.listening /\ Opens(r) /\ dev' = [dev EXCEPT !.stop = FALSE]
     \/ Ends(r) /\ UNCHANGED <<dev, captures>>
  /\ UNCHANGED <<inbox, up, history, faults>> /\ Elsewhere

TurnOpens(r) ==
  /\ turn[r].stage = "open"
  /\ \/ Sent(<<"audio_start">>) /\ Goes(r, "stream") /\ raced' = (raced \/ unended)
     \/ Unsent /\ Goes(r, "close") /\ UNCHANGED raced
  /\ UNCHANGED <<captures, unended>> /\ Elsewhere

\* The pre-roll of a follow-up is sent before a stop is looked for.
StopSeen(r) == dev.stop /\ (r = "wake" \/ turn[r].n > 0)

TurnStreams(r) ==
  /\ turn[r].stage = "stream" /\ turn[r].n < MaxChunks /\ ~StopSeen(r)
  /\ \/ Sent(Chunk(turn[r].of, turn[r].n + 1)) /\ turn' = [turn EXCEPT ![r].n = @ + 1] /\ UNCHANGED busy
     \/ Unsent /\ Goes(r, "close")
  /\ UNCHANGED <<captures, mixes>> /\ Elsewhere

\* A stop is consumed, or the capture is full or its microphone fails.
TurnStops(r) ==
  /\ turn[r].stage = "stream" /\ Goes(r, "close")
  /\ dev' = [dev EXCEPT !.stop = @ /\ ~(StopSeen(r) /\ turn[r].n < MaxChunks)]
  /\ UNCHANGED <<captures, inbox, up, history, faults>> /\ Elsewhere

TurnCloses(r) ==
  /\ turn[r].stage = "close"
  /\ \/ Sent(<<"audio_end">>) /\ unended' = FALSE
     \/ Unsent /\ unended' = (unended \/ (dev.up /\ turn[r].n > 0))
  /\ Ends(r) /\ UNCHANGED <<captures, raced>> /\ Elsewhere

TurnStep(r) ==
  \/ TurnWakes(r) \/ TurnAwaits(r) \/ TurnBegins(r)
  \/ TurnHears(r) \/ TurnOpens(r) \/ TurnStreams(r) \/ TurnStops(r) \/ TurnCloses(r)

-----------------------------------------------------------------------------
(* What the server sends.                                                   *)

\* The 16 places of the queue are taken only by the chunks of a reply.
MayBeFull == \E i \in 1 .. Len(queue) : queue[i] = "tts_chunks"

Arrives(event) ==
  \/ queue' = Append(queue, event) /\ UNCHANGED <<late, deaf, faults>>
  \/ MayBeFull /\ faults < MaxFaults /\ faults' = faults + 1
     /\ UNCHANGED inbox /\ deaf' = (deaf \/ event = "session_closed")

ClosedKeepsPlayback(d) == ResetSession(d)   \* variant: a closed session does not end the playback

Closed(d) == ResetSession(PlaybackEnds(d))

Handled(event) ==
  CASE event = "hello_ack" -> [dev EXCEPT !.ready = TRUE]
    [] event = "listening" -> [dev EXCEPT !.listening = TRUE, !.named = TRUE, !.stop = FALSE]
    [] event = "tts_start" -> PlaybackBegins([dev EXCEPT !.listening = FALSE, !.named = TRUE, !.tts = TRUE])
    [] event = "tts_chunks" -> dev
    [] event \in {"tts_end", "tts_exit"} -> PlaybackEnds([dev EXCEPT !.listening = TRUE, !.tts = FALSE])
    [] event = "stop_capture" -> [dev EXCEPT !.stop = TRUE]
    [] event = "session_closed" -> Closed(dev)
    [] event = "error" -> IF dev.tts THEN PlaybackEnds([dev EXCEPT !.tts = FALSE]) ELSE dev

\* A reply in a session is followed by a turn that needs no wake word.  The start of a
\* reply that is handled late begins a playback that nothing ends.
Handle ==
  /\ worker = "idle" /\ queue # <<>>
  /\ queue' = Tail(queue) /\ dev' = Handled(Head(queue))
  /\ worker' = IF Head(queue) = "tts_end" /\ dev.named /\ ~busy THEN "start" ELSE "idle"
  /\ late' = FALSE /\ deaf' = (deaf \/ (late /\ Head(queue) = "tts_start"))
  /\ UNCHANGED <<hello, busy, engine, turn, captures, up, server, mixes, faults>>

-----------------------------------------------------------------------------
(* The server.                                                              *)

ClearedKeepsBlocks(s) == [s EXCEPT !.speech = FALSE, !.stop = FALSE]   \* variant: the audio is kept

Cleared(s) == [s EXCEPT !.blocks = {}, !.speech = FALSE, !.stop = FALSE]
CloseSession(s) == [Cleared(s) EXCEPT !.state = "IDLE", !.open = FALSE, !.first = FALSE]

\* What tick may find: a capture that does not end, no first utterance, no activity.
DueAlways(s) == s.open   \* variant: also during a turn

Due(s) == s.open /\ s.state \in {"LISTEN", "WAIT_AUDIO_END"}
Notice(s) == IF s.state = "WAIT_AUDIO_END" THEN <<"error", "session_closed">> ELSE <<"session_closed">>

\* A reply begins to be sent within the idle timeout, which starts anew with it.
DogTicks ==
  /\ dog = <<>> /\ Due(srv) /\ \A i \in 1 .. Len(out) : out[i] # "tts_start"
  /\ srv' = CloseSession(srv) /\ dog' = Notice(srv)
  /\ UNCHANGED <<device, up, handler, out, history, faults>>

Reading == handler = "recv" /\ out = <<>> /\ up # <<>>
Answers(s, events) == srv' = s /\ out' = events /\ UNCHANGED handler
Taken == up' = Tail(up) /\ UNCHANGED <<device, dog, history, faults>>

\* The first message is hello; any other one ends the connection.
Hello ==
  /\ Reading /\ srv = NoSession /\ Head(up) = <<"hello">>
  /\ Answers([NoSession EXCEPT !.state = "IDLE"], <<"hello_ack">>) /\ Taken

Rejected == Reading /\ srv = NoSession /\ Head(up) # <<"hello">> /\ Breaks /\ UNCHANGED faults

\* start_session: an open session goes on under its id.
StartSession ==
  /\ Reading /\ srv # NoSession /\ Head(up) = <<"wake">>
  /\ Answers([Cleared(srv) EXCEPT !.state = "LISTEN", !.open = TRUE, !.first = TRUE], <<"listening">>) /\ Taken

BeginCapture ==
  /\ Reading /\ srv # NoSession /\ Head(up) = <<"audio_start">>
  /\ Answers(IF srv.state = "LISTEN" THEN Cleared(srv) ELSE srv, <<>>) /\ Taken

\* Audio and its end look at the clock first.
TickedOut ==
  /\ Reading /\ Due(srv) /\ Head(up)[1] \in {"chunk", "audio_end"}
  /\ Answers(CloseSession(srv), Notice(srv)) /\ Taken

Listens(s) == s.open /\ s.state \in {"LISTEN", "WAIT_AUDIO_END"}
Stored == [srv EXCEPT !.blocks = @ \cup {<<Head(up)[2], Head(up)[3]>>}]

IngestRefused ==
  /\ Reading /\ srv # NoSession /\ Head(up)[1] = "chunk" /\ ~Listens(srv)
  /\ Answers(srv, <<"error">>) /\ Taken

\* The voice detector hears nothing new, the first speech, or the end of it.
Ingest ==
  /\ Reading /\ Head(up)[1] = "chunk" /\ Listens(srv)
  /\ \/ Answers(Stored, <<>>)
     \/ ~srv.stop /\ ~srv.speech /\ Answers([Stored EXCEPT !.speech = TRUE, !.first = FALSE], <<>>)
     \/ ~srv.stop /\ srv.speech /\ srv.state = "LISTEN"
        /\ Answers([Stored EXCEPT !.stop = TRUE, !.state = "WAIT_AUDIO_END"], <<"stop_capture">>)
  /\ Taken

FinalizeEmpty ==
  /\ Reading /\ srv # NoSession /\ Head(up) = <<"audio_end">>
  /\ srv.state \notin {"LISTEN", "WAIT_AUDIO_END"} \/ srv.blocks = {}
  /\ Answers(IF Listens(srv) THEN [Cleared(srv) EXCEPT !.state = "LISTEN"] ELSE srv, <<>>) /\ Taken

FinalizeAudio ==
  /\ Reading /\ Head(up) = <<"audio_end">> /\ Listens(srv) /\ srv.blocks # {}
  /\ srv' = [srv EXCEPT !.state = "SPEAK", !.first = FALSE] /\ handler' = "turn"
  /\ Taken /\ UNCHANGED out

Reply(end) == <<"tts_start", "tts_chunks", end>>

\* Nothing was understood; the agent answered; the turn failed, with or without a
\* voice to say so; the user said goodbye.
CompletePcm ==
  /\ handler = "turn" /\ handler' = "recv"
  /\ \/ srv' = [Cleared(srv) EXCEPT !.state = "LISTEN"]
        /\ out' \in {<<>>, Reply("tts_end"), <<"error">>, <<"error">> \o Reply("tts_end")}
     \/ srv' = CloseSession(srv) /\ out' = Append(Reply("tts_exit"), "session_closed")
  /\ UNCHANGED <<device, up, dog, history, faults>>

\* Each event takes the lock for itself.
HandlerSends ==
  /\ out # <<>> /\ out' = Tail(out) /\ Arrives(Head(out))
  /\ UNCHANGED <<dev, hello, busy, engine, worker, turn, captures, up, srv, handler, dog, mixes>>

DogSends ==
  /\ dog # <<>> /\ dog' = Tail(dog) /\ Arrives(Head(dog))
  /\ UNCHANGED <<dev, hello, busy, engine, worker, turn, captures, up, srv, handler, out, mixes>>

HandlerStep ==
  \/ Hello \/ Rejected \/ StartSession \/ BeginCapture \/ TickedOut \/ IngestRefused \/ Ingest
  \/ FinalizeEmpty \/ FinalizeAudio \/ CompletePcm \/ HandlerSends

-----------------------------------------------------------------------------

Init ==
  /\ dev = [up |-> FALSE, ready |-> FALSE, listening |-> FALSE, named |-> FALSE, stop |-> FALSE,
            tts |-> FALSE, playing |-> FALSE]
  /\ hello = FALSE /\ busy = FALSE /\ engine = "hear" /\ worker = "idle"
  /\ turn = [r \in Starters |-> NoTurn] /\ captures = 0
  /\ up = <<>> /\ queue = <<>> /\ late = FALSE
  /\ srv = NoSession /\ handler = "recv" /\ out = <<>> /\ dog = <<>>
  /\ raced = FALSE /\ unended = FALSE /\ deaf = FALSE /\ faults = 0

EngineStep == PromptEnds \/ WakeStarts
ServerSide == HandlerStep \/ DogTicks \/ DogSends

Next ==
  \/ Connect \/ SendHello \/ LinkLost \/ Ping
  \/ Detect \/ EngineStep \/ FollowStarts \/ Handle
  \/ \E r \in Starters : TurnStep(r)
  \/ ServerSide

\* The tasks run, the network delivers, the client reconnects, the engines behind the
\* server return, and a session in which nothing happens is noticed.  Nobody has to speak.
Spec ==
  /\ Init /\ [][Next]_vars
  /\ WF_vars(Connect) /\ WF_vars(SendHello) /\ WF_vars(EngineStep) /\ WF_vars(FollowStarts)
  /\ WF_vars(Handle) /\ WF_vars(HandlerStep) /\ WF_vars(DogTicks) /\ WF_vars(DogSends)
  /\ \A r \in Starters : WF_vars(TurnStep(r))

-----------------------------------------------------------------------------
(* Properties.                                                              *)

\* What is transcribed as one utterance was spoken in one capture and has no hole, also
\* when a session times out under a capture, an audio_end is lost or the device streams
\* on.  Captures mix only when two turns start at once, or when one follows, without the
\* wake word, a capture whose end was not sent: the server still waits for that end and
\* does not clear what it has (remote_server.py:163).
OneCapture ==
  handler = "turn" /\ ~raced =>
    \E c \in 1 .. MaxCaptures : \E n \in 1 .. MaxChunks : srv.blocks = {c} \X (1 .. n)

\* The session that answers is the one that listened: the watchdog never takes its id
\* away under a turn, and one that listens has an id, without which it would never end.
ListensInSession == srv.open <=> srv.state \in {"LISTEN", "WAIT_AUDIO_END", "SPEAK"}

\* The device comes back to hear the wake word, whatever is lost, dropped or comes late:
\* also when the end of a reply is dropped.  It stays deaf only after a send that fails on
\* a connection that stands, when the dropped event is session_closed, or when the worker
\* had taken the start of a reply as the connection was lost: handled after the playback
\* was aborted, it begins one that reconnecting does not end (ws_client.c:109-114).
HearsAgain == []<>(Hears \/ deaf)
=============================================================================
