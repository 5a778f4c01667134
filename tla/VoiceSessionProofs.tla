--------------------------- MODULE VoiceSessionProofs ---------------------------
(***************************************************************************)
(* Proofs about a satellite and the voice server, for captures and queues  *)
(* of any length and any number of faults: types, the session that answers *)
(* is the one that listened, and what is transcribed is one capture.       *)
(*                                                                         *)
(* The invariant looks at the stream that goes up: the audio the server    *)
(* has, what is under way, and what the turn sends next.  In it, chunks    *)
(* of a capture follow each other without a hole after an audio_start, and *)
(* between a chunk and the next audio_start there is an end or a wake.     *)
(***************************************************************************)
EXTENDS VoiceSession, SequenceTheorems, TLAPS

\* m is what comes before chunk k of capture c; after a hello or a ping nothing is
\* taken for audio.
Precedes(m, c, k) ==
  \/ m[1] \in {"hello", "ping"}
  \/ k = 1 /\ m[1] = "audio_start"
  \/ m[1] = "chunk" /\ m[2] = c /\ m[3] + 1 = k

Expects(s, c, k) == s.state # "SPEAK" /\ (Listens(s) => s.blocks = {c} \X (1 .. k - 1))

\* Chunk k of capture c may come after place i of the stream u to the server s.
Follows(u, s, i, c, k) == IF i = 0 THEN Expects(s, c, k) ELSE Precedes(u[i], c, k)

InOrder(u, s, t) ==
  /\ \A i \in 1 .. Len(u) : u[i][1] = "chunk" => Follows(u, s, i - 1, u[i][2], u[i][3])
  /\ \A r \in Starters : t[r].stage = "stream" => Follows(u, s, Len(u), t[r].of, t[r].n + 1)

\* At place i there is audio of a capture that may have to be ended.
Audio(u, s, i) == IF i = 0 THEN s.state = "WAIT_AUDIO_END" ELSE u[i][1] = "chunk"
EndedBy(u, i, j) == \E m \in i + 1 .. j : u[m][1] \in {"wake", "audio_end"}

Delimited(u, s) == \A j \in 1 .. Len(u) : u[j][1] = "audio_start" =>
  \A i \in 0 .. j - 1 : Audio(u, s, i) => EndedBy(u, i, j)
AllEnded(u, s) == \A i \in 0 .. Len(u) : Audio(u, s, i) => EndedBy(u, i, Len(u))

Capturing(t) == \E r \in Starters : t[r].stage \in {"stream", "close"} /\ t[r].n > 0
Alone(t) == \A p, q \in Starters : t[p] # NoTurn /\ t[q] # NoTurn => p = q
Whole(s) == s.blocks # {} => \E c \in 1 .. MaxCaptures : \E n \in 1 .. MaxChunks : s.blocks = {c} \X (1 .. n)

Unmixed ==
  /\ Alone(turn) /\ Whole(srv)
  /\ InOrder(up, srv, turn) /\ Delimited(up, srv)
  /\ ~Capturing(turn) /\ ~unended => AllEnded(up, srv)
  /\ \A r \in Starters : turn[r].stage \in {"await", "begin"} => ~unended

Connected ==
  /\ ~dev.up => up = <<>> /\ srv = NoSession
  /\ handler = "turn" <=> srv.state = "SPEAK"
  /\ handler = "turn" => srv.blocks # {}
  /\ \A r \in Starters :
       /\ turn[r].stage = "open" => turn[r].n = 0
       /\ turn[r].stage \in {"open", "stream", "close"} => turn[r].of \in 1 .. MaxCaptures

IInv == TypeOK /\ Connected /\ ListensInSession /\ (~raced => Unmixed)

-----------------------------------------------------------------------------
(* Messages, and streams that grow and shrink.                              *)

LEMMA MessageFacts ==
  /\ \A m \in Message : m[1] = "chunk" =>
       m[2] \in 1 .. MaxCaptures /\ m[3] \in 1 .. MaxChunks /\ m = Chunk(m[2], m[3])
  /\ \A m \in Message : m[1] # "chunk" => m[1] \in Simple /\ m = <<m[1]>>
  /\ \A k \in Simple : <<k>> \in Message /\ <<k>>[1] = k
  /\ \A c \in 1 .. MaxCaptures, k \in 1 .. MaxChunks :
       Chunk(c, k) \in Message /\ Chunk(c, k)[1] = "chunk" /\ Chunk(c, k)[2] = c /\ Chunk(c, k)[3] = k
<1>1. \A m \in {<<t>> : t \in Simple} : m[1] \in Simple /\ m = <<m[1]>>
  OBVIOUS
<1>2. \A m \in {"chunk"} \X (1 .. MaxCaptures) \X (1 .. MaxChunks) :
        /\ m[1] = "chunk" /\ m[2] \in 1 .. MaxCaptures /\ m[3] \in 1 .. MaxChunks
        /\ m = <<"chunk", m[2], m[3]>>
  OBVIOUS
<1>3. "chunk" \notin Simple
  BY DEF Simple
<1> QED
  BY <1>1, <1>2, <1>3 DEF Message, Chunk

\* What an append and a tail do, place by place.
LEMMA Grown ==
  ASSUME NEW u \in Seq(Message), NEW m \in Message
  PROVE  /\ Append(u, m) \in Seq(Message) /\ Len(u) \in Nat /\ Len(Append(u, m)) = Len(u) + 1
         /\ Append(u, m)[Len(u) + 1] = m /\ Append(u, m) # <<>>
         /\ \A i \in 1 .. Len(u) : Append(u, m)[i] = u[i] /\ u[i] \in Message
  BY AppendProperties, LenProperties, ElementOfSeq

LEMMA Shrunk ==
  ASSUME NEW u \in Seq(Message), u # <<>>
  PROVE  /\ Tail(u) \in Seq(Message) /\ Len(u) \in Nat /\ Len(u) > 0 /\ Len(Tail(u)) = Len(u) - 1
         /\ Head(u) = u[1] /\ u[1] \in Message
         /\ \A i \in 1 .. Len(u) - 1 : Tail(u)[i] = u[i + 1]
         /\ \A i \in 1 .. Len(u) : u[i] \in Message
  BY HeadTailProperties, LenProperties, ElementOfSeq, EmptySeq

\* A message that comes where it may keeps the order; what the turns send next has to
\* fit to it.
LEMMA OrderGrows ==
  ASSUME NEW u \in Seq(Message), NEW m \in Message, NEW s, NEW t, NEW t2, InOrder(u, s, t),
         m[1] = "chunk" => Follows(u, s, Len(u), m[2], m[3]),
         \A r \in Starters : t2[r].stage = "stream" => Precedes(m, t2[r].of, t2[r].n + 1)
  PROVE  InOrder(Append(u, m), s, t2)
<1> DEFINE v == Append(u, m)
<1>1. /\ Len(u) \in Nat /\ Len(v) = Len(u) + 1 /\ v[Len(u) + 1] = m
      /\ \A i \in 1 .. Len(u) : v[i] = u[i]
  BY Grown
<1> HIDE DEF v
<1>2. ASSUME NEW i \in 1 .. Len(v), v[i][1] = "chunk"  PROVE Follows(v, s, i - 1, v[i][2], v[i][3])
  <2>1. CASE i = Len(u) + 1
    <3>1. Follows(u, s, Len(u), m[2], m[3]) /\ v[i] = m
      BY <1>1, <1>2, <2>1
    <3> QED
      BY <1>1, <2>1, <3>1 DEF Follows
  <2>2. CASE i \in 1 .. Len(u)
    <3>1. Follows(u, s, i - 1, v[i][2], v[i][3]) /\ (i - 1 = 0 \/ i - 1 \in 1 .. Len(u))
      BY <1>1, <1>2, <2>2 DEF InOrder
    <3> QED
      BY <1>1, <3>1 DEF Follows
  <2> QED
    BY <1>1, <1>2, <2>1, <2>2
<1>3. ASSUME NEW r \in Starters, t2[r].stage = "stream"  PROVE Follows(v, s, Len(v), t2[r].of, t2[r].n + 1)
  BY <1>1, <1>3 DEF Follows
<1> QED
  BY <1>2, <1>3 DEF InOrder, v

\* Taking the first message keeps the order, when the server then expects what follows it.
LEMMA OrderShrinks ==
  ASSUME NEW u \in Seq(Message), u # <<>>, NEW s, NEW s2, NEW t, InOrder(u, s, t),
         \A c, k : Precedes(u[1], c, k) => Expects(s2, c, k)
  PROVE  InOrder(Tail(u), s2, t)
<1> DEFINE v == Tail(u)
<1>1. /\ Len(u) \in Nat /\ Len(u) > 0 /\ Len(v) = Len(u) - 1
      /\ \A i \in 1 .. Len(v) : v[i] = u[i + 1]
  BY Shrunk
<1> HIDE DEF v
<1>2. \A i \in 0 .. Len(v) : \A c, k : Follows(u, s, i + 1, c, k) => Follows(v, s2, i, c, k)
  BY <1>1 DEF Follows
<1>3. ASSUME NEW i \in 1 .. Len(v), v[i][1] = "chunk"  PROVE Follows(v, s2, i - 1, v[i][2], v[i][3])
  <2>1. i + 1 \in 1 .. Len(u) /\ v[i] = u[i + 1] /\ (i + 1) - 1 = (i - 1) + 1 /\ i - 1 \in 0 .. Len(v)
    BY <1>1
  <2>2. Follows(u, s, (i - 1) + 1, v[i][2], v[i][3])
    BY <1>3, <2>1 DEF InOrder
  <2> QED
    BY <1>2, <2>1, <2>2
<1>4. ASSUME NEW r \in Starters, t[r].stage = "stream"  PROVE Follows(v, s2, Len(v), t[r].of, t[r].n + 1)
  <2>1. Follows(u, s, Len(v) + 1, t[r].of, t[r].n + 1) /\ Len(v) \in 0 .. Len(v)
    BY <1>1, <1>4 DEF InOrder
  <2> QED
    BY <1>2, <2>1
<1> QED
  BY <1>3, <1>4 DEF InOrder, v

\* An end in a stream is still there, and at its place, when the stream grows.
LEMMA EndsStay ==
  ASSUME NEW u \in Seq(Message), NEW m \in Message, NEW i \in Nat, NEW j \in 1 .. Len(u), NEW k \in Nat,
         EndedBy(u, i, j), j <= k
  PROVE  EndedBy(Append(u, m), i, k)
  BY Grown DEF EndedBy

\* Audio and its ends stay where they were when a message comes; an audio_start may come
\* when all audio has its end.
LEMMA DelimitedGrows ==
  ASSUME NEW u \in Seq(Message), NEW m \in Message, NEW s, Delimited(u, s),
         m[1] = "audio_start" => AllEnded(u, s)
  PROVE  Delimited(Append(u, m), s)
<1> DEFINE v == Append(u, m)
<1>1. /\ Len(u) \in Nat /\ Len(v) = Len(u) + 1 /\ v[Len(u) + 1] = m
      /\ \A i \in 1 .. Len(u) : v[i] = u[i]
  BY Grown
<1>2. \A i \in Nat, j \in 1 .. Len(u), k \in Nat : EndedBy(u, i, j) /\ j <= k => EndedBy(v, i, k)
  BY EndsStay
<1> HIDE DEF v
<1>3. \A i \in 0 .. Len(u) : Audio(v, s, i) => Audio(u, s, i)
  BY <1>1 DEF Audio
<1>4. ASSUME NEW j \in 1 .. Len(v), v[j][1] = "audio_start", NEW i \in 0 .. j - 1, Audio(v, s, i)
      PROVE  EndedBy(v, i, j)
  <2>1. i \in 0 .. Len(u) /\ Audio(u, s, i) /\ i \in Nat /\ j \in Nat
    BY <1>1, <1>3, <1>4
  <2>2. CASE j \in 1 .. Len(u)
    <3>1. EndedBy(u, i, j)
      BY <1>1, <1>4, <2>1, <2>2 DEF Delimited
    <3> QED
      BY <1>2, <2>1, <2>2, <3>1
  <2>3. CASE j = Len(u) + 1
    <3>1. EndedBy(u, i, Len(u))
      BY <1>1, <1>4, <2>1, <2>3 DEF AllEnded
    <3>2. Len(u) \in 1 .. Len(u)
      BY <1>1, <2>1, <3>1 DEF EndedBy
    <3> QED
      BY <1>1, <1>2, <2>1, <2>3, <3>1, <3>2
  <2> QED
    BY <1>1, <2>2, <2>3
<1> QED
  BY <1>4 DEF Delimited, v

\* A message that is no audio leaves all audio ended, and an end or a wake ends all.
LEMMA EndedGrows ==
  ASSUME NEW u \in Seq(Message), NEW m \in Message, NEW s,
         (AllEnded(u, s) /\ m[1] # "chunk") \/ m[1] \in {"wake", "audio_end"}
  PROVE  AllEnded(Append(u, m), s)
<1> DEFINE v == Append(u, m)
<1>1. /\ Len(u) \in Nat /\ Len(v) = Len(u) + 1 /\ v[Len(u) + 1] = m
      /\ \A i \in 1 .. Len(u) : v[i] = u[i]
  BY Grown
<1>2. \A i \in Nat, j \in 1 .. Len(u), k \in Nat : EndedBy(u, i, j) /\ j <= k => EndedBy(v, i, k)
  BY EndsStay
<1> HIDE DEF v
<1>3. ASSUME NEW i \in 0 .. Len(v), Audio(v, s, i)  PROVE EndedBy(v, i, Len(v))
  <2>1. i \in 0 .. Len(u) /\ Audio(u, s, i) /\ i \in Nat
    BY <1>1, <1>3 DEF Audio
  <2>2. CASE m[1] \in {"wake", "audio_end"}
    BY <1>1, <2>1, <2>2 DEF EndedBy
  <2>3. CASE AllEnded(u, s)
    <3>1. EndedBy(u, i, Len(u))
      BY <2>1, <2>3 DEF AllEnded
    <3>2. Len(u) \in 1 .. Len(u)
      BY <1>1, <2>1, <3>1 DEF EndedBy
    <3> QED
      BY <1>1, <1>2, <2>1, <3>1, <3>2
  <2> QED
    BY <2>2, <2>3
<1> QED
  BY <1>3 DEF AllEnded, v

\* The audio the server waits to see ended was there before, or it was the message taken.
WaitsOn(u, s, s2) ==
  s2.state = "WAIT_AUDIO_END" =>
    /\ u[1][1] \notin {"wake", "audio_end"}
    /\ s.state = "WAIT_AUDIO_END" \/ u[1][1] = "chunk"

LEMMA AudioShrinks ==
  ASSUME NEW u \in Seq(Message), u # <<>>, NEW s, NEW s2, WaitsOn(u, s, s2),
         NEW i \in 0 .. Len(u) - 1, Audio(Tail(u), s2, i)
  PROVE  /\ Audio(u, s, i + 1) \/ (i = 0 /\ Audio(u, s, 0) /\ u[1][1] \notin {"wake", "audio_end"})
         /\ \A j \in 1 .. Len(u) :
              EndedBy(u, i + 1, j) \/ (EndedBy(u, 0, j) /\ i = 0 /\ u[1][1] \notin {"wake", "audio_end"})
                => EndedBy(Tail(u), i, j - 1)
<1> DEFINE v == Tail(u)
<1>1. /\ Len(u) \in Nat /\ Len(u) > 0 /\ Len(v) = Len(u) - 1
      /\ \A l \in 1 .. Len(v) : v[l] = u[l + 1]
  BY Shrunk
<1> HIDE DEF v
<1>2. Audio(u, s, i + 1) \/ (i = 0 /\ Audio(u, s, 0) /\ u[1][1] \notin {"wake", "audio_end"})
  <2>1. CASE i = 0
    <3>1. s2.state = "WAIT_AUDIO_END"
      BY <2>1 DEF Audio
    <3>2. u[1][1] \notin {"wake", "audio_end"} /\ (s.state = "WAIT_AUDIO_END" \/ u[1][1] = "chunk")
      BY <3>1 DEF WaitsOn
    <3>3. Audio(u, s, 0) \/ Audio(u, s, 1)
      BY <3>2 DEF Audio
    <3>4. i + 1 = 1
      BY <2>1
    <3> QED
      BY <2>1, <3>2, <3>3, <3>4
  <2>2. CASE i # 0
    <3>1. i \in 1 .. Len(v) /\ v[i][1] = "chunk" /\ i + 1 # 0
      BY <1>1, <2>2 DEF Audio, v
    <3>2. u[i + 1][1] = "chunk"
      BY <1>1, <3>1
    <3>3. Audio(u, s, i + 1) <=> u[i + 1][1] = "chunk"
      BY <3>1 DEF Audio
    <3> QED
      BY <3>2, <3>3
  <2> QED
    BY <2>1, <2>2
<1>4. ASSUME NEW j \in 1 .. Len(u),
             EndedBy(u, i + 1, j) \/ (EndedBy(u, 0, j) /\ i = 0 /\ u[1][1] \notin {"wake", "audio_end"})
      PROVE  EndedBy(v, i, j - 1)
  <2>1. PICK l \in 1 .. j : u[l][1] \in {"wake", "audio_end"} /\ l # 1 /\ l >= i + 1 /\ (l >= i + 2 \/ i = 0)
    BY <1>1, <1>4 DEF EndedBy
  <2>2. l - 1 \in 1 .. Len(v) /\ l - 1 \in i + 1 .. j - 1 /\ v[l - 1] = u[l]
    BY <1>1, <2>1
  <2> QED
    BY <2>1, <2>2 DEF EndedBy
<1> QED
  BY <1>2, <1>4 DEF v

\* Taking the first message keeps the ends of the audio in their places.
LEMMA EndsShrink ==
  ASSUME NEW u \in Seq(Message), u # <<>>, NEW s, NEW s2, WaitsOn(u, s, s2)
  PROVE  /\ Delimited(u, s) => Delimited(Tail(u), s2)
         /\ AllEnded(u, s) => AllEnded(Tail(u), s2)
<1> DEFINE v == Tail(u)
<1>1. /\ Len(u) \in Nat /\ Len(u) > 0 /\ Len(v) = Len(u) - 1
      /\ \A l \in 1 .. Len(v) : v[l] = u[l + 1]
  BY Shrunk
<1> DEFINE Passes == u[1][1] \notin {"wake", "audio_end"}
<1>2. \A i \in 0 .. Len(u) - 1 : Audio(v, s2, i) =>
        /\ Audio(u, s, i + 1) \/ (i = 0 /\ Audio(u, s, 0) /\ Passes)
        /\ \A j \in 1 .. Len(u) :
             EndedBy(u, i + 1, j) \/ (EndedBy(u, 0, j) /\ i = 0 /\ Passes) => EndedBy(v, i, j - 1)
  BY AudioShrinks
<1> HIDE DEF v, Passes
<1>3. ASSUME Delimited(u, s), NEW j \in 1 .. Len(v), v[j][1] = "audio_start", NEW i \in 0 .. j - 1, Audio(v, s2, i)
      PROVE  EndedBy(v, i, j)
  <2>1. /\ j + 1 \in 1 .. Len(u) /\ u[j + 1][1] = "audio_start" /\ i \in 0 .. Len(u) - 1 /\ (j + 1) - 1 = j
        /\ i + 1 \in 0 .. j /\ 0 \in 0 .. j
    BY <1>1, <1>3
  <2>2. \A k \in 0 .. j : Audio(u, s, k) => EndedBy(u, k, j + 1)
    BY <1>3, <2>1 DEF Delimited
  <2>3. EndedBy(u, i + 1, j + 1) \/ (EndedBy(u, 0, j + 1) /\ i = 0 /\ Passes)
    BY <1>2, <1>3, <2>1, <2>2
  <2>4. EndedBy(v, i, (j + 1) - 1)
    BY <1>2, <1>3, <2>1, <2>3
  <2> QED
    BY <2>1, <2>4
<1>4. ASSUME AllEnded(u, s), NEW i \in 0 .. Len(v), Audio(v, s2, i)
      PROVE  EndedBy(v, i, Len(v))
  <2>1. /\ i + 1 \in 0 .. Len(u) /\ 0 \in 0 .. Len(u) /\ Len(u) \in 1 .. Len(u) /\ i \in 0 .. Len(u) - 1
    BY <1>1
  <2>2. \A k \in 0 .. Len(u) : Audio(u, s, k) => EndedBy(u, k, Len(u))
    BY <1>4 DEF AllEnded
  <2>3. EndedBy(u, i + 1, Len(u)) \/ (EndedBy(u, 0, Len(u)) /\ i = 0 /\ Passes)
    BY <1>2, <1>4, <2>1, <2>2
  <2>4. EndedBy(v, i, Len(u) - 1)
    BY <1>2, <1>4, <2>1, <2>3
  <2> QED
    BY <1>1, <2>4
<1> QED
  BY <1>3, <1>4 DEF Delimited, AllEnded, v

-----------------------------------------------------------------------------
(* Types.                                                                   *)

LEMMA EventFacts ==
  /\ <<>> \in Seq(Event) /\ \A s : Notice(s) \in Seq(Event)
  /\ \A q \in Seq(Event), e \in Event : Append(q, e) \in Seq(Event)
  /\ \A q \in Seq(Event) : q # <<>> => Tail(q) \in Seq(Event) /\ Head(q) \in Event
  /\ <<"hello_ack">> \in Seq(Event) /\ <<"listening">> \in Seq(Event) /\ <<"error">> \in Seq(Event)
  /\ <<"stop_capture">> \in Seq(Event)
  /\ Reply("tts_end") \in Seq(Event) /\ <<"error">> \o Reply("tts_end") \in Seq(Event)
  /\ Append(Reply("tts_exit"), "session_closed") \in Seq(Event)
<1>1. <<"error", "session_closed">> \in Seq(Event) /\ <<"session_closed">> \in Seq(Event)
  BY DEF Event
<1>2. \A q \in Seq(Event), e \in Event : Append(q, e) \in Seq(Event)
  BY AppendProperties
<1>3. \A q \in Seq(Event) : q # <<>> => Tail(q) \in Seq(Event) /\ Head(q) \in Event
  BY HeadTailProperties
<1>4. /\ <<"hello_ack">> \in Seq(Event) /\ <<"listening">> \in Seq(Event) /\ <<"error">> \in Seq(Event)
      /\ <<"stop_capture">> \in Seq(Event)
  BY DEF Event
<1>5. Reply("tts_end") \in Seq(Event) /\ Reply("tts_exit") \in Seq(Event)
  BY DEF Reply, Event
<1>6. <<"error">> \o Reply("tts_end") \in Seq(Event)
  BY <1>4, <1>5, ConcatProperties
<1>7. Append(Reply("tts_exit"), "session_closed") \in Seq(Event)
  BY <1>5, AppendProperties DEF Event
<1>8. \A s : Notice(s) \in Seq(Event)
  BY <1>1 DEF Notice
<1> QED
  BY <1>2, <1>3, <1>4, <1>5, <1>6, <1>7, <1>8, EmptySeq

LEMMA DeviceFacts ==
  /\ \A d \in Device :
       /\ ResetSession(d) \in Device /\ PlaybackBegins(d) \in Device /\ PlaybackEnds(d) \in Device
       /\ ResetSession(d).up = d.up /\ PlaybackBegins(d).up = d.up /\ PlaybackEnds(d).up = d.up
       /\ Forgotten(d) \in Device /\ Forgotten(d).up = d.up
  /\ dev \in Device => \A e \in Event : Handled(e) \in Device /\ (Handled(e)).up = dev.up
<1>1. \A d \in Device : ResetSession(d) \in Device /\ ResetSession(d).up = d.up
  BY DEF Device, ResetSession
<1>2. \A d \in Device : /\ PlaybackBegins(d) \in Device /\ PlaybackEnds(d) \in Device
                        /\ PlaybackBegins(d).up = d.up /\ PlaybackEnds(d).up = d.up
  BY DEF Device, PlaybackBegins, PlaybackEnds
<1>3. \A d \in Device : [d EXCEPT !.ready = FALSE] \in Device /\ [d EXCEPT !.ready = FALSE].up = d.up
  BY DEF Device
<1>4. \A d \in Device : Forgotten(d) \in Device /\ Forgotten(d).up = d.up
  BY <1>1, <1>2, <1>3 DEF Forgotten
<1>5. ASSUME dev \in Device, NEW e \in Event  PROVE Handled(e) \in Device /\ (Handled(e)).up = dev.up
  <2>1. \A d \in Device : Closed(d) \in Device /\ Closed(d).up = d.up
    BY <1>1, <1>2 DEF Closed
  <2>2. /\ [dev EXCEPT !.ready = TRUE] \in Device /\ [dev EXCEPT !.ready = TRUE].up = dev.up
        /\ LET d == [dev EXCEPT !.listening = TRUE, !.named = TRUE, !.stop = FALSE] IN d \in Device /\ d.up = dev.up
        /\ LET d == [dev EXCEPT !.listening = FALSE, !.named = TRUE, !.tts = TRUE] IN d \in Device /\ d.up = dev.up
        /\ LET d == [dev EXCEPT !.listening = TRUE, !.tts = FALSE] IN d \in Device /\ d.up = dev.up
        /\ LET d == [dev EXCEPT !.tts = FALSE] IN d \in Device /\ d.up = dev.up
        /\ [dev EXCEPT !.stop = TRUE] \in Device /\ [dev EXCEPT !.stop = TRUE].up = dev.up
    BY <1>5 DEF Device
  <2> QED
    BY <1>2, <1>5, <2>1, <2>2 DEF Handled, Event
<1> QED
  BY <1>1, <1>2, <1>4, <1>5

LEMMA TurnFacts ==
  ASSUME TypeOK, NEW r \in Starters
  PROVE  /\ \A stage : Goes(r, stage) /\ stage \in {"wake", "await", "begin", "hear", "open", "stream", "close"} =>
              /\ turn' \in [Starters -> Turn] /\ turn'[r].stage = stage /\ turn'[r].n = turn[r].n
              /\ turn'[r].of = turn[r].of
              /\ \A q \in Starters \ {r} : turn'[q] = turn[q]
              /\ busy' \in BOOLEAN
         /\ Ends(r) => /\ turn' \in [Starters -> Turn] /\ turn'[r] = NoTurn
                       /\ \A q \in Starters \ {r} : turn'[q] = turn[q]
                       /\ busy' \in BOOLEAN
         /\ Opens(r) => /\ turn' \in [Starters -> Turn] /\ turn'[r].stage = "open" /\ turn'[r].n = 0
                        /\ \A q \in Starters \ {r} : turn'[q] = turn[q]
                        /\ busy' \in BOOLEAN /\ captures' \in 0 .. MaxCaptures
<1>1. turn \in [Starters -> Turn] /\ busy \in BOOLEAN /\ captures \in 0 .. MaxCaptures
  BY DEF TypeOK
<1>2. ASSUME NEW stage, Goes(r, stage), stage \in {"wake", "await", "begin", "hear", "open", "stream", "close"}
      PROVE  /\ turn' \in [Starters -> Turn] /\ turn'[r].stage = stage /\ turn'[r].n = turn[r].n
             /\ turn'[r].of = turn[r].of
             /\ \A q \in Starters \ {r} : turn'[q] = turn[q]
             /\ busy' \in BOOLEAN
  BY <1>1, <1>2 DEF Goes, Turn
<1>3. ASSUME Ends(r)
      PROVE  /\ turn' \in [Starters -> Turn] /\ turn'[r] = NoTurn
             /\ \A q \in Starters \ {r} : turn'[q] = turn[q]
             /\ busy' \in BOOLEAN
  <2>1. NoTurn \in Turn
    BY VoiceAssumption DEF Turn, NoTurn
  <2> QED
    BY <1>1, <1>3, <2>1 DEF Ends
<1>4. ASSUME Opens(r)
      PROVE  /\ turn' \in [Starters -> Turn] /\ turn'[r].stage = "open" /\ turn'[r].n = 0
             /\ \A q \in Starters \ {r} : turn'[q] = turn[q]
             /\ busy' \in BOOLEAN /\ captures' \in 0 .. MaxCaptures
  <2>1. captures + 1 \in 0 .. MaxCaptures
    BY <1>1, <1>4, VoiceAssumption DEF Opens
  <2>2. [stage |-> "open", n |-> 0, of |-> captures + 1] \in Turn
    BY <2>1, VoiceAssumption DEF Turn
  <2> QED
    BY <1>1, <1>4, <2>1, <2>2 DEF Opens
<1> QED
  BY <1>2, <1>3, <1>4

\* What is left of the queue is at most the message the worker has taken.
LEMMA EmptiedFacts ==
  ASSUME TypeOK, Emptied
  PROVE  queue' \in Seq(Event) /\ late' \in BOOLEAN
<1>1. queue \in Seq(Event) /\ late \in BOOLEAN
  BY DEF TypeOK
<1>2. CASE queue # <<>> /\ queue' = <<Head(queue)>> /\ late' = TRUE
  <2>1. Head(queue) \in Event
    BY <1>1, <1>2, EventFacts
  <2> QED
    BY <1>2, <2>1
<1>3. CASE queue' = <<>> /\ UNCHANGED late
  BY <1>1, <1>3, EventFacts
<1> QED
  BY <1>2, <1>3 DEF Emptied

\* A message is appended, or nothing is; the device stays connected to the server.
LEMMA SendFacts ==
  ASSUME TypeOK
  PROVE  /\ \A m \in Message : Sent(m) =>
              /\ dev.up /\ up' = Append(up, m) /\ up' \in Seq(Message) /\ dev' = dev /\ UNCHANGED inbox
              /\ deaf' = deaf /\ faults' = faults
         /\ Unsent =>
              /\ up' = up /\ dev' \in Device /\ dev'.up = dev.up /\ queue' \in Seq(Event) /\ late' \in BOOLEAN
              /\ deaf' \in BOOLEAN /\ faults' \in 0 .. MaxFaults
         /\ Deafens =>
              /\ up' = up /\ dev' \in Device /\ dev'.up = dev.up /\ queue' \in Seq(Event) /\ late' \in BOOLEAN
              /\ deaf' \in BOOLEAN /\ faults' \in 0 .. MaxFaults
<1>1. /\ up \in Seq(Message) /\ dev \in Device /\ queue \in Seq(Event) /\ late \in BOOLEAN /\ deaf \in BOOLEAN
      /\ faults \in 0 .. MaxFaults
  BY DEF TypeOK
<1>2. ASSUME NEW m \in Message, Sent(m)
      PROVE  /\ dev.up /\ up' = Append(up, m) /\ up' \in Seq(Message) /\ dev' = dev /\ UNCHANGED inbox
             /\ deaf' = deaf /\ faults' = faults
  BY <1>1, <1>2, Grown DEF Sent
<1>3. ASSUME Deafens
      PROVE  /\ up' = up /\ dev' \in Device /\ dev'.up = dev.up /\ queue' \in Seq(Event) /\ late' \in BOOLEAN
             /\ deaf' \in BOOLEAN /\ faults' \in 0 .. MaxFaults
  <2>1. dev' = Forgotten(dev) /\ up' = up /\ Emptied /\ deaf' = TRUE /\ faults < MaxFaults /\ faults' = faults + 1
    BY <1>3 DEF Deafens
  <2>2. faults' \in 0 .. MaxFaults
    BY <1>1, <2>1, VoiceAssumption
  <2> QED
    BY <1>1, <2>1, <2>2, DeviceFacts, EmptiedFacts
<1>4. ASSUME Unsent
      PROVE  /\ up' = up /\ dev' \in Device /\ dev'.up = dev.up /\ queue' \in Seq(Event) /\ late' \in BOOLEAN
             /\ deaf' \in BOOLEAN /\ faults' \in 0 .. MaxFaults
  BY <1>1, <1>3, <1>4, VoiceAssumption DEF Unsent, Withheld, inbox
<1> QED
  BY <1>2, <1>3, <1>4

\* A lost connection leaves the types.
LEMMA BreakTypes ==
  ASSUME TypeOK, Breaks, faults' \in 0 .. MaxFaults
  PROVE  TypeOK'
<1>1. dev \in Device /\ Forgotten(dev) \in Device
  BY DeviceFacts DEF TypeOK
<1>2. dev' \in Device
  BY <1>1 DEF Breaks, Device
<1>3. <<>> \in Seq(Message) /\ <<>> \in Seq(Event)
  BY EmptySeq
<1>4. NoSession \in Session
  BY DEF NoSession, Session
<1>5. queue' \in Seq(Event) /\ late' \in BOOLEAN
  BY EmptiedFacts DEF Breaks
<1> QED
  BY <1>2, <1>3, <1>4, <1>5 DEF Breaks, TypeOK

\* Every step of the connection, the wake engine and the worker keeps the types.
LEMMA DeviceTypes ==
  ASSUME TypeOK, Connect \/ SendHello \/ LinkLost \/ Ping \/ Detect \/ EngineStep \/ FollowStarts \/ Handle
  PROVE  TypeOK'
<1>0. /\ dev \in Device /\ up \in Seq(Message) /\ queue \in Seq(Event) /\ late \in BOOLEAN /\ faults \in 0 .. MaxFaults
      /\ MaxFaults \in Nat /\ turn \in [Starters -> Turn]
  BY VoiceAssumption DEF TypeOK
<1>1. CASE Connect
  <2>1. [dev EXCEPT !.up = TRUE, !.ready = FALSE] \in Device
    BY <1>0 DEF Device
  <2>2. dev' \in Device
    BY <1>1, <2>1, DeviceFacts DEF Connect
  <2> QED
    BY <1>1, <2>2 DEF Connect, TypeOK, server, history, mixes, inbox
<1>2. CASE SendHello
  <2>1. <<"hello">> \in Message
    BY MessageFacts DEF Simple
  <2>2. up' \in Seq(Message)
    BY <1>0, <1>2, <2>1, Grown DEF SendHello
  <2> QED
    BY <1>2, <2>2 DEF SendHello, TypeOK, server, history, mixes, inbox
<1>3. CASE LinkLost
  <2>1. /\ Breaks /\ faults' \in 0 .. MaxFaults
    BY <1>0, <1>3 DEF LinkLost
  <2> QED
    BY <2>1, BreakTypes
<1>4. CASE Ping
  <2>1. <<"ping">> \in Message
    BY MessageFacts DEF Simple
  <2>2. /\ up' \in Seq(Message) /\ dev' \in Device /\ queue' \in Seq(Event) /\ late' \in BOOLEAN
        /\ deaf' \in BOOLEAN /\ faults' \in 0 .. MaxFaults
    <3>1. CASE Deafens
      BY <1>0, <3>1, SendFacts
    <3>2. CASE ~Deafens
      <4>1. up' = Append(up, <<"ping">>) /\ dev' = dev /\ UNCHANGED inbox /\ deaf' = deaf
            /\ faults < MaxFaults /\ faults' = faults + 1
        BY <1>4, <3>2 DEF Ping
      <4> QED
        BY <1>0, <2>1, <4>1, Grown DEF TypeOK, inbox
    <3> QED
      BY <3>1, <3>2
  <2> QED
    BY <1>4, <2>2 DEF Ping, TypeOK, server, mixes
<1>5. CASE Detect
  <2>1. dev' \in Device
    BY <1>0, <1>5, DeviceFacts DEF Detect
  <2> QED
    BY <1>5, <2>1 DEF Detect, TypeOK, server, history, mixes, inbox
<1>6. ASSUME NEW r \in Starters, Starts(r), engine' \in {"hear", "prompt", "start"}, worker' \in {"idle", "start"}
      PROVE  TypeOK'
  <2>1. turn' \in [Starters -> Turn] /\ busy' \in BOOLEAN
    <3>1. CASE UNCHANGED turn
      BY <1>0, <1>6, <3>1 DEF Starts
    <3>2. CASE busy' = TRUE /\ turn' = [turn EXCEPT ![r].stage = IF r = "wake" THEN "wake" ELSE "hear"]
      BY <1>0, <1>6, <3>2 DEF Turn
    <3> QED
      BY <1>6, <3>1, <3>2 DEF Starts
  <2>2. raced' \in BOOLEAN /\ faults' \in 0 .. MaxFaults
    <3>1. (raced' = raced /\ faults' = faults) \/ (faults < MaxFaults /\ faults' = faults + 1 /\ raced' = TRUE)
      BY <1>6 DEF Starts
    <3>2. raced \in BOOLEAN
      BY DEF TypeOK
    <3>3. faults < MaxFaults => faults + 1 \in 0 .. MaxFaults
      BY <1>0
    <3> QED
      BY <1>0, <3>1, <3>2, <3>3
  <2> QED
    BY <1>6, <2>1, <2>2 DEF Starts, TypeOK, server, inbox
<1>7. CASE EngineStep
  <2>1. CASE PromptEnds
    <3>1. dev' \in Device
      BY <1>0, <2>1, DeviceFacts DEF PromptEnds
    <3> QED
      BY <2>1, <3>1 DEF PromptEnds, TypeOK, server, history, mixes, inbox
  <2>2. CASE WakeStarts
    BY <1>6, <2>2 DEF WakeStarts, Starters, TypeOK
  <2> QED
    BY <1>7, <2>1, <2>2 DEF EngineStep
<1>8. CASE FollowStarts
  BY <1>6, <1>8 DEF FollowStarts, Starters, TypeOK
<1>9. CASE Handle
  <2>1. dev' \in Device /\ queue' \in Seq(Event) /\ late' \in BOOLEAN /\ worker' \in {"idle", "start"}
    BY <1>0, <1>9, DeviceFacts, EventFacts DEF Handle
  <2> QED
    BY <1>9, <2>1 DEF Handle, TypeOK, server, history, mixes
<1> QED
  BY <1>1, <1>2, <1>3, <1>4, <1>5, <1>7, <1>8, <1>9

\* The steps of a turn keep the types: they send a message or none, and go on or end.
LEMMA TurnTypes ==
  ASSUME TypeOK, Connected, NEW r \in Starters, TurnStep(r)
  PROVE  TypeOK'
<1>0. /\ dev \in Device /\ up \in Seq(Message) /\ queue \in Seq(Event) /\ late \in BOOLEAN /\ faults \in 0 .. MaxFaults
      /\ deaf \in BOOLEAN /\ turn \in [Starters -> Turn] /\ captures \in 0 .. MaxCaptures
  BY DEF TypeOK
<1>1. /\ <<"wake">> \in Message /\ <<"audio_start">> \in Message /\ <<"audio_end">> \in Message
  BY MessageFacts DEF Simple
<1> DEFINE Typed == /\ up' \in Seq(Message) /\ dev' \in Device /\ queue' \in Seq(Event) /\ late' \in BOOLEAN
                    /\ deaf' \in BOOLEAN /\ faults' \in 0 .. MaxFaults
           Turned == turn' \in [Starters -> Turn] /\ busy' \in BOOLEAN /\ captures' \in 0 .. MaxCaptures
<1>2. (Unsent \/ \E m \in Message : Sent(m)) => Typed
  BY <1>0, SendFacts DEF inbox
<1>3. /\ captures' = captures
      /\ Ends(r) \/ \E stage \in {"await", "begin", "stream", "close"} : Goes(r, stage)
      => Turned
  BY <1>0, TurnFacts
<1>4. Opens(r) => Turned
  BY TurnFacts
<1>5. UNCHANGED <<up, inbox, deaf, faults>> /\ dev' \in Device => Typed
  BY <1>0 DEF inbox
<1>6. [dev EXCEPT !.stop = FALSE] \in Device
  BY <1>0 DEF Device
<1>7. Typed /\ Turned /\ Elsewhere /\ raced' \in BOOLEAN /\ unended' \in BOOLEAN => TypeOK'
  BY DEF Elsewhere, TypeOK, server
<1> HIDE DEF Typed, Turned
<1>8. raced \in BOOLEAN /\ unended \in BOOLEAN
  BY DEF TypeOK
<1>11. CASE TurnWakes(r)
  BY <1>1, <1>2, <1>3, <1>7, <1>8, <1>11 DEF TurnWakes
<1>12. CASE TurnAwaits(r)
  BY <1>0, <1>3, <1>5, <1>7, <1>8, <1>12 DEF TurnAwaits, history, mixes
<1>13. CASE TurnBegins(r)
  <2>1. CASE up' = Append(up, <<"audio_start">>) /\ dev' = [dev EXCEPT !.stop = FALSE] /\ Opens(r)
             /\ UNCHANGED <<inbox, history, faults>>
    <3>1. Typed
      BY <1>0, <1>1, <1>6, <2>1, Grown DEF Typed, history, inbox
    <3> QED
      BY <1>4, <1>7, <1>8, <1>13, <2>1, <3>1 DEF TurnBegins, history, mixes
  <2>2. CASE Unsent /\ Ends(r) /\ UNCHANGED <<captures, mixes>>
    BY <1>2, <1>3, <1>7, <1>8, <1>13, <2>2 DEF TurnBegins, mixes
  <2>3. CASE Ends(r) /\ UNCHANGED <<dev, captures, inbox, up, history, faults>>
    BY <1>0, <1>3, <1>5, <1>7, <1>8, <1>13, <2>3 DEF TurnBegins, history, mixes
  <2> QED
    BY <1>13, <2>1, <2>2, <2>3 DEF TurnBegins
<1>14. CASE TurnHears(r)
  <2>1. dev' \in Device /\ Turned
    BY <1>0, <1>3, <1>4, <1>6, <1>14 DEF TurnHears
  <2> QED
    BY <1>5, <1>7, <1>8, <1>14, <2>1 DEF TurnHears, history, mixes
<1>15. CASE TurnOpens(r)
  BY <1>1, <1>2, <1>3, <1>7, <1>8, <1>15 DEF TurnOpens
<1>16. CASE TurnStreams(r)
  <2>1. turn[r] \in Turn /\ turn[r].stage = "stream" /\ turn[r].n < MaxChunks
    BY <1>0, <1>16 DEF TurnStreams
  <2>2. turn[r].n + 1 \in 1 .. MaxChunks /\ turn[r].n + 1 \in 0 .. MaxChunks
    BY <2>1, VoiceAssumption DEF Turn
  <2>3. CASE Sent(Chunk(turn[r].of, turn[r].n + 1)) /\ turn' = [turn EXCEPT ![r].n = @ + 1] /\ UNCHANGED busy
    <3>1. Chunk(turn[r].of, turn[r].n + 1) \in Message
      BY <1>16, <2>1, <2>2, MessageFacts DEF Connected
    <3>2. turn' \in [Starters -> Turn]
      BY <1>0, <2>1, <2>2, <2>3 DEF Turn
    <3>3. Turned
      BY <1>0, <1>16, <2>3, <3>2 DEF Turned, TurnStreams, TypeOK
    <3> QED
      BY <1>2, <1>7, <1>8, <1>16, <2>3, <3>1, <3>3 DEF TurnStreams, mixes
  <2>4. CASE Unsent /\ Goes(r, "close")
    BY <1>2, <1>3, <1>7, <1>8, <1>16, <2>4 DEF TurnStreams, mixes
  <2> QED
    BY <1>16, <2>3, <2>4 DEF TurnStreams
<1>17. CASE TurnStops(r)
  <2>1. \A b \in BOOLEAN : [dev EXCEPT !.stop = b] \in Device
    BY <1>0 DEF Device
  <2>2. dev' \in Device
    BY <1>0, <1>17, <2>1 DEF TurnStops, Device, StopSeen
  <2> QED
    BY <1>3, <1>5, <1>7, <1>8, <1>17, <2>2 DEF TurnStops, history, mixes
<1>18. CASE TurnCloses(r)
  <2>1. Typed /\ Turned
    BY <1>1, <1>2, <1>3, <1>18 DEF TurnCloses
  <2>2. raced' \in BOOLEAN /\ unended' \in BOOLEAN
    BY <1>8, <1>18 DEF TurnCloses
  <2> QED
    BY <1>7, <1>18, <2>1, <2>2 DEF TurnCloses
<1> QED
  BY <1>11, <1>12, <1>13, <1>14, <1>15, <1>16, <1>17, <1>18 DEF TurnStep

LEMMA SessionFacts ==
  \A s \in Session :
    /\ Cleared(s) \in Session /\ Cleared(s).state = s.state /\ Cleared(s).open = s.open /\ Cleared(s).blocks = {}
    /\ CloseSession(s) \in Session /\ CloseSession(s).state = "IDLE" /\ ~CloseSession(s).open
    /\ CloseSession(s).blocks = {}
    /\ LET t == [Cleared(s) EXCEPT !.state = "LISTEN"] IN
         t \in Session /\ t.state = "LISTEN" /\ t.open = s.open /\ t.blocks = {}
    /\ LET t == [Cleared(s) EXCEPT !.state = "LISTEN", !.open = TRUE, !.first = TRUE] IN
         t \in Session /\ t.state = "LISTEN" /\ t.open /\ t.blocks = {}
    /\ LET t == [s EXCEPT !.state = "SPEAK", !.first = FALSE] IN
         t \in Session /\ t.state = "SPEAK" /\ t.open = s.open /\ t.blocks = s.blocks
<1> SUFFICES ASSUME NEW s \in Session
             PROVE  /\ Cleared(s) \in Session /\ Cleared(s).state = s.state /\ Cleared(s).open = s.open /\ Cleared(s).blocks = {}
                    /\ CloseSession(s) \in Session /\ CloseSession(s).state = "IDLE" /\ ~CloseSession(s).open
                    /\ CloseSession(s).blocks = {}
                    /\ LET t == [Cleared(s) EXCEPT !.state = "LISTEN"] IN
                         t \in Session /\ t.state = "LISTEN" /\ t.open = s.open /\ t.blocks = {}
                    /\ LET t == [Cleared(s) EXCEPT !.state = "LISTEN", !.open = TRUE, !.first = TRUE] IN
                         t \in Session /\ t.state = "LISTEN" /\ t.open /\ t.blocks = {}
                    /\ LET t == [s EXCEPT !.state = "SPEAK", !.first = FALSE] IN
                         t \in Session /\ t.state = "SPEAK" /\ t.open = s.open /\ t.blocks = s.blocks
  OBVIOUS
<1>1. Cleared(s) \in Session /\ Cleared(s).state = s.state /\ Cleared(s).open = s.open /\ Cleared(s).blocks = {}
  BY DEF Cleared, Session
<1>2. /\ CloseSession(s) \in Session /\ CloseSession(s).state = "IDLE" /\ ~CloseSession(s).open
      /\ CloseSession(s).blocks = {}
  BY <1>1 DEF CloseSession, Session
<1>3. LET t == [Cleared(s) EXCEPT !.state = "LISTEN"] IN
        t \in Session /\ t.state = "LISTEN" /\ t.open = s.open /\ t.blocks = {}
  BY <1>1 DEF Session
<1>4. LET t == [Cleared(s) EXCEPT !.state = "LISTEN", !.open = TRUE, !.first = TRUE] IN
        t \in Session /\ t.state = "LISTEN" /\ t.open /\ t.blocks = {}
  BY <1>1 DEF Session
<1>5. LET t == [s EXCEPT !.state = "SPEAK", !.first = FALSE] IN
        t \in Session /\ t.state = "SPEAK" /\ t.open = s.open /\ t.blocks = s.blocks
  BY DEF Session
<1> QED
  BY <1>1, <1>2, <1>3, <1>4, <1>5

\* What a chunk makes of the session that takes it.
LEMMA StoredFacts ==
  ASSUME srv \in Session, up \in Seq(Message), up # <<>>, Head(up)[1] = "chunk"
  PROVE  /\ Stored \in Session /\ Stored.state = srv.state /\ Stored.open = srv.open
         /\ Stored.blocks = srv.blocks \cup {<<up[1][2], up[1][3]>>}
         /\ LET t == [Stored EXCEPT !.speech = TRUE, !.first = FALSE] IN
              t \in Session /\ t.state = srv.state /\ t.open = srv.open /\ t.blocks = Stored.blocks
         /\ LET t == [Stored EXCEPT !.stop = TRUE, !.state = "WAIT_AUDIO_END"] IN
              t \in Session /\ t.state = "WAIT_AUDIO_END" /\ t.open = srv.open /\ t.blocks = Stored.blocks
<1>1. Head(up) = up[1] /\ up[1] \in Message
  BY Shrunk
<1>2. up[1][2] \in 1 .. MaxCaptures /\ up[1][3] \in 1 .. MaxChunks
  BY <1>1, MessageFacts
<1>3. /\ Stored \in Session /\ Stored.state = srv.state /\ Stored.open = srv.open
      /\ Stored.blocks = srv.blocks \cup {<<up[1][2], up[1][3]>>}
  BY <1>1, <1>2 DEF Stored, Session
<1>4. LET t == [Stored EXCEPT !.speech = TRUE, !.first = FALSE] IN
        t \in Session /\ t.state = srv.state /\ t.open = srv.open /\ t.blocks = Stored.blocks
  BY <1>3 DEF Session
<1>5. LET t == [Stored EXCEPT !.stop = TRUE, !.state = "WAIT_AUDIO_END"] IN
        t \in Session /\ t.state = "WAIT_AUDIO_END" /\ t.open = srv.open /\ t.blocks = Stored.blocks
  BY <1>3 DEF Session
<1> QED
  BY <1>3, <1>4, <1>5

\* What the server may do with the session and the message it takes.
Answered(kind) ==
  CASE kind = "hello" -> up[1][1] = "hello" /\ srv'.state = "IDLE" /\ ~srv'.open /\ srv'.blocks = {}
    [] kind = "wake" -> up[1][1] = "wake" /\ srv'.state = "LISTEN" /\ srv'.open /\ srv'.blocks = {}
    [] kind = "start" -> /\ up[1][1] = "audio_start"
                         /\ \/ srv' = srv /\ srv.state # "LISTEN"
                            \/ srv'.state = "LISTEN" /\ srv'.open = srv.open /\ srv'.blocks = {} /\ srv.state = "LISTEN"
    [] kind = "late" -> up[1][1] \in {"chunk", "audio_end"} /\ srv'.state = "IDLE" /\ ~srv'.open /\ srv'.blocks = {}
    [] kind = "refuse" -> up[1][1] = "chunk" /\ srv' = srv /\ ~Listens(srv)
    [] kind = "store" -> /\ up[1][1] = "chunk" /\ Listens(srv) /\ srv'.open = srv.open
                         /\ srv'.state \in {srv.state, "WAIT_AUDIO_END"}
                         /\ srv'.blocks = srv.blocks \cup {<<up[1][2], up[1][3]>>}
    [] kind = "empty" -> /\ up[1][1] = "audio_end"
                         /\ \/ srv' = srv /\ ~Listens(srv)
                            \/ srv'.state = "LISTEN" /\ srv'.open = srv.open /\ srv'.blocks = {} /\ Listens(srv)

Kinds == {"hello", "wake", "start", "late", "refuse", "store", "empty"}

\* Every message that the handler answers without a turn of the agent.
LEMMA AnswerFacts ==
  ASSUME TypeOK,
         Hello \/ StartSession \/ BeginCapture \/ TickedOut \/ IngestRefused \/ Ingest \/ FinalizeEmpty
  PROVE  /\ Reading /\ Taken /\ handler' = handler /\ srv' \in Session /\ out' \in Seq(Event)
         /\ \E kind \in Kinds : Answered(kind)
<1>0. srv \in Session /\ up \in Seq(Message)
  BY DEF TypeOK
<1>1. Reading /\ Taken /\ handler' = handler
  BY DEF Hello, StartSession, BeginCapture, TickedOut, IngestRefused, Ingest, FinalizeEmpty, Answers
<1>2. up # <<>> /\ Head(up) = up[1] /\ up[1] \in Message
  BY <1>0, <1>1, Shrunk DEF Reading
<1>3. \A k \in Simple : up[1] = <<k>> => up[1][1] = k
  BY MessageFacts
<1> DEFINE clear == Cleared(srv)
           listen == [Cleared(srv) EXCEPT !.state = "LISTEN"]
<1>a. /\ clear \in Session /\ clear.state = srv.state /\ clear.open = srv.open /\ clear.blocks = {}
      /\ listen \in Session /\ listen.state = "LISTEN" /\ listen.open = srv.open /\ listen.blocks = {}
  BY <1>0, SessionFacts
<1> HIDE DEF clear, listen
<1>4. CASE Hello
  <2>1. LET t == [NoSession EXCEPT !.state = "IDLE"] IN
          t \in Session /\ t.state = "IDLE" /\ ~t.open /\ t.blocks = {}
    BY DEF NoSession, Session
  <2>2. up[1][1] = "hello"
    BY <1>2, <1>3, <1>4 DEF Hello, Simple
  <2>3. Answered("hello") /\ srv' \in Session
    BY <1>4, <2>1, <2>2 DEF Hello, Answers, Answered
  <2> QED
    BY <1>1, <1>4, <2>3, EventFacts DEF Hello, Answers, Kinds
<1>5. CASE StartSession
  <2>1. up[1][1] = "wake"
    BY <1>2, <1>3, <1>5 DEF StartSession, Simple
  <2>2. srv' \in Session /\ (srv'.state = "LISTEN" /\ srv'.open /\ srv'.blocks = {})
    BY <1>0, <1>5, SessionFacts DEF StartSession, Answers
  <2>3. Answered("wake")
    BY <2>1, <2>2 DEF Answered
  <2> QED
    BY <1>1, <1>5, <2>2, <2>3, EventFacts DEF StartSession, Answers, Kinds
<1>6. CASE BeginCapture
  <2>1. up[1][1] = "audio_start"
    BY <1>2, <1>3, <1>6 DEF BeginCapture, Simple
  <2>2. ASSUME srv.state = "LISTEN"  PROVE Answered("start")
    <3>1. srv' = clear
      BY <1>6, <2>2 DEF BeginCapture, Answers, clear
    <3> QED
      BY <1>a, <2>1, <2>2, <3>1 DEF Answered
  <2>3. ASSUME srv.state # "LISTEN"  PROVE Answered("start")
    BY <1>0, <1>6, <2>1, <2>3 DEF BeginCapture, Answers, Answered
  <2>4. Answered("start") /\ srv' \in Session
    <3>1. srv' = srv \/ srv' = clear
      BY <1>6 DEF BeginCapture, Answers, clear
    <3> QED
      BY <1>0, <1>a, <2>2, <2>3, <3>1
  <2> QED
    BY <1>1, <1>6, <2>4, EventFacts DEF BeginCapture, Answers, Kinds
<1>7. CASE TickedOut
  <2>1. up[1][1] \in {"chunk", "audio_end"}
    BY <1>2, <1>7 DEF TickedOut
  <2>2. srv' \in Session /\ (srv'.state = "IDLE" /\ ~srv'.open /\ srv'.blocks = {})
    BY <1>0, <1>7, SessionFacts DEF TickedOut, Answers
  <2>3. Answered("late")
    BY <2>1, <2>2 DEF Answered
  <2> QED
    BY <1>1, <1>7, <2>2, <2>3, EventFacts DEF TickedOut, Answers, Kinds
<1>8. CASE IngestRefused
  <2>1. Answered("refuse") /\ srv' \in Session
    BY <1>0, <1>2, <1>8 DEF IngestRefused, Answers, Answered
  <2> QED
    BY <1>1, <1>8, <2>1, EventFacts DEF IngestRefused, Answers, Kinds
<1>9. CASE Ingest
  <2>1. up[1][1] = "chunk" /\ Listens(srv)
    BY <1>2, <1>9 DEF Ingest
  <2>2. /\ srv' \in Session /\ srv'.open = srv.open /\ srv'.state \in {srv.state, "WAIT_AUDIO_END"}
        /\ srv'.blocks = srv.blocks \cup {<<up[1][2], up[1][3]>>}
    BY <1>0, <1>2, <1>9, <2>1, StoredFacts DEF Ingest, Answers
  <2>3. Answered("store")
    BY <2>1, <2>2 DEF Answered
  <2> QED
    BY <1>1, <1>9, <2>2, <2>3, EventFacts DEF Ingest, Answers, Kinds
<1>10. CASE FinalizeEmpty
  <2>1. up[1][1] = "audio_end"
    BY <1>2, <1>3, <1>10 DEF FinalizeEmpty, Simple
  <2>2. /\ srv' \in Session
        /\ IF Listens(srv) THEN srv'.state = "LISTEN" /\ srv'.open = srv.open /\ srv'.blocks = {} ELSE srv' = srv
    <3>1. srv' = IF Listens(srv) THEN listen ELSE srv
      BY <1>10 DEF FinalizeEmpty, Answers, listen
    <3> QED
      BY <1>0, <1>a, <3>1
  <2>3. Answered("empty")
    BY <2>1, <2>2 DEF Answered
  <2> QED
    BY <1>1, <1>10, <2>2, <2>3, EventFacts DEF FinalizeEmpty, Answers, Kinds
<1> QED
  BY <1>4, <1>5, <1>6, <1>7, <1>8, <1>9, <1>10

\* The steps that take no message, and the audio_end that starts a turn of the agent.
LEMMA FinalFacts ==
  ASSUME TypeOK, FinalizeAudio
  PROVE  /\ Reading /\ Taken /\ up[1][1] = "audio_end" /\ handler' = "turn" /\ out' = out
         /\ Listens(srv) /\ srv.blocks # {} /\ srv' \in Session
         /\ srv'.state = "SPEAK" /\ srv'.open = srv.open /\ srv'.blocks = srv.blocks
<1>1. srv \in Session /\ up \in Seq(Message) /\ up # <<>>
  BY DEF TypeOK, FinalizeAudio, Reading
<1>2. up[1][1] = "audio_end"
  BY <1>1, Shrunk, MessageFacts DEF FinalizeAudio, Simple
<1>3. srv' \in Session /\ srv'.state = "SPEAK" /\ srv'.open = srv.open /\ srv'.blocks = srv.blocks
  BY <1>1, SessionFacts DEF FinalizeAudio
<1> QED
  BY <1>2, <1>3 DEF FinalizeAudio

LEMMA CompleteFacts ==
  ASSUME TypeOK, CompletePcm
  PROVE  /\ handler = "turn" /\ handler' = "recv" /\ UNCHANGED <<device, up, dog, history, faults>>
         /\ srv' \in Session /\ srv'.blocks = {} /\ out' \in Seq(Event)
         /\ (srv'.state = "LISTEN" /\ srv'.open = srv.open) \/ (srv'.state = "IDLE" /\ ~srv'.open)
<1>1. srv \in Session
  BY DEF TypeOK
<1>2. CASE srv' = [Cleared(srv) EXCEPT !.state = "LISTEN"]
           /\ out' \in {<<>>, Reply("tts_end"), <<"error">>, <<"error">> \o Reply("tts_end")}
  <2>1. srv' \in Session /\ srv'.blocks = {} /\ srv'.state = "LISTEN" /\ srv'.open = srv.open
    BY <1>1, <1>2, SessionFacts
  <2>2. out' \in Seq(Event)
    BY <1>2, EventFacts
  <2> QED
    BY <2>1, <2>2 DEF CompletePcm
<1>3. CASE srv' = CloseSession(srv) /\ out' = Append(Reply("tts_exit"), "session_closed")
  BY <1>1, <1>3, SessionFacts, EventFacts DEF CompletePcm
<1> QED
  BY <1>2, <1>3 DEF CompletePcm

LEMMA TickFacts ==
  ASSUME TypeOK, DogTicks
  PROVE  /\ srv.open /\ srv.state \in {"LISTEN", "WAIT_AUDIO_END"}
         /\ UNCHANGED <<device, up, handler, out, history, faults>> /\ dog' \in Seq(Event)
         /\ srv' \in Session /\ srv'.state = "IDLE" /\ ~srv'.open /\ srv'.blocks = {}
  BY SessionFacts, EventFacts DEF TypeOK, DogTicks, Due

\* What is sent to the device changes neither the session nor what it hears.
LEMMA SentFacts ==
  ASSUME TypeOK, HandlerSends \/ DogSends
  PROVE  /\ UNCHANGED <<dev, hello, busy, engine, worker, turn, captures, up, srv, handler, mixes>>
         /\ queue' \in Seq(Event) /\ late' \in BOOLEAN /\ out' \in Seq(Event) /\ dog' \in Seq(Event)
         /\ deaf' \in BOOLEAN /\ faults' \in 0 .. MaxFaults
<1>0. /\ queue \in Seq(Event) /\ late \in BOOLEAN /\ out \in Seq(Event) /\ dog \in Seq(Event) /\ deaf \in BOOLEAN
      /\ faults \in 0 .. MaxFaults
  BY DEF TypeOK
<1>1. ASSUME NEW e \in Event, Arrives(e)
      PROVE  queue' \in Seq(Event) /\ late' \in BOOLEAN /\ deaf' \in BOOLEAN /\ faults' \in 0 .. MaxFaults
  <2>1. CASE queue' = Append(queue, e) /\ UNCHANGED <<late, deaf, faults>>
    BY <1>0, <2>1, EventFacts
  <2>2. CASE faults < MaxFaults /\ faults' = faults + 1 /\ UNCHANGED inbox /\ deaf' = (deaf \/ e = "session_closed")
    <3>1. faults + 1 \in 0 .. MaxFaults
      BY <1>0, <2>2, VoiceAssumption
    <3> QED
      BY <1>0, <2>2, <3>1 DEF inbox
  <2> QED
    BY <1>1, <2>1, <2>2 DEF Arrives
<1>2. CASE HandlerSends
  BY <1>0, <1>1, <1>2, EventFacts DEF HandlerSends
<1>3. CASE DogSends
  BY <1>0, <1>1, <1>3, EventFacts DEF DogSends
<1> QED
  BY <1>2, <1>3

\* The steps of the server keep the types.
LEMMA ServerTypes ==
  ASSUME TypeOK, ServerSide
  PROVE  TypeOK'
<1>1. ASSUME Reading, Taken  PROVE up' \in Seq(Message) /\ UNCHANGED <<device, dog, history, faults>>
  BY <1>1, Shrunk DEF Reading, Taken, TypeOK
<1>2. CASE Hello \/ StartSession \/ BeginCapture \/ TickedOut \/ IngestRefused \/ Ingest \/ FinalizeEmpty
  <2>1. /\ Reading /\ Taken /\ handler' = handler /\ srv' \in Session /\ out' \in Seq(Event)
    BY <1>2, AnswerFacts
  <2> QED
    BY <1>1, <2>1 DEF TypeOK, device, history, mixes, inbox
<1>3. CASE Rejected
  <2>1. Breaks /\ faults' \in 0 .. MaxFaults
    BY <1>3 DEF Rejected, TypeOK
  <2> QED
    BY <2>1, BreakTypes
<1>4. CASE FinalizeAudio
  <2>1. Reading /\ Taken /\ handler' = "turn" /\ out' = out /\ srv' \in Session
    BY <1>4, FinalFacts
  <2> QED
    BY <1>1, <2>1 DEF TypeOK, device, history, mixes, inbox
<1>5. CASE CompletePcm
  <2>1. handler' = "recv" /\ UNCHANGED <<device, up, dog, history, faults>> /\ srv' \in Session /\ out' \in Seq(Event)
    BY <1>5, CompleteFacts
  <2> QED
    BY <2>1 DEF TypeOK, device, history, mixes, inbox
<1>6. CASE HandlerSends \/ DogSends
  BY <1>6, SentFacts DEF TypeOK, mixes
<1>7. CASE DogTicks
  <2>1. UNCHANGED <<device, up, handler, out, history, faults>> /\ dog' \in Seq(Event) /\ srv' \in Session
    BY <1>7, TickFacts
  <2> QED
    BY <2>1 DEF TypeOK, device, history, mixes, inbox
<1> QED
  BY <1>2, <1>3, <1>4, <1>5, <1>6, <1>7 DEF ServerSide, HandlerStep

LEMMA TypesKept == TypeOK /\ Connected /\ [Next]_vars => TypeOK'
<1> SUFFICES ASSUME TypeOK, Connected, [Next]_vars PROVE TypeOK'
  OBVIOUS
<1>1. CASE UNCHANGED vars
  BY <1>1 DEF vars, device, server, history, mixes, TypeOK, inbox
<1>2. CASE Next
  BY <1>2, DeviceTypes, TurnTypes, ServerTypes DEF Next
<1> QED
  BY <1>1, <1>2

-----------------------------------------------------------------------------
(* What a step of a turn does to the stream.                                *)

Puts(m) == m \in Message /\ dev.up /\ up' = Append(up, m)
Quietly == up' = up /\ raced' = raced
At(r, stage) == turn'[r].stage = stage /\ turn'[r].n = turn[r].n /\ turn'[r].of = turn[r].of
Opened(r) == turn'[r].stage = "open" /\ turn'[r].n = 0 /\ turn'[r].of \in 1 .. MaxCaptures

TurnEffect(r) ==
  \/ turn[r].stage = "wake" /\ Puts(<<"wake">>) /\ At(r, "await") /\ ~unended' /\ raced' = raced
  \/ turn[r].stage = "await" /\ Quietly /\ At(r, "begin") /\ unended' = unended
  \/ turn[r].stage = "begin" /\ Puts(<<"audio_start">>) /\ Opened(r) /\ UNCHANGED mixes
  \/ turn[r].stage = "hear" /\ Quietly /\ Opened(r) /\ unended' = unended
  \/ turn[r].stage \in {"wake", "await", "begin", "hear"} /\ Quietly /\ turn'[r] = NoTurn /\ unended' = unended
  \/ turn[r].stage = "open" /\ Puts(<<"audio_start">>) /\ At(r, "stream") /\ unended' = unended
       /\ raced' = (raced \/ unended)
  \/ turn[r].stage \in {"open", "stream"} /\ Quietly /\ At(r, "close") /\ unended' = unended
  \/ turn[r].stage = "stream" /\ Puts(Chunk(turn[r].of, turn[r].n + 1)) /\ UNCHANGED mixes
       /\ turn'[r].stage = "stream" /\ turn'[r].n = turn[r].n + 1 /\ turn'[r].of = turn[r].of
  \/ turn[r].stage = "close" /\ Puts(<<"audio_end">>) /\ turn'[r] = NoTurn /\ ~unended' /\ raced' = raced
  \/ turn[r].stage = "close" /\ Quietly /\ turn'[r] = NoTurn /\ unended' = (unended \/ (dev.up /\ turn[r].n > 0))

LEMMA TurnEffects ==
  ASSUME TypeOK, Connected, NEW r \in Starters, TurnStep(r)
  PROVE  /\ UNCHANGED server /\ dev'.up = dev.up /\ \A q \in Starters \ {r} : turn'[q] = turn[q]
         /\ TurnEffect(r)
<1>0. /\ dev \in Device /\ up \in Seq(Message) /\ turn \in [Starters -> Turn] /\ turn[r] \in Turn
      /\ captures \in 0 .. MaxCaptures /\ MaxCaptures \in Nat
  BY VoiceAssumption DEF TypeOK
<1>1. /\ <<"wake">> \in Message /\ <<"audio_start">> \in Message /\ <<"audio_end">> \in Message
  BY MessageFacts DEF Simple
<1>2. \A m \in Message : Sent(m) => Puts(m) /\ dev'.up = dev.up
  BY SendFacts DEF Puts
<1>3. Unsent => up' = up /\ dev'.up = dev.up
  BY SendFacts
<1> DEFINE Others == \A q \in Starters \ {r} : turn'[q] = turn[q]
<1>4. \A stage \in {"wake", "await", "begin", "hear", "open", "stream", "close"} : Goes(r, stage) => At(r, stage) /\ Others
  BY TurnFacts DEF At
<1>5. Ends(r) => turn'[r] = NoTurn /\ Others
  BY TurnFacts
<1>6. Opens(r) => Opened(r) /\ Others
  <2>1. SUFFICES ASSUME Opens(r) PROVE Opened(r) /\ Others
    OBVIOUS
  <2>2. captures + 1 \in 1 .. MaxCaptures
    BY <1>0, <2>1 DEF Opens
  <2> QED
    BY <1>0, <2>1, <2>2 DEF Opens, Opened
<1>7. Elsewhere => UNCHANGED server
  BY DEF Elsewhere
<1> HIDE DEF Others
<1>8. [dev EXCEPT !.stop = FALSE].up = dev.up
  BY <1>0 DEF Device
<1>11. CASE TurnWakes(r)
  <2>1. turn[r].stage = "wake" /\ raced' = raced /\ Elsewhere
    BY <1>11 DEF TurnWakes
  <2>2. CASE Sent(<<"wake">>) /\ Goes(r, "await") /\ unended' = FALSE
    BY <1>1, <1>2, <1>4, <1>7, <2>1, <2>2 DEF TurnEffect, Others
  <2>3. CASE Unsent /\ Ends(r) /\ UNCHANGED unended
    BY <1>3, <1>5, <1>7, <2>1, <2>3 DEF TurnEffect, Quietly, Others
  <2> QED
    BY <1>11, <2>2, <2>3 DEF TurnWakes
<1>12. CASE TurnAwaits(r)
  <2>1. turn[r].stage = "await" /\ Elsewhere /\ UNCHANGED <<dev, up, raced, unended>>
    BY <1>12 DEF TurnAwaits, history, mixes
  <2>2. Goes(r, "begin") \/ Ends(r)
    BY <1>12 DEF TurnAwaits
  <2> QED
    BY <1>4, <1>5, <1>7, <2>1, <2>2 DEF TurnEffect, Quietly, Others
<1>13. CASE TurnBegins(r)
  <2>1. turn[r].stage = "begin" /\ Elsewhere /\ UNCHANGED <<raced, unended>>
    BY <1>13 DEF TurnBegins, history, mixes
  <2>2. CASE dev.up /\ up' = Append(up, <<"audio_start">>) /\ dev' = [dev EXCEPT !.stop = FALSE] /\ Opens(r)
    BY <1>1, <1>6, <1>7, <1>8, <2>1, <2>2 DEF TurnEffect, Puts, Others, mixes
  <2>3. CASE Unsent /\ Ends(r)
    BY <1>3, <1>5, <1>7, <2>1, <2>3 DEF TurnEffect, Quietly, Others
  <2>4. CASE Ends(r) /\ UNCHANGED <<dev, up>>
    BY <1>5, <1>7, <2>1, <2>4 DEF TurnEffect, Quietly, Others
  <2> QED
    BY <1>13, <2>2, <2>3, <2>4 DEF TurnBegins
<1>14. CASE TurnHears(r)
  <2>1. turn[r].stage = "hear" /\ Elsewhere /\ UNCHANGED <<up, raced, unended>>
    BY <1>14 DEF TurnHears, history, mixes
  <2>2. (Opens(r) /\ dev' = [dev EXCEPT !.stop = FALSE]) \/ (Ends(r) /\ dev' = dev)
    BY <1>14 DEF TurnHears
  <2> QED
    BY <1>5, <1>6, <1>7, <1>8, <2>1, <2>2 DEF TurnEffect, Quietly, Others
<1>15. CASE TurnOpens(r)
  <2>1. turn[r].stage = "open" /\ Elsewhere /\ unended' = unended
    BY <1>15 DEF TurnOpens
  <2>2. CASE Sent(<<"audio_start">>) /\ Goes(r, "stream") /\ raced' = (raced \/ unended)
    BY <1>1, <1>2, <1>4, <1>7, <2>1, <2>2 DEF TurnEffect, Others
  <2>3. CASE Unsent /\ Goes(r, "close") /\ UNCHANGED raced
    BY <1>3, <1>4, <1>7, <2>1, <2>3 DEF TurnEffect, Quietly, Others
  <2> QED
    BY <1>15, <2>2, <2>3 DEF TurnOpens
<1>16. CASE TurnStreams(r)
  <2>1. turn[r].stage = "stream" /\ turn[r].n < MaxChunks /\ Elsewhere /\ UNCHANGED <<raced, unended>>
    BY <1>16 DEF TurnStreams, mixes
  <2>2. CASE Sent(Chunk(turn[r].of, turn[r].n + 1)) /\ turn' = [turn EXCEPT ![r].n = @ + 1]
    <3>1. turn[r].n + 1 \in 1 .. MaxChunks /\ turn[r].of \in 1 .. MaxCaptures
      BY <1>0, <2>1, VoiceAssumption DEF Turn, Connected
    <3>2. Chunk(turn[r].of, turn[r].n + 1) \in Message
      BY <3>1, MessageFacts
    <3>3. /\ turn'[r].stage = "stream" /\ turn'[r].n = turn[r].n + 1 /\ turn'[r].of = turn[r].of
          /\ \A q \in Starters \ {r} : turn'[q] = turn[q]
      BY <1>0, <2>1, <2>2 DEF Turn
    <3> QED
      BY <1>2, <1>7, <2>1, <2>2, <3>2, <3>3 DEF TurnEffect, mixes
  <2>3. CASE Unsent /\ Goes(r, "close")
    BY <1>3, <1>4, <1>7, <2>1, <2>3 DEF TurnEffect, Quietly, Others
  <2> QED
    BY <1>16, <2>2, <2>3 DEF TurnStreams
<1>17. CASE TurnStops(r)
  <2>1. turn[r].stage = "stream" /\ Elsewhere /\ UNCHANGED <<up, raced, unended>> /\ Goes(r, "close")
    BY <1>17 DEF TurnStops, history, mixes
  <2>2. dev'.up = dev.up
    BY <1>0, <1>17 DEF TurnStops, Device
  <2> QED
    BY <1>4, <1>7, <2>1, <2>2 DEF TurnEffect, Quietly, Others
<1>18. CASE TurnCloses(r)
  <2>1. turn[r].stage = "close" /\ Elsewhere /\ raced' = raced /\ Ends(r)
    BY <1>18 DEF TurnCloses
  <2>2. CASE Sent(<<"audio_end">>) /\ unended' = FALSE
    BY <1>1, <1>2, <1>5, <1>7, <2>1, <2>2 DEF TurnEffect, Others
  <2>3. CASE Unsent /\ unended' = (unended \/ (dev.up /\ turn[r].n > 0))
    BY <1>3, <1>5, <1>7, <2>1, <2>3 DEF TurnEffect, Quietly, Others
  <2> QED
    BY <1>18, <2>2, <2>3 DEF TurnCloses
<1> QED
  BY <1>11, <1>12, <1>13, <1>14, <1>15, <1>16, <1>17, <1>18 DEF TurnStep

\* A turn that starts has sent nothing yet; beside another one it makes a race.
LEMMA StartEffects ==
  ASSUME TypeOK, WakeStarts \/ FollowStarts
  PROVE  /\ UNCHANGED <<dev, up, server, unended>>
         /\ \/ UNCHANGED turn
            \/ \E r \in Starters :
                 /\ turn[r] = NoTurn /\ turn'[r].stage \in {"wake", "hear"} /\ turn'[r].n = 0
                 /\ \A q \in Starters \ {r} : turn'[q] = turn[q] /\ (~raced' => turn[q] = NoTurn)
         /\ ~raced' => ~raced
<1>1. PICK r \in Starters : Starts(r)
  BY DEF WakeStarts, FollowStarts, Starters
<1>2. turn \in [Starters -> Turn] /\ raced \in BOOLEAN
  BY DEF TypeOK
<1>3. UNCHANGED <<dev, up, server, unended>> /\ turn[r] = NoTurn
  BY <1>1 DEF Starts
<1>4. (raced' = raced /\ \A q \in Starters : turn[q] = NoTurn) \/ raced'
  BY <1>1 DEF Starts
<1>5. CASE UNCHANGED turn
  BY <1>2, <1>3, <1>4, <1>5
<1>6. CASE turn' = [turn EXCEPT ![r].stage = IF r = "wake" THEN "wake" ELSE "hear"]
  <2>1. /\ turn'[r].stage \in {"wake", "hear"} /\ turn'[r].n = 0
        /\ \A q \in Starters \ {r} : turn'[q] = turn[q]
    BY <1>2, <1>3, <1>6 DEF Turn, NoTurn
  <2> QED
    BY <1>2, <1>3, <1>4, <2>1
<1> QED
  BY <1>1, <1>5, <1>6 DEF Starts

\* What the device hears, shows or plays changes neither its turns nor the stream.
LEMMA HearEffects ==
  ASSUME TypeOK, Detect \/ PromptEnds \/ Handle
  PROVE  UNCHANGED <<up, server, turn, mixes>> /\ dev'.up = dev.up
<1>1. dev \in Device /\ queue \in Seq(Event) /\ late \in BOOLEAN
  BY DEF TypeOK
<1>2. CASE Detect
  BY <1>1, <1>2, DeviceFacts DEF Detect, history
<1>3. CASE PromptEnds
  BY <1>1, <1>3, DeviceFacts DEF PromptEnds, history
<1>4. CASE Handle
  BY <1>1, <1>4, DeviceFacts, EventFacts DEF Handle, history
<1> QED
  BY <1>2, <1>3, <1>4

\* A connection begins with an empty stream; hello and pings are appended to it.
LEMMA ConnectEffects ==
  ASSUME TypeOK, Connect \/ SendHello \/ Ping
  PROVE  /\ UNCHANGED <<server, turn, mixes>> /\ dev'.up
         /\ up' = up \/ \E m \in Message : m[1] \in {"hello", "ping"} /\ up' = Append(up, m)
         /\ (up' = up \/ dev.up)
<1>1. dev \in Device
  BY DEF TypeOK
<1>2. /\ <<"hello">> \in Message /\ <<"hello">>[1] = "hello"
      /\ <<"ping">> \in Message /\ <<"ping">>[1] = "ping"
  BY MessageFacts DEF Simple
<1>3. CASE Connect
  <2>1. LET d == [dev EXCEPT !.up = TRUE, !.ready = FALSE] IN d \in Device /\ d.up
    BY <1>1 DEF Device
  <2> QED
    BY <1>3, <2>1, DeviceFacts DEF Connect, history
<1>4. CASE SendHello
  BY <1>2, <1>4 DEF SendHello, history
<1>5. CASE Ping
  <2>1. CASE Deafens
    BY <1>5, <2>1, SendFacts DEF Ping
  <2>2. CASE up' = Append(up, <<"ping">>) /\ dev' = dev
    BY <1>2, <1>5, <2>2 DEF Ping
  <2> QED
    BY <1>5, <2>1, <2>2 DEF Ping
<1> QED
  BY <1>3, <1>4, <1>5

-----------------------------------------------------------------------------
(* The session.                                                             *)

LEMMA BreakKeeps ==
  ASSUME Connected, Breaks
  PROVE  Connected' /\ ListensInSession'
  BY DEF Breaks, Connected, ListensInSession, NoSession

\* The session that answers is the one that listened, and a device that is not
\* connected has none.
LEMMA SessionKept == TypeOK /\ Connected /\ ListensInSession /\ [Next]_vars => Connected' /\ ListensInSession'
<1> SUFFICES ASSUME TypeOK, Connected, ListensInSession, [Next]_vars PROVE Connected' /\ ListensInSession'
  OBVIOUS
<1>0. /\ srv \in Session /\ turn \in [Starters -> Turn] /\ dev \in Device /\ handler \in {"recv", "turn"}
  BY DEF TypeOK
<1>1. CASE Connect \/ SendHello \/ Ping
  BY <1>1, ConnectEffects DEF Connected, ListensInSession, server
<1>2. CASE LinkLost \/ Rejected
  BY <1>2, BreakKeeps DEF LinkLost, Rejected
<1>3. CASE Detect \/ PromptEnds \/ Handle
  BY <1>3, HearEffects DEF Connected, ListensInSession, server
<1>4. CASE WakeStarts \/ FollowStarts
  <2>1. UNCHANGED <<dev, up, server>>
    BY <1>4, StartEffects
  <2>2. ASSUME NEW r \in Starters
        PROVE  /\ turn'[r].stage = "open" => turn'[r].n = 0
               /\ turn'[r].stage \in {"open", "stream", "close"} => turn'[r].of \in 1 .. MaxCaptures
    <3>1. turn'[r] = turn[r] \/ turn'[r].stage \in {"wake", "hear"}
      BY <1>4, StartEffects
    <3> QED
      BY <3>1 DEF Connected
  <2> QED
    BY <2>1, <2>2 DEF Connected, ListensInSession, server
<1>5. ASSUME NEW r \in Starters, TurnStep(r)  PROVE Connected' /\ ListensInSession'
  <2>1. /\ UNCHANGED server /\ dev'.up = dev.up /\ \A q \in Starters \ {r} : turn'[q] = turn[q]
        /\ TurnEffect(r)
    BY <1>5, TurnEffects
  <2>2. up' = up \/ dev.up
    BY <2>1 DEF TurnEffect, Puts, Quietly
  <2>3. /\ turn'[r].stage = "open" => turn'[r].n = 0
        /\ turn'[r].stage \in {"open", "stream", "close"} => turn'[r].of \in 1 .. MaxCaptures
    BY <2>1 DEF TurnEffect, At, Opened, NoTurn, Connected
  <2>4. \A q \in Starters :
          /\ turn'[q].stage = "open" => turn'[q].n = 0
          /\ turn'[q].stage \in {"open", "stream", "close"} => turn'[q].of \in 1 .. MaxCaptures
    BY <2>1, <2>3 DEF Connected
  <2> QED
    BY <2>1, <2>2, <2>4 DEF Connected, ListensInSession, server
<1>6. ASSUME Reading  PROVE dev.up /\ handler = "recv" /\ srv.state # "SPEAK" /\ up \in Seq(Message) /\ up # <<>>
  BY <1>0, <1>6 DEF Reading, Connected, TypeOK
<1>7. CASE Hello \/ StartSession \/ BeginCapture \/ TickedOut \/ IngestRefused \/ Ingest \/ FinalizeEmpty
  <2>1. /\ Reading /\ Taken /\ handler' = handler
        /\ \E kind \in Kinds : Answered(kind)
    BY <1>7, AnswerFacts
  <2>2. UNCHANGED <<dev, turn>> /\ dev.up /\ handler = "recv" /\ srv.state # "SPEAK"
    BY <1>6, <2>1 DEF Taken, device
  <2>3. srv'.state # "SPEAK" /\ srv'.open <=> (srv'.state \in {"LISTEN", "WAIT_AUDIO_END", "SPEAK"})
    BY <2>1, <2>2 DEF Answered, Kinds, ListensInSession, Listens
  <2> QED
    BY <2>1, <2>2, <2>3 DEF Connected, ListensInSession
<1>8. CASE FinalizeAudio
  <2>1. /\ Reading /\ Taken /\ handler' = "turn" /\ Listens(srv) /\ srv.blocks # {}
        /\ srv'.state = "SPEAK" /\ srv'.open = srv.open /\ srv'.blocks = srv.blocks
    BY <1>8, FinalFacts
  <2>2. UNCHANGED <<dev, turn>> /\ dev.up
    BY <1>6, <2>1 DEF Taken, device
  <2> QED
    BY <2>1, <2>2 DEF Connected, ListensInSession, Listens
<1>9. CASE CompletePcm
  <2>1. /\ handler = "turn" /\ handler' = "recv" /\ UNCHANGED <<dev, turn, up>>
        /\ (srv'.state = "LISTEN" /\ srv'.open = srv.open) \/ (srv'.state = "IDLE" /\ ~srv'.open)
    BY <1>9, CompleteFacts DEF device
  <2>2. dev.up /\ srv.open
    BY <2>1 DEF Connected, ListensInSession, NoSession
  <2> QED
    BY <2>1, <2>2 DEF Connected, ListensInSession
<1>10. CASE HandlerSends \/ DogSends
  BY <1>10, SentFacts DEF Connected, ListensInSession
<1>11. CASE DogTicks
  <2>1. /\ srv.open /\ srv.state \in {"LISTEN", "WAIT_AUDIO_END"} /\ UNCHANGED <<dev, turn, up, handler>>
        /\ srv'.state = "IDLE" /\ ~srv'.open
    BY <1>11, TickFacts DEF device
  <2>2. dev.up /\ handler # "turn"
    BY <2>1 DEF Connected, NoSession
  <2> QED
    BY <2>1, <2>2 DEF Connected, ListensInSession
<1>12. CASE UNCHANGED vars
  BY <1>12 DEF vars, device, server, Connected, ListensInSession
<1> QED
  BY <1>1, <1>2, <1>3, <1>4, <1>5, <1>7, <1>8, <1>9, <1>10, <1>11, <1>12
     DEF Next, EngineStep, ServerSide, HandlerStep

-----------------------------------------------------------------------------
(* The stream.                                                              *)

LEMMA UnmixedStands ==
  ASSUME Unmixed, UNCHANGED <<up, srv, turn, unended>>
  PROVE  Unmixed'
  BY DEF Unmixed, Alone, Whole, InOrder, Follows, Expects, Listens, Precedes, Delimited, Audio, EndedBy, Capturing, AllEnded

LEMMA UnmixedBreaks ==
  ASSUME Unmixed, Breaks
  PROVE  Unmixed'
<1>1. up' = <<>> /\ srv' = NoSession /\ turn' = turn /\ ~unended'
  BY DEF Breaks
<1>2. Len(up') = 0
  BY <1>1
<1>3. \A c, k : Expects(srv', c, k)
  BY <1>1 DEF Expects, Listens, NoSession
<1>4. InOrder(up', srv', turn')
  BY <1>2, <1>3 DEF InOrder, Follows
<1>5. Delimited(up', srv') /\ AllEnded(up', srv')
  BY <1>1, <1>2 DEF Delimited, AllEnded, Audio, NoSession
<1>6. Alone(turn') /\ Whole(srv')
  BY <1>1 DEF Unmixed, Alone, Whole, NoSession
<1> QED
  BY <1>1, <1>4, <1>5, <1>6 DEF Unmixed

LEMMA UnmixedStarts ==
  ASSUME TypeOK, Unmixed, WakeStarts \/ FollowStarts, ~raced'
  PROVE  Unmixed'
<1>1. UNCHANGED <<up, srv, unended>>
  BY StartEffects DEF server
<1>2. CASE UNCHANGED turn
  BY <1>1, <1>2, UnmixedStands
<1>3. CASE \E r \in Starters :
             /\ turn[r] = NoTurn /\ turn'[r].stage \in {"wake", "hear"} /\ turn'[r].n = 0
             /\ \A q \in Starters \ {r} : turn'[q] = turn[q] /\ (~raced' => turn[q] = NoTurn)
  <2>1. PICK r \in Starters :
             /\ turn[r] = NoTurn /\ turn'[r].stage \in {"wake", "hear"} /\ turn'[r].n = 0
             /\ \A q \in Starters \ {r} : turn'[q] = turn[q] /\ turn[q] = NoTurn
    BY <1>3
  <2>2. \A q \in Starters : turn[q].stage = "none" /\ turn'[q].stage \in {"none", "wake", "hear"}
    BY <2>1 DEF NoTurn
  <2>3. Alone(turn') /\ ~Capturing(turn') /\ ~Capturing(turn)
    BY <2>1, <2>2 DEF Alone, Capturing
  <2>4. InOrder(up', srv', turn')
    BY <1>1, <2>2 DEF Unmixed, InOrder, Follows, Expects, Listens
  <2> QED
    BY <1>1, <2>2, <2>3, <2>4 DEF Unmixed
<1> QED
  BY <1>2, <1>3, StartEffects

LEMMA UnmixedConnects ==
  ASSUME TypeOK, Unmixed, Connect \/ SendHello \/ Ping
  PROVE  Unmixed'
<1>1. UNCHANGED <<srv, turn, unended>>
  BY ConnectEffects DEF server, mixes
<1>2. CASE up' = up
  BY <1>1, <1>2, UnmixedStands
<1>3. CASE \E m \in Message : m[1] \in {"hello", "ping"} /\ up' = Append(up, m)
  <2>1. PICK m \in Message : m[1] \in {"hello", "ping"} /\ up' = Append(up, m)
    BY <1>3
  <2>2. up \in Seq(Message) /\ m[1] \notin {"chunk", "audio_start"}
    BY <2>1 DEF TypeOK
  <2>3. InOrder(up', srv, turn)
    BY <2>1, <2>2, OrderGrows DEF Unmixed, Precedes
  <2>4. Delimited(up', srv)
    BY <2>1, <2>2, DelimitedGrows DEF Unmixed
  <2>5. AllEnded(up, srv) => AllEnded(up', srv)
    BY <2>1, <2>2, EndedGrows
  <2> QED
    BY <1>1, <2>3, <2>4, <2>5 DEF Unmixed
<1> QED
  BY <1>2, <1>3, ConnectEffects

\* A turn that is alone sends what may come where it comes.
LEMMA UnmixedTurns ==
  ASSUME TypeOK, Connected, Unmixed, NEW r \in Starters, TurnStep(r), ~raced'
  PROVE  Unmixed'
<1>1. /\ UNCHANGED server /\ \A q \in Starters \ {r} : turn'[q] = turn[q]
      /\ TurnEffect(r)
  BY TurnEffects
<1>2. srv' = srv /\ up \in Seq(Message) /\ turn[r] \in Turn
  BY <1>1 DEF server, TypeOK
<1>3. turn[r] # NoTurn
  BY <1>1 DEF TurnEffect, NoTurn
<1>4. \A q \in Starters \ {r} : turn[q] = NoTurn /\ turn'[q] = NoTurn
  BY <1>1, <1>3 DEF Unmixed, Alone
<1>5. Alone(turn') /\ Whole(srv')
  BY <1>2, <1>4 DEF Unmixed, Alone
<1>6. /\ \A q \in Starters \ {r} : turn'[q].stage = "none" /\ turn[q].stage = "none"
      /\ Capturing(turn) <=> turn[r].stage \in {"stream", "close"} /\ turn[r].n > 0
      /\ Capturing(turn') <=> turn'[r].stage \in {"stream", "close"} /\ turn'[r].n > 0
  BY <1>4 DEF Capturing, NoTurn
<1>7. SUFFICES /\ InOrder(up', srv, turn') /\ Delimited(up', srv)
               /\ ~Capturing(turn') /\ ~unended' => AllEnded(up', srv)
               /\ turn'[r].stage \in {"await", "begin"} => ~unended'
  BY <1>2, <1>5, <1>6 DEF Unmixed
<1>8. /\ InOrder(up, srv, turn) /\ Delimited(up, srv)
      /\ ~Capturing(turn) /\ ~unended => AllEnded(up, srv)
      /\ turn[r].stage \in {"await", "begin"} => ~unended
  BY DEF Unmixed
<1>9. ASSUME turn'[r].stage # "stream"  PROVE \A q \in Starters : turn'[q].stage # "stream"
  BY <1>6, <1>9
<1>10. ASSUME up' = up, turn'[r].stage # "stream"  PROVE InOrder(up', srv, turn') /\ Delimited(up', srv)
  BY <1>8, <1>9, <1>10 DEF InOrder
<1>11. ASSUME NEW m \in Message, up' = Append(up, m), m[1] # "chunk", turn'[r].stage # "stream"
       PROVE  InOrder(up', srv, turn')
  BY <1>2, <1>8, <1>9, <1>11, OrderGrows
<1>12. ASSUME NEW m \in Message, up' = Append(up, m), m[1] # "audio_start"  PROVE Delimited(up', srv)
  BY <1>2, <1>8, <1>12, DelimitedGrows
<1>13. /\ <<"wake">> \in Message /\ <<"wake">>[1] = "wake"
       /\ <<"audio_start">> \in Message /\ <<"audio_start">>[1] = "audio_start"
       /\ <<"audio_end">> \in Message /\ <<"audio_end">>[1] = "audio_end"
  BY MessageFacts DEF Simple
<1>14. ASSUME up' = Append(up, <<"audio_start">>), AllEnded(up, srv)
       PROVE  Delimited(up', srv) /\ AllEnded(up', srv)
  BY <1>2, <1>8, <1>13, <1>14, DelimitedGrows, EndedGrows
<1>21. CASE turn[r].stage = "wake" /\ Puts(<<"wake">>) /\ At(r, "await") /\ ~unended'
  <2>1. AllEnded(up', srv)
    BY <1>2, <1>13, <1>21, EndedGrows DEF Puts
  <2> QED
    BY <1>11, <1>12, <1>13, <1>21, <2>1 DEF Puts, At
<1>22. CASE turn[r].stage = "await" /\ Quietly /\ At(r, "begin") /\ unended' = unended
  BY <1>6, <1>8, <1>10, <1>22 DEF Quietly, At
<1>23. CASE turn[r].stage = "begin" /\ Puts(<<"audio_start">>) /\ Opened(r) /\ UNCHANGED mixes
  <2>1. AllEnded(up, srv)
    BY <1>6, <1>8, <1>23
  <2> QED
    BY <1>11, <1>13, <1>14, <1>23, <2>1 DEF Puts, Opened
<1>24. CASE turn[r].stage = "hear" /\ Quietly /\ Opened(r) /\ unended' = unended
  BY <1>6, <1>8, <1>10, <1>24 DEF Quietly, Opened
<1>25. CASE turn[r].stage \in {"wake", "await", "begin", "hear"} /\ Quietly /\ turn'[r] = NoTurn /\ unended' = unended
  BY <1>6, <1>8, <1>10, <1>25 DEF Quietly, NoTurn
<1>26. CASE turn[r].stage = "open" /\ Puts(<<"audio_start">>) /\ At(r, "stream") /\ unended' = unended
              /\ raced' = (raced \/ unended)
  <2>1. AllEnded(up, srv)
    BY <1>6, <1>8, <1>26
  <2>2. turn'[r].n = 0 /\ turn'[r].stage = "stream"
    BY <1>26 DEF At, Connected
  <2>3. \A q \in Starters : turn'[q].stage = "stream" => Precedes(<<"audio_start">>, turn'[q].of, turn'[q].n + 1)
    BY <1>6, <1>13, <2>2 DEF Precedes
  <2>4. InOrder(up', srv, turn')
    BY <1>2, <1>8, <1>13, <1>26, <2>3, OrderGrows DEF Puts
  <2> QED
    BY <1>13, <1>14, <1>26, <2>1, <2>2, <2>4 DEF Puts
<1>27. CASE turn[r].stage \in {"open", "stream"} /\ Quietly /\ At(r, "close") /\ unended' = unended
  <2>1. turn[r].stage = "open" => ~(turn[r].n > 0)
    BY DEF Connected
  <2> QED
    BY <1>6, <1>8, <1>10, <1>27, <2>1 DEF Quietly, At
<1>28. CASE turn[r].stage = "stream" /\ Puts(Chunk(turn[r].of, turn[r].n + 1)) /\ UNCHANGED mixes
              /\ turn'[r].stage = "stream" /\ turn'[r].n = turn[r].n + 1 /\ turn'[r].of = turn[r].of
  <2> DEFINE m == Chunk(turn[r].of, turn[r].n + 1)
  <2>1. m \in Message /\ up' = Append(up, m)
    BY <1>28 DEF Puts
  <2>2. m[1] = "chunk" /\ m[2] = turn[r].of /\ m[3] = turn[r].n + 1
    BY DEF Chunk
  <2> HIDE DEF m
  <2>3. Follows(up, srv, Len(up), m[2], m[3])
    BY <1>8, <1>28, <2>2 DEF InOrder
  <2>4. turn'[r].n + 1 = m[3] + 1 /\ turn'[r].of = m[2] /\ turn'[r].n > 0
    BY <1>2, <1>28, <2>2 DEF Turn
  <2>5. \A q \in Starters : turn'[q].stage = "stream" => Precedes(m, turn'[q].of, turn'[q].n + 1)
    BY <1>6, <2>2, <2>4 DEF Precedes
  <2>6. InOrder(up', srv, turn')
    BY <1>2, <1>8, <2>1, <2>3, <2>5, OrderGrows
  <2> QED
    BY <1>6, <1>12, <1>28, <2>1, <2>2, <2>4, <2>6
<1>29. CASE turn[r].stage = "close" /\ Puts(<<"audio_end">>) /\ turn'[r] = NoTurn /\ ~unended'
  <2>1. AllEnded(up', srv)
    BY <1>2, <1>13, <1>29, EndedGrows DEF Puts
  <2> QED
    BY <1>11, <1>12, <1>13, <1>29, <2>1 DEF Puts, NoTurn
<1>30. CASE turn[r].stage = "close" /\ Quietly /\ turn'[r] = NoTurn /\ unended' = (unended \/ (dev.up /\ turn[r].n > 0))
  <2>1. CASE ~dev.up
    <3>1. Len(up) = 0 /\ srv.state = "none"
      BY <2>1 DEF Connected, NoSession
    <3>2. AllEnded(up, srv)
      BY <3>1 DEF AllEnded, Audio
    <3> QED
      BY <1>10, <1>30, <3>2 DEF Quietly, NoTurn
  <2>2. CASE dev.up
    <3>1. turn'[r].stage = "none" /\ up' = up
      BY <1>30 DEF Quietly, NoTurn
    <3>2. InOrder(up', srv, turn') /\ Delimited(up', srv)
      BY <1>10, <3>1
    <3>3. unended' <=> unended \/ turn[r].n > 0
      BY <1>30, <2>2
    <3>4. ~unended' => AllEnded(up, srv)
      BY <1>6, <1>8, <3>3
    <3> QED
      BY <3>1, <3>2, <3>4
  <2> QED
    BY <2>1, <2>2 DEF TypeOK, Device
<1> QED
  BY <1>1, <1>21, <1>22, <1>23, <1>24, <1>25, <1>26, <1>27, <1>28, <1>29, <1>30 DEF TurnEffect

\* The server takes the first message, and what follows it is what the session expects.
LEMMA UnmixedTaken ==
  ASSUME TypeOK, Unmixed, up # <<>>, up' = Tail(up), UNCHANGED <<turn, unended>>,
         \A c, k : Precedes(up[1], c, k) => Expects(srv', c, k), WaitsOn(up, srv, srv'), Whole(srv')
  PROVE  Unmixed'
<1>1. up \in Seq(Message)
  BY DEF TypeOK
<1>2. InOrder(Tail(up), srv', turn)
  BY <1>1, OrderShrinks DEF Unmixed
<1>3. Delimited(Tail(up), srv') /\ (AllEnded(up, srv) => AllEnded(Tail(up), srv'))
  BY <1>1, EndsShrink DEF Unmixed
<1>4. turn' = turn /\ unended' = unended
  OBVIOUS
<1> QED
  BY <1>2, <1>3, <1>4 DEF Unmixed

\* The first chunk under way is the next one of the capture that the server has.
LEMMA NextStored ==
  ASSUME TypeOK, Unmixed, up # <<>>, up[1][1] = "chunk", Listens(srv)
  PROVE  LET c == up[1][2] k == up[1][3] IN
           /\ c \in 1 .. MaxCaptures /\ k \in 1 .. MaxChunks
           /\ srv.blocks \cup {<<c, k>>} = {c} \X (1 .. k)
<1> DEFINE c == up[1][2]
           k == up[1][3]
<1>1. up \in Seq(Message) /\ 1 \in 1 .. Len(up) /\ up[1] \in Message
  BY Shrunk DEF TypeOK
<1>2. c \in 1 .. MaxCaptures /\ k \in 1 .. MaxChunks
  BY <1>1, MessageFacts
<1>3. Follows(up, srv, 1 - 1, c, k)
  BY <1>1 DEF Unmixed, InOrder
<1>4. srv.blocks = {c} \X (1 .. k - 1)
  BY <1>3 DEF Follows, Expects
<1> HIDE DEF c, k
<1>5. 1 .. k = (1 .. k - 1) \cup {k}
  BY <1>2, VoiceAssumption
<1>6. {c} \X (1 .. k) = ({c} \X (1 .. k - 1)) \cup {<<c, k>>}
  BY <1>5
<1> QED
  BY <1>2, <1>4, <1>6 DEF c, k

\* Every message that the handler takes.
LEMMA UnmixedTakes ==
  ASSUME TypeOK, Connected, ListensInSession, Unmixed,
         \/ Hello \/ StartSession \/ BeginCapture \/ TickedOut \/ IngestRefused \/ Ingest \/ FinalizeEmpty
         \/ FinalizeAudio
  PROVE  Unmixed'
<1>1. Reading /\ Taken /\ ((\E kind \in Kinds : Answered(kind)) \/ FinalizeAudio)
  BY AnswerFacts, FinalFacts
<1>2. up # <<>> /\ up' = Tail(up) /\ UNCHANGED <<turn, unended>> /\ srv.state # "SPEAK"
  BY <1>1 DEF Reading, Taken, device, history, mixes, Connected
<1>3. srv.state = "WAIT_AUDIO_END" => Listens(srv)
  BY DEF ListensInSession, Listens
<1>4. Whole(srv)
  BY DEF Unmixed
<1>5. SUFFICES /\ \A c, k : Precedes(up[1], c, k) => Expects(srv', c, k)
               /\ WaitsOn(up, srv, srv') /\ Whole(srv')
  BY <1>2, UnmixedTaken
<1>6. ASSUME srv'.state = "IDLE", srv'.blocks = {}
      PROVE  (\A c, k : Expects(srv', c, k)) /\ WaitsOn(up, srv, srv') /\ Whole(srv')
  BY <1>6 DEF Expects, Listens, WaitsOn, Whole
<1>7. ASSUME srv'.state = "LISTEN", srv'.blocks = {}
      PROVE  WaitsOn(up, srv, srv') /\ Whole(srv')
  BY <1>7 DEF WaitsOn, Whole
<1>8. ASSUME srv' = srv, srv.state # "WAIT_AUDIO_END", ~Listens(srv)
      PROVE  (\A c, k : Expects(srv', c, k)) /\ WaitsOn(up, srv, srv') /\ Whole(srv')
  BY <1>2, <1>4, <1>8 DEF Expects, WaitsOn
<1>9. ASSUME up[1][1] \in {"wake", "audio_end"}  PROVE \A c, k : ~Precedes(up[1], c, k)
  BY <1>9 DEF Precedes
<1>11. CASE Answered("hello") \/ Answered("late")
  BY <1>6, <1>11 DEF Answered
<1>12. CASE Answered("wake")
  BY <1>7, <1>9, <1>12 DEF Answered
<1>13. CASE Answered("start")
  <2>1. up[1][1] = "audio_start"
    BY <1>13 DEF Answered
  <2>2. \A c, k : Precedes(up[1], c, k) => k = 1
    BY <2>1 DEF Precedes
  <2>3. CASE srv' = srv /\ srv.state # "LISTEN"
    <3>1. up \in Seq(Message) /\ 1 \in 1 .. Len(up) /\ 0 \in 0 .. 1 - 1
      BY <1>2, Shrunk DEF TypeOK
    <3>2. Audio(up, srv, 0) => EndedBy(up, 0, 1)
      BY <2>1, <3>1 DEF Unmixed, Delimited
    <3>3. ~EndedBy(up, 0, 1)
      BY <2>1 DEF EndedBy
    <3>4. srv.state # "WAIT_AUDIO_END"
      BY <3>2, <3>3 DEF Audio
    <3> QED
      BY <1>8, <2>3, <3>4 DEF Listens
  <2>4. CASE srv'.state = "LISTEN" /\ srv'.open = srv.open /\ srv'.blocks = {}
    <3>1. \A c : {} = {c} \X (1 .. 1 - 1)
      OBVIOUS
    <3>2. \A c : Expects(srv', c, 1)
      BY <2>4, <3>1 DEF Expects
    <3> QED
      BY <1>7, <2>2, <2>4, <3>2
  <2> QED
    BY <1>13, <2>3, <2>4 DEF Answered
<1>14. CASE Answered("refuse")
  BY <1>3, <1>8, <1>14 DEF Answered
<1>15. CASE Answered("store")
  <2> DEFINE c == up[1][2]
             k == up[1][3]
  <2>1. /\ up[1][1] = "chunk" /\ Listens(srv) /\ srv'.state \in {srv.state, "WAIT_AUDIO_END"}
        /\ srv'.blocks = srv.blocks \cup {<<c, k>>}
    BY <1>15 DEF Answered
  <2>2. c \in 1 .. MaxCaptures /\ k \in 1 .. MaxChunks /\ srv'.blocks = {c} \X (1 .. k)
    BY <1>2, <2>1, NextStored
  <2>3. ASSUME NEW c2, NEW k2, Precedes(up[1], c2, k2)  PROVE Expects(srv', c2, k2)
    <3>1. c2 = c /\ k2 = k + 1
      BY <2>1, <2>3 DEF Precedes
    <3>2. k2 - 1 = k
      BY <2>2, <3>1, VoiceAssumption
    <3>3. srv'.state # "SPEAK"
      BY <1>2, <2>1
    <3> QED
      BY <2>2, <3>1, <3>2, <3>3 DEF Expects
  <2>4. WaitsOn(up, srv, srv') /\ Whole(srv')
    BY <2>1, <2>2 DEF WaitsOn, Whole
  <2> QED
    BY <2>3, <2>4
<1>16. CASE Answered("empty")
  <2>1. CASE srv' = srv /\ ~Listens(srv)
    BY <1>3, <1>8, <2>1
  <2>2. CASE srv'.state = "LISTEN" /\ srv'.blocks = {}
    BY <1>7, <1>9, <1>16, <2>2 DEF Answered
  <2> QED
    BY <1>16, <2>1, <2>2 DEF Answered
<1>17. CASE FinalizeAudio
  <2>1. up[1][1] = "audio_end" /\ srv'.state = "SPEAK" /\ srv'.blocks = srv.blocks
    BY <1>17, FinalFacts
  <2> QED
    BY <1>4, <1>9, <2>1 DEF WaitsOn, Whole
<1> QED
  BY <1>1, <1>11, <1>12, <1>13, <1>14, <1>15, <1>16, <1>17 DEF Kinds

\* A session that ends, or that listens again after a turn of the agent, expects what it
\* expected and waits for no end.
LEMMA UnmixedMoves ==
  ASSUME TypeOK, Connected, Unmixed, CompletePcm \/ DogTicks
  PROVE  Unmixed'
<1>1. UNCHANGED <<up, turn, unended>>
  BY CompleteFacts, TickFacts DEF device, history, mixes
<1>2. srv'.state \in {"IDLE", "LISTEN"} /\ srv'.blocks = {} /\ \A c, k : Expects(srv, c, k) => Expects(srv', c, k)
  <2>1. CASE CompletePcm
    <3>1. handler = "turn" /\ srv'.state \in {"IDLE", "LISTEN"} /\ srv'.blocks = {}
      BY <2>1, CompleteFacts
    <3>2. srv.state = "SPEAK"
      BY <3>1 DEF Connected
    <3> QED
      BY <3>1, <3>2 DEF Expects
  <2>2. CASE DogTicks
    <3>1. srv'.state = "IDLE" /\ srv'.blocks = {}
      BY <2>2, TickFacts
    <3> QED
      BY <3>1 DEF Expects, Listens
  <2> QED
    BY <2>1, <2>2
<1>3. \A i, c, k : Follows(up, srv, i, c, k) => Follows(up, srv', i, c, k)
  BY <1>2 DEF Follows
<1>4. InOrder(up, srv', turn)
  BY <1>3 DEF Unmixed, InOrder
<1>5. \A i : Audio(up, srv', i) => Audio(up, srv, i)
  BY <1>2 DEF Audio
<1>6. Delimited(up, srv') /\ (AllEnded(up, srv) => AllEnded(up, srv'))
  BY <1>5 DEF Unmixed, Delimited, AllEnded
<1>7. Whole(srv')
  BY <1>2 DEF Whole
<1>8. up' = up /\ turn' = turn /\ unended' = unended
  BY <1>1
<1> QED
  BY <1>4, <1>6, <1>7, <1>8 DEF Unmixed

\* What two turns that ran at once have mixed stays mixed; otherwise every step keeps the
\* stream in order.
LEMMA UnmixedKept == IInv /\ [Next]_vars /\ ~raced' => ~raced /\ Unmixed'
<1> SUFFICES ASSUME IInv, [Next]_vars, ~raced' PROVE ~raced /\ Unmixed'
  OBVIOUS
<1>0. TypeOK /\ Connected /\ ListensInSession /\ (~raced => Unmixed)
  BY DEF IInv
<1>1. CASE Connect \/ SendHello \/ Ping
  <2>1. UNCHANGED mixes
    BY <1>0, <1>1, ConnectEffects
  <2>2. ~raced
    BY <2>1 DEF mixes
  <2> QED
    BY <1>0, <1>1, <2>2, UnmixedConnects
<1>2. CASE LinkLost \/ Rejected
  <2>1. Breaks
    BY <1>2 DEF LinkLost, Rejected
  <2>2. ~raced
    BY <2>1 DEF Breaks
  <2> QED
    BY <1>0, <2>1, <2>2, UnmixedBreaks
<1>3. CASE Detect \/ PromptEnds \/ Handle
  BY <1>0, <1>3, HearEffects, UnmixedStands DEF mixes, server
<1>4. CASE WakeStarts \/ FollowStarts
  BY <1>0, <1>4, UnmixedStarts DEF WakeStarts, FollowStarts, Starts
<1>5. ASSUME NEW r \in Starters, TurnStep(r)  PROVE ~raced /\ Unmixed'
  <2>1. TurnEffect(r)
    BY <1>0, <1>5, TurnEffects
  <2>2. ~raced
    BY <2>1 DEF TurnEffect, Quietly, mixes
  <2> QED
    BY <1>0, <1>5, <2>2, UnmixedTurns
<1>6. CASE Hello \/ StartSession \/ BeginCapture \/ TickedOut \/ IngestRefused \/ Ingest \/ FinalizeEmpty
           \/ FinalizeAudio
  <2>1. Taken
    BY <1>0, <1>6, AnswerFacts, FinalFacts
  <2> QED
    BY <1>0, <1>6, <2>1, UnmixedTakes DEF Taken, history, mixes
<1>7. CASE CompletePcm \/ DogTicks
  BY <1>0, <1>7, CompleteFacts, TickFacts, UnmixedMoves DEF history, mixes
<1>8. CASE HandlerSends \/ DogSends
  BY <1>0, <1>8, SentFacts, UnmixedStands DEF mixes
<1>9. CASE UNCHANGED vars
  BY <1>0, <1>9, UnmixedStands DEF vars, device, server, history, mixes
<1> QED
  BY <1>1, <1>2, <1>3, <1>4, <1>5, <1>6, <1>7, <1>8, <1>9 DEF Next, EngineStep, ServerSide, HandlerStep

-----------------------------------------------------------------------------
(* Theorems.                                                                *)

LEMMA InitIInv == Init => IInv
<1> SUFFICES ASSUME Init PROVE IInv
  OBVIOUS
<1>1. TypeOK
  <2>1. <<>> \in Seq(Message) /\ <<>> \in Seq(Event)
    BY EmptySeq
  <2>2. NoTurn \in Turn /\ NoSession \in Session
    BY VoiceAssumption DEF NoTurn, Turn, NoSession, Session
  <2>3. dev \in Device
    BY DEF Init, Device
  <2>4. captures \in 0 .. MaxCaptures /\ faults \in 0 .. MaxFaults
    BY VoiceAssumption DEF Init
  <2> QED
    BY <2>1, <2>2, <2>3, <2>4 DEF Init, TypeOK
<1>2. \A r \in Starters : turn[r] = NoTurn /\ turn[r].stage = "none"
  BY DEF Init, NoTurn
<1>3. srv = NoSession /\ srv.state = "none" /\ ~srv.open /\ srv.blocks = {} /\ up = <<>> /\ Len(up) = 0
  BY DEF Init, NoSession
<1>4. Connected /\ ListensInSession
  BY <1>2, <1>3 DEF Init, Connected, ListensInSession
<1>5. InOrder(up, srv, turn) /\ Delimited(up, srv) /\ AllEnded(up, srv)
  BY <1>2, <1>3 DEF InOrder, Delimited, AllEnded, Audio
<1>6. Alone(turn) /\ Whole(srv)
  BY <1>2, <1>3 DEF Alone, Whole
<1> QED
  BY <1>1, <1>2, <1>4, <1>5, <1>6 DEF IInv, Unmixed

LEMMA IInvKept == IInv /\ [Next]_vars => IInv'
  BY TypesKept, SessionKept, UnmixedKept DEF IInv

\* Whatever is lost, dropped or late between a satellite and the server, the stream that
\* goes up stays in order unless two turns of the device start at once or an end that was
\* not sent is followed by a capture without the wake word (voice_turn.c,
\* remote_server.py).
THEOREM SessionInvariant == Spec => []IInv
  BY InitIInv, IInvKept, PTL DEF Spec

\* Every message, event, turn and session is one that the two programs know
\* (protocol.c, remote_server.py).
THEOREM TypeCorrect == Spec => []TypeOK
<1>1. IInv => TypeOK
  BY DEF IInv
<1> QED
  BY <1>1, SessionInvariant, PTL

\* What finalize_capture gives to the transcription is one capture without a hole, for
\* any number of captures and chunks (remote_server.py).
THEOREM CapturesStayApart == Spec => []OneCapture
<1>1. IInv => OneCapture
  BY DEF IInv, Unmixed, Whole, Connected, OneCapture
<1> QED
  BY <1>1, SessionInvariant, PTL

\* tick and close_session never take the id of a session away under a turn, and a
\* session that listens has one (remote_server.py).
THEOREM AnswersListen == Spec => []ListensInSession
<1>1. IInv => ListensInSession
  BY DEF IInv
<1> QED
  BY <1>1, SessionInvariant, PTL
=============================================================================
