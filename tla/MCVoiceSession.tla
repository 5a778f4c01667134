----------------------------- MODULE MCVoiceSession -----------------------------
(* Two utterances of up to two chunks, one fault.                              *)
EXTENDS VoiceSession
=============================================================================
