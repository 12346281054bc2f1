---------------------------- MODULE OpenAiEvents ----------------------------
(***************************************************************************)
(* OpenAiRealtimeSession._to_event in providers/realtime/openai_provider:  *)
(* what an event of the provider is to the rest of the service.  A raw     *)
(* event is its type, and whether the field that carries its content is a  *)
(* string (of audio: of valid base64).                                     *)
(***************************************************************************)

RealtimeEventTypes ==
    {"audio_delta", "transcript_delta", "transcript_completed", "speech_started",
     "speech_stopped", "response_completed", "error"}

\* "none" is an event that nobody is told of.
ToEvent(raw) ==
    CASE raw.type = "response.output_audio.delta" -> "audio_delta"
      [] raw.type = "response.output_audio_transcript.delta" -> "transcript_delta"
      [] raw.type = "response.output_text.delta" -> "transcript_delta"
      [] raw.type = "conversation.item.input_audio_transcription.completed" -> "transcript_completed"
      [] raw.type = "input_audio_buffer.speech_started" -> "speech_started"
      [] raw.type = "input_audio_buffer.speech_stopped" -> "speech_stopped"
      [] raw.type = "response.done" -> "response_completed"
      [] raw.type = "error" -> "error"
      [] OTHER -> "none"

\* An event whose content is missing raises ProviderResponseError.
Malformed(raw) ==
    ~raw.valid /\ ToEvent(raw) \in {"audio_delta", "transcript_delta", "transcript_completed"}

=============================================================================
