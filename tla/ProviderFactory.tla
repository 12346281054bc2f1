--------------------------- MODULE ProviderFactory ---------------------------
(***************************************************************************)
(* providers/split_pipeline/factory.py and models.py: which settings the   *)
(* factory builds a bundle of providers for.  A model or a voice is a      *)
(* value, the options of the synthesis are their names.                    *)
(***************************************************************************)

\* The registrations of create_openai_factory; of the ten voices, two.
OpenAiFactory ==
    [openai |->
        [provider |-> "openai",
         llm_model |-> {"gpt-5-mini", "gpt-5.5"},
         stt_model |-> {"gpt-4o-mini-transcribe", "gpt-4o-transcribe"},
         tts_voice_id |-> {"alloy", "verse"},
         tts_options |-> {"speed", "instructions"}]]

\* The registration of create_fake_factory.
FakeFactory ==
    [fake |->
        [provider |-> "fake",
         llm_model |-> {"fake-llm"},
         stt_model |-> {"fake-stt"},
         tts_voice_id |-> {"fake-voice"},
         tts_options |-> {"speed", "instructions"}]]

\* create_split_pipeline_evaluation_service: the factories it knows; any other
\* name is refused before there is an evaluation.
FactoryOf == [fake |-> FakeFactory, openai |-> OpenAiFactory]

\* create_provider_settings of the notebook.
NotebookSettings(provider) ==
    IF provider = "fake"
    THEN [provider |-> "fake", llm_model |-> "fake-llm", stt_model |-> "fake-stt",
          tts_voice_id |-> "fake-voice", tts_options |-> {"speed"}]
    ELSE [provider |-> "openai", llm_model |-> "gpt-5-mini",
          stt_model |-> "gpt-4o-mini-transcribe", tts_voice_id |-> "alloy",
          tts_options |-> {"speed"}]

UnsupportedSettings(capabilities, settings) ==
    {field \in {"llm_model", "stt_model", "tts_voice_id"} :
        settings[field] \notin capabilities[field]}
    \cup (settings.tts_options \ capabilities.tts_options)

Known(registrations, settings) ==
    /\ settings.provider \in DOMAIN registrations
    /\ registrations[settings.provider].provider = settings.provider

\* create: what it raises, or "built".
Create(registrations, settings) ==
    CASE ~Known(registrations, settings) -> "UnsupportedProviderError"
      [] Known(registrations, settings) ->
            IF UnsupportedSettings(registrations[settings.provider], settings) = {}
            THEN "built"
            ELSE "UnsupportedProviderSettingError"

=============================================================================
