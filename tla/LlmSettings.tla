---------------------------- MODULE LlmSettings ----------------------------
(***************************************************************************)
(* The settings of the language model: in memory                           *)
(* (OpenAICompatibleModelProvider, defaults/models.py), in Redis           *)
(* (RedisLlmSettingsStore, defaults/redis_llm.py), and the handlers of     *)
(* /settings/llm and of the start of the API (api/app.py) between them.    *)
(*                                                                         *)
(* The settings in memory change at once; Redis is told after an await.    *)
(* model is treated as base_url is.                                        *)
(***************************************************************************)
EXTENDS FiniteSets

CONSTANTS
  Values,     \* what a field may be set to
  Empty,      \* ""
  NoValue,    \* None: a field a request or the store does not have
  Environment,\* a field's value from LLM_* or Infisical
  Savers      \* requests served at the same time

ASSUME LlmSettingsAssumption ==
  Environment \in Values /\ {Empty, NoValue} \cap Values = {} /\ Empty # NoValue

Fields == {"base_url", "api_key"}

VARIABLES
  config,   \* _config
  stored,   \* the hash in Redis
  saving,   \* per request, the settings it has still to save
  in_doubt  \* history: the fields that Redis may know otherwise

settingsVars == <<config, stored, saving, in_doubt>>

Settable == Values \cup {Empty}

Unset == [f \in Fields |-> NoValue]

SettingsTypeOK ==
  /\ config \in [Fields -> Settable]
  /\ stored \in [Fields -> Settable \cup {NoValue}]
  /\ saving \in [Savers -> [Fields -> Settable \cup {NoValue}]]
  /\ in_doubt \subseteq Fields

SettingsInit ==
  /\ config = [f \in Fields |-> Environment]
  /\ stored = Unset
  /\ saving = [s \in Savers |-> Unset]
  /\ in_doubt = {}

Given(settings) == {f \in Fields : settings[f] # NoValue}

Pending(f) == \E s \in Savers : f \in Given(saving[s])

\* configure(): an empty base_url changes nothing, an empty api_key is one.
Configured(settings) == [f \in Fields |->
  IF settings[f] = NoValue \/ (f = "base_url" /\ settings[f] = Empty)
  THEN config[f] ELSE settings[f]]

\* POST /settings/llm.
Configure(s, settings) ==
  /\ saving[s] = Unset /\ settings # Unset
  /\ config' = Configured(settings)
  /\ saving' = [saving EXCEPT ![s] = settings]
  /\ in_doubt' = (in_doubt \ Given(settings)) \cup
       {f \in Given(settings) : Pending(f) \/ (f = "base_url" /\ settings[f] = Empty)}
  /\ UNCHANGED stored

\* Fault: the hash is replaced, not added to.
Replaced(settings) == settings

\* save(): the fields that are there, one HSET.
Saved(settings) == [f \in Fields |->
  IF f \in Given(settings) THEN settings[f] ELSE stored[f]]

SaveSettings(s) ==
  /\ saving[s] # Unset
  /\ stored' = Saved(saving[s])
  /\ saving' = [saving EXCEPT ![s] = Unset]
  /\ UNCHANGED <<config, in_doubt>>

\* Redis cannot be reached; the request succeeds all the same.
SaveSettingsFails(s) ==
  /\ saving[s] # Unset
  /\ saving' = [saving EXCEPT ![s] = Unset]
  /\ in_doubt' = in_doubt \cup Given(saving[s])
  /\ UNCHANGED <<config, stored>>

\* reload_from_store(): what Redis has, over the environment.
Reloaded == [f \in Fields |-> IF stored[f] = NoValue THEN Environment ELSE stored[f]]

\* The API is started again; Redis may be out of reach then.
RestartApi ==
  /\ \/ config' = Reloaded /\ in_doubt' = {}
     \/ config' = [f \in Fields |-> Environment] /\ in_doubt' = Fields
  /\ saving' = [s \in Savers |-> Unset]
  /\ UNCHANGED stored

SettingsNext ==
  \/ RestartApi
  \/ \E s \in Savers :
       \/ SaveSettings(s) \/ SaveSettingsFails(s)
       \/ \E settings \in [Fields -> Settable \cup {NoValue}] : Configure(s, settings)

SettingsSpec == SettingsInit /\ [][SettingsNext]_settingsVars

-----------------------------------------------------------------------------
(* Properties.                                                             *)

\* Settings "persist across API restarts and are re-applied on startup"
\* (README.md:217): a restart would change no field, but one that requests set
\* at the same time or asked to be empty, or whose saving is under way or
\* failed (set_llm_settings, configure, save, reload_from_store).
SettingsSurvive ==
  \A f \in Fields : f \notin in_doubt /\ ~ Pending(f) => config[f] = Reloaded[f]

=============================================================================
