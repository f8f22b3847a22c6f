------------------------------ MODULE Protocol ------------------------------
(***************************************************************************)
(* The vocabulary clients and daemon share: the commands with the          *)
(* arguments each must and may carry, the payloads that carry them, and    *)
(* the error codes with the exit status each stands for                    *)
(* (ipc/protocol.rs, server/command_args.rs, domain/errors.rs); and the    *)
(* requests the daemon makes of OBS (obs/requests.rs).                     *)
(***************************************************************************)
EXTENDS Names

CONSTANTS
  MaxHidden,   \* MAX_HIDDEN_SCENES_PER_PROFILE, in daemon and client alike
  MaxTopics    \* MAX_SUBSCRIBE_TOPICS

ASSUME ProtocolAssumption == MaxHidden \in Nat /\ MaxTopics \in Nat \ {0}

-----------------------------------------------------------------------------
(* Commands *)

Target  == {"target"}
Nothing == {}

\* What a payload for each command must carry.
Required ==
  [c \in {"set_scene", "set_profile", "set_scene_collection", "mute", "unmute", "toggle_mute",
          "set_scene_profile", "delete_scene_profile"} |-> Target]
  @@ "set_volume" :> {"target", "percent"}
  @@ "save_scene_profile" :> {"target", "hidden"}
  @@ [c \in {"ping", "get_server_status", "get_obs_status", "get_snapshot", "validate_config",
             "reload_config", "reconnect_obs", "shutdown_server", "dump_config", "toggle_stream",
             "toggle_record", "clear_scene_profile", "list_scene_profiles"} |-> Nothing]
\* What it may carry besides.
Optional == [c \in DOMAIN Required |->
               IF c = "save_scene_profile" THEN {"rename_from"} ELSE Nothing]

\* CommandPayload: a name and arguments by key; `null` has no keys.
Simple(name)             == [name |-> name, args |-> << >>]
WithTarget(name, target) == [name |-> name, args |-> [target |-> target]]
SetVolume(target, percent) ==
  [name |-> "set_volume", args |-> [target |-> target, percent |-> percent]]
SaveSceneProfile(target, hidden, from) ==
  [name |-> "save_scene_profile",
   args |-> IF from = None THEN [target |-> target, hidden |-> hidden]
            ELSE [target |-> target, hidden |-> hidden, rename_from |-> from]]

\* validate_payload, which the daemon asks of every payload first.
ValidatePayload(payload) ==
  /\ payload.name \in DOMAIN Required
  /\ DOMAIN payload.args \subseteq Required[payload.name] \union Optional[payload.name]
  /\ Required[payload.name] \subseteq DOMAIN payload.args

\* required_string and required_u8_percentage accept the argument under `key`.
RequiredString(args, key)     == key \in DOMAIN args /\ Usable(args[key])
RequiredPercentage(args, key) == key \in DOMAIN args /\ args[key] \in 0 .. 100
OptionalString(args, key)     == key \in DOMAIN args => Usable(args[key])
RequiredStringArray(args, key) ==
  /\ key \in DOMAIN args /\ Len(args[key]) <= MaxHidden
  /\ \A i \in DOMAIN args[key] : Usable(args[key][i])

\* The names an accepted array holds: of those that differ in case the first.
StringArray(list) ==
  {Trim(list[i]) : i \in {i \in DOMAIN list :
                            \A j \in 1 .. i - 1 : NormalizedName(list[j]) # NormalizedName(list[i])}}

-----------------------------------------------------------------------------
(* Subscriptions *)

Topic == {"state", "events", "logs"}

\* The topics of an acceptable list, each once, in the order asked for: a set of
\* one list, or of none.
NormalizeSubscribeTopics(topics) ==
  IF Len(topics) \in 1 .. MaxTopics /\ ToSet(topics) \subseteq Topic
  THEN {FoldLeft(LAMBDA kept, t : IF Contains(kept, t) THEN kept ELSE Append(kept, t), << >>, topics)}
  ELSE {}
Subscribe(topics) == [name |-> "subscribe", args |-> [topics |-> topics]]

-----------------------------------------------------------------------------
(* Requests to OBS *)

\* validate_name, named_request: by the trimmed name, if it is usable.
NamedRequest(request, name) ==
  IF Usable(name) THEN [request |-> request, name |-> Trim(name)] ELSE Failure("ObsRequestFailed")
With(request, value) ==
  IF Failed(request) THEN request
  ELSE [request |-> request.request, name |-> request.name, value |-> value]

SetCurrentProgramScene(name)    == NamedRequest("SetCurrentProgramScene", name)
ToggleInputMute(name)           == NamedRequest("ToggleInputMute", name)
SetInputMute(name, muted)       == With(NamedRequest("SetInputMute", name), muted)
SetInputVolume(name, mul)       == With(NamedRequest("SetInputVolume", name), mul)
SetCurrentProfile(name)         == NamedRequest("profile", name)
SetCurrentSceneCollection(name) == NamedRequest("collection", name)
ToggleStream == [request |-> "ToggleStream"]
ToggleRecord == [request |-> "ToggleRecord"]

-----------------------------------------------------------------------------
(* Errors *)

\* PublicErrorCode::from_obsctl_error
PublicErrorCode(error) ==
  CASE error \in {"ConfigNotFound", "ConfigInvalid"} -> "CONFIG_INVALID"
    [] error \in {"ServerUnavailable", "IpcConnectionFailed"} -> "SERVER_UNAVAILABLE"
    [] error \in {"ConnectionFailed", "AuthenticationFailed", "ObsUnavailable"} -> "OBS_UNAVAILABLE"
    [] error = "IpcProtocolError"        -> "IPC_PROTOCOL_ERROR"
    [] error = "IpcTimeout"              -> "IPC_TIMEOUT"
    [] error = "RequestTimeout"          -> "REQUEST_TIMEOUT"
    [] error = "ObsRequestFailed"        -> "OBS_REQUEST_FAILED"
    [] error = "SceneNotFound"           -> "SCENE_NOT_FOUND"
    [] error = "AudioInputNotFound"      -> "AUDIO_INPUT_NOT_FOUND"
    [] error = "ProfileNotFound"         -> "PROFILE_NOT_FOUND"
    [] error = "SceneCollectionNotFound" -> "SCENE_COLLECTION_NOT_FOUND"
    [] error = "AliasAmbiguous"          -> "ALIAS_AMBIGUOUS"
    [] error = "CommandParseError"       -> "COMMAND_PARSE_ERROR"
    [] error = "ShutdownDisabled"        -> "SHUTDOWN_DISABLED"
    [] error \in {"DumpConfigFailed", "ServiceInstallFailed", "Io"} -> "SERVER_ERROR"

ObsCodes == {"OBS_UNAVAILABLE", "REQUEST_TIMEOUT", "OBS_REQUEST_FAILED", "SCENE_NOT_FOUND",
             "AUDIO_INPUT_NOT_FOUND", "PROFILE_NOT_FOUND", "SCENE_COLLECTION_NOT_FOUND"}

\* mutant: a daemon that did not answer in time counts as one that was not there.
TimeoutIsAbsence(code) ==
  CASE code = "CONFIG_INVALID" -> 2
    [] code \in {"SERVER_UNAVAILABLE", "IPC_TIMEOUT"} -> 3
    [] code \in ObsCodes -> 4
    [] code = "COMMAND_PARSE_ERROR" -> 5
    [] code = "IPC_PROTOCOL_ERROR" -> 6
    [] OTHER -> 1

\* ERROR_CODES, exit_code_for_public_error_code: the exit status of a proxy
\* command that was given the code, 1 also for one this client does not know.
ExitCodeFor(code) ==
  CASE code = "CONFIG_INVALID" -> 2
    [] code = "SERVER_UNAVAILABLE" -> 3
    [] code \in ObsCodes -> 4
    [] code = "COMMAND_PARSE_ERROR" -> 5
    [] code \in {"IPC_TIMEOUT", "IPC_PROTOCOL_ERROR"} -> 6
    [] OTHER -> 1
=============================================================================
