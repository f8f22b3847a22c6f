----------------------------- MODULE Commands ------------------------------
(***************************************************************************)
(* One command from the keys that spell it to the exit status that reports *)
(* it: a palette line, perhaps completed from what the snapshot lists, or  *)
(* a subcommand of the CLI; the payload; the daemon's checks and its       *)
(* resolution of the target; the request to OBS; the answer                *)
(* (server/command_executor.rs, cli/client_commands.rs, tui/daemon.rs),    *)
(* while OBS, the config and the snapshot go on changing (Catalogue).      *)
(* Saving a scene profile from the editor may take two commands.           *)
(*                                                                         *)
(* ConfigFile has what the commands that edit the config do to the file,   *)
(* and dump_config.                                                        *)
(***************************************************************************)
EXTENDS Catalogue

CONSTANTS
  Lines,        \* what may be typed into the palette
  Begun,        \* what may be typed there and then completed
  Percentage,   \* how a completed volume line is finished
  Invocations,  \* what may be typed into a shell: [subcommand, args]
  Edits,        \* what the editor may be left with: [name, hidden, from]
  Others        \* what a client of somebody else's making may send

\* Targets and lists that are no texts are refused like those that are unusable.
ASSUME CommandsAssumption ==
  /\ \A e \in Edits : e.name \in Text /\ e.from \in Text /\ e.hidden \in Seq(Text)
  /\ \A p \in Others : /\ "target" \notin DOMAIN p.args \/ p.args.target \in Text
                       /\ "hidden" \notin DOMAIN p.args \/ p.args.hidden \in Seq(Text)

VARIABLE
  job       \* the command under way or given last

vars == <<catalogueVars, job>>

NoJob == [stage |-> "answered", own |-> TRUE, payload |-> Simple("none"), picked |-> {}, table |-> << >>,
          request |-> {}, wire |-> FALSE, performed |-> FALSE, result |-> "ok", told |-> {0},
          reply |-> {}, saved |-> {}, edits |-> {}]

\* A command that has been given: `told` holds the exit status once the client
\* knows it (the palette words it), `wire` whether a request is at OBS,
\* `performed` whether it has been done, `reply` what the daemon says of it,
\* `saved` what it said of the save this command follows up; `edits` are the
\* configs the save started from and came to (history).
Given(payload, picked) ==
  [NoJob EXCEPT !.stage = "sent", !.payload = payload, !.picked = picked, !.told = {}]
Refused(error) == [NoJob EXCEPT !.result = error, !.told = {ExitCodeFor(PublicErrorCode(error))}]

Settled == job.stage = "answered" /\ job.told # {} /\ ~job.wire

\* A command is settled at once, or sent: unless nobody listens, or the write fails.
Give(new) ==
  /\ Settled /\ budget.commands > 0
  /\ budget' = [budget EXCEPT !.commands = @ - 1]
  /\ \/ job' = new
     \/ new.told = {} /\ \E error \in {"ServerUnavailable", "Io"} : job' = Refused(error)
  /\ UNCHANGED <<obs, events, linked, config, snapshot, nudge, seen>>

-----------------------------------------------------------------------------
(* The client *)

\* What completion may offer: the visible scenes and the inputs under either
\* spelling, the rest as they are listed.
Spellings(entries) == ({e.name : e \in entries} \union {e.alias : e \in entries}) \ {None}
Pools ==
  [Scene           |-> Spellings({s \in ToSet(snapshot.scenes) : ~s.hidden}),
   AudioInput      |-> Spellings(ToSet(snapshot.inputs)),
   Profile         |-> ToSet(snapshot.selection["profile"].names),
   SceneCollection |-> ToSet(snapshot.selection["collection"].names),
   SceneProfile    |-> {p.name : p \in ToSet(snapshot.profiles)}]

Parsed == [line \in Lines |-> Parse(line)]

\* A line that does not parse, or is the palette's own business, sends nothing.
TypeLine ==
  \E line \in Lines :
     /\ ~Failed(Parsed[line]) /\ Parsed[line].command \notin Local
     /\ Give(Given(CommandToPayload(Parsed[line]), {}))

\* The line is replaced by one of those offered, and sent as it is; only a
\* volume line is typed to its end.
CompleteLine ==
  \E begun \in Begun : \E line \in Complete(begun, Pools) :
     LET whole   == IF \E row \in Rows(Lower(Trim(<<begun[2]>>))) : row.arity = 2
                    THEN line \o Percentage ELSE line
         command == Parse(whole)
         offered == {n \in UNION Range(Pools) : IsSuffix(<<" ">> \o QuoteArgument(n), line)}
     IN Give(IF Failed(command) THEN [Refused("CommandParseError") EXCEPT !.picked = offered]
             ELSE Given(CommandToPayload(command), offered))

\* The config is read before the arguments are looked at, and a config that
\* cannot be read ends the subcommand with status 1.
RunSubcommand ==
  \E invocation \in Invocations :
     LET payload == ProxyPayload(invocation.subcommand, invocation.args)
     IN Give(IF Failed(payload) THEN Refused(payload.error) ELSE Given(payload, {}))

\* send_save_scene_profile, before anything is sent.
SavePayload(edit) ==
  IF /\ Usable(edit.name) /\ Len(edit.hidden) <= MaxHidden
     /\ edit.from # None => Usable(edit.from)
     /\ \A i \in DOMAIN edit.hidden : Usable(edit.hidden[i])
  THEN SaveSceneProfile(Trim(edit.name), Trimmed(edit.hidden), Trim(edit.from))
  ELSE Failure("CommandParseError")
SaveEdited ==
  \E edit \in Edits :
     LET payload == SavePayload(edit)
     IN Give(IF Failed(payload) THEN Refused(payload.error) ELSE Given(payload, {}))

\* The TUI's session for what the daemon pushes.
AllTopics == <<"state", "events", "logs">>
SubscribeSession ==
  \E topics \in NormalizeSubscribeTopics(AllTopics) : Give(Given(Subscribe(topics), {}))

SendOther == \E payload \in Others : Give([Given(payload, {}) EXCEPT !.own = FALSE])
ConfigUnreadable == Give([Refused("ConfigInvalid") EXCEPT !.told = {1}])

Tell(error) == job' = [job EXCEPT !.told = {ExitCodeFor(PublicErrorCode(error))}]

\* The connection ends, something else than an answer comes, or nothing does.
GiveUp ==
  /\ job.told = {}
  /\ \E error \in {"IpcProtocolError", "IpcTimeout"} : Tell(error)
  /\ UNCHANGED catalogueVars

\* save_follow_up: a profile that is new is switched on.
Created ==
  job.payload.name = "save_scene_profile" /\ job.result = "ok" /\ \E r \in job.reply : r.created

ReadAnswer ==
  /\ job.stage = "answered" /\ job.told = {} /\ ~(job.own /\ Created)
  /\ job' = [job EXCEPT !.told =
               {IF job.result = "ok" THEN 0 ELSE ExitCodeFor(PublicErrorCode(job.result))}]
  /\ UNCHANGED catalogueVars

\* On a connection of its own, which may not come about.
FollowUp ==
  /\ job.stage = "answered" /\ job.told = {} /\ job.own /\ Created
  /\ LET second == [Given(WithTarget("set_scene_profile", job.payload.args.target), {})
                      EXCEPT !.saved = job.reply, !.edits = job.edits]
     IN \/ job' = second
        \/ \E error \in {"ServerUnavailable", "Io"} :
             job' = [second EXCEPT !.stage = "answered", !.result = error,
                                   !.told = {ExitCodeFor(PublicErrorCode(error))}]
  /\ UNCHANGED catalogueVars

\* The sentence for a save that was made; anything else shows as what it is.
StatusLine ==
  CASE job.told = {} -> "none"
    [] job.told # {} /\ job.saved # {} -> IF 0 \in job.told THEN "saved_and_activated" ELSE "activation_failed"
    [] job.payload.name = "save_scene_profile" /\ 0 \in job.told /\ job.saved = {} ->
         IF \E r \in job.reply : r.active THEN "saved_active" ELSE "saved"
    [] OTHER -> "other"

-----------------------------------------------------------------------------
(* The daemon: what each command that needs OBS comes to, a failure or the *)
(* request it makes, in the order the code checks.                         *)

Check(holds, error, next) == IF holds THEN next ELSE Failure(error)
RequireObs(next) == Check(linked, "ObsUnavailable", next)

\* What a target is looked up in: the snapshot's entries as they are now.
AliasEntries(entries) ==
  [i \in DOMAIN entries |->
     [name |-> entries[i].name, alias |-> entries[i].alias, shortcut |-> entries[i].shortcut]]
SceneAliases == AliasEntries(snapshot.scenes)
AudioAliases == AliasEntries(snapshot.inputs)

Resolve(target)      == ResolveWith(target, SceneAliases, "scene")
ResolveAudio(target) == ResolveWith(target, AudioAliases, "audio")
ResolveAudioTarget(args) ==
  Check(RequiredString(args, "target"), "CommandParseError", ResolveAudio(args.target))

\* The request for the entry of `table` that was resolved.
Ask(Request(_), table, resolved) ==
  IF Failed(resolved) THEN resolved ELSE Request(table[resolved.entry].name)

CmdSetScene(args) ==
  Check(RequiredString(args, "target"), "CommandParseError",
  RequireObs(Ask(SetCurrentProgramScene, SceneAliases, Resolve(args.target))))

\* In what a profile and a scene collection differ.
NamedSelection(kind, name) ==
  CASE kind = "profile"    -> [missing |-> "ProfileNotFound", request |-> SetCurrentProfile(name)]
    [] kind = "collection" -> [missing |-> "SceneCollectionNotFound", request |-> SetCurrentSceneCollection(name)]

\* cmd_set_named_selection: the name must be one of those listed, as it stands.
CmdSetNamedSelection(args, kind) ==
  LET name      == CheckedName(args.target)
      selection == NamedSelection(kind, name)
  IN Check(RequiredString(args, "target"), "CommandParseError",
     RequireObs(
     Check(name \in ToSet(snapshot.selection[kind].names), selection.missing, selection.request)))

AskAudio(Request(_), args) == RequireObs(Ask(Request, AudioAliases, ResolveAudioTarget(args)))

CmdSetMute(args, muted) == AskAudio(LAMBDA name : SetInputMute(name, muted), args)
CmdToggleMute(args)     == AskAudio(ToggleInputMute, args)
CmdSetVolume(args) ==
  Check(RequiredPercentage(args, "percent"), "CommandParseError",
        AskAudio(LAMBDA name : SetInputVolume(name, PercentToMul(args.percent)), args))
ToggleOutput(request) == RequireObs(request)

ObsCommands == {"set_scene", "set_profile", "set_scene_collection", "mute", "unmute", "toggle_mute",
                "set_volume", "toggle_stream", "toggle_record"}
RunObsCommand(p) ==
  CASE p.name = "set_scene"            -> CmdSetScene(p.args)
    [] p.name = "set_profile"          -> CmdSetNamedSelection(p.args, "profile")
    [] p.name = "set_scene_collection" -> CmdSetNamedSelection(p.args, "collection")
    [] p.name = "mute"                 -> CmdSetMute(p.args, TRUE)
    [] p.name = "unmute"               -> CmdSetMute(p.args, FALSE)
    [] p.name = "toggle_mute"          -> CmdToggleMute(p.args)
    [] p.name = "set_volume"           -> CmdSetVolume(p.args)
    [] p.name = "toggle_stream"        -> ToggleOutput(ToggleStream)
    [] p.name = "toggle_record"        -> ToggleOutput(ToggleRecord)

\* The table a command's target is looked up in, for the properties.
TableOf(name) == CASE name = "set_scene" -> SceneAliases
                   [] name \in {"mute", "unmute", "toggle_mute", "set_volume"} -> AudioAliases
                   [] OTHER -> << >>

Answer(result) == job' = [job EXCEPT !.stage = "answered", !.result = result]
WellFormed(p) ==
  /\ ValidatePayload(p)
  /\ p.name \in {"set_scene_profile", "delete_scene_profile", "save_scene_profile"} =>
       RequiredString(p.args, "target")
  /\ p.name = "save_scene_profile" =>
       RequiredStringArray(p.args, "hidden") /\ OptionalString(p.args, "rename_from")
Handling(names) == job.stage = "sent" /\ job.payload.name \in names /\ WellFormed(job.payload)

HandleMalformed ==
  /\ job.stage = "sent" /\ job.payload.name # "subscribe" /\ ~WellFormed(job.payload)
  /\ Answer("CommandParseError")
  /\ UNCHANGED catalogueVars

HandleObsCommand ==
  /\ Handling(ObsCommands)
  /\ LET outcome == RunObsCommand(job.payload)
         looked  == [job EXCEPT !.table = TableOf(job.payload.name)]
     IN job' = IF Failed(outcome) THEN [looked EXCEPT !.stage = "answered", !.result = outcome.error]
               ELSE [looked EXCEPT !.stage = "asked", !.request = {outcome}, !.wire = TRUE]
  /\ UNCHANGED catalogueVars

\* Answered from what the daemon holds.
Queries == {"ping", "get_server_status", "get_obs_status", "get_snapshot", "validate_config",
            "list_scene_profiles"}
HandleQuery ==
  /\ Handling(Queries)
  /\ Answer("ok")
  /\ UNCHANGED catalogueVars

\* handle_subscribe of the session, which ends over topics it does not accept.
HandleSubscribe ==
  /\ job.stage = "sent" /\ job.payload.name = "subscribe"
  /\ LET topics == NormalizeSubscribeTopics(job.payload.args.topics)
     IN job' = [job EXCEPT !.stage = "answered", !.reply = topics,
                           !.result = IF topics = {} THEN "IpcProtocolError" ELSE "ok"]
  /\ UNCHANGED catalogueVars

\* The supervisor takes the request up (Supervisor), unless it has ended.
HandleReconnect ==
  /\ Handling({"reconnect_obs"})
  /\ Answer("ok") \/ Answer("ObsUnavailable")
  /\ UNCHANGED catalogueVars

\* What follows is the daemon's lifecycle (Supervisor, IpcSession).
HandleShutdown ==
  /\ Handling({"shutdown_server"})
  /\ Answer(IF config.shutdown THEN "ok" ELSE "ShutdownDisabled")
  /\ UNCHANGED catalogueVars

HandleReload ==
  /\ Handling({"reload_config"})
  /\ \/ \E c \in Configs : Hold(c) /\ Answer("ok")
     \/ /\ Answer("ConfigNotFound") \/ Answer("ConfigInvalid")
        /\ UNCHANGED <<config, snapshot>>
  /\ UNCHANGED <<obs, events, linked, nudge, seen, budget>>

\* find_scene_profile and scene_profile_position: the first of that name, if any.
SceneProfileAt(c, target) ==
  {i \in DOMAIN c.profiles : NormalizedName(c.profiles[i].name) = NormalizedName(target)}

\* The profile a save is to replace, by the name it had.
Replacing(p, c) ==
  IF "rename_from" \in DOMAIN p.args THEN SceneProfileAt(c, p.args.rename_from) ELSE {}

\* Replaced where it stands, and the pointer with it; or replaced by name, or new.
\* A rename onto another profile is refused.
Saved(p, c) ==
  LET profile == [name |-> Trim(p.args.target), hidden |-> StringArray(p.args.hidden)]
      byName  == SceneProfileAt(c, p.args.target)
      from    == Replacing(p, c)
  IN CASE from # {} -> {[c EXCEPT !.profiles[i] = profile,
                                  !.active = IF i \in ActiveProfile(c) THEN profile.name ELSE @] :
                          i \in {i \in from : byName \subseteq {i}}}
       [] from = {} /\ byName # {} -> {[c EXCEPT !.profiles[i] = profile] : i \in byName}
       [] OTHER -> {[c EXCEPT !.profiles = Append(@, profile)]}

\* The active one is switched off.
Deleted(c, i) == [c EXCEPT !.profiles = RemoveAt(@, i),
                           !.active = IF i \in ActiveProfile(c) THEN None ELSE @]

\* What a command makes of the config it starts from: a set of one config, or
\* of none where the profile is not there.
Edited(p, c) ==
  LET at == SceneProfileAt(c, p.args.target)
  IN CASE p.name = "clear_scene_profile" -> {[c EXCEPT !.active = None]}
       [] p.name = "set_scene_profile" ->
            {[c EXCEPT !.active = c.profiles[i].name] : i \in at}
       [] p.name = "delete_scene_profile" ->
            {Deleted(c, i) : i \in at}
       [] p.name = "save_scene_profile" -> Saved(p, c)

ProfileCommands ==
  {"set_scene_profile", "clear_scene_profile", "delete_scene_profile", "save_scene_profile"}

\* SaveSceneProfileResult and SetSceneProfileResult, but for the count.
Reply(p, base, c) ==
  LET at == SceneProfileAt(c, p.args.target)
  IN [created |-> Len(c.profiles) > Len(base.profiles),
      active  |-> at \cap ActiveProfile(c) # {},
      listed  |-> c.profiles[Min(at)].hidden,
      hidden  |-> 0,
      gone    |-> {}]

\* The file decides what is edited, the daemon's own copy where there is none;
\* nothing happens where the file cannot be read or cannot be written.
HandleSceneProfile ==
  /\ Handling(ProfileCommands)
  /\ \E base \in Configs \union {config} :
       \/ \E c \in Edited(job.payload, base) :
            /\ Hold(c)
            /\ job' = IF job.payload.name \in {"clear_scene_profile", "delete_scene_profile"}
                      THEN [job EXCEPT !.stage = "answered", !.performed = TRUE]
                      ELSE [job EXCEPT !.stage = "counting", !.performed = TRUE,
                                       !.reply = {Reply(job.payload, base, c)},
                                       !.edits = @ \union {[from |-> base, to |-> c]}]
       \/ Edited(job.payload, base) = {} /\ Answer("ConfigInvalid") /\ UNCHANGED <<config, snapshot>>
  /\ UNCHANGED <<obs, events, linked, nudge, seen, budget>>
SceneProfileFails ==
  /\ Handling(ProfileCommands)
  /\ Answer("ConfigInvalid") \/ Answer("Io")
  /\ UNCHANGED <<config, snapshot>>
  /\ UNCHANGED <<obs, events, linked, nudge, seen, budget>>

\* scenes_hidden_by: the rows a profile takes away of the scenes the daemon
\* knows, or the entries it lists.
ScenesHiddenBy(snap, listed) ==
  IF snap.scenes = << >> THEN Cardinality(listed)
  ELSE LET visibility == Visibility({}, << [hidden |-> listed] >>, {1})
       IN Cardinality({i \in DOMAIN snap.scenes : IsHidden(visibility, snap.scenes[i].name)})

\* The reply counts in the snapshot as it is by then; `gone` are the rows it
\* hides, if the profile is still what is in effect (history).
CountHidden ==
  /\ job.stage = "counting"
  /\ LET InEffect(r) == \E i \in ActiveProfile(config) : config.profiles[i].hidden = r.listed
         gone == Cardinality({i \in DOMAIN snapshot.scenes : snapshot.scenes[i].hidden})
     IN job' = [job EXCEPT !.stage = "answered", !.result = "ok",
                  !.reply = {[r EXCEPT !.hidden = ScenesHiddenBy(snapshot, r.listed),
                                       !.gone = IF InEffect(r) /\ snapshot.scenes # << >> THEN {gone} ELSE {}] :
                               r \in @}]
  /\ UNCHANGED catalogueVars

\* Another client has the config reloaded, or edited.
OtherReloads ==
  /\ job.stage # "sent" /\ budget.changes > 0
  /\ budget' = [budget EXCEPT !.changes = @ - 1]
  /\ \E c \in Configs \ {config} : Hold(c)
  /\ UNCHANGED <<obs, events, linked, nudge, seen, job>>

-----------------------------------------------------------------------------
(* OBS *)

Asked == CHOOSE r \in job.request : TRUE

\* OBS gets to the request, whether or not anybody still waits.
ObsPerforms ==
  /\ job.wire /\ linked /\ Accepts(obs, Asked)
  /\ Perform(Asked)
  /\ job' = [job EXCEPT !.wire = FALSE, !.performed = TRUE]
  /\ UNCHANGED <<linked, config, snapshot, nudge, seen, budget>>
ObsConfirms ==
  /\ job.stage = "asked" /\ job.performed /\ linked
  /\ Answer("ok")
  /\ UNCHANGED catalogueVars
ObsRefuses ==
  /\ job.stage = "asked" /\ job.wire /\ linked /\ ~Accepts(obs, Asked)
  /\ job' = [job EXCEPT !.wire = FALSE, !.stage = "answered", !.result = "ObsRequestFailed"]
  /\ UNCHANGED catalogueVars
\* A late refusal is nobody's.
ObsRefusesLate ==
  /\ job.stage = "answered" /\ job.wire /\ linked /\ ~Accepts(obs, Asked)
  /\ job' = [job EXCEPT !.wire = FALSE]
  /\ UNCHANGED catalogueVars
RequestTimesOut ==
  /\ job.stage = "asked"
  /\ Answer("RequestTimeout")
  /\ UNCHANGED catalogueVars
\* The connection is lost with what is on it.
CommandLosesLink ==
  /\ LinkLost
  /\ job' = [job EXCEPT !.wire = FALSE,
                        !.stage  = IF @ = "asked" THEN "answered" ELSE @,
                        !.result = IF job.stage = "asked" THEN "ConnectionFailed" ELSE @]

-----------------------------------------------------------------------------
Init ==
  /\ CatalogueInit
  /\ job = NoJob

\* OBS and the daemon's upkeep of the snapshot go on whatever the command does.
CatalogueNext ==
  \/ UserChanges /\ UNCHANGED job
  \/ UserEditsScenes /\ UNCHANGED job
  \/ UserAddsInput /\ UNCHANGED job
  \/ UserRemovesInput /\ UNCHANGED job
  \/ UserRenamesInput /\ UNCHANGED job
  \/ UserEditsListing /\ UNCHANGED job
  \/ ApplyEvent /\ UNCHANGED job
  \/ Refresh /\ UNCHANGED job
  \/ LinkUp /\ UNCHANGED job

Next ==
  \/ TypeLine \/ CompleteLine \/ RunSubcommand \/ ConfigUnreadable \/ SaveEdited \/ SubscribeSession
  \/ SendOther \/ GiveUp \/ ReadAnswer \/ FollowUp
  \/ HandleMalformed \/ HandleObsCommand \/ HandleQuery \/ HandleSubscribe
  \/ HandleReconnect \/ HandleShutdown \/ HandleReload
  \/ HandleSceneProfile \/ SceneProfileFails \/ CountHidden \/ OtherReloads
  \/ ObsPerforms \/ ObsConfirms \/ ObsRefuses \/ ObsRefusesLate \/ RequestTimesOut \/ CommandLosesLink
  \/ CatalogueNext

Spec == Init /\ [][Next]_vars

-----------------------------------------------------------------------------
(* Properties *)

\* What a client sends means what its user meant: a completed line parses and
\* names what was picked, however the name is spelled; the daemon finds no
\* fault with the form of anything the palette, the editor or the CLI sends;
\* and a session gets the topics it asked for, each once.
LinesSurvive ==
  /\ job.picked # {} => /\ job.payload.name # "none"
                        /\ job.payload.args.target \in job.picked
  /\ job.own /\ job.payload.name # "none" =>
       /\ job.result # "CommandParseError"
       /\ job.payload.name = "subscribe" =>
            /\ job.result # "IpcProtocolError"
            /\ \A topics \in job.reply : Len(topics) = Len(AllTopics) /\ ToSet(topics) = ToSet(AllTopics)

\* How well an entry answers to a target, 1 best; none where it does not.
Ranks(target, entry, i, scenes) ==
  LET exact == CheckedName(target)
      loose == NormalizedName(target)
  IN {r \in 1 .. 6 :
        CASE r = 1 -> entry.shortcut = exact
          [] r = 2 -> entry.alias = exact
          [] r = 3 -> entry.name = exact
          [] r = 4 -> entry.alias # None /\ NormalizedName(entry.alias) = loose
          [] r = 5 -> NormalizedName(entry.name) = loose
          [] r = 6 -> scenes /\ IsNumber(exact) /\ Number(exact) = i}

\* A scene or input command acts on the entry that answers best to its target
\* in the table the daemon saw; it acts on nothing where two answer equally
\* well but for their case, and only where none answers is it "not found".
ActsOnWhatWasNamed ==
  LET target    == job.payload.args.target
      RanksOf(i) == Ranks(target, job.table[i], i, job.payload.name = "set_scene")
      answering == {i \in DOMAIN job.table : RanksOf(i) # {}}
      best      == Min(UNION {RanksOf(i) : i \in answering})
      Best      == {i \in answering : best \in RanksOf(i)}
  IN job.table # << >> =>
       /\ job.request # {} =>
            /\ \E i \in Best : \E r \in job.request : r.name = job.table[i].name
            /\ best \in {4, 5} => Cardinality(Best) = 1
       /\ job.result = "AliasAmbiguous" => best \in {4, 5} /\ Cardinality(Best) > 1
       /\ job.result \in {"SceneNotFound", "AudioInputNotFound"} => answering = {}

\* The configs hold a profile of the name and content the save gave.
HasSaved(c, p) ==
  \E i \in SceneProfileAt(c, p.args.target) :
     c.profiles[i] = [name |-> Trim(p.args.target), hidden |-> StringArray(p.args.hidden)]
IsOn(c, name) == SceneProfileAt(c, name) \cap ActiveProfile(c) # {}

\* The config says that a profile of that name is on, and has none; it is only
\* warned of.
Dangles(c, name) ==
  /\ c.active # None /\ NormalizedName(c.active) = NormalizedName(name)
  /\ ActiveProfile(c) = {}

\* A save touches no profile but the one it names, by its old name or its new
\* one, and switches none on or off.  Excepted is a name that dangles.
SaveKeepsTheRest ==
  job.payload.name = "save_scene_profile" =>
    \A edit \in job.edits :
      LET p    == job.payload
          mine == SceneProfileAt(edit.from, p.args.target) \union Replacing(p, edit.from)
      IN /\ HasSaved(edit.to, p)
         /\ \A i \in DOMAIN edit.from.profiles \ mine : edit.from.profiles[i] \in ToSet(edit.to.profiles)
         /\ Len(edit.to.profiles) <= Len(edit.from.profiles) + 1
         /\ IsOn(edit.to, p.args.target) <=>
              ActiveProfile(edit.from) \cap mine # {} \/ Dangles(edit.from, p.args.target)
         /\ ActiveProfile(edit.to) = {} <=>
              ActiveProfile(edit.from) = {} /\ ~Dangles(edit.from, p.args.target)

\* The sentence a save ends with is true: the profile was saved, and it was or
\* was not in effect as the sentence says; it was switched on, or it was saved
\* and that failed.  The count in it is of the rows that go.
SaveToldAsItWas ==
  /\ StatusLine \in {"saved", "saved_active"} =>
       \E edit \in job.edits : IsOn(edit.to, job.payload.args.target) <=> StatusLine = "saved_active"
  /\ StatusLine = "saved_and_activated" =>
       \E edit \in job.edits : IsOn(edit.to, job.payload.args.target)
  /\ StatusLine = "activation_failed" =>
       \E edit \in job.edits : SceneProfileAt(edit.to, job.payload.args.target) # {}
  /\ job.payload.name # "subscribe" => \A r \in job.reply : r.gone \subseteq {r.hidden}

\* The exit status says whether OBS, or the daemon's config, took the command:
\* 0 only where it did, and 1, 2, 3 and 5 only where it did not and never will.
\* (4 and 6 leave it open.)
ExitTellsWhatHappened ==
  /\ 0 \in job.told /\ job.payload.name \in ObsCommands \union ProfileCommands => job.performed
  /\ job.told \cap {1, 2, 3, 5} # {} => ~job.performed /\ ~job.wire
  /\ SaveKeepsTheRest /\ SaveToldAsItWas
=============================================================================
