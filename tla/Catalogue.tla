----------------------------- MODULE Catalogue -----------------------------
(***************************************************************************)
(* What the daemon believes OBS holds: the contents of the snapshot, kept  *)
(* by folding events into it and by full refreshes, with what the config   *)
(* adds (server/state_store.rs, server/snapshot_refresh.rs,                *)
(* server/obs_event_adapter.rs, obs/event_decoder.rs, obs/validation.rs,   *)
(* obs/state.rs).                                                          *)
(*                                                                         *)
(* SnapshotSync has the interleavings of a refresh with the events that    *)
(* land meanwhile, over contents that are only numbers; here a refresh     *)
(* reads OBS at one moment and the contents are what they are.             *)
(***************************************************************************)
EXTENDS Palette

CONSTANTS
  Starts,       \* what OBS may hold at first: [scenes, input, names]
  Layouts,      \* the scene lists OBS may be given, sequences of names
  Inputs,       \* the names an input of OBS may have
  Listings,     \* the lists of profiles, or of scene collections, OBS may hold
  Configs,      \* the configs that may be on disk
  Multipliers,  \* the volumes OBS may report
  Bounds,       \* how much may happen: [changes, links, commands], alternatives
  MaxQueue      \* how many events may be on their way

\* What a config is made of, and what the daemon asks of one; that the active
\* profile exists is not asked.
Entry   == [name : Text, alias : Text, shortcut : Text]
Profile == [name : Text, hidden : SUBSET Text]
Config  == [scenes : Seq([name : Text, alias : Text, shortcut : Text, hidden : BOOLEAN]),
            inputs : Seq(Entry), profiles : Seq(Profile), active : Text, shutdown : BOOLEAN]
ProfilesAreSound(profiles) ==
  /\ \A i \in DOMAIN profiles : Usable(profiles[i].name)
  /\ \A i, j \in DOMAIN profiles :
       i # j => NormalizedName(profiles[i].name) # NormalizedName(profiles[j].name)
Validated(c) ==
  /\ \A e \in ToSet(c.scenes) \union ToSet(c.inputs) : Usable(e.name)
  /\ UniqueAliasesAndShortcuts(c.scenes) /\ UniqueAliasesAndShortcuts(c.inputs)
  /\ ProfilesAreSound(c.profiles)

ASSUME CatalogueAssumption ==
  /\ \A s \in Starts : /\ s.scenes \in Seq(Text) \ {<< >>} /\ s.input \in Text
                       /\ s.names \in Seq(Text) \ {<< >>}
  /\ Layouts \subseteq Seq(Text) /\ Listings \subseteq Seq(Text)
  /\ Inputs \subseteq Text /\ Multipliers \subseteq Nat
  /\ \A c \in Configs : c \in Config /\ Validated(c)

VARIABLES
  obs,        \* OBS: [scenes, current, inputs, selection, streaming, recording]
  events,     \* the events on their way from it, oldest first
  linked,     \* whether the daemon is connected to it
  config,     \* the config the daemon holds
  snapshot,   \* the daemon's snapshot
  nudge,      \* the one place in the refresh channel is taken
  seen,       \* what the snapshot cannot know of OBS yet: [bare, strange, behind]
  budget      \* what is left of the bounds: changes made in OBS itself, links
              \* lost, commands given

catalogueVars == <<obs, events, linked, config, snapshot, nudge, seen, budget>>

Selections == {"profile", "collection"}

-----------------------------------------------------------------------------
(* What the config contributes: ConfigProjection::from_config *)

ConfigOf(entries, name) == SelectInSeq(entries, LAMBDA entry : entry.name = name)

\* The place of the active scene profile, if the config defines it.
ActiveProfile(c) ==
  {i \in DOMAIN c.profiles :
     c.active # None /\ NormalizedName(c.profiles[i].name) = NormalizedName(c.active)}

SceneVisibility(c) ==
  Visibility({<<s.name, s.hidden>> : s \in ToSet(c.scenes)}, c.profiles, ActiveProfile(c))

Projection(c) ==
  [scenes     |-> c.scenes,
   inputs     |-> c.inputs,
   profiles   |-> c.profiles,
   active     |-> IF ActiveProfile(c) = {} THEN None
                  ELSE c.profiles[Min(ActiveProfile(c))].name,
   visibility |-> SceneVisibility(c)]

\* An entry the config does not mention loses what it had.
ApplySceneConfig(scene, p) ==
  LET i == ConfigOf(p.scenes, scene.name)
  IN [scene EXCEPT !.alias    = IF i = 0 THEN None ELSE p.scenes[i].alias,
                   !.shortcut = IF i = 0 THEN None ELSE p.scenes[i].shortcut,
                   !.hidden   = IsHidden(p.visibility, scene.name)]
ApplyAudioConfig(input, p) ==
  LET i == ConfigOf(p.inputs, input.name)
  IN [input EXCEPT !.alias    = IF i = 0 THEN None ELSE p.inputs[i].alias,
                   !.shortcut = IF i = 0 THEN None ELSE p.inputs[i].shortcut]

\* merge_config
Merged(snap, p) ==
  [snap EXCEPT !.scenes   = [i \in DOMAIN @ |-> ApplySceneConfig(@[i], p)],
               !.inputs   = [i \in DOMAIN @ |-> ApplyAudioConfig(@[i], p)],
               !.profiles = p.profiles,
               !.active   = p.active]

-----------------------------------------------------------------------------
(* A full refresh *)

\* collect_unique_names: one unusable or repeated name spoils the list.
UniqueNames(names) ==
  /\ \A i \in DOMAIN names : Usable(names[i])
  /\ \A i, j \in DOMAIN names : i # j => Trim(names[i]) # Trim(names[j])
Trimmed(names) == [i \in DOMAIN names |-> Trim(names[i])]

NamesOf(entries) == [i \in DOMAIN entries |-> entries[i].name]

\* What makes refresh_once give up.
Readable(o) ==
  UniqueNames(o.scenes) /\ Usable(o.current) /\ UniqueNames(NamesOf(o.inputs))

\* AudioState, before its mute and its volume are known.
BareInput(name) == [name |-> name, alias |-> None, shortcut |-> None, muted |-> {}, percent |-> {}]

\* set_level: the percentage stands for the three forms the volume is kept in.
SetLevel(mul) == {MulToPercent(mul)}

\* fetch_input_state asks by the trimmed name; an answer that does not come
\* leaves mute and volume unknown.
FetchedInput(o, name) ==
  LET i == ConfigOf(o.inputs, name)
  IN IF i = 0 THEN BareInput(name)
     ELSE [BareInput(name) EXCEPT !.muted = {o.inputs[i].muted}, !.percent = SetLevel(o.inputs[i].mul)]

\* fetch_listing: an unreadable list is an empty one.
FetchedSelection(s) ==
  [names |-> IF UniqueNames(s.names) THEN Trimmed(s.names) ELSE << >>, current |-> s.current]

BareScene(name, current) ==
  [name |-> name, alias |-> None, shortcut |-> None, active |-> name = current, hidden |-> FALSE]

BuildSnapshot(o, p) ==
  LET scenes == Trimmed(o.scenes)
      inputs == Trimmed(NamesOf(o.inputs))
  IN [connected |-> TRUE,
      current   |-> Trim(o.current),
      scenes    |-> [i \in DOMAIN scenes |->
                       ApplySceneConfig(BareScene(scenes[i], Trim(o.current)), p)],
      inputs    |-> [i \in DOMAIN inputs |-> ApplyAudioConfig(FetchedInput(o, inputs[i]), p)],
      streaming |-> o.streaming,
      recording |-> o.recording,
      selection |-> [kind \in Selections |-> FetchedSelection(o.selection[kind])],
      profiles  |-> p.profiles,
      active    |-> p.active]

\* The snapshot a daemon begins with, before it has merged its config.
EmptySnapshot ==
  [connected |-> FALSE, current |-> None, scenes |-> << >>, inputs |-> << >>,
   streaming |-> FALSE, recording |-> FALSE,
   selection |-> [kind \in Selections |-> [names |-> << >>, current |-> None]],
   profiles |-> << >>, active |-> None]

-----------------------------------------------------------------------------
(* Events *)

SceneListEvents == {"SceneCreated", "SceneRemoved", "SceneNameChanged", "SceneListReindexed"}
SelectionEvent  == [kind \in Selections |->
                      IF kind = "profile" THEN "CurrentProfileChanged"
                      ELSE "CurrentSceneCollectionChanged"]
ListEvent       == [kind \in Selections |->
                      IF kind = "profile" THEN "ProfileListChanged" ELSE "SceneCollectionListChanged"]
NamedEvents == {"CurrentProgramSceneChanged", "InputCreated", "InputRemoved",
                "InputMuteStateChanged", "InputVolumeChanged"} \union Range(SelectionEvent)
OutputEvents == {"StreamStateChanged", "RecordStateChanged"}

\* translate_event: a set of one event, or of none where a name is unusable.
TranslateEvent(raw) ==
  CASE raw.type \in NamedEvents -> IF Usable(raw.name) THEN {[raw EXCEPT !.name = Trim(@)]} ELSE {}
    [] raw.type \in SceneListEvents -> {[type |-> "SceneListChanged"]}
    [] raw.type \in OutputEvents \union Range(ListEvent) -> {raw}
    [] OTHER -> {[type |-> "Other"]}

NeedsFullRefresh(event) == event.type \in {"SceneListChanged"} \union Range(ListEvent)

ProgramSceneChanged(snap, name) ==
  IF snap.current = name THEN snap
  ELSE [snap EXCEPT !.current = name,
                    !.scenes  = [i \in DOMAIN @ |-> [@[i] EXCEPT !.active = snap.scenes[i].name = name]]]

\* mutant: an input that is known already is listed once more.
ListsAgain(snap, name) == [snap EXCEPT !.inputs = Append(@, BareInput(name))]

InputCreated(snap, name) ==
  IF ConfigOf(snap.inputs, name) # 0 THEN snap
  ELSE [snap EXCEPT !.inputs = Append(@, BareInput(name))]
\* No two of the inputs have one name.
InputRemoved(snap, name) ==
  LET i == ConfigOf(snap.inputs, name)
  IN IF i = 0 THEN snap ELSE [snap EXCEPT !.inputs = RemoveAt(@, i)]

\* An event for an input the snapshot does not know is not a change.
InputMuteChanged(snap, name, muted) ==
  [snap EXCEPT !.inputs = [i \in DOMAIN @ |->
     IF i = ConfigOf(@, name) THEN [@[i] EXCEPT !.muted = {muted}] ELSE @[i]]]
InputVolumeChanged(snap, name, mul) ==
  [snap EXCEPT !.inputs = [i \in DOMAIN @ |->
     IF i = ConfigOf(@, name) THEN [@[i] EXCEPT !.percent = SetLevel(mul)] ELSE @[i]]]

MutateSnapshot(snap, event) ==
  CASE event.type = "CurrentProgramSceneChanged"    -> ProgramSceneChanged(snap, event.name)
    [] event.type = "InputCreated"                  -> InputCreated(snap, event.name)
    [] event.type = "InputRemoved"                  -> InputRemoved(snap, event.name)
    [] event.type = "InputMuteStateChanged"         -> InputMuteChanged(snap, event.name, event.value)
    [] event.type = "InputVolumeChanged"            -> InputVolumeChanged(snap, event.name, event.value)
    [] event.type = "StreamStateChanged"            -> [snap EXCEPT !.streaming = event.value]
    [] event.type = "RecordStateChanged"            -> [snap EXCEPT !.recording = event.value]
    [] event.type = "CurrentProfileChanged"         -> [snap EXCEPT !.selection["profile"].current = event.name]
    [] event.type = "CurrentSceneCollectionChanged" -> [snap EXCEPT !.selection["collection"].current = event.name]
    [] OTHER -> snap

-----------------------------------------------------------------------------
(* OBS itself, as far as its requests and events tell *)

\* Whether OBS knows what a request names: its own spelling, exactly.
Accepts(o, r) ==
  CASE r.request = "SetCurrentProgramScene" -> r.name \in ToSet(o.scenes)
    [] r.request \in {"SetInputMute", "ToggleInputMute", "SetInputVolume"} ->
         r.name \in ToSet(NamesOf(o.inputs))
    [] r.request \in Selections -> r.name \in ToSet(o.selection[r.request].names)
    [] OTHER -> TRUE

ChangeInput(o, name, field, value) ==
  [o EXCEPT !.inputs = [i \in DOMAIN @ |->
     IF @[i].name = name THEN [@[i] EXCEPT ![field] = value] ELSE @[i]]]
MutedNow(o, name) == o.inputs[ConfigOf(o.inputs, name)].muted

\* OBS after an accepted request, and the event it sends.
Effect(o, r) ==
  CASE r.request = "SetCurrentProgramScene" -> [o EXCEPT !.current = r.name]
    [] r.request = "SetInputMute"           -> ChangeInput(o, r.name, "muted", r.value)
    [] r.request = "ToggleInputMute"        -> ChangeInput(o, r.name, "muted", ~MutedNow(o, r.name))
    [] r.request = "SetInputVolume"         -> ChangeInput(o, r.name, "mul", r.value)
    [] r.request = "ToggleStream"           -> [o EXCEPT !.streaming = ~@]
    [] r.request = "ToggleRecord"           -> [o EXCEPT !.recording = ~@]
    [] r.request \in Selections             -> [o EXCEPT !.selection[r.request].current = r.name]
Announced(o, r) ==
  CASE r.request = "SetCurrentProgramScene" -> [type |-> "CurrentProgramSceneChanged", name |-> r.name]
    [] r.request \in {"SetInputMute", "ToggleInputMute"} ->
         [type |-> "InputMuteStateChanged", name |-> r.name, value |-> MutedNow(Effect(o, r), r.name)]
    [] r.request = "SetInputVolume" -> [type |-> "InputVolumeChanged", name |-> r.name, value |-> r.value]
    [] r.request = "ToggleStream"   -> [type |-> "StreamStateChanged", value |-> ~o.streaming]
    [] r.request = "ToggleRecord"   -> [type |-> "RecordStateChanged", value |-> ~o.recording]
    [] r.request \in Selections     -> [type |-> SelectionEvent[r.request], name |-> r.name]

Perform(r) ==
  /\ Len(events) < MaxQueue \/ ~linked
  /\ obs' = Effect(obs, r)
  /\ events' = IF linked THEN Append(events, Announced(obs, r)) ELSE events

Change ==
  /\ budget.changes > 0
  /\ budget' = [budget EXCEPT !.changes = @ - 1]
  /\ UNCHANGED <<linked, config, snapshot, nudge>>
Announce(list) ==
  /\ Len(events) + Len(list) <= MaxQueue \/ ~linked
  /\ events' = IF linked THEN events \o list ELSE events

\* Somebody at OBS does what a request would do.
UserChanges ==
  \E r \in [request : {"SetCurrentProgramScene"}, name : UNION {ToSet(l) : l \in Layouts}]
          \union [request : {"SetInputMute"}, name : Inputs, value : BOOLEAN]
          \union [request : {"SetInputVolume"}, name : Inputs, value : Multipliers]
          \union [request : {"ToggleStream"}]
          \union [request : Selections, name : UNION {ToSet(l) : l \in Listings}] :
     /\ Change /\ Accepts(obs, r) /\ Perform(r)
     /\ UNCHANGED seen

\* Scenes are added, removed, renamed or reordered; a scene that is gone is
\* not the current one: it was renamed, or OBS switched first.
UserEditsScenes ==
  \E layout \in Layouts, kind \in {"SceneNameChanged", "SceneListReindexed"} :
   \E current \in IF obs.current \in ToSet(layout) THEN {obs.current} ELSE ToSet(layout) :
     LET switched == [type |-> "CurrentProgramSceneChanged", name |-> current]
         listed   == [type |-> kind]
     IN /\ Change /\ layout # obs.scenes
        /\ obs' = [obs EXCEPT !.scenes = layout, !.current = current]
        /\ Announce(IF current = obs.current \/ kind = "SceneNameChanged" THEN <<listed>>
                    ELSE <<switched, listed>>)
        /\ UNCHANGED seen

\* What the daemon's checks leave as it is.
Plain(name) == Usable(name) /\ Trim(name) = name

FreshInput(name) == [name |-> name, muted |-> FALSE, mul |-> 10000]
UserAddsInput ==
  \E name \in Inputs :
     /\ Change /\ name \notin ToSet(NamesOf(obs.inputs))
     /\ obs' = [obs EXCEPT !.inputs = Append(@, FreshInput(name))]
     /\ Announce(<<[type |-> "InputCreated", name |-> name]>>)
     /\ seen' = [seen EXCEPT !.strange = @ \/ ~Plain(name)]

UserRemovesInput ==
  \E name \in ToSet(NamesOf(obs.inputs)) :
     /\ Change
     /\ obs' = [obs EXCEPT !.inputs = RemoveAt(@, ConfigOf(@, name))]
     /\ Announce(<<[type |-> "InputRemoved", name |-> name]>>)
     /\ UNCHANGED seen

\* The one change of OBS's lists whose event the decoder does not know.
UserRenamesInput ==
  \E old \in ToSet(NamesOf(obs.inputs)), new \in Inputs \ ToSet(NamesOf(obs.inputs)) :
     /\ Change
     /\ obs' = ChangeInput(obs, old, "name", new)
     /\ Announce(<<[type |-> "InputNameChanged"]>>)
     /\ seen' = [seen EXCEPT !.strange = TRUE]

UserEditsListing ==
  \E kind \in Selections, names \in Listings :
     /\ Change /\ obs.selection[kind].current \in ToSet(names) /\ obs.selection[kind].names # names
     /\ obs' = [obs EXCEPT !.selection[kind].names = names]
     /\ Announce(<<[type |-> ListEvent[kind]]>>)
     /\ UNCHANGED seen

-----------------------------------------------------------------------------
(* The daemon's link to OBS *)

\* The event pump folds one event in, and asks for a refresh where it must.
ApplyEvent ==
  /\ linked /\ events # << >>
  /\ events' = Tail(events)
  /\ LET decoded == TranslateEvent(Head(events))
         event   == CHOOSE e \in decoded : TRUE
     IN /\ snapshot' = IF decoded = {} THEN snapshot ELSE MutateSnapshot(snapshot, event)
        /\ nudge' = (nudge \/ (decoded # {} /\ NeedsFullRefresh(event)))
        /\ seen' = [seen EXCEPT !.bare =
             (@ \ {n \in @ : ConfigOf(snapshot'.inputs, n) = 0})
                \union {snapshot'.inputs[i].name : i \in Len(snapshot.inputs) + 1 .. Len(snapshot'.inputs)}]
  /\ UNCHANGED <<obs, linked, config, budget>>

\* A refresh that overtakes the news of a rename may still be undone by what
\* is queued before it; and what is asked for by a trimmed name is not found
\* under another.
InputEvents == {"InputCreated", "InputRemoved", "InputMuteStateChanged", "InputVolumeChanged"}
Strange ==
  \/ \E i \in DOMAIN events : events[i].type = "InputNameChanged"
  \/ \E i \in DOMAIN events : events[i].type \in InputEvents /\ ~Plain(events[i].name)
  \/ \E i \in DOMAIN obs.inputs : ~Plain(obs.inputs[i].name)
Fresh == [bare |-> {}, behind |-> FALSE, strange |-> Strange]

\* The refresh worker; a fetch that fails is logged and not repeated.
Refresh ==
  /\ linked /\ nudge
  /\ nudge' = FALSE
  /\ IF Readable(obs)
     THEN /\ snapshot' = BuildSnapshot(obs, Projection(config))
          /\ seen' = Fresh
     ELSE /\ seen' = [seen EXCEPT !.behind = TRUE]
          /\ UNCHANGED snapshot
  /\ UNCHANGED <<obs, events, linked, config, budget>>

LinkLost ==
  /\ linked /\ budget.links > 0
  /\ budget' = [budget EXCEPT !.links = @ - 1]
  /\ linked' = FALSE /\ events' = << >> /\ nudge' = FALSE
  /\ snapshot' = [snapshot EXCEPT !.connected = FALSE]
  /\ UNCHANGED <<obs, config, seen>>

\* The client is installed even where the first fetch fails: mark_connected.
LinkUp ==
  /\ ~linked
  /\ linked' = TRUE
  /\ IF Readable(obs)
     THEN /\ snapshot' = BuildSnapshot(obs, Projection(config))
          /\ seen' = Fresh
     ELSE /\ snapshot' = [snapshot EXCEPT !.connected = TRUE]
          /\ seen' = [seen EXCEPT !.behind = TRUE]
  /\ UNCHANGED <<obs, events, config, nudge, budget>>

\* A new config: the daemon holds it and merges it into the snapshot.
Hold(c) ==
  /\ config' = c
  /\ snapshot' = Merged(snapshot, Projection(c))

\* The snapshot is seeded from the config before anybody can ask for it.
CatalogueInit ==
  /\ \E start \in Starts :
       obs = [scenes |-> start.scenes, current |-> start.scenes[1],
              inputs |-> <<FreshInput(start.input)>>,
              selection |-> [kind \in Selections |-> [names |-> start.names, current |-> start.names[1]]],
              streaming |-> FALSE, recording |-> FALSE]
  /\ config \in Configs
  /\ events = << >> /\ linked = FALSE /\ nudge = FALSE
  /\ snapshot = Merged(EmptySnapshot, Projection(config)) /\ seen = Fresh
  /\ budget \in Bounds

-----------------------------------------------------------------------------
(* Properties *)

\* Scenes in OBS's order with the config's names, flags and hiding, the
\* outputs, the profiles and the selections.  A refresh takes the name of the
\* current profile or collection as it stands, an event without its blanks.
ListsFollow ==
  LET built == BuildSnapshot(obs, Projection(config))
  IN /\ snapshot.scenes = built.scenes /\ snapshot.current = built.current
     /\ snapshot.streaming = built.streaming /\ snapshot.recording = built.recording
     /\ snapshot.profiles = built.profiles /\ snapshot.active = built.active
     /\ \A kind \in Selections :
          /\ snapshot.selection[kind].names = built.selection[kind].names
          /\ Plain(obs.selection[kind].current) =>
               snapshot.selection[kind].current = built.selection[kind].current

\* Inputs, in no order: one that came by its creation event alone lacks what
\* only a refresh reads.
InputsFollow ==
  LET built == BuildSnapshot(obs, Projection(config))
      Known(inputs) == {i \in ToSet(inputs) : i.name \notin seen.bare}
  IN /\ Known(snapshot.inputs) = Known(built.inputs)
     /\ \A i \in ToSet(snapshot.inputs) : \E b \in ToSet(built.inputs) :
          /\ b.name = i.name
          /\ i.muted \subseteq b.muted /\ i.percent \subseteq b.percent
          /\ i.alias \in {None, b.alias}
     /\ Len(snapshot.inputs) = Len(built.inputs)

\* With no event on its way, no refresh due and the last one not failed, the
\* snapshot is what a full refresh would build now.  Inputs are excepted once
\* one was renamed, which goes unnoticed, or has blanks around its name.
SnapshotFollows ==
  linked /\ events = << >> /\ ~nudge /\ ~seen.behind =>
    ListsFollow /\ (seen.strange \/ InputsFollow)
=============================================================================
