------------------------------ MODULE Palette ------------------------------
(***************************************************************************)
(* The two ways a user spells a command: the palette's line, tokenized,    *)
(* parsed and turned into a payload, with the completions it offers, and   *)
(* the subcommands of the CLI (domain/parser.rs, tui/completion.rs,        *)
(* tui/daemon.rs, cli/router.rs, cli/args.rs).                             *)
(***************************************************************************)
EXTENDS Protocol

PalettePrefixes == {"/", ":"}   \* PALETTE_PREFIXES

-----------------------------------------------------------------------------
(* The vocabulary, one row per command: its spellings, canonical first; how *)
(* many arguments it takes; what the first of them names; what it builds.   *)

Row(spellings, arity, argument, command) ==
  [spellings |-> spellings, arity |-> arity, argument |-> argument, command |-> command]

NamingCommands ==
  << Row(<< <<"help">> >>, 0, "None", "Help"),
     Row(<< <<"themes">>, <<"theme">>, <<"settings">> >>, 0, "None", "Themes"),
     Row(<< <<"scene">>, <<"set", "-", "scene">> >>, 1, "Scene", "SetScene"),
     Row(<< <<"profile">>, <<"set", "-", "profile">> >>, 1, "Profile", "SetProfile"),
     Row(<< <<"collection">>, <<"set", "-", "collection">>, <<"scene", "-", "collection">> >>,
         1, "SceneCollection", "SetSceneCollection"),
     Row(<< <<"scene", "-", "profile">>, <<"set", "-", "scene", "-", "profile">> >>,
         1, "SceneProfile", "SetSceneProfile"),
     Row(<< <<"scene", "-", "profile", "-", "off">>, <<"scene", "-", "profile", "-", "clear">> >>,
         0, "None", "ClearSceneProfile"),
     Row(<< <<"scene", "-", "profile", "-", "delete">>, <<"delete", "-", "scene", "-", "profile">> >>,
         1, "SceneProfile", "DeleteSceneProfile"),
     Row(<< <<"mute">> >>, 1, "AudioInput", "Mute"),
     Row(<< <<"unmute">> >>, 1, "AudioInput", "Unmute"),
     Row(<< <<"toggle", "-", "mute">> >>, 1, "AudioInput", "ToggleMute"),
     Row(<< <<"vol">>, <<"volume">> >>, 2, "AudioInput", "SetVolume") >>

PlainCommands ==
  << Row(<< <<"stream">> >>, 0, "None", "ToggleStream"),
     Row(<< <<"rec">>, <<"record">> >>, 0, "None", "ToggleRecord"),
     Row(<< <<"status">> >>, 0, "None", "Status"),
     Row(<< <<"obs", "-", "status">> >>, 0, "None", "ObsStatus"),
     Row(<< <<"server", "-", "status">> >>, 0, "None", "ServerStatus"),
     Row(<< <<"reload", "-", "config">> >>, 0, "None", "ReloadConfig"),
     Row(<< <<"dump", "-", "config">> >>, 0, "None", "DumpConfig"),
     Row(<< <<"validate", "-", "config">> >>, 0, "None", "ValidateConfig"),
     Row(<< <<"reconnect">> >>, 0, "None", "Reconnect"),
     Row(<< <<"connect">> >>, 0, "None", "Connect"),
     Row(<< <<"shutdown", "-", "server">> >>, 0, "None", "ShutdownServer"),
     Row(<< <<"quit">>, <<"exit">> >>, 0, "None", "Quit") >>

PaletteCommands == NamingCommands \o PlainCommands

\* find_spec: the row that `name`, in small letters, spells.
Rows(name) == {row \in ToSet(PaletteCommands) : name \in ToSet(row.spellings)}

-----------------------------------------------------------------------------
(* Reading a line *)

\* A token is a text and whether a quote took part in it.
EndToken(s) ==
  IF s.text = << >> THEN s
  ELSE [s EXCEPT !.tokens = Append(@, [text |-> s.text, quoted |-> s.quoted]),
                 !.text = << >>, !.quoted = FALSE]

\* One atom of the line: a quote of either style opens, the same one closes,
\* the other is literal meanwhile; a backslash escapes inside quotes only.
ReadAtom(s, atom) ==
  CASE s.escaped -> [s EXCEPT !.text = Append(@, atom), !.escaped = FALSE]
    [] atom \in Quotes /\ s.open \in {"none", atom} /\ ~s.escaped ->
         [s EXCEPT !.open = IF @ = atom THEN "none" ELSE atom, !.quoted = TRUE]
    [] atom = "\\" /\ s.open # "none" /\ ~s.escaped -> [s EXCEPT !.escaped = TRUE]
    [] atom \in Spaces /\ s.open = "none" -> EndToken(s)
    [] OTHER -> [s EXCEPT !.text = Append(@, atom)]

Tokenize(line) ==
  LET start == [tokens |-> << >>, text |-> << >>, quoted |-> FALSE, open |-> "none", escaped |-> FALSE]
      end   == FoldLeft(ReadAtom, start, line)
  IN IF end.open # "none" THEN Failure("CommandParseError") ELSE [tokens |-> EndToken(end).tokens]

\* parse_volume_percent: a whole number, bare of quotes and at most 100.
VolumePercent(token) ==
  LET digits == IF token.text[1] = "+" THEN Tail(token.text) ELSE token.text
  IN IF ~token.quoted /\ IsNumber(digits) /\ Number(digits) <= 100 THEN Number(digits) ELSE -1

\* The command a row builds of the right number of arguments.
Build(row, args) ==
  CASE row.arity = 0 -> [command |-> row.command]
    [] row.arity = 1 /\ Usable(args[1].text) ->
         [command |-> row.command, target |-> CheckedName(args[1].text)]
    [] row.arity = 2 /\ VolumePercent(args[2]) # -1 /\ Usable(args[1].text) ->
         [command |-> row.command, target |-> CheckedName(args[1].text),
          percent |-> VolumePercent(args[2])]
    [] OTHER -> Failure("CommandParseError")

StripPrefixes(text) ==
  LET kept == {i \in DOMAIN text : text[i] \notin PalettePrefixes}
  IN IF kept = {} THEN << >> ELSE SubSeq(text, Min(kept), Len(text))

Parse(line) ==
  LET read   == Tokenize(StripPrefixes(Trim(line)))
      tokens == read.tokens
      rows   == Rows(NormalizedName(tokens[1].text))
      row    == CHOOSE r \in rows : TRUE
  IN IF \/ Failed(read)
        \/ tokens = << >>
        \/ ~Usable(tokens[1].text)
        \/ rows = {}
        \/ Len(tokens) # row.arity + 1
     THEN Failure("CommandParseError")
     ELSE Build(row, Tail(tokens))

-----------------------------------------------------------------------------
(* Completing a line: the lines offered in place of what was typed *)

\* mutant: the quotes are escaped, the backslashes are not.
EscapesQuotesOnly(name) ==
  LET escaped == FoldLeft(LAMBDA text, atom : text \o (IF atom = "\"" THEN <<"\\", atom>>
                                                      ELSE <<atom>>), << >>, name)
  IN IF ToSet(name) \cap (Spaces \union Quotes \union {"\\"}) = {} THEN name
     ELSE <<"\"">> \o escaped \o <<"\"">>

\* quote_argument: a name the tokenizer would split or reinterpret is quoted.
QuoteArgument(name) ==
  LET escaped == FoldLeft(LAMBDA text, atom : text \o (IF atom \in {"\\", "\""} THEN <<"\\", atom>>
                                                      ELSE <<atom>>), << >>, name)
  IN IF ToSet(name) \cap (Spaces \union Quotes \union {"\\"}) = {} THEN name
     ELSE <<"\"">> \o escaped \o <<"\"">>

SplitPrefix(line) ==
  LET n == IF line # << >> /\ line[1] \in PalettePrefixes THEN 1 ELSE 0
  IN [prefix |-> SubSeq(line, 1, n), body |-> SubSeq(line, n + 1, Len(line))]

CompleteCommand(prefix, body) ==
  {prefix \o row.spellings[1] :
     row \in {row \in ToSet(PaletteCommands) : IsPrefix(Lower(body), row.spellings[1])}}

\* `pools` holds what each kind of argument may name.
CompleteArgument(prefix, typed, argument, pools) ==
  LET word   == TrimStart(argument)
      filter == IF word # << >> /\ word[1] \in Quotes THEN Tail(word) ELSE word
      kinds  == {row.argument : row \in Rows(Lower(typed))} \ {"None"}
      names  == {name \in UNION {pools[kind] : kind \in kinds} : IsPrefix(Lower(filter), Lower(name))}
  IN {prefix \o typed \o <<" ">> \o QuoteArgument(name) : name \in names}

Complete(line, pools) ==
  LET split == SplitPrefix(line)
      space == SelectInSeq(split.body, LAMBDA atom : atom = " ")
  IN IF space = 0 THEN CompleteCommand(split.prefix, split.body)
     ELSE CompleteArgument(split.prefix, SubSeq(split.body, 1, space - 1),
                           SubSeq(split.body, space + 1, Len(split.body)), pools)

-----------------------------------------------------------------------------
(* Payloads *)

\* What each command asks the daemon for, by the name it goes by there.
ServerCommandOf ==
     "Status" :> "get_snapshot" @@ "ServerStatus" :> "get_server_status"
  @@ "ObsStatus" :> "get_obs_status" @@ "ValidateConfig" :> "validate_config"
  @@ "Reconnect" :> "reconnect_obs" @@ "Connect" :> "reconnect_obs"
  @@ "ShutdownServer" :> "shutdown_server" @@ "DumpConfig" :> "dump_config"
  @@ "ReloadConfig" :> "reload_config" @@ "ToggleStream" :> "toggle_stream"
  @@ "ToggleRecord" :> "toggle_record" @@ "SetScene" :> "set_scene"
  @@ "SetProfile" :> "set_profile" @@ "SetSceneCollection" :> "set_scene_collection"
  @@ "SetSceneProfile" :> "set_scene_profile" @@ "ClearSceneProfile" :> "clear_scene_profile"
  @@ "DeleteSceneProfile" :> "delete_scene_profile" @@ "Mute" :> "mute" @@ "Unmute" :> "unmute"
  @@ "ToggleMute" :> "toggle_mute" @@ "SetVolume" :> "set_volume"

\* dispatch_palette_command acts on these itself.
Local == {"Help", "Themes", "Quit"}

\* command_to_payload.  Its own checks of target and percentage cannot fail on
\* what Parse let through.
CommandToPayload(command) ==
  LET name == ServerCommandOf[command.command]
  IN CASE "percent" \in DOMAIN command -> SetVolume(CheckedName(command.target), command.percent)
       [] "target" \in DOMAIN command /\ "percent" \notin DOMAIN command ->
            WithTarget(name, CheckedName(command.target))
       [] OTHER -> Simple(name)

\* The subcommands of the CLI that are proxied, and the commands they stand for.
Subcommands ==
     "status" :> "get_snapshot" @@ "obs-status" :> "get_obs_status"
  @@ "server-status" :> "get_server_status" @@ "reconnect" :> "reconnect_obs"
  @@ "shutdown-server" :> "shutdown_server" @@ "dump-config" :> "dump_config"
  @@ "reload-config" :> "reload_config" @@ "toggle-stream" :> "toggle_stream" @@ "toggle-record" :> "toggle_record"
  @@ "scene" :> "set_scene" @@ "profile" :> "set_profile" @@ "collection" :> "set_scene_collection"
  @@ "mute" :> "mute" @@ "unmute" :> "unmute" @@ "toggle-mute" :> "toggle_mute"
  @@ "scene-profile" :> "set_scene_profile" @@ "scene-profile --off" :> "clear_scene_profile"
  @@ "scene-profile --delete" :> "delete_scene_profile"
  @@ "scene-profiles" :> "list_scene_profiles" @@ "vol" :> "set_volume"

\* proxy_payload: the shell has split the words, so a target is any text.
ProxyPayload(subcommand, args) ==
  LET name    == Subcommands[subcommand]
      refused == \/ "percent" \in DOMAIN args /\ args.percent > 100
                 \/ "target" \in DOMAIN args /\ ~Usable(args.target)
  IN IF refused THEN Failure("CommandParseError")
     ELSE CASE "percent" \in DOMAIN args -> SetVolume(CheckedName(args.target), args.percent)
            [] DOMAIN args = {"target"}  -> WithTarget(name, CheckedName(args.target))
            [] OTHER                     -> Simple(name)
=============================================================================
