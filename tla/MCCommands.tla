----------------------------- MODULE MCCommands -----------------------------
(* A finite instance of Commands for TLC.                                  *)
EXTENDS Commands

\* Three scenes with awkward names, one of them spelled like another's alias,
\* one a digit, one that OBS lists with a blank before it and one unusable.
Cam     == <<"Cam", " ", "1">>
Quoted  == <<"c", "\"", "\\">>
Two     == <<"2">>
Blank   == <<" ", "b">>
Control4 == <<"ctl">>

MCSmall    == "Cam" :> "cam" @@ "MIC" :> "mic" @@ "Mic" :> "mic" @@ "SCENE" :> "scene" @@ "NIGHT" :> "night"
MCLayouts  == {<<Cam, Quoted>>, <<Blank, Two, Cam>>, <<Control4, Quoted>>}
MCInputs   == {<<"MIC">>, <<"mic">>, <<" ", "mic">>}
MCListings == {<< <<"p", "\\">>, <<"q">> >>, << <<"q">>, <<"r", " ">> >>}

MCStarts ==
  { [scenes |-> <<Cam, Quoted>>, input |-> <<"MIC">>, names |-> << <<"p", "\\">>, <<"q">> >>],
    [scenes |-> <<Blank, Two, Cam>>, input |-> <<"mic">>, names |-> << <<"q">>, <<"r", " ">> >>] }

Scene(n, a, s, h) == [name |-> n, alias |-> a, shortcut |-> s, hidden |-> h]
MCConfigs ==
  { [scenes   |-> << Scene(Cam, <<"b">>, <<"c">>, TRUE), Scene(Quoted, None, <<"b">>, FALSE) >>,
     inputs   |-> << [name |-> <<"MIC">>, alias |-> <<"d", " ", "'">>, shortcut |-> <<"m">>] >>,
     profiles |-> << [name |-> <<"night">>, hidden |-> {Quoted}] >>,
     active   |-> <<"dusk">>, shutdown |-> FALSE],
    [scenes   |-> << Scene(Two, <<"cam", " ", "1">>, None, FALSE) >>, inputs |-> << >>,
     profiles |-> << [name |-> <<"day">>, hidden |-> {Cam}], [name |-> <<"night">>, hidden |-> {Quoted}] >>,
     active   |-> <<"night">>, shutdown |-> TRUE] }

MCBegun == { <<"/", "scene", " ">>, <<"/", "scene", " ", "\"", "Cam">>, <<":", "vol", " ">>,
             <<"/", "profile", " ">>, <<"/", "scene", "-", "profile", " ">>, <<"/", "scene">> }
MCPercentage == << " ", "5", "0" >>

MCLines ==
  { <<"/", "scene", " ", "b">>, <<":", "/", "SCENE", " ", "2">>, <<" ", "scene", " ", "\"", "Cam", " ", "1", "\"">>,
    <<"/", "set", "-", "scene", " ", "cam", "\"", " ", "\"", "1">>, <<"/", "scene", " ", "c">>,
    <<"/", "mute", " ", "Mic">>, <<"/", "unmute", " ", "m">>, <<"/", "toggle", "-", "mute", " ", "MIC">>,
    <<"/", "volume", " ", "mic", " ", "+", "1", "0", "0">>, <<"/", "vol", " ", "mic", " ", "1", "0", "1">>,
    <<"/", "vol", " ", "mic", " ", "\"", "5", "\"">>, <<"/", "collection", " ", "q">>, <<"/", "stream">>,
    <<"/", "rec">>, <<"/", "status">>, <<"/", "connect">>, <<"/", "shutdown", "-", "server">>,
    <<"/", "reload", "-", "config">>, <<"/", "scene", "-", "profile", "-", "off">>,
    <<"/", "scene", "-", "profile", "-", "delete", " ", "night">>, <<"/", "quit">>, <<"/", "scene", " ", "'", "b">> }

\* A new profile, or a rename onto another; a rename; another spelling; too
\* many scenes; no name.
MCEdits ==
  { [name |-> <<"day", " ">>, hidden |-> <<Cam, Quoted>>, from |-> None],
    [name |-> <<"day">>, hidden |-> <<Quoted>>, from |-> <<"night">>],
    [name |-> <<"dusk">>, hidden |-> <<Two>>, from |-> <<"NIGHT">>],
    [name |-> <<"NIGHT">>, hidden |-> << >>, from |-> None],
    [name |-> <<"day">>, hidden |-> <<Cam, Quoted, Two>>, from |-> None],
    [name |-> <<" ">>, hidden |-> <<Cam>>, from |-> None] }

MCOthers ==
  { SaveSceneProfile(<<"dusk">>, <<Cam, Quoted, Two>>, None), SaveSceneProfile(<<"dusk">>, << <<"MIC">>, <<"mic">> >>, None),
    Subscribe(<< >>), Subscribe(<<"logs", "logs", "state">>), Subscribe(<<"clips">>),
    Simple("mute"), WithTarget("ping", Cam), WithTarget("unmute", <<"ctl">>), SetVolume(Cam, 200),
    WithTarget("delete_scene_profile", <<" ">>), Simple("teleport") }

\* Changes alone, or a command with a change or a lost link among its steps.
MCBounds == { [changes |-> 3, links |-> 0, commands |-> 0],
              [changes |-> 1, links |-> 0, commands |-> 1],
              [changes |-> 0, links |-> 1, commands |-> 1] }

MCInvocations ==
  { [subcommand |-> "scene", args |-> [target |-> <<" ", "2">>]],
    [subcommand |-> "scene", args |-> [target |-> <<"ctl">>]],
    [subcommand |-> "unmute", args |-> [target |-> <<"d", " ", "'">>]],
    [subcommand |-> "vol", args |-> [target |-> <<"mic">>, percent |-> 50]],
    [subcommand |-> "scene-profile", args |-> [target |-> <<"day">>]],
    [subcommand |-> "scene-profiles", args |-> << >>] }
=============================================================================
