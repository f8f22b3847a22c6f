------------------------------ MODULE MCStartup -----------------------------
(* A finite instance of Startup for TLC.                                   *)
EXTENDS Startup

CONSTANTS cli, svc, e1, e2, bad

SmallIs == "Cam" :> "cam" @@ "UK" :> "uk"

Etc == <<"/", "etc">>
Here == <<"/", "here">>
Sites == {Etc, Here}
LinkedIs == {<<"/", "link">>}
ExposedIs == {<<"/", "tmp", "/", "s">>}

Scene(n, a) == [name |-> n, alias |-> a, shortcut |-> None]
Hides(n, scenes) == [name |-> n, hidden |-> scenes]
Backing(initial, max, multiplier) ==
  [endless |-> FALSE, initial |-> initial, max |-> max, multiplier |-> multiplier]

Sound ==
  << << >>,
    "legacy_reconnect" :> Backing(1, 1, <<1, 1>>),
    "reconnect" :> << >> @@ "legacy_reconnect" :> Backing(2, 1, <<1, 1>>),
    "reconnect" :> Null @@ "legacy_reconnect" :> ("initial" :> 3),
    "reconnect" :> Backing(0, 4, <<3, 2>>),
    "reconnect" :> Backing(3, 5, <<1, 1>>),
    "reconnect" :> Backing(0, 4, <<1, 0>>),
    "reconnect" :> Backing(1, 4, <<0, 0>>),
    "password_env" :> Null,
    "password_env" :> Null @@ "password" :> << >>,
    "password_env" :> <<" ", "PW">>,
    "password_env" :> <<"PW">> @@ "password" :> <<"p">>,
    "prefix" :> <<":", "x">> @@ "locale" :> <<"UK">>,
    "prefix" :> <<"x", ":">> @@ "locale" :> <<"fr">>,
    "prefix" :> << >> @@ "locale" :> <<" ", "uk">>,
    "scenes" :> <<Scene(<<"Cam">>, <<"a">>)>> @@ "active" :> <<" ", "Cam">>
      @@ "scene_profiles" :> <<Hides(<<"cam">>, {<<"cam", " ">>, <<"b">>}), Hides(<<"b">>, {<<"cam">>})>>,
    "active" :> <<"b">> @@ "scene_profiles" :> <<Hides(<<"cam">>, {<<"b">>})>>,
    "socket_path" :> <<"/", "run">>, "port" :> 65535 >>

Unsound ==
  << "version" :> 2, "host" :> <<"a", ":", "b">>, "host" :> <<"l", "l", "l", "l">>, "port" :> 65536,
    "connect_timeout_ms" :> 0, "refresh_interval_ms" :> 0, "unknown" :> 1,
    "legacy_reconnect" :> Backing(2, 1, <<2, 1>>), "reconnect" :> Backing(1, 1, <<1, 2>>),
    "password" :> <<"ctl">>, "password_env" :> <<"1">>, "password_env" :> <<"PW", "/">>,
    "socket_path" :> <<"run">>, "socket_path" :> <<"/", "link">>, "socket_path" :> <<"/", "tmp", "/", "s">>,
    "scenes" :> <<Scene(<<"a">>, <<"Cam">>), Scene(<<"b">>, <<"cam", " ">>)>>,
    "scene_profiles" :> <<Hides(<<"cam">>, {}), Hides(<<" ", "Cam">>, {})>> >>

Obs == <<"OBS", "PW">>
Envs ==
  << [v \in {} |-> Null], <<"PW">> :> <<"x">> @@ Obs :> <<"x">>, <<"PW">> :> NotUnicode @@ Obs :> << >>,
    Obs :> <<"ctl">> @@ <<"OBSCTL", "CONFIG">> :> <<"/", "here">>,
    Obs :> <<"ctl">> >>

Broken == <<Missing, NoDirectory, Unparsable, Unreadable, SharedDirectory, Link, DanglingLink>>

Plain(name) == [name |-> name, config |-> Null]
Init1(force) == [name |-> "init", config |-> Null, force |-> force]
Serve(headless) == [name |-> "server", config |-> Null, headless |-> headless]
Install(e) == [name |-> "install", config |-> Null, executable |-> e]

From(at, env, clis, svcs, edits, counts) ==
  [contents |-> (Etc :> at @@ Here :> ("password_env" :> Null)), env |-> env, commands |-> (cli :> clis @@ svc :> svcs),
   edits |-> edits, left |-> (cli :> counts[1] @@ svc :> counts[2] @@ "edits" :> counts[3]),
   unit |-> NoUnit, answers |-> {}]

Answers ==
  [host : {<<" ">>, <<"a">>, <<"a", ":", "b">>}, port : {0, 1, 65536}, password : {<<" ">>, <<"x", " ">>, <<"ctl">>}]

(* Every config with every environment; two commands that look for a file  *)
(* and write it; the unit and the daemon behind it; two installations at   *)
(* once; two daemons, twice.                                               *)
Reading ==
  LET found == Sound \o Unsound \o Broken
  IN [i \in 1 .. 4 * Len(found) |->
        From(found[(i + 3) \div 4], Envs[1 + (i % 4)], {Plain("validate"), Plain("tui"), Serve(TRUE)}, {}, {}, <<2, 0, 0>>)]
Writing ==
  LET found == <<Missing, NoDirectory, SharedDirectory, DanglingLink, Unreadable>>
  IN [i \in 1 .. 2 * Len(found) |->
        [From(found[(i + 1) \div 2], Envs[1 + 4 * (i % 2)], {Init1(FALSE), Init1(TRUE), Serve(FALSE)}, {Init1(FALSE), Plain("validate")},
              {"port" :> 1, "port" :> 0}, <<1, 1, 1>>) EXCEPT !.answers = Answers]]
Serving ==
  LET units == <<NoUnit, e1, OddUnit>>
  IN [i \in DOMAIN units |->
        [From(Unparsable, Envs[1],
              {Install(e1), Install(bad), Plain("uninstall"), Plain("start"), Plain("stop")}, {},
              {<< >>, Unparsable}, <<3, 0, 1>>) EXCEPT !.unit = units[i]]]
Installing ==
  <<From(Missing, Envs[1], {Install(e1), Plain("uninstall")}, {Install(e2), Plain("uninstall")}, {}, <<2, 2, 0>>)>>
Meeting ==
  <<From(<< >>, Envs[1], {Serve(TRUE)}, {Serve(TRUE)}, {}, <<2, 2, 0>>)>>

SituationsAre == Reading \o Writing \o Serving \o Installing \o Meeting
=============================================================================
