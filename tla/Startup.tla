------------------------------ MODULE Startup -------------------------------
(***************************************************************************)
(* The commands that run in the process of the user and never reach a      *)
(* daemon - init, validate-config, server, service - with the config files *)
(* they read and write, the unit that systemd runs and the socket path     *)
(* daemons meet at (cli/router.rs, config/loader.rs, config/writer.rs,     *)
(* server/daemon.rs, service/installer.rs, and SocketPath for what follows *)
(* the config).                                                            *)
(*                                                                         *)
(* A process is invoked, one command after the other.  `Service` is one of *)
(* the processes, which systemd may start as well, by the installed unit:  *)
(* it restarts on failure and rests after an exit with 0.  A file is       *)
(* replaced in one step; how is ConfigFile's matter.                       *)
(***************************************************************************)
EXTENDS Settings, SocketPath

CONSTANTS
  Service,      \* the process that systemd runs
  Site,         \* the paths of config files
  Missing, NoDirectory, Unparsable, Unreadable, SharedDirectory, Link, DanglingLink,
                \* what a site may hold but a document
  NoUnit,       \* no unit file
  OddUnit,      \* something at its path that is no regular file
  Executable, SafeExecutable, \* what may be installed; what is checked and accepted
  Patience,     \* bound: how many delays a bounded policy is followed for
  Situations    \* a sequence of situations to begin with: see StartupInit

ASSUME SiteAssumption == DefaultPath \in Site /\ Service \in Process
ASSUME ExecutableAssumption == SafeExecutable \subseteq Executable

(* A situation gives every site its contents, and its commands name sites. *)
ASSUME SituationAssumption ==
  \A i \in DOMAIN Situations :
    /\ DOMAIN Situations[i].contents = Site
    /\ Situations[i].unit \in Executable \cup {NoUnit, OddUnit}
    /\ \A p \in Process : \A command \in Situations[i].commands[p] :
         ConfigPath(command.config, Situations[i].env) \in Site

VARIABLES
  start,     \* which situation this began with: environment, commands, edits, answers
  contents,  \* what each site holds
  phase,     \* where each process is in its command; "running" is SocketPath's
  task,      \* the command, and what first-time setup was told
  code,      \* how the process's last command exited
  left,      \* how many more commands each process may get, and edits the user may make
  unit,      \* the unit file, by its executable
  loaded,    \* the unit systemd knows
  wanted,    \* systemd keeps the service running
  approved,  \* history: sites found valid by validate-config and not changed since
  vouched    \* history: the last install or uninstall to end reported success

local == <<contents, approved>>
systemd == <<unit, loaded, wanted, vouched>>
startupVars == <<start, contents, phase, task, code, left, unit, loaded, wanted, approved, vouched, vars>>

Situation == Situations[start]
Env == Situation.env
Content(p) == contents[task[p].site]
Phases == {"idle", "resolve", "look", "write", "validate", "prompt", "load", "running", "unit", "reload"}

StartupTypeOK ==
  /\ TypeOK
  /\ phase \in [Process -> Phases]
  /\ DOMAIN contents = Site /\ approved \subseteq Site
  /\ unit \in Executable \cup {NoUnit, OddUnit} /\ loaded \in Executable \cup {NoUnit}
  /\ wanted \in BOOLEAN /\ vouched \in BOOLEAN

StartupInit ==
  /\ Init
  /\ start \in DOMAIN Situations
  /\ contents = Situation.contents
  /\ phase = [p \in Process |-> "idle"] /\ task = [p \in Process |-> Null] /\ code = [p \in Process |-> 0]
  /\ left = Situation.left
  /\ unit = Situation.unit /\ loaded = IF unit = OddUnit THEN NoUnit ELSE unit
  /\ wanted = FALSE
  /\ approved = {} /\ vouched = TRUE

-----------------------------------------------------------------------------
(* Files *)

(* Path::exists follows links and does not need to read.                   *)
Exists(content) == content \notin {Missing, NoDirectory, DanglingLink}

IsDocument(content) ==
  content \notin {Missing, NoDirectory, Unparsable, Unreadable, SharedDirectory, Link, DanglingLink}

(* load_with_warnings; its errors by their exit code.                      *)
Loads(content) ==
  IsDocument(content) /\ Parses(content) /\ Accepts(ConfigOf(content), Env)
LoadCode(content) == IF Loads(content) THEN 0 ELSE IF content = Unreadable THEN 1 ELSE 2

(* load_or_default, and load_runtime: the socket path it resolves has just *)
(* been found sound.  The defaults are checked as well, and their password *)
(* variable may hold what is no password.                                  *)
RuntimeLoads(content) == IF Exists(content) THEN Loads(content) ELSE Accepts(Defaults, Env)

(* write_atomic makes the directory, and refuses links and other people's  *)
(* directories.                                                            *)
Writable(content) == content \notin {SharedDirectory, Link, DanglingLink}
Writes(site, config) ==
  /\ contents' = [contents EXCEPT ![site] = Written(config)]
  /\ approved' = approved \ {site}

-----------------------------------------------------------------------------
(* Commands *)

Idle(p) == phase[p] = "idle" \/ (phase[p] = "running" /\ pc[p] \in Ended)
Goes(p, to) == phase' = [phase EXCEPT ![p] = to]
Exits(p, with) == Goes(p, "idle") /\ code' = [code EXCEPT ![p] = with]

(* A process gets its arguments; the config path is settled once.          *)
Invoke(p) ==
  /\ Idle(p) /\ left[p] > 0 /\ ~(p = Service /\ wanted)
  /\ \E command \in Situation.commands[p] :
       /\ command.name = "server" => run[p] < MaxRuns
       /\ task' = [task EXCEPT ![p] = [command |-> command, answers |-> Null,
                                       site |-> ConfigPath(command.config, Env)]]
       /\ Goes(p, CASE command.name \in {"init", "server"} -> "look"
                    [] command.name \in {"validate", "tui"} -> "validate"
                    [] OTHER -> "unit")
  /\ left' = [left EXCEPT ![p] = @ - 1]
  /\ UNCHANGED <<start, local, code, systemd, vars>>

Command(p) == task[p].command

(* run_init: a file that is there stays, unless --force is given.          *)
InitLooks(p) ==
  /\ phase[p] = "look" /\ Command(p).name = "init"
  /\ IF Exists(Content(p)) /\ ~Command(p).force THEN Exits(p, 1)
                                                 ELSE Goes(p, "write") /\ UNCHANGED code
  /\ UNCHANGED <<start, local, task, left, systemd, vars>>

InitWrites(p) ==
  /\ phase[p] = "write" /\ Command(p).name = "init"
  /\ IF Writable(Content(p)) THEN Writes(task[p].site, Defaults) /\ Exits(p, 0)
                             ELSE UNCHANGED local /\ Exits(p, 1)
  /\ UNCHANGED <<start, task, left, systemd, vars>>

(* run_validate_config reads the file itself; run_tui and run_proxy have   *)
(* what the start of the process has read, and exit 1 for any error.       *)
ValidateCode(content) == LoadCode(content)

Validates(p) ==
  /\ phase[p] = "validate" /\ Command(p).name = "validate"
  /\ Exits(p, ValidateCode(Content(p)))
  /\ approved' = IF ValidateCode(Content(p)) = 0 THEN approved \cup {task[p].site} ELSE approved
  /\ UNCHANGED <<start, contents, task, left, systemd, vars>>

OpensTui(p) ==
  /\ phase[p] = "validate" /\ Command(p).name = "tui"
  /\ Exits(p, IF RuntimeLoads(Content(p)) THEN 0 ELSE 1)
  /\ UNCHANGED <<start, local, task, left, systemd, vars>>

(* run_server: with no file and a terminal, setup comes first.             *)
ServerLooks(p) ==
  /\ phase[p] = "look" /\ Command(p).name = "server"
  /\ Goes(p, IF Exists(Content(p)) \/ Command(p).headless THEN "load" ELSE "prompt")
  /\ UNCHANGED <<start, local, task, code, left, systemd, vars>>

(* What was typed, without the blanks around it; a blank answer takes the  *)
(* default.  Ports that are none and unsound passwords are asked for       *)
(* again, an unsound host ends the setup when all has been asked.          *)
Prompted(answer, default) == IF Trim(answer) = << >> THEN default ELSE Trim(answer)

AskedAgain(answers) ==
  answers.port \notin 1 .. MaxPort \/ PlainFault(Trim(answers.password))

NoHostCheck(answers) == TRUE \* mutant
HostPasses(answers) == HostIsSound(Prompted(answers.host, Defaults.host))

Prompt(p) ==
  /\ phase[p] = "prompt"
  /\ \E answers \in Situation.answers :
       /\ ~AskedAgain(answers)
       /\ IF HostPasses(answers)
            THEN task' = [task EXCEPT ![p].answers = answers] /\ Goes(p, "write") /\ UNCHANGED code
            ELSE Exits(p, 1) /\ UNCHANGED task
  /\ UNCHANGED <<start, local, left, systemd, vars>>

SetupConfig(answers) ==
  [Defaults EXCEPT !.host = Prompted(answers.host, Defaults.host),
                   !.port = answers.port,
                   !.password_env = << >>,
                   !.password = IF Trim(answers.password) = << >> THEN Null ELSE Trim(answers.password)]

(* What stands for something else is none of the texts and documents that  *)
(* setup makes.                                                            *)
ASSUME MarkAssumption ==
  /\ Null \notin {<< >>, Defaults.password_env, Fault} /\ Null \notin ReconnectConfig
  /\ \A i \in DOMAIN Situations : \A answers \in Situations[i].answers :
       /\ IsDocument(Written(SetupConfig(answers)))
       /\ Trim(answers.password) # Fault

SetupWrites(p) ==
  /\ phase[p] = "write" /\ Command(p).name = "server"
  /\ IF Writable(Content(p))
       THEN Writes(task[p].site, SetupConfig(task[p].answers)) /\ Goes(p, "load") /\ UNCHANGED code
       ELSE UNCHANGED local /\ Exits(p, 1)
  /\ UNCHANGED <<start, task, left, systemd, vars>>

(* daemon::run reads the file anew; what follows is SocketPath's.          *)
LoadRuntime(p) ==
  /\ phase[p] = "load"
  /\ IF RuntimeLoads(Content(p)) THEN Goes(p, "running") /\ Start(p) /\ UNCHANGED code
                            ELSE Exits(p, 2) /\ UNCHANGED vars
  /\ UNCHANGED <<start, local, task, left, systemd>>

-----------------------------------------------------------------------------
(* The service *)

(* install, up to the new unit file, and uninstall up to its removal; both *)
(* then have systemd read its units.                                       *)
InstallUnit(p) ==
  /\ phase[p] = "unit" /\ Command(p).name = "install"
  /\ IF Command(p).executable \in SafeExecutable /\ unit # OddUnit
       THEN unit' = Command(p).executable /\ Goes(p, "reload") /\ UNCHANGED <<code, vouched>>
       ELSE Exits(p, 1) /\ vouched' = FALSE /\ UNCHANGED unit
  /\ UNCHANGED <<start, local, task, left, loaded, wanted, vars>>

GivesUpWithoutFile(p) == \* mutant
  /\ phase[p] = "unit" /\ Command(p).name = "uninstall"
  /\ IF unit \in {OddUnit, NoUnit} THEN Exits(p, 0) /\ vouched' = TRUE /\ UNCHANGED unit
                       ELSE unit' = NoUnit /\ Goes(p, "reload") /\ UNCHANGED <<code, vouched>>
  /\ UNCHANGED <<start, local, task, left, loaded, wanted, vars>>

UninstallUnit(p) ==
  /\ phase[p] = "unit" /\ Command(p).name = "uninstall"
  /\ IF unit = OddUnit THEN Exits(p, 1) /\ vouched' = FALSE /\ UNCHANGED unit
                       ELSE unit' = NoUnit /\ Goes(p, "reload") /\ UNCHANGED <<code, vouched>>
  /\ UNCHANGED <<start, local, task, left, loaded, wanted, vars>>

Reload(p) ==
  /\ phase[p] = "reload"
  /\ loaded' = IF unit = OddUnit THEN NoUnit ELSE unit
  /\ Exits(p, 0) /\ vouched' = TRUE
  /\ UNCHANGED <<start, local, task, left, unit, wanted, vars>>

ReloadFails(p) ==
  /\ phase[p] = "reload"
  /\ Exits(p, 1) /\ vouched' = FALSE
  /\ UNCHANGED <<start, local, task, left, unit, loaded, wanted, vars>>

(* systemctl start, stop and restart.  SIGTERM asks a daemon that serves   *)
(* to stop and kills one that has not come so far.                         *)
Terminates ==
  CASE phase[Service] = "running" /\ pc[Service] = "serving" -> StopAccepting(Service)
    [] phase[Service] = "running" /\ pc[Service] \notin Ended \cup {"serving", "draining"}
         /\ ~stopping[Service] -> Kill(Service)
    [] OTHER -> UNCHANGED vars

StartUnit(p) ==
  /\ phase[p] = "unit" /\ Command(p).name = "start"
  /\ wanted' = (wanted \/ loaded # NoUnit)
  /\ Exits(p, IF wanted' THEN 0 ELSE 1)
  /\ UNCHANGED <<start, local, task, left, unit, loaded, vouched, vars>>

StopUnit(p) ==
  /\ phase[p] = "unit" /\ Command(p).name = "stop"
  /\ wanted' = FALSE
  /\ Terminates
  /\ phase' = [phase EXCEPT ![p] = "idle",
                            ![Service] = IF wanted /\ @ \in {"look", "load"} THEN "idle" ELSE @]
  /\ code' = [code EXCEPT ![p] = IF wanted \/ loaded # NoUnit THEN 0 ELSE 1]
  /\ UNCHANGED <<start, local, task, left, unit, loaded, vouched>>

(* systemd runs `server --headless` on the user's own config.              *)
SystemdStarts ==
  /\ wanted /\ Idle(Service) /\ loaded # NoUnit /\ run[Service] < MaxRuns
  /\ task' = [task EXCEPT ![Service] =
                [command |-> [name |-> "server", headless |-> TRUE], answers |-> Null, site |-> DefaultPath]]
  /\ Goes(Service, "look")
  /\ UNCHANGED <<start, local, code, left, systemd, vars>>

-----------------------------------------------------------------------------
(* The daemon behind its config, and the user *)

(* A daemon that ends in order exits with 0, and systemd leaves it at      *)
(* that; one that fails or is killed is started again.                     *)
Rests(p) == wanted' = (wanted /\ ~(p = Service /\ pc[p] # "stopped" /\ pc'[p] = "stopped"))

Daemon(p) ==
  /\ phase[p] = "running"
  /\ Step(p) /\ Rests(p)
  /\ UNCHANGED <<start, local, phase, task, code, left, unit, loaded, vouched>>

(* Somebody asks it to stop, its accept loop fails, or it is killed.       *)
Ending(p) ==
  /\ phase[p] = "running"
  /\ StopAccepting(p) \/ Kill(p)
  /\ UNCHANGED <<start, local, phase, task, code, left, systemd>>

UserPlaces ==
  /\ Place
  /\ UNCHANGED <<start, local, phase, task, code, left, systemd>>

UserEdits ==
  /\ left.edits > 0
  /\ \E site \in Site : \E content \in Situation.edits \ {contents[site]} :
       contents' = [contents EXCEPT ![site] = content] /\ approved' = approved \ {site}
  /\ left' = [left EXCEPT !.edits = @ - 1]
  /\ UNCHANGED <<start, phase, task, code, systemd, vars>>

Proceeds(p) ==
  \/ InitLooks(p) \/ InitWrites(p) \/ Validates(p) \/ OpensTui(p)
  \/ ServerLooks(p) \/ SetupWrites(p) \/ LoadRuntime(p)
  \/ InstallUnit(p) \/ UninstallUnit(p) \/ Reload(p) \/ ReloadFails(p) \/ StartUnit(p) \/ StopUnit(p)
  \/ Daemon(p)

StartupNext ==
  \/ \E p \in Process : Invoke(p) \/ Prompt(p) \/ Proceeds(p) \/ Ending(p)
  \/ SystemdStarts \/ UserPlaces \/ UserEdits

StartupSpec == StartupInit /\ [][StartupNext]_startupVars

(* Nothing a daemon does on its way to serve waits for another process;    *)
(* systemd starts the service again after RestartSec.                      *)
FairStartupSpec ==
  /\ StartupSpec
  /\ WF_startupVars(ServerLooks(Service)) /\ WF_startupVars(LoadRuntime(Service))
  /\ WF_startupVars(Daemon(Service))
  /\ WF_startupVars(SystemdStarts)

-----------------------------------------------------------------------------
(***************************************************************************)
(* Properties                                                              *)
(***************************************************************************)

(* What is saved of a config loads again as that config: the answers of    *)
(* setup, a legacy document, a password variable that was switched off     *)
(* (Config, ConfigDocument).                                               *)
SavedLoadsBack(config) == Parses(Written(config)) /\ ConfigOf(Written(config)) = config

(* What a warning says will happen does, and nothing of the kind without   *)
(* it, though rule and behaviour live in different modules (schema.rs,     *)
(* localization.rs, parser.rs, validation.rs, scene_profiles.rs).  The     *)
(* exception is the code's: a prefix with a sign the palette knows at its  *)
(* front is warned of, and used.                                           *)
WarningsAreTrue(config) ==
  LET Warned(w) == w \in Warnings(config, Env)
      Unset == [variable \in {} |-> Null]
  IN /\ Warned("locale") <=> config.locale # Null /\ Locale(Unset, config.locale) # Lower(config.locale)
     /\ ~Warned("prefix") => PalettePrefix(config) = config.prefix
     /\ Warned("prefix") => PalettePrefix(config) = Defaults.prefix \/ Len(config.prefix) > 1
     /\ Warned("no password") => Password(config, Env) = Null
     /\ Password(config, Env) = Null => Warned("no password") \/ config.password_env = << >>
     /\ Warned("no profile") => ActiveOf(config) = {}
     /\ config.scenes # << >> => \A i \in DOMAIN config.scene_profiles :
          LET shown == Visibility({}, config.scene_profiles, {i})
          IN \A scene \in config.scene_profiles[i].hidden :
               <<i, scene>> \in UnknownHidden(config) <=>
                 ~\E j \in DOMAIN config.scenes :
                    /\ NormalizedName(config.scenes[j].name) = NormalizedName(scene)
                    /\ IsHidden(shown, config.scenes[j].name)

(* A config that a process is about to load, and to accept.                *)
Takes(p) == phase[p] \in {"validate", "load"} /\ Loads(Content(p))

(* Nothing a user is told of a config is untrue, and saving it keeps it.   *)
SettingsAreTold ==
  \A p \in Process :
    Takes(p) => LET config == ConfigOf(Content(p)) IN SavedLoadsBack(config) /\ WarningsAreTrue(config)

(* A bounded policy ends: its delays never shrink, and the longest is used *)
(* once - or a flat one once - whatever settings have been accepted        *)
(* (ReconnectPolicy::next_delay).                                          *)
BackoffEnds(r) ==
  \E n \in 0 .. Patience :
    /\ ToppedOut(r, n) /\ \A k \in 0 .. n - 1 : ~ToppedOut(r, k) /\ Delay(r, k) <= Delay(r, k + 1)
    /\ ~AtMostOne(r.multiplier) => Delay(r, n) = r.max

BackoffsEnd == \A p \in Process : Takes(p) => BackoffEnds(ConfigOf(Content(p)).reconnect)

(* What first-time setup has written the daemon of the same process can    *)
(* load, unless somebody has changed it meanwhile: its questions ask for   *)
(* no less than validation does (first_time_setup, validate).              *)
SetupLoads ==
  \A p \in Process :
    (phase[p] = "load" /\ task[p].answers # Null
       /\ Content(p) = Written(SetupConfig(task[p].answers)))
    => RuntimeLoads(Content(p))

(* A daemon takes what validate-config has found valid, as long as nobody  *)
(* changes it; the two load by different ways (run_validate_config,        *)
(* load_runtime).                                                          *)
ApprovedLoads == \A site \in approved : RuntimeLoads(contents[site])

(* Types, the two ways of writing or approving a config before it is       *)
(* loaded, and what its user is told of it.                                *)
StartupInv == StartupTypeOK /\ SetupLoads /\ ApprovedLoads /\ SettingsAreTold

(* When the last install or uninstall to end said that it succeeded, and   *)
(* none is between the file and the reload, systemd knows the unit that is *)
(* there: after failed reloads and retries, and with two at once           *)
(* (ServiceInstaller).                                                     *)
ServiceTruth ==
  vouched /\ (\A p \in Process : phase[p] # "reload") /\ unit # OddUnit => loaded = unit

(* A service that systemd was told to run gets to serve once its config    *)
(* loads and the path is its own: after failed starts, and after it was    *)
(* killed and left its socket behind.  It is given up when it ends with 0, *)
(* as it does when asked to, but also when its accept loop has failed      *)
(* (startup_failure, run, unit_file_content).                              *)
Unhindered == RuntimeLoads(contents[DefaultPath]) /\ loaded # NoUnit /\ Alone(Service)

AboutToStart == phase[Service] \in {"look", "load"} \/ (Idle(Service) /\ run[Service] < MaxRuns)
KilledTooOften == pc[Service] = "killed" /\ run[Service] = MaxRuns

ServiceComesUp ==
  wanted /\ Unhindered /\ AboutToStart
    ~> pc[Service] = "serving" \/ ~wanted \/ ~Unhindered \/ KilledTooOften
=============================================================================
