----------------------------- MODULE ConfigFile -----------------------------
(***************************************************************************)
(* The YAML config file and those who read and rewrite it.                 *)
(*                                                                         *)
(* In the daemon, commands of different clients edit the scene profiles,   *)
(* dump what OBS has and reload (server/command_executor.rs), one at a     *)
(* time under the config-file lock.  Outside the daemon the user edits the *)
(* file by hand or with `obsctl init`, and a TUI saves its theme           *)
(* (tui/actions.rs), none of which knows the lock.  The daemon may be      *)
(* killed, and power may fail, between any two steps.                      *)
(*                                                                         *)
(* A config is reduced to what the commands change: scene profiles, the    *)
(* active one, the theme, and one scene that OBS may have or not.          *)
(* A profile name stands for all its spellings, the rest of a config goes  *)
(* along unchanged.                                                        *)
(***************************************************************************)
EXTENDS Naturals

CONSTANTS
  Lane,         \* the command lanes, one per connection
  Name,         \* names of scene profiles
  Hidden,       \* what a profile may hide
  Theme,        \* the TUI's themes
  DefaultTheme,
  None,         \* no profile, nobody
  Missing,      \* there is no file
  Broken,       \* a file that does not parse
  Torn,         \* a file that power loss left incomplete
  UserContents, \* what the user may leave in the file's place
  MaxCommands, MaxOutside, MaxCrashes, MaxSeconds \* bounds

ASSUME NoneAssumption == None \notin Name \union Hidden \union Lane
ASSUME ThemeAssumption == DefaultTheme \in Theme
ASSUME BoundsAssumption ==
  MaxCommands \in Nat /\ MaxOutside \in Nat /\ MaxCrashes \in Nat /\ MaxSeconds \in Nat

(* listed: what the config says of the scene (stale: OBS has lost it)      *)
Config ==
  [profiles : [Name -> Hidden \union {None}],
   active : Name \union {None},
   theme : Theme,
   listed : {"no", "yes", "stale"}]

Default ==
  [profiles |-> [n \in Name |-> None], active |-> None, theme |-> DefaultTheme, listed |-> "no"]

Unreadable == {Missing, Broken, Torn}
Contents == Config \union Unreadable

ASSUME UnreadableAssumption ==
  (Unreadable \union {None}) \intersect Config = {} /\ Torn \notin {Missing, Broken}

(* active_scene_profile names a profile that is there.                     *)
PointsWell(config) == config.active # None => config.profiles[config.active] # None

(* The user writes no active profile that is not there.                    *)
ASSUME UserAssumption ==
  /\ UserContents \subseteq Contents \ {Torn}
  /\ \A content \in UserContents \intersect Config : PointsWell(content)

VARIABLES
  file,       \* what readers of the file find
  synced,     \* its data is on the disk
  disk,       \* what the directory on the disk refers to
  backups,    \* the backups, by the second of their names
  second,     \* the clock
  up,         \* the daemon runs
  memory,     \* its Config
  projection, \* the config its snapshot was last made from
  holder,     \* the lane that holds the config-file lock
  stage,      \* where each lane is in its command
  job,        \* the command, what it has read and what it will write
  tui,        \* the TUI's save of a theme: what it will write
  count,      \* commands, outside writes and crashes so far
  touched,    \* history: written from outside since memory was last made from the file
  moved,      \* history: written from outside since the holder has read it
  missed,     \* history: written by others since the TUI has read it
  dumped      \* history: memory was last made by a dump

disks == <<file, synced, disk, backups, second>>
daemon == <<up, memory, projection>>
work == <<holder, stage, job>>
history == <<touched, moved, dumped>>
vars == <<disks, daemon, work, tui, missed, count, history>>

Commands ==
  [kind : {"save"}, name : Name, from : Name \union {None}, hidden : Hidden]
    \union [kind : {"set", "delete"}, name : Name]
    \union [kind : {"clear", "reload"}]
    \union [kind : {"dump"}, found : BOOLEAN] \* whether OBS has the scene

NoJob == [command |-> None, read |-> None, config |-> None]
Jobs ==
  [command : Commands, read : Contents \union {None}, config : Config \union {None}] \union {NoJob}

Stages == {"idle", "waiting", "backup", "write", "rename", "reload", "apply", "publish"}

(* What each variable holds; a lane past the lock is its holder.           *)
TypeOK ==
  /\ file \in Contents /\ disk \in Contents /\ synced \in BOOLEAN
  /\ backups \in [0 .. MaxSeconds -> Contents \union {None}]
  /\ second \in 0 .. MaxSeconds
  /\ up \in BOOLEAN /\ memory \in Config /\ projection \in Config
  /\ stage \in [Lane -> Stages] /\ job \in [Lane -> Jobs]
  /\ holder \in Lane \union {None}
  /\ \A l \in Lane : stage[l] \notin {"idle", "waiting"} => holder = l
  /\ tui \in Config \union {None}
  /\ count \in [commands : 0 .. MaxCommands, outside : 0 .. MaxOutside, crashes : 0 .. MaxCrashes]
  /\ touched \in BOOLEAN /\ moved \in BOOLEAN /\ dumped \in BOOLEAN /\ missed \in BOOLEAN

(* load_or_default                                                         *)
LoadedOrDefault(content) == IF content \in Config THEN content ELSE Default

Init ==
  /\ file \in UserContents \ {Broken} /\ disk = file /\ synced = TRUE
  /\ backups = [s \in 0 .. MaxSeconds |-> None] /\ second = 0
  /\ up = TRUE
  /\ memory = LoadedOrDefault(file) /\ projection = memory
  /\ holder = None
  /\ stage = [l \in Lane |-> "idle"] /\ job = [l \in Lane |-> NoJob]
  /\ tui = None
  /\ count = [commands |-> 0, outside |-> 0, crashes |-> 0]
  /\ touched = FALSE /\ moved = FALSE /\ dumped = FALSE /\ missed = FALSE

-----------------------------------------------------------------------------
(* What the commands make of a config                                      *)

Has(config, n) == n # None /\ config.profiles[n] # None

Renames(command, config) == Has(config, command.from)

(* cmd_save_scene_profile: renaming takes the active pointer along.        *)
MovedPointer(command, config) ==
  IF Renames(command, config) /\ config.active = command.from THEN command.name ELSE config.active

Saved(command, config) ==
  [config EXCEPT
     !.profiles = [n \in Name |->
                     IF n = command.name THEN command.hidden
                     ELSE IF Renames(command, config) /\ n = command.from THEN None
                     ELSE config.profiles[n]],
     !.active = MovedPointer(command, config)]

(* cmd_delete_scene_profile: the active one is switched off.               *)
Deleted(n, config) ==
  [config EXCEPT !.profiles[n] = None,
                 !.active = IF config.active = n THEN None ELSE config.active]

(* merge: a scene OBS has lost is marked, never removed.                   *)
Merged(found, config) ==
  [config EXCEPT !.listed = IF found THEN "yes" ELSE IF config.listed = "no" THEN "no" ELSE "stale"]

(* A rename onto another profile, or a profile that is not there.          *)
Allowed(command, config) ==
  CASE command.kind = "save" ->
         Renames(command, config) /\ command.name # command.from => ~Has(config, command.name)
    [] command.kind \in {"set", "delete"} -> Has(config, command.name)
    [] OTHER -> TRUE

Effect(command, config) ==
  CASE command.kind = "save"   -> Saved(command, config)
    [] command.kind = "set"    -> [config EXCEPT !.active = command.name]
    [] command.kind = "delete" -> Deleted(command.name, config)
    [] command.kind = "clear"  -> [config EXCEPT !.active = None]
    [] command.kind = "dump"   -> Merged(command.found, config)
    [] command.kind = "reload" -> config

-----------------------------------------------------------------------------
(* A command in its lane                                                   *)

Kind(l) == job[l].command.kind
Goes(l, to) == stage' = [stage EXCEPT ![l] = to]

Returns(l) ==
  /\ Goes(l, "idle")
  /\ job' = [job EXCEPT ![l] = NoJob]
  /\ holder' = None

Start(l) ==
  /\ up /\ stage[l] = "idle" /\ count.commands < MaxCommands
  /\ \E command \in Commands :
       job' = [job EXCEPT ![l] = [NoJob EXCEPT !.command = command]]
  /\ Goes(l, "waiting")
  /\ count' = [count EXCEPT !.commands = @ + 1]
  /\ UNCHANGED <<disks, daemon, holder, tui, missed, history>>

Unlocked(l) == TRUE \* mutant
LockFree(l) == holder = None

(* config_write_base: the file, or the memory when the file is of no use.  *)
Base == IF file \in Config THEN file ELSE memory

(* An edit does without a file, not with a broken one; a dump does with    *)
(* either, a reload with none.                                             *)
Usable(l) ==
  \/ file \in Config
  \/ Kind(l) = "dump"
  \/ Kind(l) # "reload" /\ file = Missing

AsRead(l) == [job[l] EXCEPT !.read = file, !.config = Effect(job[l].command, Base)]

(* config_file_would_change: compared as they would be written.            *)
WouldChange(before, after) == before # after

(* Takes the lock, reads and works out the new config.  An edit that       *)
(* changes nothing is not written.                                         *)
Read(l) ==
  /\ stage[l] = "waiting" /\ LockFree(l)
  /\ Usable(l) /\ Allowed(job[l].command, Base)
  /\ holder' = l
  /\ job' = [job EXCEPT ![l] = AsRead(l)]
  /\ Goes(l, CASE Kind(l) = "dump" -> "backup"
               [] Kind(l) # "dump" /\ ~WouldChange(Base, AsRead(l).config) -> "apply"
               [] OTHER -> "write")
  /\ moved' = FALSE
  /\ UNCHANGED <<disks, daemon, tui, missed, count, touched, dumped>>

(* What is read cannot be used or edited, or does not pass validation or,  *)
(* in a dump, the checks for collisions.                                   *)
Refuse(l) ==
  /\ stage[l] = "waiting" /\ LockFree(l)
  /\ Returns(l)
  /\ UNCHANGED <<disks, daemon, tui, missed, count, history>>

(* write_backup reads the file again.  The name has the second in it and   *)
(* replaces a backup of the same second.                                   *)
OnlyReadable(content) == content \in Config \* mutant
WorthKeeping(content) == content # Missing

Backup(l) ==
  /\ stage[l] = "backup"
  /\ backups' = IF WorthKeeping(file) THEN [backups EXCEPT ![second] = file] ELSE backups
  /\ Goes(l, "write")
  /\ UNCHANGED <<file, synced, disk, second, daemon, holder, job, tui, missed, count, history>>

(* The new content is in a temporary file, on the disk.                    *)
WriteTemp(l) ==
  /\ stage[l] = "write"
  /\ Goes(l, "rename")
  /\ UNCHANGED <<disks, daemon, holder, job, tui, missed, count, history>>

(* Any step of the writing fails; the temporary file is removed.           *)
AppliesFirst(l) == memory' = job[l].config /\ UNCHANGED projection \* mutant
KeepsMemory(l) == UNCHANGED <<memory, projection>>

WriteFails(l) ==
  /\ stage[l] \in {"backup", "write", "rename"}
  /\ Returns(l)
  /\ KeepsMemory(l)
  /\ UNCHANGED <<disks, up, tui, missed, count, history>>

SyncedFirst == TRUE

(* rename(2) of the temporary file over the config file.                   *)
Replaces(content) ==
  /\ file' = content
  /\ synced' = SyncedFirst
  /\ UNCHANGED <<disk, backups, second>>

Rename(l) ==
  /\ stage[l] = "rename"
  /\ Replaces(job[l].config)
  /\ Goes(l, IF Kind(l) = "dump" THEN "reload" ELSE "apply")
  /\ moved' = FALSE /\ missed' = (tui # None)
  /\ UNCHANGED <<daemon, holder, job, tui, count, touched, dumped>>

(* reload_after_dump: loads whatever the file holds by now, if it loads,   *)
(* and tells the snapshot nothing.                                         *)
ReloadAfterDump(l) ==
  /\ stage[l] = "reload"
  /\ IF file \in Config
     THEN memory' = file /\ touched' = FALSE /\ dumped' = TRUE
     ELSE touched' = moved /\ UNCHANGED <<memory, dumped>>
  /\ Returns(l)
  /\ UNCHANGED <<disks, up, projection, tui, missed, count, moved>>

Apply(l) ==
  /\ stage[l] = "apply"
  /\ memory' = job[l].config
  /\ touched' = moved
  /\ Goes(l, "publish")
  /\ UNCHANGED <<disks, up, projection, holder, job, tui, missed, count, moved, dumped>>

(* merge_config, and the end of the command.                               *)
Publish(l) ==
  /\ stage[l] = "publish"
  /\ projection' = job[l].config
  /\ dumped' = FALSE
  /\ Returns(l)
  /\ UNCHANGED <<disks, up, memory, tui, missed, count, touched, moved>>

CommandStep(l) ==
  \/ Read(l) \/ Refuse(l) \/ Backup(l) \/ WriteTemp(l) \/ WriteFails(l) \/ Rename(l)
  \/ ReloadAfterDump(l) \/ Apply(l) \/ Publish(l)

-----------------------------------------------------------------------------
(* Outside the daemon                                                      *)

FromOutside == touched' = TRUE /\ moved' = TRUE /\ UNCHANGED dumped

(* The user edits, removes or initialises the file, properly saved.        *)
UserWrites ==
  /\ count.outside < MaxOutside
  /\ count' = [count EXCEPT !.outside = @ + 1]
  /\ file' \in UserContents \ {file} /\ disk' = file' /\ synced' = TRUE
  /\ FromOutside /\ missed' = (tui # None)
  /\ UNCHANGED <<backups, second, daemon, work, tui>>

(* persist_theme_choice: loads the file, or starts from the defaults ...   *)
OnlyDefault(theme) == [Default EXCEPT !.theme = theme] \* mutant
Themed(theme) == [LoadedOrDefault(file) EXCEPT !.theme = theme]

ThemeRead ==
  /\ tui = None /\ count.outside < MaxOutside
  /\ file \notin {Broken, Torn}
  /\ \E theme \in Theme : tui' = Themed(theme)
  /\ missed' = FALSE
  /\ count' = [count EXCEPT !.outside = @ + 1]
  /\ UNCHANGED <<disks, daemon, work, history>>

(* ... and writes it.                                                      *)
ThemeWrite ==
  /\ tui # None
  /\ Replaces(tui)
  /\ tui' = None /\ missed' = FALSE
  /\ FromOutside
  /\ UNCHANGED <<daemon, work, count>>

ThemeFails ==
  /\ tui # None
  /\ tui' = None /\ missed' = FALSE
  /\ UNCHANGED <<disks, daemon, work, count, history>>

-----------------------------------------------------------------------------
(* Clock, file system, crashes                                             *)

Tick ==
  /\ second < MaxSeconds
  /\ second' = second + 1
  /\ UNCHANGED <<file, synced, disk, backups, daemon, work, tui, missed, count, history>>

(* The file system writes back what it has in memory.                      *)
Settle ==
  /\ disk # file \/ ~synced
  /\ disk' = file /\ synced' = TRUE
  /\ UNCHANGED <<file, backups, second, daemon, work, tui, missed, count, history>>

Stops ==
  /\ count.crashes < MaxCrashes
  /\ count' = [count EXCEPT !.crashes = @ + 1]
  /\ up' = FALSE
  /\ holder' = None
  /\ stage' = [l \in Lane |-> "idle"] /\ job' = [l \in Lane |-> NoJob]
  /\ UNCHANGED <<memory, projection>>

Killed ==
  /\ up
  /\ Stops
  /\ UNCHANGED <<disks, tui, missed, history>>

(* The old or the new file is found again, the new one whole only if its   *)
(* data had been synced.                                                   *)
PowerFails ==
  /\ Stops
  /\ file' \in {disk, IF synced THEN file ELSE Torn}
  /\ disk' = file' /\ synced' = TRUE
  /\ tui' = None /\ missed' = FALSE
  /\ UNCHANGED <<backups, second, history>>

(* run loads the config or gives up, and seeds the snapshot from it.       *)
Restart ==
  /\ ~up
  /\ file \notin {Broken, Torn}
  /\ up' = TRUE
  /\ memory' = LoadedOrDefault(file) /\ projection' = memory'
  /\ touched' = FALSE /\ moved' = FALSE /\ dumped' = FALSE
  /\ UNCHANGED <<disks, work, tui, missed, count>>

Next ==
  \/ \E l \in Lane : Start(l) \/ CommandStep(l)
  \/ UserWrites \/ ThemeRead \/ ThemeWrite \/ ThemeFails
  \/ Tick \/ Settle \/ Killed \/ PowerFails \/ Restart

Spec == Init /\ [][Next]_vars

-----------------------------------------------------------------------------
(* Properties                                                              *)

(* What the daemon runs on is what the file says, whenever no command is   *)
(* at work and nobody else has written the file: through edits, refused    *)
(* and failed ones, dumps, reloads, crashes and restarts.                  *)
MemoryAgrees ==
  up /\ holder = None /\ ~touched => memory = file \/ file = Missing

(* What clients are shown of the config is what the daemon runs on, unless *)
(* a dump was the last to load it.                                         *)
SnapshotAgrees ==
  up /\ holder = None /\ ~dumped => projection = memory

(* No config names an active profile that is not there: not the file, not  *)
(* the daemon's, and none on its way from one to the other.                *)
ActiveExists ==
  /\ file \in Config => PointsWell(file)
  /\ PointsWell(memory)
  /\ \A l \in Lane : job[l].config # None => PointsWell(job[l].config)

(* A crash leaves the old file or the new one, and the daemon can load it. *)
NeverTorn == file # Torn

(* File, memory and snapshot agree and can be used, through everything.    *)
ConfigInv == TypeOK /\ MemoryAgrees /\ SnapshotAgrees /\ ActiveExists /\ NeverTorn

(* No command undoes another: the file a command replaces is the one it    *)
(* has read, unless somebody outside the daemon came in between.           *)
BuildsOnFile ==
  [][\A l \in Lane : Rename(l) => file = job[l].read \/ moved]_vars

(* A dump replaces nothing that is not in a backup, least of all a file    *)
(* that it could not read.                                                 *)
BackedUp ==
  [][\A l \in Lane : Rename(l) /\ Kind(l) = "dump" /\ ~moved =>
       file = Missing \/ \E s \in 0 .. MaxSeconds : backups[s] = file]_vars

(* A theme saved by a TUI changes nothing but the theme, whatever the file *)
(* went through before, unless somebody wrote between its load and its     *)
(* write, which take no lock.                                              *)
ThemeAlone ==
  [][ThemeWrite /\ ~missed => file' = [LoadedOrDefault(file) EXCEPT !.theme = file'.theme]]_vars
=============================================================================
