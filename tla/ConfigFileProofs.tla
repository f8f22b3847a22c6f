-------------------------- MODULE ConfigFileProofs --------------------------
(***************************************************************************)
(* TLAPS proofs about ConfigFile, for any lanes, profiles, themes, and     *)
(* bounds: what the daemon runs on and shows is what the file says, no     *)
(* command undoes another, nothing is replaced without a backup by a dump, *)
(* no crash tears the file, no active profile is dangling, and a saved     *)
(* theme keeps the other settings.                                         *)
(***************************************************************************)
EXTENDS ConfigFile, TLAPS

Found == Contents \ {Torn}

JobShape == [command : Commands \union {None}, read : Contents \union {None},
             config : Config \union {None}]

(* Types, and the lock: past it a lane is the holder and knows what it     *)
(* will write.                                                             *)
Shape ==
  /\ file \in Found /\ disk \in Found /\ synced = TRUE
  /\ backups \in [0 .. MaxSeconds -> Contents \union {None}] /\ second \in 0 .. MaxSeconds
  /\ up \in BOOLEAN /\ memory \in Config
  /\ stage \in [Lane -> Stages] /\ job \in [Lane -> JobShape]
  /\ tui \in Config \union {None}
  /\ \A l \in Lane : stage[l] = "waiting" => job[l].command \in Commands
  /\ \A l \in Lane : stage[l] \notin {"idle", "waiting"} =>
       /\ holder = l
       /\ job[l].config \in Config
  /\ holder = None => \A l \in Lane : stage[l] \in {"idle", "waiting"}
  /\ up \/ \A l \in Lane : stage[l] = "idle"

(* Every config on its way names an active profile that is there.          *)
Pointers ==
  /\ \A config \in {file, disk, memory} : config \in Config => PointsWell(config)
  /\ tui # None => PointsWell(tui)
  /\ \A l \in Lane : job[l].config # None => PointsWell(job[l].config)

(* What the holder has read is still there, and backed up, until it writes,*)
(* and what it has written until it loads or applies it.                   *)
HolderKnows ==
  \A l \in Lane :
    /\ stage[l] \in {"backup", "write", "rename"} => moved \/ file = job[l].read
    /\ stage[l] \in {"write", "rename"} /\ Kind(l) = "dump" =>
         moved \/ file = Missing \/ \E s \in 0 .. MaxSeconds : backups[s] = file
    /\ stage[l] \in {"reload", "apply"} => moved \/ file = job[l].config \/ file = Missing
    /\ stage[l] = "publish" => memory = job[l].config

(* Memory follows the file except between a write and its application, the *)
(* snapshot follows memory except between application and publication.     *)
MemoryFollows ==
  /\ up /\ (\A l \in Lane : stage[l] \notin {"reload", "apply"}) =>
       touched \/ memory = file \/ file = Missing
  /\ up /\ (\A l \in Lane : stage[l] # "publish") => dumped \/ projection = memory

FileInv == Shape /\ Pointers /\ HolderKnows /\ MemoryFollows

-----------------------------------------------------------------------------
(* What commands make of a config                                          *)

LEMMA DefaultWell == Default \in Config /\ PointsWell(Default)
  BY ThemeAssumption DEF Default, Config, PointsWell, ThemeAssumption

LEMMA SaveWell ==
  ASSUME NEW config \in Config, PointsWell(config),
         NEW command \in [kind : {"save"}, name : Name, from : Name \union {None}, hidden : Hidden]
  PROVE  Saved(command, config) \in Config /\ PointsWell(Saved(command, config))
<1>1. command.name \in Name /\ command.hidden \in Hidden /\ command.from \in Name \union {None}
  OBVIOUS
<1>2. command.name # None /\ command.hidden # None
  BY <1>1, NoneAssumption DEF NoneAssumption
<1>3. MovedPointer(command, config) \in Name \union {None}
  BY <1>1 DEF MovedPointer, Config
<1>4. Saved(command, config) \in Config
  BY <1>1, <1>3 DEF Saved, Config
<1>5. Saved(command, config).active = MovedPointer(command, config)
  BY DEF Saved, Config
<1>6. \A n \in Name : Saved(command, config).profiles[n] =
        IF n = command.name THEN command.hidden
        ELSE IF Renames(command, config) /\ n = command.from THEN None
        ELSE config.profiles[n]
  BY DEF Saved, Config
<1>7. PointsWell(Saved(command, config))
  <2>1. CASE Renames(command, config) /\ config.active = command.from
    BY <1>1, <1>2, <1>5, <1>6, <2>1 DEF MovedPointer, PointsWell
  <2>2. CASE ~(Renames(command, config) /\ config.active = command.from)
    BY <1>1, <1>2, <1>5, <1>6, <2>2 DEF MovedPointer, PointsWell, Config
  <2> QED
    BY <2>1, <2>2
<1> QED
  BY <1>4, <1>7

LEMMA EffectWell ==
  ASSUME NEW config \in Config, PointsWell(config),
         NEW command \in Commands, Allowed(command, config)
  PROVE  Effect(command, config) \in Config /\ PointsWell(Effect(command, config))
<1>1. CASE command \in [kind : {"save"}, name : Name, from : Name \union {None}, hidden : Hidden]
  <2>1. command.kind = "save"
    BY <1>1
  <2>2. Effect(command, config) = Saved(command, config)
    BY <2>1 DEF Effect
  <2> QED
    BY <1>1, <2>2, SaveWell
<1>2. CASE command \in [kind : {"set", "delete"}, name : Name]
  <2>1. command.name \in Name /\ command.kind \in {"set", "delete"}
    BY <1>2
  <2>2. command.name # None
    BY <2>1, NoneAssumption DEF NoneAssumption
  <2>3. config.profiles[command.name] # None
    BY <2>1 DEF Allowed, Has
  <2>4. CASE command.kind = "set"
    <3>1. Effect(command, config) = [config EXCEPT !.active = command.name]
      BY <2>4 DEF Effect
    <3> QED
      BY <2>1, <2>3, <3>1 DEF Config, PointsWell
  <2>5. CASE command.kind = "delete"
    <3>1. Effect(command, config) = Deleted(command.name, config)
      BY <2>5 DEF Effect
    <3>2. Deleted(command.name, config) \in Config
      BY <2>1 DEF Deleted, Config
    <3>3. PointsWell(Deleted(command.name, config))
      BY <2>1 DEF Deleted, Config, PointsWell
    <3> QED
      BY <3>1, <3>2, <3>3
  <2> QED
    BY <2>1, <2>4, <2>5
<1>3. CASE command \in [kind : {"clear", "reload"}]
  <2>1. command.kind \in {"clear", "reload"}
    BY <1>3
  <2>2. CASE command.kind = "clear"
    <3>1. Effect(command, config) = [config EXCEPT !.active = None]
      BY <2>2 DEF Effect
    <3> QED
      BY <3>1 DEF Config, PointsWell
  <2>3. CASE command.kind = "reload"
    BY <2>3 DEF Effect
  <2> QED
    BY <2>1, <2>2, <2>3
<1>4. CASE command \in [kind : {"dump"}, found : BOOLEAN]
  <2>1. command.kind = "dump"
    BY <1>4
  <2>2. Effect(command, config) = Merged(command.found, config)
    BY <2>1 DEF Effect
  <2> QED
    BY <2>2 DEF Merged, Config, PointsWell
<1> QED
  BY <1>1, <1>2, <1>3, <1>4 DEF Commands

LEMMA InitFile == Init => FileInv
<1> SUFFICES ASSUME Init PROVE FileInv
  OBVIOUS
<1>1. file \in Found /\ (file \in Config => PointsWell(file))
  BY UserAssumption DEF Init, Found, UserAssumption
<1>2. memory \in Config /\ PointsWell(memory) /\ (memory = file \/ file = Missing)
  BY <1>1, DefaultWell DEF Init, LoadedOrDefault, Found, Contents, Unreadable, UserAssumption
<1>3. NoJob \in JobShape /\ NoJob.config = None
  BY DEF NoJob, JobShape
<1>4. 0 \in 0 .. MaxSeconds
  BY BoundsAssumption DEF BoundsAssumption
<1>5. Shape
  BY <1>1, <1>2, <1>3, <1>4 DEF Init, Shape, Stages
<1>6. Pointers
  BY <1>1, <1>2, <1>3 DEF Init, Pointers
<1>7. HolderKnows /\ MemoryFollows
  BY <1>2 DEF Init, HolderKnows, MemoryFollows
<1> QED
  BY <1>5, <1>6, <1>7 DEF FileInv

-----------------------------------------------------------------------------
(* The steps of a command.  What the holder has read or written concerns   *)
(* no other lane, of which none is past the lock.                          *)

LEMMA OthersWait ==
  ASSUME Shape, NEW l \in Lane, stage[l] \notin {"idle", "waiting"},
         NEW k \in Lane, k # l
  PROVE  stage[k] \in {"idle", "waiting"}
  BY DEF Shape

(* With the lock free, memory follows the file and the snapshot memory.    *)
LEMMA FreeIsEven ==
  ASSUME FileInv, up, holder = None
  PROVE  (touched \/ memory = file \/ file = Missing) /\ (dumped \/ projection = memory)
<1>1. \A l \in Lane : stage[l] \in {"idle", "waiting"}
  BY DEF FileInv, Shape
<1> QED
  BY <1>1 DEF FileInv, MemoryFollows

LEMMA NoJobWell == NoJob \in JobShape /\ NoJob.config = None
  BY DEF NoJob, JobShape

LEMMA StartKeeps == ASSUME FileInv, NEW l \in Lane, Start(l) PROVE FileInv'
<1>1. PICK command \in Commands : job' = [job EXCEPT ![l] = [NoJob EXCEPT !.command = command]]
  BY DEF Start
<1>2. [NoJob EXCEPT !.command = command] \in JobShape
      /\ [NoJob EXCEPT !.command = command].command = command
      /\ [NoJob EXCEPT !.command = command].config = None
  BY DEF NoJob, JobShape
<1>3. stage' = [stage EXCEPT ![l] = "waiting"] /\ stage[l] = "idle"
  BY DEF Start, Goes
<1>4. UNCHANGED <<disks, daemon, holder, tui, history>>
  BY DEF Start
<1>5. Shape'
  <2>1. up'
    BY <1>4 DEF Start, daemon
  <2>2. stage' \in [Lane -> Stages] /\ job' \in [Lane -> JobShape]
    BY <1>1, <1>2, <1>3 DEF FileInv, Shape, Stages
  <2>3. \A k \in Lane : stage'[k] = "waiting" => job'[k].command \in Commands
    BY <1>1, <1>2, <1>3 DEF FileInv, Shape
  <2>4. \A k \in Lane : stage'[k] \notin {"idle", "waiting"} =>
          stage'[k] = stage[k] /\ job'[k] = job[k]
    BY <1>1, <1>3 DEF FileInv, Shape
  <2>5. holder = None => \A k \in Lane : stage'[k] \in {"idle", "waiting"}
    BY <1>3 DEF FileInv, Shape
  <2> QED
    BY <1>4, <2>1, <2>2, <2>3, <2>4, <2>5 DEF FileInv, Shape, disks, daemon
<1>6. Pointers'
  BY <1>1, <1>2, <1>4 DEF FileInv, Shape, Pointers, disks, daemon
<1>7. \A k \in Lane : k # l => stage'[k] = stage[k] /\ job'[k] = job[k]
  BY <1>1, <1>3 DEF FileInv, Shape
<1>8. HolderKnows'
  BY <1>3, <1>4, <1>7 DEF FileInv, Shape, HolderKnows, Kind, disks, daemon, history
<1>9. MemoryFollows'
  BY <1>3, <1>4 DEF FileInv, Shape, MemoryFollows, disks, daemon, history
<1> QED
  BY <1>5, <1>6, <1>8, <1>9 DEF FileInv

LEMMA ReadKeeps == ASSUME FileInv, NEW l \in Lane, Read(l) PROVE FileInv'
<1> DEFINE command == job[l].command
           config == Effect(command, Base)
<1>1. command \in Commands /\ holder = None
  BY DEF FileInv, Shape, Read, LockFree
<1>2. Base \in Config /\ PointsWell(Base)
  BY DEF FileInv, Shape, Pointers, Base
<1>3. config \in Config /\ PointsWell(config)
  BY <1>1, <1>2, EffectWell DEF Read
<1>4. config # None => PointsWell(config)
  BY <1>3
<1>5. job' = [job EXCEPT ![l] = AsRead(l)] /\ job \in [Lane -> JobShape]
  BY DEF Read, FileInv, Shape
<1>6. /\ AsRead(l) \in JobShape /\ AsRead(l).config = config /\ AsRead(l).read = file
      /\ AsRead(l).command = command
  <2>1. job[l] \in JobShape
    BY <1>5
  <2>2. file \in Contents
    BY DEF FileInv, Shape, Found
  <2> QED
    BY <1>3, <2>1, <2>2 DEF AsRead, JobShape
<1>7. /\ stage[l] = "waiting"
      /\ stage' = [stage EXCEPT ![l] = stage'[l]]
      /\ stage'[l] \in {"backup", "apply", "write"}
      /\ stage'[l] = "write" => Kind(l) # "dump"
      /\ stage'[l] = "apply" => config = Base
  <2>1. stage \in [Lane -> Stages]
    BY DEF FileInv, Shape
  <2>2. CASE Kind(l) = "dump"
    <3>1. stage' = [stage EXCEPT ![l] = "backup"]
      BY <2>2 DEF Read, Goes
    <3> QED
      BY <2>1, <3>1 DEF Read
  <2>3. CASE Kind(l) # "dump" /\ AsRead(l).config = Base
    <3>1. stage' = [stage EXCEPT ![l] = "apply"]
      BY <2>3 DEF Read, Goes, WouldChange
    <3> QED
      BY <1>6, <2>1, <2>3, <3>1 DEF Read
  <2>4. CASE Kind(l) # "dump" /\ AsRead(l).config # Base
    <3>1. stage' = [stage EXCEPT ![l] = "write"]
      BY <2>4 DEF Read, Goes, WouldChange
    <3> QED
      BY <2>1, <2>4, <3>1 DEF Read
  <2> QED
    BY <2>2, <2>3, <2>4
<1>8. UNCHANGED <<disks, daemon, tui, touched, dumped>> /\ moved' = FALSE /\ holder' = l
  BY DEF Read
<1>9. \A k \in Lane : stage[k] \in {"idle", "waiting"}
  BY <1>1 DEF FileInv, Shape
<1>10. \A k \in Lane : k # l => stage'[k] = stage[k] /\ job'[k] = job[k]
  BY <1>5, <1>7 DEF FileInv, Shape
<1>11. job'[l] = AsRead(l)
  BY <1>5
<1>12. Shape'
  <2>1. stage' \in [Lane -> Stages]
    BY <1>7 DEF FileInv, Shape, Stages
  <2>2. job' \in [Lane -> JobShape]
    BY <1>5, <1>6
  <2>3. \A k \in Lane : stage'[k] = "waiting" => job'[k].command \in Commands
    BY <1>7, <1>10 DEF FileInv, Shape
  <2>4. \A k \in Lane : stage'[k] \notin {"idle", "waiting"} => k = l
    BY <1>9, <1>10
  <2>5. job'[l].config \in Config
    BY <1>3, <1>6, <1>11
  <2>6. l # None
    BY NoneAssumption DEF NoneAssumption
  <2>7. up
    BY <1>7 DEF FileInv, Shape
  <2> QED
    BY <1>8, <2>1, <2>2, <2>3, <2>4, <2>5, <2>6, <2>7 DEF FileInv, Shape, disks, daemon
<1>13. Pointers'
  BY <1>4, <1>6, <1>8, <1>10, <1>11 DEF FileInv, Pointers, disks, daemon
<1>14. HolderKnows'
  <2>1. \A k \in Lane : k # l => stage'[k] \in {"idle", "waiting"}
    BY <1>9, <1>10
  <2>2. job'[l].read = file'
    BY <1>6, <1>8, <1>11 DEF disks
  <2>3. stage'[l] = "write" => Kind(l)' # "dump"
    BY <1>6, <1>7, <1>11 DEF Kind
  <2>4. stage'[l] = "apply" => file' = job'[l].config \/ file' = Missing
    <3>1. CASE Kind(l) = "dump"
      BY <3>1 DEF Read, Goes, FileInv, Shape
    <3>2. CASE Kind(l) # "dump"
      <4>1. file \in Config \/ file = Missing
        BY <3>2 DEF Read, Usable
      <4> QED
        BY <1>6, <1>7, <1>8, <1>11, <4>1 DEF Base, disks
    <3> QED
      BY <3>1, <3>2
  <2>5. stage'[l] \notin {"rename", "reload", "publish"}
    BY <1>7
  <2> QED
    BY <1>7, <2>1, <2>2, <2>3, <2>4, <2>5 DEF HolderKnows
<1>15. MemoryFollows'
  BY <1>1, <1>8, FreeIsEven DEF MemoryFollows, disks, daemon
<1> QED
  BY <1>12, <1>13, <1>14, <1>15 DEF FileInv

(* The end of a command leaves every lane before the lock.                 *)
LEMMA ReturnKeeps ==
  ASSUME FileInv, NEW l \in Lane, Returns(l),
         \A k \in Lane : k # l => stage[k] \in {"idle", "waiting"},
         UNCHANGED <<disks, up, tui>>,
         memory' \in Config, PointsWell(memory'),
         up => /\ touched' \/ memory' = file \/ file = Missing
               /\ dumped' \/ projection' = memory'
  PROVE  FileInv'
<1>1. stage' = [stage EXCEPT ![l] = "idle"] /\ job' = [job EXCEPT ![l] = NoJob] /\ holder' = None
  BY DEF Returns, Goes
<1>2. \A k \in Lane : stage'[k] \in {"idle", "waiting"}
  BY <1>1 DEF FileInv, Shape
<1>3. Shape'
  BY <1>1, <1>2, NoJobWell DEF FileInv, Shape, Stages, disks
<1>4. Pointers'
  BY <1>1, NoJobWell DEF FileInv, Shape, Pointers, disks
<1>5. HolderKnows'
  BY <1>2 DEF HolderKnows
<1>6. MemoryFollows'
  BY DEF MemoryFollows, disks
<1> QED
  BY <1>3, <1>4, <1>5, <1>6 DEF FileInv

LEMMA RefuseKeeps == ASSUME FileInv, NEW l \in Lane, Refuse(l) PROVE FileInv'
<1>1. holder = None /\ UNCHANGED <<disks, daemon, tui, history>>
  BY DEF Refuse, LockFree
<1>2. \A k \in Lane : stage[k] \in {"idle", "waiting"}
  BY <1>1 DEF FileInv, Shape
<1>3. memory' \in Config /\ PointsWell(memory')
  BY <1>1 DEF FileInv, Shape, Pointers, daemon
<1>4. up => (touched' \/ memory' = file \/ file = Missing) /\ (dumped' \/ projection' = memory')
  BY <1>1, FreeIsEven DEF daemon, history
<1> QED
  BY <1>1, <1>2, <1>3, <1>4, ReturnKeeps DEF Refuse, daemon

(* A step of the holder from one place in its command to another, its      *)
(* reading and its result staying what they are.                           *)
LEMMA GoesOn ==
  ASSUME FileInv, NEW l \in Lane, NEW to \in Stages \ {"idle", "waiting"},
         stage[l] \notin {"idle", "waiting"}, Goes(l, to),
         UNCHANGED <<second, up, holder, job, tui>>,
         file' \in Found, disk' \in Found, synced' = TRUE,
         backups' \in [0 .. MaxSeconds -> Contents \union {None}],
         memory' \in Config,
         \A config \in {file', disk', memory'} : config \in Config => PointsWell(config)
  PROVE  /\ Shape' /\ Pointers'
         /\ stage'[l] = to
         /\ \A k \in Lane : k # l => stage'[k] \in {"idle", "waiting"}
<1>1. stage' = [stage EXCEPT ![l] = to] /\ stage \in [Lane -> Stages]
  BY DEF Goes, FileInv, Shape
<1>2. stage'[l] = to /\ \A k \in Lane : k # l => stage'[k] = stage[k]
  BY <1>1
<1>3. \A k \in Lane : k # l => stage'[k] \in {"idle", "waiting"}
  BY <1>2, OthersWait DEF FileInv
<1>4. holder = l /\ l # None
  BY NoneAssumption DEF NoneAssumption, FileInv, Shape
<1>5. Shape'
  <2>1. stage' \in [Lane -> Stages]
    BY <1>1
  <2>2. \A k \in Lane : stage'[k] = "waiting" => job'[k].command \in Commands
    BY <1>2 DEF FileInv, Shape
  <2>3. \A k \in Lane : stage'[k] \notin {"idle", "waiting"} => holder' = k /\ job'[k].config \in Config
    BY <1>3, <1>4 DEF FileInv, Shape
  <2> QED
    BY <1>4, <2>1, <2>2, <2>3 DEF FileInv, Shape
<1>6. Pointers'
  BY DEF FileInv, Pointers
<1> QED
  BY <1>2, <1>3, <1>5, <1>6

LEMMA BackupKeeps == ASSUME FileInv, NEW l \in Lane, Backup(l) PROVE FileInv'
<1>1. stage[l] = "backup" /\ Goes(l, "write") /\ "write" \in Stages \ {"idle", "waiting"}
  BY DEF Backup, Stages
<1>2. UNCHANGED <<file, synced, disk, second, daemon, holder, job, tui, count, history>>
  BY DEF Backup
<1>3. backups' \in [0 .. MaxSeconds -> Contents \union {None}]
      /\ (file = Missing \/ backups'[second] = file)
  BY DEF Backup, WorthKeeping, FileInv, Shape, Found
<1>4. /\ Shape' /\ Pointers' /\ stage'[l] = "write"
      /\ \A k \in Lane : k # l => stage'[k] \in {"idle", "waiting"}
  <2>1. /\ file' \in Found /\ disk' \in Found /\ synced' = TRUE /\ memory' \in Config
        /\ \A config \in {file', disk', memory'} : config \in Config => PointsWell(config)
    BY <1>2 DEF FileInv, Shape, Pointers, daemon
  <2>2. UNCHANGED <<second, up, holder, job, tui>>
    BY <1>2 DEF daemon
  <2> QED
    BY <1>1, <1>3, <2>1, <2>2, GoesOn
<1>5. HolderKnows'
  <2>1. second \in 0 .. MaxSeconds
    BY DEF FileInv, Shape
  <2>2. file' = Missing \/ \E s \in 0 .. MaxSeconds : backups'[s] = file'
    BY <1>2, <1>3, <2>1
  <2>3. moved' \/ file' = job'[l].read
    BY <1>1, <1>2 DEF FileInv, HolderKnows, history
  <2> QED
    BY <1>4, <2>2, <2>3 DEF HolderKnows
<1>6. MemoryFollows'
  <2>1. \A k \in Lane : stage[k] \notin {"reload", "apply", "publish"}
    BY <1>1, OthersWait DEF FileInv
  <2> QED
    BY <1>2, <2>1 DEF FileInv, MemoryFollows, daemon, history
<1> QED
  BY <1>4, <1>5, <1>6 DEF FileInv

LEMMA WriteTempKeeps == ASSUME FileInv, NEW l \in Lane, WriteTemp(l) PROVE FileInv'
<1>1. stage[l] = "write" /\ Goes(l, "rename") /\ "rename" \in Stages \ {"idle", "waiting"}
  BY DEF WriteTemp, Stages
<1>2. UNCHANGED <<disks, daemon, holder, job, tui, count, history>>
  BY DEF WriteTemp
<1>3. /\ Shape' /\ Pointers' /\ stage'[l] = "rename"
      /\ \A k \in Lane : k # l => stage'[k] \in {"idle", "waiting"}
  <2>1. /\ file' \in Found /\ disk' \in Found /\ synced' = TRUE /\ memory' \in Config
        /\ backups' \in [0 .. MaxSeconds -> Contents \union {None}]
        /\ \A config \in {file', disk', memory'} : config \in Config => PointsWell(config)
    BY <1>2 DEF FileInv, Shape, Pointers, disks, daemon
  <2>2. UNCHANGED <<second, up, holder, job, tui>>
    BY <1>2 DEF disks, daemon
  <2> QED
    BY <1>1, <2>1, <2>2, GoesOn
<1>4. HolderKnows'
  <2>1. moved' \/ file' = job'[l].read
    BY <1>1, <1>2 DEF FileInv, HolderKnows, disks, history
  <2>2. Kind(l)' = "dump" =>
          moved' \/ file' = Missing \/ \E s \in 0 .. MaxSeconds : backups'[s] = file'
    BY <1>1, <1>2 DEF FileInv, HolderKnows, Kind, disks, history
  <2> QED
    BY <1>3, <2>1, <2>2 DEF HolderKnows
<1>5. MemoryFollows'
  <2>1. \A k \in Lane : stage[k] \notin {"reload", "apply", "publish"}
    BY <1>1, OthersWait DEF FileInv
  <2> QED
    BY <1>2, <2>1 DEF FileInv, MemoryFollows, disks, daemon, history
<1> QED
  BY <1>3, <1>4, <1>5 DEF FileInv

LEMMA WriteFailsKeeps == ASSUME FileInv, NEW l \in Lane, WriteFails(l) PROVE FileInv'
<1>1. stage[l] \in {"backup", "write", "rename"} /\ UNCHANGED <<disks, daemon, tui, history>>
  BY DEF WriteFails, KeepsMemory, daemon
<1>2. \A k \in Lane : k # l => stage[k] \in {"idle", "waiting"}
  BY <1>1, OthersWait DEF FileInv
<1>3. up => (touched \/ memory = file \/ file = Missing) /\ (dumped \/ projection = memory)
  BY <1>1, <1>2 DEF FileInv, MemoryFollows
<1>4. memory' \in Config /\ PointsWell(memory')
  BY <1>1 DEF FileInv, Shape, Pointers, daemon
<1> QED
  BY <1>1, <1>2, <1>3, <1>4, ReturnKeeps DEF WriteFails, daemon, history

LEMMA RenameKeeps == ASSUME FileInv, NEW l \in Lane, Rename(l) PROVE FileInv'
<1>1. stage[l] = "rename"
  BY DEF Rename
<1>2. /\ file' = job[l].config /\ synced' = TRUE /\ UNCHANGED <<disk, backups, second>>
      /\ UNCHANGED <<daemon, holder, job, tui, count, touched, dumped>>
  BY DEF Rename, Replaces, SyncedFirst
<1>3. PICK to \in {"reload", "apply"} : Goes(l, to)
  BY DEF Rename
<1>4. job[l].config \in Config /\ PointsWell(job[l].config)
  <2>1. job[l].config \in Config
    BY <1>1 DEF FileInv, Shape
  <2>2. job[l].config # None
    BY <2>1, UnreadableAssumption DEF UnreadableAssumption
  <2> QED
    BY <2>1, <2>2 DEF FileInv, Pointers
<1>5. /\ Shape' /\ Pointers' /\ stage'[l] = to
      /\ \A k \in Lane : k # l => stage'[k] \in {"idle", "waiting"}
  <2>1. file' \in Found
    BY <1>2, <1>4, UnreadableAssumption DEF Found, Contents, Unreadable, UnreadableAssumption
  <2>2. /\ disk' \in Found /\ memory' \in Config
        /\ backups' \in [0 .. MaxSeconds -> Contents \union {None}]
        /\ \A config \in {file', disk', memory'} : config \in Config => PointsWell(config)
    BY <1>2, <1>4 DEF FileInv, Shape, Pointers, daemon
  <2>3. UNCHANGED <<second, up, holder, job, tui>> /\ to \in Stages \ {"idle", "waiting"}
    BY <1>2 DEF daemon, Stages
  <2> QED
    BY <1>1, <1>2, <1>3, <2>1, <2>2, <2>3, GoesOn
<1>6. HolderKnows'
  BY <1>2, <1>5 DEF HolderKnows
<1>7. MemoryFollows'
  <2>1. \A k \in Lane : stage[k] # "publish"
    BY <1>1, OthersWait DEF FileInv
  <2> QED
    BY <1>2, <1>5, <2>1 DEF FileInv, MemoryFollows, daemon
<1> QED
  BY <1>5, <1>6, <1>7 DEF FileInv

LEMMA ReloadAfterDumpKeeps == ASSUME FileInv, NEW l \in Lane, ReloadAfterDump(l) PROVE FileInv'
<1>1. stage[l] = "reload" /\ UNCHANGED <<disks, up, projection, tui, moved>>
  BY DEF ReloadAfterDump
<1>2. \A k \in Lane : k # l => stage[k] \in {"idle", "waiting"}
  BY <1>1, OthersWait DEF FileInv
<1>3. memory' \in Config /\ PointsWell(memory')
  BY DEF ReloadAfterDump, FileInv, Shape, Pointers
<1>4. up => (touched' \/ memory' = file \/ file = Missing) /\ (dumped' \/ projection' = memory')
  <2>1. CASE file \in Config
    BY <2>1 DEF ReloadAfterDump
  <2>2. CASE file \notin Config
    <3>1. moved \/ file = Missing
      BY <1>1, <2>2 DEF FileInv, Shape, HolderKnows
    <3>2. up => dumped \/ projection = memory
      BY <1>1, <1>2 DEF FileInv, MemoryFollows
    <3> QED
      BY <2>2, <3>1, <3>2 DEF ReloadAfterDump
  <2> QED
    BY <2>1, <2>2
<1> QED
  BY <1>1, <1>2, <1>3, <1>4, ReturnKeeps DEF ReloadAfterDump

LEMMA ApplyKeeps == ASSUME FileInv, NEW l \in Lane, Apply(l) PROVE FileInv'
<1>1. stage[l] = "apply" /\ Goes(l, "publish") /\ "publish" \in Stages \ {"idle", "waiting"}
  BY DEF Apply, Stages
<1>2. /\ memory' = job[l].config /\ touched' = moved
      /\ UNCHANGED <<disks, up, projection, holder, job, tui, count, moved, dumped>>
  BY DEF Apply
<1>3. job[l].config \in Config /\ PointsWell(job[l].config)
  <2>1. job[l].config \in Config
    BY <1>1 DEF FileInv, Shape
  <2>2. job[l].config # None
    BY <2>1, UnreadableAssumption DEF UnreadableAssumption
  <2> QED
    BY <2>1, <2>2 DEF FileInv, Pointers
<1>4. /\ Shape' /\ Pointers' /\ stage'[l] = "publish"
      /\ \A k \in Lane : k # l => stage'[k] \in {"idle", "waiting"}
  <2>1. /\ file' \in Found /\ disk' \in Found /\ synced' = TRUE /\ memory' \in Config
        /\ backups' \in [0 .. MaxSeconds -> Contents \union {None}]
        /\ \A config \in {file', disk', memory'} : config \in Config => PointsWell(config)
    BY <1>2, <1>3 DEF FileInv, Shape, Pointers, disks
  <2>2. UNCHANGED <<second, up, holder, job, tui>>
    BY <1>2 DEF disks
  <2> QED
    BY <1>1, <2>1, <2>2, GoesOn
<1>5. HolderKnows'
  BY <1>2, <1>4 DEF HolderKnows
<1>6. MemoryFollows'
  <2>1. moved \/ file = job[l].config \/ file = Missing
    BY <1>1 DEF FileInv, HolderKnows
  <2> QED
    BY <1>2, <1>4, <2>1 DEF MemoryFollows, disks
<1> QED
  BY <1>4, <1>5, <1>6 DEF FileInv

LEMMA PublishKeeps == ASSUME FileInv, NEW l \in Lane, Publish(l) PROVE FileInv'
<1>1. stage[l] = "publish" /\ projection' = job[l].config
      /\ UNCHANGED <<disks, up, memory, tui, count, touched, moved>>
  BY DEF Publish
<1>2. \A k \in Lane : k # l => stage[k] \in {"idle", "waiting"}
  BY <1>1, OthersWait DEF FileInv
<1>3. memory' \in Config /\ PointsWell(memory')
  BY <1>1 DEF FileInv, Shape, Pointers
<1>4. up => (touched' \/ memory' = file \/ file = Missing) /\ (dumped' \/ projection' = memory')
  <2>1. memory = job[l].config
    BY <1>1 DEF FileInv, HolderKnows
  <2>2. up => touched \/ memory = file \/ file = Missing
    BY <1>1, <1>2 DEF FileInv, MemoryFollows
  <2> QED
    BY <1>1, <2>1, <2>2
<1> QED
  BY <1>1, <1>2, <1>3, <1>4, ReturnKeeps DEF Publish

-----------------------------------------------------------------------------
(* Outside the daemon, and its stops and starts                            *)

(* The lanes stay where they are, memory and snapshot what they are; the   *)
(* file stays or is marked as written from outside.                        *)
LEMMA OutsideKeeps ==
  ASSUME FileInv, UNCHANGED <<daemon, work, dumped>>,
         \/ UNCHANGED <<file, backups, touched, moved>>
         \/ touched' /\ moved' /\ UNCHANGED backups,
         file' \in Found, disk' \in Found, synced' = TRUE, second' \in 0 .. MaxSeconds,
         tui' \in Config \union {None}, tui' # None => PointsWell(tui'),
         \A config \in {file', disk'} : config \in Config => PointsWell(config)
  PROVE  FileInv'
<1>1. Shape' /\ Pointers'
  BY DEF FileInv, Shape, Pointers, daemon, work
<1>2. HolderKnows'
  BY DEF FileInv, HolderKnows, Kind, daemon, work
<1>3. MemoryFollows'
  BY DEF FileInv, MemoryFollows, daemon, work
<1> QED
  BY <1>1, <1>2, <1>3 DEF FileInv

(* Every command that ran is gone, and the daemon is down.                 *)
LEMMA StopKeeps ==
  ASSUME FileInv, Stops, UNCHANGED <<backups, second>>,
         file' \in Found, disk' \in Found, synced' = TRUE,
         tui' \in {tui, None},
         \A config \in {file', disk'} : config \in Config => PointsWell(config)
  PROVE  FileInv'
<1>1. /\ \A l \in Lane : stage'[l] = "idle" /\ job'[l] = NoJob
      /\ ~up' /\ UNCHANGED <<memory, projection>>
  BY DEF Stops
<1>2. Shape'
  BY NoJobWell DEF Stops, FileInv, Shape, Stages
<1>3. Pointers'
  BY <1>1, NoJobWell DEF FileInv, Pointers
<1>4. HolderKnows' /\ MemoryFollows'
  BY <1>1 DEF HolderKnows, MemoryFollows
<1> QED
  BY <1>2, <1>3, <1>4 DEF FileInv

LEMMA LoadedWell ==
  ASSUME FileInv
  PROVE  LoadedOrDefault(file) \in Config /\ PointsWell(LoadedOrDefault(file))
  BY DefaultWell DEF FileInv, Pointers, LoadedOrDefault

LEMMA UserWritesKeeps == FileInv /\ UserWrites => FileInv'
<1> SUFFICES ASSUME FileInv, UserWrites PROVE FileInv'
  OBVIOUS
<1>1. file' \in Found /\ disk' = file' /\ (file' \in Config => PointsWell(file'))
  BY UserAssumption DEF UserWrites, Found, UserAssumption
<1>2. tui' \in Config \union {None} /\ (tui' # None => PointsWell(tui')) /\ second' \in 0 .. MaxSeconds
  BY DEF UserWrites, FileInv, Shape, Pointers
<1> QED
  BY <1>1, <1>2, OutsideKeeps DEF UserWrites, FromOutside

LEMMA ThemeKeeps == FileInv /\ (ThemeRead \/ ThemeWrite \/ ThemeFails) => FileInv'
<1> SUFFICES ASSUME FileInv, ThemeRead \/ ThemeWrite \/ ThemeFails PROVE FileInv'
  OBVIOUS
<1>1. /\ file \in Found /\ disk \in Found /\ second \in 0 .. MaxSeconds /\ synced = TRUE
      /\ \A config \in {file, disk} : config \in Config => PointsWell(config)
  BY DEF FileInv, Shape, Pointers
<1>2. CASE ThemeRead
  <2>1. PICK theme \in Theme : tui' = [LoadedOrDefault(file) EXCEPT !.theme = theme]
    BY <1>2 DEF ThemeRead, Themed
  <2>2. tui' \in Config /\ PointsWell(tui')
    BY <2>1, LoadedWell DEF Config, PointsWell
  <2> QED
    BY <1>1, <1>2, <2>2, OutsideKeeps DEF ThemeRead, disks, history
<1>3. CASE ThemeWrite
  <2>1. file' \in Config /\ PointsWell(file')
    BY <1>3 DEF ThemeWrite, Replaces, FileInv, Shape, Pointers
  <2>2. file' \in Found
    BY <2>1, UnreadableAssumption DEF Found, Contents, Unreadable, UnreadableAssumption
  <2> QED
    BY <1>1, <1>3, <2>1, <2>2, OutsideKeeps DEF ThemeWrite, Replaces, SyncedFirst, FromOutside
<1>4. CASE ThemeFails
  BY <1>1, <1>4, OutsideKeeps DEF ThemeFails, disks, history
<1> QED
  BY <1>2, <1>3, <1>4

LEMMA EnvironmentKeeps ==
  FileInv /\ (Tick \/ Settle \/ Killed \/ PowerFails \/ Restart) => FileInv'
<1> SUFFICES ASSUME FileInv, Tick \/ Settle \/ Killed \/ PowerFails \/ Restart PROVE FileInv'
  OBVIOUS
<1>1. /\ file \in Found /\ disk \in Found /\ second \in 0 .. MaxSeconds /\ synced = TRUE
      /\ \A config \in {file, disk} : config \in Config => PointsWell(config)
      /\ tui \in Config \union {None} /\ (tui # None => PointsWell(tui))
  BY DEF FileInv, Shape, Pointers
<1>2. CASE Tick
  <2>1. second' \in 0 .. MaxSeconds
    BY <1>1, <1>2, BoundsAssumption DEF Tick, BoundsAssumption
  <2> QED
    BY <1>1, <1>2, <2>1, OutsideKeeps DEF Tick, history
<1>3. CASE Settle
  BY <1>1, <1>3, OutsideKeeps DEF Settle, history
<1>4. CASE Killed
  BY <1>1, <1>4, StopKeeps DEF Killed, disks
<1>5. CASE PowerFails
  BY <1>1, <1>5, StopKeeps DEF PowerFails
<1>6. CASE Restart
  <2>1. memory' \in Config /\ PointsWell(memory') /\ projection' = memory'
    BY <1>6, LoadedWell DEF Restart
  <2>2. memory' = file \/ file = Missing
    BY <1>1, <1>6 DEF Restart, LoadedOrDefault, Found, Contents, Unreadable
  <2>3. up' = TRUE /\ UNCHANGED <<disks, work, tui, count>>
    BY <1>6 DEF Restart
  <2>4. Shape' /\ Pointers'
    BY <2>1, <2>3 DEF FileInv, Shape, Pointers, disks, work
  <2>5. HolderKnows'
    <3>1. \A l \in Lane : stage'[l] = "idle"
      BY <1>6 DEF Restart, FileInv, Shape, work
    <3> QED
      BY <3>1 DEF HolderKnows
  <2>6. MemoryFollows'
    BY <2>1, <2>2, <2>3 DEF MemoryFollows, disks
  <2> QED
    BY <2>4, <2>5, <2>6 DEF FileInv
<1> QED
  BY <1>2, <1>3, <1>4, <1>5, <1>6

LEMMA NextKeeps == FileInv /\ [Next]_vars => FileInv'
<1> SUFFICES ASSUME FileInv, [Next]_vars PROVE FileInv'
  OBVIOUS
<1>1. ASSUME NEW l \in Lane, Start(l) PROVE FileInv'
  BY <1>1, StartKeeps
<1>2. ASSUME NEW l \in Lane, CommandStep(l) PROVE FileInv'
  <2>1. CASE Read(l) \/ Refuse(l)
    BY <2>1, ReadKeeps, RefuseKeeps
  <2>2. CASE Backup(l) \/ WriteTemp(l) \/ WriteFails(l)
    BY <2>2, BackupKeeps, WriteTempKeeps, WriteFailsKeeps
  <2>3. CASE Rename(l) \/ ReloadAfterDump(l)
    BY <2>3, RenameKeeps, ReloadAfterDumpKeeps
  <2>4. CASE Apply(l) \/ Publish(l)
    BY <2>4, ApplyKeeps, PublishKeeps
  <2> QED
    BY <1>2, <2>1, <2>2, <2>3, <2>4 DEF CommandStep
<1>3. CASE UserWrites \/ ThemeRead \/ ThemeWrite \/ ThemeFails
  BY <1>3, UserWritesKeeps, ThemeKeeps
<1>4. CASE Tick \/ Settle \/ Killed \/ PowerFails \/ Restart
  BY <1>4, EnvironmentKeeps
<1>5. CASE UNCHANGED vars
  <2>1. /\ file \in Found /\ disk \in Found /\ second \in 0 .. MaxSeconds /\ synced = TRUE
        /\ \A config \in {file, disk} : config \in Config => PointsWell(config)
        /\ tui \in Config \union {None} /\ (tui # None => PointsWell(tui))
    BY DEF FileInv, Shape, Pointers
  <2> QED
    BY <1>5, <2>1, OutsideKeeps DEF vars, disks, history
<1> QED
  BY <1>1, <1>2, <1>3, <1>4, <1>5 DEF Next

LEMMA FileInvariant == Spec => []FileInv
  BY InitFile, NextKeeps, PTL DEF Spec

-----------------------------------------------------------------------------
(* The daemon runs on what the file says (edit_config_file,                *)
(* reload_config_from_disk, reload_after_dump), through whatever fails.    *)
THEOREM MemoryIsTheFile == Spec => []MemoryAgrees
<1>1. FileInv => MemoryAgrees
  BY FreeIsEven DEF MemoryAgrees
<1> QED
  BY FileInvariant, <1>1, PTL

(* Clients are shown what the daemon runs on (merge_config), after         *)
(* everything but a dump.                                                  *)
THEOREM SnapshotIsMemory == Spec => []SnapshotAgrees
<1>1. FileInv => SnapshotAgrees
  BY FreeIsEven DEF SnapshotAgrees
<1> QED
  BY FileInvariant, <1>1, PTL

(* No edit leaves the active profile dangling (cmd_save_scene_profile,     *)
(* cmd_delete_scene_profile), in the file or on the way to it.             *)
THEOREM NoDanglingProfile == Spec => []ActiveExists
<1>1. FileInv => ActiveExists
  BY DEF FileInv, Shape, Pointers, ActiveExists
<1> QED
  BY FileInvariant, <1>1, PTL

(* A crash never leaves an incomplete file (write_atomic_with_temp_file).  *)
THEOREM CrashesNeverTear == Spec => []NeverTorn
<1>1. FileInv => NeverTorn
  BY DEF FileInv, Shape, Found, NeverTorn
<1> QED
  BY FileInvariant, <1>1, PTL

(* The config-file lock makes each command one read-modify-write of the    *)
(* file: it replaces what it has read.                                     *)
THEOREM CommandsBuildOnFile == Spec => BuildsOnFile
<1>1. FileInv /\ [Next]_vars => [\A l \in Lane : Rename(l) => file = job[l].read \/ moved]_vars
  BY DEF FileInv, HolderKnows, Rename
<1> QED
  BY FileInvariant, <1>1, PTL DEF BuildsOnFile, Spec

(* A dump replaces only what write_backup has saved.                       *)
THEOREM DumpsBackUp == Spec => BackedUp
<1>1. FileInv /\ [Next]_vars =>
        [\A l \in Lane : Rename(l) /\ Kind(l) = "dump" /\ ~moved =>
           file = Missing \/ \E s \in 0 .. MaxSeconds : backups[s] = file]_vars
  BY DEF FileInv, HolderKnows, Rename
<1> QED
  BY FileInvariant, <1>1, PTL DEF BackedUp, Spec

-----------------------------------------------------------------------------
(* What a TUI will write is what it has read, with its theme: unless       *)
(* somebody has written since, what is in the file with its theme.         *)
Follows(config) == config = [LoadedOrDefault(file) EXCEPT !.theme = config.theme]

TuiKnows == tui # None /\ ~missed => Follows(tui)

LEMMA ThemedFollows == ASSUME FileInv, NEW theme PROVE Follows(Themed(theme))
<1>1. LoadedOrDefault(file) \in Config
  BY LoadedWell
<1>2. Themed(theme).theme = theme
  BY <1>1 DEF Themed, Config
<1> QED
  BY <1>2 DEF Themed, Follows

LEMMA TuiKnowsKept == FileInv /\ TuiKnows /\ [Next]_vars => TuiKnows'
<1> SUFFICES ASSUME FileInv, TuiKnows, [Next]_vars PROVE TuiKnows'
  OBVIOUS
<1>0. ASSUME UNCHANGED <<file, tui, missed>> PROVE TuiKnows'
  BY <1>0 DEF TuiKnows, Follows, LoadedOrDefault
<1>1. ASSUME NEW l \in Lane, Start(l) PROVE TuiKnows'
  BY <1>0, <1>1 DEF Start, disks
<1>2. ASSUME NEW l \in Lane, CommandStep(l) PROVE TuiKnows'
  <2>1. CASE Rename(l)
    BY <2>1 DEF Rename, TuiKnows
  <2>2. CASE Read(l) \/ Refuse(l) \/ Backup(l) \/ WriteTemp(l) \/ WriteFails(l)
    BY <1>0, <2>2 DEF Read, Refuse, Backup, WriteTemp, WriteFails, disks
  <2>3. CASE ReloadAfterDump(l) \/ Apply(l) \/ Publish(l)
    BY <1>0, <2>3 DEF ReloadAfterDump, Apply, Publish, disks
  <2> QED
    BY <1>2, <2>1, <2>2, <2>3 DEF CommandStep
<1>3. CASE UserWrites
  BY <1>3 DEF UserWrites, TuiKnows
<1>4. CASE ThemeRead
  <2>1. PICK theme \in Theme : tui' = Themed(theme)
    BY <1>4 DEF ThemeRead
  <2>2. file' = file
    BY <1>4 DEF ThemeRead, disks
  <2>3. Follows(Themed(theme))
    BY ThemedFollows
  <2> QED
    BY <2>1, <2>2, <2>3 DEF TuiKnows, Follows, LoadedOrDefault
<1>5. CASE ThemeWrite \/ ThemeFails
  BY <1>5 DEF ThemeWrite, ThemeFails, TuiKnows
<1>6. CASE PowerFails
  BY <1>6 DEF PowerFails, TuiKnows
<1>7. CASE Tick \/ Settle \/ Killed \/ Restart
  BY <1>0, <1>7 DEF Tick, Settle, Killed, Restart, disks
<1>8. CASE UNCHANGED vars
  BY <1>0, <1>8 DEF vars, disks
<1> QED
  BY <1>1, <1>2, <1>3, <1>4, <1>5, <1>6, <1>7, <1>8 DEF Next

(* Saving a theme keeps every other setting of the file it replaces        *)
(* (persist_theme_choice), whatever commands and edits came before.        *)
THEOREM ThemesStandAlone == Spec => ThemeAlone
<1>1. Init => TuiKnows
  BY DEF Init, TuiKnows
<1>2. TuiKnows => [ThemeWrite /\ ~missed =>
                     file' = [LoadedOrDefault(file) EXCEPT !.theme = file'.theme]]_vars
  BY DEF TuiKnows, Follows, ThemeWrite, Replaces
<1> QED
  BY <1>1, <1>2, FileInvariant, TuiKnowsKept, PTL DEF ThemeAlone, Spec

-----------------------------------------------------------------------------
(* The rest of the types: a job is complete or none, counts stay within    *)
(* their bounds.                                                           *)
Rest ==
  /\ projection \in Config /\ job \in [Lane -> Jobs]
  /\ holder \in Lane \union {None}
  /\ count \in [commands : 0 .. MaxCommands, outside : 0 .. MaxOutside, crashes : 0 .. MaxCrashes]
  /\ touched \in BOOLEAN /\ moved \in BOOLEAN /\ dumped \in BOOLEAN /\ missed \in BOOLEAN

LEMMA InitRest == Init => Rest
<1> SUFFICES ASSUME Init PROVE Rest
  OBVIOUS
<1>1. NoJob \in Jobs
  BY DEF Jobs
<1>2. LoadedOrDefault(file) \in Config
  BY DefaultWell DEF LoadedOrDefault
<1>3. projection \in Config /\ job \in [Lane -> Jobs] /\ holder \in Lane \union {None}
  BY <1>1, <1>2 DEF Init
<1>4. count \in [commands : 0 .. MaxCommands, outside : 0 .. MaxOutside, crashes : 0 .. MaxCrashes]
  BY BoundsAssumption DEF Init, BoundsAssumption
<1>5. touched \in BOOLEAN /\ moved \in BOOLEAN /\ dumped \in BOOLEAN /\ missed \in BOOLEAN
  BY DEF Init
<1> QED
  BY <1>3, <1>4, <1>5 DEF Rest

LEMMA CommandRest ==
  ASSUME FileInv, Rest, NEW l \in Lane, CommandStep(l)
  PROVE  Rest'
<1>0. NoJob \in Jobs
  BY DEF Jobs
<1>1. [job EXCEPT ![l] = NoJob] \in [Lane -> Jobs]
  BY <1>0 DEF Rest
<1>2. ASSUME Returns(l) PROVE job' \in [Lane -> Jobs] /\ holder' \in Lane \union {None}
  BY <1>1, <1>2 DEF Returns
<1>3. CASE Read(l)
  <2>1. job'[l] \in Jobs
    <3>1. job[l].command \in Commands
      BY <1>3 DEF Read, FileInv, Shape
    <3>2. job[l] \in JobShape /\ job[l].command = AsRead(l).command
      BY DEF FileInv, Shape, AsRead, JobShape
    <3>3. job'[l] \in JobShape /\ job'[l] = AsRead(l)
      BY <1>3, ReadKeeps DEF FileInv, Shape, Read
    <3> QED
      BY <3>1, <3>2, <3>3 DEF JobShape, Jobs
  <2>2. job' = [job EXCEPT ![l] = AsRead(l)]
    BY <1>3 DEF Read
  <2>3. job' \in [Lane -> Jobs]
    BY <2>1, <2>2 DEF Rest
  <2> QED
    BY <1>3, <2>3 DEF Read, Rest, daemon
<1>4. CASE Refuse(l)
  BY <1>2, <1>4 DEF Refuse, Rest, daemon, history
<1>5. CASE Backup(l)
  BY <1>5 DEF Backup, Rest, daemon, history
<1>6. CASE WriteTemp(l)
  BY <1>6 DEF WriteTemp, Rest, daemon, history
<1>7. CASE WriteFails(l)
  BY <1>2, <1>7 DEF WriteFails, KeepsMemory, Rest, history
<1>8. CASE Rename(l)
  BY <1>8 DEF Rename, Rest, daemon
<1>9. CASE ReloadAfterDump(l)
  BY <1>2, <1>9 DEF ReloadAfterDump, Rest
<1>10. CASE Apply(l)
  BY <1>10 DEF Apply, Rest
<1>11. CASE Publish(l)
  <2>1. job[l].config \in Config
    BY <1>11 DEF Publish, FileInv, Shape
  <2> QED
    BY <1>2, <1>11, <2>1 DEF Publish, Rest
<1> QED
  BY <1>3, <1>4, <1>5, <1>6, <1>7, <1>8, <1>9, <1>10, <1>11 DEF CommandStep

LEMMA OutsideRest ==
  FileInv /\ Rest /\ (UserWrites \/ ThemeRead \/ ThemeWrite \/ ThemeFails) => Rest'
<1> USE DEF Rest, daemon, work, history, FromOutside
<1>1. ASSUME Rest, UserWrites PROVE Rest'
  BY <1>1, BoundsAssumption DEF UserWrites, BoundsAssumption
<1>2. ASSUME Rest, ThemeRead PROVE Rest'
  <2>1. count' = [count EXCEPT !.outside = @ + 1] /\ count.outside < MaxOutside /\ missed' = FALSE
    BY <1>2 DEF ThemeRead
  <2>2. count' \in [commands : 0 .. MaxCommands, outside : 0 .. MaxOutside, crashes : 0 .. MaxCrashes]
    BY <1>2, <2>1, BoundsAssumption DEF BoundsAssumption
  <2>3. UNCHANGED <<daemon, work, history>>
    BY <1>2 DEF ThemeRead
  <2> QED
    BY <1>2, <2>1, <2>2, <2>3
<1>3. ASSUME Rest, ThemeWrite PROVE Rest'
  BY <1>3 DEF ThemeWrite
<1>4. ASSUME Rest, ThemeFails PROVE Rest'
  BY <1>4 DEF ThemeFails
<1> QED
  BY <1>1, <1>2, <1>3, <1>4

LEMMA EnvironmentRest ==
  FileInv /\ Rest /\ (Tick \/ Settle \/ Killed \/ PowerFails \/ Restart) => Rest'
<1> USE DEF Rest, daemon, work, history
<1>0. [l \in Lane |-> NoJob] \in [Lane -> Jobs]
  BY DEF Jobs
<1>1. ASSUME Rest, Tick \/ Settle PROVE Rest'
  BY <1>1 DEF Tick, Settle
<1>2. ASSUME Rest, Stops, UNCHANGED history, missed' \in BOOLEAN PROVE Rest'
  BY <1>0, <1>2, BoundsAssumption DEF Stops, BoundsAssumption
<1>3. ASSUME Rest, Killed \/ PowerFails PROVE Rest'
  BY <1>2, <1>3 DEF Killed, PowerFails
<1>4. ASSUME Rest, Restart PROVE Rest'
  BY <1>4, DefaultWell DEF Restart, LoadedOrDefault
<1> QED
  BY <1>1, <1>3, <1>4

LEMMA NextRest == FileInv /\ Rest /\ [Next]_vars => Rest'
<1> SUFFICES ASSUME FileInv, Rest, [Next]_vars PROVE Rest'
  OBVIOUS
<1>1. ASSUME NEW l \in Lane, Start(l) PROVE Rest'
  <2>1. PICK command \in Commands :
          job' = [job EXCEPT ![l] = [NoJob EXCEPT !.command = command]]
    BY <1>1 DEF Start
  <2>2. [NoJob EXCEPT !.command = command] \in Jobs
    BY DEF NoJob, Jobs
  <2>3. job' \in [Lane -> Jobs]
    BY <2>1, <2>2 DEF Rest
  <2> QED
    BY <1>1, <2>3, BoundsAssumption DEF Start, Rest, daemon, history, BoundsAssumption
<1>2. ASSUME NEW l \in Lane, CommandStep(l) PROVE Rest'
  BY <1>2, CommandRest
<1>3. CASE UserWrites \/ ThemeRead \/ ThemeWrite \/ ThemeFails
  BY <1>3, OutsideRest
<1>4. CASE Tick \/ Settle \/ Killed \/ PowerFails \/ Restart
  BY <1>4, EnvironmentRest
<1>5. CASE UNCHANGED vars
  BY <1>5 DEF vars, daemon, work, history, Rest
<1> QED
  BY <1>1, <1>2, <1>3, <1>4, <1>5 DEF Next

(* All of it together: the config-file lock, the order of write, apply and *)
(* publish in edit_config_file and the atomic replacement of the file keep *)
(* file, memory and snapshot in agreement and usable.                      *)
THEOREM ConfigStaysInAgreement == Spec => []ConfigInv
<1>1. Init => FileInv /\ Rest
  BY InitFile, InitRest
<1>2. FileInv /\ Rest /\ [Next]_vars => FileInv' /\ Rest'
  BY NextKeeps, NextRest
<1>3. FileInv /\ Rest => TypeOK
  BY DEF FileInv, Shape, Found, Rest, TypeOK
<1> QED
  BY <1>1, <1>2, <1>3, MemoryIsTheFile, SnapshotIsMemory, NoDanglingProfile, CrashesNeverTear, PTL
     DEF Spec, ConfigInv
=============================================================================
