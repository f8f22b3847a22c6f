---------------------------- MODULE StartupProofs ----------------------------
(***************************************************************************)
(* TLAPS proofs about SocketPath and Startup: the socket path between      *)
(* daemons, for any number of processes, starts and files put at the path; *)
(* that the processes Startup starts keep to it; and what init, setup,     *)
(* validate-config and the service commands promise each other.            *)
(***************************************************************************)
EXTENDS Startup, TLAPS

-----------------------------------------------------------------------------
(* The socket path *)

(* Whoever has bound the path still listens while it is up.                *)
UpListens == \A p \in Process : pc[p] \in Up => Mine(p) \in listening

(* The path names a process's present run only from its bind to the end of *)
(* its own removal, or after it was killed meanwhile; and no run to come.  *)
Holding == Up \cup {"draining", "check", "rename", "killed"}
Owner ==
  /\ \A p \in Process : path \in Run /\ path = Mine(p) => pc[p] \in Holding
  /\ \A p \in Process, k \in 1 .. MaxRuns : path = <<p, k>> => k <= run[p]

(* A temporary name is in use between the rename and the unlink.           *)
AsideHeld == \A p \in Process : aside[p] # Nothing <=> pc[p] = "unlink"

Started == \A p \in Process : pc[p] # "never" => run[p] \in 1 .. MaxRuns

PathIInv == PathInv /\ UpListens /\ Owner /\ AsideHeld /\ Started

USE DEF GoesTo, Mine, process, files

(* What the step of a process is, for the lemmas below.                    *)
PathStep(p) == Start(p) \/ Step(p) \/ StopAccepting(p) \/ Kill(p)

LEMMA NextIsAStep ==
  ASSUME [Next]_vars
  PROVE  Place \/ UNCHANGED vars \/ \E p \in Process : PathStep(p)
  BY DEF Next, PathStep

LEMMA PathTypes ==
  ASSUME TypeOK, Started, AsideHeld, [Next]_vars
  PROVE  TypeOK' /\ Started' /\ AsideHeld'
<1> USE BoundAssumption, EntryAssumption
    DEF BoundAssumption, TypeOK, Started, AsideHeld, Ended, Starting, Removing, Up, Entry, Run
<1>1. CASE Place
  BY <1>1 DEF Place
<1>2. CASE UNCHANGED vars
  BY <1>2 DEF vars
<1>3. ASSUME NEW p \in Process, Start(p)
      PROVE  TypeOK' /\ Started' /\ AsideHeld'
  BY <1>3 DEF Start
<1>4. ASSUME NEW p \in Process, Look(p) \/ Validate(p) \/ Probe(p) \/ CleanUp(p)
      PROVE  TypeOK' /\ Started' /\ AsideHeld'
  <2>1. CASE Look(p)
    BY <2>1 DEF Look
  <2>2. CASE Validate(p)
    BY <2>2 DEF Validate
  <2>3. CASE CleanUp(p)
    BY <2>3 DEF CleanUp
  <2>4. CASE ProbeConnects(p)
    BY <2>4 DEF ProbeConnects
  <2>5. CASE ProbeIsRefused(p)
    <3>1. Mine(p) \in Run
      BY <2>5 DEF ProbeIsRefused
    <3>2. earlier' \in [Process -> SUBSET Run]
      BY <2>5, <3>1 DEF ProbeIsRefused
    <3> QED
      BY <2>5, <3>2 DEF ProbeIsRefused
  <2> QED
    BY <1>4, <2>1, <2>2, <2>3, <2>4, <2>5 DEF Probe
<1>5. ASSUME NEW p \in Process, Check(p) \/ Rename(p) \/ Unlink(p)
      PROVE  TypeOK' /\ Started' /\ AsideHeld'
  <2>1. CASE Check(p)
    BY <2>1 DEF Check, Removed, NotRemoved
  <2>2. CASE Rename(p)
    BY <2>2 DEF Rename, Removed
  <2>3. CASE Unlink(p)
    <3>1. aside[p] \in Entry /\ path' \in Entry
      BY <2>3 DEF Unlink, Removed, NotRemoved
    <3> QED
      BY <2>3, <3>1 DEF Unlink, Removed, NotRemoved
  <2> QED
    BY <1>5, <2>1, <2>2, <2>3
<1>6. ASSUME NEW p \in Process, Bind(p)
      PROVE  TypeOK' /\ Started' /\ AsideHeld'
  <2>1. {Mine(q) : q \in {r \in Process \ {p} : PastProbe(r)}} \subseteq Run
    BY DEF PastProbe
  <2> QED
    BY <1>6, <2>1 DEF Bind
<1>7. ASSUME NEW p \in Process, Confirm(p) \/ StopAccepting(p) \/ Kill(p)
      PROVE  TypeOK' /\ Started' /\ AsideHeld'
  BY <1>7 DEF Confirm, StopAccepting, Kill
<1> QED
  BY <1>1, <1>2, <1>3, <1>4, <1>5, <1>6, <1>7, NextIsAStep DEF PathStep, Step

(* Steps that leave the entry at the path alone, by a process that does    *)
(* not come up with it.                                                    *)
LEMMA OwnerKept ==
  ASSUME TypeOK, Started, UpListens, Owner, AsideHeld, [Next]_vars
  PROVE  UpListens' /\ Owner'
<1> USE BoundAssumption, EntryAssumption
    DEF BoundAssumption, EntryAssumption, TypeOK, Started, UpListens, Owner, Holding, AsideHeld,
        Ended, Starting, Removing, Up, Entry, Run
<1>1. CASE Place
  BY <1>1 DEF Place
<1>2. CASE UNCHANGED vars
  BY <1>2 DEF vars
<1>3. ASSUME NEW p \in Process, Start(p) PROVE UpListens' /\ Owner'
  BY <1>3 DEF Start
<1>4. ASSUME NEW p \in Process, Look(p) \/ Validate(p) \/ Probe(p) \/ CleanUp(p)
      PROVE  UpListens' /\ Owner'
  BY <1>4 DEF Look, Validate, Probe, ProbeConnects, ProbeIsRefused, CleanUp
<1>5. ASSUME NEW p \in Process, Check(p) PROVE UpListens' /\ Owner'
  BY <1>5 DEF Check, Removed, NotRemoved
<1>6. ASSUME NEW p \in Process, Rename(p) PROVE UpListens' /\ Owner'
  BY <1>6 DEF Rename, Removed
<1>7. ASSUME NEW p \in Process, Unlink(p) PROVE UpListens' /\ Owner'
  <2>1. path' = path \/ path' \notin Run
    BY <1>7 DEF Unlink, IsExpected
  <2>2. path # Mine(p)
    BY <1>7 DEF Unlink
  <2>3. pc' = [pc EXCEPT ![p] = pc'[p]] /\ pc'[p] \in {"stopped", "bind", "failed"}
        /\ run' = run /\ listening' = listening
    BY <1>7 DEF Unlink, Removed, NotRemoved
  <2> QED
    BY <2>1, <2>2, <2>3
<1>8. ASSUME NEW p \in Process, Bind(p) PROVE UpListens' /\ Owner'
  BY <1>8 DEF Bind
<1>9. ASSUME NEW p \in Process, Confirm(p) \/ StopAccepting(p) \/ Kill(p) PROVE UpListens' /\ Owner'
  BY <1>9 DEF Confirm, StopAccepting, Kill
<1> QED
  BY <1>1, <1>2, <1>3, <1>4, <1>5, <1>6, <1>7, <1>8, <1>9, NextIsAStep DEF PathStep, Step

(* What takes the entry of a daemon that is up from the path is the        *)
(* removal of a run it knows to be earlier.                                *)
Taker(p, q) ==
  q # p /\ Mine(q) \in earlier[p] /\ pc[q] \in {"rename", "unlink"} /\ pc'[q] # pc[q]

LEMMA WhoTakes ==
  ASSUME TypeOK, UpListens, OthersAreEarlier, [Next]_vars,
         NEW p \in Process, pc[p] \in Up, path = Mine(p), path' # path
  PROVE  \E q \in Process : Taker(p, q)
<1> USE EntryAssumption DEF TypeOK, Up, Entry, Ended, Starting
<1>1. ~Place
  BY DEF Place, UpListens
<1>2. \A q \in Process : ~Bind(q)
  <2>1. path # Nothing
    BY DEF Run, UpListens
  <2> QED
    BY <2>1 DEF Bind
<1>3. ASSUME NEW q \in Process, Rename(q) \/ Unlink(q)
      PROVE  Taker(p, q)
  <2>1. pc[q] \in {"rename", "unlink"} /\ q # p
    BY <1>3 DEF Rename, Unlink
  <2>2. Mine(q) \in earlier[p]
    BY <2>1 DEF OthersAreEarlier, PastProbe
  <2>3. pc'[q] # pc[q]
    BY <1>3 DEF Rename, Unlink, Removed, NotRemoved
  <2> QED
    BY <2>1, <2>2, <2>3 DEF Taker
<1>4. ASSUME NEW q \in Process, ~Rename(q), ~Unlink(q), ~Bind(q)
      PROVE  ~PathStep(q)
  BY <1>4
  DEF PathStep, Start, Step, Look, Validate, Probe, ProbeConnects, ProbeIsRefused, Check, Confirm,
      CleanUp, StopAccepting, Kill
<1> QED
  BY <1>1, <1>2, <1>3, <1>4, NextIsAStep DEF vars

(* Nobody gets past its probe of a daemon that is up without being one of  *)
(* the earlier runs from then on.                                          *)
LEMMA EarlierKept ==
  ASSUME TypeOK, Started, UpListens, Owner, OthersAreEarlier, [Next]_vars
  PROVE  OthersAreEarlier'
<1> USE EntryAssumption
    DEF TypeOK, Started, UpListens, OthersAreEarlier, PastProbe, Ended, Starting, Removing, Up, Entry
<1>1. CASE Place
  BY <1>1 DEF Place, Run
<1>2. CASE UNCHANGED vars
  BY <1>2 DEF vars
<1>3. ASSUME NEW p \in Process, Start(p) PROVE OthersAreEarlier'
  BY <1>3 DEF Start
<1>4. ASSUME NEW p \in Process, Look(p) \/ Validate(p) \/ CleanUp(p) PROVE OthersAreEarlier'
  BY <1>4 DEF Look, Validate, CleanUp, Run
<1>5. ASSUME NEW p \in Process, ProbeConnects(p) PROVE OthersAreEarlier'
  BY <1>5 DEF ProbeConnects
<1>6. ASSUME NEW p \in Process, ProbeIsRefused(p) PROVE OthersAreEarlier'
  BY <1>6 DEF ProbeIsRefused
<1>7. ASSUME NEW p \in Process, Check(p) PROVE OthersAreEarlier'
  BY <1>7 DEF Check, Removed, NotRemoved
<1>8. ASSUME NEW p \in Process, Rename(p) PROVE OthersAreEarlier'
  BY <1>8 DEF Rename, Removed, Run
<1>9. ASSUME NEW p \in Process, Unlink(p) PROVE OthersAreEarlier'
  <2>1. path' = path \/ path' \notin Run
    BY <1>9 DEF Unlink, IsExpected
  <2>2. \A q \in Process : PastProbe(q)' => PastProbe(q)
    BY <1>9 DEF Unlink, Removed, NotRemoved
  <2>3. \A q \in Process : pc'[q] \in Up => pc[q] \in Up /\ Mine(q) \in Run
    BY <1>9 DEF Unlink, Removed, NotRemoved, Run
  <2>4. UNCHANGED <<run, earlier>>
    BY <1>9 DEF Unlink
  <2> QED
    BY <2>1, <2>2, <2>3, <2>4
<1>10. ASSUME NEW p \in Process, Bind(p) PROVE OthersAreEarlier'
  <2>1. CASE path # Nothing
    BY <1>10, <2>1 DEF Bind
  <2>2. CASE path = Nothing
    BY <1>10, <2>2 DEF Bind, Run
  <2> QED
    BY <2>1, <2>2
<1>11. ASSUME NEW p \in Process, Confirm(p) \/ StopAccepting(p) \/ Kill(p) PROVE OthersAreEarlier'
  BY <1>11 DEF Confirm, StopAccepting, Kill
<1> QED
  BY <1>1, <1>2, <1>3, <1>4, <1>5, <1>6, <1>7, <1>8, <1>9, <1>10, <1>11, NextIsAStep DEF PathStep, Step, Probe

LEMMA ReachableKept ==
  ASSUME TypeOK, UpListens, OthersAreEarlier, UpIsReachable, [Next]_vars
  PROVE  UpIsReachable'
<1> SUFFICES ASSUME NEW p \in Process, (pc[p] \in Up /\ earlier[p] = {})'
             PROVE  path' = Mine(p)'
  BY DEF UpIsReachable
<1>1. CASE pc[p] \in Up /\ earlier[p] = {} /\ run'[p] = run[p]
  <2>1. path = Mine(p)
    BY <1>1 DEF UpIsReachable
  <2>2. path' = path
    BY <1>1, <2>1, WhoTakes DEF Taker
  <2> QED
    BY <1>1, <2>1, <2>2
<1>2. CASE Bind(p)
  BY <1>2 DEF Bind, TypeOK, Up
<1>3. CASE ~Bind(p)
  <2> USE DEF TypeOK, Up, Ended, Starting, Removing
  <2>1. CASE Place \/ UNCHANGED vars
    BY <1>1, <2>1 DEF Place, vars
  <2>2. ASSUME NEW q \in Process, PathStep(q), q # p
        PROVE  pc[p] \in Up /\ earlier[p] = {} /\ run'[p] = run[p]
    BY <2>2
    DEF PathStep, Start, Step, Look, Validate, Probe, ProbeConnects, ProbeIsRefused, Check, Rename, Unlink,
        Removed, NotRemoved, Bind, Confirm, CleanUp, StopAccepting, Kill
  <2>3. ASSUME PathStep(p)
        PROVE  pc[p] \in Up /\ earlier[p] = {} /\ run'[p] = run[p]
    BY <1>3, <2>3
    DEF PathStep, Start, Step, Look, Validate, Probe, ProbeConnects, ProbeIsRefused, Check, Rename, Unlink,
        Removed, NotRemoved, Confirm, CleanUp, StopAccepting, Kill
  <2> QED
    BY <1>1, <2>1, <2>2, <2>3, NextIsAStep
<1> QED
  BY <1>2, <1>3

(* A file of another kind moves between the path, a process's temporary    *)
(* name and what the killed have left, and is dropped by none of the three.*)
LEMMA ForeignKept ==
  ASSUME TypeOK, AsideHeld, ForeignSurvives, [Next]_vars
  PROVE  ForeignSurvives'
<1> USE EntryAssumption, BoundAssumption
    DEF BoundAssumption, TypeOK, AsideHeld, ForeignSurvives, Entry
<1> DEFINE Somewhere == Foreign \in {path} \cup litter \cup {aside[p] : p \in Process}
<1>1. CASE Place
  BY <1>1 DEF Place
<1>2. SUFFICES ASSUME Somewhere, ~Place PROVE Somewhere'
  <2>1. ~Place => placed' = placed
    BY NextIsAStep
    DEF vars, PathStep, Start, Step, Look, Validate, Probe, ProbeConnects, ProbeIsRefused, Check, Rename,
        Unlink, Bind, Confirm, CleanUp, StopAccepting, Kill
  <2> QED
    BY <1>1, <2>1
<1>3. ASSUME NEW p \in Process, Rename(p) PROVE Somewhere'
  <2>1. CASE path = Foreign
    <3>1. aside'[p] = Foreign
      BY <1>3, <2>1 DEF Rename
    <3> QED
      BY <3>1
  <2>2. CASE path # Foreign /\ Foreign \notin litter
    <3>1. PICK q \in Process : aside[q] = Foreign
      BY <1>2, <2>2
    <3>2. q # p
      BY <1>3, <3>1 DEF Rename
    <3>3. aside'[q] = Foreign
      BY <1>3, <3>1, <3>2 DEF Rename
    <3> QED
      BY <3>3
  <2> QED
    BY <1>3, <2>1, <2>2 DEF Rename
<1>4. ASSUME NEW p \in Process, Unlink(p) PROVE Somewhere'
  <2>1. CASE path = Foreign
    <3>1. path' \in {path, aside[p]} /\ (path' = aside[p] => aside[p] \notin Run \/ path' = path)
      BY <1>4 DEF Unlink, IsExpected
    <3>2. aside[p] # Nothing
      BY <1>4 DEF Unlink
    <3>3. path' = Foreign
      BY <2>1, <3>1, <3>2
    <3> QED
      BY <3>3
  <2>2. CASE aside[p] = Foreign
    <3>1. path' = Foreign
      BY <1>4, <2>2 DEF Unlink, IsExpected
    <3> QED
      BY <3>1
  <2>3. CASE path # Foreign /\ aside[p] # Foreign /\ Foreign \notin litter
    <3>1. PICK q \in Process : aside[q] = Foreign
      BY <1>2, <2>3
    <3>2. aside'[q] = Foreign
      BY <1>4, <2>3, <3>1 DEF Unlink
    <3> QED
      BY <3>2
  <2> QED
    BY <1>4, <2>1, <2>2, <2>3 DEF Unlink
<1>5. ASSUME NEW p \in Process, Kill(p) PROVE Somewhere'
  <2>1. CASE aside[p] = Foreign
    BY <1>5, <2>1 DEF Kill
  <2>2. CASE aside[p] # Foreign /\ path # Foreign /\ Foreign \notin litter
    <3>1. PICK q \in Process : aside[q] = Foreign
      BY <1>2, <2>2
    <3>2. aside'[q] = Foreign
      BY <1>5, <2>2, <3>1 DEF Kill
    <3> QED
      BY <3>2
  <2> QED
    BY <1>5, <2>1, <2>2 DEF Kill
<1>6. ASSUME NEW p \in Process, Bind(p) PROVE Somewhere'
  BY <1>2, <1>6 DEF Bind
<1>7. ASSUME NEW p \in Process, PathStep(p), ~Rename(p), ~Unlink(p), ~Kill(p), ~Bind(p) PROVE Somewhere'
  <2>1. UNCHANGED <<path, litter, aside>>
    BY <1>7
    DEF PathStep, Start, Step, Look, Validate, Probe, ProbeConnects, ProbeIsRefused, Check, Confirm,
        CleanUp, StopAccepting
  <2> QED
    BY <1>2, <2>1
<1> QED
  BY <1>2, <1>3, <1>4, <1>5, <1>6, <1>7, NextIsAStep DEF vars

LEMMA PathInit == Init => PathIInv
<1> USE BoundAssumption, EntryAssumption
    DEF BoundAssumption, EntryAssumption, Init, Up, Ended, Entry
<1> SUFFICES ASSUME Init PROVE PathIInv
  OBVIOUS
<1>1. TypeOK
  BY DEF TypeOK
<1>2. UpIsReachable /\ OthersAreEarlier /\ StopsWithoutTrace /\ ForeignSurvives
  BY DEF UpIsReachable, OthersAreEarlier, StopsWithoutTrace, ForeignSurvives
<1>3. UpListens /\ AsideHeld /\ Started
  BY DEF UpListens, AsideHeld, Started
<1>4. Owner
  BY DEF Owner, Run
<1> QED
  BY <1>1, <1>2, <1>3, <1>4 DEF PathIInv, PathInv

LEMMA PathNext == PathIInv /\ [Next]_vars => PathIInv'
<1> SUFFICES ASSUME PathIInv, [Next]_vars PROVE PathIInv'
  OBVIOUS
<1>1. TypeOK' /\ Started' /\ AsideHeld'
  BY PathTypes DEF PathIInv, PathInv
<1>2. UpListens' /\ Owner'
  BY OwnerKept DEF PathIInv, PathInv
<1>3. OthersAreEarlier' /\ UpIsReachable'
  BY EarlierKept, ReachableKept DEF PathIInv, PathInv
<1>4. StopsWithoutTrace'
  <2>1. \A p \in Process : pc'[p] = "stopped" => Mine(p)' \in Run
    BY <1>1 DEF Started, Run
  <2> QED
    BY <1>2, <2>1 DEF Owner, Holding, Up, StopsWithoutTrace
<1>5. ForeignSurvives'
  BY ForeignKept DEF PathIInv, PathInv
<1> QED
  BY <1>1, <1>2, <1>3, <1>4, <1>5 DEF PathIInv, PathInv

(* The path of a daemon that is up leads to it unless a run was past its   *)
(* probe when it bound; a daemon that stops leaves nothing behind; a file  *)
(* that is no socket survives (ipc/socket_path.rs), for any number of      *)
(* processes started any number of times.                                  *)
THEOREM PathIsKept == Spec => []PathInv
<1>1. PathIInv => PathInv
  BY DEF PathIInv
<1> QED
  BY PathInit, PathNext, <1>1, PTL DEF Spec

(* A daemon loses its path at most to runs that began before its own       *)
(* (remove_with_type_guard, in the removal of a stale socket or cleanup).  *)
THEOREM PathIsLostToEarlier == Spec => LosesToEarlier
<1> DEFINE Lost ==
      \A p \in Process :
        pc[p] \in Up /\ path = Mine(p) /\ path' # path /\ pc'[p] \in Up
          => \E q \in Process \ {p} : /\ Mine(q) \in earlier[p]
                                      /\ pc[q] \in {"rename", "unlink"} /\ pc'[q] # pc[q]
<1>1. PathIInv /\ [Next]_vars => Lost
  BY WhoTakes DEF PathIInv, PathInv, Taker
<1>2. PathIInv /\ [Next]_vars => [Lost]_vars
  BY <1>1
<1> QED
  BY PathInit, PathNext, <1>2, PTL DEF Spec, LosesToEarlier

-----------------------------------------------------------------------------
(* The processes of Startup *)

(* Whatever a command does with config files and units, at the path its    *)
(* process does what SocketPath says or nothing.                           *)
LEMMA StartupStep == [StartupNext]_startupVars => [Next]_vars
<1> SUFFICES ASSUME [StartupNext]_startupVars PROVE [Next]_vars
  OBVIOUS
<1>1. CASE UNCHANGED startupVars
  BY <1>1 DEF startupVars, vars
<1>2. ASSUME NEW p \in Process, Invoke(p) \/ Prompt(p) PROVE UNCHANGED vars
  BY <1>2 DEF Invoke, Prompt
<1>3. ASSUME NEW p \in Process, Proceeds(p) PROVE [Next]_vars
  <2>1. CASE InitLooks(p) \/ InitWrites(p) \/ Validates(p) \/ OpensTui(p) \/ ServerLooks(p) \/ SetupWrites(p)
    BY <2>1 DEF InitLooks, InitWrites, Validates, OpensTui, ServerLooks, SetupWrites
  <2>2. CASE LoadRuntime(p)
    BY <2>2 DEF LoadRuntime, Next
  <2>3. CASE InstallUnit(p) \/ UninstallUnit(p) \/ Reload(p) \/ ReloadFails(p) \/ StartUnit(p)
    BY <2>3 DEF InstallUnit, UninstallUnit, Reload, ReloadFails, StartUnit
  <2>4. CASE StopUnit(p)
    BY <2>4, SiteAssumption DEF SiteAssumption, StopUnit, Terminates, Next
  <2>5. CASE Daemon(p)
    BY <2>5 DEF Daemon, Next
  <2> QED
    BY <1>3, <2>1, <2>2, <2>3, <2>4, <2>5 DEF Proceeds
<1>4. ASSUME NEW p \in Process, Ending(p) PROVE Next
  BY <1>4 DEF Ending, Next
<1>5. CASE SystemdStarts \/ UserEdits
  BY <1>5 DEF SystemdStarts, UserEdits
<1>6. CASE UserPlaces
  BY <1>6 DEF UserPlaces, Next
<1> QED
  BY <1>1, <1>2, <1>3, <1>4, <1>5, <1>6 DEF StartupNext

(* Startup implements SocketPath: daemon::run reaches the path by no other *)
(* way than prepare, bind and cleanup.                                     *)
THEOREM StartupImplementsSocketPath == StartupSpec => Spec
<1>1. StartupInit => Init
  BY DEF StartupInit
<1> QED
  BY <1>1, StartupStep, PTL DEF StartupSpec, Spec

(* What SocketPath promises holds with the commands around it, and with    *)
(* systemd starting the service again and again.                           *)
THEOREM PathIsKeptByAll == StartupSpec => []PathInv /\ LosesToEarlier
<1> QED
  BY StartupImplementsSocketPath, PathIsKept, PathIsLostToEarlier, PTL

(* A process at work has a task at one of the sites, and what setup was    *)
(* told has passed its questions.                                          *)
SoundAnswers(answers) == answers \in Situation.answers /\ ~AskedAgain(answers) /\ HostPasses(answers)
TaskInv ==
  /\ start \in DOMAIN Situations
  /\ task = [p \in Process |-> task[p]]
  /\ \A p \in Process : phase[p] # "idle" =>
       /\ task[p] = [command |-> task[p].command, answers |-> task[p].answers, site |-> task[p].site]
       /\ task[p].site \in Site
       /\ task[p].answers # Null => SoundAnswers(task[p].answers)

StartupIInv == StartupTypeOK /\ TaskInv /\ ApprovedLoads /\ ServiceTruth

(* Which steps touch what, for the lemmas below.                           *)
LEMMA StartupSteps ==
  ASSUME [StartupNext]_startupVars
  PROVE  \/ UNCHANGED startupVars
         \/ SystemdStarts \/ UserPlaces \/ UserEdits
         \/ \E p \in Process :
              \/ Invoke(p) \/ Prompt(p) \/ Ending(p) \/ Daemon(p)
              \/ InitLooks(p) \/ InitWrites(p) \/ Validates(p) \/ OpensTui(p)
              \/ ServerLooks(p) \/ SetupWrites(p) \/ LoadRuntime(p)
              \/ InstallUnit(p) \/ UninstallUnit(p) \/ Reload(p) \/ ReloadFails(p)
              \/ StartUnit(p) \/ StopUnit(p)
  BY DEF StartupNext, Proceeds

LEMMA PhasesKept ==
  ASSUME phase \in [Process -> Phases], [StartupNext]_startupVars
  PROVE  phase' \in [Process -> Phases]
<1> USE DEF Goes, Exits, Phases
<1>1. CASE UNCHANGED startupVars \/ UserPlaces \/ UserEdits \/ SystemdStarts
  BY <1>1 DEF startupVars, UserPlaces, UserEdits, SystemdStarts
<1>2. ASSUME NEW p \in Process, Invoke(p) PROVE phase' \in [Process -> Phases]
  BY <1>2 DEF Invoke
<1>3. ASSUME NEW p \in Process, Prompt(p) \/ Ending(p) \/ Daemon(p) PROVE phase' \in [Process -> Phases]
  BY <1>3 DEF Prompt, Ending, Daemon
<1>4. ASSUME NEW p \in Process, InitLooks(p) \/ InitWrites(p) \/ Validates(p) \/ OpensTui(p)
      PROVE  phase' \in [Process -> Phases]
  BY <1>4 DEF InitLooks, InitWrites, Validates, OpensTui
<1>5. ASSUME NEW p \in Process, ServerLooks(p) \/ SetupWrites(p) \/ LoadRuntime(p)
      PROVE  phase' \in [Process -> Phases]
  BY <1>5 DEF ServerLooks, SetupWrites, LoadRuntime
<1>6. ASSUME NEW p \in Process, InstallUnit(p) \/ UninstallUnit(p) \/ Reload(p) \/ ReloadFails(p)
      PROVE  phase' \in [Process -> Phases]
  BY <1>6 DEF InstallUnit, UninstallUnit, Reload, ReloadFails
<1>7. ASSUME NEW p \in Process, StartUnit(p) \/ StopUnit(p) PROVE phase' \in [Process -> Phases]
  BY <1>7 DEF StartUnit, StopUnit
<1> QED
  BY <1>1, <1>2, <1>3, <1>4, <1>5, <1>6, <1>7, StartupSteps

(* A process that was at work and is given no new task keeps the one it    *)
(* has; a new one is at a site.                                            *)
LEMMA TaskKept ==
  ASSUME phase \in [Process -> Phases], TaskInv, [StartupNext]_startupVars
  PROVE  TaskInv'
<1> DEFINE Tasked(p) ==
      /\ task[p] = [command |-> task[p].command, answers |-> task[p].answers, site |-> task[p].site]
      /\ task[p].site \in Site
      /\ task[p].answers # Null => SoundAnswers(task[p].answers)
<1>1. start' = start /\ start \in DOMAIN Situations
  BY StartupSteps
  DEF TaskInv, startupVars, SystemdStarts, UserPlaces, UserEdits, Invoke, Prompt, Ending, Daemon, InitLooks,
      InitWrites, Validates, OpensTui, ServerLooks, SetupWrites, LoadRuntime, InstallUnit, UninstallUnit,
      Reload, ReloadFails, StartUnit, StopUnit
<1>2. ASSUME task' = task, \A p \in Process : phase[p] = "idle" => phase'[p] = "idle"
      PROVE  TaskInv'
  BY <1>1, <1>2 DEF TaskInv, SoundAnswers, Situation
<1>3. ASSUME NEW p \in Process, NEW command,
             task' = [task EXCEPT ![p] = [command |-> command, answers |-> Null, site |-> task'[p].site]],
             task'[p].site \in Site,
             \A q \in Process \ {p} : phase'[q] = phase[q]
      PROVE  TaskInv'
  <2>1. \A q \in Process \ {p} : task'[q] = task[q]
    BY <1>3 DEF TaskInv
  <2>2. task'[p] = [command |-> command, answers |-> Null, site |-> task'[p].site]
    BY <1>3 DEF TaskInv
  <2>3. task' = [q \in Process |-> task'[q]]
    BY <1>3 DEF TaskInv
  <2> QED
    BY <1>1, <1>3, <2>1, <2>2, <2>3 DEF TaskInv, SoundAnswers, Situation
<1> USE DEF Goes, Exits, Phases
<1>4. ASSUME NEW p \in Process, Invoke(p) PROVE TaskInv'
  <2>1. PICK command \in Situation.commands[p] :
          task' = [task EXCEPT ![p] = [command |-> command, answers |-> Null,
                                       site |-> ConfigPath(command.config, Env)]]
    BY <1>4 DEF Invoke
  <2>2. ConfigPath(command.config, Env) \in Site
    BY <1>1, SituationAssumption DEF SituationAssumption, Situation, Env
  <2>3. task'[p].site = ConfigPath(command.config, Env)
    BY <2>1 DEF TaskInv
  <2>4. \A q \in Process \ {p} : phase'[q] = phase[q]
    BY <1>4 DEF Invoke
  <2> QED
    BY <1>3, <2>1, <2>2, <2>3, <2>4
<1>5. CASE SystemdStarts
  <2>1. task'[Service].site = DefaultPath
    BY <1>5, SiteAssumption DEF SiteAssumption, SystemdStarts, TaskInv
  <2> QED
    BY <1>3, <1>5, <2>1, SiteAssumption DEF SiteAssumption, SystemdStarts
<1>6. ASSUME NEW p \in Process, Prompt(p) PROVE TaskInv'
  <2>1. PICK answers \in Situation.answers :
          /\ ~AskedAgain(answers)
          /\ IF HostPasses(answers)
               THEN task' = [task EXCEPT ![p].answers = answers] /\ phase' = [phase EXCEPT ![p] = "write"]
               ELSE task' = task /\ phase' = [phase EXCEPT ![p] = "idle"]
    BY <1>6 DEF Prompt
  <2>2. phase[p] # "idle"
    BY <1>6 DEF Prompt
  <2>3. CASE ~HostPasses(answers)
    <3>1. \A q \in Process : phase[q] = "idle" => phase'[q] = "idle"
      BY <2>1, <2>3
    <3> QED
      BY <1>2, <2>1, <2>3, <3>1
  <2>4. CASE HostPasses(answers)
    <3>1. task'[p] = [command |-> task[p].command, answers |-> answers, site |-> task[p].site]
      BY <2>1, <2>2, <2>4 DEF TaskInv
    <3>2. \A q \in Process \ {p} : task'[q] = task[q] /\ phase'[q] = phase[q]
      BY <2>1, <2>4 DEF TaskInv
    <3>3. task' = [q \in Process |-> task'[q]]
      BY <2>1, <2>4 DEF TaskInv
    <3> QED
      BY <1>1, <2>1, <2>2, <2>4, <3>1, <3>2, <3>3 DEF TaskInv, SoundAnswers, Situation
  <2> QED
    BY <2>3, <2>4
<1>7. CASE UNCHANGED startupVars \/ UserPlaces \/ UserEdits
  BY <1>2, <1>7 DEF startupVars, UserPlaces, UserEdits
<1>8. ASSUME NEW p \in Process,
             \/ Ending(p) \/ Daemon(p) \/ InitLooks(p) \/ InitWrites(p) \/ Validates(p) \/ OpensTui(p)
             \/ ServerLooks(p) \/ SetupWrites(p) \/ LoadRuntime(p)
      PROVE  TaskInv'
  <2>1. task' = task
    BY <1>8 DEF Ending, Daemon, InitLooks, InitWrites, Validates, OpensTui, ServerLooks, SetupWrites, LoadRuntime
  <2>2. \A q \in Process : phase[q] = "idle" => phase'[q] = "idle"
    BY <1>8 DEF Ending, Daemon, InitLooks, InitWrites, Validates, OpensTui, ServerLooks, SetupWrites, LoadRuntime
  <2> QED
    BY <1>2, <2>1, <2>2
<1>9. ASSUME NEW p \in Process,
             \/ InstallUnit(p) \/ UninstallUnit(p) \/ Reload(p) \/ ReloadFails(p)
             \/ StartUnit(p) \/ StopUnit(p)
      PROVE  TaskInv'
  <2>1. task' = task
    BY <1>9 DEF InstallUnit, UninstallUnit, Reload, ReloadFails, StartUnit, StopUnit
  <2>2. \A q \in Process : phase[q] = "idle" => phase'[q] = "idle"
    BY <1>9 DEF InstallUnit, UninstallUnit, Reload, ReloadFails, StartUnit, StopUnit
  <2> QED
    BY <1>2, <2>1, <2>2
<1> QED
  BY <1>4, <1>5, <1>6, <1>7, <1>8, <1>9, StartupSteps

(* The files, the unit and what systemd does about it, by their types.     *)
Kept ==
  /\ DOMAIN contents = Site /\ approved \subseteq Site
  /\ unit \in Executable \cup {NoUnit, OddUnit} /\ loaded \in Executable \cup {NoUnit}
  /\ wanted \in BOOLEAN /\ vouched \in BOOLEAN

LEMMA KeptTypes ==
  ASSUME Kept, TaskInv, [StartupNext]_startupVars
  PROVE  Kept'
<1> USE DEF Kept, local, systemd
<1>1. CASE UNCHANGED startupVars \/ SystemdStarts \/ UserPlaces
  BY <1>1 DEF startupVars, SystemdStarts, UserPlaces
<1>2. CASE UserEdits
  BY <1>2 DEF UserEdits
<1>3. ASSUME NEW p \in Process,
             \/ Invoke(p) \/ Prompt(p) \/ Ending(p) \/ InitLooks(p) \/ OpensTui(p) \/ ServerLooks(p)
             \/ LoadRuntime(p)
      PROVE  Kept'
  BY <1>3 DEF Invoke, Prompt, Ending, InitLooks, OpensTui, ServerLooks, LoadRuntime
<1>4. ASSUME NEW p \in Process, Daemon(p) PROVE Kept'
  BY <1>4 DEF Daemon, Rests
<1>5. ASSUME NEW p \in Process, InitWrites(p) \/ SetupWrites(p) PROVE Kept'
  BY <1>5 DEF InitWrites, SetupWrites, Writes
<1>6. ASSUME NEW p \in Process, Validates(p) PROVE Kept'
  <2>1. task[p].site \in Site
    BY <1>6 DEF Validates, TaskInv
  <2> QED
    BY <1>6, <2>1 DEF Validates
<1>7. ASSUME NEW p \in Process, InstallUnit(p) \/ UninstallUnit(p) PROVE Kept'
  BY <1>7, ExecutableAssumption DEF ExecutableAssumption, InstallUnit, UninstallUnit
<1>8. ASSUME NEW p \in Process, Reload(p) \/ ReloadFails(p) \/ StartUnit(p) \/ StopUnit(p) PROVE Kept'
  BY <1>8 DEF Reload, ReloadFails, StartUnit, StopUnit
<1> QED
  BY <1>1, <1>2, <1>3, <1>4, <1>5, <1>6, <1>7, <1>8, StartupSteps

(* What is found valid can be loaded; what is written or edited after that *)
(* is no longer vouched for, and the environment stays.                    *)
LEMMA ApprovedKept ==
  ASSUME Kept, TaskInv, ApprovedLoads, [StartupNext]_startupVars
  PROVE  ApprovedLoads'
<1> USE DEF Kept, ApprovedLoads, local
<1>1. start' = start
  BY StartupSteps
  DEF startupVars, SystemdStarts, UserPlaces, UserEdits, Invoke, Prompt, Ending, Daemon, InitLooks,
      InitWrites, Validates, OpensTui, ServerLooks, SetupWrites, LoadRuntime, InstallUnit, UninstallUnit,
      Reload, ReloadFails, StartUnit, StopUnit
<1>2. \A content : RuntimeLoads(content)' <=> RuntimeLoads(content)
  BY <1>1 DEF RuntimeLoads, Loads, Env, Situation
<1>3. ASSUME NEW site, NEW content,
             contents' = [contents EXCEPT ![site] = content], approved' = approved \ {site}
      PROVE  ApprovedLoads'
  <2>1. \A other \in approved' : contents'[other] = contents[other]
    BY <1>3
  <2> QED
    BY <1>2, <1>3, <2>1
<1>4. CASE UNCHANGED local
  BY <1>2, <1>4
<1>5. ASSUME NEW p \in Process, Validates(p) PROVE ApprovedLoads'
  <2>1. LoadCode(Content(p)) = 0 => RuntimeLoads(contents[task[p].site])
    BY DEF LoadCode, Loads, RuntimeLoads, IsDocument, Exists, Content
  <2> QED
    BY <1>2, <1>5, <2>1 DEF Validates, ValidateCode
<1>6. CASE UserEdits
  BY <1>3, <1>6 DEF UserEdits
<1>7. ASSUME NEW p \in Process, InitWrites(p) \/ SetupWrites(p) PROVE ApprovedLoads'
  BY <1>3, <1>4, <1>7 DEF InitWrites, SetupWrites, Writes
<1>8. UNCHANGED local \/ UserEdits \/ \E p \in Process : InitWrites(p) \/ SetupWrites(p) \/ Validates(p)
  BY StartupSteps
  DEF startupVars, SystemdStarts, UserPlaces, Invoke, Prompt, Ending, Daemon, InitLooks, OpensTui,
      ServerLooks, LoadRuntime, InstallUnit, UninstallUnit, Reload, ReloadFails, StartUnit, StopUnit
<1> QED
  BY <1>4, <1>5, <1>6, <1>7, <1>8

(* Only an install or uninstall whose reload has succeeded vouches; only   *)
(* these two touch the unit, and both go on to the reload.                 *)
LEMMA ServiceTruthKept ==
  ASSUME phase \in [Process -> Phases], ServiceTruth, [StartupNext]_startupVars
  PROVE  ServiceTruth'
<1> USE DEF ServiceTruth, systemd, Goes, Exits, Phases
<1>1. CASE UNCHANGED startupVars \/ UserPlaces \/ UserEdits
  BY <1>1 DEF startupVars, UserPlaces, UserEdits
<1>2. ASSUME unit' = unit, loaded' = loaded, vouched' = vouched,
             \A p \in Process : phase[p] = "reload" => phase'[p] = "reload"
      PROVE  ServiceTruth'
  BY <1>2
<1>3. CASE SystemdStarts
  BY <1>2, <1>3 DEF SystemdStarts, Idle
<1>4. ASSUME NEW p \in Process, Invoke(p) \/ Prompt(p) \/ Ending(p) \/ Daemon(p) PROVE ServiceTruth'
  <2>1. unit' = unit /\ loaded' = loaded /\ vouched' = vouched
    BY <1>4 DEF Invoke, Prompt, Ending, Daemon
  <2>2. \A q \in Process : phase[q] = "reload" => phase'[q] = "reload"
    BY <1>4 DEF Invoke, Idle, Prompt, Ending, Daemon
  <2> QED
    BY <1>2, <2>1, <2>2
<1>5. ASSUME NEW p \in Process,
             \/ InitLooks(p) \/ InitWrites(p) \/ Validates(p) \/ OpensTui(p)
             \/ ServerLooks(p) \/ SetupWrites(p) \/ LoadRuntime(p)
      PROVE  ServiceTruth'
  <2>1. unit' = unit /\ loaded' = loaded /\ vouched' = vouched
    BY <1>5 DEF InitLooks, InitWrites, Validates, OpensTui, ServerLooks, SetupWrites, LoadRuntime
  <2>2. \A q \in Process : phase[q] = "reload" => phase'[q] = "reload"
    BY <1>5 DEF InitLooks, InitWrites, Validates, OpensTui, ServerLooks, SetupWrites, LoadRuntime
  <2> QED
    BY <1>2, <2>1, <2>2
<1>6. ASSUME NEW p \in Process, StartUnit(p) \/ StopUnit(p) PROVE ServiceTruth'
  <2>1. unit' = unit /\ loaded' = loaded /\ vouched' = vouched
    BY <1>6 DEF StartUnit, StopUnit
  <2>2. \A q \in Process : phase[q] = "reload" => phase'[q] = "reload"
    BY <1>6 DEF StartUnit, StopUnit
  <2> QED
    BY <1>2, <2>1, <2>2
<1>7. ASSUME NEW p \in Process, InstallUnit(p) \/ UninstallUnit(p) PROVE ServiceTruth'
  BY <1>7 DEF InstallUnit, UninstallUnit
<1>8. ASSUME NEW p \in Process, Reload(p) \/ ReloadFails(p) PROVE ServiceTruth'
  BY <1>8 DEF Reload, ReloadFails
<1> QED
  BY <1>1, <1>3, <1>4, <1>5, <1>6, <1>7, <1>8, StartupSteps

LEMMA DefaultsAreTyped ==
  /\ DefaultReconnect \in ReconnectConfig /\ DefaultReconnect # Null
  /\ Defaults.prefix \in Text
<1>1. <<9, 5>> \in Int \X (Nat \ {0})
  OBVIOUS
<1>2. DefaultReconnect \in ReconnectConfig
  BY <1>1 DEF DefaultReconnect, ReconnectConfig
<1> QED
  BY <1>2, DefaultsAssumption, MarkAssumption DEF MarkAssumption, DefaultsAssumption

(* The document setup saves, read back: what was answered, and the         *)
(* defaults for the rest.                                                  *)
LEMMA SetupReadBack ==
  ASSUME NEW answers, start \in DOMAIN Situations, SoundAnswers(answers)
  PROVE  LET config == ConfigOf(Written(SetupConfig(answers)))
         IN /\ config.version = 1 /\ config.refresh_interval_ms = 250
            /\ config.host = Prompted(answers.host, Defaults.host)
            /\ config.port = answers.port
            /\ config.connect_timeout_ms = 3000 /\ config.request_timeout_ms = 2500
            /\ config.socket_path = Null
            /\ config.scenes = << >> /\ config.inputs = << >> /\ config.scene_profiles = << >>
            /\ config.reconnect.initial = 2 /\ config.reconnect.max = 40
            /\ config.reconnect.multiplier = <<9, 5>>
            /\ config.password_env = << >>
            /\ config.password = IF Trim(answers.password) = << >> THEN Null ELSE Trim(answers.password)
<1> DEFINE document == Written(SetupConfig(answers))
<1> DEFINE Answered == {"host", "port", "password_env", "password"}
           Kinds == {"reconnect", "socket_path", "version", "refresh_interval_ms", "connect_timeout_ms",
                     "request_timeout_ms", "scenes", "inputs", "scene_profiles"}
<1>1. Answered \cup Kinds \subseteq DOMAIN Defaults
  BY DEF Defaults
<1>2. \A field \in Kinds : SetupConfig(answers)[field] = Defaults[field]
  BY <1>1 DEF SetupConfig
<1>3. /\ SetupConfig(answers).host = Prompted(answers.host, Defaults.host)
      /\ SetupConfig(answers).port = answers.port
      /\ SetupConfig(answers).password_env = << >>
      /\ SetupConfig(answers).password =
           IF Trim(answers.password) = << >> THEN Null ELSE Trim(answers.password)
  BY <1>1 DEF SetupConfig
<1>4. /\ DOMAIN document = DOMAIN Defaults
      /\ document.reconnect = DefaultReconnect /\ document.password_env = << >>
  <2>1. Defaults.reconnect = DefaultReconnect
    BY DEF Defaults
  <2> QED
    BY <1>1, <1>2, <1>3, <2>1 DEF Written
<1>5. \A field \in DOMAIN Defaults : Filled(document, Defaults)[field] = document[field]
  BY <1>4 DEF Filled
<1>6. ReconnectOf(document) = Filled(DefaultReconnect, DefaultReconnect)
  BY <1>1, <1>4, DefaultsAreTyped DEF ReconnectOf, Given
<1>7. /\ ReconnectOf(document).initial = 2 /\ ReconnectOf(document).max = 40
      /\ ReconnectOf(document).multiplier = <<9, 5>>
  BY <1>6 DEF Filled, DefaultReconnect
<1>8. PasswordEnvOf(document) = << >>
  BY <1>1, <1>4, <1>5, MarkAssumption DEF MarkAssumption, PasswordEnvOf, Given
<1>9. \A field \in DOMAIN Defaults \ {"reconnect", "password_env"} :
        ConfigOf(document)[field] = SetupConfig(answers)[field]
  BY <1>5 DEF ConfigOf, Written
<1>10. ConfigOf(document).reconnect = ReconnectOf(document) /\ ConfigOf(document).password_env = << >>
  BY <1>1, <1>8 DEF ConfigOf
<1>11. /\ Defaults.version = 1 /\ Defaults.refresh_interval_ms = 250 /\ Defaults.socket_path = Null
       /\ Defaults.connect_timeout_ms = 3000 /\ Defaults.request_timeout_ms = 2500
       /\ Defaults.scenes = << >> /\ Defaults.inputs = << >> /\ Defaults.scene_profiles = << >>
  BY DEF Defaults
<1>12. \A field \in (Answered \cup Kinds) \ {"reconnect", "password_env"} :
         ConfigOf(document)[field] = SetupConfig(answers)[field]
  BY <1>1, <1>9
<1> QED
  BY <1>2, <1>3, <1>7, <1>10, <1>11, <1>12

(* What setup has asked for is what validation asks for.                   *)
LEMMA SetupIsAccepted ==
  ASSUME NEW answers, start \in DOMAIN Situations, SoundAnswers(answers)
  PROVE  RuntimeLoads(Written(SetupConfig(answers)))
<1> DEFINE document == Written(SetupConfig(answers))
           config == ConfigOf(document)
<1>1. IsDocument(document) /\ Trim(answers.password) # Fault /\ Null # Fault
  BY MarkAssumption DEF MarkAssumption, SoundAnswers, Situation
<1>2. answers.port \in 1 .. MaxPort /\ ~PlainFault(Trim(answers.password))
      /\ HostIsSound(Prompted(answers.host, Defaults.host))
  BY DEF SoundAnswers, AskedAgain, HostPasses
<1>3. Parses(document)
  <2>1. DOMAIN document = DOMAIN Defaults
    BY DEF Written
  <2>2. "port" \in DOMAIN Defaults
    BY DEF Defaults
  <2>3. document.port = answers.port
    BY <2>2 DEF Written, SetupConfig
  <2>4. answers.port \in 0 .. MaxPort
    BY <1>2
  <2>5. document.prefix = Defaults.prefix /\ document.reconnect = DefaultReconnect
        /\ "legacy_reconnect" \notin DOMAIN document
    <3>1. {"prefix", "reconnect"} \subseteq DOMAIN Defaults /\ "legacy_reconnect" \notin DOMAIN Defaults
          /\ Defaults.reconnect = DefaultReconnect
      BY DEF Defaults
    <3>2. SetupConfig(answers).prefix = Defaults.prefix /\ SetupConfig(answers).reconnect = Defaults.reconnect
      BY <3>1 DEF SetupConfig
    <3> QED
      BY <2>1, <3>1, <3>2 DEF Written
  <2>6. Filled(DefaultReconnect, DefaultReconnect) = DefaultReconnect
    BY DEF Filled, DefaultReconnect
  <2> QED
    BY <2>1, <2>3, <2>4, <2>5, <2>6, DefaultsAreTyped DEF Parses, Given
<1>4. ConnectionIsSound(config)
  BY <1>2, SetupReadBack DEF ConnectionIsSound
<1>5. /\ NamesAreSound(config) /\ ProfilesAreDistinct(config.scene_profiles)
      /\ AliasesAreSound(config.scenes) /\ AliasesAreSound(config.inputs)
  BY SetupReadBack
  DEF NamesAreSound, AliasesAreSound, UniqueAliasesAndShortcuts, UniqueNormalized, ProfilesAreDistinct
<1>6. ReconnectIsSound(config.reconnect)
  BY SetupReadBack DEF ReconnectIsSound
<1>7. Password(config, Env) # Fault
  <2>1. ~PlainFault(config.password) /\ config.password # Fault
    BY <1>1, <1>2, SetupReadBack DEF PlainFault
  <2> QED
    BY <2>1, SetupReadBack DEF Password
<1>8. Accepts(config, Env)
  BY <1>4, <1>5, <1>6, <1>7, SetupReadBack DEF Accepts
<1> QED
  BY <1>1, <1>3, <1>8 DEF RuntimeLoads, Loads, IsDocument, Exists

-----------------------------------------------------------------------------
(* What a config says of itself *)

LEMMA ReconnectIsTyped ==
  ASSUME NEW document, Parses(document)
  PROVE  ReconnectOf(document) \in ReconnectConfig
  BY DefaultsAreTyped DEF Parses, ReconnectOf

LEMMA FilledIsItself ==
  ASSUME NEW r \in ReconnectConfig PROVE Filled(r, DefaultReconnect) = r
  BY DEF Filled, DefaultReconnect, ReconnectConfig

(* What was saved is the same config once more, whichever of its fields    *)
(* the first document left out, gave in their legacy place or as null.     *)
LEMMA SavedIsRead ==
  ASSUME NEW document, Parses(document)
  PROVE  SavedLoadsBack(ConfigOf(document))
<1> DEFINE config == ConfigOf(document)
           saved == Written(config)
<1>1. DOMAIN config = DOMAIN Defaults /\ saved = config
  BY DEF ConfigOf, Written
<1>2. {"port", "prefix", "reconnect", "password_env"} \subseteq DOMAIN Defaults
      /\ "legacy_reconnect" \notin DOMAIN Defaults
  BY DEF Defaults
<1>3. /\ config.port = Filled(document, Defaults).port
      /\ config.prefix = Filled(document, Defaults).prefix
      /\ config.reconnect = ReconnectOf(document)
      /\ config.password_env = PasswordEnvOf(document)
  BY <1>2 DEF ConfigOf
<1>4. config.port \in 0 .. MaxPort
  <2>1. Defaults.port \in 0 .. MaxPort
    BY DEF Defaults, MaxPort
  <2> QED
    BY <1>2, <1>3, <2>1 DEF Filled, Parses
<1>5. config.prefix \in Text
  BY <1>2, <1>3, DefaultsAreTyped DEF Filled, Parses
<1>6. config.reconnect \in ReconnectConfig /\ Filled(config.reconnect, DefaultReconnect) = config.reconnect
  BY <1>3, ReconnectIsTyped, FilledIsItself
<1>7. Parses(saved)
  BY <1>1, <1>2, <1>4, <1>5, <1>6 DEF Parses, Given
<1>8. \A field \in DOMAIN Defaults : Filled(saved, Defaults)[field] = config[field]
  BY <1>1 DEF Filled
<1>9. ReconnectOf(saved) = config.reconnect
  BY <1>1, <1>2, <1>6, MarkAssumption DEF ReconnectOf, Given, MarkAssumption
<1>10. PasswordEnvOf(saved) = config.password_env
  <2>1. config.password_env # Null
    <3>1. Defaults.password_env # Null /\ Null # << >>
      BY MarkAssumption DEF MarkAssumption
    <3> QED
      BY <1>2, <1>3, <3>1, MarkAssumption DEF PasswordEnvOf, Given, Filled, MarkAssumption
  <2> QED
    BY <1>1, <1>2, <1>8, <2>1 DEF PasswordEnvOf, Given
<1>11. \A field \in DOMAIN Defaults : ConfigOf(saved)[field] = config[field]
  BY <1>8, <1>9, <1>10 DEF ConfigOf
<1>12. ConfigOf(saved) = config
  <2>1. ConfigOf(saved) = [field \in DOMAIN Defaults |-> ConfigOf(saved)[field]]
    BY DEF ConfigOf
  <2>2. config = [field \in DOMAIN Defaults |-> config[field]]
    BY DEF ConfigOf
  <2> QED
    BY <1>11, <2>1, <2>2
<1> QED
  BY <1>7, <1>12 DEF SavedLoadsBack

(* The palette's prefix is the configured one if it is one it knows.       *)
LEMMA PrefixTaken ==
  ASSUME NEW config, config.prefix \in Text
  PROVE  /\ config.prefix \in PalettePrefixes => PalettePrefix(config) = config.prefix
         /\ config.prefix \notin PalettePrefixes =>
              PalettePrefix(config) = Defaults.prefix \/ Len(config.prefix) > 1
<1>1. CASE config.prefix \in PalettePrefixes
  <2>1. \A prefix \in {<<"/">>, <<":">>} : prefix # << >> /\ <<Head(prefix)>> = prefix
    OBVIOUS
  <2>2. config.prefix # << >> /\ <<Head(config.prefix)>> = config.prefix
    BY <1>1, <2>1 DEF PalettePrefixes
  <2> QED
    BY <1>1, <2>2 DEF PalettePrefix
<1>2. CASE config.prefix \notin PalettePrefixes
  <2>1. CASE config.prefix = << >> \/ <<Head(config.prefix)>> \notin PalettePrefixes
    BY <1>2, <2>1 DEF PalettePrefix
  <2>2. CASE config.prefix # << >> /\ <<Head(config.prefix)>> \in PalettePrefixes
    <3>1. Len(config.prefix) \in Nat /\ Len(config.prefix) > 0
      BY <2>2 DEF Text
    <3>2. Len(config.prefix) = 1 => config.prefix = <<Head(config.prefix)>>
      BY DEF Text
    <3>3. Len(config.prefix) # 1
      BY <1>2, <2>2, <3>2
    <3>4. \A n \in Nat : n > 0 /\ n # 1 => n > 1
      OBVIOUS
    <3>5. Len(config.prefix) > 1
      BY <3>1, <3>3, <3>4
    <3> QED
      BY <1>2, <3>5
  <2> QED
    BY <2>1, <2>2
<1> QED
  BY <1>1, <1>2

(* An accepted config: what it is warned of happens, and nothing of the    *)
(* kind without a warning.                                                 *)
LEMMA WarnedIsTrue ==
  ASSUME NEW document, Parses(document), Accepts(ConfigOf(document), Env)
  PROVE  WarningsAreTrue(ConfigOf(document))
<1> DEFINE config == ConfigOf(document)
           Warned(w) == w \in Warnings(config, Env)
           Unset == [variable \in {} |-> Null]
<1>1. /\ Warned("prefix") <=> config.prefix \notin PalettePrefixes
      /\ Warned("locale") <=> config.locale # Null /\ Lower(config.locale) \notin Locales
      /\ Warned("no password") <=> config.password_env # << >> /\ config.password = Null
                                     /\ Password(config, Env) = Null
      /\ Warned("no profile") <=> config.active # Null /\ ActiveOf(config) = {}
  BY DEF Warnings
<1>2. Warned("locale") <=> config.locale # Null /\ Locale(Unset, config.locale) # Lower(config.locale)
  <2>1. EnvToken(Unset, <<"OBSCTL", "LOCALE">>) = Null
    BY DEF EnvToken
  <2>2. config.locale # Null =>
          Locale(Unset, config.locale)
            = IF Lower(config.locale) \in Locales THEN Lower(config.locale) ELSE <<"en">>
    BY <2>1 DEF Locale
  <2>3. <<"en">> \in Locales
    BY DEF Locales
  <2> QED
    BY <1>1, <2>2, <2>3
<1>3. /\ ~Warned("prefix") => PalettePrefix(config) = config.prefix
      /\ Warned("prefix") => PalettePrefix(config) = Defaults.prefix \/ Len(config.prefix) > 1
  <2>1. config.prefix \in Text
    <3>1. "prefix" \in DOMAIN Defaults
      BY DEF Defaults
    <3>2. "prefix" \in DOMAIN Written(config) /\ Written(config).prefix = config.prefix
      BY <3>1 DEF Written
    <3>3. Parses(Written(config))
      BY SavedIsRead DEF SavedLoadsBack
    <3> QED
      BY <3>2, <3>3 DEF Parses
  <2> QED
    BY <1>1, <2>1, PrefixTaken
<1>4. /\ Warned("no password") => Password(config, Env) = Null
      /\ Password(config, Env) = Null => Warned("no password") \/ config.password_env = << >>
  <2>1. Null # Fault
    BY MarkAssumption DEF MarkAssumption
  <2>2. Password(config, Env) = Null => config.password = Null
    BY <2>1 DEF Password
  <2> QED
    BY <1>1, <2>2
<1>5. Warned("no profile") => ActiveOf(config) = {}
  BY <1>1
<1>6. ASSUME config.scenes # << >>, NEW i \in DOMAIN config.scene_profiles,
             NEW scene \in config.scene_profiles[i].hidden
      PROVE  LET shown == Visibility({}, config.scene_profiles, {i})
             IN <<i, scene>> \in UnknownHidden(config) <=>
                  ~\E j \in DOMAIN config.scenes :
                     /\ NormalizedName(config.scenes[j].name) = NormalizedName(scene)
                     /\ IsHidden(shown, config.scenes[j].name)
  <2> DEFINE shown == Visibility({}, config.scene_profiles, {i})
  <2>1. <<i, scene>> \in UnknownHidden(config) <=> ~Listed(config, scene)
    <3>1. <<i, scene>> \in UNION {{k} \X config.scene_profiles[k].hidden : k \in DOMAIN config.scene_profiles}
      BY <1>6
    <3> QED
      BY <1>6, <3>1 DEF UnknownHidden
  <2>2. Usable(scene) /\ \A j \in DOMAIN config.scenes : Usable(config.scenes[j].name)
    BY <1>6 DEF Accepts, NamesAreSound
  <2>3. NormalizedName(scene) \in shown
    BY <1>6, <2>2 DEF Visibility
  <2>4. \A j \in DOMAIN config.scenes :
          NormalizedName(config.scenes[j].name) = NormalizedName(scene) => IsHidden(shown, config.scenes[j].name)
    BY <2>2, <2>3 DEF IsHidden
  <2> QED
    BY <2>1, <2>4 DEF Listed
<1> QED
  BY <1>1, <1>2, <1>3, <1>4, <1>5, <1>6 DEF WarningsAreTrue

LEMMA ToldTruly == SettingsAreTold
  BY SavedIsRead, WarnedIsTrue DEF SettingsAreTold, Takes, Loads

-----------------------------------------------------------------------------
LEMMA StartupBegins == StartupInit => PathIInv /\ StartupIInv
<1> SUFFICES ASSUME StartupInit PROVE PathIInv /\ StartupIInv
  OBVIOUS
<1>1. PathIInv
  BY PathInit DEF StartupInit
<1>2. Kept /\ phase \in [Process -> Phases]
  BY SituationAssumption DEF SituationAssumption, StartupInit, Situation, Kept, Phases
<1>3. TaskInv /\ ApprovedLoads
  BY DEF StartupInit, TaskInv, ApprovedLoads
<1>4. ServiceTruth
  BY DEF StartupInit, ServiceTruth
<1> QED
  BY <1>1, <1>2, <1>3, <1>4 DEF StartupIInv, StartupTypeOK, PathIInv, PathInv, Kept

LEMMA StartupGoesOn ==
  PathIInv /\ StartupIInv /\ [StartupNext]_startupVars => PathIInv' /\ StartupIInv'
<1> SUFFICES ASSUME PathIInv, StartupIInv, [StartupNext]_startupVars PROVE PathIInv' /\ StartupIInv'
  OBVIOUS
<1>1. PathIInv'
  BY StartupStep, PathNext
<1>2. phase' \in [Process -> Phases] /\ ServiceTruth'
  BY PhasesKept, ServiceTruthKept DEF StartupIInv, StartupTypeOK
<1>3. TaskInv'
  BY TaskKept DEF StartupIInv, StartupTypeOK
<1>4. Kept' /\ ApprovedLoads'
  BY KeptTypes, ApprovedKept DEF StartupIInv, StartupTypeOK, Kept
<1> QED
  BY <1>1, <1>2, <1>3, <1>4 DEF StartupIInv, StartupTypeOK, PathIInv, PathInv, Kept

(* What first-time setup has saved its own daemon can load, and a daemon   *)
(* takes what validate-config has found valid (first_time_setup, validate, *)
(* run_validate_config, load_runtime), whatever is invoked, edited or      *)
(* installed in whatever order; and of a config that a process takes no    *)
(* warning is untrue or missing and saving it keeps it (validate,          *)
(* From<ConfigDocument>), for every document and environment there may be. *)
THEOREM SetupAndApprovalHold == StartupSpec => []StartupInv
<1>1. StartupIInv => StartupInv
  <2> SUFFICES ASSUME StartupIInv,
                      NEW p \in Process, phase[p] = "load", task[p].answers # Null,
                      Content(p) = Written(SetupConfig(task[p].answers))
               PROVE  RuntimeLoads(Content(p))
    BY ToldTruly DEF StartupInv, StartupIInv, SetupLoads
  <2>1. start \in DOMAIN Situations /\ SoundAnswers(task[p].answers)
    BY DEF StartupIInv, TaskInv
  <2> QED
    BY <2>1, SetupIsAccepted
<1> QED
  BY StartupBegins, StartupGoesOn, <1>1, PTL DEF StartupSpec

(* When the last install or uninstall said that it succeeded, systemd      *)
(* knows the unit that is there (ServiceInstaller), for any number of      *)
(* processes that install, uninstall and fail to reload at once.           *)
THEOREM ServiceTellsTheTruth == StartupSpec => []ServiceTruth
<1>1. StartupIInv => ServiceTruth
  BY DEF StartupIInv
<1> QED
  BY StartupBegins, StartupGoesOn, <1>1, PTL DEF StartupSpec
==============================================================================
