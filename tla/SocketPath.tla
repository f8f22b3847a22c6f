----------------------------- MODULE SocketPath -----------------------------
(***************************************************************************)
(* The socket file of the daemon (ipc/socket_path.rs) between several      *)
(* processes that are started, stopped and killed on one path.             *)
(*                                                                         *)
(* A directory entry and the listener behind it are two things: an entry   *)
(* outlives the process that bound it, and a process goes on listening     *)
(* after its entry is gone.  A starting daemon tells a stale entry from a  *)
(* live one by connecting to it, takes a stale one away and binds; a       *)
(* daemon that has stopped accepting finishes its work and then takes away *)
(* whatever socket the path names.  A removal renames the entry to a       *)
(* temporary name, looks at it again and only then deletes it.             *)
(*                                                                         *)
(* An entry is named by the process and the run of it that bound it.  The  *)
(* user may put a file of another kind at the path.                        *)
(***************************************************************************)
EXTENDS Naturals

CONSTANTS
  Process,    \* the processes that are started as daemons
  MaxRuns,    \* bound: how often each is started
  MaxForeign, \* bound: files of another kind put at the path
  Backlog,    \* whether the listen queue of a daemon may be full when it is probed
  Nothing,    \* what the path names when it names nothing
  Foreign     \* an entry that is no socket

Run == Process \X (1 .. MaxRuns)
Entry == Run \cup {Nothing, Foreign}

ASSUME BoundAssumption == MaxRuns \in Nat /\ MaxForeign \in Nat /\ Backlog \in BOOLEAN
ASSUME EntryAssumption == Nothing # Foreign /\ Nothing \notin Run /\ Foreign \notin Run

VARIABLES
  pc,        \* what each process is about to do
  run,       \* how often it has been started
  stopping,  \* it is cleaning up after its service, and not before it
  path,      \* the entry at the socket path
  listening, \* the entries with a listener behind them
  aside,     \* the entry each process holds under a temporary name
  litter,    \* entries left under temporary names by processes that were killed
  placed,    \* how many files of another kind have been put at the path
  earlier    \* history: for each process, the runs that were past their probe when it bound

process == <<pc, run, stopping>>
files == <<path, listening, aside, litter, placed>>
vars == <<process, files, earlier>>

Mine(p) == <<p, run[p]>>

Ended == {"never", "failed", "stopped", "killed"}
Starting == {"look", "validate", "probe"}
Removing == {"check", "rename", "unlink"}
Up == {"confirm", "serving"}

(* What each variable holds; only sockets have listeners.                  *)
TypeOK ==
  /\ pc \in [Process -> Ended \cup Starting \cup Removing \cup Up \cup {"bind", "draining"}]
  /\ run \in [Process -> 0 .. MaxRuns]
  /\ stopping \in [Process -> BOOLEAN]
  /\ path \in Entry
  /\ listening \subseteq Run
  /\ aside \in [Process -> Entry]
  /\ litter \subseteq Run \cup {Foreign}
  /\ placed \in 0 .. MaxForeign
  /\ earlier \in [Process -> SUBSET Run]

(* A path left over from earlier days may hold a socket that nobody        *)
(* listens on; that is what a first run that is killed leaves.             *)
Init ==
  /\ pc = [p \in Process |-> "never"] /\ run = [p \in Process |-> 0]
  /\ stopping = [p \in Process |-> FALSE]
  /\ path = Nothing /\ listening = {} /\ placed = 0
  /\ aside = [p \in Process |-> Nothing] /\ litter = {}
  /\ earlier = [p \in Process |-> {}]

GoesTo(p, where) == pc' = [pc EXCEPT ![p] = where]

(* daemon::run begins: the config is loaded, then the path prepared.       *)
Start(p) ==
  /\ pc[p] \in Ended /\ run[p] < MaxRuns
  /\ GoesTo(p, "look")
  /\ run' = [run EXCEPT ![p] = @ + 1]
  /\ stopping' = [stopping EXCEPT ![p] = FALSE]
  /\ earlier' = [earlier EXCEPT ![p] = {}]
  /\ UNCHANGED files

(* prepare: is there an entry at all?                                      *)
Look(p) ==
  /\ pc[p] = "look"
  /\ GoesTo(p, IF path = Nothing THEN "bind" ELSE "validate")
  /\ UNCHANGED <<run, stopping, files, earlier>>

(* try_remove_stale_socket before its probe: an entry that is no socket    *)
(* fails the start, and so does one that has vanished since Look.          *)
Validate(p) ==
  /\ pc[p] = "validate"
  /\ GoesTo(p, IF path \in Run THEN "probe" ELSE "failed")
  /\ UNCHANGED <<run, stopping, files, earlier>>

(* The probe connects.  A listener answers from its queue, whatever its    *)
(* process does; with the queue full the attempt is refused like one to a  *)
(* socket without listener.                                                *)
ProbeConnects(p) ==
  /\ pc[p] = "probe" /\ path \in listening
  /\ GoesTo(p, "failed")
  /\ UNCHANGED <<run, stopping, files, earlier>>

ProbeIsRefused(p) ==
  /\ pc[p] = "probe" /\ (path \notin listening \/ Backlog)
  /\ GoesTo(p, "check")
  /\ earlier' = [q \in Process |->
                   IF path \in listening /\ path = Mine(q) THEN earlier[q] \cup {Mine(p)}
                                                           ELSE earlier[q]]
  /\ UNCHANGED <<run, stopping, files>>

(* Plausible bugs, which the properties detect: a probe nobody makes, one  *)
(* that takes silence for life, a bind that replaces what it finds.        *)
SkipsProbe(p) ==
  pc[p] = "probe" /\ GoesTo(p, "check") /\ UNCHANGED <<run, stopping, files, earlier>>
SilenceIsLife(p) ==
  pc[p] = "probe" /\ GoesTo(p, "failed") /\ UNCHANGED <<run, stopping, files, earlier>>
BindsOver(p) ==
  /\ pc[p] = "bind" /\ GoesTo(p, "confirm")
  /\ path' = Mine(p) /\ listening' = listening \cup {Mine(p)}
  /\ UNCHANGED <<run, stopping, aside, litter, placed, earlier>>

Probe(p) == ProbeConnects(p) \/ ProbeIsRefused(p)

(* Where a removal leads that found the entry gone or has deleted it, and  *)
(* one that came upon something else than a socket.  On the way out        *)
(* neither matters: shut_down only logs what cleanup returns.              *)
Removed(p) == GoesTo(p, IF stopping[p] THEN "stopped" ELSE "bind")
NotRemoved(p) == GoesTo(p, IF stopping[p] THEN "stopped" ELSE "failed")

(* remove_socket_file_if_stale, and remove_with_type_guard up to its       *)
(* rename: the entry is looked at, twice in a row.                         *)
Check(p) ==
  /\ pc[p] = "check"
  /\ \/ path = Nothing /\ Removed(p)
     \/ path = Foreign /\ NotRemoved(p)
     \/ path \in Run /\ GoesTo(p, "rename")
  /\ UNCHANGED <<run, stopping, files, earlier>>

Rename(p) ==
  /\ pc[p] = "rename"
  /\ \/ path = Nothing /\ Removed(p) /\ UNCHANGED <<path, aside>>
     \/ /\ path # Nothing
        /\ aside' = [aside EXCEPT ![p] = path] /\ path' = Nothing
        /\ GoesTo(p, "unlink")
  /\ UNCHANGED <<run, stopping, listening, litter, placed, earlier>>

(* The third look, now at an entry nobody else knows: a socket is deleted, *)
(* anything else put back where it was, over what has come there since.    *)
IsExpected(entry) == entry \in Run

Unlink(p) ==
  /\ pc[p] = "unlink"
  /\ aside' = [aside EXCEPT ![p] = Nothing]
  /\ IF IsExpected(aside[p]) THEN Removed(p) /\ UNCHANGED path
                             ELSE NotRemoved(p) /\ path' = aside[p]
  /\ UNCHANGED <<run, stopping, listening, litter, placed, earlier>>

(* UnixListener::bind creates the entry, which must not exist, and listens *)
(* from then on.                                                           *)
PastProbe(p) == pc[p] \notin Ended \cup Starting

Bind(p) ==
  /\ pc[p] = "bind"
  /\ IF path # Nothing
       THEN GoesTo(p, "failed") /\ UNCHANGED <<path, listening, earlier>>
       ELSE /\ path' = Mine(p) /\ listening' = listening \cup {Mine(p)}
            /\ earlier' = [earlier EXCEPT ![p] = {Mine(q) : q \in {r \in Process \ {p} : PastProbe(r)}}]
            /\ GoesTo(p, "confirm")
  /\ UNCHANGED <<run, stopping, aside, litter, placed>>

(* bind_with_registry looks once more: whether there is a socket at the    *)
(* path, not whose.                                                        *)
Confirm(p) ==
  /\ pc[p] = "confirm"
  /\ IF path \in Run THEN GoesTo(p, "serving") /\ UNCHANGED listening
                     ELSE GoesTo(p, "failed") /\ listening' = listening \ {Mine(p)}
  /\ UNCHANGED <<run, stopping, path, aside, litter, placed, earlier>>

(* The accept loop ends, and the listener with it.                         *)
StopAccepting(p) ==
  /\ pc[p] = "serving"
  /\ GoesTo(p, "draining")
  /\ listening' = listening \ {Mine(p)}
  /\ UNCHANGED <<run, stopping, path, aside, litter, placed, earlier>>

(* shut_down has waited for lanes and supervisor, or for its deadline, and *)
(* calls cleanup, which does not probe.                                    *)
CleanUp(p) ==
  /\ pc[p] = "draining"
  /\ GoesTo(p, "check")
  /\ stopping' = [stopping EXCEPT ![p] = TRUE]
  /\ UNCHANGED <<run, files, earlier>>

(* The process is killed: its listener closes, its entry stays.            *)
Kill(p) ==
  /\ pc[p] \notin Ended
  /\ GoesTo(p, "killed")
  /\ listening' = listening \ {Mine(p)}
  /\ aside' = [aside EXCEPT ![p] = Nothing]
  /\ litter' = litter \cup ({aside[p]} \ {Nothing})
  /\ UNCHANGED <<run, stopping, path, placed, earlier>>

(* The user puts a file at the path, over a socket left behind if there is *)
(* one.                                                                    *)
Place ==
  /\ placed < MaxForeign /\ path \notin listening
  /\ path' = Foreign /\ placed' = placed + 1
  /\ UNCHANGED <<process, listening, aside, litter, earlier>>

Step(p) ==
  \/ Look(p) \/ Validate(p) \/ Probe(p)
  \/ Check(p) \/ Rename(p) \/ Unlink(p)
  \/ Bind(p) \/ Confirm(p) \/ CleanUp(p)

Next ==
  \/ \E p \in Process : Start(p) \/ Step(p) \/ StopAccepting(p) \/ Kill(p)
  \/ Place

Spec == Init /\ [][Next]_vars

-----------------------------------------------------------------------------
(***************************************************************************)
(* Properties                                                              *)
(***************************************************************************)

(* "One belonging to a daemon that is still running must not be" cleared   *)
(* (socket_path.rs:158): the path of a daemon that is up leads to it, as   *)
(* long as no run was past its probe when the daemon bound, nor found its  *)
(* queue full.  Both exceptions are the code's: what is decided with the   *)
(* probe is done without looking whose socket it has become, and cleanup   *)
(* does not probe.                                                         *)
UpIsReachable ==
  \A p \in Process : pc[p] \in Up /\ earlier[p] = {} => path = Mine(p)

(* What makes it so: while the path is a daemon's that is up, whoever is   *)
(* past its probe is one of those runs; others still have to connect.      *)
OthersAreEarlier ==
  \A p, q \in Process :
    p # q /\ pc[p] \in Up /\ path = Mine(p) /\ PastProbe(q) => Mine(q) \in earlier[p]

(* And of those that were past it, it is one still at work that takes the  *)
(* entry of a daemon that is up: a daemon loses its path at most to runs   *)
(* that began before its own, never to one that starts later.              *)
LosesToEarlier ==
  [][\A p \in Process :
       pc[p] \in Up /\ path = Mine(p) /\ path' # path /\ pc'[p] \in Up
         => \E q \in Process \ {p} : /\ Mine(q) \in earlier[p]
                                     /\ pc[q] \in {"rename", "unlink"} /\ pc'[q] # pc[q]]_vars

(* A daemon that ends in order leaves no entry of its own at the path      *)
(* (socket_path::cleanup), whoever else was at work on it.                 *)
StopsWithoutTrace ==
  \A p \in Process : pc[p] = "stopped" => path # Mine(p)

(* A file of another kind is never destroyed, however the processes        *)
(* interleave and wherever they are killed (remove_with_type_guard): it is *)
(* at the path or under a temporary name.                                  *)
ForeignSurvives ==
  placed > 0 => Foreign \in {path} \cup litter \cup {aside[p] : p \in Process}

(* The path leads to the daemon that is up, and says nothing false after   *)
(* it; no file is lost to the cleaning (prepare, bind_with_registry and    *)
(* cleanup of all processes).                                              *)
PathInv == TypeOK /\ UpIsReachable /\ OthersAreEarlier /\ StopsWithoutTrace /\ ForeignSurvives

(* Nobody but p is at work on the path, and no file of another kind is.    *)
Alone(p) == /\ \A q \in Process \ {p} : pc[q] \in Ended
            /\ path # Foreign
=============================================================================
