----------------------------- MODULE Supervisor -----------------------------
(***************************************************************************)
(* The daemon's supervision of its OBS connection                          *)
(* (server/obs_supervisor.rs), with the tasks each connection brings along *)
(* (server/snapshot_refresh.rs, server/stats_poller.rs, obs/client.rs) and *)
(* the two status fields clients read: the snapshot's verdict on the       *)
(* connection and the `reconnecting` flag (server/command_executor.rs).    *)
(*                                                                         *)
(* The supervisor is one task going round: dial, publish a first snapshot, *)
(* install the client, wait for an end, withdraw the client, report, back  *)
(* off, dial.  A connection is a Session.  Its four tasks live on their    *)
(* own: the client task that owns the socket, the event pump it feeds, the *)
(* refresh worker the pump nudges, and the stats poller.  An identity is   *)
(* reused once all four have ended.                                        *)
(*                                                                         *)
(* What a refresh reads is the subject of SnapshotSync; here it is two     *)
(* steps, the requests that fail it and the ones that only degrade it.     *)
(***************************************************************************)
EXTENDS Naturals, FiniteSets

CONSTANTS
  Session,        \* connections
  NoSession,
  Limit,          \* capacity of the reconnect channel
  ReconnectConfig,\* the reconnect settings a config may hold
  MaxAttempts,    \* where the policy's attempt counter saturates (u32::MAX)
  Reloads         \* whether the config may be reloaded with other settings

Settings == [enabled : BOOLEAN, endless : BOOLEAN, longest : Nat]

ASSUME SessionAssumption == NoSession \notin Session
ASSUME LimitAssumption == Limit \in Nat \ {0}
(* longest: how many delays the backoff grows for before it reaches        *)
(* max_delay_ms; how long each is does not matter here.                    *)
ASSUME ReconnectConfigAssumption ==
  /\ ReconnectConfig \subseteq Settings
  /\ MaxAttempts \in Nat
  /\ \A c \in ReconnectConfig : c.longest < MaxAttempts
ASSUME ReloadsAssumption == Reloads \in BOOLEAN

VARIABLES
  stage,         \* where ObsSupervisor::run is
  config,        \* Config::reconnect
  settings,      \* run's reconnect_cfg: the settings the policy was built from
  policy,        \* ReconnectPolicy: attempts, backoff_topped_out
  reconnecting,  \* the flag server-status reports
  handle,        \* obs_handle: the client commands are given
  session,       \* the connection run is serving
  reason,        \* the DisconnectReason serve is about to report
  tasks,         \* the tasks of each connection
  snap,          \* ObsSnapshot: connected, last_error
  reconnects,    \* reconnects accepted and waiting in the channel
  shutdown,      \* the daemon's watch channel
  late           \* history: a worker has published for a connection no longer served

supervisorVars == <<stage, config, settings, policy, reconnecting, handle, session, reason, tasks,
                    snap, reconnects, shutdown, late>>

Stage == {"dial", "connect", "essential", "degradable", "again", "install", "serve", "withdraw",
          "report", "retry", "wait", "done"}
Reason == {"Shutdown", "ReconnectRequested", "ObsDisconnected"}
Error == {"none", "unavailable", "incomplete", "reconnect requested", "OBS disconnected",
          "supervisor stopped"}
Tasks == [client : {"running", "ended"}, pump : {"running", "ended"},
          worker : {"idle", "essential", "degradable", "ended"}, poller : {"running", "ended"}]

Gone == [client |-> "ended", pump |-> "ended", worker |-> "ended", poller |-> "ended"]
Started == [client |-> "running", pump |-> "running", worker |-> "idle", poller |-> "running"]
Fresh == [attempts |-> 0, backoff_topped_out |-> FALSE]

SupervisorTypeOK ==
  /\ stage \in Stage
  /\ config \in ReconnectConfig
  /\ settings \in ReconnectConfig
  /\ policy \in [attempts : 0 .. MaxAttempts, backoff_topped_out : BOOLEAN]
  /\ reconnecting \in BOOLEAN
  /\ handle \in Session \union {NoSession}
  /\ session \in Session \union {NoSession}
  /\ reason \in Reason
  /\ tasks \in [Session -> Tasks]
  /\ snap \in [connected : BOOLEAN, last_error : Error]
  /\ reconnects \in 0 .. Limit
  /\ shutdown \in BOOLEAN
  /\ late \in BOOLEAN

SupervisorInit ==
  /\ stage = "dial"
  /\ config \in ReconnectConfig
  /\ settings = config
  /\ policy = Fresh
  /\ reconnecting = FALSE
  /\ handle = NoSession
  /\ session = NoSession
  /\ reason = "ObsDisconnected"
  /\ tasks = [s \in Session |-> Gone]
  /\ snap = [connected |-> FALSE, last_error |-> "none"]
  /\ reconnects = 0
  /\ shutdown = FALSE
  /\ late = FALSE

-----------------------------------------------------------------------------
(* What the supervisor writes                                              *)

(* StateStore::apply_full_refresh, as far as the verdict goes.             *)
PublishConnected == snap' = [connected |-> TRUE, last_error |-> "none"]

(* StateStore::mark_connected.                                             *)
Unmarked(error) == snap' = [snap EXCEPT !.last_error = error]  \* mutant
MarkConnected(error) == snap' = [connected |-> TRUE, last_error |-> error]

(* StateStore::mark_disconnected.                                          *)
MarkDisconnected(error) == snap' = [connected |-> FALSE, last_error |-> error]

(* The supervisor's calls of it; what was published late is overwritten.   *)
Disconnected(error) == MarkDisconnected(error) /\ late' = FALSE

(* DisconnectReason::report: the last_error an ending leaves behind.       *)
LastError(r) ==
  CASE r = "Shutdown"           -> "none"
    [] r = "ReconnectRequested" -> "reconnect requested"
    [] r = "ObsDisconnected"    -> "OBS disconnected"

(* Where run goes after an ending.                                         *)
After(r) ==
  CASE r = "Shutdown"           -> "done"
    [] r = "ReconnectRequested" -> "dial"
    [] r = "ObsDisconnected"    -> "retry"

-----------------------------------------------------------------------------
(* The backoff policy                                                      *)

(* ReconnectPolicy::next_delay hands out another delay.                    *)
MayRetry == settings.enabled /\ (settings.endless \/ ~policy.backoff_topped_out)

TakeDelay ==
  policy' = [attempts |-> IF policy.attempts < MaxAttempts THEN policy.attempts + 1 ELSE MaxAttempts,
             backoff_topped_out |-> policy.attempts >= settings.longest]

(* connect_once: new settings start a new policy, old ones keep theirs.    *)
PolicyKept == settings' = config /\ UNCHANGED policy  \* mutant
TakeSettings ==
  /\ settings' = config
  /\ policy' = IF config = settings THEN policy ELSE Fresh

-----------------------------------------------------------------------------
(* The supervisor                                                          *)

(* connect_once, up to the attempt.  The settings are read here and used   *)
(* after the attempt.                                                      *)
Dial ==
  /\ stage = "dial"
  /\ TakeSettings
  /\ reconnecting' = TRUE
  /\ stage' = "connect"
  /\ UNCHANGED <<config, handle, session, reason, tasks, snap, late, reconnects, shutdown>>

(* attempt_connect succeeds and has spawned the session's tasks.           *)
Connected(s) ==
  /\ stage = "connect"
  /\ tasks[s] = Gone
  /\ tasks' = [tasks EXCEPT ![s] = Started]
  /\ session' = s
  /\ policy' = Fresh
  /\ reconnecting' = FALSE
  /\ stage' = "essential"
  /\ UNCHANGED <<config, settings, handle, reason, snap, late, reconnects, shutdown>>

(* record_connect_failure.                                                 *)
ConnectFails ==
  /\ stage = "connect"
  /\ Disconnected("unavailable")
  /\ stage' = "retry"
  /\ UNCHANGED <<config, settings, policy, reconnecting, handle, session, reason, tasks, reconnects,
                 shutdown>>

(* attempt_connect_or_shutdown: the attempt loses the race.                *)
ConnectAbandoned ==
  /\ stage = "connect"
  /\ shutdown
  /\ reconnecting' = FALSE
  /\ stage' = "done"
  /\ UNCHANGED <<config, settings, policy, handle, session, reason, tasks, snap, late, reconnects, shutdown>>

(* publish_initial_snapshot has what it cannot do without.                 *)
InitialEssential ==
  /\ stage = "essential"
  /\ tasks[session].client = "running"
  /\ stage' = "degradable"
  /\ UNCHANGED <<config, settings, policy, reconnecting, handle, session, reason, tasks, snap, late,
                 reconnects, shutdown>>

(* An essential request failed: serve marks the store connected itself.    *)
InitialFails ==
  /\ stage \in {"essential", "again"}
  /\ MarkConnected("incomplete")
  /\ stage' = "install"
  /\ UNCHANGED <<config, settings, policy, reconnecting, handle, session, reason, tasks, reconnects,
                 shutdown, late>>

(* The rest is read or defaulted, and published; overtaken by an event,    *)
(* refresh_until_current goes round again, a bounded number of times.      *)
InitialPublished ==
  /\ stage \in {"degradable", "again"}
  /\ PublishConnected
  /\ stage' \in IF stage = "again" THEN {"install"} ELSE {"install", "again"}
  /\ UNCHANGED <<config, settings, policy, reconnecting, handle, session, reason, tasks, reconnects,
                 shutdown, late>>

Install ==
  /\ stage = "install"
  /\ handle' = session
  /\ stage' = "serve"
  /\ UNCHANGED <<config, settings, policy, reconnecting, session, reason, tasks, snap, late, reconnects,
                 shutdown>>

(* wait_for_disconnect: any of the three branches that is ready.           *)
EndsFor(r) ==
  /\ stage = "serve"
  /\ reason' = r
  /\ stage' = "withdraw"
  /\ UNCHANGED <<config, settings, policy, reconnecting, handle, session, tasks, snap, late, shutdown>>

Unheard == FALSE  \* mutant
ServeLost == EndsFor("ObsDisconnected") /\ tasks[session].client = "ended" /\ UNCHANGED reconnects
LooksAway == FALSE  \* mutant
ServeShutdown == EndsFor("Shutdown") /\ shutdown /\ UNCHANGED reconnects
LeavesItQueued == FALSE  \* mutant
ServeReconnect == EndsFor("ReconnectRequested") /\ reconnects > 0 /\ reconnects' = reconnects - 1

HandleKept == UNCHANGED handle  \* mutant
TakeHandle == handle' = NoSession

Withdraw ==
  /\ stage = "withdraw"
  /\ TakeHandle
  /\ stage' = "report"
  /\ UNCHANGED <<config, settings, policy, reconnecting, session, reason, tasks, snap, late, reconnects,
                 shutdown>>

Report ==
  /\ stage = "report"
  /\ Disconnected(LastError(reason))
  /\ stage' = After(reason)
  /\ session' = NoSession
  /\ UNCHANGED <<config, settings, policy, reconnecting, handle, reason, tasks, reconnects, shutdown>>

(* wait_before_retry, up to the sleep.                                     *)
Backoff ==
  /\ stage = "retry"
  /\ MayRetry
  /\ TakeDelay
  /\ stage' = "wait"
  /\ UNCHANGED <<config, settings, reconnecting, handle, session, reason, tasks, snap, late, reconnects,
                 shutdown>>

(* stop_supervising.  run returns, which drops the reconnect receiver and  *)
(* what it holds.                                                          *)
StopSupervising ==
  /\ stage = "retry"
  /\ ~MayRetry
  /\ reconnecting' = FALSE
  /\ Disconnected("supervisor stopped")
  /\ stage' = "done"
  /\ UNCHANGED <<config, settings, policy, handle, session, reason, tasks, reconnects, shutdown>>

(* The sleep is over, or a reconnect request cuts it short; either way the *)
(* shutdown flag is looked at once more.                                   *)
WaitOver == stage = "wait" /\ stage' = IF shutdown THEN "done" ELSE "dial"

DelayElapses ==
  /\ WaitOver
  /\ UNCHANGED <<config, settings, policy, reconnecting, handle, session, reason, tasks, snap, late,
                 reconnects, shutdown>>

WaitCutShort ==
  /\ WaitOver
  /\ reconnects > 0
  /\ reconnects' = reconnects - 1
  /\ UNCHANGED <<config, settings, policy, reconnecting, handle, session, reason, tasks, snap, late,
                 shutdown>>

(* A shutdown that arrives during the sleep.  Only TRUE is ever sent, so   *)
(* the branch that draws another delay is not taken.                       *)
WaitShutdown ==
  /\ stage = "wait"
  /\ shutdown
  /\ reconnecting' = FALSE
  /\ stage' = "done"
  /\ UNCHANGED <<config, settings, policy, handle, session, reason, tasks, snap, late, reconnects, shutdown>>

-----------------------------------------------------------------------------
(* The tasks of a session                                                  *)

TasksOnly == UNCHANGED <<stage, config, settings, policy, reconnecting, handle, session, reason,
                         reconnects, shutdown>>

SetTask(s, part, to) == tasks' = [tasks EXCEPT ![s][part] = to]

(* Somebody has a clone of the session's ObsClient: the supervisor, the    *)
(* stats poller, or the SnapshotRefresher of the worker.                   *)
Held(s) == (session = s /\ stage # "report") \/ tasks[s].poller = "running" \/ tasks[s].worker # "ended"

(* run_client_task: OBS closes the socket, the network fails, or every     *)
(* ObsClient is gone.  Its end closes the event channel and resolves       *)
(* `disconnect`.                                                           *)
ClientEnds(s) ==
  /\ tasks[s].client = "running"
  /\ SetTask(s, "client", "ended")
  /\ UNCHANGED <<snap, late>> /\ TasksOnly

(* The pump goes on until it has drained what the client task left it.     *)
PumpEnds(s) ==
  /\ tasks[s].client = "ended" /\ tasks[s].pump = "running"
  /\ SetTask(s, "pump", "ended")
  /\ UNCHANGED <<snap, late>> /\ TasksOnly

(* A nudge from the pump, or one the worker left itself.                   *)
WorkerBegins(s) ==
  /\ tasks[s].worker = "idle" /\ tasks[s].pump = "running"
  /\ SetTask(s, "worker", "essential")
  /\ UNCHANGED <<snap, late>> /\ TasksOnly

WorkerEssential(s) ==
  /\ tasks[s].worker = "essential" /\ tasks[s].client = "running"
  /\ SetTask(s, "worker", "degradable")
  /\ UNCHANGED <<snap, late>> /\ TasksOnly

(* Only logged.                                                            *)
WorkerFails(s) ==
  /\ tasks[s].worker = "essential"
  /\ SetTask(s, "worker", "idle")
  /\ UNCHANGED <<snap, late>> /\ TasksOnly

WorkerPublishes(s) ==
  /\ tasks[s].worker = "degradable"
  /\ SetTask(s, "worker", "idle")
  /\ PublishConnected
  /\ late' = (late \/ session # s)
  /\ TasksOnly

(* recv answers None: the pump has dropped the only strong sender.         *)
WorkerNeverLearns(s) == FALSE  \* mutant
WorkerEnds(s) ==
  /\ tasks[s].worker = "idle" /\ tasks[s].pump = "ended"
  /\ SetTask(s, "worker", "ended")
  /\ UNCHANGED <<snap, late>> /\ TasksOnly

(* GetStats failed: the link is down, OBS refused, or it took too long.    *)
PollerEnds(s) ==
  /\ tasks[s].poller = "running"
  /\ SetTask(s, "poller", "ended")
  /\ UNCHANGED <<snap, late>> /\ TasksOnly

-----------------------------------------------------------------------------
(* Clients and the operator                                                *)

(* cmd_reconnect_obs, accepted: the receiver is alive and has room.        *)
RequestReconnect ==
  /\ stage # "done"
  /\ reconnects < Limit
  /\ reconnects' = reconnects + 1
  /\ UNCHANGED <<stage, config, settings, policy, reconnecting, handle, session, reason, tasks, snap, late,
                 shutdown>>

(* cmd_shutdown_server, SIGTERM, SIGINT.                                   *)
RequestShutdown ==
  /\ ~shutdown
  /\ shutdown' = TRUE
  /\ UNCHANGED <<stage, config, settings, policy, reconnecting, handle, session, reason, tasks, snap, late,
                 reconnects>>

(* reload-config replaces the Config in memory.                            *)
ReloadConfig(c) ==
  /\ Reloads
  /\ c # config
  /\ config' = c
  /\ UNCHANGED <<stage, settings, policy, reconnecting, handle, session, reason, tasks, snap, late,
                 reconnects, shutdown>>

-----------------------------------------------------------------------------
SeesShutdown == ConnectAbandoned \/ ServeShutdown \/ WaitShutdown
SeesRequest == ServeReconnect \/ WaitCutShort

SupervisorStep ==
  \/ Dial \/ (\E s \in Session : Connected(s)) \/ ConnectFails
  \/ InitialEssential \/ InitialFails \/ InitialPublished
  \/ Install \/ ServeLost \/ Withdraw \/ Report
  \/ Backoff \/ StopSupervising \/ DelayElapses
  \/ SeesShutdown \/ SeesRequest

WorkerStep(s) == WorkerEssential(s) \/ WorkerFails(s) \/ WorkerPublishes(s) \/ WorkerEnds(s)

SessionTaskStep(s) == ClientEnds(s) \/ PumpEnds(s) \/ WorkerBegins(s) \/ WorkerStep(s) \/ PollerEnds(s)

SupervisorNext ==
  \/ SupervisorStep
  \/ \E s \in Session : SessionTaskStep(s)
  \/ RequestReconnect \/ RequestShutdown
  \/ \E c \in ReconnectConfig : ReloadConfig(c)

(* The supervisor is a task that is always run when it can be; its selects *)
(* choose at random among the ready branches, so none is passed over for   *)
(* ever.  A session's tasks run too: a request on a dead link fails, and a *)
(* client nobody holds ends.                                               *)
SupervisorFairness ==
  /\ WF_supervisorVars(SupervisorStep)
  /\ SF_supervisorVars(SeesShutdown) /\ SF_supervisorVars(SeesRequest)
  /\ \A s \in Session :
       /\ WF_supervisorVars(ClientEnds(s) /\ ~Held(s))
       /\ WF_supervisorVars(PumpEnds(s))
       /\ WF_supervisorVars(WorkerStep(s))
       /\ WF_supervisorVars(PollerEnds(s) /\ tasks[s].client = "ended")

SupervisorSpec == SupervisorInit /\ [][SupervisorNext]_supervisorVars
FairSupervisorSpec == SupervisorSpec /\ SupervisorFairness

-----------------------------------------------------------------------------
(* Properties                                                              *)

(* The client is handed out while its own connection is being served, and  *)
(* taken back on every way out.                                            *)
HandleIsServed ==
  /\ handle # NoSession <=> stage \in {"serve", "withdraw"}
  /\ handle \in {NoSession, session}
  /\ session # NoSession <=>
       stage \in {"essential", "degradable", "again", "install", "serve", "withdraw", "report"}

(* While commands are given a client, obs-status and the TUI do not say    *)
(* that OBS is disconnected: a failed first snapshot, a refresh that       *)
(* publishes late and an old connection's worker notwithstanding.          *)
CommandsImplyConnected == handle # NoSession => snap.connected

(* A snapshot that says connected is about the connection being served.    *)
ConnectedIsServed == snap.connected => session # NoSession

(* Once the supervisor has stopped trying, that is what clients read, and  *)
(* they go on reading it.                                                  *)
GaveUpIsReported ==
  stage = "done" /\ ~shutdown =>
    snap = [connected |-> FALSE, last_error |-> "supervisor stopped"] /\ ~reconnecting

(* Both hold unless a refresh worker has published after its connection    *)
(* was gone; the next report puts that right.                              *)
StatusIsTrue == late \/ (ConnectedIsServed /\ GaveUpIsReported)

(* A bounded policy waits its longest delay once and not twice, whatever   *)
(* reloads, connections and reconnect requests come in between.            *)
BoundedRetries ==
  ~settings.endless => policy.attempts <= settings.longest + 1

(* The supervisor gives up for no other reason than that the settings tell *)
(* it to, and not before the longest delay has been used.                  *)
GivesUpOnlyExhausted ==
  stage = "done" /\ ~shutdown =>
    \/ ~settings.enabled
    \/ ~settings.endless /\ policy.attempts > settings.longest

(* The policy's attempts and its backoff_topped_out tell the same story.   *)
PolicyInv ==
  /\ policy.backoff_topped_out <=> policy.attempts > settings.longest
  /\ BoundedRetries
  /\ GivesUpOnlyExhausted

(* Where the supervisor stands: a connection is not served before the      *)
(* store says connected, and a shutdown is reported only if asked for.     *)
StandsWhere ==
  /\ stage \in {"again", "install", "serve", "withdraw"} => snap.connected
  /\ stage \in {"withdraw", "report"} /\ reason = "Shutdown" => shutdown

(* The inductive invariant of the supervisor.                              *)
SupervisorInv ==
  SupervisorTypeOK /\ HandleIsServed /\ StandsWhere /\ PolicyInv /\ StatusIsTrue

(* The supervisor comes to an end where it should: a shutdown request      *)
(* ends it whatever it is doing, and a bounded policy ends in a connection *)
(* or in giving up.                                                        *)
ShutdownStops == shutdown ~> stage = "done"
BoundedEnds == stage = "retry" /\ ~settings.endless ~> stage \in {"done", "essential"}
SupervisorEnds == ShutdownStops /\ BoundedEnds

(* The reconnect channel never stays full: the command that fills it up    *)
(* is not left waiting.                                                    *)
RequestsAreTaken == reconnects = Limit ~> reconnects < Limit \/ stage = "done"

(* When a connection is lost its pump, worker and poller all end.          *)
TasksEndWithLink == \A s \in Session : tasks[s].client = "ended" ~> tasks[s] = Gone

(* What commands may be given, and when: the abstract specification.       *)
Link == INSTANCE ObsLink WITH
          newest <- session,
          open   <- {s \in Session : tasks[s].client = "running"},
          over   <- stage = "done"
LinkSpec == Link!Spec
FairLinkSpec == Link!FairSpec
=============================================================================
