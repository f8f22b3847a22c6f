----------------------------- MODULE TuiSession -----------------------------
(***************************************************************************)
(* The terminal UI as a client of the daemon: the event loop of tui/app.rs,*)
(* its event sessions (tui/session.rs over ipc/unix_client.rs) with one    *)
(* forwarder task each, the channel they share, and the task that          *)
(* debounces volume changes.                                               *)
(*                                                                         *)
(* The loop does one thing at a time: while it connects a session it       *)
(* neither draws nor reads keys.  The other commands keep it waiting in    *)
(* the same way, for thirty seconds at most, which is no more than a       *)
(* message being received later.  Retry adds a session and leaves the      *)
(* older ones alone.                                                       *)
(*                                                                         *)
(* A snapshot is its version and the level of one audio input, the level   *)
(* being what the UI changes ahead of the daemon.  The daemon is what      *)
(* IpcSession says of it: published snapshots reach each subscribed        *)
(* session in order, but the first one, taken when the session subscribes, *)
(* comes by way of a lane and may be overtaken.  It may be stopped for a   *)
(* while without its connections closing (a suspended process).            *)
(***************************************************************************)
EXTENDS Integers, Sequences, FiniteSets, SequencesExt

CONSTANTS
  MaxSessions, \* bound: how many event sessions are connected
  MaxVersion,  \* bound: how often the daemon publishes
  MaxPresses,  \* bound: volume keys pressed
  MaxOutages,  \* bound: how often the daemon dies or is suspended
  Top,         \* the highest level, in steps of VOLUME_STEP
  Capacity     \* of the channel ipc_tx .. ipc_rx

ASSUME BoundAssumption ==
  /\ {MaxSessions, MaxVersion, Capacity, Top} \subseteq Nat \ {0}
  /\ {MaxPresses, MaxOutages} \subseteq Nat

Session == 1 .. MaxSessions
Level == 0 .. Top
Unknown == -1
Snapshot == [version : 0 .. MaxVersion, level : Level]
NoSnapshot == [version |-> -1, level |-> 0]

Lost(s) == [lost |-> s]
Shown(x) == [snapshot |-> x]
Message == {Lost(s) : s \in Session} \cup {Shown(x) : x \in Snapshot}

VARIABLES
  daemon,    \* up, suspended or down
  outages,
  state,     \* the daemon's snapshot
  link,      \* each session: never made, dialled, subscribed, closed by the daemon
  first,     \* the initial state a session is yet to be sent
  stream,    \* what the daemon has written to the session's socket
  forwarder, \* the task that reads it: none, running, ended
  ipc,       \* the channel all forwarders send into
  loop,      \* what the event loop is at: its select!, a connect, a command, its end
  connected, \* model.connected_to_daemon
  view,      \* model.snapshot
  presses,
  queue,     \* vol_tx .. vol_rx
  pending,   \* the level the debouncer will send
  calls,     \* set_volume commands the daemon has not yet run
  sending,   \* the debouncer waits for an answer
  target,    \* history: the level asked for last
  given,     \* history: the level set_volume brought about last
  slips      \* history: what has happened that the promises except

world == <<daemon, outages, state>>
sessions == <<link, first, stream, forwarder, ipc>>
screen == <<loop, connected, view>>
volume == <<presses, queue, pending, calls, sending, target, given>>
vars == <<world, sessions, screen, volume, slips>>

(* An initial state was overtaken; a session was made while another was    *)
(* read, or a dead one; a set_volume failed, or was given up.              *)
Slip == {"overtaken", "two_sessions", "dead_unread", "failed", "timed_out"}

TypeOK ==
  /\ daemon \in {"up", "suspended", "down"} /\ outages \in 0 .. MaxOutages
  /\ state \in Snapshot /\ view \in Snapshot \cup {NoSnapshot}
  /\ link \in [Session -> {"none", "dialled", "subscribed", "closed"}]
  /\ first \in [Session -> Snapshot \cup {NoSnapshot}]
  /\ stream \in [Session -> Seq(Snapshot)]
  /\ forwarder \in [Session -> {"none", "running", "ended"}]
  /\ ipc \in Seq(Message) /\ Len(ipc) <= Capacity
  /\ loop \in {"select", "connect", "subscribe", "quit"} /\ connected \in BOOLEAN
  /\ presses \in 0 .. MaxPresses /\ queue \in Seq(Level)
  /\ pending \in Level \cup {Unknown} /\ sending \in BOOLEAN
  /\ calls \in Seq(Level)
  /\ target \in Level \cup {Unknown} /\ given \in Level \cup {Unknown}
  /\ slips \subseteq Slip

(* start_session: the loop begins with its first attempt to connect.       *)
Init ==
  /\ daemon = "up" /\ outages = 0 /\ state = [version |-> 0, level |-> 0]
  /\ link = [s \in Session |-> "none"] /\ first = [s \in Session |-> NoSnapshot]
  /\ stream = [s \in Session |-> <<>>] /\ forwarder = [s \in Session |-> "none"]
  /\ ipc = <<>>
  /\ loop = "connect" /\ connected = FALSE /\ view = NoSnapshot
  /\ presses = 0 /\ queue = <<>> /\ pending = Unknown /\ calls = <<>> /\ sending = FALSE
  /\ target = Unknown /\ given = Unknown /\ slips = {}

Alive == daemon = "up"
Running(s) == forwarder[s] = "running"
Slips(set) == slips' = slips \cup set

(*--------------------------- the daemon's side ---------------------------*)

(* A snapshot is published to every session that has subscribed; one whose *)
(* initial state is still to come sees it overtaken.                       *)
Publish(l) ==
  /\ state.version < MaxVersion
  /\ state' = [version |-> state.version + 1, level |-> l]
  /\ stream' = [s \in Session |-> IF link[s] = "subscribed" THEN Append(stream[s], state') ELSE stream[s]]
  /\ Slips(IF \E s \in Session : link[s] = "subscribed" /\ first[s] # NoSnapshot
             THEN {"overtaken"} ELSE {})

(* OBS, or another client, changes the level or something else.            *)
WorldChanges ==
  /\ Alive
  /\ \E l \in Level : Publish(l)
  /\ UNCHANGED <<daemon, outages, link, first, forwarder, ipc, screen, volume>>

InitialState(s) ==
  /\ Alive /\ link[s] = "subscribed" /\ first[s] # NoSnapshot
  /\ stream' = [stream EXCEPT ![s] = Append(@, first[s])]
  /\ first' = [first EXCEPT ![s] = NoSnapshot]
  /\ UNCHANGED <<world, link, forwarder, ipc, screen, volume, slips>>

(* The lane of a set_volume runs it; or refuses, when OBS is away or does  *)
(* not have the input.                                                     *)
RunSetVolume(i) ==
  /\ Alive /\ calls' = RemoveAt(calls, i)
  /\ \/ Publish(calls[i]) /\ given' = calls[i]
     \/ /\ Slips({"failed"}) /\ UNCHANGED <<state, stream, given>>
  /\ sending' = (sending /\ i # Len(calls))
  /\ UNCHANGED <<daemon, outages, link, first, forwarder, ipc, screen, presses, queue, pending, target>>

DaemonDies ==
  /\ daemon # "down" /\ outages < MaxOutages
  /\ daemon' = "down" /\ outages' = outages + 1
  /\ link' = [s \in Session |-> IF link[s] = "none" THEN "none" ELSE "closed"]
  /\ first' = [s \in Session |-> NoSnapshot]
  /\ calls' = <<>> /\ sending' = FALSE
  /\ Slips(IF calls # <<>> THEN {"failed"} ELSE {})
  /\ UNCHANGED <<state, stream, forwarder, ipc, screen, presses, queue, pending, target, given>>

DaemonStops ==
  /\ Alive /\ outages < MaxOutages
  /\ daemon' = "suspended" /\ outages' = outages + 1
  /\ UNCHANGED <<state, sessions, screen, volume, slips>>

DaemonRuns ==
  /\ ~Alive /\ daemon' = "up"
  /\ UNCHANGED <<outages, state, sessions, screen, volume, slips>>

(*---------------------------- event sessions -----------------------------*)

(* IpcClient::connect.  A suspended daemon's queue takes the connection.   *)
Dial ==
  /\ loop = "connect" /\ daemon # "down" /\ loop' = "subscribe"
  /\ \E s \in Session :
       /\ link[s] = "none" /\ \A r \in Session : r < s => link[r] # "none"
       /\ link' = [link EXCEPT ![s] = "dialled"]
  /\ UNCHANGED <<world, first, stream, forwarder, ipc, connected, view, volume, slips>>

(* subscribe is answered, and the session has its forwarder.               *)
Connected(s) ==
  /\ loop = "subscribe" /\ Alive /\ link[s] = "dialled"
  /\ link' = [link EXCEPT ![s] = "subscribed"]
  /\ first' = [first EXCEPT ![s] = state]
  /\ forwarder' = [forwarder EXCEPT ![s] = "running"]
  /\ loop' = "select" /\ connected' = TRUE
  /\ Slips({IF link[r] = "closed" THEN "dead_unread" ELSE "two_sessions" : r \in {q \in Session : Running(q)}})
  /\ UNCHANGED <<world, stream, ipc, view, volume>>

(* Nobody listens, or the daemon goes before it has answered.  A retry      *)
(* leaves the flag as it was.                                              *)
ConnectFails ==
  /\ \/ loop = "connect" /\ daemon = "down"
     \/ loop = "subscribe" /\ \A s \in Session : link[s] # "dialled"
  /\ loop' = "select"
  /\ UNCHANGED <<world, sessions, connected, view, volume, slips>>

(* Plausible bugs: a forwarder that ends in silence, one that spawns a     *)
(* task for each event, a debouncer that keeps the first level of a burst. *)
EndsSilently(s) ==
  /\ Running(s) /\ link[s] = "closed" /\ stream[s] = <<>>
  /\ forwarder' = [forwarder EXCEPT ![s] = "ended"]
  /\ UNCHANGED <<world, link, first, stream, ipc, screen, volume, slips>>
FirstOfBurst == IF pending = Unknown THEN Head(queue) ELSE pending
SpawnsPerEvent(s) ==
  /\ Running(s) /\ Len(ipc) < Capacity
  /\ \E i \in DOMAIN stream[s] :
       /\ ipc' = Append(ipc, Shown(stream[s][i]))
       /\ stream' = [stream EXCEPT ![s] = RemoveAt(@, i)]
  /\ UNCHANGED <<world, link, first, forwarder, screen, volume, slips>>

(* spawn_session_forwarder: each event goes into the channel, which it     *)
(* waits for; a connection that has ended is reported with the last one.   *)
Room == Len(ipc) < Capacity

Forward(s) ==
  /\ Running(s) /\ stream[s] # <<>> /\ Room
  /\ ipc' = Append(ipc, Shown(Head(stream[s])))
  /\ stream' = [stream EXCEPT ![s] = Tail(@)]
  /\ UNCHANGED <<world, link, first, forwarder, screen, volume, slips>>

ForwardEnds(s) ==
  /\ Running(s) /\ link[s] = "closed" /\ stream[s] = <<>> /\ Room
  /\ ipc' = Append(ipc, Lost(s))
  /\ forwarder' = [forwarder EXCEPT ![s] = "ended"]
  /\ UNCHANGED <<world, link, first, stream, screen, volume, slips>>

(*----------------------------- the event loop ----------------------------*)

(* apply_server_message, or the report of a session that has ended: not    *)
(* which of them, and the snapshot stays.                                  *)
Receive ==
  /\ loop = "select" /\ ipc # <<>>
  /\ ipc' = Tail(ipc)
  /\ IF "lost" \in DOMAIN Head(ipc)
       THEN connected' = FALSE /\ UNCHANGED view
       ELSE connected' = TRUE /\ view' = Head(ipc).snapshot
  /\ UNCHANGED <<world, link, first, stream, forwarder, loop, volume, slips>>

Retry ==
  /\ loop = "select" /\ \E s \in Session : link[s] = "none"
  /\ loop' = "connect"
  /\ UNCHANGED <<world, sessions, connected, view, volume, slips>>

(* The user leaves: the process ends, and all its tasks with it.  What the *)
(* world does afterwards is of no interest here.                           *)
Quit ==
  /\ loop = "select" /\ loop' = "quit"
  /\ queue' = <<>> /\ pending' = Unknown /\ sending' = FALSE
  /\ link' = [s \in Session |-> "closed"] /\ first' = [s \in Session |-> NoSnapshot]
  /\ stream' = [s \in Session |-> <<>>] /\ forwarder' = [s \in Session |-> "ended"]
  /\ ipc' = <<>> /\ connected' = FALSE /\ view' = NoSnapshot
  /\ UNCHANGED <<world, presses, calls, target, given, slips>>

(* adjust_focused_volume: from the level shown, at once on the screen and  *)
(* then to the debouncer.                                                  *)
Nudged(l) == {IF l < Top THEN l + 1 ELSE Top, IF l > 0 THEN l - 1 ELSE 0}

PressVolume ==
  /\ loop = "select" /\ view # NoSnapshot /\ presses < MaxPresses
  /\ \E l \in Nudged(view.level) :
       /\ view' = [view EXCEPT !.level = l]
       /\ queue' = Append(queue, l) /\ target' = l
  /\ presses' = presses + 1
  /\ UNCHANGED <<world, sessions, loop, connected, pending, calls, sending, given, slips>>

(*------------------------------ the debouncer ----------------------------*)

KeepsLast == Head(queue)

Collect ==
  /\ ~sending /\ queue # <<>>
  /\ pending' = KeepsLast /\ queue' = Tail(queue)
  /\ UNCHANGED <<world, sessions, screen, presses, calls, sending, target, given, slips>>

(* The pause is over: the level is sent on a connection of its own.        *)
SendVolume ==
  /\ ~sending /\ pending # Unknown
  /\ pending' = Unknown
  /\ IF daemon = "down"
       THEN Slips({"failed"}) /\ UNCHANGED <<calls, sending>>
       ELSE calls' = Append(calls, pending) /\ sending' = TRUE /\ UNCHANGED slips
  /\ UNCHANGED <<world, sessions, screen, presses, queue, target, given>>

(* After thirty seconds the debouncer goes on; the command may still run.  *)
SendTimesOut ==
  /\ sending /\ daemon = "suspended"
  /\ sending' = FALSE /\ Slips({"timed_out"})
  /\ UNCHANGED <<world, sessions, screen, presses, queue, pending, calls, target, given>>

Forwards(s) == Forward(s) \/ ForwardEnds(s)
Connects == Dial \/ (\E s \in Session : Connected(s)) \/ ConnectFails
Debounces == Collect \/ SendVolume \/ SendTimesOut
DaemonWorks == (\E s \in Session : InitialState(s)) \/ (\E i \in DOMAIN calls : RunSetVolume(i))

Next ==
  \/ DaemonWorks
  \/ loop # "quit" /\ (WorldChanges \/ DaemonDies \/ DaemonStops \/ DaemonRuns)
  \/ \E s \in Session : Forwards(s)
  \/ Connects \/ Debounces
  \/ Receive \/ Retry \/ Quit \/ PressVolume

Spec == Init /\ [][Next]_vars

(* Tasks run and select! is fair: a message that waits is received, however*)
(* many keys are pressed.                                                  *)
FairSpec ==
  /\ Spec
  /\ \A s \in Session : WF_vars(Forwards(s))
  /\ WF_vars(Connects) /\ SF_vars(Receive)

-----------------------------------------------------------------------------
(***************************************************************************)
(* Properties                                                              *)
(***************************************************************************)

(* The screen says connected only while a session is read, or the end of   *)
(* the last one is on its way to the loop: no order of sessions, losses    *)
(* and retries leaves it standing (connected_to_daemon).                   *)
ConnectedIsOwed ==
  connected => \E s \in Session : Running(s) \/ Contains(ipc, Lost(s))

(* The last level the user chose is the last that is set, with everything  *)
(* sent and no command failed or given up ("we must never drop the newest  *)
(* target", actions.rs) while the UI stays open.                           *)
VolumeAtRest == queue = <<>> /\ pending = Unknown /\ calls = <<>>

LastTargetWins ==
  loop # "quit" /\ VolumeAtRest /\ slips \cap {"failed", "timed_out"} = {}
    => given = target

(* When nothing is on its way and a session is open, the screen shows the  *)
(* daemon's snapshot, levels changed ahead of the daemon included - unless *)
(* such a change has failed, the initial state came late, or a session was *)
(* connected while a lost one still had snapshots to be read.              *)
AtRest == /\ VolumeAtRest /\ ipc = <<>> /\ loop = "select"
          /\ \A s \in Session : stream[s] = <<>> /\ first[s] = NoSnapshot

ShowsDaemon ==
  AtRest /\ (\E s \in Session : link[s] = "subscribed")
    => \/ view = state
       \/ slips \cap {"failed", "overtaken", "dead_unread"} # {}

SessionInv == TypeOK /\ ConnectedIsOwed /\ LastTargetWins /\ ShowsDaemon

(* With one session at a time the screen never goes back to an older       *)
(* snapshot, across losses and reconnects too.                             *)
NeverGoesBack ==
  [][\/ view'.version >= view.version
     \/ slips' \cap {"overtaken", "two_sessions", "dead_unread"} # {}
     \/ loop' = "quit"]_vars

(* A daemon that is gone is noticed, whatever is still in the channel, and *)
(* whatever the loop was at: a connect to a suspended daemon has no        *)
(* timeout, but ends when the daemon does.                                 *)
DeathIsNoticed ==
  daemon = "down" /\ connected ~> ~connected \/ daemon # "down"

=============================================================================
