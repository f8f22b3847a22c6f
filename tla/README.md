# obsctl in TLA+

obsctl is a daemon that owns one obs-websocket connection, a CLI and a TUI that
talk to it over a Unix socket. This directory holds TLA+ modules for the parts
whose correctness depends on the order in which tasks, messages and failures
interleave, TLC configurations that check them on small instances, and TLAPS
proofs of what holds for every instance. Paths below are relative to the
repository's `src/`.

`PROJECT.json` ties it together: which lines each definition models, which run
checks which property, which mutation of the model each property detects, the
hazards of the code and the findings.

## The system

| Component | State | Operations | Hard to get right |
|---|---|---|---|
| State store, `server/state_store.rs` | the cached `ObsSnapshot`, a generation counter | full refresh, event, config merge, stats, connected / disconnected | five writers, one of which is slow and overwrites everything |
| Snapshot refresh, `server/snapshot_refresh.rs` | event channel, one-place nudge channel, a fetch in progress | connect path with retries, refresh worker, event pump | reads spread over a dozen awaits, overtaken by events |
| OBS supervisor, `server/obs_supervisor.rs`, `runtime/reconnect_policy.rs` | connection, client handle, policy, `reconnecting` flag | dial, first snapshot, install, wait, withdraw, report, back off | shutdown, reconnect requests and lost links at any point; tasks that outlive their connection |
| Stats poller, `server/stats_poller.rs` | bitrate trackers | poll every second | ends on a failed request |
| OBS client, `obs/client.rs`, `obs/connection.rs`, `obs/auth.rs` | pending requests, request / cancel / event channels | handshake, request, response, timeout, cancel | cancel overtaking its request, backpressure of events on responses |
| OBS events, `obs/event_decoder.rs`, `obs/validation.rs` | none | JSON to `ObsEvent` | |
| Command executor, `server/command_executor.rs` | config, config-file lock, toggles in progress | 23 commands | config file read, changed and written against reloads, dumps and hand edits |
| Command lanes and daemon, `server/command_lanes.rs`, `server/daemon.rs` | one task per connection, the shutdown watch | open a lane, serve, drain, join by a deadline | order per client, progress between clients, ending |
| IPC server, `ipc/unix_server.rs`, `ipc/session.rs`, `ipc/codec.rs` | subscriptions, broadcast cursors, write channel | frame, command, subscribe, reject, forward, lag | answers of concurrent tasks, slow clients, first snapshot against broadcasts |
| IPC client, `ipc/unix_client.rs` | one connection, buffered events | request, next event | late answers, events in between, timeouts |
| Socket path, `ipc/socket_path.rs` | the socket file | probe, remove stale, bind, clean up | two daemons on one path |
| File replacement, `support/fs.rs` | temporary file, target | write, sync, rename | a crash between two steps |
| Config files, `config/*.rs` | the YAML file, its backups, `Config` | load, validate, dump, merge, write | writers inside and outside the daemon, crashes |
| Domain rules and parser, `domain/*.rs` | none | names, aliases, scene visibility, volume, the palette's grammar | precedence of spellings, quoting, names that differ in case |
| TUI sessions, `tui/session.rs`, `tui/app.rs`, `tui/event_applier.rs`, `tui/daemon.rs` | sessions, forwarders, one channel, debouncer | connect, retry, apply events, volume calls | a replaced session's last words, levels shown ahead of the daemon |
| TUI model, `tui/model.rs`, `tui/actions.rs`, `tui/input.rs`, `tui/mouse.rs` | focus, cursors, overlays, palette, log, editor | keys, clicks, snapshots | selections into lists that change, questions about rows that move, spellings |
| CLI, `cli/*.rs` | none | init, validate-config, server, service, proxied commands | a config is judged elsewhere than where it is used; exit codes after late answers |
| Service installer, `service/*.rs` | the unit file, what systemd has loaded | install, uninstall, start, stop | a reload that fails, two installers |
| Input checks, `support/validation.rs` | none | tokens, paths, variables, passwords | |
| Drawing, redaction, logging | | | keep no state of their own |

How they interact. A TUI or CLI request is a frame on the socket; its session
dispatches it to the connection's lane; the lane calls the executor, which takes
the OBS client from `obs_handle` and sends a request to the client task; the
answer travels back through a oneshot and a forwarder task to the session's
write channel. OBS events go from the client task to the event pump, which folds
them into the store and nudges the refresh worker; every write of the store
publishes the snapshot on the hub, whose receivers are the sessions. The
supervisor owns the connection and hands the client out; `reconnect` and
`shutdown` reach it over an mpsc channel and a watch.

What makes each part correct:

* **Snapshot**: whatever interleaves, a field that is behind OBS or the config is
  owed news, and none is behind once the daemon has caught up; refreshing stops
  when changes stop.
* **Supervisor**: commands are given the client of the connection being served
  and no other; the status clients read is true; a bounded backoff is bounded;
  shutdown, reconnect and a lost link are each acted on.
* **OBS client**: each caller gets its own answer, a command called unavailable was
  not sent, every call returns, an unused connection closes.
* **IPC**: one answer per request, in-order execution per client, a subscriber
  ends up with the newest snapshot, sessions and lanes end, a clean stop is clean.
* **Config file**: an idle daemon runs on what its file says and shows it; no
  command undoes another; a dump destroys nothing; no active profile dangles;
  a crash leaves the old file or the new one.
* **Framing**: no byte is lost or moved by a read that is dropped half-way; the end of
  a stream is told as it was.
* **Socket path**: the path leads to the daemon that is up; what is taken away is stale.
* **Start**: what is approved or written loads; what is warned of happens; a service
  that may run gets to serve; "installed" means that systemd knows it.
* **Commands**: a command acts on what its target names best, a completed line means
  what was picked, the exit code and the status line tell what happened; the snapshot's
  contents are what OBS and the config say.
* **TUI**: the last level chosen is the one set; the screen never goes back to an older
  snapshot; keys and clicks act on what is shown; the editor overwrites nothing it
  was not told to.

## Modules

### SnapshotSync (`SnapshotSyncProofs`, `MCSnapshotSync`)

The store and the four tasks that write it while one connection lives. OBS and
the `Config` in memory are the sources; fields are sorted by how a change is
announced. `Begin`, `Fetch` (one request), `FetchDegrades`, `FetchFails`,
`Publish` and `Check` are the stages of `refresh_once`, for the connect path
(with `tries`, from `refresh_until_current`) and for the worker (with `nudge`).
`PumpEvent` is one turn of the event pump: fold, count, nudge. `SetConfig` and
`MergeConfig` are an edit or reload, `DumpReload` is a dump, which merges nothing.
`generation` is the code's counter: events and merges count, publications do not.

`excused` and the `masked` marks of a refresh are history. They name the ways the
code itself lets a snapshot fall behind unreported - `noop` (an event that changed
nothing), `overlap` (two refreshes, whose publications are not counted), `gaveup` (three tries), `failed` and
`degraded` requests, `dump` - so that everything else can be required to hold. An
excuse is a set of fields: `noop` excuses the field of its event, `overlap` the lists,
`dump` the projection, and a refresh that was not overtaken takes all but its own marks back.
Two of them contradict comments in the code (findings 1 and 2).

`Publish` and `Check` are two actions because `apply_full_refresh` releases the
write guard before it compares the counter.

### Supervisor (`ObsLink`, `MCSupervisor`; proofs in `ObsConnectionProofs`)

One action per way the supervisor's task gets from one await to the next
(`stage`), and per step of the tasks a connection brings along: client task, event
pump, refresh worker, stats poller. A refresh is two steps here, the requests that
fail it and those that only degrade it; what it reads is SnapshotSync's subject.
The snapshot is the two fields the supervisor writes. The reconnect policy
is its attempt counter and `backoff_topped_out`; `longest` is the number
of delays before the delay reaches `max_delay_ms`.

`ObsLink` is the abstract specification: at most one client to be had, the newest
connection's, taken back after a loss, none once supervision is over.
`Supervisor` implements it (`LinkSpec`, `FairLinkSpec`) with `open` the
connections whose client task runs, `newest` the connection being served and
`over` the end of `run`.

### ObsClientTask (`MCObsClientTask`; proofs in `ObsConnectionProofs`)

One connection from the inside. A caller is a call of `ObsClient::request`
(`Enqueue`, `Replied`, `TimesOut`, `Cancel`; `Refused` when the task is gone) and
names its request id. The task's actions are the branches of its `select!`
(`TakeRequest`, `SendFails`, `TakeCancel`, `TakeMessage`, `StreamEnds`,
`LastClientGone`) and the wait for room in the event channel (`PassEventOn`), during
which it does nothing else. The first request belongs to the handshake; until that
is complete no pump drains events, and it may be dropped at any point by the connect
timeout or a shutdown. `sent` and `early` are history: what was written to the
socket, and the requests whose cancellation overtook them. OBS answers in any
order or not at all. Hello and Identify come before the task exists and are left out.

### IpcSession (`IpcSessionProofs`, `MCIpcSession`)

One connection from `accept` to the end of its lane: session task (`todo` is
what it still has to do before its next `select!`), write task, lane, one
forwarder per outstanding answer, the broadcast receiver as a version number, and
the daemon from accepting to returning. Closing works as in the code, by dropping
senders: a session returns when its write task has ended, which takes every
forwarder, or a failed write; a lane ends when its session has returned.
The snapshot is its version. The topics `events` and `logs` travel
like `state` and are left out; the framing is FrameReader's. A blank frame is skipped and
answered by nobody.

### ConfigFile (`ConfigFileProofs`, `MCConfigFile`)

The config file, the commands that rewrite it and everything else that does. A
command goes through the stages of the code: wait for the lock, `Read` (load,
edit, validate; `Refuse` stands for every way that fails), `Backup` for a dump,
`WriteTemp`, `Rename`, then `Apply` and `Publish` for an edit or a reload and
`ReloadAfterDump` for a dump. `WriteFails` may end any step of the writing. The
user (`UserWrites`, `obsctl init` included) and a TUI that saves its theme
(`ThemeRead`, `ThemeWrite`) know no lock; the latter writes back all of the config
it has loaded (`Themed`). `file` is what readers find, `disk` what the
directory on the disk refers to, `synced` whether the new file's data is there
too; a kill forgets memory only, a power failure may also take the
file back to `disk`, or leave it `Torn` if its data was not synced.

A config is its scene profiles, the active one, the theme and one scene that OBS
may have lost; a profile name stands for all spellings that `normalized_name`
makes one. A torn file is taken not to parse. `touched`, `moved`, `missed` and `dumped` are
history: the file was written from outside since memory was made from it, since the
command at work has read it, or by others since the TUI has, and memory was made by a dump, which tells the
snapshot nothing.

### FrameReader (proofs in `IpcSessionProofs`; `MCFrameReader`)

One `FrameReader` on one stream: a call (`Begin`, `Poll`, `PollFails`) takes what has
arrived up to a newline or its budget, and may be dropped at each await (`Drop`), as
`select!` does; `partial` outlives the call, the count of bytes read by it does
not. A byte is the newline, text, or what no UTF-8 text has. `Reported` is what the
client (`read_frame`) makes of the end. `resumed` is history.

### SocketPath (used by Startup; proofs in `StartupProofs`)

A directory entry and the listener behind it are two things. A daemon's start is
`Look`, `Validate`, `Probe` (connects, is refused, is not answered), `Check`,
`Rename` and `Unlink` of a stale entry, `Bind` and `Confirm`; its end is `StopAccepting`
and, after the grace its lanes have, `CleanUp`, which removes in the same
three steps and does not probe. `Kill` may come between any two. The user may put a
file of another kind there (`Place`). `earlier` is history: the runs that were past
their probe when a daemon bound.

### Settings, Startup (`StartupProofs`, `MCStartup`)

`Settings` is what a config document says: defaults, sections that are absent or
null, the two spellings of the reconnect section, validation, warnings, and what the
rest of the program makes of locale, prefix, password, profile and delays. A multiplier is a
fraction, `.inf` and `.nan` included, which validation lets through.
`Startup` is the commands that run without a daemon: `init`, `validate-config`, `tui` as
far as its config, `server` with first-time setup, and `service`. A command is one
action per look at or write to the file system, so that another command and the user
come between them. The daemon behind `server` is SocketPath; systemd starts the
same process and goes by its exit code. Values that matter in a rule (a host with
a colon, a password with a control character) are short sequences of atoms.

### TuiSession (`TuiSessionProofs`, `MCTuiSession`)

The event loop of the TUI with its sessions, one forwarder each, the channel they
share, and the debouncer. The loop does one thing at a time; while it connects it
does nothing else, and `connect` has no timeout. A snapshot is its version and one
level. The daemon is what IpcSession says of it, and may die or be suspended once.
`slips` is history: what went wrong that the properties except.

### TuiInput, TuiEditor, TuiModel (`TuiModelProofs`, `MCTuiModel`)

`TuiInput` has the key tables of `input.rs` and `keymap.rs`, `TuiEditor` the
scene-profile editor and what the daemon does with its saves, `TuiModel` the model
with panels, palette, settings and log. `Press` and `Clicks` are one event of the
loop to its end; `SnapshotArrives`, `LogArrives` and `SessionLost` come in between,
and others change profiles and scenes. A text is a number with its trimmed and its
normalized form. The theme it starts with is one of the list or the user's own palette (`Custom`),
which has no row in the picker and falls back to the first. `strange` is history: names accepted
that the UI was not told of.

### Names, Protocol, Palette, Catalogue, Commands (`CommandsProofs`, `MCCommands`)

`Names`, `Protocol` and `Palette` are pure: usable names, aliases, visibility, volume;
payloads, argument checks, topics, OBS requests, error and exit codes; tokenizer,
parser, completion, subcommands. A text is a sequence of atoms, a character where a
rule looks at it. `Catalogue` is the contents of the snapshot against the contents
of OBS: a snapshot that starts from the config, events in a queue, each one folded as the code does, full refreshes that
read at one moment (SnapshotSync has what comes between). `Commands` puts one
command on top of it, from the line that is typed and completed to the exit
status: dispatch, checks, resolution against the table at that moment, the request
to OBS, its answer, refusal, timeout or lost link, and what client and TUI tell of
it. Saving a profile is one command or two, and the second may fail or find the
profile changed. Completion offers what the daemon's snapshot lists, which is what a
TUI that is up to date has. `job` is the command and what is known of it.

### How the modules fit together

ObsClientTask is the client task and the pump of one connection of Supervisor,
and its callers are the fetches of SnapshotSync and the commands.
SnapshotSync is one connection of Supervisor with the refresh in detail;
Supervisor sees many connections and only the verdict of a refresh. IpcSession
sees the store as a version that grows and commands as steps of a lane; what a
command does to the store is SnapshotSync's `SetConfig`/`MergeConfig`, which are
ConfigFile's `Apply` and `Publish`, and `DumpReload` its `ReloadAfterDump`; to the
supervisor it is Supervisor's `RequestReconnect` and `RequestShutdown`.

Startup extends Settings and SocketPath: one state machine of files, processes and the
path. TuiModel extends TuiInput and TuiEditor. Commands extends Catalogue,
Palette, Protocol and Names. FrameReader is what `ReadFrame` of IpcSession and
`Forward` of TuiSession read with; TuiSession's daemon is IpcSession with its
interleavings reduced to the one a client can see, a first snapshot that comes late.

## Runs

| Run | Question | Bounds |
|---|---|---|
| `SnapshotSync` | the inductive invariant `StaleInv`, which contains `StaleIsOwed` | one list, one selection, the projection; two values; a plan of three requests; 2 tries; 2 changes, 1 failure |
| `SnapshotSyncInputs` | `EndsCaughtUp`: in the end the daemon is quiet and shows what OBS says, with inputs that come and go | one list, one input, asked twice; 2 tries, 2 changes, no failure; a first connection (`FirstFairSpec`: the snapshot starts from the defaults) |
| `Supervisor` | `CommandsImplyConnected`; `SupervisorInv`, which contains `StatusIsTrue`, `BoundedRetries` and `GivesUpOnlyExhausted`; refinement of `ObsLink` | two connections at a time, channel of one, three kinds of settings with reloads between them |
| `SupervisorLive` | `SupervisorEnds` (after a shutdown, and when a bounded policy is exhausted), `RequestsAreTaken`, `TasksEndWithLink`, fair refinement of `ObsLink` | one connection at a time, no reloads |
| `ObsClientTask` | `TableInv` (abandoned requests leave the table), `AnswersAreTrue` (a caller's own answer; unavailable means unsent), `CallsReturn`, `UnusedCloses` | the handshake's request and two more, every channel of 1, 2 events |
| `IpcSession` | `SessionInv` (one answer each, all answered at the close, in order, a clean stop), `NewestIsSent`, `RequestsAnswered`, `HangUpEnds` | one client, 2 frames, 3 snapshot versions, every channel of 1 |
| `ConfigFile` | `ConfigInv` (memory and snapshot agree with the file, no dangling profile, never torn), `BuildsOnFile`, `BackedUp`, `ThemeAlone` (a saved theme changes nothing else) | two lanes, two profile names, 2 commands, 2 writes from outside, 1 crash, 2 seconds |
| `FrameReader` | `FrameInv`, `EveryFrameArrives` | 5 bytes of three kinds, a limit of 2, calls dropped at will |
| `Startup` | `PathInv`, `LosesToEarlier`; `StartupInv`, `BackoffsEnd`; `ServiceTruth`, `ServiceComesUp` | two processes, of two runs each on the path; 42 contents of the config file, each with four of five environments; up to 4 commands, 1 edit, 1 foreign file |
| `TuiSession` | `SessionInv` (the screen's connection is real or owed, the last level wins, the screen ends up with the daemon's snapshot), `NeverGoesBack`, `DeathIsNoticed` | two sessions, two snapshots, two keys, one outage, a channel of one |
| `TuiModel` | `ScreenInv`, `NothingIsOverwritten`, `TogglesOneScene`, `ReadingHolds` | three tours with keys, clicks and arrivals of their own; two daemons; five texts that spell two names; counts to 2 |
| `Commands` | `SnapshotFollows`, `LinesSurvive`, `ActsOnWhatWasNamed`, `ExitTellsWhatHappened` | two OBS, two configs, three scene lists and a new input with awkward names; 3 changes, or one command with a change or a lost link |

Why the bounds are enough. Two changes are what it takes to overtake a refresh
and to come back to the value it has read; two refreshers are all there are; a
failure may hit any request, one of each kind is in the plan. A connection
identity is used again after its four tasks have ended, so that two identities
cover any number of reconnects, two of them overlapping. A counter that
saturates (`MaxAttempts`) only has to lie beyond `longest`. Two requests
beside the handshake's are enough for answers out of order and for a request behind
a cancellation, and two events for one that finds the event channel full. A lane, a write
channel and a broadcast channel with room for one message meet all that a
full one can cause, with room for 32 and 64 it takes longer; the first frame and the
snapshot of a subscriber fill the lane that the second frame waits for. Two commands, each of
any kind, are one that waits for or follows another; two writes from outside may come
before and after a command has read the file, and a crash ends either. Connections share
nothing but the snapshot, which changes by itself in the model, and the drain,
which waits for each; so one connection meets what several would do to it.

Five bytes with a limit of two hold an oversized line, two frames and the half of a
third. Two processes of two runs are a daemon, the one that succeeds it, and an
older one that still cleans up. `MCStartup` lists its situations by what they
are about: every content for the commands that read; two
commands that look for a file and write it, with first-time setup; the unit with
its daemon; two installations at once; two daemons, twice. Two volume keys
are a level shown ahead and one chosen on top of it; two snapshots are an
older and a newer one. The tours of TuiModel split the keys by what they can reach,
so that each explores its own overlays to the end; the state space is kept small by bounds on
typed lines, opened editors and changes by others. In
Commands a change or a lost link may come at any step of a command, which is what makes a
resolution stale; a second command would find a state that some change has led to.
The proofs below lift the safety results of every module to every value of the
constants, with the exceptions listed after them.

Deadlock is not checked: every model may rightly stop (the bounds of the
environment are used up, supervision is over, the daemon has returned, the TUI
has quit, no command is left to give).

Fairness.

* SnapshotSync: the pump, the merge and each refresh run on; tokio polls ready
  tasks and every OBS request is answered or times out.
* Supervisor: its task runs, strongly fair for the branches of its selects (a
  `select!` without `biased` picks at random among the ready ones); the tasks of a
  connection run, and a client that nobody holds ends. Nothing makes OBS come or
  stay, requests or shutdowns arrive.
* ObsClientTask: every call and the task run and timers fire; strongly fair for the
  branches of the task's `select!`, which is without `biased`, and for callers waiting
  for room in a channel. The pump runs once the handshake is complete. OBS may fall
  silent, and never has to emit, answer or break the connection.
* IpcSession: session, lane and forwarders run, strongly fair where a `select!`
  or a bounded channel chooses among several (tokio's channels serve waiting
  senders in turn). A client is assumed to read only if it is in
  `Patient`, and never to send or to hang up.
* FrameReader: calls are made again, and a poll that finds bytes again and again is made
  in the end; calls may be dropped for ever in between, and the peer never has to write.
* Startup: systemd starts what it was told to, and the service's own start runs on. No
  command of a user is assumed to be given or to get further.
* TuiSession: forwarders and the connect run on; the receive is strongly fair, being one
  branch of a `select!` that keys and ticks may win any number of times.
* TuiModel and Commands: none; no liveness is asked of them.

## Findings

Where the code does other than a comment or document of it says. `PROJECT.json` has each
with its quotes. None has a run of its own: the model takes the step, and the property
it would break excepts it by name.

State and connection

1. An event that changes nothing in the snapshot is not counted, so a refresh
   in flight that read an older value publishes it as current (`server/state_store.rs:262`;
   excuse `noop` of `StaleInv`).
2. A publication is not counted, so of two refreshes that overlap the older may
   publish last, unnoticed (`server/state_store.rs:217`; excuse `overlap`).
3. A lost connection's worker may publish `connected: true` after
   `mark_disconnected` (`server/snapshot_refresh.rs:101`).
4. A connection given up for a reconnect request is not closed: its worker holds
   the client that keeps it open (`server/snapshot_refresh.rs:153`).
5. The cancellation of a timed-out request may be taken before the request, whose
   entry then stays pending until the connection ends (`obs/client.rs:334`).
6. A renamed input is not noticed; one created and renamed before its event is applied
   is listed twice; one created again has no alias until the next refresh
   (`obs/event_decoder.rs:145`, `server/state_store.rs:503`).
7. One unusable or doubled name makes every full refresh fail; a name with blanks is asked
   for trimmed (`obs/validation.rs:53`); an empty current scene is not `None`
   (`server/state_store.rs:666`).

IPC, framing and socket path

8. A subscriber's first snapshot may arrive after a newer broadcast (`ipc/unix_server.rs:471`).
9. The closed broadcast channel that should end a session with the daemon never
   closes; with a client connected the drain runs into its deadline (`ipc/unix_server.rs:298`).
10. A call that takes up a partial frame and finds the end reports an end between frames
    (`ipc/codec.rs:124`); one byte more than the limit is read (`ipc/codec.rs:130`); a line of
    blanks ends the session (`ipc/unix_server.rs:156`).
11. The cleanup of a daemon that ends may unlink its successor's socket
    (`ipc/socket_path.rs:172`), and of two starters the second the first one's
    (`:240`); a file that vanishes early fails the start (`:225`).

Config and start

12. A TUI that saves its theme rewrites the config file without the
    daemon's lock, and takes back what a command wrote in between (`tui/actions.rs:686`).
13. Of two dumps within a second the later replaces the backup of the earlier (`config/dump.rs:199`).
14. The reload after a dump does not tell the snapshot (`server/command_executor.rs:435`); an edit that
    changes nothing does not recreate a missing file (`:518`).
15. A dump takes two OBS names that differ in case for one (`config/dump.rs:106`).
16. `init` and first-time setup may replace a config written since they looked (`cli/router.rs:262`).
17. A daemon whose accept loop fails exits with 0 and is not started again (`server/daemon.rs:119`).
18. A prefix such as `:x` is warned of and used (`config/schema.rs:60`); the name of a password variable
    is checked trimmed and looked up untrimmed (`support/validation.rs:194`); a dangling symlink is a
    missing file to one loader and an error to the other (`config/loader.rs:42`).

Commands

19. An edit of a profile somebody else deleted creates it and switches it on (`tui/daemon.rs:425`).
20. `scene 2` counts hidden scenes, the dashboard does not (`domain/aliases.rs:157`); two OBS names
    that differ in case are ambiguous without any alias (`:45`).
21. The tokenizer keeps the quoted mark of an empty token for the next (`domain/parser.rs:494`).
22. An `active_scene_profile` that names no profile is only warned of; saving a profile under that name
    switches it on, which a save is said never to do (`server/command_executor.rs:668`; `Dangles`).
23. Exit codes 3, 5 and 2 are not always those of the README (`ipc/unix_client.rs:191`, `cli/args.rs:56`).

TUI

24. Retry opens a second session beside a live one (`tui/actions.rs:139`); a pending level is lost at quit
    (`tui/app.rs:485`); a level whose command failed stays on the screen (`tui/model.rs:1139`).
25. A snapshot takes the delete question back (`tui/model.rs:1486`), a slid profile is edited (`:1531`), and of a
    scene listed twice one entry is toggled (`:1640`).
26. A new profile replaces one made meanwhile under its name (`tui/model.rs:1590`), and reveals all
    if begun without a scene list (`:1546`).
27. A palette open when the daemon goes keeps the keys, unseen (`tui/render.rs:37`).
28. The scrolled log's offset outgrows the log (`tui/model.rs:780`); Ctrl with most letters is ignored
    (`tui/input.rs:352`); keys other than y, n, Enter, Esc and q leave the question up (`tui/mouse.rs:228`).
29. The theme picker opens on the first row when the custom palette is shown; Enter there takes a theme
    nobody has seen (`tui/model.rs:1036`).

## Proofs

`SnapshotSyncProofs`, from the assumptions on the constants named in
`SnapshotSync` (disjoint kinds of fields; a plan that asks for every field;
distinguished values; bounds at least one try):

* `SnapshotTypes`: types, with `ReadSoFar` (what the plan position says has been
  read), which types of a published snapshot need.
* `StalenessIsOwed`: `StaleInv`, and with it `StaleIsOwed`. That a stale field is
  owed news is not inductive: a refresh in flight may hold an old reading that
  makes a field stale at its publication. `FenceHolds` says of those readings what
  `StaleIsOwed` says of the snapshot - the counter has moved, or an excuse was
  noted, or the news is still coming - and `QueueIsFresh` says that the last event
  queued about a selection carries OBS's present value, which is what makes folding
  it an end of staleness. Each action disturbs one of the three and is repaired
  by the other two; there is one lemma per action.
* `CaughtUpFollowed`: once quiescent, every followed field agrees but those with an excuse of
  their own.

The proofs cover `Followed` (lists, selections, projection). Inputs, whose events
create, remove and mute with only partial information, are model-checked.

`ObsConnectionProofs`, of Supervisor, for any set of connections, settings and channel capacity:

* `SupervisorInvariant`: `SupervisorInv`. `CommandsImplyConnected` needs
  `StandsWhere`, that the store says connected from the first snapshot to the
  report, and that in turn that no worker ever says disconnected.
  `GivesUpOnlyExhausted` needs the policy's two fields to agree (`PolicyInv`).
* `CommandsAreConnected` and `RetriesAreBounded`, its consequences.
* `SupervisorImplementsLink`: every step is a step of `ObsLink` or a stutter.

`ObsConnectionProofs`, of ObsClientTask, for any callers and any capacity of the channels:

* `AnswersAreOwn` and `UnavailableIsUnsent`, together `CallersAreToldTheTruth`, from
  `AnswersInv`. Neither property is
  inductive: what a call returns is what its oneshot holds, so `ToldTruly` says of
  oneshots what the two say of results, and that "unavailable" is said only by a task
  that has ended, which writes nothing any more. `OnePlace` says that a request is in
  one place at a time - not yet made, queued once, or written - and that only
  written ones are pending; without it a request queued twice could be dropped
  and have been sent.
* `TablesStayClean`: `TableInv`, from `TablesInv`. `AbandonedAreForgotten` speaks of the table
  only; `Awaited` says the same of the requests still queued for it, and `HandedOver` that a
  request with a reply is in neither, so that a caller is told once.

`ConfigFileProofs`, for any lanes, names, themes, contents the user may leave (as long
as they name no active profile that is not there) and bounds:

* `ConfigStaysInAgreement`, which is types (from lemmas of their own on counts and history) with
  `MemoryIsTheFile`, `SnapshotIsMemory`, `NoDanglingProfile` and `CrashesNeverTear`, from `FileInv`. That memory agrees with the file says nothing while a command is at
  work, so it is carried through it: `HolderKnows` says what the holder of the lock
  has in hand at each stage - before the rename, that the file is still what it has
  read; after it, that the file is what it will apply - and `MemoryFollows` that
  memory agrees until then; both unless the file was written from outside. `Pointers`
  says of every config on its way what `ActiveExists` says; that commands keep it is
  `SaveWell` and `EffectWell`.
* `CommandsBuildOnFile` and `DumpsBackUp`: two action properties, from `HolderKnows`.
* `ThemesStandAlone`: `ThemeAlone`. `TuiKnows` says of the TUI's process what `HolderKnows` says
  of the lock's holder: what it will write is the present file with another theme, until somebody
  else writes.

The framing, in `IpcSessionProofs` too, for any limit and any number of bytes (`LimitAssumption`: the limit is
positive):

* `FramesAreKept`: `FrameInv`, from `FrameIInv`. That frames and rest make up what was read
  (`CutUp`: positions at which it was cut) is inductive, what is said of the end is not:
  `Counted` says that a call has read all that is held unless the frame was begun by a call
  that was dropped, and that it has not read more than there is room for. The lemmas on slices
  of a sequence are at the front.

`IpcSessionProofs`, for any number of clients, frames and versions and any positive capacity
of the lane, the write channel and the broadcast channel (`DepthAssumption`, `FramesAssumption`):

* `SessionsKeepTheirWord`: `SessionInv`, from `SessionIInv`. None of its parts is inductive: an
  answer is given once because it is in one place at a time - owed by the session (`Shape`
  lists all it may be in the middle of), with a forwarder, in the write channel, or delivered
  (`OutOnce`, `ForwardOnce`, `AnswerOnce`); a session that closes has answered all because
  until then it is in one of them (`Owed`). That lanes reported stopped have run everything
  needs `Joined`, and that a session of an ended lane has nothing left in it.
* `NewestReachesSubscribers`: `NewestIsSent`, from `Newest`: a subscriber with no broadcast
  left has the newest version, or it is on its way (`Carried` names the seven places). It rests on
  `FirstOnce`, that the snapshot of a subscriber is fetched by one command.

`StartupProofs`, for any number of processes, runs, foreign files and situations:

* `PathIsKept`: `PathInv` of SocketPath, from `PathIInv` (`Owner`: the path names a present run
  only from its bind to the end of its removal; `AsideHeld`: a temporary name is in use between
  rename and unlink). `EntryAssumption` keeps a daemon's entry apart from no entry and from a
  foreign file.
* `PathIsLostToEarlier`: `LosesToEarlier`, from the same invariant.
* `StartupImplementsSocketPath`: every step of Startup is one of SocketPath or leaves the path
  alone; so `PathIsKeptByAll`, that both hold with all commands and systemd around them.
* `SetupAndApprovalHold` and `ServiceTellsTheTruth`: `StartupInv` and `ServiceTruth`, from
  `StartupIInv`. What setup saves loads because what it asks for (`SoundAnswers`) is what
  validation demands, field by field. Of the situations, `SituationAssumption` asks
  that each names existing sites; `MarkAssumption` that the marks for "no value" and "fault" are
  not values of the config, which the code's `Option` and `Result` guarantee. What a user is told
  of a config (`SettingsAreTold`) rests on no history: for every document that parses, each of
  its fields is read back from what is saved of it (`SavedIsRead`), and an accepted config's warnings
  are weighed against what the other modules make of it (`WarnedIsTrue`).

`TuiSessionProofs`, for any number of sessions, versions, keys, outages and places in the channel
(`BoundAssumption`):

* `ScreenIsOwed`: `SessionInv`, from `SessionIInv`. `ConnectedIsOwed` holds because with no
  session left the last message in the channel is the report of a loss (`EndIsTold`: a message
  of an older session cannot say connected after it); `LastTargetWins` because the target is the
  newest of queue, debouncer, command and OBS (`TargetIsNewest`), a command being sent one at a time;
  `ShowsDaemon` because what comes last by every open session, then in the channel, then on the
  screen is the state (`StateIsLast`), which needs that an initial state not overtaken is the
  first thing sent (`FirstIsFirst`) and that no dead session is still read beside a live one.
* `ScreenGoesForward`: `NeverGoesBack`, from `Rising`: versions are in order all the way from
  the daemon to the screen while one session is read.

`TuiModelProofs`, for any texts (`TextAssumption`: finitely many, names being bounded in length;
trimming twice is trimming once, and names that differ in blanks around them only are the same),
any daemons whose profiles and scenes are of the types, any lines closed under taking characters
away, any completion of them, any themes and tours, and any sizes of log, pane and editor:

* `ScreenIsTrue`: `ScreenInv`, from `Inv`. What the property says of cursors is not inductive: a
  cursor is kept within its list by whoever moves it, but the list is computed from the
  snapshot, the editor's copy and the panel sizes, so that all of them need their types first
  (`Sound`); `CursorsGood` holds of every panel and of the editor's rows at once, because a
  key may change the panel and a snapshot the rows. That one thing owns the keyboard is `Apart`;
  that the theme on the dashboard is the one chosen needs that settings remember where they were
  opened from (`Themed`); that candidates are those of the line, that a line is never empty while the palette is
  up (`PaletteGood`). Each handler has a lemma, from editor and palette upwards; `NextGood`
  puts them together.
* `OthersProfilesSurvive`: `NothingIsOverwritten`. `Told` says of the name the
  editor would save under that, if the daemon has a profile of it now, it is the one being edited or
  one the UI had not been told of. An arriving snapshot, a commit of a name and a change by
  others each keep it.
* `ARowTogglesItsScene` and `ReadingIsNotMoved`: the action properties of the row and of the log.
  The first is about what `retain` and `push` make of a set of spellings; the second is arithmetic
  with the two bounds of the log.

`CommandsProofs`, for any texts and names, any OBS, layouts, inputs and listings, any configs that
validation accepts (`CatalogueAssumption`), any lines, any edits and payloads whose targets are texts
(`CommandsAssumption`: a payload of `Others` may be malformed in every other way), and any bounds:

* `SnapshotHidesWhatTheConfigHides`: `CatalogueInv`, the types of OBS, queue and snapshot, with
  `HidesAs`: each row's `hidden` is what the present config says. Every writer of the snapshot keeps it:
  a full refresh and a merge by the projection, an event because it leaves names and flags alone.
* `CommandsActOnWhatWasNamed`: `ActsOnWhatWasNamed`. `ResolutionIsBest` says of the resolver, which
  tries six rules in turn, that what it returns is of the least rank, and of two that differ in case
  that it refuses; it holds for any table of entries. `AskingIsActing` carries this to the
  request that is sent, for every command that names something.
* `ExitStatusIsTrue`: `ExitTellsWhatHappened`, from `IInv`. What a client is told is what was
  answered (`Told`), and an answer is bound to what was done by `Flows`: nothing is done before a command is
  handled, a request is at OBS or performed while the daemon waits, an error that leaves it open is a timeout or
  a lost link. For saves `Saves` keeps what the sentence at the end needs across the second
  command. `SaveKeepsTheRest` splits into a save that replaces and one that adds; both need
  that of validated profiles at most one answers to a name (`OneOfAName`). `CountIsTrue` is about the rows
  said to disappear.
* `SnapshotFollowsObs`: `SnapshotFollows`, from `FollowInv`. The property is about an empty queue and is
  not inductive. `FollowInv` says of a queue of any length that the last event of a kind carries what OBS
  has (`QueueTells`, `InputsTold`), and of the snapshot that whatever no queued event and no due refresh
  is about is as OBS has it (`ListsAgree`, `InputsAgree`); a row has what the config gives its name, but
  for one that came by its creation event alone (`RowsAre`, `AliasesAre`). Folding the first event in makes
  the snapshot agree in what that event is about, if no later one is; a change at OBS makes a claim the
  event it sends takes out of account. Names must be distinct in OBS and in the snapshot (`Distinct`): that
  they stay so in the snapshot is what an `InputCreated` that adds a known input again would break.

Only model-checked:

* all liveness, which under fairness is out of the proof system's reach;
* in SnapshotSync, inputs (`SnapshotSyncInputs`);
* `BackoffsEnd` of Startup: a delay is a power, and a bounded number of attempts is followed;
* of Commands, `LinesSurvive`: tokenizer and parser fold over texts of any length, likewise an induction
  over data.

## Not modelled

* JSON, YAML and frames as text; wording of errors; logging; CLI output.
* Drawing (`tui/render.rs` beyond which screen is up, `tui/widgets`, `tui/layout.rs`, `tui/theme.rs`):
  it computes a frame from the model and keeps no state.
* Redaction, animation, statistics series and meters.
* The handshake before the first request: Hello, Identify, the authentication string.
* The metrics the stats poller writes. Writing one (`update_stats`) and carrying them over a refresh
  (`apply_full_refresh`) are one step each under the store's write guard.
* The arithmetic of bitrates; the jitter of a delay; the length limits of most config values.
* In IpcSession: oversize messages, which the code replaces by an error or drops (FrameReader has
  what becomes of the stream). In the IPC
  client: the budget of unmatched frames, which no daemon of this repository uses up.
* In Startup: the steps within the replacement of a file (ConfigFile has them), killing a
  command, which counts as a failed reload where it matters, and the `status` verb.

## Plan

All components but drawing have a module, and of the safety properties the runs check all but
those named above are theorems.
