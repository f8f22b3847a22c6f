---------------------------- MODULE SnapshotSync ----------------------------
(***************************************************************************)
(* How the daemon keeps its cached ObsSnapshot in step with OBS while one  *)
(* OBS connection is alive (server/state_store.rs,                         *)
(* server/snapshot_refresh.rs).                                            *)
(*                                                                         *)
(* Four tasks write the snapshot, each under the store's write lock:       *)
(*   - the connect path runs refresh_until_current once,                   *)
(*   - the refresh worker runs refresh_once per nudge,                     *)
(*   - the event pump folds OBS events in, one at a time,                  *)
(*   - a command lane merges the config projection after a config change.  *)
(* A refresh reads OBS one request at a time and overwrites everything at  *)
(* the end; the generation counter is what tells it that it has            *)
(* overwritten something newer.  (The stats poller writes fields of its    *)
(* own, which a refresh carries over under the lock it publishes with.)    *)
(*                                                                         *)
(* OBS and the daemon's Config are the sources.  The fields of the         *)
(* snapshot are sorted by how news of a change reaches the daemon:         *)
(*   Lists       an event without content (scene list, profile list, ...)  *)
(*   Selections  an event carrying the new value (current scene, profile,  *)
(*               collection, streaming, recording)                         *)
(*   Inputs      created / removed / mute events (audio inputs)            *)
(*   Projection  merge_config (aliases, hidden scenes, scene profiles)     *)
(***************************************************************************)
EXTENDS Integers, Sequences, FiniteSets

CONSTANTS
  Lists, Selections, Inputs,  \* three disjoint sets of snapshot fields
  Projection,                 \* the field the config decides
  Essential,                  \* fields whose failed request aborts a refresh
  Plan,                       \* the requests of a refresh, in order: a sequence of sets of fields
  Value,                      \* what OBS or the config can say of a field
  Blank,                      \* what the snapshot says before OBS has answered
  Absent, Unknown,            \* an input OBS does not have; an input whose mute is not known
  NotRead,                    \* a field this refresh has not fetched
  MaxRetries,                 \* MAX_REFRESH_RETRIES
  MaxChanges, MaxFailures     \* bounds on the environment

Refresher == {"connect", "worker"}
Followed  == Lists \union Selections \union {Projection}  \* every field but the inputs
Field     == Followed \union Inputs
Known     == Value \union {Blank, Absent, Unknown}
Phase     == {"idle", "fetch", "publish", "check"}

ASSUME FieldsAssumption ==
  /\ Lists \cap Selections = {}
  /\ Inputs \cap Followed = {}
  /\ Projection \notin Lists \union Selections
ASSUME PlanAssumption ==
  /\ Plan \in Seq(SUBSET Field)
  /\ Plan # << >>
  /\ \A x \in Field : \E i \in 1 .. Len(Plan) : x \in Plan[i]
ASSUME ValueAssumption ==
  /\ {Absent, Unknown} \cap Value = {}
  /\ Absent # Unknown
  /\ NotRead \notin Known
ASSUME BoundAssumption ==
  /\ MaxRetries \in Nat \ {0}
  /\ MaxChanges \in Nat /\ MaxFailures \in Nat

VARIABLES
  obs,         \* OBS's own state of every field but the projection
  config,      \* what the Config in memory projects
  merge,       \* a projection computed and not yet merged, or NotRead
  events,      \* OBS events on their way to the event pump, oldest first
  snap,        \* the cached ObsSnapshot
  generation,  \* StateStore::generation
  nudge,       \* the refresh worker's capacity-1 channel
  refresh,     \* the refresh each Refresher is running
  tries,       \* attempts left to the connect path
  env,         \* how many changes and failures there have been
  excused      \* history: the fields nobody will fetch again although they may be behind

vars == <<obs, config, merge, events, snap, generation, nudge, refresh, tries, env, excused>>
sources == <<obs, config, merge, env>>

Source(x) == IF x = Projection THEN config ELSE obs[x]

NothingRead(phase, gen) ==
  [phase |-> phase, at |-> 1, gen |-> gen, got |-> [x \in Field |-> NotRead], masked |-> {}]
NoRefresh == NothingRead("idle", 0)

RefreshRecord ==
  [phase : Phase, at : 1 .. Len(Plan) + 1, gen : Nat, got : [Field -> Known \union {NotRead}],
   masked : SUBSET Field]

EventRecord == [field : Field \ {Projection}, value : Value \union {Absent, Unknown}]

TypeOK ==
  /\ obs \in [Field -> Value \union {Absent}]
  /\ config \in Value
  /\ merge \in Value \union {NotRead}
  /\ events \in Seq(EventRecord)
  /\ snap \in [Field -> Known]
  /\ generation \in Nat
  /\ nudge \in BOOLEAN
  /\ refresh \in [Refresher -> RefreshRecord]
  /\ tries \in 0 .. MaxRetries
  /\ env \in [{"changes", "failures"} -> Nat]
  /\ excused \in SUBSET Field

(***************************************************************************)
(* A connection starts with whatever the previous one left in the          *)
(* snapshot, or with the defaults.                                         *)
(***************************************************************************)
Init ==
  /\ obs \in [Field -> Value \union {Absent}]
  /\ \A x \in Field \ Inputs : obs[x] # Absent
  /\ config \in Value
  /\ merge = NotRead
  /\ events = << >>
  /\ snap \in [Field -> Value \union {Blank, Absent}]
  /\ \A x \in Inputs : snap[x] # Blank
  /\ \A x \in Followed : snap[x] # Absent
  /\ generation = 0
  /\ nudge = FALSE
  /\ refresh = [r \in Refresher |-> NoRefresh]
  /\ tries = MaxRetries
  /\ env = [k \in {"changes", "failures"} |-> 0]
  /\ excused = {}

Count(k, bound) ==
  /\ env[k] < bound
  /\ env' = [env EXCEPT ![k] = @ + 1]

-----------------------------------------------------------------------------
(* The store                                                               *)

(* StateStore::commit: the write is counted under the write guard.         *)
UncountedWrite == UNCHANGED generation  \* mutant
Commit == generation' = generation + 1

(* A refresh that has read the generation and not yet published.           *)
InFlight(r) == refresh[r].phase \in {"fetch", "publish"}

(* An in-flight refresh finds the store written since it began.            *)
NeverSuperseded(r) == FALSE  \* mutant
Superseded(r) == generation # refresh[r].gen

(* History: what the refreshes in `who` that are in flight have read of    *)
(* these fields may be behind, and the fence will not tell them.           *)
Mask(who, fields) ==
  refresh' = [r \in Refresher |->
                IF r \in who /\ InFlight(r)
                THEN [refresh[r] EXCEPT !.masked = @ \union fields]
                ELSE refresh[r]]

(* The connect path leaves lists that change meanwhile to the worker; once *)
(* the worker is through, the connect path may put back the older ones.    *)
LeftTo(r) == IF r = "worker" THEN Lists ELSE {}

(* mutate_snapshot ignores an announcement of a list (the refresh that     *)
(* follows answers it), a created input it already lists, and a mute event *)
(* for an input it does not list.                                          *)
Ignored(e) ==
  \/ e.field \in Lists
  \/ e.field \in Inputs /\ e.value = Unknown /\ snap[e.field] # Absent
  \/ e.field \in Inputs /\ e.value \in Value /\ snap[e.field] = Absent

(* What an event makes of the field it is about.                           *)
Folded(e) == IF Ignored(e) THEN snap[e.field] ELSE e.value

-----------------------------------------------------------------------------
(* OBS and the rest of the world                                           *)

(* OBS changes one field and emits the event that announces it.            *)
ObsChanges(x, v) ==
  /\ x # Projection
  /\ v # obs[x]
  /\ x \notin Inputs => v # Absent
  /\ Count("changes", MaxChanges)
  /\ obs' = [obs EXCEPT ![x] = v]
  /\ events' = Append(events, [field |-> x,
                               value |-> IF obs[x] = Absent THEN Unknown ELSE v])
  /\ UNCHANGED <<config, merge, snap, generation, nudge, refresh, tries, excused>>

(* reload_config_from_disk and edit_config_file: the config_file lock is   *)
(* held from here until the projection has been merged.                    *)
SetConfig(v) ==
  /\ merge = NotRead
  /\ Count("changes", MaxChanges)
  /\ config' = v
  /\ merge' = v
  /\ UNCHANGED <<obs, events, snap, generation, nudge, refresh, tries, excused>>

MergeConfig ==
  /\ merge # NotRead
  /\ snap' = [snap EXCEPT ![Projection] = merge]
  /\ Commit
  /\ merge' = NotRead
  /\ UNCHANGED <<obs, config, events, nudge, refresh, tries, env, excused>>

(* reload_after_dump replaces the Config and merges nothing: the excuse    *)
(* "dump", for the projection.                                             *)
DumpReload(v) ==
  /\ merge = NotRead
  /\ Count("changes", MaxChanges)
  /\ config' = v
  /\ Mask(Refresher, {Projection})
  /\ excused' = excused \union {Projection}
  /\ UNCHANGED <<obs, merge, events, snap, generation, nudge, tries>>

-----------------------------------------------------------------------------
(* The event pump                                                          *)

(* needs_full_refresh: the event says only that a list has changed.        *)
NeedsFullRefresh(e) == e.field \in Lists

(* apply_event, then try_send on the worker's channel when the event needs *)
(* a full refresh; the channel holds one nudge.  An event that changes     *)
(* nothing is not counted: the excuse "noop", for the field it is about.   *)
PumpEvent ==
  /\ events # << >>
  /\ LET e == Head(events) IN
       /\ snap' = [snap EXCEPT ![e.field] = Folded(e)]
       /\ IF Folded(e) # snap[e.field]
          THEN Commit /\ UNCHANGED refresh
          ELSE /\ UNCHANGED generation
               /\ IF e.field \in Lists THEN UNCHANGED refresh ELSE Mask(Refresher, {e.field})
       /\ nudge' = (nudge \/ NeedsFullRefresh(e))
  /\ events' = Tail(events)
  /\ UNCHANGED <<sources, tries, excused>>

-----------------------------------------------------------------------------
(* Refreshes                                                               *)

(* refresh_once starts by reading the generation.  The worker does so for  *)
(* the nudge it has received, the connect path while it has tries left.    *)
Begin(r) ==
  /\ refresh[r].phase = "idle"
  /\ IF r = "worker"
     THEN nudge /\ nudge' = FALSE /\ UNCHANGED tries
     ELSE tries > 0 /\ tries' = tries - 1 /\ UNCHANGED nudge
  /\ refresh' = [refresh EXCEPT ![r] = NothingRead("fetch", generation)]
  /\ UNCHANGED <<sources, events, snap, generation, excused>>

(* What a request says of a field.  An input is asked about twice: first   *)
(* for its name, then for its mute, which only an input still there has.   *)
Reading(x, known) ==
  CASE x \notin Inputs                    -> Source(x)
    [] x \in Inputs /\ known = NotRead    -> IF obs[x] = Absent THEN Absent ELSE Unknown
    [] x \in Inputs /\ known # NotRead    -> IF Absent \in {known, obs[x]} THEN known ELSE obs[x]

PlanDone(at) == at > Len(Plan)

Advance(r, got, masked) ==
  LET at == refresh[r].at + 1 IN
  refresh' = [refresh EXCEPT ![r] =
                [phase |-> IF PlanDone(at) THEN "publish" ELSE "fetch",
                 at |-> at, gen |-> @.gen, got |-> got, masked |-> masked]]

Fetch(r) ==
  /\ refresh[r].phase = "fetch"
  /\ LET got == refresh[r].got IN
     Advance(r, [x \in Field |-> IF x \in Plan[refresh[r].at] THEN Reading(x, got[x]) ELSE got[x]],
             refresh[r].masked)
  /\ UNCHANGED <<sources, events, snap, generation, nudge, tries, excused>>

(* fetch_listing, fetch_output_active, fetch_input_state: a request that   *)
(* fails leaves the default and the refresh goes on: the excuse            *)
(* "degraded", for the fields of that request.                             *)
FetchDegrades(r) ==
  /\ refresh[r].phase = "fetch"
  /\ LET now == Plan[refresh[r].at] IN
       /\ now \cap (Essential \union {Projection}) = {}
       /\ \A x \in now \cap Inputs : refresh[r].got[x] # NotRead
       /\ Count("failures", MaxFailures)
       /\ Advance(r, [x \in Field |-> IF x \in now \ Inputs THEN Blank ELSE refresh[r].got[x]],
                  refresh[r].masked \union (now \ Inputs))
  /\ UNCHANGED <<obs, config, merge, events, snap, generation, nudge, tries, excused>>

(* A failed essential request ends the refresh.  The worker only logs it;  *)
(* the connect path stops retrying and serve() calls mark_connected, which *)
(* commits.  The excuse "failed", for every field.                         *)
FetchFails(r) ==
  /\ refresh[r].phase = "fetch"
  /\ LET now == Plan[refresh[r].at] IN
       \/ now \cap Essential # {}
       \/ \E x \in now \cap Inputs : refresh[r].got[x] = NotRead
  /\ Count("failures", MaxFailures)
  /\ refresh' = [q \in Refresher |->
                   IF q = r THEN NoRefresh
                   ELSE IF InFlight(q) THEN [refresh[q] EXCEPT !.masked = @ \union LeftTo(r)]
                   ELSE refresh[q]]
  /\ IF r = "connect"
     THEN Commit /\ tries' = 0
     ELSE UNCHANGED <<generation, tries>>
  /\ excused' = Field
  /\ UNCHANGED <<obs, config, merge, events, snap, nudge>>

(* apply_full_refresh, up to the release of the write guard: everything    *)
(* but the poller's fields is replaced, and no write is counted: the       *)
(* excuse "overlap", for lists a connect path still fetching has read.     *)
Publish(r) ==
  /\ refresh[r].phase = "publish"
  /\ snap' = refresh[r].got
  /\ excused' = IF generation # refresh[r].gen THEN {} ELSE refresh[r].masked
  /\ refresh' = [q \in Refresher |->
                   IF q = r THEN [refresh[q] EXCEPT !.phase = "check"]
                   ELSE IF InFlight(q) THEN [refresh[q] EXCEPT !.masked = @ \union LeftTo(r)]
                   ELSE refresh[q]]
  /\ UNCHANGED <<sources, events, generation, nudge, tries>>

(* What the overtaken worker does about it.                                *)
NudgeAfter(r) == nudge \/ Superseded(r)

(* What follows the comparison apply_full_refresh ends with: an overtaken  *)
(* worker nudges itself, an overtaken connect path goes round again until  *)
(* it has used its tries up: the excuse "gaveup", for every field.         *)
Check(r) ==
  /\ refresh[r].phase = "check"
  /\ refresh' = [refresh EXCEPT ![r] = NoRefresh]
  /\ IF r = "worker"
     THEN nudge' = NudgeAfter(r) /\ UNCHANGED <<tries, excused>>
     ELSE /\ tries' = IF Superseded(r) THEN tries ELSE 0
          /\ excused' = IF Superseded(r) /\ tries = 0 THEN Field ELSE excused
          /\ UNCHANGED nudge
  /\ UNCHANGED <<sources, events, snap, generation>>

-----------------------------------------------------------------------------
RefreshStep(r) ==
  Begin(r) \/ Fetch(r) \/ FetchDegrades(r) \/ FetchFails(r) \/ Publish(r) \/ Check(r)

Environment ==
  \/ \E x \in Field, v \in Value \union {Absent} : ObsChanges(x, v)
  \/ \E v \in Value : SetConfig(v) \/ DumpReload(v)

Next ==
  \/ Environment
  \/ MergeConfig
  \/ PumpEvent
  \/ \E r \in Refresher : RefreshStep(r)

(* Tokio runs every ready task, and a request is answered or times out.    *)
Fairness ==
  /\ WF_vars(MergeConfig)
  /\ WF_vars(PumpEvent)
  /\ \A r \in Refresher : WF_vars(RefreshStep(r))

Spec == Init /\ [][Next]_vars
FairSpec == Spec /\ Fairness

-----------------------------------------------------------------------------
(* Properties                                                              *)

(* Nothing is left to do: no event to fold, no refresh running or owed.    *)
Quiescent ==
  /\ events = << >> /\ merge = NotRead /\ ~nudge /\ tries = 0
  /\ \A r \in Refresher : refresh[r].phase = "idle"

Agrees(x) ==
  \/ snap[x] = Source(x)
  \/ x \in Inputs /\ snap[x] = Unknown /\ obs[x] # Absent

(* News of a change of x that the snapshot has not been given yet.         *)
Queued(x) ==
  \/ \E i \in 1 .. Len(events) : events[i].field = x
  \/ x = Projection /\ merge # NotRead

(* r will publish what x is now, or will be followed by a refresh that     *)
(* does, or will leave an excuse.                                          *)
Covers(r, x) ==
  \/ r = "connect" /\ refresh[r].phase = "idle" /\ tries > 0
  \/ refresh[r].phase # "idle" /\ Superseded(r)
  \/ InFlight(r) /\ (x \in refresh[r].masked \/ refresh[r].got[x] \in {NotRead, Source(x)})

Owed(x) == Queued(x) \/ nudge \/ \E r \in Refresher : Covers(r, x)

(* At every moment, not only when the daemon has caught up: a field that   *)
(* differs from its source has an event queued, a refresh owed, or an      *)
(* excuse of its own.  An event that changed nothing excuses its field, a  *)
(* degraded request what it asked for, a dump the projection, overlapping  *)
(* refreshes the lists; only a refresh that failed or gave up, both of     *)
(* which are logged, excuses all, and the next one published takes every   *)
(* excuse back that is not its own.  No other staleness is ever forgotten. *)
StaleIsOwed ==
  \A x \in Followed : snap[x] = Source(x) \/ Owed(x) \/ x \in excused

(* A refresh has read what its plan has asked for so far.                  *)
ReadSoFar ==
  \A r \in Refresher :
    /\ refresh[r].phase = "fetch" => refresh[r].at <= Len(Plan)
    /\ refresh[r].phase = "publish" => refresh[r].at = Len(Plan) + 1
    /\ InFlight(r) =>
         \A i \in 1 .. Len(Plan) : i < refresh[r].at =>
           \A x \in Plan[i] : refresh[r].got[x] # NotRead

(* The last event queued about a selection says what OBS says; a config    *)
(* waiting to be merged is the config in memory; generations are not from  *)
(* the future.                                                             *)
QueueIsFresh ==
  /\ \A x \in Selections : obs[x] # Absent
  /\ \A i \in 1 .. Len(events) :
       /\ events[i].field \in Selections
       /\ \A j \in i + 1 .. Len(events) : events[j].field # events[i].field
       => events[i].value = obs[events[i].field]
  /\ merge # NotRead => merge = config
  /\ \A r \in Refresher : refresh[r].phase # "idle" => refresh[r].gen <= generation

(* What a refresh in flight has read and is no longer so: either the       *)
(* generation has moved, or the refresh has an excuse for that field, or   *)
(* the news is still to come.  The connect path may owe a list to the      *)
(* worker.                                                                 *)
FenceHolds ==
  \A r \in Refresher, x \in Followed :
    /\ InFlight(r) /\ x \notin refresh[r].masked /\ ~Superseded(r)
    /\ refresh[r].got[x] \notin {NotRead, Source(x)}
    => \/ Queued(x)
       \/ x \in Lists /\ (nudge \/ (r = "connect" /\ Covers("worker", x)))

(* The inductive invariant behind StaleIsOwed.                             *)
StaleInv == TypeOK /\ ReadSoFar /\ QueueIsFresh /\ FenceHolds /\ StaleIsOwed

(* When OBS and the user stop changing things the daemon stops refreshing: *)
(* the self-nudge and the retries cannot chase each other for ever.  From  *)
(* then on a snapshot field that differs from OBS or from the config has   *)
(* an excuse of its own.                                                   *)
CaughtUp == Quiescent /\ \A x \in Field \ excused : Agrees(x)
EndsCaughtUp == <>[]CaughtUp
=============================================================================
