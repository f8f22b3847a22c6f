----------------------------- MODULE IpcSession -----------------------------
(***************************************************************************)
(* The daemon's side of its Unix socket (ipc/unix_server.rs,               *)
(* ipc/session.rs), the command lanes behind it (server/command_lanes.rs,  *)
(* CommandExecutor::serve) and the end of the daemon (server/daemon.rs).   *)
(*                                                                         *)
(* Every connection has a session task that reads frames and forwards      *)
(* broadcasts, a write task that owns the socket, a lane that runs its     *)
(* commands one after another, and one forwarder task per command waiting  *)
(* for the answer.  They are joined by bounded channels and end in a chain *)
(* that begins with the client hanging up.                                 *)
(*                                                                         *)
(* The snapshot is its version: how often it has been written.  The state  *)
(* topic then holds the last BroadcastCapacity versions, and a receiver is *)
(* the version it reads next.  The topics events and logs go the same way  *)
(* and are left out.  A frame a client sends is identified by its position *)
(* among the frames of that client, which stands for the request id.       *)
(***************************************************************************)
EXTENDS Integers, Sequences, FiniteSets

CONSTANTS
  Client,             \* connections, each made at most once
  Patient,            \* the clients that go on reading what they are sent
  Frames,             \* the kinds of frame a client may send
  MaxFrames,          \* bound: frames per client
  MaxWrites,          \* bound: versions of the snapshot
  LaneDepth,          \* LANE_DEPTH
  WriterDepth,        \* capacity of a session's write channel
  BroadcastCapacity   \* BROADCAST_CAPACITY

Command == {"query", "change", "shutdown"}
Frame == Command \union {"subscribe", "invalid", "malformed", "blank"}

ASSUME FramesAssumption == Frames \subseteq Frame /\ Patient \subseteq Client
ASSUME DepthAssumption ==
  /\ {LaneDepth, WriterDepth, BroadcastCapacity, MaxWrites} \subseteq Nat \ {0}
  /\ MaxFrames \in Nat

VARIABLES
  snapshot,    \* the version of the snapshot
  sent,        \* what each client has sent
  gone,        \* the clients that have closed their end
  session,     \* run_session: not accepted, in its loop, waiting for its write task, returned
  read,        \* how many frames the session has read
  todo,        \* what the session still has to queue before its next select
  subscribed,  \* whether the session forwards the state topic
  cursor,      \* the next version state_rx returns
  lane,        \* dispatches waiting in the lane's channel
  running,     \* what the lane is running
  forwarders,  \* tasks waiting for an answer, or for room to queue it
  out,         \* the write channel
  broken,      \* the write task has failed
  answers,     \* history: how often each frame has been answered
  ran,         \* history: the commands each lane has run
  latest,      \* history: the newest version each client has been sent
  shutdown,    \* the daemon's watch channel
  daemon,      \* daemon::run: accepting, draining the lanes, joining the supervisor, returned
  lanesStopped \* the lanes were drained before the deadline

clients == <<sent, gone>>
loops == <<session, read, todo, subscribed, cursor>>
lanes == <<lane, running, ran>>
socket == <<out, broken, answers, latest>>
ending == <<shutdown, daemon, lanesStopped>>
vars == <<snapshot, clients, loops, lanes, forwarders, socket, ending>>

NoCommand == 0
InitialState == 0  \* STATE_INIT_REQUEST_ID, a frame no client has sent
Pending == -1
Request == 0 .. MaxFrames
Version == 0 .. MaxWrites

Message == [kind : {"answer", "state"}, n : Nat]
Answer(i) == [kind |-> "answer", n |-> i]
State(v) == [kind |-> "state", n |-> v]

(* What a session does about a frame, in order: queue a message for the    *)
(* client, dispatch a command to the lane, or leave its loop.              *)
Step == [do : {"write"}, msg : Message] \union [do : {"dispatch"}, id : Request] \union [do : {"close"}]
Write(m) == [do |-> "write", msg |-> m]
Dispatch(i) == [do |-> "dispatch", id |-> i]
Close == [do |-> "close"]

(* What each variable holds.  The lane and the write channel keep within    *)
(* their capacity, whoever sends into them.                                *)
TypeOK ==
  /\ snapshot \in Version
  /\ sent \in [Client -> Seq(Frame)]
  /\ gone \in SUBSET Client
  /\ session \in [Client -> {"none", "open", "closing", "closed"}]
  /\ read \in [Client -> Request]
  /\ todo \in [Client -> Seq(Step)]
  /\ subscribed \in [Client -> BOOLEAN]
  /\ cursor \in [Client -> 0 .. MaxWrites + 1]
  /\ lane \in [Client -> Seq(Request)] /\ \A c \in Client : Len(lane[c]) <= LaneDepth
  /\ running \in [Client -> [id : Request, result : {Pending} \union Version]]
  /\ forwarders \in [Client -> SUBSET [id : Request, result : {Pending} \union Version]]
  /\ out \in [Client -> Seq(Message)] /\ \A c \in Client : Len(out[c]) <= WriterDepth
  /\ broken \in SUBSET Client
  /\ answers \in [Client -> [1 .. MaxFrames -> Nat]]
  /\ ran \in [Client -> Seq(Request)]
  /\ latest \in [Client -> Version]
  /\ shutdown \in BOOLEAN
  /\ daemon \in {"accepting", "draining", "joining", "returned"}
  /\ lanesStopped \in BOOLEAN

Idle == [id |-> NoCommand, result |-> Pending]

Init ==
  /\ snapshot = 1
  /\ sent = [c \in Client |-> << >>]
  /\ gone = {}
  /\ session = [c \in Client |-> "none"]
  /\ read = [c \in Client |-> 0]
  /\ todo = [c \in Client |-> << >>]
  /\ subscribed = [c \in Client |-> FALSE]
  /\ cursor = [c \in Client |-> 0]
  /\ lane = [c \in Client |-> << >>]
  /\ running = [c \in Client |-> Idle]
  /\ forwarders = [c \in Client |-> {}]
  /\ out = [c \in Client |-> << >>]
  /\ broken = {}
  /\ answers = [c \in Client |-> [i \in 1 .. MaxFrames |-> 0]]
  /\ ran = [c \in Client |-> << >>]
  /\ latest = [c \in Client |-> 0]
  /\ shutdown = FALSE
  /\ daemon = "accepting"
  /\ lanesStopped = FALSE

-----------------------------------------------------------------------------
(* Clients                                                                 *)

(* The accept loop takes a connection: the session subscribes to the hub   *)
(* at once and is given a lane of its own.                                 *)
Connect(c) ==
  /\ daemon = "accepting"
  /\ session[c] = "none"
  /\ session' = [session EXCEPT ![c] = "open"]
  /\ cursor' = [cursor EXCEPT ![c] = snapshot + 1]
  /\ UNCHANGED <<snapshot, clients, read, todo, subscribed, lanes, forwarders, socket, ending>>

Send(c, f) ==
  /\ session[c] \in {"open", "closing"} /\ c \notin gone
  /\ Len(sent[c]) < MaxFrames
  /\ sent' = [sent EXCEPT ![c] = Append(@, f)]
  /\ UNCHANGED <<snapshot, gone, loops, lanes, forwarders, socket, ending>>

HangUp(c) ==
  /\ session[c] \in {"open", "closing"} /\ c \notin gone
  /\ gone' = gone \union {c}
  /\ UNCHANGED <<snapshot, sent, loops, lanes, forwarders, socket, ending>>

-----------------------------------------------------------------------------
(* The session task                                                        *)

InLoop(c) == session[c] = "open" /\ todo[c] = << >>

(* handle_subscribe: acknowledge, and for a first subscription to the      *)
(* state topic have the snapshot fetched.                                  *)
Subscribing(c, i) ==
  IF subscribed[c] THEN <<Write(Answer(i))>> ELSE <<Write(Answer(i)), Dispatch(InitialState)>>

(* handle_line: a command is dispatched, a request with a bad id, name or  *)
(* topic is rejected, and what cannot be parsed ends the session unheard.  *)
(* An empty line is passed over.                                           *)
Handling(c, i) ==
  CASE sent[c][i] \in Command     -> <<Dispatch(i)>>
    [] sent[c][i] = "subscribe"   -> Subscribing(c, i)
    [] sent[c][i] = "invalid"     -> <<Write(Answer(i)), Close>>
    [] sent[c][i] = "malformed"   -> <<Close>>
    [] sent[c][i] = "blank"       -> << >>

ReadFrame(c) ==
  /\ InLoop(c)
  /\ read[c] < Len(sent[c])
  /\ read' = [read EXCEPT ![c] = @ + 1]
  /\ todo' = [todo EXCEPT ![c] = Handling(c, read[c] + 1)]
  /\ subscribed' = [subscribed EXCEPT ![c] = @ \/ sent[c][read[c] + 1] = "subscribe"]
  /\ UNCHANGED <<snapshot, clients, session, cursor, lanes, forwarders, socket, ending>>

(* The end of the stream, or a reset that swallows what was still unread.  *)
ReadEnd(c) ==
  /\ InLoop(c)
  /\ c \in gone
  /\ session' = [session EXCEPT ![c] = "closing"]
  /\ UNCHANGED <<snapshot, clients, read, todo, subscribed, cursor, lanes, forwarders, socket, ending>>

(* The oldest version the broadcast channel still holds, for a receiver    *)
(* that has fallen behind.                                                 *)
Oldest == IF snapshot > BroadcastCapacity THEN snapshot - BroadcastCapacity + 1 ELSE 1

(* forward_broadcast: a version, or the news of having lagged, after which *)
(* the receiver goes on with the oldest version held.                      *)
SkipsToEnd(c) ==  \* mutant
  IF cursor[c] < Oldest
  THEN cursor' = [cursor EXCEPT ![c] = snapshot + 1] /\ UNCHANGED todo
  ELSE /\ todo' = [todo EXCEPT ![c] = <<Write(State(cursor[c]))>>]
       /\ cursor' = [cursor EXCEPT ![c] = @ + 1]
Receive(c) ==
  IF cursor[c] < Oldest
  THEN cursor' = [cursor EXCEPT ![c] = Oldest] /\ UNCHANGED todo
  ELSE /\ todo' = [todo EXCEPT ![c] = <<Write(State(cursor[c]))>>]
       /\ cursor' = [cursor EXCEPT ![c] = @ + 1]

ForwardBroadcast(c) ==
  /\ InLoop(c)
  /\ subscribed[c]
  /\ cursor[c] <= snapshot
  /\ Receive(c)
  /\ UNCHANGED <<snapshot, clients, session, read, subscribed, lanes, forwarders, socket, ending>>

(* SessionWriter::send: waits for room, and gives the message up once the  *)
(* write task has failed.                                                  *)
DropsWhenFull(c, m) ==  \* mutant
  out' = [out EXCEPT ![c] = IF c \in broken \/ Len(@) = WriterDepth THEN @ ELSE Append(@, m)]
Queue(c, m) ==
  \/ c \in broken /\ UNCHANGED out
  \/ /\ c \notin broken
     /\ Len(out[c]) < WriterDepth
     /\ out' = [out EXCEPT ![c] = Append(@, m)]

WriteNext(c) ==
  /\ todo[c] # << >> /\ Head(todo[c]).do = "write"
  /\ Queue(c, Head(todo[c]).msg)
  /\ todo' = [todo EXCEPT ![c] = Tail(@)]
  /\ UNCHANGED <<snapshot, clients, session, read, subscribed, cursor, lanes, forwarders, broken, answers,
                 latest, ending>>

(* dispatch_and_forward: waits for room in the lane, then leaves a task    *)
(* behind that waits for the answer.  The lane's receiver lives as long as *)
(* its session, so the send does not fail.                                 *)
JoinLane(c, i) == Len(lane[c]) < LaneDepth /\ lane' = [lane EXCEPT ![c] = Append(@, i)]

DispatchNext(c) ==
  /\ todo[c] # << >> /\ Head(todo[c]).do = "dispatch"
  /\ JoinLane(c, Head(todo[c]).id)
  /\ forwarders' = [forwarders EXCEPT ![c] = @ \union {[id |-> Head(todo[c]).id, result |-> Pending]}]
  /\ todo' = [todo EXCEPT ![c] = Tail(@)]
  /\ UNCHANGED <<snapshot, clients, session, read, subscribed, cursor, running, ran, socket, ending>>

(* A rejection leaves the loop.                                            *)
CloseNext(c) ==
  /\ todo[c] # << >> /\ Head(todo[c]).do = "close"
  /\ session' = [session EXCEPT ![c] = "closing"]
  /\ todo' = [todo EXCEPT ![c] = << >>]
  /\ UNCHANGED <<snapshot, clients, read, subscribed, cursor, lanes, forwarders, socket, ending>>

(* run_session returns when its write task has: every sender of the write  *)
(* channel is gone and the channel is empty, or a write has failed.        *)
DoesNotWait(c) == TRUE  \* mutant
HoldsItsSender(c) == c \in broken  \* mutant
WriterEnded(c) == c \in broken \/ (out[c] = << >> /\ forwarders[c] = {})

SessionReturns(c) ==
  /\ session[c] = "closing"
  /\ WriterEnded(c)
  /\ session' = [session EXCEPT ![c] = "closed"]
  /\ UNCHANGED <<snapshot, clients, read, todo, subscribed, cursor, lanes, forwarders, socket, ending>>

-----------------------------------------------------------------------------
(* The lane                                                                *)

Kind(c, i) == IF i = InitialState THEN "query" ELSE sent[c][i]

(* CommandExecutor::serve takes the next dispatch and runs it, up to the   *)
(* moment the command reads or writes the state.  A change may fail.       *)
Run(c) ==
  /\ lane[c] # << >> /\ running[c] = Idle
  /\ LET i == Head(lane[c]) IN
       /\ \/ UNCHANGED <<snapshot, shutdown>>
          \/ Kind(c, i) = "change" /\ snapshot < MaxWrites /\ snapshot' = snapshot + 1 /\ UNCHANGED shutdown
          \/ Kind(c, i) = "shutdown" /\ shutdown' = TRUE /\ UNCHANGED snapshot
       /\ running' = [running EXCEPT ![c] = [id |-> i, result |-> snapshot']]
       /\ ran' = [ran EXCEPT ![c] = IF i = InitialState THEN @ ELSE Append(@, i)]
  /\ lane' = [lane EXCEPT ![c] = Tail(@)]
  /\ UNCHANGED <<clients, loops, forwarders, socket, daemon, lanesStopped>>

(* The command is over: its answer goes to the forwarder waiting for it.   *)
Finish(c) ==
  /\ running[c] # Idle
  /\ forwarders' = [forwarders EXCEPT ![c] =
                      {IF f.id = running[c].id /\ f.result = Pending THEN running[c] ELSE f : f \in @}]
  /\ running' = [running EXCEPT ![c] = Idle]
  /\ UNCHANGED <<snapshot, clients, loops, lane, ran, socket, ending>>

(* The forwarder queues the answer; the snapshot asked for on behalf of a  *)
(* subscriber becomes a state message.                                     *)
Forward(c, f) ==
  /\ f.result # Pending
  /\ Queue(c, IF f.id = InitialState THEN State(f.result) ELSE Answer(f.id))
  /\ forwarders' = [forwarders EXCEPT ![c] = @ \ {f}]
  /\ UNCHANGED <<snapshot, clients, loops, lanes, broken, answers, latest, ending>>

(* The write task hands the next message to the client, who may be gone.   *)
Later(v, w) == IF v > w THEN v ELSE w

Deliver(c) ==
  /\ out[c] # << >>
  /\ c \notin gone
  /\ LET m == Head(out[c]) IN
       IF m.kind = "answer"
       THEN answers' = [answers EXCEPT ![c][m.n] = @ + 1] /\ UNCHANGED latest
       ELSE latest' = [latest EXCEPT ![c] = Later(@, m.n)] /\ UNCHANGED answers
  /\ out' = [out EXCEPT ![c] = Tail(@)]
  /\ UNCHANGED <<snapshot, clients, loops, lanes, forwarders, broken, ending>>

WriteFails(c) ==
  /\ out[c] # << >>
  /\ c \in gone
  /\ broken' = broken \union {c}
  /\ out' = [out EXCEPT ![c] = << >>]
  /\ UNCHANGED <<snapshot, clients, loops, lanes, forwarders, answers, latest, ending>>

-----------------------------------------------------------------------------
(* The daemon                                                              *)

(* An event, a poll or a refresh writes the snapshot and publishes it.     *)
StateChanges ==
  /\ snapshot < MaxWrites
  /\ snapshot' = snapshot + 1
  /\ UNCHANGED <<clients, loops, lanes, forwarders, socket, ending>>

Signal ==
  /\ shutdown' = TRUE
  /\ UNCHANGED <<snapshot, clients, loops, lanes, forwarders, socket, daemon, lanesStopped>>

(* The accept loop ends for a shutdown, or because accept has failed.      *)
AcceptEnds ==
  /\ daemon = "accepting"
  /\ daemon' = "draining"
  /\ UNCHANGED <<snapshot, clients, loops, lanes, forwarders, socket, shutdown, lanesStopped>>

(* A lane ends when its session has returned and it has nothing left.      *)
LaneEnded(c) == session[c] \in {"none", "closed"} /\ lane[c] = << >> /\ running[c] = Idle

(* shut_down, its first join: ExecutorLanes::drain or the deadline.        *)
Drained == \A c \in Client : LaneEnded(c)

LanesJoined ==
  /\ daemon = "draining"
  /\ Drained
  /\ lanesStopped' = TRUE
  /\ daemon' = "joining"
  /\ UNCHANGED <<snapshot, clients, loops, lanes, forwarders, socket, shutdown>>

(* The time is up for both joins.  Otherwise the supervisor has stopped,   *)
(* which takes a shutdown.                                                 *)
DeadlinePasses ==
  /\ daemon \in {"draining", "joining"}
  /\ daemon' = "returned"
  /\ UNCHANGED <<snapshot, clients, loops, lanes, forwarders, socket, shutdown, lanesStopped>>

SupervisorJoined ==
  /\ daemon = "joining"
  /\ shutdown
  /\ daemon' = "returned"
  /\ UNCHANGED <<snapshot, clients, loops, lanes, forwarders, socket, shutdown, lanesStopped>>

-----------------------------------------------------------------------------
SessionStep(c) ==
  ReadFrame(c) \/ ForwardBroadcast(c) \/ WriteNext(c) \/ DispatchNext(c) \/ CloseNext(c)
    \/ SessionReturns(c) \/ ReadEnd(c)
LaneStep(c) == Run(c) \/ Finish(c)
ForwardStep(c) == \E f \in forwarders[c] : Forward(c, f)

ClientStep(c) == Connect(c) \/ HangUp(c) \/ \E f \in Frames : Send(c, f)

(* When daemon::run has returned the process is gone.                      *)
Next ==
  /\ daemon # "returned"
  /\ \/ \E c \in Client :
          ClientStep(c) \/ SessionStep(c) \/ LaneStep(c) \/ ForwardStep(c) \/ Deliver(c) \/ WriteFails(c)
     \/ StateChanges \/ Signal
     \/ AcceptEnds \/ LanesJoined \/ SupervisorJoined \/ DeadlinePasses

(* Every task of the daemon runs.  select! takes its ready branches at     *)
(* random, so a frame is not passed over for ever by a stream of           *)
(* broadcasts, and a bounded channel serves those waiting for room in      *)
(* turn.  Only the patient clients are sure to read.                       *)
Alive(A) == A /\ daemon # "returned"
Fairness ==
  /\ \A c \in Client :
       /\ WF_vars(Alive(SessionStep(c)))
       /\ SF_vars(Alive(ReadFrame(c))) /\ SF_vars(Alive(ReadEnd(c)))
       /\ WF_vars(Alive(LaneStep(c)))
       /\ WF_vars(Alive(WriteFails(c)))
       /\ SF_vars(Alive(ForwardStep(c))) /\ SF_vars(Alive(WriteNext(c)))
  /\ \A c \in Patient : WF_vars(Alive(Deliver(c)))

Spec == Init /\ [][Next]_vars
FairSpec == Spec /\ Fairness

-----------------------------------------------------------------------------
(* Properties                                                              *)

Answerable == Frame \ {"malformed", "blank"}

(* A request is answered at most once, and only after it was read: no      *)
(* interleaving of forwarders and closing makes two answers of one.        *)
AnsweredOnce ==
  \A c \in Client, i \in 1 .. MaxFrames :
    /\ answers[c][i] <= 1
    /\ answers[c][i] = 1 => i <= read[c] /\ sent[c][i] \in Answerable

(* A session that returns while its client is still there has answered     *)
(* everything it read, the commands whose answers were outstanding when    *)
(* another request was rejected included.                                  *)
ClosedAnswersAll ==
  \A c \in Client : session[c] = "closed" /\ c \notin gone =>
    \A i \in 1 .. read[c] : sent[c][i] \in Answerable => answers[c][i] = 1

(* One client's commands run in the order it sent them, each once and none *)
(* left out: a full lane holds the session up and drops nothing.           *)
Line(c) == ran[c] \o lane[c]
Waiting(c) ==
  {todo[c][k].id : k \in {k \in DOMAIN todo[c] : todo[c][k].do = "dispatch"}} \ {InitialState}

RunInOrder ==
  \A c \in Client :
    /\ \A j, k \in DOMAIN Line(c) :
         j < k /\ InitialState \notin {Line(c)[j], Line(c)[k]} => Line(c)[j] < Line(c)[k]
    /\ \A i \in Waiting(c), k \in DOMAIN Line(c) : Line(c)[k] < i
    /\ \A i \in 1 .. MaxFrames :
         i \in Waiting(c) \/ (\E k \in DOMAIN Line(c) : Line(c)[k] = i)
           <=> i <= read[c] /\ sent[c][i] \in Command

(* A daemon that reports its lanes stopped has run every command it read   *)
(* to the end.                                                             *)
StopsClean ==
  lanesStopped =>
    \A c \in Client :
      /\ forwarders[c] # {} => c \in broken
      /\ \A i \in 1 .. read[c] : sent[c][i] \in Command => \E k \in 1 .. Len(ran[c]) : ran[c][k] = i

(* What a session owes its client, and the daemon its sessions.            *)
SessionInv == TypeOK /\ AnsweredOnce /\ ClosedAnswersAll /\ RunInOrder /\ StopsClean

(* Nothing is on its way to c.                                             *)
Settled(c) ==
  /\ session[c] = "open" /\ todo[c] = << >> /\ out[c] = << >> /\ c \notin gone \union broken
  /\ lane[c] = << >> /\ running[c] = Idle /\ forwarders[c] = {}
  /\ subscribed[c] /\ cursor[c] > snapshot

(* A subscriber that has been sent everything has been sent the newest     *)
(* snapshot, however far it fell behind and whenever it subscribed.        *)
NewestIsSent == \A c \in Client : Settled(c) => latest[c] = snapshot

(* What a patient client asks an open session is answered.  A session      *)
(* that closes on its own leaves out what it has not read, or could not    *)
(* parse, but never a command it is still running.                         *)
RequestsAnswered ==
  \A c \in Patient : \A i \in 1 .. MaxFrames :
    session[c] = "open" /\ Len(sent[c]) >= i /\ sent[c][i] # "blank"
      ~> \/ answers[c][i] = 1
         \/ session[c] # "open" /\ (read[c] < i \/ sent[c][i] = "malformed")
         \/ c \in gone \/ daemon = "returned"

(* A client that hangs up takes its session and its lane with it, even     *)
(* when it never read a message.                                           *)
HangUpEnds == \A c \in Client : c \in gone ~> LaneEnded(c) \/ daemon = "returned"
=============================================================================
