---------------------------- MODULE ObsClientTask ----------------------------
(***************************************************************************)
(* One OBS connection from the inside (obs/client.rs): the task that owns  *)
(* the WebSocket, the callers of ObsClient::request that share it, and     *)
(* OBS at the other end.                                                   *)
(*                                                                         *)
(* Callers reach the task over a channel of requests and a channel of      *)
(* cancellations, each is answered through a oneshot of its own, and the   *)
(* task passes events on over a channel that the event pump drains.  While *)
(* that channel is full the task waits, and takes neither answers nor      *)
(* requests.  A request is named by the caller that makes it, which stands *)
(* for its request id.  The first request is made by the handshake, before *)
(* there is an event pump.                                                 *)
(***************************************************************************)
EXTENDS Naturals, Sequences

CONSTANTS
  Caller,     \* those who make a request, one each
  Handshake,  \* the one among them that asks for the version during the handshake
  QueueDepth, \* capacity of the request and of the cancel channel
  EventDepth, \* capacity of the event channel
  MaxEvents   \* bound: events OBS emits

ASSUME HandshakeAssumption == Handshake \in Caller
ASSUME DepthAssumption ==
  QueueDepth \in Nat \ {0} /\ EventDepth \in Nat \ {0} /\ MaxEvents \in Nat

VARIABLES
  phase,    \* the handshake goes on, is complete, or has been given up
  held,     \* somebody other than a caller keeps an ObsClient
  caller,   \* where each call of request is
  result,   \* what it has returned
  reply,    \* its oneshot, as the client task left it
  requests, \* the request channel
  cancels,  \* the cancel channel
  task,     \* the client task: in its select, waiting to pass an event on, ended
  pending,  \* the requests it waits for an answer to
  events,   \* how many events the event channel holds
  link,     \* the WebSocket
  incoming, \* what OBS has sent and the task not read
  asked,    \* the requests OBS has received and not answered
  emitted,  \* how many events OBS has sent
  sent,     \* history: the requests written to the socket
  early     \* history: the requests cancelled before the task had them

calls == <<caller, result>>
channels == <<requests, cancels>>
obs == <<link, incoming, asked, emitted>>
history == <<sent, early>>
vars == <<phase, held, calls, reply, channels, task, pending, events, obs, history>>

None == [kind |-> "none", of |-> Handshake]
Answer(c) == [kind |-> "answer", of |-> c]
Refusal(c) == [kind |-> "refusal", of |-> c]         \* OBS answers that the request failed
ConnectionFailed == [kind |-> "failed", of |-> Handshake]
Unavailable == [kind |-> "unavailable", of |-> Handshake]
Timeout == [kind |-> "timeout", of |-> Handshake]
Outcome == [kind : {"none", "answer", "refusal", "failed", "unavailable", "timeout"}, of : Caller]
Event == [kind |-> "event", of |-> Handshake]

(* What each variable holds; no channel holds more than it has room for.   *)
TypeOK ==
  /\ phase \in {"handshake", "up", "failed"}
  /\ held \in BOOLEAN
  /\ caller \in [Caller -> {"idle", "sending", "waiting", "cancelling", "done"}]
  /\ result \in [Caller -> Outcome] /\ reply \in [Caller -> Outcome]
  /\ requests \in Seq(Caller) /\ Len(requests) <= QueueDepth
  /\ cancels \in Seq(Caller) /\ Len(cancels) <= QueueDepth
  /\ task \in {"select", "event", "ended"}
  /\ pending \in SUBSET Caller
  /\ events \in 0 .. EventDepth
  /\ link \in {"open", "lost"}
  /\ incoming \in Seq([kind : {"answer", "refusal", "event"}, of : Caller])
  /\ asked \in SUBSET Caller
  /\ emitted \in 0 .. MaxEvents
  /\ sent \in SUBSET Caller /\ early \in SUBSET Caller

Init ==
  /\ phase = "handshake"
  /\ held = TRUE
  /\ caller = [c \in Caller |-> "idle"]
  /\ result = [c \in Caller |-> None] /\ reply = [c \in Caller |-> None]
  /\ requests = << >> /\ cancels = << >>
  /\ task = "select"
  /\ pending = {}
  /\ events = 0
  /\ link = "open" /\ incoming = << >> /\ asked = {} /\ emitted = 0
  /\ sent = {} /\ early = {}

-----------------------------------------------------------------------------
(* ObsClient::request                                                      *)

Call(c) ==
  /\ caller[c] = "idle"
  /\ IF c = Handshake THEN phase = "handshake" ELSE phase = "up" /\ held
  /\ caller' = [caller EXCEPT ![c] = "sending"]
  /\ UNCHANGED <<phase, held, result, reply, channels, task, pending, events, obs, history>>

Returns(c, outcome) ==
  /\ caller' = [caller EXCEPT ![c] = "done"]
  /\ result' = [result EXCEPT ![c] = outcome]

(* The send into the request channel, which no timeout bounds.             *)
Enqueue(c) ==
  /\ caller[c] = "sending"
  /\ task # "ended" /\ Len(requests) < QueueDepth
  /\ requests' = Append(requests, c)
  /\ caller' = [caller EXCEPT ![c] = "waiting"]
  /\ UNCHANGED <<phase, held, result, reply, cancels, task, pending, events, obs, history>>

Refused(c) ==
  /\ caller[c] = "sending"
  /\ task = "ended"
  /\ Returns(c, Unavailable)
  /\ UNCHANGED <<phase, held, reply, channels, task, pending, events, obs, history>>

Replied(c) ==
  /\ caller[c] = "waiting"
  /\ reply[c] # None
  /\ Returns(c, reply[c])
  /\ UNCHANGED <<phase, held, reply, channels, task, pending, events, obs, history>>

(* request_timeout_ms have passed and the oneshot is empty.                *)
WaitsForEver(c) == FALSE  \* mutant
TimeIsUp(c) == caller[c] = "waiting" /\ reply[c] = None

TimesOut(c) ==
  /\ TimeIsUp(c)
  /\ caller' = [caller EXCEPT ![c] = "cancelling"]
  /\ UNCHANGED <<phase, held, result, reply, channels, task, pending, events, obs, history>>

(* The news of the timeout waits for room, unless the task is gone.        *)
Cancel(c) ==
  /\ caller[c] = "cancelling"
  /\ IF task = "ended"
     THEN UNCHANGED cancels
     ELSE Len(cancels) < QueueDepth /\ cancels' = Append(cancels, c)
  /\ Returns(c, Timeout)
  /\ UNCHANGED <<phase, held, reply, requests, task, pending, events, obs, history>>

-----------------------------------------------------------------------------
(* The client task                                                         *)

Queued(queue) == {queue[i] : i \in 1 .. Len(queue)}

(* The end of run_client_task, `failed` being those it has told that the   *)
(* connection failed: what is left in the channels is dropped, and with    *)
(* a request the sending half of its oneshot.                              *)
Ends(failed) ==
  /\ task' = "ended"
  /\ reply' = [c \in Caller |->
                 IF reply[c] # None THEN reply[c]
                 ELSE IF c \in failed THEN ConnectionFailed
                 ELSE IF c \in pending \union Queued(requests) THEN Unavailable
                 ELSE None]
  /\ requests' = << >> /\ cancels' = << >>
  /\ pending' = {}

Failed == pending  \* fail_all_pending

TakeRequest ==
  /\ task = "select" /\ requests # << >>
  /\ requests' = Tail(requests)
  /\ pending' = pending \union {Head(requests)}
  /\ sent' = sent \union {Head(requests)}
  /\ asked' = IF link = "open" THEN asked \union {Head(requests)} ELSE asked
  /\ UNCHANGED <<phase, held, calls, reply, cancels, task, events, link, incoming, emitted, early>>

(* The socket is gone and writing to it fails.                             *)
SendFails ==
  /\ task = "select" /\ requests # << >>
  /\ link = "lost"
  /\ Ends(Failed \union {Head(requests)})
  /\ UNCHANGED <<phase, held, calls, events, obs, history>>

Remembers(c) == pending  \* mutant
Forgets(c) == pending \ {c}

TakeCancel ==
  /\ task = "select" /\ cancels # << >>
  /\ cancels' = Tail(cancels)
  /\ pending' = Forgets(Head(cancels))
  /\ early' = IF Head(cancels) \in Queued(requests) THEN early \union {Head(cancels)} ELSE early
  /\ UNCHANGED <<phase, held, calls, reply, requests, task, events, obs, sent>>

(* dispatch_message: an answer goes to whoever waits for it, if anybody    *)
(* does; an event is passed on before anything else is looked at.          *)
FirstWaiting(m) == IF pending = {} THEN {} ELSE {CHOOSE c \in pending : TRUE}  \* mutant
AddressedTo(m) == {m.of} \intersect pending

TakeMessage ==
  /\ task = "select" /\ incoming # << >>
  /\ incoming' = Tail(incoming)
  /\ LET m == Head(incoming) IN
       IF m.kind = "event"
       THEN task' = "event" /\ UNCHANGED <<reply, pending>>
       ELSE /\ reply' = [c \in Caller |-> IF c \in AddressedTo(m) THEN m ELSE reply[c]]
            /\ pending' = pending \ AddressedTo(m)
            /\ UNCHANGED task
  /\ UNCHANGED <<phase, held, calls, channels, events, link, asked, emitted, history>>

(* dispatch_event: waits for room.  The channel of a handshake that was    *)
(* given up has nobody at its other end.                                   *)
StaysForRoom == events < EventDepth /\ events' = events + 1  \* mutant
SendEvent ==
  \/ phase = "failed" /\ UNCHANGED events
  \/ phase # "failed" /\ events < EventDepth /\ events' = events + 1

PassEventOn ==
  /\ task = "event"
  /\ SendEvent
  /\ task' = "select"
  /\ UNCHANGED <<phase, held, calls, reply, channels, pending, obs, history>>

StreamEnds ==
  /\ task = "select"
  /\ link = "lost" /\ incoming = << >>
  /\ Ends(Failed)
  /\ UNCHANGED <<phase, held, calls, events, obs, history>>

(* Every ObsClient is gone and every request has been taken.               *)
InUse == held \/ \E c \in Caller : caller[c] \in {"sending", "waiting", "cancelling"}

LastClientGone ==
  /\ task = "select" /\ requests = << >>
  /\ ~InUse
  /\ Ends({})
  /\ UNCHANGED <<phase, held, calls, events, obs, history>>

-----------------------------------------------------------------------------
(* The handshake, the owners of the client, the event pump                 *)

(* attempt_connect goes on to start the tasks, or returns the error.       *)
HandshakeEnds ==
  /\ phase = "handshake"
  /\ caller[Handshake] = "done"
  /\ IF result[Handshake] = Answer(Handshake)
     THEN phase' = "up" /\ UNCHANGED held
     ELSE phase' = "failed" /\ held' = FALSE
  /\ UNCHANGED <<calls, reply, channels, task, pending, events, obs, history>>

(* The connect timeout, or a shutdown, drops the handshake where it is.    *)
HandshakeDropped ==
  /\ phase = "handshake"
  /\ phase' = "failed"
  /\ held' = FALSE
  /\ caller' = [caller EXCEPT ![Handshake] = "done"]
  /\ UNCHANGED <<result, reply, channels, task, pending, events, obs, history>>

LetGo ==
  /\ phase = "up" /\ held
  /\ held' = FALSE
  /\ UNCHANGED <<phase, calls, reply, channels, task, pending, events, obs, history>>

PumpEvent ==
  /\ phase = "up" /\ events > 0
  /\ events' = events - 1
  /\ UNCHANGED <<phase, held, calls, reply, channels, task, pending, obs, history>>

-----------------------------------------------------------------------------
(* OBS                                                                     *)

(* OBS answers in any order, or never.  Whether it grants the request      *)
(* matters to the handshake only.                                          *)
Answers(c) == {Answer(c)} \union (IF c = Handshake THEN {Refusal(c)} ELSE {})

ObsAnswers(c) ==
  /\ link = "open" /\ c \in asked
  /\ asked' = asked \ {c}
  /\ \E m \in Answers(c) : incoming' = Append(incoming, m)
  /\ UNCHANGED <<phase, held, calls, reply, channels, task, pending, events, link, emitted, history>>

ObsEmits ==
  /\ link = "open" /\ emitted < MaxEvents
  /\ emitted' = emitted + 1
  /\ incoming' = Append(incoming, Event)
  /\ UNCHANGED <<phase, held, calls, reply, channels, task, pending, events, link, asked, history>>

(* The connection breaks, perhaps with what was on its way.                *)
LinkLost ==
  /\ link = "open"
  /\ link' = "lost"
  /\ asked' = {}
  /\ incoming' \in {incoming, << >>}
  /\ UNCHANGED <<phase, held, calls, reply, channels, task, pending, events, emitted, history>>

-----------------------------------------------------------------------------
CallerStep(c) == Enqueue(c) \/ Refused(c) \/ Replied(c) \/ TimesOut(c) \/ Cancel(c)

TaskStep ==
  TakeRequest \/ SendFails \/ TakeCancel \/ TakeMessage \/ PassEventOn \/ StreamEnds \/ LastClientGone

Next ==
  \/ \E c \in Caller : Call(c) \/ CallerStep(c) \/ ObsAnswers(c)
  \/ TaskStep
  \/ HandshakeEnds \/ HandshakeDropped \/ LetGo \/ PumpEvent
  \/ ObsEmits \/ LinkLost

(* Tasks run and time passes; the select takes its ready branches at       *)
(* random, and a channel serves those waiting for room in turn.  OBS may   *)
(* fall silent.                                                            *)
Fairness ==
  /\ \A c \in Caller : SF_vars(CallerStep(c))
  /\ WF_vars(TaskStep)
  /\ SF_vars(TakeRequest \/ SendFails) /\ SF_vars(TakeCancel) /\ SF_vars(TakeMessage)
  /\ WF_vars(HandshakeEnds) /\ WF_vars(PumpEvent)

Spec == Init /\ [][Next]_vars
FairSpec == Spec /\ Fairness

-----------------------------------------------------------------------------
(* Properties                                                              *)

(* A caller is given the answer to its own request and to no other,        *)
(* whatever the order OBS answers in and however late.                     *)
OwnAnswer ==
  \A c \in Caller : result[c].kind \in {"answer", "refusal"} => result[c].of = c /\ c \in sent

(* obs-unavailable means that the command did not reach OBS: a request     *)
(* that was written to the socket before the connection broke ends in a    *)
(* failed connection or in a timeout.                                      *)
UnavailableNeverSent ==
  \A c \in Caller : result[c] = Unavailable => c \notin sent

(* What a caller is told is true.                                          *)
AnswersAreTrue == OwnAnswer /\ UnavailableNeverSent

(* A request nobody waits for any more is forgotten as soon as its         *)
(* cancellation is taken, except when that overtook the request itself.    *)
AbandonedAreForgotten ==
  \A c \in pending :
    \/ caller[c] \in {"waiting", "cancelling"}
    \/ c \in Queued(cancels) \union early
    \/ phase = "failed"

(* The tables of the task: within their bounds and without leftovers.      *)
TableInv == TypeOK /\ AbandonedAreForgotten

(* Every call returns, with OBS silent, the event channel full, the        *)
(* connection lost or the handshake given up.                              *)
CallsReturn == \A c \in Caller : caller[c] = "sending" ~> caller[c] = "done"

(* When nobody keeps a client any more the task ends and closes the        *)
(* connection, also when it was waiting to pass an event on.               *)
UnusedCloses == ~held ~> task = "ended"
=============================================================================
