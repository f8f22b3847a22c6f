------------------------ MODULE ObsConnectionProofs ------------------------
(***************************************************************************)
(* TLAPS proofs about the connection to OBS, from the inside and from the  *)
(* outside.  ObsClientTask: who is given which answer, that a command      *)
(* reported as unavailable never reached OBS, and what the tables of the   *)
(* task may hold, for any callers and any capacity of the channels.        *)
(* Supervisor: what clients are told of the connection, the retries of a   *)
(* bounded policy, and that commands are given clients as ObsLink          *)
(* promises, for every set of connections, capacity of the channel and set *)
(* of reconnect settings.                                                  *)
(***************************************************************************)
EXTENDS ObsClientTask, Supervisor, SequenceTheorems, TLAPS

(* The parts of the type the argument needs.                               *)
Shape ==
  /\ caller \in [Caller -> {"idle", "sending", "waiting", "cancelling", "done"}]
  /\ result \in [Caller -> Outcome] /\ reply \in [Caller -> Outcome]
  /\ requests \in Seq(Caller)
  /\ pending \in SUBSET Caller
  /\ incoming \in Seq([kind : {"answer", "refusal", "event"}, of : Caller])

(* A request is in one place at a time: not yet queued, queued once, or    *)
(* written to the socket.                                                  *)
OnePlace ==
  /\ pending \subseteq sent
  /\ \A c \in Caller : caller[c] \in {"idle", "sending"} => c \notin sent \union Queued(requests)
  /\ \A i, j \in 1 .. Len(requests) : requests[i] = requests[j] => i = j
  /\ Queued(requests) \intersect sent = {}

(* What a caller has been told, or will be told next, is about its own     *)
(* request.  Nothing is written once unavailable has been said.            *)
ToldTruly ==
  \A c \in Caller :
    /\ reply[c].kind \in {"answer", "refusal"} => reply[c].of = c /\ c \in sent
    /\ reply[c] = Unavailable => task = "ended"
    /\ reply[c] = Unavailable /\ caller[c] = "waiting" => c \notin sent
    /\ result[c] = Unavailable => task = "ended"

AnswersInv == Shape /\ OnePlace /\ ToldTruly /\ OwnAnswer /\ UnavailableNeverSent

-----------------------------------------------------------------------------
USE DEF None, Answer, Refusal, ConnectionFailed, Unavailable, Timeout, Event, Outcome,
        calls, channels, obs, history

LEMMA InitAnswers == Init => AnswersInv
<1> SUFFICES ASSUME Init PROVE AnswersInv
  OBVIOUS
<1>1. Shape
  BY HandshakeAssumption, EmptySeq DEF HandshakeAssumption, Init, Shape
<1>2. OnePlace
  BY DEF Init, OnePlace, Queued
<1>3. ToldTruly /\ OwnAnswer /\ UnavailableNeverSent
  BY HandshakeAssumption DEF HandshakeAssumption, Init, ToldTruly, OwnAnswer, UnavailableNeverSent
<1> QED
  BY <1>1, <1>2, <1>3 DEF AnswersInv

(* What a caller does on its own keeps the invariant when it moves on from *)
(* its state and returns, if it returns, what it may.                      *)
LEMMA CallerMoves ==
  ASSUME AnswersInv, NEW c \in Caller,
         NEW to \in {"sending", "cancelling", "done"},
         caller' = [caller EXCEPT ![c] = to],
         to = "sending" => caller[c] = "idle",
         UNCHANGED <<result, reply, requests, pending, incoming, sent, task>>
  PROVE  AnswersInv'
<1>1. Shape'
  BY DEF AnswersInv, Shape
<1>2. OnePlace'
  BY DEF AnswersInv, Shape, OnePlace, Queued
<1>3. ToldTruly'
  BY DEF AnswersInv, Shape, ToldTruly
<1>4. OwnAnswer' /\ UnavailableNeverSent'
  BY DEF AnswersInv, OwnAnswer, UnavailableNeverSent
<1> QED
  BY <1>1, <1>2, <1>3, <1>4 DEF AnswersInv

LEMMA ReturnsTruly ==
  ASSUME AnswersInv, NEW c \in Caller, NEW outcome \in Outcome, Returns(c, outcome),
         outcome.kind \in {"answer", "refusal"} => outcome.of = c /\ c \in sent,
         outcome = Unavailable => c \notin sent /\ task = "ended",
         UNCHANGED <<reply, requests, pending, incoming, sent, task>>
  PROVE  AnswersInv'
<1>1. Shape'
  BY DEF AnswersInv, Shape, Returns
<1>2. OnePlace'
  BY DEF AnswersInv, Shape, OnePlace, Queued, Returns
<1>3. ToldTruly'
  BY DEF AnswersInv, Shape, ToldTruly, Returns
<1>4. OwnAnswer' /\ UnavailableNeverSent'
  BY DEF AnswersInv, Shape, OwnAnswer, UnavailableNeverSent, Returns
<1> QED
  BY <1>1, <1>2, <1>3, <1>4 DEF AnswersInv

LEMMA CallerStepAnswers ==
  ASSUME AnswersInv, NEW c \in Caller, Call(c) \/ CallerStep(c)
  PROVE  AnswersInv'
<1>0. Unavailable \in Outcome /\ Timeout \in Outcome
  BY HandshakeAssumption DEF HandshakeAssumption
<1>1. CASE Call(c)
  BY <1>1, CallerMoves DEF Call
<1>2. CASE Enqueue(c)
  <2>1. Shape'
    BY <1>2 DEF AnswersInv, Shape, Enqueue
  <2>2. /\ Len(requests') = Len(requests) + 1
        /\ \A i \in 1 .. Len(requests) : requests'[i] = requests[i]
        /\ requests'[Len(requests) + 1] = c
        /\ Len(requests) \in Nat
    BY <1>2 DEF AnswersInv, Shape, Enqueue
  <2>3. c \notin sent \union Queued(requests) /\ caller[c] = "sending"
    BY <1>2 DEF AnswersInv, OnePlace, Enqueue
  <2>4. Queued(requests)' = Queued(requests) \union {c}
    BY <2>2 DEF Queued
  <2>5. \A i, j \in 1 .. Len(requests') : requests'[i] = requests'[j] => i = j
    BY <2>2, <2>3 DEF AnswersInv, OnePlace, Queued
  <2>6. OnePlace'
    BY <1>2, <2>3, <2>4, <2>5 DEF AnswersInv, Shape, OnePlace, Enqueue
  <2>7. reply[c] # Unavailable \/ c \notin sent
    BY <2>3
  <2>8. ToldTruly'
    BY <1>2, <2>7 DEF AnswersInv, Shape, ToldTruly, Enqueue
  <2>9. OwnAnswer' /\ UnavailableNeverSent'
    BY <1>2 DEF AnswersInv, OwnAnswer, UnavailableNeverSent, Enqueue
  <2> QED
    BY <2>1, <2>6, <2>8, <2>9 DEF AnswersInv
<1>3. CASE Refused(c)
  <2>1. c \notin sent
    BY <1>3 DEF AnswersInv, OnePlace, Refused
  <2> QED
    BY <1>0, <1>3, <2>1, ReturnsTruly DEF Refused
<1>4. CASE Replied(c)
  <2>1. reply[c] \in Outcome
    BY DEF AnswersInv, Shape
  <2>2. reply[c].kind \in {"answer", "refusal"} => reply[c].of = c /\ c \in sent
    BY DEF AnswersInv, ToldTruly
  <2>3. reply[c] = Unavailable => c \notin sent /\ task = "ended"
    BY <1>4 DEF AnswersInv, ToldTruly, Replied
  <2> QED
    BY <1>4, <2>1, <2>2, <2>3, ReturnsTruly DEF Replied
<1>5. CASE TimesOut(c)
  BY <1>5, CallerMoves DEF TimesOut
<1>6. CASE Cancel(c)
  BY <1>0, <1>6, ReturnsTruly DEF Cancel
<1> QED
  BY <1>1, <1>2, <1>3, <1>4, <1>5, <1>6 DEF CallerStep

-----------------------------------------------------------------------------
(* The client task                                                         *)

(* The end of the task says unavailable to those it has not written, the   *)
(* pending ones being told that the connection failed, or to nobody that   *)
(* still listens.                                                          *)
LEMMA EndsTruly ==
  ASSUME AnswersInv, NEW failed, Ends(failed),
         \A c \in pending : c \in failed \/ caller[c] # "waiting",
         UNCHANGED <<caller, result, incoming, sent>>
  PROVE  AnswersInv'
<1>1. \A c \in Caller : ConnectionFailed \in Outcome /\ Unavailable \in Outcome /\ None \in Outcome
  BY HandshakeAssumption DEF HandshakeAssumption
<1>2. Shape'
  BY <1>1, EmptySeq DEF AnswersInv, Shape, Ends
<1>3. requests' = << >> /\ pending' = {} /\ task' = "ended"
  BY DEF Ends
<1>4. OnePlace'
  BY <1>3 DEF AnswersInv, OnePlace, Queued
<1>5. \A c \in Caller :
        \/ reply'[c] = reply[c]
        \/ reply'[c] = ConnectionFailed
        \/ reply'[c] = None
        \/ reply'[c] = Unavailable /\ (c \in Queued(requests) \/ caller[c] # "waiting")
  BY DEF Ends
<1>6. Queued(requests) \intersect sent = {}
  BY DEF AnswersInv, OnePlace
<1>7. ToldTruly'
  BY <1>3, <1>5, <1>6 DEF AnswersInv, ToldTruly
<1>8. OwnAnswer' /\ UnavailableNeverSent'
  BY DEF AnswersInv, OwnAnswer, UnavailableNeverSent
<1> QED
  BY <1>2, <1>4, <1>7, <1>8 DEF AnswersInv

(* The first in a queue without repetitions is not among the others.       *)
LEMMA HeadOfQueue ==
  ASSUME NEW q \in Seq(Caller), q # << >>,
         \A i, j \in 1 .. Len(q) : q[i] = q[j] => i = j
  PROVE  /\ Head(q) \in Queued(q)
         /\ Queued(Tail(q)) = Queued(q) \ {Head(q)}
         /\ \A i, j \in 1 .. Len(Tail(q)) : Tail(q)[i] = Tail(q)[j] => i = j
<1>1. /\ Len(q) \in Nat \ {0} /\ Len(Tail(q)) = Len(q) - 1 /\ Head(q) = q[1]
      /\ \A i \in 1 .. Len(q) - 1 : Tail(q)[i] = q[i + 1]
  BY EmptySeq, HeadTailProperties
<1>2. Head(q) \in Queued(q)
  BY <1>1 DEF Queued
<1>3. Queued(Tail(q)) \subseteq Queued(q) \ {Head(q)}
  BY <1>1 DEF Queued
<1>4. ASSUME NEW k \in 1 .. Len(q), k # 1
      PROVE  q[k] \in Queued(Tail(q))
  <2>1. k - 1 \in 1 .. Len(Tail(q)) /\ Tail(q)[k - 1] = q[k]
    BY <1>1, <1>4
  <2> QED
    BY <2>1 DEF Queued
<1>5. Queued(q) \ {Head(q)} \subseteq Queued(Tail(q))
  BY <1>1, <1>4 DEF Queued
<1>6. \A i, j \in 1 .. Len(Tail(q)) : Tail(q)[i] = Tail(q)[j] => i = j
  BY <1>1
<1> QED
  BY <1>2, <1>3, <1>5, <1>6

LEMMA TakeRequestAnswers == AnswersInv /\ TakeRequest => AnswersInv'
<1> SUFFICES ASSUME AnswersInv, TakeRequest PROVE AnswersInv'
  OBVIOUS
<1> DEFINE h == Head(requests)
<1>1. /\ h \in Queued(requests)
      /\ Queued(requests)' = Queued(requests) \ {h}
      /\ \A i, j \in 1 .. Len(requests') : requests'[i] = requests'[j] => i = j
  <2>1. requests \in Seq(Caller) /\ requests # << >> /\ requests' = Tail(requests)
    BY DEF AnswersInv, Shape, TakeRequest
  <2>2. \A i, j \in 1 .. Len(requests) : requests[i] = requests[j] => i = j
    BY DEF AnswersInv, OnePlace
  <2>3. Queued(requests)' = Queued(Tail(requests))
    BY <2>1 DEF Queued
  <2> QED
    BY <2>1, <2>2, <2>3, HeadOfQueue
<1>2. h \in Caller /\ requests' \in Seq(Caller)
  BY HeadTailProperties, EmptySeq DEF AnswersInv, Shape, TakeRequest
<1>3. caller[h] \notin {"idle", "sending"}
  BY <1>1, <1>2 DEF AnswersInv, OnePlace
<1>4. sent' = sent \union {h} /\ pending' = pending \union {h}
  BY DEF TakeRequest
<1>5. Shape'
  BY <1>2, <1>4 DEF AnswersInv, Shape, TakeRequest
<1>6. OnePlace'
  <2>1. \A c \in Caller : caller'[c] \in {"idle", "sending"} => c \notin sent' \union Queued(requests)'
    BY <1>1, <1>3, <1>4 DEF AnswersInv, OnePlace, TakeRequest
  <2>2. Queued(requests)' \intersect sent' = {} /\ pending' \subseteq sent'
    BY <1>1, <1>4 DEF AnswersInv, OnePlace
  <2> QED
    BY <1>1, <2>1, <2>2 DEF OnePlace
<1>7. ToldTruly' /\ OwnAnswer' /\ UnavailableNeverSent'
  BY <1>4 DEF AnswersInv, ToldTruly, OwnAnswer, UnavailableNeverSent, TakeRequest
<1> QED
  BY <1>5, <1>6, <1>7 DEF AnswersInv

LEMMA TakeMessageAnswers == AnswersInv /\ TakeMessage => AnswersInv'
<1> SUFFICES ASSUME AnswersInv, TakeMessage PROVE AnswersInv'
  OBVIOUS
<1> DEFINE m == Head(incoming)
<1>1. m \in [kind : {"answer", "refusal", "event"}, of : Caller] /\ incoming' = Tail(incoming)
  BY HeadTailProperties, EmptySeq DEF AnswersInv, Shape, TakeMessage
<1>2. incoming' \in Seq([kind : {"answer", "refusal", "event"}, of : Caller])
  BY <1>1, HeadTailProperties, EmptySeq DEF AnswersInv, Shape, TakeMessage
<1>3. \A c \in Caller : \/ reply'[c] = reply[c]
                        \/ reply'[c] = m /\ m.kind # "event" /\ m.of = c /\ c \in pending
  BY DEF TakeMessage, AddressedTo, AnswersInv, Shape
<1>4. pending' \subseteq pending
  BY DEF TakeMessage
<1>5. reply' \in [Caller -> Outcome]
  <2>1. CASE m.kind = "event"
    BY <2>1 DEF TakeMessage, AnswersInv, Shape
  <2>2. CASE m.kind # "event"
    <3>1. m \in Outcome
      BY <1>1, <2>2
    <3> QED
      BY <2>2, <3>1 DEF TakeMessage, AnswersInv, Shape
  <2> QED
    BY <2>1, <2>2
<1>6. Shape'
  BY <1>2, <1>4, <1>5 DEF AnswersInv, Shape, TakeMessage
<1>7. OnePlace'
  BY <1>4 DEF AnswersInv, OnePlace, Queued, TakeMessage
<1>8. ToldTruly'
  <2>1. task # "ended" /\ UNCHANGED <<caller, result, sent>>
    BY DEF TakeMessage
  <2>2. pending \subseteq sent
    BY DEF AnswersInv, OnePlace
  <2>3. m # Unavailable
    BY <1>1
  <2>4. \A c \in Caller : reply[c] # Unavailable /\ result[c] # Unavailable
    BY <2>1 DEF AnswersInv, ToldTruly
  <2> QED
    BY <1>3, <2>1, <2>2, <2>3, <2>4 DEF AnswersInv, ToldTruly
<1>9. OwnAnswer' /\ UnavailableNeverSent'
  BY DEF AnswersInv, OwnAnswer, UnavailableNeverSent, TakeMessage
<1> QED
  BY <1>6, <1>7, <1>8, <1>9 DEF AnswersInv

(* Steps that change nothing but what the task is about, or take requests  *)
(* off the pending table, or calls out of the world.                       *)
LEMMA Bystander ==
  ASSUME AnswersInv, UNCHANGED <<result, reply, requests, sent>>,
         pending' \subseteq pending,
         incoming' \in Seq([kind : {"answer", "refusal", "event"}, of : Caller]),
         \/ caller' = caller
         \/ caller' = [caller EXCEPT ![Handshake] = "done"],
         task = "ended" => task' = "ended"
  PROVE  AnswersInv'
<1>1. Shape'
  BY DEF AnswersInv, Shape
<1>2. \A c \in Caller : caller'[c] = caller[c] \/ caller'[c] = "done"
  BY DEF AnswersInv, Shape
<1>3. OnePlace'
  BY <1>2 DEF AnswersInv, OnePlace, Queued
<1>4. ToldTruly' /\ OwnAnswer' /\ UnavailableNeverSent'
  BY <1>2 DEF AnswersInv, ToldTruly, OwnAnswer, UnavailableNeverSent
<1> QED
  BY <1>1, <1>3, <1>4 DEF AnswersInv

LEMMA TaskStepAnswers == AnswersInv /\ TaskStep => AnswersInv'
<1> SUFFICES ASSUME AnswersInv, TaskStep PROVE AnswersInv'
  OBVIOUS
<1>0. incoming \in Seq([kind : {"answer", "refusal", "event"}, of : Caller])
  BY DEF AnswersInv, Shape
<1>1. CASE TakeRequest
  BY <1>1, TakeRequestAnswers
<1>2. CASE SendFails
  BY <1>2, EndsTruly DEF SendFails, Failed
<1>3. CASE TakeCancel
  BY <1>0, <1>3, Bystander DEF TakeCancel, Forgets
<1>4. CASE TakeMessage
  BY <1>4, TakeMessageAnswers
<1>5. CASE PassEventOn
  BY <1>0, <1>5, Bystander DEF PassEventOn
<1>6. CASE StreamEnds
  BY <1>6, EndsTruly DEF StreamEnds, Failed
<1>7. CASE LastClientGone
  <2>1. \A c \in pending : caller[c] # "waiting"
    BY <1>7 DEF LastClientGone, InUse, AnswersInv, Shape
  <2> QED
    BY <1>7, <2>1, EndsTruly DEF LastClientGone
<1> QED
  BY <1>1, <1>2, <1>3, <1>4, <1>5, <1>6, <1>7 DEF TaskStep

LEMMA NextAnswers == AnswersInv /\ [Next]_vars => AnswersInv'
<1> SUFFICES ASSUME AnswersInv, [Next]_vars PROVE AnswersInv'
  OBVIOUS
<1>0. incoming \in Seq([kind : {"answer", "refusal", "event"}, of : Caller])
  BY DEF AnswersInv, Shape
<1>1. ASSUME NEW c \in Caller, Call(c) \/ CallerStep(c) PROVE AnswersInv'
  BY <1>1, CallerStepAnswers
<1>2. CASE TaskStep
  BY <1>2, TaskStepAnswers
<1>3. CASE HandshakeEnds \/ HandshakeDropped \/ LetGo \/ PumpEvent
  BY <1>0, <1>3, Bystander DEF HandshakeEnds, HandshakeDropped, LetGo, PumpEvent
<1>4. ASSUME NEW c \in Caller, ObsAnswers(c) PROVE AnswersInv'
  <2>1. \A msg \in Answers(c) : msg \in [kind : {"answer", "refusal", "event"}, of : Caller]
    BY DEF Answers
  <2>2. incoming' \in Seq([kind : {"answer", "refusal", "event"}, of : Caller])
    BY <1>0, <1>4, <2>1 DEF ObsAnswers
  <2> QED
    BY <1>4, <2>2, Bystander DEF ObsAnswers
<1>5. CASE ObsEmits
  <2>1. Event \in [kind : {"answer", "refusal", "event"}, of : Caller]
    BY HandshakeAssumption DEF HandshakeAssumption
  <2>2. incoming' \in Seq([kind : {"answer", "refusal", "event"}, of : Caller])
    BY <1>0, <1>5, <2>1 DEF ObsEmits
  <2> QED
    BY <1>5, <2>2, Bystander DEF ObsEmits
<1>6. CASE LinkLost
  <2>1. incoming' \in Seq([kind : {"answer", "refusal", "event"}, of : Caller])
    BY <1>0, <1>6, EmptySeq DEF LinkLost
  <2> QED
    BY <1>6, <2>1, Bystander DEF LinkLost
<1>7. CASE UNCHANGED vars
  BY <1>0, <1>7, Bystander DEF vars
<1> QED
  BY <1>1, <1>2, <1>3, <1>4, <1>5, <1>6, <1>7 DEF Next

(* Every answer reaches the caller of its own request (dispatch_message),  *)
(* in whatever order OBS answers and requests are cancelled.               *)
THEOREM AnswersAreOwn == Spec => []OwnAnswer
<1>1. AnswersInv => OwnAnswer
  BY DEF AnswersInv
<1> QED
  BY InitAnswers, NextAnswers, <1>1, PTL DEF Spec

(* A caller told that OBS is unavailable (ObsClient::request) may rely on  *)
(* its command not having been sent.                                       *)
THEOREM UnavailableIsUnsent == Spec => []UnavailableNeverSent
<1>1. AnswersInv => UnavailableNeverSent
  BY DEF AnswersInv
<1> QED
  BY InitAnswers, NextAnswers, <1>1, PTL DEF Spec

(* Both: what request returns is true of what was sent and answered.       *)
THEOREM CallersAreToldTheTruth == Spec => []AnswersAreTrue
<1> QED
  BY AnswersAreOwn, UnavailableIsUnsent, PTL DEF AnswersAreTrue

-----------------------------------------------------------------------------
(* The tables of the task                                                  *)

InHand == pending \union Queued(requests)

(* Whoever the task still holds a request of waits for it, or has its      *)
(* cancellation on the way, or had it overtake the request.                *)
Abandoned(c) == caller[c] \notin {"waiting", "cancelling"}
Awaited ==
  \A c \in InHand : Abandoned(c) => c \in Queued(cancels) \union early \/ phase = "failed"

(* A request that has its reply is out of the task's hands, and so is all  *)
(* it held once it has ended.                                              *)
HandedOver ==
  /\ \A c \in InHand : reply[c] = None
  /\ task = "ended" => InHand = {}

(* Nobody is replied to before it has asked.                               *)
Unasked(c) == caller[c] \in {"idle", "sending"}
Unanswered == \A c \in Caller : Unasked(c) => reply[c] = None

TablesInv == TypeOK /\ Awaited /\ HandedOver /\ Unanswered

LEMMA InitTables == Init => TablesInv
<1> SUFFICES ASSUME Init PROVE TablesInv
  OBVIOUS
<1>1. Queued(requests) = {}
  BY DEF Init, Queued
<1>2. TypeOK
  BY HandshakeAssumption, DepthAssumption, EmptySeq
  DEF HandshakeAssumption, DepthAssumption, Init, TypeOK
<1> QED
  BY <1>1, <1>2 DEF Init, TablesInv, Awaited, HandedOver, Unanswered, InHand

(* A channel with room takes one more, and is within its bounds after      *)
(* losing its first.                                                       *)
LEMMA Room ==
  ASSUME NEW S, NEW q \in Seq(S), NEW n \in Nat, Len(q) <= n
  PROVE  /\ \A e \in S : Len(q) < n => Append(q, e) \in Seq(S) /\ Len(Append(q, e)) <= n
         /\ q # << >> => Head(q) \in S /\ Tail(q) \in Seq(S) /\ Len(Tail(q)) <= n
         /\ << >> \in Seq(S) /\ Len(<< >>) <= n
<1>1. Len(q) \in Nat
  OBVIOUS
<1>2. ASSUME NEW e \in S, Len(q) < n
      PROVE  Append(q, e) \in Seq(S) /\ Len(Append(q, e)) <= n
  BY <1>1, <1>2, AppendProperties
<1>3. ASSUME q # << >>
      PROVE  Head(q) \in S /\ Tail(q) \in Seq(S) /\ Len(Tail(q)) <= n
  BY <1>1, <1>3, HeadTailProperties
<1>4. << >> \in Seq(S) /\ Len(<< >>) <= n
  BY EmptySeq
<1> QED
  BY <1>2, <1>3, <1>4

LEMMA CallerTypes ==
  ASSUME TypeOK, NEW c \in Caller, Call(c) \/ CallerStep(c)
  PROVE  TypeOK'
<1> USE HandshakeAssumption, DepthAssumption DEF HandshakeAssumption, DepthAssumption
<1>1. CASE Call(c)
  BY <1>1 DEF TypeOK, Call
<1>2. CASE Enqueue(c)
  <2>1. requests' \in Seq(Caller) /\ Len(requests') <= QueueDepth
    BY <1>2, Room DEF TypeOK, Enqueue
  <2> QED
    BY <1>2, <2>1 DEF TypeOK, Enqueue
<1>3. CASE Refused(c)
  BY <1>3 DEF TypeOK, Refused, Returns
<1>4. CASE Replied(c)
  BY <1>4 DEF TypeOK, Replied, Returns
<1>5. CASE TimesOut(c)
  BY <1>5 DEF TypeOK, TimesOut
<1>6. CASE Cancel(c)
  <2>1. \/ cancels' = cancels
        \/ Len(cancels) < QueueDepth /\ cancels' = Append(cancels, c)
    BY <1>6 DEF Cancel
  <2>2. cancels \in Seq(Caller) /\ QueueDepth \in Nat /\ Len(cancels) <= QueueDepth
    BY DEF TypeOK
  <2>3. Len(cancels) < QueueDepth
        => Append(cancels, c) \in Seq(Caller) /\ Len(Append(cancels, c)) <= QueueDepth
    BY <2>2, Room
  <2>4. cancels' \in Seq(Caller) /\ Len(cancels') <= QueueDepth
    BY <2>1, <2>2, <2>3
  <2> QED
    BY <1>6, <2>4 DEF TypeOK, Cancel, Returns
<1> QED
  BY <1>1, <1>2, <1>3, <1>4, <1>5, <1>6 DEF CallerStep

LEMMA EndsTypes ==
  ASSUME TypeOK, NEW failed, Ends(failed),
         UNCHANGED <<phase, held, calls, events, obs, history>>
  PROVE  TypeOK'
<1>1. reply' \in [Caller -> Outcome]
  BY HandshakeAssumption DEF HandshakeAssumption, TypeOK, Ends
<1>2. << >> \in Seq(Caller) /\ Len(<< >>) <= QueueDepth
  BY EmptySeq, DepthAssumption DEF DepthAssumption
<1> QED
  BY <1>1, <1>2 DEF TypeOK, Ends

LEMMA TaskTypes == TypeOK /\ TaskStep => TypeOK'
<1> SUFFICES ASSUME TypeOK, TaskStep PROVE TypeOK'
  OBVIOUS
<1> USE HandshakeAssumption, DepthAssumption DEF HandshakeAssumption, DepthAssumption
<1>1. CASE TakeRequest
  <2>1. Head(requests) \in Caller /\ Tail(requests) \in Seq(Caller) /\ Len(Tail(requests)) <= QueueDepth
    BY <1>1, Room DEF TypeOK, TakeRequest
  <2> QED
    BY <1>1, <2>1 DEF TypeOK, TakeRequest
<1>2. CASE SendFails
  BY <1>2, EndsTypes DEF SendFails
<1>3. CASE TakeCancel
  <2>1. Head(cancels) \in Caller /\ Tail(cancels) \in Seq(Caller) /\ Len(Tail(cancels)) <= QueueDepth
    BY <1>3, Room DEF TypeOK, TakeCancel
  <2> QED
    BY <1>3, <2>1 DEF TypeOK, TakeCancel, Forgets
<1>4. CASE TakeMessage
  <2> DEFINE m == Head(incoming)
  <2>1. /\ m \in [kind : {"answer", "refusal", "event"}, of : Caller]
        /\ Tail(incoming) \in Seq([kind : {"answer", "refusal", "event"}, of : Caller])
    BY <1>4, HeadTailProperties DEF TypeOK, TakeMessage
  <2>2. m.kind # "event" => m \in Outcome
    BY <2>1
  <2>3. CASE m.kind = "event"
    BY <1>4, <2>1, <2>3 DEF TypeOK, TakeMessage
  <2>4. CASE m.kind # "event"
    <3>1. reply' \in [Caller -> Outcome]
      BY <1>4, <2>2, <2>4 DEF TypeOK, TakeMessage
    <3> QED
      BY <1>4, <2>1, <2>4, <3>1 DEF TypeOK, TakeMessage
  <2> QED
    BY <2>3, <2>4
<1>5. CASE PassEventOn
  BY <1>5 DEF TypeOK, PassEventOn, SendEvent
<1>6. CASE StreamEnds
  BY <1>6, EndsTypes DEF StreamEnds
<1>7. CASE LastClientGone
  BY <1>7, EndsTypes DEF LastClientGone
<1> QED
  BY <1>1, <1>2, <1>3, <1>4, <1>5, <1>6, <1>7 DEF TaskStep

LEMMA NextTypes == TypeOK /\ [Next]_vars => TypeOK'
<1> SUFFICES ASSUME TypeOK, [Next]_vars PROVE TypeOK'
  OBVIOUS
<1> USE HandshakeAssumption, DepthAssumption DEF HandshakeAssumption, DepthAssumption
<1> DEFINE Sent == [kind : {"answer", "refusal", "event"}, of : Caller]
<1>1. ASSUME NEW c \in Caller, Call(c) \/ CallerStep(c) PROVE TypeOK'
  BY <1>1, CallerTypes
<1>2. CASE TaskStep
  BY <1>2, TaskTypes
<1>3. CASE HandshakeEnds \/ HandshakeDropped \/ LetGo
  BY <1>3 DEF TypeOK, HandshakeEnds, HandshakeDropped, LetGo
<1>4. CASE PumpEvent
  BY <1>4 DEF TypeOK, PumpEvent
<1>5. ASSUME NEW c \in Caller, ObsAnswers(c) PROVE TypeOK'
  <2>1. \A msg \in Answers(c) : msg \in Sent
    BY DEF Answers
  <2>2. incoming' \in Seq(Sent)
    BY <1>5, <2>1 DEF TypeOK, ObsAnswers
  <2> QED
    BY <1>5, <2>2 DEF TypeOK, ObsAnswers
<1>6. CASE ObsEmits
  <2>1. incoming' \in Seq(Sent)
    BY <1>6 DEF TypeOK, ObsEmits
  <2> QED
    BY <1>6, <2>1 DEF TypeOK, ObsEmits
<1>7. CASE LinkLost
  <2>1. incoming' \in Seq(Sent)
    BY <1>7, EmptySeq DEF TypeOK, LinkLost
  <2> QED
    BY <1>7, <2>1 DEF TypeOK, LinkLost
<1>8. CASE UNCHANGED vars
  BY <1>8 DEF TypeOK, vars
<1> QED
  BY <1>1, <1>2, <1>3, <1>4, <1>5, <1>6, <1>7, <1>8 DEF Next

(* A step after which the task holds no request it did not hold before,    *)
(* and which neither replies to one nor lets go of a cancellation.         *)
LEMMA NothingNewInHand ==
  ASSUME Awaited, HandedOver, InHand' \subseteq InHand,
         \A c \in InHand' :
            /\ reply'[c] = reply[c]
            /\ Abandoned(c)' => Abandoned(c) \/ c \in Queued(cancels)' \/ phase' = "failed"
            /\ c \in Queued(cancels) \union early => c \in Queued(cancels)' \union early',
         phase = "failed" => phase' = "failed",
         task' = "ended" => task = "ended" \/ InHand' = {}
  PROVE  Awaited' /\ HandedOver'
<1>1. Awaited'
  BY DEF Awaited
<1>2. HandedOver'
  BY DEF HandedOver
<1> QED
  BY <1>1, <1>2

LEMMA CallerTables ==
  ASSUME AnswersInv, TablesInv, NEW c \in Caller, Call(c) \/ CallerStep(c)
  PROVE  Awaited' /\ HandedOver'
<1>1. caller \in [Caller -> {"idle", "sending", "waiting", "cancelling", "done"}] /\ requests \in Seq(Caller)
  BY DEF TablesInv, TypeOK
<1>2. Awaited /\ HandedOver
  BY DEF TablesInv
<1>3. \A d \in Caller : caller[d] \in {"idle", "sending"} => d \notin InHand
  BY DEF AnswersInv, OnePlace, InHand
<1>4. CASE Call(c)
  <2>1. InHand' = InHand /\ c \notin InHand
    BY <1>3, <1>4 DEF Call, InHand, Queued
  <2>2. \A d \in InHand : caller'[d] = caller[d]
    BY <1>1, <1>4, <2>1 DEF Call
  <2> QED
    BY <1>2, <1>4, <2>1, <2>2, NothingNewInHand DEF Call, Abandoned
<1>5. CASE Enqueue(c)
  <2>1. c \notin InHand /\ caller[c] = "sending" /\ task # "ended"
    BY <1>3, <1>5 DEF Enqueue
  <2>2. Queued(requests)' = Queued(requests) \union {c}
    <3>1. /\ Len(requests') = Len(requests) + 1 /\ requests'[Len(requests) + 1] = c
          /\ \A i \in 1 .. Len(requests) : requests'[i] = requests[i]
          /\ Len(requests) \in Nat
      BY <1>1, <1>5, AppendProperties DEF Enqueue
    <3> QED
      BY <3>1 DEF Queued
  <2>3. InHand' = InHand \union {c}
    BY <1>5, <2>2 DEF Enqueue, InHand
  <2>4. reply[c] = None
    BY <1>5, <2>1 DEF TablesInv, Unanswered, Unasked
  <2> QED
    BY <1>1, <1>2, <1>5, <2>1, <2>3, <2>4 DEF Enqueue, Awaited, HandedOver, Abandoned
<1>6. CASE Refused(c)
  <2>1. InHand' = InHand /\ c \notin InHand
    BY <1>3, <1>6 DEF Refused, InHand, Queued
  <2>2. \A d \in InHand : caller'[d] = caller[d]
    BY <1>1, <1>6, <2>1 DEF Refused, Returns
  <2> QED
    BY <1>2, <1>6, <2>1, <2>2, NothingNewInHand DEF Refused, Abandoned
<1>7. CASE Replied(c)
  <2>1. InHand' = InHand /\ c \notin InHand
    BY <1>2, <1>7 DEF Replied, InHand, Queued, HandedOver
  <2>2. \A d \in InHand : caller'[d] = caller[d]
    BY <1>1, <1>7, <2>1 DEF Replied, Returns
  <2> QED
    BY <1>2, <1>7, <2>1, <2>2, NothingNewInHand DEF Replied, Abandoned
<1>8. CASE TimesOut(c)
  <2>1. InHand' = InHand
    BY <1>8 DEF TimesOut, InHand, Queued
  <2>2. \A d \in Caller : caller'[d] = caller[d] \/ caller'[d] = "cancelling"
    BY <1>1, <1>8 DEF TimesOut
  <2>3. InHand \subseteq Caller
    BY <1>1 DEF TablesInv, TypeOK, InHand, Queued
  <2> QED
    BY <1>2, <1>8, <2>1, <2>2, <2>3, NothingNewInHand DEF TimesOut, Abandoned
<1>9. CASE Cancel(c)
  <2>1. InHand' = InHand
    BY <1>9 DEF Cancel, InHand, Queued
  <2>2. CASE task = "ended"
    BY <1>2, <1>9, <2>1, <2>2 DEF Cancel, Awaited, HandedOver
  <2>3. CASE task # "ended"
    <3>1. c \in Queued(cancels)' /\ Queued(cancels) \subseteq Queued(cancels)'
      <4>1. cancels \in Seq(Caller) /\ cancels' = Append(cancels, c)
        BY <1>9, <2>3 DEF Cancel, TablesInv, TypeOK
      <4>2. /\ Len(cancels') = Len(cancels) + 1 /\ cancels'[Len(cancels) + 1] = c
            /\ \A i \in 1 .. Len(cancels) : cancels'[i] = cancels[i]
            /\ Len(cancels) \in Nat
        BY <4>1, AppendProperties
      <4> QED
        BY <4>2 DEF Queued
    <3>2. \A d \in Caller : d # c => caller'[d] = caller[d]
      BY <1>1, <1>9 DEF Cancel, Returns
    <3>3. InHand \subseteq Caller
      BY <1>1 DEF TablesInv, TypeOK, InHand, Queued
    <3> QED
      BY <1>2, <1>9, <2>1, <3>1, <3>2, <3>3, NothingNewInHand DEF Cancel, Abandoned
  <2> QED
    BY <2>2, <2>3
<1> QED
  BY <1>4, <1>5, <1>6, <1>7, <1>8, <1>9 DEF CallerStep

LEMMA UnansweredKept ==
  ASSUME AnswersInv, TablesInv, [Next]_vars
  PROVE  Unanswered'
<1>1. caller \in [Caller -> {"idle", "sending", "waiting", "cancelling", "done"}]
  BY DEF TablesInv, TypeOK
<1>2. \A c \in Caller : Unasked(c) => c \notin InHand /\ reply[c] = None
  BY DEF AnswersInv, OnePlace, TablesInv, Unanswered, Unasked, InHand
<1>3. ASSUME NEW failed, failed \subseteq InHand, Ends(failed), caller' = caller
      PROVE  Unanswered'
  BY <1>2, <1>3 DEF Ends, Unanswered, Unasked, InHand
<1>4. ASSUME NEW c \in Caller, Call(c) \/ CallerStep(c) PROVE Unanswered'
  BY <1>1, <1>2, <1>4
  DEF Unanswered, Unasked, Call, CallerStep, Enqueue, Refused, Replied, TimesOut, Cancel, Returns
<1>5. CASE TakeRequest \/ TakeCancel \/ PassEventOn
  BY <1>2, <1>5 DEF Unanswered, Unasked, TakeRequest, TakeCancel, PassEventOn
<1>6. CASE TakeMessage
  <2>1. \A c \in Caller : c \notin InHand => reply'[c] = reply[c]
    BY <1>6 DEF TakeMessage, AddressedTo, InHand, TablesInv, TypeOK
  <2> QED
    BY <1>2, <1>6, <2>1 DEF TakeMessage, Unanswered, Unasked
<1>7. CASE SendFails
  <2>1. Head(requests) \in Queued(requests)
    BY <1>7, HeadTailProperties DEF SendFails, Queued, TablesInv, TypeOK
  <2> QED
    BY <1>3, <1>7, <2>1 DEF SendFails, Failed, InHand
<1>8. CASE StreamEnds \/ LastClientGone
  BY <1>3, <1>8 DEF StreamEnds, LastClientGone, Failed, InHand
<1>9. CASE \/ HandshakeEnds \/ HandshakeDropped \/ LetGo \/ PumpEvent \/ ObsEmits \/ LinkLost
           \/ \E c \in Caller : ObsAnswers(c)
           \/ UNCHANGED vars
  BY <1>1, <1>2, <1>9
  DEF Unanswered, Unasked, HandshakeEnds, HandshakeDropped, LetGo, PumpEvent, ObsEmits, LinkLost,
      ObsAnswers, vars
<1> QED
  BY <1>4, <1>5, <1>6, <1>7, <1>8, <1>9 DEF Next, TaskStep

LEMMA TaskTables ==
  ASSUME AnswersInv, TablesInv, TaskStep
  PROVE  Awaited' /\ HandedOver'
<1>1. /\ requests \in Seq(Caller) /\ cancels \in Seq(Caller)
      /\ reply \in [Caller -> Outcome] /\ pending \subseteq Caller
  BY DEF TablesInv, TypeOK
<1>2. Awaited /\ HandedOver
  BY DEF TablesInv
<1>3. ASSUME NEW failed, Ends(failed), phase' = phase PROVE Awaited' /\ HandedOver'
  <2>1. InHand' = {}
    BY <1>3 DEF Ends, InHand, Queued
  <2> QED
    BY <2>1 DEF Awaited, HandedOver
<1>4. CASE TakeRequest
  <2>1. Head(requests) \in Queued(requests) /\ Queued(requests)' = Queued(requests) \ {Head(requests)}
    <3>1. \A i, j \in 1 .. Len(requests) : requests[i] = requests[j] => i = j
      BY DEF AnswersInv, OnePlace
    <3>2. Queued(requests)' = Queued(Tail(requests))
      BY <1>4 DEF TakeRequest, Queued
    <3> QED
      BY <1>1, <1>4, <3>1, <3>2, HeadOfQueue DEF TakeRequest
  <2>2. InHand' = InHand
    BY <1>4, <2>1 DEF TakeRequest, InHand
  <2> QED
    BY <1>2, <1>4, <2>2 DEF TakeRequest, Awaited, HandedOver, Abandoned, Queued
<1>5. CASE SendFails \/ StreamEnds \/ LastClientGone
  BY <1>3, <1>5 DEF SendFails, StreamEnds, LastClientGone
<1>6. CASE TakeCancel
  <2> DEFINE h == Head(cancels)
  <2>1. Queued(cancels) \subseteq Queued(cancels)' \union {h}
    <3>1. /\ Len(cancels') = Len(cancels) - 1 /\ h = cancels[1] /\ Len(cancels) \in Nat
          /\ \A i \in 1 .. Len(cancels) - 1 : cancels'[i] = cancels[i + 1]
      BY <1>1, <1>6, HeadTailProperties DEF TakeCancel
    <3>2. ASSUME NEW k \in 1 .. Len(cancels), k # 1 PROVE cancels[k] \in Queued(cancels)'
      <4>1. k - 1 \in 1 .. Len(cancels') /\ cancels'[k - 1] = cancels[k]
        BY <3>1, <3>2
      <4> QED
        BY <4>1 DEF Queued
    <3> QED
      BY <3>1, <3>2 DEF Queued
  <2>2. InHand' \subseteq InHand /\ h \notin pending'
    BY <1>6 DEF TakeCancel, Forgets, InHand, Queued
  <2>3. \A c \in InHand' : c \in Queued(cancels) \union early => c \in Queued(cancels)' \union early'
    <3>1. h \in InHand' => h \in early'
      BY <1>6, <2>2 DEF TakeCancel, InHand, Queued
    <3> QED
      BY <1>6, <2>1, <3>1 DEF TakeCancel
  <2> QED
    BY <1>2, <1>6, <2>2, <2>3, NothingNewInHand DEF TakeCancel, Abandoned
<1>7. CASE TakeMessage
  <2>1. pending \intersect Queued(requests) = {}
    BY DEF AnswersInv, OnePlace
  <2>2. InHand' \subseteq InHand /\ \A c \in InHand' : reply'[c] = reply[c]
    <3>1. CASE Head(incoming).kind = "event"
      BY <1>7, <3>1 DEF TakeMessage, InHand, Queued
    <3>2. CASE Head(incoming).kind # "event"
      <4>1. /\ \A c \in Caller : c \notin AddressedTo(Head(incoming)) => reply'[c] = reply[c]
            /\ pending' = pending \ AddressedTo(Head(incoming))
        BY <1>7, <3>2 DEF TakeMessage
      <4>2. AddressedTo(Head(incoming)) \subseteq pending
        BY DEF AddressedTo
      <4>3. Queued(requests)' = Queued(requests) /\ InHand \subseteq Caller
        BY <1>1, <1>7 DEF TakeMessage, Queued, InHand
      <4> QED
        BY <2>1, <4>1, <4>2, <4>3 DEF InHand
    <3> QED
      BY <3>1, <3>2
  <2>3. task' # "ended"
    BY <1>7 DEF TakeMessage
  <2> QED
    BY <1>2, <1>7, <2>2, <2>3, NothingNewInHand DEF TakeMessage, Abandoned, Queued
<1>8. CASE PassEventOn
  BY <1>2, <1>8 DEF PassEventOn, Awaited, HandedOver, InHand, Abandoned, Queued
<1> QED
  BY <1>4, <1>5, <1>6, <1>7, <1>8 DEF TaskStep

LEMMA NextTables == AnswersInv /\ TablesInv /\ [Next]_vars => TablesInv'
<1> SUFFICES ASSUME AnswersInv, TablesInv, [Next]_vars PROVE TablesInv'
  OBVIOUS
<1> SUFFICES Awaited' /\ HandedOver'
  BY NextTypes, UnansweredKept DEF TablesInv
<1>2. Awaited /\ HandedOver
  BY DEF TablesInv
<1>3. ASSUME NEW c \in Caller, Call(c) \/ CallerStep(c) PROVE Awaited' /\ HandedOver'
  BY <1>3, CallerTables
<1>4. CASE TaskStep
  BY <1>4, TaskTables
<1>5. CASE HandshakeEnds
  <2>1. phase # "failed"
    BY <1>5 DEF HandshakeEnds
  <2> QED
    BY <1>2, <1>5, <2>1 DEF HandshakeEnds, Awaited, HandedOver, InHand, Abandoned, Queued
<1>6. CASE HandshakeDropped
  BY <1>2, <1>6 DEF HandshakeDropped, Awaited, HandedOver, InHand, Abandoned, Queued
<1>7. CASE \/ LetGo \/ PumpEvent \/ ObsEmits \/ LinkLost \/ UNCHANGED vars
           \/ \E c \in Caller : ObsAnswers(c)
  BY <1>2, <1>7
  DEF LetGo, PumpEvent, ObsEmits, LinkLost, ObsAnswers, vars, Awaited, HandedOver, InHand, Abandoned, Queued
<1> QED
  BY <1>3, <1>4, <1>5, <1>6, <1>7 DEF Next

(* The tables of the client task stay within the room their channels have, *)
(* and a request nobody waits for any more is dropped from them with its   *)
(* cancellation (run_client_task), unless that overtook it.                *)
THEOREM TablesStayClean == Spec => []TableInv
<1>1. Init => AnswersInv /\ TablesInv
  BY InitAnswers, InitTables
<1>2. AnswersInv /\ TablesInv /\ [Next]_vars => (AnswersInv /\ TablesInv)'
  BY NextAnswers, NextTables
<1>3. TablesInv => TableInv
  BY DEF TablesInv, TableInv, Awaited, AbandonedAreForgotten, InHand, Abandoned
<1> QED
  BY <1>1, <1>2, <1>3, PTL DEF Spec

-----------------------------------------------------------------------------
(* Supervisor                                                              *)

USE DEF Stage, Reason, Error

(* The type invariant in two parts, for the provers.                       *)
PolicyType == [attempts : 0 .. MaxAttempts, backoff_topped_out : BOOLEAN]
SnapType == [connected : BOOLEAN, last_error : Error]

Shapes ==
  /\ stage \in Stage
  /\ config \in ReconnectConfig
  /\ settings \in ReconnectConfig
  /\ policy \in PolicyType
  /\ handle \in Session \union {NoSession}
  /\ session \in Session \union {NoSession}
  /\ reason \in Reason
  /\ tasks \in [Session -> Tasks]
  /\ snap \in SnapType
  /\ reconnects \in 0 .. Limit

Flags == reconnecting \in BOOLEAN /\ shutdown \in BOOLEAN /\ late \in BOOLEAN

LEMMA TypeParts == (SupervisorTypeOK <=> Shapes /\ Flags) /\ (SupervisorTypeOK' <=> Shapes' /\ Flags')
  BY Zenon DEF SupervisorTypeOK, Shapes, Flags, PolicyType, SnapType

(* The constants, and the values that are written out.                     *)
LEMMA SupervisorConstants ==
  /\ NoSession \notin Session
  /\ Limit \in Nat \ {0}
  /\ MaxAttempts \in Nat
  /\ \A c \in ReconnectConfig : c \in Settings /\ c.longest \in Nat /\ c.longest < MaxAttempts
  BY SessionAssumption, LimitAssumption, ReconnectConfigAssumption
     DEF SessionAssumption, LimitAssumption, ReconnectConfigAssumption, Settings

LEMMA Values ==
  /\ Fresh \in PolicyType
  /\ Gone \in Tasks /\ Started \in Tasks
  /\ \A c \in BOOLEAN, e \in Error : [connected |-> c, last_error |-> e] \in SnapType
  BY SupervisorConstants DEF Fresh, PolicyType, Gone, Started, Tasks, SnapType

LEMMA Writes ==
  /\ PublishConnected => snap' \in SnapType
  /\ \A e \in Error : MarkConnected(e) => snap' \in SnapType
  /\ \A e \in Error : Disconnected(e) => snap' \in SnapType /\ late' \in BOOLEAN
  BY Values DEF PublishConnected, MarkConnected, Disconnected, MarkDisconnected

(* The two counters stay in range.                                         *)
LEMMA Counters ==
  ASSUME Shapes
  PROVE  /\ 0 \in 0 .. Limit
         /\ reconnects > 0 => reconnects - 1 \in 0 .. Limit
         /\ policy.attempts \in 0 .. MaxAttempts
         /\ TakeDelay => policy' \in PolicyType
<1>1. reconnects \in 0 .. Limit /\ policy.attempts \in 0 .. MaxAttempts
  BY DEF Shapes, PolicyType
<1>2. (IF policy.attempts < MaxAttempts THEN policy.attempts + 1 ELSE MaxAttempts) \in 0 .. MaxAttempts
  BY <1>1, SupervisorConstants
<1>3. \A n \in 0 .. MaxAttempts, b \in BOOLEAN :
        [attempts |-> n, backoff_topped_out |-> b] \in PolicyType
  BY DEF PolicyType
<1>4. (policy.attempts >= settings.longest) \in BOOLEAN
  OBVIOUS
<1>5. TakeDelay => policy' \in PolicyType
  BY <1>2, <1>3, <1>4, Zenon DEF TakeDelay
<1> QED
  BY <1>1, <1>5, SupervisorConstants

LEMMA SupervisorInitInv == SupervisorInit => SupervisorInv
<1> SUFFICES ASSUME SupervisorInit PROVE SupervisorInv
  OBVIOUS
<1>1. Shapes
  <2>1. 0 \in 0 .. Limit
    BY SupervisorConstants
  <2> QED
    BY <2>1, Values DEF SupervisorInit, Shapes
<1>2. Flags
  BY Zenon DEF SupervisorInit, Flags
<1>3. HandleIsServed /\ StandsWhere /\ StatusIsTrue
  BY DEF SupervisorInit, HandleIsServed, StandsWhere, StatusIsTrue, ConnectedIsServed, GaveUpIsReported
<1>4. PolicyInv
  BY SupervisorConstants DEF SupervisorInit, PolicyInv, BoundedRetries, GivesUpOnlyExhausted, Fresh
<1> QED
  BY <1>1, <1>2, <1>3, <1>4, TypeParts DEF SupervisorInv

(* Every step of the supervisor leaves values of the right kind.           *)
LEMMA SupervisorShapes == Shapes /\ SupervisorStep => Shapes'
<1> SUFFICES ASSUME Shapes, SupervisorStep PROVE Shapes'
  OBVIOUS
<1> USE DEF Shapes
<1>1. CASE Dial
  BY <1>1, Values DEF Dial, TakeSettings
<1>2. ASSUME NEW s \in Session, Connected(s) PROVE Shapes'
  BY <1>2, Values DEF Connected
<1>3. CASE ConnectFails \/ ConnectAbandoned
  BY <1>3, Writes DEF ConnectFails, ConnectAbandoned
<1>4. CASE InitialEssential \/ InitialFails \/ InitialPublished
  BY <1>4, Writes DEF InitialEssential, InitialFails, InitialPublished
<1>5. CASE Install \/ Withdraw
  BY <1>5 DEF Install, Withdraw, TakeHandle
<1>6. CASE ServeLost \/ ServeShutdown \/ ServeReconnect
  BY <1>6, Counters DEF ServeLost, ServeShutdown, ServeReconnect, EndsFor
<1>7. CASE Report
  <2>1. LastError(reason) \in Error /\ After(reason) \in Stage
    BY DEF LastError, After
  <2> QED
    BY <1>7, <2>1, Writes DEF Report
<1>8. CASE Backoff
  BY <1>8, Counters DEF Backoff
<1>9. CASE StopSupervising
  BY <1>9, Writes DEF StopSupervising
<1>10. CASE DelayElapses \/ WaitCutShort \/ WaitShutdown
  BY <1>10, Counters DEF DelayElapses, WaitCutShort, WaitShutdown, WaitOver
<1> QED
  BY <1>1, <1>2, <1>3, <1>4, <1>5, <1>6, <1>7, <1>8, <1>9, <1>10
     DEF SupervisorStep, SeesShutdown, SeesRequest

LEMMA SupervisorFlags == Flags /\ SupervisorStep => Flags'
  BY Zenon DEF Flags, SupervisorStep, SeesShutdown, SeesRequest, Dial, Connected, ConnectFails,
     ConnectAbandoned, InitialEssential, InitialFails, InitialPublished, Install, ServeLost,
     ServeShutdown, ServeReconnect, EndsFor, Withdraw, Report, Backoff, StopSupervising, DelayElapses,
     WaitCutShort, WaitShutdown, Disconnected

LEMMA SupervisorType == SupervisorTypeOK /\ SupervisorStep => SupervisorTypeOK'
  BY TypeParts, SupervisorShapes, SupervisorFlags

(* The session's tasks, the clients and the operator.                      *)
Others ==
  \/ \E s \in Session : SessionTaskStep(s)
  \/ RequestReconnect \/ RequestShutdown
  \/ \E c \in ReconnectConfig : ReloadConfig(c)

(* What a task of a session may do: change its own state and publish.      *)
LEMMA SessionTaskEffect ==
  ASSUME NEW s \in Session, SessionTaskStep(s)
  PROVE  /\ TasksOnly
         /\ \/ SetTask(s, "client", "ended") \/ SetTask(s, "pump", "ended")
            \/ SetTask(s, "poller", "ended")
            \/ \E to \in {"idle", "essential", "degradable", "ended"} : SetTask(s, "worker", to)
         /\ \/ UNCHANGED <<snap, late>>
            \/ PublishConnected /\ late' = (late \/ session # s)
  BY DEF SessionTaskStep, WorkerStep, ClientEnds, PumpEnds, WorkerBegins, WorkerEssential, WorkerFails,
         WorkerPublishes, WorkerEnds, PollerEnds

LEMMA SessionTaskType ==
  ASSUME SupervisorTypeOK, NEW s \in Session, SessionTaskStep(s)
  PROVE  SupervisorTypeOK'
<1>1. tasks' \in [Session -> Tasks]
  <2>1. tasks[s] \in Tasks /\ tasks \in [Session -> Tasks]
    BY DEF SupervisorTypeOK
  <2> QED
    BY <2>1, SessionTaskEffect DEF SetTask, Tasks
<1>2. Shapes'
  BY <1>1, SessionTaskEffect, Writes, TypeParts DEF Shapes, TasksOnly
<1>3. Flags'
  BY SessionTaskEffect, TypeParts, Zenon DEF Flags, TasksOnly
<1> QED
  BY <1>2, <1>3, TypeParts

LEMMA OthersType == SupervisorTypeOK /\ Others => SupervisorTypeOK'
<1>1. ASSUME Shapes, RequestReconnect PROVE Shapes'
  BY <1>1, SupervisorConstants DEF Shapes, RequestReconnect
<1>2. ASSUME Shapes, RequestShutdown PROVE Shapes'
  BY <1>2 DEF Shapes, RequestShutdown
<1>3. ASSUME Shapes, NEW c \in ReconnectConfig, ReloadConfig(c) PROVE Shapes'
  BY <1>3 DEF Shapes, ReloadConfig
<1>4. ASSUME Flags, RequestReconnect \/ RequestShutdown \/ \E c \in ReconnectConfig : ReloadConfig(c)
      PROVE  Flags'
  BY <1>4, Zenon DEF Flags, RequestReconnect, RequestShutdown, ReloadConfig
<1> QED
  BY <1>1, <1>2, <1>3, <1>4, SessionTaskType, TypeParts DEF Others

-----------------------------------------------------------------------------
(* The supervisor's steps, each against the parts of the invariant it can  *)
(* disturb.                                                                *)
LEMMA SupervisorStands ==
  SupervisorInv /\ SupervisorStep => HandleIsServed' /\ StandsWhere' /\ StatusIsTrue'
<1> SUFFICES ASSUME SupervisorInv, SupervisorStep
             PROVE HandleIsServed' /\ StandsWhere' /\ StatusIsTrue'
  OBVIOUS
<1> USE SessionAssumption DEF SessionAssumption, SupervisorInv, HandleIsServed, StandsWhere,
                              StatusIsTrue, ConnectedIsServed, GaveUpIsReported
<1>0. SupervisorTypeOK
  OBVIOUS
<1>1. CASE Dial
  BY <1>1 DEF Dial
<1>2. ASSUME NEW s \in Session, Connected(s)
      PROVE HandleIsServed' /\ StandsWhere' /\ StatusIsTrue'
  BY <1>2 DEF Connected
<1>3. CASE ConnectFails
  BY <1>3 DEF ConnectFails, Disconnected, MarkDisconnected
<1>4. CASE ConnectAbandoned
  BY <1>4 DEF ConnectAbandoned
<1>5. CASE InitialEssential
  BY <1>5 DEF InitialEssential
<1>6. CASE InitialFails
  BY <1>6 DEF InitialFails, MarkConnected
<1>7. CASE InitialPublished
  BY <1>7 DEF InitialPublished, PublishConnected
<1>8. CASE Install
  BY <1>8, <1>0 DEF Install, SupervisorTypeOK
<1>9. CASE ServeLost \/ ServeShutdown \/ ServeReconnect
  BY <1>9 DEF ServeLost, ServeShutdown, ServeReconnect, EndsFor
<1>10. CASE Withdraw
  BY <1>10 DEF Withdraw, TakeHandle
<1>11. CASE Report
  BY <1>11, <1>0 DEF Report, Disconnected, MarkDisconnected, After, SupervisorTypeOK
<1>12. CASE Backoff
  BY <1>12 DEF Backoff
<1>13. CASE StopSupervising
  BY <1>13 DEF StopSupervising, Disconnected, MarkDisconnected
<1>14. CASE DelayElapses \/ WaitCutShort
  BY <1>14 DEF DelayElapses, WaitCutShort, WaitOver
<1>15. CASE WaitShutdown
  BY <1>15 DEF WaitShutdown
<1> QED
  BY <1>1, <1>2, <1>3, <1>4, <1>5, <1>6, <1>7, <1>8, <1>9, <1>10, <1>11, <1>12, <1>13, <1>14, <1>15
     DEF SupervisorStep, SeesShutdown, SeesRequest

LEMMA SupervisorPolicy == SupervisorInv /\ SupervisorStep => PolicyInv'
<1> SUFFICES ASSUME SupervisorInv, SupervisorStep PROVE PolicyInv'
  OBVIOUS
<1> USE DEF PolicyInv, BoundedRetries, GivesUpOnlyExhausted
<1>0. /\ PolicyInv /\ StandsWhere /\ config \in ReconnectConfig /\ settings \in ReconnectConfig
      /\ policy \in [attempts : 0 .. MaxAttempts, backoff_topped_out : BOOLEAN]
      /\ reason \in Reason
  BY DEF SupervisorInv, SupervisorTypeOK
<1>1. CASE Dial
  BY <1>0, <1>1, SupervisorConstants DEF Dial, TakeSettings, Fresh
<1>2. ASSUME NEW s \in Session, Connected(s) PROVE PolicyInv'
  BY <1>0, <1>2, SupervisorConstants DEF Connected, Fresh
<1>3. CASE ConnectFails \/ ConnectAbandoned \/ InitialEssential \/ InitialFails \/ InitialPublished
  BY <1>0, <1>3 DEF ConnectFails, ConnectAbandoned, InitialEssential, InitialFails, InitialPublished
<1>4. CASE Install \/ ServeLost \/ ServeShutdown \/ ServeReconnect \/ Withdraw
  BY <1>0, <1>4 DEF Install, ServeLost, ServeShutdown, ServeReconnect, EndsFor, Withdraw
<1>5. CASE Report
  BY <1>0, <1>5 DEF Report, After, StandsWhere
<1>6. CASE Backoff
  <2>1. settings.longest \in Nat /\ settings.longest < MaxAttempts /\ policy.attempts \in Nat
    BY <1>0, SupervisorConstants
  <2>2. /\ policy'.attempts = IF policy.attempts < MaxAttempts THEN policy.attempts + 1 ELSE MaxAttempts
        /\ policy'.backoff_topped_out <=> policy.attempts >= settings.longest
    BY <1>6 DEF Backoff, TakeDelay
  <2>3. settings' = settings /\ stage' = "wait" /\ (settings.endless \/ ~policy.backoff_topped_out)
    BY <1>6 DEF Backoff, MayRetry
  <2> QED
    BY <1>0, <2>1, <2>2, <2>3, SupervisorConstants
<1>7. CASE StopSupervising
  BY <1>0, <1>7 DEF StopSupervising, MayRetry
<1>8. CASE DelayElapses \/ WaitCutShort \/ WaitShutdown
  BY <1>0, <1>8 DEF DelayElapses, WaitCutShort, WaitShutdown, WaitOver
<1> QED
  BY <1>1, <1>2, <1>3, <1>4, <1>5, <1>6, <1>7, <1>8 DEF SupervisorStep, SeesShutdown, SeesRequest

LEMMA OthersInv ==
  SupervisorInv /\ Others => HandleIsServed' /\ StandsWhere' /\ PolicyInv' /\ StatusIsTrue'
<1> SUFFICES ASSUME SupervisorInv, Others
             PROVE HandleIsServed' /\ StandsWhere' /\ PolicyInv' /\ StatusIsTrue'
  OBVIOUS
<1> USE SessionAssumption DEF SessionAssumption, SupervisorInv, HandleIsServed, StandsWhere, PolicyInv,
        BoundedRetries, GivesUpOnlyExhausted, StatusIsTrue, ConnectedIsServed, GaveUpIsReported
<1>1. ASSUME NEW s \in Session, SessionTaskStep(s)
      PROVE HandleIsServed' /\ StandsWhere' /\ PolicyInv' /\ StatusIsTrue'
  <2>1. UNCHANGED <<stage, settings, policy, reconnecting, handle, session, reason, shutdown>>
    BY <1>1, SessionTaskEffect DEF TasksOnly
  <2>2. CASE UNCHANGED <<snap, late>>
    BY <2>1, <2>2
  <2>3. CASE PublishConnected /\ late' = (late \/ session # s)
    <3>1. snap'.connected /\ (session = NoSession => late')
      BY <2>3, SupervisorConstants DEF PublishConnected
    <3>2. HandleIsServed' /\ StandsWhere' /\ PolicyInv'
      BY <2>1, <3>1
    <3>3. session = NoSession \/ stage # "done"
      OBVIOUS
    <3> QED
      BY <2>1, <3>1, <3>2, <3>3
  <2> QED
    BY <1>1, <2>2, <2>3, SessionTaskEffect
<1>2. CASE RequestReconnect
  BY <1>2 DEF RequestReconnect
<1>3. CASE RequestShutdown
  BY <1>3 DEF RequestShutdown
<1>4. ASSUME NEW c \in ReconnectConfig, ReloadConfig(c)
      PROVE HandleIsServed' /\ StandsWhere' /\ PolicyInv' /\ StatusIsTrue'
  BY <1>4 DEF ReloadConfig
<1> QED
  BY <1>1, <1>2, <1>3, <1>4 DEF Others

LEMMA SupervisorNextInv == SupervisorInv /\ [SupervisorNext]_supervisorVars => SupervisorInv'
<1> SUFFICES ASSUME SupervisorInv, [SupervisorNext]_supervisorVars PROVE SupervisorInv'
  OBVIOUS
<1>1. CASE SupervisorStep
  BY <1>1, SupervisorType, SupervisorStands, SupervisorPolicy DEF SupervisorInv
<1>2. CASE Others
  BY <1>2, OthersType, OthersInv DEF SupervisorInv
<1>3. CASE UNCHANGED supervisorVars
  <2>1. SupervisorTypeOK'
    <3>1. Shapes'
      BY <1>3, TypeParts DEF supervisorVars, SupervisorInv, Shapes
    <3>2. Flags'
      BY <1>3, TypeParts, Zenon DEF supervisorVars, SupervisorInv, Flags
    <3> QED
      BY <3>1, <3>2, TypeParts
  <2>2. HandleIsServed' /\ StandsWhere'
    BY <1>3 DEF supervisorVars, SupervisorInv, HandleIsServed, StandsWhere
  <2>3. PolicyInv'
    BY <1>3 DEF supervisorVars, SupervisorInv, PolicyInv, BoundedRetries, GivesUpOnlyExhausted
  <2>4. StatusIsTrue'
    BY <1>3 DEF supervisorVars, SupervisorInv, StatusIsTrue, ConnectedIsServed, GaveUpIsReported
  <2> QED
    BY <2>1, <2>2, <2>3, <2>4 DEF SupervisorInv
<1> QED
  BY <1>1, <1>2, <1>3 DEF SupervisorNext, Others

(* The status clients read is true of the supervisor, and the policy's     *)
(* account of itself is right, whatever is reloaded, requested or lost.    *)
THEOREM SupervisorInvariant == SupervisorSpec => []SupervisorInv
  BY SupervisorInitInv, SupervisorNextInv, PTL DEF SupervisorSpec

(* As long as commands are given a client, the snapshot says connected.    *)
THEOREM CommandsAreConnected == SupervisorSpec => []CommandsImplyConnected
<1>1. SupervisorInv => CommandsImplyConnected
  BY DEF SupervisorInv, HandleIsServed, StandsWhere, CommandsImplyConnected
<1> QED
  BY <1>1, SupervisorInvariant, PTL

(* A bounded policy never waits its longest delay twice, and supervision   *)
(* is never given up before.                                               *)
THEOREM RetriesAreBounded == SupervisorSpec => [](BoundedRetries /\ GivesUpOnlyExhausted)
<1>1. SupervisorInv => BoundedRetries /\ GivesUpOnlyExhausted
  BY DEF SupervisorInv, PolicyInv
<1> QED
  BY <1>1, SupervisorInvariant, PTL

-----------------------------------------------------------------------------
(* The supervisor implements ObsLink.                                      *)
Opened == {s \in Session : tasks[s].client = "running"}
Over == stage = "done"

LEMMA LinkInit == SupervisorInit => Link!Init
  BY DEF SupervisorInit, Link!Init, Gone

LEMMA LinkStep == SupervisorInv /\ [SupervisorNext]_supervisorVars => [Link!Next]_(Link!vars)
<1> SUFFICES ASSUME SupervisorInv, [SupervisorNext]_supervisorVars PROVE [Link!Next]_(Link!vars)
  OBVIOUS
<1> USE DEF Link!vars
<1>0. /\ tasks \in [Session -> Tasks]
      /\ handle # NoSession <=> stage \in {"serve", "withdraw"}
      /\ session # NoSession <=>
           stage \in {"essential", "degradable", "again", "install", "serve", "withdraw", "report"}
      /\ reason \in Reason
  BY DEF SupervisorInv, SupervisorTypeOK, HandleIsServed
<1>1. ASSUME NEW s \in Session, Connected(s) PROVE Link!Next
  <2>1. tasks[s].client = "ended" /\ stage = "connect" /\ stage' = "essential"
    BY <1>1 DEF Connected, Gone
  <2>2. Opened' = Opened \union {s}
    BY <1>0, <1>1 DEF Connected, Started, Opened
  <2>3. Link!Open(s)
    BY <1>0, <1>1, <2>1, <2>2 DEF Connected, Link!Open, Opened
  <2> QED
    BY <2>3 DEF Link!Next
<1>2. ASSUME NEW s \in Session, SessionTaskStep(s) PROVE [Link!Next]_(Link!vars)
  <2>1. UNCHANGED <<session, handle, stage>>
    BY <1>2, SessionTaskEffect DEF TasksOnly
  <2>2. CASE ClientEnds(s)
    <3>0. \A q \in Session : tasks'[q].client = IF q = s THEN "ended" ELSE tasks[q].client
      BY <1>0, <2>2 DEF ClientEnds, SetTask, Tasks
    <3>1. Opened' = Opened \ {s}
      BY <3>0 DEF Opened
    <3>2. Link!Close(s)
      BY <2>1, <3>1 DEF Link!Close, Opened
    <3> QED
      BY <3>2 DEF Link!Next
  <2>3. CASE ~ClientEnds(s)
    <3>1. \A q \in Session : tasks'[q].client = tasks[q].client
      BY <1>0, <1>2, <2>3 DEF SessionTaskStep, WorkerStep, PumpEnds, WorkerBegins, WorkerEssential,
         WorkerFails, WorkerPublishes, WorkerEnds, PollerEnds, SetTask, Tasks
    <3> QED
      BY <2>1, <3>1
  <2> QED
    BY <2>2, <2>3
<1>3. CASE Install
  BY <1>0, <1>3 DEF Install, Link!HandOut, Link!Next
<1>4. CASE Withdraw
  BY <1>0, <1>4 DEF Withdraw, TakeHandle, Link!TakeBack, Link!Next
<1>5. CASE Report
  BY <1>0, <1>5 DEF Report, After, Link!Forget, Link!Next
<1>6. CASE \/ Dial \/ ConnectFails \/ InitialEssential \/ InitialFails \/ InitialPublished
           \/ ServeLost \/ ServeShutdown \/ ServeReconnect \/ Backoff
  BY <1>6 DEF Dial, ConnectFails, InitialEssential, InitialFails, InitialPublished, ServeLost,
              ServeShutdown, ServeReconnect, EndsFor, Backoff
<1>7. CASE ConnectAbandoned \/ StopSupervising \/ DelayElapses \/ WaitCutShort \/ WaitShutdown
  <2>1. handle = NoSession /\ session = NoSession /\ stage # "done"
    BY <1>0, <1>7 DEF ConnectAbandoned, StopSupervising, DelayElapses, WaitCutShort, WaitShutdown,
                      WaitOver
  <2>2. UNCHANGED <<session, handle, tasks>>
    BY <1>7 DEF ConnectAbandoned, StopSupervising, DelayElapses, WaitCutShort, WaitShutdown, WaitOver
  <2>3. Link!Forget
    BY <2>1, <2>2 DEF Link!Forget
  <2> QED
    BY <2>3 DEF Link!Next
<1>8. CASE RequestReconnect \/ RequestShutdown \/ \E c \in ReconnectConfig : ReloadConfig(c)
  BY <1>8 DEF RequestReconnect, RequestShutdown, ReloadConfig
<1>9. CASE UNCHANGED supervisorVars
  BY <1>9 DEF supervisorVars
<1> QED
  BY <1>1, <1>2, <1>3, <1>4, <1>5, <1>6, <1>7, <1>8, <1>9
     DEF SupervisorNext, SupervisorStep, SeesShutdown, SeesRequest

(* Commands are only ever given the client of the newest connection, one   *)
(* at a time, and none once supervision is over.                           *)
THEOREM SupervisorImplementsLink == SupervisorSpec => LinkSpec
  BY LinkInit, LinkStep, SupervisorInvariant, PTL DEF SupervisorSpec, LinkSpec, Link!Spec
=============================================================================
