--------------------------- MODULE IpcSessionProofs --------------------------
(***************************************************************************)
(* TLAPS proofs about IpcSession and FrameReader: what a session owes its  *)
(* client and the daemon its sessions, for any number of connections,      *)
(* frames, writes of the snapshot and any depth of the channels; and that  *)
(* the frames it reads are those that were written, for any limit and any  *)
(* number of bytes, pieces and dropped calls.                              *)
(***************************************************************************)
EXTENDS IpcSession, FrameReader, SequenceTheorems, WellFoundedInduction, TLAPS

USE DEF clients, loops, lanes, socket, ending

-----------------------------------------------------------------------------
(* The steps of one connection, and those of the daemon                    *)

ConnectionStep(c) ==
  \/ Connect(c) \/ HangUp(c) \/ (\E f \in Frames : Send(c, f))
  \/ ReadFrame(c) \/ ReadEnd(c) \/ ForwardBroadcast(c) \/ SessionReturns(c)
  \/ WriteNext(c) \/ DispatchNext(c) \/ CloseNext(c)
  \/ Run(c) \/ Finish(c) \/ (\E f \in forwarders[c] : Forward(c, f))
  \/ Deliver(c) \/ WriteFails(c)

DaemonStep ==
  \/ UNCHANGED vars \/ StateChanges \/ Signal
  \/ AcceptEnds \/ LanesJoined \/ SupervisorJoined \/ DeadlinePasses

LEMMA StepsAre == [Next]_vars => DaemonStep \/ \E c \in Client : ConnectionStep(c)
  BY DEF Next, DaemonStep, ConnectionStep, ClientStep, SessionStep, LaneStep, ForwardStep

LEMMA Tuples ==
  \A a, b : /\ <<a>> # << >> /\ Head(<<a>>) = a /\ Tail(<<a>>) = << >>
            /\ <<a, b>> # << >> /\ Head(<<a, b>>) = a /\ Tail(<<a, b>>) = <<b>>
  OBVIOUS

LEMMA Elements ==
  ASSUME NEW S, NEW s \in Seq(S)
  PROVE  \A k \in DOMAIN s : s[k] \in S
  OBVIOUS

LEMMA MessagesAre ==
  \A m \in Message : m.n \in Nat /\ (m = Answer(m.n) \/ m = State(m.n))
                       /\ m.kind \in {"answer", "state"}
  BY DEF Message, Answer, State

LEMMA MessagesHold ==
  /\ \A i : Answer(i).kind = "answer" /\ Answer(i).n = i
  /\ \A v : State(v).kind = "state" /\ State(v).n = v
  BY DEF Answer, State

LEMMA StepsAreTyped ==
  /\ \A m \in Message : Write(m) \in Step
  /\ \A i \in Request : Dispatch(i) \in Step /\ (i # 0 => Answer(i) \in Message)
  /\ \A v \in Version : State(v) \in Message
  /\ Close \in Step
  BY DepthAssumption DEF DepthAssumption, Write, Dispatch, Close, Step, Message, Answer, State, Request, Version

-----------------------------------------------------------------------------
(* The inductive invariant, of one connection.                             *)

(* The session owes an answer to the frame it is handling.                 *)
Owing(c, i) ==
  /\ todo[c] # << >> /\ i = read[c]
  /\ Head(todo[c]) \in {Write(Answer(i)), Dispatch(i)}

(* What is left of a frame, or of a broadcast, while the session is open.  *)
Shape(c) ==
  \/ todo[c] = << >>
  \/ /\ session[c] = "open" /\ read[c] \in 1 .. Len(sent[c])
     /\ \/ todo[c] = <<Dispatch(read[c])>> /\ sent[c][read[c]] \in Command
        \/ todo[c] = <<Write(Answer(read[c]))>> /\ sent[c][read[c]] = "subscribe"
        \/ todo[c] = <<Write(Answer(read[c])), Dispatch(InitialState)>> /\ sent[c][read[c]] = "subscribe"
        \/ todo[c] = <<Write(Answer(read[c])), Close>> /\ sent[c][read[c]] = "invalid"
        \/ todo[c] = <<Close>> /\ sent[c][read[c]] \in {"invalid", "malformed"}
  \/ session[c] = "open" /\ todo[c] = <<Dispatch(InitialState)>>
  \/ session[c] = "open" /\ \E v \in 1 .. snapshot : todo[c] = <<Write(State(v))>>

(* A session that has not begun has nothing, one that has returned leaves  *)
(* nothing behind unless its client went away.                             *)
Loop(c) ==
  /\ read[c] <= Len(sent[c]) /\ Len(sent[c]) <= MaxFrames
  /\ session[c] = "none" => forwarders[c] = {} /\ lane[c] = << >> /\ read[c] = 0 /\ ~subscribed[c]
  /\ session[c] = "closed" => c \in broken \/ (out[c] = << >> /\ forwarders[c] = {})
  /\ c \in broken => c \in gone

(* An answer is in one place only: still owed, with a forwarder, in the    *)
(* write channel, or delivered.                                            *)
OutOnce(c) ==
  /\ \A j, k \in DOMAIN out[c] : out[c][j].kind = "answer" /\ out[c][j] = out[c][k] => j = k
  /\ \A k \in DOMAIN out[c] : out[c][k].kind = "answer" =>
       /\ out[c][k].n \in 1 .. read[c] /\ sent[c][out[c][k].n] \in Answerable
       /\ answers[c][out[c][k].n] = 0 /\ ~Owing(c, out[c][k].n)
       /\ \A f \in forwarders[c] : f.id # out[c][k].n

ForwardOnce(c) ==
  /\ \A f, g \in forwarders[c] : f.id = g.id => f = g
  /\ \A f \in forwarders[c] : f.id # InitialState =>
       f.id \in 1 .. read[c] /\ sent[c][f.id] \in Command /\ answers[c][f.id] = 0 /\ ~Owing(c, f.id)

AnswerOnce(c) ==
  \A i \in 1 .. MaxFrames :
    /\ answers[c][i] <= 1
    /\ answers[c][i] = 1 => i <= read[c] /\ sent[c][i] \in Answerable /\ ~Owing(c, i)

(* And it is in one of these as long as the client can be written to.      *)
Owed(c) ==
  c \notin broken => \A i \in 1 .. read[c] : sent[c][i] \in Answerable =>
    \/ answers[c][i] = 1 \/ Owing(c, i)
    \/ \E k \in DOMAIN out[c] : out[c][k] = Answer(i)
    \/ \E f \in forwarders[c] : f.id = i

(* The snapshot for a subscriber is fetched once: about to be asked for,   *)
(* in the lane, or running, with a forwarder that waits.                   *)
Asked(c) == \E k \in DOMAIN todo[c] : todo[c][k] = Dispatch(InitialState)
InLane(c) == \E k \in DOMAIN lane[c] : lane[c][k] = InitialState
Fetching(c) == running[c] # Idle /\ running[c].id = InitialState
NoFirst(c) == \A f \in forwarders[c] : f.id # InitialState

FirstOnce(c) ==
  /\ \A j, k \in DOMAIN lane[c] : lane[c][j] = InitialState /\ lane[c][k] = InitialState => j = k
  /\ Asked(c) => ~InLane(c) /\ ~Fetching(c) /\ NoFirst(c)
  /\ InLane(c) => ~Fetching(c)
  /\ InLane(c) \/ Fetching(c) => [id |-> InitialState, result |-> Pending] \in forwarders[c]
  /\ ~subscribed[c] => ~Asked(c) /\ ~InLane(c) /\ ~Fetching(c) /\ NoFirst(c)

Versions(c) ==
  /\ snapshot >= 1 /\ cursor[c] <= snapshot + 1 /\ latest[c] <= snapshot
  /\ \A k \in DOMAIN out[c] : out[c][k].kind = "state" => out[c][k].n <= snapshot
  /\ running[c] # Idle => running[c].result \in 1 .. snapshot
  /\ \A f \in forwarders[c] : f.result <= snapshot

(* A subscriber for whom there is no broadcast left has been sent the      *)
(* newest version or it is on its way.                                     *)
Carried(c) ==
  \/ latest[c] = snapshot \/ Asked(c) \/ InLane(c)
  \/ running[c] = [id |-> InitialState, result |-> snapshot]
  \/ [id |-> InitialState, result |-> snapshot] \in forwarders[c]
  \/ todo[c] = <<Write(State(snapshot))>>
  \/ \E k \in DOMAIN out[c] : out[c][k] = State(snapshot)
Newest(c) == subscribed[c] /\ c \notin broken /\ cursor[c] > snapshot => Carried(c)

Ordered(c) ==
  /\ \A j, k \in DOMAIN Line(c) :
       j < k /\ InitialState \notin {Line(c)[j], Line(c)[k]} => Line(c)[j] < Line(c)[k]
  /\ \A i \in Waiting(c), k \in DOMAIN Line(c) : Line(c)[k] < i
  /\ \A i \in 1 .. MaxFrames :
       i \in Waiting(c) \/ (\E k \in DOMAIN Line(c) : Line(c)[k] = i)
         <=> i <= read[c] /\ sent[c][i] \in Command

Accounts(c) == OutOnce(c) /\ ForwardOnce(c) /\ AnswerOnce(c) /\ Owed(c)
Conn(c) ==
  Shape(c) /\ Loop(c) /\ Accounts(c) /\ FirstOnce(c) /\ Versions(c) /\ Newest(c) /\ Ordered(c)

(* Lanes that have been joined have ended, and stay so.                    *)
Joined == lanesStopped => daemon # "accepting" /\ Drained

SessionIInv == TypeOK /\ Joined /\ \A c \in Client : Conn(c)

-----------------------------------------------------------------------------
(* Types *)

LEMMA SessionTypes ==
  ASSUME TypeOK, NEW c \in Client, Len(sent[c]) <= MaxFrames,
         \/ Connect(c) \/ HangUp(c) \/ (\E f \in Frames : Send(c, f)) \/ ReadEnd(c) \/ SessionReturns(c)
         \/ ReadFrame(c) \/ ForwardBroadcast(c) \/ CloseNext(c)
  PROVE  TypeOK'
<1>1. CASE Connect(c)
  <2>1. snapshot + 1 \in 0 .. MaxWrites + 1
    BY DepthAssumption DEF DepthAssumption, TypeOK, Version
  <2>2. session' \in [Client -> {"none", "open", "closing", "closed"}] /\ cursor' \in [Client -> 0 .. MaxWrites + 1]
    BY <1>1, <2>1 DEF TypeOK, Connect
  <2> QED
    BY <1>1, <2>2 DEF TypeOK, Connect
<1>2. CASE HangUp(c) \/ ReadEnd(c) \/ SessionReturns(c)
  <2>1. session' \in [Client -> {"none", "open", "closing", "closed"}] /\ gone' \in SUBSET Client
    BY <1>2 DEF TypeOK, HangUp, ReadEnd, SessionReturns
  <2> QED
    BY <1>2, <2>1 DEF TypeOK, HangUp, ReadEnd, SessionReturns
<1>3. ASSUME NEW f \in Frames, Send(c, f) PROVE TypeOK'
  <2>1. sent' \in [Client -> Seq(Frame)]
    BY <1>3, FramesAssumption DEF FramesAssumption, TypeOK, Send
  <2> QED
    BY <1>3, <2>1 DEF TypeOK, Send
<1>4. CASE ReadFrame(c)
  <2> DEFINE i == read[c] + 1
  <2>1. i \in Request /\ i # 0 /\ sent[c][i] \in Frame
    <3>1. read[c] \in Nat /\ read[c] < Len(sent[c]) /\ sent[c] \in Seq(Frame)
      BY <1>4, DepthAssumption DEF DepthAssumption, TypeOK, ReadFrame, Request
    <3> QED
      BY <3>1, DepthAssumption DEF DepthAssumption, Request
  <2>2. {Dispatch(i), Dispatch(InitialState), Write(Answer(i)), Close} \subseteq Step
    BY <2>1, DepthAssumption, StepsAreTyped DEF DepthAssumption, Request, InitialState
  <2> HIDE DEF i
  <2>3. Handling(c, i) \in Seq(Step)
    <3>1. CASE sent[c][i] \in Command
      BY <2>2, <3>1 DEF Handling, Command
    <3>2. CASE sent[c][i] = "subscribe"
      BY <2>2, <3>2 DEF Handling, Subscribing, Command
    <3>3. CASE sent[c][i] = "invalid"
      BY <2>2, <3>3 DEF Handling, Command
    <3>4. CASE sent[c][i] = "malformed"
      BY <2>2, <3>4 DEF Handling, Command
    <3>5. CASE sent[c][i] = "blank"
      BY <3>5 DEF Handling, Command
    <3> QED
      BY <2>1, <3>1, <3>2, <3>3, <3>4, <3>5 DEF Frame
  <2>4. /\ read' \in [Client -> Request] /\ todo' \in [Client -> Seq(Step)]
        /\ subscribed' \in [Client -> BOOLEAN]
    BY <1>4, <2>1, <2>3 DEF TypeOK, ReadFrame, i
  <2> QED
    BY <1>4, <2>4 DEF TypeOK, ReadFrame
<1>5. CASE ForwardBroadcast(c)
  <2>1. Oldest \in 0 .. MaxWrites + 1 /\ snapshot \in 0 .. MaxWrites
    BY DepthAssumption DEF DepthAssumption, TypeOK, Version, Oldest
  <2>2. cursor[c] \in Version /\ cursor[c] + 1 \in 0 .. MaxWrites + 1
    BY <1>5, <2>1, DepthAssumption DEF DepthAssumption, ForwardBroadcast, TypeOK, Version
  <2>3. <<Write(State(cursor[c]))>> \in Seq(Step)
    BY <2>2, StepsAreTyped
  <2>4. todo' \in [Client -> Seq(Step)] /\ cursor' \in [Client -> 0 .. MaxWrites + 1]
    <3>1. CASE cursor[c] < Oldest
      <4>1. cursor' = [cursor EXCEPT ![c] = Oldest] /\ todo' = todo
        BY <1>5, <3>1 DEF ForwardBroadcast, Receive
      <4>2. todo \in [Client -> Seq(Step)] /\ cursor \in [Client -> 0 .. MaxWrites + 1]
        BY DEF TypeOK
      <4> QED
        BY <2>1, <4>1, <4>2
    <3>2. CASE ~(cursor[c] < Oldest)
      <4>1. /\ todo' = [todo EXCEPT ![c] = <<Write(State(cursor[c]))>>]
            /\ cursor' = [cursor EXCEPT ![c] = @ + 1]
        BY <1>5, <3>2 DEF ForwardBroadcast, Receive
      <4> QED
        BY <2>2, <2>3, <4>1 DEF TypeOK
    <3> QED
      BY <3>1, <3>2
  <2> QED
    BY <1>5, <2>4 DEF TypeOK, ForwardBroadcast
<1>6. CASE CloseNext(c)
  <2>1. /\ session' \in [Client -> {"none", "open", "closing", "closed"}]
        /\ todo' \in [Client -> Seq(Step)]
    BY <1>6 DEF TypeOK, CloseNext
  <2> QED
    BY <1>6, <2>1 DEF TypeOK, CloseNext
<1> QED
  BY <1>1, <1>2, <1>3, <1>4, <1>5, <1>6

(* Channels take no more than they have room for.                          *)
LEMMA QueueTypes ==
  ASSUME TypeOK, NEW c \in Client, NEW m \in Message, Queue(c, m)
  PROVE  out' \in [Client -> Seq(Message)] /\ \A d \in Client : Len(out'[d]) <= WriterDepth
<1>1. CASE UNCHANGED out
  BY <1>1 DEF TypeOK
<1>2. CASE Len(out[c]) < WriterDepth /\ out' = [out EXCEPT ![c] = Append(@, m)]
  <2>1. Append(out[c], m) \in Seq(Message) /\ Len(Append(out[c], m)) <= WriterDepth
    BY <1>2, DepthAssumption DEF DepthAssumption, TypeOK
  <2> QED
    BY <1>2, <2>1 DEF TypeOK
<1> QED
  BY <1>1, <1>2 DEF Queue

LEMMA Counted ==
  ASSUME NEW S, NEW count \in [S -> Nat], NEW n \in S
  PROVE  [count EXCEPT ![n] = @ + 1] \in [S -> Nat]
  OBVIOUS

LEMMA WorkTypes ==
  ASSUME TypeOK, NEW c \in Client,
         \A k \in DOMAIN out[c] : IF out[c][k].kind = "answer" THEN out[c][k].n \in 1 .. MaxFrames
                                                               ELSE out[c][k].n \in Version,
         \/ WriteNext(c) \/ DispatchNext(c) \/ Run(c) \/ Finish(c) \/ (\E f \in forwarders[c] : Forward(c, f))
         \/ Deliver(c) \/ WriteFails(c)
  PROVE  TypeOK'
<1> DEFINE Result == [id : Request, result : {Pending} \union Version]
<1>1. CASE WriteNext(c)
  <2>1. Head(todo[c]) \in Step /\ Tail(todo[c]) \in Seq(Step)
    BY <1>1 DEF WriteNext, TypeOK
  <2>2. Head(todo[c]).msg \in Message
    BY <1>1, <2>1 DEF WriteNext, Step
  <2>3. todo' \in [Client -> Seq(Step)]
    BY <1>1, <2>1 DEF WriteNext, TypeOK
  <2> QED
    BY <1>1, <2>2, <2>3, QueueTypes DEF WriteNext, TypeOK
<1>2. CASE DispatchNext(c)
  <2>1. Head(todo[c]) \in Step /\ Tail(todo[c]) \in Seq(Step)
    BY <1>2 DEF DispatchNext, TypeOK
  <2>2. Head(todo[c]).id \in Request
    BY <1>2, <2>1 DEF DispatchNext, Step
  <2>3. todo' \in [Client -> Seq(Step)]
    BY <1>2, <2>1 DEF DispatchNext, TypeOK
  <2>4. lane' \in [Client -> Seq(Request)] /\ \A d \in Client : Len(lane'[d]) <= LaneDepth
    BY <1>2, <2>2, DepthAssumption DEF DepthAssumption, DispatchNext, JoinLane, TypeOK
  <2>5. forwarders' \in [Client -> SUBSET Result]
    BY <1>2, <2>2 DEF DispatchNext, TypeOK
  <2> QED
    BY <1>2, <2>3, <2>4, <2>5 DEF DispatchNext, TypeOK
<1>3. CASE Run(c)
  <2> DEFINE i == Head(lane[c])
  <2>1. i \in Request /\ Tail(lane[c]) \in Seq(Request) /\ Len(Tail(lane[c])) <= LaneDepth
    BY <1>3, DepthAssumption DEF DepthAssumption, Run, TypeOK
  <2> HIDE DEF i
  <2>2. snapshot' \in Version /\ shutdown' \in BOOLEAN
    <3>1. /\ snapshot' = snapshot \/ (snapshot < MaxWrites /\ snapshot' = snapshot + 1)
          /\ shutdown' = shutdown \/ shutdown' = TRUE
      BY <1>3 DEF Run
    <3>2. snapshot \in 0 .. MaxWrites /\ shutdown \in BOOLEAN
      BY DEF TypeOK, Version
    <3>3. shutdown' \in BOOLEAN
      BY <3>1, <3>2
    <3> QED
      BY <3>1, <3>2, <3>3, DepthAssumption DEF DepthAssumption, Version
  <2>3. running' \in [Client -> Result] /\ ran' \in [Client -> Seq(Request)]
    BY <1>3, <2>1, <2>2 DEF Run, TypeOK, i
  <2>4. lane' \in [Client -> Seq(Request)] /\ \A d \in Client : Len(lane'[d]) <= LaneDepth
    BY <1>3, <2>1 DEF Run, TypeOK
  <2> QED
    BY <1>3, <2>2, <2>3, <2>4 DEF Run, TypeOK
<1>4. CASE Finish(c)
  <2>1. running' \in [Client -> Result]
    BY <1>4, DepthAssumption DEF DepthAssumption, Finish, TypeOK, Idle, NoCommand, Request
  <2>2. forwarders' \in [Client -> SUBSET Result]
    BY <1>4 DEF Finish, TypeOK
  <2> QED
    BY <1>4, <2>1, <2>2 DEF Finish, TypeOK
<1>5. ASSUME NEW f \in forwarders[c], Forward(c, f) PROVE TypeOK'
  <2>1. f \in Result /\ forwarders' \in [Client -> SUBSET Result]
    BY <1>5 DEF Forward, TypeOK
  <2>2. (IF f.id = InitialState THEN State(f.result) ELSE Answer(f.id)) \in Message
    BY <1>5, <2>1, StepsAreTyped DEF Forward, InitialState
  <2> QED
    BY <1>5, <2>1, <2>2, QueueTypes DEF Forward, TypeOK
<1>6. CASE Deliver(c)
  <2> DEFINE m == Head(out[c])
  <2>1. /\ m \in Message /\ Tail(out[c]) \in Seq(Message) /\ Len(Tail(out[c])) <= WriterDepth
        /\ m.kind = "answer" => m.n \in 1 .. MaxFrames
        /\ m.kind # "answer" => m.n \in Version
    <3>1. out[c] \in Seq(Message) /\ out[c] # << >> /\ Len(out[c]) <= WriterDepth
      BY <1>6 DEF Deliver, TypeOK
    <3>2. 1 \in DOMAIN out[c] /\ m = out[c][1]
      BY <3>1
    <3> QED
      BY <3>1, <3>2, DepthAssumption DEF DepthAssumption
  <2> HIDE DEF m
  <2>2. answers' \in [Client -> [1 .. MaxFrames -> Nat]]
    <3>1. CASE m.kind = "answer"
      <4>1. answers' = [answers EXCEPT ![c][m.n] = @ + 1]
        BY <1>6, <3>1 DEF Deliver, m
      <4>2. answers[c] \in [1 .. MaxFrames -> Nat] /\ m.n \in 1 .. MaxFrames
        BY <2>1, <3>1 DEF TypeOK
      <4>3. [answers[c] EXCEPT ![m.n] = @ + 1] \in [1 .. MaxFrames -> Nat]
        BY <4>2, Counted
      <4> QED
        BY <4>1, <4>3 DEF TypeOK
    <3>2. CASE m.kind # "answer"
      BY <1>6, <3>2 DEF Deliver, TypeOK, m
    <3> QED
      BY <3>1, <3>2
  <2>3. latest' \in [Client -> Version]
    BY <1>6, <2>1 DEF Deliver, TypeOK, Later, m
  <2>4. out' \in [Client -> Seq(Message)] /\ \A d \in Client : Len(out'[d]) <= WriterDepth
    BY <1>6, <2>1 DEF Deliver, TypeOK
  <2> QED
    BY <1>6, <2>2, <2>3, <2>4 DEF Deliver, TypeOK
<1>7. CASE WriteFails(c)
  <2>1. /\ broken' \in SUBSET Client
        /\ out' \in [Client -> Seq(Message)] /\ \A d \in Client : Len(out'[d]) <= WriterDepth
    BY <1>7, DepthAssumption DEF DepthAssumption, WriteFails, TypeOK
  <2> QED
    BY <1>7, <2>1 DEF WriteFails, TypeOK
<1> QED
  BY <1>1, <1>2, <1>3, <1>4, <1>5, <1>6, <1>7

LEMMA DaemonTypes ==
  ASSUME TypeOK, DaemonStep
  PROVE  TypeOK'
<1>1. CASE UNCHANGED vars
  BY <1>1 DEF vars, TypeOK
<1>2. CASE StateChanges
  <2>1. snapshot' \in Version
    BY <1>2, DepthAssumption DEF DepthAssumption, StateChanges, TypeOK, Version
  <2> QED
    BY <1>2, <2>1 DEF StateChanges, TypeOK
<1>3. CASE Signal \/ AcceptEnds \/ LanesJoined \/ SupervisorJoined \/ DeadlinePasses
  BY <1>3 DEF Signal, AcceptEnds, LanesJoined, SupervisorJoined, DeadlinePasses, TypeOK
<1> QED
  BY <1>1, <1>2, <1>3 DEF DaemonStep

-----------------------------------------------------------------------------
(* What a step leaves alone *)

(* Nothing of d changes.                                                   *)
Same(d) ==
  /\ sent'[d] = sent[d] /\ (d \in gone' <=> d \in gone)
  /\ session'[d] = session[d] /\ read'[d] = read[d] /\ todo'[d] = todo[d]
  /\ subscribed'[d] = subscribed[d] /\ cursor'[d] = cursor[d]
  /\ lane'[d] = lane[d] /\ running'[d] = running[d] /\ ran'[d] = ran[d]
  /\ forwarders'[d] = forwarders[d]
  /\ out'[d] = out[d] /\ (d \in broken' <=> d \in broken)
  /\ answers'[d] = answers[d] /\ latest'[d] = latest[d]

LEMMA OthersAreSame ==
  ASSUME TypeOK, NEW c \in Client, NEW d \in Client \ {c}, ConnectionStep(c)
  PROVE  Same(d)
<1> USE DEF TypeOK, Same
<1>1. CASE Connect(c) \/ HangUp(c) \/ (\E f \in Frames : Send(c, f)) \/ ReadEnd(c) \/ SessionReturns(c)
  BY <1>1 DEF Connect, HangUp, Send, ReadEnd, SessionReturns
<1>2. CASE ReadFrame(c) \/ ForwardBroadcast(c) \/ CloseNext(c)
  BY <1>2 DEF ReadFrame, ForwardBroadcast, Receive, CloseNext
<1>3. CASE WriteNext(c) \/ DispatchNext(c) \/ (\E f \in forwarders[c] : Forward(c, f))
  BY <1>3 DEF WriteNext, DispatchNext, JoinLane, Forward, Queue
<1>4. CASE Run(c)
  BY <1>4 DEF Run
<1>5. CASE Finish(c)
  BY <1>5 DEF Finish
<1>6. CASE Deliver(c)
  BY <1>6 DEF Deliver
<1>7. CASE WriteFails(c)
  BY <1>7 DEF WriteFails
<1> QED
  BY <1>1, <1>2, <1>3, <1>4, <1>5, <1>6, <1>7 DEF ConnectionStep

LEMMA SnapshotGrows ==
  ASSUME TypeOK, [Next]_vars
  PROVE  snapshot' = snapshot \/ (snapshot' = snapshot + 1 /\ snapshot < MaxWrites)
<1>1. CASE DaemonStep
  BY <1>1 DEF DaemonStep, vars, StateChanges, Signal, AcceptEnds, LanesJoined, SupervisorJoined, DeadlinePasses
<1>2. ASSUME NEW c \in Client, ConnectionStep(c)
      PROVE  snapshot' = snapshot \/ (snapshot' = snapshot + 1 /\ snapshot < MaxWrites)
  BY <1>2
  DEF ConnectionStep, Connect, HangUp, Send, ReadEnd, SessionReturns, ReadFrame, ForwardBroadcast, CloseNext,
      WriteNext, DispatchNext, Run, Finish, Forward, Deliver, WriteFails
<1> QED
  BY <1>1, <1>2, StepsAre

LEMMA SameKept ==
  ASSUME TypeOK, NEW d \in Client, Conn(d), Same(d),
         snapshot' = snapshot \/ snapshot' = snapshot + 1
  PROVE  Conn(d)'
<1> USE DEF Same
<1>1. snapshot \in Nat /\ cursor[d] \in Nat /\ latest[d] \in Nat
  BY DepthAssumption DEF DepthAssumption, TypeOK, Version
<1>2. Shape(d)'
  BY <1>1 DEF Conn, Shape
<1>3. Loop(d)' /\ FirstOnce(d)'
  BY DEF Conn, Loop, FirstOnce, Asked, InLane, Fetching, NoFirst
<1>4. Accounts(d)'
  BY DEF Conn, Accounts, OutOnce, ForwardOnce, AnswerOnce, Owed, Owing
<1>5. Ordered(d)'
  <2>1. Line(d)' = Line(d) /\ Waiting(d)' = Waiting(d)
    BY DEF Line, Waiting
  <2> QED
    BY <2>1 DEF Conn, Ordered
<1>6. Versions(d)'
  <2>1. \A k \in DOMAIN out[d] : out[d][k].n \in Nat
    <3>1. out[d] \in Seq(Message)
      BY DEF TypeOK
    <3> QED
      BY <3>1, Elements, MessagesAre
  <2>2. \A f \in forwarders[d] : f.result \in Int
    BY DepthAssumption DEF DepthAssumption, TypeOK, Pending, Version
  <2> QED
    BY <1>1, <2>1, <2>2 DEF Conn, Versions
<1>7. Newest(d)'
  <2>1. CASE snapshot' = snapshot
    BY <2>1 DEF Conn, Newest, Carried, Asked, InLane
  <2>2. CASE snapshot' = snapshot + 1
    BY <1>1, <2>2 DEF Conn, Versions, Newest
  <2> QED
    BY <2>1, <2>2
<1> QED
  BY <1>2, <1>3, <1>4, <1>5, <1>6, <1>7 DEF Conn

-----------------------------------------------------------------------------
(* What a step does to its own connection *)

(* Connecting, hanging up and the end of the loop move no message.         *)
LEMMA EndsKept ==
  ASSUME TypeOK, NEW c \in Client, Conn(c),
         Connect(c) \/ HangUp(c) \/ ReadEnd(c) \/ SessionReturns(c)
  PROVE  Conn(c)'
<1>1. /\ sent'[c] = sent[c] /\ read'[c] = read[c] /\ todo'[c] = todo[c] /\ subscribed'[c] = subscribed[c]
      /\ lane'[c] = lane[c] /\ running'[c] = running[c] /\ ran'[c] = ran[c]
      /\ forwarders'[c] = forwarders[c] /\ out'[c] = out[c] /\ broken' = broken
      /\ answers'[c] = answers[c] /\ latest'[c] = latest[c] /\ snapshot' = snapshot
      /\ c \in gone => c \in gone'
  BY DEF Connect, HangUp, ReadEnd, SessionReturns
<1>2. \/ session'[c] = session[c] /\ cursor'[c] = cursor[c]
      \/ session[c] = "none" /\ session'[c] = "open" /\ cursor'[c] = snapshot + 1
      \/ session[c] = "open" /\ todo[c] = << >> /\ session'[c] = "closing" /\ cursor'[c] = cursor[c]
      \/ /\ session[c] = "closing" /\ session'[c] = "closed" /\ cursor'[c] = cursor[c]
         /\ c \in broken \/ (out[c] = << >> /\ forwarders[c] = {})
  BY DEF TypeOK, Connect, HangUp, ReadEnd, InLoop, SessionReturns, WriterEnded
<1>3. Shape(c)'
  BY <1>1, <1>2 DEF Conn, Shape
<1>4. Loop(c)'
  BY <1>1, <1>2 DEF Conn, Loop
<1>5. Accounts(c)'
  BY <1>1 DEF Conn, Accounts, OutOnce, ForwardOnce, AnswerOnce, Owed, Owing
<1>6. FirstOnce(c)'
  BY <1>1 DEF Conn, FirstOnce, Asked, InLane, Fetching, NoFirst
<1>7. Versions(c)'
  <2>1. snapshot \in Nat
    BY DepthAssumption DEF DepthAssumption, TypeOK, Version
  <2> QED
    BY <1>1, <1>2, <2>1 DEF Conn, Versions
<1>8. Newest(c)'
  BY <1>1, <1>2 DEF Conn, Loop, Newest, Carried, Asked, InLane
<1>9. Ordered(c)'
  <2>1. Line(c)' = Line(c) /\ Waiting(c)' = Waiting(c)
    BY <1>1 DEF Line, Waiting
  <2> QED
    BY <1>1, <2>1 DEF Conn, Ordered
<1> QED
  BY <1>3, <1>4, <1>5, <1>6, <1>7, <1>8, <1>9 DEF Conn

(* A frame more does not change those that were read.                      *)
LEMMA SendKept ==
  ASSUME TypeOK, NEW c \in Client, Conn(c), NEW f \in Frames, Send(c, f)
  PROVE  Conn(c)'
<1>1. /\ session'[c] = session[c] /\ read'[c] = read[c] /\ todo'[c] = todo[c]
      /\ subscribed'[c] = subscribed[c] /\ cursor'[c] = cursor[c]
      /\ lane'[c] = lane[c] /\ running'[c] = running[c] /\ ran'[c] = ran[c]
      /\ forwarders'[c] = forwarders[c] /\ out'[c] = out[c] /\ broken' = broken /\ gone' = gone
      /\ answers'[c] = answers[c] /\ latest'[c] = latest[c] /\ snapshot' = snapshot
  BY DEF Send
<1>2. sent[c] \in Seq(Frame) /\ sent'[c] = Append(sent[c], f) /\ Len(sent[c]) < MaxFrames /\ read[c] \in Nat
  BY DepthAssumption DEF DepthAssumption, TypeOK, Send, Request
<1>3. /\ Len(sent'[c]) = Len(sent[c]) + 1 /\ Len(sent'[c]) <= MaxFrames
      /\ \A i \in 1 .. Len(sent[c]) : sent'[c][i] = sent[c][i]
  BY <1>2, DepthAssumption DEF DepthAssumption
<1>4. read[c] <= Len(sent[c]) /\ \A i \in 1 .. read[c] : sent'[c][i] = sent[c][i]
  BY <1>2, <1>3 DEF Conn, Loop
<1>5. Shape(c)'
  <2>1. read[c] \in 1 .. Len(sent[c]) => sent'[c][read[c]] = sent[c][read[c]] /\ read[c] \in 1 .. Len(sent'[c])
    BY <1>2, <1>3
  <2> QED
    BY <1>1, <2>1 DEF Conn, Shape
<1>6. Loop(c)'
  BY <1>1, <1>2, <1>3 DEF Conn, Loop
<1>7. OutOnce(c)'
  BY <1>1, <1>4 DEF Conn, Accounts, OutOnce, Owing
<1>8. ForwardOnce(c)'
  BY <1>1, <1>4 DEF Conn, Accounts, ForwardOnce, Owing
<1>9. AnswerOnce(c)'
  BY <1>1, <1>2, <1>4 DEF Conn, Accounts, AnswerOnce, Owing
<1>10. Owed(c)'
  BY <1>1, <1>4 DEF Conn, Accounts, Owed, Owing
<1>11. FirstOnce(c)' /\ Versions(c)' /\ Newest(c)'
  BY <1>1 DEF Conn, FirstOnce, Asked, InLane, Fetching, NoFirst, Versions, Newest, Carried
<1>12. Ordered(c)'
  <2>1. Line(c)' = Line(c) /\ Waiting(c)' = Waiting(c)
    BY <1>1 DEF Line, Waiting
  <2>2. \A i \in 1 .. MaxFrames : i <= read[c] => sent'[c][i] = sent[c][i]
    BY <1>2, <1>4
  <2> QED
    BY <1>1, <2>1, <2>2 DEF Conn, Ordered
<1> QED
  BY <1>5, <1>6, <1>7, <1>8, <1>9, <1>10, <1>11, <1>12 DEF Conn, Accounts

(* What a session has to do next says of dispatches.                       *)
WaitingIn(t) == {t[k].id : k \in {k \in DOMAIN t : t[k].do = "dispatch"}} \ {InitialState}
AskedIn(t) == \E k \in DOMAIN t : t[k] = Dispatch(InitialState)

LEMMA TagsDiffer ==
  ASSUME NEW m, NEW n, NEW i, NEW j
  PROVE  /\ Write(m) # Dispatch(i) /\ Write(m) # Close /\ Dispatch(i) # Close
         /\ Write(m) = Write(n) => m = n
         /\ Dispatch(i) = Dispatch(j) => i = j
         /\ Answer(i) # State(j)
         /\ Answer(i) = Answer(j) => i = j
         /\ State(i) = State(j) => i = j
  BY DEF Write, Dispatch, Close, Answer, State

LEMMA Tags ==
  /\ \A m : Write(m).do = "write" /\ Write(m).msg = m
  /\ \A i : Dispatch(i).do = "dispatch" /\ Dispatch(i).id = i
  /\ Close.do = "close"
  BY DEF Write, Dispatch, Close

LEMMA NothingWaits == WaitingIn(<< >>) = {} /\ ~AskedIn(<< >>)
  BY DEF WaitingIn, AskedIn

LEMMA DispatchWaits ==
  ASSUME NEW i
  PROVE  /\ WaitingIn(<<Dispatch(i)>>) = {i} \ {InitialState}
         /\ AskedIn(<<Dispatch(i)>>) <=> i = InitialState
<1>1. DOMAIN <<Dispatch(i)>> = {1} /\ <<Dispatch(i)>>[1] = Dispatch(i)
  OBVIOUS
<1>2. Dispatch(i).do = "dispatch" /\ Dispatch(i).id = i
  BY DEF Dispatch
<1> QED
  BY <1>1, <1>2, TagsDiffer DEF WaitingIn, AskedIn

LEMMA OthersDoNotWait ==
  ASSUME NEW step, step = Close \/ \E m : step = Write(m)
  PROVE  WaitingIn(<<step>>) = {} /\ ~AskedIn(<<step>>)
<1>1. DOMAIN <<step>> = {1} /\ <<step>>[1] = step
  OBVIOUS
<1>2. step.do # "dispatch" /\ step # Dispatch(InitialState)
  <2>1. CASE step = Close
    BY <2>1, TagsDiffer DEF Close
  <2>2. ASSUME NEW m, step = Write(m) PROVE step.do # "dispatch" /\ step # Dispatch(InitialState)
    BY <2>2, TagsDiffer DEF Write
  <2> QED
    BY <2>1, <2>2
<1> QED
  BY <1>1, <1>2 DEF WaitingIn, AskedIn

LEMMA PairsWait ==
  ASSUME NEW m
  PROVE  /\ WaitingIn(<<Write(m), Dispatch(InitialState)>>) = {} /\ AskedIn(<<Write(m), Dispatch(InitialState)>>)
         /\ WaitingIn(<<Write(m), Close>>) = {} /\ ~AskedIn(<<Write(m), Close>>)
<1>1. ASSUME NEW step, step \in {Dispatch(InitialState), Close}
      PROVE  WaitingIn(<<Write(m), step>>) = {} /\ (AskedIn(<<Write(m), step>>) <=> step = Dispatch(InitialState))
  <2>1. /\ DOMAIN <<Write(m), step>> = {1, 2}
        /\ <<Write(m), step>>[1] = Write(m) /\ <<Write(m), step>>[2] = step
    OBVIOUS
  <2>2. /\ Write(m).do # "dispatch" /\ Write(m) # Dispatch(InitialState)
        /\ step.do = "dispatch" => step.id = InitialState
    BY <1>1, TagsDiffer DEF Write, Close, Dispatch
  <2> QED
    BY <2>1, <2>2 DEF WaitingIn, AskedIn
<1> QED
  BY <1>1, TagsDiffer

(* A frame that is read is owed an answer, unless it cannot be parsed.     *)
LEMMA ReadKept ==
  ASSUME TypeOK, NEW c \in Client, Conn(c), ReadFrame(c)
  PROVE  Conn(c)'
<1> DEFINE r == read[c] + 1
<1>1. /\ session'[c] = session[c] /\ sent' = sent /\ cursor'[c] = cursor[c]
      /\ lane'[c] = lane[c] /\ running'[c] = running[c] /\ ran'[c] = ran[c]
      /\ forwarders'[c] = forwarders[c] /\ out'[c] = out[c] /\ broken' = broken /\ gone' = gone
      /\ answers'[c] = answers[c] /\ latest'[c] = latest[c] /\ snapshot' = snapshot
  BY DEF ReadFrame
<1>2. /\ session[c] = "open" /\ todo[c] = << >> /\ read[c] < Len(sent[c])
      /\ read'[c] = r /\ todo'[c] = Handling(c, r)
      /\ subscribed'[c] = (subscribed[c] \/ sent[c][r] = "subscribe")
  BY DEF TypeOK, ReadFrame, InLoop
<1>3. read[c] \in Nat /\ Len(sent[c]) \in Nat /\ Len(sent[c]) <= MaxFrames /\ r \in 1 .. Len(sent[c])
  <2>1. read[c] \in 0 .. MaxFrames /\ sent[c] \in Seq(Frame) /\ Len(sent[c]) <= MaxFrames
    BY DEF TypeOK, Request, Conn, Loop
  <2> QED
    BY <1>2, <2>1, DepthAssumption DEF DepthAssumption
<1>4. sent[c][r] \in Frame
  BY <1>3 DEF TypeOK
<1> HIDE DEF r
<1>5. \/ sent[c][r] \in Command /\ todo'[c] = <<Dispatch(r)>>
      \/ sent[c][r] = "subscribe" /\ subscribed[c] /\ todo'[c] = <<Write(Answer(r))>>
      \/ sent[c][r] = "subscribe" /\ ~subscribed[c] /\ todo'[c] = <<Write(Answer(r)), Dispatch(InitialState)>>
      \/ sent[c][r] = "invalid" /\ todo'[c] = <<Write(Answer(r)), Close>>
      \/ sent[c][r] = "malformed" /\ todo'[c] = <<Close>>
      \/ sent[c][r] = "blank" /\ todo'[c] = << >>
  BY <1>2, <1>4 DEF Handling, Subscribing, Frame, Command
<1>6. r > read[c] /\ \A i \in 1 .. r : i = r \/ i \in 1 .. read[c]
  BY <1>3 DEF r
<1>7. /\ \A i \in 1 .. read[c] : ~Owing(c, i) /\ ~Owing(c, i)'
      /\ \A i : ~Owing(c, i)
      /\ \A i : Owing(c, i)' => i = r
      /\ \A i : i = r /\ sent[c][i] \in Answerable => Owing(c, i)'
  <2>1. \A i : ~Owing(c, i)
    BY <1>2 DEF Owing
  <2>2. \A i : Owing(c, i)' => i = r
    BY <1>2 DEF Owing
  <2>3. \A i : i = r /\ sent[c][i] \in Answerable => Owing(c, i)'
    <3>1. ASSUME sent[c][r] \notin {"malformed", "blank"}
          PROVE  todo'[c] # << >> /\ Head(todo'[c]) \in {Write(Answer(r)), Dispatch(r)}
      BY <1>5, <3>1, Tuples
    <3> QED
      BY <1>2, <3>1 DEF Owing, Answerable
  <2> QED
    BY <1>3, <1>6, <2>1, <2>2, <2>3
<1>8. Shape(c)'
  BY <1>1, <1>2, <1>3, <1>5 DEF Shape
<1>9. Loop(c)'
  BY <1>1, <1>2, <1>3 DEF Conn, Loop
<1>10. OutOnce(c)' /\ ForwardOnce(c)'
  <2>1. \A i \in 1 .. read[c] : i \in 1 .. r
    BY <1>3, <1>6
  <2> QED
    BY <1>1, <1>2, <1>7, <2>1 DEF Conn, Accounts, OutOnce, ForwardOnce
<1>11. AnswerOnce(c)'
  BY <1>1, <1>2, <1>3, <1>6, <1>7 DEF Conn, Accounts, AnswerOnce
<1>12. Owed(c)'
  BY <1>1, <1>2, <1>6, <1>7 DEF Conn, Accounts, Owed
<1>13. /\ Asked(c)' <=> sent[c][r] = "subscribe" /\ ~subscribed[c]
       /\ ~Asked(c)
       /\ Waiting(c) = {} /\ Waiting(c)' = IF sent[c][r] \in Command THEN {r} ELSE {}
  <2>1. Waiting(c) = {} /\ ~Asked(c)
    BY <1>2, NothingWaits DEF Waiting, WaitingIn, Asked, AskedIn
  <2>2. Waiting(c)' = WaitingIn(todo'[c]) /\ (Asked(c)' <=> AskedIn(todo'[c]))
    BY DEF Waiting, WaitingIn, Asked, AskedIn
  <2>3. r # InitialState
    BY <1>3 DEF InitialState
  <2> QED
    BY <1>5, <2>1, <2>2, <2>3, NothingWaits, DispatchWaits, OthersDoNotWait, PairsWait DEF Command
<1>14. FirstOnce(c)'
  BY <1>1, <1>2, <1>13 DEF Conn, FirstOnce, InLane, Fetching, NoFirst
<1>15. Versions(c)'
  BY <1>1 DEF Conn, Versions
<1>16. Newest(c)'
  BY <1>1, <1>2, <1>13, Tuples DEF Conn, Newest, Carried, InLane
<1>17. Ordered(c)'
  <2>1. Line(c)' = Line(c)
    BY <1>1 DEF Line
  <2>2. Line(c) \in Seq(Request)
    BY DEF TypeOK, Line
  <2>3. \A k \in DOMAIN Line(c) : Line(c)[k] < r
    <3>1. \A k \in DOMAIN Line(c) : Line(c)[k] \in 0 .. MaxFrames
      BY <2>2, Elements DEF Request
    <3>2. \A k \in DOMAIN Line(c) : Line(c)[k] # 0 => Line(c)[k] <= read[c]
      BY <3>1, DepthAssumption DEF DepthAssumption, Conn, Ordered
    <3> QED
      BY <1>3, <1>6, <3>1, <3>2, DepthAssumption DEF DepthAssumption
  <2>4. \A i \in 1 .. MaxFrames : i <= r <=> i = r \/ i <= read[c]
    BY <1>3 DEF r
  <2> QED
    BY <1>1, <1>2, <1>3, <1>6, <1>13, <2>1, <2>3, <2>4 DEF Conn, Ordered
<1> QED
  BY <1>8, <1>9, <1>10, <1>11, <1>12, <1>14, <1>15, <1>16, <1>17 DEF Conn, Accounts

(* A broadcast is forwarded as it is the newest, or another one is to      *)
(* come.                                                                   *)
LEMMA BroadcastKept ==
  ASSUME TypeOK, NEW c \in Client, Conn(c), ForwardBroadcast(c)
  PROVE  Conn(c)'
<1>1. /\ session'[c] = session[c] /\ sent' = sent /\ read'[c] = read[c] /\ subscribed'[c] = subscribed[c]
      /\ lane'[c] = lane[c] /\ running'[c] = running[c] /\ ran'[c] = ran[c]
      /\ forwarders'[c] = forwarders[c] /\ out'[c] = out[c] /\ broken' = broken /\ gone' = gone
      /\ answers'[c] = answers[c] /\ latest'[c] = latest[c] /\ snapshot' = snapshot
  BY DEF ForwardBroadcast
<1>2. session[c] = "open" /\ todo[c] = << >> /\ subscribed[c] /\ cursor[c] <= snapshot
  BY DEF ForwardBroadcast, InLoop
<1>3. snapshot \in Nat \ {0} /\ cursor[c] \in Nat /\ Oldest \in 1 .. snapshot
  BY DepthAssumption DEF DepthAssumption, TypeOK, Version, Oldest, Conn, Versions
<1>4. \/ cursor'[c] = Oldest /\ todo'[c] = << >>
      \/ /\ cursor[c] \in 1 .. snapshot /\ cursor'[c] = cursor[c] + 1
         /\ todo'[c] = <<Write(State(cursor[c]))>>
  <2>1. CASE cursor[c] < Oldest
    BY <1>2, <2>1 DEF ForwardBroadcast, Receive, TypeOK
  <2>2. CASE ~(cursor[c] < Oldest)
    <3>1. /\ todo' = [todo EXCEPT ![c] = <<Write(State(cursor[c]))>>]
          /\ cursor' = [cursor EXCEPT ![c] = @ + 1]
      BY <2>2 DEF ForwardBroadcast, Receive
    <3> QED
      BY <1>2, <1>3, <2>2, <3>1 DEF TypeOK
  <2> QED
    BY <2>1, <2>2
<1>5. \A i : ~Owing(c, i) /\ ~Owing(c, i)'
  BY <1>1, <1>2, <1>4, Tuples, TagsDiffer DEF Owing
<1>6. ~Asked(c) /\ ~Asked(c)' /\ Waiting(c) = {} /\ Waiting(c)' = {}
  <2>1. Waiting(c) = WaitingIn(todo[c]) /\ (Asked(c) <=> AskedIn(todo[c]))
    BY DEF Waiting, WaitingIn, Asked, AskedIn
  <2>2. Waiting(c)' = WaitingIn(todo'[c]) /\ (Asked(c)' <=> AskedIn(todo'[c]))
    BY DEF Waiting, WaitingIn, Asked, AskedIn
  <2> QED
    BY <1>2, <1>4, <2>1, <2>2, NothingWaits, OthersDoNotWait
<1>7. Shape(c)'
  BY <1>1, <1>2, <1>4 DEF Shape
<1>8. Loop(c)'
  BY <1>1 DEF Conn, Loop
<1>9. Accounts(c)'
  BY <1>1, <1>5 DEF Conn, Accounts, OutOnce, ForwardOnce, AnswerOnce, Owed
<1>10. FirstOnce(c)'
  BY <1>1, <1>6 DEF Conn, FirstOnce, InLane, Fetching, NoFirst
<1>11. Versions(c)'
  BY <1>1, <1>3, <1>4 DEF Conn, Versions
<1>12. Newest(c)'
  <2> SUFFICES ASSUME cursor'[c] > snapshot PROVE todo'[c] = <<Write(State(snapshot))>>
    BY <1>1 DEF Newest, Carried
  <2> QED
    BY <1>3, <1>4
<1>13. Ordered(c)'
  BY <1>1, <1>6 DEF Conn, Ordered, Line
<1> QED
  BY <1>7, <1>8, <1>9, <1>10, <1>11, <1>12, <1>13 DEF Conn

(* What is to be done when something is.                                   *)
LEMMA HeadIs ==
  ASSUME NEW c \in Client, Shape(c), todo[c] # << >>
  PROVE  /\ session[c] = "open"
         /\ \/ /\ Head(todo[c]) = Dispatch(read[c]) /\ Tail(todo[c]) = << >>
               /\ read[c] \in 1 .. Len(sent[c]) /\ sent[c][read[c]] \in Command
               /\ todo[c] = <<Dispatch(read[c])>>
            \/ /\ Head(todo[c]) = Write(Answer(read[c]))
               /\ read[c] \in 1 .. Len(sent[c]) /\ sent[c][read[c]] \in {"subscribe", "invalid"}
               /\ \/ sent[c][read[c]] = "subscribe" /\ Tail(todo[c]) \in {<< >>, <<Dispatch(InitialState)>>}
                  \/ sent[c][read[c]] = "invalid" /\ Tail(todo[c]) = <<Close>>
               /\ todo[c] \in {<<Write(Answer(read[c]))>>, <<Write(Answer(read[c])), Dispatch(InitialState)>>,
                               <<Write(Answer(read[c])), Close>>}
            \/ /\ Head(todo[c]) = Close /\ todo[c] = <<Close>>
               /\ sent[c][read[c]] \in {"invalid", "malformed"}
            \/ /\ Head(todo[c]) = Dispatch(InitialState) /\ Tail(todo[c]) = << >>
               /\ todo[c] = <<Dispatch(InitialState)>>
            \/ /\ Tail(todo[c]) = << >>
               /\ \E v \in 1 .. snapshot : Head(todo[c]) = Write(State(v)) /\ todo[c] = <<Write(State(v))>>
  BY Tuples DEF Shape

LEMMA CloseKept ==
  ASSUME TypeOK, NEW c \in Client, Conn(c), CloseNext(c)
  PROVE  Conn(c)'
<1>1. /\ sent' = sent /\ read'[c] = read[c] /\ subscribed'[c] = subscribed[c] /\ cursor'[c] = cursor[c]
      /\ lane'[c] = lane[c] /\ running'[c] = running[c] /\ ran'[c] = ran[c]
      /\ forwarders'[c] = forwarders[c] /\ out'[c] = out[c] /\ broken' = broken /\ gone' = gone
      /\ answers'[c] = answers[c] /\ latest'[c] = latest[c] /\ snapshot' = snapshot
  BY DEF CloseNext
<1>2. todo'[c] = << >> /\ session'[c] = "closing"
  BY DEF TypeOK, CloseNext
<1>3. todo[c] = <<Close>>
  <2>1. Shape(c) /\ todo[c] # << >> /\ Head(todo[c]).do = "close"
    BY DEF Conn, CloseNext
  <2> QED
    BY <2>1, HeadIs, Tags
<1>4. \A i : ~Owing(c, i) /\ ~Owing(c, i)'
  BY <1>2, <1>3, Tuples, TagsDiffer DEF Owing
<1>5. ~Asked(c) /\ ~Asked(c)' /\ Waiting(c) = {} /\ Waiting(c)' = {}
  <2>1. Waiting(c) = WaitingIn(todo[c]) /\ (Asked(c) <=> AskedIn(todo[c]))
    BY DEF Waiting, WaitingIn, Asked, AskedIn
  <2>2. Waiting(c)' = WaitingIn(todo'[c]) /\ (Asked(c)' <=> AskedIn(todo'[c]))
    BY DEF Waiting, WaitingIn, Asked, AskedIn
  <2> QED
    BY <1>2, <1>3, <2>1, <2>2, NothingWaits, OthersDoNotWait
<1>6. Shape(c)' /\ Loop(c)'
  BY <1>1, <1>2 DEF Conn, Shape, Loop
<1>7. Accounts(c)'
  BY <1>1, <1>4 DEF Conn, Accounts, OutOnce, ForwardOnce, AnswerOnce, Owed
<1>8. FirstOnce(c)'
  BY <1>1, <1>5 DEF Conn, FirstOnce, InLane, Fetching, NoFirst
<1>9. Versions(c)'
  BY <1>1 DEF Conn, Versions
<1>10. Newest(c)'
  <2>1. todo[c] # <<Write(State(snapshot))>>
    BY <1>3, Tuples, TagsDiffer
  <2> QED
    BY <1>1, <1>5, <2>1 DEF Conn, Newest, Carried, InLane
<1>11. Ordered(c)'
  BY <1>1, <1>5 DEF Conn, Ordered, Line
<1> QED
  BY <1>6, <1>7, <1>8, <1>9, <1>10, <1>11 DEF Conn

(* A message is queued at the end, or given up for a client that is gone.  *)
LEMMA QueueIs ==
  ASSUME TypeOK, NEW c \in Client, NEW m, Queue(c, m)
  PROVE  /\ DOMAIN out[c] = 1 .. Len(out[c]) /\ Len(out[c]) \in Nat
         /\ \/ c \in broken /\ out'[c] = out[c]
            \/ /\ c \notin broken /\ out'[c] = Append(out[c], m)
               /\ DOMAIN out'[c] = 1 .. Len(out[c]) + 1 /\ out'[c][Len(out[c]) + 1] = m
               /\ \A k \in 1 .. Len(out[c]) : out'[c][k] = out[c][k]
<1>1. out[c] \in Seq(Message)
  BY DEF TypeOK
<1>2. CASE c \in broken /\ UNCHANGED out
  BY <1>1, <1>2
<1>3. CASE c \notin broken /\ out' = [out EXCEPT ![c] = Append(@, m)]
  <2>1. out'[c] = Append(out[c], m)
    BY <1>3 DEF TypeOK
  <2> QED
    BY <1>1, <1>3, <2>1
<1> QED
  BY <1>2, <1>3 DEF Queue

LEMMA WriteKept ==
  ASSUME TypeOK, NEW c \in Client, Conn(c), WriteNext(c)
  PROVE  Conn(c)'
<1> DEFINE n == Len(out[c])
<1>1. /\ session'[c] = session[c] /\ sent' = sent /\ read'[c] = read[c] /\ subscribed'[c] = subscribed[c]
      /\ cursor'[c] = cursor[c] /\ lane'[c] = lane[c] /\ running'[c] = running[c] /\ ran'[c] = ran[c]
      /\ forwarders'[c] = forwarders[c] /\ broken' = broken /\ gone' = gone
      /\ answers'[c] = answers[c] /\ latest'[c] = latest[c] /\ snapshot' = snapshot
  BY DEF WriteNext
<1>2. Shape(c) /\ todo[c] # << >> /\ Head(todo[c]).do = "write" /\ todo'[c] = Tail(todo[c])
  BY DEF TypeOK, WriteNext, Conn
<1> DEFINE m == Head(todo[c]).msg
<1>3. Queue(c, m)
  BY DEF WriteNext
<1> HIDE DEF m
<1>4. \/ /\ m = Answer(read[c]) /\ read[c] \in 1 .. Len(sent[c])
         /\ sent[c][read[c]] \in {"subscribe", "invalid"}
         /\ \/ sent[c][read[c]] = "subscribe" /\ todo'[c] \in {<< >>, <<Dispatch(InitialState)>>}
            \/ sent[c][read[c]] = "invalid" /\ todo'[c] = <<Close>>
         /\ todo[c] \in {<<Write(m)>>, <<Write(m), Dispatch(InitialState)>>, <<Write(m), Close>>}
      \/ /\ \E v \in 1 .. snapshot : m = State(v)
         /\ todo[c] = <<Write(m)>> /\ todo'[c] = << >>
  BY <1>2, HeadIs, Tags DEF m
<1>5. session[c] = "open"
  BY <1>2, HeadIs
<1>6. /\ Waiting(c)' = Waiting(c) /\ (Asked(c)' <=> Asked(c))
  <2>1. Waiting(c) = WaitingIn(todo[c]) /\ (Asked(c) <=> AskedIn(todo[c]))
    BY DEF Waiting, WaitingIn, Asked, AskedIn
  <2>2. Waiting(c)' = WaitingIn(todo'[c]) /\ (Asked(c)' <=> AskedIn(todo'[c]))
    BY DEF Waiting, WaitingIn, Asked, AskedIn
  <2>3. CASE todo[c] = <<Write(m)>> /\ todo'[c] = << >>
    BY <2>1, <2>2, <2>3, NothingWaits, OthersDoNotWait
  <2>4. CASE todo[c] = <<Write(m), Dispatch(InitialState)>> /\ todo'[c] = <<Dispatch(InitialState)>>
    BY <2>1, <2>2, <2>4, PairsWait, DispatchWaits
  <2>5. CASE todo[c] = <<Write(m), Close>> /\ todo'[c] = <<Close>>
    BY <2>1, <2>2, <2>5, PairsWait, OthersDoNotWait
  <2> QED
    BY <1>2, <1>4, <2>3, <2>4, <2>5, Tuples
<1>7. \A i : Owing(c, i) <=> i = read[c] /\ m = Answer(i)
  BY <1>2, <1>4, TagsDiffer DEF Owing
<1>8. \A i \in 1 .. read[c] : ~Owing(c, i)'
  <2>1. todo'[c] = << >> \/ Head(todo'[c]) \in {Dispatch(InitialState), Close}
    BY <1>4, Tuples
  <2>2. \A i \in 1 .. read[c] : i # InitialState
    BY DEF InitialState
  <2> QED
    BY <2>1, <2>2, TagsDiffer DEF Owing
<1>9. /\ DOMAIN out[c] = 1 .. n /\ n \in Nat
      /\ \/ c \in broken /\ out'[c] = out[c]
         \/ /\ c \notin broken /\ DOMAIN out'[c] = 1 .. n + 1 /\ out'[c][n + 1] = m
            /\ \A k \in 1 .. n : out'[c][k] = out[c][k]
  BY <1>3, QueueIs
<1> HIDE DEF n
<1>10. Shape(c)'
  BY <1>1, <1>4, <1>5 DEF Shape
<1>11. Loop(c)'
  BY <1>1, <1>5 DEF Conn, Loop
<1>12. ForwardOnce(c)'
  BY <1>1, <1>8 DEF Conn, Accounts, ForwardOnce
<1>13. AnswerOnce(c)'
  <2>1. \A i \in 1 .. MaxFrames : i <= read[c] => i \in 1 .. read[c]
    BY DEF TypeOK, Request
  <2> QED
    BY <1>1, <1>8, <2>1 DEF Conn, Accounts, AnswerOnce
<1>14. ASSUME m = Answer(read[c]), read[c] \in 1 .. Len(sent[c]), sent[c][read[c]] \in {"subscribe", "invalid"}
       PROVE  OutOnce(c)' /\ Owed(c)' /\ Versions(c)' /\ Newest(c)'
  <2>1. Owing(c, read[c]) /\ m.kind = "answer" /\ m.n = read[c] /\ sent[c][read[c]] \in Answerable
    BY <1>7, <1>14 DEF Answer, Answerable, Frame
  <2>2. answers[c][read[c]] = 0 /\ read[c] \in 1 .. read[c]
    <3>1. read[c] \in 1 .. MaxFrames /\ answers[c] \in [1 .. MaxFrames -> Nat]
      <4>1. read[c] \in 0 .. MaxFrames /\ answers[c] \in [1 .. MaxFrames -> Nat]
        BY DEF TypeOK, Request
      <4> QED
        BY <1>14, <4>1, DepthAssumption DEF DepthAssumption
    <3>2. answers[c][read[c]] <= 1 /\ answers[c][read[c]] # 1 /\ answers[c][read[c]] \in Nat
      BY <2>1, <3>1 DEF Conn, Accounts, AnswerOnce
    <3> QED
      BY <3>1, <3>2
  <2>3. \A f \in forwarders[c] : f.id # read[c]
    <3>1. read[c] # InitialState
      BY <2>2 DEF InitialState
    <3> QED
      BY <2>1, <3>1 DEF Conn, Accounts, ForwardOnce
  <2>4. \A k \in DOMAIN out[c] : out[c][k] # m
    BY <2>1 DEF Conn, Accounts, OutOnce
  <2>5. OutOnce(c)'
    <3>1. CASE out'[c] = out[c]
      BY <1>1, <1>8, <3>1 DEF Conn, Accounts, OutOnce
    <3>2. CASE /\ DOMAIN out'[c] = 1 .. n + 1 /\ out'[c][n + 1] = m
               /\ \A k \in 1 .. n : out'[c][k] = out[c][k]
      <4>1. \A j, k \in DOMAIN out'[c] : out'[c][j].kind = "answer" /\ out'[c][j] = out'[c][k] => j = k
        <5>1. \A j, k \in 1 .. n : out[c][j].kind = "answer" /\ out[c][j] = out[c][k] => j = k
          BY <1>9 DEF Conn, Accounts, OutOnce
        <5>2. \A k \in 1 .. n : out[c][k] # m
          BY <1>9, <2>4
        <5> SUFFICES ASSUME NEW j \in 1 .. n + 1, NEW k \in 1 .. n + 1,
                            out'[c][j].kind = "answer", out'[c][j] = out'[c][k]
                     PROVE  j = k
          BY <3>2
        <5>3. CASE j \in 1 .. n /\ k \in 1 .. n
          BY <3>2, <5>1, <5>3
        <5>4. CASE j = n + 1 \/ k = n + 1
          BY <1>9, <3>2, <5>2, <5>4
        <5> QED
          BY <1>9, <5>3, <5>4
      <4>2. ASSUME NEW k \in DOMAIN out'[c], out'[c][k].kind = "answer"
            PROVE  /\ out'[c][k].n \in 1 .. read[c] /\ sent[c][out'[c][k].n] \in Answerable
                   /\ answers[c][out'[c][k].n] = 0
                   /\ \A f \in forwarders[c] : f.id # out'[c][k].n
        <5>1. CASE k = n + 1
          BY <2>1, <2>2, <2>3, <3>2, <5>1
        <5>2. CASE k \in 1 .. n
          BY <1>9, <3>2, <4>2, <5>2 DEF Conn, Accounts, OutOnce
        <5> QED
          BY <1>9, <3>2, <5>1, <5>2
      <4> QED
        BY <1>1, <1>8, <4>1, <4>2 DEF OutOnce
    <3> QED
      BY <1>9, <3>1, <3>2
  <2>6. Owed(c)'
    <3>1. \A i : Owing(c, i) => m = Answer(i)
      BY <1>7
    <3>2. Owed(c)
      BY DEF Conn, Accounts
    <3> QED
      BY <1>1, <1>9, <3>1, <3>2 DEF Owed
  <2>7. Versions(c)'
    BY <1>1, <1>9, <2>1 DEF Conn, Versions
  <2>8. Newest(c)'
    <3>1. todo[c] # <<Write(State(snapshot))>>
      BY <1>4, <1>14, Tuples, TagsDiffer
    <3> QED
      BY <1>1, <1>6, <1>9, <3>1 DEF Conn, Newest, Carried, InLane
  <2> QED
    BY <2>5, <2>6, <2>7, <2>8
<1>15. ASSUME \E v \in 1 .. snapshot : m = State(v) /\ todo[c] = <<Write(m)>>
       PROVE  OutOnce(c)' /\ Owed(c)' /\ Versions(c)' /\ Newest(c)'
  <2>1. PICK v \in 1 .. snapshot : m = State(v) /\ todo[c] = <<Write(m)>>
    BY <1>15
  <2>2. m.kind = "state" /\ m.n = v
    BY <2>1 DEF State
  <2>3. \A i : ~Owing(c, i)
    BY <1>7, <2>1, TagsDiffer
  <2>4. OutOnce(c)'
    <3>1. CASE out'[c] = out[c]
      BY <1>1, <1>8, <3>1 DEF Conn, Accounts, OutOnce
    <3>2. CASE /\ DOMAIN out'[c] = 1 .. n + 1 /\ out'[c][n + 1] = m
               /\ \A k \in 1 .. n : out'[c][k] = out[c][k]
      <4>1. \A k \in DOMAIN out'[c] : out'[c][k].kind = "answer" => k \in DOMAIN out[c] /\ out'[c][k] = out[c][k]
        BY <1>9, <2>2, <3>2
      <4> QED
        BY <1>1, <1>8, <4>1 DEF Conn, Accounts, OutOnce
    <3> QED
      BY <1>9, <3>1, <3>2
  <2>5. Owed(c)'
    BY <1>1, <1>9, <2>3 DEF Conn, Accounts, Owed
  <2>6. Versions(c)'
    BY <1>1, <1>9, <2>1, <2>2 DEF Conn, Versions
  <2>7. Newest(c)'
    <3>1. todo[c] = <<Write(State(snapshot))>> => m = State(snapshot)
      BY <2>1, Tuples, TagsDiffer
    <3> QED
      BY <1>1, <1>6, <1>9, <3>1 DEF Conn, Newest, Carried, InLane
  <2> QED
    BY <2>4, <2>5, <2>6, <2>7
<1>16. OutOnce(c)' /\ Owed(c)' /\ Versions(c)' /\ Newest(c)'
  BY <1>4, <1>14, <1>15
<1>17. FirstOnce(c)'
  BY <1>1, <1>6 DEF Conn, FirstOnce, InLane, Fetching, NoFirst
<1>18. Ordered(c)'
  BY <1>1, <1>6 DEF Conn, Ordered, Line
<1> QED
  BY <1>10, <1>11, <1>12, <1>13, <1>16, <1>17, <1>18 DEF Conn, Accounts

LEMMA AtTheEnd ==
  ASSUME NEW S, NEW s \in Seq(S), NEW x \in S
  PROVE  /\ DOMAIN s = 1 .. Len(s) /\ Len(s) \in Nat
         /\ DOMAIN Append(s, x) = 1 .. Len(s) + 1 /\ Append(s, x)[Len(s) + 1] = x
         /\ \A k \in 1 .. Len(s) : Append(s, x)[k] = s[k]
  OBVIOUS

(* A command joins the line behind those that were there.                  *)
LEMMA DispatchOrdered ==
  ASSUME TypeOK, NEW c \in Client, Conn(c), NEW d \in Request,
         sent' = sent, read'[c] = read[c], ran'[c] = ran[c], lane'[c] = Append(lane[c], d),
         Waiting(c) = {d} \ {InitialState}, Waiting(c)' = {}
  PROVE  Ordered(c)'
<1> DEFINE n == Len(Line(c))
<1>1. Line(c) \in Seq(Request) /\ Line(c)' = Append(Line(c), d)
  BY DEF TypeOK, Line
<1>2. /\ DOMAIN Line(c) = 1 .. n /\ n \in Nat
      /\ DOMAIN Line(c)' = 1 .. n + 1 /\ (Line(c)')[n + 1] = d
      /\ \A k \in 1 .. n : (Line(c)')[k] = Line(c)[k]
  BY <1>1, AtTheEnd
<1> HIDE DEF n
<1>3. /\ \A j, k \in DOMAIN Line(c) :
           j < k /\ InitialState \notin {Line(c)[j], Line(c)[k]} => Line(c)[j] < Line(c)[k]
      /\ \A k \in DOMAIN Line(c) : d # InitialState => Line(c)[k] < d
      /\ \A i \in 1 .. MaxFrames :
           (i = d /\ i # InitialState) \/ (\E k \in DOMAIN Line(c) : Line(c)[k] = i)
             <=> i <= read[c] /\ sent[c][i] \in Command
  BY DEF Conn, Ordered
<1>4. \A j, k \in DOMAIN Line(c)' :
        j < k /\ InitialState \notin {(Line(c)')[j], (Line(c)')[k]} => (Line(c)')[j] < (Line(c)')[k]
  BY <1>2, <1>3
<1>5. ASSUME NEW i \in 1 .. MaxFrames
      PROVE  (\E k \in DOMAIN Line(c)' : (Line(c)')[k] = i) <=> i <= read[c] /\ sent[c][i] \in Command
  <2>1. i # InitialState
    BY DEF InitialState
  <2> QED
    BY <1>2, <1>3, <2>1
<1> QED
  BY <1>4, <1>5 DEF Ordered

LEMMA DispatchKept ==
  ASSUME TypeOK, NEW c \in Client, Conn(c), DispatchNext(c)
  PROVE  Conn(c)'
<1> DEFINE d == Head(todo[c]).id
           g == [id |-> d, result |-> Pending]
           n == Len(lane[c])
<1>1. /\ session'[c] = session[c] /\ sent' = sent /\ read'[c] = read[c] /\ subscribed'[c] = subscribed[c]
      /\ cursor'[c] = cursor[c] /\ running'[c] = running[c] /\ ran'[c] = ran[c]
      /\ out'[c] = out[c] /\ broken' = broken /\ gone' = gone
      /\ answers'[c] = answers[c] /\ latest'[c] = latest[c] /\ snapshot' = snapshot
  BY DEF DispatchNext
<1>2. /\ Shape(c) /\ todo[c] # << >> /\ Head(todo[c]).do = "dispatch" /\ todo'[c] = Tail(todo[c])
      /\ lane'[c] = Append(lane[c], d) /\ forwarders'[c] = forwarders[c] \cup {g}
  BY DEF TypeOK, DispatchNext, JoinLane, Conn
<1>3. g.id = d /\ g.result = Pending /\ \A i : (g = [id |-> i, result |-> Pending]) <=> d = i
  OBVIOUS
<1>4. session[c] = "open" /\ todo'[c] = << >>
  BY <1>2, HeadIs, Tags
<1>5. \/ todo[c] = <<Dispatch(d)>> /\ d = read[c] /\ read[c] \in 1 .. Len(sent[c]) /\ sent[c][d] \in Command
      \/ todo[c] = <<Dispatch(d)>> /\ d = InitialState
  BY <1>2, HeadIs, Tags
<1> HIDE DEF d, g
<1>6. d \in Request /\ read[c] \in 0 .. MaxFrames /\ lane[c] \in Seq(Request)
  BY <1>5, DepthAssumption DEF DepthAssumption, TypeOK, Request, InitialState
<1>7. /\ DOMAIN lane[c] = 1 .. n /\ n \in Nat
      /\ DOMAIN lane'[c] = 1 .. n + 1 /\ lane'[c][n + 1] = d
      /\ \A k \in 1 .. n : lane'[c][k] = lane[c][k]
  BY <1>2, <1>6, AtTheEnd
<1> HIDE DEF n
<1>8. /\ Waiting(c) = {d} \ {InitialState} /\ Waiting(c)' = {}
      /\ Asked(c) <=> d = InitialState
      /\ ~Asked(c)'
  <2>1. Waiting(c) = WaitingIn(todo[c]) /\ (Asked(c) <=> AskedIn(todo[c]))
    BY DEF Waiting, WaitingIn, Asked, AskedIn
  <2>2. Waiting(c)' = WaitingIn(todo'[c]) /\ (Asked(c)' <=> AskedIn(todo'[c]))
    BY DEF Waiting, WaitingIn, Asked, AskedIn
  <2> QED
    BY <1>4, <1>5, <2>1, <2>2, NothingWaits, DispatchWaits
<1>9. /\ \A i \in 1 .. read[c] : Owing(c, i) <=> i = d
      /\ \A i : ~Owing(c, i)'
  <2>1. \A i : Owing(c, i) <=> i = read[c] /\ i = d
    BY <1>5, Tuples, TagsDiffer DEF Owing
  <2>2. \A i \in 1 .. read[c] : i # InitialState
    BY DEF InitialState
  <2> QED
    BY <1>4, <1>5, <2>1, <2>2 DEF Owing
<1>10. Shape(c)' /\ Loop(c)'
  BY <1>1, <1>4 DEF Conn, Shape, Loop
<1>11. OutOnce(c)'
  BY <1>1, <1>2, <1>3, <1>9 DEF Conn, Accounts, OutOnce
<1>12. \A f \in forwarders[c] : f.id # d
  <2>1. CASE d = InitialState
    BY <1>8, <2>1 DEF Conn, FirstOnce, NoFirst
  <2>2. CASE d # InitialState
    BY <1>9, <2>2 DEF Conn, Accounts, ForwardOnce
  <2> QED
    BY <2>1, <2>2
<1>13. ForwardOnce(c)'
  <2>1. d # InitialState => d \in 1 .. read[c] /\ sent[c][d] \in Command /\ answers[c][d] = 0
    <3> SUFFICES ASSUME d # InitialState PROVE answers[c][d] = 0 /\ d \in 1 .. read[c] /\ sent[c][d] \in Command
      OBVIOUS
    <3>1. d = read[c] /\ d \in 1 .. MaxFrames /\ d \in 1 .. read[c] /\ sent[c][d] \in Command
      BY <1>5, <1>6, DepthAssumption DEF DepthAssumption
    <3>2. answers[c][d] <= 1 /\ answers[c][d] # 1 /\ answers[c][d] \in Nat
      BY <1>9, <3>1 DEF TypeOK, Conn, Accounts, AnswerOnce
    <3> QED
      BY <3>1, <3>2
  <2> QED
    BY <1>1, <1>2, <1>3, <1>9, <1>12, <2>1 DEF Conn, Accounts, ForwardOnce
<1>14. AnswerOnce(c)' /\ Owed(c)'
  BY <1>1, <1>2, <1>3, <1>9 DEF Conn, Accounts, AnswerOnce, Owed
<1>15. FirstOnce(c)'
  <2>1. InLane(c)' <=> InLane(c) \/ d = InitialState
    BY <1>7 DEF InLane
  <2>2. NoFirst(c)' <=> NoFirst(c) /\ d # InitialState
    BY <1>2, <1>3 DEF NoFirst
  <2>3. Fetching(c)' <=> Fetching(c)
    BY <1>1 DEF Fetching
  <2>4. \A j, k \in DOMAIN lane'[c] : lane'[c][j] = InitialState /\ lane'[c][k] = InitialState => j = k
    BY <1>7, <1>8 DEF Conn, FirstOnce, InLane
  <2>5. InLane(c)' \/ Fetching(c)' => [id |-> InitialState, result |-> Pending] \in forwarders'[c]
    BY <1>2, <1>3, <2>1, <2>3 DEF Conn, FirstOnce
  <2> QED
    BY <1>1, <1>8, <2>1, <2>2, <2>3, <2>4, <2>5 DEF Conn, FirstOnce
<1>16. Versions(c)'
  <2>1. g.result <= snapshot
    BY <1>3, DepthAssumption DEF DepthAssumption, Pending, TypeOK, Version
  <2> QED
    BY <1>1, <1>2, <2>1 DEF Conn, Versions
<1>17. Newest(c)'
  <2>1. Asked(c) => InLane(c)'
    BY <1>7, <1>8 DEF InLane
  <2>2. InLane(c) => InLane(c)'
    BY <1>7 DEF InLane
  <2>3. todo[c] # <<Write(State(snapshot))>>
    BY <1>5, Tuples, TagsDiffer
  <2> QED
    BY <1>1, <1>2, <2>1, <2>2, <2>3 DEF Conn, Newest, Carried
<1>18. Ordered(c)'
  BY <1>1, <1>2, <1>6, <1>8, DispatchOrdered
<1> QED
  BY <1>10, <1>11, <1>13, <1>14, <1>15, <1>16, <1>17, <1>18 DEF Conn, Accounts

LEMMA AtTheHead ==
  ASSUME NEW S, NEW s \in Seq(S), s # << >>
  PROVE  /\ DOMAIN s = 1 .. Len(s) /\ Len(s) \in Nat \ {0} /\ Head(s) = s[1] /\ Head(s) \in S
         /\ Tail(s) \in Seq(S) /\ Len(Tail(s)) = Len(s) - 1 /\ DOMAIN Tail(s) = 1 .. Len(s) - 1
         /\ \A k \in 1 .. Len(s) - 1 : Tail(s)[k] = s[k + 1]
  OBVIOUS

(* The command at the head of the lane becomes the last that was run.      *)
LEMMA HeadMoves ==
  ASSUME NEW S, NEW s \in Seq(S), NEW t \in Seq(S), t # << >>
  PROVE  Append(s, Head(t)) \o Tail(t) = s \o t
<1>1. /\ Append(s, Head(t)) \o Tail(t) \in Seq(S) /\ s \o t \in Seq(S)
      /\ Len(Append(s, Head(t)) \o Tail(t)) = Len(s) + Len(t) /\ Len(s \o t) = Len(s) + Len(t)
  BY AtTheHead
<1>2. ASSUME NEW k \in 1 .. Len(s) + Len(t)
      PROVE  (Append(s, Head(t)) \o Tail(t))[k] = (s \o t)[k]
  BY AtTheHead
<1> QED
  BY <1>1, <1>2

LEMMA HeadLeaves ==
  ASSUME NEW S, NEW s \in Seq(S), NEW t \in Seq(S), t # << >>
  PROVE  \E m \in Nat : \E n \in 1 .. m :
           /\ DOMAIN (s \o t) = 1 .. m /\ (s \o t)[n] = Head(t)
           /\ DOMAIN (s \o Tail(t)) = 1 .. m - 1
           /\ \A k \in 1 .. n - 1 : (s \o Tail(t))[k] = (s \o t)[k]
           /\ \A k \in n .. m - 1 : (s \o Tail(t))[k] = (s \o t)[k + 1]
<1> DEFINE n == Len(s) + 1
           m == Len(s) + Len(t)
<1>1. Len(s) \in Nat /\ Len(t) \in Nat \ {0} /\ DOMAIN s = 1 .. Len(s) /\ Tail(t) \in Seq(S)
      /\ Len(Tail(t)) = Len(t) - 1
  BY AtTheHead
<1>2. /\ DOMAIN (s \o t) = 1 .. m /\ n \in 1 .. m /\ (s \o t)[n] = Head(t)
      /\ DOMAIN (s \o Tail(t)) = 1 .. m - 1
      /\ \A k \in 1 .. Len(s) : (s \o Tail(t))[k] = (s \o t)[k]
      /\ \A k \in n .. m - 1 : (s \o Tail(t))[k] = (s \o t)[k + 1]
  BY <1>1, AtTheHead
<1>3. m \in Nat /\ n - 1 = Len(s)
  BY <1>1
<1> HIDE DEF n, m
<1> QED
  BY <1>2, <1>3

LEMMA RunOrdered ==
  ASSUME TypeOK, NEW c \in Client, Conn(c), lane[c] # << >>,
         sent' = sent, read'[c] = read[c], lane'[c] = Tail(lane[c]), Waiting(c)' = Waiting(c),
         ran'[c] = IF Head(lane[c]) = InitialState THEN ran[c] ELSE Append(ran[c], Head(lane[c]))
  PROVE  Ordered(c)'
<1>1. ran[c] \in Seq(Request) /\ lane[c] \in Seq(Request)
  BY DEF TypeOK
<1>2. CASE Head(lane[c]) # InitialState
  <2>1. Line(c)' = Line(c)
    BY <1>1, <1>2, HeadMoves DEF Line
  <2> QED
    BY <2>1 DEF Conn, Ordered
<1>3. CASE Head(lane[c]) = InitialState
  <2> DEFINE all == ran[c] \o lane[c]
             left == ran[c] \o Tail(lane[c])
  <2>1. \E m \in Nat : \E n \in 1 .. m :
          /\ DOMAIN all = 1 .. m /\ all[n] = Head(lane[c])
          /\ DOMAIN left = 1 .. m - 1
          /\ \A k \in 1 .. n - 1 : left[k] = all[k]
          /\ \A k \in n .. m - 1 : left[k] = all[k + 1]
    <3> DEFINE R(s, t) ==
          \E m \in Nat : \E n \in 1 .. m :
            /\ DOMAIN (s \o t) = 1 .. m /\ (s \o t)[n] = Head(t)
            /\ DOMAIN (s \o Tail(t)) = 1 .. m - 1
            /\ \A k \in 1 .. n - 1 : (s \o Tail(t))[k] = (s \o t)[k]
            /\ \A k \in n .. m - 1 : (s \o Tail(t))[k] = (s \o t)[k + 1]
    <3>1. \A S : \A s, t \in Seq(S) : t # << >> => R(s, t)
      BY HeadLeaves
    <3> HIDE DEF R
    <3>2. R(ran[c], lane[c])
      BY <1>1, <3>1
    <3> QED
      BY <3>2 DEF R
  <2>2. Line(c) = all /\ Line(c)' = left
    BY <1>3 DEF Line
  <2> HIDE DEF all, left
  <2>3. PICK m \in Nat : \E n \in 1 .. m :
          /\ DOMAIN all = 1 .. m /\ all[n] = InitialState
          /\ DOMAIN left = 1 .. m - 1
          /\ \A k \in 1 .. n - 1 : left[k] = all[k]
          /\ \A k \in n .. m - 1 : left[k] = all[k + 1]
    BY <1>3, <2>1
  <2>4. PICK n \in 1 .. m :
          /\ DOMAIN all = 1 .. m /\ all[n] = InitialState
          /\ DOMAIN left = 1 .. m - 1
          /\ \A k \in 1 .. n - 1 : left[k] = all[k]
          /\ \A k \in n .. m - 1 : left[k] = all[k + 1]
    BY <2>3
  <2>5. ASSUME NEW k \in DOMAIN left
        PROVE  \E l \in DOMAIN all : l = (IF k < n THEN k ELSE k + 1) /\ left[k] = all[l]
    BY <2>4
  <2>6. ASSUME NEW l \in DOMAIN all, all[l] # InitialState
        PROVE  \E k \in DOMAIN left : left[k] = all[l]
    <3>1. l \in 1 .. n - 1 \/ l \in n + 1 .. m
      BY <2>4, <2>6
    <3>2. CASE l \in 1 .. n - 1
      <4>1. l \in DOMAIN left
        BY <2>4, <3>2
      <4> QED
        BY <2>4, <3>2, <4>1
    <3>3. CASE l \in n + 1 .. m
      <4>1. l - 1 \in n .. m - 1 /\ l - 1 \in DOMAIN left /\ (l - 1) + 1 = l
        BY <2>4, <3>3
      <4> QED
        BY <2>4, <4>1
    <3> QED
      BY <3>1, <3>2, <3>3
  <2>7. /\ \A j, k \in DOMAIN all : j < k /\ InitialState \notin {all[j], all[k]} => all[j] < all[k]
        /\ \A i \in Waiting(c), k \in DOMAIN all : all[k] < i
        /\ \A i \in 1 .. MaxFrames :
             i \in Waiting(c) \/ (\E k \in DOMAIN all : all[k] = i) <=> i <= read[c] /\ sent[c][i] \in Command
    BY <2>2 DEF Conn, Ordered
  <2>8. \A j, k \in DOMAIN left : j < k /\ InitialState \notin {left[j], left[k]} => left[j] < left[k]
    <3> SUFFICES ASSUME NEW j \in DOMAIN left, NEW k \in DOMAIN left,
                        j < k, InitialState \notin {left[j], left[k]}
                 PROVE  left[j] < left[k]
      OBVIOUS
    <3>1. PICK u \in DOMAIN all : u = (IF j < n THEN j ELSE j + 1) /\ left[j] = all[u]
      BY <2>5
    <3>2. PICK v \in DOMAIN all : v = (IF k < n THEN k ELSE k + 1) /\ left[k] = all[v]
      BY <2>5
    <3>3. u < v
      BY <2>4, <3>1, <3>2
    <3> QED
      BY <2>7, <3>1, <3>2, <3>3
  <2>9. \A i \in Waiting(c), k \in DOMAIN left : left[k] < i
    BY <2>5, <2>7
  <2>10. ASSUME NEW i \in 1 .. MaxFrames
         PROVE  (\E k \in DOMAIN left : left[k] = i) <=> (\E l \in DOMAIN all : all[l] = i)
    <3>1. i # InitialState
      BY DEF InitialState
    <3> QED
      BY <2>5, <2>6, <3>1
  <2> QED
    BY <2>2, <2>7, <2>8, <2>9, <2>10 DEF Ordered
<1> QED
  BY <1>2, <1>3

LEMMA RunKept ==
  ASSUME TypeOK, NEW c \in Client, Conn(c), Run(c)
  PROVE  Conn(c)'
<1> DEFINE i == Head(lane[c])
           n == Len(lane[c])
<1>1. /\ session'[c] = session[c] /\ sent' = sent /\ read'[c] = read[c] /\ todo'[c] = todo[c]
      /\ subscribed'[c] = subscribed[c] /\ cursor'[c] = cursor[c]
      /\ forwarders'[c] = forwarders[c] /\ out'[c] = out[c] /\ broken' = broken /\ gone' = gone
      /\ answers'[c] = answers[c] /\ latest'[c] = latest[c]
  BY DEF Run
<1>2. /\ lane[c] # << >> /\ running[c] = Idle /\ lane'[c] = Tail(lane[c])
      /\ running'[c] = [id |-> i, result |-> snapshot']
      /\ ran'[c] = IF i = InitialState THEN ran[c] ELSE Append(ran[c], i)
  BY DEF TypeOK, Run
<1>3. snapshot' = snapshot \/ (snapshot' = snapshot + 1 /\ i # InitialState)
  BY DEF Run, Kind
<1>4. snapshot \in Nat \ {0} /\ snapshot' \in Nat \ {0} /\ cursor[c] \in Nat /\ latest[c] \in Nat
  BY <1>3, DepthAssumption DEF DepthAssumption, TypeOK, Version, Conn, Versions
<1>5. /\ DOMAIN lane[c] = 1 .. n /\ n \in Nat \ {0} /\ i = lane[c][1]
      /\ DOMAIN lane'[c] = 1 .. n - 1
      /\ \A k \in 1 .. n - 1 : lane'[c][k] = lane[c][k + 1]
  <2>1. lane[c] \in Seq(Request)
    BY DEF TypeOK
  <2> QED
    BY <1>2, <2>1, AtTheHead
<1> HIDE DEF i, n
<1>6. /\ ~Fetching(c) /\ (Fetching(c)' <=> i = InitialState)
      /\ InLane(c)' => InLane(c) /\ i # InitialState
      /\ i = InitialState => InLane(c)
      /\ InLane(c) /\ i # InitialState => InLane(c)'
      /\ Asked(c)' = Asked(c) /\ NoFirst(c)' = NoFirst(c)
  <2>1. ~Fetching(c)
    BY <1>2 DEF Fetching
  <2>2. running'[c] # Idle /\ running'[c].id = i
    BY <1>2, <1>4 DEF Idle, Pending
  <2>3. Fetching(c)' <=> i = InitialState
    BY <2>2 DEF Fetching, Idle
  <2>4. \A j, k \in DOMAIN lane[c] : lane[c][j] = InitialState /\ lane[c][k] = InitialState => j = k
    BY DEF Conn, FirstOnce
  <2>5. InLane(c)' => InLane(c) /\ i # InitialState
    <3> SUFFICES ASSUME NEW k \in DOMAIN lane'[c], lane'[c][k] = InitialState PROVE InLane(c) /\ i # InitialState
      BY DEF InLane
    <3>1. 1 \in DOMAIN lane[c] /\ k + 1 \in DOMAIN lane[c] /\ lane[c][k + 1] = InitialState /\ k + 1 # 1
      BY <1>5
    <3> QED
      BY <1>5, <2>4, <3>1 DEF InLane
  <2>6. i = InitialState => InLane(c)
    <3>1. 1 \in DOMAIN lane[c] /\ lane[c][1] = i
      BY <1>5
    <3> QED
      BY <3>1 DEF InLane
  <2>7. InLane(c) /\ i # InitialState => InLane(c)'
    <3> SUFFICES ASSUME i # InitialState, NEW k \in DOMAIN lane[c], lane[c][k] = InitialState PROVE InLane(c)'
      BY DEF InLane
    <3>1. k \in 1 .. n /\ k # 1
      BY <1>5
    <3>2. k - 1 \in 1 .. n - 1 /\ (k - 1) + 1 = k
      BY <1>5, <3>1
    <3>3. k - 1 \in DOMAIN lane'[c] /\ lane'[c][k - 1] = InitialState
      BY <1>5, <3>2
    <3> QED
      BY <3>3 DEF InLane
  <2> QED
    BY <1>1, <2>1, <2>3, <2>5, <2>6, <2>7 DEF Asked, NoFirst
<1>7. Shape(c)'
  BY <1>1, <1>3, <1>4 DEF Conn, Shape
<1>8. Loop(c)'
  BY <1>1, <1>2 DEF Conn, Loop
<1>9. Accounts(c)'
  BY <1>1 DEF Conn, Accounts, OutOnce, ForwardOnce, AnswerOnce, Owed, Owing
<1>10. FirstOnce(c)'
  <2>1. \A j, k \in DOMAIN lane'[c] : lane'[c][j] = InitialState /\ lane'[c][k] = InitialState => j = k
    <3>1. \A j, k \in DOMAIN lane[c] : lane[c][j] = InitialState /\ lane[c][k] = InitialState => j = k
      BY DEF Conn, FirstOnce
    <3>2. \A k \in DOMAIN lane'[c] : k \in Int /\ k + 1 \in DOMAIN lane[c] /\ lane'[c][k] = lane[c][k + 1]
      BY <1>5
    <3>3. \A j, k \in DOMAIN lane'[c] : lane'[c][j] = InitialState /\ lane'[c][k] = InitialState => j + 1 = k + 1
      BY <3>1, <3>2
    <3> QED
      BY <3>2, <3>3
  <2> QED
    BY <1>1, <1>6, <2>1 DEF Conn, FirstOnce
<1>11. Versions(c)'
  <2>1. running'[c].result \in 1 .. snapshot'
    BY <1>2, <1>4
  <2>2. \A k \in DOMAIN out[c] : out[c][k].n \in Nat
    <3>1. out[c] \in Seq(Message)
      BY DEF TypeOK
    <3> QED
      BY <3>1, Elements, MessagesAre
  <2>3. \A f \in forwarders[c] : f.result \in Int
    BY DepthAssumption DEF DepthAssumption, TypeOK, Pending, Version
  <2> QED
    BY <1>1, <1>3, <1>4, <2>1, <2>2, <2>3 DEF Conn, Versions
<1>12. Newest(c)'
  <2>1. CASE snapshot' = snapshot + 1
    BY <1>1, <1>4, <2>1 DEF Conn, Versions, Newest
  <2>2. CASE snapshot' = snapshot
    <3>1. running[c] # [id |-> InitialState, result |-> snapshot]
      BY <1>2, <1>4 DEF Idle, Pending
    <3>2. i = InitialState => running'[c] = [id |-> InitialState, result |-> snapshot]
      BY <1>2, <2>2
    <3> QED
      BY <1>1, <1>6, <2>2, <3>1, <3>2 DEF Conn, Newest, Carried
  <2> QED
    BY <1>3, <2>1, <2>2
<1>13. Ordered(c)'
  <2>1. Waiting(c)' = Waiting(c)
    BY <1>1 DEF Waiting
  <2> QED
    BY <1>1, <1>2, <2>1, RunOrdered DEF i
<1> QED
  BY <1>7, <1>8, <1>9, <1>10, <1>11, <1>12, <1>13 DEF Conn

(* The answer of the command that ran is with the forwarder that waits.    *)
LEMMA FinishKept ==
  ASSUME TypeOK, NEW c \in Client, Conn(c), Finish(c)
  PROVE  Conn(c)'
<1> DEFINE r == running[c]
           Told(f) == IF f.id = r.id /\ f.result = Pending THEN r ELSE f
           wait == [id |-> InitialState, result |-> Pending]
<1>1. /\ session'[c] = session[c] /\ sent' = sent /\ read'[c] = read[c] /\ todo'[c] = todo[c]
      /\ subscribed'[c] = subscribed[c] /\ cursor'[c] = cursor[c] /\ lane'[c] = lane[c] /\ ran'[c] = ran[c]
      /\ out'[c] = out[c] /\ broken' = broken /\ gone' = gone
      /\ answers'[c] = answers[c] /\ latest'[c] = latest[c] /\ snapshot' = snapshot
  BY DEF Finish
<1>2. r # Idle /\ running'[c] = Idle /\ forwarders'[c] = {Told(f) : f \in forwarders[c]}
  BY DEF TypeOK, Finish
<1>3. r.result \in 1 .. snapshot /\ snapshot \in Nat
  BY <1>2, DepthAssumption DEF DepthAssumption, TypeOK, Version, Conn, Versions
<1>4. ASSUME NEW f \in forwarders[c]
      PROVE  Told(f) \in forwarders'[c] /\ Told(f).id = f.id
  BY <1>2
<1>5. ASSUME NEW g \in forwarders'[c]
      PROVE  \E f \in forwarders[c] : g = Told(f) /\ g.id = f.id /\ (g = f \/ g = r)
  BY <1>2
<1>6. wait.id = InitialState /\ wait.result = Pending
  OBVIOUS
<1>7. r = [id |-> r.id, result |-> r.result] /\ r.result # Pending
  <2>1. r \in [id : Request, result : {Pending} \union Version]
    BY DEF TypeOK
  <2> QED
    BY <1>3, <2>1 DEF Pending
<1>8. /\ Fetching(c) <=> r.id = InitialState
      /\ ~Fetching(c)'
      /\ Asked(c)' = Asked(c) /\ InLane(c)' = InLane(c) /\ NoFirst(c)' = NoFirst(c)
  <2>1. NoFirst(c)' = NoFirst(c)
    BY <1>4, <1>5 DEF NoFirst
  <2> QED
    BY <1>1, <1>2, <2>1 DEF Fetching, Asked, InLane
<1>9. /\ wait \in forwarders[c] /\ r.id # InitialState => wait \in forwarders'[c]
      /\ wait \in forwarders[c] /\ r.id = InitialState => r \in forwarders'[c]
      /\ \A f \in forwarders[c] : f.result # Pending => f \in forwarders'[c]
  BY <1>4, <1>6
<1> HIDE DEF r, Told, wait
<1>10. Shape(c)' /\ Loop(c)'
  <2>1. forwarders[c] = {} => forwarders'[c] = {}
    BY <1>5
  <2> QED
    BY <1>1, <2>1 DEF Conn, Shape, Loop
<1>11. OutOnce(c)'
  <2>1. ASSUME NEW k \in DOMAIN out[c], out[c][k].kind = "answer"
        PROVE  \A g \in forwarders'[c] : g.id # out[c][k].n
    <3>1. \A f \in forwarders[c] : f.id # out[c][k].n
      BY <2>1 DEF Conn, Accounts, OutOnce
    <3> QED
      BY <1>5, <3>1
  <2> QED
    BY <1>1, <2>1 DEF Conn, Accounts, OutOnce, Owing
<1>12. ForwardOnce(c)'
  BY <1>1, <1>5 DEF Conn, Accounts, ForwardOnce, Owing
<1>13. AnswerOnce(c)' /\ Owed(c)'
  BY <1>1, <1>4 DEF Conn, Accounts, AnswerOnce, Owed, Owing
<1>14. FirstOnce(c)'
  <2>1. InLane(c) => r.id # InitialState /\ wait \in forwarders[c]
    BY <1>8 DEF Conn, FirstOnce, wait
  <2>2. InLane(c)' => wait \in forwarders'[c]
    BY <1>8, <1>9, <2>1
  <2> QED
    BY <1>1, <1>8, <2>2 DEF Conn, FirstOnce, wait
<1>15. Versions(c)'
  BY <1>1, <1>2, <1>3, <1>5 DEF Conn, Versions
<1>16. Newest(c)'
  <2> DEFINE first == [id |-> InitialState, result |-> snapshot]
  <2>1. r = first => first \in forwarders'[c]
    <3>1. r = first => r.id = InitialState
      OBVIOUS
    <3> QED
      BY <1>8, <1>9, <3>1 DEF Conn, FirstOnce, wait
  <2>2. first \in forwarders[c] => first \in forwarders'[c]
    <3>1. first.result = snapshot /\ snapshot # Pending
      BY <1>3 DEF Pending
    <3> QED
      BY <1>9, <3>1
  <2> QED
    BY <1>1, <1>8, <2>1, <2>2 DEF Conn, Newest, Carried, r
<1>17. Ordered(c)'
  <2>1. Line(c)' = Line(c) /\ Waiting(c)' = Waiting(c)
    BY <1>1 DEF Line, Waiting
  <2> QED
    BY <1>1, <2>1 DEF Conn, Ordered
<1> QED
  BY <1>10, <1>11, <1>12, <1>13, <1>14, <1>15, <1>16, <1>17 DEF Conn, Accounts

(* An answer leaves its forwarder for the write channel.                   *)
LEMMA ForwardKept ==
  ASSUME TypeOK, NEW c \in Client, Conn(c), NEW f \in forwarders[c], Forward(c, f)
  PROVE  Conn(c)'
<1> DEFINE n == Len(out[c])
           m == IF f.id = InitialState THEN State(f.result) ELSE Answer(f.id)
           wait == [id |-> InitialState, result |-> Pending]
           first == [id |-> InitialState, result |-> snapshot]
<1>1. /\ session'[c] = session[c] /\ sent' = sent /\ read'[c] = read[c] /\ todo'[c] = todo[c]
      /\ subscribed'[c] = subscribed[c] /\ cursor'[c] = cursor[c] /\ lane'[c] = lane[c] /\ ran'[c] = ran[c]
      /\ running'[c] = running[c] /\ broken' = broken /\ gone' = gone
      /\ answers'[c] = answers[c] /\ latest'[c] = latest[c] /\ snapshot' = snapshot
  BY DEF Forward
<1>2. /\ forwarders'[c] = forwarders[c] \ {f} /\ f.result # Pending
      /\ f \in [id : Request, result : {Pending} \union Version]
  BY DEF TypeOK, Forward
<1>3. Queue(c, m)
  BY DEF Forward
<1>4. /\ f.id = InitialState => m.kind = "state" /\ m = State(f.result) /\ m.n = f.result
      /\ f.id # InitialState => m.kind = "answer" /\ m = Answer(f.id) /\ m.n = f.id
  BY MessagesHold
<1> HIDE DEF m
<1>5. /\ DOMAIN out[c] = 1 .. n /\ n \in Nat
      /\ \/ c \in broken /\ out'[c] = out[c]
         \/ /\ c \notin broken /\ DOMAIN out'[c] = 1 .. n + 1 /\ out'[c][n + 1] = m
            /\ \A k \in 1 .. n : out'[c][k] = out[c][k]
  BY <1>3, QueueIs
<1> HIDE DEF n
<1>6. /\ Asked(c)' = Asked(c) /\ InLane(c)' = InLane(c) /\ Fetching(c)' = Fetching(c)
      /\ NoFirst(c) => NoFirst(c)'
  BY <1>1, <1>2 DEF Asked, InLane, Fetching, NoFirst
<1>7. Shape(c)' /\ Loop(c)'
  BY <1>1, <1>2 DEF Conn, Shape, Loop
<1>8. ASSUME m.kind = "answer"
      PROVE  /\ m.n \in 1 .. read[c] /\ sent[c][m.n] \in Answerable /\ answers[c][m.n] = 0 /\ ~Owing(c, m.n)
             /\ \A g \in forwarders'[c] : g.id # m.n
             /\ \A k \in DOMAIN out[c] : out[c][k] # m
  <2>1. f.id # InitialState /\ m.n = f.id /\ m.kind = "answer"
    BY <1>4, <1>8
  <2>2. /\ f.id \in 1 .. read[c] /\ sent[c][f.id] \in Answerable /\ answers[c][f.id] = 0 /\ ~Owing(c, f.id)
        /\ \A g \in forwarders'[c] : g.id # f.id
    BY <1>2, <2>1 DEF Conn, Accounts, ForwardOnce, Answerable, Frame, Command
  <2>3. \A k \in DOMAIN out[c] : out[c][k] # m
    BY <2>1 DEF Conn, Accounts, OutOnce
  <2> QED
    BY <2>1, <2>2, <2>3
<1>9. OutOnce(c)'
  <2>1. CASE out'[c] = out[c]
    BY <1>1, <1>2, <2>1 DEF Conn, Accounts, OutOnce, Owing
  <2>2. CASE /\ DOMAIN out'[c] = 1 .. n + 1 /\ out'[c][n + 1] = m
             /\ \A k \in 1 .. n : out'[c][k] = out[c][k]
    <3>0. \A k \in 1 .. n : out[c][k] = m => m.kind # "answer"
      BY <1>5, <1>8
    <3>1. \A j, k \in DOMAIN out'[c] : out'[c][j].kind = "answer" /\ out'[c][j] = out'[c][k] => j = k
      <4>1. \A j, k \in 1 .. n : out[c][j].kind = "answer" /\ out[c][j] = out[c][k] => j = k
        BY <1>5 DEF Conn, Accounts, OutOnce
      <4> SUFFICES ASSUME NEW j \in 1 .. n + 1, NEW k \in 1 .. n + 1,
                          out'[c][j].kind = "answer", out'[c][j] = out'[c][k]
                   PROVE  j = k
        BY <2>2
      <4>2. CASE j \in 1 .. n /\ k \in 1 .. n
        BY <2>2, <4>1, <4>2
      <4>3. CASE j = n + 1 \/ k = n + 1
        BY <1>5, <2>2, <3>0, <4>3
      <4> QED
        BY <1>5, <4>2, <4>3
    <3>2. ASSUME NEW k \in DOMAIN out'[c], out'[c][k].kind = "answer"
          PROVE  /\ out'[c][k].n \in 1 .. read[c] /\ sent[c][out'[c][k].n] \in Answerable
                 /\ answers[c][out'[c][k].n] = 0 /\ ~Owing(c, out'[c][k].n)
                 /\ \A g \in forwarders'[c] : g.id # out'[c][k].n
      <4>1. CASE k = n + 1
        BY <1>8, <2>2, <3>2, <4>1
      <4>2. CASE k \in 1 .. n
        BY <1>2, <1>5, <2>2, <3>2, <4>2 DEF Conn, Accounts, OutOnce
      <4> QED
        BY <1>5, <2>2, <4>1, <4>2
    <3>3. \A i : Owing(c, i)' <=> Owing(c, i)
      BY <1>1 DEF Owing
    <3> QED
      BY <1>1, <3>1, <3>2, <3>3 DEF OutOnce
  <2> QED
    BY <1>5, <2>1, <2>2
<1>10. ForwardOnce(c)' /\ AnswerOnce(c)'
  BY <1>1, <1>2 DEF Conn, Accounts, ForwardOnce, AnswerOnce, Owing
<1>11. Owed(c)'
  <2> SUFFICES ASSUME c \notin broken, NEW i \in 1 .. read[c], sent[c][i] \in Answerable
               PROVE  \/ answers[c][i] = 1 \/ Owing(c, i)
                      \/ \E k \in DOMAIN out'[c] : out'[c][k] = Answer(i)
                      \/ \E g \in forwarders'[c] : g.id = i
    BY <1>1 DEF Owed, Owing
  <2>1. i # InitialState
    BY DEF InitialState
  <2>2. f.id = i => \E k \in DOMAIN out'[c] : out'[c][k] = Answer(i)
    <3> SUFFICES ASSUME f.id = i PROVE n + 1 \in DOMAIN out'[c] /\ out'[c][n + 1] = Answer(i)
      OBVIOUS
    <3> QED
      BY <1>4, <1>5, <2>1
  <2>3. (\E k \in DOMAIN out[c] : out[c][k] = Answer(i)) => \E k \in DOMAIN out'[c] : out'[c][k] = Answer(i)
    BY <1>5
  <2> QED
    BY <1>2, <2>2, <2>3 DEF Conn, Accounts, Owed
<1>12. FirstOnce(c)'
  <2>1. wait # f
    BY <1>2
  <2>2. wait \in forwarders[c] => wait \in forwarders'[c]
    BY <1>2, <2>1
  <2> QED
    BY <1>1, <1>6, <2>2 DEF Conn, FirstOnce
<1>13. Versions(c)'
  <2>1. f.result <= snapshot /\ \A k \in DOMAIN out[c] : out[c][k].kind = "state" => out[c][k].n <= snapshot
    BY DEF Conn, Versions
  <2>2. m.kind = "state" => m.n <= snapshot
    BY <1>4, <2>1
  <2>3. \A k \in DOMAIN out'[c] : out'[c][k].kind = "state" => out'[c][k].n <= snapshot
    BY <1>5, <2>1, <2>2
  <2> QED
    BY <1>1, <1>2, <2>3 DEF Conn, Versions
<1>14. Newest(c)'
  <2> SUFFICES ASSUME subscribed[c], c \notin broken, cursor[c] > snapshot PROVE Carried(c)'
    BY <1>1 DEF Newest
  <2>1. CASE f = first
    <3>1. n + 1 \in DOMAIN out'[c] /\ out'[c][n + 1] = State(snapshot)
      BY <1>4, <1>5, <2>1
    <3> QED
      BY <1>1, <3>1 DEF Carried
  <2>2. CASE f # first
    <3>1. first \in forwarders[c] => first \in forwarders'[c]
      BY <1>2, <2>2
    <3>2. (\E k \in DOMAIN out[c] : out[c][k] = State(snapshot)) => \E k \in DOMAIN out'[c] : out'[c][k] = State(snapshot)
      BY <1>5
    <3>3. Carried(c)
      BY DEF Conn, Newest
    <3> QED
      BY <1>1, <1>6, <3>1, <3>2, <3>3 DEF Carried
  <2> QED
    BY <2>1, <2>2
<1>15. Ordered(c)'
  <2>1. Line(c)' = Line(c) /\ Waiting(c)' = Waiting(c)
    BY <1>1 DEF Line, Waiting
  <2> QED
    BY <1>1, <2>1 DEF Conn, Ordered
<1> QED
  BY <1>7, <1>9, <1>10, <1>11, <1>12, <1>13, <1>14, <1>15 DEF Conn, Accounts

(* What reaches the client was in the write channel, and was there once.   *)
LEMMA DeliverKept ==
  ASSUME TypeOK, NEW c \in Client, Conn(c), Deliver(c)
  PROVE  Conn(c)'
<1> DEFINE n == Len(out[c])
           m == Head(out[c])
<1>1. /\ session'[c] = session[c] /\ sent' = sent /\ read'[c] = read[c] /\ todo'[c] = todo[c]
      /\ subscribed'[c] = subscribed[c] /\ cursor'[c] = cursor[c] /\ lane'[c] = lane[c] /\ ran'[c] = ran[c]
      /\ running'[c] = running[c] /\ forwarders'[c] = forwarders[c] /\ broken' = broken /\ gone' = gone
      /\ snapshot' = snapshot
  BY DEF Deliver
<1>2. /\ out[c] # << >> /\ c \notin gone /\ out'[c] = Tail(out[c])
      /\ IF m.kind = "answer"
         THEN answers' = [answers EXCEPT ![c][m.n] = @ + 1] /\ latest' = latest
         ELSE latest'[c] = Later(latest[c], m.n) /\ answers' = answers
  BY DEF TypeOK, Deliver
<1>3. /\ DOMAIN out[c] = 1 .. n /\ n \in Nat \ {0} /\ m = out[c][1]
      /\ DOMAIN out'[c] = 1 .. n - 1
      /\ \A k \in 1 .. n - 1 : out'[c][k] = out[c][k + 1]
      /\ \A k \in 1 .. n : out[c][k] \in Message
  <2>1. out[c] \in Seq(Message)
    BY DEF TypeOK
  <2> QED
    BY <1>2, <2>1, AtTheHead, Elements
<1> HIDE DEF n, m
<1>4. ASSUME NEW k \in DOMAIN out'[c]
      PROVE  k + 1 \in DOMAIN out[c] /\ k + 1 # 1 /\ out'[c][k] = out[c][k + 1]
  BY <1>3
<1>5. ASSUME NEW k \in DOMAIN out[c]
      PROVE  out[c][k] = m \/ \E j \in DOMAIN out'[c] : out'[c][j] = out[c][k]
  <2>1. CASE k = 1
    BY <1>3, <2>1
  <2>2. CASE k # 1
    <3>1. k - 1 \in 1 .. n - 1 /\ (k - 1) + 1 = k
      BY <1>3, <2>2
    <3> QED
      BY <1>3, <3>1
  <2> QED
    BY <2>1, <2>2
<1>6. c \notin broken /\ session[c] # "closed"
  BY <1>2 DEF Conn, Loop
<1>7. m \in Message /\ m = out[c][1] /\ 1 \in DOMAIN out[c]
  BY <1>3
<1>8. \A i : Owing(c, i)' <=> Owing(c, i)
  BY <1>1 DEF Owing
<1>9. /\ answers[c] \in [1 .. MaxFrames -> Nat] /\ read[c] \in 0 .. MaxFrames
      /\ latest[c] \in Nat /\ snapshot \in Nat /\ m.n \in Nat
  <2>1. m.n \in Nat
    BY <1>7, MessagesAre
  <2>2. answers[c] \in [1 .. MaxFrames -> Nat] /\ read[c] \in 0 .. MaxFrames
    BY DEF TypeOK, Request
  <2>3. MaxWrites \in Nat /\ latest[c] \in 0 .. MaxWrites /\ snapshot \in 0 .. MaxWrites
    BY DepthAssumption DEF DepthAssumption, TypeOK, Version
  <2> QED
    BY <2>1, <2>2, <2>3
<1>10. /\ \A i \in 1 .. MaxFrames : answers'[c][i] = IF m = Answer(i) THEN 1 ELSE answers[c][i]
       /\ m.kind = "answer" =>
            m.n \in 1 .. read[c] /\ sent[c][m.n] \in Answerable /\ ~Owing(c, m.n)
  <2>1. CASE m.kind = "answer"
    <3>1. m.n \in 1 .. read[c] /\ sent[c][m.n] \in Answerable /\ answers[c][m.n] = 0 /\ ~Owing(c, m.n)
      BY <1>7, <2>1 DEF Conn, Accounts, OutOnce
    <3>2. m.n \in 1 .. MaxFrames
      BY <1>9, <3>1, DepthAssumption DEF DepthAssumption
    <3>3. answers'[c] = [answers[c] EXCEPT ![m.n] = answers[c][m.n] + 1]
      BY <1>2, <2>1 DEF TypeOK
    <3>4. \A i : m = Answer(i) <=> i = m.n
      BY <1>7, <2>1, MessagesAre, MessagesHold
    <3>5. \A i \in 1 .. MaxFrames : answers'[c][i] = IF i = m.n THEN answers[c][m.n] + 1 ELSE answers[c][i]
      BY <1>9, <3>2, <3>3
    <3>6. answers[c][m.n] + 1 = 1
      BY <3>1
    <3> QED
      BY <3>1, <3>4, <3>5, <3>6
  <2>2. CASE m.kind # "answer"
    BY <1>2, <2>2, MessagesHold
  <2> QED
    BY <2>1, <2>2
<1>11. Shape(c)' /\ Loop(c)'
  BY <1>1, <1>6 DEF Conn, Shape, Loop
<1>12. OutOnce(c)'
  <2>1. \A j, k \in DOMAIN out[c] : out[c][j].kind = "answer" /\ out[c][j] = out[c][k] => j = k
    BY DEF Conn, Accounts, OutOnce
  <2>2. \A k \in DOMAIN out'[c] : k \in Int
    BY <1>3
  <2>3. \A j, k \in DOMAIN out'[c] : out'[c][j].kind = "answer" /\ out'[c][j] = out'[c][k] => j = k
    <3> SUFFICES ASSUME NEW j \in DOMAIN out'[c], NEW k \in DOMAIN out'[c],
                        out'[c][j].kind = "answer", out'[c][j] = out'[c][k]
                 PROVE  j = k
      OBVIOUS
    <3>1. j + 1 = k + 1
      BY <1>4, <2>1
    <3> QED
      BY <2>2, <3>1
  <2>4. ASSUME NEW k \in DOMAIN out'[c], out'[c][k].kind = "answer"
        PROVE  /\ out'[c][k].n \in 1 .. read[c] /\ sent[c][out'[c][k].n] \in Answerable
               /\ answers'[c][out'[c][k].n] = 0 /\ ~Owing(c, out'[c][k].n)
               /\ \A f \in forwarders[c] : f.id # out'[c][k].n
    <3> DEFINE i == out'[c][k].n
    <3>1. /\ i \in 1 .. read[c] /\ sent[c][i] \in Answerable /\ answers[c][i] = 0 /\ ~Owing(c, i)
          /\ \A f \in forwarders[c] : f.id # i
      BY <1>4, <2>4 DEF Conn, Accounts, OutOnce
    <3>2. m # Answer(i)
      <4>1. out'[c][k] = Answer(i)
        BY <1>3, <1>4, <2>4, MessagesAre, MessagesHold
      <4> QED
        BY <1>4, <1>7, <2>1, <2>4, <4>1
    <3>3. i \in 1 .. MaxFrames
      BY <1>9, <3>1, DepthAssumption DEF DepthAssumption
    <3> QED
      BY <1>10, <3>1, <3>2, <3>3
  <2> QED
    BY <1>1, <1>8, <2>3, <2>4 DEF OutOnce
<1>13. ForwardOnce(c)'
  <2>1. ASSUME NEW f \in forwarders[c], f.id # InitialState
        PROVE  answers'[c][f.id] = 0
    <3>1. f.id \in 1 .. read[c] /\ answers[c][f.id] = 0
      BY <2>1 DEF Conn, Accounts, ForwardOnce
    <3>2. f.id \in 1 .. MaxFrames
      BY <1>9, <3>1, DepthAssumption DEF DepthAssumption
    <3>3. m # Answer(f.id)
      BY <1>7, MessagesHold DEF Conn, Accounts, OutOnce
    <3> QED
      BY <1>10, <3>1, <3>2, <3>3
  <2> QED
    BY <1>1, <1>8, <2>1 DEF Conn, Accounts, ForwardOnce
<1>14. AnswerOnce(c)'
  <2> SUFFICES ASSUME NEW i \in 1 .. MaxFrames
               PROVE  /\ answers'[c][i] <= 1
                      /\ answers'[c][i] = 1 => i <= read[c] /\ sent[c][i] \in Answerable /\ ~Owing(c, i)
    BY <1>1, <1>8 DEF AnswerOnce
  <2>1. CASE m = Answer(i)
    <3>1. m.kind = "answer" /\ m.n = i
      BY <2>1, MessagesHold
    <3> QED
      BY <1>10, <2>1, <3>1
  <2>2. CASE m # Answer(i)
    BY <1>10, <2>2 DEF Conn, Accounts, AnswerOnce
  <2> QED
    BY <2>1, <2>2
<1>15. Owed(c)'
  <2> SUFFICES ASSUME NEW i \in 1 .. read[c], sent[c][i] \in Answerable
               PROVE  \/ answers'[c][i] = 1 \/ Owing(c, i)
                      \/ \E k \in DOMAIN out'[c] : out'[c][k] = Answer(i)
                      \/ \E f \in forwarders[c] : f.id = i
    BY <1>1, <1>8 DEF Owed
  <2>1. \/ answers[c][i] = 1 \/ Owing(c, i)
        \/ \E k \in DOMAIN out[c] : out[c][k] = Answer(i)
        \/ \E f \in forwarders[c] : f.id = i
    BY <1>6 DEF Conn, Accounts, Owed
  <2>2. i \in 1 .. MaxFrames
    BY <1>9, DepthAssumption DEF DepthAssumption
  <2> QED
    BY <1>5, <1>10, <2>1, <2>2
<1>16. FirstOnce(c)'
  BY <1>1 DEF Conn, FirstOnce, Asked, InLane, Fetching, NoFirst
<1>17. m.kind # "answer" => m.n <= snapshot
  BY <1>7, MessagesAre DEF Conn, Versions
<1>18. /\ latest'[c] <= snapshot
       /\ latest[c] = snapshot \/ m = State(snapshot) => latest'[c] = snapshot
  <2>1. latest[c] <= snapshot
    BY DEF Conn, Versions
  <2>2. CASE m.kind = "answer"
    BY <1>2, <2>1, <2>2, MessagesHold
  <2>3. CASE m.kind # "answer"
    BY <1>2, <1>9, <1>17, <2>1, <2>3, MessagesHold DEF Later
  <2> QED
    BY <2>2, <2>3
<1>19. Versions(c)'
  BY <1>1, <1>4, <1>18 DEF Conn, Versions
<1>20. Newest(c)'
  BY <1>1, <1>5, <1>18 DEF Conn, Newest, Carried, Asked, InLane
<1>21. Ordered(c)'
  <2>1. Line(c)' = Line(c) /\ Waiting(c)' = Waiting(c)
    BY <1>1 DEF Line, Waiting
  <2> QED
    BY <1>1, <2>1 DEF Conn, Ordered
<1> QED
  BY <1>11, <1>12, <1>13, <1>14, <1>15, <1>16, <1>19, <1>20, <1>21 DEF Conn, Accounts

(* A write that fails ends what the client is owed.                        *)
LEMMA WriteFailsKept ==
  ASSUME TypeOK, NEW c \in Client, Conn(c), WriteFails(c)
  PROVE  Conn(c)'
<1>1. /\ session'[c] = session[c] /\ sent' = sent /\ read'[c] = read[c] /\ todo'[c] = todo[c]
      /\ subscribed'[c] = subscribed[c] /\ cursor'[c] = cursor[c] /\ lane'[c] = lane[c] /\ ran'[c] = ran[c]
      /\ running'[c] = running[c] /\ forwarders'[c] = forwarders[c] /\ gone' = gone
      /\ answers'[c] = answers[c] /\ latest'[c] = latest[c] /\ snapshot' = snapshot
  BY DEF WriteFails
<1>2. out'[c] = << >> /\ c \in gone /\ c \in broken'
  BY DEF TypeOK, WriteFails
<1>3. DOMAIN out'[c] = {}
  BY <1>2
<1>4. Shape(c)' /\ Loop(c)' /\ Newest(c)'
  BY <1>1, <1>2 DEF Conn, Shape, Loop, Newest
<1>5. Accounts(c)'
  BY <1>1, <1>2, <1>3 DEF Conn, Accounts, OutOnce, ForwardOnce, AnswerOnce, Owed, Owing
<1>6. FirstOnce(c)' /\ Versions(c)'
  BY <1>1, <1>3 DEF Conn, FirstOnce, Asked, InLane, Fetching, NoFirst, Versions
<1>7. Ordered(c)'
  <2>1. Line(c)' = Line(c) /\ Waiting(c)' = Waiting(c)
    BY <1>1 DEF Line, Waiting
  <2> QED
    BY <1>1, <2>1 DEF Conn, Ordered
<1> QED
  BY <1>4, <1>5, <1>6, <1>7 DEF Conn

-----------------------------------------------------------------------------
(* The invariant is inductive *)

LEMMA ConnKept ==
  ASSUME SessionIInv, [Next]_vars
  PROVE  \A d \in Client : Conn(d)'
<1> USE DEF SessionIInv
<1>1. snapshot' = snapshot \/ snapshot' = snapshot + 1
  BY SnapshotGrows
<1>2. CASE DaemonStep
  <2>1. \A d \in Client : Same(d)
    BY <1>2
    DEF DaemonStep, vars, StateChanges, Signal, AcceptEnds, LanesJoined, SupervisorJoined, DeadlinePasses, Same
  <2> QED
    BY <1>1, <2>1, SameKept
<1>3. ASSUME NEW c \in Client, ConnectionStep(c)
      PROVE  \A d \in Client : Conn(d)'
  <2>1. Conn(c)'
    <3>1. CASE Connect(c) \/ HangUp(c) \/ ReadEnd(c) \/ SessionReturns(c)
      BY <3>1, EndsKept
    <3>2. CASE \E f \in Frames : Send(c, f)
      BY <3>2, SendKept
    <3>3. CASE ReadFrame(c)
      BY <3>3, ReadKept
    <3>4. CASE ForwardBroadcast(c)
      BY <3>4, BroadcastKept
    <3>5. CASE WriteNext(c)
      BY <3>5, WriteKept
    <3>6. CASE DispatchNext(c)
      BY <3>6, DispatchKept
    <3>7. CASE CloseNext(c)
      BY <3>7, CloseKept
    <3>8. CASE Run(c)
      BY <3>8, RunKept
    <3>9. CASE Finish(c)
      BY <3>9, FinishKept
    <3>10. CASE \E f \in forwarders[c] : Forward(c, f)
      BY <3>10, ForwardKept
    <3>11. CASE Deliver(c)
      BY <3>11, DeliverKept
    <3>12. CASE WriteFails(c)
      BY <3>12, WriteFailsKept
    <3> QED
      BY <1>3, <3>1, <3>2, <3>3, <3>4, <3>5, <3>6, <3>7, <3>8, <3>9, <3>10, <3>11, <3>12 DEF ConnectionStep
  <2>2. \A d \in Client \ {c} : Conn(d)'
    BY <1>1, <1>3, OthersAreSame, SameKept
  <2> QED
    BY <2>1, <2>2
<1> QED
  BY <1>2, <1>3, StepsAre

LEMMA TypesKept ==
  ASSUME SessionIInv, [Next]_vars
  PROVE  TypeOK'
<1> USE DEF SessionIInv
<1>1. ASSUME NEW c \in Client, NEW k \in DOMAIN out[c]
      PROVE  IF out[c][k].kind = "answer" THEN out[c][k].n \in 1 .. MaxFrames ELSE out[c][k].n \in Version
  <2>1. out[c] \in Seq(Message) /\ read[c] \in 0 .. MaxFrames /\ snapshot \in 0 .. MaxWrites
    BY DEF TypeOK, Request, Version
  <2>2. out[c][k] \in Message
    BY <2>1, Elements
  <2>3. out[c][k].n \in Nat /\ out[c][k].kind \in {"answer", "state"}
    BY <2>2, MessagesAre
  <2>4. out[c][k].kind = "answer" => out[c][k].n \in 1 .. read[c]
    BY DEF Conn, Accounts, OutOnce
  <2>5. out[c][k].kind = "state" => out[c][k].n <= snapshot
    BY DEF Conn, Versions
  <2> QED
    BY <2>1, <2>3, <2>4, <2>5, DepthAssumption DEF DepthAssumption, Version
<1>2. ASSUME NEW c \in Client, ConnectionStep(c)
      PROVE  TypeOK'
  <2>1. Len(sent[c]) <= MaxFrames
    BY DEF Conn, Loop
  <2> QED
    BY <1>1, <1>2, <2>1, SessionTypes, WorkTypes DEF ConnectionStep
<1> QED
  BY <1>2, StepsAre, DaemonTypes

(* Nothing is left that could make a lane run again once all have ended.   *)
LEMMA JoinedKept ==
  ASSUME SessionIInv, [Next]_vars
  PROVE  Joined'
<1> USE DEF SessionIInv
<1>1. CASE DaemonStep
  <2>1. CASE LanesJoined
    BY <2>1 DEF LanesJoined, Joined, Drained, LaneEnded
  <2>2. CASE UNCHANGED vars \/ StateChanges \/ Signal \/ AcceptEnds \/ SupervisorJoined \/ DeadlinePasses
    BY <2>2 DEF vars, StateChanges, Signal, AcceptEnds, SupervisorJoined, DeadlinePasses, Joined, Drained, LaneEnded
  <2> QED
    BY <1>1, <2>1, <2>2 DEF DaemonStep
<1>2. ASSUME NEW c \in Client, ConnectionStep(c)
      PROVE  Joined'
  <2>1. lanesStopped' = lanesStopped /\ daemon' = daemon
    BY <1>2
    DEF ConnectionStep, Connect, HangUp, Send, ReadEnd, SessionReturns, ReadFrame, ForwardBroadcast, CloseNext,
        WriteNext, DispatchNext, Run, Finish, Forward, Deliver, WriteFails
  <2> SUFFICES ASSUME lanesStopped PROVE Drained'
    BY <2>1 DEF Joined
  <2>2. daemon # "accepting" /\ \A d \in Client : LaneEnded(d)
    BY DEF Joined, Drained
  <2>3. \A d \in Client \ {c} : LaneEnded(d)'
    BY <1>2, <2>2, OthersAreSame DEF Same, LaneEnded
  <2>4. session[c] \in {"none", "closed"} /\ lane[c] = << >> /\ running[c] = Idle /\ todo[c] = << >>
    BY <2>2 DEF LaneEnded, Conn, Shape
  <2>5. session'[c] = session[c] /\ lane'[c] = lane[c] /\ running'[c] = running[c]
    <3>1. CASE \/ Connect(c) \/ ReadEnd(c) \/ SessionReturns(c) \/ ReadFrame(c) \/ ForwardBroadcast(c)
               \/ WriteNext(c) \/ DispatchNext(c) \/ CloseNext(c) \/ Run(c) \/ Finish(c)
      BY <2>2, <2>4, <3>1
      DEF Connect, ReadEnd, InLoop, SessionReturns, ReadFrame, ForwardBroadcast, WriteNext, DispatchNext, CloseNext,
          Run, Finish
    <3>2. CASE \/ HangUp(c) \/ (\E f \in Frames : Send(c, f)) \/ (\E f \in forwarders[c] : Forward(c, f))
               \/ Deliver(c) \/ WriteFails(c)
      BY <3>2 DEF HangUp, Send, Forward, Deliver, WriteFails
    <3> QED
      BY <1>2, <3>1, <3>2 DEF ConnectionStep
  <2>6. LaneEnded(c)'
    BY <2>4, <2>5 DEF LaneEnded
  <2> QED
    BY <2>3, <2>6 DEF Drained
<1> QED
  BY <1>1, <1>2, StepsAre

LEMMA AtFirst == Init => SessionIInv
<1> SUFFICES ASSUME Init PROVE SessionIInv
  OBVIOUS
<1> USE DEF Init
<1>1. TypeOK
  <2>1. Idle \in [id : Request, result : {Pending} \union Version]
    BY DepthAssumption DEF DepthAssumption, Idle, NoCommand, Request
  <2>2. 1 \in Version /\ 0 \in Version /\ 0 \in 0 .. MaxWrites + 1 /\ 0 \in Request /\ Len(<< >>) = 0
    BY DepthAssumption DEF DepthAssumption, Version, Request
  <2>3. 0 <= LaneDepth /\ 0 <= WriterDepth
    BY DepthAssumption DEF DepthAssumption
  <2>4. /\ sent \in [Client -> Seq(Frame)] /\ todo \in [Client -> Seq(Step)]
        /\ ran \in [Client -> Seq(Request)]
        /\ lane \in [Client -> Seq(Request)] /\ \A c \in Client : Len(lane[c]) <= LaneDepth
        /\ out \in [Client -> Seq(Message)] /\ \A c \in Client : Len(out[c]) <= WriterDepth
    BY <2>2, <2>3
  <2>5. /\ session \in [Client -> {"none", "open", "closing", "closed"}]
        /\ read \in [Client -> Request] /\ cursor \in [Client -> 0 .. MaxWrites + 1]
        /\ latest \in [Client -> Version] /\ subscribed \in [Client -> BOOLEAN]
        /\ running \in [Client -> [id : Request, result : {Pending} \union Version]]
        /\ forwarders \in [Client -> SUBSET [id : Request, result : {Pending} \union Version]]
    BY <2>1, <2>2
  <2>6. answers \in [Client -> [1 .. MaxFrames -> Nat]]
    OBVIOUS
  <2> QED
    BY <2>2, <2>4, <2>5, <2>6 DEF TypeOK
<1>2. ASSUME NEW c \in Client PROVE Conn(c)
  <2>1. /\ DOMAIN todo[c] = {} /\ DOMAIN lane[c] = {} /\ DOMAIN out[c] = {} /\ running[c] = Idle
        /\ Len(sent[c]) = 0
    OBVIOUS
  <2>2. Line(c) = << >> /\ DOMAIN Line(c) = {}
    BY DEF Line
  <2>3. Waiting(c) = {}
    BY <2>1 DEF Waiting
  <2>4. Shape(c) /\ Loop(c)
    BY <2>1, DepthAssumption DEF DepthAssumption, Shape, Loop
  <2>5. Accounts(c)
    BY <2>1 DEF Accounts, OutOnce, ForwardOnce, AnswerOnce, Owed
  <2>6. FirstOnce(c) /\ Versions(c) /\ Newest(c)
    BY <2>1 DEF FirstOnce, Asked, InLane, Fetching, NoFirst, Versions, Newest
  <2>7. Ordered(c)
    BY <2>2, <2>3 DEF Ordered
  <2> QED
    BY <2>4, <2>5, <2>6, <2>7 DEF Conn
<1> QED
  BY <1>1, <1>2 DEF SessionIInv, Joined

LEMMA Inductive == Spec => []SessionIInv
<1>1. SessionIInv /\ [Next]_vars => SessionIInv'
  BY ConnKept, TypesKept, JoinedKept DEF SessionIInv
<1> QED
  BY <1>1, AtFirst, PTL DEF Spec

-----------------------------------------------------------------------------
(* What it implies *)

LEMMA NothingIsLeft ==
  ASSUME SessionIInv, NEW c \in Client, session[c] \in {"none", "closed"}
  PROVE  /\ todo[c] = << >> /\ Waiting(c) = {} /\ \A i : ~Owing(c, i)
         /\ c \notin gone /\ session[c] = "closed" => out[c] = << >> /\ forwarders[c] = {} /\ c \notin broken
<1>1. Shape(c) /\ Loop(c)
  BY DEF SessionIInv, Conn
<1>2. todo[c] = << >>
  BY <1>1 DEF Shape
<1>3. Waiting(c) = {}
  BY <1>2 DEF Waiting
<1> QED
  BY <1>1, <1>2, <1>3 DEF Owing, Loop

(* Nothing a client sends is answered twice or, while it is still there,   *)
(* dropped; its commands run in the order it sent them; and a daemon that  *)
(* reports its lanes stopped has run what it read.                         *)
THEOREM SessionsKeepTheirWord == Spec => []SessionInv
<1>1. SessionIInv => SessionInv
  <2> SUFFICES ASSUME SessionIInv PROVE SessionInv
    OBVIOUS
  <2>1. TypeOK /\ AnsweredOnce /\ RunInOrder
    BY DEF SessionIInv, Conn, Accounts, AnswerOnce, AnsweredOnce, Ordered, RunInOrder
  <2>2. ClosedAnswersAll
    <3> SUFFICES ASSUME NEW c \in Client, session[c] = "closed", c \notin gone,
                        NEW i \in 1 .. read[c], sent[c][i] \in Answerable
                 PROVE  answers[c][i] = 1
      BY DEF ClosedAnswersAll
    <3>1. out[c] = << >> /\ forwarders[c] = {} /\ c \notin broken /\ ~Owing(c, i)
      BY NothingIsLeft
    <3> QED
      BY <3>1 DEF SessionIInv, Conn, Accounts, Owed
  <2>3. StopsClean
    <3> SUFFICES ASSUME lanesStopped, NEW c \in Client
                 PROVE  /\ forwarders[c] # {} => c \in broken
                        /\ \A i \in 1 .. read[c] :
                             sent[c][i] \in Command => \E k \in 1 .. Len(ran[c]) : ran[c][k] = i
      BY DEF StopsClean
    <3>1. session[c] \in {"none", "closed"} /\ lane[c] = << >>
      BY DEF SessionIInv, Joined, Drained, LaneEnded
    <3>2. forwarders[c] # {} => c \in broken
      BY <3>1 DEF SessionIInv, Conn, Loop
    <3>3. ran[c] \in Seq(Request) /\ read[c] \in 0 .. MaxFrames
      BY DEF SessionIInv, TypeOK, Request
    <3>4. Line(c) = ran[c] /\ DOMAIN Line(c) = 1 .. Len(ran[c])
      BY <3>1, <3>3 DEF Line
    <3>5. \A i \in 1 .. read[c] : i \in 1 .. MaxFrames /\ i <= read[c]
      BY <3>3, DepthAssumption DEF DepthAssumption
    <3>6. Waiting(c) = {}
      BY <3>1, NothingIsLeft
    <3> QED
      BY <3>2, <3>4, <3>5, <3>6 DEF SessionIInv, Conn, Ordered
  <2> QED
    BY <2>1, <2>2, <2>3 DEF SessionInv
<1> QED
  BY <1>1, Inductive, PTL

(* A subscriber to whom nothing more is on its way has been sent the       *)
(* newest snapshot, however far behind it fell.                            *)
THEOREM NewestReachesSubscribers == Spec => []NewestIsSent
<1>1. SessionIInv => NewestIsSent
  <2> SUFFICES ASSUME SessionIInv, NEW c \in Client, Settled(c) PROVE latest[c] = snapshot
    BY DEF NewestIsSent
  <2>1. Carried(c) /\ snapshot >= 1 /\ snapshot \in Nat
    BY DepthAssumption DEF DepthAssumption, SessionIInv, Conn, Newest, Settled, Versions, TypeOK, Version
  <2>2. /\ todo[c] = << >> /\ DOMAIN todo[c] = {} /\ DOMAIN lane[c] = {} /\ DOMAIN out[c] = {}
        /\ running[c] = Idle /\ forwarders[c] = {}
    BY DEF Settled
  <2>3. Idle # [id |-> InitialState, result |-> snapshot]
    BY <2>1 DEF Idle, Pending
  <2>4. todo[c] # <<Write(State(snapshot))>>
    BY <2>2, Tuples
  <2> QED
    BY <2>1, <2>2, <2>3, <2>4 DEF Carried, Asked, InLane
<1> QED
  BY <1>1, Inductive, PTL

-----------------------------------------------------------------------------
(* Slices of what the peer has written                                     *)

LEMMA Slice ==
  ASSUME NEW S, NEW s \in Seq(S), NEW a \in 0 .. Len(s), NEW b \in a .. Len(s)
  PROVE  /\ SubSeq(s, a + 1, b) \in Seq(S) /\ Len(SubSeq(s, a + 1, b)) = b - a
         /\ \A i \in 1 .. b - a : SubSeq(s, a + 1, b)[i] = s[a + i]
<1>1. /\ a + 1 \in Int /\ b \in Int /\ \A i \in a + 1 .. b : s[i] \in S
      /\ b - (a + 1) + 1 = b - a /\ \A i \in 1 .. b - a : (a + 1) + i - 1 = a + i
  OBVIOUS
<1>2. /\ SubSeq(s, a + 1, b) \in Seq(S)
      /\ Len(SubSeq(s, a + 1, b)) = IF a + 1 <= b THEN b - (a + 1) + 1 ELSE 0
      /\ \A i \in 1 .. b - (a + 1) + 1 : SubSeq(s, a + 1, b)[i] = s[(a + 1) + i - 1]
  BY <1>1, SubSeqProperties
<1> QED
  BY <1>1, <1>2

LEMMA SliceOfSlice ==
  ASSUME NEW S, NEW s \in Seq(S), NEW a \in 0 .. Len(s), NEW b \in a .. Len(s), NEW n \in 0 .. b - a
  PROVE  SubSeq(SubSeq(s, a + 1, b), 1, n) = SubSeq(s, a + 1, a + n)
<1> DEFINE t == SubSeq(s, a + 1, b)
           u == SubSeq(t, 1, n)
           v == SubSeq(s, a + 1, a + n)
<1>1. t \in Seq(S) /\ Len(t) = b - a /\ \A i \in 1 .. b - a : t[i] = s[a + i]
  BY Slice
<1>2. a + n \in a .. Len(s)
  OBVIOUS
<1>3. v \in Seq(S) /\ Len(v) = n /\ \A i \in 1 .. n : v[i] = s[a + i]
  <2>1. v \in Seq(S) /\ Len(v) = (a + n) - a /\ \A i \in 1 .. (a + n) - a : v[i] = s[a + i]
    BY <1>2, Slice
  <2> QED
    BY <2>1
<1> HIDE DEF t, v
<1>4. u \in Seq(S) /\ Len(u) = n /\ \A i \in 1 .. n : u[i] = t[i]
  <2>1. /\ SubSeq(t, 0 + 1, n) \in Seq(S) /\ Len(SubSeq(t, 0 + 1, n)) = n - 0
        /\ \A i \in 1 .. n - 0 : SubSeq(t, 0 + 1, n)[i] = t[0 + i]
    <3>1. 0 \in 0 .. Len(t) /\ n \in 0 .. Len(t)
      BY <1>1
    <3> QED
      BY <1>1, <3>1, Slice
  <2> QED
    BY <2>1
<1> HIDE DEF u
<1>5. ASSUME NEW i \in 1 .. Len(u)
      PROVE  u[i] = v[i]
  <2>1. i \in 1 .. n /\ i \in 1 .. b - a
    BY <1>4
  <2> QED
    BY <1>1, <1>3, <1>4, <2>1
<1>6. u = v
  BY <1>3, <1>4, <1>5, SeqEqual
<1> QED
  BY <1>6 DEF t, u, v

LEMMA SlicesJoin ==
  ASSUME NEW S, NEW s \in Seq(S), NEW a \in 0 .. Len(s), NEW b \in a .. Len(s), NEW d \in b .. Len(s)
  PROVE  SubSeq(s, a + 1, b) \o SubSeq(s, b + 1, d) = SubSeq(s, a + 1, d)
<1>1. a + 1 \in 1 .. Len(s) + 1 /\ b \in (a + 1) - 1 .. Len(s)
  OBVIOUS
<1> QED
  BY <1>1, ConcatAdjacentSubSeq

LEMMA SliceStays ==
  ASSUME NEW S, NEW s \in Seq(S), NEW e \in S, NEW a \in 0 .. Len(s), NEW b \in a .. Len(s)
  PROVE  SubSeq(Append(s, e), a + 1, b) = SubSeq(s, a + 1, b)
<1> DEFINE u == SubSeq(Append(s, e), a + 1, b)
           v == SubSeq(s, a + 1, b)
           t == Append(s, e)
<1>1. t \in Seq(S) /\ Len(t) = Len(s) + 1 /\ \A i \in 1 .. Len(s) : t[i] = s[i]
  OBVIOUS
<1>2. v \in Seq(S) /\ Len(v) = b - a /\ \A i \in 1 .. b - a : v[i] = s[a + i]
  BY Slice
<1>3. u \in Seq(S) /\ Len(u) = b - a /\ \A i \in 1 .. b - a : u[i] = t[a + i]
  <2>1. a \in 0 .. Len(t) /\ b \in a .. Len(t)
    BY <1>1
  <2> QED
    BY <1>1, <2>1, Slice
<1>4. \A i \in 1 .. b - a : a + i \in 1 .. Len(s)
  OBVIOUS
<1> HIDE DEF u, v, t
<1>5. \A i \in 1 .. Len(u) : u[i] = v[i]
  BY <1>1, <1>2, <1>3, <1>4
<1>6. u = v
  BY <1>2, <1>3, <1>5, SeqEqual
<1> QED
  BY <1>6 DEF u, v

-----------------------------------------------------------------------------
(* One bite                                                                *)

LEMMA Least ==
  ASSUME NEW T, T \subseteq Nat, T # {}
  PROVE  Min(T) \in T /\ \A y \in T : Min(T) <= y
<1>1. \E x \in T : \A y \in T : <<y, x>> \notin OpToRel(<, Nat)
  BY WFMin, NatLessThanWellFounded
<1>2. PICK x \in T : \A y \in T : <<y, x>> \notin OpToRel(<, Nat)
  BY <1>1
<1>3. ASSUME NEW y \in T PROVE x <= y
  <2>1. x \in Nat /\ y \in Nat /\ <<y, x>> \in Nat \X Nat /\ <<y, x>>[1] = y /\ <<y, x>>[2] = x
    OBVIOUS
  <2>2. ~(y < x)
    BY <1>2, <2>1 DEF OpToRel
  <2> QED
    BY <2>1, <2>2
<1> QED
  BY <1>3 DEF Min

LEMMA Delimiting ==
  ASSUME NEW s \in Seq(Byte)
  PROVE  /\ Delimiter(s) \in 0 .. Len(s)
         /\ \A j \in 1 .. Delimiter(s) - 1 : s[j] # "newline"
<1>1. CASE Contains(s, "newline")
  <2> DEFINE I == {i \in 1 .. Len(s) : s[i] = "newline"}
  <2>1. I # {} /\ I \subseteq Nat
    BY <1>1 DEF Contains
  <2>2. Delimiter(s) = Min(I)
    BY <1>1, <2>1 DEF Delimiter, SelectInSeq
  <2>3. Min(I) \in I /\ \A y \in I : Min(I) <= y
    BY <2>1, Least
  <2>4. Delimiter(s) \in 1 .. Len(s)
    BY <2>2, <2>3
  <2>5. ASSUME NEW j \in 1 .. Delimiter(s) - 1 PROVE s[j] # "newline"
    <3>1. j \in 1 .. Len(s) /\ ~(Delimiter(s) <= j)
      BY <2>4
    <3>2. j \notin I
      BY <2>2, <2>3, <3>1
    <3> QED
      BY <3>1, <3>2
  <2> QED
    BY <2>4, <2>5
<1>2. CASE ~Contains(s, "newline")
  BY <1>2 DEF Delimiter, Contains
<1> QED
  BY <1>1, <1>2

(* How a bite ends is not said here: it may be empty, cut short by the     *)
(* budget, or a whole line.                                                *)
LEMMA BiteIs ==
  ASSUME ReaderTypeOK, Len(partial) <= Limit + 1
  PROVE  \E k \in 0 .. Len(wire) - taken :
           /\ Bite = SubSeq(wire, taken + 1, taken + k) /\ k <= Budget(Len(partial))
           /\ \A j \in 1 .. k - 1 : wire[taken + j] # "newline"
<1> DEFINE left == Len(wire) - taken
           room == SubSeq(Available, 1, Min({Len(Available), Budget(Len(partial))}))
<1>1. /\ wire \in Seq(Byte) /\ taken \in 0 .. Len(wire) /\ left \in Nat
      /\ Len(partial) \in Nat /\ Budget(Len(partial)) \in Nat
  BY LimitAssumption DEF LimitAssumption, ReaderTypeOK, Budget
<1>2. Available \in Seq(Byte) /\ Len(Available) = left
  <2>1. Available = SubSeq(wire, taken + 1, Len(wire)) /\ Len(wire) \in taken .. Len(wire)
    BY <1>1 DEF Available
  <2> QED
    BY <1>1, <2>1, Slice
<1>3. PICK m \in 0 .. left : room = SubSeq(wire, taken + 1, taken + m) /\ m <= Budget(Len(partial))
  <2> DEFINE T == {left, Budget(Len(partial))}
             m == Min(T)
  <2>1. T \subseteq Nat /\ T # {}
    BY <1>1
  <2>2. m \in T /\ m <= left /\ m <= Budget(Len(partial))
    BY <2>1, Least
  <2>3. m \in 0 .. left
    BY <1>1, <2>1, <2>2
  <2>4. room = SubSeq(Available, 1, m)
    BY <1>2
  <2> HIDE DEF m
  <2>5. SubSeq(SubSeq(wire, taken + 1, Len(wire)), 1, m) = SubSeq(wire, taken + 1, taken + m)
    <3>1. Len(wire) \in taken .. Len(wire) /\ m \in 0 .. Len(wire) - taken
      BY <1>1, <2>3
    <3> QED
      BY <1>1, <3>1, SliceOfSlice
  <2> QED
    BY <2>2, <2>3, <2>4, <2>5 DEF Available
<1> HIDE DEF room
<1>4. room \in Seq(Byte) /\ Len(room) = m /\ \A j \in 1 .. m : room[j] = wire[taken + j]
  <2>1. taken + m \in taken .. Len(wire) /\ (taken + m) - taken = m
    BY <1>1
  <2> QED
    BY <1>1, <1>3, <2>1, Slice
<1> DEFINE k == Delimiter(room)
<1>5. k \in 0 .. m /\ \A j \in 1 .. k - 1 : room[j] # "newline"
  BY <1>4, Delimiting
<1>6. Bite = SubSeq(room, 1, k)
  BY DEF Bite, room
<1> HIDE DEF k
<1>7. Bite = SubSeq(wire, taken + 1, taken + k)
  <2>1. taken + m \in taken .. Len(wire) /\ k \in 0 .. (taken + m) - taken
    BY <1>1, <1>5
  <2>2. SubSeq(SubSeq(wire, taken + 1, taken + m), 1, k) = SubSeq(wire, taken + 1, taken + k)
    BY <1>1, <2>1, SliceOfSlice
  <2> QED
    BY <1>3, <1>6, <2>2
<1>8. k \in 0 .. left /\ k <= Budget(Len(partial)) /\ \A j \in 1 .. k - 1 : wire[taken + j] # "newline"
  <2>1. k \in 0 .. left /\ k <= Budget(Len(partial))
    BY <1>1, <1>3, <1>5
  <2>2. ASSUME NEW j \in 1 .. k - 1 PROVE wire[taken + j] # "newline"
    <3>1. j \in 1 .. m
      BY <1>5
    <3> QED
      BY <1>4, <1>5, <3>1
  <2> QED
    BY <2>1, <2>2
<1> QED
  BY <1>7, <1>8

-----------------------------------------------------------------------------
(* The cut                                                                 *)

LEMMA CutStays ==
  ASSUME ReaderTypeOK, CutUp, NEW b \in Byte, wire' = Append(wire, b),
         taken' = taken, partial' = partial, frames' = frames
  PROVE  CutUp'
<1>1. PICK cut \in [0 .. Len(frames) -> 0 .. taken] :
        /\ cut[0] = 0
        /\ \A i \in 1 .. Len(frames) :
             cut[i - 1] < cut[i] /\ frames[i] = SubSeq(wire, cut[i - 1] + 1, cut[i])
        /\ partial = SubSeq(wire, cut[Len(frames)] + 1, taken)
  BY DEF CutUp
<1>2. ASSUME NEW a \in 0 .. taken, NEW d \in a .. taken
      PROVE  SubSeq(wire', a + 1, d) = SubSeq(wire, a + 1, d)
  <2>1. wire \in Seq(Byte) /\ a \in 0 .. Len(wire) /\ d \in a .. Len(wire)
    BY DEF ReaderTypeOK
  <2> QED
    BY <2>1, SliceStays
<1>3. Len(frames) \in Nat /\ taken \in Nat
  BY DEF ReaderTypeOK
<1>4. ASSUME NEW i \in 1 .. Len(frames)
      PROVE  SubSeq(wire', cut[i - 1] + 1, cut[i]) = SubSeq(wire, cut[i - 1] + 1, cut[i])
  <2>1. i - 1 \in 0 .. Len(frames) /\ i \in 0 .. Len(frames)
    BY <1>3
  <2>2. cut[i - 1] \in 0 .. taken /\ cut[i] \in 0 .. taken
    BY <2>1
  <2>3. cut[i - 1] < cut[i]
    BY <1>1
  <2>4. cut[i] \in cut[i - 1] .. taken
    BY <1>3, <2>2, <2>3
  <2> QED
    BY <1>2, <2>2, <2>4
<1>5. SubSeq(wire', cut[Len(frames)] + 1, taken) = SubSeq(wire, cut[Len(frames)] + 1, taken)
  <2>1. cut[Len(frames)] \in 0 .. taken /\ taken \in cut[Len(frames)] .. taken
    BY <1>3
  <2> QED
    BY <1>2, <2>1
<1> QED
  BY <1>1, <1>4, <1>5 DEF CutUp

(* More of a frame is read: the cut  stays and the last piece grows.        *)
LEMMA CutGrows ==
  ASSUME ReaderTypeOK, CutUp, NEW k \in 0 .. Len(wire) - taken, wire' = wire, frames' = frames,
         taken' = taken + k, partial' = partial \o SubSeq(wire, taken + 1, taken + k)
  PROVE  CutUp'
<1>1. PICK cut \in [0 .. Len(frames) -> 0 .. taken] :
        /\ cut[0] = 0
        /\ \A i \in 1 .. Len(frames) :
             cut[i - 1] < cut[i] /\ frames[i] = SubSeq(wire, cut[i - 1] + 1, cut[i])
        /\ partial = SubSeq(wire, cut[Len(frames)] + 1, taken)
  BY DEF CutUp
<1>2. /\ Len(frames) \in Nat /\ taken \in 0 .. Len(wire) /\ wire \in Seq(Byte)
      /\ 0 .. taken \subseteq 0 .. taken + k
  BY DEF ReaderTypeOK
<1>3. cut[Len(frames)] \in 0 .. taken /\ cut \in [0 .. Len(frames) -> 0 .. taken + k]
  BY <1>2
<1>4. partial' = SubSeq(wire, cut[Len(frames)] + 1, taken + k)
  <2>1. /\ cut[Len(frames)] \in 0 .. Len(wire) /\ taken \in cut[Len(frames)] .. Len(wire)
        /\ taken + k \in taken .. Len(wire)
    BY <1>2, <1>3
  <2> QED
    BY <1>1, <1>2, <2>1, SlicesJoin
<1> QED
  BY <1>1, <1>3, <1>4 DEF CutUp

(* A frame is complete: the cut is made where it ends.                     *)
LEMMA CutAdded ==
  ASSUME ReaderTypeOK, CutUp, NEW k \in 1 .. Len(wire) - taken, wire' = wire, taken' = taken + k, partial' = << >>,
         frames' = Append(frames, partial \o SubSeq(wire, taken + 1, taken + k)), frames' \in Seq(Seq(Byte))
  PROVE  CutUp'
<1> DEFINE n == Len(frames)
           whole == partial \o SubSeq(wire, taken + 1, taken + k)
<1>1. PICK cut \in [0 .. n -> 0 .. taken] :
        /\ cut[0] = 0
        /\ \A i \in 1 .. n : cut[i - 1] < cut[i] /\ frames[i] = SubSeq(wire, cut[i - 1] + 1, cut[i])
        /\ partial = SubSeq(wire, cut[n] + 1, taken)
  BY DEF CutUp
<1>2. n \in Nat /\ taken \in 0 .. Len(wire) /\ wire \in Seq(Byte) /\ frames \in Seq(Seq(Byte))
  BY DEF ReaderTypeOK
<1>3. /\ Len(frames') = n + 1 /\ frames'[n + 1] = whole
      /\ \A i \in 1 .. n : frames'[i] = frames[i]
  BY <1>2
<1>4. whole = SubSeq(wire, cut[n] + 1, taken + k)
  <2>1. cut[n] \in 0 .. taken
    <3>1. n \in 0 .. n
      BY <1>2
    <3> HIDE DEF n
    <3> QED
      BY <3>1
  <2>2. /\ cut[n] \in 0 .. Len(wire) /\ taken \in cut[n] .. Len(wire)
        /\ taken + k \in taken .. Len(wire)
    BY <1>2, <2>1
  <2> QED
    BY <1>1, <1>2, <2>2, SlicesJoin
<1> HIDE DEF n, whole
<1> DEFINE new == [i \in 0 .. n + 1 |-> IF i = n + 1 THEN taken + k ELSE cut[i]]
<1>5. new \in [0 .. n + 1 -> 0 .. taken + k]
  <2>1. ASSUME NEW i \in 0 .. n + 1 PROVE (IF i = n + 1 THEN taken + k ELSE cut[i]) \in 0 .. taken + k
    <3>1. i # n + 1 => i \in 0 .. n /\ cut[i] \in 0 .. taken
      BY <1>2
    <3> QED
      BY <1>2, <3>1
  <2> QED
    BY <2>1
<1>6. /\ new[0] = 0 /\ new[n + 1] = taken + k /\ new[(n + 1) - 1] = cut[n]
      /\ \A i \in 1 .. n : new[i] = cut[i] /\ new[i - 1] = cut[i - 1]
  <2>1. \A i \in 0 .. n + 1 : new[i] = IF i = n + 1 THEN taken + k ELSE cut[i]
    OBVIOUS
  <2>2. 0 \in 0 .. n + 1 /\ 0 # n + 1 /\ n + 1 \in 0 .. n + 1 /\ n \in 0 .. n + 1 /\ n # n + 1 /\ (n + 1) - 1 = n
    BY <1>2
  <2>3. \A i \in 1 .. n : i \in 0 .. n + 1 /\ i # n + 1 /\ i - 1 \in 0 .. n + 1 /\ i - 1 # n + 1
    BY <1>2
  <2> HIDE DEF new
  <2> QED
    BY <1>1, <2>1, <2>2, <2>3
<1>7. cut[n] < taken + k
  BY <1>2
<1> HIDE DEF new
<1>8. ASSUME NEW i \in 1 .. n + 1
      PROVE  new[i - 1] < new[i] /\ frames'[i] = SubSeq(wire, new[i - 1] + 1, new[i])
  <2>1. i = n + 1 \/ i \in 1 .. n
    BY <1>2
  <2>2. CASE i = n + 1
    BY <1>3, <1>4, <1>6, <1>7, <2>2
  <2>3. CASE i \in 1 .. n
    BY <1>1, <1>3, <1>6, <2>3
  <2> QED
    BY <2>1, <2>2, <2>3
<1>9. partial' = SubSeq(wire, new[n + 1] + 1, taken + k)
  BY <1>2, <1>6, SubSeqEmpty
<1> QED
  BY <1>3, <1>5, <1>6, <1>8, <1>9 DEF CutUp

-----------------------------------------------------------------------------
(* The inductive invariant                                                 *)

(* A call counts what it has read, which  is all that is held unless the    *)
(* frame was begun by a call that was dropped.                             *)
CallCounted ==
  /\ call # NoCall => verdict = "none" /\ call <= Len(partial) /\ Len(partial) - call <= Limit
  /\ ~resumed /\ verdict = "none" => Len(partial) = IF call = NoCall THEN 0 ELSE call

FrameIInv == FrameInv /\ CallCounted

LEMMA ReaderAtFirst == ReaderInit => FrameIInv
<1> SUFFICES ASSUME ReaderInit PROVE FrameIInv
  OBVIOUS
<1>1. /\ wire = << >> /\ peer = "open" /\ taken = 0 /\ partial = << >> /\ call = NoCall /\ frames = << >>
      /\ verdict = "none" /\ resumed = FALSE /\ Len(<< >>) = 0
  BY DEF ReaderInit
<1>2. ReaderTypeOK
  <2>1. NoCall \in NoCall .. Limit + 1 /\ 0 <= MaxBytes
    BY LimitAssumption DEF LimitAssumption, NoCall
  <2>2. wire \in Seq(Byte) /\ partial \in Seq(Byte) /\ frames \in Seq(Seq(Byte))
    BY <1>1
  <2>3. Len(wire) = 0 /\ taken \in 0 .. Len(wire)
    BY <1>1
  <2>4. peer \in {"open", "closed", "failed"} /\ verdict \in Verdict /\ resumed \in BOOLEAN
    BY <1>1 DEF Verdict
  <2> QED
    BY <1>1, <2>1, <2>2, <2>3, <2>4 DEF ReaderTypeOK
<1>3. CutUp
  <2> DEFINE cut == [i \in 0 .. 0 |-> 0]
  <2>1. cut \in [0 .. 0 -> 0 .. 0] /\ cut[0] = 0
    OBVIOUS
  <2>2. SubSeq(wire, 0 + 1, 0) = << >>
    BY SubSeqEmpty
  <2> HIDE DEF cut
  <2> QED
    BY <1>1, <2>1, <2>2 DEF CutUp
<1>4. BytesKept
  BY <1>1, <1>3, LimitAssumption DEF LimitAssumption, BytesKept, Contains
<1>5. VerdictIsTrue /\ CallCounted
  BY <1>1 DEF VerdictIsTrue, Reported, CallCounted
<1> QED
  BY <1>2, <1>4, <1>5 DEF FrameIInv, FrameInv

LEMMA PeerKept ==
  ASSUME FrameIInv, (\E b \in Byte : PeerWrites(b)) \/ (\E how \in {"closed", "failed"} : PeerEnds(how))
  PROVE  FrameIInv'
<1>1. CASE \E b \in Byte : PeerWrites(b)
  <2>1. PICK b \in Byte : PeerWrites(b)
    BY <1>1
  <2>2. /\ wire' = Append(wire, b) /\ Len(wire) < MaxBytes /\ peer' = peer /\ taken' = taken
        /\ partial' = partial /\ call' = call /\ frames' = frames /\ verdict' = verdict /\ resumed' = resumed
    BY <2>1 DEF PeerWrites
  <2>3. ReaderTypeOK'
    <3>1. /\ wire' \in Seq(Byte) /\ Len(wire') = Len(wire) + 1 /\ Len(wire) \in Nat
          /\ taken \in 0 .. Len(wire)
      BY <2>2 DEF FrameIInv, FrameInv, ReaderTypeOK
    <3> QED
      BY <2>2, <3>1, LimitAssumption DEF LimitAssumption, FrameIInv, FrameInv, ReaderTypeOK
  <2>4. verdict # "not utf-8" => CutUp'
    BY <2>2, CutStays DEF FrameIInv, FrameInv, BytesKept
  <2> QED
    BY <2>2, <2>3, <2>4 DEF FrameIInv, FrameInv, BytesKept, VerdictIsTrue, Reported, CallCounted
<1>2. CASE \E how \in {"closed", "failed"} : PeerEnds(how)
  <2>1. /\ peer = "open" /\ peer' \in {"closed", "failed"} /\ wire' = wire /\ taken' = taken
        /\ partial' = partial /\ call' = call /\ frames' = frames /\ verdict' = verdict /\ resumed' = resumed
    BY <1>2 DEF PeerEnds
  <2>2. ReaderTypeOK' /\ CallCounted'
    BY <2>1 DEF FrameIInv, FrameInv, ReaderTypeOK, CallCounted
  <2>3. BytesKept' /\ VerdictIsTrue'
    BY <2>1 DEF FrameIInv, FrameInv, BytesKept, CutUp, VerdictIsTrue, Reported
  <2> QED
    BY <2>2, <2>3 DEF FrameIInv, FrameInv
<1> QED
  BY <1>1, <1>2

LEMMA CallsKept ==
  ASSUME FrameIInv, Begin \/ PollFails \/ Drop
  PROVE  FrameIInv'
<1>1. /\ wire' = wire /\ peer' = peer /\ taken' = taken /\ partial' = partial /\ frames' = frames
  BY DEF Begin, Ends, PollFails, Drop, Keeps
<1>2. \/ /\ verdict = "none" /\ call = NoCall /\ resumed' = resumed
         /\ \/ Budget(Len(partial)) <= 0 /\ verdict' = "oversized" /\ call' = NoCall
            \/ ~(Budget(Len(partial)) <= 0) /\ verdict' = verdict /\ call' = 0
      \/ call # NoCall /\ peer = "failed" /\ verdict' = "io" /\ call' = NoCall /\ resumed' = resumed
      \/ call # NoCall /\ call' = NoCall /\ verdict' = verdict /\ resumed' = (partial # << >>)
  BY DEF Begin, Ends, PollFails, Drop
<1>3. Len(partial) \in Nat /\ (Len(partial) = 0 <=> partial = << >>)
  BY DEF FrameIInv, FrameInv, ReaderTypeOK
<1>4. ReaderTypeOK'
  <2>1. call' \in NoCall .. Limit + 1
    <3>1. 0 \in NoCall .. Limit + 1 /\ NoCall \in NoCall .. Limit + 1
      BY LimitAssumption DEF LimitAssumption, NoCall
    <3> QED
      BY <1>2, <3>1
  <2>2. verdict' \in Verdict
    BY <1>2 DEF FrameIInv, FrameInv, ReaderTypeOK, Verdict
  <2>3. resumed' \in BOOLEAN
    BY <1>2 DEF FrameIInv, FrameInv, ReaderTypeOK
  <2> QED
    BY <1>1, <2>1, <2>2, <2>3 DEF FrameIInv, FrameInv, ReaderTypeOK
<1>5. BytesKept'
  <2>1. verdict' # "not utf-8" => verdict # "not utf-8"
    BY <1>2 DEF FrameIInv, CallCounted
  <2> QED
    BY <1>1, <2>1 DEF FrameIInv, FrameInv, BytesKept, CutUp
<1>6. VerdictIsTrue' /\ CallCounted'
  <2>1. Limit \in Nat /\ VerdictIsTrue /\ CallCounted /\ ReaderTypeOK
    BY LimitAssumption DEF LimitAssumption, FrameIInv, FrameInv
  <2>2. CASE /\ verdict = "none" /\ call = NoCall /\ resumed' = resumed
             /\ Budget(Len(partial)) <= 0 /\ verdict' = "oversized" /\ call' = NoCall
    <3>1. Len(partial) > Limit
      BY <1>3, <2>1, <2>2 DEF Budget
    <3> QED
      BY <1>1, <2>2, <3>1 DEF VerdictIsTrue, Reported, CallCounted
  <2>3. CASE /\ verdict = "none" /\ call = NoCall /\ resumed' = resumed
             /\ ~(Budget(Len(partial)) <= 0) /\ verdict' = verdict /\ call' = 0
    <3>1. Len(partial) <= Limit /\ (~resumed => Len(partial) = 0) /\ 0 # NoCall
      BY <1>3, <2>1, <2>3 DEF Budget, CallCounted, NoCall
    <3>2. 0 <= Len(partial) /\ Len(partial) - 0 <= Limit
      BY <1>3, <3>1
    <3> QED
      BY <1>1, <2>3, <3>1, <3>2 DEF VerdictIsTrue, Reported, CallCounted
  <2>4. CASE call # NoCall /\ peer = "failed" /\ verdict' = "io" /\ call' = NoCall /\ resumed' = resumed
    BY <1>1, <2>4 DEF VerdictIsTrue, Reported, CallCounted
  <2>5. CASE call # NoCall /\ call' = NoCall /\ verdict' = verdict /\ resumed' = (partial # << >>)
    BY <1>1, <1>3, <2>1, <2>5 DEF VerdictIsTrue, Reported, CallCounted
  <2> QED
    BY <1>2, <2>2, <2>3, <2>4, <2>5
<1> QED
  BY <1>4, <1>5, <1>6 DEF FrameIInv, FrameInv

LEMMA PollKept ==
  ASSUME FrameIInv, Poll
  PROVE  FrameIInv'
<1> DEFINE p == Len(partial)
           whole == partial \o Bite
<1>1. /\ ReaderTypeOK /\ BytesKept /\ CallCounted /\ Limit \in Nat
      /\ wire \in Seq(Byte) /\ partial \in Seq(Byte) /\ p \in Nat /\ p <= Limit + 1
      /\ taken \in 0 .. Len(wire) /\ frames \in Seq(Seq(Byte))
  <2>1. ReaderTypeOK /\ BytesKept /\ CallCounted /\ Limit \in Nat
    BY LimitAssumption DEF LimitAssumption, FrameIInv, FrameInv
  <2>2. /\ wire \in Seq(Byte) /\ partial \in Seq(Byte)
        /\ taken \in 0 .. Len(wire) /\ frames \in Seq(Seq(Byte))
    BY <2>1 DEF ReaderTypeOK
  <2>3. p <= Limit + 1
    BY <2>1 DEF BytesKept
  <2>4. p \in Nat
    BY <2>2
  <2> QED
    BY <2>1, <2>2, <2>3, <2>4
<1>2. PICK k \in 0 .. Len(wire) - taken :
        /\ Bite = SubSeq(wire, taken + 1, taken + k) /\ k <= Budget(p)
        /\ \A j \in 1 .. k - 1 : wire[taken + j] # "newline"
  BY <1>1, BiteIs
<1>3. Bite \in Seq(Byte) /\ Len(Bite) = k /\ \A j \in 1 .. k : Bite[j] = wire[taken + j]
  <2>1. taken + k \in taken .. Len(wire) /\ (taken + k) - taken = k
    BY <1>1
  <2>2. /\ SubSeq(wire, taken + 1, taken + k) \in Seq(Byte)
        /\ Len(SubSeq(wire, taken + 1, taken + k)) = (taken + k) - taken
        /\ \A j \in 1 .. (taken + k) - taken : SubSeq(wire, taken + 1, taken + k)[j] = wire[taken + j]
    BY <1>1, <2>1, Slice
  <2> QED
    BY <1>2, <2>1, <2>2
<1>4. /\ k \in Nat /\ p + k <= Limit + 1
      /\ \A j \in 1 .. k - 1 : Bite[j] # "newline"
  <2>1. k \in Nat
    BY <1>2
  <2>2. p + k <= Limit + 1
    <3> HIDE DEF p
    <3> QED
      BY <1>1, <1>2, <2>1 DEF Budget
  <2>3. ASSUME NEW j \in 1 .. k - 1 PROVE Bite[j] # "newline"
    <3>1. j \in 1 .. k
      BY <2>1
    <3> QED
      BY <1>2, <1>3, <3>1
  <2> QED
    BY <2>1, <2>2, <2>3
<1>5. /\ wire' = wire /\ peer' = peer /\ taken' = taken + k /\ call # NoCall
      /\ Bite # << >> \/ peer = "closed" \/ Budget(p) = 0
      /\ IF Contains(Bite, "newline") THEN Complete(whole)
         ELSE /\ partial' = whole /\ frames' = frames /\ resumed' = resumed
              /\ IF Budget(Len(whole)) = 0 \/ (peer = "closed" /\ taken' = Len(wire))
                   THEN verdict' = Stopped(call + k) /\ call' = NoCall
                   ELSE call' = call + k /\ verdict' = verdict
  BY <1>3 DEF Poll
<1>6. /\ verdict = "none" /\ call \in 0 .. p /\ p - call <= Limit /\ (~resumed => p = call)
  BY <1>1, <1>5 DEF CallCounted, ReaderTypeOK, NoCall
<1>7. /\ whole \in Seq(Byte) /\ Len(whole) = p + k
      /\ \A i \in 1 .. p : whole[i] = partial[i]
      /\ \A i \in p + 1 .. p + k : whole[i] = Bite[i - p]
  <2>1. /\ whole \in Seq(Byte) /\ Len(whole) = p + Len(Bite)
        /\ \A i \in 1 .. p + Len(Bite) : whole[i] = IF i <= p THEN partial[i] ELSE Bite[i - p]
    BY <1>1, <1>3, ConcatProperties
  <2> HIDE DEF p, whole
  <2> QED
    BY <1>1, <1>3, <1>4, <2>1
<1>8. taken + k \in 0 .. Len(wire) /\ ReaderTypeOK
  BY <1>1
<1>9. \A i \in 1 .. p : partial[i] # "newline"
  BY <1>1 DEF BytesKept, Contains
<1> HIDE DEF p, whole
<1>10. CASE Contains(Bite, "newline")
  <2>1. PICK j \in 1 .. k : Bite[j] = "newline"
    BY <1>3, <1>10 DEF Contains
  <2>2. j = k /\ k \in 1 .. Len(wire) - taken
    BY <1>4, <2>1
  <2>3. whole[p + k] = "newline" /\ \A i \in 1 .. p + k - 1 : whole[i] # "newline"
    <3>1. p + k \in p + 1 .. p + k /\ (p + k) - p = k
      BY <1>1, <2>2
    <3>2. ASSUME NEW i \in 1 .. p + k - 1 PROVE whole[i] # "newline"
      <4>1. i \in 1 .. p \/ (i \in p + 1 .. p + k /\ i - p \in 1 .. k - 1)
        BY <1>1, <1>4
      <4> QED
        BY <1>4, <1>7, <1>9, <4>1
    <3> QED
      BY <1>7, <2>1, <2>2, <3>1, <3>2
  <2>4. IsFrame(whole)
    <3>1. whole # << >>
      BY <1>1, <1>7, <2>2
    <3>2. Last(whole) = "newline"
      BY <1>7, <2>3 DEF Last
    <3>3. Len(Front(whole)) = p + k - 1 /\ \A i \in 1 .. p + k - 1 : Front(whole)[i] = whole[i]
      <4>1. 0 \in 0 .. Len(whole) /\ p + k - 1 \in 0 .. Len(whole) /\ (p + k - 1) - 0 = p + k - 1
            /\ \A i \in 1 .. p + k - 1 : 0 + i = i
        BY <1>1, <1>7, <2>2
      <4>2. /\ Len(SubSeq(whole, 0 + 1, p + k - 1)) = (p + k - 1) - 0
            /\ \A i \in 1 .. (p + k - 1) - 0 : SubSeq(whole, 0 + 1, p + k - 1)[i] = whole[0 + i]
        BY <1>7, <4>1, Slice
      <4>3. Front(whole) = SubSeq(whole, 0 + 1, p + k - 1)
        <5>1. 0 + 1 = 1 /\ Len(whole) - 1 = p + k - 1
          BY <1>1, <1>4, <1>7
        <5> QED
          BY <5>1 DEF Front
      <4> QED
        BY <4>1, <4>2, <4>3
    <3>4. ~Contains(Front(whole), "newline")
      BY <2>3, <3>3 DEF Contains
    <3> QED
      BY <3>1, <3>2, <3>4 DEF IsFrame
  <2>5. /\ partial' = << >> /\ call' = NoCall /\ resumed' = FALSE
        /\ \/ verdict' = "not utf-8" /\ frames' = frames
           \/ verdict' = "none" /\ frames' = Append(frames, whole) /\ ~Contains(whole, "binary")
    BY <1>5, <1>6, <1>10 DEF Complete
  <2>6. frames' \in Seq(Seq(Byte))
    <3>1. Append(frames, whole) \in Seq(Seq(Byte))
      BY <1>1, <1>7, AppendProperties
    <3> QED
      BY <1>1, <2>5, <3>1
  <2>7. ReaderTypeOK'
    <3>1. NoCall \in NoCall .. Limit + 1
      BY <1>1 DEF NoCall
    <3>2. << >> \in Seq(Byte)
      OBVIOUS
    <3> QED
      BY <1>5, <1>8, <2>5, <2>6, <3>1, <3>2 DEF ReaderTypeOK, Verdict
  <2>8. BytesKept'
    <3>1. verdict' # "not utf-8" => CutUp'
      <4> SUFFICES ASSUME verdict' # "not utf-8" PROVE CutUp'
        OBVIOUS
      <4>1. CutUp /\ frames' = Append(frames, partial \o SubSeq(wire, taken + 1, taken + k))
        BY <1>1, <1>2, <1>6, <2>5 DEF BytesKept, whole
      <4> QED
        BY <1>1, <1>5, <2>2, <2>5, <2>6, <4>1, CutAdded
    <3>2. ASSUME NEW i \in 1 .. Len(frames')
          PROVE  IsFrame(frames'[i]) /\ ~Contains(frames'[i], "binary") /\ Len(frames'[i]) <= Limit + 1
      <4>1. \/ i \in 1 .. Len(frames) /\ frames'[i] = frames[i]
            \/ frames'[i] = whole /\ ~Contains(whole, "binary")
        <5>1. CASE frames' = frames
          BY <5>1
        <5>2. CASE frames' = Append(frames, whole) /\ ~Contains(whole, "binary")
          <6>1. /\ Len(frames') = Len(frames) + 1 /\ frames'[Len(frames) + 1] = whole
                /\ \A m \in 1 .. Len(frames) : frames'[m] = frames[m]
            BY <1>1, <1>7, <5>2, AppendProperties
          <6>2. i \in 1 .. Len(frames) \/ i = Len(frames) + 1
            BY <1>1, <6>1
          <6> QED
            BY <5>2, <6>1, <6>2
        <5> QED
          BY <2>5, <5>1, <5>2
      <4> QED
        BY <1>1, <1>4, <1>7, <2>4, <4>1 DEF BytesKept
    <3>3. Len(partial') <= Limit + 1 /\ ~Contains(partial', "newline")
      <4>1. Len(partial') = 0
        BY <2>5
      <4> QED
        BY <1>1, <4>1 DEF Contains
    <3> QED
      BY <3>1, <3>2, <3>3 DEF BytesKept
  <2>9. VerdictIsTrue' /\ CallCounted'
    BY <2>5 DEF VerdictIsTrue, Reported, CallCounted
  <2> QED
    BY <2>7, <2>8, <2>9 DEF FrameIInv, FrameInv
<1>11. CASE ~Contains(Bite, "newline")
  <2>1. /\ partial' = whole /\ Len(partial') = p + k /\ frames' = frames /\ resumed' = resumed
        /\ \/ /\ Budget(p + k) = 0 \/ (peer = "closed" /\ taken' = Len(wire))
              /\ verdict' = Stopped(call + k) /\ call' = NoCall
           \/ /\ Budget(p + k) # 0
              /\ call' = call + k /\ verdict' = "none"
    BY <1>5, <1>6, <1>7, <1>11
  <2>2. /\ call + k \in 0 .. p + k /\ call + k <= Limit + 1 /\ (p + k) - (call + k) <= Limit
        /\ ~resumed => p + k = call + k
    BY <1>1, <1>4, <1>6
  <2>3. verdict' \in {"none", "closed", "oversized", "truncated"}
    BY <2>1 DEF Stopped
  <2>4. ReaderTypeOK'
    <3>1. call' \in NoCall .. Limit + 1
      BY <1>1, <2>1, <2>2 DEF NoCall
    <3> QED
      BY <1>1, <1>5, <1>7, <1>8, <2>1, <2>3, <3>1 DEF ReaderTypeOK, Verdict
  <2>5. BytesKept'
    <3>1. CutUp'
      <4>1. CutUp
        BY <1>1, <1>6 DEF BytesKept
      <4> QED
        BY <1>1, <1>2, <1>5, <2>1, <4>1, CutGrows DEF whole
    <3>2. ~Contains(partial', "newline")
      <4>1. \A j \in 1 .. k : Bite[j] # "newline"
        BY <1>3, <1>11 DEF Contains
      <4>2. ASSUME NEW i \in 1 .. p + k PROVE whole[i] # "newline"
        <5>1. i \in 1 .. p \/ (i \in p + 1 .. p + k /\ i - p \in 1 .. k)
          BY <1>1, <1>4
        <5> QED
          BY <1>7, <1>9, <4>1, <5>1
      <4> QED
        BY <2>1, <4>2 DEF Contains
    <3> QED
      BY <1>1, <1>4, <2>1, <3>1, <3>2 DEF BytesKept
  <2>6. VerdictIsTrue'
    <3>1. CASE Budget(p + k) # 0 /\ verdict' = "none"
      BY <3>1 DEF VerdictIsTrue, Reported
    <3>2. CASE /\ Budget(p + k) = 0 \/ (peer = "closed" /\ taken' = Len(wire))
               /\ verdict' = Stopped(call + k)
      <4>1. Budget(p + k) = 0 <=> p + k > Limit
        BY <1>1, <1>4 DEF Budget
      <4>2. verdict' = IF call + k = 0 THEN "closed" ELSE IF p + k > Limit THEN "oversized" ELSE "truncated"
        BY <2>1, <3>2 DEF Stopped
      <4>3. Reported' = verdict'
        BY <4>2 DEF Reported
      <4>4. ASSUME call + k = 0, ~resumed PROVE partial' = << >> /\ peer # "open"
        <5>1. p = 0 /\ k = 0 /\ ~(p + k > Limit)
          BY <1>1, <1>4, <1>6, <4>4
        <5>2. partial' \in Seq(Byte) /\ Len(partial') = 0
          BY <1>7, <2>1, <5>1
        <5>3. peer = "closed"
          BY <3>2, <4>1, <5>1
        <5> QED
          BY <5>2, <5>3
      <4>5. ASSUME call + k # 0, ~(p + k > Limit) PROVE partial' # << >> /\ peer # "open"
        <5>1. p + k # 0
          BY <1>1, <1>4, <1>6, <4>5
        <5>2. partial' # << >>
          BY <2>1, <5>1
        <5> QED
          BY <3>2, <4>1, <4>5, <5>2
      <4> QED
        BY <1>5, <2>1, <4>2, <4>3, <4>4, <4>5 DEF VerdictIsTrue
    <3> QED
      BY <2>1, <3>1, <3>2
  <2>7. CallCounted'
    <3>1. CASE call' = NoCall /\ verdict' = Stopped(call + k)
      BY <3>1 DEF CallCounted, Stopped
    <3>2. CASE call' = call + k /\ verdict' = "none"
      <4>1. call' # NoCall
        BY <2>2, <3>2 DEF NoCall
      <4>2. /\ call' <= p + k /\ (p + k) - call' <= Limit
            /\ ~resumed => p + k = call'
        BY <2>2, <3>2
      <4> QED
        BY <2>1, <3>2, <4>1, <4>2 DEF CallCounted
    <3> QED
      BY <2>1, <3>1, <3>2
  <2> QED
    BY <2>4, <2>5, <2>6, <2>7 DEF FrameIInv, FrameInv
<1> QED
  BY <1>10, <1>11

(* Every byte read is in a frame returned or in the one that is held, in   *)
(* order, whatever calls were dropped; and what the reader says of the end *)
(* is what happened (next_frame, read_frame).                              *)
THEOREM FramesAreKept == ReaderSpec => []FrameInv
<1>1. FrameIInv /\ [ReaderNext]_readerVars => FrameIInv'
  <2> SUFFICES ASSUME FrameIInv, [ReaderNext]_readerVars PROVE FrameIInv'
    OBVIOUS
  <2>1. CASE UNCHANGED readerVars
    BY <2>1
    DEF readerVars, FrameIInv, FrameInv, ReaderTypeOK, BytesKept, CutUp, VerdictIsTrue, Reported, CallCounted
  <2>2. CASE ReaderNext
    BY <2>2, PeerKept, CallsKept, PollKept DEF ReaderNext
  <2> QED
    BY <2>1, <2>2
<1>2. FrameIInv => FrameInv
  BY DEF FrameIInv
<1> QED
  BY <1>1, <1>2, ReaderAtFirst, PTL DEF ReaderSpec
=============================================================================
