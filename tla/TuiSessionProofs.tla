-------------------------- MODULE TuiSessionProofs --------------------------
(* What TuiSession promises of the screen, proved for every number of      *)
(* sessions, every length of the channel and every number of outages.      *)
EXTENDS TuiSession, SequenceTheorems, TLAPS

-----------------------------------------------------------------------------
(* Sequences, messages and snapshots                                       *)

LEMMA Added ==
  ASSUME NEW S, NEW s \in Seq(S), NEW e \in S
  PROVE  /\ Append(s, e) \in Seq(S) /\ Append(s, e) # << >>
         /\ Len(s) \in Nat /\ Len(Append(s, e)) = Len(s) + 1
         /\ DOMAIN s = 1 .. Len(s) /\ DOMAIN Append(s, e) = 1 .. Len(s) + 1
         /\ Last(Append(s, e)) = e /\ Append(s, e)[Len(s) + 1] = e
         /\ \A i \in 1 .. Len(s) : Append(s, e)[i] = s[i]
<1>1. /\ Append(s, e) \in Seq(S) /\ Append(s, e) # << >>
      /\ Len(s) \in Nat /\ Len(Append(s, e)) = Len(s) + 1
      /\ Append(s, e)[Len(s) + 1] = e /\ \A i \in 1 .. Len(s) : Append(s, e)[i] = s[i]
  BY AppendProperties
<1>2. DOMAIN s = 1 .. Len(s) /\ DOMAIN Append(s, e) = 1 .. Len(Append(s, e))
  BY <1>1
<1>3. Last(Append(s, e)) = e
  BY <1>1 DEF Last
<1> QED
  BY <1>1, <1>2, <1>3

LEMMA Taken ==
  ASSUME NEW S, NEW s \in Seq(S), s # << >>
  PROVE  /\ Head(s) = s[1] /\ Head(s) \in S /\ Tail(s) \in Seq(S)
         /\ Len(s) \in Nat \ {0} /\ Len(Tail(s)) = Len(s) - 1
         /\ DOMAIN s = 1 .. Len(s) /\ DOMAIN Tail(s) = 1 .. Len(s) - 1
         /\ \A i \in 1 .. Len(s) - 1 : Tail(s)[i] = s[i + 1]
         /\ IF Tail(s) = << >> THEN Last(s) = Head(s) ELSE Last(Tail(s)) = Last(s)
<1>1. /\ Len(s) \in Nat \ {0} /\ Head(s) = s[1] /\ Head(s) \in S /\ Tail(s) \in Seq(S)
      /\ Len(Tail(s)) = Len(s) - 1 /\ \A i \in 1 .. Len(s) - 1 : Tail(s)[i] = s[i + 1]
  <2>1. Len(s) \in Nat \ {0} /\ 1 \in 1 .. Len(s)
    BY EmptySeq
  <2> QED
    BY <2>1, HeadTailProperties
<1>2. DOMAIN s = 1 .. Len(s) /\ DOMAIN Tail(s) = 1 .. Len(s) - 1
  BY <1>1
<1>3. CASE Tail(s) = << >>
  <2>1. Len(s) = 1
    <3>1. Len(Tail(s)) = 0 /\ Len(s) \in Nat /\ Len(Tail(s)) = Len(s) - 1
      BY <1>1, <1>3, EmptySeq
    <3> HIDE <1>1, <1>3
    <3> QED
      BY <3>1
  <2> QED
    BY <1>1, <1>2, <1>3, <2>1 DEF Last
<1>4. CASE Tail(s) # << >>
  <2>1. Len(Tail(s)) # 0
    BY <1>1, <1>4
  <2>2. Len(s) - 1 \in 1 .. Len(s) - 1 /\ (Len(s) - 1) + 1 = Len(s)
    BY <1>1, <2>1
  <2>3. Tail(s)[Len(s) - 1] = s[Len(s)]
    BY <1>1, <2>2
  <2> QED
    BY <1>1, <1>2, <1>4, <2>3 DEF Last
<1> QED
  BY <1>1, <1>2, <1>3, <1>4

LEMMA Removed ==
  ASSUME NEW S, NEW s \in Seq(S), NEW i \in DOMAIN s
  PROVE  RemoveAt(s, i) \in Seq(S) /\ Len(RemoveAt(s, i)) = Len(s) - 1
<1>1. Len(s) \in Nat /\ i \in 1 .. Len(s)
  OBVIOUS
<1>2. SubSeq(s, 1, i - 1) \in Seq(S) /\ Len(SubSeq(s, 1, i - 1)) = i - 1
  <2>1. 1 \in Int /\ i - 1 \in Int /\ \A j \in 1 .. i - 1 : s[j] \in S
    BY <1>1
  <2>2. /\ SubSeq(s, 1, i - 1) \in Seq(S)
        /\ Len(SubSeq(s, 1, i - 1)) = IF 1 <= i - 1 THEN (i - 1) - 1 + 1 ELSE 0
    BY <1>1, <2>1, SubSeqProperties
  <2> QED
    BY <1>1, <2>2
<1>3. SubSeq(s, i + 1, Len(s)) \in Seq(S) /\ Len(SubSeq(s, i + 1, Len(s))) = Len(s) - i
  <2>1. i + 1 \in Int /\ Len(s) \in Int /\ \A j \in i + 1 .. Len(s) : s[j] \in S
    BY <1>1
  <2>2. /\ SubSeq(s, i + 1, Len(s)) \in Seq(S)
        /\ Len(SubSeq(s, i + 1, Len(s))) = IF i + 1 <= Len(s) THEN Len(s) - (i + 1) + 1 ELSE 0
    BY <1>1, <2>1, SubSeqProperties
  <2> QED
    BY <1>1, <2>2
<1>4. /\ SubSeq(s, 1, i - 1) \o SubSeq(s, i + 1, Len(s)) \in Seq(S)
      /\ Len(SubSeq(s, 1, i - 1) \o SubSeq(s, i + 1, Len(s))) = (i - 1) + (Len(s) - i)
  BY <1>2, <1>3, ConcatProperties
<1>5. (i - 1) + (Len(s) - i) = Len(s) - 1
  BY <1>1
<1> QED
  BY <1>4, <1>5 DEF RemoveAt

LEMMA Messages ==
  /\ \A s \in Session : Lost(s) \in Message /\ "lost" \in DOMAIN Lost(s)
  /\ \A x \in Snapshot : /\ Shown(x) \in Message /\ "lost" \notin DOMAIN Shown(x)
                         /\ Shown(x).snapshot = x
  /\ \A s \in Session, x \in Snapshot : Lost(s) # Shown(x)
  /\ \A x, y \in Snapshot : Shown(x) = Shown(y) => x = y
  /\ \A m \in Message : (\E s \in Session : m = Lost(s)) \/ (\E x \in Snapshot : m = Shown(x))
<1>1. \A s : DOMAIN Lost(s) = {"lost"}
  BY DEF Lost
<1>2. \A x : DOMAIN Shown(x) = {"snapshot"} /\ Shown(x).snapshot = x
  BY DEF Shown
<1>3. "lost" # "snapshot"
  OBVIOUS
<1> QED
  BY <1>1, <1>2, <1>3 DEF Message

LEMMA Snapshots ==
  /\ \A x \in Snapshot : x.version \in 0 .. MaxVersion /\ x.version \in Int /\ x.level \in Level
  /\ NoSnapshot.version = -1 /\ NoSnapshot \notin Snapshot
  /\ \A v \in 0 .. MaxVersion, l \in Level : [version |-> v, level |-> l] \in Snapshot
<1>1. -1 \notin 0 .. MaxVersion /\ \A v \in 0 .. MaxVersion : v \in Int
  BY BoundAssumption DEF BoundAssumption
<1> QED
  BY <1>1 DEF Snapshot, NoSnapshot

-----------------------------------------------------------------------------
(* The inductive invariant                                                 *)

(* What a session is at: only one that has subscribed and is read has      *)
(* anything on its way, and a set_volume that is waited for is running.    *)
Wired ==
  /\ \A s \in Session :
       /\ link[s] = "subscribed" => Running(s)
       /\ Running(s) => link[s] \in {"subscribed", "closed"}
       /\ ~Running(s) => stream[s] = << >>
       /\ first[s] # NoSnapshot => link[s] = "subscribed"
  /\ sending => calls # << >>

(* With no session read, the newest message is the report of a loss.       *)
EndIsTold ==
  (\A s \in Session : ~Running(s)) =>
     /\ connected => ipc # << >>
     /\ ipc # << >> => \E s \in Session : Last(ipc) = Lost(s)

(* The level asked for last is the newest that has not been overtaken on   *)
(* its way from the keys to OBS; at most one command is under way.         *)
Newest ==
  IF queue # << >> THEN Last(queue) ELSE IF pending # Unknown THEN pending
  ELSE IF calls # << >> THEN calls[1] ELSE given

TargetIsNewest ==
  loop # "quit" /\ slips \cap {"failed", "timed_out"} = {} =>
     /\ Len(calls) <= 1 /\ (calls # << >> => sending)
     /\ target = Newest

(* An initial state that has not been overtaken is the first thing its     *)
(* session is sent, and the newest there is.                               *)
FirstIsFirst ==
  "overtaken" \notin slips =>
     \A s \in Session : first[s] # NoSnapshot => first[s] = state /\ stream[s] = << >>

(* The newest snapshot is the last on its way by every open session; when  *)
(* nothing is left to forward it is the last in the channel, or shown.     *)
Open(s) == link[s] = "subscribed"
Drained == \A s \in Session : stream[s] = << >> /\ first[s] = NoSnapshot

StateIsLast ==
  slips \cap {"failed", "overtaken", "dead_unread"} = {}
    /\ (\E s \in Session : Open(s)) =>
     /\ \A s \in Session : Running(s) => Open(s)
     /\ \A s \in Session : stream[s] # << >> => Last(stream[s]) = state
     /\ Drained => IF ipc # << >> THEN Last(ipc) = Shown(state) ELSE VolumeAtRest => view = state

(* With one session at a time, snapshots are in the order of their         *)
(* versions all the way from the daemon to the screen.                     *)
Rising ==
  slips \cap {"overtaken", "two_sessions", "dead_unread"} = {} =>
     /\ \A r, s \in Session : Running(r) /\ Running(s) => r = s
     /\ view.version <= state.version
     /\ \A i \in DOMAIN ipc, x \in Snapshot : ipc[i] = Shown(x) =>
          /\ view.version <= x.version /\ x.version <= state.version
          /\ \A j \in DOMAIN ipc, y \in Snapshot : ipc[j] = Shown(y) /\ i < j => x.version <= y.version
     /\ \A s \in Session : \A k \in DOMAIN stream[s] :
          /\ view.version <= stream[s][k].version /\ stream[s][k].version <= state.version
          /\ \A i \in DOMAIN ipc, x \in Snapshot : ipc[i] = Shown(x) => x.version <= stream[s][k].version
          /\ \A l \in DOMAIN stream[s] : k < l => stream[s][k].version <= stream[s][l].version

SessionIInv ==
  TypeOK /\ Wired /\ EndIsTold /\ TargetIsNewest /\ FirstIsFirst /\ StateIsLast /\ Rising

LEMMA AtFirst == Init => SessionIInv
<1> SUFFICES ASSUME Init PROVE SessionIInv
  OBVIOUS
<1>1. 0 \in 0 .. MaxVersion /\ 0 \in 0 .. MaxOutages /\ 0 \in 0 .. MaxPresses /\ 0 \in Level /\ 0 <= Capacity
  BY BoundAssumption DEF BoundAssumption, Level
<1>2. /\ link = [s \in Session |-> "none"] /\ first = [s \in Session |-> NoSnapshot]
      /\ stream = [s \in Session |-> << >>] /\ forwarder = [s \in Session |-> "none"]
      /\ ipc = << >> /\ queue = << >> /\ calls = << >> /\ connected = FALSE /\ sending = FALSE
      /\ pending = Unknown /\ target = Unknown /\ given = Unknown
      /\ view = NoSnapshot /\ state.version = 0 /\ state \in Snapshot /\ Len(ipc) = 0
  BY <1>1, Snapshots DEF Init
<1>3. TypeOK
  <2>1. /\ link \in [Session -> {"none", "dialled", "subscribed", "closed"}]
        /\ first \in [Session -> Snapshot \cup {NoSnapshot}]
        /\ stream \in [Session -> Seq(Snapshot)] /\ forwarder \in [Session -> {"none", "running", "ended"}]
        /\ ipc \in Seq(Message) /\ Len(ipc) <= Capacity /\ queue \in Seq(Level) /\ calls \in Seq(Level)
    BY <1>1, <1>2
  <2> QED
    BY <1>1, <1>2, <2>1 DEF Init, TypeOK
<1>4. Wired /\ EndIsTold /\ FirstIsFirst /\ StateIsLast
  BY <1>2 DEF Wired, Running, EndIsTold, FirstIsFirst, StateIsLast, Open
<1>5. TargetIsNewest
  <2>1. Len(calls) <= 1 /\ calls = << >>
    BY <1>2
  <2> QED
    BY <1>2, <2>1 DEF TargetIsNewest, Newest
<1>6. Rising
  <2>1. DOMAIN ipc = {} /\ \A s \in Session : DOMAIN stream[s] = {} /\ ~Running(s)
    BY <1>2 DEF Running
  <2>2. view.version <= state.version
    BY <1>2, Snapshots
  <2> QED
    BY <2>1, <2>2 DEF Rising
<1> QED
  BY <1>3, <1>4, <1>5, <1>6 DEF SessionIInv

(* What a step leaves alone stays as it was.                               *)

LEMMA WiredStays ==
  ASSUME Wired, UNCHANGED <<link, forwarder, stream, first>>, sending' => calls' # << >>
  PROVE  Wired'
BY DEF Wired, Running

LEMMA EndStays ==
  ASSUME EndIsTold, UNCHANGED <<forwarder, ipc>>, connected' => connected
  PROVE  EndIsTold'
BY DEF EndIsTold, Running

LEMMA TargetStays ==
  ASSUME TargetIsNewest, UNCHANGED <<queue, pending, calls, given, sending, target>>,
         loop' # "quit" => loop # "quit", slips \subseteq slips'
  PROVE  TargetIsNewest'
BY DEF TargetIsNewest, Newest

LEMMA FirstStays ==
  ASSUME FirstIsFirst, UNCHANGED <<first, stream, state>>, slips \subseteq slips'
  PROVE  FirstIsFirst'
BY DEF FirstIsFirst

LEMMA LastStays ==
  ASSUME StateIsLast, UNCHANGED <<link, forwarder, first, stream, state, ipc, view>>, slips \subseteq slips',
         VolumeAtRest' => VolumeAtRest
  PROVE  StateIsLast'
BY DEF StateIsLast, Open, Drained, Running

LEMMA RisingStays ==
  ASSUME Rising, UNCHANGED <<forwarder, stream, state, ipc>>, view'.version = view.version, slips \subseteq slips'
  PROVE  Rising'
BY DEF Rising, Running

(* The steps that touch no message and no level: the daemon is suspended   *)
(* or goes on, a connect is begun or fails.                                *)
LEMMA QuietKept ==
  ASSUME SessionIInv, DaemonStops \/ DaemonRuns \/ Dial \/ ConnectFails \/ Retry
  PROVE  SessionIInv'
<1>1. /\ UNCHANGED <<state, first, stream, forwarder, ipc, connected, view, volume, slips>>
      /\ loop' \in {"select", "connect", "subscribe", "quit"} /\ (loop' # "quit" => loop # "quit")
      /\ daemon' \in {"up", "suspended", "down"} /\ outages' \in 0 .. MaxOutages
  <2>1. daemon \in {"up", "suspended", "down"} /\ outages \in 0 .. MaxOutages
        /\ loop \in {"select", "connect", "subscribe", "quit"}
    BY DEF SessionIInv, TypeOK
  <2>2. CASE DaemonStops
    BY <2>1, <2>2, BoundAssumption DEF BoundAssumption, DaemonStops, sessions, screen, volume
  <2>3. CASE DaemonRuns
    BY <2>1, <2>3 DEF DaemonRuns, sessions, screen, volume
  <2>4. CASE Dial
    BY <2>1, <2>4 DEF Dial, world
  <2>5. CASE ConnectFails
    BY <2>1, <2>5 DEF ConnectFails, world, sessions
  <2>6. CASE Retry
    BY <2>1, <2>6 DEF Retry, world, sessions
  <2> QED
    BY <2>2, <2>3, <2>4, <2>5, <2>6
<1>2. \/ link' = link
      \/ \E s \in Session : link[s] = "none" /\ link' = [link EXCEPT ![s] = "dialled"]
  BY DEF DaemonStops, DaemonRuns, Dial, ConnectFails, Retry, sessions
<1>3. /\ link' \in [Session -> {"none", "dialled", "subscribed", "closed"}]
      /\ \A s \in Session : link'[s] # link[s] => link[s] = "none" /\ link'[s] = "dialled"
  BY <1>2 DEF SessionIInv, TypeOK
<1>4. TypeOK'
  BY <1>1, <1>3 DEF SessionIInv, TypeOK, volume
<1>5. Wired'
  BY <1>1, <1>3 DEF SessionIInv, Wired, Running, volume
<1>6. EndIsTold' /\ TargetIsNewest' /\ FirstIsFirst' /\ Rising'
  BY <1>1, EndStays, TargetStays, FirstStays, RisingStays DEF SessionIInv, volume
<1>7. StateIsLast'
  BY <1>1, <1>3 DEF SessionIInv, StateIsLast, Open, Drained, Running, VolumeAtRest, volume
<1> QED
  BY <1>4, <1>5, <1>6, <1>7 DEF SessionIInv

(* Publishing and running a command                                        *)

LEMMA Published ==
  ASSUME TypeOK, NEW l \in Level, Publish(l)
  PROVE  /\ state' \in Snapshot /\ state'.version = state.version + 1 /\ state'.level = l
         /\ stream' \in [Session -> Seq(Snapshot)]
         /\ \A s \in Session :
              stream'[s] = IF link[s] = "subscribed" THEN Append(stream[s], state') ELSE stream[s]
         /\ slips' \subseteq Slip /\ slips \subseteq slips'
         /\ "overtaken" \notin slips' =>
              \A s \in Session : link[s] = "subscribed" => first[s] = NoSnapshot
<1>1. state.version \in 0 .. MaxVersion /\ state.version + 1 \in 0 .. MaxVersion
  <2>1. state.version \in 0 .. MaxVersion /\ state.version < MaxVersion /\ MaxVersion \in Nat
    BY Snapshots, BoundAssumption DEF BoundAssumption, TypeOK, Publish
  <2> QED
    BY <2>1
<1>2. state' \in Snapshot /\ state'.version = state.version + 1 /\ state'.level = l
  BY <1>1, Snapshots DEF Publish
<1>3. \A s \in Session : stream[s] \in Seq(Snapshot) /\ Append(stream[s], state') \in Seq(Snapshot)
  BY <1>2, Added DEF TypeOK
<1>4. /\ stream' \in [Session -> Seq(Snapshot)]
      /\ \A s \in Session :
           stream'[s] = IF link[s] = "subscribed" THEN Append(stream[s], state') ELSE stream[s]
  BY <1>3 DEF Publish
<1>5. /\ slips' \subseteq Slip /\ slips \subseteq slips'
      /\ "overtaken" \notin slips' =>
           \A s \in Session : link[s] = "subscribed" => first[s] = NoSnapshot
  BY DEF Publish, Slips, Slip, TypeOK
<1> QED
  BY <1>2, <1>4, <1>5

(* What is published is the newest on its way to every open session.       *)
LEMMA PublishedKept ==
  ASSUME SessionIInv, NEW l \in Level, Publish(l),
         UNCHANGED <<link, first, forwarder, ipc, connected, view>>, sending' => calls' # << >>
  PROVE  Wired' /\ EndIsTold' /\ FirstIsFirst' /\ StateIsLast' /\ Rising'
<1>1. TypeOK /\ Wired /\ EndIsTold /\ FirstIsFirst /\ StateIsLast /\ Rising
  BY DEF SessionIInv
<1>2. /\ state' \in Snapshot /\ state'.version = state.version + 1
      /\ stream' \in [Session -> Seq(Snapshot)]
      /\ \A s \in Session :
           stream'[s] = IF link[s] = "subscribed" THEN Append(stream[s], state') ELSE stream[s]
      /\ slips \subseteq slips'
      /\ "overtaken" \notin slips' =>
           \A s \in Session : link[s] = "subscribed" => first[s] = NoSnapshot
  BY <1>1, Published
<1>3. ASSUME NEW s \in Session, link[s] = "subscribed"
      PROVE  /\ stream[s] \in Seq(Snapshot) /\ stream'[s] # << >> /\ Last(stream'[s]) = state'
             /\ Len(stream[s]) \in Nat /\ DOMAIN stream[s] = 1 .. Len(stream[s])
             /\ DOMAIN stream'[s] = 1 .. Len(stream[s]) + 1 /\ stream'[s][Len(stream[s]) + 1] = state'
             /\ \A k \in 1 .. Len(stream[s]) : stream'[s][k] = stream[s][k]
  <2>1. stream[s] \in Seq(Snapshot) /\ stream'[s] = Append(stream[s], state')
    BY <1>1, <1>2, <1>3 DEF TypeOK
  <2> QED
    BY <1>2, <2>1, Added
<1>4. Wired'
  BY <1>1, <1>2 DEF Wired, Running
<1>5. EndIsTold'
  BY <1>1, EndStays
<1>6. FirstIsFirst'
  BY <1>1, <1>2 DEF FirstIsFirst, Wired
<1>7. StateIsLast'
  <2> SUFFICES ASSUME slips' \cap {"failed", "overtaken", "dead_unread"} = {},
                      NEW o \in Session, Open(o)'
               PROVE  /\ \A s \in Session : Running(s)' => Open(s)'
                      /\ \A s \in Session : stream'[s] # << >> => Last(stream'[s]) = state'
                      /\ ~Drained'
    BY DEF StateIsLast
  <2>1. \A s \in Session : Running(s) => link[s] = "subscribed"
    BY <1>1, <1>2 DEF StateIsLast, Open
  <2>2. \A s \in Session : stream'[s] # << >> => Last(stream'[s]) = state'
    BY <1>1, <1>2, <1>3, <2>1 DEF Wired
  <2>3. ~Drained'
    BY <1>3 DEF Drained, Open
  <2> QED
    BY <2>1, <2>2, <2>3 DEF Open, Running
<1>8. Rising'
  <2> SUFFICES ASSUME slips' \cap {"overtaken", "two_sessions", "dead_unread"} = {}
               PROVE  Rising'
    BY DEF Rising
  <2>1. /\ \A r, s \in Session : Running(r) /\ Running(s) => r = s
        /\ view.version <= state.version
        /\ \A i \in DOMAIN ipc, x \in Snapshot : ipc[i] = Shown(x) =>
             /\ view.version <= x.version /\ x.version <= state.version
             /\ \A j \in DOMAIN ipc, y \in Snapshot : ipc[j] = Shown(y) /\ i < j => x.version <= y.version
        /\ \A s \in Session : \A k \in DOMAIN stream[s] :
             /\ view.version <= stream[s][k].version /\ stream[s][k].version <= state.version
             /\ \A i \in DOMAIN ipc, x \in Snapshot : ipc[i] = Shown(x) => x.version <= stream[s][k].version
             /\ \A m \in DOMAIN stream[s] : k < m => stream[s][k].version <= stream[s][m].version
    BY <1>1, <1>2 DEF Rising
  <2>2. /\ view.version \in Int /\ state.version \in Int /\ state'.version \in Int
        /\ \A x \in Snapshot : x.version \in Int
        /\ \A s \in Session : \A k \in DOMAIN stream[s] : stream[s][k].version \in Int
    <3>1. view \in Snapshot \cup {NoSnapshot} /\ state \in Snapshot /\ state' \in Snapshot
      BY <1>1, <1>2 DEF TypeOK
    <3>2. \A s \in Session : \A k \in DOMAIN stream[s] : stream[s][k] \in Snapshot
      <4>1. \A s \in Session : stream[s] \in Seq(Snapshot)
        BY <1>1 DEF TypeOK
      <4> QED
        BY <4>1
    <3>3. view.version \in Int
      BY <3>1, Snapshots
    <3> QED
      BY <3>1, <3>2, <3>3, Snapshots
  <2>3. /\ view.version <= state'.version
        /\ \A i \in DOMAIN ipc, x \in Snapshot : ipc[i] = Shown(x) => x.version <= state'.version
    <3>1. state.version <= state'.version
      BY <1>2, <2>2
    <3>2. view.version <= state'.version
      BY <2>1, <2>2, <3>1
    <3>3. ASSUME NEW i \in DOMAIN ipc, NEW x \in Snapshot, ipc[i] = Shown(x)
          PROVE  x.version <= state'.version
      <4>1. x.version <= state.version /\ x.version \in Int
        BY <2>1, <2>2, <3>3
      <4> QED
        BY <2>2, <3>1, <4>1
    <3> QED
      BY <3>2, <3>3
  <2>4. ASSUME NEW s \in Session, NEW k \in DOMAIN stream'[s]
        PROVE  /\ view.version <= stream'[s][k].version /\ stream'[s][k].version <= state'.version
               /\ \A i \in DOMAIN ipc, x \in Snapshot : ipc[i] = Shown(x) => x.version <= stream'[s][k].version
               /\ \A m \in DOMAIN stream'[s] : k < m => stream'[s][k].version <= stream'[s][m].version
    <3>1. CASE link[s] = "subscribed"
      <4>1. CASE k = Len(stream[s]) + 1
        <5>1. stream'[s][k] = state' /\ ~\E m \in DOMAIN stream'[s] : k < m
          <6>1. stream'[s][k] = state'
            BY <1>3, <3>1, <4>1
          <6>2. ASSUME NEW m \in DOMAIN stream'[s] PROVE ~(k < m)
            <7>1. m \in 1 .. Len(stream[s]) + 1 /\ Len(stream[s]) \in Nat
              BY <1>3, <3>1
            <7> QED
              BY <4>1, <7>1
          <6> QED
            BY <6>1, <6>2
        <5>2. state'.version <= state'.version
          BY <2>2
        <5> QED
          BY <2>3, <5>1, <5>2
      <4>2. CASE k \in 1 .. Len(stream[s])
        <5>1. stream'[s][k] = stream[s][k] /\ k \in DOMAIN stream[s]
          BY <1>3, <3>1, <4>2
        <5>2. stream[s][k].version <= state'.version
          <6>1. stream[s][k].version <= state.version /\ stream[s][k].version \in Int
            BY <2>1, <2>2, <5>1
          <6> QED
            BY <1>2, <2>2, <6>1
        <5>3. ASSUME NEW m \in DOMAIN stream'[s], k < m
              PROVE  stream'[s][k].version <= stream'[s][m].version
          <6>1. CASE m = Len(stream[s]) + 1
            BY <1>3, <3>1, <5>1, <5>2, <6>1
          <6>2. CASE m \in 1 .. Len(stream[s])
            BY <1>3, <2>1, <3>1, <5>1, <5>3, <6>2
          <6>3. m \in 1 .. Len(stream[s]) + 1 /\ Len(stream[s]) \in Nat
            BY <1>3, <3>1
          <6> QED
            BY <6>1, <6>2, <6>3
        <5> QED
          BY <2>1, <5>1, <5>2, <5>3
      <4>3. k \in 1 .. Len(stream[s]) + 1 /\ Len(stream[s]) \in Nat
        BY <1>3, <3>1
      <4> QED
        BY <4>1, <4>2, <4>3
    <3>2. CASE link[s] # "subscribed"
      <4>1. stream'[s] = stream[s]
        BY <1>2, <3>2
      <4>2. stream[s][k].version <= state.version /\ stream[s][k].version \in Int
        BY <2>1, <2>2, <4>1
      <4>3. stream[s][k].version <= state'.version
        BY <1>2, <2>2, <4>2
      <4> QED
        BY <2>1, <4>1, <4>3
    <3> QED
      BY <3>1, <3>2
  <2> QED
    BY <2>1, <2>3, <2>4 DEF Rising, Running
<1> QED
  BY <1>4, <1>5, <1>6, <1>7, <1>8

LEMMA WorldKept ==
  ASSUME SessionIInv, WorldChanges
  PROVE  SessionIInv'
<1>1. PICK l \in Level : Publish(l)
  BY DEF WorldChanges
<1>2. UNCHANGED <<daemon, outages, link, first, forwarder, ipc, screen, volume>>
  BY DEF WorldChanges
<1>3. UNCHANGED <<link, first, forwarder, ipc, connected, view>> /\ (sending' => calls' # << >>)
  BY <1>2 DEF screen, volume, SessionIInv, Wired
<1>4. /\ state' \in Snapshot /\ stream' \in [Session -> Seq(Snapshot)]
      /\ slips' \subseteq Slip /\ slips \subseteq slips'
  BY <1>1, Published DEF SessionIInv
<1>5. TypeOK'
  BY <1>2, <1>4 DEF SessionIInv, TypeOK, screen, volume
<1>6. TargetIsNewest'
  BY <1>2, <1>4, TargetStays DEF SessionIInv, screen, volume
<1> QED
  BY <1>1, <1>3, <1>5, <1>6, PublishedKept DEF SessionIInv

LEMMA RunSetVolumeKept ==
  ASSUME SessionIInv, NEW i \in DOMAIN calls, RunSetVolume(i)
  PROVE  SessionIInv'
<1>1. /\ calls' = RemoveAt(calls, i) /\ sending' = (sending /\ i # Len(calls))
      /\ UNCHANGED <<daemon, outages, link, first, forwarder, ipc, screen, presses, queue, pending, target>>
      /\ \/ Publish(calls[i]) /\ given' = calls[i]
         \/ slips' = slips \cup {"failed"} /\ UNCHANGED <<state, stream, given>>
  BY DEF RunSetVolume, Slips
<1>2. /\ TypeOK /\ calls \in Seq(Level) /\ calls[i] \in Level /\ Len(calls) \in Nat /\ i \in 1 .. Len(calls)
      /\ calls # << >>
  BY DEF SessionIInv, TypeOK
<1>3. calls' \in Seq(Level) /\ Len(calls') = Len(calls) - 1
  BY <1>1, <1>2, Removed
<1>4. Len(calls') = 0 <=> calls' = << >>
  BY <1>3, EmptySeq
<1>5. sending' => calls' # << >>
  <2>1. i # Len(calls) => Len(calls) - 1 # 0
    <3> DEFINE n == Len(calls)
    <3>1. n \in Nat /\ i \in 1 .. n
      BY <1>2
    <3> HIDE DEF n
    <3>2. i # n => n - 1 # 0
      BY <3>1
    <3> QED
      BY <3>2 DEF n
  <2> QED
    BY <1>1, <1>3, <1>4, <2>1
<1>6. UNCHANGED <<link, first, forwarder, ipc, connected, view, loop>>
  BY <1>1 DEF screen
<1>7. CASE slips' = slips \cup {"failed"} /\ UNCHANGED <<state, stream, given>>
  <2>1. TypeOK'
    <3>1. slips' \subseteq Slip /\ sending' \in BOOLEAN
      BY <1>1, <1>2, <1>7 DEF TypeOK, Slip
    <3> QED
      BY <1>1, <1>2, <1>3, <1>7, <3>1 DEF TypeOK, screen
  <2>2. Wired' /\ EndIsTold' /\ FirstIsFirst' /\ Rising'
    BY <1>5, <1>6, <1>7, WiredStays, EndStays, FirstStays, RisingStays DEF SessionIInv
  <2>3. StateIsLast' /\ TargetIsNewest'
    BY <1>7 DEF StateIsLast, TargetIsNewest
  <2> QED
    BY <2>1, <2>2, <2>3 DEF SessionIInv
<1>8. CASE Publish(calls[i]) /\ given' = calls[i]
  <2>1. /\ state' \in Snapshot /\ stream' \in [Session -> Seq(Snapshot)]
        /\ slips' \subseteq Slip /\ slips \subseteq slips'
    BY <1>2, <1>8, Published
  <2>2. TypeOK'
    <3>1. given' \in Level \cup {Unknown} /\ sending' \in BOOLEAN
      BY <1>1, <1>2, <1>8 DEF TypeOK
    <3> QED
      BY <1>1, <1>2, <1>3, <2>1, <3>1 DEF TypeOK, screen
  <2>3. TargetIsNewest'
    <3> SUFFICES ASSUME loop # "quit", slips \cap {"failed", "timed_out"} = {}
                 PROVE  Len(calls') <= 1 /\ (calls' # << >> => sending') /\ target' = Newest'
      BY <1>6, <2>1 DEF TargetIsNewest
    <3>1. Len(calls) <= 1 /\ target = Newest
      BY DEF SessionIInv, TargetIsNewest
    <3>2. i = 1 /\ Len(calls) = 1
      <4> DEFINE n == Len(calls)
      <4>1. n \in Nat /\ i \in 1 .. n /\ n <= 1
        BY <1>2, <3>1
      <4> HIDE DEF n
      <4>2. i = 1 /\ n = 1
        BY <4>1
      <4> QED
        BY <4>2 DEF n
    <3>3. calls' = << >> /\ Len(calls') = 0
      BY <1>3, <1>4, <3>2
    <3> QED
      BY <1>1, <1>2, <1>8, <3>1, <3>2, <3>3 DEF Newest
  <2>4. Wired' /\ EndIsTold' /\ FirstIsFirst' /\ StateIsLast' /\ Rising'
    BY <1>2, <1>5, <1>6, <1>8, PublishedKept
  <2> QED
    BY <2>2, <2>3, <2>4 DEF SessionIInv
<1> QED
  BY <1>1, <1>7, <1>8

(* The initial state is written, all in one with the session's stream.     *)
LEMMA InitialStateKept ==
  ASSUME SessionIInv, NEW s \in Session, InitialState(s)
  PROVE  SessionIInv'
<1>1. /\ link[s] = "subscribed" /\ first[s] # NoSnapshot
      /\ stream' = [stream EXCEPT ![s] = Append(@, first[s])]
      /\ first' = [first EXCEPT ![s] = NoSnapshot]
      /\ UNCHANGED <<daemon, outages, state, link, forwarder, ipc, screen, volume, slips>>
  BY DEF InitialState, world
<1>2. /\ TypeOK /\ Wired /\ FirstIsFirst /\ StateIsLast /\ Rising
      /\ first[s] \in Snapshot /\ stream[s] \in Seq(Snapshot)
      /\ stream \in [Session -> Seq(Snapshot)] /\ first \in [Session -> Snapshot \cup {NoSnapshot}]
  BY <1>1 DEF SessionIInv, TypeOK
<1>3. /\ Append(stream[s], first[s]) \in Seq(Snapshot) /\ Append(stream[s], first[s]) # << >>
      /\ Last(Append(stream[s], first[s])) = first[s]
  BY <1>2, Added
<1>4. /\ stream' \in [Session -> Seq(Snapshot)] /\ first' \in [Session -> Snapshot \cup {NoSnapshot}]
      /\ stream'[s] = Append(stream[s], first[s]) /\ first'[s] = NoSnapshot
      /\ \A r \in Session : r # s => stream'[r] = stream[r] /\ first'[r] = first[r]
  BY <1>1, <1>2, <1>3
<1>5. UNCHANGED <<link, forwarder, ipc, connected, view, loop, queue, pending, calls, given, sending, target>>
  BY <1>1 DEF screen, volume
<1>6. TypeOK'
  BY <1>1, <1>2, <1>4 DEF TypeOK, screen, volume
<1>7. Wired'
  BY <1>1, <1>2, <1>4, <1>5 DEF Wired, Running
<1>8. EndIsTold' /\ TargetIsNewest'
  BY <1>1, <1>5, EndStays, TargetStays DEF SessionIInv
<1>9. FirstIsFirst'
  BY <1>1, <1>2, <1>4 DEF FirstIsFirst
<1>10. StateIsLast'
  <2> SUFFICES ASSUME slips \cap {"failed", "overtaken", "dead_unread"} = {}
               PROVE  /\ \A r \in Session : Running(r)' => Open(r)'
                      /\ \A r \in Session : stream'[r] # << >> => Last(stream'[r]) = state'
                      /\ ~Drained'
    BY <1>1 DEF StateIsLast
  <2>1. /\ \A r \in Session : Running(r) => Open(r)
        /\ \A r \in Session : stream[r] # << >> => Last(stream[r]) = state
    BY <1>1, <1>2 DEF StateIsLast, Open
  <2>2. first[s] = state
    BY <1>1, <1>2 DEF FirstIsFirst
  <2>3. \A r \in Session : stream'[r] # << >> => Last(stream'[r]) = state'
    BY <1>1, <1>3, <1>4, <2>1, <2>2
  <2>4. ~Drained'
    BY <1>3, <1>4 DEF Drained
  <2> QED
    BY <1>1, <2>1, <2>3, <2>4 DEF Open, Running
<1>11. Rising'
  <2> SUFFICES ASSUME slips \cap {"overtaken", "two_sessions", "dead_unread"} = {}
               PROVE  Rising'
    BY <1>1 DEF Rising
  <2>1. first[s] = state /\ stream[s] = << >> /\ state \in Snapshot /\ state.version \in Int
    BY <1>1, <1>2, Snapshots DEF FirstIsFirst, TypeOK
  <2>2. DOMAIN stream'[s] = {1} /\ stream'[s][1] = state
    BY <1>4, <2>1
  <2>3. /\ view.version <= state.version
        /\ \A i \in DOMAIN ipc, x \in Snapshot : ipc[i] = Shown(x) => x.version <= state.version
    BY <1>2 DEF Rising
  <2>4. /\ view.version <= stream'[s][1].version /\ stream'[s][1].version <= state.version
        /\ \A i \in DOMAIN ipc, x \in Snapshot : ipc[i] = Shown(x) => x.version <= stream'[s][1].version
    BY <2>1, <2>2, <2>3
  <2>5. ASSUME NEW r \in Session, NEW k \in DOMAIN stream'[r]
        PROVE  /\ view.version <= stream'[r][k].version /\ stream'[r][k].version <= state.version
               /\ \A i \in DOMAIN ipc, x \in Snapshot : ipc[i] = Shown(x) => x.version <= stream'[r][k].version
               /\ \A m \in DOMAIN stream'[r] : k < m => stream'[r][k].version <= stream'[r][m].version
    <3>1. CASE r = s
      BY <2>2, <2>4, <3>1
    <3>2. CASE r # s
      <4>1. stream'[r] = stream[r]
        BY <1>4, <3>2
      <4> QED
        BY <1>2, <4>1 DEF Rising
    <3> QED
      BY <3>1, <3>2
  <2> QED
    BY <1>1, <1>2, <1>5, <2>5 DEF Rising, Running
<1> QED
  BY <1>6, <1>7, <1>8, <1>9, <1>10, <1>11 DEF SessionIInv

-----------------------------------------------------------------------------
(* Sessions that end and begin                                             *)

LEMMA DaemonDiesKept ==
  ASSUME SessionIInv, DaemonDies
  PROVE  SessionIInv'
<1>1. /\ daemon' = "down" /\ outages < MaxOutages /\ outages' = outages + 1
      /\ link' = [s \in Session |-> IF link[s] = "none" THEN "none" ELSE "closed"]
      /\ first' = [s \in Session |-> NoSnapshot]
      /\ calls' = << >> /\ sending' = FALSE
      /\ slips' = slips \cup (IF calls # << >> THEN {"failed"} ELSE {})
      /\ UNCHANGED <<state, stream, forwarder, ipc, screen, presses, queue, pending, target, given>>
  BY DEF DaemonDies, Slips
<1>2. /\ \A s \in Session : link'[s] # "subscribed" /\ first'[s] = NoSnapshot
      /\ \A s \in Session : link[s] \in {"subscribed", "closed"} => link'[s] = "closed"
      /\ UNCHANGED <<loop, connected, view>>
  BY <1>1 DEF screen
<1>3. slips' \subseteq Slip /\ slips \subseteq slips'
  BY <1>1 DEF SessionIInv, TypeOK, Slip
<1>4. TypeOK'
  <2>1. outages' \in 0 .. MaxOutages
    BY <1>1, BoundAssumption DEF BoundAssumption, SessionIInv, TypeOK
  <2>2. /\ link' \in [Session -> {"none", "dialled", "subscribed", "closed"}]
        /\ first' \in [Session -> Snapshot \cup {NoSnapshot}] /\ calls' \in Seq(Level)
    BY <1>1
  <2> QED
    BY <1>1, <1>2, <1>3, <2>1, <2>2 DEF SessionIInv, TypeOK
<1>5. Wired'
  BY <1>1, <1>2 DEF SessionIInv, Wired, Running
<1>6. EndIsTold' /\ Rising'
  BY <1>1, <1>2, <1>3, EndStays, RisingStays DEF SessionIInv
<1>7. TargetIsNewest'
  <2> SUFFICES ASSUME loop # "quit", slips' \cap {"failed", "timed_out"} = {}
               PROVE  Len(calls') <= 1 /\ target' = Newest'
    BY <1>1, <1>2 DEF TargetIsNewest
  <2>1. calls = << >> /\ target = Newest
    BY <1>1, <1>3 DEF SessionIInv, TargetIsNewest
  <2>2. Len(calls') = 0
    BY <1>1
  <2> QED
    BY <1>1, <2>1, <2>2 DEF Newest
<1>8. FirstIsFirst' /\ StateIsLast'
  BY <1>2 DEF FirstIsFirst, StateIsLast, Open
<1> QED
  BY <1>4, <1>5, <1>6, <1>7, <1>8 DEF SessionIInv

(* The new session reads alone, or the slip is on record.                  *)
LEMMA ConnectedKept ==
  ASSUME SessionIInv, NEW s \in Session, Connected(s)
  PROVE  SessionIInv'
<1>1. /\ loop = "subscribe" /\ link[s] = "dialled"
      /\ link' = [link EXCEPT ![s] = "subscribed"] /\ first' = [first EXCEPT ![s] = state]
      /\ forwarder' = [forwarder EXCEPT ![s] = "running"]
      /\ loop' = "select" /\ connected' = TRUE
      /\ slips' = slips \cup {IF link[r] = "closed" THEN "dead_unread" ELSE "two_sessions" :
                              r \in {q \in Session : Running(q)}}
      /\ UNCHANGED <<daemon, outages, state, stream, ipc, view, volume>>
  BY DEF Connected, Slips, world
<1>2. TypeOK /\ Wired /\ FirstIsFirst /\ StateIsLast /\ Rising
  BY DEF SessionIInv
<1>3. /\ link' \in [Session -> {"none", "dialled", "subscribed", "closed"}]
      /\ first' \in [Session -> Snapshot \cup {NoSnapshot}]
      /\ forwarder' \in [Session -> {"none", "running", "ended"}]
      /\ link'[s] = "subscribed" /\ first'[s] = state /\ forwarder'[s] = "running"
      /\ \A r \in Session : r # s =>
           link'[r] = link[r] /\ first'[r] = first[r] /\ forwarder'[r] = forwarder[r]
  BY <1>1, <1>2 DEF TypeOK
<1>4. slips' \subseteq Slip /\ slips \subseteq slips'
  <2>1. {IF link[r] = "closed" THEN "dead_unread" ELSE "two_sessions" :
            r \in {q \in Session : Running(q)}} \subseteq Slip
    BY DEF Slip
  <2> QED
    BY <1>1, <1>2, <2>1 DEF TypeOK
<1>5. /\ "dead_unread" \notin slips' => \A r \in Session : Running(r) => link[r] # "closed"
      /\ slips' \cap {"two_sessions", "dead_unread"} = {} => \A r \in Session : ~Running(r)
  BY <1>1
<1>6. ~Running(s) /\ stream[s] = << >> /\ first[s] = NoSnapshot /\ state # NoSnapshot
  BY <1>1, <1>2, Snapshots DEF Wired, TypeOK
<1>7. TypeOK'
  BY <1>1, <1>2, <1>3, <1>4 DEF TypeOK, volume
<1>8. Wired'
  BY <1>1, <1>2, <1>3, <1>6 DEF Wired, Running, volume
<1>9. EndIsTold'
  BY <1>3 DEF EndIsTold, Running
<1>10. TargetIsNewest'
  BY <1>1, <1>4, TargetStays DEF SessionIInv, volume
<1>11. FirstIsFirst'
  BY <1>1, <1>2, <1>3, <1>4, <1>6 DEF FirstIsFirst
<1>12. StateIsLast'
  <2> SUFFICES ASSUME slips' \cap {"failed", "overtaken", "dead_unread"} = {}
               PROVE  /\ \A r \in Session : Running(r)' => Open(r)'
                      /\ \A r \in Session : stream'[r] # << >> => Last(stream'[r]) = state'
                      /\ ~Drained'
    BY DEF StateIsLast
  <2>1. \A r \in Session : Running(r) => Open(r)
    BY <1>2, <1>5 DEF Wired, Open
  <2>2. \A r \in Session : stream[r] # << >> => Last(stream[r]) = state
    BY <1>2, <1>4, <2>1 DEF StateIsLast, Wired
  <2>3. ~Drained'
    BY <1>3, <1>6 DEF Drained
  <2> QED
    BY <1>1, <1>3, <2>1, <2>2, <2>3 DEF Open, Running
<1>13. Rising'
  <2> SUFFICES ASSUME slips' \cap {"overtaken", "two_sessions", "dead_unread"} = {}
               PROVE  Rising'
    BY DEF Rising
  <2>1. \A r, q \in Session : Running(r)' /\ Running(q)' => r = q
    BY <1>3, <1>5 DEF Running
  <2> QED
    BY <1>1, <1>2, <1>4, <2>1 DEF Rising
<1> QED
  BY <1>7, <1>8, <1>9, <1>10, <1>11, <1>12, <1>13 DEF SessionIInv

LEMMA ForwardEndsKept ==
  ASSUME SessionIInv, NEW s \in Session, ForwardEnds(s)
  PROVE  SessionIInv'
<1>1. /\ Running(s) /\ link[s] = "closed" /\ stream[s] = << >> /\ Len(ipc) < Capacity
      /\ ipc' = Append(ipc, Lost(s)) /\ forwarder' = [forwarder EXCEPT ![s] = "ended"]
      /\ UNCHANGED <<daemon, outages, state, link, first, stream, screen, volume, slips>>
  BY DEF ForwardEnds, Room, world
<1>2. TypeOK /\ Wired /\ ipc \in Seq(Message) /\ Capacity \in Nat
  BY BoundAssumption DEF BoundAssumption, SessionIInv, TypeOK
<1>3. /\ ipc' \in Seq(Message) /\ ipc' # << >> /\ Last(ipc') = Lost(s)
      /\ Len(ipc) \in Nat /\ Len(ipc') = Len(ipc) + 1
      /\ DOMAIN ipc = 1 .. Len(ipc) /\ DOMAIN ipc' = 1 .. Len(ipc) + 1
      /\ ipc'[Len(ipc) + 1] = Lost(s) /\ \A i \in 1 .. Len(ipc) : ipc'[i] = ipc[i]
  BY <1>1, <1>2, Added, Messages
<1>4. /\ forwarder' \in [Session -> {"none", "running", "ended"}] /\ forwarder'[s] = "ended"
      /\ \A r \in Session : r # s => forwarder'[r] = forwarder[r]
  BY <1>1, <1>2 DEF TypeOK
<1>5. TypeOK'
  <2>1. Len(ipc') <= Capacity
    BY <1>1, <1>2, <1>3
  <2> QED
    BY <1>1, <1>2, <1>3, <1>4, <2>1 DEF TypeOK, screen, volume
<1>6. Wired'
  BY <1>1, <1>2, <1>4 DEF Wired, Running, volume
<1>7. EndIsTold'
  BY <1>3 DEF EndIsTold
<1>8. TargetIsNewest' /\ FirstIsFirst'
  BY <1>1, TargetStays, FirstStays DEF SessionIInv, screen, volume
<1>9. StateIsLast'
  BY <1>1 DEF SessionIInv, StateIsLast, Open
<1>10. Rising'
  <2> SUFFICES ASSUME slips \cap {"overtaken", "two_sessions", "dead_unread"} = {}
               PROVE  Rising'
    BY <1>1 DEF Rising
  <2>1. \A r, q \in Session : Running(r)' /\ Running(q)' => r = q
    BY <1>4 DEF SessionIInv, Rising, Running
  <2>2. \A i \in DOMAIN ipc', x \in Snapshot : ipc'[i] = Shown(x) => i \in DOMAIN ipc /\ ipc[i] = Shown(x)
    BY <1>3, Messages
  <2> QED
    BY <1>1, <2>1, <2>2 DEF SessionIInv, Rising, screen
<1> QED
  BY <1>5, <1>6, <1>7, <1>8, <1>9, <1>10 DEF SessionIInv

(* The user leaves: nothing is read, shown or owed any more.               *)
LEMMA QuitKept ==
  ASSUME SessionIInv, Quit
  PROVE  SessionIInv'
<1>1. /\ loop' = "quit" /\ queue' = << >> /\ pending' = Unknown /\ sending' = FALSE
      /\ link' = [s \in Session |-> "closed"] /\ first' = [s \in Session |-> NoSnapshot]
      /\ stream' = [s \in Session |-> << >>] /\ forwarder' = [s \in Session |-> "ended"]
      /\ ipc' = << >> /\ connected' = FALSE /\ view' = NoSnapshot
      /\ UNCHANGED <<daemon, outages, state, presses, calls, target, given, slips>>
  BY DEF Quit, world
<1>2. /\ \A s \in Session : /\ link'[s] = "closed" /\ first'[s] = NoSnapshot /\ stream'[s] = << >>
                            /\ ~Running(s)'
      /\ Len(ipc') = 0
  BY <1>1 DEF Running
<1>3. TypeOK'
  <2>1. /\ link' \in [Session -> {"none", "dialled", "subscribed", "closed"}]
        /\ first' \in [Session -> Snapshot \cup {NoSnapshot}]
        /\ stream' \in [Session -> Seq(Snapshot)] /\ forwarder' \in [Session -> {"none", "running", "ended"}]
        /\ ipc' \in Seq(Message) /\ queue' \in Seq(Level)
    BY <1>1
  <2>2. Len(ipc') <= Capacity
    BY <1>2, BoundAssumption DEF BoundAssumption
  <2> QED
    BY <1>1, <2>1, <2>2 DEF SessionIInv, TypeOK
<1>4. Wired' /\ EndIsTold' /\ TargetIsNewest' /\ FirstIsFirst' /\ StateIsLast'
  BY <1>1, <1>2 DEF Wired, EndIsTold, TargetIsNewest, FirstIsFirst, StateIsLast, Open
<1>5. Rising'
  <2>1. DOMAIN ipc' = {} /\ \A s \in Session : DOMAIN stream'[s] = {}
    BY <1>1, <1>2
  <2>2. state \in Snapshot /\ state.version \in 0 .. MaxVersion
    BY Snapshots DEF SessionIInv, TypeOK
  <2>3. view'.version <= state'.version
    BY <1>1, <2>2, Snapshots
  <2> QED
    BY <1>2, <2>1, <2>3 DEF Rising
<1> QED
  BY <1>3, <1>4, <1>5 DEF SessionIInv

-----------------------------------------------------------------------------
(* From the socket to the screen                                           *)

LEMMA ForwardKept ==
  ASSUME SessionIInv, NEW s \in Session, Forward(s)
  PROVE  SessionIInv'
<1> DEFINE n == Len(ipc)
           h == Head(stream[s])
<1>1. /\ Running(s) /\ stream[s] # << >> /\ Len(ipc) < Capacity
      /\ ipc' = Append(ipc, Shown(h)) /\ stream' = [stream EXCEPT ![s] = Tail(@)]
      /\ UNCHANGED <<daemon, outages, state, link, first, forwarder, screen, volume, slips>>
  BY DEF Forward, Room, world
<1>2. /\ TypeOK /\ Wired /\ FirstIsFirst /\ StateIsLast /\ Rising
      /\ ipc \in Seq(Message) /\ stream \in [Session -> Seq(Snapshot)] /\ Capacity \in Nat
  BY BoundAssumption DEF BoundAssumption, SessionIInv, TypeOK
<1>3. /\ h = stream[s][1] /\ h \in Snapshot /\ Tail(stream[s]) \in Seq(Snapshot)
      /\ Len(stream[s]) \in Nat \ {0}
      /\ DOMAIN stream[s] = 1 .. Len(stream[s]) /\ DOMAIN Tail(stream[s]) = 1 .. Len(stream[s]) - 1
      /\ \A k \in 1 .. Len(stream[s]) - 1 : Tail(stream[s])[k] = stream[s][k + 1]
      /\ IF Tail(stream[s]) = << >> THEN Last(stream[s]) = h
         ELSE Last(Tail(stream[s])) = Last(stream[s])
  BY <1>1, <1>2, Taken
<1>4. /\ stream' \in [Session -> Seq(Snapshot)] /\ stream'[s] = Tail(stream[s])
      /\ \A r \in Session : r # s => stream'[r] = stream[r]
  BY <1>1, <1>2, <1>3
<1> HIDE DEF h
<1>5. /\ ipc' \in Seq(Message) /\ ipc' # << >> /\ Last(ipc') = Shown(h)
      /\ n \in Nat /\ Len(ipc') = n + 1 /\ DOMAIN ipc = 1 .. n /\ DOMAIN ipc' = 1 .. n + 1
      /\ ipc'[n + 1] = Shown(h) /\ \A i \in 1 .. n : ipc'[i] = ipc[i]
  BY <1>1, <1>2, <1>3, Added, Messages
<1>6. TypeOK'
  <2>1. Len(ipc') <= Capacity
    BY <1>1, <1>2, <1>5
  <2> QED
    BY <1>1, <1>2, <1>4, <1>5, <2>1 DEF TypeOK, screen, volume
<1> HIDE DEF n
<1>7. Wired'
  BY <1>1, <1>2, <1>4 DEF Wired, Running, volume
<1>8. EndIsTold'
  BY <1>1 DEF EndIsTold, Running
<1>9. TargetIsNewest'
  BY <1>1, TargetStays DEF SessionIInv, screen, volume
<1>10. FirstIsFirst'
  BY <1>1, <1>2, <1>4 DEF FirstIsFirst
<1>11. StateIsLast'
  <2> SUFFICES ASSUME slips \cap {"failed", "overtaken", "dead_unread"} = {}, \E r \in Session : Open(r)
               PROVE  /\ \A r \in Session : Running(r) => Open(r)
                      /\ \A r \in Session : stream'[r] # << >> => Last(stream'[r]) = state
                      /\ Drained' => Last(ipc') = Shown(state)
    BY <1>1, <1>5 DEF StateIsLast, Open, Running
  <2>1. /\ \A r \in Session : Running(r) => Open(r)
        /\ \A r \in Session : stream[r] # << >> => Last(stream[r]) = state
    BY <1>2 DEF StateIsLast
  <2>2. \A r \in Session : stream'[r] # << >> => Last(stream'[r]) = state
    BY <1>1, <1>3, <1>4, <2>1
  <2>3. Drained' => h = state
    BY <1>1, <1>3, <1>4, <2>1 DEF Drained
  <2> QED
    BY <1>5, <2>1, <2>2, <2>3
<1>12. Rising'
  <2> SUFFICES ASSUME slips \cap {"overtaken", "two_sessions", "dead_unread"} = {}
               PROVE  Rising'
    BY <1>1 DEF Rising
  <2>1. /\ \A q, r \in Session : Running(q) /\ Running(r) => q = r
        /\ view.version <= state.version
        /\ \A i \in DOMAIN ipc, x \in Snapshot : ipc[i] = Shown(x) =>
             /\ view.version <= x.version /\ x.version <= state.version
             /\ \A j \in DOMAIN ipc, y \in Snapshot : ipc[j] = Shown(y) /\ i < j => x.version <= y.version
        /\ \A k \in DOMAIN stream[s] :
             /\ view.version <= stream[s][k].version /\ stream[s][k].version <= state.version
             /\ \A i \in DOMAIN ipc, x \in Snapshot : ipc[i] = Shown(x) => x.version <= stream[s][k].version
             /\ \A m \in DOMAIN stream[s] : k < m => stream[s][k].version <= stream[s][m].version
    BY <1>2 DEF Rising
  <2>2. /\ 1 \in DOMAIN stream[s]
        /\ \A k \in DOMAIN stream'[s] :
             k \in Nat /\ k + 1 \in DOMAIN stream[s] /\ 1 < k + 1 /\ stream'[s][k] = stream[s][k + 1]
    BY <1>3, <1>4
  <2>3. \A r \in Session : r # s => stream'[r] = << >>
    BY <1>1, <1>2, <1>4, <2>1 DEF Wired
  <2>4. \A i \in DOMAIN ipc', x \in Snapshot : ipc'[i] = Shown(x) =>
          \/ i \in DOMAIN ipc /\ ipc[i] = Shown(x)
          \/ i = n + 1 /\ x = h
    BY <1>3, <1>5, Messages
  <2>5. /\ view.version <= h.version /\ h.version <= state.version
        /\ \A i \in DOMAIN ipc, x \in Snapshot : ipc[i] = Shown(x) => x.version <= h.version
        /\ \A k \in DOMAIN stream'[s] : h.version <= stream'[s][k].version
    BY <1>3, <2>1, <2>2
  <2>6. ASSUME NEW i \in DOMAIN ipc', NEW x \in Snapshot, ipc'[i] = Shown(x)
        PROVE  /\ view.version <= x.version /\ x.version <= state.version
               /\ \A j \in DOMAIN ipc', y \in Snapshot : ipc'[j] = Shown(y) /\ i < j => x.version <= y.version
               /\ \A k \in DOMAIN stream'[s] : x.version <= stream'[s][k].version
    <3>1. CASE i = n + 1 /\ x = h
      <4>1. \A j \in DOMAIN ipc' : ~(i < j)
        BY <1>5, <3>1
      <4> QED
        BY <2>5, <3>1, <4>1
    <3>2. CASE i \in DOMAIN ipc /\ ipc[i] = Shown(x)
      <4>1. ASSUME NEW j \in DOMAIN ipc', NEW y \in Snapshot, ipc'[j] = Shown(y), i < j
            PROVE  x.version <= y.version
        BY <2>1, <2>4, <2>5, <3>2, <4>1
      <4>2. \A k \in DOMAIN stream'[s] : x.version <= stream'[s][k].version
        BY <2>1, <2>2, <3>2
      <4> QED
        BY <2>1, <3>2, <4>1, <4>2
    <3> QED
      BY <2>4, <2>6, <3>1, <3>2
  <2>7. ASSUME NEW k \in DOMAIN stream'[s]
        PROVE  /\ view.version <= stream'[s][k].version /\ stream'[s][k].version <= state.version
               /\ \A m \in DOMAIN stream'[s] : k < m => stream'[s][k].version <= stream'[s][m].version
    <3>1. /\ k \in Nat /\ k + 1 \in DOMAIN stream[s] /\ stream'[s][k] = stream[s][k + 1]
      BY <2>2
    <3>2. ASSUME NEW m \in DOMAIN stream'[s], k < m
          PROVE  stream'[s][k].version <= stream'[s][m].version
      <4>1. m \in Nat /\ m + 1 \in DOMAIN stream[s] /\ stream'[s][m] = stream[s][m + 1]
        BY <2>2
      <4>2. k + 1 < m + 1
        BY <3>1, <3>2, <4>1
      <4> QED
        BY <2>1, <3>1, <4>1, <4>2
    <3> QED
      BY <2>1, <3>1, <3>2
  <2>8. \A r \in Session : r # s => DOMAIN stream'[r] = {}
    BY <2>3
  <2> QED
    BY <1>1, <2>1, <2>6, <2>7, <2>8 DEF Rising, Running, screen
<1> QED
  BY <1>6, <1>7, <1>8, <1>9, <1>10, <1>11, <1>12 DEF SessionIInv

(* Whatever is shown next is no older than what is shown now, and the last *)
(* thing the channel holds is the newest.                                  *)
LEMMA ReceiveKept ==
  ASSUME SessionIInv, Receive
  PROVE  SessionIInv'
<1>1. /\ ipc # << >> /\ ipc' = Tail(ipc)
      /\ IF "lost" \in DOMAIN Head(ipc)
           THEN connected' = FALSE /\ view' = view
           ELSE connected' = TRUE /\ view' = Head(ipc).snapshot
      /\ UNCHANGED <<daemon, outages, state, link, first, stream, forwarder, loop, volume, slips>>
  BY DEF Receive, world
<1>2. /\ TypeOK /\ Wired /\ EndIsTold /\ StateIsLast /\ Rising
      /\ ipc \in Seq(Message) /\ Len(ipc) <= Capacity /\ Capacity \in Nat
  BY BoundAssumption DEF BoundAssumption, SessionIInv, TypeOK
<1>3. /\ Head(ipc) = ipc[1] /\ Head(ipc) \in Message /\ ipc' \in Seq(Message)
      /\ Len(ipc) \in Nat \ {0} /\ Len(ipc') = Len(ipc) - 1
      /\ DOMAIN ipc = 1 .. Len(ipc) /\ DOMAIN ipc' = 1 .. Len(ipc) - 1
      /\ \A i \in 1 .. Len(ipc) - 1 : ipc'[i] = ipc[i + 1]
      /\ IF ipc' = << >> THEN Last(ipc) = Head(ipc) ELSE Last(ipc') = Last(ipc)
  BY <1>1, <1>2, Taken
<1>4. \/ connected' = FALSE /\ view' = view /\ \E s \in Session : Head(ipc) = Lost(s)
      \/ connected' = TRUE /\ view' \in Snapshot /\ Head(ipc) = Shown(view')
  BY <1>1, <1>3, Messages
<1>5. TypeOK'
  <2>1. Len(ipc') <= Capacity
    BY <1>2, <1>3
  <2>2. connected' \in BOOLEAN /\ view' \in Snapshot \cup {NoSnapshot}
    BY <1>2, <1>4 DEF TypeOK
  <2> QED
    BY <1>1, <1>2, <1>3, <2>1, <2>2 DEF TypeOK, volume
<1>6. Wired'
  BY <1>1, <1>2, WiredStays DEF Wired, volume
<1>7. EndIsTold'
  <2> SUFFICES ASSUME \A s \in Session : ~Running(s)
               PROVE  /\ connected' => ipc' # << >>
                      /\ ipc' # << >> => \E s \in Session : Last(ipc') = Lost(s)
    BY <1>1 DEF EndIsTold, Running
  <2>1. PICK s \in Session : Last(ipc) = Lost(s)
    BY <1>1, <1>2 DEF EndIsTold
  <2>2. connected' => ipc' # << >>
    BY <1>3, <1>4, <2>1, Messages
  <2> QED
    BY <1>3, <2>1, <2>2
<1>8. TargetIsNewest' /\ FirstIsFirst'
  BY <1>1, TargetStays, FirstStays DEF SessionIInv, volume
<1>9. StateIsLast'
  <2> SUFFICES ASSUME slips \cap {"failed", "overtaken", "dead_unread"} = {},
                      \E r \in Session : Open(r), Drained
               PROVE  IF ipc' # << >> THEN Last(ipc') = Shown(state) ELSE view' = state
    BY <1>1, <1>2 DEF StateIsLast, Open, Running, Drained
  <2>1. Last(ipc) = Shown(state) /\ state \in Snapshot
    BY <1>1, <1>2 DEF StateIsLast, TypeOK
  <2>2. ipc' = << >> => view' = state
    BY <1>3, <1>4, <2>1, Messages
  <2> QED
    BY <1>3, <2>1, <2>2
<1>10. Rising'
  <2> SUFFICES ASSUME slips \cap {"overtaken", "two_sessions", "dead_unread"} = {}
               PROVE  Rising'
    BY <1>1 DEF Rising
  <2>1. /\ \A q, r \in Session : Running(q) /\ Running(r) => q = r
        /\ view.version <= state.version
        /\ \A i \in DOMAIN ipc, x \in Snapshot : ipc[i] = Shown(x) =>
             /\ view.version <= x.version /\ x.version <= state.version
             /\ \A j \in DOMAIN ipc, y \in Snapshot : ipc[j] = Shown(y) /\ i < j => x.version <= y.version
        /\ \A s \in Session : \A k \in DOMAIN stream[s] :
             /\ view.version <= stream[s][k].version /\ stream[s][k].version <= state.version
             /\ \A i \in DOMAIN ipc, x \in Snapshot : ipc[i] = Shown(x) => x.version <= stream[s][k].version
             /\ \A m \in DOMAIN stream[s] : k < m => stream[s][k].version <= stream[s][m].version
    BY <1>2 DEF Rising
  <2>2. \A i \in DOMAIN ipc' :
          i \in Nat /\ i + 1 \in DOMAIN ipc /\ 1 < i + 1 /\ ipc'[i] = ipc[i + 1]
    BY <1>3
  <2>3. 1 \in DOMAIN ipc /\ (view' = view \/ (view' \in Snapshot /\ ipc[1] = Shown(view')))
    BY <1>3, <1>4
  <2>4. /\ view'.version <= state.version
        /\ \A i \in DOMAIN ipc', x \in Snapshot : ipc'[i] = Shown(x) => view'.version <= x.version
        /\ \A s \in Session : \A k \in DOMAIN stream[s] : view'.version <= stream[s][k].version
    <3>1. CASE view' = view
      BY <2>1, <2>2, <3>1
    <3>2. CASE view' \in Snapshot /\ ipc[1] = Shown(view')
      BY <2>1, <2>2, <2>3, <3>2
    <3> QED
      BY <2>3, <3>1, <3>2
  <2>5. ASSUME NEW i \in DOMAIN ipc', NEW x \in Snapshot, ipc'[i] = Shown(x)
        PROVE  /\ x.version <= state.version
               /\ \A j \in DOMAIN ipc', y \in Snapshot : ipc'[j] = Shown(y) /\ i < j => x.version <= y.version
               /\ \A s \in Session : \A k \in DOMAIN stream[s] : x.version <= stream[s][k].version
    <3>1. i \in Nat /\ i + 1 \in DOMAIN ipc /\ ipc[i + 1] = Shown(x)
      BY <2>2, <2>5
    <3>2. ASSUME NEW j \in DOMAIN ipc', NEW y \in Snapshot, ipc'[j] = Shown(y), i < j
          PROVE  x.version <= y.version
      <4>1. j \in Nat /\ j + 1 \in DOMAIN ipc /\ ipc[j + 1] = Shown(y)
        BY <2>2, <3>2
      <4>2. i + 1 < j + 1
        BY <3>1, <3>2, <4>1
      <4> QED
        BY <2>1, <3>1, <4>1, <4>2
    <3> QED
      BY <2>1, <3>1, <3>2
  <2> QED
    BY <1>1, <2>1, <2>4, <2>5 DEF Rising, Running
<1> QED
  BY <1>5, <1>6, <1>7, <1>8, <1>9, <1>10 DEF SessionIInv

-----------------------------------------------------------------------------
(* From the keys to OBS                                                    *)

LEMMA PressVolumeKept ==
  ASSUME SessionIInv, PressVolume
  PROVE  SessionIInv'
<1>1. PICK l \in Nudged(view.level) :
        view' = [view EXCEPT !.level = l] /\ queue' = Append(queue, l) /\ target' = l
  BY DEF PressVolume
<1>2. /\ view # NoSnapshot /\ presses < MaxPresses /\ presses' = presses + 1
      /\ UNCHANGED <<daemon, outages, state, link, first, stream, forwarder, ipc, loop, connected>>
      /\ UNCHANGED <<pending, calls, sending, given, slips>>
  BY DEF PressVolume, world, sessions
<1>3. TypeOK /\ view \in Snapshot /\ queue \in Seq(Level)
  BY <1>2 DEF SessionIInv, TypeOK
<1>4. l \in Level
  <2>1. view.level \in 0 .. Top /\ Top \in Nat
    BY <1>3, Snapshots, BoundAssumption DEF BoundAssumption, Level
  <2> QED
    BY <1>1, <2>1 DEF Nudged, Level
<1>5. view' \in Snapshot /\ view'.version = view.version
  BY <1>1, <1>3, <1>4 DEF Snapshot
<1>6. queue' \in Seq(Level) /\ queue' # << >> /\ Last(queue') = l
  BY <1>1, <1>3, <1>4, Added
<1>7. TypeOK'
  <2>1. presses' \in 0 .. MaxPresses
    BY <1>2, <1>3, BoundAssumption DEF BoundAssumption, TypeOK
  <2> QED
    BY <1>1, <1>2, <1>3, <1>4, <1>5, <1>6, <2>1 DEF TypeOK
<1>8. Wired' /\ EndIsTold' /\ FirstIsFirst' /\ Rising'
  BY <1>2, <1>5, WiredStays, EndStays, FirstStays, RisingStays DEF SessionIInv, Wired
<1>9. TargetIsNewest'
  BY <1>1, <1>2, <1>6 DEF SessionIInv, TargetIsNewest, Newest
<1>10. StateIsLast'
  BY <1>2, <1>6 DEF SessionIInv, StateIsLast, Open, Running, Drained, VolumeAtRest
<1> QED
  BY <1>7, <1>8, <1>9, <1>10 DEF SessionIInv

LEMMA DebounceKept ==
  ASSUME SessionIInv, Debounces
  PROVE  SessionIInv'
<1>1. /\ UNCHANGED <<daemon, outages, state, link, first, stream, forwarder, ipc, loop, connected, view>>
      /\ UNCHANGED <<presses, target, given>>
  BY DEF Debounces, Collect, SendVolume, SendTimesOut, world, sessions, screen
<1>2. TypeOK /\ queue \in Seq(Level) /\ calls \in Seq(Level) /\ TargetIsNewest /\ Wired
  BY DEF SessionIInv, TypeOK
<1>3. Unknown \notin Level
  BY BoundAssumption DEF BoundAssumption, Level, Unknown
<1>4. CASE Collect
  <2>1. /\ queue # << >> /\ pending' = Head(queue) /\ queue' = Tail(queue)
        /\ UNCHANGED <<calls, sending, slips>>
    BY <1>4 DEF Collect, KeepsLast
  <2>2. /\ pending' \in Level /\ queue' \in Seq(Level)
        /\ IF queue' = << >> THEN Last(queue) = pending' ELSE Last(queue') = Last(queue)
    BY <1>2, <2>1, Taken
  <2>3. TypeOK'
    BY <1>1, <1>2, <2>1, <2>2 DEF TypeOK
  <2>4. Wired' /\ EndIsTold' /\ FirstIsFirst' /\ Rising'
    BY <1>1, <1>2, <2>1, WiredStays, EndStays, FirstStays, RisingStays DEF SessionIInv, Wired
  <2>5. TargetIsNewest'
    BY <1>1, <1>2, <1>3, <2>1, <2>2 DEF TargetIsNewest, Newest
  <2>6. StateIsLast'
    BY <1>1, <1>3, <2>1, <2>2 DEF SessionIInv, StateIsLast, Open, Running, Drained, VolumeAtRest
  <2> QED
    BY <2>3, <2>4, <2>5, <2>6 DEF SessionIInv
<1>5. CASE SendVolume
  <2>1. /\ ~sending /\ pending # Unknown /\ pending' = Unknown /\ queue' = queue
        /\ \/ slips' = slips \cup {"failed"} /\ UNCHANGED <<calls, sending>>
           \/ calls' = Append(calls, pending) /\ sending' = TRUE /\ slips' = slips
    BY <1>5 DEF SendVolume, Slips
  <2>2. /\ pending \in Level /\ Append(calls, pending) \in Seq(Level) /\ Append(calls, pending) # << >>
        /\ Len(calls) \in Nat /\ Len(Append(calls, pending)) = Len(calls) + 1
        /\ Append(calls, pending)[Len(calls) + 1] = pending
    <3>1. pending \in Level
      BY <1>2, <2>1 DEF TypeOK
    <3> QED
      BY <1>2, <3>1, Added
  <2>3. slips \subseteq slips' /\ slips' \subseteq Slip
    BY <1>2, <2>1 DEF TypeOK, Slip
  <2>4. TypeOK'
    BY <1>1, <1>2, <2>1, <2>2, <2>3 DEF TypeOK
  <2>5. sending' => calls' # << >>
    BY <1>2, <2>1, <2>2 DEF Wired
  <2>6. Wired' /\ EndIsTold' /\ FirstIsFirst' /\ Rising'
    BY <1>1, <2>3, <2>5, WiredStays, EndStays, FirstStays, RisingStays DEF SessionIInv
  <2>7. TargetIsNewest'
    <3> SUFFICES ASSUME loop # "quit", slips' \cap {"failed", "timed_out"} = {}
                 PROVE  Len(calls') <= 1 /\ sending' /\ target' = Newest'
      BY <1>1 DEF TargetIsNewest
    <3>1. calls' = Append(calls, pending) /\ sending' = TRUE /\ slips' = slips
      BY <2>1
    <3>2. calls = << >> /\ target = Newest
      BY <1>2, <2>1, <3>1 DEF TargetIsNewest
    <3>3. Len(calls) = 0
      BY <3>2
    <3>4. Len(calls') = 1 /\ calls'[1] = pending
      BY <2>2, <3>1, <3>3
    <3> QED
      BY <1>1, <2>1, <2>2, <3>1, <3>2, <3>4 DEF Newest
  <2>8. StateIsLast'
    <3>1. VolumeAtRest' => "failed" \in slips'
      BY <2>1, <2>2 DEF VolumeAtRest
    <3> QED
      BY <1>1, <2>3, <3>1 DEF SessionIInv, StateIsLast, Open, Running, Drained
  <2> QED
    BY <2>4, <2>6, <2>7, <2>8 DEF SessionIInv
<1>6. CASE SendTimesOut
  <2>1. /\ sending' = FALSE /\ slips' = slips \cup {"timed_out"}
        /\ UNCHANGED <<queue, pending, calls>>
    BY <1>6 DEF SendTimesOut, Slips
  <2>2. slips \subseteq slips' /\ slips' \subseteq Slip
    BY <1>2, <2>1 DEF TypeOK, Slip
  <2>3. TypeOK' /\ TargetIsNewest'
    BY <1>1, <1>2, <2>1, <2>2 DEF TypeOK, TargetIsNewest
  <2>4. Wired' /\ EndIsTold' /\ FirstIsFirst' /\ Rising'
    BY <1>1, <2>1, <2>2, WiredStays, EndStays, FirstStays, RisingStays DEF SessionIInv
  <2>5. StateIsLast'
    BY <1>1, <2>1, <2>2, LastStays DEF SessionIInv, VolumeAtRest
  <2> QED
    BY <2>3, <2>4, <2>5 DEF SessionIInv
<1> QED
  BY <1>4, <1>5, <1>6 DEF Debounces

-----------------------------------------------------------------------------
(* The theorems                                                            *)

LEMMA SessionIInvKept == SessionIInv /\ [Next]_vars => SessionIInv'
<1> SUFFICES ASSUME SessionIInv, [Next]_vars PROVE SessionIInv'
  OBVIOUS
<1>1. CASE UNCHANGED vars
  <2>1. UNCHANGED <<daemon, outages, state, link, first, stream, forwarder, ipc, loop, connected, view>>
        /\ UNCHANGED <<presses, queue, pending, calls, sending, target, given, slips>>
    BY <1>1 DEF vars, world, sessions, screen, volume
  <2>2. TypeOK' /\ Wired' /\ EndIsTold'
    BY <2>1 DEF SessionIInv, TypeOK, Wired, EndIsTold, Running
  <2>3. TargetIsNewest' /\ FirstIsFirst' /\ StateIsLast' /\ Rising'
    BY <2>1, TargetStays, FirstStays, LastStays, RisingStays DEF SessionIInv, VolumeAtRest
  <2> QED
    BY <2>2, <2>3 DEF SessionIInv
<1>2. CASE DaemonWorks
  BY <1>2, InitialStateKept, RunSetVolumeKept DEF DaemonWorks
<1>3. CASE WorldChanges \/ DaemonDies
  BY <1>3, WorldKept, DaemonDiesKept
<1>4. CASE DaemonStops \/ DaemonRuns \/ Retry
  BY <1>4, QuietKept
<1>5. CASE \E s \in Session : Forwards(s)
  BY <1>5, ForwardKept, ForwardEndsKept DEF Forwards
<1>6. CASE Connects
  BY <1>6, QuietKept, ConnectedKept DEF Connects
<1>7. CASE Debounces \/ Receive \/ Quit \/ PressVolume
  BY <1>7, DebounceKept, ReceiveKept, QuitKept, PressVolumeKept
<1> QED
  BY <1>1, <1>2, <1>3, <1>4, <1>5, <1>6, <1>7 DEF Next

(* What the screen says is true, or about to be put right: connected is    *)
(* owed by a session or the report of its end, the last level chosen is    *)
(* the last set, and at rest the daemon's snapshot is shown (the select!   *)
(* of tui/app.rs, the forwarders and the debouncer).                       *)
THEOREM ScreenIsOwed == Spec => []SessionInv
<1>1. SessionIInv => SessionInv
  <2> SUFFICES ASSUME SessionIInv PROVE SessionInv
    OBVIOUS
  <2>1. ConnectedIsOwed
    <3> SUFFICES ASSUME connected, \A s \in Session : ~Running(s)
                 PROVE  \E s \in Session : Contains(ipc, Lost(s))
      BY DEF ConnectedIsOwed
    <3>1. PICK s \in Session : ipc # << >> /\ Last(ipc) = Lost(s)
      BY DEF SessionIInv, EndIsTold
    <3>2. ipc \in Seq(Message) /\ Len(ipc) \in 1 .. Len(ipc)
      BY <3>1, Taken DEF SessionIInv, TypeOK
    <3>3. Contains(ipc, Lost(s))
      BY <3>1, <3>2 DEF Contains, Last
    <3> QED
      BY <3>3
  <2>2. LastTargetWins
    BY DEF SessionIInv, LastTargetWins, TargetIsNewest, Newest, VolumeAtRest
  <2>3. ShowsDaemon
    BY DEF SessionIInv, ShowsDaemon, AtRest, StateIsLast, Open, Drained
  <2> QED
    BY <2>1, <2>2, <2>3 DEF SessionIInv, SessionInv
<1> QED
  BY <1>1, AtFirst, SessionIInvKept, PTL DEF Spec

(* With one session at a time no step takes the screen back to an older    *)
(* snapshot, across losses and reconnects (apply_server_message has no     *)
(* check of its own).                                                      *)
THEOREM ScreenGoesForward == Spec => NeverGoesBack
<1> DEFINE Holds == \/ view'.version >= view.version
                    \/ slips' \cap {"overtaken", "two_sessions", "dead_unread"} # {}
                    \/ loop' = "quit"
<1>1. SessionIInv /\ [Next]_vars => [Holds]_vars
  <2> SUFFICES ASSUME SessionIInv, Next PROVE Holds
    OBVIOUS
  <2>1. view.version \in Int
    BY Snapshots DEF SessionIInv, TypeOK
  <2>2. CASE view' = view
    BY <2>1, <2>2
  <2>3. CASE Receive
    <3> SUFFICES ASSUME slips' \cap {"overtaken", "two_sessions", "dead_unread"} = {}, view' # view
                 PROVE  view'.version >= view.version
      BY <2>2
    <3>1. ipc # << >> /\ "lost" \notin DOMAIN Head(ipc) /\ view' = Head(ipc).snapshot /\ slips' = slips
      BY <2>3 DEF Receive
    <3>2. ipc \in Seq(Message) /\ Head(ipc) = ipc[1] /\ Head(ipc) \in Message /\ 1 \in DOMAIN ipc
      BY <3>1, Taken DEF SessionIInv, TypeOK
    <3>3. view' \in Snapshot /\ ipc[1] = Shown(view')
      BY <3>1, <3>2, Messages
    <3>4. view.version <= view'.version /\ view'.version \in Int
      BY <3>1, <3>2, <3>3, Snapshots DEF SessionIInv, Rising
    <3> QED
      BY <2>1, <3>4
  <2>4. CASE Quit
    BY <2>4 DEF Quit
  <2>5. CASE PressVolume
    <3>1. view \in Snapshot /\ \E l \in Nudged(view.level) : view' = [view EXCEPT !.level = l]
      BY <2>5 DEF PressVolume, SessionIInv, TypeOK
    <3>2. view'.version = view.version
      BY <3>1 DEF Snapshot
    <3> QED
      BY <2>1, <3>2
  <2>6. CASE DaemonWorks \/ WorldChanges \/ DaemonDies \/ DaemonStops \/ DaemonRuns
    BY <2>2, <2>6
    DEF DaemonWorks, InitialState, RunSetVolume, WorldChanges, DaemonDies, DaemonStops, DaemonRuns, screen
  <2>7. CASE (\E s \in Session : Forwards(s)) \/ Connects \/ Debounces \/ Retry
    BY <2>2, <2>7
    DEF Forwards, Forward, ForwardEnds, Connects, Dial, Connected, ConnectFails, Debounces, Collect,
        SendVolume, SendTimesOut, Retry, screen
  <2> QED
    BY <2>3, <2>4, <2>5, <2>6, <2>7 DEF Next
<1>2. NeverGoesBack <=> [][Holds]_vars
  BY DEF NeverGoesBack
<1> QED
  BY <1>1, <1>2, AtFirst, SessionIInvKept, PTL DEF Spec
=============================================================================
