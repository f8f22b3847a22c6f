------------------------ MODULE SnapshotSyncProofs --------------------------
(***************************************************************************)
(* TLAPS proofs about SnapshotSync: its types, and that staleness is never *)
(* forgotten (StaleIsOwed), for every set of fields, plan of requests,     *)
(* number of retries and bound on the environment.                         *)
(***************************************************************************)
EXTENDS SnapshotSync, SequenceTheorems, TLAPS

USE DEF Refresher, Phase, PlanDone, NudgeAfter, NeedsFullRefresh

TypeInv == TypeOK /\ ReadSoFar

-----------------------------------------------------------------------------
LEMMA PlanLength == Len(Plan) \in Nat \ {0} /\ \A i \in 1 .. Len(Plan) : Plan[i] \subseteq Field
  BY PlanAssumption, EmptySeq DEF PlanAssumption

LEMMA NothingReadType ==
  ASSUME NEW phase \in Phase, NEW gen \in Nat
  PROVE  NothingRead(phase, gen) \in RefreshRecord
  BY PlanLength DEF NothingRead, RefreshRecord

LEMMA NoRefreshType == NoRefresh \in RefreshRecord /\ NoRefresh.phase = "idle"
  BY NothingReadType DEF NoRefresh, NothingRead

LEMMA FieldFacts ==
  /\ Followed \subseteq Field /\ Projection \in Followed /\ Projection \in Field
  /\ \A x \in Followed : x \notin Inputs
  /\ \A x \in Followed : x \in Lists \/ x \in Selections \/ x = Projection
  /\ \A x \in Selections : x \notin Lists /\ x # Projection /\ x \in Followed
  /\ \A x \in Lists : x # Projection /\ x \in Followed
  BY FieldsAssumption DEF FieldsAssumption, Field, Followed

LEMMA LeftToFields ==
  ASSUME NEW r
  PROVE  /\ LeftTo(r) \in SUBSET Field
         /\ LeftTo(r) = IF r = "worker" THEN Lists ELSE {}
  BY DEF LeftTo, Field, Followed

LEMMA InitTypeInv == Init => TypeInv
<1> SUFFICES ASSUME Init PROVE TypeInv
  OBVIOUS
<1>1. snap \in [Field -> Known]
  BY DEF Init, Known
<1>2. \A r \in Refresher : refresh[r] = NoRefresh
  BY DEF Init
<1>3. tries \in 0 .. MaxRetries
  BY BoundAssumption DEF Init, BoundAssumption
<1>4. ReadSoFar
  BY <1>2 DEF ReadSoFar, InFlight, NoRefresh, NothingRead
<1>5. refresh \in [Refresher -> RefreshRecord]
  BY NoRefreshType DEF Init
<1>6. env \in [{"changes", "failures"} -> Nat]
  BY DEF Init
<1>7. obs \in [Field -> Value \union {Absent}] /\ config \in Value /\ merge \in Value \union {NotRead}
  BY DEF Init
<1>8. events \in Seq(EventRecord)
  BY EmptySeq DEF Init
<1>9. generation \in Nat /\ nudge \in BOOLEAN /\ excused \in SUBSET Field
  BY DEF Init
<1> QED
  BY <1>1, <1>3, <1>4, <1>5, <1>6, <1>7, <1>8, <1>9 DEF TypeInv, TypeOK

LEMMA MaskedType ==
  ASSUME NEW rec \in RefreshRecord, NEW fields \in SUBSET Field
  PROVE  [rec EXCEPT !.masked = @ \union fields] \in RefreshRecord
  BY DEF RefreshRecord

(* A step that leaves phase, plan position and readings of every refresh   *)
(* alone preserves what is known of them.                                  *)
LEMMA MaskType ==
  ASSUME TypeInv, NEW who \in SUBSET Refresher, NEW fields \in SUBSET Field, Mask(who, fields)
  PROVE  refresh' \in [Refresher -> RefreshRecord] /\ ReadSoFar'
<1>1. \A r \in Refresher :
        /\ refresh'[r] \in RefreshRecord
        /\ refresh'[r].phase = refresh[r].phase
        /\ refresh'[r].at = refresh[r].at
        /\ refresh'[r].got = refresh[r].got
  BY DEF Mask, TypeInv, TypeOK, RefreshRecord
<1>2. refresh' \in [Refresher -> RefreshRecord]
  BY <1>1 DEF Mask
<1> QED
  BY <1>1, <1>2 DEF TypeInv, ReadSoFar, InFlight

(* An event changes its field to something the snapshot can say.           *)
LEMMA FoldedType ==
  ASSUME TypeOK, NEW e \in EventRecord
  PROVE  Folded(e) \in Known
<1>1. e.field \in Field /\ e.value \in Known
  BY DEF EventRecord, Known
<1>2. snap[e.field] \in Known
  BY <1>1 DEF TypeOK
<1> QED
  BY <1>1, <1>2 DEF Folded

LEMMA ReadingType ==
  ASSUME TypeOK, NEW x \in Field, NEW known \in Known \union {NotRead}
  PROVE  Reading(x, known) \in Known
<1>1. obs[x] \in Value \union {Absent} /\ config \in Value
  BY DEF TypeOK
<1> QED
  BY <1>1 DEF Reading, Source, Known

(* Moving on to the next request of the plan, with that request read.      *)
LEMMA AdvanceType ==
  ASSUME TypeInv, NEW r \in Refresher, refresh[r].phase = "fetch",
         NEW got \in [Field -> Known \union {NotRead}], NEW masked \in SUBSET Field,
         \A x \in Field : refresh[r].got[x] # NotRead => got[x] # NotRead,
         \A x \in Plan[refresh[r].at] : got[x] # NotRead,
         Advance(r, got, masked)
  PROVE  refresh' \in [Refresher -> RefreshRecord] /\ ReadSoFar'
<1> DEFINE old == refresh[r]
           new == [phase |-> IF old.at + 1 > Len(Plan) THEN "publish" ELSE "fetch",
                   at |-> old.at + 1, gen |-> old.gen, got |-> got, masked |-> masked]
<1>0. old \in RefreshRecord
  BY DEF TypeInv, TypeOK
<1>1. old \in RefreshRecord /\ old.at \in 1 .. Len(Plan) /\ Len(Plan) \in Nat
  BY <1>0, PlanLength DEF TypeInv, ReadSoFar, RefreshRecord
<1>2. refresh' = [refresh EXCEPT ![r] = new]
  BY DEF Advance, TypeInv, TypeOK
<1>3. /\ new \in RefreshRecord
      /\ new.got = got /\ new.at = old.at + 1
      /\ new.phase = IF old.at + 1 > Len(Plan) THEN "publish" ELSE "fetch"
  BY <1>1 DEF RefreshRecord
<1>4. \A i \in 1 .. Len(Plan) : i < new.at => \A x \in Plan[i] : new.got[x] # NotRead
  <2> SUFFICES ASSUME NEW i \in 1 .. Len(Plan), i < new.at, NEW x \in Plan[i]
               PROVE  got[x] # NotRead
    BY <1>3
  <2>1. CASE i = old.at
    BY <2>1
  <2>2. CASE i < old.at
    BY <2>2, <1>1, PlanLength DEF TypeInv, ReadSoFar, InFlight
  <2> QED
    BY <2>1, <2>2, <1>1, <1>3
<1>5. refresh' \in [Refresher -> RefreshRecord]
  BY <1>2, <1>3 DEF TypeInv, TypeOK
<1>6. \A q \in Refresher : q # r => refresh'[q] = refresh[q]
  BY <1>2 DEF TypeInv, TypeOK
<1>7. refresh'[r] = new
  BY <1>2 DEF TypeInv, TypeOK
<1>8. ReadSoFar'
  <2> SUFFICES ASSUME NEW q \in Refresher
               PROVE /\ refresh'[q].phase = "fetch" => refresh'[q].at <= Len(Plan)
                     /\ refresh'[q].phase = "publish" => refresh'[q].at = Len(Plan) + 1
                     /\ InFlight(q)' =>
                          \A i \in 1 .. Len(Plan) : i < refresh'[q].at =>
                            \A x \in Plan[i] : refresh'[q].got[x] # NotRead
    BY DEF ReadSoFar
  <2>1. CASE q = r
    BY <2>1, <1>1, <1>3, <1>4, <1>7
  <2>2. CASE q # r
    BY <2>2, <1>6 DEF TypeInv, ReadSoFar, InFlight
  <2> QED
    BY <2>1, <2>2
<1> QED
  BY <1>5, <1>8

LEMMA CountType ==
  ASSUME TypeOK, NEW k \in {"changes", "failures"}, NEW bound \in Nat, Count(k, bound)
  PROVE  env' \in [{"changes", "failures"} -> Nat]
  BY DEF TypeOK, Count

(* The steps of OBS, the user and the pump.                                *)
LEMMA OutsideTypeInv ==
  TypeInv /\ (Environment \/ MergeConfig \/ PumpEvent) => TypeInv'
<1> SUFFICES ASSUME TypeInv, Environment \/ MergeConfig \/ PumpEvent PROVE TypeInv'
  OBVIOUS
<1> USE DEF TypeInv
<1>1. ASSUME NEW x \in Field, NEW v \in Value \union {Absent}, ObsChanges(x, v) PROVE TypeInv'
  <2> DEFINE e == [field |-> x, value |-> IF obs[x] = Absent THEN Unknown ELSE v]
  <2>1. e \in EventRecord
    BY <1>1 DEF ObsChanges, EventRecord
  <2>2. events' \in Seq(EventRecord)
    BY <1>1, <2>1, AppendProperties DEF ObsChanges, TypeOK
  <2>3. obs' \in [Field -> Value \union {Absent}]
    BY <1>1 DEF ObsChanges, TypeOK
  <2>4. env' \in [{"changes", "failures"} -> Nat]
    BY <1>1, CountType, BoundAssumption DEF ObsChanges, BoundAssumption
  <2> QED
    BY <1>1, <2>2, <2>3, <2>4 DEF ObsChanges, TypeOK, ReadSoFar, InFlight
<1>2. ASSUME NEW v \in Value, SetConfig(v) PROVE TypeInv'
  <2>1. env' \in [{"changes", "failures"} -> Nat]
    BY <1>2, CountType, BoundAssumption DEF SetConfig, BoundAssumption
  <2> QED
    BY <1>2, <2>1 DEF SetConfig, TypeOK, ReadSoFar, InFlight
<1>3. ASSUME NEW v \in Value, DumpReload(v) PROVE TypeInv'
  <2>1. env' \in [{"changes", "failures"} -> Nat]
    BY <1>3, CountType, BoundAssumption DEF DumpReload, BoundAssumption
  <2>2. refresh' \in [Refresher -> RefreshRecord] /\ ReadSoFar'
    BY <1>3, MaskType, FieldFacts DEF DumpReload
  <2> QED
    BY <1>3, <2>1, <2>2, FieldFacts DEF DumpReload, TypeOK
<1>5. CASE MergeConfig
  <2>1. snap' \in [Field -> Known]
    BY <1>5 DEF MergeConfig, TypeOK, Known
  <2> QED
    BY <1>5, <2>1 DEF MergeConfig, Commit, TypeOK, ReadSoFar, InFlight
<1>6. CASE PumpEvent
  <2> DEFINE e == Head(events)
  <2>1. e \in EventRecord /\ events' \in Seq(EventRecord)
    BY <1>6, HeadTailProperties DEF PumpEvent, TypeOK
  <2>2. snap' \in [Field -> Known]
    BY <1>6, <2>1, FoldedType DEF PumpEvent, TypeOK
  <2>3. refresh' \in [Refresher -> RefreshRecord] /\ ReadSoFar'
    <3>1. CASE Mask(Refresher, {e.field})
      BY <3>1, <2>1, MaskType DEF EventRecord
    <3>2. CASE UNCHANGED refresh
      BY <3>2 DEF TypeOK, ReadSoFar, InFlight
    <3> QED
      BY <1>6, <3>1, <3>2 DEF PumpEvent
  <2>4. generation' \in Nat /\ nudge' \in BOOLEAN
    BY <1>6 DEF PumpEvent, Commit, TypeOK
  <2> QED
    BY <1>6, <2>1, <2>2, <2>3, <2>4 DEF PumpEvent, sources, TypeOK
<1> QED
  BY <1>1, <1>2, <1>3, <1>5, <1>6 DEF Environment

(* What the whole of Plan has been read means for a field.                 *)
LEMMA AllRead ==
  ASSUME TypeInv, NEW r \in Refresher, refresh[r].phase = "publish"
  PROVE  refresh[r].got \in [Field -> Known]
<1>1. \A x \in Field : refresh[r].got[x] # NotRead
  BY PlanAssumption, PlanLength DEF PlanAssumption, TypeInv, ReadSoFar, InFlight
<1>2. refresh[r].got \in [Field -> Known \union {NotRead}]
  BY DEF TypeInv, TypeOK, RefreshRecord
<1> QED
  BY <1>1, <1>2

LEMMA RefreshTypeInv ==
  ASSUME TypeInv, NEW r \in Refresher, RefreshStep(r)
  PROVE  TypeInv'
<1> USE DEF TypeInv
<1>1. CASE Begin(r)
  <2> DEFINE new == NothingRead("fetch", generation)
  <2>1. new \in RefreshRecord /\ new.phase = "fetch" /\ new.at = 1 /\ 1 <= Len(Plan)
    BY NothingReadType, PlanLength DEF TypeOK, NothingRead
  <2>2. refresh' \in [Refresher -> RefreshRecord] /\ refresh'[r] = new
        /\ \A q \in Refresher : q # r => refresh'[q] = refresh[q]
    BY <1>1, <2>1 DEF Begin, TypeOK
  <2>3. ReadSoFar'
    <3> SUFFICES ASSUME NEW q \in Refresher
                 PROVE /\ refresh'[q].phase = "fetch" => refresh'[q].at <= Len(Plan)
                       /\ refresh'[q].phase = "publish" => refresh'[q].at = Len(Plan) + 1
                       /\ InFlight(q)' =>
                            \A i \in 1 .. Len(Plan) : i < refresh'[q].at =>
                              \A x \in Plan[i] : refresh'[q].got[x] # NotRead
      BY DEF ReadSoFar
    <3>1. CASE q = r
      BY <3>1, <2>1, <2>2
    <3>2. CASE q # r
      BY <3>2, <2>2 DEF ReadSoFar, InFlight
    <3> QED
      BY <3>1, <3>2
  <2>4. tries' \in 0 .. MaxRetries
    BY <1>1, BoundAssumption DEF Begin, TypeOK, BoundAssumption
  <2>5. nudge' \in BOOLEAN
    BY <1>1 DEF Begin, TypeOK
  <2> QED
    BY <1>1, <2>2, <2>3, <2>4, <2>5 DEF Begin, sources, TypeOK
<1>2. CASE Fetch(r)
  <2> DEFINE got == refresh[r].got
             new == [x \in Field |-> IF x \in Plan[refresh[r].at] THEN Reading(x, got[x]) ELSE got[x]]
  <2>1. got \in [Field -> Known \union {NotRead}] /\ refresh[r].masked \in SUBSET Field
    BY DEF TypeOK, RefreshRecord
  <2>2. \A x \in Field : Reading(x, got[x]) \in Known
    BY <2>1, ReadingType
  <2>3. Plan[refresh[r].at] \subseteq Field
    BY <1>2, PlanLength DEF Fetch, ReadSoFar, TypeOK, RefreshRecord
  <2>4. refresh' \in [Refresher -> RefreshRecord] /\ ReadSoFar'
    <3>1. new \in [Field -> Known \union {NotRead}]
      BY <2>1, <2>2
    <3>2. /\ \A x \in Field : refresh[r].got[x] # NotRead => new[x] # NotRead
          /\ \A x \in Plan[refresh[r].at] : new[x] # NotRead
      BY <2>2, <2>3, ValueAssumption DEF ValueAssumption
    <3> QED
      BY <1>2, <2>1, <3>1, <3>2, AdvanceType DEF Fetch
  <2> QED
    BY <1>2, <2>4 DEF Fetch, sources, TypeOK
<1>3. CASE FetchDegrades(r)
  <2> DEFINE now == Plan[refresh[r].at]
             new == [x \in Field |-> IF x \in now \ Inputs THEN Blank ELSE refresh[r].got[x]]
             masked == refresh[r].masked \union (now \ Inputs)
  <2>2. now \subseteq Field
    BY <1>3, PlanLength DEF FetchDegrades, ReadSoFar, TypeOK, RefreshRecord
  <2>1. refresh[r].got \in [Field -> Known \union {NotRead}] /\ masked \in SUBSET Field
    BY <2>2 DEF TypeOK, RefreshRecord
  <2>3. new \in [Field -> Known \union {NotRead}]
    BY <2>1 DEF Known
  <2>4. /\ \A x \in Field : refresh[r].got[x] # NotRead => new[x] # NotRead
        /\ \A x \in now : new[x] # NotRead
    BY <1>3, <2>2, ValueAssumption DEF FetchDegrades, ValueAssumption, Known
  <2>5. refresh' \in [Refresher -> RefreshRecord] /\ ReadSoFar'
    BY <1>3, <2>1, <2>3, <2>4, AdvanceType DEF FetchDegrades
  <2>6. env' \in [{"changes", "failures"} -> Nat]
    BY <1>3, CountType, BoundAssumption DEF FetchDegrades, BoundAssumption
  <2> QED
    BY <1>3, <2>5, <2>6 DEF FetchDegrades, TypeOK
<1>4. CASE FetchFails(r)
  <2>1. \A q \in Refresher :
          \/ refresh'[q] = NoRefresh
          \/ refresh'[q] = refresh[q]
          \/ refresh'[q] = [refresh[q] EXCEPT !.masked = @ \union LeftTo(r)]
    BY <1>4 DEF FetchFails
  <2>2. \A q \in Refresher : refresh'[q] \in RefreshRecord
    <3>1. \A q \in Refresher : [refresh[q] EXCEPT !.masked = @ \union LeftTo(r)] \in RefreshRecord
      BY MaskedType, LeftToFields DEF TypeOK
    <3> QED
      BY <2>1, <3>1, NoRefreshType DEF TypeOK
  <2>3. refresh' \in [Refresher -> RefreshRecord]
    BY <1>4, <2>2 DEF FetchFails
  <2>4. \A q \in Refresher :
          refresh'[q].phase = "idle" \/
          (refresh'[q].phase = refresh[q].phase /\ refresh'[q].at = refresh[q].at
           /\ refresh'[q].got = refresh[q].got)
    BY <2>1 DEF TypeOK, RefreshRecord, NoRefresh, NothingRead
  <2>5. ReadSoFar'
    BY <2>4 DEF ReadSoFar, InFlight
  <2>6. env' \in [{"changes", "failures"} -> Nat]
    BY <1>4, CountType, BoundAssumption DEF FetchFails, BoundAssumption
  <2>7. generation' \in Nat /\ tries' \in 0 .. MaxRetries
    BY <1>4, BoundAssumption DEF FetchFails, Commit, TypeOK, BoundAssumption
  <2>8. excused' \in SUBSET Field
    BY <1>4 DEF FetchFails
  <2> QED
    BY <1>4, <2>3, <2>5, <2>6, <2>7, <2>8 DEF FetchFails, TypeOK
<1>5. CASE Publish(r)
  <2>1. \A q \in Refresher :
          \/ q = r /\ refresh'[q] = [refresh[q] EXCEPT !.phase = "check"]
          \/ refresh'[q] = refresh[q]
          \/ refresh'[q] = [refresh[q] EXCEPT !.masked = @ \union LeftTo(r)]
    BY <1>5 DEF Publish
  <2>2. \A q \in Refresher : refresh'[q] \in RefreshRecord
    <3>1. [refresh[r] EXCEPT !.phase = "check"] \in RefreshRecord
      <4>1. refresh[r] \in RefreshRecord
        BY DEF TypeOK
      <4> QED
        BY <4>1 DEF RefreshRecord
    <3>2. \A q \in Refresher : [refresh[q] EXCEPT !.masked = @ \union LeftTo(r)] \in RefreshRecord
      BY MaskedType, LeftToFields DEF TypeOK
    <3> QED
      BY <2>1, <3>1, <3>2 DEF TypeOK
  <2>3. refresh' \in [Refresher -> RefreshRecord]
    BY <1>5, <2>2 DEF Publish
  <2>4. \A q \in Refresher :
          /\ refresh'[q].at = refresh[q].at
          /\ refresh'[q].got = refresh[q].got
          /\ refresh'[q].phase \in {"check", refresh[q].phase}
    BY <2>1 DEF TypeOK, RefreshRecord
  <2>5. ReadSoFar'
    BY <2>4 DEF ReadSoFar, InFlight
  <2>6. snap' \in [Field -> Known]
    BY <1>5, AllRead DEF Publish
  <2>7. excused' \in SUBSET Field
    BY <1>5 DEF Publish, TypeOK, RefreshRecord
  <2> QED
    BY <1>5, <2>3, <2>5, <2>6, <2>7 DEF Publish, sources, TypeOK
<1>6. CASE Check(r)
  <2>1. refresh' \in [Refresher -> RefreshRecord]
    BY <1>6, NoRefreshType DEF Check, TypeOK
  <2>2. ReadSoFar'
    BY <1>6 DEF Check, ReadSoFar, InFlight, NoRefresh, NothingRead, TypeOK
  <2>3. nudge' \in BOOLEAN
    BY <1>6 DEF Check, TypeOK
  <2>4. excused' \in SUBSET Field
    BY <1>6 DEF Check, TypeOK
  <2>5. tries' \in 0 .. MaxRetries
    BY <1>6, BoundAssumption DEF Check, TypeOK, BoundAssumption
  <2> QED
    BY <1>6, <2>1, <2>2, <2>3, <2>4, <2>5 DEF Check, sources, TypeOK
<1> QED
  BY <1>1, <1>2, <1>3, <1>4, <1>5, <1>6 DEF RefreshStep

LEMMA NextTypeInv == TypeInv /\ [Next]_vars => TypeInv'
<1>1. ASSUME TypeInv, UNCHANGED vars PROVE TypeInv'
  BY <1>1 DEF vars, TypeInv, TypeOK, ReadSoFar, InFlight
<1> QED
  BY <1>1, OutsideTypeInv, RefreshTypeInv DEF Next

(* Every variable keeps its type, and a refresh publishes only fields it   *)
(* has read.                                                               *)
THEOREM SnapshotTypes == Spec => []TypeOK
<1>1. TypeInv => TypeOK
  BY DEF TypeInv
<1> QED
  BY <1>1, InitTypeInv, NextTypeInv, PTL DEF Spec

-----------------------------------------------------------------------------
(* Staleness is never forgotten                                            *)

Fresh == QueueIsFresh /\ FenceHolds /\ StaleIsOwed

LEMMA RefreshFacts ==
  ASSUME TypeInv, NEW r \in Refresher
  PROVE  /\ refresh[r] \in RefreshRecord
         /\ refresh[r].phase \in Phase /\ refresh[r].gen \in Nat
         /\ refresh[r].got \in [Field -> Known \union {NotRead}]
         /\ refresh[r].masked \in SUBSET Field
         /\ generation \in Nat /\ generation + 1 \in Nat
  BY DEF TypeInv, TypeOK, RefreshRecord

LEMMA InitFresh == Init => Fresh
<1> SUFFICES ASSUME Init PROVE Fresh
  OBVIOUS
<1>1. \A r \in Refresher : refresh[r] = NoRefresh /\ refresh[r].phase = "idle"
  BY DEF Init, NoRefresh, NothingRead
<1>2. QueueIsFresh
  BY <1>1, FieldFacts DEF Init, QueueIsFresh, Field
<1>3. FenceHolds
  BY <1>1 DEF FenceHolds, InFlight
<1>4. tries > 0
  BY BoundAssumption DEF Init, BoundAssumption
<1>5. StaleIsOwed
  BY <1>1, <1>4 DEF StaleIsOwed, Owed, Covers
<1> QED
  BY <1>2, <1>3, <1>5 DEF Fresh

(* When one source changes and the news of it is on the way, what was owed *)
(* for the other fields still is.                                          *)
LEMMA NewsArrives ==
  ASSUME Fresh, NEW y \in Field, Queued(y)',
         UNCHANGED <<snap, generation, nudge, refresh, tries, excused>>,
         \A x \in Followed : x # y => Source(x)' = Source(x),
         \A x \in Followed : Queued(x) => Queued(x)'
  PROVE  FenceHolds' /\ StaleIsOwed'
<1>1. \A x \in Followed, r \in Refresher : x # y /\ Covers(r, x) => Covers(r, x)'
  BY DEF Covers, InFlight, Superseded
<1>2. FenceHolds'
  <2> SUFFICES ASSUME NEW r \in Refresher, NEW x \in Followed,
                      InFlight(r)', x \notin refresh'[r].masked, ~Superseded(r)',
                      refresh'[r].got[x] \notin {NotRead, Source(x)'}
               PROVE  \/ Queued(x)'
                      \/ x \in Lists /\ (nudge' \/ (r = "connect" /\ Covers("worker", x)'))
    BY DEF FenceHolds
  <2>1. CASE x = y
    BY <2>1
  <2>2. CASE x # y
    <3>1. \/ Queued(x)
          \/ x \in Lists /\ (nudge \/ (r = "connect" /\ Covers("worker", x)))
      BY <2>2 DEF Fresh, FenceHolds, InFlight, Superseded
    <3> QED
      BY <3>1, <2>2, <1>1
  <2> QED
    BY <2>1, <2>2
<1>3. StaleIsOwed'
  <2> SUFFICES ASSUME NEW x \in Followed
               PROVE  snap'[x] = Source(x)' \/ Owed(x)' \/ x \in excused'
    BY DEF StaleIsOwed
  <2>1. CASE x = y
    BY <2>1 DEF Owed
  <2>2. CASE x # y
    BY <2>2, <1>1 DEF Fresh, StaleIsOwed, Owed
  <2> QED
    BY <2>1, <2>2
<1> QED
  BY <1>2, <1>3

LEMMA ObsChangesFresh ==
  ASSUME TypeInv, Fresh, NEW y \in Field, NEW v \in Value \union {Absent}, ObsChanges(y, v)
  PROVE  Fresh'
<1> DEFINE e == [field |-> y, value |-> IF obs[y] = Absent THEN Unknown ELSE v]
<1>1. /\ events \in Seq(EventRecord) /\ e \in EventRecord
      /\ events' = Append(events, e)
      /\ Len(events') = Len(events) + 1 /\ Len(events) \in Nat
      /\ events'[Len(events) + 1] = e
      /\ \A i \in 1 .. Len(events) : events'[i] = events[i]
  BY AppendProperties DEF ObsChanges, TypeInv, TypeOK, EventRecord
<1>2. /\ obs' = [obs EXCEPT ![y] = v] /\ obs \in [Field -> Value \union {Absent}]
      /\ y # Projection
      /\ UNCHANGED <<config, merge, snap, generation, nudge, refresh, tries, excused>>
  BY DEF ObsChanges, TypeInv, TypeOK
<1>3. \A x \in Followed : x # y => Source(x)' = Source(x)
  BY <1>2, FieldFacts DEF Source
<1>4. Queued(y)'
  BY <1>1 DEF Queued
<1>5. \A x \in Followed : Queued(x) => Queued(x)'
  BY <1>1, <1>2 DEF Queued
<1>6. QueueIsFresh'
  <2>1. \A x \in Selections : obs'[x] # Absent
    BY <1>2, FieldFacts DEF ObsChanges, Fresh, QueueIsFresh, Field, Followed
  <2>2. ASSUME NEW i \in 1 .. Len(events'), events'[i].field \in Selections,
               \A j \in i + 1 .. Len(events') : events'[j].field # events'[i].field
        PROVE  events'[i].value = obs'[events'[i].field]
    <3>1. CASE i = Len(events) + 1
      <4>1. y \in Selections /\ e.value = v /\ obs'[y] = v
        BY <2>2, <3>1, <1>1, <1>2 DEF Fresh, QueueIsFresh
      <4> QED
        BY <4>1, <3>1, <1>1
    <3>2. CASE i \in 1 .. Len(events)
      <4>1. events'[i] = events[i] /\ events[i].field # y
        BY <2>2, <3>2, <1>1
      <4>2. \A j \in i + 1 .. Len(events) : events[j].field # events[i].field
        BY <2>2, <3>2, <1>1
      <4>3. events[i].value = obs[events[i].field]
        BY <2>2, <3>2, <4>1, <4>2 DEF Fresh, QueueIsFresh
      <4> QED
        BY <2>2, <4>1, <4>3, <1>2, FieldFacts
    <3> QED
      BY <3>1, <3>2, <1>1
  <2> QED
    BY <2>1, <2>2, <1>2 DEF Fresh, QueueIsFresh
<1>7. FenceHolds' /\ StaleIsOwed'
  BY <1>2, <1>3, <1>4, <1>5, NewsArrives
<1> QED
  BY <1>6, <1>7 DEF Fresh

LEMMA SetConfigFresh ==
  ASSUME TypeInv, Fresh, NEW v \in Value, SetConfig(v)
  PROVE  Fresh'
<1>1. v # NotRead /\ merge = NotRead /\ merge' = v
  BY ValueAssumption DEF SetConfig, ValueAssumption, Known
<1>2. QueueIsFresh'
  BY <1>1 DEF SetConfig, Fresh, QueueIsFresh
<1>3. Queued(Projection)' /\ \A x \in Followed : Queued(x) => Queued(x)'
  BY <1>1 DEF SetConfig, Queued
<1>4. \A x \in Followed : x # Projection => Source(x)' = Source(x)
  BY DEF SetConfig, Source
<1>5. FenceHolds' /\ StaleIsOwed'
  BY <1>3, <1>4, FieldFacts, NewsArrives DEF SetConfig
<1> QED
  BY <1>2, <1>5 DEF Fresh

(* An excuse for some fields takes nothing else away from a refresh.       *)
LEMMA MaskEffect ==
  ASSUME TypeInv, NEW fields \in SUBSET Field, Mask(Refresher, fields)
  PROVE  \A r \in Refresher :
           /\ refresh'[r].phase = refresh[r].phase
           /\ refresh'[r].gen = refresh[r].gen
           /\ refresh'[r].got = refresh[r].got
           /\ InFlight(r)' <=> InFlight(r)
           /\ InFlight(r) => refresh'[r].masked = refresh[r].masked \union fields
<1> SUFFICES ASSUME NEW r \in Refresher
             PROVE  /\ refresh'[r].phase = refresh[r].phase
                    /\ refresh'[r].gen = refresh[r].gen
                    /\ refresh'[r].got = refresh[r].got
                    /\ InFlight(r) => refresh'[r].masked = refresh[r].masked \union fields
  BY DEF InFlight
<1>1. refresh[r] \in RefreshRecord
  BY RefreshFacts
<1>2. refresh'[r] = IF InFlight(r) THEN [refresh[r] EXCEPT !.masked = @ \union fields] ELSE refresh[r]
  BY DEF Mask
<1> QED
  BY <1>1, <1>2 DEF RefreshRecord

(* What a refresh covers it still covers after it has been given excuses.  *)
LEMMA MaskCovers ==
  ASSUME TypeInv, NEW fields \in SUBSET Field, Mask(Refresher, fields), UNCHANGED <<generation, tries>>,
         NEW r \in Refresher, NEW x \in Followed, Source(x)' = Source(x) \/ x \in fields, Covers(r, x)
  PROVE  Covers(r, x)'
<1>1. /\ refresh'[r].phase = refresh[r].phase
      /\ refresh'[r].gen = refresh[r].gen
      /\ refresh'[r].got = refresh[r].got
      /\ InFlight(r)' <=> InFlight(r)
      /\ InFlight(r) => refresh'[r].masked = refresh[r].masked \union fields
  BY MaskEffect
<1> QED
  BY <1>1 DEF Covers, Superseded

(* After such a step the fence holds for the excused fields, and for every *)
(* other field as it did before.                                           *)
LEMMA MaskFence ==
  ASSUME TypeInv, Fresh, NEW fields \in SUBSET Field, Mask(Refresher, fields),
         UNCHANGED <<generation, tries>>, nudge => nudge',
         \A x \in Followed \ fields : Source(x)' = Source(x) /\ (Queued(x) => Queued(x)')
  PROVE  FenceHolds'
<1> SUFFICES ASSUME NEW r \in Refresher, NEW x \in Followed,
                    InFlight(r)', x \notin refresh'[r].masked, ~Superseded(r)',
                    refresh'[r].got[x] \notin {NotRead, Source(x)'}
             PROVE  \/ Queued(x)'
                    \/ x \in Lists /\ (nudge' \/ (r = "connect" /\ Covers("worker", x)'))
  BY DEF FenceHolds
<1>1. /\ refresh'[r].phase = refresh[r].phase
      /\ refresh'[r].gen = refresh[r].gen
      /\ refresh'[r].got = refresh[r].got
      /\ InFlight(r)
      /\ refresh'[r].masked = refresh[r].masked \union fields
  BY MaskEffect
<1>2. x \in Followed \ fields /\ x \notin refresh[r].masked
  BY <1>1
<1>3. ~Superseded(r) /\ refresh[r].got[x] \notin {NotRead, Source(x)}
  BY <1>1, <1>2 DEF Superseded
<1>4. \/ Queued(x)
      \/ x \in Lists /\ (nudge \/ (r = "connect" /\ Covers("worker", x)))
  BY <1>1, <1>2, <1>3 DEF Fresh, FenceHolds
<1>5. Covers("worker", x) => Covers("worker", x)'
  BY <1>2, MaskCovers
<1> QED
  BY <1>2, <1>4, <1>5

LEMMA DumpReloadFresh ==
  ASSUME TypeInv, Fresh, NEW v \in Value, DumpReload(v)
  PROVE  Fresh'
<1>1. /\ {Projection} \in SUBSET Field /\ Mask(Refresher, {Projection})
      /\ UNCHANGED <<obs, merge, events, snap, generation, nudge, tries>>
      /\ excused' = excused \union {Projection}
  BY FieldFacts DEF DumpReload
<1>2. QueueIsFresh'
  BY <1>1, MaskEffect DEF DumpReload, Fresh, QueueIsFresh
<1>3. \A x \in Followed : /\ x # Projection => Source(x)' = Source(x)
                          /\ Queued(x) => Queued(x)'
  BY <1>1 DEF Source, Queued
<1>4. FenceHolds'
  BY <1>1, <1>3, MaskFence
<1>5. StaleIsOwed'
  <2> SUFFICES ASSUME NEW x \in Followed, x # Projection
               PROVE  snap'[x] = Source(x)' \/ Owed(x)' \/ x \in excused'
    BY <1>1 DEF StaleIsOwed
  <2>1. \A r \in Refresher : Covers(r, x) => Covers(r, x)'
    BY <1>1, <1>3, MaskCovers
  <2> QED
    BY <1>1, <1>3, <2>1 DEF Fresh, StaleIsOwed, Owed
<1> QED
  BY <1>2, <1>4, <1>5 DEF Fresh

(* A counted write overtakes every refresh that has begun.                 *)
LEMMA CommitOvertakes ==
  ASSUME TypeInv, Fresh, Commit, UNCHANGED refresh
  PROVE  \A r \in Refresher : refresh[r].phase # "idle" => Superseded(r)'
  BY RefreshFacts DEF Commit, Fresh, QueueIsFresh, Superseded

LEMMA MergeConfigFresh ==
  ASSUME TypeInv, Fresh, MergeConfig
  PROVE  Fresh'
<1>1. \A r \in Refresher : refresh[r].phase # "idle" => Superseded(r)'
  BY CommitOvertakes DEF MergeConfig
<1>2. QueueIsFresh'
  BY RefreshFacts DEF MergeConfig, Commit, Fresh, QueueIsFresh
<1>3. FenceHolds'
  BY <1>1 DEF MergeConfig, FenceHolds, InFlight
<1>4. StaleIsOwed'
  <2> SUFFICES ASSUME NEW x \in Followed
               PROVE  snap'[x] = Source(x)' \/ Owed(x)' \/ x \in excused'
    BY DEF StaleIsOwed
  <2>1. CASE x = Projection
    BY <2>1, FieldFacts DEF MergeConfig, Fresh, QueueIsFresh, Source, TypeInv, TypeOK
  <2>2. CASE x # Projection
    <3>1. snap'[x] = snap[x] /\ Source(x)' = Source(x) /\ excused' = excused /\ nudge' = nudge
      BY <2>2, FieldFacts DEF MergeConfig, Source, TypeInv, TypeOK
    <3>2. Queued(x) => Queued(x)'
      BY <2>2 DEF MergeConfig, Queued
    <3>3. \A r \in Refresher : Covers(r, x) => Covers(r, x)'
      BY <1>1 DEF MergeConfig, Covers, InFlight
    <3> QED
      BY <3>1, <3>2, <3>3 DEF Fresh, StaleIsOwed, Owed
  <2> QED
    BY <2>1, <2>2
<1> QED
  BY <1>2, <1>3, <1>4 DEF Fresh

LEMMA PumpEventFresh ==
  ASSUME TypeInv, Fresh, PumpEvent
  PROVE  Fresh'
<1> DEFINE e == Head(events)
<1>1. /\ events \in Seq(EventRecord) /\ events # << >> /\ Len(events) \in Nat \ {0}
      /\ e = events[1] /\ e \in EventRecord
      /\ Len(events') = Len(events) - 1
      /\ \A i \in 1 .. Len(events) - 1 : events'[i] = events[i + 1]
  BY HeadTailProperties, EmptySeq DEF PumpEvent, TypeInv, TypeOK
<1>2. /\ UNCHANGED <<obs, config, merge, tries, excused>>
      /\ snap' = [snap EXCEPT ![e.field] = Folded(e)]
      /\ nudge' = (nudge \/ e.field \in Lists)
  BY DEF PumpEvent, sources
<1>3. \A x \in Followed : x # e.field /\ Queued(x) => Queued(x)'
  <2> SUFFICES ASSUME NEW x \in Followed, x # e.field, NEW i \in 1 .. Len(events), events[i].field = x
               PROVE  \E j \in 1 .. Len(events') : events'[j].field = x
    BY <1>2 DEF Queued
  <2>1. i # 1 /\ i - 1 \in 1 .. Len(events')
    BY <1>1
  <2>2. events'[i - 1] = events[i]
    BY <1>1, <2>1
  <2> QED
    BY <2>1, <2>2
(* A selection the event was about is up to date, or has more news coming. *)
<1>4. ASSUME NEW x \in Selections, x = e.field PROVE Queued(x)' \/ snap'[x] = Source(x)'
  <2> SUFFICES ASSUME ~Queued(x)' PROVE snap'[x] = obs[x]
    BY <1>2, <1>4, FieldFacts DEF Source
  <2>1. \A j \in 2 .. Len(events) : events[j].field # events[1].field
    <3> SUFFICES ASSUME NEW j \in 2 .. Len(events), events[j].field = events[1].field PROVE FALSE
      OBVIOUS
    <3>1. j - 1 \in 1 .. Len(events') /\ events'[j - 1] = events[j]
      BY <1>1
    <3> QED
      BY <3>1, <1>1, <1>4 DEF Queued
  <2>2. e.value = obs[x]
    BY <2>1, <1>1, <1>4 DEF Fresh, QueueIsFresh
  <2>3. Folded(e) = e.value
    BY <1>4, FieldFacts DEF Folded, Ignored
  <2> QED
    BY <1>2, <1>4, <2>2, <2>3, FieldFacts DEF TypeInv, TypeOK
<1>5. /\ {e.field} \in SUBSET Field
      /\ \A r \in Refresher :
           /\ refresh'[r].phase = refresh[r].phase
           /\ refresh'[r].gen = refresh[r].gen
  <2>1. {e.field} \in SUBSET Field
    BY <1>1 DEF EventRecord
  <2> QED
    BY <2>1, MaskEffect DEF PumpEvent
<1>6. generation' \in {generation, generation + 1}
  BY DEF PumpEvent, Commit
<1>7. QueueIsFresh'
  <2>1. ASSUME NEW i \in 1 .. Len(events'), events'[i].field \in Selections,
               \A j \in i + 1 .. Len(events') : events'[j].field # events'[i].field
        PROVE  events'[i].value = obs'[events'[i].field]
    <3>1. i + 1 \in 1 .. Len(events) /\ events'[i] = events[i + 1]
      BY <1>1
    <3>2. ASSUME NEW j \in i + 2 .. Len(events) PROVE events[j].field # events[i + 1].field
      <4>1. j - 1 \in i + 1 .. Len(events') /\ events'[j - 1] = events[j]
        BY <1>1
      <4> QED
        BY <4>1, <2>1, <3>1
    <3>3. events[i + 1].value = obs[events[i + 1].field]
      BY <2>1, <3>1, <3>2 DEF Fresh, QueueIsFresh
    <3> QED
      BY <3>1, <3>3, <1>2
  <2>2. \A r \in Refresher : refresh'[r].phase # "idle" => refresh'[r].gen <= generation'
    BY <1>5, <1>6, RefreshFacts DEF Fresh, QueueIsFresh
  <2> QED
    BY <2>1, <2>2, <1>2 DEF Fresh, QueueIsFresh
<1>11. ASSUME e.field \notin Lists, \A r \in Refresher, x \in Followed : Covers(r, x) => Covers(r, x)'
       PROVE  StaleIsOwed'
  <2> SUFFICES ASSUME NEW x \in Followed
               PROVE  snap'[x] = Source(x)' \/ Owed(x)' \/ x \in excused'
    BY DEF StaleIsOwed
  <2>1. CASE x = e.field
    <3>1. x \in Selections
      BY <2>1, <1>1, <1>11, FieldFacts DEF EventRecord
    <3> QED
      BY <3>1, <2>1, <1>4 DEF Owed
  <2>2. CASE x # e.field
    <3>1. snap'[x] = snap[x] /\ Source(x)' = Source(x) /\ excused' = excused /\ (nudge => nudge')
      BY <2>2, <1>2, FieldFacts DEF Source, TypeInv, TypeOK
    <3> QED
      BY <3>1, <2>2, <1>3, <1>11 DEF Fresh, StaleIsOwed, Owed
  <2> QED
    BY <2>1, <2>2
(* A counted event overtakes every refresh; one that changes nothing       *)
(* excuses its field.                                                      *)
<1>8. CASE Commit /\ UNCHANGED refresh /\ e.field \notin Lists
  <2>1. \A r \in Refresher : refresh[r].phase # "idle" => Superseded(r)'
    BY <1>8, CommitOvertakes
  <2>2. FenceHolds'
    BY <1>8, <2>1 DEF FenceHolds, InFlight
  <2>3. \A r \in Refresher, x \in Followed : Covers(r, x) => Covers(r, x)'
    BY <1>2, <1>8, <2>1 DEF Covers, InFlight
  <2> QED
    BY <2>2, <2>3, <1>7, <1>8, <1>11 DEF Fresh
<1>9. CASE e.field \in Lists
  <2>1. nudge' /\ Folded(e) = snap[e.field]
    BY <1>9, <1>2 DEF Folded, Ignored
  <2>2. UNCHANGED <<refresh, generation>>
    BY <1>9, <2>1 DEF PumpEvent
  <2>3. StaleIsOwed'
    BY <2>1 DEF StaleIsOwed, Owed
  <2>4. FenceHolds'
    <3> SUFFICES ASSUME NEW r \in Refresher, NEW x \in Followed, x \notin Lists,
                        InFlight(r)', x \notin refresh'[r].masked, ~Superseded(r)',
                        refresh'[r].got[x] \notin {NotRead, Source(x)'}
                 PROVE  Queued(x)'
      BY <2>1 DEF FenceHolds
    <3>1. Queued(x)
      BY <2>2, <1>2 DEF Fresh, FenceHolds, InFlight, Superseded, Source
    <3> QED
      BY <3>1, <1>3, <1>9
  <2> QED
    BY <1>7, <2>3, <2>4 DEF Fresh
<1>10. CASE UNCHANGED generation /\ Mask(Refresher, {e.field}) /\ e.field \notin Lists
  <2>1. \A x \in Followed \ {e.field} : Source(x)' = Source(x) /\ (Queued(x) => Queued(x)')
    BY <1>2, <1>3 DEF Source
  <2>2. FenceHolds'
    BY <1>2, <1>5, <1>10, <2>1, MaskFence
  <2>3. \A r \in Refresher, x \in Followed : Covers(r, x) => Covers(r, x)'
    BY <1>2, <1>5, <1>10, <2>1, MaskCovers
  <2> QED
    BY <2>2, <2>3, <1>7, <1>10, <1>11 DEF Fresh
<1> QED
  BY <1>8, <1>9, <1>10 DEF PumpEvent

LEMMA BeginFresh ==
  ASSUME TypeInv, Fresh, NEW r \in Refresher, Begin(r)
  PROVE  Fresh'
<1>1. /\ refresh'[r] = NothingRead("fetch", generation)
      /\ \A q \in Refresher : q # r => refresh'[q] = refresh[q]
      /\ UNCHANGED <<obs, config, merge, events, snap, generation, excused>>
      /\ refresh[r].phase = "idle"
  BY DEF Begin, sources, TypeInv, TypeOK
<1>2. /\ refresh'[r].phase = "fetch" /\ refresh'[r].gen = generation
      /\ \A x \in Field : refresh'[r].got[x] = NotRead
  BY <1>1 DEF NothingRead
<1>3. \A x \in Followed : Covers(r, x)'
  BY <1>2, FieldFacts DEF Covers, InFlight
<1>4. QueueIsFresh'
  BY <1>1, <1>2, RefreshFacts DEF Fresh, QueueIsFresh
<1>5. StaleIsOwed'
  BY <1>3 DEF StaleIsOwed, Owed
<1>6. FenceHolds'
  <2> SUFFICES ASSUME NEW q \in Refresher, NEW x \in Followed,
                      InFlight(q)', x \notin refresh'[q].masked, ~Superseded(q)',
                      refresh'[q].got[x] \notin {NotRead, Source(x)'}
               PROVE  \/ Queued(x)'
                      \/ x \in Lists /\ (nudge' \/ (q = "connect" /\ Covers("worker", x)'))
    BY DEF FenceHolds
  <2>1. q # r
    BY <1>2, FieldFacts
  <2>2. \/ Queued(x)
        \/ x \in Lists /\ (nudge \/ (q = "connect" /\ Covers("worker", x)))
    BY <2>1, <1>1 DEF Fresh, FenceHolds, InFlight, Superseded, Source
  <2>3. Queued(x) => Queued(x)'
    BY <1>1 DEF Queued
  <2>4. CASE r = "worker"
    BY <2>1, <2>2, <2>3, <2>4, <1>3
  <2>5. CASE r = "connect"
    BY <2>1, <2>2, <2>3, <2>5 DEF Begin
  <2> QED
    BY <2>4, <2>5
<1> QED
  BY <1>4, <1>5, <1>6 DEF Fresh

(* Reading one more request, or going without it, leaves every field that  *)
(* was covered covered.                                                    *)
LEMMA AdvanceFresh ==
  ASSUME TypeInv, Fresh, NEW r \in Refresher, refresh[r].phase = "fetch",
         NEW got, NEW masked \in SUBSET Field, Advance(r, got, masked),
         UNCHANGED <<obs, config, merge, events, snap, generation, nudge, tries, excused>>,
         refresh[r].masked \subseteq masked,
         \A x \in Followed : x \in masked \/ got[x] \in {refresh[r].got[x], Source(x)}
  PROVE  Fresh'
<1>1. /\ refresh'[r].phase \in {"fetch", "publish"}
      /\ refresh'[r].gen = refresh[r].gen
      /\ refresh'[r].got = got
      /\ refresh'[r].masked = masked
      /\ \A q \in Refresher : q # r => refresh'[q] = refresh[q]
  BY DEF Advance, TypeInv, TypeOK
<1>2. QueueIsFresh'
  BY <1>1 DEF Fresh, QueueIsFresh
<1>3. \A x \in Followed : (Source(x)' = Source(x)) /\ (Queued(x) => Queued(x)')
  BY DEF Source, Queued
<1>4. \A q \in Refresher, x \in Followed : Covers(q, x) => Covers(q, x)'
  <2> SUFFICES ASSUME NEW q \in Refresher, NEW x \in Followed, Covers(q, x) PROVE Covers(q, x)'
    OBVIOUS
  <2>1. CASE q # r
    BY <2>1, <1>1, <1>3 DEF Covers, InFlight, Superseded
  <2>2. CASE q = r
    BY <2>2, <1>1, <1>3 DEF Covers, InFlight, Superseded
  <2> QED
    BY <2>1, <2>2
<1>5. StaleIsOwed'
  BY <1>3, <1>4 DEF Fresh, StaleIsOwed, Owed
<1>6. FenceHolds'
  <2> SUFFICES ASSUME NEW q \in Refresher, NEW x \in Followed,
                      InFlight(q)', x \notin refresh'[q].masked, ~Superseded(q)',
                      refresh'[q].got[x] \notin {NotRead, Source(x)'}
               PROVE  \/ Queued(x)'
                      \/ x \in Lists /\ (nudge' \/ (q = "connect" /\ Covers("worker", x)'))
    BY DEF FenceHolds
  <2>1. /\ InFlight(q) /\ x \notin refresh[q].masked /\ ~Superseded(q)
        /\ refresh[q].got[x] \notin {NotRead, Source(x)}
    BY <1>1, <1>3 DEF InFlight, Superseded
  <2> QED
    BY <2>1, <1>3, <1>4 DEF Fresh, FenceHolds
<1> QED
  BY <1>2, <1>5, <1>6 DEF Fresh

LEMMA FetchFresh ==
  ASSUME TypeInv, Fresh, NEW r \in Refresher, Fetch(r)
  PROVE  Fresh'
<1> DEFINE got == [x \in Field |-> IF x \in Plan[refresh[r].at]
                                   THEN Reading(x, refresh[r].got[x]) ELSE refresh[r].got[x]]
<1>1. \A x \in Followed : got[x] \in {refresh[r].got[x], Source(x)}
  BY FieldFacts DEF Reading
<1>2. Advance(r, got, refresh[r].masked) /\ refresh[r].phase = "fetch"
      /\ UNCHANGED <<obs, config, merge, events, snap, generation, nudge, tries, excused>>
  BY DEF Fetch, sources
<1> QED
  BY <1>1, <1>2, RefreshFacts, AdvanceFresh

LEMMA FetchDegradesFresh ==
  ASSUME TypeInv, Fresh, NEW r \in Refresher, FetchDegrades(r)
  PROVE  Fresh'
<1> DEFINE now == Plan[refresh[r].at]
           got == [x \in Field |-> IF x \in now \ Inputs THEN Blank ELSE refresh[r].got[x]]
           masked == refresh[r].masked \union (now \ Inputs)
<1>1. masked \in SUBSET Field /\ refresh[r].masked \subseteq masked
  <2>1. now \subseteq Field
    BY PlanLength, RefreshFacts DEF FetchDegrades, TypeInv, ReadSoFar, RefreshRecord
  <2> QED
    BY <2>1, RefreshFacts
<1>2. \A x \in Followed : x \in masked \/ got[x] \in {refresh[r].got[x], Source(x)}
  BY FieldFacts
<1>3. Advance(r, got, masked) /\ refresh[r].phase = "fetch"
      /\ UNCHANGED <<obs, config, merge, events, snap, generation, nudge, tries, excused>>
  BY DEF FetchDegrades
<1> QED
  BY <1>1, <1>2, <1>3, AdvanceFresh

(* A refresh that is followed by others leaves what they have read and     *)
(* what they cover, but for lists the worker was to read.                  *)
LEMMA OthersKept ==
  ASSUME TypeInv, NEW r \in Refresher, FetchFails(r) \/ Publish(r)
  PROVE  /\ refresh'[r].phase \in {"idle", "check"}
         /\ \A q \in Refresher : q # r =>
              /\ refresh'[q].phase = refresh[q].phase /\ refresh'[q].gen = refresh[q].gen
              /\ refresh'[q].got = refresh[q].got
              /\ InFlight(q)' <=> InFlight(q)
              /\ InFlight(q) => refresh'[q].masked = refresh[q].masked \union LeftTo(r)
<1>1. refresh'[r].phase \in {"idle", "check"}
  BY NoRefreshType, RefreshFacts DEF FetchFails, Publish, RefreshRecord
<1>2. ASSUME NEW q \in Refresher, q # r
      PROVE  /\ refresh'[q].phase = refresh[q].phase /\ refresh'[q].gen = refresh[q].gen
             /\ refresh'[q].got = refresh[q].got
             /\ InFlight(q) => refresh'[q].masked = refresh[q].masked \union LeftTo(r)
  <2>1. refresh'[q] = IF InFlight(q) THEN [refresh[q] EXCEPT !.masked = @ \union LeftTo(r)] ELSE refresh[q]
    BY <1>2 DEF FetchFails, Publish
  <2>2. refresh[q] \in RefreshRecord
    BY RefreshFacts
  <2> QED
    BY <2>1, <2>2 DEF RefreshRecord
<1> QED
  BY <1>1, <1>2 DEF InFlight

(* If the generation stays, the fence holds for those others.              *)
LEMMA OthersFenced ==
  ASSUME TypeInv, Fresh, NEW r \in Refresher, FetchFails(r) \/ Publish(r),
         UNCHANGED <<obs, config, merge, events, generation, nudge>>
  PROVE  FenceHolds'
<1> SUFFICES ASSUME NEW q \in Refresher, NEW x \in Followed,
                    InFlight(q)', x \notin refresh'[q].masked, ~Superseded(q)',
                    refresh'[q].got[x] \notin {NotRead, Source(x)'}
             PROVE  \/ Queued(x)'
                    \/ x \in Lists /\ (nudge' \/ (q = "connect" /\ Covers("worker", x)'))
  BY DEF FenceHolds
<1>1. q # r /\ InFlight(q)
  BY OthersKept DEF InFlight
<1>2. x \notin refresh[q].masked /\ x \notin LeftTo(r) /\ ~Superseded(q)
      /\ refresh[q].got[x] \notin {NotRead, Source(x)}
  BY <1>1, OthersKept DEF Superseded, Source
<1>3. \/ Queued(x)
      \/ x \in Lists /\ (nudge \/ (q = "connect" /\ Covers("worker", x)))
  BY <1>1, <1>2 DEF Fresh, FenceHolds
<1>4. Queued(x) => Queued(x)'
  BY DEF Queued
<1>5. CASE r = "worker"
  BY <1>2, <1>3, <1>4, <1>5, LeftToFields
<1>6. CASE r = "connect"
  BY <1>1, <1>3, <1>4, <1>6
<1> QED
  BY <1>5, <1>6

LEMMA FetchFailsFresh ==
  ASSUME TypeInv, Fresh, NEW r \in Refresher, FetchFails(r)
  PROVE  Fresh'
<1>1. generation' \in {generation, generation + 1}
  BY DEF FetchFails, Commit
<1>2. \A q \in Refresher :
        refresh'[q].phase # "idle" => q # r /\ refresh'[q].phase = refresh[q].phase
                                      /\ refresh'[q].gen = refresh[q].gen
  BY NoRefreshType, OthersKept DEF FetchFails
<1>3. QueueIsFresh'
  BY <1>1, <1>2, RefreshFacts DEF FetchFails, Fresh, QueueIsFresh
<1>4. FenceHolds'
  <2>1. CASE r = "worker"
    BY <2>1, OthersFenced DEF FetchFails
  <2>2. CASE r = "connect"
    <3>1. \A q \in Refresher : refresh'[q].phase # "idle" => Superseded(q)'
      BY <2>2, <1>2, RefreshFacts DEF FetchFails, Commit, Fresh, QueueIsFresh, Superseded
    <3> QED
      BY <3>1 DEF FenceHolds, InFlight
  <2> QED
    BY <2>1, <2>2
<1>5. StaleIsOwed'
  BY FieldFacts DEF FetchFails, StaleIsOwed
<1> QED
  BY <1>3, <1>4, <1>5 DEF Fresh

LEMMA PublishFresh ==
  ASSUME TypeInv, Fresh, NEW r \in Refresher, Publish(r)
  PROVE  Fresh'
<1>1. /\ refresh[r].phase = "publish"
      /\ snap' = refresh[r].got
      /\ excused' = IF generation # refresh[r].gen THEN {} ELSE refresh[r].masked
      /\ UNCHANGED <<obs, config, merge, env, events, generation, nudge, tries>>
  BY DEF Publish, sources
<1>2. refresh'[r].phase = "check" /\ refresh'[r].gen = refresh[r].gen
  BY RefreshFacts DEF Publish, RefreshRecord
<1>3. QueueIsFresh'
  BY <1>1, <1>2, OthersKept DEF Fresh, QueueIsFresh
<1>4. FenceHolds'
  BY <1>1, OthersFenced
<1>5. \A x \in Followed : Source(x)' = Source(x) /\ (Queued(x) => Queued(x)')
  BY <1>1 DEF Source, Queued
<1>6. \A x \in Followed : r # "worker" /\ Covers("worker", x) => Covers("worker", x)'
  BY <1>1, <1>5, OthersKept DEF Covers, Superseded
<1>7. StaleIsOwed'
  <2> SUFFICES ASSUME NEW x \in Followed
               PROVE  snap'[x] = Source(x)' \/ Owed(x)' \/ x \in excused'
    BY DEF StaleIsOwed
  <2>1. CASE Superseded(r)
    <3>1. Covers(r, x)'
      BY <2>1, <1>1, <1>2 DEF Covers, Superseded
    <3> QED
      BY <3>1 DEF Owed
  <2>2. CASE ~Superseded(r) /\ x \in refresh[r].masked
    BY <2>2, <1>1 DEF Superseded
  <2>3. CASE ~Superseded(r) /\ x \notin refresh[r].masked
    <3>1. refresh[r].got[x] # NotRead
      BY <1>1, AllRead, ValueAssumption, FieldFacts DEF ValueAssumption
    <3>2. CASE refresh[r].got[x] = Source(x)
      BY <3>2, <1>1, <1>5
    <3>3. CASE refresh[r].got[x] # Source(x)
      <4>1. \/ Queued(x)
            \/ x \in Lists /\ (nudge \/ (r = "connect" /\ Covers("worker", x)))
        BY <2>3, <3>1, <3>3, <1>1 DEF Fresh, FenceHolds, InFlight
      <4> QED
        BY <4>1, <1>1, <1>5, <1>6 DEF Owed
    <3> QED
      BY <3>2, <3>3
  <2> QED
    BY <2>1, <2>2, <2>3
<1> QED
  BY <1>3, <1>4, <1>7 DEF Fresh

LEMMA CheckFresh ==
  ASSUME TypeInv, Fresh, NEW r \in Refresher, Check(r)
  PROVE  Fresh'
<1>1. /\ refresh[r].phase = "check" /\ refresh'[r].phase = "idle"
      /\ \A q \in Refresher : q # r => refresh'[q] = refresh[q]
      /\ UNCHANGED <<obs, config, merge, env, events, snap, generation>>
  BY NoRefreshType DEF Check, sources, TypeInv, TypeOK
<1>2. /\ nudge => nudge'
      /\ r = "worker" /\ Superseded(r) => nudge'
      /\ r = "worker" => UNCHANGED <<tries, excused>>
      /\ excused \subseteq excused'
      /\ r = "connect" /\ Superseded(r) => tries' = tries /\ (tries > 0 \/ excused' = Field)
  <2>1. CASE r = "worker"
    BY <2>1 DEF Check
  <2>2. CASE r = "connect"
    <3>1. tries \in Nat
      BY BoundAssumption DEF TypeInv, TypeOK, BoundAssumption
    <3>2. excused \subseteq Field
      BY DEF TypeInv, TypeOK
    <3>3. nudge' = nudge
      BY <2>2 DEF Check
    <3>4. /\ excused \subseteq excused'
          /\ Superseded(r) => tries' = tries /\ (tries > 0 \/ excused' = Field)
      BY <2>2, <3>1, <3>2 DEF Check
    <3> QED
      BY <2>2, <3>3, <3>4
  <2> QED
    BY <2>1, <2>2
<1>3. QueueIsFresh'
  BY <1>1 DEF Fresh, QueueIsFresh
<1>4. \A x \in Followed : Source(x)' = Source(x) /\ (Queued(x) => Queued(x)')
  BY <1>1 DEF Source, Queued
<1>5. \A q \in Refresher, x \in Followed : q # r /\ Covers(q, x) => Covers(q, x)'
  BY <1>1, <1>2, <1>4 DEF Covers, InFlight, Superseded
(* The refresh that ends hands over what it covered.                       *)
<1>6. \A x \in Followed : Covers(r, x) => Covers(r, x)' \/ nudge' \/ x \in excused'
  BY <1>1, <1>2, FieldFacts DEF Covers, InFlight
<1>7. FenceHolds'
  <2> SUFFICES ASSUME NEW q \in Refresher, NEW x \in Followed,
                      InFlight(q)', x \notin refresh'[q].masked, ~Superseded(q)',
                      refresh'[q].got[x] \notin {NotRead, Source(x)'}
               PROVE  \/ Queued(x)'
                      \/ x \in Lists /\ (nudge' \/ (q = "connect" /\ Covers("worker", x)'))
    BY DEF FenceHolds
  <2>1. q # r
    BY <1>1 DEF InFlight
  <2>2. \/ Queued(x)
        \/ x \in Lists /\ (nudge \/ (q = "connect" /\ Covers("worker", x)))
    BY <2>1, <1>1, <1>4 DEF Fresh, FenceHolds, InFlight, Superseded
  <2>3. CASE q = "connect" /\ Covers("worker", x)
    <3>1. r = "worker" /\ Superseded(r)
      BY <2>1, <2>3, <1>1 DEF Covers, InFlight
    <3> QED
      BY <3>1, <2>2, <1>2, <1>4
  <2> QED
    BY <2>2, <2>3, <1>2, <1>4
<1>8. StaleIsOwed'
  BY <1>1, <1>2, <1>4, <1>5, <1>6 DEF Fresh, StaleIsOwed, Owed
<1> QED
  BY <1>3, <1>7, <1>8 DEF Fresh

LEMMA NextFresh == TypeInv /\ Fresh /\ [Next]_vars => Fresh'
<1> SUFFICES ASSUME TypeInv, Fresh, [Next]_vars PROVE Fresh'
  OBVIOUS
<1>1. CASE UNCHANGED vars
  BY <1>1 DEF vars, Fresh, QueueIsFresh, FenceHolds, StaleIsOwed, Owed, Covers, Queued, InFlight,
              Superseded, Source
<1>2. CASE Environment
  BY <1>2, ObsChangesFresh, SetConfigFresh, DumpReloadFresh DEF Environment
<1>3. CASE \E r \in Refresher : RefreshStep(r)
  BY <1>3, BeginFresh, FetchFresh, FetchDegradesFresh, FetchFailsFresh, PublishFresh, CheckFresh
     DEF RefreshStep
<1> QED
  BY <1>1, <1>2, <1>3, MergeConfigFresh, PumpEventFresh DEF Next

(* Staleness is never forgotten: at every moment a followed field that     *)
(* differs from OBS or from the config has an event queued, a refresh owed *)
(* or an excuse of its own.                                                *)
THEOREM StalenessIsOwed == Spec => []StaleInv
<1>1. TypeInv /\ Fresh => StaleInv
  BY DEF TypeInv, Fresh, StaleInv
<1> QED
  BY <1>1, InitTypeInv, InitFresh, NextTypeInv, NextFresh, PTL DEF Spec

(* Once the daemon has caught up, a followed field that has no excuse of   *)
(* its own equals its source.                                              *)
THEOREM CaughtUpFollowed ==
  Spec => [](Quiescent => \A x \in Followed \ excused : Agrees(x))
<1>1. StaleInv => (Quiescent => \A x \in Followed \ excused : Agrees(x))
  <2> SUFFICES ASSUME StaleInv, Quiescent, NEW x \in Followed \ excused PROVE Agrees(x)
    OBVIOUS
  <2>1. ~Queued(x) /\ ~nudge
    BY DEF Quiescent, Queued
  <2>2. \A r \in Refresher : ~Covers(r, x)
    BY DEF Quiescent, Covers, InFlight
  <2> QED
    BY <2>1, <2>2 DEF StaleInv, StaleIsOwed, Owed, Agrees
<1> QED
  BY <1>1, StalenessIsOwed, PTL
=============================================================================
