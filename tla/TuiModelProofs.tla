--------------------------- MODULE TuiModelProofs ---------------------------
(***************************************************************************)
(* TLAPS proofs about TuiModel: what is on the screen is what the keys act *)
(* on, and what the editor of scene profiles sends to the daemon, for any  *)
(* texts, daemons, lines, themes, tours and bounds.                        *)
(***************************************************************************)
EXTENDS TuiModel, FiniteSetTheorems, SequenceTheorems, WellFoundedInduction, TLAPS

-----------------------------------------------------------------------------
(* Numbers and sequences.                                                  *)

LEMMA LeastOf ==
  ASSUME NEW S \in SUBSET Nat, S # {}
  PROVE  \E n \in S : \A k \in S : n <= k
<1>1. PICK n \in S : \A k \in S : ~(<<k, n>> \in OpToRel(<, Nat))
  BY WFMin, NatLessThanWellFounded
<1>2. n \in Nat /\ \A k \in S : k \in Nat /\ ~(k < n)
  BY <1>1 DEF OpToRel
<1> QED BY <1>2

LEMMA GreatestOf ==
  ASSUME NEW n \in Nat, NEW S \in SUBSET (1 .. n), S # {}
  PROVE  Max(S) \in S
<1> DEFINE T == {n - k : k \in S}
<1>1. T \in SUBSET Nat /\ T # {}
  <2>1. \A k \in S : n - k \in Nat
    OBVIOUS
  <2>2. \E k \in S : n - k \in T
    OBVIOUS
  <2> QED BY <2>1, <2>2
<1>2. PICK t \in T : \A u \in T : t <= u
  BY <1>1, LeastOf
<1>3. PICK k \in S : t = n - k
  BY <1>2
<1>4. \A i \in S : n - i \in T
  OBVIOUS
<1>5. \A i \in S : k >= i
  <2> TAKE i \in S
  <2>1. n - k <= n - i
    BY <1>2, <1>3, <1>4
  <2> QED BY <2>1
<1> QED BY <1>5 DEF Max

LEMMA Bounds ==
  /\ \A a, b \in Nat : Least(a, b) \in Nat /\ Least(a, b) <= b /\ Least(a, b) <= a
  /\ \A a \in Int : AtLeast0(a) \in Nat /\ (a >= 0 => AtLeast0(a) = a) /\ (a < 0 => AtLeast0(a) = 0)
  BY DEF Least, AtLeast0

LEMMA Elements ==
  ASSUME NEW S, NEW s \in Seq(S)
  PROVE  /\ \A k \in DOMAIN s : s[k] \in S
         /\ DOMAIN s = 1 .. Len(s) /\ Len(s) \in Nat
  OBVIOUS

(* Each element of a finite set of numbers has its own place in it.        *)
LEMMA Ranked ==
  ASSUME NEW S \in SUBSET Nat, IsFiniteSet(S)
  PROVE  /\ Cardinality(S) \in Nat
         /\ \A i \in 1 .. Cardinality(S) : \E t \in S : Cardinality(Below(S, t)) = i - 1
<1> DEFINE n == Cardinality(S)
           r == [t \in S |-> Cardinality(Below(S, t)) + 1]
<1>1. n \in Nat
  BY FS_CardinalityType
<1>2. ASSUME NEW t \in S
      PROVE  /\ IsFiniteSet(Below(S, t)) /\ Cardinality(Below(S, t)) \in Nat
             /\ Cardinality(Below(S, t) \cup {t}) = Cardinality(Below(S, t)) + 1
             /\ IsFiniteSet(Below(S, t) \cup {t})
  <2>1. Below(S, t) \in SUBSET S /\ t \notin Below(S, t)
    BY DEF Below
  <2> QED BY <2>1, FS_Subset, FS_CardinalityType, FS_AddElement
<1>3. \A t \in S : r[t] \in 1 .. n
  <2> TAKE t \in S
  <2>1. Below(S, t) \cup {t} \in SUBSET S
    BY DEF Below
  <2>2. Cardinality(Below(S, t) \cup {t}) <= n
    BY <2>1, FS_Subset
  <2> QED BY <1>1, <1>2, <2>2
<1>4. \A t, u \in S : t < u => Cardinality(Below(S, t)) + 1 <= Cardinality(Below(S, u))
  <2> SUFFICES ASSUME NEW t \in S, NEW u \in S, t < u
               PROVE  Cardinality(Below(S, t)) + 1 <= Cardinality(Below(S, u))
    OBVIOUS
  <2>1. \A v \in S : v < t => v < u
    OBVIOUS
  <2>2. Below(S, t) \cup {t} \in SUBSET Below(S, u)
    BY <2>1 DEF Below
  <2>3. Cardinality(Below(S, t) \cup {t}) <= Cardinality(Below(S, u))
    BY <1>2, <2>2, FS_Subset
  <2> QED BY <1>2, <2>3
<1>5. \A t, u \in S : r[t] = r[u] => t = u
  <2> SUFFICES ASSUME NEW t \in S, NEW u \in S, r[t] = r[u], t # u PROVE FALSE
    OBVIOUS
  <2>1. r[t] = Cardinality(Below(S, t)) + 1 /\ r[u] = Cardinality(Below(S, u)) + 1
    OBVIOUS
  <2>2. Cardinality(Below(S, t)) \in Nat /\ Cardinality(Below(S, u)) \in Nat
    BY <1>2
  <2>3. t < u \/ u < t
    OBVIOUS
  <2> QED BY <1>4, <2>1, <2>2, <2>3
<1>6. r \in [S -> 1 .. n] /\ DOMAIN r = S
  BY <1>3
<1>7. r \in Injection(S, 1 .. n)
  BY <1>5, <1>6 DEF Injection, IsInjective
<1>8. IsFiniteSet(1 .. n) /\ Cardinality(1 .. n) = n
  BY <1>1, FS_Interval
<1>9. r \in Surjection(S, 1 .. n)
  BY <1>7, <1>8, FS_Injection
<1>10. \A i \in 1 .. n : \E t \in S : r[t] = i
  BY <1>9 DEF Surjection
<1>11. ASSUME NEW i \in 1 .. n PROVE \E t \in S : Cardinality(Below(S, t)) = i - 1
  <2>1. PICK t \in S : r[t] = i
    BY <1>10
  <2>2. Cardinality(Below(S, t)) + 1 = i /\ Cardinality(Below(S, t)) \in Nat
    BY <2>1, <1>2
  <2> QED BY <2>2
<1> QED BY <1>1, <1>11

LEMMA InOrderType ==
  ASSUME NEW S \in SUBSET Nat, IsFiniteSet(S)
  PROVE  InOrder(S) \in Seq(S)
<1> DEFINE n == Cardinality(S)
<1>1. \A i \in 1 .. n : (CHOOSE t \in S : Cardinality(Below(S, t)) = i - 1) \in S
  BY Ranked
<1>2. n \in Nat
  BY Ranked
<1>3. InOrder(S) = [i \in 1 .. n |-> CHOOSE t \in S : Cardinality(Below(S, t)) = i - 1]
  BY DEF InOrder
<1> HIDE DEF n
<1>4. InOrder(S) \in [1 .. n -> S]
  BY <1>1, <1>3
<1> QED BY <1>2, <1>4

-----------------------------------------------------------------------------
(* Texts, profiles and what a snapshot holds.                              *)

SceneEntry == [name : Name, hidden : BOOLEAN]
Snapshots == [scenes : Seq(SceneEntry), profiles : Seq(Profile), active : Text]

LEMMA Texts ==
  /\ Blank \in Text /\ Blank \notin Name /\ Name \subseteq Text
  /\ Text \subseteq Nat /\ IsFiniteSet(Text)
  /\ \A t \in Text : /\ Trimmed[t] \in Text /\ Normal[Trimmed[t]] = Normal[t]
                     /\ t \in Name <=> Normal[t] # Blank
                     /\ t \in Name <=> Trimmed[t] # Blank
                     /\ t \in Name => Trimmed[t] \in Name
  BY TextAssumption DEF TextAssumption, Name

LEMMA Sames ==
  /\ \A s, t : Same(s, t) => Same(t, s)
  /\ \A s, t, u : Same(s, t) /\ Same(t, u) => Same(s, u)
  /\ \A t \in Name : Same(t, t)
  /\ \A s, t \in Text : Same(s, Trimmed[t]) => Same(s, t)
  BY Texts DEF Same

LEMMA PositionIs ==
  ASSUME NEW profiles \in Seq(Profile), NEW name
  PROVE  /\ Position(profiles, name) \in 0 .. Len(profiles)
         /\ Position(profiles, name) # 0 =>
              /\ Position(profiles, name) \in DOMAIN profiles
              /\ Same(profiles[Position(profiles, name)].name, name)
         /\ Position(profiles, name) = 0 => \A i \in DOMAIN profiles : ~Same(profiles[i].name, name)
<1> DEFINE I == {i \in 1 .. Len(profiles) : Same(profiles[i].name, name)}
<1>1. Len(profiles) \in Nat /\ DOMAIN profiles = 1 .. Len(profiles)
  OBVIOUS
<1>2. Position(profiles, name) = IF I # {} THEN Min(I) ELSE 0
  BY DEF Position, SelectInSeq
<1>3. I # {} => Min(I) \in I
  <2>1. I \in SUBSET Nat
    BY <1>1
  <2>2. I # {} => \E n \in I : \A k \in I : n <= k
    BY <2>1, LeastOf
  <2> QED BY <2>2 DEF Min
<1> QED BY <1>1, <1>2, <1>3

LEMMA ProfilesAre ==
  ASSUME NEW profiles \in Seq(Profile)
  PROVE  \A i \in DOMAIN profiles :
           profiles[i] \in Profile /\ profiles[i].name \in Text /\ profiles[i].hidden \in SUBSET Name
<1>1. \A p \in Profile : p.name \in Text /\ p.hidden \in SUBSET Name
  BY DEF Profile
<1>2. \A i \in DOMAIN profiles : profiles[i] \in Profile
  BY Elements
<1> QED BY <1>1, <1>2

LEMMA ProjectedType ==
  ASSUME NEW d \in Daemon
  PROVE  Projected(d) \in Snapshots /\ Projected(d).profiles = d.profiles
<1>1. d.scenes \in Seq(Name) /\ d.profiles \in Seq(Profile)
  BY DEF Daemon
<1> DEFINE scenes == [i \in DOMAIN d.scenes |-> [name |-> d.scenes[i], hidden |-> Normal[d.scenes[i]] \in HiddenNames(d)]]
           active == IF Visible(d) = 0 THEN Blank ELSE d.profiles[Visible(d)].name
<1>2. scenes \in Seq(SceneEntry)
  <2>1. DOMAIN d.scenes = 1 .. Len(d.scenes) /\ Len(d.scenes) \in Nat
    BY <1>1
  <2>2. \A i \in DOMAIN d.scenes : scenes[i] \in SceneEntry
    BY <1>1 DEF SceneEntry
  <2>3. scenes \in [1 .. Len(d.scenes) -> SceneEntry]
    BY <2>1, <2>2
  <2> HIDE DEF scenes
  <2> QED BY <2>1, <2>3
<1>3. active \in Text
  BY <1>1, PositionIs, ProfilesAre, Texts DEF Visible
<1> HIDE DEF scenes, active
<1>4. Projected(d) = [scenes |-> scenes, profiles |-> d.profiles, active |-> active]
  BY DEF Projected, scenes, active
<1> QED BY <1>1, <1>2, <1>3, <1>4 DEF Snapshots

LEMMA NoSnapshotType == NoSnapshot \in Snapshots
  BY Texts DEF NoSnapshot, Snapshots

-----------------------------------------------------------------------------
(* What the commands of the editor make of the daemon.                     *)

LEMMA DaemonParts ==
  ASSUME NEW d \in Daemon
  PROVE  /\ d.scenes \in Seq(Name) /\ d.flagged \in SUBSET Text /\ d.profiles \in Seq(Profile) /\ d.active \in Text
         /\ d = [scenes |-> d.scenes, flagged |-> d.flagged, profiles |-> d.profiles, active |-> d.active]
  BY DEF Daemon

LEMMA DaemonWith ==
  ASSUME NEW d \in Daemon, NEW profiles \in Seq(Profile), NEW t \in Text
  PROVE  /\ [d EXCEPT !.profiles = profiles] \in Daemon
         /\ [d EXCEPT !.active = t] \in Daemon
         /\ [d EXCEPT !.profiles = profiles, !.active = t] \in Daemon
         /\ [d EXCEPT !.profiles = profiles].profiles = profiles
         /\ [d EXCEPT !.active = t].profiles = d.profiles
         /\ [d EXCEPT !.profiles = profiles, !.active = t].profiles = profiles
  BY DEF Daemon

LEMMA ClearKeeps ==
  ASSUME NEW d \in Daemon
  PROVE  ClearProfile(d) \in Daemon /\ ClearProfile(d).profiles = d.profiles
  BY Texts DEF ClearProfile, Daemon

LEMMA SetKeeps ==
  ASSUME NEW d \in Daemon, NEW name
  PROVE  SetProfile(d, name) \in Daemon /\ SetProfile(d, name).profiles = d.profiles
<1>1. d.profiles \in Seq(Profile)
  BY DaemonParts
<1>2. Position(d.profiles, name) # 0 => d.profiles[Position(d.profiles, name)].name \in Text
  BY <1>1, PositionIs, ProfilesAre
<1>3. CASE Position(d.profiles, name) = 0
  BY <1>3 DEF SetProfile
<1>4. CASE Position(d.profiles, name) # 0
  <2> DEFINE t == d.profiles[Position(d.profiles, name)].name
  <2>1. t \in Text /\ SetProfile(d, name) = [d EXCEPT !.active = t]
    BY <1>2, <1>4 DEF SetProfile
  <2> HIDE DEF t
  <2> QED BY <2>1 DEF Daemon
<1> QED BY <1>3, <1>4

(* A list of which one element is left out, and one of which one is        *)
(* replaced.                                                               *)
LEMMA RemovedIs ==
  ASSUME NEW S, NEW s \in Seq(S), NEW k \in DOMAIN s
  PROVE  /\ RemoveAt(s, k) \in Seq(S)
         /\ \A i \in DOMAIN RemoveAt(s, k) : \E j \in DOMAIN s : RemoveAt(s, k)[i] = s[j]
         /\ \A j \in DOMAIN s : j # k => \E i \in DOMAIN RemoveAt(s, k) : RemoveAt(s, k)[i] = s[j]
<1> DEFINE n == Len(s)
           before == SubSeq(s, 1, k - 1)
           after == SubSeq(s, k + 1, n)
           r == RemoveAt(s, k)
<1>1. n \in Nat /\ DOMAIN s = 1 .. n /\ k \in 1 .. n
  OBVIOUS
<1>2. before \in Seq(S) /\ Len(before) = k - 1 /\ \A i \in 1 .. k - 1 : before[i] = s[i]
  BY <1>1
<1>3. after \in Seq(S) /\ Len(after) = n - k /\ \A i \in 1 .. n - k : after[i] = s[k + i]
  BY <1>1
<1>4. r = before \o after
  BY DEF RemoveAt
<1> HIDE DEF n, before, after, r
<1>5. /\ r \in Seq(S) /\ Len(r) = (k - 1) + (n - k)
      /\ \A i \in 1 .. (k - 1) + (n - k) : r[i] = IF i <= k - 1 THEN before[i] ELSE after[i - (k - 1)]
  <2>1. before \in Seq(S) /\ after \in Seq(S)
    BY <1>2, <1>3
  <2>2. /\ before \o after \in Seq(S) /\ Len(before \o after) = Len(before) + Len(after)
        /\ \A i \in 1 .. Len(before) + Len(after) :
             (before \o after)[i] = IF i <= Len(before) THEN before[i] ELSE after[i - Len(before)]
    BY <2>1, ConcatProperties
  <2>3. Len(before) = k - 1 /\ Len(after) = n - k
    BY <1>2, <1>3
  <2> QED BY <1>4, <2>2, <2>3
<1>6. (k - 1) + (n - k) = n - 1
  BY <1>1
<1>7. \A i \in 1 .. n - 1 : r[i] = IF i < k THEN s[i] ELSE s[i + 1]
  <2> TAKE i \in 1 .. n - 1
  <2>1. CASE i < k
    BY <1>1, <1>2, <1>5, <1>6, <2>1
  <2>2. CASE i >= k
    <3>1. i - (k - 1) \in 1 .. n - k /\ k + (i - (k - 1)) = i + 1 /\ ~(i <= k - 1) /\ ~(i < k)
      BY <1>1, <2>2
    <3>2. r[i] = after[i - (k - 1)]
      BY <1>5, <1>6, <3>1
    <3> QED BY <3>1, <3>2, <1>3
  <2> QED BY <1>1, <2>1, <2>2
<1>8. DOMAIN r = 1 .. n - 1
  BY <1>5, <1>6
<1>9. ASSUME NEW i \in DOMAIN r PROVE \E j \in DOMAIN s : r[i] = s[j]
  BY <1>1, <1>7, <1>8
<1>10. ASSUME NEW j \in DOMAIN s, j # k PROVE \E i \in DOMAIN r : r[i] = s[j]
  <2>1. CASE j < k
    <3>1. j \in 1 .. n - 1 /\ r[j] = s[j]
      BY <2>1, <1>1, <1>7
    <3> QED BY <3>1, <1>8
  <2>2. CASE j > k
    <3>1. j - 1 \in 1 .. n - 1 /\ ~(j - 1 < k) /\ (j - 1) + 1 = j
      BY <2>2, <1>1
    <3>2. r[j - 1] = s[j]
      BY <3>1, <1>7
    <3> QED BY <3>1, <3>2, <1>8
  <2> QED BY <2>1, <2>2, <1>1, <1>10
<1> QED BY <1>5, <1>9, <1>10 DEF r

LEMMA ReplacedIs ==
  ASSUME NEW S, NEW s \in Seq(S), NEW k \in DOMAIN s, NEW e \in S
  PROVE  /\ [s EXCEPT ![k] = e] \in Seq(S)
         /\ DOMAIN [s EXCEPT ![k] = e] = DOMAIN s
         /\ \A j \in DOMAIN s : [s EXCEPT ![k] = e][j] = IF j = k THEN e ELSE s[j]
  OBVIOUS

LEMMA AppendedIs ==
  ASSUME NEW S, NEW s \in Seq(S), NEW e \in S
  PROVE  /\ Append(s, e) \in Seq(S)
         /\ \A j \in DOMAIN s : j \in DOMAIN Append(s, e) /\ Append(s, e)[j] = s[j]
         /\ \A i \in DOMAIN Append(s, e) : Append(s, e)[i] = e \/ \E j \in DOMAIN s : Append(s, e)[i] = s[j]
  OBVIOUS

(* What is left of a list of profiles, and what it was made from.          *)
Kept(p, profiles) == \E i \in DOMAIN profiles : profiles[i] = p

LEMMA DeleteIs ==
  ASSUME NEW d \in Daemon, NEW name
  PROVE  /\ DeleteProfile(d, name) \in Daemon
         /\ \A j \in DOMAIN d.profiles :
              Same(d.profiles[j].name, name) \/ Kept(d.profiles[j], DeleteProfile(d, name).profiles)
         /\ \A i \in DOMAIN DeleteProfile(d, name).profiles :
              Kept(DeleteProfile(d, name).profiles[i], d.profiles)
<1> DEFINE k == Position(d.profiles, name)
           left == RemoveAt(d.profiles, k)
           t == IF Same(d.active, d.profiles[k].name) THEN Blank ELSE d.active
<1>1. d.profiles \in Seq(Profile) /\ d.active \in Text
  BY DaemonParts
<1>2. CASE k = 0
  BY <1>2 DEF DeleteProfile, Kept
<1>3. CASE k # 0
  <2>1. k \in DOMAIN d.profiles /\ Same(d.profiles[k].name, name)
    BY <1>1, <1>3, PositionIs
  <2>2. DeleteProfile(d, name) = [d EXCEPT !.profiles = left, !.active = t]
    BY <1>3 DEF DeleteProfile
  <2>3. t \in Text
    BY <1>1, Texts
  <2> HIDE DEF k, t
  <2>4. /\ left \in Seq(Profile)
        /\ \A i \in DOMAIN left : \E j \in DOMAIN d.profiles : left[i] = d.profiles[j]
        /\ \A j \in DOMAIN d.profiles : j # k => \E i \in DOMAIN left : left[i] = d.profiles[j]
    BY <1>1, <2>1, RemovedIs
  <2> HIDE DEF left
  <2>5. DeleteProfile(d, name) \in Daemon /\ DeleteProfile(d, name).profiles = left
    BY <2>2, <2>3, <2>4 DEF Daemon
  <2>6. \A j \in DOMAIN d.profiles : Same(d.profiles[j].name, name) \/ Kept(d.profiles[j], left)
    BY <2>1, <2>4 DEF Kept
  <2>7. \A i \in DOMAIN left : Kept(left[i], d.profiles)
    BY <2>4 DEF Kept
  <2> QED BY <2>5, <2>6, <2>7
<1> QED BY <1>2, <1>3

(* A save makes the profile in the place of the one edited, else of one    *)
(* that has its name, else after the last.                                 *)
LEMMA SaveIs ==
  ASSUME NEW d \in Daemon, NEW from \in Text, NEW name \in Text, NEW hidden \in SUBSET Name
  PROVE  /\ SaveProfile(d, from, name, hidden) \in Daemon
         /\ \A j \in DOMAIN d.profiles :
              \/ Same(d.profiles[j].name, from)
              \/ Same(d.profiles[j].name, name)
                   /\ \A i \in DOMAIN d.profiles : ~Same(d.profiles[i].name, from)
              \/ Kept(d.profiles[j], SaveProfile(d, from, name, hidden).profiles)
         /\ \A i \in DOMAIN SaveProfile(d, from, name, hidden).profiles :
              \/ Kept(SaveProfile(d, from, name, hidden).profiles[i], d.profiles)
              \/ SaveProfile(d, from, name, hidden).profiles[i].name = name
<1> DEFINE profile == [name |-> name, hidden |-> hidden]
           old == Position(d.profiles, from)
           new == Position(d.profiles, name)
           t == IF Same(d.active, d.profiles[old].name) THEN name ELSE d.active
           saved == SaveProfile(d, from, name, hidden)
           Right(e) ==
             /\ e \in Daemon
             /\ \A j \in DOMAIN d.profiles :
                  \/ Same(d.profiles[j].name, from)
                  \/ Same(d.profiles[j].name, name) /\ \A i \in DOMAIN d.profiles : ~Same(d.profiles[i].name, from)
                  \/ Kept(d.profiles[j], e.profiles)
             /\ \A i \in DOMAIN e.profiles : Kept(e.profiles[i], d.profiles) \/ e.profiles[i].name = name
<1>1. d.profiles \in Seq(Profile) /\ d.active \in Text
  BY DaemonParts
<1>2. profile \in Profile /\ profile.name = name
  BY DEF Profile
<1>3. /\ old # 0 => old \in DOMAIN d.profiles /\ Same(d.profiles[old].name, from)
      /\ old = 0 => \A i \in DOMAIN d.profiles : ~Same(d.profiles[i].name, from)
      /\ new # 0 => new \in DOMAIN d.profiles /\ Same(d.profiles[new].name, name)
  BY <1>1, PositionIs
<1>4. t \in Text
  BY <1>1
<1>5. /\ SaveRefused(d, from, name) <=> old # 0 /\ new # 0 /\ old # new
      /\ saved = CASE SaveRefused(d, from, name) -> d
                   [] ~SaveRefused(d, from, name) /\ old # 0 -> [d EXCEPT !.profiles[old] = profile, !.active = t]
                   [] old = 0 /\ new # 0 -> [d EXCEPT !.profiles[new] = profile]
                   [] OTHER -> [d EXCEPT !.profiles = Append(d.profiles, profile)]
  BY DEF SaveProfile, SaveRefused
<1> HIDE DEF profile, old, new, t, saved
<1>6. CASE SaveRefused(d, from, name)
  <2>1. saved = d
    BY <1>5, <1>6
  <2>2. Right(d)
    BY DEF Kept
  <2> QED BY <2>1, <2>2 DEF saved
<1>7. CASE ~SaveRefused(d, from, name) /\ old # 0
  <2> DEFINE ps == [d.profiles EXCEPT ![old] = profile]
  <2>1. /\ ps \in Seq(Profile) /\ DOMAIN ps = DOMAIN d.profiles
        /\ \A j \in DOMAIN d.profiles : ps[j] = IF j = old THEN profile ELSE d.profiles[j]
    BY <1>1, <1>2, <1>3, <1>7, ReplacedIs
  <2>2. saved = [d EXCEPT !.profiles[old] = profile, !.active = t]
    BY <1>5, <1>7
  <2>3. saved \in Daemon /\ saved.profiles = ps
    <3>1. saved = [d EXCEPT !.profiles = ps, !.active = t]
      BY <2>2
    <3> HIDE DEF ps
    <3> QED BY <3>1, <1>4, <2>1 DEF Daemon
  <2> HIDE DEF ps
  <2>4. Right(saved)
    BY <1>2, <1>3, <1>7, <2>1, <2>3 DEF Kept
  <2> QED BY <2>4 DEF saved
<1>8. CASE ~SaveRefused(d, from, name) /\ old = 0 /\ new # 0
  <2> DEFINE ps == [d.profiles EXCEPT ![new] = profile]
  <2>1. /\ ps \in Seq(Profile) /\ DOMAIN ps = DOMAIN d.profiles
        /\ \A j \in DOMAIN d.profiles : ps[j] = IF j = new THEN profile ELSE d.profiles[j]
    BY <1>1, <1>2, <1>3, <1>8, ReplacedIs
  <2>2. saved = [d EXCEPT !.profiles[new] = profile]
    BY <1>5, <1>8
  <2>3. saved \in Daemon /\ saved.profiles = ps
    <3>1. saved = [d EXCEPT !.profiles = ps]
      BY <2>2
    <3> HIDE DEF ps
    <3> QED BY <3>1, <2>1 DEF Daemon
  <2> HIDE DEF ps
  <2>4. Right(saved)
    BY <1>2, <1>3, <1>8, <2>1, <2>3 DEF Kept
  <2> QED BY <2>4 DEF saved
<1>9. CASE ~SaveRefused(d, from, name) /\ old = 0 /\ new = 0
  <2> DEFINE ps == Append(d.profiles, profile)
  <2>1. /\ ps \in Seq(Profile)
        /\ \A j \in DOMAIN d.profiles : j \in DOMAIN ps /\ ps[j] = d.profiles[j]
        /\ \A i \in DOMAIN ps : ps[i] = profile \/ \E j \in DOMAIN d.profiles : ps[i] = d.profiles[j]
    <3>1. d.profiles \in Seq(Profile) /\ profile \in Profile
      BY <1>1, <1>2
    <3> QED BY <3>1, AppendedIs
  <2>2. saved = [d EXCEPT !.profiles = ps]
    BY <1>5, <1>9
  <2> HIDE DEF ps
  <2>3. saved \in Daemon /\ saved.profiles = ps
    BY <2>1, <2>2 DEF Daemon
  <2>4. Right(saved)
    BY <1>2, <2>1, <2>3 DEF Kept
  <2> QED BY <2>4 DEF saved
<1> QED BY <1>6, <1>7, <1>8, <1>9

-----------------------------------------------------------------------------
(* The editor on the screen: its cursor is on a row, and the profile it    *)
(* asks about is the one in that row.                                      *)

EditorGood(ed, snap) ==
  /\ ed \in Editors
  /\ Cursor(ed) <= AtLeast0(Rows(ed, snap) - 1)
  /\ ed.asked # Blank => /\ ed.stage = "Picker" /\ Selected(ed, snap)
                         /\ snap.profiles[ed.picker].name = ed.asked

LEMMA SnapshotParts ==
  ASSUME NEW snap \in Snapshots
  PROVE  /\ snap.scenes \in Seq(SceneEntry) /\ snap.profiles \in Seq(Profile) /\ snap.active \in Text
         /\ \A i \in DOMAIN snap.scenes : snap.scenes[i].name \in Name
         /\ DOMAIN snap.scenes = 1 .. Len(snap.scenes) /\ Len(snap.scenes) \in Nat
         /\ DOMAIN snap.profiles = 1 .. Len(snap.profiles) /\ Len(snap.profiles) \in Nat
<1>1. snap.scenes \in Seq(SceneEntry) /\ snap.profiles \in Seq(Profile) /\ snap.active \in Text
  BY DEF Snapshots
<1>2. \A i \in DOMAIN snap.scenes : snap.scenes[i] \in SceneEntry
  BY <1>1, Elements
<1>3. \A s \in SceneEntry : s.name \in Name
  BY DEF SceneEntry
<1> QED BY <1>1, <1>2, <1>3, Elements

LEMMA EditorParts ==
  ASSUME NEW ed \in Editors
  PROVE  /\ ed.stage \in Stage /\ ed.picker \in Nat /\ ed.scene \in Nat
         /\ ed.name \in Text /\ ed.before \in Text /\ ed.editing \in Text /\ ed.asked \in Text
         /\ ed.hidden \in SUBSET Name
  BY DEF Editors

LEMMA SceneRowsAre ==
  ASSUME NEW ed \in Editors, NEW snap \in Snapshots
  PROVE  /\ SceneRows(ed, snap) \in Seq(Name)
         /\ \A i \in DOMAIN SceneRows(ed, snap) : SceneRows(ed, snap)[i] \in Name
         /\ Rows(ed, snap) \in Nat
<1> DEFINE stale == {t \in ed.hidden : ~IsScene(snap, t)}
           listed == [i \in DOMAIN snap.scenes |-> snap.scenes[i].name]
<1>1. stale \in SUBSET Name /\ stale \in SUBSET Nat /\ stale \in SUBSET Text
  BY EditorParts, Texts
<1>2. IsFiniteSet(stale)
  BY <1>1, Texts, FS_Subset
<1> HIDE DEF stale
<1>3. InOrder(stale) \in Seq(stale)
  BY <1>1, <1>2, InOrderType
<1>4. InOrder(stale) \in Seq(Name)
  <2>1. \A i \in DOMAIN InOrder(stale) : InOrder(stale)[i] \in Name
    BY <1>1, <1>3, Elements
  <2>2. InOrder(stale) \in [1 .. Len(InOrder(stale)) -> Name] /\ Len(InOrder(stale)) \in Nat
    BY <1>3, <2>1
  <2> QED BY <2>2
<1>5. StaleHidden(ed, snap) \in Seq(Name)
  BY <1>4 DEF StaleHidden, stale
<1>6. listed \in Seq(Name)
  <2>1. listed \in [1 .. Len(snap.scenes) -> Name]
    BY SnapshotParts
  <2> HIDE DEF listed
  <2> QED BY <2>1, SnapshotParts
<1> HIDE DEF listed
<1>7. SceneRows(ed, snap) = listed \o StaleHidden(ed, snap)
  BY DEF SceneRows, listed
<1>8. SceneRows(ed, snap) \in Seq(Name)
  BY <1>5, <1>6, <1>7
<1>9. Len(SceneRows(ed, snap)) \in Nat /\ Len(snap.profiles) \in Nat
  BY <1>8, SnapshotParts
<1>10. Rows(ed, snap) \in Nat
  <2>1. ed.stage \in {"Closed", "Picker", "Scenes", "Naming"}
    BY EditorParts DEF Stage
  <2> QED BY <2>1, <1>9 DEF Rows
<1> QED BY <1>8, <1>10, Elements

(* Rows depends on nothing of the editor but its stage and what it hides.  *)
LEMMA RowsDependOn ==
  ASSUME NEW ed \in Editors, NEW other \in Editors, NEW snap,
         ed.hidden = other.hidden,
         ed.stage = other.stage \/ {ed.stage, other.stage} \subseteq {"Scenes", "Naming"}
  PROVE  Rows(ed, snap) = Rows(other, snap)
<1>1. SceneRows(ed, snap) = SceneRows(other, snap)
  BY DEF SceneRows, StaleHidden
<1>2. ed.stage \in Stage /\ other.stage \in Stage
  BY EditorParts
<1>3. CASE ed.stage = other.stage
  BY <1>1, <1>3 DEF Rows
<1>4. CASE {ed.stage, other.stage} \subseteq {"Scenes", "Naming"}
  BY <1>1, <1>4 DEF Rows
<1> QED BY <1>3, <1>4

LEMMA CursorToIs ==
  ASSUME NEW ed \in Editors, NEW snap \in Snapshots, NEW index \in Nat,
         ed.asked # Blank => ed.stage = "Picker"
  PROVE  /\ EditorGood(CursorTo(ed, snap, index), snap)
         /\ CursorTo(ed, snap, index).asked = Blank
         /\ CursorTo(ed, snap, index).stage = ed.stage
         /\ CursorTo(ed, snap, index).hidden = ed.hidden
         /\ CursorTo(ed, snap, index).name = ed.name
         /\ CursorTo(ed, snap, index).before = ed.before
         /\ CursorTo(ed, snap, index).editing = ed.editing
<1> DEFINE to == CursorTo(ed, snap, index)
           last == AtLeast0(Rows(ed, snap) - 1)
           clamped == Least(index, last)
<1>1. last \in Nat /\ clamped \in Nat /\ clamped <= last
  <2>1. Rows(ed, snap) - 1 \in Int
    BY SceneRowsAre
  <2>2. last \in Nat
    BY <2>1, Bounds
  <2> HIDE DEF last
  <2> QED BY <2>2, Bounds
<1>2. ed.stage \in {"Closed", "Picker", "Scenes", "Naming"}
  BY EditorParts DEF Stage
<1>3. to = CASE ed.stage = "Picker" -> [ed EXCEPT !.picker = clamped, !.asked = Blank]
             [] ed.stage \in {"Scenes", "Naming"} -> [ed EXCEPT !.scene = clamped, !.asked = Blank]
             [] ed.stage = "Closed" -> ed
  BY DEF CursorTo
<1> HIDE DEF to, clamped
<1>4. /\ to \in Editors /\ to.asked = Blank /\ to.stage = ed.stage /\ to.hidden = ed.hidden
      /\ to.name = ed.name /\ to.before = ed.before /\ to.editing = ed.editing
  <2>1. CASE ed.stage = "Picker"
    BY <1>1, <1>3, <2>1, Texts DEF Editors
  <2>2. CASE ed.stage \in {"Scenes", "Naming"}
    BY <1>1, <1>3, <2>2, Texts DEF Editors
  <2>3. CASE ed.stage = "Closed"
    BY <1>3, <2>3
  <2> QED BY <1>2, <2>1, <2>2, <2>3
<1>5. Rows(to, snap) = Rows(ed, snap)
  BY <1>4, RowsDependOn
<1>6. Cursor(to) <= last
  <2>1. CASE ed.stage = "Picker"
    <3>1. to.picker = clamped
      BY <1>3, <2>1 DEF Editors
    <3> QED BY <3>1, <1>1, <1>4, <2>1 DEF Cursor
  <2>2. CASE ed.stage \in {"Scenes", "Naming"}
    <3>1. to.scene = clamped
      BY <1>3, <2>2 DEF Editors
    <3> QED BY <3>1, <1>1, <1>4, <2>2 DEF Cursor, IsOpen
  <2>3. CASE ed.stage = "Closed"
    BY <1>1, <1>4, <2>3 DEF Cursor, IsOpen
  <2> QED BY <1>2, <2>1, <2>2, <2>3
<1> QED BY <1>4, <1>5, <1>6 DEF EditorGood, to

LEMMA CursorType ==
  ASSUME NEW ed \in Editors
  PROVE  Cursor(ed) \in Nat
  BY EditorParts DEF Cursor

LEMMA ClosedIs ==
  ASSUME NEW snap
  PROVE  /\ EditorGood(Closed, snap) /\ ~IsOpen(Closed) /\ Closed.asked = Blank /\ Closed \in Editors
         /\ Closed.stage = "Closed"
<1>1. Closed \in Editors
  BY Texts DEF Closed, Editors, Stage
<1>2. Cursor(Closed) = 0 /\ Rows(Closed, snap) = 0
  BY DEF Closed, Cursor, IsOpen, Rows
<1> QED BY <1>1, <1>2, Bounds DEF Closed, EditorGood, IsOpen

-----------------------------------------------------------------------------
(* What each action of the editor makes of it.                             *)

(* A row is hidden or shown, and nothing else.                             *)
TogglesOnly(ed, next, snap) ==
  ed.stage = "Scenes" /\ next.stage = "Scenes" /\ next.hidden # ed.hidden =>
    LET row == SceneRows(ed, snap)[ed.scene + 1] IN
    /\ \A t \in Text : ~Same(t, row) => (Hides(next, t) <=> Hides(ed, t))
    /\ \/ Hides(next, row) <=> ~Hides(ed, row)
       \/ \E s, t \in ed.hidden : s # t /\ Same(s, row) /\ Same(t, row)

(* The name that is going to be saved, were it saved now.  A profile of    *)
(* the daemon that has it is the one being edited, or the UI had not been  *)
(* told of it.                                                             *)
Accepted(ed) == IF ed.stage = "Naming" THEN ed.before ELSE ed.name
Told(ed, names, untold) ==
  /\ ed.stage \in {"Scenes", "Naming"}
  /\ Normal[Accepted(ed)] # Blank /\ Normal[Accepted(ed)] \in names
  => Normal[Accepted(ed)] \in untold \/ Same(Accepted(ed), ed.editing)

Follows(ed, next, snap) ==
  /\ EditorGood(next, snap) /\ IsOpen(next)
  /\ TogglesOnly(ed, next, snap)
  /\ \A names, untold : Told(ed, names, untold) => Told(next, names, untold)

LEMMA SameFieldsFollow ==
  ASSUME NEW ed, NEW next, NEW snap, EditorGood(next, snap), IsOpen(ed),
         next.stage = ed.stage, next.hidden = ed.hidden, next.before = ed.before, next.editing = ed.editing,
         next.name = ed.name \/ ed.stage = "Naming"
  PROVE  Follows(ed, next, snap)
<1>1. Accepted(next) = Accepted(ed)
  BY DEF Accepted
<1>2. \A names, untold : Told(ed, names, untold) => Told(next, names, untold)
  BY <1>1 DEF Told
<1> QED BY <1>2 DEF Follows, TogglesOnly, IsOpen

LEMMA MoveFollows ==
  ASSUME NEW snap \in Snapshots, NEW ed, EditorGood(ed, snap), IsOpen(ed), NEW rows \in Int
  PROVE  Follows(ed, Move(ed, snap, rows), snap)
<1>1. ed \in Editors /\ (ed.asked # Blank => ed.stage = "Picker")
  BY DEF EditorGood
<1>2. AtLeast0(Cursor(ed) + rows) \in Nat
  <2>1. Cursor(ed) + rows \in Int
    BY <1>1, CursorType
  <2> QED BY <2>1, Bounds
<1> QED BY <1>1, <1>2, CursorToIs, SameFieldsFollow DEF Move

LEMMA SelectFollows ==
  ASSUME NEW snap \in Snapshots, NEW ed, EditorGood(ed, snap), IsOpen(ed), NEW index \in Nat
  PROVE  Follows(ed, CursorTo(ed, snap, index), snap)
<1>1. ed \in Editors /\ (ed.asked # Blank => ed.stage = "Picker")
  BY DEF EditorGood
<1> QED BY <1>1, CursorToIs, SameFieldsFollow

LEMMA OpenedIs ==
  ASSUME NEW snap \in Snapshots
  PROVE  EditorGood(Opened(snap), snap) /\ Opened(snap).stage = "Picker"
<1> DEFINE ed == [Closed EXCEPT !.stage = "Picker"]
           active == Position(snap.profiles, snap.active)
           index == IF active # 0 THEN active ELSE IF snap.profiles = << >> THEN 0 ELSE 1
<1>1. ed \in Editors /\ ed.asked = Blank /\ ed.stage = "Picker"
  BY Texts DEF Closed, Editors, Stage
<1>2. index \in Nat
  BY SnapshotParts, PositionIs
<1>3. Opened(snap) = CursorTo(ed, snap, index)
  BY DEF Opened
<1> HIDE DEF ed, index
<1> QED BY <1>1, <1>2, <1>3, CursorToIs

LEMMA AskDeleteFollows ==
  ASSUME NEW snap \in Snapshots, NEW ed, EditorGood(ed, snap), ed.stage = "Picker"
  PROVE  Follows(ed, AskDelete(ed, snap), snap)
<1>1. ed \in Editors /\ IsOpen(ed)
  BY DEF EditorGood, IsOpen
<1>2. CASE ~Selected(ed, snap)
  BY <1>1, <1>2, SameFieldsFollow DEF AskDelete
<1>3. CASE Selected(ed, snap)
  <2> DEFINE next == AskDelete(ed, snap)
             t == snap.profiles[ed.picker].name
  <2>1. t \in Text
    BY <1>3, SnapshotParts, ProfilesAre DEF Selected
  <2>2. next = [ed EXCEPT !.asked = t]
    BY <1>3 DEF AskDelete
  <2> HIDE DEF next, t
  <2>3. /\ next \in Editors /\ next.stage = ed.stage /\ next.hidden = ed.hidden /\ next.before = ed.before
        /\ next.editing = ed.editing /\ next.name = ed.name /\ next.picker = ed.picker /\ next.asked = t
    BY <1>1, <2>1, <2>2 DEF Editors
  <2>4. Rows(next, snap) = Rows(ed, snap) /\ Cursor(next) = Cursor(ed)
    BY <1>1, <2>3, RowsDependOn DEF Cursor
  <2>5. EditorGood(next, snap)
    BY <1>3, <2>3, <2>4 DEF EditorGood, Selected, t
  <2> QED BY <1>1, <2>3, <2>5, SameFieldsFollow DEF next
<1> QED BY <1>2, <1>3

LEMMA CancelDeleteFollows ==
  ASSUME NEW snap \in Snapshots, NEW ed, EditorGood(ed, snap), IsOpen(ed)
  PROVE  Follows(ed, CancelDelete(ed), snap)
<1> DEFINE next == CancelDelete(ed)
<1>1. ed \in Editors
  BY DEF EditorGood
<1>2. /\ next \in Editors /\ next.stage = ed.stage /\ next.hidden = ed.hidden /\ next.before = ed.before
      /\ next.editing = ed.editing /\ next.name = ed.name /\ next.picker = ed.picker /\ next.scene = ed.scene
      /\ next.asked = Blank
  BY <1>1, Texts DEF CancelDelete, Editors
<1> HIDE DEF next
<1>3. Rows(next, snap) = Rows(ed, snap) /\ Cursor(next) = Cursor(ed)
  BY <1>1, <1>2, RowsDependOn DEF Cursor, IsOpen
<1>4. EditorGood(next, snap)
  BY <1>2, <1>3 DEF EditorGood
<1> QED BY <1>2, <1>4, SameFieldsFollow DEF next

(* Typing a name, taking it or leaving it: the stage may change, what is   *)
(* hidden does not.                                                        *)
LEMMA NamingKeeps ==
  ASSUME NEW snap \in Snapshots, NEW ed, EditorGood(ed, snap), ed.stage \in {"Scenes", "Naming"},
         NEW next \in Editors, next.stage \in {"Scenes", "Naming"},
         next.hidden = ed.hidden, next.scene = ed.scene, next.asked = ed.asked
  PROVE  EditorGood(next, snap) /\ IsOpen(next) /\ TogglesOnly(ed, next, snap)
<1>1. ed \in Editors /\ ed.asked = Blank
  BY DEF EditorGood
<1>2. Rows(next, snap) = Rows(ed, snap)
  BY <1>1, RowsDependOn
<1>3. Cursor(next) = next.scene /\ Cursor(ed) = ed.scene
  BY DEF Cursor, IsOpen
<1> QED BY <1>1, <1>2, <1>3 DEF EditorGood, IsOpen, TogglesOnly

LEMMA BeginNamingFollows ==
  ASSUME NEW snap \in Snapshots, NEW ed, EditorGood(ed, snap), ed.stage = "Scenes"
  PROVE  Follows(ed, BeginNaming(ed), snap)
<1> DEFINE next == BeginNaming(ed)
<1>1. ed \in Editors
  BY DEF EditorGood
<1>2. /\ next \in Editors /\ next.stage = "Naming" /\ next.hidden = ed.hidden /\ next.before = ed.name
      /\ next.editing = ed.editing /\ next.scene = ed.scene /\ next.asked = ed.asked
  BY <1>1 DEF BeginNaming, Editors, Stage
<1> HIDE DEF next
<1>3. Accepted(next) = Accepted(ed)
  BY <1>2 DEF Accepted
<1>4. \A names, untold : Told(ed, names, untold) => Told(next, names, untold)
  BY <1>2, <1>3 DEF Told
<1> QED BY <1>2, <1>4, NamingKeeps DEF Follows, next

LEMMA NameEditFollows ==
  ASSUME NEW snap \in Snapshots, NEW ed, EditorGood(ed, snap), ed.stage = "Naming", NEW t \in Text
  PROVE  Follows(ed, [ed EXCEPT !.name = t], snap)
<1> DEFINE next == [ed EXCEPT !.name = t]
<1>1. ed \in Editors
  BY DEF EditorGood
<1>2. /\ next \in Editors /\ next.stage = "Naming" /\ next.hidden = ed.hidden /\ next.before = ed.before
      /\ next.editing = ed.editing /\ next.scene = ed.scene /\ next.asked = ed.asked
  BY <1>1 DEF Editors
<1> HIDE DEF next
<1>3. EditorGood(next, snap) /\ IsOpen(ed)
  BY <1>2, NamingKeeps DEF IsOpen
<1> QED BY <1>2, <1>3, SameFieldsFollow DEF next

LEMMA NameCancelFollows ==
  ASSUME NEW snap \in Snapshots, NEW ed, EditorGood(ed, snap), ed.stage = "Naming"
  PROVE  Follows(ed, NameCancel(ed), snap)
<1> DEFINE next == NameCancel(ed)
<1>1. ed \in Editors
  BY DEF EditorGood
<1>2. /\ next \in Editors /\ next.stage = "Scenes" /\ next.hidden = ed.hidden /\ next.name = ed.before
      /\ next.editing = ed.editing /\ next.scene = ed.scene /\ next.asked = ed.asked
  BY <1>1 DEF NameCancel, Editors, Stage
<1> HIDE DEF next
<1>3. Accepted(next) = Accepted(ed)
  BY <1>2 DEF Accepted
<1>4. \A names, untold : Told(ed, names, untold) => Told(next, names, untold)
  BY <1>2, <1>3 DEF Told
<1> QED BY <1>2, <1>4, NamingKeeps DEF Follows, next

LEMMA NameCommitKeeps ==
  ASSUME NEW snap \in Snapshots, NEW ed, EditorGood(ed, snap), ed.stage = "Naming"
  PROVE  /\ EditorGood(NameCommit(ed, snap), snap) /\ IsOpen(NameCommit(ed, snap))
         /\ TogglesOnly(ed, NameCommit(ed, snap), snap)
         /\ NameCommit(ed, snap).stage # "Scenes" => NameCommit(ed, snap) = ed
         /\ NameCommit(ed, snap).stage = "Scenes" =>
              /\ ~Taken(ed, snap) /\ NameCommit(ed, snap).editing = ed.editing
              /\ NameCommit(ed, snap).name = Trimmed[ed.name] /\ ed.name \in Name
<1> DEFINE next == NameCommit(ed, snap)
<1>1. ed \in Editors /\ ed.name \in Text
  BY EditorParts DEF EditorGood
<1>2. CASE Usable(ed.name) /\ ~Taken(ed, snap)
  <2>1. next = [ed EXCEPT !.stage = "Scenes", !.name = Trimmed[ed.name]]
    BY <1>2 DEF NameCommit
  <2>2. Trimmed[ed.name] \in Text /\ ed.name \in Name
    BY <1>1, <1>2, Texts DEF Usable
  <2> HIDE DEF next
  <2>3. /\ next \in Editors /\ next.stage = "Scenes" /\ next.hidden = ed.hidden /\ next.name = Trimmed[ed.name]
        /\ next.editing = ed.editing /\ next.scene = ed.scene /\ next.asked = ed.asked
    BY <1>1, <2>1, <2>2 DEF Editors, Stage
  <2> QED BY <1>2, <2>2, <2>3, NamingKeeps DEF next
<1>3. CASE ~(Usable(ed.name) /\ ~Taken(ed, snap))
  <2>1. next = ed
    BY <1>3 DEF NameCommit
  <2> QED BY <2>1 DEF IsOpen, TogglesOnly
<1> QED BY <1>2, <1>3

LEMMA BackFollows ==
  ASSUME NEW snap \in Snapshots, NEW ed, EditorGood(ed, snap), ed.stage = "Scenes"
  PROVE  Follows(ed, Back(ed, snap), snap)
<1> DEFINE picker == [ed EXCEPT !.stage = "Picker"]
           next == Back(ed, snap)
<1>1. ed \in Editors /\ ed.picker \in Nat
  BY EditorParts DEF EditorGood
<1>2. picker \in Editors /\ picker.stage = "Picker"
  BY <1>1 DEF Editors, Stage
<1>3. next = CursorTo(picker, snap, ed.picker)
  BY DEF Back
<1> HIDE DEF picker, next
<1>4. EditorGood(next, snap) /\ next.stage = "Picker"
  BY <1>1, <1>2, <1>3, CursorToIs
<1> QED BY <1>4 DEF Follows, Told, TogglesOnly, IsOpen, next

LEMMA PickerConfirmFollows ==
  ASSUME NEW snap \in Snapshots, NEW ed, EditorGood(ed, snap), ed.stage = "Picker", ed.asked = Blank
  PROVE  Follows(ed, PickerConfirm(ed, snap), snap)
<1> DEFINE next == PickerConfirm(ed, snap)
           shown == {s.name : s \in {x \in ToSet(snap.scenes) : x.hidden}}
           p == snap.profiles[ed.picker]
           named == [ed EXCEPT !.stage = "Naming", !.name = Blank, !.before = Blank, !.editing = Blank, !.hidden = shown]
           edited == [ed EXCEPT !.stage = "Scenes", !.name = p.name, !.before = p.name, !.editing = p.name,
                                !.hidden = p.hidden]
<1>1. ed \in Editors /\ ed.picker \in Nat
  BY EditorParts DEF EditorGood
<1>2. Selected(ed, snap) => ed.picker # 0
  BY SnapshotParts DEF Selected
<1>3. next = CASE ed.picker = 0 -> CursorTo(named, snap, 0)
               [] Selected(ed, snap) -> CursorTo(edited, snap, 0)
               [] OTHER -> ed
  BY DEF PickerConfirm
<1>4. CASE ed.picker = 0
  <2>1. shown \in SUBSET Name
    <3>1. \A s \in ToSet(snap.scenes) : s.name \in Name
      BY SnapshotParts DEF ToSet
    <3> QED BY <3>1
  <2>2. next = CursorTo(named, snap, 0)
    BY <1>2, <1>3, <1>4
  <2> HIDE DEF shown
  <2>3. /\ named \in Editors /\ named.stage = "Naming" /\ named.before = Blank
        /\ named.asked = Blank
    BY <1>1, <2>1, Texts DEF Editors, Stage
  <2> HIDE DEF named, next
  <2>4. EditorGood(next, snap) /\ next.stage = "Naming" /\ next.before = Blank
    BY <2>2, <2>3, CursorToIs
  <2>5. Accepted(next) = Blank /\ Normal[Blank] = Blank
    BY <2>4, Texts DEF Accepted
  <2> QED BY <2>4, <2>5 DEF Follows, Told, TogglesOnly, IsOpen, next
<1>5. CASE Selected(ed, snap)
  <2>1. p.name \in Text /\ p.hidden \in SUBSET Name
    BY <1>5, SnapshotParts, ProfilesAre DEF Selected
  <2>2. next = CursorTo(edited, snap, 0)
    BY <1>2, <1>3, <1>5
  <2> HIDE DEF p
  <2>3. /\ edited \in Editors /\ edited.stage = "Scenes" /\ edited.name = p.name /\ edited.editing = p.name
        /\ edited.asked = Blank
    BY <1>1, <2>1 DEF Editors, Stage
  <2> HIDE DEF edited, next
  <2>4. EditorGood(next, snap) /\ next.stage = "Scenes" /\ next.name = p.name /\ next.editing = p.name
    BY <2>2, <2>3, CursorToIs
  <2>5. Accepted(next) = p.name /\ (Normal[p.name] # Blank => Same(p.name, p.name))
    BY <2>4 DEF Accepted, Same
  <2> QED BY <2>4, <2>5 DEF Follows, Told, TogglesOnly, IsOpen, next
<1>6. CASE ed.picker # 0 /\ ~Selected(ed, snap)
  <2>1. next = ed
    BY <1>3, <1>6
  <2>2. IsOpen(ed)
    BY DEF IsOpen
  <2> HIDE DEF next
  <2> QED BY <2>1, <2>2, SameFieldsFollow DEF next
<1> QED BY <1>4, <1>5, <1>6

LEMMA ToggledIs ==
  ASSUME NEW hidden \in SUBSET Name, NEW row \in Name
  PROVE  /\ Toggled(hidden, row) \in SUBSET Name
         /\ \A t \in Text : ~Same(t, row) =>
              ((\E u \in Toggled(hidden, row) : Same(u, t)) <=> (\E u \in hidden : Same(u, t)))
         /\ \/ (\E u \in Toggled(hidden, row) : Same(u, row)) <=> ~(\E u \in hidden : Same(u, row))
            \/ \E s, t \in hidden : s # t /\ Same(s, row) /\ Same(t, row)
<1> DEFINE stored == {t \in hidden : Same(t, row)}
           least == CHOOSE t \in stored : \A u \in stored : t <= u
           toggled == Toggled(hidden, row)
<1>1. toggled = IF stored = {} THEN hidden \cup {row} ELSE hidden \ {least}
  BY DEF Toggled
<1>2. Same(row, row)
  BY Sames
<1>3. CASE stored = {}
  <2>1. toggled = hidden \cup {row}
    BY <1>1, <1>3
  <2>2. ~(\E u \in hidden : Same(u, row))
    BY <1>3
  <2> HIDE DEF toggled, stored
  <2>3. toggled \in SUBSET Name /\ \E u \in toggled : Same(u, row)
    BY <1>2, <2>1
  <2>4. ASSUME NEW t \in Text, ~Same(t, row)
        PROVE  (\E u \in toggled : Same(u, t)) <=> (\E u \in hidden : Same(u, t))
    <3>1. ~Same(row, t)
      BY <2>4, Sames
    <3> QED BY <3>1, <2>1
  <2> QED BY <2>2, <2>3, <2>4 DEF toggled
<1>4. CASE stored # {}
  <2>1. stored \in SUBSET Nat
    BY Texts
  <2>2. \E t \in stored : \A u \in stored : t <= u
    BY <1>4, <2>1, LeastOf
  <2>3. least \in hidden /\ Same(least, row)
    BY <2>2
  <2>4. toggled = hidden \ {least}
    BY <1>1, <1>4
  <2> HIDE DEF toggled, stored, least
  <2>5. toggled \in SUBSET Name
    BY <2>4
  <2>6. ASSUME NEW t \in Text, ~Same(t, row)
        PROVE  (\E u \in toggled : Same(u, t)) <=> (\E u \in hidden : Same(u, t))
    <3>1. ~Same(least, t)
      BY <2>3, <2>6, Sames
    <3> QED BY <3>1, <2>4
  <2>7. (\E u \in toggled : Same(u, row)) => \E s, t \in hidden : s # t /\ Same(s, row) /\ Same(t, row)
    BY <2>3, <2>4
  <2>8. \E u \in hidden : Same(u, row)
    BY <2>3
  <2> QED BY <2>5, <2>6, <2>7, <2>8 DEF toggled
<1> QED BY <1>3, <1>4

LEMMA ToggleHiddenFollows ==
  ASSUME NEW snap \in Snapshots, NEW ed, EditorGood(ed, snap), ed.stage = "Scenes"
  PROVE  Follows(ed, ToggleHidden(ed, snap), snap)
<1> DEFINE row == SceneRows(ed, snap)[ed.scene + 1]
           flipped == Toggled(ed.hidden, row)
           toggled == [ed EXCEPT !.hidden = flipped]
           next == ToggleHidden(ed, snap)
<1>1. ed \in Editors /\ ed.scene \in Nat /\ ed.hidden \in SUBSET Name /\ ed.asked = Blank /\ IsOpen(ed)
  BY EditorParts DEF EditorGood, IsOpen
<1>2. CASE ed.scene + 1 \in DOMAIN SceneRows(ed, snap)
  <2>1. row \in Name
    BY <1>1, <1>2, SceneRowsAre
  <2>2. next = CursorTo(toggled, snap, toggled.scene)
    BY <1>2 DEF ToggleHidden
  <2> HIDE DEF row
  <2>3. flipped \in SUBSET Name
    BY <1>1, <2>1, ToggledIs
  <2>4. /\ \A t \in Text : ~Same(t, row) =>
             ((\E u \in flipped : Same(u, t)) <=> (\E u \in ed.hidden : Same(u, t)))
        /\ \/ (\E u \in flipped : Same(u, row)) <=> ~(\E u \in ed.hidden : Same(u, row))
           \/ \E s, t \in ed.hidden : s # t /\ Same(s, row) /\ Same(t, row)
    BY <1>1, <2>1, ToggledIs
  <2> HIDE DEF flipped
  <2>5. /\ toggled \in Editors /\ toggled.stage = "Scenes" /\ toggled.hidden = flipped /\ toggled.scene = ed.scene
        /\ toggled.asked = Blank /\ toggled.name = ed.name /\ toggled.editing = ed.editing
    BY <1>1, <2>3 DEF Editors
  <2> HIDE DEF toggled, next
  <2>6. /\ EditorGood(next, snap) /\ next.stage = "Scenes" /\ next.hidden = flipped
        /\ next.name = ed.name /\ next.editing = ed.editing
    BY <1>1, <2>2, <2>5, CursorToIs
  <2>7. TogglesOnly(ed, next, snap)
    BY <2>4, <2>6 DEF TogglesOnly, Hides, row
  <2>8. Accepted(next) = Accepted(ed)
    BY <2>6 DEF Accepted
  <2> QED BY <2>6, <2>7, <2>8 DEF Follows, Told, IsOpen, next
<1>3. CASE ed.scene + 1 \notin DOMAIN SceneRows(ed, snap)
  <2>1. next = ed
    BY <1>3 DEF ToggleHidden
  <2> HIDE DEF next
  <2> QED BY <1>1, <2>1, SameFieldsFollow DEF next
<1> QED BY <1>2, <1>3

-----------------------------------------------------------------------------
(* The model of the screen.  What must hold of it whatever sequence is     *)
(* half typed, and of the half-typed sequence.                             *)

Palettes == [active : BOOLEAN, input : Lines \cup {<< >>}, completions : Seq(Lines), idx : Nat]
Models ==
  [snap : Snapshots, connected : BOOLEAN, focus : Panel, cursor : [Panel -> Nat],
   pending : Pending, count : 0 .. MaxCount, palette : Palettes,
   view : View, theme : Theme, themeCursor : 0 .. Themes - 1, origin : Int,
   logs : 0 .. LogEntries, scroll : 0 .. LogEntries, editor : Editors]

CursorsGood(m) == \A p \in Panel : m.cursor[p] <= LastRow(m, p)
Apart(m) ==
  /\ m.palette.active => ~IsOpen(m.editor) /\ m.view = "Main"
  /\ IsOpen(m.editor) => m.view = "Main"
Themed(m, theme) ==
  /\ m.view = "Main" => m.theme = theme /\ m.origin = -1
  /\ m.view = "Settings" =>
       /\ m.origin = theme
       /\ \/ m.theme = m.themeCursor
          \/ m.theme = theme /\ m.themeCursor = ThemeRow(theme)
PaletteGood(p) ==
  IF ~p.active THEN p = Shut
  ELSE /\ p.input \in Lines /\ p.idx <= Len(p.completions)
       /\ p.idx = NoIndex => p.completions = Complete[p.input]
       /\ p.idx # NoIndex => p.input = p.completions[p.idx]

Steady(m, theme) ==
  /\ m \in Models /\ theme \in Theme
  /\ CursorsGood(m) /\ Apart(m) /\ Themed(m, theme)
  /\ PaletteGood(m.palette) /\ EditorGood(m.editor, m.snap)
Quiet(m) ==
  /\ m.palette.active \/ IsOpen(m.editor) => m.pending = "none" /\ m.count = 0
  /\ m.view = "Settings" => m.pending \in {"none", "g"}
Sound(m, theme) == Steady(m, theme) /\ Quiet(m)

LEMMA Sizes ==
  /\ MaxCount \in Nat /\ LogEntries \in Nat /\ LogRows \in Nat /\ HalfPage \in Nat /\ Wheel \in Nat
  /\ Themes \in Nat /\ Themes > 0
  BY BoundAssumption DEF BoundAssumption

LEMMA ModelParts ==
  ASSUME NEW m \in Models
  PROVE  /\ m.snap \in Snapshots /\ m.focus \in Panel /\ m.cursor \in [Panel -> Nat]
         /\ m.pending \in Pending /\ m.count \in 0 .. MaxCount /\ m.palette \in Palettes
         /\ m.view \in View /\ m.theme \in Theme /\ m.themeCursor \in 0 .. Themes - 1
         /\ m.logs \in 0 .. LogEntries /\ m.scroll \in 0 .. LogEntries /\ m.editor \in Editors
         /\ m.connected \in BOOLEAN /\ m.origin \in Int
  BY DEF Models

LEMMA PaletteParts ==
  ASSUME NEW p \in Palettes
  PROVE  /\ p.active \in BOOLEAN /\ p.input \in Lines \cup {<< >>} /\ p.completions \in Seq(Lines) /\ p.idx \in Nat
  BY DEF Palettes

LEMMA RowsAre ==
  ASSUME NEW m \in Models, NEW p \in Panel
  PROVE  RowCount(m, p) \in Nat /\ LastRow(m, p) \in Nat
<1>1. Len(Scenes(m)) \in Nat
  <2>1. m.snap.scenes \in Seq(SceneEntry)
    BY ModelParts, SnapshotParts
  <2> QED BY <2>1 DEF Scenes
<1>2. p # "Scenes" => OtherRows[p] \in Nat
  BY RowsAssumption DEF RowsAssumption
<1>3. RowCount(m, p) \in Nat
  BY <1>1, <1>2 DEF RowCount
<1>4. RowCount(m, p) - 1 \in Int
  BY <1>3
<1> QED BY <1>3, <1>4, Bounds DEF LastRow

LEMMA RowsOfSnapshot ==
  ASSUME NEW m, NEW other, m.snap = other.snap
  PROVE  \A p : RowCount(m, p) = RowCount(other, p) /\ LastRow(m, p) = LastRow(other, p)
  BY DEF RowCount, LastRow, Scenes, Known

(* A change of what no cursor, picker, palette or editor depends on.       *)
LEMMA AsideSteady ==
  ASSUME NEW m, NEW theme, Steady(m, theme), NEW next \in Models,
         next.snap = m.snap, next.cursor = m.cursor, next.palette = m.palette, next.view = m.view,
         next.theme = m.theme, next.themeCursor = m.themeCursor, next.origin = m.origin, next.editor = m.editor
  PROVE  Steady(next, theme)
<1>1. CursorsGood(next)
  BY RowsOfSnapshot DEF CursorsGood, Steady
<1> QED BY <1>1 DEF Steady, Apart, Themed

LEMMA ClearedIsSound ==
  ASSUME NEW m, NEW theme, Steady(m, theme)
  PROVE  Sound(ClearPending(m), theme)
<1> DEFINE next == ClearPending(m)
<1>1. m \in Models
  BY DEF Steady
<1>2. /\ next \in Models
      /\ next.snap = m.snap /\ next.cursor = m.cursor /\ next.palette = m.palette /\ next.view = m.view
      /\ next.theme = m.theme /\ next.themeCursor = m.themeCursor /\ next.origin = m.origin /\ next.editor = m.editor
      /\ next.pending = "none" /\ next.count = 0
  <2>1. 0 \in 0 .. MaxCount /\ "none" \in Pending
    BY Sizes DEF Pending
  <2> QED BY <1>1, <2>1 DEF ClearPending, Models
<1> HIDE DEF next
<1>3. Steady(next, theme)
  BY <1>2, AsideSteady
<1> QED BY <1>2, <1>3 DEF Sound, Quiet, next

LEMMA EndedIsSound ==
  ASSUME NEW a, NEW m, NEW theme, Steady(m, theme), ~KeepsPending(a) \/ Quiet(m)
  PROVE  Sound(Ended(a, m), theme)
  BY ClearedIsSound DEF Ended, Sound

LEMMA EndedKeeps ==
  ASSUME NEW a, NEW m \in Models
  PROVE  Ended(a, m).editor = m.editor /\ Ended(a, m).snap = m.snap
  BY DEF Ended, ClearPending, Models

-----------------------------------------------------------------------------
(* What each action of the dashboard, the log and the pickers makes of it. *)

LEMMA FocusSteady ==
  ASSUME NEW m, NEW theme, Steady(m, theme), NEW p \in Panel
  PROVE  Steady([m EXCEPT !.focus = p], theme)
<1> DEFINE next == [m EXCEPT !.focus = p]
<1>1. m \in Models
  BY DEF Steady
<1>2. /\ next \in Models
      /\ next.snap = m.snap /\ next.cursor = m.cursor /\ next.palette = m.palette /\ next.view = m.view
      /\ next.theme = m.theme /\ next.themeCursor = m.themeCursor /\ next.origin = m.origin /\ next.editor = m.editor
  BY <1>1 DEF Models
<1> HIDE DEF next
<1> QED BY <1>2, AsideSteady DEF next

LEMMA ConnectedSteady ==
  ASSUME NEW m, NEW theme, Steady(m, theme), NEW b \in BOOLEAN
  PROVE  Steady([m EXCEPT !.connected = b], theme)
<1> DEFINE next == [m EXCEPT !.connected = b]
<1>1. m \in Models
  BY DEF Steady
<1>2. /\ next \in Models
      /\ next.snap = m.snap /\ next.cursor = m.cursor /\ next.palette = m.palette /\ next.view = m.view
      /\ next.theme = m.theme /\ next.themeCursor = m.themeCursor /\ next.origin = m.origin /\ next.editor = m.editor
  BY <1>1 DEF Models
<1> HIDE DEF next
<1> QED BY <1>2, AsideSteady DEF next

LEMMA LogsSteady ==
  ASSUME NEW m, NEW theme, Steady(m, theme), NEW logs \in 0 .. LogEntries, NEW scroll \in 0 .. LogEntries
  PROVE  Steady([m EXCEPT !.logs = logs, !.scroll = scroll], theme)
<1> DEFINE next == [m EXCEPT !.logs = logs, !.scroll = scroll]
<1>1. m \in Models
  BY DEF Steady
<1>2. /\ next \in Models
      /\ next.snap = m.snap /\ next.cursor = m.cursor /\ next.palette = m.palette /\ next.view = m.view
      /\ next.theme = m.theme /\ next.themeCursor = m.themeCursor /\ next.origin = m.origin /\ next.editor = m.editor
  BY <1>1 DEF Models
<1> HIDE DEF next
<1> QED BY <1>2, AsideSteady DEF next

LEMMA ScrollSteady ==
  ASSUME NEW m, NEW theme, Steady(m, theme), NEW lines \in Nat
  PROVE  /\ Steady(ScrollUp(m, lines), theme) /\ Steady(ScrollDown(m, lines), theme)
         /\ Steady(PushLog(m), theme)
<1>1. /\ m \in Models /\ LogEntries \in Nat /\ LogRows \in Nat
      /\ m.logs \in Nat /\ m.logs <= LogEntries /\ m.scroll \in Nat /\ m.scroll <= LogEntries
  BY ModelParts, Sizes DEF Steady
<1>2. MaxScroll(m) \in Nat /\ MaxScroll(m) <= LogEntries
  BY <1>1 DEF MaxScroll, AtLeast0
<1>3. Least(m.scroll + lines, MaxScroll(m)) \in 0 .. LogEntries
  BY <1>1, <1>2 DEF Least
<1>4. AtLeast0(m.scroll - lines) \in 0 .. LogEntries
  BY <1>1 DEF AtLeast0
<1>5. /\ Least(m.logs + 1, LogEntries) \in 0 .. LogEntries
      /\ (IF m.scroll > 0 THEN Least(m.scroll + 1, LogEntries) ELSE 0) \in 0 .. LogEntries
  BY <1>1 DEF Least
<1>6. /\ ScrollUp(m, lines) = [m EXCEPT !.logs = m.logs, !.scroll = Least(m.scroll + lines, MaxScroll(m))]
      /\ ScrollDown(m, lines) = [m EXCEPT !.logs = m.logs, !.scroll = AtLeast0(m.scroll - lines)]
  BY <1>1 DEF ScrollUp, ScrollDown, Models
<1>7. m.logs \in 0 .. LogEntries
  BY <1>1
<1>8. Steady(ScrollUp(m, lines), theme)
  <2> DEFINE to == Least(m.scroll + lines, MaxScroll(m))
  <2>1. Steady([m EXCEPT !.logs = m.logs, !.scroll = to], theme)
    BY <1>3, <1>7, LogsSteady
  <2> QED BY <2>1, <1>6
<1>9. Steady(ScrollDown(m, lines), theme)
  <2> DEFINE to == AtLeast0(m.scroll - lines)
  <2>1. Steady([m EXCEPT !.logs = m.logs, !.scroll = to], theme)
    BY <1>4, <1>7, LogsSteady
  <2> QED BY <2>1, <1>6
<1>10. Steady(PushLog(m), theme)
  <2> DEFINE logs == Least(m.logs + 1, LogEntries)
             to == IF m.scroll > 0 THEN Least(m.scroll + 1, LogEntries) ELSE 0
  <2>1. Steady([m EXCEPT !.logs = logs, !.scroll = to], theme)
    BY <1>5, LogsSteady
  <2> QED BY <2>1 DEF PushLog
<1> QED BY <1>8, <1>9, <1>10

LEMMA CancelSteady ==
  ASSUME NEW m, NEW theme, Steady(m, theme)
  PROVE  Steady(Cancel(m), theme)
<1> DEFINE cleared == ClearPending(m)
<1>1. Steady(cleared, theme)
  BY ClearedIsSound DEF Sound
<1>2. Cancel(m) = [cleared EXCEPT !.scroll = 0]
  BY DEF Cancel
<1> HIDE DEF cleared
<1>3. cleared \in Models /\ cleared.logs \in 0 .. LogEntries /\ 0 \in 0 .. LogEntries
  BY <1>1, ModelParts, Sizes DEF Steady
<1>4. Cancel(m) = [cleared EXCEPT !.logs = cleared.logs, !.scroll = 0]
  BY <1>2, <1>3 DEF Models
<1>5. Steady([cleared EXCEPT !.logs = cleared.logs, !.scroll = 0], theme)
  BY <1>1, <1>3, LogsSteady
<1> QED BY <1>4, <1>5

LEMMA SetCursorSteady ==
  ASSUME NEW m, NEW theme, Steady(m, theme), NEW p \in Panel, NEW index \in Nat
  PROVE  Steady(SetCursor(m, p, index), theme)
<1> DEFINE next == SetCursor(m, p, index)
           at == Least(index, LastRow(m, p))
<1>1. m \in Models /\ CursorsGood(m) /\ m.cursor \in [Panel -> Nat]
  BY ModelParts DEF Steady
<1>2. at \in Nat /\ at <= LastRow(m, p)
  BY <1>1, RowsAre, Bounds
<1>3. next = [m EXCEPT !.cursor[p] = at]
  BY DEF SetCursor
<1> HIDE DEF at, next
<1>4. /\ next \in Models /\ next.cursor = [m.cursor EXCEPT ![p] = at]
      /\ next.snap = m.snap /\ next.palette = m.palette /\ next.view = m.view
      /\ next.theme = m.theme /\ next.themeCursor = m.themeCursor /\ next.origin = m.origin /\ next.editor = m.editor
  BY <1>1, <1>2, <1>3 DEF Models
<1>5. CursorsGood(next)
  BY <1>1, <1>2, <1>4, RowsOfSnapshot DEF CursorsGood
<1> QED BY <1>4, <1>5 DEF Steady, Apart, Themed, next

LEMMA PreviewSteady ==
  ASSUME NEW m, NEW theme, Steady(m, theme), m.view = "Settings", NEW index \in Nat
  PROVE  Steady(Preview(m, index), theme)
<1> DEFINE next == Preview(m, index)
           at == Least(index, Themes - 1)
<1>1. m \in Models
  BY DEF Steady
<1>2. at \in 0 .. Themes - 1 /\ at \in Theme
  BY Sizes DEF Least, Theme
<1>3. next = [m EXCEPT !.themeCursor = at, !.theme = at]
  BY DEF Preview
<1> HIDE DEF at, next
<1>4. /\ next \in Models /\ next.theme = at /\ next.themeCursor = at /\ next.cursor = m.cursor
      /\ next.snap = m.snap /\ next.palette = m.palette /\ next.view = m.view
      /\ next.origin = m.origin /\ next.editor = m.editor
  BY <1>1, <1>2, <1>3 DEF Models
<1>5. CursorsGood(next)
  BY <1>4, RowsOfSnapshot DEF CursorsGood, Steady
<1>6. Themed(next, theme)
  <2>1. m.origin = theme
    BY DEF Steady, Themed
  <2>2. next.view = "Settings" /\ next.origin = theme /\ next.theme = next.themeCursor
    BY <1>4, <2>1
  <2> QED BY <2>2 DEF Themed
<1> QED BY <1>4, <1>5, <1>6 DEF Steady, Apart, next

LEMMA NavSteady ==
  ASSUME NEW m, NEW theme, Steady(m, theme)
  PROVE  /\ \A index \in Nat : Steady(NavTo(m, index), theme)
         /\ \A rows \in Int : Steady(Nav(m, rows), theme)
         /\ Bottom(m) \in Nat
<1>1. m \in Models /\ m.focus \in Panel /\ m.cursor \in [Panel -> Nat] /\ m.themeCursor \in Nat
  BY ModelParts, Sizes DEF Steady
<1>2. ASSUME NEW index \in Nat PROVE Steady(NavTo(m, index), theme)
  BY <1>1, PreviewSteady, SetCursorSteady DEF NavTo
<1>3. ASSUME NEW rows \in Int PROVE Steady(Nav(m, rows), theme)
  <2>1. NavCursor(m) + rows \in Int
    BY <1>1 DEF NavCursor
  <2> QED BY <2>1, <1>2, Bounds DEF Nav
<1>4. Bottom(m) \in Nat
  BY <1>1, RowsAre, Sizes DEF Bottom
<1> QED BY <1>2, <1>3, <1>4

LEMMA OpenThemesSteady ==
  ASSUME NEW m, NEW theme, Steady(m, theme), m.view = "Main", ~m.palette.active, ~IsOpen(m.editor)
  PROVE  Steady(OpenThemes(m), theme)
<1> DEFINE next == OpenThemes(m)
<1>1. m \in Models /\ m.theme \in Theme /\ m.theme = theme /\ m.theme \in Int
      /\ ThemeRow(m.theme) \in 0 .. Themes - 1
  BY ModelParts, Sizes DEF Steady, Themed, Theme, Custom, ThemeRow
<1>2. /\ next \in Models /\ next.view = "Settings" /\ next.origin = m.theme
      /\ next.themeCursor = ThemeRow(m.theme)
      /\ next.theme = m.theme /\ next.cursor = m.cursor /\ next.snap = m.snap
      /\ next.palette = m.palette /\ next.editor = m.editor
  BY <1>1 DEF OpenThemes, Models, View
<1> HIDE DEF next
<1>3. CursorsGood(next)
  BY <1>2, RowsOfSnapshot DEF CursorsGood, Steady
<1> QED BY <1>1, <1>2, <1>3 DEF Steady, Apart, Themed, next

LEMMA CancelThemesSteady ==
  ASSUME NEW m, NEW theme, Steady(m, theme), m.view = "Settings"
  PROVE  Steady(CancelThemes(m), theme)
<1> DEFINE next == CancelThemes(m)
<1>1. m \in Models /\ m.origin = theme /\ theme \in Theme /\ theme # -1 /\ -1 \in Int
  <2>1. m \in Models /\ m.origin = theme /\ theme \in Theme
    BY DEF Steady, Themed
  <2> QED BY <2>1, Sizes DEF Theme
<1>2. /\ next \in Models /\ next.view = "Main" /\ next.origin = -1
      /\ next.theme = theme /\ next.cursor = m.cursor /\ next.snap = m.snap
      /\ next.palette = m.palette /\ next.editor = m.editor
  BY <1>1 DEF CancelThemes, Models, View
<1> HIDE DEF next
<1>3. CursorsGood(next)
  BY <1>2, RowsOfSnapshot DEF CursorsGood, Steady
<1> QED BY <1>2, <1>3 DEF Steady, Apart, Themed, next

LEMMA ApplyThemesSteady ==
  ASSUME NEW m, NEW theme, Steady(m, theme), m.view = "Settings"
  PROVE  Steady(ApplyThemes(m), m.themeCursor)
<1> DEFINE next == ApplyThemes(m)
<1>1. m \in Models /\ m.themeCursor \in 0 .. Themes - 1 /\ m.themeCursor \in Theme /\ -1 \in Int
  BY ModelParts, Sizes DEF Steady, Theme
<1>2. /\ next \in Models /\ next.view = "Main" /\ next.origin = -1
      /\ next.theme = m.themeCursor /\ next.cursor = m.cursor /\ next.snap = m.snap
      /\ next.palette = m.palette /\ next.editor = m.editor
  BY <1>1 DEF ApplyThemes, Models, View
<1> HIDE DEF next
<1>3. CursorsGood(next)
  BY <1>2, RowsOfSnapshot DEF CursorsGood, Steady
<1> QED BY <1>1, <1>2, <1>3 DEF Steady, Apart, Themed, next

-----------------------------------------------------------------------------
(* The command line.                                                       *)

LEMMA PaletteSteady ==
  ASSUME NEW m, NEW theme, Steady(m, theme), NEW p \in Palettes, PaletteGood(p),
         p.active => ~IsOpen(m.editor) /\ m.view = "Main"
  PROVE  Steady([m EXCEPT !.palette = p], theme)
<1> DEFINE next == [m EXCEPT !.palette = p]
<1>1. m \in Models
  BY DEF Steady
<1>2. /\ next \in Models /\ next.palette = p /\ next.cursor = m.cursor /\ next.snap = m.snap /\ next.view = m.view
      /\ next.theme = m.theme /\ next.themeCursor = m.themeCursor /\ next.origin = m.origin /\ next.editor = m.editor
  BY <1>1 DEF Models
<1> HIDE DEF next
<1>3. CursorsGood(next)
  BY <1>2, RowsOfSnapshot DEF CursorsGood, Steady
<1> QED BY <1>2, <1>3 DEF Steady, Apart, Themed, next

LEMMA ShutIs == Shut \in Palettes /\ ~Shut.active /\ PaletteGood(Shut)
  BY DEF Shut, Palettes, PaletteGood, NoIndex

LEMMA ClosePaletteSteady ==
  ASSUME NEW m, NEW theme, Steady(m, theme)
  PROVE  /\ Steady(ClosePalette(m), theme)
         /\ ~ClosePalette(m).palette.active /\ ClosePalette(m).view = m.view
         /\ ClosePalette(m).editor = m.editor /\ ClosePalette(m).snap = m.snap
<1>1. m \in Models
  BY DEF Steady
<1>2. Steady([m EXCEPT !.palette = Shut], theme)
  BY ShutIs, PaletteSteady
<1> QED BY <1>1, <1>2, ShutIs DEF ClosePalette, Models

LEMMA EditSteady ==
  ASSUME NEW m, NEW theme, Steady(m, theme), ~IsOpen(m.editor), m.view = "Main", NEW input \in Lines
  PROVE  Steady(Edit(m, input), theme)
<1> DEFINE p == [active |-> TRUE, input |-> input, completions |-> Complete[input], idx |-> NoIndex]
<1>1. Complete[input] \in Seq(Lines)
  BY LinesAssumption DEF LinesAssumption
<1>2. Len(Complete[input]) \in Nat
  BY <1>1
<1>3. p \in Palettes /\ PaletteGood(p) /\ p.active
  BY <1>1, <1>2 DEF Palettes, PaletteGood, NoIndex
<1> HIDE DEF p
<1>4. Steady([m EXCEPT !.palette = p], theme)
  BY <1>3, PaletteSteady
<1> QED BY <1>4 DEF Edit, p

(* The lines that are left when the end of one is taken off it.            *)
LEMMA LinesAre ==
  ASSUME NEW line \in Lines
  PROVE  /\ line \in Seq(STRING) /\ Len(line) \in Nat /\ Len(line) > 0 /\ Head(line) = Prompt
         /\ Len(line) > 1 => Front(line) \in Lines
         /\ <<Head(line)>> \in Lines
         /\ DeleteWord(line) \in Lines
<1>1. /\ line \in Seq(STRING) /\ line # << >> /\ Head(line) = Prompt
      /\ \A n \in 1 .. Len(line) : SubSeq(line, 1, n) \in Lines
  BY LinesAssumption DEF LinesAssumption
<1>2. Len(line) \in Nat /\ Len(line) > 0 /\ DOMAIN line = 1 .. Len(line)
  BY <1>1
<1>3. Len(line) > 1 => Front(line) \in Lines
  <2>1. Front(line) = SubSeq(line, 1, Len(line) - 1)
    BY DEF Front
  <2>2. Len(line) > 1 => Len(line) - 1 \in 1 .. Len(line)
    BY <1>2
  <2> QED BY <1>1, <2>1, <2>2
<1>4. <<Head(line)>> \in Lines
  <2>1. SubSeq(line, 1, 1) = <<Head(line)>>
    <3>1. SubSeq(line, 1, 1) \in Seq(STRING) /\ Len(SubSeq(line, 1, 1)) = 1
      BY <1>1, <1>2
    <3>2. SubSeq(line, 1, 1)[1] = line[1] /\ Head(line) = line[1]
      BY <1>1, <1>2
    <3>3. line[1] \in STRING
      BY <1>1, <1>2
    <3>4. <<line[1]>> \in Seq(STRING) /\ Len(<<line[1]>>) = 1 /\ <<line[1]>>[1] = line[1]
      BY <3>3
    <3>5. \A i \in 1 .. 1 : SubSeq(line, 1, 1)[i] = <<line[1]>>[i]
      BY <3>2, <3>4
    <3>6. SubSeq(line, 1, 1) = <<line[1]>>
      BY <3>1, <3>4, <3>5, SeqEqual
    <3> QED BY <3>2, <3>6
  <2>2. 1 \in 1 .. Len(line)
    BY <1>2
  <2> QED BY <1>1, <2>1, <2>2
<1>5. WordStart(line) \in 1 .. Len(line)
  <2> DEFINE letters == {1} \cup {i \in DOMAIN line : line[i] # Space}
             end == Max(letters)
             spaces == {1} \cup {i \in 1 .. end : line[i] = Space}
  <2>1. letters \in SUBSET (1 .. Len(line)) /\ letters # {}
    BY <1>2
  <2> HIDE DEF letters
  <2>2. end \in 1 .. Len(line)
    BY <1>2, <2>1, GreatestOf
  <2> HIDE DEF end
  <2>3. spaces \in SUBSET (1 .. Len(line)) /\ spaces # {}
    BY <1>2, <2>2
  <2> HIDE DEF spaces
  <2>4. Max(spaces) \in 1 .. Len(line)
    BY <1>2, <2>3, GreatestOf
  <2> QED BY <2>4 DEF WordStart, letters, end, spaces
<1>6. DeleteWord(line) \in Lines
  BY <1>1, <1>5 DEF DeleteWord
<1> QED BY <1>1, <1>2, <1>3, <1>4, <1>6

LEMMA Remainder ==
  ASSUME NEW k \in Int, NEW n \in Nat, n > 0
  PROVE  k % n \in 0 .. n - 1
  OBVIOUS

LEMMA CycleSteady ==
  ASSUME NEW m, NEW theme, Steady(m, theme), m.palette.active, NEW step \in {1, -1}
  PROVE  Steady(Cycle(m, step), theme)
<1> DEFINE p == m.palette
           n == Len(p.completions)
           i == IF p.idx = NoIndex THEN (IF step = 1 THEN 1 ELSE n) ELSE 1 + ((p.idx - 1 + step) % n)
           q == [p EXCEPT !.idx = i, !.input = p.completions[i]]
<1>1. /\ m \in Models /\ p \in Palettes /\ PaletteGood(p) /\ p.active
      /\ ~IsOpen(m.editor) /\ m.view = "Main"
  BY ModelParts DEF Steady, Apart
<1>2. /\ p.completions \in Seq(Lines) /\ n \in Nat /\ DOMAIN p.completions = 1 .. n /\ p.idx \in Nat
      /\ \A k \in 1 .. n : p.completions[k] \in Lines
  BY <1>1, PaletteParts, Elements
<1>3. CASE n = 0
  BY <1>3 DEF Cycle
<1>4. CASE n > 0
  <2>1. (p.idx - 1 + step) % n \in 0 .. n - 1
    <3>1. p.idx - 1 + step \in Int
      BY <1>2
    <3> QED BY <3>1, <1>2, <1>4, Remainder
  <2>2. i \in 1 .. n
    BY <1>2, <1>4, <2>1 DEF NoIndex
  <2>3. Cycle(m, step) = [m EXCEPT !.palette.idx = i, !.palette.input = m.palette.completions[i]]
    BY <1>4 DEF Cycle
  <2> HIDE DEF i
  <2>4. Cycle(m, step) = [m EXCEPT !.palette = q]
    BY <1>1, <2>3 DEF Models, Palettes
  <2>5. /\ q \in Palettes /\ q.active /\ q.idx = i /\ q.input = p.completions[i] /\ q.completions = p.completions
    <3>1. p.completions[i] \in Lines /\ i \in Nat
      BY <1>2, <2>2
    <3> QED BY <1>1, <3>1 DEF Palettes
  <2> HIDE DEF q
  <2>6. PaletteGood(q)
    BY <1>2, <2>2, <2>5 DEF PaletteGood, NoIndex
  <2>7. Steady([m EXCEPT !.palette = q], theme)
    BY <1>1, <2>5, <2>6, PaletteSteady
  <2> QED BY <2>4, <2>7
<1> QED BY <1>2, <1>3, <1>4

-----------------------------------------------------------------------------
(* The editor put on the screen, and a snapshot that arrives.              *)

LEMMA EditorSteady ==
  ASSUME NEW m, NEW theme, Steady(m, theme), NEW ed, EditorGood(ed, m.snap),
         IsOpen(ed) => ~m.palette.active /\ m.view = "Main"
  PROVE  Steady([m EXCEPT !.editor = ed], theme) /\ [m EXCEPT !.editor = ed].editor = ed
<1> DEFINE next == [m EXCEPT !.editor = ed]
<1>1. m \in Models /\ ed \in Editors
  BY DEF Steady, EditorGood
<1>2. /\ next \in Models /\ next.palette = m.palette /\ next.cursor = m.cursor /\ next.snap = m.snap /\ next.view = m.view
      /\ next.theme = m.theme /\ next.themeCursor = m.themeCursor /\ next.origin = m.origin /\ next.editor = ed
  BY <1>1 DEF Models
<1> HIDE DEF next
<1>3. CursorsGood(next)
  BY <1>2, RowsOfSnapshot DEF CursorsGood, Steady
<1> QED BY <1>2, <1>3 DEF Steady, Apart, Themed, next

LEMMA CloseEditorSteady ==
  ASSUME NEW m, NEW theme, Steady(m, theme)
  PROVE  Steady(CloseEditor(m), theme) /\ CloseEditor(m).editor = Closed
  BY ClosedIs, EditorSteady DEF CloseEditor

LEMMA SetSnapshotSteady ==
  ASSUME NEW m, NEW theme, Steady(m, theme), NEW snap \in Snapshots
  PROVE  /\ Steady(SetSnapshot(m, snap), theme)
         /\ SetSnapshot(m, snap).pending = m.pending /\ SetSnapshot(m, snap).count = m.count
         /\ SetSnapshot(m, snap).palette = m.palette /\ SetSnapshot(m, snap).view = m.view
         /\ SetSnapshot(m, snap).editor.stage = m.editor.stage
         /\ SetSnapshot(m, snap).editor.hidden = m.editor.hidden
         /\ SetSnapshot(m, snap).editor.name = m.editor.name
         /\ SetSnapshot(m, snap).editor.before = m.editor.before
         /\ SetSnapshot(m, snap).editor.editing = m.editor.editing
<1> DEFINE told == [m EXCEPT !.snap = snap]
           cursor == [p \in Panel |-> Least(told.cursor[p], LastRow(told, p))]
           ed == CursorTo(m.editor, snap, Cursor(m.editor))
           next == SetSnapshot(m, snap)
<1>1. /\ m \in Models /\ m.editor \in Editors /\ (m.editor.asked # Blank => m.editor.stage = "Picker")
      /\ m.cursor \in [Panel -> Nat]
  BY ModelParts DEF Steady, EditorGood
<1>2. told \in Models /\ told.snap = snap /\ told.cursor = m.cursor /\ told.editor = m.editor
  BY <1>1 DEF Models
<1>3. next = [told EXCEPT !.cursor = cursor, !.editor = ed]
  BY <1>2 DEF SetSnapshot, ClampCursors
<1>4. Cursor(m.editor) \in Nat
  BY <1>1, CursorType
<1>5. /\ ed \in Editors /\ EditorGood(ed, snap) /\ ed.stage = m.editor.stage /\ ed.hidden = m.editor.hidden
      /\ ed.name = m.editor.name /\ ed.before = m.editor.before /\ ed.editing = m.editor.editing
  BY <1>1, <1>4, CursorToIs DEF EditorGood
<1> HIDE DEF ed
<1>6. cursor \in [Panel -> Nat] /\ \A p \in Panel : cursor[p] <= LastRow(told, p)
  <2>1. \A p \in Panel : told.cursor[p] \in Nat /\ LastRow(told, p) \in Nat
    BY <1>1, <1>2, RowsAre
  <2> QED BY <2>1, Bounds
<1> HIDE DEF cursor
<1>7. /\ told.pending = m.pending /\ told.count = m.count /\ told.palette = m.palette /\ told.view = m.view
      /\ told.theme = m.theme /\ told.themeCursor = m.themeCursor /\ told.origin = m.origin
  BY <1>1 DEF Models
<1> HIDE DEF told, next
<1>8. /\ next \in Models /\ next.snap = snap /\ next.cursor = cursor /\ next.editor = ed
      /\ next.pending = told.pending /\ next.count = told.count /\ next.palette = told.palette /\ next.view = told.view
      /\ next.theme = told.theme /\ next.themeCursor = told.themeCursor /\ next.origin = told.origin
  BY <1>2, <1>3, <1>5, <1>6 DEF Models
<1>9. CursorsGood(next)
  BY <1>2, <1>6, <1>8, RowsOfSnapshot DEF CursorsGood
<1>10. IsOpen(ed) <=> IsOpen(m.editor)
  BY <1>5 DEF IsOpen
<1>11. Steady(next, theme)
  BY <1>5, <1>7, <1>8, <1>9, <1>10 DEF Steady, Apart, Themed
<1> QED BY <1>5, <1>7, <1>8, <1>11 DEF next

-----------------------------------------------------------------------------
(* What a key or a click can mean, by what owns the keyboard.              *)

Plain(ops) == [op : ops, arg : {0}]
Simples ==
  {"toggle_stream", "toggle_record", "reload_config", "dump_config", "validate_config",
   "reconnect_obs", "get_obs_status", "get_server_status"}
Directions == {"left", "right", "up", "down", "next", "prev"}

AnyonesActions ==
  Plain({"Nothing", "RetryConnect", "ClearPending", "ClosePalette"})
  \cup [op : {"LogScrollUp", "LogScrollDown"}, arg : Nat]
  \cup [op : {"Select", "ActivateRow"}, arg : [panel : Panel, row : Nat]]
Motions ==
  [op : {"NavUp", "NavDown"}, arg : Int]
  \cup Plain({"NavTop", "NavBottom", "NavHalfPageUp", "NavHalfPageDown"})
Counts == [op : {"PushCount"}, arg : Nat]

PaletteActions ==
  AnyonesActions
  \cup Plain({"PaletteBackspace", "PaletteClear", "PaletteDeleteWord", "CompleteNext", "CompletePrev", "PaletteSubmit"})
  \cup [op : {"PaletteChar"}, arg : Key]

EditorMotions == [op : {"EditorNavUp", "EditorNavDown", "EditorSelect"}, arg : Nat]
AskedActions == Plain({"DeleteConfirm", "DeleteCancel"})
PickerActions ==
  EditorMotions \cup Plain({"PickerConfirm", "EditorActivate", "ClearActive", "Delete", "CloseSceneProfiles"})
ScenesActions == EditorMotions \cup Plain({"ToggleHidden", "BeginNaming", "Save", "Back"})
NamingActions == EditorMotions \cup Plain({"NameCommit", "NameEdit", "NameCancel"})
EditorActions(ed) ==
  Plain({"Nothing", "Quit"})
  \cup (IF ed.asked # Blank THEN AskedActions
        ELSE IF ed.stage = "Picker" THEN PickerActions
        ELSE IF ed.stage = "Scenes" THEN ScenesActions
        ELSE NamingActions)

SettingsActions ==
  Motions \cup Counts
  \cup Plain({"Nothing", "Quit", "ClearPending", "CloseSettings", "ApplySettingsTheme"})
  \cup [op : {"SetPending"}, arg : {"g"}] \cup [op : {"SettingsSelect"}, arg : Nat]

DashboardActions ==
  AnyonesActions \cup Motions \cup Counts
  \cup Plain({"Quit", "OpenSettings", "OpenSceneProfiles", "SceneProfileCycleNext", "ToggleIcons", "ToggleAdvancedUi",
              "Activate", "ToggleMute"})
  \cup [op : {"Volume"}, arg : Int] \cup [op : {"Focus"}, arg : Panel] \cup [op : {"Pane"}, arg : Directions]
  \cup [op : {"Simple"}, arg : Simples] \cup [op : {"SetPending"}, arg : Pending]
  \cup [op : {"OpenPalette"}, arg : Menus]

Means(m) ==
  IF m.palette.active THEN PaletteActions
  ELSE IF IsOpen(m.editor) THEN EditorActions(m.editor)
  ELSE IF m.view = "Settings" THEN SettingsActions
  ELSE DashboardActions

(* The tables.                                                             *)
Within(table, actions) == \A k \in DOMAIN table : table[k] \in actions

LEMMA TableIn == \A bindings, S : (\A b \in bindings : b[2] \in S) => Within(Table(bindings), S)
<1> TAKE bindings, S
<1>1. ASSUME \A b \in bindings : b[2] \in S, NEW k \in DOMAIN Table(bindings)
      PROVE  Table(bindings)[k] \in S
  <2>1. \E b \in bindings : b[1] = k
    BY <1>1 DEF Table
  <2>2. (CHOOSE b \in bindings : b[1] = k) \in bindings
    BY <2>1
  <2>3. Table(bindings)[k] = (CHOOSE b \in bindings : b[1] = k)[2]
    BY <1>1 DEF Table
  <2> QED BY <1>1, <2>2, <2>3
<1> QED BY <1>1 DEF Within
LEMMA Bind == \A k, a : (k := a)[2] = a
  BY DEF :=
LEMMA KeysIn == \A keys, a, b : b \in Keys(keys, a) => b[2] = a
  BY Bind DEF Keys
LEMMA BoundIn == \A table, S, k : Within(table, S) /\ Nothing \in S => Bound(table, k) \in S
  BY DEF Within, Bound

LEMMA DigitsAre == Within(Digit, Nat)
  BY TableIn, Bind DEF Digit

LEMMA DashboardHas ==
  /\ \A op \in {"Nothing", "RetryConnect", "ClearPending", "ClosePalette", "NavTop", "NavBottom", "NavHalfPageUp",
                "NavHalfPageDown", "Quit", "OpenSettings", "OpenSceneProfiles", "SceneProfileCycleNext", "ToggleIcons",
                "ToggleAdvancedUi", "Activate", "ToggleMute"} : Do(op) \in DashboardActions
  /\ \A n \in Int : \A op \in {"NavUp", "NavDown", "Volume"} : Act(op, n) \in DashboardActions
  /\ \A n \in Nat : \A op \in {"LogScrollUp", "LogScrollDown", "PushCount"} : Act(op, n) \in DashboardActions
  /\ \A op \in {"Select", "ActivateRow"} : \A r \in [panel : Panel, row : Nat] : Act(op, r) \in DashboardActions
  /\ \A p \in Panel : Act("Focus", p) \in DashboardActions
  /\ \A d \in Directions : Act("Pane", d) \in DashboardActions
  /\ \A s \in Simples : Act("Simple", s) \in DashboardActions
  /\ \A k \in Pending : Act("SetPending", k) \in DashboardActions
  /\ \A s \in Menus : OpenPalette(s) \in DashboardActions
  BY DEF Act, Do, OpenPalette, DashboardActions, AnyonesActions, Motions, Counts, Plain

LEMMA MenusIn ==
  ASSUME NEW pending \in Pending \ {"none"}
  PROVE  Within(Menu(pending), DashboardActions)
<1> DEFINE D == DashboardActions
<1>1. Within(LeaderRoot, D)
  <2>1. \A k \in Group : Act("SetPending", k) \in D
    BY DashboardHas DEF Pending
  <2>2. /\ Do("OpenSceneProfiles") \in D /\ Do("SceneProfileCycleNext") \in D /\ OpenPalette("none") \in D
        /\ Do("Quit") \in D
    BY DashboardHas DEF Menus
  <2> HIDE DEF D
  <2> QED BY <2>1, <2>2, TableIn, Bind DEF LeaderRoot
<1>2. Within(LeaderFind, D)
  <2>1. \A s \in Menus : OpenPalette(s) \in D
    BY DashboardHas
  <2> HIDE DEF D
  <2> QED BY <2>1, TableIn, Bind DEF LeaderFind, Menus
<1>3. Within(LeaderPanel, D)
  <2>1. \A p \in Panel : Act("Focus", p) \in D
    BY DashboardHas
  <2> HIDE DEF D
  <2> QED BY <2>1, TableIn, Bind DEF LeaderPanel, Panel
<1>4. Within(LeaderStream, D) /\ Within(LeaderConfig, D) /\ Within(LeaderObs, D)
  <2>1. Do("RetryConnect") \in D /\ \A s \in Simples : Act("Simple", s) \in D
    BY DashboardHas
  <2> HIDE DEF D
  <2> QED BY <2>1, TableIn, Bind DEF LeaderStream, LeaderConfig, LeaderObs, Simples
<1>5. Within(LeaderUi, D) /\ Within(Table({"g" := Do("NavTop")}), D)
  <2>1. Do("OpenSettings") \in D /\ Do("ToggleIcons") \in D /\ Do("ToggleAdvancedUi") \in D /\ Do("NavTop") \in D
    BY DashboardHas
  <2> HIDE DEF D
  <2> QED BY <2>1, TableIn, Bind DEF LeaderUi
<1>6. pending \in {"g", "leader", "f", "p", "s", "c", "o", "u"}
  BY DEF Pending, Group
<1> HIDE DEF D
<1>7. Within(Menu(pending), D)
  BY <1>1, <1>2, <1>3, <1>4, <1>5, <1>6 DEF Menu
<1> QED BY <1>7 DEF D

LEMMA MotionsIn ==
  ASSUME NEW S, NEW count \in Int, NEW key,
         Nothing \in S, Act("SetPending", "g") \in S,
         \A op \in {"NavTop", "NavBottom", "NavHalfPageUp", "NavHalfPageDown"} : Do(op) \in S,
         \A op \in {"NavUp", "NavDown"} : Act(op, count) \in S
  PROVE  MotionKey(key, count) \in S
  BY TableIn, Bind, KeysIn, BoundIn DEF MotionKey, MotionKeys

LEMMA CountsAre ==
  ASSUME NEW S, NEW typed, NEW key \in DOMAIN Digit, Nothing \in S, \A n \in Nat : Act("PushCount", n) \in S
  PROVE  CountDigit(typed, key) \in S
  BY DigitsAre DEF CountDigit, Within

LEMMA MainKeyIn ==
  ASSUME NEW focus, NEW typed, NEW count \in Nat, NEW key
  PROVE  MainKey(focus, typed, count, key) \in DashboardActions
<1> DEFINE D == DashboardActions
<1>1. Within(DashboardKeys, D)
  <2>1. /\ \A op \in {"Quit", "OpenSettings", "ClearPending", "RetryConnect", "SceneProfileCycleNext"} : Do(op) \in D
        /\ \A d \in Directions : Act("Pane", d) \in D
        /\ \A s \in Simples : Act("Simple", s) \in D
        /\ \A p \in Panel : Act("Focus", p) \in D
        /\ OpenPalette("none") \in D /\ Act("SetPending", "leader") \in D
    BY DashboardHas DEF Menus, Pending
  <2>2. /\ Do("Quit") \in D /\ Do("OpenSettings") \in D /\ Do("ClearPending") \in D /\ Do("RetryConnect") \in D
        /\ Do("SceneProfileCycleNext") \in D
        /\ Act("Pane", "left") \in D /\ Act("Pane", "right") \in D /\ Act("Pane", "up") \in D
        /\ Act("Pane", "down") \in D /\ Act("Pane", "next") \in D /\ Act("Pane", "prev") \in D
        /\ Act("Simple", "reload_config") \in D /\ Act("Simple", "dump_config") \in D
        /\ Act("Focus", "Scenes") \in D /\ Act("Focus", "Audio") \in D /\ Act("Focus", "Profiles") \in D
        /\ Act("Focus", "Collections") \in D
    BY <2>1 DEF Directions, Simples, Panel
  <2> HIDE DEF D
  <2> QED BY <2>1, <2>2, TableIn, Bind, KeysIn DEF DashboardKeys
<1>2. Within(AudioKeys(count), D)
  <2>1. /\ Do("ToggleMute") \in D /\ Act("NavUp", count) \in D /\ Act("NavDown", count) \in D
        /\ Act("Volume", count) \in D /\ Act("Volume", 0 - count) \in D
    <3>1. count \in Int /\ 0 - count \in Int
      OBVIOUS
    <3> QED BY <3>1, DashboardHas
  <2> HIDE DEF D
  <2> QED BY <2>1, TableIn, Bind, KeysIn DEF AudioKeys
<1>3. Do("Activate") \in D
  BY DashboardHas
<1>4. key \in DOMAIN Digit => CountDigit(typed, key) \in D
  BY DashboardHas, CountsAre DEF Nothing
<1>5. MotionKey(key, count) \in D
  <2>1. /\ Nothing \in D /\ Act("SetPending", "g") \in D
        /\ \A op \in {"NavTop", "NavBottom", "NavHalfPageUp", "NavHalfPageDown"} : Do(op) \in D
        /\ \A op \in {"NavUp", "NavDown"} : Act(op, count) \in D
    BY DashboardHas DEF Nothing, Pending
  <2> HIDE DEF D
  <2> QED BY <2>1, MotionsIn
<1> HIDE DEF D
<1>6. MainKey(focus, typed, count, key) \in D
  BY <1>1, <1>2, <1>3, <1>4, <1>5 DEF MainKey, Within
<1> QED BY <1>6 DEF D

LEMMA SettingsHas ==
  /\ \A op \in {"Nothing", "Quit", "ClearPending", "CloseSettings", "ApplySettingsTheme", "NavTop", "NavBottom",
                "NavHalfPageUp", "NavHalfPageDown"} : Do(op) \in SettingsActions
  /\ \A n \in Int : \A op \in {"NavUp", "NavDown"} : Act(op, n) \in SettingsActions
  /\ \A n \in Nat : \A op \in {"PushCount", "SettingsSelect"} : Act(op, n) \in SettingsActions
  /\ Act("SetPending", "g") \in SettingsActions
  BY DEF Act, Do, SettingsActions, Motions, Counts, Plain

LEMMA SettingsKeyIn ==
  ASSUME NEW typed, NEW count \in Nat, NEW key
  PROVE  SettingsKey(typed, count, key) \in SettingsActions
<1>1. key \in DOMAIN Digit => CountDigit(typed, key) \in SettingsActions
  BY SettingsHas, CountsAre DEF Nothing
<1>2. MotionKey(key, count) \in SettingsActions
  BY SettingsHas, MotionsIn DEF Nothing
<1> QED BY <1>1, <1>2, SettingsHas DEF SettingsKey

LEMMA PaletteHas ==
  /\ \A op \in {"Nothing", "RetryConnect", "ClearPending", "ClosePalette", "PaletteBackspace", "PaletteClear",
                "PaletteDeleteWord", "CompleteNext", "CompletePrev", "PaletteSubmit"} : Do(op) \in PaletteActions
  /\ \A n \in Nat : \A op \in {"LogScrollUp", "LogScrollDown"} : Act(op, n) \in PaletteActions
  /\ \A op \in {"Select", "ActivateRow"} : \A r \in [panel : Panel, row : Nat] : Act(op, r) \in PaletteActions
  /\ \A k \in Key : Act("PaletteChar", k) \in PaletteActions
  BY DEF Act, Do, PaletteActions, AnyonesActions, Plain

LEMMA ActsAre == \A op, arg : Act(op, arg).op = op /\ Act(op, arg).arg = arg /\ Do(op).op = op
  BY DEF Act, Do

LEMMA PaletteKeyIn ==
  ASSUME NEW length \in Nat, NEW key
  PROVE  /\ PaletteKey(length, key) \in PaletteActions
         /\ PaletteKey(length, key).op = "PaletteBackspace" => length > 1
<1>1. PaletteKey(length, key) \in PaletteActions
  BY PaletteHas DEF PaletteKey, Nothing, Key, Control
<1>2. PaletteKey(length, key).op = "PaletteBackspace" => length > 1
  BY ActsAre DEF PaletteKey, Nothing
<1> QED BY <1>1, <1>2

LEMMA EditorHas ==
  ASSUME NEW ed
  PROVE  /\ Nothing \in EditorActions(ed) /\ Do("Quit") \in EditorActions(ed)
         /\ ed.asked # Blank => Do("DeleteConfirm") \in EditorActions(ed) /\ Do("DeleteCancel") \in EditorActions(ed)
         /\ ed.asked = Blank =>
              \A op \in {"EditorNavUp", "EditorNavDown", "EditorSelect"} : \A n \in Nat : Act(op, n) \in EditorActions(ed)
         /\ ed.asked = Blank /\ ed.stage = "Picker" =>
              \A op \in {"PickerConfirm", "EditorActivate", "ClearActive", "Delete", "CloseSceneProfiles"} :
                Do(op) \in EditorActions(ed)
         /\ ed.asked = Blank /\ ed.stage = "Scenes" =>
              \A op \in {"ToggleHidden", "BeginNaming", "Save", "Back"} : Do(op) \in EditorActions(ed)
         /\ ed.asked = Blank /\ ed.stage = "Naming" =>
              \A op \in {"NameCommit", "NameEdit", "NameCancel"} : Do(op) \in EditorActions(ed)
  BY DEF Act, Do, Nothing, EditorActions, AskedActions, PickerActions, ScenesActions, NamingActions, EditorMotions, Plain

LEMMA EditorKeyIn ==
  ASSUME NEW ed, ed.stage \in {"Picker", "Scenes", "Naming"}, NEW key
  PROVE  EditorKey(ed.stage, ed.asked # Blank, key) \in EditorActions(ed)
<1> DEFINE S == EditorActions(ed)
<1>1. Nothing \in S /\ Do("Quit") \in S
  BY EditorHas
<1>2. CASE ed.asked # Blank
  <2>1. Do("DeleteConfirm") \in S /\ Do("DeleteCancel") \in S
    BY <1>2, EditorHas
  <2> HIDE DEF S
  <2>2. Within(DeleteKeys, S)
    BY <2>1, TableIn, KeysIn DEF DeleteKeys, Editor
  <2>3. EditorKey(ed.stage, ed.asked # Blank, key) \in S
    BY <1>1, <1>2, <2>2, BoundIn DEF EditorKey
  <2> QED BY <2>3 DEF S
<1>3. CASE ed.asked = Blank
  <2>1. Act("EditorNavDown", 1) \in S /\ Act("EditorNavUp", 1) \in S
    BY <1>3, EditorHas
  <2>2. CASE ed.stage = "Picker"
    <3>1. /\ Do("PickerConfirm") \in S /\ Do("EditorActivate") \in S /\ Do("ClearActive") \in S /\ Do("Delete") \in S
          /\ Do("CloseSceneProfiles") \in S
      BY <1>3, <2>2, EditorHas
    <3> HIDE DEF S
    <3>2. Within(PickerKeys, S)
      BY <2>1, <3>1, TableIn, Bind, KeysIn DEF PickerKeys, EditorMotion, Editor
    <3>3. EditorKey(ed.stage, ed.asked # Blank, key) \in S
      BY <1>1, <1>3, <2>2, <3>2, BoundIn DEF EditorKey
    <3> QED BY <3>3 DEF S
  <2>3. CASE ed.stage = "Scenes"
    <3>1. Do("ToggleHidden") \in S /\ Do("BeginNaming") \in S /\ Do("Save") \in S /\ Do("Back") \in S
      BY <1>3, <2>3, EditorHas
    <3> HIDE DEF S
    <3>2. Within(ScenesKeys, S)
      BY <2>1, <3>1, TableIn, Bind, KeysIn DEF ScenesKeys, EditorMotion, Editor
    <3>3. EditorKey(ed.stage, ed.asked # Blank, key) \in S
      BY <1>1, <1>3, <2>3, <3>2, BoundIn DEF EditorKey
    <3> QED BY <3>3 DEF S
  <2>4. CASE ed.stage = "Naming"
    <3>1. Do("NameCommit") \in S /\ Do("NameEdit") \in S /\ Do("NameCancel") \in S
      BY <1>3, <2>4, EditorHas
    <3> HIDE DEF S
    <3>2. Within(NamingKeys, S)
      BY <3>1, TableIn, Bind, KeysIn DEF NamingKeys, Editor
    <3>3. EditorKey(ed.stage, ed.asked # Blank, key) \in S
      BY <1>1, <1>3, <2>4, <3>2, BoundIn DEF EditorKey
    <3> QED BY <3>3 DEF S
  <2> QED BY <2>2, <2>3, <2>4
<1> QED BY <1>2, <1>3

(* The keyboard and the mouse.                                             *)
LEMMA CountIs ==
  ASSUME NEW m \in Models
  PROVE  Count(m) \in Nat
  BY ModelParts, Sizes DEF Count

LEMMA KeyMeans ==
  ASSUME NEW m \in Models, Apart(m), Quiet(m), NEW key
  PROVE  /\ KeyAction(m, key) \in Means(m)
         /\ m.palette.active /\ KeyAction(m, key).op = "PaletteBackspace" => Len(m.palette.input) > 1
<1>1. /\ m.palette \in Palettes /\ m.palette.active \in BOOLEAN /\ Len(m.palette.input) \in Nat
      /\ m.view \in View /\ m.pending \in Pending /\ m.editor.stage \in Stage /\ Count(m) \in Nat
  <2>1. m.palette.input \in Lines \cup {<< >>}
    BY ModelParts, PaletteParts
  <2>2. Len(m.palette.input) \in Nat
    BY <2>1, LinesAre
  <2> QED BY <2>2, ModelParts, PaletteParts, EditorParts, CountIs
<1>2. CASE m.palette.active
  BY <1>1, <1>2, PaletteKeyIn DEF KeyAction, Means
<1>3. CASE ~m.palette.active /\ IsOpen(m.editor)
  <2>1. m.editor.stage \in {"Picker", "Scenes", "Naming"}
    BY <1>1, <1>3 DEF Stage, IsOpen
  <2>2. EditorKey(m.editor.stage, m.editor.asked # Blank, key) \in EditorActions(m.editor)
    BY <2>1, EditorKeyIn
  <2> QED BY <1>3, <2>2 DEF KeyAction, Means
<1>4. CASE ~m.palette.active /\ ~IsOpen(m.editor) /\ m.pending # "none"
  <2>1. KeyAction(m, key) = PendingKey(m.pending, key)
    BY <1>4 DEF KeyAction
  <2>2. CASE m.view = "Settings"
    <3>1. m.pending = "g"
      BY <1>4, <2>2 DEF Quiet
    <3>2. Do("NavTop") \in SettingsActions /\ Do("ClearPending") \in SettingsActions
      BY SettingsHas
    <3>3. Within(Menu("g"), SettingsActions)
      BY <3>2, TableIn, Bind DEF Menu
    <3>4. PendingKey("g", key) \in SettingsActions
      BY <3>2, <3>3 DEF PendingKey, Within
    <3> QED BY <1>4, <2>1, <2>2, <3>1, <3>4 DEF Means
  <2>3. CASE m.view # "Settings"
    <3>1. Within(Menu(m.pending), DashboardActions)
      BY <1>1, <1>4, MenusIn
    <3>2. Do("ClearPending") \in DashboardActions
      BY DashboardHas
    <3>3. PendingKey(m.pending, key) \in DashboardActions
      BY <3>1, <3>2 DEF PendingKey, Within
    <3> QED BY <1>4, <2>1, <2>3, <3>3 DEF Means
  <2> QED BY <2>2, <2>3
<1>5. CASE ~m.palette.active /\ ~IsOpen(m.editor) /\ m.pending = "none"
  <2>1. KeyAction(m, key) = IF m.view = "Settings" THEN SettingsKey(m.count, Count(m), key)
                            ELSE MainKey(m.focus, m.count, Count(m), key)
    BY <1>5 DEF KeyAction
  <2> QED BY <1>1, <1>5, <2>1, SettingsKeyIn, MainKeyIn DEF Means
<1> QED BY <1>2, <1>3, <1>4, <1>5

LEMMA ClicksAre ==
  ASSUME NEW c \in Click
  PROVE  /\ c.what \in {"left", "right", "up", "down"} /\ c.row \in Nat
         /\ c.area \in Panel \cup {"list", "logs", "palette"}
  BY DEF Click, Button

LEMMA PanelClickIn ==
  ASSUME NEW m \in Models, NEW c \in Click, c.area \in Panel, c.what # "right"
  PROVE  \/ PanelClick(m, c) = Nothing
         \/ \E op \in {"Select", "ActivateRow"} : \E r \in [panel : Panel, row : Nat] : PanelClick(m, c) = Act(op, r)
<1>1. m.cursor[c.area] \in Nat /\ Wheel \in Nat
  BY ModelParts, Sizes
<1>2. AtLeast0(m.cursor[c.area] - Wheel) \in Nat /\ m.cursor[c.area] + Wheel \in Nat
  <2>1. m.cursor[c.area] - Wheel \in Int
    BY <1>1
  <2>2. AtLeast0(m.cursor[c.area] - Wheel) \in Nat
    BY <2>1, Bounds
  <2> QED BY <1>1, <2>2
<1> DEFINE up == [panel |-> c.area, row |-> AtLeast0(m.cursor[c.area] - Wheel)]
           down == [panel |-> c.area, row |-> m.cursor[c.area] + Wheel]
           here == [panel |-> c.area, row |-> c.row]
<1>3. {up, down, here} \subseteq [panel : Panel, row : Nat]
  BY <1>2, ClicksAre
<1>4. PanelClick(m, c) \in {Nothing, Act("Select", up), Act("Select", down), Act("Select", here), Act("ActivateRow", here)}
  BY ClicksAre DEF PanelClick
<1> HIDE DEF up, down, here
<1> QED BY <1>3, <1>4

LEMMA MainClickIn ==
  ASSUME NEW m \in Models, NEW c \in Click, ~IsOpen(m.editor), m.view = "Main"
  PROVE  MainClick(m, c) \in Means(m)
<1> DEFINE S == Means(m)
<1>1. S = IF m.palette.active THEN PaletteActions ELSE DashboardActions
  BY DEF Means
<1>2. /\ Nothing \in S /\ Do("ClosePalette") \in S /\ Do("ClearPending") \in S
      /\ Act("LogScrollUp", Wheel) \in S /\ Act("LogScrollDown", Wheel) \in S
      /\ \A op \in {"Select", "ActivateRow"} : \A r \in [panel : Panel, row : Nat] : Act(op, r) \in S
  BY <1>1, PaletteHas, DashboardHas, Sizes DEF Nothing
<1>3. /\ ~m.palette.active => OpenPalette("none") \in S
      /\ m.palette.active => Do("CompleteNext") \in S /\ Do("CompletePrev") \in S
  BY <1>1, PaletteHas, DashboardHas DEF Menus
<1> HIDE DEF S
<1>4. c.what \in {"left", "up", "down"} => PaletteClick(m, c) \in S
  BY <1>2, <1>3 DEF PaletteClick
<1>5. LogsClick(c) \in S
  BY <1>2 DEF LogsClick
<1>6. c.area \in Panel /\ c.what # "right" => PanelClick(m, c) \in S
  BY <1>2, PanelClickIn
<1>7. MainClick(m, c) \in S
  BY <1>2, <1>4, <1>5, <1>6, ClicksAre DEF MainClick
<1> QED BY <1>7 DEF S

LEMMA MouseMeans ==
  ASSUME NEW m \in Models, Apart(m), NEW c \in Click
  PROVE  /\ MouseAction(m, c) \in Means(m)
         /\ MouseAction(m, c).op # "PaletteBackspace"
<1>1. m.view \in {"Main", "Settings"} /\ m.editor.stage \in Stage /\ m.connected \in BOOLEAN
  BY ModelParts, EditorParts DEF View
<1>2. CASE m.view = "Settings"
  <2>1. ~m.palette.active /\ ~IsOpen(m.editor)
    BY <1>2 DEF Apart
  <2>2. SettingsClick(m, c) \in SettingsActions
    <3>1. Nothing \in SettingsActions
      BY SettingsHas DEF Nothing
    <3>2. Wheel \in Int
      BY Sizes
    <3> QED BY <3>1, <3>2, SettingsHas, ClicksAre DEF SettingsClick
  <2>3. MouseAction(m, c) = SettingsClick(m, c)
    BY <1>2 DEF MouseAction, Drawn
  <2>4. SettingsClick(m, c).op # "PaletteBackspace"
    BY <2>2 DEF SettingsActions, Motions, Counts, Plain
  <2> QED BY <1>2, <2>1, <2>2, <2>3, <2>4 DEF Means
<1>3. CASE m.view = "Main" /\ IsOpen(m.editor)
  <2>1. ~m.palette.active /\ m.editor.stage \in {"Picker", "Scenes", "Naming"}
    BY <1>1, <1>3 DEF Apart, IsOpen, Stage
  <2> DEFINE ed == m.editor
             S == EditorActions(ed)
             away == [Picker |-> Do("CloseSceneProfiles"), Scenes |-> Editor("Back"), Naming |-> Editor("NameCancel")]
  <2>2. Nothing \in S /\ (ed.asked # Blank => Editor("DeleteCancel") \in S)
    BY EditorHas DEF Editor
  <2>3. ed.asked = Blank => \A op \in {"EditorNavUp", "EditorNavDown", "EditorSelect"} : \A n \in Nat : Act(op, n) \in S
    BY EditorHas
  <2>4. ed.asked = Blank => away[ed.stage] \in S
    BY <2>1, EditorHas DEF Editor
  <2>5. ed.asked = Blank /\ ed.stage = "Picker" => Editor("EditorActivate") \in S
    BY EditorHas DEF Editor
  <2> HIDE DEF S, away
  <2>6. EditorClick(ed, m.snap, c) \in S
    <3>1. CASE ed.asked # Blank
      BY <2>2, <3>1 DEF EditorClick
    <3>2. CASE ed.asked = Blank /\ c.what = "right"
      BY <2>4, <3>2 DEF EditorClick, away
    <3>3. CASE ed.asked = Blank /\ c.what \in {"up", "down"}
      BY <2>2, <2>3, <3>3, Sizes DEF EditorClick
    <3>4. CASE ed.asked = Blank /\ c.what = "left"
      BY <2>2, <2>3, <2>5, <3>4, ClicksAre DEF EditorClick
    <3> QED BY <3>1, <3>2, <3>3, <3>4, ClicksAre
  <2>7. MouseAction(m, c) = EditorClick(ed, m.snap, c)
    BY <1>3 DEF MouseAction, Drawn
  <2>8. \A a \in S : a.op # "PaletteBackspace"
    BY DEF S, EditorActions, AskedActions, PickerActions, ScenesActions, NamingActions, EditorMotions, Plain
  <2> QED BY <1>3, <2>1, <2>6, <2>7, <2>8 DEF Means, S
<1>4. CASE m.view = "Main" /\ ~IsOpen(m.editor) /\ m.connected
  <2>1. MouseAction(m, c) = MainClick(m, c)
    BY <1>4 DEF MouseAction, Drawn
  <2>2. MainClick(m, c).op # "PaletteBackspace"
    <3>1. c.area \in Panel /\ c.what # "right" => PanelClick(m, c).op # "PaletteBackspace"
      BY PanelClickIn, ActsAre DEF Nothing
    <3>2. LogsClick(c).op # "PaletteBackspace"
      BY ActsAre DEF LogsClick, Nothing
    <3>3. c.what \in {"left", "up", "down"} => PaletteClick(m, c).op # "PaletteBackspace"
      BY ActsAre DEF PaletteClick, Nothing, OpenPalette
    <3> QED BY <3>1, <3>2, <3>3, ActsAre, ClicksAre DEF MainClick, Nothing
  <2> QED BY <1>4, <2>1, <2>2, MainClickIn
<1>5. CASE m.view = "Main" /\ ~IsOpen(m.editor) /\ ~m.connected
  <2>1. MouseAction(m, c) = IF c.what = "left" THEN Do("RetryConnect") ELSE Nothing
    BY <1>5 DEF MouseAction, Drawn
  <2> QED BY <1>5, <2>1, PaletteHas, DashboardHas, ActsAre DEF Means, Nothing
<1> QED BY <1>1, <1>2, <1>3, <1>4, <1>5

-----------------------------------------------------------------------------
(* What an action tells of the model it was meant for.                     *)

Motionless == {"OpenSettings", "OpenSceneProfiles", "SceneProfileCycleNext", "ToggleIcons", "ToggleAdvancedUi",
               "Activate", "ToggleMute", "Volume", "Focus", "Pane", "Simple", "OpenPalette"}
Typings == {"PaletteBackspace", "PaletteClear", "PaletteDeleteWord", "CompleteNext", "CompletePrev", "PaletteSubmit",
            "PaletteChar"}
Pickings == {"PickerConfirm", "EditorActivate", "ClearActive", "Delete", "CloseSceneProfiles"}
Scenings == {"ToggleHidden", "BeginNaming", "Save", "Back"}
Namings == {"NameCommit", "NameEdit", "NameCancel"}
Rowings == {"EditorNavUp", "EditorNavDown", "EditorSelect"}

LEMMA PaletteMeant ==
  ASSUME NEW a \in PaletteActions
  PROVE  /\ a.op \in {"Nothing", "RetryConnect", "ClearPending", "ClosePalette", "LogScrollUp", "LogScrollDown",
                      "Select", "ActivateRow"} \cup Typings
         /\ a.op \in {"LogScrollUp", "LogScrollDown"} => a.arg \in Nat
         /\ a.op \in {"Select", "ActivateRow"} => a.arg \in [panel : Panel, row : Nat]
  BY DEF PaletteActions, AnyonesActions, Plain, Typings

LEMMA EditorMeant ==
  ASSUME NEW ed, NEW a \in EditorActions(ed)
  PROVE  /\ a.op \in {"Nothing", "Quit", "DeleteConfirm", "DeleteCancel"} \cup Pickings \cup Scenings \cup Namings \cup Rowings
         /\ a.op = "DeleteConfirm" => ed.asked # Blank
         /\ a.op \in Pickings => ed.asked = Blank /\ ed.stage = "Picker"
         /\ a.op \in Scenings => ed.asked = Blank /\ ed.stage = "Scenes"
         /\ a.op \in Namings => ed.stage \notin {"Picker", "Scenes"}
         /\ a.op \in Rowings => a.arg \in Nat
  BY DEF EditorActions, AskedActions, PickerActions, ScenesActions, NamingActions, EditorMotions, Plain,
         Pickings, Scenings, Namings, Rowings

LEMMA SettingsMeant ==
  ASSUME NEW a \in SettingsActions
  PROVE  /\ a.op \in {"NavUp", "NavDown", "NavTop", "NavBottom", "NavHalfPageUp", "NavHalfPageDown", "PushCount", "Nothing",
                      "Quit", "ClearPending", "CloseSettings", "ApplySettingsTheme", "SetPending", "SettingsSelect"}
         /\ a.op \in {"NavUp", "NavDown"} => a.arg \in Int
         /\ a.op \in {"PushCount", "SettingsSelect"} => a.arg \in Nat
         /\ a.op = "SetPending" => a.arg = "g"
  BY DEF SettingsActions, Motions, Counts, Plain

LEMMA DashboardMeant ==
  ASSUME NEW a \in DashboardActions
  PROVE  /\ a.op \in {"Nothing", "RetryConnect", "ClearPending", "ClosePalette", "LogScrollUp", "LogScrollDown",
                      "Select", "ActivateRow", "NavUp", "NavDown", "NavTop", "NavBottom", "NavHalfPageUp",
                      "NavHalfPageDown", "PushCount", "Quit", "SetPending"} \cup Motionless
         /\ a.op \in {"LogScrollUp", "LogScrollDown", "PushCount"} => a.arg \in Nat
         /\ a.op \in {"Select", "ActivateRow"} => a.arg \in [panel : Panel, row : Nat]
         /\ a.op \in {"NavUp", "NavDown"} => a.arg \in Int
         /\ a.op = "Focus" => a.arg \in Panel
         /\ a.op = "Pane" => a.arg \in Directions
         /\ a.op = "Simple" => a.arg \in Simples
         /\ a.op = "SetPending" => a.arg \in Pending
         /\ a.op = "OpenPalette" => a.arg \in Menus
  BY DEF DashboardActions, AnyonesActions, Motions, Counts, Plain, Motionless

LEMMA Meant ==
  ASSUME NEW m \in Models, Apart(m), NEW a \in Means(m)
  PROVE  /\ a.op \in Typings => m.palette.active
         /\ a.op \in Motionless => ~m.palette.active /\ ~IsOpen(m.editor) /\ m.view = "Main"
         /\ a.op \in {"PushCount", "SetPending"} => ~m.palette.active /\ ~IsOpen(m.editor)
         /\ a.op \in {"CloseSettings", "SettingsSelect", "ApplySettingsTheme"} => m.view = "Settings"
         /\ a.op \in {"LogScrollUp", "LogScrollDown", "PushCount", "SettingsSelect"} \cup Rowings => a.arg \in Nat
         /\ a.op \in {"NavUp", "NavDown"} => a.arg \in Int
         /\ a.op \in {"Select", "ActivateRow"} =>
              ~IsOpen(m.editor) /\ a.arg.panel \in Panel /\ a.arg.row \in Nat
         /\ a.op = "Focus" => a.arg \in Panel
         /\ a.op = "Pane" => a.arg \in Directions
         /\ a.op = "Simple" => a.arg \in Simples
         /\ a.op = "SetPending" => a.arg \in Pending /\ (m.view = "Settings" => a.arg = "g")
         /\ a.op = "OpenPalette" => a.arg \in Menus
         /\ a.op \in {"DeleteConfirm", "DeleteCancel"} \cup Pickings \cup Scenings \cup Namings \cup Rowings =>
              ~m.palette.active /\ IsOpen(m.editor) /\ m.view = "Main"
         /\ a.op = "DeleteConfirm" => m.editor.asked # Blank
         /\ a.op \in Pickings => m.editor.asked = Blank /\ m.editor.stage = "Picker"
         /\ a.op \in Scenings => m.editor.asked = Blank /\ m.editor.stage = "Scenes"
         /\ a.op \in Namings => m.editor.stage = "Naming"
<1>1. m.view \in {"Main", "Settings"} /\ m.editor.stage \in {"Closed", "Picker", "Scenes", "Naming"}
  BY ModelParts, EditorParts DEF View, Stage
<1>2. CASE m.palette.active
  <2>1. a \in PaletteActions /\ ~IsOpen(m.editor)
    BY <1>2 DEF Means, Apart
  <2> QED BY <1>2, <2>1, PaletteMeant DEF Typings, Motionless, Pickings, Scenings, Namings, Rowings
<1>3. CASE ~m.palette.active /\ IsOpen(m.editor)
  <2>1. a \in EditorActions(m.editor) /\ m.view = "Main" /\ m.editor.stage # "Closed"
    BY <1>3 DEF Means, Apart, IsOpen
  <2> QED BY <1>1, <1>3, <2>1, EditorMeant DEF Typings, Motionless, Pickings, Scenings, Namings, Rowings
<1>4. CASE ~m.palette.active /\ ~IsOpen(m.editor) /\ m.view = "Settings"
  <2>1. a \in SettingsActions
    BY <1>4 DEF Means
  <2>2. "g" \in Pending
    BY DEF Pending
  <2> QED BY <1>4, <2>1, <2>2, SettingsMeant DEF Typings, Motionless, Pickings, Scenings, Namings, Rowings
<1>5. CASE ~m.palette.active /\ ~IsOpen(m.editor) /\ m.view = "Main"
  <2>1. a \in DashboardActions
    BY <1>5 DEF Means
  <2> QED BY <1>5, <2>1, DashboardMeant DEF Typings, Motionless, Pickings, Scenings, Namings, Rowings
<1> QED BY <1>1, <1>2, <1>3, <1>4, <1>5

-----------------------------------------------------------------------------
(* The inductive invariant.  ScreenInv alone is not inductive: a cursor is *)
(* brought back into its list only if the list is one, the theme only kept *)
(* if the picker knows where it came from; and what a save may replace     *)
(* depends on what the UI had been told when the name was accepted.        *)

Inv ==
  /\ Sound(ui, chosen)
  /\ tour \in Tours /\ foreign \in Nat /\ daemon \in Daemon
  /\ Told(ui.editor, Names(daemon.profiles), strange)

(* What a step of the UI leaves of the daemon's profiles.                  *)
KeepsOthers ==
  \A i \in DOMAIN daemon.profiles :
    LET p == daemon.profiles[i] IN
    \/ Survives(p)
    \/ work'.kind = "save_scene_profile" /\ (Same(p.name, work'.from) \/ Normal[p.name] \in strange)
    \/ work'.kind = "delete_scene_profile" /\ Same(p.name, ui.editor.asked)

StepGood == Inv' /\ TogglesOnly(ui.editor, ui'.editor, ui.snap) /\ KeepsOthers

LEMMA InvParts ==
  ASSUME Inv
  PROVE  /\ Steady(ui, chosen) /\ Quiet(ui) /\ Apart(ui) /\ ui \in Models
         /\ EditorGood(ui.editor, ui.snap) /\ ui.snap \in Snapshots /\ ui.editor \in Editors
         /\ daemon.profiles \in Seq(Profile) /\ ui.palette \in Palettes /\ PaletteGood(ui.palette)
  BY ModelParts, DaemonParts DEF Inv, Sound, Steady

LEMMA ShutToldAnything ==
  ASSUME NEW ed, ~IsOpen(ed), NEW names, NEW untold
  PROVE  Told(ed, names, untold)
  BY DEF IsOpen, Told

LEMMA SameEditorToggles ==
  ASSUME NEW ed, NEW snap
  PROVE  TogglesOnly(ed, ed, snap)
  BY DEF TogglesOnly

LEMMA ClosedTogglesNothing ==
  ASSUME NEW ed, NEW next, ~IsOpen(next), NEW snap
  PROVE  TogglesOnly(ed, next, snap)
  BY DEF TogglesOnly, IsOpen

LEMMA SameProfilesKept ==
  ASSUME daemon'.profiles = daemon.profiles
  PROVE  KeepsOthers
  BY DEF KeepsOthers, Survives

LEMMA BecomesGood ==
  ASSUME Inv, tour' = tour, NEW a, NEW m, Becomes(a, m), Steady(m, chosen), ~KeepsPending(a) \/ Quiet(m),
         Told(m.editor, Names(daemon.profiles), strange), TogglesOnly(ui.editor, m.editor, ui.snap)
  PROVE  StepGood
<1>1. /\ ui' = Ended(a, m) /\ chosen' = chosen /\ daemon' = daemon /\ foreign' = foreign /\ strange' = strange
      /\ daemon'.profiles = daemon.profiles
  BY DEF Becomes, env
<1>2. Sound(Ended(a, m), chosen) /\ Ended(a, m).editor = m.editor
  BY EndedIsSound, EndedKeeps DEF Steady
<1>3. Sound(ui, chosen)' /\ Told(ui.editor, Names(daemon.profiles), strange)'
  BY <1>1, <1>2
<1>4. (tour \in Tours /\ foreign \in Nat /\ daemon \in Daemon)'
  BY <1>1 DEF Inv
<1>5. TogglesOnly(ui.editor, ui'.editor, ui.snap)
  BY <1>1, <1>2
<1> QED BY <1>1, <1>3, <1>4, <1>5, SameProfilesKept DEF StepGood, Inv

LEMMA AsideGood ==
  ASSUME Inv, tour' = tour, NEW a, NEW m, Becomes(a, m), Steady(m, chosen), ~KeepsPending(a) \/ Quiet(m),
         m.editor = ui.editor
  PROVE  StepGood
<1>1. Told(ui.editor, Names(daemon.profiles), strange)
  BY DEF Inv
<1> QED BY <1>1, BecomesGood, SameEditorToggles

LEMMA EditsGood ==
  ASSUME Inv, tour' = tour, NEW a, NEW ed, Edits(a, ed), IsOpen(ui.editor), ~KeepsPending(a),
         Follows(ui.editor, ed, ui.snap)
  PROVE  StepGood
<1> DEFINE m == [ui EXCEPT !.editor = ed]
<1>1. Steady(ui, chosen) /\ Told(ui.editor, Names(daemon.profiles), strange)
  BY InvParts DEF Inv
<1>2. ~ui.palette.active /\ ui.view = "Main"
  BY InvParts DEF Apart
<1>3. EditorGood(ed, ui.snap)
  BY DEF Follows
<1>4. Steady(m, chosen) /\ m.editor = ed
  BY <1>1, <1>2, <1>3, EditorSteady
<1>5. Told(ed, Names(daemon.profiles), strange) /\ TogglesOnly(ui.editor, ed, ui.snap)
  BY <1>1 DEF Follows
<1>6. Becomes(a, m)
  BY DEF Edits
<1> HIDE DEF m
<1> QED BY <1>4, <1>5, <1>6, BecomesGood

(* A command is sent with the editor closed.                               *)
LEMMA AsksGood ==
  ASSUME Inv, tour' = tour, NEW a, NEW m, NEW w, Asks(a, m, w), Steady(m, chosen), ~KeepsPending(a),
         ~IsOpen(m.editor), Runs(daemon, w) \subseteq Daemon
  PROVE  /\ Inv' /\ TogglesOnly(ui.editor, ui'.editor, ui.snap)
         /\ work' = w /\ (daemon' = daemon \/ daemon' \in Runs(daemon, w))
<1>1. /\ ui' = Ended(a, m) /\ chosen' = chosen /\ foreign' = foreign /\ work' = w
      /\ daemon' = daemon \/ daemon' \in Runs(daemon, w)
  BY DEF Asks
<1>2. Sound(Ended(a, m), chosen) /\ Ended(a, m).editor = m.editor
  BY EndedIsSound, EndedKeeps DEF Steady
<1>3. ~IsOpen(ui'.editor) /\ Sound(ui, chosen)'
  BY <1>1, <1>2
<1>4. (tour \in Tours /\ foreign \in Nat /\ daemon \in Daemon)'
  BY <1>1 DEF Inv
<1>5. Told(ui.editor, Names(daemon.profiles), strange)'
  BY <1>3, ShutToldAnything
<1> QED BY <1>1, <1>3, <1>4, <1>5, ClosedTogglesNothing DEF Inv

LEMMA AsksKeeping ==
  ASSUME Inv, tour' = tour, NEW a, NEW m, NEW w, Asks(a, m, w), Steady(m, chosen), ~KeepsPending(a),
         ~IsOpen(m.editor), \A d \in Runs(daemon, w) : d \in Daemon /\ d.profiles = daemon.profiles
  PROVE  StepGood
<1>1. /\ Inv' /\ TogglesOnly(ui.editor, ui'.editor, ui.snap)
      /\ daemon' = daemon \/ daemon' \in Runs(daemon, w)
  BY AsksGood
<1>2. daemon'.profiles = daemon.profiles
  BY <1>1
<1> QED BY <1>1, <1>2, SameProfilesKept DEF StepGood

LEMMA SendsIs ==
  ASSUME NEW kind, NEW name
  PROVE  Sends(kind, name).kind = kind /\ Sends(kind, name).name = name
  BY DEF Sends, NoWork

LEMMA RunsKeep ==
  ASSUME NEW d \in Daemon, NEW w, w.kind \notin {"delete_scene_profile", "save_scene_profile"}
  PROVE  \A e \in Runs(d, w) : e \in Daemon /\ e.profiles = d.profiles
  BY SetKeeps, ClearKeeps DEF Runs

(* What has nothing to do with the editor leaves it alone.                 *)
LEMMA EditorAside ==
  ASSUME NEW m \in Models
  PROVE  /\ \A p : [m EXCEPT !.focus = p].editor = m.editor
         /\ \A p, index : SetCursor(m, p, index).editor = m.editor
         /\ \A index : NavTo(m, index).editor = m.editor
         /\ \A rows : Nav(m, rows).editor = m.editor
         /\ \A b : [m EXCEPT !.connected = b].editor = m.editor
         /\ \A n : ScrollUp(m, n).editor = m.editor /\ ScrollDown(m, n).editor = m.editor
         /\ PushLog(m).editor = m.editor /\ Cancel(m).editor = m.editor
         /\ \A p : [m EXCEPT !.pending = p].editor = m.editor
         /\ \A d : PushCount(m, d).editor = m.editor
         /\ \A l : Edit(m, l).editor = m.editor
         /\ ClosePalette(m).editor = m.editor
         /\ \A s : Cycle(m, s).editor = m.editor
         /\ \A index : Preview(m, index).editor = m.editor
         /\ OpenThemes(m).editor = m.editor /\ CancelThemes(m).editor = m.editor /\ ApplyThemes(m).editor = m.editor
<1>1. m = [snap |-> m.snap, connected |-> m.connected, focus |-> m.focus, cursor |-> m.cursor,
           pending |-> m.pending, count |-> m.count, palette |-> m.palette,
           view |-> m.view, theme |-> m.theme, themeCursor |-> m.themeCursor, origin |-> m.origin,
           logs |-> m.logs, scroll |-> m.scroll, editor |-> m.editor]
  BY DEF Models
<1>2. \A p, index : SetCursor(m, p, index).editor = m.editor
  BY <1>1 DEF SetCursor
<1>3. \A index : Preview(m, index).editor = m.editor
  BY <1>1 DEF Preview
<1>4. \A index : NavTo(m, index).editor = m.editor
  BY <1>2, <1>3 DEF NavTo
<1>5. \A rows : Nav(m, rows).editor = m.editor
  BY <1>4 DEF Nav
<1>6. /\ \A p : [m EXCEPT !.focus = p].editor = m.editor
      /\ \A b : [m EXCEPT !.connected = b].editor = m.editor
      /\ \A p : [m EXCEPT !.pending = p].editor = m.editor
  BY <1>1
<1>7. /\ \A n : ScrollUp(m, n).editor = m.editor /\ ScrollDown(m, n).editor = m.editor
      /\ PushLog(m).editor = m.editor
  BY <1>1 DEF ScrollUp, ScrollDown, PushLog
<1>8. Cancel(m).editor = m.editor /\ \A d : PushCount(m, d).editor = m.editor
  BY <1>1 DEF Cancel, ClearPending, PushCount
<1>9. /\ \A l : Edit(m, l).editor = m.editor
      /\ ClosePalette(m).editor = m.editor
      /\ \A s : Cycle(m, s).editor = m.editor
  BY <1>1 DEF Edit, ClosePalette, Cycle
<1>10. OpenThemes(m).editor = m.editor /\ CancelThemes(m).editor = m.editor /\ ApplyThemes(m).editor = m.editor
  BY <1>1 DEF OpenThemes, CancelThemes, ApplyThemes
<1> QED BY <1>2, <1>3, <1>4, <1>5, <1>6, <1>7, <1>8, <1>9, <1>10

-----------------------------------------------------------------------------
(* One step, by what it does.                                              *)

LEMMA NeighbourIs ==
  ASSUME NEW d \in Directions, NEW p \in Panel
  PROVE  Neighbour[d][p] \in Panel
  BY DEF Neighbour, Directions, Panel

LEMMA ActivateGood ==
  ASSUME Inv, tour' = tour, NEW a, NEW m, ActivateFocused(a, m), Steady(m, chosen), ~KeepsPending(a),
         m.editor = ui.editor, ~IsOpen(ui.editor)
  PROVE  StepGood
<1>1. CASE ~Row(m, m.focus)
  <2>1. Becomes(a, m)
    BY <1>1 DEF ActivateFocused
  <2> QED BY <2>1, AsideGood
<1>2. CASE Row(m, m.focus)
  <2> DEFINE w == Sends(m.focus, IF m.focus = "Scenes" THEN Scenes(m)[m.cursor["Scenes"] + 1].name ELSE Blank)
  <2>1. Asks(a, m, w)
    BY <1>2 DEF ActivateFocused
  <2>2. w.kind \in Panel
    BY SendsIs, ModelParts DEF Steady
  <2> HIDE DEF w
  <2>3. \A d \in Runs(daemon, w) : d \in Daemon /\ d.profiles = daemon.profiles
    BY <2>2, RunsKeep DEF Inv, Panel
  <2> QED BY <2>1, <2>3, AsksKeeping
<1> QED BY <1>1, <1>2

LEMMA DashboardGood ==
  ASSUME Inv, tour' = tour, NEW a \in Means(ui), Dashboard(a)
  PROVE  StepGood
<1> DEFINE to == SetCursor([ui EXCEPT !.focus = a.arg.panel], a.arg.panel, a.arg.row)
<1>1. Steady(ui, chosen) /\ Apart(ui) /\ ui \in Models /\ ui.focus \in Panel /\ HalfPage \in Int /\ 0 - HalfPage \in Int
  BY InvParts, ModelParts, Sizes
<1>2. a.op \notin {"PushCount", "SetPending"} => ~KeepsPending(a)
  BY DEF KeepsPending
<1>3. CASE a.op = "Focus" /\ Becomes(a, [ui EXCEPT !.focus = a.arg])
  <2>1. a.arg \in Panel
    BY <1>1, <1>3, Meant
  <2> QED BY <1>1, <1>2, <1>3, <2>1, FocusSteady, EditorAside, AsideGood
<1>4. CASE a.op = "Pane" /\ Becomes(a, [ui EXCEPT !.focus = Neighbour[a.arg][ui.focus]])
  <2>1. Neighbour[a.arg][ui.focus] \in Panel
    BY <1>1, <1>4, Meant, NeighbourIs
  <2> QED BY <1>1, <1>2, <1>4, <2>1, FocusSteady, EditorAside, AsideGood
<1>5. CASE a.op = "NavUp" /\ Becomes(a, Nav(ui, 0 - a.arg))
  <2>1. a.arg \in Int
    BY <1>1, <1>5, Meant
  <2>2. 0 - a.arg \in Int
    BY <2>1
  <2> QED BY <1>1, <1>2, <1>5, <2>2, NavSteady, EditorAside, AsideGood
<1>6. CASE a.op = "NavDown" /\ Becomes(a, Nav(ui, a.arg))
  <2>1. a.arg \in Int
    BY <1>1, <1>6, Meant
  <2> QED BY <1>1, <1>2, <1>6, <2>1, NavSteady, EditorAside, AsideGood
<1>7. CASE a.op = "NavTop" /\ Becomes(a, NavTo(ui, 0))
  BY <1>1, <1>2, <1>7, NavSteady, EditorAside, AsideGood
<1>8. CASE a.op = "NavBottom" /\ Becomes(a, NavTo(ui, Bottom(ui)))
  BY <1>1, <1>2, <1>8, NavSteady, EditorAside, AsideGood
<1>9. CASE a.op = "NavHalfPageUp" /\ Becomes(a, Nav(ui, 0 - HalfPage))
  BY <1>1, <1>2, <1>9, NavSteady, EditorAside, AsideGood
<1>10. CASE a.op = "NavHalfPageDown" /\ Becomes(a, Nav(ui, HalfPage))
  BY <1>1, <1>2, <1>10, NavSteady, EditorAside, AsideGood
<1>11. a.op \in {"Select", "ActivateRow"} => Steady(to, chosen) /\ to.editor = ui.editor /\ ~IsOpen(ui.editor)
  <2> SUFFICES ASSUME a.op \in {"Select", "ActivateRow"}
               PROVE  Steady(to, chosen) /\ to.editor = ui.editor /\ ~IsOpen(ui.editor)
    OBVIOUS
  <2> DEFINE there == [ui EXCEPT !.focus = a.arg.panel]
  <2>1. a.arg.panel \in Panel /\ a.arg.row \in Nat /\ ~IsOpen(ui.editor)
    BY <1>1, Meant
  <2>2. Steady(there, chosen) /\ there.editor = ui.editor
    BY <1>1, <2>1, FocusSteady, EditorAside
  <2> HIDE DEF there
  <2>3. Steady(SetCursor(there, a.arg.panel, a.arg.row), chosen)
    BY <2>1, <2>2, SetCursorSteady
  <2>4. SetCursor(there, a.arg.panel, a.arg.row).editor = there.editor
    BY <2>2, EditorAside DEF Steady
  <2> QED BY <2>1, <2>2, <2>3, <2>4 DEF there
<1>12. CASE a.op = "Select" /\ Becomes(a, to)
  <2> HIDE DEF to
  <2> QED BY <1>2, <1>11, <1>12, AsideGood
<1>13. CASE a.op = "ActivateRow" /\ ActivateFocused(a, to)
  <2> HIDE DEF to
  <2> QED BY <1>2, <1>11, <1>13, ActivateGood
<1>14. CASE a.op = "Activate" /\ ActivateFocused(a, ui)
  <2>1. ~IsOpen(ui.editor)
    BY <1>1, <1>14, Meant DEF Motionless
  <2> QED BY <1>1, <1>2, <1>14, <2>1, ActivateGood
<1>15. CASE /\ a.op = "ToggleMute"
            /\ IF Row(ui, "Audio") THEN Asks(a, ui, Sends("toggle_mute", Blank)) ELSE Becomes(a, ui)
  <2>1. ~IsOpen(ui.editor)
    BY <1>1, <1>15, Meant DEF Motionless
  <2>2. \A d \in Runs(daemon, Sends("toggle_mute", Blank)) : d \in Daemon /\ d.profiles = daemon.profiles
    BY SendsIs, RunsKeep DEF Inv
  <2> QED BY <1>1, <1>2, <1>15, <2>1, <2>2, AsksKeeping, AsideGood
<1>16. CASE a.op = "Volume" /\ Becomes(a, ui)
  BY <1>1, <1>2, <1>16, AsideGood
<1>17. CASE a.op = "Simple" /\ Asks(a, ui, Sends(a.arg, Blank))
  <2>1. ~IsOpen(ui.editor) /\ a.arg \in Simples
    BY <1>1, <1>17, Meant DEF Motionless
  <2>2. \A d \in Runs(daemon, Sends(a.arg, Blank)) : d \in Daemon /\ d.profiles = daemon.profiles
    BY <2>1, SendsIs, RunsKeep DEF Inv, Simples
  <2> QED BY <1>1, <1>2, <1>17, <2>1, <2>2, AsksKeeping
<1>18. CASE /\ a.op = "RetryConnect"
            /\ \E found \in BOOLEAN : Becomes(a, [ui EXCEPT !.connected = @ \/ found])
  <2>1. PICK found \in BOOLEAN : Becomes(a, [ui EXCEPT !.connected = @ \/ found])
    BY <1>18
  <2> DEFINE now == ui.connected \/ found
  <2>2. now \in BOOLEAN /\ Becomes(a, [ui EXCEPT !.connected = now])
    BY <2>1
  <2> HIDE DEF now
  <2> QED BY <1>1, <1>2, <1>18, <2>2, ConnectedSteady, EditorAside, AsideGood
<1>19. CASE a.op = "LogScrollUp" /\ Becomes(a, ScrollUp(ui, a.arg))
  <2>1. a.arg \in Nat
    BY <1>1, <1>19, Meant
  <2> QED BY <1>1, <1>2, <1>19, <2>1, ScrollSteady, EditorAside, AsideGood
<1>20. CASE a.op = "LogScrollDown" /\ Becomes(a, ScrollDown(ui, a.arg))
  <2>1. a.arg \in Nat
    BY <1>1, <1>20, Meant
  <2> QED BY <1>1, <1>2, <1>20, <2>1, ScrollSteady, EditorAside, AsideGood
<1> QED BY <1>3, <1>4, <1>5, <1>6, <1>7, <1>8, <1>9, <1>10, <1>12, <1>13, <1>14, <1>15, <1>16, <1>17, <1>18, <1>19, <1>20
        DEF Dashboard

LEMMA PendingGood ==
  ASSUME NEW m, NEW theme, Steady(m, theme), ~m.palette.active, ~IsOpen(m.editor)
  PROVE  /\ \A k \in Pending : (m.view = "Settings" => k = "g") =>
              Steady([m EXCEPT !.pending = k], theme) /\ Quiet([m EXCEPT !.pending = k])
         /\ \A d \in Nat : Quiet(m) => Steady(PushCount(m, d), theme) /\ Quiet(PushCount(m, d))
<1>1. m \in Models /\ m.count \in Nat
  BY ModelParts, Sizes DEF Steady
<1>2. ASSUME NEW k \in Pending, m.view = "Settings" => k = "g"
      PROVE  Steady([m EXCEPT !.pending = k], theme) /\ Quiet([m EXCEPT !.pending = k])
  <2> DEFINE next == [m EXCEPT !.pending = k]
  <2>1. /\ next \in Models
        /\ next.snap = m.snap /\ next.cursor = m.cursor /\ next.palette = m.palette /\ next.view = m.view
        /\ next.theme = m.theme /\ next.themeCursor = m.themeCursor /\ next.origin = m.origin /\ next.editor = m.editor
        /\ next.pending = k
    BY <1>1 DEF Models
  <2> HIDE DEF next
  <2>2. Steady(next, theme)
    BY <2>1, AsideSteady
  <2>3. Quiet(next)
    BY <1>2, <2>1 DEF Quiet
  <2> QED BY <2>2, <2>3 DEF next
<1>3. ASSUME NEW d \in Nat, Quiet(m)
      PROVE  Steady(PushCount(m, d), theme) /\ Quiet(PushCount(m, d))
  <2> DEFINE next == PushCount(m, d)
             n == Least(10 * m.count + d, MaxCount)
  <2>1. n \in 0 .. MaxCount
    BY <1>1, Sizes DEF Least
  <2>2. next = [m EXCEPT !.count = n]
    BY DEF PushCount
  <2> HIDE DEF n, next
  <2>3. /\ next \in Models
        /\ next.snap = m.snap /\ next.cursor = m.cursor /\ next.palette = m.palette /\ next.view = m.view
        /\ next.theme = m.theme /\ next.themeCursor = m.themeCursor /\ next.origin = m.origin /\ next.editor = m.editor
        /\ next.pending = m.pending
    BY <1>1, <2>1, <2>2 DEF Models
  <2>4. Steady(next, theme)
    BY <2>3, AsideSteady
  <2>5. Quiet(next)
    BY <1>3, <2>3 DEF Quiet
  <2> QED BY <2>4, <2>5 DEF next
<1> QED BY <1>2, <1>3

LEMMA HalfTypedGood ==
  ASSUME Inv, tour' = tour, NEW a \in Means(ui), HalfTyped(a)
  PROVE  StepGood
<1>1. Steady(ui, chosen) /\ Apart(ui) /\ ui \in Models /\ Quiet(ui)
  BY InvParts
<1>2. CASE a.op = "SetPending" /\ Becomes(a, [ui EXCEPT !.pending = a.arg])
  <2>1. ~ui.palette.active /\ ~IsOpen(ui.editor) /\ a.arg \in Pending /\ (ui.view = "Settings" => a.arg = "g")
    BY <1>1, <1>2, Meant
  <2> QED BY <1>1, <1>2, <2>1, PendingGood, EditorAside, AsideGood
<1>3. CASE a.op = "ClearPending" /\ Becomes(a, Cancel(ui))
  <2>1. ~KeepsPending(a)
    BY <1>3 DEF KeepsPending
  <2> QED BY <1>1, <1>3, <2>1, CancelSteady, EditorAside, AsideGood
<1>4. CASE a.op = "PushCount" /\ Becomes(a, PushCount(ui, a.arg))
  <2>1. ~ui.palette.active /\ ~IsOpen(ui.editor) /\ a.arg \in Nat
    BY <1>1, <1>4, Meant
  <2> QED BY <1>1, <1>4, <2>1, PendingGood, EditorAside, AsideGood
<1>5. CASE a.op \in {"ToggleIcons", "ToggleAdvancedUi"} /\ Becomes(a, ui)
  BY <1>1, <1>5, AsideGood
<1> QED BY <1>2, <1>3, <1>4, <1>5 DEF HalfTyped

LEMMA QuitGood ==
  ASSUME Inv, tour' = tour, Quit
  PROVE  StepGood
<1>1. /\ ui' = ui /\ chosen' = chosen /\ daemon' = daemon /\ foreign' = foreign /\ strange' = strange
      /\ daemon'.profiles = daemon.profiles
  BY DEF Quit, env
<1>2. Inv'
  BY <1>1 DEF Inv
<1>3. TogglesOnly(ui.editor, ui'.editor, ui.snap)
  BY <1>1, SameEditorToggles
<1> QED BY <1>1, <1>2, <1>3, SameProfilesKept DEF StepGood

LEMMA PaletteStepGood ==
  ASSUME Inv, tour' = tour, NEW a \in Means(ui), Palette(a),
         ui.palette.active /\ a.op = "PaletteBackspace" => Len(ui.palette.input) > 1
  PROVE  StepGood
<1> DEFINE line == ui.palette.input
           shut == ClosePalette(ui)
<1>1. Steady(ui, chosen) /\ Apart(ui) /\ ui \in Models
  BY InvParts
<1>2. a.op \in Typings \cup {"OpenPalette", "ClosePalette"} => ~KeepsPending(a)
  BY DEF KeepsPending, Typings
<1>3. a.op \in Typings => ui.palette.active /\ ~IsOpen(ui.editor) /\ ui.view = "Main" /\ line \in Lines
  BY <1>1, Meant, InvParts DEF Apart, PaletteGood
<1>4. /\ Steady(shut, chosen) /\ ~shut.palette.active /\ shut.view = ui.view /\ shut.editor = ui.editor /\ shut \in Models
  BY <1>1, ClosePaletteSteady DEF Steady
<1>5. ASSUME a.op \in Typings, NEW input \in Lines, Becomes(a, Edit(ui, input))
      PROVE  StepGood
  BY <1>1, <1>2, <1>3, <1>5, EditSteady, EditorAside, AsideGood
<1>6. CASE a.op = "OpenPalette" /\ Becomes(a, Edit(ui, <<Prompt>> \o Seed[a.arg]))
  <2> DEFINE input == <<Prompt>> \o Seed[a.arg]
  <2>1. ~IsOpen(ui.editor) /\ ui.view = "Main" /\ a.arg \in Menus
    BY <1>1, <1>6, Meant DEF Motionless
  <2>2. input \in Lines
    BY <2>1, LinesAssumption DEF LinesAssumption
  <2> HIDE DEF input
  <2>3. Becomes(a, Edit(ui, input))
    BY <1>6 DEF input
  <2> QED BY <1>1, <1>2, <1>6, <2>1, <2>2, <2>3, EditSteady, EditorAside, AsideGood
<1>7. CASE a.op = "ClosePalette" /\ Becomes(a, ClosePalette(ui))
  BY <1>1, <1>2, <1>7, ClosePaletteSteady, EditorAside, AsideGood
<1>8. CASE a.op = "PaletteChar" /\ Append(line, a.arg) \in Lines /\ Becomes(a, Edit(ui, Append(line, a.arg)))
  BY <1>5, <1>8 DEF Typings
<1>9. CASE a.op = "PaletteBackspace" /\ Becomes(a, Edit(ui, Front(line)))
  <2>1. a.op \in Typings
    BY <1>9 DEF Typings
  <2>2. Front(line) \in Lines
    BY <1>3, <1>9, <2>1, LinesAre
  <2> QED BY <1>5, <1>9, <2>1, <2>2
<1>10. CASE a.op = "PaletteClear" /\ Becomes(a, Edit(ui, <<Head(line)>>))
  <2>1. a.op \in Typings
    BY <1>10 DEF Typings
  <2>2. <<Head(line)>> \in Lines
    BY <1>3, <2>1, LinesAre
  <2> QED BY <1>5, <1>10, <2>1, <2>2
<1>11. CASE a.op = "PaletteDeleteWord" /\ Becomes(a, Edit(ui, DeleteWord(line)))
  <2>1. a.op \in Typings
    BY <1>11 DEF Typings
  <2>2. DeleteWord(line) \in Lines
    BY <1>3, <2>1, LinesAre
  <2> QED BY <1>5, <1>11, <2>1, <2>2
<1>12. ASSUME a.op \in Typings, NEW step \in {1, -1}, Becomes(a, Cycle(ui, step))
       PROVE  StepGood
  BY <1>1, <1>2, <1>3, <1>12, CycleSteady, EditorAside, AsideGood
<1>13. CASE a.op = "CompleteNext" /\ Becomes(a, Cycle(ui, 1))
  BY <1>12, <1>13 DEF Typings
<1>14. CASE a.op = "CompletePrev" /\ Becomes(a, Cycle(ui, -1))
  BY <1>12, <1>14 DEF Typings
<1>15. CASE /\ a.op = "PaletteSubmit"
            /\ \/ Asks(a, ClosePalette(ui), Sends("palette", Blank))
               \/ Becomes(a, OpenThemes(ClosePalette(ui)))
               \/ Quit
  <2>1. a.op \in Typings
    BY <1>15 DEF Typings
  <2>2. ~IsOpen(shut.editor) /\ shut.view = "Main" /\ ~KeepsPending(a)
    BY <1>2, <1>3, <1>4, <2>1
  <2>3. Asks(a, shut, Sends("palette", Blank)) \/ Becomes(a, OpenThemes(shut)) \/ Quit
    BY <1>15
  <2> HIDE DEF shut
  <2>4. CASE Asks(a, shut, Sends("palette", Blank))
    <3>1. \A d \in Runs(daemon, Sends("palette", Blank)) : d \in Daemon /\ d.profiles = daemon.profiles
      BY SendsIs, RunsKeep DEF Inv
    <3> QED BY <1>4, <2>2, <2>4, <3>1, AsksKeeping
  <2>5. CASE Becomes(a, OpenThemes(shut))
    <3>1. Steady(OpenThemes(shut), chosen) /\ OpenThemes(shut).editor = ui.editor
      BY <1>4, <2>2, OpenThemesSteady, EditorAside
    <3> QED BY <2>2, <2>5, <3>1, AsideGood
  <2> QED BY <2>3, <2>4, <2>5, QuitGood
<1> QED BY <1>6, <1>7, <1>8, <1>9, <1>10, <1>11, <1>13, <1>14, <1>15 DEF Palette

LEMMA SettingsGood ==
  ASSUME Inv, tour' = tour, NEW a \in Means(ui), Settings(a)
  PROVE  StepGood
<1>1. Steady(ui, chosen) /\ Apart(ui) /\ ui \in Models
  BY InvParts
<1>2. a.op \notin {"PushCount", "SetPending"} => ~KeepsPending(a)
  BY DEF KeepsPending
<1>3. CASE a.op = "OpenSettings" /\ Becomes(a, OpenThemes(ui))
  <2>1. ~ui.palette.active /\ ~IsOpen(ui.editor) /\ ui.view = "Main"
    BY <1>1, <1>3, Meant DEF Motionless
  <2> QED BY <1>1, <1>2, <1>3, <2>1, OpenThemesSteady, EditorAside, AsideGood
<1>4. CASE a.op = "CloseSettings" /\ Becomes(a, CancelThemes(ui))
  <2>1. ui.view = "Settings"
    BY <1>1, <1>4, Meant
  <2> QED BY <1>1, <1>2, <1>4, <2>1, CancelThemesSteady, EditorAside, AsideGood
<1>5. CASE a.op = "SettingsSelect" /\ Becomes(a, Preview(ui, a.arg))
  <2>1. ui.view = "Settings" /\ a.arg \in Nat
    BY <1>1, <1>5, Meant
  <2> QED BY <1>1, <1>2, <1>5, <2>1, PreviewSteady, EditorAside, AsideGood
<1>6. CASE /\ a.op = "ApplySettingsTheme"
           /\ ui' = Ended(a, ApplyThemes(ui)) /\ work' = Sends("theme", Blank)
           /\ chosen' = ui.themeCursor
           /\ UNCHANGED <<env, opens, strange>>
  <2> DEFINE m == ApplyThemes(ui)
  <2>1. ui.view = "Settings" /\ ~KeepsPending(a)
    BY <1>1, <1>2, <1>6, Meant
  <2>2. Steady(m, ui.themeCursor) /\ m.editor = ui.editor
    BY <1>1, <2>1, ApplyThemesSteady, EditorAside
  <2>3. ui' = Ended(a, m)
    BY <1>6
  <2>4. /\ chosen' = ui.themeCursor /\ strange' = strange /\ daemon' = daemon /\ foreign' = foreign
        /\ daemon'.profiles = daemon.profiles
    BY <1>6 DEF env
  <2> HIDE DEF m
  <2>5. Sound(Ended(a, m), ui.themeCursor) /\ Ended(a, m).editor = ui.editor
    BY <2>1, <2>2, EndedIsSound, EndedKeeps DEF Steady
  <2>6. Sound(ui, chosen)' /\ ui'.editor = ui.editor
    BY <2>3, <2>4, <2>5
  <2>7. Inv'
    BY <2>4, <2>6 DEF Inv
  <2>8. TogglesOnly(ui.editor, ui'.editor, ui.snap)
    BY <2>6, SameEditorToggles
  <2> QED BY <2>4, <2>7, <2>8, SameProfilesKept DEF StepGood
<1> QED BY <1>3, <1>4, <1>5, <1>6 DEF Settings

LEMMA CycleProfileGood ==
  ASSUME Inv, tour' = tour, NEW a \in Means(ui), CycleProfile(a)
  PROVE  StepGood
<1>1. Steady(ui, chosen) /\ Apart(ui) /\ ui \in Models
  BY InvParts
<1>2. a.op = "SceneProfileCycleNext"
  BY DEF CycleProfile
<1>3. ~IsOpen(ui.editor) /\ ~KeepsPending(a)
  BY <1>1, <1>2, Meant DEF Motionless, KeepsPending
<1>4. CASE ui.snap.profiles = << >>
  <2>1. Becomes(a, ui)
    BY <1>4 DEF CycleProfile
  <2> QED BY <1>1, <1>3, <2>1, AsideGood
<1>5. CASE ui.snap.profiles # << >>
  <2> DEFINE w == IF NextProfile(ui.snap) = Blank THEN Sends("clear_scene_profile", Blank)
                  ELSE Sends("set_scene_profile", NextProfile(ui.snap))
  <2>1. Asks(a, ui, w)
    BY <1>5 DEF CycleProfile
  <2>2. w.kind \in {"clear_scene_profile", "set_scene_profile"}
    BY SendsIs
  <2> HIDE DEF w
  <2>3. \A d \in Runs(daemon, w) : d \in Daemon /\ d.profiles = daemon.profiles
    BY <2>2, RunsKeep DEF Inv
  <2> QED BY <1>1, <1>3, <2>1, <2>3, AsksKeeping
<1> QED BY <1>4, <1>5

LEMMA OpenEditorGood ==
  ASSUME Inv, tour' = tour, NEW a \in Means(ui), OpenEditor(a)
  PROVE  StepGood
<1> DEFINE ed == Opened(ui.snap)
           m == [ui EXCEPT !.editor = ed]
<1>1. Steady(ui, chosen) /\ Apart(ui) /\ ui \in Models /\ ui.snap \in Snapshots
  BY InvParts
<1>2. a.op = "OpenSceneProfiles" /\ ui' = Ended(a, m)
  BY DEF OpenEditor
<1>3. ~ui.palette.active /\ ~IsOpen(ui.editor) /\ ui.view = "Main" /\ ~KeepsPending(a)
  BY <1>1, <1>2, Meant DEF Motionless, KeepsPending
<1>4. EditorGood(ed, ui.snap) /\ ed.stage = "Picker"
  BY <1>1, OpenedIs
<1> HIDE DEF ed
<1>5. Steady(m, chosen) /\ m.editor = ed
  BY <1>1, <1>3, <1>4, EditorSteady
<1> HIDE DEF m
<1>6. Sound(Ended(a, m), chosen) /\ Ended(a, m).editor = ed
  BY <1>3, <1>5, EndedIsSound, EndedKeeps DEF Steady
<1>7. /\ chosen' = chosen /\ strange' = strange /\ daemon' = daemon /\ foreign' = foreign
      /\ daemon'.profiles = daemon.profiles
  BY DEF OpenEditor, env
<1>8. Sound(ui, chosen)' /\ ui'.editor = ed
  BY <1>2, <1>6, <1>7
<1>9. Told(ui.editor, Names(daemon.profiles), strange)' /\ TogglesOnly(ui.editor, ui'.editor, ui.snap)
  BY <1>4, <1>8 DEF Told, TogglesOnly
<1>10. Inv'
  BY <1>7, <1>8, <1>9 DEF Inv
<1> QED BY <1>7, <1>9, <1>10, SameProfilesKept DEF StepGood

-----------------------------------------------------------------------------
(* What the editor sends.                                                  *)

(* The names a profile hides are still names when they are trimmed, and a  *)
(* save replaces what was edited, else what has the name.                  *)
LEMMA SavesAre ==
  ASSUME NEW d \in Daemon, NEW w, w.from \in Text, w.name \in Text, w.hidden \in SUBSET Name
  PROVE  \A e \in Saves(d, w) :
           /\ e \in Daemon
           /\ \A j \in DOMAIN d.profiles :
                \/ Same(d.profiles[j].name, w.from)
                \/ Same(d.profiles[j].name, w.name) /\ ~Same(w.name, w.from)
                \/ Kept(d.profiles[j], e.profiles)
<1> DEFINE saved == SaveProfile(d, Trimmed[w.from], Trimmed[w.name], Cleaned(w))
           Right(e) ==
             /\ e \in Daemon
             /\ \A j \in DOMAIN d.profiles :
                  \/ Same(d.profiles[j].name, w.from)
                  \/ Same(d.profiles[j].name, w.name) /\ ~Same(w.name, w.from)
                  \/ Kept(d.profiles[j], e.profiles)
<1>1. Cleaned(w) \in SUBSET Name
  <2> DEFINE once == {t \in w.hidden : \A u \in w.hidden : Same(u, t) => t <= u}
  <2>1. \A t \in Name : Trimmed[t] \in Name
    BY Texts
  <2>2. once \in SUBSET Name
    OBVIOUS
  <2>3. Cleaned(w) = {Trimmed[t] : t \in once}
    BY DEF Cleaned
  <2> HIDE DEF once
  <2> QED BY <2>1, <2>2, <2>3
<1>2. /\ Trimmed[w.from] \in Text /\ Trimmed[w.name] \in Text
      /\ Normal[Trimmed[w.from]] = Normal[w.from] /\ Normal[Trimmed[w.name]] = Normal[w.name]
  BY Texts
<1>3. /\ saved \in Daemon
      /\ \A j \in DOMAIN d.profiles :
           \/ Same(d.profiles[j].name, Trimmed[w.from])
           \/ Same(d.profiles[j].name, Trimmed[w.name])
                /\ \A i \in DOMAIN d.profiles : ~Same(d.profiles[i].name, Trimmed[w.from])
           \/ Kept(d.profiles[j], saved.profiles)
  BY <1>1, <1>2, SaveIs
<1>4. Right(saved)
  <2> HIDE DEF saved
  <2>1. ASSUME NEW j \in DOMAIN d.profiles
        PROVE  \/ Same(d.profiles[j].name, w.from)
               \/ Same(d.profiles[j].name, w.name) /\ ~Same(w.name, w.from)
               \/ Kept(d.profiles[j], saved.profiles)
    <3>1. \A s : /\ Same(s, Trimmed[w.from]) <=> Same(s, w.from)
                 /\ Same(s, Trimmed[w.name]) <=> Same(s, w.name)
      BY <1>2 DEF Same
    <3>2. Same(d.profiles[j].name, w.name) /\ Same(w.name, w.from) => Same(d.profiles[j].name, w.from)
      BY Sames
    <3> QED BY <1>3, <3>1, <3>2
  <2> QED BY <1>3, <2>1
<1>5. Right(d)
  BY DEF Kept
<1>6. Right(SetProfile(saved, w.name))
  BY <1>3, <1>4, SetKeeps
<1>7. Saves(d, w) \subseteq {d, saved, SetProfile(saved, w.name)}
  BY DEF Saves
<1> HIDE DEF saved
<1> QED BY <1>4, <1>5, <1>6, <1>7

LEMMA NamesAre ==
  ASSUME NEW profiles, NEW i \in DOMAIN profiles
  PROVE  Normal[profiles[i].name] \in Names(profiles)
  BY DEF Names, ToSet

LEMMA EditorSendsGood ==
  ASSUME Inv, tour' = tour, NEW a \in Means(ui), EditorSends(a)
  PROVE  StepGood
<1> DEFINE ed == ui.editor
           m == CloseEditor(ui)
<1>1. Steady(ui, chosen) /\ Apart(ui) /\ ui \in Models /\ ui.snap \in Snapshots /\ ed \in Editors /\ EditorGood(ed, ui.snap)
  BY InvParts
<1>2. a.op \in {"EditorActivate", "ClearActive", "DeleteConfirm", "Save"} => ~KeepsPending(a)
  BY DEF KeepsPending
<1>3. Steady(m, chosen) /\ ~IsOpen(m.editor)
  BY <1>1, CloseEditorSteady, ClosedIs
<1> HIDE DEF m
<1>4. ASSUME NEW w, w.kind \notin {"delete_scene_profile", "save_scene_profile"}, Asks(a, m, w), ~KeepsPending(a)
      PROVE  StepGood
  <2>1. \A d \in Runs(daemon, w) : d \in Daemon /\ d.profiles = daemon.profiles
    BY <1>4, RunsKeep DEF Inv
  <2> QED BY <1>3, <1>4, <2>1, AsksKeeping
<1>5. CASE /\ a.op = "EditorActivate"
           /\ IF Selected(ed, ui.snap)
              THEN Asks(a, CloseEditor(ui), Sends("set_scene_profile", ui.snap.profiles[ed.picker].name))
              ELSE Becomes(a, ui)
  BY <1>1, <1>2, <1>4, <1>5, SendsIs, AsideGood DEF m
<1>6. CASE a.op = "ClearActive" /\ Asks(a, CloseEditor(ui), Sends("clear_scene_profile", Blank))
  BY <1>2, <1>4, <1>6, SendsIs DEF m
<1>7. CASE a.op = "DeleteConfirm" /\ Asks(a, CloseEditor(ui), Sends("delete_scene_profile", ed.asked))
  <2> DEFINE w == Sends("delete_scene_profile", ed.asked)
             left == DeleteProfile(daemon, ed.asked)
  <2>1. w.kind = "delete_scene_profile" /\ w.name = ed.asked
    BY SendsIs
  <2>2. Asks(a, m, w) /\ ~KeepsPending(a)
    BY <1>2, <1>7 DEF m
  <2> HIDE DEF w
  <2>3. Runs(daemon, w) = {left}
    BY <2>1 DEF Runs
  <2>4. /\ left \in Daemon
        /\ \A j \in DOMAIN daemon.profiles :
             Same(daemon.profiles[j].name, ed.asked) \/ Kept(daemon.profiles[j], left.profiles)
    BY DeleteIs DEF Inv
  <2> HIDE DEF left
  <2>5. /\ Inv' /\ TogglesOnly(ui.editor, ui'.editor, ui.snap)
        /\ work' = w /\ (daemon' = daemon \/ daemon' = left)
    BY <1>3, <2>2, <2>3, <2>4, AsksGood
  <2>6. CASE daemon' = daemon
    <3>1. daemon'.profiles = daemon.profiles
      BY <2>6
    <3> QED BY <2>5, <3>1, SameProfilesKept DEF StepGood
  <2>7. CASE daemon' = left
    <3>1. KeepsOthers
      BY <2>1, <2>4, <2>5, <2>7 DEF KeepsOthers, Kept, Survives
    <3> QED BY <2>5, <3>1 DEF StepGood
  <2> QED BY <2>5, <2>6, <2>7
<1>8. CASE a.op = "Save" /\ Trimmed[ed.name] = Blank /\ Edits(a, BeginNaming(ed))
  <2>1. IsOpen(ed) /\ ed.stage = "Scenes"
    BY <1>1, <1>8, Meant DEF Scenings
  <2>2. Follows(ed, BeginNaming(ed), ui.snap)
    BY <1>1, <2>1, BeginNamingFollows
  <2> QED BY <1>2, <1>8, <2>1, <2>2, EditsGood
<1>9. CASE /\ a.op = "Save"
           /\ Asks(a, CloseEditor(ui),
                   [kind |-> "save_scene_profile", name |-> ed.name, from |-> ed.editing, hidden |-> ed.hidden])
  <2> DEFINE w == [kind |-> "save_scene_profile", name |-> ed.name, from |-> ed.editing, hidden |-> ed.hidden]
  <2>1. w.kind = "save_scene_profile" /\ w.name = ed.name /\ w.from = ed.editing /\ w.hidden = ed.hidden
    OBVIOUS
  <2>2. Asks(a, m, w) /\ ~KeepsPending(a)
    BY <1>2, <1>9 DEF m
  <2> HIDE DEF w
  <2>3. ed.stage = "Scenes" /\ ed.name \in Text /\ ed.editing \in Text /\ ed.hidden \in SUBSET Name
    BY <1>1, <1>9, Meant, EditorParts DEF Scenings
  <2>4. Runs(daemon, w) = Saves(daemon, w)
    BY <2>1 DEF Runs
  <2>5. \A e \in Saves(daemon, w) :
          /\ e \in Daemon
          /\ \A j \in DOMAIN daemon.profiles :
               \/ Same(daemon.profiles[j].name, ed.editing)
               \/ Same(daemon.profiles[j].name, ed.name) /\ ~Same(ed.name, ed.editing)
               \/ Kept(daemon.profiles[j], e.profiles)
    BY <2>1, <2>3, SavesAre DEF Inv
  <2>6. /\ Inv' /\ TogglesOnly(ui.editor, ui'.editor, ui.snap)
        /\ work' = w /\ (daemon' = daemon \/ daemon' \in Saves(daemon, w))
    BY <1>3, <2>2, <2>4, <2>5, AsksGood
  <2>7. ASSUME NEW j \in DOMAIN daemon.profiles,
               Same(daemon.profiles[j].name, ed.name), ~Same(ed.name, ed.editing)
        PROVE  Normal[daemon.profiles[j].name] \in strange
    <3>1. Accepted(ed) = ed.name
      BY <2>3 DEF Accepted
    <3>2. Normal[ed.name] # Blank /\ Normal[ed.name] = Normal[daemon.profiles[j].name]
      BY <2>7 DEF Same
    <3>3. Normal[ed.name] \in Names(daemon.profiles)
      BY <3>2, NamesAre
    <3>4. Told(ed, Names(daemon.profiles), strange)
      BY DEF Inv
    <3> QED BY <2>3, <2>7, <3>1, <3>2, <3>3, <3>4 DEF Told
  <2>8. CASE daemon' = daemon
    <3>1. daemon'.profiles = daemon.profiles
      BY <2>8
    <3> QED BY <2>6, <3>1, SameProfilesKept DEF StepGood
  <2>9. CASE daemon' \in Saves(daemon, w)
    <3>1. \A j \in DOMAIN daemon.profiles :
            \/ Same(daemon.profiles[j].name, ed.editing)
            \/ Normal[daemon.profiles[j].name] \in strange
            \/ Kept(daemon.profiles[j], daemon'.profiles)
      BY <2>5, <2>7, <2>9
    <3>2. KeepsOthers
      BY <2>1, <2>6, <3>1 DEF KeepsOthers, Kept, Survives
    <3> QED BY <2>6, <3>2 DEF StepGood
  <2> QED BY <2>6, <2>8, <2>9
<1> QED BY <1>5, <1>6, <1>7, <1>8, <1>9 DEF EditorSends

LEMMA EditorMovesGood ==
  ASSUME Inv, tour' = tour, NEW a \in Means(ui), EditorMoves(a)
  PROVE  StepGood
<1> DEFINE ed == ui.editor
           snap == ui.snap
<1>1. Steady(ui, chosen) /\ Apart(ui) /\ ui \in Models /\ snap \in Snapshots /\ ed \in Editors /\ EditorGood(ed, snap)
  BY InvParts
<1>2. a.op \in Pickings \cup Scenings \cup Namings \cup Rowings \cup {"DeleteCancel"} => ~KeepsPending(a)
  BY DEF KeepsPending, Pickings, Scenings, Namings, Rowings
<1>3. a.op \in Pickings \cup Scenings \cup Namings \cup Rowings \cup {"DeleteCancel"} => IsOpen(ed)
  BY <1>1, Meant
<1>4. /\ a.op \in Pickings => ed.asked = Blank /\ ed.stage = "Picker"
      /\ a.op \in Scenings => ed.stage = "Scenes"
      /\ a.op \in Namings => ed.stage = "Naming"
      /\ a.op \in Rowings => a.arg \in Nat
  BY <1>1, Meant
<1>5. CASE a.op = "CloseSceneProfiles" /\ Becomes(a, CloseEditor(ui))
  <2>1. Steady(CloseEditor(ui), chosen) /\ ~IsOpen(CloseEditor(ui).editor)
    BY <1>1, CloseEditorSteady, ClosedIs
  <2> QED BY <1>2, <1>5, <2>1, ShutToldAnything, ClosedTogglesNothing, BecomesGood DEF Pickings
<1>6. CASE a.op = "EditorNavUp" /\ Edits(a, Move(ed, snap, 0 - a.arg))
  <2>1. a.arg \in Nat /\ IsOpen(ed) /\ ~KeepsPending(a)
    BY <1>2, <1>3, <1>4, <1>6 DEF Rowings
  <2>2. 0 - a.arg \in Int
    BY <2>1
  <2> QED BY <1>1, <1>6, <2>1, <2>2, MoveFollows, EditsGood
<1>7. CASE a.op = "EditorNavDown" /\ Edits(a, Move(ed, snap, a.arg))
  <2>1. a.arg \in Nat /\ IsOpen(ed) /\ ~KeepsPending(a)
    BY <1>2, <1>3, <1>4, <1>7 DEF Rowings
  <2>2. a.arg \in Int
    BY <2>1
  <2> QED BY <1>1, <1>7, <2>1, <2>2, MoveFollows, EditsGood
<1>8. CASE a.op = "EditorSelect" /\ Edits(a, CursorTo(ed, snap, a.arg))
  <2>1. a.arg \in Nat /\ IsOpen(ed) /\ ~KeepsPending(a)
    BY <1>2, <1>3, <1>4, <1>8 DEF Rowings
  <2> QED BY <1>1, <1>8, <2>1, SelectFollows, EditsGood
<1>9. CASE a.op = "PickerConfirm" /\ Edits(a, PickerConfirm(ed, snap))
  <2>1. IsOpen(ed) /\ ~KeepsPending(a) /\ ed.asked = Blank /\ ed.stage = "Picker"
    BY <1>2, <1>3, <1>4, <1>9 DEF Pickings
  <2> QED BY <1>1, <1>9, <2>1, PickerConfirmFollows, EditsGood
<1>10. CASE a.op = "Delete" /\ Edits(a, AskDelete(ed, snap))
  <2>1. IsOpen(ed) /\ ~KeepsPending(a) /\ ed.stage = "Picker"
    BY <1>2, <1>3, <1>4, <1>10 DEF Pickings
  <2> QED BY <1>1, <1>10, <2>1, AskDeleteFollows, EditsGood
<1>11. CASE a.op = "DeleteCancel" /\ Edits(a, CancelDelete(ed))
  BY <1>1, <1>2, <1>3, <1>11, CancelDeleteFollows, EditsGood
<1>12. CASE a.op = "ToggleHidden" /\ Edits(a, ToggleHidden(ed, snap))
  <2>1. IsOpen(ed) /\ ~KeepsPending(a) /\ ed.stage = "Scenes"
    BY <1>2, <1>3, <1>4, <1>12 DEF Scenings
  <2> QED BY <1>1, <1>12, <2>1, ToggleHiddenFollows, EditsGood
<1>13. CASE a.op = "BeginNaming" /\ Edits(a, BeginNaming(ed))
  <2>1. IsOpen(ed) /\ ~KeepsPending(a) /\ ed.stage = "Scenes"
    BY <1>2, <1>3, <1>4, <1>13 DEF Scenings
  <2> QED BY <1>1, <1>13, <2>1, BeginNamingFollows, EditsGood
<1>14. CASE a.op = "NameEdit" /\ \E t \in Text : Edits(a, [ed EXCEPT !.name = t])
  <2>1. IsOpen(ed) /\ ~KeepsPending(a) /\ ed.stage = "Naming"
    BY <1>2, <1>3, <1>4, <1>14 DEF Namings
  <2>2. PICK t \in Text : Edits(a, [ed EXCEPT !.name = t])
    BY <1>14
  <2>3. Follows(ed, [ed EXCEPT !.name = t], snap)
    BY <1>1, <2>1, NameEditFollows
  <2> QED BY <2>1, <2>2, <2>3, EditsGood
<1>15. CASE a.op = "NameCancel" /\ Edits(a, NameCancel(ed))
  <2>1. IsOpen(ed) /\ ~KeepsPending(a) /\ ed.stage = "Naming"
    BY <1>2, <1>3, <1>4, <1>15 DEF Namings
  <2> QED BY <1>1, <1>15, <2>1, NameCancelFollows, EditsGood
<1>16. CASE a.op = "Back" /\ Edits(a, Back(ed, snap))
  <2>1. IsOpen(ed) /\ ~KeepsPending(a) /\ ed.stage = "Scenes"
    BY <1>2, <1>3, <1>4, <1>16 DEF Scenings
  <2> QED BY <1>1, <1>16, <2>1, BackFollows, EditsGood
<1> QED BY <1>5, <1>6, <1>7, <1>8, <1>9, <1>10, <1>11, <1>12, <1>13, <1>14, <1>15, <1>16 DEF EditorMoves

(* A name that is accepted is either none the daemon has, or the one being *)
(* edited, or one the UI had not been told of.                             *)
LEMMA CommitNameGood ==
  ASSUME Inv, tour' = tour, NEW a \in Means(ui), CommitName(a)
  PROVE  StepGood
<1> DEFINE ed == ui.editor
           next == NameCommit(ed, ui.snap)
           m == [ui EXCEPT !.editor = next]
           names == Names(daemon.profiles)
<1>1. /\ Steady(ui, chosen) /\ Apart(ui) /\ ui \in Models /\ ui.snap \in Snapshots /\ ed \in Editors
      /\ EditorGood(ed, ui.snap)
  BY InvParts
<1>2. /\ a.op = "NameCommit" /\ ui' = Ended(a, m)
      /\ strange' = IF ui'.editor.stage = "Scenes" THEN names \ Names(ui.snap.profiles) ELSE strange
      /\ chosen' = chosen /\ daemon' = daemon /\ foreign' = foreign /\ daemon'.profiles = daemon.profiles
  BY DEF CommitName, env
<1>3. ~ui.palette.active /\ ui.view = "Main" /\ ed.stage = "Naming" /\ ~KeepsPending(a)
  BY <1>1, <1>2, Meant DEF Namings, KeepsPending
<1>4. /\ EditorGood(next, ui.snap) /\ TogglesOnly(ed, next, ui.snap)
      /\ next.stage # "Scenes" => next = ed
      /\ next.stage = "Scenes" =>
           /\ ~Taken(ed, ui.snap) /\ next.editing = ed.editing
           /\ next.name = Trimmed[ed.name] /\ ed.name \in Name
  BY <1>1, <1>3, NameCommitKeeps
<1> HIDE DEF next
<1>5. Steady(m, chosen) /\ m.editor = next
  BY <1>1, <1>3, <1>4, EditorSteady
<1> HIDE DEF m
<1>6. Sound(Ended(a, m), chosen) /\ Ended(a, m).editor = next
  BY <1>3, <1>5, EndedIsSound, EndedKeeps DEF Steady
<1>7. Sound(ui, chosen)' /\ ui'.editor = next
  BY <1>2, <1>6
<1>8. Told(next, names, strange')
  <2>1. CASE next.stage # "Scenes"
    <3>1. next = ed /\ strange' = strange
      BY <1>2, <1>4, <1>7, <2>1
    <3> QED BY <3>1 DEF Inv
  <2>2. CASE next.stage = "Scenes"
    <3>1. /\ ~Taken(ed, ui.snap) /\ next.editing = ed.editing
          /\ Accepted(next) = Trimmed[ed.name] /\ ed.name \in Text
          /\ strange' = names \ Names(ui.snap.profiles)
      BY <1>2, <1>4, <1>7, <2>2, Texts DEF Accepted
    <3>2. Normal[Accepted(next)] = Normal[ed.name]
      BY <3>1, Texts
    <3>3. ASSUME Normal[ed.name] # Blank, Normal[ed.name] \in Names(ui.snap.profiles)
          PROVE  Same(Accepted(next), next.editing)
      <4>1. PICK i \in DOMAIN ui.snap.profiles : Normal[ui.snap.profiles[i].name] = Normal[ed.name]
        BY <3>3 DEF Names, ToSet
      <4>2. Same(ui.snap.profiles[i].name, ed.name)
        BY <3>3, <4>1 DEF Same
      <4>3. Same(ui.snap.profiles[i].name, ed.editing)
        BY <3>1, <4>2 DEF Taken
      <4> QED BY <3>1, <3>2, <4>1, <4>3 DEF Same
    <3> QED BY <3>1, <3>2, <3>3 DEF Told
  <2> QED BY <2>1, <2>2
<1>9. Inv'
  <2>1. Told(ui.editor, Names(daemon.profiles), strange)'
    BY <1>2, <1>7, <1>8
  <2> QED BY <1>2, <1>7, <2>1 DEF Inv
<1>10. TogglesOnly(ui.editor, ui'.editor, ui.snap)
  BY <1>4, <1>7
<1> QED BY <1>2, <1>9, <1>10, SameProfilesKept DEF StepGood

-----------------------------------------------------------------------------
(* Keys and clicks, and what arrives between them.                         *)

LEMMA DoesGood ==
  ASSUME Inv, tour' = tour, NEW a \in Means(ui), Does(a),
         ui.palette.active /\ a.op = "PaletteBackspace" => Len(ui.palette.input) > 1
  PROVE  StepGood
  BY DashboardGood, HalfTypedGood, PaletteStepGood, SettingsGood, CycleProfileGood, OpenEditorGood, EditorSendsGood,
     EditorMovesGood, CommitNameGood, QuitGood DEF Does

LEMMA PressGood ==
  ASSUME Inv, Press
  PROVE  StepGood
<1>1. PICK key \in tour.keys : Does(KeyAction(ui, key))
  BY DEF Press
<1>2. tour' = tour
  BY DEF Press, Running
<1> DEFINE a == KeyAction(ui, key)
<1>3. /\ a \in Means(ui)
      /\ ui.palette.active /\ a.op = "PaletteBackspace" => Len(ui.palette.input) > 1
  BY InvParts, KeyMeans
<1> HIDE DEF a
<1>4. Does(a)
  BY <1>1 DEF a
<1> QED BY <1>2, <1>3, <1>4, DoesGood

LEMMA ClicksGood ==
  ASSUME Inv, Clicks
  PROVE  StepGood
<1>1. PICK c \in tour.clicks : Does(MouseAction(ui, c))
  BY DEF Clicks
<1>2. tour' = tour /\ c \in Click
  BY ToursAssumption DEF Clicks, Running, Inv, ToursAssumption
<1> DEFINE a == MouseAction(ui, c)
<1>3. a \in Means(ui) /\ a.op # "PaletteBackspace"
  BY <1>2, InvParts, MouseMeans
<1> HIDE DEF a
<1>4. Does(a)
  BY <1>1 DEF a
<1> QED BY <1>2, <1>3, <1>4, DoesGood

LEMMA SnapshotArrivesGood ==
  ASSUME Inv, SnapshotArrives
  PROVE  StepGood
<1> DEFINE snap == Projected(daemon)
           told == SetSnapshot(ui, snap)
           m == [told EXCEPT !.connected = TRUE]
<1>1. Steady(ui, chosen) /\ Quiet(ui) /\ snap \in Snapshots
  BY InvParts, ProjectedType DEF Inv
<1> HIDE DEF snap
<1>2. /\ Steady(told, chosen)
      /\ told.pending = ui.pending /\ told.count = ui.count /\ told.palette = ui.palette /\ told.view = ui.view
      /\ told.editor.stage = ui.editor.stage /\ told.editor.hidden = ui.editor.hidden
      /\ told.editor.name = ui.editor.name /\ told.editor.before = ui.editor.before
      /\ told.editor.editing = ui.editor.editing
  BY <1>1, SetSnapshotSteady
<1> HIDE DEF told
<1>3. told \in Models
  BY <1>2 DEF Steady
<1>4. /\ Steady(m, chosen) /\ m.editor = told.editor
      /\ m.pending = told.pending /\ m.count = told.count /\ m.palette = told.palette /\ m.view = told.view
  <2>1. Steady(m, chosen)
    BY <1>2, ConnectedSteady
  <2> QED BY <1>3, <2>1 DEF Models
<1>5. /\ ui' = m /\ chosen' = chosen /\ daemon' = daemon /\ foreign' = foreign /\ strange' = strange /\ tour' = tour
      /\ daemon'.profiles = daemon.profiles
  BY DEF SnapshotArrives, Running, env, told, snap
<1> HIDE DEF m
<1>6. Quiet(m)
  BY <1>1, <1>2, <1>4 DEF Quiet, IsOpen
<1>7. Told(m.editor, Names(daemon.profiles), strange)
  <2>1. Told(ui.editor, Names(daemon.profiles), strange)
    BY DEF Inv
  <2> QED BY <1>2, <1>4, <2>1 DEF Told, Accepted
<1>8. Sound(ui, chosen)' /\ Told(ui.editor, Names(daemon.profiles), strange)'
  BY <1>4, <1>5, <1>6, <1>7 DEF Sound
<1>9. Inv'
  BY <1>5, <1>8 DEF Inv
<1>10. TogglesOnly(ui.editor, ui'.editor, ui.snap)
  BY <1>2, <1>4, <1>5 DEF TogglesOnly
<1> QED BY <1>5, <1>9, <1>10, SameProfilesKept DEF StepGood

(* A change of the model that leaves its editor and keyboard alone.        *)
LEMMA AsideArrives ==
  ASSUME Inv, NEW m, Steady(m, chosen), Quiet(m), m.editor = ui.editor,
         ui' = m, tour' = tour, UNCHANGED <<env, chosen, strange>>
  PROVE  StepGood
<1>1. daemon' = daemon /\ foreign' = foreign /\ daemon'.profiles = daemon.profiles
  BY DEF env
<1>2. Sound(ui, chosen)' /\ Told(ui.editor, Names(daemon.profiles), strange)'
  BY <1>1 DEF Sound, Inv
<1>3. Inv'
  BY <1>1, <1>2 DEF Inv
<1>4. TogglesOnly(ui.editor, ui'.editor, ui.snap)
  BY SameEditorToggles
<1> QED BY <1>1, <1>3, <1>4, SameProfilesKept DEF StepGood

LEMMA LogArrivesGood ==
  ASSUME Inv, LogArrives
  PROVE  StepGood
<1> DEFINE m == PushLog(ui)
<1>1. Steady(ui, chosen) /\ Quiet(ui) /\ ui \in Models
  BY InvParts
<1>2. Steady(m, chosen) /\ m.editor = ui.editor
  BY <1>1, ScrollSteady, EditorAside
<1>3. m.palette = ui.palette /\ m.pending = ui.pending /\ m.count = ui.count /\ m.view = ui.view
  BY <1>1 DEF PushLog, Models
<1>4. ui' = m /\ tour' = tour /\ UNCHANGED <<env, chosen, strange>>
  BY DEF LogArrives, Running
<1> HIDE DEF m
<1>5. Quiet(m)
  BY <1>1, <1>2, <1>3 DEF Quiet
<1> QED BY <1>2, <1>4, <1>5, AsideArrives

LEMMA SessionLostGood ==
  ASSUME Inv, SessionLost
  PROVE  StepGood
<1> DEFINE m == [ui EXCEPT !.connected = FALSE]
<1>1. Steady(ui, chosen) /\ Quiet(ui) /\ ui \in Models
  BY InvParts
<1>2. Steady(m, chosen) /\ m.editor = ui.editor
  BY <1>1, ConnectedSteady, EditorAside
<1>3. m.palette = ui.palette /\ m.pending = ui.pending /\ m.count = ui.count /\ m.view = ui.view
  BY <1>1 DEF Models
<1>4. ui' = m /\ tour' = tour /\ UNCHANGED <<env, chosen, strange>>
  BY DEF SessionLost, Running
<1> HIDE DEF m
<1>5. Quiet(m)
  BY <1>1, <1>2, <1>3 DEF Quiet
<1> QED BY <1>2, <1>4, <1>5, AsideArrives

(* What others do does not reach the screen, and a name they bring is one  *)
(* the UI has not been told of.                                            *)
LEMMA ToldMore ==
  ASSUME NEW ed, NEW names, NEW untold, Told(ed, names, untold),
         NEW more, NEW further, more \ names \subseteq further, untold \subseteq further
  PROVE  Told(ed, more, further)
  BY DEF Told

LEMMA ForeignChangeGood ==
  ASSUME Inv, ForeignChange
  PROVE  Inv' /\ ui' = ui /\ foreign' # foreign
<1>1. /\ ui' = ui /\ chosen' = chosen /\ tour' = tour /\ foreign' = foreign + 1 /\ foreign \in Nat
      /\ daemon \in Daemon
  BY DEF ForeignChange, Running, Inv
<1>2. foreign' \in Nat /\ foreign' # foreign
  BY <1>1
<1>3. Told(ui.editor, Names(daemon.profiles), strange) /\ daemon.profiles \in Seq(Profile)
  BY InvParts DEF Inv
<1>4. ASSUME NEW p \in Foreign, OthersSave(p)
      PROVE  daemon' \in Daemon /\ Told(ui.editor, Names(daemon'.profiles), strange')
  <2>1. p.name \in Text /\ p.hidden \in SUBSET Name
    BY DaemonAssumption DEF DaemonAssumption, Profile
  <2> DEFINE saved == SaveProfile(daemon, Blank, p.name, p.hidden)
  <2>2. daemon' = saved /\ strange' = strange \cup {Normal[p.name]}
    BY <1>4 DEF OthersSave
  <2>3. /\ saved \in Daemon
        /\ \A i \in DOMAIN saved.profiles : Kept(saved.profiles[i], daemon.profiles) \/ saved.profiles[i].name = p.name
    BY <1>1, <2>1, Texts, SaveIs
  <2> HIDE DEF saved
  <2>4. Names(saved.profiles) \ Names(daemon.profiles) \subseteq strange'
    BY <2>2, <2>3 DEF Names, ToSet, Kept
  <2>5. Told(ui.editor, Names(saved.profiles), strange')
    BY <1>3, <2>2, <2>4, ToldMore
  <2> QED BY <2>2, <2>3, <2>5
<1>5. ASSUME NEW p \in Foreign, OthersDelete(p)
      PROVE  daemon' \in Daemon /\ Told(ui.editor, Names(daemon'.profiles), strange')
  <2> DEFINE left == DeleteProfile(daemon, p.name)
  <2>1. daemon' = left /\ strange' = strange
    BY <1>5 DEF OthersDelete
  <2>2. left \in Daemon /\ \A i \in DOMAIN left.profiles : Kept(left.profiles[i], daemon.profiles)
    BY <1>1, DeleteIs
  <2> HIDE DEF left
  <2>3. Names(left.profiles) \ Names(daemon.profiles) \subseteq strange'
    BY <2>2 DEF Names, ToSet, Kept
  <2>4. Told(ui.editor, Names(left.profiles), strange')
    BY <1>3, <2>1, <2>3, ToldMore
  <2> QED BY <2>1, <2>2, <2>4
<1>6. ASSUME ObsLosesScene
      PROVE  daemon' \in Daemon /\ Told(ui.editor, Names(daemon'.profiles), strange')
  <2>1. daemon.scenes \in Seq(Name) /\ daemon.scenes # << >>
    BY <1>1, <1>6, DaemonParts DEF ObsLosesScene
  <2> DEFINE rest == Tail(daemon.scenes)
  <2>2. rest \in Seq(Name)
    BY <2>1
  <2>3. daemon' = [daemon EXCEPT !.scenes = rest] /\ strange' = strange
    BY <1>6 DEF ObsLosesScene
  <2> HIDE DEF rest
  <2>4. daemon' \in Daemon /\ daemon'.profiles = daemon.profiles
    BY <1>1, <2>2, <2>3 DEF Daemon
  <2> QED BY <1>3, <2>3, <2>4
<1>7. daemon' \in Daemon /\ Told(ui.editor, Names(daemon'.profiles), strange')
  BY <1>4, <1>5, <1>6 DEF ForeignChange
<1>8. Sound(ui, chosen)' /\ Told(ui.editor, Names(daemon.profiles), strange)'
  BY <1>1, <1>7 DEF Inv
<1>9. Inv'
  BY <1>1, <1>2, <1>7, <1>8 DEF Inv
<1> QED BY <1>1, <1>2, <1>9

LEMMA NextGood ==
  ASSUME Inv, [Next]_vars
  PROVE  /\ Inv' /\ TogglesOnly(ui.editor, ui'.editor, ui.snap)
         /\ foreign' = foreign => KeepsOthers
<1>1. CASE Press \/ Clicks \/ SnapshotArrives \/ LogArrives \/ SessionLost
  BY <1>1, PressGood, ClicksGood, SnapshotArrivesGood, LogArrivesGood, SessionLostGood DEF StepGood
<1>2. CASE ForeignChange
  BY <1>2, ForeignChangeGood, SameEditorToggles
<1>3. CASE UNCHANGED vars
  <2>1. /\ ui' = ui /\ chosen' = chosen /\ daemon' = daemon /\ foreign' = foreign /\ strange' = strange /\ tour' = tour
        /\ daemon'.profiles = daemon.profiles
    BY <1>3 DEF vars, env
  <2>2. Inv'
    BY <2>1 DEF Inv
  <2> QED BY <2>1, <2>2, SameProfilesKept, SameEditorToggles
<1> QED BY <1>1, <1>2, <1>3 DEF Next

LEMMA AtFirst ==
  ASSUME Init
  PROVE  Inv
<1>1. /\ ui = [snap |-> NoSnapshot, connected |-> FALSE,
               focus |-> "Scenes", cursor |-> [p \in Panel |-> 0],
               pending |-> "none", count |-> 0, palette |-> Shut,
               view |-> "Main", theme |-> tour.theme, themeCursor |-> 0, origin |-> -1,
               logs |-> 0, scroll |-> 0, editor |-> Closed]
      /\ chosen = tour.theme
  BY DEF Init
<1>0. tour.theme \in Theme
  BY ToursAssumption DEF Init, ToursAssumption
<1>2. ui \in Models
  <2>1. /\ 0 \in 0 .. MaxCount /\ 0 \in 0 .. Themes - 1 /\ 0 \in 0 .. LogEntries /\ -1 \in Int
        /\ [p \in Panel |-> 0] \in [Panel -> Nat] /\ "Scenes" \in Panel /\ "none" \in Pending /\ "Main" \in View
    BY Sizes DEF Panel, Pending, View
  <2> QED BY <1>0, <1>1, <2>1, NoSnapshotType, ShutIs, ClosedIs DEF Models
<1>3. CursorsGood(ui)
  <2>1. \A p \in Panel : ui.cursor[p] = 0 /\ LastRow(ui, p) \in Nat
    BY <1>1, <1>2, RowsAre
  <2> QED BY <2>1 DEF CursorsGood
<1>4. Apart(ui) /\ Quiet(ui)
  BY <1>1, ShutIs, ClosedIs DEF Apart, Quiet
<1>5. Themed(ui, chosen) /\ chosen \in Theme
  BY <1>0, <1>1 DEF Themed
<1>6. PaletteGood(ui.palette) /\ EditorGood(ui.editor, ui.snap)
  BY <1>1, ShutIs, ClosedIs
<1>7. Told(ui.editor, Names(daemon.profiles), strange)
  BY <1>1, ClosedIs, ShutToldAnything
<1>8. tour \in Tours /\ foreign \in Nat /\ daemon \in Daemon
  BY DaemonAssumption DEF Init, DaemonAssumption
<1> QED BY <1>2, <1>3, <1>4, <1>5, <1>6, <1>7, <1>8 DEF Inv, Sound, Steady

-----------------------------------------------------------------------------
(* The results.                                                            *)

LEMMA Inductive == Spec => []Inv
<1>1. Inv /\ [Next]_vars => Inv'
  BY NextGood
<1> QED BY <1>1, AtFirst, PTL DEF Spec

LEMMA InvMeansScreenInv ==
  ASSUME Inv
  PROVE  ScreenInv
<1>1. /\ ui \in Models /\ ui.palette \in Palettes /\ PaletteGood(ui.palette) /\ CursorsGood(ui) /\ Apart(ui)
      /\ Themed(ui, chosen) /\ EditorGood(ui.editor, ui.snap) /\ Quiet(ui) /\ chosen \in Theme
  BY InvParts DEF Inv, Sound, Steady
<1>2. TypeOK
  BY <1>1, ModelParts, PaletteParts DEF TypeOK
<1>3. CursorsInList
  BY <1>1 DEF CursorsInList, CursorsGood, EditorGood
<1>4. OneOwner
  BY <1>1 DEF OneOwner, Apart, Quiet
<1>5. ThemeIsChosen
  <2>1. ui.view \in {"Main", "Settings"}
    BY <1>1, ModelParts DEF View
  <2>2. CASE ui.view = "Main"
    BY <1>1, <2>2 DEF ThemeIsChosen, Themed
  <2>3. CASE ui.view = "Settings"
    BY <1>1, <2>3 DEF ThemeIsChosen, Themed
  <2> QED BY <2>1, <2>2, <2>3
<1>6. PaletteInStep
  <2>1. ui.palette.active => ui.palette.input # << >> /\ Head(ui.palette.input) = Prompt
    <3>1. ASSUME NEW line \in Lines PROVE line # << >> /\ Head(line) = Prompt
      BY LinesAssumption DEF LinesAssumption
    <3> QED BY <1>1, <3>1 DEF PaletteGood
  <2> QED BY <1>1, <2>1 DEF PaletteInStep, PaletteGood
<1>7. PromptIsTrue
  BY <1>1 DEF PromptIsTrue, EditorGood
<1> QED BY <1>2, <1>3, <1>4, <1>5, <1>6, <1>7 DEF ScreenInv

(* What is on the screen is what the keys act on: whatever is pressed,     *)
(* clicked and arrives, no cursor is past the end of its list, one thing   *)
(* owns the keyboard, the dashboard has the theme confirmed last, the      *)
(* candidates are those of the line, and the question whether to delete a  *)
(* profile names the one in the row (tui/model.rs, tui/input.rs).          *)
THEOREM ScreenIsTrue == Spec => []ScreenInv
<1>1. Inv => ScreenInv
  BY InvMeansScreenInv
<1> QED BY <1>1, Inductive, PTL

(* No command the editor sends replaces or removes a scene profile but the *)
(* one that was edited and the one the user was asked about, or one whose  *)
(* name the UI had not been told of when it accepted it                    *)
(* (scene_profile_commit_name, cmd_save_scene_profile).                    *)
THEOREM OthersProfilesSurvive == Spec => NothingIsOverwritten
<1>1. Inv /\ [Next]_vars =>
        [foreign' = foreign =>
           \A i \in DOMAIN daemon.profiles :
             LET p == daemon.profiles[i] IN
             \/ Survives(p)
             \/ work'.kind = "save_scene_profile" /\ (Same(p.name, work'.from) \/ Normal[p.name] \in strange)
             \/ work'.kind = "delete_scene_profile" /\ Same(p.name, ui.editor.asked)]_vars
  BY NextGood DEF KeepsOthers
<1> QED BY <1>1, Inductive, PTL DEF Spec, NothingIsOverwritten

(* A row that is toggled changes what the profile hides by the scene in    *)
(* that row, under whatever spellings it is known                          *)
(* (scene_profile_toggle_hidden).                                          *)
THEOREM ARowTogglesItsScene == Spec => TogglesOneScene
<1>1. Inv /\ [Next]_vars =>
        [ui.editor.stage = "Scenes" /\ ui'.editor.stage = "Scenes" /\ ui'.editor.hidden # ui.editor.hidden =>
           LET row == SceneRows(ui.editor, ui.snap)[ui.editor.scene + 1] IN
           /\ \A t \in Text : ~Same(t, row) => (Hides(ui'.editor, t) <=> Hides(ui.editor, t))
           /\ \/ Hides(ui'.editor, row) <=> ~Hides(ui.editor, row)
              \/ \E s, t \in ui.editor.hidden : s # t /\ Same(s, row) /\ Same(t, row)]_vars
  BY NextGood DEF TogglesOnly
<1> QED BY <1>1, Inductive, PTL DEF Spec, TogglesOneScene

LEMMA LogHolds ==
  ASSUME NEW logs \in Nat, NEW scroll \in Nat, logs <= LogEntries, scroll <= LogEntries, scroll > 0,
         NEW m, m.logs = logs, m.scroll = scroll, logs < LogEntries \/ ViewStart(m) > 0,
         NEW next, next.logs = Least(logs + 1, LogEntries), next.scroll = Least(scroll + 1, LogEntries)
  PROVE  FromTail(next) = FromTail(m) + 1
  BY Sizes DEF FromTail, ViewStart, MaxScroll, Least, AtLeast0

(* The log that is read back stays on the lines being read when a line     *)
(* arrives (push_log).                                                     *)
THEOREM ReadingIsNotMoved == Spec => ReadingHolds
<1>1. ASSUME Inv, LogArrives, ui.scroll > 0, ui.logs < LogEntries \/ ViewStart(ui) > 0
      PROVE  FromTail(ui') = FromTail(ui) + 1
  <2>1. /\ ui \in Models /\ ui.logs \in Nat /\ ui.scroll \in Nat /\ ui.logs <= LogEntries /\ ui.scroll <= LogEntries
    BY <1>1, InvParts, ModelParts, Sizes
  <2>2. ui'.logs = Least(ui.logs + 1, LogEntries) /\ ui'.scroll = Least(ui.scroll + 1, LogEntries)
    BY <1>1, <2>1 DEF LogArrives, PushLog, Models
  <2> QED BY <1>1, <2>1, <2>2, LogHolds
<1>2. Inv /\ [Next]_vars =>
        [LogArrives /\ ui.scroll > 0 /\ (ui.logs < LogEntries \/ ViewStart(ui) > 0)
           => FromTail(ui') = FromTail(ui) + 1]_vars
  BY <1>1
<1> QED BY <1>2, Inductive, PTL DEF Spec, ReadingHolds
=============================================================================
