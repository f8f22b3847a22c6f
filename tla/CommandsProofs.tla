--------------------------- MODULE CommandsProofs ---------------------------
(***************************************************************************)
(* TLAPS proofs about Commands: what a command acts on, what its exit      *)
(* status and the sentence it ends with say, and that the snapshot follows *)
(* OBS, for any texts, configs, scene lists, lines and payloads, however   *)
(* many events are on their way.                                           *)
(***************************************************************************)
EXTENDS Commands, FiniteSetTheorems, SequenceTheorems, WellFoundedInduction, TLAPS

-----------------------------------------------------------------------------
(* Numbers and sequences.                                                  *)

LEMMA LeastIn ==
  ASSUME NEW S \in SUBSET Nat, S # {}
  PROVE  Min(S) \in S /\ \A k \in S : Min(S) <= k
<1>1. PICK n \in S : \A k \in S : ~(<<k, n>> \in OpToRel(<, Nat))
  BY WFMin, NatLessThanWellFounded
<1>2. n \in Nat /\ \A k \in S : k \in Nat /\ ~(k < n)
  BY <1>1 DEF OpToRel
<1>3. \E x \in S : \A y \in S : x <= y
  BY <1>2
<1> QED BY <1>3 DEF Min

LEMMA GreatestIn ==
  ASSUME NEW n \in Nat, NEW S \in SUBSET (1 .. n), S # {}
  PROVE  Max(S) \in S /\ \A k \in S : k <= Max(S)
<1> DEFINE T == {n - k : k \in S}
<1>1. T \in SUBSET Nat /\ T # {}
  <2>1. \A k \in S : n - k \in Nat
    OBVIOUS
  <2>2. \E k \in S : n - k \in T
    OBVIOUS
  <2> QED BY <2>1, <2>2
<1>2. Min(T) \in T /\ \A t \in T : Min(T) <= t
  BY <1>1, LeastIn
<1>3. PICK k \in S : Min(T) = n - k
  BY <1>2
<1>4. \A i \in S : k >= i
  <2> TAKE i \in S
  <2>1. n - i \in T
    OBVIOUS
  <2>2. n - k <= n - i
    BY <1>2, <1>3, <2>1
  <2> QED BY <2>2
<1> QED BY <1>4 DEF Max

LEMMA Elements ==
  ASSUME NEW S, NEW s \in Seq(S)
  PROVE  /\ \A k \in DOMAIN s : s[k] \in S
         /\ DOMAIN s = 1 .. Len(s) /\ Len(s) \in Nat
         /\ ToSet(s) = {s[k] : k \in DOMAIN s} /\ ToSet(s) \subseteq S
  BY DEF ToSet

LEMMA IsASequence ==
  ASSUME NEW S, NEW n \in Nat, NEW s \in [1 .. n -> S]
  PROVE  s \in Seq(S) /\ Len(s) = n
  OBVIOUS

LEMMA RemovalShortens ==
  ASSUME NEW S, NEW s \in Seq(S), NEW i \in DOMAIN s
  PROVE  /\ RemoveAt(s, i) \in Seq(S) /\ Len(RemoveAt(s, i)) = Len(s) - 1
         /\ \A k \in 1 .. Len(s) - 1 : RemoveAt(s, i)[k] = IF k < i THEN s[k] ELSE s[k + 1]
<1> DEFINE before == SubSeq(s, 1, i - 1)
           after  == SubSeq(s, i + 1, Len(s))
<1>1. Len(s) \in Nat /\ i \in 1 .. Len(s) /\ \A k \in 1 .. Len(s) : s[k] \in S
  OBVIOUS
<1>2. before \in Seq(S) /\ Len(before) = i - 1 /\ \A k \in 1 .. i - 1 : before[k] = s[k]
  BY <1>1, SubSeqProperties
<1>3. after \in Seq(S) /\ Len(after) = Len(s) - i /\ \A k \in 1 .. Len(s) - i : after[k] = s[k + i]
  BY <1>1, SubSeqProperties
<1>4. RemoveAt(s, i) = before \o after
  BY DEF RemoveAt
<1> HIDE DEF before, after
<1> QED BY <1>1, <1>2, <1>3, <1>4

-----------------------------------------------------------------------------
(* Texts.                                                                  *)

LEMMA Trimming ==
  ASSUME NEW t \in Text
  PROVE  /\ Trim(t) \in Text /\ Trim(Trim(t)) = Trim(t)
         /\ ToSet(Trim(t)) \subseteq ToSet(t)
<1> DEFINE kept == {i \in DOMAIN t : t[i] \notin Spaces}
<1>1. CASE kept = {}
  <2>1. Trim(t) = << >>
    BY <1>1 DEF Trim
  <2>2. Trim(<< >>) = << >> /\ ToSet(<< >>) = {}
    BY DEF Trim, ToSet
  <2> QED BY <2>1, <2>2 DEF Text
<1>2. CASE kept # {}
  <2> DEFINE m == Min(kept)
             n == Max(kept)
             u == SubSeq(t, m, n)
  <2>1. Len(t) \in Nat /\ DOMAIN t = 1 .. Len(t) /\ kept \in SUBSET (1 .. Len(t))
    BY DEF Text
  <2>2. m \in kept /\ \A k \in kept : m <= k
    <3>1. kept \in SUBSET Nat
      BY <2>1
    <3> QED BY <1>2, <3>1, LeastIn
  <2>3. n \in kept /\ \A k \in kept : k <= n
    BY <1>2, <2>1, GreatestIn
  <2>4. m \in 1 .. Len(t) /\ n \in 1 .. Len(t) /\ m <= n
    BY <2>1, <2>2, <2>3
  <2>5. Trim(t) = u
    BY <1>2 DEF Trim
  <2> HIDE DEF kept, m, n
  <2>6. /\ u \in Text /\ Len(u) = n - m + 1 /\ DOMAIN u = 1 .. Len(u)
        /\ \A i \in 1 .. Len(u) : u[i] = t[i + m - 1]
    BY <2>4, SubSeqProperties DEF Text
  <2>7. t[m] \notin Spaces /\ t[n] \notin Spaces
    BY <2>2, <2>3 DEF kept
  <2>8. u[1] = t[m] /\ u[Len(u)] = t[n] /\ 1 \in 1 .. Len(u) /\ Len(u) \in 1 .. Len(u)
    BY <2>4, <2>6
  <2>9. ToSet(u) \subseteq ToSet(t)
    BY <2>1, <2>4, <2>6 DEF ToSet
  <2> DEFINE again == {i \in DOMAIN u : u[i] \notin Spaces}
  <2>10. again \in SUBSET (1 .. Len(u)) /\ 1 \in again /\ Len(u) \in again /\ Len(u) \in Nat
    BY <2>6, <2>7, <2>8, <2>4
  <2> HIDE DEF again, u
  <2>11. Min(again) \in again /\ Min(again) <= 1
    <3>1. again \in SUBSET Nat /\ again # {}
      BY <2>10
    <3> QED BY <2>10, <3>1, LeastIn
  <2>12. Max(again) \in again /\ Len(u) <= Max(again)
    BY <2>10, GreatestIn
  <2>13. Min(again) = 1 /\ Max(again) = Len(u)
    <3>1. Min(again) \in 1 .. Len(u) /\ Max(again) \in 1 .. Len(u)
      BY <2>10, <2>11, <2>12
    <3>2. \A a, b, len \in Nat : a \in 1 .. len /\ b \in 1 .. len /\ a <= 1 /\ len <= b => a = 1 /\ b = len
      OBVIOUS
    <3> QED BY <2>10, <2>11, <2>12, <3>1, <3>2
  <2>14. Trim(u) = SubSeq(u, 1, Len(u))
    BY <2>10, <2>13 DEF Trim, again
  <2>15. SubSeq(u, 1, Len(u)) = u
    BY <2>6 DEF Text
  <2> QED BY <2>5, <2>6, <2>9, <2>14, <2>15
<1> QED BY <1>1, <1>2

\* What is left of a usable text once it is trimmed.
Clean == {t \in Text : Usable(t) /\ Trim(t) = t}

LEMMA TrimmedIsClean ==
  ASSUME NEW t \in Text, Usable(t)
  PROVE  Trim(t) \in Clean
  BY Trimming DEF Clean, Usable

LEMMA CleanIsSomething ==
  ASSUME NEW t \in Clean
  PROVE  t \in Text /\ t # None /\ Usable(t)
  BY DEF Clean, Usable, None

LEMMA NormalIsOfTrimmed ==
  ASSUME NEW t \in Text
  PROVE  NormalizedName(Trim(t)) = NormalizedName(t)
  BY Trimming DEF NormalizedName

-----------------------------------------------------------------------------
(* Resolving a target: the entry that is found answers best.               *)

TableEntry == [name : Clean, alias : Text, shortcut : Text]

\* The entries of a table that answer to a target as well as `rank`.
Answering(target, table, scenes, rank) ==
  {i \in DOMAIN table : rank \in Ranks(target, table[i], i, scenes)}

LEMMA RanksAre ==
  ASSUME NEW target, NEW entry, NEW i, NEW scenes \in BOOLEAN
  PROVE  /\ Ranks(target, entry, i, scenes) \subseteq 1 .. 6
         /\ 1 \in Ranks(target, entry, i, scenes) <=> entry.shortcut = Trim(target)
         /\ 2 \in Ranks(target, entry, i, scenes) <=> entry.alias = Trim(target)
         /\ 3 \in Ranks(target, entry, i, scenes) <=> entry.name = Trim(target)
         /\ 4 \in Ranks(target, entry, i, scenes) <=>
              entry.alias # None /\ NormalizedName(entry.alias) = NormalizedName(target)
         /\ 5 \in Ranks(target, entry, i, scenes) <=> NormalizedName(entry.name) = NormalizedName(target)
         /\ 6 \in Ranks(target, entry, i, scenes) <=>
              scenes /\ IsNumber(Trim(target)) /\ Number(Trim(target)) = i
<1> DEFINE R == Ranks(target, entry, i, scenes)
<1>1. 1 \in R <=> entry.shortcut = Trim(target)
  BY DEF Ranks, CheckedName
<1>2. 2 \in R <=> entry.alias = Trim(target)
  BY DEF Ranks, CheckedName
<1>3. 3 \in R <=> entry.name = Trim(target)
  BY DEF Ranks, CheckedName
<1>4. 4 \in R <=> entry.alias # None /\ NormalizedName(entry.alias) = NormalizedName(target)
  BY DEF Ranks, CheckedName
<1>5. 5 \in R <=> NormalizedName(entry.name) = NormalizedName(target)
  BY DEF Ranks, CheckedName
<1>6. 6 \in R <=> scenes /\ IsNumber(Trim(target)) /\ Number(Trim(target)) = i
  BY DEF Ranks, CheckedName
<1> QED BY <1>1, <1>2, <1>3, <1>4, <1>5, <1>6 DEF Ranks

\* The first entry with a field that is the target as it stands.
FirstWith(table, field, exact) == SelectInSeq(table, LAMBDA e : e[field] = exact)

LEMMA FirstExact ==
  ASSUME NEW table \in Seq(TableEntry), NEW field \in {"name", "alias", "shortcut"}, NEW exact
  PROVE  LET at == {i \in DOMAIN table : table[i][field] = exact}
             found == FirstWith(table, field, exact)
         IN IF at = {} THEN found = 0 ELSE found \in at /\ found # 0
<1> DEFINE at == {i \in 1 .. Len(table) : table[i][field] = exact}
<1>1. DOMAIN table = 1 .. Len(table) /\ Len(table) \in Nat
  OBVIOUS
<1>2. FirstWith(table, field, exact) = IF at # {} THEN Min(at) ELSE 0
  BY DEF FirstWith, SelectInSeq
<1>3. at # {} => Min(at) \in at
  <2>1. at \in SUBSET Nat
    BY <1>1
  <2> QED BY <2>1, LeastIn
<1>4. 0 \notin at
  BY <1>1
<1> QED BY <1>1, <1>2, <1>3, <1>4

LEMMA OneOrMore ==
  ASSUME NEW n \in Nat, NEW S \in SUBSET (1 .. n), S # {}
  PROVE  /\ Cardinality(S) \in Nat
         /\ Cardinality(S) = 1 => \E x : S = {x}
         /\ Cardinality(S) # 1 => Cardinality(S) > 1
<1>1. IsFiniteSet(S)
  <2>1. IsFiniteSet(1 .. n)
    BY FS_Interval
  <2> QED BY <2>1, FS_Subset
<1>2. Cardinality(S) \in Nat /\ Cardinality(S) # 0
  BY <1>1, FS_CardinalityType, FS_EmptySet
<1>3. Cardinality(S) = 1 => \E x : S = {x}
  BY <1>1, FS_Singleton
<1> QED BY <1>2, <1>3

\* Whatever is found answers, and nothing answers better or, but for its case,
\* as well; nothing is ambiguous that does not answer twice.
LEMMA ResolutionIsBest ==
  ASSUME NEW target, Usable(target), NEW table \in Seq(TableEntry), NEW kind \in {"scene", "audio"}
  PROVE  LET resolved == ResolveWith(target, table, kind)
             At(rank) == Answering(target, table, kind = "scene", rank)
         IN \/ \E rank \in 1 .. 6 :
                 /\ resolved = Found(resolved.entry) /\ resolved.entry \in At(rank)
                 /\ \A better \in 1 .. rank - 1 : At(better) = {}
                 /\ rank \in {4, 5} => At(rank) = {resolved.entry}
            \/ \E rank \in {4, 5} :
                 /\ resolved = Failure("AliasAmbiguous") /\ Cardinality(At(rank)) > 1
                 /\ \A better \in 1 .. rank - 1 : At(better) = {}
            \/ /\ resolved = NotFound(kind)
               /\ \A rank \in 1 .. 6 : At(rank) = {}
<1> DEFINE exact == Trim(target)
           Exact(field) == {i \in DOMAIN table : table[i][field] = exact}
           Loose(field) == CaseInsensitive(target, table, field)
           At(rank) == Answering(target, table, kind = "scene", rank)
           F(field) == FirstWith(table, field, exact)
           row == Number(exact)
           resolved == ResolveWith(target, table, kind)
<1>1. DOMAIN table = 1 .. Len(table) /\ Len(table) \in Nat /\ \A i \in DOMAIN table : table[i] \in TableEntry
  OBVIOUS
<1>2. /\ At(1) = Exact("shortcut") /\ At(2) = Exact("alias") /\ At(3) = Exact("name")
  BY RanksAre DEF Answering
<1>3. At(4) = Loose("alias") /\ At(5) = Loose("name")
  <2>1. \A i \in DOMAIN table : table[i].name # None
    BY <1>1, CleanIsSomething DEF TableEntry
  <2> QED BY <2>1, RanksAre DEF Answering, CaseInsensitive
<1>4. At(6) = {i \in DOMAIN table : kind = "scene" /\ IsNumber(exact) /\ row = i}
  BY RanksAre DEF Answering
<1>5. \A field \in {"shortcut", "alias", "name"} :
        IF Exact(field) = {} THEN F(field) = 0 ELSE F(field) \in Exact(field) /\ F(field) # 0
  <2> TAKE field \in {"shortcut", "alias", "name"}
  <2> HIDE DEF exact
  <2> QED BY FirstExact
<1>6. resolved =
        IF F("shortcut") # 0 THEN Found(F("shortcut"))
        ELSE IF F("alias") # 0 THEN Found(F("alias"))
        ELSE IF F("name") # 0 THEN Found(F("name"))
        ELSE IF Loose("alias") # {} THEN
          IF Cardinality(Loose("alias")) = 1 THEN Found(CHOOSE i \in Loose("alias") : TRUE)
          ELSE Failure("AliasAmbiguous")
        ELSE IF Loose("name") # {} THEN
          IF Cardinality(Loose("name")) = 1 THEN Found(CHOOSE i \in Loose("name") : TRUE)
          ELSE Failure("AliasAmbiguous")
        ELSE IF kind = "scene" /\ IsNumber(exact) /\ row \in DOMAIN table THEN Found(row)
        ELSE NotFound(kind)
  BY DEF ResolveWith, FirstWith
<1>7. \A i : Found(i) = Found(Found(i).entry) /\ Found(i).entry = i
  BY DEF Found
<1>8. \A field \in {"alias", "name"} : Loose(field) # {} =>
        /\ Cardinality(Loose(field)) = 1 => Loose(field) = {CHOOSE i \in Loose(field) : TRUE}
        /\ Cardinality(Loose(field)) # 1 => Cardinality(Loose(field)) > 1
  <2> TAKE field \in {"alias", "name"}
  <2> HAVE Loose(field) # {}
  <2>1. Loose(field) \in SUBSET (1 .. Len(table))
    BY <1>1 DEF CaseInsensitive
  <2>2. /\ Cardinality(Loose(field)) = 1 => \E x : Loose(field) = {x}
        /\ Cardinality(Loose(field)) # 1 => Cardinality(Loose(field)) > 1
    BY <1>1, <2>1, OneOrMore
  <2> HIDE DEF Loose
  <2>3. \A x : Loose(field) = {x} => Loose(field) = {CHOOSE i \in Loose(field) : TRUE}
    OBVIOUS
  <2> QED BY <2>2, <2>3
<1> HIDE DEF Exact, Loose, At, F, row, resolved, exact
<1>9. CASE F("shortcut") # 0
  <2>1. resolved = Found(F("shortcut")) /\ F("shortcut") \in At(1)
    BY <1>2, <1>5, <1>6, <1>9
  <2> QED BY <1>7, <2>1 DEF resolved, At
<1>10. CASE F("shortcut") = 0 /\ F("alias") # 0
  <2>1. resolved = Found(F("alias")) /\ F("alias") \in At(2) /\ At(1) = {}
    BY <1>2, <1>5, <1>6, <1>10
  <2>2. \A better \in 1 .. 2 - 1 : At(better) = {}
    BY <2>1
  <2> QED BY <1>7, <2>1, <2>2 DEF resolved, At
<1>11. CASE F("shortcut") = 0 /\ F("alias") = 0 /\ F("name") # 0
  <2>1. resolved = Found(F("name")) /\ F("name") \in At(3) /\ At(1) = {} /\ At(2) = {}
    BY <1>2, <1>5, <1>6, <1>11
  <2>2. \A better \in 1 .. 3 - 1 : At(better) = {}
    BY <2>1
  <2> QED BY <1>7, <2>1, <2>2 DEF resolved, At
<1> DEFINE NoneExact == F("shortcut") = 0 /\ F("alias") = 0 /\ F("name") = 0
<1>12. NoneExact => \A better \in 1 .. 3 : At(better) = {}
  BY <1>2, <1>5
<1>13. CASE NoneExact /\ Loose("alias") # {}
  <2>1. \A better \in 1 .. 4 - 1 : At(better) = {}
    BY <1>12, <1>13
  <2>2. CASE Cardinality(Loose("alias")) = 1
    <3> DEFINE i == CHOOSE i \in Loose("alias") : TRUE
    <3>1. resolved = Found(i) /\ At(4) = {i}
      BY <1>3, <1>6, <1>8, <1>13, <2>2
    <3> HIDE DEF i
    <3> QED BY <1>7, <2>1, <3>1 DEF resolved, At
  <2>3. CASE Cardinality(Loose("alias")) # 1
    <3>1. resolved = Failure("AliasAmbiguous") /\ Cardinality(At(4)) > 1
      BY <1>3, <1>6, <1>8, <1>13, <2>3
    <3> QED BY <2>1, <3>1 DEF resolved, At
  <2> QED BY <2>2, <2>3
<1>14. CASE NoneExact /\ Loose("alias") = {} /\ Loose("name") # {}
  <2>1. \A better \in 1 .. 5 - 1 : At(better) = {}
    BY <1>3, <1>12, <1>14
  <2>2. CASE Cardinality(Loose("name")) = 1
    <3> DEFINE i == CHOOSE i \in Loose("name") : TRUE
    <3>1. resolved = Found(i) /\ At(5) = {i}
      BY <1>3, <1>6, <1>8, <1>14, <2>2
    <3> HIDE DEF i
    <3> QED BY <1>7, <2>1, <3>1 DEF resolved, At
  <2>3. CASE Cardinality(Loose("name")) # 1
    <3>1. resolved = Failure("AliasAmbiguous") /\ Cardinality(At(5)) > 1
      BY <1>3, <1>6, <1>8, <1>14, <2>3
    <3> QED BY <2>1, <3>1 DEF resolved, At
  <2> QED BY <2>2, <2>3
<1>15. CASE NoneExact /\ Loose("alias") = {} /\ Loose("name") = {}
  <2>1. \A better \in 1 .. 6 - 1 : At(better) = {}
    BY <1>3, <1>12, <1>15
  <2>2. CASE kind = "scene" /\ IsNumber(exact) /\ row \in DOMAIN table
    <3>1. resolved = Found(row) /\ row \in At(6)
      BY <1>4, <1>6, <1>15, <2>2
    <3> QED BY <1>7, <2>1, <3>1 DEF resolved, At
  <2>3. CASE ~(kind = "scene" /\ IsNumber(exact) /\ row \in DOMAIN table)
    <3>1. resolved = NotFound(kind) /\ At(6) = {}
      BY <1>4, <1>6, <1>15, <2>3
    <3>2. \A rank \in 1 .. 6 : At(rank) = {}
      BY <2>1, <3>1
    <3> QED BY <3>1, <3>2 DEF resolved, At
  <2> QED BY <2>2, <2>3
<1> QED BY <1>9, <1>10, <1>11, <1>13, <1>14, <1>15

-----------------------------------------------------------------------------
(* Types of the catalogue.                                                 *)

SceneState == [name : Clean, alias : Text, shortcut : Text, active : BOOLEAN, hidden : BOOLEAN]
Levels     == SUBSET {MulToPercent(mul) : mul \in Nat}
AudioState == [name : Clean, alias : Text, shortcut : Text, muted : SUBSET BOOLEAN, percent : Levels]
Listing    == [names : Seq(Text), current : Text]
Input      == [name : Text, muted : BOOLEAN, mul : Nat]
ObsStates  == [scenes : Seq(Text), current : Text, inputs : Seq(Input),
               selection : [Selections -> Listing], streaming : BOOLEAN, recording : BOOLEAN]
Snapshots  == [connected : BOOLEAN, current : Text, scenes : Seq(SceneState), inputs : Seq(AudioState),
               streaming : BOOLEAN, recording : BOOLEAN, selection : [Selections -> Listing],
               profiles : Seq(Profile), active : Text]
NamedEvent == {"CurrentProgramSceneChanged", "InputCreated", "InputRemoved",
               "CurrentProfileChanged", "CurrentSceneCollectionChanged"}
PlainEvent == {"SceneCreated", "SceneRemoved", "SceneNameChanged", "SceneListReindexed",
               "ProfileListChanged", "SceneCollectionListChanged", "InputNameChanged"}
Events     == [type : NamedEvent, name : Text]
              \cup [type : {"InputMuteStateChanged"}, name : Text, value : BOOLEAN]
              \cup [type : {"InputVolumeChanged"}, name : Text, value : Nat]
              \cup [type : {"StreamStateChanged", "RecordStateChanged"}, value : BOOLEAN]
              \cup [type : PlainEvent]

\* What the snapshot hides is what the config hides.
HidesAs(snap, c) ==
  \A i \in DOMAIN snap.scenes :
     snap.scenes[i].hidden = IsHidden(SceneVisibility(c), snap.scenes[i].name)

Sound(c) == c \in Config /\ ProfilesAreSound(c.profiles)

CatalogueInv ==
  /\ obs \in ObsStates /\ events \in Seq(Events) /\ snapshot \in Snapshots
  /\ linked \in BOOLEAN /\ Sound(config)
  /\ HidesAs(snapshot, config)

LEMMA ConfigOfIn ==
  ASSUME NEW S, NEW entries \in Seq(S), NEW name
  PROVE  LET i == ConfigOf(entries, name)
         IN IF i = 0 THEN \A k \in DOMAIN entries : entries[k].name # name
            ELSE i \in DOMAIN entries /\ entries[i].name = name
<1> DEFINE at == {i \in 1 .. Len(entries) : entries[i].name = name}
<1>1. DOMAIN entries = 1 .. Len(entries) /\ Len(entries) \in Nat
  OBVIOUS
<1>2. ConfigOf(entries, name) = IF at # {} THEN Min(at) ELSE 0
  BY DEF ConfigOf, SelectInSeq
<1>3. at # {} => Min(at) \in at
  <2>1. at \in SUBSET Nat
    BY <1>1
  <2> QED BY <2>1, LeastIn
<1>4. 0 \notin at
  BY <1>1
<1> QED BY <1>1, <1>2, <1>3, <1>4

LEMMA VisibilityIsBoolean ==
  ASSUME NEW visibility, NEW name
  PROVE  IsHidden(visibility, name) \in BOOLEAN
  BY DEF IsHidden

LEMMA ProjectionFields ==
  ASSUME NEW c, Sound(c)
  PROVE  /\ Projection(c).scenes = c.scenes /\ Projection(c).inputs = c.inputs
         /\ Projection(c).profiles = c.profiles /\ Projection(c).profiles \in Seq(Profile)
         /\ Projection(c).active \in Text
         /\ Projection(c).visibility = SceneVisibility(c)
<1>1. c.profiles \in Seq(Profile) /\ DOMAIN c.profiles = 1 .. Len(c.profiles) /\ Len(c.profiles) \in Nat
  BY DEF Sound, Config
<1>2. ActiveProfile(c) \in SUBSET Nat /\ ActiveProfile(c) \subseteq DOMAIN c.profiles
  BY <1>1 DEF ActiveProfile
<1>3. ActiveProfile(c) # {} => Min(ActiveProfile(c)) \in DOMAIN c.profiles
  BY <1>2, LeastIn
<1>4. None \in Text
  BY DEF None, Text
<1>5. \A k \in DOMAIN c.profiles : c.profiles[k].name \in Text
  <2>1. \A k \in DOMAIN c.profiles : c.profiles[k] \in Profile
    BY <1>1, Elements
  <2> QED BY <2>1 DEF Profile
<1> QED BY <1>1, <1>3, <1>4, <1>5 DEF Projection

LEMMA SceneConfigured ==
  ASSUME NEW c, Sound(c), NEW scene \in SceneState
  PROVE  LET applied == ApplySceneConfig(scene, Projection(c))
         IN /\ applied \in SceneState /\ applied.name = scene.name /\ applied.active = scene.active
            /\ applied.hidden = IsHidden(SceneVisibility(c), scene.name)
<1> DEFINE i == ConfigOf(c.scenes, scene.name)
<1>1. i # 0 => i \in DOMAIN c.scenes /\ c.scenes[i].alias \in Text /\ c.scenes[i].shortcut \in Text
  <2>1. c.scenes \in Seq([name : Text, alias : Text, shortcut : Text, hidden : BOOLEAN])
    BY DEF Sound, Config
  <2>2. i # 0 => i \in DOMAIN c.scenes
    BY <2>1, ConfigOfIn
  <2>3. \A k \in DOMAIN c.scenes : c.scenes[k] \in [name : Text, alias : Text, shortcut : Text, hidden : BOOLEAN]
    BY <2>1, Elements
  <2> HIDE DEF i
  <2> QED BY <2>2, <2>3
<1>2. None \in Text
  BY DEF None, Text
<1>3. ApplySceneConfig(scene, Projection(c)) =
        [scene EXCEPT !.alias    = IF i = 0 THEN None ELSE c.scenes[i].alias,
                      !.shortcut = IF i = 0 THEN None ELSE c.scenes[i].shortcut,
                      !.hidden   = IsHidden(SceneVisibility(c), scene.name)]
  BY ProjectionFields DEF ApplySceneConfig
<1> HIDE DEF i
<1>4. IsHidden(SceneVisibility(c), scene.name) \in BOOLEAN
  BY VisibilityIsBoolean
<1> QED BY <1>1, <1>2, <1>3, <1>4 DEF SceneState

LEMMA AudioConfigured ==
  ASSUME NEW c, Sound(c), NEW input \in AudioState
  PROVE  LET applied == ApplyAudioConfig(input, Projection(c))
         IN applied \in AudioState /\ applied.name = input.name
<1> DEFINE i == ConfigOf(c.inputs, input.name)
<1>1. i # 0 => i \in DOMAIN c.inputs /\ c.inputs[i].alias \in Text /\ c.inputs[i].shortcut \in Text
  <2>1. c.inputs \in Seq(Entry)
    BY DEF Sound, Config
  <2>2. i # 0 => i \in DOMAIN c.inputs
    BY <2>1, ConfigOfIn
  <2>3. \A k \in DOMAIN c.inputs : c.inputs[k] \in Entry
    BY <2>1, Elements
  <2> HIDE DEF i
  <2> QED BY <2>2, <2>3 DEF Entry
<1>2. None \in Text
  BY DEF None, Text
<1>3. ApplyAudioConfig(input, Projection(c)) =
        [input EXCEPT !.alias    = IF i = 0 THEN None ELSE c.inputs[i].alias,
                      !.shortcut = IF i = 0 THEN None ELSE c.inputs[i].shortcut]
  BY ProjectionFields DEF ApplyAudioConfig
<1> HIDE DEF i
<1> QED BY <1>1, <1>2, <1>3 DEF AudioState

LEMMA MergedIsSound ==
  ASSUME NEW c, Sound(c), NEW snap \in Snapshots
  PROVE  LET merged == Merged(snap, Projection(c))
         IN merged \in Snapshots /\ HidesAs(merged, c)
<1> DEFINE scenes == [i \in DOMAIN snap.scenes |-> ApplySceneConfig(snap.scenes[i], Projection(c))]
           inputs == [i \in DOMAIN snap.inputs |-> ApplyAudioConfig(snap.inputs[i], Projection(c))]
           merged == Merged(snap, Projection(c))
<1>1. snap.scenes \in Seq(SceneState) /\ snap.inputs \in Seq(AudioState)
  BY DEF Snapshots
<1>2. scenes \in Seq(SceneState)
  BY <1>1, SceneConfigured
<1>3. inputs \in Seq(AudioState)
  BY <1>1, AudioConfigured
<1>4. merged = [snap EXCEPT !.scenes = scenes, !.inputs = inputs, !.profiles = Projection(c).profiles,
                            !.active = Projection(c).active]
  BY DEF Merged
<1>5. \A i \in DOMAIN scenes : scenes[i].hidden = IsHidden(SceneVisibility(c), scenes[i].name)
  BY <1>1, SceneConfigured
<1> HIDE DEF scenes, inputs, merged
<1>6. merged \in Snapshots /\ merged.scenes = scenes
  BY <1>2, <1>3, <1>4, ProjectionFields DEF Snapshots
<1> QED BY <1>5, <1>6 DEF HidesAs, merged

LEMMA TrimmedNames ==
  ASSUME NEW names \in Seq(Text)
  PROVE  /\ Trimmed(names) \in Seq(Text) /\ DOMAIN Trimmed(names) = DOMAIN names
         /\ (\A i \in DOMAIN names : Usable(names[i])) =>
              \A i \in DOMAIN names : Trimmed(names)[i] \in Clean
<1>1. DOMAIN names = 1 .. Len(names) /\ Len(names) \in Nat /\ \A i \in DOMAIN names : names[i] \in Text
  OBVIOUS
<1>2. \A i \in DOMAIN names : Trim(names[i]) \in Text
  BY <1>1, Trimming
<1>3. Trimmed(names) = [i \in 1 .. Len(names) |-> Trim(names[i])]
  BY <1>1 DEF Trimmed
<1>4. Trimmed(names) \in Seq(Text)
  BY <1>1, <1>2, <1>3
<1>5. (\A i \in DOMAIN names : Usable(names[i])) => \A i \in DOMAIN names : Trim(names[i]) \in Clean
  BY <1>1, TrimmedIsClean
<1> QED BY <1>1, <1>3, <1>4, <1>5

LEMMA InputNames ==
  ASSUME NEW inputs \in Seq(Input)
  PROVE  NamesOf(inputs) \in Seq(Text) /\ DOMAIN NamesOf(inputs) = DOMAIN inputs
<1>1. DOMAIN inputs = 1 .. Len(inputs) /\ Len(inputs) \in Nat /\ \A i \in DOMAIN inputs : inputs[i] \in Input
  OBVIOUS
<1>2. \A i \in DOMAIN inputs : inputs[i].name \in Text
  BY <1>1 DEF Input
<1>3. NamesOf(inputs) = [i \in 1 .. Len(inputs) |-> inputs[i].name]
  BY <1>1 DEF NamesOf
<1> QED BY <1>1, <1>2, <1>3

LEMMA BareIsAudio ==
  ASSUME NEW name \in Clean
  PROVE  BareInput(name) \in AudioState /\ BareInput(name).name = name
<1>1. None \in Text
  BY DEF None, Text
<1> QED BY <1>1 DEF BareInput, AudioState, Levels

LEMMA FetchedIsAudio ==
  ASSUME NEW o \in ObsStates, NEW name \in Clean
  PROVE  FetchedInput(o, name) \in AudioState
<1> DEFINE i == ConfigOf(o.inputs, name)
<1>1. o.inputs \in Seq(Input)
  BY DEF ObsStates
<1>2. i # 0 => i \in DOMAIN o.inputs
  BY <1>1, ConfigOfIn
<1>3. i # 0 => o.inputs[i].muted \in BOOLEAN /\ o.inputs[i].mul \in Nat
  <2>1. \A k \in DOMAIN o.inputs : o.inputs[k] \in Input
    BY <1>1, Elements
  <2> HIDE DEF i
  <2> QED BY <1>2, <2>1 DEF Input
<1>4. BareInput(name) \in AudioState
  BY BareIsAudio
<1>5. FetchedInput(o, name) =
        IF i = 0 THEN BareInput(name)
        ELSE [BareInput(name) EXCEPT !.muted = {o.inputs[i].muted}, !.percent = {MulToPercent(o.inputs[i].mul)}]
  BY DEF FetchedInput, SetLevel
<1> HIDE DEF i
<1>6. i # 0 => {o.inputs[i].muted} \in SUBSET BOOLEAN /\ {MulToPercent(o.inputs[i].mul)} \in Levels
  BY <1>3 DEF Levels
<1> QED BY <1>4, <1>5, <1>6 DEF AudioState

LEMMA BuiltIsSound ==
  ASSUME NEW o \in ObsStates, Readable(o), NEW c, Sound(c)
  PROVE  LET built == BuildSnapshot(o, Projection(c))
         IN built \in Snapshots /\ HidesAs(built, c)
<1> DEFINE p == Projection(c)
           names == Trimmed(o.scenes)
           audio == Trimmed(NamesOf(o.inputs))
           Bare(i) == BareScene(names[i], Trim(o.current))
           scenes == [i \in DOMAIN names |-> ApplySceneConfig(Bare(i), p)]
           inputs == [i \in DOMAIN audio |-> ApplyAudioConfig(FetchedInput(o, audio[i]), p)]
           selection == [kind \in Selections |-> FetchedSelection(o.selection[kind])]
           built == BuildSnapshot(o, p)
<1>1. /\ o.scenes \in Seq(Text) /\ o.inputs \in Seq(Input) /\ o.current \in Text
      /\ o.selection \in [Selections -> Listing] /\ o.streaming \in BOOLEAN /\ o.recording \in BOOLEAN
  BY DEF ObsStates
<1>2. names \in Seq(Text) /\ \A i \in DOMAIN names : names[i] \in Clean
  BY <1>1, TrimmedNames DEF Readable, UniqueNames
<1>3. audio \in Seq(Text) /\ \A i \in DOMAIN audio : audio[i] \in Clean
  BY <1>1, InputNames, TrimmedNames DEF Readable, UniqueNames
<1>4. Trim(o.current) \in Text
  BY <1>1, Trimming
<1> HIDE DEF p, names, audio
<1>5. None \in Text
  BY DEF None, Text
<1>6. \A i \in DOMAIN names : Bare(i) \in SceneState /\ Bare(i).name = names[i]
  BY <1>2, <1>5 DEF BareScene, SceneState
<1>7. \A i \in DOMAIN names :
        /\ scenes[i] \in SceneState /\ scenes[i].hidden = IsHidden(SceneVisibility(c), scenes[i].name)
  <2> HIDE DEF Bare
  <2> QED BY <1>6, SceneConfigured DEF p
<1>8. \A i \in DOMAIN audio : inputs[i] \in AudioState
  <2>1. \A i \in DOMAIN audio : FetchedInput(o, audio[i]) \in AudioState
    BY <1>3, FetchedIsAudio
  <2> QED BY <2>1, AudioConfigured DEF p
<1>9. scenes \in Seq(SceneState) /\ DOMAIN scenes = DOMAIN names
  BY <1>2, <1>7
<1>10. inputs \in Seq(AudioState)
  BY <1>3, <1>8
<1>11. selection \in [Selections -> Listing]
  <2> SUFFICES ASSUME NEW kind \in Selections PROVE FetchedSelection(o.selection[kind]) \in Listing
    OBVIOUS
  <2>1. o.selection[kind] \in Listing
    BY <1>1
  <2>2. o.selection[kind].names \in Seq(Text) /\ o.selection[kind].current \in Text
    BY <2>1 DEF Listing
  <2>3. Trimmed(o.selection[kind].names) \in Seq(Text)
    BY <2>2, TrimmedNames
  <2> QED BY <2>2, <2>3 DEF FetchedSelection, Listing
<1>12. built = [connected |-> TRUE, current |-> Trim(o.current), scenes |-> scenes, inputs |-> inputs,
                streaming |-> o.streaming, recording |-> o.recording, selection |-> selection,
                profiles |-> p.profiles, active |-> p.active]
  BY DEF BuildSnapshot, names, audio
<1> HIDE DEF scenes, inputs, selection, built
<1>13. p.profiles \in Seq(Profile) /\ p.active \in Text
  BY ProjectionFields DEF p
<1>14. built \in Snapshots /\ built.scenes = scenes
  BY <1>1, <1>4, <1>9, <1>10, <1>11, <1>12, <1>13 DEF Snapshots
<1> QED BY <1>7, <1>9, <1>14 DEF HidesAs, built, p

\* Folding an event in.
LEMMA TranslatedIsSound ==
  ASSUME NEW raw \in Events, NEW event \in TranslateEvent(raw)
  PROVE  /\ event.type \in {"CurrentProgramSceneChanged", "InputCreated"} => event.name \in Clean
         /\ event.type \in {"CurrentProfileChanged", "CurrentSceneCollectionChanged"} => event.name \in Text
         /\ event.type = "InputMuteStateChanged" => event.value \in BOOLEAN
         /\ event.type = "InputVolumeChanged" => event.value \in Nat
         /\ event.type \in {"StreamStateChanged", "RecordStateChanged"} => event.value \in BOOLEAN
<1>1. CASE raw.type \in NamedEvent \cup {"InputMuteStateChanged", "InputVolumeChanged"}
  <2>1. raw.name \in Text
    BY <1>1 DEF Events, NamedEvent, PlainEvent
  <2>2. raw.type \in NamedEvents
    BY <1>1 DEF NamedEvents, NamedEvent, Range, SelectionEvent, Selections
  <2>6. raw.type \notin SceneListEvents \cup OutputEvents \cup Range(ListEvent)
    BY <1>1 DEF SceneListEvents, OutputEvents, ListEvent, Range, Selections, NamedEvent
  <2>7. TranslateEvent(raw) = IF Usable(raw.name) THEN {[raw EXCEPT !.name = Trim(raw.name)]} ELSE {}
    BY <2>2, <2>6 DEF TranslateEvent
  <2>3. Usable(raw.name) /\ event = [raw EXCEPT !.name = Trim(raw.name)]
    BY <2>7
  <2>4. Trim(raw.name) \in Clean /\ Trim(raw.name) \in Text
    BY <2>1, <2>3, TrimmedIsClean, Trimming
  <2>5. event.type = raw.type /\ event.name = Trim(raw.name)
        /\ (raw.type \in {"InputMuteStateChanged", "InputVolumeChanged"} => event.value = raw.value)
    BY <1>1, <2>3 DEF Events, NamedEvent, PlainEvent
  <2> QED BY <1>1, <2>4, <2>5 DEF Events, NamedEvent, PlainEvent
<1>2. CASE raw.type \notin NamedEvent \cup {"InputMuteStateChanged", "InputVolumeChanged"}
  <2>1. raw.type \notin NamedEvents
    BY <1>2 DEF NamedEvents, NamedEvent, Range, SelectionEvent, Selections
  <2>2. event = raw \/ event.type \in {"SceneListChanged", "Other"}
    BY <2>1 DEF TranslateEvent
  <2> QED BY <1>2, <2>2 DEF Events, NamedEvent, PlainEvent
<1> QED BY <1>1, <1>2

LEMMA MutationIsSound ==
  ASSUME NEW snap \in Snapshots, NEW c, HidesAs(snap, c), NEW raw \in Events, NEW event \in TranslateEvent(raw)
  PROVE  LET mutated == MutateSnapshot(snap, event)
         IN mutated \in Snapshots /\ HidesAs(mutated, c)
<1> DEFINE mutated == MutateSnapshot(snap, event)
           name == event.name
           value == event.value
<1>1. snap.scenes \in Seq(SceneState) /\ snap.inputs \in Seq(AudioState) /\ snap.selection \in [Selections -> Listing]
  BY DEF Snapshots
<1>2. /\ DOMAIN snap.scenes = 1 .. Len(snap.scenes) /\ \A i \in DOMAIN snap.scenes : snap.scenes[i] \in SceneState
      /\ DOMAIN snap.inputs = 1 .. Len(snap.inputs) /\ \A i \in DOMAIN snap.inputs : snap.inputs[i] \in AudioState
      /\ Len(snap.scenes) \in Nat /\ Len(snap.inputs) \in Nat
  BY <1>1, Elements
<1>3. CASE event.type = "CurrentProgramSceneChanged"
  <2> DEFINE scenes == [i \in DOMAIN snap.scenes |-> [snap.scenes[i] EXCEPT !.active = snap.scenes[i].name = name]]
  <2>1. mutated = IF snap.current = name THEN snap ELSE [snap EXCEPT !.current = name, !.scenes = scenes]
    BY <1>3 DEF MutateSnapshot, ProgramSceneChanged
  <2>2. \A i \in DOMAIN snap.scenes : /\ scenes[i] \in SceneState /\ scenes[i].name = snap.scenes[i].name
                                      /\ scenes[i].hidden = snap.scenes[i].hidden
    BY <1>2 DEF SceneState
  <2>6. DOMAIN scenes = DOMAIN snap.scenes /\ scenes \in [1 .. Len(snap.scenes) -> SceneState]
    BY <1>2, <2>2
  <2>3. scenes \in Seq(SceneState) /\ DOMAIN scenes = DOMAIN snap.scenes
    BY <1>2, <2>6, IsASequence
  <2>4. name \in Text
    BY <1>3, TranslatedIsSound DEF Clean
  <2> HIDE DEF scenes, mutated, name
  <2>5. mutated \in Snapshots /\ (mutated.scenes = snap.scenes \/ mutated.scenes = scenes)
    BY <2>1, <2>3, <2>4 DEF Snapshots
  <2> QED BY <2>2, <2>3, <2>5 DEF HidesAs, mutated
<1>4. CASE event.type = "InputCreated"
  <2>1. mutated = snap \/ mutated = [snap EXCEPT !.inputs = Append(snap.inputs, BareInput(name))]
    BY <1>4 DEF MutateSnapshot, InputCreated
  <2>2. BareInput(name) \in AudioState
    BY <1>4, TranslatedIsSound, BareIsAudio
  <2>3. Append(snap.inputs, BareInput(name)) \in Seq(AudioState)
    BY <1>1, <2>2
  <2> QED BY <2>1, <2>3 DEF HidesAs, Snapshots
<1>5. CASE event.type = "InputRemoved"
  <2> DEFINE i == ConfigOf(snap.inputs, name)
  <2>1. mutated = IF i = 0 THEN snap ELSE [snap EXCEPT !.inputs = RemoveAt(snap.inputs, i)]
    BY <1>5 DEF MutateSnapshot, InputRemoved
  <2>2. i # 0 => i \in DOMAIN snap.inputs
    BY <1>1, ConfigOfIn
  <2> HIDE DEF i
  <2>3. i # 0 => RemoveAt(snap.inputs, i) \in Seq(AudioState)
    BY <1>1, <2>2, RemovalShortens
  <2> QED BY <2>1, <2>3 DEF HidesAs, Snapshots, mutated
<1>6. CASE event.type = "InputMuteStateChanged"
  <2> DEFINE inputs == [i \in DOMAIN snap.inputs |->
       IF i = ConfigOf(snap.inputs, name) THEN [snap.inputs[i] EXCEPT !.muted = {value}] ELSE snap.inputs[i]]
  <2>1. mutated = [snap EXCEPT !.inputs = inputs]
    BY <1>6 DEF MutateSnapshot, InputMuteChanged
  <2>2. value \in BOOLEAN
    BY <1>6, TranslatedIsSound
  <2>3. \A i \in DOMAIN snap.inputs : inputs[i] \in AudioState
    BY <1>2, <2>2 DEF AudioState
  <2>5. inputs \in [1 .. Len(snap.inputs) -> AudioState]
    BY <1>2, <2>3
  <2>4. inputs \in Seq(AudioState)
    BY <1>2, <2>5, IsASequence
  <2> HIDE DEF inputs
  <2> QED BY <2>1, <2>4 DEF HidesAs, Snapshots
<1>7. CASE event.type = "InputVolumeChanged"
  <2> DEFINE inputs == [i \in DOMAIN snap.inputs |->
       IF i = ConfigOf(snap.inputs, name) THEN [snap.inputs[i] EXCEPT !.percent = {MulToPercent(value)}] ELSE snap.inputs[i]]
  <2>1. mutated = [snap EXCEPT !.inputs = inputs]
    BY <1>7 DEF MutateSnapshot, InputVolumeChanged, SetLevel
  <2>2. value \in Nat
    BY <1>7, TranslatedIsSound
  <2>3. {MulToPercent(value)} \in Levels
    BY <2>2 DEF Levels
  <2>4. \A i \in DOMAIN snap.inputs : inputs[i] \in AudioState
    BY <1>2, <2>3 DEF AudioState
  <2>6. inputs \in [1 .. Len(snap.inputs) -> AudioState]
    BY <1>2, <2>4
  <2>5. inputs \in Seq(AudioState)
    BY <1>2, <2>6, IsASequence
  <2> HIDE DEF inputs
  <2> QED BY <2>1, <2>5 DEF HidesAs, Snapshots
<1>8. CASE event.type \in {"StreamStateChanged", "RecordStateChanged"}
  <2>1. value \in BOOLEAN
    BY <1>8, TranslatedIsSound
  <2>2. mutated = [snap EXCEPT !.streaming = value] \/ mutated = [snap EXCEPT !.recording = value]
    BY <1>8 DEF MutateSnapshot
  <2> QED BY <2>1, <2>2 DEF HidesAs, Snapshots
<1>9. CASE event.type \in {"CurrentProfileChanged", "CurrentSceneCollectionChanged"}
  <2>1. name \in Text
    BY <1>9, TranslatedIsSound
  <2>2. \E kind \in Selections : mutated = [snap EXCEPT !.selection[kind].current = name]
    BY <1>9 DEF MutateSnapshot, Selections
  <2>3. PICK kind \in Selections : mutated = [snap EXCEPT !.selection[kind].current = name]
    BY <2>2
  <2>4. [snap.selection EXCEPT ![kind].current = name] \in [Selections -> Listing]
    BY <1>1, <2>1 DEF Listing
  <2>5. mutated = [snap EXCEPT !.selection = [snap.selection EXCEPT ![kind].current = name]]
    BY <2>3 DEF Snapshots
  <2> QED BY <2>4, <2>5 DEF HidesAs, Snapshots
<1>10. CASE event.type \notin {"CurrentProgramSceneChanged", "InputCreated", "InputRemoved", "InputMuteStateChanged",
               "InputVolumeChanged", "StreamStateChanged", "RecordStateChanged", "CurrentProfileChanged",
               "CurrentSceneCollectionChanged"}
  BY <1>10 DEF MutateSnapshot
<1> QED BY <1>3, <1>4, <1>5, <1>6, <1>7, <1>8, <1>9, <1>10

-----------------------------------------------------------------------------
(* What OBS does.                                                          *)

SceneRequests == {"SetCurrentProgramScene"}
InputRequests == {"SetInputMute", "ToggleInputMute", "SetInputVolume"}
Toggles       == {"ToggleStream", "ToggleRecord"}
IsRequest(r) ==
  /\ r.request \in SceneRequests \cup InputRequests \cup Selections \cup Toggles
  /\ r.request \notin Toggles => r.name \in Text
  /\ r.request = "SetInputMute" => r.value \in BOOLEAN
  /\ r.request = "SetInputVolume" => r.value \in Nat

LEMMA InputKnown ==
  ASSUME NEW inputs \in Seq(Input), NEW name \in ToSet(NamesOf(inputs))
  PROVE  ConfigOf(inputs, name) \in DOMAIN inputs
<1>1. PICK k \in DOMAIN inputs : inputs[k].name = name
  BY DEF NamesOf, ToSet
<1> QED BY <1>1, ConfigOfIn

LEMMA EffectIsSound ==
  ASSUME NEW o \in ObsStates, NEW r, IsRequest(r), Accepts(o, r)
  PROVE  Effect(o, r) \in ObsStates /\ Announced(o, r) \in Events
<1>1. /\ o.inputs \in Seq(Input) /\ o.selection \in [Selections -> Listing]
      /\ o.streaming \in BOOLEAN /\ o.recording \in BOOLEAN
  BY DEF ObsStates
<1>2. DOMAIN o.inputs = 1 .. Len(o.inputs) /\ Len(o.inputs) \in Nat /\ \A i \in DOMAIN o.inputs : o.inputs[i] \in Input
  BY <1>1, Elements
<1>3. CASE r.request \in SceneRequests
  <2>1. Effect(o, r) = [o EXCEPT !.current = r.name]
    BY <1>3 DEF Effect, SceneRequests, Selections
  <2>2. Announced(o, r) = [type |-> "CurrentProgramSceneChanged", name |-> r.name]
    BY <1>3 DEF Announced, SceneRequests, Selections
  <2>3. r.name \in Text
    BY <1>3 DEF IsRequest, SceneRequests, Toggles
  <2>4. Effect(o, r) \in ObsStates
    BY <2>1, <2>3 DEF ObsStates
  <2> QED BY <2>2, <2>3, <2>4 DEF Events, NamedEvent
<1>4. CASE r.request \in {"SetInputMute", "ToggleInputMute"}
  <2> DEFINE k == ConfigOf(o.inputs, r.name)
             v == IF r.request = "SetInputMute" THEN r.value ELSE ~o.inputs[k].muted
             inputs == [i \in DOMAIN o.inputs |->
                          IF o.inputs[i].name = r.name THEN [o.inputs[i] EXCEPT !.muted = v] ELSE o.inputs[i]]
  <2>1. r.name \in Text /\ r.name \in ToSet(NamesOf(o.inputs))
    BY <1>4 DEF IsRequest, Toggles, Accepts, Selections
  <2>2. k \in DOMAIN o.inputs
    BY <1>1, <2>1, InputKnown
  <2>3. v \in BOOLEAN
    <3>1. r.request = "SetInputMute" => r.value \in BOOLEAN
      BY DEF IsRequest
    <3>2. o.inputs[k].muted \in BOOLEAN
      BY <1>2, <2>2 DEF Input
    <3> HIDE DEF k
    <3> QED BY <3>1, <3>2
  <2>4. Effect(o, r) = [o EXCEPT !.inputs = inputs]
    <3>1. CASE r.request = "SetInputMute"
      BY <3>1 DEF Effect, ChangeInput, MutedNow, Selections
    <3>2. CASE r.request = "ToggleInputMute"
      BY <3>2 DEF Effect, ChangeInput, MutedNow, Selections
    <3> QED BY <1>4, <3>1, <3>2
  <2>5. Announced(o, r) = [type |-> "InputMuteStateChanged", name |-> r.name, value |-> MutedNow(Effect(o, r), r.name)]
    BY <1>4 DEF Announced, Selections
  <2> HIDE DEF v, k
  <2>6. \A i \in DOMAIN o.inputs : inputs[i] \in Input /\ inputs[i].name = o.inputs[i].name
    BY <1>2, <2>3 DEF Input
  <2>7. inputs \in [1 .. Len(o.inputs) -> Input]
    BY <1>2, <2>6
  <2>8. inputs \in Seq(Input) /\ DOMAIN inputs = DOMAIN o.inputs
    BY <1>2, <2>7, IsASequence
  <2>9. r.name \in ToSet(NamesOf(inputs))
    BY <2>1, <2>6, <2>8 DEF NamesOf, ToSet
  <2> HIDE DEF inputs
  <2>10. Effect(o, r) \in ObsStates /\ Effect(o, r).inputs = inputs
    BY <2>4, <2>8 DEF ObsStates
  <2>11. MutedNow(Effect(o, r), r.name) \in BOOLEAN
    <3>1. ConfigOf(inputs, r.name) \in DOMAIN inputs
      BY <2>8, <2>9, InputKnown
    <3>2. inputs[ConfigOf(inputs, r.name)] \in Input
      BY <2>8, <3>1, Elements
    <3> QED BY <2>10, <3>2 DEF MutedNow, Input
  <2> QED BY <2>1, <2>5, <2>10, <2>11 DEF Events
<1>5. CASE r.request = "SetInputVolume"
  <2> DEFINE inputs == [i \in DOMAIN o.inputs |->
                          IF o.inputs[i].name = r.name THEN [o.inputs[i] EXCEPT !.mul = r.value] ELSE o.inputs[i]]
  <2>1. r.name \in Text /\ r.value \in Nat
    BY <1>5 DEF IsRequest, Toggles
  <2>2. Effect(o, r) = [o EXCEPT !.inputs = inputs]
    BY <1>5 DEF Effect, ChangeInput, Selections
  <2>3. Announced(o, r) = [type |-> "InputVolumeChanged", name |-> r.name, value |-> r.value]
    BY <1>5 DEF Announced, Selections
  <2>4. \A i \in DOMAIN o.inputs : inputs[i] \in Input
    BY <1>2, <2>1 DEF Input
  <2>5. inputs \in [1 .. Len(o.inputs) -> Input]
    BY <1>2, <2>4
  <2>6. inputs \in Seq(Input)
    BY <1>2, <2>5, IsASequence
  <2> HIDE DEF inputs
  <2>7. Effect(o, r) \in ObsStates
    BY <2>2, <2>6 DEF ObsStates
  <2> QED BY <2>1, <2>3, <2>7 DEF Events
<1>6. CASE r.request \in Toggles
  <2>1. \/ Effect(o, r) = [o EXCEPT !.streaming = ~o.streaming]
        \/ Effect(o, r) = [o EXCEPT !.recording = ~o.recording]
    BY <1>6 DEF Effect, Toggles, Selections
  <2>2. \E type \in {"StreamStateChanged", "RecordStateChanged"}, value \in BOOLEAN :
           Announced(o, r) = [type |-> type, value |-> value]
    BY <1>1, <1>6 DEF Announced, Toggles, Selections
  <2>3. Effect(o, r) \in ObsStates
    BY <1>1, <2>1 DEF ObsStates
  <2> QED BY <2>2, <2>3 DEF Events
<1>7. CASE r.request \in Selections
  <2>1. r.name \in Text
    BY <1>7 DEF IsRequest, Toggles, Selections
  <2>2. r.request \notin SceneRequests \cup InputRequests \cup Toggles
    BY <1>7 DEF Selections, SceneRequests, InputRequests, Toggles
  <2>3. Effect(o, r) = [o EXCEPT !.selection[r.request].current = r.name]
    BY <1>7, <2>2 DEF Effect, SceneRequests, InputRequests, Toggles
  <2>4. Announced(o, r) = [type |-> SelectionEvent[r.request], name |-> r.name]
    BY <1>7, <2>2 DEF Announced, SceneRequests, InputRequests, Toggles
  <2>5. SelectionEvent[r.request] \in NamedEvent
    BY <1>7 DEF SelectionEvent, NamedEvent, Selections
  <2>6. [o.selection EXCEPT ![r.request].current = r.name] \in [Selections -> Listing]
    BY <1>1, <1>7, <2>1 DEF Listing
  <2>7. Effect(o, r) = [o EXCEPT !.selection = [o.selection EXCEPT ![r.request].current = r.name]]
    BY <2>3 DEF ObsStates
  <2>8. Effect(o, r) \in ObsStates
    BY <2>6, <2>7 DEF ObsStates
  <2> QED BY <2>1, <2>4, <2>5, <2>8 DEF Events
<1> QED BY <1>3, <1>4, <1>5, <1>6, <1>7 DEF IsRequest, InputRequests

-----------------------------------------------------------------------------
(* The catalogue stays sound.                                              *)

LEMMA AnnouncedInOrder ==
  ASSUME events \in Seq(Events), NEW list \in Seq(Events), Announce(list)
  PROVE  events' \in Seq(Events)
  BY DEF Announce

LEMMA OneEvent ==
  ASSUME NEW kind \in PlainEvent
  PROVE  <<[type |-> kind]>> \in Seq(Events)
  BY DEF Events

LEMMA PerformedIsSound ==
  ASSUME CatalogueInv, NEW r, IsRequest(r), Accepts(obs, r), Perform(r)
  PROVE  obs' \in ObsStates /\ events' \in Seq(Events)
<1>1. Effect(obs, r) \in ObsStates /\ Announced(obs, r) \in Events
  BY EffectIsSound DEF CatalogueInv
<1> QED BY <1>1 DEF Perform, CatalogueInv

\* What somebody does at OBS is a request like any other.
LEMMA UsersRequest ==
  ASSUME NEW r \in [request : {"SetCurrentProgramScene"}, name : UNION {ToSet(l) : l \in Layouts}]
          \union [request : {"SetInputMute"}, name : Inputs, value : BOOLEAN]
          \union [request : {"SetInputVolume"}, name : Inputs, value : Multipliers]
          \union [request : {"ToggleStream"}]
          \union [request : Selections, name : UNION {ToSet(l) : l \in Listings}]
  PROVE  IsRequest(r)
<1>1. /\ UNION {ToSet(l) : l \in Layouts} \subseteq Text
      /\ UNION {ToSet(l) : l \in Listings} \subseteq Text
      /\ Inputs \subseteq Text /\ Multipliers \subseteq Nat
  <2>1. \A l \in Layouts \cup Listings : ToSet(l) \subseteq Text
    BY CatalogueAssumption, Elements
  <2> QED BY <2>1, CatalogueAssumption
<1>2. CASE r \in [request : {"SetCurrentProgramScene"}, name : UNION {ToSet(l) : l \in Layouts}]
  BY <1>1, <1>2 DEF IsRequest, SceneRequests, InputRequests, Selections, Toggles
<1>3. CASE r \in [request : {"SetInputMute"}, name : Inputs, value : BOOLEAN]
  BY <1>1, <1>3 DEF IsRequest, SceneRequests, InputRequests, Selections, Toggles
<1>4. CASE r \in [request : {"SetInputVolume"}, name : Inputs, value : Multipliers]
  BY <1>1, <1>4 DEF IsRequest, SceneRequests, InputRequests, Selections, Toggles
<1>5. CASE r \in [request : {"ToggleStream"}]
  BY <1>5 DEF IsRequest, SceneRequests, InputRequests, Selections, Toggles
<1>6. CASE r \in [request : Selections, name : UNION {ToSet(l) : l \in Listings}]
  BY <1>1, <1>6 DEF IsRequest, SceneRequests, InputRequests, Selections, Toggles
<1> QED BY <1>2, <1>3, <1>4, <1>5, <1>6

LEMMA UserChangesKeeps ==
  ASSUME CatalogueInv, UserChanges
  PROVE  CatalogueInv'
<1>1. PICK r \in [request : {"SetCurrentProgramScene"}, name : UNION {ToSet(l) : l \in Layouts}]
          \union [request : {"SetInputMute"}, name : Inputs, value : BOOLEAN]
          \union [request : {"SetInputVolume"}, name : Inputs, value : Multipliers]
          \union [request : {"ToggleStream"}]
          \union [request : Selections, name : UNION {ToSet(l) : l \in Listings}] :
        Change /\ Accepts(obs, r) /\ Perform(r)
  BY DEF UserChanges
<1>2. IsRequest(r)
  BY UsersRequest
<1>3. obs' \in ObsStates /\ events' \in Seq(Events)
  BY <1>1, <1>2, PerformedIsSound
<1>4. UNCHANGED <<linked, config, snapshot>>
  BY <1>1 DEF Change
<1> QED BY <1>3, <1>4 DEF CatalogueInv, HidesAs

LEMMA UserEditsScenesKeeps ==
  ASSUME CatalogueInv, UserEditsScenes
  PROVE  CatalogueInv'
<1>1. PICK layout \in Layouts, kind \in {"SceneNameChanged", "SceneListReindexed"} :
        \E current \in IF obs.current \in ToSet(layout) THEN {obs.current} ELSE ToSet(layout) :
          /\ Change
          /\ obs' = [obs EXCEPT !.scenes = layout, !.current = current]
          /\ Announce(IF current = obs.current \/ kind = "SceneNameChanged" THEN <<[type |-> kind]>>
                      ELSE <<[type |-> "CurrentProgramSceneChanged", name |-> current], [type |-> kind]>>)
  BY DEF UserEditsScenes
<1>2. layout \in Seq(Text) /\ ToSet(layout) \subseteq Text
  BY CatalogueAssumption, Elements
<1>3. PICK current \in ToSet(layout) :
          /\ Change
          /\ obs' = [obs EXCEPT !.scenes = layout, !.current = current]
          /\ Announce(IF current = obs.current \/ kind = "SceneNameChanged" THEN <<[type |-> kind]>>
                      ELSE <<[type |-> "CurrentProgramSceneChanged", name |-> current], [type |-> kind]>>)
  BY <1>1
<1>4. obs' \in ObsStates
  BY <1>2, <1>3 DEF CatalogueInv, ObsStates
<1>5. [type |-> kind] \in Events /\ [type |-> "CurrentProgramSceneChanged", name |-> current] \in Events
  BY <1>2 DEF Events, PlainEvent, NamedEvent
<1>6. events' \in Seq(Events)
  <2> DEFINE list == IF current = obs.current \/ kind = "SceneNameChanged" THEN <<[type |-> kind]>>
                     ELSE <<[type |-> "CurrentProgramSceneChanged", name |-> current], [type |-> kind]>>
  <2>1. list \in Seq(Events)
    BY <1>5
  <2>2. Announce(list)
    BY <1>3
  <2> HIDE DEF list
  <2> QED BY <2>1, <2>2, AnnouncedInOrder DEF CatalogueInv
<1>7. UNCHANGED <<linked, config, snapshot>>
  BY <1>1 DEF Change
<1> QED BY <1>4, <1>6, <1>7 DEF CatalogueInv, HidesAs

LEMMA UserAddsInputKeeps ==
  ASSUME CatalogueInv, UserAddsInput
  PROVE  CatalogueInv'
<1>1. PICK name \in Inputs :
        /\ Change
        /\ obs' = [obs EXCEPT !.inputs = Append(obs.inputs, FreshInput(name))]
        /\ Announce(<<[type |-> "InputCreated", name |-> name]>>)
  BY DEF UserAddsInput
<1>2. name \in Text
  BY CatalogueAssumption
<1>3. obs.inputs \in Seq(Input) /\ FreshInput(name) \in Input
  BY <1>2 DEF CatalogueInv, ObsStates, Input, FreshInput
<1>4. Append(obs.inputs, FreshInput(name)) \in Seq(Input)
  BY <1>3
<1>5. obs' \in ObsStates
  BY <1>1, <1>4 DEF CatalogueInv, ObsStates
<1>6. [type |-> "InputCreated", name |-> name] \in Events
  BY <1>2 DEF Events, NamedEvent
<1>7. <<[type |-> "InputCreated", name |-> name]>> \in Seq(Events)
  BY <1>6
<1>8. events' \in Seq(Events)
  BY <1>1, <1>7, AnnouncedInOrder DEF CatalogueInv
<1>9. UNCHANGED <<linked, config, snapshot>>
  BY <1>1 DEF Change
<1> QED BY <1>5, <1>8, <1>9 DEF CatalogueInv, HidesAs

LEMMA UserRemovesInputKeeps ==
  ASSUME CatalogueInv, UserRemovesInput
  PROVE  CatalogueInv'
<1>1. PICK name \in ToSet(NamesOf(obs.inputs)) :
        /\ Change
        /\ obs' = [obs EXCEPT !.inputs = RemoveAt(obs.inputs, ConfigOf(obs.inputs, name))]
        /\ Announce(<<[type |-> "InputRemoved", name |-> name]>>)
  BY DEF UserRemovesInput
<1>2. obs.inputs \in Seq(Input)
  BY DEF CatalogueInv, ObsStates
<1>3. name \in Text
  BY <1>2, InputNames, Elements
<1>4. RemoveAt(obs.inputs, ConfigOf(obs.inputs, name)) \in Seq(Input)
  BY <1>2, InputKnown, RemovalShortens
<1>5. obs' \in ObsStates
  BY <1>1, <1>4 DEF CatalogueInv, ObsStates
<1>6. [type |-> "InputRemoved", name |-> name] \in Events
  BY <1>3 DEF Events, NamedEvent
<1>7. <<[type |-> "InputRemoved", name |-> name]>> \in Seq(Events)
  BY <1>6
<1>8. events' \in Seq(Events)
  BY <1>1, <1>7, AnnouncedInOrder DEF CatalogueInv
<1>9. UNCHANGED <<linked, config, snapshot>>
  BY <1>1 DEF Change
<1> QED BY <1>5, <1>8, <1>9 DEF CatalogueInv, HidesAs

LEMMA UserRenamesInputKeeps ==
  ASSUME CatalogueInv, UserRenamesInput
  PROVE  CatalogueInv'
<1>1. PICK old \in ToSet(NamesOf(obs.inputs)), new \in Inputs \ ToSet(NamesOf(obs.inputs)) :
        /\ Change /\ obs' = ChangeInput(obs, old, "name", new)
        /\ Announce(<<[type |-> "InputNameChanged"]>>)
  BY DEF UserRenamesInput
<1> DEFINE inputs == [i \in DOMAIN obs.inputs |->
                        IF obs.inputs[i].name = old THEN [obs.inputs[i] EXCEPT !.name = new] ELSE obs.inputs[i]]
<1>2. obs.inputs \in Seq(Input) /\ obs \in ObsStates
  BY DEF CatalogueInv, ObsStates
<1>3. DOMAIN obs.inputs = 1 .. Len(obs.inputs) /\ Len(obs.inputs) \in Nat /\ \A i \in DOMAIN obs.inputs : obs.inputs[i] \in Input
  BY <1>2, Elements
<1>4. new \in Text
  BY CatalogueAssumption
<1>5. \A i \in DOMAIN obs.inputs : inputs[i] \in Input
  BY <1>3, <1>4 DEF Input
<1>6. inputs \in [1 .. Len(obs.inputs) -> Input]
  BY <1>3, <1>5
<1>7. inputs \in Seq(Input)
  BY <1>3, <1>6, IsASequence
<1>8. obs' = [obs EXCEPT !.inputs = inputs]
  BY <1>1 DEF ChangeInput
<1> HIDE DEF inputs
<1>9. obs' \in ObsStates
  BY <1>2, <1>7, <1>8 DEF ObsStates
<1>10. events' \in Seq(Events)
  BY <1>1, OneEvent, AnnouncedInOrder DEF CatalogueInv, PlainEvent
<1>11. UNCHANGED <<linked, config, snapshot>>
  BY <1>1 DEF Change
<1> QED BY <1>9, <1>10, <1>11 DEF CatalogueInv, HidesAs

LEMMA UserEditsListingKeeps ==
  ASSUME CatalogueInv, UserEditsListing
  PROVE  CatalogueInv'
<1>1. PICK kind \in Selections, names \in Listings :
        /\ Change /\ obs' = [obs EXCEPT !.selection[kind].names = names]
        /\ Announce(<<[type |-> ListEvent[kind]]>>)
  BY DEF UserEditsListing
<1>2. names \in Seq(Text) /\ obs.selection \in [Selections -> Listing] /\ obs \in ObsStates
  BY CatalogueAssumption DEF CatalogueInv, ObsStates
<1>3. [obs.selection EXCEPT ![kind].names = names] \in [Selections -> Listing]
  BY <1>2 DEF Listing
<1>4. obs' = [obs EXCEPT !.selection = [obs.selection EXCEPT ![kind].names = names]]
  BY <1>1, <1>2 DEF ObsStates
<1>5. obs' \in ObsStates
  BY <1>2, <1>3, <1>4 DEF ObsStates
<1>6. ListEvent[kind] \in PlainEvent
  BY DEF ListEvent, PlainEvent, Selections
<1>7. events' \in Seq(Events)
  BY <1>1, <1>6, OneEvent, AnnouncedInOrder DEF CatalogueInv
<1>8. UNCHANGED <<linked, config, snapshot>>
  BY <1>1 DEF Change
<1> QED BY <1>5, <1>7, <1>8 DEF CatalogueInv, HidesAs

LEMMA ApplyEventKeeps ==
  ASSUME CatalogueInv, ApplyEvent
  PROVE  CatalogueInv'
<1> DEFINE decoded == TranslateEvent(Head(events))
           event == CHOOSE e \in decoded : TRUE
<1>1. /\ events # << >> /\ events' = Tail(events) /\ UNCHANGED <<obs, linked, config>>
      /\ snapshot' = IF decoded = {} THEN snapshot ELSE MutateSnapshot(snapshot, event)
  BY DEF ApplyEvent
<1>2. Head(events) \in Events /\ Tail(events) \in Seq(Events)
  BY <1>1 DEF CatalogueInv
<1>3. decoded # {} => event \in decoded
  OBVIOUS
<1>4. decoded # {} => /\ MutateSnapshot(snapshot, event) \in Snapshots
                      /\ HidesAs(MutateSnapshot(snapshot, event), config)
  BY <1>2, <1>3, MutationIsSound DEF CatalogueInv
<1> HIDE DEF decoded, event
<1>5. snapshot' \in Snapshots /\ HidesAs(snapshot', config)
  BY <1>1, <1>4 DEF CatalogueInv
<1> QED BY <1>1, <1>2, <1>5 DEF CatalogueInv, HidesAs

LEMMA RefreshKeeps ==
  ASSUME CatalogueInv, Refresh
  PROVE  CatalogueInv'
<1>1. UNCHANGED <<obs, events, linked, config>>
  BY DEF Refresh
<1>2. \/ snapshot' = snapshot
      \/ Readable(obs) /\ snapshot' = BuildSnapshot(obs, Projection(config))
  <2>1. CASE Readable(obs)
    BY <2>1 DEF Refresh
  <2>2. CASE ~Readable(obs)
    BY <2>2 DEF Refresh
  <2> QED BY <2>1, <2>2
<1>3. snapshot' \in Snapshots /\ HidesAs(snapshot', config)
  BY <1>2, BuiltIsSound DEF CatalogueInv
<1> QED BY <1>1, <1>3 DEF CatalogueInv, HidesAs

LEMMA LinkUpKeeps ==
  ASSUME CatalogueInv, LinkUp
  PROVE  CatalogueInv'
<1>1. UNCHANGED <<obs, events, config>> /\ linked' = TRUE
  BY DEF LinkUp
<1>2. \/ snapshot' = [snapshot EXCEPT !.connected = TRUE]
      \/ Readable(obs) /\ snapshot' = BuildSnapshot(obs, Projection(config))
  BY DEF LinkUp
<1>3. LET marked == [snapshot EXCEPT !.connected = TRUE]
      IN marked \in Snapshots /\ HidesAs(marked, config)
  BY DEF CatalogueInv, Snapshots, HidesAs
<1>4. snapshot' \in Snapshots /\ HidesAs(snapshot', config)
  BY <1>2, <1>3, BuiltIsSound DEF CatalogueInv
<1> QED BY <1>1, <1>4 DEF CatalogueInv, HidesAs

LEMMA LinkLostKeeps ==
  ASSUME CatalogueInv, LinkLost
  PROVE  CatalogueInv'
<1>1. UNCHANGED <<obs, config>> /\ linked' = FALSE /\ events' = << >>
      /\ snapshot' = [snapshot EXCEPT !.connected = FALSE]
  BY DEF LinkLost
<1>2. events' \in Seq(Events)
  BY <1>1
<1>3. snapshot' \in Snapshots /\ HidesAs(snapshot', config)
  BY <1>1 DEF CatalogueInv, Snapshots, HidesAs
<1> QED BY <1>1, <1>2, <1>3 DEF CatalogueInv, HidesAs

LEMMA HoldKeeps ==
  ASSUME CatalogueInv, NEW c, Sound(c), Hold(c), UNCHANGED <<obs, events, linked>>
  PROVE  CatalogueInv'
<1>1. config' = c /\ snapshot' = Merged(snapshot, Projection(c))
  BY DEF Hold
<1>2. snapshot' \in Snapshots /\ HidesAs(snapshot', c)
  BY <1>1, MergedIsSound DEF CatalogueInv
<1> QED BY <1>1, <1>2 DEF CatalogueInv, HidesAs

LEMMA CatalogueStarts ==
  ASSUME CatalogueInit
  PROVE  CatalogueInv
<1>1. PICK start \in Starts :
        obs = [scenes |-> start.scenes, current |-> start.scenes[1],
               inputs |-> <<FreshInput(start.input)>>,
               selection |-> [kind \in Selections |-> [names |-> start.names, current |-> start.names[1]]],
               streaming |-> FALSE, recording |-> FALSE]
  BY DEF CatalogueInit
<1>2. /\ start.scenes \in Seq(Text) /\ start.input \in Text /\ start.names \in Seq(Text)
      /\ start.scenes[1] \in Text /\ start.names[1] \in Text
  BY CatalogueAssumption
<1>3. FreshInput(start.input) \in Input
  BY <1>2 DEF Input, FreshInput
<1>4. [names |-> start.names, current |-> start.names[1]] \in Listing
  BY <1>2 DEF Listing
<1>5. obs \in ObsStates
  BY <1>1, <1>2, <1>3, <1>4 DEF ObsStates
<1>6. events = << >> /\ linked = FALSE /\ config \in Configs
      /\ snapshot = Merged(EmptySnapshot, Projection(config))
  BY DEF CatalogueInit
<1>7. None \in Text /\ << >> \in Seq(Text)
  BY DEF None, Text
<1>8. [names |-> << >>, current |-> None] \in Listing
  BY <1>7 DEF Listing
<1>9. EmptySnapshot \in Snapshots
  BY <1>7, <1>8 DEF EmptySnapshot, Snapshots
<1>10. Sound(config)
  BY <1>6, CatalogueAssumption DEF Sound, Validated
<1>11. snapshot \in Snapshots /\ HidesAs(snapshot, config)
  BY <1>6, <1>9, <1>10, MergedIsSound
<1>12. events \in Seq(Events) /\ linked \in BOOLEAN
  <2>1. linked \in BOOLEAN
    BY <1>6
  <2>2. events = << >>
    BY <1>6
  <2> QED BY <2>1, <2>2
<1> QED BY <1>5, <1>10, <1>11, <1>12 DEF CatalogueInv

-----------------------------------------------------------------------------
(* The command under way.                                                  *)

Fields == {"stage", "own", "payload", "picked", "table", "request", "wire", "performed", "result", "told",
           "reply", "saved", "edits"}

\* A payload that carries a list is one of a save, of the editor or of somebody else.
PayloadTyped(p) ==
  "hidden" \in DOMAIN p.args =>
    p.args.hidden \in Seq(Text) /\ ("target" \in DOMAIN p.args => p.args.target \in Text)

Shaped(j) ==
  /\ DOMAIN j = Fields
  /\ j.stage \in {"sent", "asked", "counting", "answered"}
  /\ j.wire \in BOOLEAN /\ j.performed \in BOOLEAN
  /\ PayloadTyped(j.payload)

\* How far a command may have come: nothing is done before it is handled, a
\* request is either at OBS or performed while the daemon waits for it, and an
\* error that is answered leaves it open only where OBS was asked.
Flows(j) ==
  /\ j.stage = "sent" => /\ ~j.performed /\ ~j.wire /\ j.result = "ok"
                         /\ j.request = {} /\ j.table = << >> /\ j.reply = {}
  /\ j.stage = "asked" => j.wire = ~j.performed /\ j.result = "ok" /\ j.payload.name \in ObsCommands
  /\ j.stage = "counting" => /\ j.performed /\ ~j.wire /\ j.result = "ok"
                             /\ j.payload.name \in {"set_scene_profile", "save_scene_profile"}
  /\ j.stage = "answered" /\ j.result = "ok" /\ j.payload.name \in ObsCommands \cup ProfileCommands => j.performed
  /\ j.stage = "answered" /\ j.result # "ok" /\ (j.performed \/ j.wire) =>
       j.result \in {"RequestTimeout", "ConnectionFailed"}
  /\ j.wire => j.payload.name \in ObsCommands /\ \E r : j.request = {r} /\ IsRequest(r)

\* What the exit status goes by.
Told(j) ==
  /\ 0 \in j.told => j.stage = "answered" /\ j.result = "ok"
  /\ j.told \cap {1, 2, 3, 5} # {} => j.stage = "answered" /\ ~j.performed /\ ~j.wire

ReplyFields == {"created", "active", "listed", "hidden", "gone"}

\* What became of a save, and of the switch that follows it.
Saves(j) ==
  /\ j.payload.name # "subscribe" => \A r \in j.reply : DOMAIN r = ReplyFields /\ r.gone \subseteq {r.hidden}
  /\ j.payload.name = "save_scene_profile" =>
       /\ j.saved = {}
       /\ j.performed => \E edit \in j.edits : IsOn(edit.to, j.payload.args.target) <=> \E r \in j.reply : r.active
  /\ j.saved # {} =>
       /\ j.payload.name = "set_scene_profile"
       /\ \E edit \in j.edits : SceneProfileAt(edit.to, j.payload.args.target) # {}
       /\ j.performed => \E edit \in j.edits : IsOn(edit.to, j.payload.args.target)

JobInv == Shaped(job) /\ Flows(job) /\ Told(job) /\ Saves(job)
IInv == CatalogueInv /\ JobInv /\ ActsOnWhatWasNamed /\ SaveKeepsTheRest

-----------------------------------------------------------------------------
(* What a command asks of OBS.                                             *)

LEMMA TablesAreSound ==
  ASSUME CatalogueInv
  PROVE  SceneAliases \in Seq(TableEntry) /\ AudioAliases \in Seq(TableEntry)
<1>1. /\ snapshot.scenes \in Seq(SceneState) /\ snapshot.inputs \in Seq(AudioState)
  BY DEF CatalogueInv, Snapshots
<1>2. SceneAliases \in Seq(TableEntry)
  <2>1. /\ DOMAIN snapshot.scenes = 1 .. Len(snapshot.scenes) /\ Len(snapshot.scenes) \in Nat
        /\ \A i \in DOMAIN snapshot.scenes : snapshot.scenes[i] \in SceneState
    BY <1>1, Elements
  <2>2. SceneAliases \in [1 .. Len(snapshot.scenes) -> TableEntry]
    BY <2>1 DEF SceneAliases, AliasEntries, TableEntry, SceneState
  <2> QED BY <2>1, <2>2, IsASequence
<1>3. AudioAliases \in Seq(TableEntry)
  <2>1. /\ DOMAIN snapshot.inputs = 1 .. Len(snapshot.inputs) /\ Len(snapshot.inputs) \in Nat
        /\ \A i \in DOMAIN snapshot.inputs : snapshot.inputs[i] \in AudioState
    BY <1>1, Elements
  <2>2. AudioAliases \in [1 .. Len(snapshot.inputs) -> TableEntry]
    BY <2>1 DEF AudioAliases, AliasEntries, TableEntry, AudioState
  <2> QED BY <2>1, <2>2, IsASequence
<1> QED BY <1>2, <1>3

LEMMA FailuresFail ==
  ASSUME NEW kind
  PROVE  Failed(Failure(kind)) /\ Failure(kind).error = kind
  BY DEF Failed, Failure

LEMMA NamedIs ==
  ASSUME NEW request, NEW name
  PROVE  LET r == NamedRequest(request, name)
         IN IF Usable(name) THEN ~Failed(r) /\ r.request = request /\ r.name = Trim(name)
            ELSE r = Failure("ObsRequestFailed")
  BY DEF NamedRequest, Failed

LEMMA WithIs ==
  ASSUME NEW request, NEW name, NEW value
  PROVE  LET r == With(NamedRequest(request, name), value)
         IN IF Usable(name) THEN ~Failed(r) /\ r.request = request /\ r.name = Trim(name) /\ r.value = value
            ELSE r = Failure("ObsRequestFailed")
<1>1. CASE Usable(name)
  BY <1>1, NamedIs DEF With, Failed
<1>2. CASE ~Usable(name)
  <2>1. NamedRequest(request, name) = Failure("ObsRequestFailed")
    BY <1>2 DEF NamedRequest
  <2> QED BY <1>2, <2>1, FailuresFail DEF With
<1> QED BY <1>1, <1>2

\* A command that was refused before its target was looked up, or else comes to
\* what the target resolves to in `table`.
Asks(outcome, args, table, kind) ==
  \/ outcome \in {Failure("CommandParseError"), Failure("ObsUnavailable")}
  \/ /\ Usable(args.target)
     /\ LET resolved == ResolveWith(args.target, table, kind)
        IN IF Failed(resolved) THEN outcome = resolved
           ELSE IsRequest(outcome) /\ ~Failed(outcome) /\ outcome.name = table[resolved.entry].name

LEMMA ResolvedIsListed ==
  ASSUME NEW target, Usable(target), NEW table \in Seq(TableEntry), NEW kind \in {"scene", "audio"}
  PROVE  LET resolved == ResolveWith(target, table, kind)
         IN IF Failed(resolved)
            THEN resolved.error \in {"AliasAmbiguous", "SceneNotFound", "AudioInputNotFound"}
            ELSE /\ resolved.entry \in DOMAIN table
                 /\ Usable(table[resolved.entry].name) /\ table[resolved.entry].name \in Text
                 /\ Trim(table[resolved.entry].name) = table[resolved.entry].name
<1> DEFINE resolved == ResolveWith(target, table, kind)
<1>1. \/ resolved = Found(resolved.entry) /\ resolved.entry \in DOMAIN table
      \/ resolved = Failure("AliasAmbiguous")
      \/ resolved = NotFound(kind)
  BY ResolutionIsBest DEF Answering
<1> HIDE DEF resolved
<1>2. CASE resolved = Found(resolved.entry) /\ resolved.entry \in DOMAIN table
  <2>1. ~Failed(resolved)
    BY <1>2 DEF Failed, Found
  <2>2. table[resolved.entry] \in TableEntry
    BY <1>2, Elements
  <2> QED BY <1>2, <2>1, <2>2 DEF TableEntry, Clean, resolved
<1>3. CASE resolved = Failure("AliasAmbiguous")
  BY <1>3, FailuresFail DEF resolved
<1>4. CASE resolved = NotFound(kind)
  BY <1>4, FailuresFail DEF NotFound, resolved
<1> QED BY <1>1, <1>2, <1>3, <1>4

LEMMA PercentIsNatural ==
  ASSUME NEW percent \in 0 .. 100
  PROVE  PercentToMul(percent) \in Nat
  BY DEF PercentToMul

LEMMA SceneCommandAsks ==
  ASSUME CatalogueInv, NEW args
  PROVE  Asks(CmdSetScene(args), args, SceneAliases, "scene")
<1> DEFINE resolved == ResolveWith(args.target, SceneAliases, "scene")
           outcome == CmdSetScene(args)
<1>1. CASE ~RequiredString(args, "target")
  BY <1>1 DEF CmdSetScene, Check, Asks
<1>2. CASE RequiredString(args, "target") /\ ~linked
  BY <1>2 DEF CmdSetScene, Check, RequireObs, Asks
<1>3. CASE RequiredString(args, "target") /\ linked
  <2>1. Usable(args.target)
    BY <1>3 DEF RequiredString
  <2>2. outcome = IF Failed(resolved) THEN resolved
                  ELSE NamedRequest("SetCurrentProgramScene", SceneAliases[resolved.entry].name)
    BY <1>3 DEF CmdSetScene, Check, RequireObs, Ask, Resolve, SetCurrentProgramScene
  <2>3. ~Failed(resolved) => /\ Usable(SceneAliases[resolved.entry].name) /\ SceneAliases[resolved.entry].name \in Text
                             /\ Trim(SceneAliases[resolved.entry].name) = SceneAliases[resolved.entry].name
    BY <2>1, TablesAreSound, ResolvedIsListed
  <2> HIDE DEF resolved, outcome
  <2>4. ~Failed(resolved) => /\ ~Failed(outcome) /\ outcome.request = "SetCurrentProgramScene"
                             /\ outcome.name = SceneAliases[resolved.entry].name
    BY <2>2, <2>3, NamedIs
  <2>5. ~Failed(resolved) => IsRequest(outcome)
    BY <2>3, <2>4 DEF IsRequest, SceneRequests
  <2> QED BY <2>1, <2>2, <2>4, <2>5 DEF Asks, resolved, outcome
<1> QED BY <1>1, <1>2, <1>3

LEMMA MuteAsks ==
  ASSUME CatalogueInv, NEW args, NEW muted \in BOOLEAN
  PROVE  Asks(CmdSetMute(args, muted), args, AudioAliases, "audio")
<1> DEFINE resolved == ResolveWith(args.target, AudioAliases, "audio")
           outcome == CmdSetMute(args, muted)
<1>1. CASE ~linked
  BY <1>1 DEF CmdSetMute, AskAudio, Check, RequireObs, Asks
<1>2. CASE linked /\ ~RequiredString(args, "target")
  BY <1>2, FailuresFail DEF CmdSetMute, AskAudio, Ask, ResolveAudioTarget, Check, RequireObs, Asks
<1>3. CASE linked /\ RequiredString(args, "target")
  <2>1. Usable(args.target)
    BY <1>3 DEF RequiredString
  <2>2. outcome = IF Failed(resolved) THEN resolved
                  ELSE With(NamedRequest("SetInputMute", AudioAliases[resolved.entry].name), muted)
    BY <1>3 DEF CmdSetMute, AskAudio, Ask, ResolveAudioTarget, ResolveAudio, Check, RequireObs, SetInputMute
  <2>3. ~Failed(resolved) => /\ Usable(AudioAliases[resolved.entry].name) /\ AudioAliases[resolved.entry].name \in Text
                             /\ Trim(AudioAliases[resolved.entry].name) = AudioAliases[resolved.entry].name
    BY <2>1, TablesAreSound, ResolvedIsListed
  <2> HIDE DEF resolved, outcome
  <2>4. ~Failed(resolved) => /\ ~Failed(outcome) /\ outcome.request = "SetInputMute" /\ outcome.value = muted
                             /\ outcome.name = AudioAliases[resolved.entry].name
    BY <2>2, <2>3, WithIs
  <2>5. ~Failed(resolved) => IsRequest(outcome)
    BY <2>3, <2>4 DEF IsRequest, InputRequests
  <2> QED BY <2>1, <2>2, <2>4, <2>5 DEF Asks, resolved, outcome
<1> QED BY <1>1, <1>2, <1>3

LEMMA ToggleMuteAsks ==
  ASSUME CatalogueInv, NEW args
  PROVE  Asks(CmdToggleMute(args), args, AudioAliases, "audio")
<1> DEFINE resolved == ResolveWith(args.target, AudioAliases, "audio")
           outcome == CmdToggleMute(args)
<1>1. CASE ~linked
  BY <1>1 DEF CmdToggleMute, AskAudio, Check, RequireObs, Asks
<1>2. CASE linked /\ ~RequiredString(args, "target")
  BY <1>2, FailuresFail DEF CmdToggleMute, AskAudio, Ask, ResolveAudioTarget, Check, RequireObs, Asks
<1>3. CASE linked /\ RequiredString(args, "target")
  <2>1. Usable(args.target)
    BY <1>3 DEF RequiredString
  <2>2. outcome = IF Failed(resolved) THEN resolved
                  ELSE NamedRequest("ToggleInputMute", AudioAliases[resolved.entry].name)
    BY <1>3 DEF CmdToggleMute, AskAudio, Ask, ResolveAudioTarget, ResolveAudio, Check, RequireObs, ToggleInputMute
  <2>3. ~Failed(resolved) => /\ Usable(AudioAliases[resolved.entry].name) /\ AudioAliases[resolved.entry].name \in Text
                             /\ Trim(AudioAliases[resolved.entry].name) = AudioAliases[resolved.entry].name
    BY <2>1, TablesAreSound, ResolvedIsListed
  <2> HIDE DEF resolved, outcome
  <2>4. ~Failed(resolved) => /\ ~Failed(outcome) /\ outcome.request = "ToggleInputMute"
                             /\ outcome.name = AudioAliases[resolved.entry].name
    BY <2>2, <2>3, NamedIs
  <2>5. ~Failed(resolved) => IsRequest(outcome)
    BY <2>3, <2>4 DEF IsRequest, InputRequests
  <2> QED BY <2>1, <2>2, <2>4, <2>5 DEF Asks, resolved, outcome
<1> QED BY <1>1, <1>2, <1>3

LEMMA VolumeAsks ==
  ASSUME CatalogueInv, NEW args
  PROVE  Asks(CmdSetVolume(args), args, AudioAliases, "audio")
<1> DEFINE resolved == ResolveWith(args.target, AudioAliases, "audio")
           outcome == CmdSetVolume(args)
<1>1. CASE ~RequiredPercentage(args, "percent")
  BY <1>1 DEF CmdSetVolume, Check, Asks
<1>2. CASE RequiredPercentage(args, "percent") /\ ~linked
  BY <1>2 DEF CmdSetVolume, AskAudio, Check, RequireObs, Asks
<1>3. CASE RequiredPercentage(args, "percent") /\ linked /\ ~RequiredString(args, "target")
  BY <1>3, FailuresFail DEF CmdSetVolume, AskAudio, Ask, ResolveAudioTarget, Check, RequireObs, Asks
<1>4. CASE RequiredPercentage(args, "percent") /\ linked /\ RequiredString(args, "target")
  <2> DEFINE mul == PercentToMul(args.percent)
  <2>1. Usable(args.target) /\ mul \in Nat
    BY <1>4, PercentIsNatural DEF RequiredString, RequiredPercentage
  <2>2. outcome = IF Failed(resolved) THEN resolved
                  ELSE With(NamedRequest("SetInputVolume", AudioAliases[resolved.entry].name), mul)
    BY <1>4 DEF CmdSetVolume, AskAudio, Ask, ResolveAudioTarget, ResolveAudio, Check, RequireObs, SetInputVolume
  <2>3. ~Failed(resolved) => /\ Usable(AudioAliases[resolved.entry].name) /\ AudioAliases[resolved.entry].name \in Text
                             /\ Trim(AudioAliases[resolved.entry].name) = AudioAliases[resolved.entry].name
    BY <2>1, TablesAreSound, ResolvedIsListed
  <2> HIDE DEF resolved, outcome, mul
  <2>4. ~Failed(resolved) => /\ ~Failed(outcome) /\ outcome.request = "SetInputVolume" /\ outcome.value = mul
                             /\ outcome.name = AudioAliases[resolved.entry].name
    BY <2>2, <2>3, WithIs
  <2>5. ~Failed(resolved) => IsRequest(outcome)
    BY <2>1, <2>3, <2>4 DEF IsRequest, InputRequests
  <2> QED BY <2>1, <2>2, <2>4, <2>5 DEF Asks, resolved, outcome
<1> QED BY <1>1, <1>2, <1>3, <1>4

LEMMA NamedSelectionAsks ==
  ASSUME CatalogueInv, NEW args, NEW kind \in Selections
  PROVE  LET outcome == CmdSetNamedSelection(args, kind)
         IN IF Failed(outcome)
            THEN outcome.error \in {"CommandParseError", "ObsUnavailable", "ProfileNotFound",
                                    "SceneCollectionNotFound", "ObsRequestFailed"}
            ELSE IsRequest(outcome)
<1> DEFINE outcome == CmdSetNamedSelection(args, kind)
           name == Trim(args.target)
           request == NamedRequest(kind, name)
           missing == IF kind = "profile" THEN "ProfileNotFound" ELSE "SceneCollectionNotFound"
<1>1. NamedSelection(kind, name).request = request /\ NamedSelection(kind, name).missing = missing
  BY DEF NamedSelection, Selections, SetCurrentProfile, SetCurrentSceneCollection
<1> HIDE DEF request, missing
<1>2. \/ outcome \in {Failure("CommandParseError"), Failure("ObsUnavailable"), Failure(missing)}
      \/ outcome = request /\ name \in ToSet(snapshot.selection[kind].names)
  BY <1>1 DEF CmdSetNamedSelection, Check, RequireObs, CheckedName
<1> HIDE DEF outcome
<1>3. CASE outcome \in {Failure("CommandParseError"), Failure("ObsUnavailable"), Failure(missing)}
  BY <1>3, FailuresFail DEF outcome, missing
<1>4. CASE outcome = request /\ name \in ToSet(snapshot.selection[kind].names)
  <2>3. name \in Text
    <3>1. snapshot.selection[kind] \in Listing
      BY DEF CatalogueInv, Snapshots
    <3>2. snapshot.selection[kind].names \in Seq(Text)
      BY <3>1 DEF Listing
    <3> QED BY <1>4, <3>2, Elements
  <2> HIDE DEF name
  <2>1. CASE Usable(name)
    <3>1. ~Failed(request) /\ request.request = kind /\ request.name = Trim(name)
      BY <2>1, NamedIs DEF request
    <3>2. request.name \in Text
      BY <2>3, <3>1, Trimming
    <3>3. IsRequest(request)
      BY <3>1, <3>2 DEF IsRequest, Selections
    <3> QED BY <1>4, <3>1, <3>3 DEF outcome
  <2>2. CASE ~Usable(name)
    <3>1. request = Failure("ObsRequestFailed")
      BY <2>2, NamedIs DEF request
    <3> QED BY <1>4, <3>1, FailuresFail DEF outcome
  <2> QED BY <2>1, <2>2
<1> QED BY <1>2, <1>3, <1>4

\* What an OBS command comes to, and the table its target was looked up in.
LEMMA ObsCommandAsks ==
  ASSUME CatalogueInv, NEW p, p.name \in ObsCommands
  PROVE  LET outcome == RunObsCommand(p)
             table == TableOf(p.name)
             kind == IF p.name = "set_scene" THEN "scene" ELSE "audio"
         IN \/ table \in Seq(TableEntry) /\ Asks(outcome, p.args, table, kind)
            \/ table = << >> /\ IF Failed(outcome) THEN outcome.error # "ok" ELSE IsRequest(outcome)
<1>1. CASE p.name = "set_scene"
  <2>1. RunObsCommand(p) = CmdSetScene(p.args) /\ TableOf(p.name) = SceneAliases
    BY <1>1 DEF RunObsCommand, TableOf
  <2> QED BY <1>1, <2>1, SceneCommandAsks, TablesAreSound
<1>2. CASE p.name \in {"set_profile", "set_scene_collection"}
  <2>1. PICK kind \in Selections : RunObsCommand(p) = CmdSetNamedSelection(p.args, kind)
    BY <1>2 DEF RunObsCommand, Selections
  <2>2. TableOf(p.name) = << >>
    BY <1>2 DEF TableOf
  <2> QED BY <2>1, <2>2, NamedSelectionAsks
<1>3. CASE p.name \in {"mute", "unmute", "toggle_mute", "set_volume"}
  <2>1. TableOf(p.name) = AudioAliases
    BY <1>3 DEF TableOf
  <2>2. \/ \E muted \in BOOLEAN : RunObsCommand(p) = CmdSetMute(p.args, muted)
        \/ RunObsCommand(p) = CmdToggleMute(p.args)
        \/ RunObsCommand(p) = CmdSetVolume(p.args)
    BY <1>3 DEF RunObsCommand
  <2>3. Asks(RunObsCommand(p), p.args, AudioAliases, "audio")
    BY <2>2, MuteAsks, ToggleMuteAsks, VolumeAsks
  <2> QED BY <1>3, <2>1, <2>3, TablesAreSound
<1>4. CASE p.name \in {"toggle_stream", "toggle_record"}
  <2>1. \E request \in {[request |-> "ToggleStream"], [request |-> "ToggleRecord"]} :
          RunObsCommand(p) = RequireObs(request)
    BY <1>4 DEF RunObsCommand, ToggleOutput, ToggleStream, ToggleRecord
  <2>2. TableOf(p.name) = << >>
    BY <1>4 DEF TableOf
  <2>3. PICK request \in {[request |-> "ToggleStream"], [request |-> "ToggleRecord"]} :
          RunObsCommand(p) = RequireObs(request)
    BY <2>1
  <2>4. IsRequest(request) /\ ~Failed(request)
    BY <2>3 DEF IsRequest, Toggles, Failed
  <2>5. RunObsCommand(p) = request \/ RunObsCommand(p) = Failure("ObsUnavailable")
    BY <2>3 DEF RequireObs, Check
  <2> QED BY <2>2, <2>4, <2>5, FailuresFail
<1> QED BY <1>1, <1>2, <1>3, <1>4 DEF ObsCommands

\* The entries that answer at all, the best of their ranks, and those of that rank.
Responding(target, table, scenes) == {i \in DOMAIN table : Ranks(target, table[i], i, scenes) # {}}
BestOf(target, table, scenes) ==
  Min(UNION {Ranks(target, table[i], i, scenes) : i \in Responding(target, table, scenes)})
BestEntries(target, table, scenes) ==
  {i \in Responding(target, table, scenes) : BestOf(target, table, scenes) \in Ranks(target, table[i], i, scenes)}

LEMMA BestRank ==
  ASSUME NEW target, NEW table, NEW scenes \in BOOLEAN, NEW rank \in 1 .. 6,
         Answering(target, table, scenes, rank) # {},
         \A better \in 1 .. rank - 1 : Answering(target, table, scenes, better) = {}
  PROVE  /\ BestOf(target, table, scenes) = rank
         /\ BestEntries(target, table, scenes) = Answering(target, table, scenes, rank)
<1> DEFINE RanksOf(i) == Ranks(target, table[i], i, scenes)
           answering  == {i \in DOMAIN table : RanksOf(i) # {}}
           all        == UNION {RanksOf(i) : i \in answering}
           best       == Min(all)
<1>1. \A i : RanksOf(i) \subseteq 1 .. 6
  BY RanksAre
<1>2. \A r : r \in all <=> \E i \in DOMAIN table : r \in RanksOf(i)
  OBVIOUS
<1>3. \A r \in 1 .. 6 : r \in all <=> Answering(target, table, scenes, r) # {}
  BY <1>2 DEF Answering
<1>4. all \in SUBSET (1 .. 6) /\ rank \in all
  <2>1. \A r \in all : r \in 1 .. 6
    BY <1>1, <1>2
  <2>2. rank \in all
    BY <1>3
  <2> HIDE DEF all
  <2> QED BY <2>1, <2>2
<1>5. best \in all /\ \A k \in all : best <= k
  <2>1. all \in SUBSET Nat /\ all # {}
    BY <1>4
  <2> HIDE DEF all
  <2> QED BY <2>1, LeastIn
<1>6. best = rank
  <2>1. best \in 1 .. 6 /\ best <= rank /\ Answering(target, table, scenes, best) # {}
    BY <1>3, <1>4, <1>5
  <2> HIDE DEF best
  <2> QED BY <2>1
<1>7. {i \in answering : rank \in RanksOf(i)} = Answering(target, table, scenes, rank)
  BY DEF Answering
<1>8. BestOf(target, table, scenes) = best
  BY DEF BestOf, Responding
<1>9. BestEntries(target, table, scenes) = {i \in answering : best \in RanksOf(i)}
  BY <1>8 DEF BestEntries, Responding
<1> QED BY <1>6, <1>7, <1>8, <1>9

LEMMA NoneAnswers ==
  ASSUME NEW target, NEW table, NEW scenes \in BOOLEAN,
         \A rank \in 1 .. 6 : Answering(target, table, scenes, rank) = {}
  PROVE  Responding(target, table, scenes) = {}
<1> SUFFICES ASSUME NEW i \in DOMAIN table, Ranks(target, table[i], i, scenes) # {} PROVE FALSE
  BY DEF Responding
<1>1. PICK rank : rank \in Ranks(target, table[i], i, scenes)
  OBVIOUS
<1>2. rank \in 1 .. 6
  BY <1>1, RanksAre
<1> QED BY <1>1, <1>2 DEF Answering

LEMMA SingleIsOne ==
  ASSUME NEW x
  PROVE  Cardinality({x}) = 1
  BY FS_Singleton

-----------------------------------------------------------------------------
(* A command is given.                                                     *)

\* A job nothing has become of yet.
New(j) ==
  /\ DOMAIN j = Fields /\ PayloadTyped(j.payload)
  /\ j.table = << >> /\ j.request = {} /\ j.reply = {} /\ j.edits = {} /\ j.saved = {}
  /\ ~j.performed /\ j.performed \in BOOLEAN /\ ~j.wire /\ j.wire \in BOOLEAN
  /\ \/ j.stage = "sent" /\ j.result = "ok" /\ j.told = {}
     \/ j.stage = "answered" /\ j.payload.name = "none" /\ (0 \in j.told => j.result = "ok")

LEMMA NewIsSound ==
  ASSUME NEW j, New(j)
  PROVE  Shaped(j) /\ Flows(j) /\ Told(j) /\ Saves(j)
<1>1. Shaped(j)
  BY DEF New, Shaped
<1>2. Flows(j)
  BY DEF New, Flows, ObsCommands, ProfileCommands
<1>3. Told(j)
  BY DEF New, Told
<1>4. Saves(j)
  BY DEF New, Saves
<1> QED BY <1>1, <1>2, <1>3, <1>4

LEMMA ExitCodesAre ==
  ASSUME NEW code
  PROVE  ExitCodeFor(code) \in 1 .. 6 /\ 0 \notin {ExitCodeFor(code)}
<1>1. ExitCodeFor(code) \in {1, 2, 3, 4, 5, 6}
  BY DEF ExitCodeFor, ObsCodes
<1> QED BY <1>1

LEMMA Unlisted ==
  ASSUME NEW name, NEW target, NEW percent
  PROVE  /\ PayloadTyped(Simple(name)) /\ PayloadTyped(WithTarget(name, target))
         /\ PayloadTyped(SetVolume(target, percent)) /\ PayloadTyped(Subscribe(target))
<1>1. PayloadTyped(Simple(name))
  <2>1. Simple(name).args = << >>
    BY DEF Simple
  <2>2. DOMAIN << >> = {}
    OBVIOUS
  <2> QED BY <2>1, <2>2 DEF PayloadTyped
<1>2. PayloadTyped(WithTarget(name, target))
  BY DEF PayloadTyped, WithTarget
<1>3. PayloadTyped(SetVolume(target, percent))
  BY DEF PayloadTyped, SetVolume
<1>4. PayloadTyped(Subscribe(target))
  BY DEF PayloadTyped, Subscribe
<1> QED BY <1>1, <1>2, <1>3, <1>4

LEMMA NoJobIs ==
  /\ DOMAIN NoJob = Fields /\ NoJob.payload = Simple("none") /\ NoJob.stage = "answered"
  /\ NoJob.table = << >> /\ NoJob.request = {} /\ NoJob.reply = {} /\ NoJob.edits = {} /\ NoJob.saved = {}
  /\ NoJob.performed = FALSE /\ NoJob.wire = FALSE /\ NoJob.told = {0} /\ NoJob.result = "ok"
  /\ Simple("none").name = "none"
  BY DEF NoJob, Fields, Simple

LEMMA GivenIsNew ==
  ASSUME NEW payload, NEW picked, PayloadTyped(payload)
  PROVE  /\ New(Given(payload, picked)) /\ Given(payload, picked).stage = "sent"
         /\ New([Given(payload, picked) EXCEPT !.own = FALSE])
<1> DEFINE j == Given(payload, picked)
<1>1. j = [NoJob EXCEPT !.stage = "sent", !.payload = payload, !.picked = picked, !.told = {}]
  BY DEF Given
<1> HIDE DEF j
<1>2. /\ DOMAIN j = Fields /\ j.payload = payload /\ j.stage = "sent" /\ j.told = {}
      /\ j.table = << >> /\ j.request = {} /\ j.reply = {} /\ j.edits = {} /\ j.saved = {}
      /\ j.performed = FALSE /\ j.wire = FALSE /\ j.result = "ok"
  BY <1>1, NoJobIs DEF Fields
<1>3. New(j)
  BY <1>2 DEF New
<1> DEFINE k == [j EXCEPT !.own = FALSE]
<1>4. /\ DOMAIN k = Fields /\ k.payload = payload /\ k.stage = "sent" /\ k.told = {}
      /\ k.table = << >> /\ k.request = {} /\ k.reply = {} /\ k.edits = {} /\ k.saved = {}
      /\ k.performed = FALSE /\ k.wire = FALSE /\ k.result = "ok"
  BY <1>2 DEF Fields
<1> HIDE DEF k
<1>5. New(k)
  BY <1>4 DEF New
<1> QED BY <1>2, <1>3, <1>5 DEF j, k

LEMMA RefusedIsNew ==
  ASSUME NEW error, NEW picked
  PROVE  /\ New(Refused(error)) /\ New([Refused(error) EXCEPT !.picked = picked])
         /\ New([Refused(error) EXCEPT !.told = {1}])
<1> DEFINE j == Refused(error)
           code == ExitCodeFor(PublicErrorCode(error))
<1>1. j = [NoJob EXCEPT !.result = error, !.told = {code}]
  BY DEF Refused
<1>2. 0 \notin {code}
  BY ExitCodesAre
<1> HIDE DEF j, code
<1>3. /\ DOMAIN j = Fields /\ j.payload = Simple("none") /\ j.stage = "answered" /\ j.told = {code}
      /\ j.table = << >> /\ j.request = {} /\ j.reply = {} /\ j.edits = {} /\ j.saved = {}
      /\ j.performed = FALSE /\ j.wire = FALSE
  BY <1>1, NoJobIs DEF Fields
<1>4. PayloadTyped(Simple("none"))
  BY Unlisted
<1>5. New(j)
  BY <1>2, <1>3, <1>4, NoJobIs DEF New
<1> DEFINE k == [j EXCEPT !.picked = picked]
           l == [j EXCEPT !.told = {1}]
<1>6. /\ DOMAIN k = Fields /\ k.payload = Simple("none") /\ k.stage = "answered" /\ k.told = {code}
      /\ k.table = << >> /\ k.request = {} /\ k.reply = {} /\ k.edits = {} /\ k.saved = {}
      /\ k.performed = FALSE /\ k.wire = FALSE
  BY <1>3 DEF Fields
<1>7. /\ DOMAIN l = Fields /\ l.payload = Simple("none") /\ l.stage = "answered" /\ l.told = {1}
      /\ l.table = << >> /\ l.request = {} /\ l.reply = {} /\ l.edits = {} /\ l.saved = {}
      /\ l.performed = FALSE /\ l.wire = FALSE
  BY <1>3 DEF Fields
<1> HIDE DEF k, l
<1>8. New(k)
  BY <1>2, <1>4, <1>6, NoJobIs DEF New
<1>9. New(l)
  <2>1. 0 \notin l.told
    BY <1>7
  <2> QED BY <1>4, <1>7, <2>1, NoJobIs DEF New
<1> QED BY <1>5, <1>8, <1>9 DEF j, k, l

LEMMA CatalogueStays ==
  ASSUME CatalogueInv, UNCHANGED <<obs, events, linked, config, snapshot>>
  PROVE  CatalogueInv'
  BY DEF CatalogueInv, HidesAs

LEMMA NewJobKeeps ==
  ASSUME New(job)'
  PROVE  JobInv' /\ ActsOnWhatWasNamed' /\ SaveKeepsTheRest'
<1>1. New(job')
  OBVIOUS
<1>2. Shaped(job') /\ Flows(job') /\ Told(job') /\ Saves(job')
  BY <1>1, NewIsSound
<1>3. job'.table = << >> /\ job'.edits = {}
  BY <1>1 DEF New
<1>4. ActsOnWhatWasNamed'
  BY <1>3 DEF ActsOnWhatWasNamed
<1>5. SaveKeepsTheRest'
  BY <1>3 DEF SaveKeepsTheRest
<1> QED BY <1>2, <1>4, <1>5 DEF JobInv

LEMMA GiveKeeps ==
  ASSUME IInv, NEW new, New(new), Give(new)
  PROVE  IInv'
<1>1. UNCHANGED <<obs, events, linked, config, snapshot>>
  BY DEF Give
<1>2. job' = new \/ \E error \in {"ServerUnavailable", "Io"} : job' = Refused(error)
  BY DEF Give
<1>3. New(job')
  BY <1>2, RefusedIsNew
<1> QED BY <1>1, <1>3, CatalogueStays, NewJobKeeps DEF IInv

LEMMA LinesAreTyped ==
  ASSUME NEW command
  PROVE  PayloadTyped(CommandToPayload(command))
<1>1. \/ \E target, percent : CommandToPayload(command) = SetVolume(target, percent)
      \/ \E name, target : CommandToPayload(command) = WithTarget(name, target)
      \/ \E name : CommandToPayload(command) = Simple(name)
  <2>1. CASE "percent" \in DOMAIN command
    BY <2>1 DEF CommandToPayload
  <2>2. CASE "target" \in DOMAIN command /\ "percent" \notin DOMAIN command
    BY <2>2 DEF CommandToPayload
  <2>3. CASE "target" \notin DOMAIN command /\ "percent" \notin DOMAIN command
    BY <2>3 DEF CommandToPayload
  <2> QED BY <2>1, <2>2, <2>3
<1> QED BY <1>1, Unlisted

LEMMA SubcommandsAreTyped ==
  ASSUME NEW subcommand, NEW args, ~Failed(ProxyPayload(subcommand, args))
  PROVE  PayloadTyped(ProxyPayload(subcommand, args))
<1> DEFINE payload == ProxyPayload(subcommand, args)
<1>1. \/ payload = Failure("CommandParseError")
      \/ \E target, percent : payload = SetVolume(target, percent)
      \/ \E name, target : payload = WithTarget(name, target)
      \/ \E name : payload = Simple(name)
  <2>1. CASE "percent" \in DOMAIN args
    BY <2>1 DEF ProxyPayload
  <2>2. CASE DOMAIN args = {"target"}
    BY <2>2 DEF ProxyPayload
  <2>3. CASE "percent" \notin DOMAIN args /\ DOMAIN args # {"target"}
    BY <2>3 DEF ProxyPayload
  <2> QED BY <2>1, <2>2, <2>3
<1> QED BY <1>1, Unlisted, FailuresFail

LEMMA EditsAreTyped ==
  ASSUME NEW edit \in Edits, ~Failed(SavePayload(edit))
  PROVE  PayloadTyped(SavePayload(edit))
<1>1. edit.name \in Text /\ edit.hidden \in Seq(Text)
  BY CommandsAssumption
<1>2. SavePayload(edit) = SaveSceneProfile(Trim(edit.name), Trimmed(edit.hidden), Trim(edit.from))
  BY FailuresFail DEF SavePayload
<1>3. LET args == SavePayload(edit).args
      IN "target" \in DOMAIN args /\ args.target = Trim(edit.name) /\ args.hidden = Trimmed(edit.hidden)
  BY <1>2 DEF SaveSceneProfile
<1> QED BY <1>1, <1>3, Trimming, TrimmedNames DEF PayloadTyped

LEMMA ClientGives ==
  ASSUME IInv, \/ TypeLine \/ CompleteLine \/ RunSubcommand \/ ConfigUnreadable \/ SaveEdited
               \/ SubscribeSession \/ SendOther
  PROVE  IInv'
<1>1. CASE TypeLine
  <2>1. PICK line \in Lines : Give(Given(CommandToPayload(Parsed[line]), {}))
    BY <1>1 DEF TypeLine
  <2> QED BY <2>1, LinesAreTyped, GivenIsNew, GiveKeeps
<1>2. CASE CompleteLine
  <2>1. \/ \E command, offered : Give(Given(CommandToPayload(command), offered))
        \/ \E offered : Give([Refused("CommandParseError") EXCEPT !.picked = offered])
    BY <1>2 DEF CompleteLine
  <2>2. CASE \E command, offered : Give(Given(CommandToPayload(command), offered))
    BY <2>2, LinesAreTyped, GivenIsNew, GiveKeeps
  <2>3. CASE \E offered : Give([Refused("CommandParseError") EXCEPT !.picked = offered])
    BY <2>3, RefusedIsNew, GiveKeeps
  <2> QED BY <2>1, <2>2, <2>3
<1>3. CASE RunSubcommand
  <2>1. PICK invocation \in Invocations :
          LET payload == ProxyPayload(invocation.subcommand, invocation.args)
          IN Give(IF Failed(payload) THEN Refused(payload.error) ELSE Given(payload, {}))
    BY <1>3 DEF RunSubcommand
  <2> DEFINE payload == ProxyPayload(invocation.subcommand, invocation.args)
  <2>2. ~Failed(payload) => PayloadTyped(payload)
    BY SubcommandsAreTyped
  <2> HIDE DEF payload
  <2>3. CASE Failed(payload)
    BY <2>1, <2>3, RefusedIsNew, GiveKeeps DEF payload
  <2>4. CASE ~Failed(payload)
    BY <2>1, <2>2, <2>4, GivenIsNew, GiveKeeps DEF payload
  <2> QED BY <2>3, <2>4
<1>4. CASE ConfigUnreadable
  BY <1>4, RefusedIsNew, GiveKeeps DEF ConfigUnreadable
<1>5. CASE SaveEdited
  <2>1. PICK edit \in Edits :
          LET payload == SavePayload(edit)
          IN Give(IF Failed(payload) THEN Refused(payload.error) ELSE Given(payload, {}))
    BY <1>5 DEF SaveEdited
  <2> DEFINE payload == SavePayload(edit)
  <2>2. ~Failed(payload) => PayloadTyped(payload)
    BY EditsAreTyped
  <2> HIDE DEF payload
  <2>3. CASE Failed(payload)
    BY <2>1, <2>3, RefusedIsNew, GiveKeeps DEF payload
  <2>4. CASE ~Failed(payload)
    BY <2>1, <2>2, <2>4, GivenIsNew, GiveKeeps DEF payload
  <2> QED BY <2>3, <2>4
<1>6. CASE SubscribeSession
  <2>1. PICK topics : Give(Given(Subscribe(topics), {}))
    BY <1>6 DEF SubscribeSession
  <2> QED BY <2>1, Unlisted, GivenIsNew, GiveKeeps
<1>7. CASE SendOther
  <2>1. PICK payload \in Others : Give([Given(payload, {}) EXCEPT !.own = FALSE])
    BY <1>7 DEF SendOther
  <2>2. PayloadTyped(payload)
    BY CommandsAssumption DEF PayloadTyped
  <2> QED BY <2>1, <2>2, GivenIsNew, GiveKeeps
<1> QED BY <1>1, <1>2, <1>3, <1>4, <1>5, <1>6, <1>7

-----------------------------------------------------------------------------
(* A command goes on.                                                      *)

\* ActsOnWhatWasNamed and SaveKeepsTheRest, of what they are about.
ActsOn(payload, table, request, result) ==
  LET RanksOf(i) == Ranks(payload.args.target, table[i], i, payload.name = "set_scene")
      answering  == {i \in DOMAIN table : RanksOf(i) # {}}
      best       == Min(UNION {RanksOf(i) : i \in answering})
      Best       == {i \in answering : best \in RanksOf(i)}
  IN table # << >> =>
       /\ request # {} =>
            /\ \E i \in Best : \E r \in request : r.name = table[i].name
            /\ best \in {4, 5} => Cardinality(Best) = 1
       /\ result = "AliasAmbiguous" => best \in {4, 5} /\ Cardinality(Best) > 1
       /\ result \in {"SceneNotFound", "AudioInputNotFound"} => answering = {}
KeepsTheRest(p, edit) ==
  LET mine == SceneProfileAt(edit.from, p.args.target) \union Replacing(p, edit.from)
  IN /\ HasSaved(edit.to, p)
     /\ \A i \in DOMAIN edit.from.profiles \ mine : edit.from.profiles[i] \in ToSet(edit.to.profiles)
     /\ Len(edit.to.profiles) <= Len(edit.from.profiles) + 1
     /\ IsOn(edit.to, p.args.target) <=>
          ActiveProfile(edit.from) \cap mine # {} \/ Dangles(edit.from, p.args.target)
     /\ ActiveProfile(edit.to) = {} <=>
          ActiveProfile(edit.from) = {} /\ ~Dangles(edit.from, p.args.target)

LEMMA OfTheJob ==
  /\ ActsOnWhatWasNamed <=> ActsOn(job.payload, job.table, job.request, job.result)
  /\ SaveKeepsTheRest <=>
       (job.payload.name = "save_scene_profile" => \A edit \in job.edits : KeepsTheRest(job.payload, edit))
<1>1. ActsOnWhatWasNamed <=> ActsOn(job.payload, job.table, job.request, job.result)
  BY DEF ActsOnWhatWasNamed, ActsOn
<1>2. SaveKeepsTheRest <=>
       (job.payload.name = "save_scene_profile" => \A edit \in job.edits : KeepsTheRest(job.payload, edit))
  BY DEF SaveKeepsTheRest, KeepsTheRest
<1> QED BY <1>1, <1>2

LEMMA OfTheNextJob ==
  /\ ActsOnWhatWasNamed' <=> ActsOn(job'.payload, job'.table, job'.request, job'.result)
  /\ SaveKeepsTheRest' <=>
       (job'.payload.name = "save_scene_profile" => \A edit \in job'.edits : KeepsTheRest(job'.payload, edit))
<1>1. ActsOnWhatWasNamed' <=> ActsOn(job'.payload, job'.table, job'.request, job'.result)
  BY DEF ActsOnWhatWasNamed, ActsOn
<1>2. SaveKeepsTheRest' <=>
       (job'.payload.name = "save_scene_profile" => \A edit \in job'.edits : KeepsTheRest(job'.payload, edit))
  BY DEF SaveKeepsTheRest, KeepsTheRest
<1> QED BY <1>1, <1>2

\* One and the same command, whatever has become of it since.
SameCommand(j, k) ==
  /\ DOMAIN k = Fields /\ k.payload = j.payload /\ k.table = j.table /\ k.request = j.request
  /\ k.reply = j.reply /\ k.saved = j.saved /\ k.edits = j.edits

NamingErrors == {"AliasAmbiguous", "SceneNotFound", "AudioInputNotFound"}

LEMMA SameCommandKeeps ==
  ASSUME JobInv, ActsOnWhatWasNamed, SaveKeepsTheRest, SameCommand(job, job'),
         job'.performed = job.performed \/ job.payload.name \in ObsCommands,
         job'.result = job.result \/ job'.result \notin NamingErrors
  PROVE  ActsOnWhatWasNamed' /\ SaveKeepsTheRest' /\ Saves(job') /\ PayloadTyped(job'.payload)
<1>1. /\ DOMAIN job' = Fields /\ job'.payload = job.payload /\ job'.table = job.table /\ job'.request = job.request
      /\ job'.reply = job.reply /\ job'.saved = job.saved /\ job'.edits = job.edits
  BY DEF SameCommand
<1>2. ActsOn(job.payload, job.table, job.request, job.result)
  BY OfTheJob
<1>3. ActsOn(job.payload, job.table, job.request, job'.result)
  <2>1. CASE job'.result = job.result
    BY <1>2, <2>1
  <2>2. CASE job'.result \notin NamingErrors
    BY <1>2, <2>2 DEF ActsOn, NamingErrors
  <2> QED BY <2>1, <2>2
<1>4. ActsOnWhatWasNamed'
  BY <1>1, <1>3, OfTheNextJob
<1>5. SaveKeepsTheRest'
  BY <1>1, OfTheJob, OfTheNextJob
<1>6. Saves(job')
  BY <1>1 DEF JobInv, Saves, ObsCommands
<1> QED BY <1>1, <1>4, <1>5, <1>6 DEF JobInv, Shaped

LEMMA AnswerIs ==
  ASSUME JobInv, NEW result, Answer(result)
  PROVE  /\ SameCommand(job, job') /\ job'.stage = "answered" /\ job'.result = result
         /\ job'.performed = job.performed /\ job'.wire = job.wire /\ job'.told = job.told
<1>1. DOMAIN job = Fields /\ job' = [job EXCEPT !.stage = "answered", !.result = result]
  BY DEF JobInv, Shaped, Answer
<1> QED BY <1>1 DEF Fields, SameCommand

LEMMA AnsweredOutright ==
  ASSUME JobInv, ActsOnWhatWasNamed, SaveKeepsTheRest, job.stage = "sent",
         NEW result, result \notin NamingErrors, Answer(result),
         result = "ok" => job.payload.name \notin ObsCommands \cup ProfileCommands
  PROVE  JobInv' /\ ActsOnWhatWasNamed' /\ SaveKeepsTheRest'
<1>1. /\ SameCommand(job, job') /\ job'.stage = "answered" /\ job'.result = result
      /\ job'.performed = job.performed /\ job'.wire = job.wire /\ job'.told = job.told
  BY AnswerIs
<1>2. ActsOnWhatWasNamed' /\ SaveKeepsTheRest' /\ Saves(job') /\ PayloadTyped(job'.payload)
  BY <1>1, SameCommandKeeps
<1>3. DOMAIN job' = Fields /\ job'.payload = job.payload
  BY <1>1 DEF SameCommand
<1>4. ~job.performed /\ ~job.wire /\ job.performed \in BOOLEAN /\ job.wire \in BOOLEAN
  BY DEF JobInv, Flows, Shaped
<1>5. Shaped(job')
  BY <1>1, <1>2, <1>3, <1>4 DEF Shaped
<1>6. Flows(job')
  BY <1>1, <1>3, <1>4 DEF Flows
<1>7. Told(job')
  BY <1>1 DEF JobInv, Told
<1> QED BY <1>2, <1>5, <1>6, <1>7 DEF JobInv

LEMMA GiveUpKeeps ==
  ASSUME IInv, GiveUp
  PROVE  IInv'
<1>1. PICK error \in {"IpcProtocolError", "IpcTimeout"} : Tell(error)
  BY DEF GiveUp
<1>2. UNCHANGED <<obs, events, linked, config, snapshot>>
  BY DEF GiveUp, catalogueVars
<1>3. ExitCodeFor(PublicErrorCode(error)) = 6
  BY DEF PublicErrorCode, ExitCodeFor, ObsCodes
<1>4. DOMAIN job = Fields /\ job' = [job EXCEPT !.told = {6}]
  BY <1>1, <1>3 DEF IInv, JobInv, Shaped, Tell
<1>5. /\ SameCommand(job, job') /\ job'.stage = job.stage /\ job'.result = job.result
      /\ job'.performed = job.performed /\ job'.wire = job.wire /\ job'.told = {6}
  BY <1>4 DEF Fields, SameCommand
<1>6. ActsOnWhatWasNamed' /\ SaveKeepsTheRest' /\ Saves(job') /\ PayloadTyped(job'.payload)
  BY <1>5, SameCommandKeeps DEF IInv
<1>7. Shaped(job') /\ Flows(job')
  BY <1>5, <1>6 DEF IInv, JobInv, Shaped, Flows, SameCommand
<1>8. Told(job')
  BY <1>5 DEF Told
<1> QED BY <1>2, <1>6, <1>7, <1>8, CatalogueStays DEF IInv, JobInv

LEMMA ReadAnswerKeeps ==
  ASSUME IInv, ReadAnswer
  PROVE  IInv'
<1> DEFINE code == IF job.result = "ok" THEN 0 ELSE ExitCodeFor(PublicErrorCode(job.result))
<1>1. job.stage = "answered" /\ job.told = {} /\ UNCHANGED <<obs, events, linked, config, snapshot>>
  BY DEF ReadAnswer, catalogueVars
<1>2. DOMAIN job = Fields /\ job' = [job EXCEPT !.told = {code}]
  BY DEF IInv, JobInv, Shaped, ReadAnswer
<1>3. code = 0 => job.result = "ok"
  BY ExitCodesAre
<1>4. job.result \in {"RequestTimeout", "ConnectionFailed"} => code = 4
  BY DEF PublicErrorCode, ExitCodeFor, ObsCodes
<1>5. job.result = "ok" => code = 0
  OBVIOUS
<1> HIDE DEF code
<1>6. /\ SameCommand(job, job') /\ job'.stage = job.stage /\ job'.result = job.result
      /\ job'.performed = job.performed /\ job'.wire = job.wire /\ job'.told = {code}
  BY <1>2 DEF Fields, SameCommand
<1>7. ActsOnWhatWasNamed' /\ SaveKeepsTheRest' /\ Saves(job') /\ PayloadTyped(job'.payload)
  BY <1>6, SameCommandKeeps DEF IInv
<1>8. Shaped(job') /\ Flows(job')
  BY <1>6, <1>7 DEF IInv, JobInv, Shaped, Flows, SameCommand
<1>9. Told(job')
  <2>1. 0 \in job'.told => job'.result = "ok"
    BY <1>3, <1>6
  <2>2. job'.told \cap {1, 2, 3, 5} # {} => code \in {1, 2, 3, 5}
    BY <1>6
  <2>3. code \in {1, 2, 3, 5} => job.result # "ok" /\ job.result \notin {"RequestTimeout", "ConnectionFailed"}
    BY <1>4, <1>5
  <2>4. code \in {1, 2, 3, 5} => ~job.performed /\ ~job.wire
    BY <1>1, <2>3 DEF IInv, JobInv, Flows
  <2> QED BY <1>1, <1>6, <2>1, <2>2, <2>4 DEF Told
<1> QED BY <1>1, <1>7, <1>8, <1>9, CatalogueStays DEF IInv, JobInv

LEMMA HandlersAnswer ==
  ASSUME IInv, \/ HandleMalformed \/ HandleQuery \/ HandleReconnect \/ HandleShutdown \/ HandleReload
               \/ SceneProfileFails
  PROVE  IInv'
<1>1. CASE HandleMalformed
  <2>1. job.stage = "sent" /\ Answer("CommandParseError") /\ UNCHANGED <<obs, events, linked, config, snapshot>>
    BY <1>1 DEF HandleMalformed, catalogueVars
  <2> QED BY <2>1, AnsweredOutright, CatalogueStays DEF IInv, NamingErrors
<1>2. CASE HandleQuery
  <2>1. job.stage = "sent" /\ Answer("ok") /\ UNCHANGED <<obs, events, linked, config, snapshot>>
        /\ job.payload.name \in Queries
    BY <1>2 DEF HandleQuery, Handling, catalogueVars
  <2>2. job.payload.name \notin ObsCommands \cup ProfileCommands
    BY <2>1 DEF Queries, ObsCommands, ProfileCommands
  <2> QED BY <2>1, <2>2, AnsweredOutright, CatalogueStays DEF IInv, NamingErrors
<1>3. CASE HandleReconnect
  <2>1. /\ job.stage = "sent" /\ \E result \in {"ok", "ObsUnavailable"} : Answer(result)
        /\ UNCHANGED <<obs, events, linked, config, snapshot>> /\ job.payload.name = "reconnect_obs"
    BY <1>3 DEF HandleReconnect, Handling, catalogueVars
  <2>2. job.payload.name \notin ObsCommands \cup ProfileCommands
    BY <2>1 DEF ObsCommands, ProfileCommands
  <2> QED BY <2>1, <2>2, AnsweredOutright, CatalogueStays DEF IInv, NamingErrors
<1>4. CASE HandleShutdown
  <2>1. /\ job.stage = "sent" /\ \E result \in {"ok", "ShutdownDisabled"} : Answer(result)
        /\ UNCHANGED <<obs, events, linked, config, snapshot>> /\ job.payload.name = "shutdown_server"
    BY <1>4 DEF HandleShutdown, Handling, catalogueVars
  <2>2. job.payload.name \notin ObsCommands \cup ProfileCommands
    BY <2>1 DEF ObsCommands, ProfileCommands
  <2> QED BY <2>1, <2>2, AnsweredOutright, CatalogueStays DEF IInv, NamingErrors
<1>5. CASE HandleReload
  <2>1. /\ job.stage = "sent" /\ UNCHANGED <<obs, events, linked>> /\ job.payload.name = "reload_config"
        /\ \/ \E c \in Configs : Hold(c) /\ Answer("ok")
           \/ /\ \E result \in {"ConfigNotFound", "ConfigInvalid"} : Answer(result)
              /\ UNCHANGED <<config, snapshot>>
    BY <1>5 DEF HandleReload, Handling
  <2>2. job.payload.name \notin ObsCommands \cup ProfileCommands
    BY <2>1 DEF ObsCommands, ProfileCommands
  <2>3. \A c \in Configs : Sound(c)
    BY CatalogueAssumption DEF Sound, Validated
  <2>4. CatalogueInv'
    BY <2>1, <2>3, HoldKeeps, CatalogueStays DEF IInv
  <2>5. \E result \in {"ok", "ConfigNotFound", "ConfigInvalid"} : Answer(result)
    BY <2>1
  <2> QED BY <2>1, <2>2, <2>4, <2>5, AnsweredOutright DEF IInv, NamingErrors
<1>6. CASE SceneProfileFails
  <2>1. /\ job.stage = "sent" /\ \E result \in {"ConfigInvalid", "Io"} : Answer(result)
        /\ UNCHANGED <<obs, events, linked, config, snapshot>>
    BY <1>6 DEF SceneProfileFails, Handling
  <2> QED BY <2>1, AnsweredOutright, CatalogueStays DEF IInv, NamingErrors
<1> QED BY <1>1, <1>2, <1>3, <1>4, <1>5, <1>6

\* Who asks for what the target resolves to acts on what was named.
LEMMA AskingIsActing ==
  ASSUME NEW p, NEW table \in Seq(TableEntry), NEW outcome,
         Asks(outcome, p.args, table, IF p.name = "set_scene" THEN "scene" ELSE "audio")
  PROVE  IF Failed(outcome) THEN ActsOn(p, table, {}, outcome.error) /\ outcome.error # "ok"
         ELSE ActsOn(p, table, {outcome}, "ok") /\ IsRequest(outcome)
<1> DEFINE target == p.args.target
           scenes == p.name = "set_scene"
           kind == IF scenes THEN "scene" ELSE "audio"
           resolved == ResolveWith(target, table, kind)
           At(rank) == Answering(target, table, scenes, rank)
           answering == Responding(target, table, scenes)
           best == BestOf(target, table, scenes)
           Best == BestEntries(target, table, scenes)
<1>1. scenes \in BOOLEAN /\ kind \in {"scene", "audio"} /\ (kind = "scene") = scenes
  OBVIOUS
<1>2. \A rank \in 1 .. 6 : At(rank) # {} /\ (\A better \in 1 .. rank - 1 : At(better) = {})
        => best = rank /\ Best = At(rank)
  <2> SUFFICES ASSUME NEW rank \in 1 .. 6, At(rank) # {}, \A better \in 1 .. rank - 1 : At(better) = {}
               PROVE  best = rank /\ Best = At(rank)
    OBVIOUS
  <2> HIDE DEF scenes, target
  <2> QED BY <1>1, BestRank
<1>3. (\A rank \in 1 .. 6 : At(rank) = {}) => answering = {}
  BY <1>1, NoneAnswers
<1>4. \A request, result : ActsOn(p, table, request, result) <=>
        (table # << >> =>
           /\ request # {} => /\ \E i \in Best : \E r \in request : r.name = table[i].name
                              /\ best \in {4, 5} => Cardinality(Best) = 1
           /\ result = "AliasAmbiguous" => best \in {4, 5} /\ Cardinality(Best) > 1
           /\ result \in {"SceneNotFound", "AudioInputNotFound"} => answering = {})
  BY DEF ActsOn, BestEntries, BestOf, Responding
<1> HIDE DEF answering, best, Best
<1>5. CASE outcome \in {Failure("CommandParseError"), Failure("ObsUnavailable")}
  <2>1. Failed(outcome) /\ outcome.error \in {"CommandParseError", "ObsUnavailable"}
    BY <1>5, FailuresFail
  <2> QED BY <1>4, <2>1
<1>6. CASE /\ Usable(target)
           /\ IF Failed(resolved) THEN outcome = resolved
              ELSE IsRequest(outcome) /\ ~Failed(outcome) /\ outcome.name = table[resolved.entry].name
  <2>1. \/ \E rank \in 1 .. 6 :
             /\ resolved = Found(resolved.entry) /\ resolved.entry \in At(rank)
             /\ \A better \in 1 .. rank - 1 : At(better) = {}
             /\ rank \in {4, 5} => At(rank) = {resolved.entry}
        \/ \E rank \in {4, 5} :
             /\ resolved = Failure("AliasAmbiguous") /\ Cardinality(At(rank)) > 1
             /\ \A better \in 1 .. rank - 1 : At(better) = {}
        \/ /\ resolved = NotFound(kind)
           /\ \A rank \in 1 .. 6 : At(rank) = {}
    BY <1>1, <1>6, ResolutionIsBest
  <2> HIDE DEF resolved, At
  <2>2. CASE \E rank \in 1 .. 6 :
             /\ resolved = Found(resolved.entry) /\ resolved.entry \in At(rank)
             /\ \A better \in 1 .. rank - 1 : At(better) = {}
             /\ rank \in {4, 5} => At(rank) = {resolved.entry}
    <3>1. PICK rank \in 1 .. 6 :
             /\ resolved = Found(resolved.entry) /\ resolved.entry \in At(rank)
             /\ \A better \in 1 .. rank - 1 : At(better) = {}
             /\ rank \in {4, 5} => At(rank) = {resolved.entry}
      BY <2>2
    <3>2. best = rank /\ Best = At(rank)
      BY <1>2, <3>1
    <3>3. ~Failed(resolved)
      BY <3>1 DEF Found, Failed
    <3>4. IsRequest(outcome) /\ ~Failed(outcome) /\ outcome.name = table[resolved.entry].name
      BY <1>6, <3>3
    <3>5. best \in {4, 5} => Cardinality(Best) = 1
      BY <3>1, <3>2, SingleIsOne
    <3>6. \E i \in Best : \E r \in {outcome} : r.name = table[i].name
      BY <3>1, <3>2, <3>4
    <3> QED BY <1>4, <3>4, <3>5, <3>6
  <2>3. CASE \E rank \in {4, 5} :
             /\ resolved = Failure("AliasAmbiguous") /\ Cardinality(At(rank)) > 1
             /\ \A better \in 1 .. rank - 1 : At(better) = {}
    <3>1. PICK rank \in {4, 5} :
             /\ resolved = Failure("AliasAmbiguous") /\ Cardinality(At(rank)) > 1
             /\ \A better \in 1 .. rank - 1 : At(better) = {}
      BY <2>3
    <3>2. Cardinality({}) = 0
      BY FS_EmptySet
    <3>3. At(rank) # {}
      <4> SUFFICES ASSUME At(rank) = {} PROVE FALSE
        OBVIOUS
      <4>1. Cardinality(At(rank)) = 0
        BY <3>2
      <4> QED BY <3>1, <4>1
    <3>4. best = rank /\ Best = At(rank)
      BY <1>2, <3>1, <3>3
    <3>5. Failed(outcome) /\ outcome.error = "AliasAmbiguous"
      BY <1>6, <3>1, FailuresFail
    <3> QED BY <1>4, <3>1, <3>4, <3>5
  <2>4. CASE resolved = NotFound(kind) /\ \A rank \in 1 .. 6 : At(rank) = {}
    <3>1. answering = {}
      BY <1>3, <2>4
    <3>2. Failed(outcome) /\ outcome.error \in {"SceneNotFound", "AudioInputNotFound"}
      BY <1>6, <2>4, FailuresFail DEF NotFound
    <3> QED BY <1>4, <3>1, <3>2
  <2> QED BY <2>1, <2>2, <2>3, <2>4
<1> QED BY <1>5, <1>6 DEF Asks

LEMMA HandleObsCommandKeeps ==
  ASSUME IInv, HandleObsCommand
  PROVE  IInv'
<1> DEFINE p == job.payload
           outcome == RunObsCommand(p)
           table == TableOf(p.name)
           looked == [job EXCEPT !.table = table]
<1>1. /\ job.stage = "sent" /\ p.name \in ObsCommands
      /\ job' = IF Failed(outcome) THEN [looked EXCEPT !.stage = "answered", !.result = outcome.error]
                ELSE [looked EXCEPT !.stage = "asked", !.request = {outcome}, !.wire = TRUE]
      /\ UNCHANGED <<obs, events, linked, config, snapshot>>
  BY DEF HandleObsCommand, Handling, catalogueVars
<1>2. /\ DOMAIN job = Fields /\ ~job.performed /\ ~job.wire /\ job.result = "ok" /\ job.request = {}
      /\ job.performed \in BOOLEAN /\ job.wire \in BOOLEAN /\ job.reply = {} /\ PayloadTyped(p)
  BY <1>1 DEF IInv, JobInv, Flows, Shaped
<1>3. IF Failed(outcome) THEN ActsOn(p, table, {}, outcome.error) /\ outcome.error # "ok"
      ELSE ActsOn(p, table, {outcome}, "ok") /\ IsRequest(outcome)
  <2>1. \/ /\ table \in Seq(TableEntry)
           /\ Asks(outcome, p.args, table, IF p.name = "set_scene" THEN "scene" ELSE "audio")
        \/ table = << >> /\ IF Failed(outcome) THEN outcome.error # "ok" ELSE IsRequest(outcome)
    BY <1>1, ObsCommandAsks DEF IInv
  <2> HIDE DEF outcome, table
  <2>2. \A request, result : ActsOn(p, << >>, request, result)
    BY DEF ActsOn
  <2> QED BY <2>1, <2>2, AskingIsActing
<1> HIDE DEF outcome, table
<1>4. p.name # "save_scene_profile" /\ p.name # "set_scene_profile"
  BY <1>1 DEF ObsCommands
<1>5. job.saved = {} /\ (0 \notin job.told) /\ job.told \cap {1, 2, 3, 5} = {}
  BY <1>1, <1>4 DEF IInv, JobInv, Saves, Told
<1>6. DOMAIN looked = Fields /\ looked.table = table
      /\ \A f \in Fields \ {"table"} : looked[f] = job[f]
  BY <1>2 DEF Fields
<1> HIDE DEF looked
<1>7. CASE Failed(outcome)
  <2>1. job' = [looked EXCEPT !.stage = "answered", !.result = outcome.error]
    BY <1>1, <1>7
  <2>2. /\ DOMAIN job' = Fields /\ job'.payload = p /\ job'.table = table /\ job'.request = {} /\ job'.reply = {}
        /\ job'.saved = {} /\ job'.stage = "answered" /\ job'.result = outcome.error
        /\ ~job'.performed /\ job'.performed \in BOOLEAN /\ ~job'.wire /\ job'.wire \in BOOLEAN
        /\ job'.told = job.told
    BY <1>2, <1>5, <1>6, <2>1 DEF Fields
  <2>3. ActsOnWhatWasNamed' /\ SaveKeepsTheRest'
    BY <1>3, <1>4, <1>7, <2>2, OfTheNextJob
  <2>4. Shaped(job') /\ Flows(job') /\ Told(job') /\ Saves(job')
    BY <1>2, <1>3, <1>4, <1>5, <1>7, <2>2 DEF Shaped, Flows, Told, Saves
  <2> QED BY <1>1, <2>3, <2>4, CatalogueStays DEF IInv, JobInv
<1>8. CASE ~Failed(outcome)
  <2>1. job' = [looked EXCEPT !.stage = "asked", !.request = {outcome}, !.wire = TRUE]
    BY <1>1, <1>8
  <2>2. /\ DOMAIN job' = Fields /\ job'.payload = p /\ job'.table = table /\ job'.request = {outcome}
        /\ job'.reply = {} /\ job'.saved = {} /\ job'.stage = "asked" /\ job'.result = "ok"
        /\ job'.performed = job.performed /\ job'.wire = TRUE /\ job'.told = job.told
    BY <1>2, <1>5, <1>6, <2>1 DEF Fields
  <2>3. ActsOnWhatWasNamed' /\ SaveKeepsTheRest'
    BY <1>3, <1>4, <1>8, <2>2, OfTheNextJob
  <2>4. Shaped(job') /\ Told(job') /\ Saves(job')
    BY <1>2, <1>4, <1>5, <2>2 DEF Shaped, Told, Saves
  <2>5. Flows(job')
    BY <1>1, <1>2, <1>3, <1>8, <2>2 DEF Flows
  <2> QED BY <1>1, <2>3, <2>4, <2>5, CatalogueStays DEF IInv, JobInv
<1> QED BY <1>7, <1>8

LEMMA HandleSubscribeKeeps ==
  ASSUME IInv, HandleSubscribe
  PROVE  IInv'
<1>1. PICK topics, result : job' = [job EXCEPT !.stage = "answered", !.reply = topics, !.result = result]
                            /\ result \in {"ok", "IpcProtocolError"}
  BY DEF HandleSubscribe
<1>2. job.stage = "sent" /\ job.payload.name = "subscribe" /\ UNCHANGED <<obs, events, linked, config, snapshot>>
  BY DEF HandleSubscribe, catalogueVars
<1>3. /\ DOMAIN job = Fields /\ ~job.performed /\ ~job.wire /\ job.request = {} /\ job.table = << >>
      /\ job.performed \in BOOLEAN /\ job.wire \in BOOLEAN /\ PayloadTyped(job.payload)
      /\ job.saved = {} /\ 0 \notin job.told /\ job.told \cap {1, 2, 3, 5} = {}
  BY <1>2 DEF IInv, JobInv, Flows, Shaped, Told, Saves
<1>4. /\ DOMAIN job' = Fields /\ job'.performed = job.performed /\ job'.wire = job.wire /\ job'.request = {}
      /\ job'.table = << >> /\ job'.payload = job.payload /\ job'.saved = {} /\ job'.told = job.told
      /\ job'.stage = "answered" /\ job'.result = result
  BY <1>1, <1>3 DEF Fields
<1>5. ActsOnWhatWasNamed'
  BY <1>4 DEF ActsOnWhatWasNamed
<1>6. SaveKeepsTheRest'
  BY <1>2, <1>4, OfTheNextJob
<1>7. Shaped(job') /\ Flows(job') /\ Told(job') /\ Saves(job')
  BY <1>2, <1>3, <1>4 DEF Shaped, Flows, Told, Saves, ObsCommands, ProfileCommands
<1> QED BY <1>2, <1>5, <1>6, <1>7, CatalogueStays DEF IInv, JobInv

LEMMA FollowUpKeeps ==
  ASSUME IInv, FollowUp
  PROVE  IInv'
<1> DEFINE target == job.payload.args.target
           payload == WithTarget("set_scene_profile", target)
           second == [Given(payload, {}) EXCEPT !.saved = job.reply, !.edits = job.edits]
           Code(error) == ExitCodeFor(PublicErrorCode(error))
           failed(error) == [second EXCEPT !.stage = "answered", !.result = error, !.told = {Code(error)}]
<1>1. /\ job.stage = "answered" /\ Created /\ UNCHANGED <<obs, events, linked, config, snapshot>>
      /\ job' = second \/ \E error \in {"ServerUnavailable", "Io"} : job' = failed(error)
  BY DEF FollowUp, catalogueVars
<1>2. \E edit \in job.edits : SceneProfileAt(edit.to, target) # {}
  <2>1. job.payload.name = "save_scene_profile" /\ job.result = "ok"
    BY <1>1 DEF Created
  <2>2. job.performed
    BY <1>1, <2>1 DEF IInv, JobInv, Flows, ProfileCommands
  <2>3. PICK edit \in job.edits : TRUE
    BY <2>1, <2>2 DEF IInv, JobInv, Saves
  <2>4. HasSaved(edit.to, job.payload)
    BY <2>1, OfTheJob DEF IInv, KeepsTheRest
  <2> QED BY <2>4 DEF HasSaved
<1> DEFINE given == Given(payload, {})
<1>3. PayloadTyped(payload) /\ payload.name = "set_scene_profile" /\ payload.args.target = target
  BY Unlisted DEF WithTarget
<1>4. New(given) /\ given.stage = "sent"
  BY <1>3, GivenIsNew
<1>5. given.payload = payload
  BY NoJobIs DEF Given, Fields
<1> HIDE DEF given, target, payload
<1>6. /\ DOMAIN given = Fields /\ given.table = << >> /\ given.request = {} /\ given.reply = {}
      /\ given.performed = FALSE /\ given.wire = FALSE /\ given.result = "ok" /\ given.told = {}
  BY <1>4 DEF New
<1>7. second = [given EXCEPT !.saved = job.reply, !.edits = job.edits]
  BY DEF given
<1> HIDE DEF second
<1>8. /\ DOMAIN second = Fields /\ second.table = << >> /\ second.request = {} /\ second.reply = {}
      /\ second.performed = FALSE /\ second.wire = FALSE /\ second.result = "ok" /\ second.told = {}
      /\ second.stage = "sent" /\ second.payload = payload /\ second.edits = job.edits
  BY <1>4, <1>5, <1>6, <1>7 DEF Fields
<1>9. /\ DOMAIN job' = Fields /\ job'.table = << >> /\ job'.request = {} /\ job'.reply = {}
      /\ job'.performed = FALSE /\ job'.wire = FALSE /\ job'.payload = payload /\ job'.edits = job.edits
      /\ \/ job'.stage = "sent" /\ job'.result = "ok" /\ job'.told = {}
         \/ job'.stage = "answered" /\ job'.result # "ok" /\ 0 \notin job'.told
  <2>1. CASE job' = second
    BY <1>8, <2>1
  <2>2. CASE \E error \in {"ServerUnavailable", "Io"} : job' = failed(error)
    <3>1. PICK error \in {"ServerUnavailable", "Io"} : job' = failed(error)
      BY <2>2
    <3>2. 0 \notin {Code(error)}
      BY ExitCodesAre
    <3> QED BY <1>8, <3>1, <3>2 DEF Fields
  <2> QED BY <1>1, <2>1, <2>2
<1>10. ActsOnWhatWasNamed'
  BY <1>9 DEF ActsOnWhatWasNamed
<1>11. SaveKeepsTheRest'
  BY <1>3, <1>9, OfTheNextJob
<1>12. Shaped(job') /\ Flows(job') /\ Told(job')
  BY <1>3, <1>9 DEF Shaped, Flows, Told
<1>13. Saves(job')
  BY <1>2, <1>3, <1>9 DEF Saves
<1> QED BY <1>1, <1>10, <1>11, <1>12, <1>13, CatalogueStays DEF IInv, JobInv

LEMMA OtherReloadsKeeps ==
  ASSUME IInv, OtherReloads
  PROVE  IInv'
<1>1. PICK c \in Configs : Hold(c)
  BY DEF OtherReloads
<1>2. Sound(c)
  BY CatalogueAssumption DEF Sound, Validated
<1>3. CatalogueInv' /\ job' = job
  BY <1>1, <1>2, HoldKeeps DEF OtherReloads, IInv
<1> QED BY <1>3, OfTheJob, OfTheNextJob DEF IInv, JobInv

-----------------------------------------------------------------------------
(* OBS takes a request, or does not.                                       *)

LEMMA ObsPerformsKeeps ==
  ASSUME IInv, ObsPerforms
  PROVE  IInv'
<1>1. /\ job.wire /\ linked /\ Accepts(obs, Asked) /\ Perform(Asked)
      /\ job' = [job EXCEPT !.wire = FALSE, !.performed = TRUE]
      /\ UNCHANGED <<linked, config, snapshot>>
  BY DEF ObsPerforms
<1>2. job.payload.name \in ObsCommands /\ IsRequest(Asked)
  <2>1. PICK r : job.request = {r} /\ IsRequest(r) /\ job.payload.name \in ObsCommands
    BY <1>1 DEF IInv, JobInv, Flows
  <2>2. Asked = r
    BY <2>1 DEF Asked
  <2> QED BY <2>1, <2>2
<1>3. obs' \in ObsStates /\ events' \in Seq(Events)
  BY <1>1, <1>2, PerformedIsSound DEF IInv
<1>4. CatalogueInv'
  BY <1>1, <1>3 DEF IInv, CatalogueInv, HidesAs
<1>5. /\ SameCommand(job, job') /\ job'.stage = job.stage /\ job'.result = job.result
      /\ job'.performed = TRUE /\ job'.wire = FALSE /\ job'.told = job.told
  <2>1. DOMAIN job = Fields
    BY DEF IInv, JobInv, Shaped
  <2> QED BY <1>1, <2>1 DEF Fields, SameCommand
<1>6. ActsOnWhatWasNamed' /\ SaveKeepsTheRest' /\ Saves(job') /\ PayloadTyped(job'.payload)
  BY <1>2, <1>5, SameCommandKeeps DEF IInv
<1>7. Shaped(job') /\ Flows(job') /\ Told(job')
  BY <1>1, <1>5, <1>6 DEF IInv, JobInv, Shaped, Flows, Told, SameCommand
<1> QED BY <1>4, <1>6, <1>7 DEF IInv, JobInv

LEMMA ObsConfirmsKeeps ==
  ASSUME IInv, ObsConfirms
  PROVE  IInv'
<1>1. /\ job.stage = "asked" /\ job.performed /\ Answer("ok")
      /\ UNCHANGED <<obs, events, linked, config, snapshot>>
  BY DEF ObsConfirms, catalogueVars
<1>2. /\ SameCommand(job, job') /\ job'.stage = "answered" /\ job'.result = "ok"
      /\ job'.performed = job.performed /\ job'.wire = job.wire /\ job'.told = job.told
  BY <1>1, AnswerIs DEF IInv
<1>3. ActsOnWhatWasNamed' /\ SaveKeepsTheRest' /\ Saves(job') /\ PayloadTyped(job'.payload)
  BY <1>2, SameCommandKeeps DEF IInv, NamingErrors
<1>4. Shaped(job') /\ Flows(job') /\ Told(job')
  BY <1>1, <1>2, <1>3 DEF IInv, JobInv, Shaped, Flows, Told, SameCommand
<1> QED BY <1>1, <1>3, <1>4, CatalogueStays DEF IInv, JobInv

LEMMA RequestTimesOutKeeps ==
  ASSUME IInv, RequestTimesOut
  PROVE  IInv'
<1>1. /\ job.stage = "asked" /\ Answer("RequestTimeout")
      /\ UNCHANGED <<obs, events, linked, config, snapshot>>
  BY DEF RequestTimesOut, catalogueVars
<1>2. /\ SameCommand(job, job') /\ job'.stage = "answered" /\ job'.result = "RequestTimeout"
      /\ job'.performed = job.performed /\ job'.wire = job.wire /\ job'.told = job.told
  BY <1>1, AnswerIs DEF IInv
<1>3. ActsOnWhatWasNamed' /\ SaveKeepsTheRest' /\ Saves(job') /\ PayloadTyped(job'.payload)
  BY <1>2, SameCommandKeeps DEF IInv, NamingErrors
<1>4. Shaped(job') /\ Flows(job') /\ Told(job')
  BY <1>1, <1>2, <1>3 DEF IInv, JobInv, Shaped, Flows, Told, SameCommand
<1> QED BY <1>1, <1>3, <1>4, CatalogueStays DEF IInv, JobInv

LEMMA ObsRefusesKeeps ==
  ASSUME IInv, ObsRefuses \/ ObsRefusesLate
  PROVE  IInv'
<1>1. job.wire /\ UNCHANGED <<obs, events, linked, config, snapshot>> /\ DOMAIN job = Fields
  BY DEF ObsRefuses, ObsRefusesLate, catalogueVars, IInv, JobInv, Shaped
<1>2. /\ SameCommand(job, job') /\ job'.stage = "answered" /\ job'.wire = FALSE
      /\ job'.performed = job.performed /\ job'.told = job.told
      /\ \/ job.stage = "asked" /\ job'.result = "ObsRequestFailed"
         \/ job.stage = "answered" /\ job'.result = job.result
  <2>1. CASE ObsRefuses
    BY <1>1, <2>1 DEF ObsRefuses, Fields, SameCommand
  <2>2. CASE ObsRefusesLate
    BY <1>1, <2>2 DEF ObsRefusesLate, Fields, SameCommand
  <2> QED BY <2>1, <2>2
<1>3. ActsOnWhatWasNamed' /\ SaveKeepsTheRest' /\ Saves(job') /\ PayloadTyped(job'.payload)
  BY <1>2, SameCommandKeeps DEF IInv, NamingErrors
<1>4. Shaped(job') /\ Flows(job') /\ Told(job')
  BY <1>1, <1>2, <1>3 DEF IInv, JobInv, Shaped, Flows, Told, SameCommand
<1> QED BY <1>1, <1>3, <1>4, CatalogueStays DEF IInv, JobInv

LEMMA CommandLosesLinkKeeps ==
  ASSUME IInv, CommandLosesLink
  PROVE  IInv'
<1>1. LinkLost /\ DOMAIN job = Fields
  BY DEF CommandLosesLink, IInv, JobInv, Shaped
<1>2. CatalogueInv'
  BY <1>1, LinkLostKeeps DEF IInv
<1>3. job' = [job EXCEPT !.wire = FALSE,
                         !.stage  = IF job.stage = "asked" THEN "answered" ELSE job.stage,
                         !.result = IF job.stage = "asked" THEN "ConnectionFailed" ELSE job.result]
  BY DEF CommandLosesLink
<1>4. /\ SameCommand(job, job') /\ job'.wire = FALSE
      /\ job'.performed = job.performed /\ job'.told = job.told
      /\ \/ job.stage = "asked" /\ job'.stage = "answered" /\ job'.result = "ConnectionFailed"
         \/ job.stage # "asked" /\ job'.stage = job.stage /\ job'.result = job.result
  BY <1>1, <1>3 DEF Fields, SameCommand
<1>5. ActsOnWhatWasNamed' /\ SaveKeepsTheRest' /\ Saves(job') /\ PayloadTyped(job'.payload)
  BY <1>4, SameCommandKeeps DEF IInv, NamingErrors
<1>6. Shaped(job') /\ Flows(job') /\ Told(job')
  BY <1>4, <1>5 DEF IInv, JobInv, Shaped, Flows, Told, SameCommand
<1> QED BY <1>2, <1>5, <1>6 DEF IInv, JobInv

-----------------------------------------------------------------------------
(* What a command makes of a config.                                       *)

LEMMA ProfilesAre ==
  ASSUME NEW c, Sound(c)
  PROVE  /\ c.profiles \in Seq(Profile) /\ Len(c.profiles) \in Nat /\ DOMAIN c.profiles = 1 .. Len(c.profiles)
         /\ \A i \in DOMAIN c.profiles : /\ c.profiles[i] \in Profile /\ c.profiles[i].name \in Text
                                         /\ Usable(c.profiles[i].name) /\ c.profiles[i].name # None
<1>1. c.profiles \in Seq(Profile)
  BY DEF Sound, Config
<1>2. \A i \in DOMAIN c.profiles : c.profiles[i] \in Profile /\ Usable(c.profiles[i].name)
  BY <1>1, Elements DEF Sound, ProfilesAreSound
<1>3. \A i \in DOMAIN c.profiles : c.profiles[i].name \in Text
  BY <1>2 DEF Profile
<1>4. ~Usable(None)
  <2>1. Trim(<< >>) = << >>
    BY DEF Trim
  <2> QED BY <2>1 DEF None, Usable
<1> QED BY <1>1, <1>2, <1>3, <1>4, Elements

\* No two profiles have one name: at most one is found, and at most one is on.
LEMMA OneOfAName ==
  ASSUME NEW c, Sound(c), NEW target
  PROVE  /\ SceneProfileAt(c, target) \subseteq DOMAIN c.profiles
         /\ ActiveProfile(c) \subseteq DOMAIN c.profiles
         /\ \A i, j \in SceneProfileAt(c, target) : i = j
         /\ \A i, j \in ActiveProfile(c) : i = j
  BY DEF SceneProfileAt, ActiveProfile, Sound, ProfilesAreSound

\* One profile is put in the place of another.
LEMMA ReplacingIsSound ==
  ASSUME NEW c, Sound(c), NEW i \in DOMAIN c.profiles, NEW profile \in Profile, Usable(profile.name),
         \A k \in DOMAIN c.profiles \ {i} : NormalizedName(c.profiles[k].name) # NormalizedName(profile.name),
         NEW active \in Text
  PROVE  Sound([c EXCEPT !.profiles = [c.profiles EXCEPT ![i] = profile], !.active = active])
<1> DEFINE profiles == [c.profiles EXCEPT ![i] = profile]
           d == [c EXCEPT !.profiles = profiles, !.active = active]
<1>1. profiles \in Seq(Profile) /\ DOMAIN profiles = DOMAIN c.profiles
  BY ProfilesAre
<1>2. \A k \in DOMAIN c.profiles : profiles[k] = IF k = i THEN profile ELSE c.profiles[k]
  OBVIOUS
<1> HIDE DEF profiles
<1>3. ProfilesAreSound(profiles)
  BY <1>1, <1>2 DEF Sound, ProfilesAreSound
<1>4. d \in Config /\ d.profiles = profiles
  BY <1>1 DEF Sound, Config
<1> QED BY <1>3, <1>4 DEF Sound, profiles

\* A profile is added.
LEMMA AddingIsSound ==
  ASSUME NEW c, Sound(c), NEW profile \in Profile, Usable(profile.name),
         \A k \in DOMAIN c.profiles : NormalizedName(c.profiles[k].name) # NormalizedName(profile.name)
  PROVE  Sound([c EXCEPT !.profiles = Append(c.profiles, profile)])
<1> DEFINE profiles == Append(c.profiles, profile)
           n == Len(c.profiles)
           d == [c EXCEPT !.profiles = profiles]
<1>1. c.profiles \in Seq(Profile) /\ n \in Nat /\ DOMAIN c.profiles = 1 .. n
  BY ProfilesAre
<1>2. profiles \in Seq(Profile) /\ DOMAIN profiles = 1 .. n + 1
  BY <1>1
<1>3. \A k \in 1 .. n + 1 : profiles[k] = IF k = n + 1 THEN profile ELSE c.profiles[k]
  BY <1>1
<1> HIDE DEF profiles, n
<1>4. \A k \in 1 .. n + 1 : Usable(profiles[k].name)
  BY <1>1, <1>3 DEF Sound, ProfilesAreSound
<1>5. \A k, l \in 1 .. n : k # l => NormalizedName(profiles[k].name) # NormalizedName(profiles[l].name)
  BY <1>1, <1>3 DEF Sound, ProfilesAreSound
<1>6. \A k \in 1 .. n : NormalizedName(profiles[k].name) # NormalizedName(profiles[n + 1].name)
  BY <1>1, <1>3
<1>7. \A k, l \in 1 .. n + 1 : k # l => NormalizedName(profiles[k].name) # NormalizedName(profiles[l].name)
  BY <1>1, <1>5, <1>6
<1>8. d \in Config /\ d.profiles = profiles
  BY <1>2 DEF Sound, Config
<1> QED BY <1>2, <1>4, <1>7, <1>8 DEF Sound, ProfilesAreSound, profiles

\* A profile is taken away.
LEMMA RemovingIsSound ==
  ASSUME NEW c, Sound(c), NEW i \in DOMAIN c.profiles, NEW active \in Text
  PROVE  Sound([c EXCEPT !.profiles = RemoveAt(c.profiles, i), !.active = active])
<1> DEFINE profiles == RemoveAt(c.profiles, i)
           n == Len(c.profiles)
           d == [c EXCEPT !.profiles = profiles, !.active = active]
<1>1. c.profiles \in Seq(Profile) /\ n \in Nat /\ DOMAIN c.profiles = 1 .. n
  BY ProfilesAre
<1>2. /\ profiles \in Seq(Profile) /\ Len(profiles) = n - 1
      /\ \A k \in 1 .. n - 1 : profiles[k] = IF k < i THEN c.profiles[k] ELSE c.profiles[k + 1]
  BY <1>1, RemovalShortens
<1> HIDE DEF profiles, n
<1>3. DOMAIN profiles = 1 .. n - 1 /\ i \in 1 .. n
  BY <1>1, <1>2
<1>4. \A k \in 1 .. n - 1 : Usable(profiles[k].name)
  <2> TAKE k \in 1 .. n - 1
  <2>1. profiles[k] \in {c.profiles[k], c.profiles[k + 1]} /\ k \in 1 .. n /\ k + 1 \in 1 .. n
    BY <1>1, <1>2, <1>3
  <2> QED BY <1>1, <2>1 DEF Sound, ProfilesAreSound
<1>5. \A k, l \in 1 .. n - 1 : k # l => NormalizedName(profiles[k].name) # NormalizedName(profiles[l].name)
  <2> TAKE k, l \in 1 .. n - 1
  <2> HAVE k # l
  <2> DEFINE kk == IF k < i THEN k ELSE k + 1
             ll == IF l < i THEN l ELSE l + 1
  <2>1. kk \in 1 .. n /\ ll \in 1 .. n /\ kk # ll
    BY <1>1, <1>3
  <2>2. profiles[k] = c.profiles[kk] /\ profiles[l] = c.profiles[ll]
    BY <1>2
  <2> HIDE DEF kk, ll
  <2> QED BY <1>1, <2>1, <2>2 DEF Sound, ProfilesAreSound
<1>6. d \in Config /\ d.profiles = profiles
  BY <1>2 DEF Sound, Config
<1> QED BY <1>3, <1>4, <1>5, <1>6 DEF Sound, ProfilesAreSound, profiles

\* The profile a save gives.
GivenProfile(p) == [name |-> Trim(p.args.target), hidden |-> StringArray(p.args.hidden)]

LEMMA SavedProfileIs ==
  ASSUME NEW p, p.name = "save_scene_profile", WellFormed(p), PayloadTyped(p)
  PROVE  /\ GivenProfile(p) \in Profile /\ Usable(GivenProfile(p).name)
         /\ NormalizedName(GivenProfile(p).name) = NormalizedName(p.args.target)
<1>1. /\ "target" \in DOMAIN p.args /\ Usable(p.args.target) /\ "hidden" \in DOMAIN p.args
  BY DEF WellFormed, RequiredString, RequiredStringArray
<1>2. p.args.target \in Text /\ p.args.hidden \in Seq(Text)
  BY <1>1 DEF PayloadTyped
<1>3. Trim(p.args.target) \in Clean /\ NormalizedName(Trim(p.args.target)) = NormalizedName(p.args.target)
  BY <1>1, <1>2, TrimmedIsClean, NormalIsOfTrimmed
<1>4. StringArray(p.args.hidden) \subseteq Text
  <2>1. \A i \in DOMAIN p.args.hidden : p.args.hidden[i] \in Text
    BY <1>2, Elements
  <2>2. \A i \in DOMAIN p.args.hidden : Trim(p.args.hidden[i]) \in Text
    BY <2>1, Trimming
  <2> QED BY <2>2 DEF StringArray
<1> QED BY <1>3, <1>4 DEF GivenProfile, Profile, Clean

\* A save replaces the one profile it is about, or adds one where there is none.
Replaces(p, base, c, i) ==
  /\ i \in DOMAIN base.profiles
  /\ SceneProfileAt(base, p.args.target) \subseteq {i}
  /\ SceneProfileAt(base, p.args.target) \union Replacing(p, base) = {i}
  /\ \E active \in Text :
       /\ c = [base EXCEPT !.profiles = [base.profiles EXCEPT ![i] = GivenProfile(p)], !.active = active]
       /\ IF i \in ActiveProfile(base)
          THEN active # None /\ NormalizedName(active) = NormalizedName(p.args.target)
          ELSE active = base.active
Adds(p, base, c) ==
  /\ SceneProfileAt(base, p.args.target) = {} /\ Replacing(p, base) = {}
  /\ c = [base EXCEPT !.profiles = Append(base.profiles, GivenProfile(p))]

LEMMA SavedIs ==
  ASSUME NEW p, p.name = "save_scene_profile", WellFormed(p), PayloadTyped(p),
         NEW base, Sound(base), NEW c \in Saved(p, base)
  PROVE  (\E i : Replaces(p, base, c, i)) \/ Adds(p, base, c)
<1> DEFINE byName == SceneProfileAt(base, p.args.target)
           from   == Replacing(p, base)
           profile == GivenProfile(p)
<1>1. /\ byName \subseteq DOMAIN base.profiles /\ from \subseteq DOMAIN base.profiles
      /\ \A i, j \in byName : i = j
      /\ \A i, j \in from : i = j
  BY OneOfAName DEF Replacing
<1>2. profile.name \in Text /\ base.active \in Text /\ profile.name # None
      /\ NormalizedName(profile.name) = NormalizedName(p.args.target)
  <2>1. Trim(<< >>) = << >>
    BY DEF Trim
  <2>2. ~Usable(None)
    BY <2>1 DEF None, Usable
  <2> QED BY <2>2, SavedProfileIs DEF Profile, Sound, Config
<1>3. c \in (CASE from # {} -> {[base EXCEPT !.profiles[i] = profile,
                                           !.active = IF i \in ActiveProfile(base) THEN profile.name ELSE base.active] :
                                  i \in {i \in from : byName \subseteq {i}}}
               [] from = {} /\ byName # {} -> {[base EXCEPT !.profiles[i] = profile] : i \in byName}
               [] OTHER -> {[base EXCEPT !.profiles = Append(base.profiles, profile)]})
  BY DEF Saved, GivenProfile
<1>4. DOMAIN base = {"scenes", "inputs", "profiles", "active", "shutdown"} /\ base \in Config
  BY DEF Sound, Config
<1>5. \A i \in byName \cap ActiveProfile(base) :
        base.active # None /\ NormalizedName(base.active) = NormalizedName(p.args.target)
  BY DEF SceneProfileAt, ActiveProfile
<1> HIDE DEF byName, from, profile
<1>6. CASE from # {}
  <2>1. PICK i \in from : byName \subseteq {i} /\
          c = [base EXCEPT !.profiles[i] = profile,
                           !.active = IF i \in ActiveProfile(base) THEN profile.name ELSE base.active]
    BY <1>3, <1>6
  <2> DEFINE active == IF i \in ActiveProfile(base) THEN profile.name ELSE base.active
  <2>2. c = [base EXCEPT !.profiles = [base.profiles EXCEPT ![i] = profile], !.active = active]
    BY <2>1
  <2>3. /\ active \in Text
        /\ IF i \in ActiveProfile(base)
           THEN active # None /\ NormalizedName(active) = NormalizedName(p.args.target)
           ELSE active = base.active
    BY <1>2
  <2>4. byName \subseteq {i} /\ byName \union from = {i} /\ i \in DOMAIN base.profiles
    BY <1>1, <2>1
  <2> HIDE DEF active
  <2>5. Replaces(p, base, c, i)
    BY <2>2, <2>3, <2>4 DEF Replaces, byName, from, profile
  <2> QED BY <2>5
<1>7. CASE from = {} /\ byName # {}
  <2>1. PICK i \in byName : c = [base EXCEPT !.profiles[i] = profile]
    BY <1>3, <1>7
  <2>2. c = [base EXCEPT !.profiles = [base.profiles EXCEPT ![i] = profile], !.active = base.active]
    BY <1>4, <2>1 DEF Config
  <2>3. byName \subseteq {i} /\ byName \union from = {i} /\ i \in DOMAIN base.profiles
    BY <1>1, <1>7, <2>1
  <2>4. Replaces(p, base, c, i)
    BY <1>2, <1>5, <2>1, <2>2, <2>3 DEF Replaces, byName, from, profile
  <2> QED BY <2>4
<1>8. CASE from = {} /\ byName = {}
  <2>1. c = [base EXCEPT !.profiles = Append(base.profiles, profile)]
    BY <1>3, <1>8
  <2> QED BY <1>8, <2>1 DEF Adds, byName, from, profile
<1> QED BY <1>6, <1>7, <1>8

LEMMA ReplacedKeepsTheRest ==
  ASSUME NEW p, p.name = "save_scene_profile", WellFormed(p), PayloadTyped(p),
         NEW base, Sound(base), NEW c, NEW i, Replaces(p, base, c, i)
  PROVE  Sound(c) /\ KeepsTheRest(p, [from |-> base, to |-> c])
<1> DEFINE byName == SceneProfileAt(base, p.args.target)
           mine   == byName \union Replacing(p, base)
           profile == GivenProfile(p)
           loose  == NormalizedName(p.args.target)
           N(k)   == NormalizedName(base.profiles[k].name)
           on     == ActiveProfile(base)
<1>1. /\ i \in DOMAIN base.profiles /\ byName \subseteq {i} /\ mine = {i}
  BY DEF Replaces
<1>2. PICK active \in Text :
       /\ c = [base EXCEPT !.profiles = [base.profiles EXCEPT ![i] = profile], !.active = active]
       /\ IF i \in on THEN active # None /\ NormalizedName(active) = loose ELSE active = base.active
  BY DEF Replaces
<1>3. profile \in Profile /\ Usable(profile.name) /\ NormalizedName(profile.name) = loose
  BY SavedProfileIs
<1>4. \A k \in DOMAIN base.profiles \ {i} : N(k) # loose
  BY <1>1 DEF SceneProfileAt
<1>5. Sound(c)
  <2> HIDE DEF profile, loose, on
  <2> QED BY <1>1, <1>2, <1>3, <1>4, ReplacingIsSound
<1>6. base \in Config /\ Len(base.profiles) \in Nat /\ base.profiles \in Seq(Profile) /\ DOMAIN base.profiles = 1 .. Len(base.profiles)
  BY ProfilesAre DEF Sound
<1>7. /\ c.active = active /\ DOMAIN c.profiles = DOMAIN base.profiles /\ Len(c.profiles) = Len(base.profiles)
      /\ \A k \in DOMAIN base.profiles : c.profiles[k] = IF k = i THEN profile ELSE base.profiles[k]
  BY <1>2, <1>6 DEF Config
<1>8. SceneProfileAt(c, p.args.target) = {i}
  BY <1>1, <1>3, <1>4, <1>7 DEF SceneProfileAt
<1>9. HasSaved(c, p)
  BY <1>1, <1>7, <1>8 DEF HasSaved, GivenProfile
<1>10. \A k \in DOMAIN base.profiles \ mine : base.profiles[k] \in ToSet(c.profiles)
  BY <1>1, <1>7 DEF ToSet
<1>11. \A k \in DOMAIN base.profiles : k \in on <=> base.active # None /\ N(k) = NormalizedName(base.active)
  BY DEF ActiveProfile
<1>12. \A k \in DOMAIN base.profiles : k \in ActiveProfile(c) <=>
         active # None /\ (IF k = i THEN loose ELSE N(k)) = NormalizedName(active)
  BY <1>1, <1>3, <1>7 DEF ActiveProfile
<1>13. ActiveProfile(c) \subseteq DOMAIN base.profiles /\ on \subseteq DOMAIN base.profiles
  BY <1>7 DEF ActiveProfile
<1>14. IsOn(c, p.args.target) <=> i \in ActiveProfile(c)
  BY <1>8 DEF IsOn
<1>15. Dangles(base, p.args.target) <=> base.active # None /\ NormalizedName(base.active) = loose /\ on = {}
  BY DEF Dangles
<1> HIDE DEF byName, mine, profile, loose, N, on
<1>16. CASE i \in on
  <2>1. i \in ActiveProfile(c) /\ on \cap mine # {} /\ ActiveProfile(c) # {} /\ on # {}
    BY <1>1, <1>2, <1>12, <1>16
  <2>2. IsOn(c, p.args.target) <=> on \cap mine # {} \/ Dangles(base, p.args.target)
    BY <1>14, <2>1
  <2>3. ActiveProfile(c) = {} <=> on = {} /\ ~Dangles(base, p.args.target)
    BY <2>1
  <2> QED BY <1>5, <1>7, <1>9, <1>10, <1>6, <2>2, <2>3 DEF KeepsTheRest, mine, byName, on
<1>17. CASE i \notin on
  <2>1. active = base.active /\ on \cap mine = {}
    BY <1>1, <1>2, <1>17
  <2>2. \A k \in DOMAIN base.profiles \ {i} : k \in ActiveProfile(c) <=> k \in on
    BY <1>11, <1>12, <2>1
  <2>3. i \in ActiveProfile(c) <=> base.active # None /\ NormalizedName(base.active) = loose
    BY <1>1, <1>12, <2>1
  <2>4. i \in ActiveProfile(c) => on = {}
    BY <1>4, <1>11, <1>13, <1>17, <2>3
  <2>5. IsOn(c, p.args.target) <=> on \cap mine # {} \/ Dangles(base, p.args.target)
    BY <1>14, <1>15, <2>1, <2>3, <2>4
  <2>6. ActiveProfile(c) = {} <=> on = {} /\ ~Dangles(base, p.args.target)
    BY <1>13, <1>15, <1>17, <2>2, <2>3, <2>4, <1>1
  <2> QED BY <1>5, <1>7, <1>9, <1>10, <1>6, <2>5, <2>6 DEF KeepsTheRest, mine, byName, on
<1> QED BY <1>16, <1>17

LEMMA AddedKeepsTheRest ==
  ASSUME NEW p, p.name = "save_scene_profile", WellFormed(p), PayloadTyped(p),
         NEW base, Sound(base), NEW c, Adds(p, base, c)
  PROVE  Sound(c) /\ KeepsTheRest(p, [from |-> base, to |-> c])
<1> DEFINE mine   == SceneProfileAt(base, p.args.target) \union Replacing(p, base)
           profile == GivenProfile(p)
           loose  == NormalizedName(p.args.target)
           N(k)   == NormalizedName(base.profiles[k].name)
           on     == ActiveProfile(base)
           n      == Len(base.profiles)
<1>1. mine = {} /\ SceneProfileAt(base, p.args.target) = {} /\ c = [base EXCEPT !.profiles = Append(base.profiles, profile)]
  BY DEF Adds
<1>2. profile \in Profile /\ Usable(profile.name) /\ NormalizedName(profile.name) = loose
  BY SavedProfileIs
<1>3. \A k \in DOMAIN base.profiles : N(k) # loose
  BY <1>1 DEF SceneProfileAt
<1>4. Sound(c)
  <2> HIDE DEF profile, loose
  <2> QED BY <1>1, <1>2, <1>3, AddingIsSound
<1>5. base \in Config /\ n \in Nat /\ base.profiles \in Seq(Profile) /\ DOMAIN base.profiles = 1 .. n
  BY ProfilesAre DEF Sound
<1>6. /\ c.active = base.active /\ c.profiles = Append(base.profiles, profile)
  BY <1>1, <1>5 DEF Config
<1>7. /\ DOMAIN c.profiles = 1 .. n + 1 /\ Len(c.profiles) = n + 1
      /\ \A k \in 1 .. n : c.profiles[k] = base.profiles[k]
      /\ c.profiles[n + 1] = profile
  BY <1>2, <1>5, <1>6
<1> HIDE DEF n
<1>8. SceneProfileAt(c, p.args.target) = {n + 1}
  BY <1>2, <1>3, <1>5, <1>7 DEF SceneProfileAt
<1>9. HasSaved(c, p)
  BY <1>7, <1>8 DEF HasSaved, GivenProfile
<1>10. \A k \in DOMAIN base.profiles \ mine : base.profiles[k] \in ToSet(c.profiles)
  BY <1>5, <1>7 DEF ToSet
<1>11. \A k \in 1 .. n : k \in on <=> base.active # None /\ N(k) = NormalizedName(base.active)
  BY <1>5 DEF ActiveProfile
<1>12. \A k \in 1 .. n : k \in ActiveProfile(c) <=> k \in on
  BY <1>5, <1>6, <1>7 DEF ActiveProfile
<1>13. n + 1 \in ActiveProfile(c) <=> base.active # None /\ NormalizedName(base.active) = loose
  BY <1>2, <1>5, <1>6, <1>7 DEF ActiveProfile
<1>14. ActiveProfile(c) \subseteq 1 .. n + 1 /\ on \subseteq 1 .. n
  BY <1>5, <1>7 DEF ActiveProfile
<1>15. IsOn(c, p.args.target) <=> n + 1 \in ActiveProfile(c)
  BY <1>8 DEF IsOn
<1>16. Dangles(base, p.args.target) <=> base.active # None /\ NormalizedName(base.active) = loose /\ on = {}
  BY DEF Dangles
<1>20. n + 1 \in ActiveProfile(c) => on = {}
  BY <1>3, <1>5, <1>11, <1>13, <1>14
<1>21. \A k \in 1 .. n + 1 : k \in 1 .. n \/ k = n + 1
  BY <1>5
<1> HIDE DEF mine, profile, loose, N, on
<1>17. IsOn(c, p.args.target) <=> on \cap mine # {} \/ Dangles(base, p.args.target)
  BY <1>1, <1>13, <1>15, <1>16, <1>20
<1>18. ActiveProfile(c) = {} <=> on = {} /\ ~Dangles(base, p.args.target)
  BY <1>12, <1>13, <1>14, <1>16, <1>20, <1>21
<1>19. Len(c.profiles) <= Len(base.profiles) + 1
  BY <1>5, <1>7 DEF n
<1> QED BY <1>4, <1>9, <1>10, <1>17, <1>18, <1>19 DEF KeepsTheRest, mine, on

LEMMA EditedIsSound ==
  ASSUME NEW p, p.name \in ProfileCommands, WellFormed(p), PayloadTyped(p),
         NEW base, Sound(base), NEW c \in Edited(p, base)
  PROVE  /\ Sound(c)
         /\ p.name = "save_scene_profile" => KeepsTheRest(p, [from |-> base, to |-> c])
         /\ p.name = "set_scene_profile" => IsOn(c, p.args.target)
<1> DEFINE at == SceneProfileAt(base, p.args.target)
<1>1. at \subseteq DOMAIN base.profiles
  BY OneOfAName
<1>2. base \in Config /\ base.active \in Text /\ None \in Text
  BY DEF Sound, Config, None, Text
<1>3. CASE p.name = "save_scene_profile"
  <2>1. c \in Saved(p, base)
    BY <1>3 DEF Edited
  <2> QED BY <1>3, <2>1, SavedIs, ReplacedKeepsTheRest, AddedKeepsTheRest
<1>4. CASE p.name = "set_scene_profile"
  <2>1. PICK i \in at : c = [base EXCEPT !.active = base.profiles[i].name]
    BY <1>4 DEF Edited
  <2>2. i \in DOMAIN base.profiles /\ base.profiles[i].name \in Text /\ base.profiles[i].name # None
    BY <1>1, <2>1, ProfilesAre
  <2>3. c \in Config /\ c.profiles = base.profiles /\ c.active = base.profiles[i].name
    BY <1>2, <2>1, <2>2 DEF Config
  <2>4. i \in SceneProfileAt(c, p.args.target) /\ i \in ActiveProfile(c)
    BY <2>1, <2>2, <2>3 DEF SceneProfileAt, ActiveProfile
  <2> QED BY <1>4, <2>3, <2>4 DEF Sound, IsOn
<1>5. CASE p.name = "clear_scene_profile"
  <2>1. c = [base EXCEPT !.active = None]
    BY <1>5 DEF Edited
  <2>2. c \in Config /\ c.profiles = base.profiles
    BY <1>2, <2>1 DEF Config
  <2> QED BY <1>5, <2>2 DEF Sound
<1>6. CASE p.name = "delete_scene_profile"
  <2>1. PICK i \in at : c = Deleted(base, i)
    BY <1>6 DEF Edited
  <2>2. PICK active \in Text : c = [base EXCEPT !.profiles = RemoveAt(base.profiles, i), !.active = active]
    BY <1>2, <2>1 DEF Deleted
  <2>3. i \in DOMAIN base.profiles
    BY <1>1, <2>1
  <2>4. Sound(c)
    BY <2>2, <2>3, RemovingIsSound
  <2> QED BY <1>6, <2>4
<1> QED BY <1>3, <1>4, <1>5, <1>6 DEF ProfileCommands

LEMMA HandleSceneProfileKeeps ==
  ASSUME IInv, HandleSceneProfile
  PROVE  IInv'
<1> DEFINE p == job.payload
           off == p.name \in {"clear_scene_profile", "delete_scene_profile"}
<1>1. /\ job.stage = "sent" /\ p.name \in ProfileCommands /\ WellFormed(p)
      /\ UNCHANGED <<obs, events, linked>>
  BY DEF HandleSceneProfile, Handling
<1>2. PICK base \in Configs \union {config} :
       \/ \E c \in Edited(p, base) :
            /\ Hold(c)
            /\ job' = IF off
                      THEN [job EXCEPT !.stage = "answered", !.performed = TRUE]
                      ELSE [job EXCEPT !.stage = "counting", !.performed = TRUE,
                                       !.reply = {Reply(p, base, c)},
                                       !.edits = job.edits \union {[from |-> base, to |-> c]}]
       \/ Answer("ConfigInvalid") /\ UNCHANGED <<config, snapshot>>
  BY DEF HandleSceneProfile
<1>3. Sound(base)
  BY CatalogueAssumption DEF IInv, CatalogueInv, Sound, Validated
<1>4. CASE Answer("ConfigInvalid") /\ UNCHANGED <<config, snapshot>>
  BY <1>1, <1>4, AnsweredOutright, CatalogueStays DEF IInv, NamingErrors
<1>5. CASE \E c \in Edited(p, base) :
            /\ Hold(c)
            /\ job' = IF off
                      THEN [job EXCEPT !.stage = "answered", !.performed = TRUE]
                      ELSE [job EXCEPT !.stage = "counting", !.performed = TRUE,
                                       !.reply = {Reply(p, base, c)},
                                       !.edits = job.edits \union {[from |-> base, to |-> c]}]
  <2>1. PICK c \in Edited(p, base) :
            /\ Hold(c)
            /\ job' = IF off
                      THEN [job EXCEPT !.stage = "answered", !.performed = TRUE]
                      ELSE [job EXCEPT !.stage = "counting", !.performed = TRUE,
                                       !.reply = {Reply(p, base, c)},
                                       !.edits = job.edits \union {[from |-> base, to |-> c]}]
    BY <1>5
  <2> DEFINE edit == [from |-> base, to |-> c]
             reply == Reply(p, base, c)
  <2>2. /\ DOMAIN job = Fields /\ ~job.wire /\ job.wire \in BOOLEAN /\ job.table = << >> /\ job.reply = {}
        /\ job.result = "ok" /\ PayloadTyped(p)
        /\ 0 \notin job.told /\ job.told \cap {1, 2, 3, 5} = {}
    BY <1>1 DEF IInv, JobInv, Flows, Shaped, Told
  <2>3. /\ Sound(c)
        /\ p.name = "save_scene_profile" => KeepsTheRest(p, edit)
        /\ p.name = "set_scene_profile" => IsOn(c, p.args.target)
    BY <1>1, <1>3, <2>2, EditedIsSound
  <2>4. CatalogueInv'
    BY <1>1, <2>1, <2>3, HoldKeeps DEF IInv
  <2>5. /\ DOMAIN reply = ReplyFields /\ reply.gone = {}
        /\ reply.active <=> IsOn(c, p.args.target)
    BY DEF Reply, ReplyFields, IsOn
  <2>6. edit.to = c
    OBVIOUS
  <2> HIDE DEF edit, reply
  <2>7. CASE off
    <3>1. job' = [job EXCEPT !.stage = "answered", !.performed = TRUE]
      BY <2>1, <2>7
    <3>2. /\ DOMAIN job' = Fields /\ job'.payload = p /\ job'.table = << >> /\ job'.reply = {}
          /\ job'.saved = job.saved /\ job'.stage = "answered" /\ job'.result = "ok" /\ job'.performed = TRUE
          /\ job'.wire = job.wire /\ job'.told = job.told
      BY <2>2, <3>1 DEF Fields
    <3>3. ActsOnWhatWasNamed'
      BY <3>2 DEF ActsOnWhatWasNamed
    <3>4. SaveKeepsTheRest'
      BY <2>7, <3>2, OfTheNextJob
    <3>5. job.saved = {}
      BY <2>7 DEF IInv, JobInv, Saves
    <3>6. Shaped(job') /\ Flows(job') /\ Told(job') /\ Saves(job')
      BY <2>2, <2>7, <3>2, <3>5 DEF Shaped, Flows, Told, Saves
    <3> QED BY <2>4, <3>3, <3>4, <3>6 DEF IInv, JobInv
  <2>8. CASE ~off
    <3>1. job' = [job EXCEPT !.stage = "counting", !.performed = TRUE,
                             !.reply = {reply}, !.edits = job.edits \union {edit}]
      BY <2>1, <2>8 DEF edit, reply
    <3>2. /\ DOMAIN job' = Fields /\ job'.payload = p /\ job'.table = << >> /\ job'.reply = {reply}
          /\ job'.saved = job.saved /\ job'.stage = "counting" /\ job'.result = "ok" /\ job'.performed = TRUE
          /\ job'.wire = job.wire /\ job'.told = job.told /\ job'.edits = job.edits \union {edit}
      BY <2>2, <3>1 DEF Fields
    <3>3. p.name \in {"set_scene_profile", "save_scene_profile"}
      BY <1>1, <2>8 DEF ProfileCommands
    <3>4. ActsOnWhatWasNamed'
      BY <3>2 DEF ActsOnWhatWasNamed
    <3>5. SaveKeepsTheRest'
      <4>1. SaveKeepsTheRest
        BY DEF IInv
      <4> HIDE DEF p
      <4>2. job'.payload.name = "save_scene_profile" => \A e \in job'.edits : KeepsTheRest(job'.payload, e)
        BY <2>3, <3>2, <4>1, OfTheJob DEF p
      <4> QED BY <4>2, OfTheNextJob
    <3>6. Shaped(job') /\ Flows(job') /\ Told(job')
      BY <2>2, <3>2, <3>3 DEF Shaped, Flows, Told
    <3>7. Saves(job')
      <4>1. \A r \in job'.reply : DOMAIN r = ReplyFields /\ r.gone \subseteq {r.hidden}
        BY <2>5, <3>2
      <4>2. job'.payload.name = "save_scene_profile" =>
              /\ job'.saved = {}
              /\ \E e \in job'.edits : IsOn(e.to, job'.payload.args.target) <=> \E r \in job'.reply : r.active
        BY <2>5, <2>6, <3>2 DEF IInv, JobInv, Saves
      <4>3. job'.saved # {} =>
              /\ job'.payload.name = "set_scene_profile"
              /\ \E e \in job'.edits : SceneProfileAt(e.to, job'.payload.args.target) # {}
              /\ \E e \in job'.edits : IsOn(e.to, job'.payload.args.target)
        BY <2>3, <2>6, <3>2 DEF IInv, JobInv, Saves
      <4> QED BY <4>1, <4>2, <4>3 DEF Saves
    <3> QED BY <2>4, <3>4, <3>5, <3>6, <3>7 DEF IInv, JobInv
  <2> QED BY <2>7, <2>8
<1> QED BY <1>2, <1>4, <1>5

LEMMA OneProfileHides ==
  ASSUME NEW baseline, NEW profiles, NEW i
  PROVE  Visibility(baseline, profiles, {i}) = {NormalizedName(n) : n \in {n \in profiles[i].hidden : Usable(n)}}
<1>1. UNION {profiles[k].hidden : k \in {i}} = profiles[i].hidden
  OBVIOUS
<1>2. {i} # {}
  OBVIOUS
<1> QED BY <1>1, <1>2 DEF Visibility

\* The count in the reply is of the rows that go.
LEMMA CountIsTrue ==
  ASSUME CatalogueInv, NEW listed, snapshot.scenes # << >>,
         NEW i \in ActiveProfile(config), config.profiles[i].hidden = listed
  PROVE  Cardinality({k \in DOMAIN snapshot.scenes : snapshot.scenes[k].hidden}) = ScenesHiddenBy(snapshot, listed)
<1> DEFINE one == Visibility({}, << [hidden |-> listed] >>, {1})
<1>1. ActiveProfile(config) = {i}
  BY OneOfAName DEF CatalogueInv
<1>2. SceneVisibility(config) = one
  <2>1. << [hidden |-> listed] >>[1].hidden = listed
    OBVIOUS
  <2>2. one = {NormalizedName(n) : n \in {n \in listed : Usable(n)}}
    BY <2>1, OneProfileHides
  <2>3. SceneVisibility(config) = {NormalizedName(n) : n \in {n \in listed : Usable(n)}}
    BY <1>1, OneProfileHides DEF SceneVisibility
  <2> QED BY <2>2, <2>3
<1>3. ScenesHiddenBy(snapshot, listed)
        = Cardinality({k \in DOMAIN snapshot.scenes : IsHidden(one, snapshot.scenes[k].name)})
  BY DEF ScenesHiddenBy
<1> HIDE DEF one
<1>4. \A k \in DOMAIN snapshot.scenes : snapshot.scenes[k].hidden = IsHidden(one, snapshot.scenes[k].name)
  BY <1>2 DEF CatalogueInv, HidesAs
<1>5. {k \in DOMAIN snapshot.scenes : snapshot.scenes[k].hidden}
        = {k \in DOMAIN snapshot.scenes : IsHidden(one, snapshot.scenes[k].name)}
  BY <1>4
<1> QED BY <1>3, <1>5

LEMMA CountHiddenKeeps ==
  ASSUME IInv, CountHidden
  PROVE  IInv'
<1> DEFINE InEffect(r) == \E i \in ActiveProfile(config) : config.profiles[i].hidden = r.listed
           gone == Cardinality({i \in DOMAIN snapshot.scenes : snapshot.scenes[i].hidden})
           Goes(r) == IF InEffect(r) /\ snapshot.scenes # << >> THEN {gone} ELSE {}
           Counted(r) == [r EXCEPT !.hidden = ScenesHiddenBy(snapshot, r.listed), !.gone = Goes(r)]
           reply == {Counted(r) : r \in job.reply}
           p == job.payload
<1>1. /\ job.stage = "counting" /\ UNCHANGED <<obs, events, linked, config, snapshot>>
      /\ job' = [job EXCEPT !.stage = "answered", !.result = "ok", !.reply = reply]
  BY DEF CountHidden, catalogueVars
<1>2. /\ DOMAIN job = Fields /\ ~job.wire /\ job.performed /\ job.result = "ok" /\ PayloadTyped(p)
      /\ p.name \in {"set_scene_profile", "save_scene_profile"}
      /\ 0 \notin job.told /\ job.told \cap {1, 2, 3, 5} = {}
      /\ job.wire \in BOOLEAN /\ job.performed \in BOOLEAN
  BY <1>1 DEF IInv, JobInv, Flows, Shaped, Told
<1>3. \A r \in job.reply : DOMAIN r = ReplyFields
  BY <1>2 DEF IInv, JobInv, Saves
<1>4. \A r \in job.reply : Goes(r) \subseteq {ScenesHiddenBy(snapshot, r.listed)}
  BY CountIsTrue DEF IInv
<1> HIDE DEF Goes
<1>5. \A r \in job.reply : /\ DOMAIN Counted(r) = ReplyFields /\ Counted(r).active = r.active
                           /\ Counted(r).gone = Goes(r) /\ Counted(r).hidden = ScenesHiddenBy(snapshot, r.listed)
  BY <1>3 DEF ReplyFields
<1> HIDE DEF Counted
<1>6. \A r \in reply : DOMAIN r = ReplyFields /\ r.gone \subseteq {r.hidden}
  BY <1>4, <1>5
<1>7. (\E r \in reply : r.active) <=> (\E r \in job.reply : r.active)
  BY <1>5
<1> HIDE DEF reply
<1>8. /\ DOMAIN job' = Fields /\ job'.payload = p /\ job'.table = job.table /\ job'.request = job.request
      /\ job'.edits = job.edits /\ job'.saved = job.saved /\ job'.told = job.told /\ job'.reply = reply
      /\ job'.stage = "answered" /\ job'.result = "ok" /\ job'.performed = job.performed /\ job'.wire = job.wire
  BY <1>1, <1>2 DEF Fields
<1>9. ActsOnWhatWasNamed'
  BY <1>2, <1>8, OfTheJob, OfTheNextJob DEF IInv
<1>10. SaveKeepsTheRest'
  BY <1>8, OfTheJob, OfTheNextJob DEF IInv
<1>11. Shaped(job') /\ Flows(job') /\ Told(job')
  BY <1>2, <1>8 DEF Shaped, Flows, Told
<1>12. Saves(job')
  BY <1>2, <1>6, <1>7, <1>8 DEF IInv, JobInv, Saves
<1> QED BY <1>1, <1>9, <1>10, <1>11, <1>12, CatalogueStays DEF IInv, JobInv

-----------------------------------------------------------------------------
(* The queue of events tells of the latest state of OBS.                   *)

Switched    == {"CurrentProgramSceneChanged"}
SceneEvents == Switched \cup SceneListEvents

\* No event after the i-th, none at all, is of these types.
Latest(q, i, types) == \A j \in DOMAIN q : j > i => q[j].type \notin types
Without(q, types) == \A j \in DOMAIN q : q[j].type \notin types

\* The last event of a kind carries what OBS has.
QueueTells(o, q) ==
  \A i \in DOMAIN q :
    /\ q[i].type \in Switched /\ Latest(q, i, SceneEvents) => q[i].name = o.current
    /\ q[i].type = "StreamStateChanged" /\ Latest(q, i, {"StreamStateChanged"}) => q[i].value = o.streaming
    /\ q[i].type = "RecordStateChanged" /\ Latest(q, i, {"RecordStateChanged"}) => q[i].value = o.recording
    /\ \A kind \in Selections :
         q[i].type = SelectionEvent[kind] /\ Latest(q, i, {SelectionEvent[kind]}) =>
           q[i].name = o.selection[kind].current

\* OBS changes from o to n, and e is the event it sends.
Tells(o, e, n) ==
  /\ e.type \in Switched => e.name = n.current
  /\ n.current # o.current => e.type \in SceneEvents
  /\ n.scenes # o.scenes => e.type \in SceneListEvents
  /\ e.type = "StreamStateChanged" => e.value = n.streaming
  /\ n.streaming # o.streaming => e.type = "StreamStateChanged"
  /\ e.type = "RecordStateChanged" => e.value = n.recording
  /\ n.recording # o.recording => e.type = "RecordStateChanged"
  /\ \A kind \in Selections :
       /\ e.type = SelectionEvent[kind] => e.name = n.selection[kind].current
       /\ n.selection[kind].current # o.selection[kind].current => e.type = SelectionEvent[kind]
       /\ n.selection[kind].names # o.selection[kind].names => e.type = ListEvent[kind]

LEMMA TailOf ==
  ASSUME NEW S, NEW q \in Seq(S), q # << >>
  PROVE  /\ Head(q) = q[1] /\ 1 \in DOMAIN q
         /\ \A i \in DOMAIN Tail(q) : i \in Nat /\ i >= 1 /\ i + 1 \in DOMAIN q /\ Tail(q)[i] = q[i + 1]
         /\ \A j \in DOMAIN q : j \in Nat /\ (j = 1 \/ (j > 1 /\ j - 1 \in DOMAIN Tail(q) /\ q[j] = Tail(q)[j - 1]))
<1>1. Len(q) \in Nat /\ Len(q) > 0 /\ DOMAIN q = 1 .. Len(q) /\ Head(q) = q[1]
  OBVIOUS
<1>2. Tail(q) \in Seq(S) /\ Len(Tail(q)) = Len(q) - 1 /\ \A i \in 1 .. Len(Tail(q)) : Tail(q)[i] = q[i + 1]
  BY HeadTailProperties
<1>3. DOMAIN Tail(q) = 1 .. Len(q) - 1
  BY <1>2
<1>4. \A i \in DOMAIN Tail(q) : i \in Nat /\ i >= 1 /\ i + 1 \in DOMAIN q /\ Tail(q)[i] = q[i + 1]
  BY <1>1, <1>2, <1>3
<1>5. ASSUME NEW j \in DOMAIN q, j # 1
      PROVE  j \in Nat /\ j > 1 /\ j - 1 \in DOMAIN Tail(q) /\ q[j] = Tail(q)[j - 1]
  <2>1. j \in Nat /\ j > 1 /\ j - 1 \in DOMAIN Tail(q) /\ (j - 1) + 1 = j
    BY <1>1, <1>3, <1>5
  <2> QED BY <1>4, <2>1
<1>6. 1 \in DOMAIN q /\ \A j \in DOMAIN q : j \in Nat
  BY <1>1
<1>7. \A j \in DOMAIN q : j \in Nat /\ (j = 1 \/ (j > 1 /\ j - 1 \in DOMAIN Tail(q) /\ q[j] = Tail(q)[j - 1]))
  <2> HIDE DEF Tail
  <2> QED BY <1>5, <1>6
<1>8. Head(q) = q[1] /\ 1 \in DOMAIN q
  BY <1>1, <1>6
<1> QED BY ONLY <1>4, <1>7, <1>8

LEMMA AppendOf ==
  ASSUME NEW S, NEW q \in Seq(S), NEW e \in S
  PROVE  LET longer == Append(q, e)  n == Len(q) + 1
         IN /\ DOMAIN longer = DOMAIN q \cup {n} /\ longer[n] = e /\ n \notin DOMAIN q
            /\ \A i \in DOMAIN q : longer[i] = q[i] /\ n > i /\ i \in Nat
            /\ \A i \in DOMAIN longer : ~(i > n)
  OBVIOUS

LEMMA LatestInTail ==
  ASSUME NEW S, NEW q \in Seq(S), q # << >>, NEW types
  PROVE  /\ \A i \in DOMAIN Tail(q) : Latest(Tail(q), i, types) <=> Latest(q, i + 1, types)
         /\ Without(Tail(q), types) <=> Latest(q, 1, types)
         /\ Without(q, types) <=> q[1].type \notin types /\ Without(Tail(q), types)
<1>1. ASSUME NEW i \in DOMAIN Tail(q), Latest(Tail(q), i, types) PROVE Latest(q, i + 1, types)
  <2> SUFFICES ASSUME NEW j \in DOMAIN q, j > i + 1 PROVE q[j].type \notin types
    BY DEF Latest
  <2>1. i \in Nat /\ i >= 1
    BY TailOf
  <2>2. j \in Nat /\ j > 1 /\ j - 1 \in DOMAIN Tail(q) /\ q[j] = Tail(q)[j - 1] /\ j - 1 > i
    <3>1. j \in Nat /\ j # 1
      BY <2>1, TailOf
    <3> QED BY <2>1, <3>1, TailOf
  <2> QED BY <1>1, <2>2 DEF Latest
<1>2. ASSUME NEW i \in DOMAIN Tail(q), Latest(q, i + 1, types) PROVE Latest(Tail(q), i, types)
  BY <1>2, TailOf DEF Latest
<1>3. Without(Tail(q), types) <=> Latest(q, 1, types)
  <2>1. ASSUME Without(Tail(q), types), NEW j \in DOMAIN q, j > 1 PROVE q[j].type \notin types
    <3>1. j - 1 \in DOMAIN Tail(q) /\ q[j] = Tail(q)[j - 1]
      BY <2>1, TailOf
    <3> QED BY <2>1, <3>1 DEF Without
  <2>2. ASSUME Latest(q, 1, types), NEW i \in DOMAIN Tail(q) PROVE Tail(q)[i].type \notin types
    <3>1. i + 1 \in DOMAIN q /\ i + 1 > 1 /\ Tail(q)[i] = q[i + 1]
      BY TailOf
    <3> QED BY <2>2, <3>1 DEF Latest
  <2> QED BY <2>1, <2>2 DEF Latest, Without
<1>4. Without(q, types) <=> q[1].type \notin types /\ Latest(q, 1, types)
  <2>1. 1 \in DOMAIN q /\ \A j \in DOMAIN q : j = 1 \/ j > 1
    BY TailOf
  <2> QED BY <2>1 DEF Without, Latest
<1> QED BY <1>1, <1>2, <1>3, <1>4

LEMMA LatestInAppend ==
  ASSUME NEW S, NEW q \in Seq(S), NEW e \in S, NEW types
  PROVE  /\ \A i \in DOMAIN q : Latest(Append(q, e), i, types) <=> Latest(q, i, types) /\ e.type \notin types
         /\ Latest(Append(q, e), Len(q) + 1, types)
         /\ Without(Append(q, e), types) <=> Without(q, types) /\ e.type \notin types
<1>1. \A i \in DOMAIN q : Latest(Append(q, e), i, types) <=> Latest(q, i, types) /\ e.type \notin types
  BY AppendOf DEF Latest
<1>2. Latest(Append(q, e), Len(q) + 1, types)
  BY AppendOf DEF Latest
<1>3. Without(Append(q, e), types) <=> Without(q, types) /\ e.type \notin types
  BY AppendOf DEF Without
<1> QED BY <1>1, <1>2, <1>3

LEMMA QueueTailTells ==
  ASSUME NEW o, NEW q \in Seq(Events), q # << >>, QueueTells(o, q)
  PROVE  QueueTells(o, Tail(q))
<1> SUFFICES ASSUME NEW i \in DOMAIN Tail(q)
             PROVE  LET t == Tail(q)[i]
                    IN /\ t.type \in Switched /\ Latest(Tail(q), i, SceneEvents) => t.name = o.current
                       /\ t.type = "StreamStateChanged" /\ Latest(Tail(q), i, {"StreamStateChanged"})
                            => t.value = o.streaming
                       /\ t.type = "RecordStateChanged" /\ Latest(Tail(q), i, {"RecordStateChanged"})
                            => t.value = o.recording
                       /\ \A kind \in Selections :
                            t.type = SelectionEvent[kind] /\ Latest(Tail(q), i, {SelectionEvent[kind]}) =>
                              t.name = o.selection[kind].current
  BY DEF QueueTells
<1>1. i + 1 \in DOMAIN q /\ Tail(q)[i] = q[i + 1]
  BY TailOf
<1>2. \A types : Latest(Tail(q), i, types) => Latest(q, i + 1, types)
  BY LatestInTail
<1> QED BY <1>1, <1>2 DEF QueueTells

LEMMA QueueAppendTells ==
  ASSUME NEW o, NEW n, NEW q \in Seq(Events), NEW e \in Events, QueueTells(o, q), Tells(o, e, n)
  PROVE  QueueTells(n, Append(q, e))
<1> DEFINE longer == Append(q, e)
<1> SUFFICES ASSUME NEW i \in DOMAIN longer
             PROVE  LET t == longer[i]
                    IN /\ t.type \in Switched /\ Latest(longer, i, SceneEvents) => t.name = n.current
                       /\ t.type = "StreamStateChanged" /\ Latest(longer, i, {"StreamStateChanged"})
                            => t.value = n.streaming
                       /\ t.type = "RecordStateChanged" /\ Latest(longer, i, {"RecordStateChanged"})
                            => t.value = n.recording
                       /\ \A kind \in Selections :
                            t.type = SelectionEvent[kind] /\ Latest(longer, i, {SelectionEvent[kind]}) =>
                              t.name = n.selection[kind].current
  BY DEF QueueTells
<1>1. CASE i \in DOMAIN q
  <2>1. longer[i] = q[i]
    BY <1>1, AppendOf
  <2>2. \A types : Latest(longer, i, types) => Latest(q, i, types) /\ e.type \notin types
    BY <1>1, LatestInAppend
  <2> HIDE DEF longer
  <2>3. \A types : e.type \in types \/ e.type \notin types
    OBVIOUS
  <2>4. longer[i].type \in Switched /\ Latest(longer, i, SceneEvents) => longer[i].name = n.current
    BY <1>1, <2>1, <2>2 DEF QueueTells, Tells
  <2>5. longer[i].type = "StreamStateChanged" /\ Latest(longer, i, {"StreamStateChanged"})
          => longer[i].value = n.streaming
    BY <1>1, <2>1, <2>2 DEF QueueTells, Tells
  <2>6. longer[i].type = "RecordStateChanged" /\ Latest(longer, i, {"RecordStateChanged"})
          => longer[i].value = n.recording
    BY <1>1, <2>1, <2>2 DEF QueueTells, Tells
  <2>7. ASSUME NEW kind \in Selections, longer[i].type = SelectionEvent[kind],
               Latest(longer, i, {SelectionEvent[kind]})
        PROVE  longer[i].name = n.selection[kind].current
    BY <1>1, <2>1, <2>2, <2>7 DEF QueueTells, Tells
  <2> QED BY <2>4, <2>5, <2>6, <2>7
<1>2. CASE i = Len(q) + 1
  <2>1. longer[i] = e
    BY <1>2, AppendOf
  <2> QED BY <2>1 DEF Tells
<1> QED BY <1>1, <1>2, AppendOf

-----------------------------------------------------------------------------
(* Folding an event in, kind by kind.                                      *)

Folded(snap, raw) ==
  LET decoded == TranslateEvent(raw)
  IN IF decoded = {} THEN snap ELSE MutateSnapshot(snap, CHOOSE e \in decoded : TRUE)
Nudges(raw) ==
  LET decoded == TranslateEvent(raw)
  IN decoded # {} /\ NeedsFullRefresh(CHOOSE e \in decoded : TRUE)

Mutes   == "InputMuteStateChanged"
Turns   == "InputVolumeChanged"
Creates == "InputCreated"
Removes == "InputRemoved"
Renames == "InputNameChanged"
Listed  == SceneListEvents \cup {ListEvent[kind] : kind \in Selections}

LEMMA EventKinds ==
  ASSUME NEW raw \in Events
  PROVE  /\ raw.type \in Switched \cup {Mutes, Turns, Creates, Removes, Renames} \cup Listed
              \cup {SelectionEvent[kind] : kind \in Selections} \cup {"StreamStateChanged", "RecordStateChanged"}
         /\ raw.type \in Switched \cup InputEvents \cup {SelectionEvent[kind] : kind \in Selections} => raw.name \in Text
  BY DEF Events, NamedEvent, PlainEvent, Listed, SceneListEvents, ListEvent, SelectionEvent, Selections, InputEvents,
     Switched, Mutes, Turns, Creates, Removes, Renames

LEMMA Named ==
  ASSUME NEW raw \in Events, raw.type \in Switched \cup InputEvents \cup {SelectionEvent[kind] : kind \in Selections}
  PROVE  TranslateEvent(raw) = IF Usable(raw.name) THEN {[raw EXCEPT !.name = Trim(raw.name)]} ELSE {}
<1>1. raw.type \in NamedEvents
  BY DEF NamedEvents, Range, SelectionEvent, Selections, Switched, InputEvents
<1>2. raw.type \notin SceneListEvents \cup OutputEvents \cup Range(ListEvent)
  BY DEF SceneListEvents, OutputEvents, ListEvent, Range, Selections, Switched, InputEvents, SelectionEvent
<1> QED BY <1>1, <1>2 DEF TranslateEvent

LEMMA NamedIsFolded ==
  ASSUME NEW snap, NEW raw \in Events,
         raw.type \in Switched \cup InputEvents \cup {SelectionEvent[kind] : kind \in Selections}
  PROVE  LET clean == [raw EXCEPT !.name = Trim(raw.name)]
         IN /\ Folded(snap, raw) = IF Usable(raw.name) THEN MutateSnapshot(snap, clean) ELSE snap
            /\ clean.type = raw.type /\ clean.name = Trim(raw.name)
            /\ raw.type \in {Mutes, Turns} => clean.value = raw.value
            /\ ~Nudges(raw)
<1> DEFINE clean == [raw EXCEPT !.name = Trim(raw.name)]
<1>1. clean.type = raw.type /\ clean.name = Trim(raw.name) /\ (raw.type \in {Mutes, Turns} => clean.value = raw.value)
  BY DEF Events, NamedEvent, PlainEvent, Switched, InputEvents, SelectionEvent, Selections, Mutes, Turns
<1>2. TranslateEvent(raw) = IF Usable(raw.name) THEN {clean} ELSE {}
  BY Named
<1> HIDE DEF clean
<1>3. Usable(raw.name) => (CHOOSE e \in TranslateEvent(raw) : TRUE) = clean /\ TranslateEvent(raw) # {}
  BY <1>2
<1>4. ~NeedsFullRefresh(clean)
  BY <1>1 DEF NeedsFullRefresh, Range, ListEvent, SelectionEvent, Selections, Switched, InputEvents
<1>5. Folded(snap, raw) = IF Usable(raw.name) THEN MutateSnapshot(snap, clean) ELSE snap
  BY <1>2, <1>3 DEF Folded
<1>6. ~Nudges(raw)
  BY <1>2, <1>3, <1>4 DEF Nudges
<1> QED BY <1>1, <1>5, <1>6 DEF clean

\* An event of the current scene or of a selection.
LEMMA SwitchIsFolded ==
  ASSUME NEW snap, NEW raw \in Events, raw.type \in Switched
  PROVE  Folded(snap, raw) = IF Usable(raw.name) THEN ProgramSceneChanged(snap, Trim(raw.name)) ELSE snap
  BY NamedIsFolded DEF MutateSnapshot, Switched

LEMMA SelectionIsFolded ==
  ASSUME NEW snap, NEW raw \in Events, NEW kind \in Selections, raw.type = SelectionEvent[kind]
  PROVE  Folded(snap, raw) = IF Usable(raw.name) THEN [snap EXCEPT !.selection[kind].current = Trim(raw.name)] ELSE snap
<1>1. /\ Folded(snap, raw) = IF Usable(raw.name) THEN MutateSnapshot(snap, [raw EXCEPT !.name = Trim(raw.name)])
                              ELSE snap
      /\ [raw EXCEPT !.name = Trim(raw.name)].type = raw.type
      /\ [raw EXCEPT !.name = Trim(raw.name)].name = Trim(raw.name)
  BY NamedIsFolded
<1>2. CASE kind = "profile"
  BY <1>1, <1>2 DEF MutateSnapshot, SelectionEvent, Selections
<1>3. CASE kind = "collection"
  BY <1>1, <1>3 DEF MutateSnapshot, SelectionEvent, Selections
<1> QED BY <1>2, <1>3 DEF Selections

LEMMA InputEventIsFolded ==
  ASSUME NEW snap, NEW raw \in Events
  PROVE  LET n == Trim(raw.name)
         IN /\ raw.type = Creates => Folded(snap, raw) = IF Usable(raw.name) THEN InputCreated(snap, n) ELSE snap
            /\ raw.type = Removes => Folded(snap, raw) = IF Usable(raw.name) THEN InputRemoved(snap, n) ELSE snap
            /\ raw.type = Mutes => Folded(snap, raw) = IF Usable(raw.name) THEN InputMuteChanged(snap, n, raw.value) ELSE snap
            /\ raw.type = Turns => Folded(snap, raw) = IF Usable(raw.name) THEN InputVolumeChanged(snap, n, raw.value) ELSE snap
<1>1. ASSUME raw.type \in {Creates, Removes, Mutes, Turns}
      PROVE  LET clean == [raw EXCEPT !.name = Trim(raw.name)]
             IN /\ Folded(snap, raw) = IF Usable(raw.name) THEN MutateSnapshot(snap, clean) ELSE snap
                /\ clean.type = raw.type /\ clean.name = Trim(raw.name)
                /\ raw.type \in {Mutes, Turns} => clean.value = raw.value
  BY <1>1, NamedIsFolded DEF InputEvents, Creates, Removes, Mutes, Turns
<1> QED BY <1>1 DEF MutateSnapshot, Creates, Removes, Mutes, Turns

\* The rest, which needs no name.
LEMMA OthersAreFolded ==
  ASSUME NEW snap, NEW raw \in Events
  PROVE  /\ raw.type = "StreamStateChanged" => Folded(snap, raw) = [snap EXCEPT !.streaming = raw.value]
         /\ raw.type = "RecordStateChanged" => Folded(snap, raw) = [snap EXCEPT !.recording = raw.value]
         /\ raw.type \in Listed => Folded(snap, raw) = snap /\ Nudges(raw)
         /\ raw.type = Renames => Folded(snap, raw) = snap
<1>1. raw.type \in OutputEvents \cup {ListEvent[kind] : kind \in Selections} => TranslateEvent(raw) = {raw}
  BY DEF TranslateEvent, OutputEvents, ListEvent, Selections, Range, NamedEvents, SelectionEvent, SceneListEvents
<1>2. raw.type \in SceneListEvents => TranslateEvent(raw) = {[type |-> "SceneListChanged"]}
  BY DEF TranslateEvent, OutputEvents, ListEvent, Selections, Range, NamedEvents, SelectionEvent, SceneListEvents
<1>3. raw.type = Renames => TranslateEvent(raw) = {[type |-> "Other"]}
  BY DEF TranslateEvent, OutputEvents, ListEvent, Selections, Range, NamedEvents, SelectionEvent, SceneListEvents, Renames
<1>4. \A e : (CHOOSE d \in {e} : TRUE) = e /\ {e} # {}
  OBVIOUS
<1>5. \A e : TranslateEvent(raw) = {e} => Folded(snap, raw) = MutateSnapshot(snap, e) /\ (Nudges(raw) <=> NeedsFullRefresh(e))
  BY <1>4 DEF Folded, Nudges
<1>6. raw.type = "StreamStateChanged" => Folded(snap, raw) = [snap EXCEPT !.streaming = raw.value]
  BY <1>1, <1>5 DEF OutputEvents, MutateSnapshot
<1>7. raw.type = "RecordStateChanged" => Folded(snap, raw) = [snap EXCEPT !.recording = raw.value]
  BY <1>1, <1>5 DEF OutputEvents, MutateSnapshot
<1>11. \A e : e.type \in {"SceneListChanged", "Other"} => MutateSnapshot(snap, e) = snap
  BY DEF MutateSnapshot
<1>8. raw.type \in SceneListEvents => Folded(snap, raw) = snap /\ Nudges(raw)
  <2> DEFINE e == [type |-> "SceneListChanged"]
  <2>1. e.type = "SceneListChanged"
    OBVIOUS
  <2> HIDE DEF e
  <2>2. raw.type \in SceneListEvents => TranslateEvent(raw) = {e}
    BY <1>2 DEF e
  <2> QED BY <1>5, <1>11, <2>1, <2>2 DEF NeedsFullRefresh
<1>9. ASSUME NEW kind \in Selections, raw.type = ListEvent[kind] PROVE Folded(snap, raw) = snap /\ Nudges(raw)
  <2>1. Folded(snap, raw) = MutateSnapshot(snap, raw) /\ (Nudges(raw) <=> NeedsFullRefresh(raw))
    BY <1>1, <1>5, <1>9
  <2>2. NeedsFullRefresh(raw)
    BY <1>9 DEF NeedsFullRefresh, Range, ListEvent
  <2>3. MutateSnapshot(snap, raw) = snap
    BY <1>9 DEF MutateSnapshot, ListEvent, Selections
  <2> QED BY <2>1, <2>2, <2>3
<1>10. raw.type = Renames => Folded(snap, raw) = snap
  <2> DEFINE e == [type |-> "Other"]
  <2>1. e.type = "Other"
    OBVIOUS
  <2> HIDE DEF e
  <2>2. raw.type = Renames => TranslateEvent(raw) = {e}
    BY <1>3 DEF e
  <2> QED BY <1>5, <1>11, <2>1, <2>2
<1> QED BY <1>6, <1>7, <1>8, <1>9, <1>10 DEF Listed

\* What folding an event in leaves alone.
LEMMA FoldedLists ==
  ASSUME NEW snap \in Snapshots, NEW raw \in Events
  PROVE  LET f == Folded(snap, raw)
         IN /\ NamesOf(f.scenes) = NamesOf(snap.scenes)
            /\ f.current = IF raw.type \in Switched /\ Usable(raw.name) THEN Trim(raw.name) ELSE snap.current
            /\ f.streaming = IF raw.type = "StreamStateChanged" THEN raw.value ELSE snap.streaming
            /\ f.recording = IF raw.type = "RecordStateChanged" THEN raw.value ELSE snap.recording
            /\ \A kind \in Selections :
                 /\ f.selection[kind].names = snap.selection[kind].names
                 /\ f.selection[kind].current = IF raw.type = SelectionEvent[kind] /\ Usable(raw.name)
                                                THEN Trim(raw.name) ELSE snap.selection[kind].current
            /\ f.profiles = snap.profiles /\ f.active = snap.active
            /\ raw.type \notin InputEvents => f.inputs = snap.inputs
            /\ raw.type \notin Switched => f.scenes = snap.scenes
<1> DEFINE f == Folded(snap, raw)
<1> USE DEF Switched
<1>1. CASE raw.type \in Switched
  <2> DEFINE n == Trim(raw.name)
             scenes == [i \in DOMAIN snap.scenes |-> [snap.scenes[i] EXCEPT !.active = snap.scenes[i].name = n]]
  <2>1. f = IF Usable(raw.name) /\ snap.current # n THEN [snap EXCEPT !.current = n, !.scenes = scenes] ELSE snap
    BY <1>1, SwitchIsFolded DEF ProgramSceneChanged
  <2>2. NamesOf(scenes) = NamesOf(snap.scenes)
    <3>1. \A i \in DOMAIN snap.scenes : snap.scenes[i] \in SceneState
      BY Elements DEF Snapshots
    <3>2. \A i \in DOMAIN snap.scenes : scenes[i].name = snap.scenes[i].name
      BY <3>1 DEF SceneState
    <3> QED BY <3>2 DEF NamesOf
  <2>3. raw.type \notin InputEvents \cup {"StreamStateChanged", "RecordStateChanged"}
        /\ \A kind \in Selections : raw.type # SelectionEvent[kind]
    BY <1>1 DEF InputEvents, SelectionEvent, Selections
  <2> HIDE DEF scenes, n, f
  <2> QED BY <1>1, <2>1, <2>2, <2>3 DEF Snapshots, n, f
<1>2. CASE raw.type \in InputEvents
  <2> DEFINE n == Trim(raw.name)
  <2>1. f = snap \/ \E inputs : f = [snap EXCEPT !.inputs = inputs]
    <3>1. \/ f = snap \/ f = InputCreated(snap, n) \/ f = InputRemoved(snap, n)
          \/ f = InputMuteChanged(snap, n, raw.value) \/ f = InputVolumeChanged(snap, n, raw.value)
      <4> HIDE DEF f, n
      <4> QED BY <1>2, InputEventIsFolded DEF InputEvents, Creates, Removes, Mutes, Turns, f, n
    <3> HIDE DEF f, n
    <3> QED BY <3>1 DEF InputCreated, InputRemoved, InputMuteChanged, InputVolumeChanged
  <2>2. raw.type \notin Switched \cup {"StreamStateChanged", "RecordStateChanged"}
        /\ \A kind \in Selections : raw.type # SelectionEvent[kind]
    BY <1>2 DEF InputEvents, SelectionEvent, Selections
  <2> HIDE DEF f
  <2> QED BY <1>2, <2>1, <2>2 DEF Snapshots, f
<1>3. ASSUME NEW kind \in Selections, raw.type = SelectionEvent[kind]
      PROVE  /\ NamesOf(f.scenes) = NamesOf(snap.scenes)
             /\ f.current = snap.current /\ f.streaming = snap.streaming /\ f.recording = snap.recording
             /\ \A k \in Selections :
                  /\ f.selection[k].names = snap.selection[k].names
                  /\ f.selection[k].current = IF raw.type = SelectionEvent[k] /\ Usable(raw.name)
                                              THEN Trim(raw.name) ELSE snap.selection[k].current
             /\ f.profiles = snap.profiles /\ f.active = snap.active
             /\ f.inputs = snap.inputs /\ f.scenes = snap.scenes
             /\ raw.type \notin Switched \cup InputEvents \cup {"StreamStateChanged", "RecordStateChanged"}
  <2> DEFINE n == Trim(raw.name)
             selection == [snap.selection EXCEPT ![kind].current = n]
  <2>1. f = IF Usable(raw.name) THEN [snap EXCEPT !.selection = selection] ELSE snap
    BY <1>3, SelectionIsFolded DEF Snapshots
  <2>2. raw.type \notin Switched \cup InputEvents \cup {"StreamStateChanged", "RecordStateChanged"}
        /\ \A k \in Selections : raw.type = SelectionEvent[k] => k = kind
    BY <1>3 DEF InputEvents, SelectionEvent, Selections
  <2>3. snap.selection \in [Selections -> Listing]
    BY DEF Snapshots
  <2>4. \A k \in Selections :
          /\ selection[k].names = snap.selection[k].names
          /\ selection[k].current = IF k = kind THEN n ELSE snap.selection[k].current
    BY <2>3 DEF Listing
  <2> HIDE DEF selection, n, f
  <2> QED BY <1>3, <2>1, <2>2, <2>4 DEF Snapshots, n
<1>4. CASE raw.type \in {"StreamStateChanged", "RecordStateChanged"}
  <2>1. f = IF raw.type = "StreamStateChanged" THEN [snap EXCEPT !.streaming = raw.value]
            ELSE [snap EXCEPT !.recording = raw.value]
    BY <1>4, OthersAreFolded
  <2>2. raw.type \notin Switched \cup InputEvents /\ \A kind \in Selections : raw.type # SelectionEvent[kind]
    BY <1>4 DEF InputEvents, SelectionEvent, Selections
  <2> HIDE DEF f
  <2> QED BY <1>4, <2>1, <2>2 DEF Snapshots, f
<1>5. CASE raw.type \in Listed \cup {Renames}
  <2>1. f = snap
    BY <1>5, OthersAreFolded
  <2>2. raw.type \notin Switched \cup InputEvents \cup {"StreamStateChanged", "RecordStateChanged"}
        /\ \A kind \in Selections : raw.type # SelectionEvent[kind]
    BY <1>5 DEF InputEvents, SelectionEvent, Selections, Listed, Renames, ListEvent, SceneListEvents
  <2> HIDE DEF f
  <2> QED BY <2>1, <2>2 DEF f
<1> HIDE DEF f, Switched
<1>6. raw.type \in Switched \/ raw.type \in InputEvents \/ (\E kind \in Selections : raw.type = SelectionEvent[kind])
      \/ raw.type \in {"StreamStateChanged", "RecordStateChanged"} \/ raw.type \in Listed \cup {Renames}
  BY EventKinds DEF InputEvents, Mutes, Turns, Creates, Removes
<1>7. ASSUME \E kind \in Selections : raw.type = SelectionEvent[kind]
      PROVE  /\ NamesOf(f.scenes) = NamesOf(snap.scenes)
             /\ f.current = snap.current /\ f.streaming = snap.streaming /\ f.recording = snap.recording
             /\ \A k \in Selections :
                  /\ f.selection[k].names = snap.selection[k].names
                  /\ f.selection[k].current = IF raw.type = SelectionEvent[k] /\ Usable(raw.name)
                                              THEN Trim(raw.name) ELSE snap.selection[k].current
             /\ f.profiles = snap.profiles /\ f.active = snap.active
             /\ f.inputs = snap.inputs /\ f.scenes = snap.scenes
             /\ raw.type \notin Switched \cup InputEvents \cup {"StreamStateChanged", "RecordStateChanged"}
  BY <1>3, <1>7
<1>8. CASE \E kind \in Selections : raw.type = SelectionEvent[kind]
  BY <1>7, <1>8 DEF f
<1> QED BY <1>1, <1>2, <1>8, <1>4, <1>5, <1>6

-----------------------------------------------------------------------------
(* The lists of the snapshot are OBS's, but for what is queued.            *)

ListsAgree(o, q, snap, nud) ==
  /\ Without(q, SceneListEvents) /\ ~nud =>
       UniqueNames(o.scenes) /\ NamesOf(snap.scenes) = Trimmed(o.scenes)
  /\ Without(q, SceneEvents) /\ ~nud => snap.current = Trim(o.current)
  /\ Without(q, {"StreamStateChanged"}) => snap.streaming = o.streaming
  /\ Without(q, {"RecordStateChanged"}) => snap.recording = o.recording
  /\ \A kind \in Selections :
       /\ Without(q, {ListEvent[kind]}) /\ ~nud =>
            snap.selection[kind].names = FetchedSelection(o.selection[kind]).names
       /\ Without(q, {SelectionEvent[kind]}) /\ Plain(o.selection[kind].current) =>
            snap.selection[kind].current = o.selection[kind].current

LEMMA ListsAgreeAfterChange ==
  ASSUME NEW o, NEW n, NEW q \in Seq(Events), NEW e \in Events, NEW snap, NEW nud,
         ListsAgree(o, q, snap, nud), Tells(o, e, n)
  PROVE  ListsAgree(n, Append(q, e), snap, nud)
<1> DEFINE longer == Append(q, e)
<1>1. \A types : Without(longer, types) => Without(q, types) /\ e.type \notin types
  BY LatestInAppend
<1> HIDE DEF longer
<1>2. Without(longer, SceneListEvents) /\ ~nud => UniqueNames(n.scenes) /\ NamesOf(snap.scenes) = Trimmed(n.scenes)
  BY <1>1 DEF ListsAgree, Tells
<1>3. Without(longer, SceneEvents) /\ ~nud => snap.current = Trim(n.current)
  BY <1>1 DEF ListsAgree, Tells
<1>4. /\ Without(longer, {"StreamStateChanged"}) => snap.streaming = n.streaming
      /\ Without(longer, {"RecordStateChanged"}) => snap.recording = n.recording
  BY <1>1 DEF ListsAgree, Tells
<1>5. ASSUME NEW kind \in Selections
      PROVE  /\ Without(longer, {ListEvent[kind]}) /\ ~nud =>
                   snap.selection[kind].names = FetchedSelection(n.selection[kind]).names
             /\ Without(longer, {SelectionEvent[kind]}) /\ Plain(n.selection[kind].current) =>
                   snap.selection[kind].current = n.selection[kind].current
  BY <1>1 DEF ListsAgree, Tells, FetchedSelection
<1> QED BY <1>2, <1>3, <1>4, <1>5 DEF ListsAgree, longer

LEMMA ListsAgreeAfterFold ==
  ASSUME NEW o \in ObsStates, NEW q \in Seq(Events), q # << >>, NEW snap \in Snapshots, NEW nud \in BOOLEAN,
         ListsAgree(o, q, snap, nud), QueueTells(o, q), o.current \in ToSet(o.scenes)
  PROVE  ListsAgree(o, Tail(q), Folded(snap, q[1]), nud \/ Nudges(q[1]))
<1> DEFINE rest == Tail(q)
           raw == q[1]
           f == Folded(snap, raw)
           due == nud \/ Nudges(raw)
<1>1. raw \in Events /\ 1 \in DOMAIN q
  BY TailOf, Elements
<1>2. \A types : /\ Without(rest, types) <=> Latest(q, 1, types)
                 /\ Without(q, types) <=> raw.type \notin types /\ Without(rest, types)
  BY LatestInTail
<1>3. /\ NamesOf(f.scenes) = NamesOf(snap.scenes)
      /\ f.current = IF raw.type \in Switched /\ Usable(raw.name) THEN Trim(raw.name) ELSE snap.current
      /\ f.streaming = IF raw.type = "StreamStateChanged" THEN raw.value ELSE snap.streaming
      /\ f.recording = IF raw.type = "RecordStateChanged" THEN raw.value ELSE snap.recording
      /\ \A kind \in Selections :
           /\ f.selection[kind].names = snap.selection[kind].names
           /\ f.selection[kind].current = IF raw.type = SelectionEvent[kind] /\ Usable(raw.name)
                                          THEN Trim(raw.name) ELSE snap.selection[kind].current
  BY <1>1, FoldedLists
<1>4. ~due => ~nud /\ raw.type \notin Listed
  BY <1>1, OthersAreFolded
<1> HIDE DEF rest, f, due
<1>5. ~due => ~nud /\ raw.type \notin SceneListEvents /\ \A kind \in Selections : raw.type # ListEvent[kind]
  BY <1>4 DEF Listed
<1>6. Without(rest, SceneListEvents) /\ ~due => UniqueNames(o.scenes) /\ NamesOf(f.scenes) = Trimmed(o.scenes)
  BY <1>2, <1>3, <1>5 DEF ListsAgree
<1>7. ASSUME Without(rest, SceneEvents), ~due PROVE f.current = Trim(o.current)
  <2>1. CASE raw.type \in Switched
    <3>1. raw.name = o.current
      BY <1>1, <1>2, <1>7, <2>1 DEF QueueTells
    <3>2. Without(rest, SceneListEvents)
      BY <1>7 DEF Without, SceneEvents
    <3>3. UniqueNames(o.scenes)
      BY <1>2, <1>5, <1>7, <3>2 DEF ListsAgree
    <3>4. Usable(o.current)
      BY <3>3 DEF UniqueNames, ToSet
    <3> QED BY <1>3, <2>1, <3>1, <3>4
  <2>2. CASE raw.type \notin Switched
    <3>1. Without(q, SceneEvents) /\ ~nud
      BY <1>2, <1>5, <1>7, <2>2 DEF SceneEvents
    <3> QED BY <1>3, <2>2, <3>1 DEF ListsAgree
  <2> QED BY <2>1, <2>2
<1>8. Without(rest, {"StreamStateChanged"}) => f.streaming = o.streaming
  BY <1>1, <1>2, <1>3 DEF ListsAgree, QueueTells
<1>9. Without(rest, {"RecordStateChanged"}) => f.recording = o.recording
  BY <1>1, <1>2, <1>3 DEF ListsAgree, QueueTells
<1>10. ASSUME NEW kind \in Selections
       PROVE  /\ Without(rest, {ListEvent[kind]}) /\ ~due =>
                    f.selection[kind].names = FetchedSelection(o.selection[kind]).names
              /\ Without(rest, {SelectionEvent[kind]}) /\ Plain(o.selection[kind].current) =>
                    f.selection[kind].current = o.selection[kind].current
  <2>1. Without(rest, {ListEvent[kind]}) /\ ~due =>
          f.selection[kind].names = FetchedSelection(o.selection[kind]).names
    BY <1>2, <1>3, <1>5 DEF ListsAgree
  <2>2. ASSUME Without(rest, {SelectionEvent[kind]}), Plain(o.selection[kind].current)
        PROVE  f.selection[kind].current = o.selection[kind].current
    <3>1. CASE raw.type = SelectionEvent[kind]
      <4>1. raw.name = o.selection[kind].current
        BY <1>1, <1>2, <2>2, <3>1 DEF QueueTells
      <4> QED BY <1>3, <2>2, <3>1, <4>1 DEF Plain
    <3>2. CASE raw.type # SelectionEvent[kind]
      BY <1>2, <1>3, <2>2, <3>2 DEF ListsAgree
    <3> QED BY <3>1, <3>2
  <2> QED BY <2>1, <2>2
<1> QED BY <1>6, <1>7, <1>8, <1>9, <1>10 DEF ListsAgree, rest, f, due

\* A refresh takes everything as it is.
LEMMA ListsAgreeWhenBuilt ==
  ASSUME NEW o, NEW q, NEW c, Readable(o)
  PROVE  ListsAgree(o, q, BuildSnapshot(o, Projection(c)), FALSE)
<1> DEFINE p == Projection(c)
           b == BuildSnapshot(o, p)
<1>1. /\ b.current = Trim(o.current) /\ b.streaming = o.streaming /\ b.recording = o.recording
      /\ \A kind \in Selections : b.selection[kind] = FetchedSelection(o.selection[kind])
      /\ b.scenes = [i \in DOMAIN Trimmed(o.scenes) |->
                       ApplySceneConfig(BareScene(Trimmed(o.scenes)[i], Trim(o.current)), p)]
  BY DEF BuildSnapshot
<1>2. \A name, current : ApplySceneConfig(BareScene(name, current), p).name = name
  BY DEF ApplySceneConfig, BareScene
<1> HIDE DEF b, p
<1>3. NamesOf(b.scenes) = Trimmed(o.scenes)
  BY <1>1, <1>2 DEF NamesOf, Trimmed
<1>4. \A kind \in Selections : b.selection[kind].current = o.selection[kind].current
  <2>1. \A s : FetchedSelection(s).current = s.current
    BY DEF FetchedSelection
  <2> QED BY <1>1, <2>1
<1> QED BY <1>1, <1>3, <1>4 DEF ListsAgree, Readable, b, p

\* A new config changes no list but that of the profiles.
LEMMA ListsAgreeWhenMerged ==
  ASSUME NEW o, NEW q, NEW snap \in Snapshots, NEW nud, NEW c, ListsAgree(o, q, snap, nud)
  PROVE  ListsAgree(o, q, Merged(snap, Projection(c)), nud)
<1> DEFINE p == Projection(c)
           m == Merged(snap, p)
<1>1. /\ m.current = snap.current /\ m.streaming = snap.streaming /\ m.recording = snap.recording
      /\ m.selection = snap.selection
      /\ m.scenes = [i \in DOMAIN snap.scenes |-> ApplySceneConfig(snap.scenes[i], p)]
  BY DEF Merged, Snapshots
<1>2. \A i \in DOMAIN snap.scenes : ApplySceneConfig(snap.scenes[i], p).name = snap.scenes[i].name
  <2>1. \A i \in DOMAIN snap.scenes : snap.scenes[i] \in SceneState
    BY Elements DEF Snapshots
  <2> QED BY <2>1 DEF ApplySceneConfig, SceneState
<1> HIDE DEF m, p
<1>3. NamesOf(m.scenes) = NamesOf(snap.scenes)
  BY <1>1, <1>2 DEF NamesOf
<1> QED BY <1>1, <1>3 DEF ListsAgree, m, p

-----------------------------------------------------------------------------
(* Rows and their configuration.                                           *)

RowsAre(snap, c) ==
  \A i \in DOMAIN snap.scenes :
    snap.scenes[i] = ApplySceneConfig(BareScene(snap.scenes[i].name, snap.current), Projection(c))

LEMMA RowIs ==
  ASSUME NEW name, NEW current, NEW p
  PROVE  LET k == ConfigOf(p.scenes, name)
         IN ApplySceneConfig(BareScene(name, current), p) =
              [name |-> name, alias |-> IF k = 0 THEN None ELSE p.scenes[k].alias,
               shortcut |-> IF k = 0 THEN None ELSE p.scenes[k].shortcut,
               active |-> name = current, hidden |-> IsHidden(p.visibility, name)]
<1> DEFINE b == BareScene(name, current)
<1>1. b = [name |-> name, alias |-> None, shortcut |-> None, active |-> name = current, hidden |-> FALSE]
  BY DEF BareScene
<1>2. b.name = name
  BY <1>1
<1> HIDE DEF b
<1> DEFINE k == ConfigOf(p.scenes, name)
<1>3. ApplySceneConfig(b, p) =
        [b EXCEPT !.alias    = IF k = 0 THEN None ELSE p.scenes[k].alias,
                  !.shortcut = IF k = 0 THEN None ELSE p.scenes[k].shortcut,
                  !.hidden   = IsHidden(p.visibility, name)]
  BY <1>2 DEF ApplySceneConfig
<1> HIDE DEF k
<1>4. ApplySceneConfig(b, p) =
        [name |-> name, alias |-> IF k = 0 THEN None ELSE p.scenes[k].alias,
         shortcut |-> IF k = 0 THEN None ELSE p.scenes[k].shortcut,
         active |-> name = current, hidden |-> IsHidden(p.visibility, name)]
  BY <1>1, <1>3
<1> QED BY <1>4 DEF b, k

LEMMA RowsAfterFold ==
  ASSUME NEW snap \in Snapshots, NEW raw \in Events, NEW c, RowsAre(snap, c)
  PROVE  RowsAre(Folded(snap, raw), c)
<1> DEFINE f == Folded(snap, raw)
           n == Trim(raw.name)
           p == Projection(c)
           scenes == [i \in DOMAIN snap.scenes |-> [snap.scenes[i] EXCEPT !.active = snap.scenes[i].name = n]]
<1>1. CASE f.scenes = snap.scenes /\ f.current = snap.current
  BY <1>1 DEF RowsAre
<1>2. CASE raw.type \in Switched /\ Usable(raw.name) /\ snap.current # n
  <2>1. f = [snap EXCEPT !.current = n, !.scenes = scenes]
    BY <1>2, SwitchIsFolded DEF ProgramSceneChanged
  <2>2. f.current = n /\ f.scenes = scenes
    <3> HIDE DEF scenes, n, f
    <3> QED BY <2>1 DEF Snapshots
  <2>3. ASSUME NEW i \in DOMAIN snap.scenes
        PROVE  scenes[i] = ApplySceneConfig(BareScene(scenes[i].name, n), p)
    <3> DEFINE r == snap.scenes[i]
    <3>1. r = ApplySceneConfig(BareScene(r.name, snap.current), p)
      BY DEF RowsAre
    <3>2. scenes[i] = [r EXCEPT !.active = r.name = n]
      OBVIOUS
    <3> HIDE DEF r, scenes, n, p
    <3>3. scenes[i].name = r.name /\ scenes[i] = ApplySceneConfig(BareScene(r.name, n), p)
      BY <3>1, <3>2, RowIs
    <3> QED BY <3>3
  <2>4. DOMAIN scenes = DOMAIN snap.scenes
    OBVIOUS
  <2> HIDE DEF scenes, n, f, p
  <2> QED BY <2>2, <2>3, <2>4 DEF RowsAre, f, p
<1>3. \/ f.scenes = snap.scenes /\ f.current = snap.current
      \/ raw.type \in Switched /\ Usable(raw.name) /\ snap.current # n
  <2>1. raw.type \in Switched => f = IF Usable(raw.name) THEN ProgramSceneChanged(snap, n) ELSE snap
    BY SwitchIsFolded
  <2>2. raw.type \notin Switched => f.scenes = snap.scenes /\ f.current = snap.current
    BY FoldedLists
  <2> HIDE DEF f, n
  <2> QED BY <2>1, <2>2 DEF ProgramSceneChanged
<1> QED BY <1>1, <1>2, <1>3

LEMMA RowsWhenBuilt ==
  ASSUME NEW o, NEW c
  PROVE  RowsAre(BuildSnapshot(o, Projection(c)), c)
<1> DEFINE p == Projection(c)
           b == BuildSnapshot(o, p)
           names == Trimmed(o.scenes)
<1>1. b.current = Trim(o.current)
      /\ b.scenes = [i \in DOMAIN names |-> ApplySceneConfig(BareScene(names[i], Trim(o.current)), p)]
  BY DEF BuildSnapshot
<1>2. \A name, current : ApplySceneConfig(BareScene(name, current), p).name = name
  BY RowIs
<1> HIDE DEF b, p, names
<1> QED BY <1>1, <1>2 DEF RowsAre, b, p

LEMMA RowsWhenMerged ==
  ASSUME NEW snap \in Snapshots, NEW c, NEW d, RowsAre(snap, c)
  PROVE  RowsAre(Merged(snap, Projection(d)), d)
<1> DEFINE p == Projection(d)
           m == Merged(snap, p)
<1>1. m.current = snap.current /\ m.scenes = [i \in DOMAIN snap.scenes |-> ApplySceneConfig(snap.scenes[i], p)]
  BY DEF Merged, Snapshots
<1>2. ASSUME NEW i \in DOMAIN snap.scenes
      PROVE  m.scenes[i] = ApplySceneConfig(BareScene(m.scenes[i].name, snap.current), p)
  <2> DEFINE r == snap.scenes[i]
  <2>1. r = ApplySceneConfig(BareScene(r.name, snap.current), Projection(c))
    BY DEF RowsAre
  <2>2. m.scenes[i] = ApplySceneConfig(r, p)
    BY <1>1
  <2> HIDE DEF r, p, m
  <2>3. PICK n, alias, shortcut, hidden :
          r = [name |-> n, alias |-> alias, shortcut |-> shortcut, active |-> n = snap.current, hidden |-> hidden]
    <3>1. \A name, current, q : \E n, alias, shortcut, hidden :
             ApplySceneConfig(BareScene(name, current), q) =
               [name |-> n, alias |-> alias, shortcut |-> shortcut, active |-> n = current, hidden |-> hidden]
      BY RowIs
    <3> QED BY <2>1, <3>1
  <2>4. ApplySceneConfig(r, p) = ApplySceneConfig(BareScene(r.name, snap.current), p)
    <3> DEFINE k == ConfigOf(p.scenes, n)
    <3>1. r.name = n
      BY <2>3
    <3>2. ApplySceneConfig(r, p) =
            [r EXCEPT !.alias    = IF k = 0 THEN None ELSE p.scenes[k].alias,
                      !.shortcut = IF k = 0 THEN None ELSE p.scenes[k].shortcut,
                      !.hidden   = IsHidden(p.visibility, n)]
      BY <3>1 DEF ApplySceneConfig
    <3>3. ApplySceneConfig(BareScene(n, snap.current), p) =
            [name |-> n, alias |-> IF k = 0 THEN None ELSE p.scenes[k].alias,
             shortcut |-> IF k = 0 THEN None ELSE p.scenes[k].shortcut,
             active |-> n = snap.current, hidden |-> IsHidden(p.visibility, n)]
      BY RowIs
    <3> HIDE DEF k
    <3>4. ApplySceneConfig(r, p) = ApplySceneConfig(BareScene(n, snap.current), p)
      BY <2>3, <3>2, <3>3
    <3> QED BY <3>1, <3>4
  <2>5. ApplySceneConfig(r, p).name = r.name
    BY <2>4, RowIs
  <2> QED BY <2>2, <2>4, <2>5
<1> HIDE DEF m, p
<1> QED BY <1>1, <1>2 DEF RowsAre, m, p

-----------------------------------------------------------------------------
(* Entries told apart by their names.                                      *)

Distinct(entries) == \A i, j \in DOMAIN entries : entries[i].name = entries[j].name => i = j

LEMMA AppendAddsOne ==
  ASSUME NEW S, NEW s \in Seq(S), NEW e \in S, Distinct(s), \A x \in ToSet(s) : x.name # e.name
  PROVE  /\ Append(s, e) \in Seq(S) /\ ToSet(Append(s, e)) = ToSet(s) \cup {e} /\ Distinct(Append(s, e))
<1> DEFINE longer == Append(s, e)
           n == Len(s) + 1
<1>1. /\ DOMAIN longer = DOMAIN s \cup {n} /\ longer[n] = e /\ n \notin DOMAIN s
      /\ \A i \in DOMAIN s : longer[i] = s[i]
  BY AppendOf
<1>2. longer \in Seq(S)
  OBVIOUS
<1>3. \A i \in DOMAIN s : s[i].name # e.name
  BY DEF ToSet
<1> HIDE DEF longer, n
<1>4. ToSet(longer) = ToSet(s) \cup {e}
  <2>1. \A x \in ToSet(longer) : x \in ToSet(s) \cup {e}
    BY <1>1 DEF ToSet
  <2>2. \A x \in ToSet(s) \cup {e} : x \in ToSet(longer)
    BY <1>1 DEF ToSet
  <2> QED BY <2>1, <2>2
<1>5. Distinct(longer)
  BY <1>1, <1>3 DEF Distinct
<1> QED BY <1>2, <1>4, <1>5 DEF longer

LEMMA RemovalTakesOne ==
  ASSUME NEW S, NEW s \in Seq(S), NEW i \in DOMAIN s, Distinct(s)
  PROVE  /\ RemoveAt(s, i) \in Seq(S) /\ Distinct(RemoveAt(s, i))
         /\ ToSet(RemoveAt(s, i)) = {x \in ToSet(s) : x.name # s[i].name}
<1> DEFINE r == RemoveAt(s, i)
           Old(k) == IF k < i THEN k ELSE k + 1
<1>1. /\ r \in Seq(S) /\ Len(r) = Len(s) - 1
      /\ \A k \in 1 .. Len(s) - 1 : r[k] = IF k < i THEN s[k] ELSE s[k + 1]
  BY RemovalShortens
<1>2. Len(s) \in Nat /\ DOMAIN s = 1 .. Len(s) /\ DOMAIN r = 1 .. Len(s) - 1 /\ i \in Nat
  BY <1>1
<1> HIDE DEF r
<1>3. \A k \in DOMAIN r : Old(k) \in DOMAIN s /\ Old(k) # i /\ r[k] = s[Old(k)]
  BY <1>1, <1>2
<1>4. \A k, l \in DOMAIN r : Old(k) = Old(l) => k = l
  BY <1>2
<1>5. \A m \in DOMAIN s : m # i => \E k \in DOMAIN r : Old(k) = m
  <2> TAKE m \in DOMAIN s
  <2> HAVE m # i
  <2>1. CASE m < i
    <3>1. m \in DOMAIN r /\ Old(m) = m
      BY <1>2, <2>1
    <3> QED BY <3>1
  <2>2. CASE m > i
    <3>1. m - 1 \in DOMAIN r /\ Old(m - 1) = m
      BY <1>2, <2>2
    <3> QED BY <3>1
  <2> QED BY <1>2, <2>1, <2>2
<1> HIDE DEF Old
<1>6. Distinct(r)
  BY <1>3, <1>4 DEF Distinct
<1>7. \A x \in ToSet(r) : x \in ToSet(s) /\ x.name # s[i].name
  BY <1>3 DEF ToSet, Distinct
<1>8. \A x \in ToSet(s) : x.name # s[i].name => x \in ToSet(r)
  <2> TAKE x \in ToSet(s)
  <2> HAVE x.name # s[i].name
  <2>1. PICK m \in DOMAIN s : s[m] = x
    BY DEF ToSet
  <2>2. PICK k \in DOMAIN r : Old(k) = m
    BY <1>5, <2>1
  <2> QED BY <1>3, <2>1, <2>2 DEF ToSet
<1> QED BY <1>1, <1>6, <1>7, <1>8 DEF r

LEMMA SameNamesDistinct ==
  ASSUME NEW s, NEW t, DOMAIN t = DOMAIN s, \A i \in DOMAIN s : t[i].name = s[i].name, Distinct(s)
  PROVE  Distinct(t)
  BY DEF Distinct

LEMMA OneOfTheName ==
  ASSUME NEW s, Distinct(s), NEW x \in ToSet(s), NEW y \in ToSet(s), x.name = y.name
  PROVE  x = y
  BY DEF Distinct, ToSet

-----------------------------------------------------------------------------
(* What an event does to the inputs of the snapshot, and the change at OBS *)
(* it tells of to OBS's own.                                               *)

RowAlike(s, t, e, n) ==
  /\ t.name = s.name /\ t.alias = s.alias /\ t.shortcut = s.shortcut
  /\ t.muted = (IF e.type = Mutes /\ s.name = n THEN {e.value} ELSE s.muted)
  /\ t.percent = (IF e.type = Turns /\ s.name = n THEN SetLevel(e.value) ELSE s.percent)

RowsChange(rows, e, n, out) ==
  /\ e.type \notin {Creates, Removes} =>
       /\ \A t \in ToSet(out) : \E s \in ToSet(rows) : RowAlike(s, t, e, n)
       /\ \A s \in ToSet(rows) : \E t \in ToSet(out) : RowAlike(s, t, e, n)
  /\ e.type = Creates =>
       \/ out = rows /\ \E s \in ToSet(rows) : s.name = n
       \/ (\A s \in ToSet(rows) : s.name # n) /\ ToSet(out) = ToSet(rows) \cup {BareInput(n)}
  /\ e.type = Removes => ToSet(out) = {s \in ToSet(rows) : s.name # n}

LEMMA FoldedInputs ==
  ASSUME NEW snap \in Snapshots, NEW raw \in Events, Distinct(snap.inputs)
  PROVE  LET f == Folded(snap, raw)  n == Trim(raw.name)
         IN /\ Distinct(f.inputs)
            /\ f.inputs = snap.inputs \/ (raw.type \in InputEvents /\ Usable(raw.name))
            /\ raw.type \in InputEvents /\ Usable(raw.name) => RowsChange(snap.inputs, raw, n, f.inputs)
<1> DEFINE f == Folded(snap, raw)
           n == Trim(raw.name)
           rows == snap.inputs
           k == ConfigOf(rows, n)
<1>1. rows \in Seq(AudioState) /\ DOMAIN rows = 1 .. Len(rows) /\ Len(rows) \in Nat
      /\ \A i \in DOMAIN rows : rows[i] \in AudioState
  BY Elements DEF Snapshots
<1>2. /\ k = 0 => \A s \in ToSet(rows) : s.name # n
      /\ k # 0 => k \in DOMAIN rows /\ rows[k].name = n /\ rows[k] \in ToSet(rows)
  <2>1. IF k = 0 THEN \A i \in DOMAIN rows : rows[i].name # n ELSE k \in DOMAIN rows /\ rows[k].name = n
    BY <1>1, ConfigOfIn
  <2> HIDE DEF k, rows, n
  <2> QED BY <2>1 DEF ToSet
<1>3. CASE raw.type \notin InputEvents \/ ~Usable(raw.name)
  <2>1. f.inputs = rows
    <3>1. raw.type \notin InputEvents => f.inputs = rows
      BY FoldedLists
    <3>2. raw.type \in InputEvents /\ ~Usable(raw.name) => f = snap
      <4> HIDE DEF f
      <4> QED BY InputEventIsFolded DEF InputEvents, Creates, Removes, Mutes, Turns, f
    <3> QED BY <1>3, <3>1, <3>2
  <2> QED BY <1>3, <2>1
<1>4. CASE raw.type = Creates /\ Usable(raw.name)
  <2>1. f = IF k # 0 THEN snap ELSE [snap EXCEPT !.inputs = Append(rows, BareInput(n))]
    BY <1>4, InputEventIsFolded DEF InputCreated
  <2>2. BareInput(n) \in AudioState /\ BareInput(n).name = n
    BY <1>4, EventKinds, TrimmedIsClean, BareIsAudio DEF InputEvents, Creates
  <2> HIDE DEF f, k, n
  <2>3. f.inputs = IF k # 0 THEN rows ELSE Append(rows, BareInput(n))
    BY <2>1 DEF Snapshots
  <2> HIDE DEF rows
  <2>4. k = 0 => ToSet(f.inputs) = ToSet(rows) \cup {BareInput(n)} /\ Distinct(f.inputs)
    BY <1>1, <1>2, <2>2, <2>3, AppendAddsOne DEF rows
  <2>5. Distinct(f.inputs) /\ RowsChange(rows, raw, n, f.inputs)
    BY <1>2, <1>4, <2>3, <2>4 DEF RowsChange, Creates, Removes, rows
  <2> QED BY <1>4, <2>5 DEF InputEvents, Creates, f, n, rows
<1>5. CASE raw.type = Removes /\ Usable(raw.name)
  <2>1. f = IF k = 0 THEN snap ELSE [snap EXCEPT !.inputs = RemoveAt(rows, k)]
    BY <1>5, InputEventIsFolded DEF InputRemoved
  <2> HIDE DEF f, k, n
  <2>2. f.inputs = IF k = 0 THEN rows ELSE RemoveAt(rows, k)
    BY <2>1 DEF Snapshots
  <2> HIDE DEF rows
  <2>3. k # 0 => ToSet(f.inputs) = {s \in ToSet(rows) : s.name # n} /\ Distinct(f.inputs)
    BY <1>1, <1>2, <2>2, RemovalTakesOne DEF rows
  <2>4. ToSet(f.inputs) = {s \in ToSet(rows) : s.name # n} /\ Distinct(f.inputs)
    BY <1>2, <2>2, <2>3 DEF rows
  <2>5. RowsChange(rows, raw, n, f.inputs)
    BY <1>5, <2>4 DEF RowsChange, Creates, Removes
  <2> QED BY <1>5, <2>4, <2>5 DEF InputEvents, Removes, f, n, rows
<1>6. CASE raw.type \in {Mutes, Turns} /\ Usable(raw.name)
  <2> DEFINE Turned(s) == IF raw.type = Mutes THEN [s EXCEPT !.muted = {raw.value}]
                          ELSE [s EXCEPT !.percent = SetLevel(raw.value)]
             out == [i \in DOMAIN rows |-> IF i = k THEN Turned(rows[i]) ELSE rows[i]]
  <2>1. f = [snap EXCEPT !.inputs = out]
    <3>1. CASE raw.type = Mutes
      BY <1>6, <3>1, InputEventIsFolded DEF InputMuteChanged, Mutes, Turns
    <3>2. CASE raw.type = Turns
      BY <1>6, <3>2, InputEventIsFolded DEF InputVolumeChanged, Mutes, Turns
    <3> QED BY <1>6, <3>1, <3>2
  <2>2. ASSUME NEW i \in DOMAIN rows
        PROVE  RowAlike(rows[i], out[i], raw, n) /\ out[i].name = rows[i].name
    <3>1. i = k <=> rows[i].name = n
      <4> HIDE DEF k, n, rows
      <4> QED BY <1>1, <1>2 DEF Distinct, rows, ToSet
    <3>2. rows[i] \in AudioState
      BY <1>1
    <3>3. out[i] = IF i = k THEN Turned(rows[i]) ELSE rows[i]
      OBVIOUS
    <3> HIDE DEF k, n, rows, out
    <3> QED BY <1>6, <3>1, <3>2, <3>3 DEF RowAlike, AudioState, Mutes, Turns
  <2>3. DOMAIN out = DOMAIN rows
    OBVIOUS
  <2> HIDE DEF f, out, n, k
  <2>4. f.inputs = out
    BY <2>1 DEF Snapshots
  <2> HIDE DEF rows
  <2>5. RowsChange(rows, raw, n, out)
    <3>1. \A t \in ToSet(out) : \E s \in ToSet(rows) : RowAlike(s, t, raw, n)
      BY <2>2, <2>3 DEF ToSet
    <3>2. \A s \in ToSet(rows) : \E t \in ToSet(out) : RowAlike(s, t, raw, n)
      BY <2>2, <2>3 DEF ToSet
    <3> QED BY <1>6, <3>1, <3>2 DEF RowsChange, Creates, Removes, Mutes, Turns
  <2>6. Distinct(out)
    BY <2>2, <2>3, SameNamesDistinct DEF rows
  <2> QED BY <1>6, <2>4, <2>5, <2>6 DEF InputEvents, Mutes, Turns, f, n, rows
<1> QED BY <1>3, <1>4, <1>5, <1>6 DEF InputEvents, Creates, Removes, Mutes, Turns

\* seen.bare after an event, as ApplyEvent has it.
BareAfter(bare, rows, out) ==
  (bare \ {n \in bare : ConfigOf(out, n) = 0}) \union {out[i].name : i \in Len(rows) + 1 .. Len(out)}

LEMMA BareStays ==
  ASSUME NEW snap \in Snapshots, NEW raw \in Events, Distinct(snap.inputs), NEW bare,
         NEW out \in Seq(AudioState), out = Folded(snap, raw).inputs
  PROVE  \A t \in ToSet(out) : t.name \in bare \/ (\A s \in ToSet(snap.inputs) : s.name # t.name) =>
           t.name \in BareAfter(bare, snap.inputs, out)
<1> DEFINE rows == snap.inputs
           n == Trim(raw.name)
<1> SUFFICES ASSUME NEW t \in ToSet(out), t.name \in bare \/ (\A s \in ToSet(rows) : s.name # t.name)
             PROVE  t.name \in BareAfter(bare, rows, out)
  OBVIOUS
<1>1. rows \in Seq(AudioState) /\ Len(rows) \in Nat
  BY DEF Snapshots
<1>2. CASE t.name \in bare
  <2>1. ConfigOf(out, t.name) # 0
    <3>1. PICK i \in DOMAIN out : out[i] = t
      BY DEF ToSet
    <3> QED BY <3>1, ConfigOfIn
  <2> QED BY <1>2, <2>1 DEF BareAfter
<1>3. CASE \A s \in ToSet(rows) : s.name # t.name
  <2>1. t \notin ToSet(rows)
    BY <1>3
  <2>2. out # rows /\ raw.type \in InputEvents /\ Usable(raw.name) /\ RowsChange(rows, raw, n, out)
    BY <2>1, FoldedInputs
  <2>3. raw.type = Creates
    BY <1>3, <2>1, <2>2 DEF RowsChange, RowAlike
  <2>4. t = BareInput(n)
    BY <1>3, <2>1, <2>2, <2>3 DEF RowsChange
  <2>5. Folded(snap, raw) = snap \/ Folded(snap, raw) = [snap EXCEPT !.inputs = Append(rows, BareInput(n))]
    BY <2>3, InputEventIsFolded DEF InputCreated
  <2> HIDE DEF n
  <2>6. out = Append(rows, BareInput(n))
    BY <2>2, <2>5 DEF Snapshots
  <2>7. BareInput(n) \in AudioState
    BY <2>4 DEF ToSet
  <2>8. Len(out) = Len(rows) + 1 /\ out[Len(rows) + 1] = t
    BY <1>1, <2>4, <2>6, <2>7
  <2>9. Len(rows) + 1 \in Len(rows) + 1 .. Len(out)
    BY <1>1, <2>8
  <2> QED BY <2>8, <2>9 DEF BareAfter
<1> QED BY <1>2, <1>3

AliasOf(name, p) ==
  LET k == ConfigOf(p.inputs, name) IN IF k = 0 THEN None ELSE p.inputs[k].alias
ShortcutOf(name, p) ==
  LET k == ConfigOf(p.inputs, name) IN IF k = 0 THEN None ELSE p.inputs[k].shortcut

\* A row that is not bare has what the config gives its name.
AliasesAre(rows, c, bare) ==
  \A s \in ToSet(rows) :
    /\ s.alias \in {None, AliasOf(s.name, Projection(c))}
    /\ s.name \notin bare => /\ s.alias = AliasOf(s.name, Projection(c))
                             /\ s.shortcut = ShortcutOf(s.name, Projection(c))

LEMMA AudioIs ==
  ASSUME NEW s \in AudioState, NEW p
  PROVE  ApplyAudioConfig(s, p) =
           [name |-> s.name, alias |-> AliasOf(s.name, p), shortcut |-> ShortcutOf(s.name, p),
            muted |-> s.muted, percent |-> s.percent]
<1> DEFINE k == ConfigOf(p.inputs, s.name)
<1>1. ApplyAudioConfig(s, p) =
        [s EXCEPT !.alias    = IF k = 0 THEN None ELSE p.inputs[k].alias,
                  !.shortcut = IF k = 0 THEN None ELSE p.inputs[k].shortcut]
  BY DEF ApplyAudioConfig
<1>2. AliasOf(s.name, p) = (IF k = 0 THEN None ELSE p.inputs[k].alias)
      /\ ShortcutOf(s.name, p) = (IF k = 0 THEN None ELSE p.inputs[k].shortcut)
  BY DEF AliasOf, ShortcutOf
<1> HIDE DEF k
<1> QED BY <1>1, <1>2 DEF AudioState

LEMMA AliasesAfterFold ==
  ASSUME NEW snap \in Snapshots, NEW raw \in Events, Distinct(snap.inputs), NEW bare, NEW c,
         NEW out \in Seq(AudioState), out = Folded(snap, raw).inputs,
         AliasesAre(snap.inputs, c, bare)
  PROVE  AliasesAre(out, c, BareAfter(bare, snap.inputs, out))
<1> DEFINE rows == snap.inputs
           n == Trim(raw.name)
           p == Projection(c)
           after == BareAfter(bare, rows, out)
<1> SUFFICES ASSUME NEW t \in ToSet(out)
             PROVE  /\ t.alias \in {None, AliasOf(t.name, p)}
                    /\ t.name \notin after => t.alias = AliasOf(t.name, p) /\ t.shortcut = ShortcutOf(t.name, p)
  BY DEF AliasesAre
<1>1. t.name \in bare \/ (\A s \in ToSet(rows) : s.name # t.name) => t.name \in after
  BY BareStays
<1>2. CASE \E s \in ToSet(rows) : t.name = s.name /\ t.alias = s.alias /\ t.shortcut = s.shortcut
  <2>1. PICK s \in ToSet(rows) : t.name = s.name /\ t.alias = s.alias /\ t.shortcut = s.shortcut
    BY <1>2
  <2> HIDE DEF after, p
  <2> QED BY <1>1, <2>1 DEF AliasesAre, p
<1>3. CASE t = BareInput(n) /\ \A s \in ToSet(rows) : s.name # t.name
  <2>1. t.alias = None
    BY <1>3 DEF BareInput
  <2> QED BY <1>1, <1>3, <2>1
<1>4. \/ \E s \in ToSet(rows) : t.name = s.name /\ t.alias = s.alias /\ t.shortcut = s.shortcut
      \/ t = BareInput(n) /\ \A s \in ToSet(rows) : s.name # t.name
  <2>1. CASE out = rows
    BY <2>1
  <2>2. CASE RowsChange(rows, raw, n, out)
    <3>1. CASE raw.type \notin {Creates, Removes}
      BY <2>2, <3>1 DEF RowsChange, RowAlike
    <3>2. CASE raw.type = Removes
      BY <2>2, <3>2 DEF RowsChange
    <3>3. CASE raw.type = Creates
      <4>1. BareInput(n).name = n
        BY DEF BareInput
      <4> QED BY <2>2, <3>3, <4>1 DEF RowsChange
    <3> QED BY <3>1, <3>2, <3>3
  <2> QED BY <2>1, <2>2, FoldedInputs
<1> QED BY <1>2, <1>3, <1>4

LEMMA AliasesWhenMerged ==
  ASSUME NEW snap \in Snapshots, NEW c, NEW bare, Distinct(snap.inputs)
  PROVE  LET out == Merged(snap, Projection(c)).inputs
         IN /\ AliasesAre(out, c, bare) /\ Distinct(out) /\ DOMAIN out = DOMAIN snap.inputs
            /\ \A i \in DOMAIN out : /\ out[i].name = snap.inputs[i].name /\ out[i].muted = snap.inputs[i].muted
                                     /\ out[i].percent = snap.inputs[i].percent
<1> DEFINE p == Projection(c)
           rows == snap.inputs
           out == Merged(snap, p).inputs
<1>1. out = [i \in DOMAIN rows |-> ApplyAudioConfig(rows[i], p)]
  BY DEF Merged, Snapshots
<1>2. \A i \in DOMAIN rows : rows[i] \in AudioState
  BY Elements DEF Snapshots
<1> HIDE DEF out, p, rows
<1>3. \A i \in DOMAIN rows :
        out[i] = [name |-> rows[i].name, alias |-> AliasOf(rows[i].name, p),
                  shortcut |-> ShortcutOf(rows[i].name, p), muted |-> rows[i].muted, percent |-> rows[i].percent]
  BY <1>1, <1>2, AudioIs
<1>4. DOMAIN out = DOMAIN rows
  BY <1>1
<1>5. \A i \in DOMAIN rows : /\ out[i].name = rows[i].name /\ out[i].muted = rows[i].muted
                             /\ out[i].percent = rows[i].percent
                             /\ out[i].alias = AliasOf(rows[i].name, p)
                             /\ out[i].shortcut = ShortcutOf(rows[i].name, p)
  <2> TAKE i \in DOMAIN rows
  <2> DEFINE name == rows[i].name
             muted == rows[i].muted
             percent == rows[i].percent
  <2>1. out[i] = [name |-> name, alias |-> AliasOf(name, p), shortcut |-> ShortcutOf(name, p),
                  muted |-> muted, percent |-> percent]
    BY <1>3
  <2> HIDE DEF name, muted, percent
  <2>2. /\ out[i].name = name /\ out[i].muted = muted /\ out[i].percent = percent
        /\ out[i].alias = AliasOf(name, p) /\ out[i].shortcut = ShortcutOf(name, p)
    BY <2>1
  <2> QED BY <2>2 DEF name, muted, percent
<1>6. Distinct(out)
  BY <1>4, <1>5, SameNamesDistinct DEF rows
<1>7. AliasesAre(out, c, bare)
  BY <1>4, <1>5 DEF AliasesAre, ToSet, p
<1> QED BY <1>4, <1>5, <1>6, <1>7 DEF out, p, rows

-----------------------------------------------------------------------------
(* The queue tells of OBS's inputs, too.                                   *)

\* No event after the i-th, none at all, is of these types and about the name,
\* and none after the i-th is a rename, which does not say whose.
LatestOf(q, i, types, name) ==
  \A j \in DOMAIN q : j > i => q[j].type # Renames /\ ~(q[j].type \in types /\ q[j].name = name)
WithoutOf(q, types, name) == \A j \in DOMAIN q : ~(q[j].type \in types /\ q[j].name = name)

\* The last event about an input tells whether OBS has it, and how.
InputsTold(inputs, q) ==
  \A i \in DOMAIN q :
    /\ q[i].type = Mutes /\ LatestOf(q, i, {Mutes, Removes}, q[i].name) =>
         \E x \in ToSet(inputs) : x.name = q[i].name /\ x.muted = q[i].value
    /\ q[i].type = Turns /\ LatestOf(q, i, {Turns, Removes}, q[i].name) =>
         \E x \in ToSet(inputs) : x.name = q[i].name /\ x.mul = q[i].value
    /\ q[i].type = Creates /\ LatestOf(q, i, {Removes}, q[i].name) =>
         \E x \in ToSet(inputs) : x.name = q[i].name
    /\ q[i].type = Removes /\ LatestOf(q, i, {Creates}, q[i].name) =>
         \A x \in ToSet(inputs) : x.name # q[i].name

\* The inputs of OBS change from some to others, and e is the event it sends.
InputAlike(x, y, e) ==
  /\ y.name = x.name
  /\ y.muted = (IF e.type = Mutes /\ x.name = e.name THEN e.value ELSE x.muted)
  /\ y.mul = (IF e.type = Turns /\ x.name = e.name THEN e.value ELSE x.mul)
InputsTell(some, e, others) ==
  /\ e.type \notin {Creates, Removes, Renames} =>
       /\ \A y \in ToSet(others) : \E x \in ToSet(some) : InputAlike(x, y, e)
       /\ \A x \in ToSet(some) : \E y \in ToSet(others) : InputAlike(x, y, e)
  /\ e.type \in {Mutes, Turns} => \E x \in ToSet(some) : x.name = e.name
  /\ e.type = Creates => /\ \A x \in ToSet(some) : x.name # e.name
                         /\ \E y : y.name = e.name /\ ToSet(others) = ToSet(some) \cup {y}
  /\ e.type = Removes => ToSet(others) = {x \in ToSet(some) : x.name # e.name}

LEMMA LatestOfInTail ==
  ASSUME NEW S, NEW q \in Seq(S), q # << >>, NEW types, NEW name
  PROVE  /\ \A i \in DOMAIN Tail(q) : LatestOf(Tail(q), i, types, name) => LatestOf(q, i + 1, types, name)
         /\ WithoutOf(Tail(q), types, name) /\ Without(q, {Renames}) => LatestOf(q, 1, types, name)
         /\ WithoutOf(q, types, name) <=>
              ~(q[1].type \in types /\ q[1].name = name) /\ WithoutOf(Tail(q), types, name)
<1>1. ASSUME NEW i \in DOMAIN Tail(q), LatestOf(Tail(q), i, types, name) PROVE LatestOf(q, i + 1, types, name)
  <2> SUFFICES ASSUME NEW j \in DOMAIN q, j > i + 1
               PROVE  q[j].type # Renames /\ ~(q[j].type \in types /\ q[j].name = name)
    BY DEF LatestOf
  <2>1. i \in Nat /\ i >= 1
    BY TailOf
  <2>2. j \in Nat /\ j # 1
    BY <2>1, TailOf
  <2>3. j - 1 \in DOMAIN Tail(q) /\ q[j] = Tail(q)[j - 1] /\ j - 1 > i
    BY <2>1, <2>2, TailOf
  <2> QED BY <1>1, <2>3 DEF LatestOf
<1>2. ASSUME WithoutOf(Tail(q), types, name), Without(q, {Renames}) PROVE LatestOf(q, 1, types, name)
  <2> SUFFICES ASSUME NEW j \in DOMAIN q, j > 1
               PROVE  q[j].type # Renames /\ ~(q[j].type \in types /\ q[j].name = name)
    BY DEF LatestOf
  <2>1. j - 1 \in DOMAIN Tail(q) /\ q[j] = Tail(q)[j - 1]
    BY TailOf
  <2> QED BY <1>2, <2>1 DEF WithoutOf, Without
<1>3. WithoutOf(q, types, name) => ~(q[1].type \in types /\ q[1].name = name) /\ WithoutOf(Tail(q), types, name)
  BY TailOf DEF WithoutOf
<1>4. ASSUME ~(q[1].type \in types /\ q[1].name = name), WithoutOf(Tail(q), types, name)
      PROVE  WithoutOf(q, types, name)
  <2> SUFFICES ASSUME NEW j \in DOMAIN q PROVE ~(q[j].type \in types /\ q[j].name = name)
    BY DEF WithoutOf
  <2>1. CASE j = 1
    BY <1>4, <2>1
  <2>2. CASE j # 1
    <3>1. j - 1 \in DOMAIN Tail(q) /\ q[j] = Tail(q)[j - 1]
      BY <2>2, TailOf
    <3> QED BY <1>4, <3>1 DEF WithoutOf
  <2> QED BY <2>1, <2>2
<1> QED BY <1>1, <1>2, <1>3, <1>4

LEMMA LatestOfInAppend ==
  ASSUME NEW S, NEW q \in Seq(S), NEW e \in S, NEW types, NEW name
  PROVE  /\ \A i \in DOMAIN q : LatestOf(Append(q, e), i, types, name) =>
              LatestOf(q, i, types, name) /\ e.type # Renames /\ ~(e.type \in types /\ e.name = name)
         /\ WithoutOf(Append(q, e), types, name) =>
              WithoutOf(q, types, name) /\ ~(e.type \in types /\ e.name = name)
<1>1. ASSUME NEW i \in DOMAIN q, LatestOf(Append(q, e), i, types, name)
      PROVE  LatestOf(q, i, types, name) /\ e.type # Renames /\ ~(e.type \in types /\ e.name = name)
  BY <1>1, AppendOf DEF LatestOf
<1>2. ASSUME WithoutOf(Append(q, e), types, name)
      PROVE  WithoutOf(q, types, name) /\ ~(e.type \in types /\ e.name = name)
  BY <1>2, AppendOf DEF WithoutOf
<1> QED BY <1>1, <1>2

LEMMA InputsToldInTail ==
  ASSUME NEW inputs, NEW q \in Seq(Events), q # << >>, InputsTold(inputs, q)
  PROVE  InputsTold(inputs, Tail(q))
<1> SUFFICES ASSUME NEW i \in DOMAIN Tail(q)
             PROVE  LET t == Tail(q)[i]
                    IN /\ t.type = Mutes /\ LatestOf(Tail(q), i, {Mutes, Removes}, t.name) =>
                            \E x \in ToSet(inputs) : x.name = t.name /\ x.muted = t.value
                       /\ t.type = Turns /\ LatestOf(Tail(q), i, {Turns, Removes}, t.name) =>
                            \E x \in ToSet(inputs) : x.name = t.name /\ x.mul = t.value
                       /\ t.type = Creates /\ LatestOf(Tail(q), i, {Removes}, t.name) =>
                            \E x \in ToSet(inputs) : x.name = t.name
                       /\ t.type = Removes /\ LatestOf(Tail(q), i, {Creates}, t.name) =>
                            \A x \in ToSet(inputs) : x.name # t.name
  BY DEF InputsTold
<1>1. i + 1 \in DOMAIN q /\ Tail(q)[i] = q[i + 1]
  BY TailOf
<1>2. \A types, name : LatestOf(Tail(q), i, types, name) => LatestOf(q, i + 1, types, name)
  BY LatestOfInTail
<1> DEFINE rest == Tail(q)
           t == q[i + 1]
<1>3. /\ t.type = Mutes /\ LatestOf(q, i + 1, {Mutes, Removes}, t.name) =>
           \E x \in ToSet(inputs) : x.name = t.name /\ x.muted = t.value
      /\ t.type = Turns /\ LatestOf(q, i + 1, {Turns, Removes}, t.name) =>
           \E x \in ToSet(inputs) : x.name = t.name /\ x.mul = t.value
      /\ t.type = Creates /\ LatestOf(q, i + 1, {Removes}, t.name) =>
           \E x \in ToSet(inputs) : x.name = t.name
      /\ t.type = Removes /\ LatestOf(q, i + 1, {Creates}, t.name) =>
           \A x \in ToSet(inputs) : x.name # t.name
  BY <1>1 DEF InputsTold
<1>4. rest[i] = t
  BY <1>1
<1> HIDE DEF rest, t
<1> QED BY <1>2, <1>3, <1>4 DEF rest

LEMMA InputsToldAfterChange ==
  ASSUME NEW some, NEW others, NEW q \in Seq(Events), NEW e \in Events,
         InputsTold(some, q), InputsTell(some, e, others)
  PROVE  InputsTold(others, Append(q, e))
<1> DEFINE longer == Append(q, e)
<1> SUFFICES ASSUME NEW i \in DOMAIN longer
             PROVE  LET t == longer[i]
                    IN /\ t.type = Mutes /\ LatestOf(longer, i, {Mutes, Removes}, t.name) =>
                            \E x \in ToSet(others) : x.name = t.name /\ x.muted = t.value
                       /\ t.type = Turns /\ LatestOf(longer, i, {Turns, Removes}, t.name) =>
                            \E x \in ToSet(others) : x.name = t.name /\ x.mul = t.value
                       /\ t.type = Creates /\ LatestOf(longer, i, {Removes}, t.name) =>
                            \E x \in ToSet(others) : x.name = t.name
                       /\ t.type = Removes /\ LatestOf(longer, i, {Creates}, t.name) =>
                            \A x \in ToSet(others) : x.name # t.name
  BY DEF InputsTold
<1>1. CASE i \in DOMAIN q
  <2> DEFINE t == q[i]
  <2>1. longer[i] = t
    BY <1>1, AppendOf
  <2>2. \A types, name : LatestOf(longer, i, types, name) =>
          LatestOf(q, i, types, name) /\ e.type # Renames /\ ~(e.type \in types /\ e.name = name)
    BY <1>1, LatestOfInAppend
  <2>3. \A x \in ToSet(some) : e.type # Renames /\ ~(e.type = Removes /\ e.name = x.name) =>
          \E y \in ToSet(others) : /\ y.name = x.name
                                   /\ ~(e.type = Mutes /\ e.name = x.name) => y.muted = x.muted
                                   /\ ~(e.type = Turns /\ e.name = x.name) => y.mul = x.mul
    BY DEF InputsTell, InputAlike
  <2>4. \A y \in ToSet(others) : e.type # Renames /\ ~(e.type = Creates /\ e.name = y.name) =>
          \E x \in ToSet(some) : x.name = y.name
    BY DEF InputsTell, InputAlike
  <2> HIDE DEF longer
  <2>5. ASSUME t.type = Mutes, LatestOf(longer, i, {Mutes, Removes}, t.name)
        PROVE  \E x \in ToSet(others) : x.name = t.name /\ x.muted = t.value
    <3>1. PICK x \in ToSet(some) : x.name = t.name /\ x.muted = t.value
      BY <1>1, <2>2, <2>5 DEF InputsTold
    <3> QED BY <2>2, <2>3, <2>5, <3>1
  <2>6. ASSUME t.type = Turns, LatestOf(longer, i, {Turns, Removes}, t.name)
        PROVE  \E x \in ToSet(others) : x.name = t.name /\ x.mul = t.value
    <3>1. PICK x \in ToSet(some) : x.name = t.name /\ x.mul = t.value
      BY <1>1, <2>2, <2>6 DEF InputsTold
    <3> QED BY <2>2, <2>3, <2>6, <3>1
  <2>7. ASSUME t.type = Creates, LatestOf(longer, i, {Removes}, t.name)
        PROVE  \E x \in ToSet(others) : x.name = t.name
    <3>1. PICK x \in ToSet(some) : x.name = t.name
      BY <1>1, <2>2, <2>7 DEF InputsTold
    <3> QED BY <2>2, <2>3, <2>7, <3>1
  <2>8. ASSUME t.type = Removes, LatestOf(longer, i, {Creates}, t.name)
        PROVE  \A x \in ToSet(others) : x.name # t.name
    <3>1. \A x \in ToSet(some) : x.name # t.name
      BY <1>1, <2>2, <2>8 DEF InputsTold
    <3> QED BY <2>2, <2>4, <2>8, <3>1
  <2> HIDE DEF t
  <2> QED BY <2>1, <2>5, <2>6, <2>7, <2>8
<1>2. CASE i = Len(q) + 1
  <2>1. longer[i] = e
    BY <1>2, AppendOf
  <2>2. e.type = Mutes => \E y \in ToSet(others) : y.name = e.name /\ y.muted = e.value
    BY DEF InputsTell, InputAlike, Mutes, Turns, Creates, Removes, Renames
  <2>3. e.type = Turns => \E y \in ToSet(others) : y.name = e.name /\ y.mul = e.value
    BY DEF InputsTell, InputAlike, Mutes, Turns, Creates, Removes, Renames
  <2>4. e.type = Creates => \E y \in ToSet(others) : y.name = e.name
    BY DEF InputsTell
  <2>5. e.type = Removes => \A y \in ToSet(others) : y.name # e.name
    BY DEF InputsTell
  <2> HIDE DEF longer
  <2> QED BY <2>1, <2>2, <2>3, <2>4, <2>5
<1> QED BY <1>1, <1>2, AppendOf

-----------------------------------------------------------------------------
(* The inputs of the snapshot are OBS's, but for what is queued and what   *)
(* only a refresh reads.                                                   *)

InputsAgree(inputs, q, rows, bare) ==
  /\ \A s \in ToSet(rows) : WithoutOf(q, {Removes}, s.name) => \E x \in ToSet(inputs) : x.name = s.name
  /\ \A x \in ToSet(inputs) : WithoutOf(q, {Creates}, x.name) => \E s \in ToSet(rows) : s.name = x.name
  /\ \A s \in ToSet(rows), x \in ToSet(inputs) : s.name = x.name =>
       /\ WithoutOf(q, {Mutes, Removes}, x.name) =>
            s.muted = {x.muted} \/ (s.muted = {} /\ s.name \in bare)
       /\ WithoutOf(q, {Turns, Removes}, x.name) =>
            s.percent = SetLevel(x.mul) \/ (s.percent = {} /\ s.name \in bare)

LEMMA InputsAgreeAfterChange ==
  ASSUME NEW some, NEW others, NEW q \in Seq(Events), NEW e \in Events, NEW rows, NEW bare,
         InputsAgree(some, q, rows, bare), InputsTell(some, e, others), e.type # Renames
  PROVE  InputsAgree(others, Append(q, e), rows, bare)
<1> DEFINE longer == Append(q, e)
<1>1. \A types, name : WithoutOf(longer, types, name) =>
        WithoutOf(q, types, name) /\ ~(e.type \in types /\ e.name = name)
  BY LatestOfInAppend
<1>2. \A x \in ToSet(some) : ~(e.type = Removes /\ e.name = x.name) => \E y \in ToSet(others) : y.name = x.name
  BY DEF InputsTell, InputAlike
<1>3. \A y \in ToSet(others) :
        \/ e.type = Creates /\ e.name = y.name
        \/ \E x \in ToSet(some) : /\ x.name = y.name
                                  /\ ~(e.type = Mutes /\ e.name = x.name) => y.muted = x.muted
                                  /\ ~(e.type = Turns /\ e.name = x.name) => y.mul = x.mul
  BY DEF InputsTell, InputAlike
<1>4. e.type = Creates => \A x \in ToSet(some) : x.name # e.name
  BY DEF InputsTell
<1> HIDE DEF longer
<1>5. \A name : /\ WithoutOf(longer, {Mutes, Removes}, name) => WithoutOf(longer, {Removes}, name)
                /\ WithoutOf(longer, {Turns, Removes}, name) => WithoutOf(longer, {Removes}, name)
  BY DEF WithoutOf
<1>6. ASSUME NEW s \in ToSet(rows), WithoutOf(longer, {Removes}, s.name)
      PROVE  \E y \in ToSet(others) : y.name = s.name
  <2>1. PICK x \in ToSet(some) : x.name = s.name
    BY <1>1, <1>6 DEF InputsAgree
  <2> QED BY <1>1, <1>2, <1>6, <2>1
<1>7. ASSUME NEW y \in ToSet(others), WithoutOf(longer, {Creates}, y.name)
      PROVE  \E s \in ToSet(rows) : s.name = y.name
  <2>1. PICK x \in ToSet(some) : x.name = y.name
    BY <1>1, <1>3, <1>7
  <2> QED BY <1>1, <1>7, <2>1 DEF InputsAgree
<1>8. ASSUME NEW s \in ToSet(rows), NEW y \in ToSet(others), s.name = y.name
      PROVE  /\ WithoutOf(longer, {Mutes, Removes}, y.name) =>
                  s.muted = {y.muted} \/ (s.muted = {} /\ s.name \in bare)
             /\ WithoutOf(longer, {Turns, Removes}, y.name) =>
                  s.percent = SetLevel(y.mul) \/ (s.percent = {} /\ s.name \in bare)
  <2>1. CASE e.type = Creates /\ e.name = y.name
    <3>1. WithoutOf(longer, {Removes}, y.name) => \E x \in ToSet(some) : x.name = s.name
      BY <1>1, <1>8 DEF InputsAgree
    <3>2. ~WithoutOf(longer, {Removes}, y.name)
      BY <1>4, <1>8, <2>1, <3>1
    <3> QED BY <1>5, <3>2
  <2>2. CASE \E x \in ToSet(some) : /\ x.name = y.name
                                    /\ ~(e.type = Mutes /\ e.name = x.name) => y.muted = x.muted
                                    /\ ~(e.type = Turns /\ e.name = x.name) => y.mul = x.mul
    <3>1. PICK x \in ToSet(some) : /\ x.name = y.name
                                   /\ ~(e.type = Mutes /\ e.name = x.name) => y.muted = x.muted
                                   /\ ~(e.type = Turns /\ e.name = x.name) => y.mul = x.mul
      BY <2>2
    <3>2. /\ WithoutOf(q, {Mutes, Removes}, x.name) =>
               s.muted = {x.muted} \/ (s.muted = {} /\ s.name \in bare)
          /\ WithoutOf(q, {Turns, Removes}, x.name) =>
               s.percent = SetLevel(x.mul) \/ (s.percent = {} /\ s.name \in bare)
      BY ZenonT(60), <1>8, <3>1 DEF InputsAgree
    <3> QED BY <1>1, <3>1, <3>2
  <2> QED BY <1>3, <2>1, <2>2
<1> QED BY <1>6, <1>7, <1>8 DEF InputsAgree, longer

LEMMA InputsAgreeAfterFold ==
  ASSUME NEW inputs, Distinct(inputs), NEW q \in Seq(Events), q # << >>, NEW snap \in Snapshots,
         Distinct(snap.inputs), NEW bare, NEW out \in Seq(AudioState), out = Folded(snap, q[1]).inputs,
         InputsTold(inputs, q), Without(q, {Renames}), q[1].type \in InputEvents => Plain(q[1].name),
         InputsAgree(inputs, q, snap.inputs, bare)
  PROVE  InputsAgree(inputs, Tail(q), out, BareAfter(bare, snap.inputs, out))
<1> DEFINE rest == Tail(q)
           raw == q[1]
           n == raw.name
           rows == snap.inputs
           after == BareAfter(bare, rows, out)
<1>1. raw \in Events /\ 1 \in DOMAIN q
  BY TailOf, Elements
<1>2. \A types, name : WithoutOf(rest, types, name) =>
        /\ LatestOf(q, 1, types, name)
        /\ ~(raw.type \in types /\ n = name) => WithoutOf(q, types, name)
  BY LatestOfInTail
<1>3. RowsChange(rows, raw, n, out)
  <2>1. CASE raw.type \in InputEvents
    <3>1. Usable(n) /\ Trim(n) = n
      BY <2>1 DEF Plain
    <3> QED BY <1>1, <2>1, <3>1, FoldedInputs
  <2>2. CASE raw.type \notin InputEvents
    <3>1. out = rows
      BY <1>1, <2>2, FoldedInputs
    <3>2. raw.type \notin {Mutes, Turns, Creates, Removes}
      BY <2>2 DEF InputEvents, Mutes, Turns, Creates, Removes
    <3> QED BY <3>1, <3>2 DEF RowsChange, RowAlike
  <2> QED BY <2>1, <2>2
<1>4. \A t \in ToSet(out) : t.name \in bare \/ (\A s \in ToSet(rows) : s.name # t.name) => t.name \in after
  BY <1>1, BareStays
<1>5. BareInput(n).name = n /\ BareInput(n).muted = {} /\ BareInput(n).percent = {}
  BY DEF BareInput
<1> HIDE DEF rest, raw, n, rows, after
<1>6. \A t \in ToSet(out) :
        \/ /\ raw.type = Creates /\ t.name = n /\ t.muted = {} /\ t.percent = {}
           /\ \A s \in ToSet(rows) : s.name # t.name
        \/ /\ ~(raw.type = Removes /\ t.name = n)
           /\ \E s \in ToSet(rows) : RowAlike(s, t, raw, n)
  <2> TAKE t \in ToSet(out)
  <2>1. raw.type \in {Creates, Removes} => RowAlike(t, t, raw, n)
    BY DEF RowAlike, Mutes, Turns, Creates, Removes
  <2>2. CASE raw.type = Creates
    BY <1>3, <1>5, <2>1, <2>2 DEF RowsChange, Creates, Removes
  <2>3. CASE raw.type = Removes
    BY <1>3, <2>1, <2>3 DEF RowsChange
  <2>4. CASE raw.type \notin {Creates, Removes}
    BY <1>3, <2>4 DEF RowsChange
  <2> QED BY <2>2, <2>3, <2>4
<1>7. \A s \in ToSet(rows) : ~(raw.type = Removes /\ s.name = n) => \E t \in ToSet(out) : t.name = s.name
  BY <1>3 DEF RowsChange, RowAlike
<1>8. raw.type = Creates => \E t \in ToSet(out) : t.name = n
  BY <1>3, <1>5 DEF RowsChange
<1>9. /\ raw.type = Mutes /\ LatestOf(q, 1, {Mutes, Removes}, n) =>
           \E x \in ToSet(inputs) : x.name = n /\ x.muted = raw.value
      /\ raw.type = Turns /\ LatestOf(q, 1, {Turns, Removes}, n) =>
           \E x \in ToSet(inputs) : x.name = n /\ x.mul = raw.value
      /\ raw.type = Creates /\ LatestOf(q, 1, {Removes}, n) => \E x \in ToSet(inputs) : x.name = n
      /\ raw.type = Removes /\ LatestOf(q, 1, {Creates}, n) => \A x \in ToSet(inputs) : x.name # n
  BY <1>1 DEF InputsTold, raw, n
<1>10. /\ \A s \in ToSet(rows) : WithoutOf(q, {Removes}, s.name) => \E x \in ToSet(inputs) : x.name = s.name
       /\ \A x \in ToSet(inputs) : WithoutOf(q, {Creates}, x.name) => \E s \in ToSet(rows) : s.name = x.name
       /\ \A s \in ToSet(rows), x \in ToSet(inputs) : s.name = x.name =>
            /\ WithoutOf(q, {Mutes, Removes}, x.name) =>
                 s.muted = {x.muted} \/ (s.muted = {} /\ s.name \in bare)
            /\ WithoutOf(q, {Turns, Removes}, x.name) =>
                 s.percent = SetLevel(x.mul) \/ (s.percent = {} /\ s.name \in bare)
  BY DEF InputsAgree, rows
<1>11. ASSUME NEW t \in ToSet(out), WithoutOf(rest, {Removes}, t.name)
       PROVE  \E x \in ToSet(inputs) : x.name = t.name
  <2>1. CASE raw.type = Creates /\ t.name = n
    BY <1>2, <1>9, <1>11, <2>1
  <2>2. CASE ~(raw.type = Removes /\ t.name = n) /\ \E s \in ToSet(rows) : RowAlike(s, t, raw, n)
    <3>1. PICK s \in ToSet(rows) : s.name = t.name
      BY <2>2 DEF RowAlike
    <3>2. WithoutOf(q, {Removes}, s.name)
      BY <1>2, <1>11, <2>2, <3>1
    <3> QED BY <1>10, <3>1, <3>2
  <2> QED BY <1>6, <2>1, <2>2
<1>12. ASSUME NEW x \in ToSet(inputs), WithoutOf(rest, {Creates}, x.name)
       PROVE  \E t \in ToSet(out) : t.name = x.name
  <2>1. CASE raw.type = Creates /\ n = x.name
    BY <1>8, <2>1
  <2>2. CASE raw.type = Removes /\ n = x.name
    BY <1>2, <1>9, <1>12, <2>2
  <2>3. CASE ~(raw.type = Creates /\ n = x.name) /\ ~(raw.type = Removes /\ n = x.name)
    <3>1. WithoutOf(q, {Creates}, x.name)
      BY <1>2, <1>12, <2>3
    <3>2. PICK s \in ToSet(rows) : s.name = x.name
      BY <1>10, <3>1
    <3> QED BY <1>7, <2>3, <3>2
  <2> QED BY <2>1, <2>2, <2>3
<1>13. ASSUME NEW t \in ToSet(out), NEW x \in ToSet(inputs), t.name = x.name
       PROVE  /\ WithoutOf(rest, {Mutes, Removes}, x.name) =>
                   t.muted = {x.muted} \/ (t.muted = {} /\ t.name \in after)
              /\ WithoutOf(rest, {Turns, Removes}, x.name) =>
                   t.percent = SetLevel(x.mul) \/ (t.percent = {} /\ t.name \in after)
  <2>1. CASE t.muted = {} /\ t.percent = {} /\ \A s \in ToSet(rows) : s.name # t.name
    BY <1>4, <2>1
  <2>2. CASE ~(raw.type = Removes /\ t.name = n) /\ \E s \in ToSet(rows) : RowAlike(s, t, raw, n)
    <3>1. PICK s \in ToSet(rows) : RowAlike(s, t, raw, n)
      BY <2>2
    <3>2. s.name = x.name /\ s.name = t.name /\ (s.name \in bare => t.name \in after)
      BY <1>4, <1>13, <3>1 DEF RowAlike
    <3>3. ASSUME WithoutOf(rest, {Mutes, Removes}, x.name)
          PROVE  t.muted = {x.muted} \/ (t.muted = {} /\ t.name \in after)
      <4>1. CASE raw.type = Mutes /\ n = x.name
        <5>1. PICK y \in ToSet(inputs) : y.name = n /\ y.muted = raw.value
          BY <1>2, <1>9, <3>3, <4>1
        <5>2. y = x
          BY <4>1, <5>1, OneOfTheName
        <5> QED BY <3>1, <3>2, <4>1, <5>1, <5>2 DEF RowAlike
      <4>2. CASE ~(raw.type = Mutes /\ n = x.name)
        <5>1. WithoutOf(q, {Mutes, Removes}, x.name)
          BY <1>2, <1>13, <2>2, <3>3, <4>2
        <5>2. t.muted = s.muted
          BY <3>1, <3>2, <4>2 DEF RowAlike
        <5> QED BY <1>10, <3>2, <5>1, <5>2
      <4> QED BY <4>1, <4>2
    <3>4. ASSUME WithoutOf(rest, {Turns, Removes}, x.name)
          PROVE  t.percent = SetLevel(x.mul) \/ (t.percent = {} /\ t.name \in after)
      <4>1. CASE raw.type = Turns /\ n = x.name
        <5>1. PICK y \in ToSet(inputs) : y.name = n /\ y.mul = raw.value
          BY <1>2, <1>9, <3>4, <4>1
        <5>2. y = x
          BY <4>1, <5>1, OneOfTheName
        <5> QED BY <3>1, <3>2, <4>1, <5>1, <5>2 DEF RowAlike
      <4>2. CASE ~(raw.type = Turns /\ n = x.name)
        <5>1. WithoutOf(q, {Turns, Removes}, x.name)
          BY <1>2, <1>13, <2>2, <3>4, <4>2
        <5>2. t.percent = s.percent
          BY <3>1, <3>2, <4>2 DEF RowAlike
        <5> QED BY <1>10, <3>2, <5>1, <5>2
      <4> QED BY <4>1, <4>2
    <3> QED BY <3>3, <3>4
  <2> QED BY <1>6, <2>1, <2>2
<1> QED BY <1>11, <1>12, <1>13 DEF InputsAgree, rest, raw, rows, after, n

LEMMA FetchedIs ==
  ASSUME NEW o \in ObsStates, NEW name \in Clean
  PROVE  /\ FetchedInput(o, name) \in AudioState /\ FetchedInput(o, name).name = name
         /\ \A x \in ToSet(o.inputs) : Distinct(o.inputs) /\ x.name = name =>
              /\ FetchedInput(o, name).muted = {x.muted} /\ FetchedInput(o, name).percent = SetLevel(x.mul)
<1> DEFINE i == ConfigOf(o.inputs, name)
           f == FetchedInput(o, name)
           b == BareInput(name)
<1>1. b = [name |-> name, alias |-> None, shortcut |-> None, muted |-> {}, percent |-> {}]
  BY DEF BareInput
<1>2. f = IF i = 0 THEN b ELSE [b EXCEPT !.muted = {o.inputs[i].muted}, !.percent = SetLevel(o.inputs[i].mul)]
  BY DEF FetchedInput
<1>3. IF i = 0 THEN \A k \in DOMAIN o.inputs : o.inputs[k].name # name
      ELSE i \in DOMAIN o.inputs /\ o.inputs[i].name = name
  BY ConfigOfIn DEF ObsStates
<1> HIDE DEF i, f, b
<1>4. f.name = name
  BY <1>1, <1>2
<1>5. ASSUME NEW x \in ToSet(o.inputs), Distinct(o.inputs), x.name = name
      PROVE  f.muted = {x.muted} /\ f.percent = SetLevel(x.mul)
  <2>1. PICK k \in DOMAIN o.inputs : o.inputs[k] = x
    BY DEF ToSet
  <2>2. i # 0 /\ o.inputs[i] = x
    BY <1>3, <1>5, <2>1 DEF Distinct
  <2> QED BY <1>1, <1>2, <2>2
<1> QED BY <1>4, <1>5, FetchedIsAudio DEF f

\* The inputs a refresh reads.
LEMMA BuiltInputs ==
  ASSUME NEW o \in ObsStates, NEW c, \A i \in DOMAIN o.inputs : Usable(o.inputs[i].name)
  PROVE  LET rows == BuildSnapshot(o, Projection(c)).inputs  p == Projection(c)
         IN /\ DOMAIN rows = DOMAIN o.inputs /\ Len(rows) = Len(o.inputs)
            /\ \A i \in DOMAIN o.inputs :
                 LET name == Trim(o.inputs[i].name)  f == FetchedInput(o, name)
                 IN name \in Clean /\ rows[i] = [name |-> name, alias |-> AliasOf(name, p),
                      shortcut |-> ShortcutOf(name, p), muted |-> f.muted, percent |-> f.percent]
<1> DEFINE p == Projection(c)
           rows == BuildSnapshot(o, p).inputs
           names == Trimmed(NamesOf(o.inputs))
<1>1. rows = [i \in DOMAIN names |-> ApplyAudioConfig(FetchedInput(o, names[i]), p)]
  BY DEF BuildSnapshot
<1>2. o.inputs \in Seq(Input)
  BY DEF ObsStates
<1>3. /\ DOMAIN names = DOMAIN o.inputs /\ DOMAIN o.inputs = 1 .. Len(o.inputs) /\ Len(o.inputs) \in Nat
      /\ \A i \in DOMAIN o.inputs : names[i] = Trim(o.inputs[i].name) /\ names[i] \in Clean
  <2>1. /\ NamesOf(o.inputs) \in Seq(Text) /\ DOMAIN NamesOf(o.inputs) = DOMAIN o.inputs
        /\ \A i \in DOMAIN o.inputs : NamesOf(o.inputs)[i] = o.inputs[i].name
    BY <1>2, InputNames DEF NamesOf
  <2>2. \A i \in DOMAIN o.inputs : names[i] = Trim(NamesOf(o.inputs)[i])
    BY <2>1 DEF Trimmed
  <2> QED BY <1>2, <2>1, <2>2, TrimmedNames, Elements
<1> HIDE DEF names
<1>4. DOMAIN rows = DOMAIN o.inputs
  BY <1>1, <1>3
<1>5. Len(rows) = Len(o.inputs)
  <2>1. rows \in Seq({rows[i] : i \in DOMAIN rows}) /\ DOMAIN rows = 1 .. Len(o.inputs)
    BY <1>1, <1>3
  <2> QED BY <1>3, <2>1
<1>6. ASSUME NEW i \in DOMAIN o.inputs
      PROVE  LET name == Trim(o.inputs[i].name)  f == FetchedInput(o, name)
             IN name \in Clean /\ rows[i] = [name |-> name, alias |-> AliasOf(name, p),
                  shortcut |-> ShortcutOf(name, p), muted |-> f.muted, percent |-> f.percent]
  <2> DEFINE name == Trim(o.inputs[i].name)
             f == FetchedInput(o, name)
  <2>1. rows[i] = ApplyAudioConfig(f, p) /\ name \in Clean
    BY <1>1, <1>3
  <2> HIDE DEF name, rows, p
  <2>2. f \in AudioState /\ f.name = name
    BY <2>1, FetchedIs
  <2> HIDE DEF f
  <2>3. rows[i] = [name |-> name, alias |-> AliasOf(name, p), shortcut |-> ShortcutOf(name, p),
                   muted |-> f.muted, percent |-> f.percent]
    BY <2>1, <2>2, AudioIs
  <2> QED BY <2>1, <2>3 DEF name, f
<1> QED BY <1>4, <1>5, <1>6

LEMMA InputsWhenBuilt ==
  ASSUME NEW o \in ObsStates, NEW c, Readable(o)
  PROVE  LET rows == BuildSnapshot(o, Projection(c)).inputs
         IN /\ Distinct(rows) /\ AliasesAre(rows, c, {})
            /\ \A q : Distinct(o.inputs) /\ (\A i \in DOMAIN o.inputs : Plain(o.inputs[i].name)) =>
                 InputsAgree(o.inputs, q, rows, {})
<1> DEFINE p == Projection(c)
           rows == BuildSnapshot(o, p).inputs
           Name(i) == Trim(o.inputs[i].name)
<1>1. /\ \A i \in DOMAIN o.inputs : Usable(o.inputs[i].name)
      /\ \A i, j \in DOMAIN o.inputs : i # j => Name(i) # Name(j)
  <2>1. /\ DOMAIN NamesOf(o.inputs) = DOMAIN o.inputs
        /\ \A i \in DOMAIN o.inputs : NamesOf(o.inputs)[i] = o.inputs[i].name
    BY InputNames DEF NamesOf, ObsStates
  <2> QED BY <2>1 DEF Readable, UniqueNames
<1>2. /\ DOMAIN rows = DOMAIN o.inputs
      /\ \A i \in DOMAIN o.inputs :
           /\ Name(i) \in Clean
           /\ rows[i] = [name |-> Name(i), alias |-> AliasOf(Name(i), p), shortcut |-> ShortcutOf(Name(i), p),
                         muted |-> FetchedInput(o, Name(i)).muted, percent |-> FetchedInput(o, Name(i)).percent]
  BY <1>1, BuiltInputs
<1> HIDE DEF rows, p, Name
<1>3. \A i \in DOMAIN o.inputs :
        /\ rows[i].name = Name(i) /\ rows[i].alias = AliasOf(Name(i), p) /\ rows[i].shortcut = ShortcutOf(Name(i), p)
        /\ rows[i].muted = FetchedInput(o, Name(i)).muted /\ rows[i].percent = FetchedInput(o, Name(i)).percent
  <2> TAKE i \in DOMAIN o.inputs
  <2> DEFINE name == Name(i)
             f == FetchedInput(o, name)
             muted == f.muted
             percent == f.percent
  <2>1. rows[i] = [name |-> name, alias |-> AliasOf(name, p), shortcut |-> ShortcutOf(name, p),
                   muted |-> muted, percent |-> percent]
    BY <1>2
  <2> HIDE DEF name, f, muted, percent
  <2>2. /\ rows[i].name = name /\ rows[i].alias = AliasOf(name, p) /\ rows[i].shortcut = ShortcutOf(name, p)
        /\ rows[i].muted = muted /\ rows[i].percent = percent
    BY <2>1
  <2> QED BY <2>2 DEF name, f, muted, percent
<1>4. Distinct(rows)
  BY <1>1, <1>2, <1>3 DEF Distinct
<1>5. AliasesAre(rows, c, {})
  BY <1>2, <1>3 DEF AliasesAre, ToSet, p
<1>6. ASSUME NEW q, Distinct(o.inputs), \A i \in DOMAIN o.inputs : Plain(o.inputs[i].name)
      PROVE  InputsAgree(o.inputs, q, rows, {})
  <2>1. \A i \in DOMAIN o.inputs : Name(i) = o.inputs[i].name
    BY <1>6 DEF Plain, Name
  <2>2. \A i \in DOMAIN o.inputs : /\ rows[i].muted = {o.inputs[i].muted}
                                   /\ rows[i].percent = SetLevel(o.inputs[i].mul)
    <3> TAKE i \in DOMAIN o.inputs
    <3>1. o.inputs[i] \in ToSet(o.inputs)
      BY DEF ToSet
    <3> DEFINE x == o.inputs[i]
               name == Name(i)
    <3>2. name \in Clean /\ x.name = name
      BY <1>2, <2>1
    <3> HIDE DEF x, name
    <3>3. FetchedInput(o, name).muted = {x.muted} /\ FetchedInput(o, name).percent = SetLevel(x.mul)
      BY <1>6, <3>1, <3>2, FetchedIs DEF x
    <3> QED BY <1>3, <3>3 DEF x, name
  <2>3. \A s \in ToSet(rows) : \E i \in DOMAIN o.inputs : s = rows[i]
    BY <1>2 DEF ToSet
  <2>4. \A x \in ToSet(o.inputs) : \E i \in DOMAIN o.inputs : x = o.inputs[i] /\ rows[i] \in ToSet(rows)
    BY <1>2 DEF ToSet
  <2>5. \A s \in ToSet(rows) : \E x \in ToSet(o.inputs) : x.name = s.name
    BY <1>3, <2>1, <2>3 DEF ToSet
  <2>6. \A x \in ToSet(o.inputs) : \E s \in ToSet(rows) : s.name = x.name
    BY <1>3, <2>1, <2>4
  <2>7. \A s \in ToSet(rows), x \in ToSet(o.inputs) : s.name = x.name =>
          s.muted = {x.muted} /\ s.percent = SetLevel(x.mul)
    <3> TAKE s \in ToSet(rows), x \in ToSet(o.inputs)
    <3> HAVE s.name = x.name
    <3>1. PICK i \in DOMAIN o.inputs : s = rows[i]
      BY <2>3
    <3>2. x = o.inputs[i]
      BY <1>3, <1>6, <2>1, <2>4, <3>1 DEF Distinct
    <3> QED BY <2>2, <3>1, <3>2
  <2> QED BY <2>5, <2>6, <2>7 DEF InputsAgree
<1> QED BY <1>4, <1>5, <1>6 DEF rows, p

LEMMA NotLonger ==
  ASSUME NEW S, NEW s \in Seq(S), NEW T, NEW t \in Seq(T), Distinct(s),
         \A i \in DOMAIN s : \E j \in DOMAIN t : t[j].name = s[i].name
  PROVE  Len(s) <= Len(t)
<1> DEFINE m == Len(s)
           n == Len(t)
           at == [i \in 1 .. m |-> CHOOSE j \in 1 .. n : t[j].name = s[i].name]
<1>1. DOMAIN s = 1 .. m /\ DOMAIN t = 1 .. n /\ m \in Nat /\ n \in Nat
  OBVIOUS
<1>2. \A i \in 1 .. m : at[i] \in 1 .. n /\ t[at[i]].name = s[i].name
  BY <1>1
<1> HIDE DEF m, n
<1>3. at \in [1 .. m -> 1 .. n]
  BY <1>2
<1> HIDE DEF at
<1>4. ASSUME NEW i \in 1 .. m, NEW j \in 1 .. m, at[i] = at[j]
      PROVE  i = j
  <2>1. s[i].name = s[j].name
    BY <1>2, <1>4
  <2> QED BY <1>1, <2>1 DEF Distinct
<1>5. /\ IsFiniteSet(1 .. n) /\ IsFiniteSet(1 .. m)
      /\ Cardinality(1 .. n) = n /\ Cardinality(1 .. m) = m
  BY <1>1, FS_Interval
<1>6. ~(Cardinality(1 .. n) < Cardinality(1 .. m))
  BY <1>3, <1>4, <1>5, FS_PigeonHole
<1>7. m <= n
  BY <1>1, <1>5, <1>6
<1> QED BY <1>7 DEF m, n

\* With nothing queued the inputs are those a refresh would read.
LEMMA InputsAtRest ==
  ASSUME NEW o \in ObsStates, Distinct(o.inputs), \A i \in DOMAIN o.inputs : Plain(o.inputs[i].name),
         NEW rows \in Seq(AudioState), Distinct(rows), NEW c, NEW bare,
         AliasesAre(rows, c, bare), InputsAgree(o.inputs, << >>, rows, bare)
  PROVE  LET built == BuildSnapshot(o, Projection(c)).inputs
         IN /\ {s \in ToSet(rows) : s.name \notin bare} = {b \in ToSet(built) : b.name \notin bare}
            /\ \A s \in ToSet(rows) : \E b \in ToSet(built) :
                 /\ b.name = s.name /\ s.muted \subseteq b.muted /\ s.percent \subseteq b.percent
                 /\ s.alias \in {None, b.alias}
            /\ Len(rows) = Len(built)
<1> DEFINE p == Projection(c)
           built == BuildSnapshot(o, p).inputs
           Full(x) == [name |-> x.name, alias |-> AliasOf(x.name, p), shortcut |-> ShortcutOf(x.name, p),
                       muted |-> {x.muted}, percent |-> SetLevel(x.mul)]
<1>1. DOMAIN built = DOMAIN o.inputs /\ Len(built) = Len(o.inputs)
      /\ \A i \in DOMAIN o.inputs : built[i] = Full(o.inputs[i])
  <2>1. \A i \in DOMAIN o.inputs : Usable(o.inputs[i].name)
    BY DEF Plain
  <2>2. /\ DOMAIN built = DOMAIN o.inputs /\ Len(built) = Len(o.inputs)
        /\ \A i \in DOMAIN o.inputs :
             LET name == Trim(o.inputs[i].name)  f == FetchedInput(o, name)
             IN name \in Clean /\ built[i] = [name |-> name, alias |-> AliasOf(name, p),
                  shortcut |-> ShortcutOf(name, p), muted |-> f.muted, percent |-> f.percent]
    BY <2>1, BuiltInputs
  <2> HIDE DEF built, p
  <2>3. ASSUME NEW i \in DOMAIN o.inputs PROVE built[i] = Full(o.inputs[i])
    <3> DEFINE x == o.inputs[i]
               name == x.name
               f == FetchedInput(o, name)
    <3>1. Trim(name) = name /\ x \in ToSet(o.inputs)
      BY DEF Plain, ToSet
    <3>2. name \in Clean /\ built[i] = [name |-> name, alias |-> AliasOf(name, p),
                  shortcut |-> ShortcutOf(name, p), muted |-> f.muted, percent |-> f.percent]
      BY <2>2, <3>1
    <3> HIDE DEF x
    <3>3. f.muted = {x.muted} /\ f.percent = SetLevel(x.mul)
      BY <3>1, <3>2, FetchedIs
    <3> QED BY <3>2, <3>3 DEF x
  <2> QED BY <2>2, <2>3
<1> HIDE DEF built, p
<1>2. /\ \A x \in ToSet(o.inputs) : Full(x) \in ToSet(built)
      /\ \A b \in ToSet(built) : \E x \in ToSet(o.inputs) : b = Full(x)
  BY <1>1 DEF ToSet
<1>3. \A types, name : WithoutOf(<< >>, types, name)
  BY DEF WithoutOf
<1>4. \A s \in ToSet(rows) : \E x \in ToSet(o.inputs) : x.name = s.name
  BY <1>3 DEF InputsAgree
<1>5. \A x \in ToSet(o.inputs) : \E s \in ToSet(rows) : s.name = x.name
  BY <1>3 DEF InputsAgree
<1>6. \A s \in ToSet(rows), x \in ToSet(o.inputs) : s.name = x.name =>
        /\ s.muted = {x.muted} \/ (s.muted = {} /\ s.name \in bare)
        /\ s.percent = SetLevel(x.mul) \/ (s.percent = {} /\ s.name \in bare)
  BY <1>3 DEF InputsAgree
<1>7. ASSUME NEW s \in ToSet(rows), NEW x \in ToSet(o.inputs), s.name = x.name, s.name \notin bare
      PROVE  s = Full(x)
  <2>1. s.muted = {x.muted} /\ s.percent = SetLevel(x.mul)
    BY <1>6, <1>7
  <2>2. s.alias = AliasOf(x.name, p) /\ s.shortcut = ShortcutOf(x.name, p)
    BY <1>7 DEF AliasesAre, p
  <2>3. s \in AudioState
    BY Elements
  <2>4. s = [name |-> s.name, alias |-> s.alias, shortcut |-> s.shortcut, muted |-> s.muted, percent |-> s.percent]
    BY <2>3 DEF AudioState
  <2> QED BY <1>7, <2>1, <2>2, <2>4
<1>8. \A x : /\ Full(x).name = x.name /\ Full(x).alias = AliasOf(x.name, p)
             /\ Full(x).muted = {x.muted} /\ Full(x).percent = SetLevel(x.mul)
  <2> TAKE x
  <2> DEFINE name == x.name
             muted == x.muted
             level == SetLevel(x.mul)
  <2>1. Full(x) = [name |-> name, alias |-> AliasOf(name, p), shortcut |-> ShortcutOf(name, p),
                   muted |-> {muted}, percent |-> level]
    OBVIOUS
  <2> HIDE DEF name, muted, level, Full
  <2>2. /\ Full(x).name = name /\ Full(x).alias = AliasOf(name, p)
        /\ Full(x).muted = {muted} /\ Full(x).percent = level
    BY <2>1
  <2> QED BY <2>2 DEF name, muted, level
<1> HIDE DEF Full
<1>9. \A s \in ToSet(rows) : s.name \notin bare => s \in ToSet(built)
  BY <1>2, <1>4, <1>7
<1>10. \A b \in ToSet(built) : b.name \notin bare => b \in ToSet(rows)
  <2> TAKE b \in ToSet(built)
  <2> HAVE b.name \notin bare
  <2>1. PICK x \in ToSet(o.inputs) : b = Full(x)
    BY <1>2
  <2>2. PICK s \in ToSet(rows) : s.name = x.name
    BY <1>5
  <2> QED BY <1>7, <1>8, <2>1, <2>2
<1>11. ASSUME NEW s \in ToSet(rows)
       PROVE  \E b \in ToSet(built) : /\ b.name = s.name /\ s.muted \subseteq b.muted /\ s.percent \subseteq b.percent
                                      /\ s.alias \in {None, b.alias}
  <2>1. PICK x \in ToSet(o.inputs) : x.name = s.name
    BY <1>4
  <2>2. s.muted \subseteq {x.muted} /\ s.percent \subseteq SetLevel(x.mul)
    BY <1>6, <2>1
  <2>3. s.alias \in {None, AliasOf(x.name, p)}
    BY <2>1 DEF AliasesAre, p
  <2> QED BY <1>2, <1>8, <2>1, <2>2, <2>3
<1>12. Len(rows) = Len(built)
  <2>1. o.inputs \in Seq(Input) /\ Len(rows) \in Nat /\ Len(o.inputs) \in Nat
    BY DEF ObsStates
  <2>2. \A i \in DOMAIN rows : \E j \in DOMAIN o.inputs : o.inputs[j].name = rows[i].name
    BY <1>4 DEF ToSet
  <2>3. \A j \in DOMAIN o.inputs : \E i \in DOMAIN rows : rows[i].name = o.inputs[j].name
    BY <1>5 DEF ToSet
  <2>4. Len(rows) <= Len(o.inputs)
    BY <2>1, <2>2, NotLonger
  <2>5. Len(o.inputs) <= Len(rows)
    BY <2>1, <2>3, NotLonger
  <2> QED BY <1>1, <2>1, <2>4, <2>5
<1> QED BY <1>9, <1>10, <1>11, <1>12 DEF built, p

\* With nothing queued, and no refresh due, so are the lists.
LEMMA ListsAtRest ==
  ASSUME NEW o \in ObsStates, NEW snap \in Snapshots, NEW c, Sound(c), RowsAre(snap, c),
         ListsAgree(o, << >>, snap, FALSE)
  PROVE  LET built == BuildSnapshot(o, Projection(c))
         IN /\ snap.scenes = built.scenes /\ snap.current = built.current
            /\ snap.streaming = built.streaming /\ snap.recording = built.recording
            /\ \A kind \in Selections :
                 /\ snap.selection[kind].names = built.selection[kind].names
                 /\ Plain(o.selection[kind].current) =>
                      snap.selection[kind].current = built.selection[kind].current
<1> DEFINE p == Projection(c)
           built == BuildSnapshot(o, p)
           names == Trimmed(o.scenes)
<1>1. /\ built.current = Trim(o.current) /\ built.streaming = o.streaming /\ built.recording = o.recording
      /\ \A kind \in Selections : built.selection[kind] = FetchedSelection(o.selection[kind])
      /\ built.scenes = [i \in DOMAIN names |-> ApplySceneConfig(BareScene(names[i], Trim(o.current)), p)]
  BY DEF BuildSnapshot
<1>2. \A types : Without(<< >>, types)
  BY DEF Without
<1> HIDE DEF built, names, p
<1>3. /\ NamesOf(snap.scenes) = names /\ snap.current = Trim(o.current)
      /\ snap.streaming = o.streaming /\ snap.recording = o.recording
      /\ \A kind \in Selections :
           /\ snap.selection[kind].names = FetchedSelection(o.selection[kind]).names
           /\ Plain(o.selection[kind].current) => snap.selection[kind].current = o.selection[kind].current
  BY <1>2 DEF ListsAgree, names
<1>4. snap.scenes = built.scenes
  <2>1. DOMAIN snap.scenes = DOMAIN names /\ \A i \in DOMAIN names : snap.scenes[i].name = names[i]
    BY <1>3 DEF NamesOf
  <2>2. \A i \in DOMAIN names : snap.scenes[i] = ApplySceneConfig(BareScene(names[i], Trim(o.current)), p)
    BY <1>3, <2>1 DEF RowsAre, p
  <2>3. snap.scenes = [i \in DOMAIN snap.scenes |-> snap.scenes[i]]
    BY DEF Snapshots
  <2> QED BY <1>1, <2>1, <2>2, <2>3
<1>5. \A s : FetchedSelection(s).current = s.current
  BY DEF FetchedSelection
<1> QED BY <1>1, <1>3, <1>4, <1>5 DEF built, p

-----------------------------------------------------------------------------
(* What the daemon has, what is queued for it and what OBS has agree.      *)

\* Nothing queued is a rename, and no input has blanks around its name.
Ordinary(inputs, q) ==
  /\ Without(q, {Renames})
  /\ \A i \in DOMAIN q : q[i].type \in InputEvents => Plain(q[i].name)
  /\ \A i \in DOMAIN inputs : Plain(inputs[i].name)

\* OBS's current scene is one it has, its inputs are told apart by their names,
\* and the queue ends with what it has now.
Tracks(o, q) ==
  /\ o.current \in ToSet(o.scenes) /\ Distinct(o.inputs)
  /\ QueueTells(o, q) /\ InputsTold(o.inputs, q)

\* The rows of the snapshot are as the config has them.
RowsFit(snap, c, bare) ==
  Distinct(snap.inputs) /\ RowsAre(snap, c) /\ AliasesAre(snap.inputs, c, bare)

\* Whatever no queued event and no due refresh is about is as OBS has it.
Follows(o, q, snap, c, nud, s) ==
  /\ snap.profiles = c.profiles /\ snap.active = Projection(c).active
  /\ ListsAgree(o, q, snap, nud)
  /\ ~s.strange => Ordinary(o.inputs, q) /\ InputsAgree(o.inputs, q, snap.inputs, s.bare)

FollowInv ==
  /\ DOMAIN seen = {"bare", "behind", "strange"} /\ nudge \in BOOLEAN
  /\ ~linked => events = << >>
  /\ Tracks(obs, events) /\ RowsFit(snapshot, config, seen.bare)
  /\ linked /\ ~seen.behind => Follows(obs, events, snapshot, config, nudge, seen)

LEMMA NotStrange == ~Strange <=> Ordinary(obs.inputs, events)
  BY DEF Strange, Ordinary, Without, Renames

LEMMA NothingQueued ==
  ASSUME NEW o
  PROVE  QueueTells(o, << >>) /\ InputsTold(o.inputs, << >>)
  BY DEF QueueTells, InputsTold

\* OBS changes and says so.
LEMMA TracksAfterChange ==
  ASSUME NEW o, NEW n, NEW q \in Seq(Events), NEW e \in Events, Tracks(o, q), Tells(o, e, n),
         InputsTell(o.inputs, e, n.inputs), n.current \in ToSet(n.scenes), Distinct(n.inputs)
  PROVE  Tracks(n, Append(q, e))
  BY QueueAppendTells, InputsToldAfterChange DEF Tracks

LEMMA OrdinaryAfterChange ==
  ASSUME NEW some, NEW others, NEW q \in Seq(Events), NEW e \in Events, Ordinary(some, q),
         InputsTell(some, e, others), e.type # Renames, e.type = Creates => Plain(e.name),
         e.type = Removes => \E x \in ToSet(some) : x.name = e.name
  PROVE  Ordinary(others, Append(q, e))
<1>1. Without(Append(q, e), {Renames})
  BY LatestInAppend DEF Ordinary
<1>2. \A x \in ToSet(some) : Plain(x.name)
  BY DEF Ordinary, ToSet
<1>3. e.type \in InputEvents => Plain(e.name)
  <2>1. e.type \in {Mutes, Turns, Removes} => \E x \in ToSet(some) : x.name = e.name
    BY DEF InputsTell
  <2> QED BY <1>2, <2>1 DEF InputEvents, Mutes, Turns, Removes, Creates
<1>4. \A i \in DOMAIN Append(q, e) : Append(q, e)[i].type \in InputEvents => Plain(Append(q, e)[i].name)
  <2> DEFINE longer == Append(q, e)
  <2>1. \A i \in DOMAIN longer : longer[i] = e \/ (i \in DOMAIN q /\ longer[i] = q[i])
    BY AppendOf
  <2> HIDE DEF longer
  <2>2. \A i \in DOMAIN longer : longer[i].type \in InputEvents => Plain(longer[i].name)
    BY <1>3, <2>1 DEF Ordinary
  <2> QED BY <2>2 DEF longer
<1>5. \A y \in ToSet(others) : (y.name = e.name /\ e.type = Creates) \/ \E x \in ToSet(some) : x.name = y.name
  <2>1. CASE e.type = Creates
    BY <2>1 DEF InputsTell
  <2>2. CASE e.type = Removes
    BY <2>2 DEF InputsTell
  <2>3. CASE e.type \notin {Creates, Removes, Renames}
    BY <2>3 DEF InputsTell, InputAlike
  <2> QED BY <2>1, <2>2, <2>3
<1>6. \A i \in DOMAIN others : Plain(others[i].name)
  BY <1>2, <1>5 DEF ToSet
<1> QED BY <1>1, <1>4, <1>6 DEF Ordinary

LEMMA FollowsAfterChange ==
  ASSUME NEW o, NEW n, NEW q \in Seq(Events), NEW e \in Events, Tells(o, e, n),
         InputsTell(o.inputs, e, n.inputs), NEW snap, NEW c, NEW nud, NEW s, NEW t, t.bare = s.bare,
         ~t.strange => /\ ~s.strange /\ e.type # Renames /\ (e.type = Creates => Plain(e.name))
                       /\ e.type = Removes => \E x \in ToSet(o.inputs) : x.name = e.name,
         Follows(o, q, snap, c, nud, s)
  PROVE  Follows(n, Append(q, e), snap, c, nud, t)
<1>1. ListsAgree(n, Append(q, e), snap, nud)
  BY ListsAgreeAfterChange DEF Follows
<1>2. ASSUME ~t.strange
      PROVE  Ordinary(n.inputs, Append(q, e)) /\ InputsAgree(n.inputs, Append(q, e), snap.inputs, t.bare)
  BY <1>2, OrdinaryAfterChange, InputsAgreeAfterChange DEF Follows
<1> QED BY <1>1, <1>2 DEF Follows

\* Whatever one event of OBS announces, the rest may rely on.
LEMMA ChangeKeepsFollowing ==
  ASSUME CatalogueInv, FollowInv, NEW e \in Events, Tells(obs, e, obs'),
         InputsTell(obs.inputs, e, obs'.inputs), obs'.current \in ToSet(obs'.scenes), Distinct(obs'.inputs),
         events' = IF linked THEN Append(events, e) ELSE events, UNCHANGED <<linked, config, snapshot, nudge>>,
         DOMAIN seen' = DOMAIN seen, seen'.bare = seen.bare, seen'.behind = seen.behind,
         ~seen'.strange => /\ ~seen.strange /\ e.type # Renames /\ (e.type = Creates => Plain(e.name))
                           /\ e.type = Removes => \E x \in ToSet(obs.inputs) : x.name = e.name
  PROVE  FollowInv'
<1>1. events \in Seq(Events)
  BY DEF CatalogueInv
<1>2. Tracks(obs', events')
  <2>1. CASE linked
    BY <1>1, <2>1, TracksAfterChange DEF FollowInv
  <2>2. CASE ~linked
    BY <2>2, NothingQueued DEF FollowInv, Tracks
  <2> QED BY <2>1, <2>2
<1>3. linked /\ ~seen.behind => Follows(obs', events', snapshot, config, nudge, seen')
  BY <1>1, FollowsAfterChange DEF FollowInv
<1> HIDE DEF Tracks, Follows, RowsFit
<1>4. RowsFit(snapshot, config, seen'.bare)
  BY DEF FollowInv
<1> QED BY <1>2, <1>3, <1>4 DEF FollowInv

\* A change that is not about inputs leaves them as they are; one that is leaves the rest.
LEMMA OtherChange ==
  ASSUME NEW o, NEW e
  PROVE  e.type \notin {Mutes, Turns, Creates, Removes} => InputsTell(o, e, o)
  BY DEF InputsTell, InputAlike

LEMMA InputChange ==
  ASSUME NEW o \in ObsStates, NEW inputs, NEW e, e.type \in InputEvents \cup {Renames}
  PROVE  LET n == [o EXCEPT !.inputs = inputs]
         IN Tells(o, e, n) /\ n.inputs = inputs /\ n.scenes = o.scenes /\ n.current = o.current
<1> DEFINE n == [o EXCEPT !.inputs = inputs]
<1>1. /\ n.inputs = inputs /\ n.scenes = o.scenes /\ n.current = o.current /\ n.selection = o.selection
      /\ n.streaming = o.streaming /\ n.recording = o.recording
  BY DEF ObsStates
<1>2. e.type \notin SceneEvents \cup {"StreamStateChanged", "RecordStateChanged"}
  BY DEF InputEvents, Renames, SceneEvents, Switched, SceneListEvents
<1>3. \A kind \in Selections : e.type # SelectionEvent[kind]
  BY DEF InputEvents, Renames, SelectionEvent, Selections
<1> HIDE DEF n
<1>4. Tells(o, e, n)
  BY <1>1, <1>2, <1>3 DEF Tells, SceneEvents
<1> QED BY <1>1, <1>4 DEF n

LEMMA RequestTells ==
  ASSUME NEW o \in ObsStates, Distinct(o.inputs), o.current \in ToSet(o.scenes), NEW r, IsRequest(r), Accepts(o, r)
  PROVE  LET n == Effect(o, r)  e == Announced(o, r)
         IN /\ Tells(o, e, n) /\ InputsTell(o.inputs, e, n.inputs)
            /\ n.current \in ToSet(n.scenes) /\ Distinct(n.inputs)
            /\ e.type \notin {Creates, Removes, Renames}
<1> DEFINE n == Effect(o, r)
           e == Announced(o, r)
<1>1. CASE r.request \in SceneRequests
  <2>1. n = [o EXCEPT !.current = r.name]
    BY <1>1 DEF Effect, SceneRequests, Selections
  <2>2. e = [type |-> "CurrentProgramSceneChanged", name |-> r.name]
    BY <1>1 DEF Announced, SceneRequests, Selections
  <2>3. /\ n.inputs = o.inputs /\ n.scenes = o.scenes /\ n.current = r.name /\ n.selection = o.selection
        /\ n.streaming = o.streaming /\ n.recording = o.recording
    BY <2>1 DEF ObsStates
  <2>4. e.type = "CurrentProgramSceneChanged" /\ e.name = r.name
    BY <2>2
  <2> HIDE DEF n, e
  <2>5. Tells(o, e, n)
    BY <2>3, <2>4 DEF Tells, SceneEvents, Switched, SelectionEvent, Selections
  <2>6. InputsTell(o.inputs, e, n.inputs)
    BY <2>3, <2>4, OtherChange DEF Mutes, Turns, Creates, Removes
  <2>7. r.name \in ToSet(o.scenes)
    BY <1>1 DEF Accepts, SceneRequests, Selections
  <2> QED BY <2>3, <2>4, <2>5, <2>6, <2>7 DEF n, e, Creates, Removes, Renames
<1>2. CASE r.request \in {"SetInputMute", "ToggleInputMute"}
  <2> DEFINE k == ConfigOf(o.inputs, r.name)
             v == IF r.request = "SetInputMute" THEN r.value ELSE ~o.inputs[k].muted
             inputs == [i \in DOMAIN o.inputs |->
                          IF o.inputs[i].name = r.name THEN [o.inputs[i] EXCEPT !.muted = v] ELSE o.inputs[i]]
  <2>1. r.name \in ToSet(NamesOf(o.inputs)) /\ o.inputs \in Seq(Input)
    BY <1>2 DEF Accepts, ObsStates, Selections
  <2>2. k \in DOMAIN o.inputs /\ o.inputs[k].name = r.name
    BY <2>1, InputKnown, ConfigOfIn
  <2>3. n = [o EXCEPT !.inputs = inputs]
    <3>1. CASE r.request = "SetInputMute"
      BY <3>1 DEF Effect, ChangeInput, MutedNow, Selections
    <3>2. CASE r.request = "ToggleInputMute"
      BY <3>2 DEF Effect, ChangeInput, MutedNow, Selections
    <3> QED BY <1>2, <3>1, <3>2
  <2>4. e = [type |-> "InputMuteStateChanged", name |-> r.name, value |-> MutedNow(n, r.name)]
    BY <1>2 DEF Announced, Selections
  <2> HIDE DEF k, v
  <2>5. \A i \in DOMAIN o.inputs : /\ inputs[i].name = o.inputs[i].name /\ inputs[i].mul = o.inputs[i].mul
                                   /\ inputs[i].muted = IF o.inputs[i].name = r.name THEN v ELSE o.inputs[i].muted
    BY <2>1, Elements DEF Input
  <2>6. DOMAIN inputs = DOMAIN o.inputs
    OBVIOUS
  <2> HIDE DEF inputs
  <2>8. n.inputs = inputs /\ n.scenes = o.scenes /\ n.current = o.current
    BY <2>3 DEF ObsStates
  <2>9. MutedNow(n, r.name) = v
    <3>1. k \in DOMAIN inputs /\ inputs[k].name = r.name
      BY <2>2, <2>5, <2>6
    <3>2. inputs \in Seq(Input)
      BY <2>8, EffectIsSound DEF ObsStates
    <3>3. ConfigOf(inputs, r.name) \in DOMAIN inputs /\ inputs[ConfigOf(inputs, r.name)].name = r.name
      BY <3>1, <3>2, ConfigOfIn
    <3> QED BY <2>5, <2>6, <2>8, <3>3 DEF MutedNow
  <2>10. e.type = Mutes /\ e.name = r.name /\ e.value = v
    BY <2>4, <2>9 DEF Mutes
  <2> HIDE DEF n, e
  <2>11. Distinct(n.inputs)
    BY <2>5, <2>6, <2>8, SameNamesDistinct
  <2>12. Tells(o, e, n)
    BY <2>3, <2>10, InputChange DEF InputEvents, Mutes
  <2>13. \A i \in DOMAIN o.inputs : InputAlike(o.inputs[i], inputs[i], e)
    BY <2>5, <2>10 DEF InputAlike, Mutes, Turns
  <2>14. /\ \A y \in ToSet(inputs) : \E x \in ToSet(o.inputs) : InputAlike(x, y, e)
         /\ \A x \in ToSet(o.inputs) : \E y \in ToSet(inputs) : InputAlike(x, y, e)
    BY <2>6, <2>13 DEF ToSet
  <2>15. \E x \in ToSet(o.inputs) : x.name = e.name
    BY <2>2, <2>10 DEF ToSet
  <2>16. InputsTell(o.inputs, e, n.inputs)
    BY <2>8, <2>10, <2>14, <2>15 DEF InputsTell, Mutes, Creates, Removes
  <2> QED BY <2>8, <2>10, <2>11, <2>12, <2>16 DEF n, e, Mutes, Creates, Removes, Renames
<1>3. CASE r.request = "SetInputVolume"
  <2> DEFINE inputs == [i \in DOMAIN o.inputs |->
                          IF o.inputs[i].name = r.name THEN [o.inputs[i] EXCEPT !.mul = r.value] ELSE o.inputs[i]]
  <2>1. r.name \in ToSet(NamesOf(o.inputs)) /\ o.inputs \in Seq(Input)
    BY <1>3 DEF Accepts, ObsStates, Selections
  <2>2. \E x \in ToSet(o.inputs) : x.name = r.name
    <3> DEFINE k == ConfigOf(o.inputs, r.name)
    <3>1. \E i \in DOMAIN o.inputs : o.inputs[i].name = r.name
      BY <2>1 DEF NamesOf, ToSet
    <3>2. k # 0 => k \in DOMAIN o.inputs /\ o.inputs[k].name = r.name
      BY <2>1, ConfigOfIn
    <3>3. k # 0
      BY <2>1, <3>1, ConfigOfIn
    <3> HIDE DEF k
    <3> QED BY <3>2, <3>3 DEF ToSet
  <2>3. n = [o EXCEPT !.inputs = inputs]
    BY <1>3 DEF Effect, ChangeInput, Selections
  <2>4. e = [type |-> "InputVolumeChanged", name |-> r.name, value |-> r.value]
    BY <1>3 DEF Announced, Selections
  <2>5. \A i \in DOMAIN o.inputs : /\ inputs[i].name = o.inputs[i].name /\ inputs[i].muted = o.inputs[i].muted
                                   /\ inputs[i].mul = IF o.inputs[i].name = r.name THEN r.value ELSE o.inputs[i].mul
    BY <2>1, Elements DEF Input
  <2>6. DOMAIN inputs = DOMAIN o.inputs
    OBVIOUS
  <2> HIDE DEF inputs
  <2>7. n.inputs = inputs /\ n.scenes = o.scenes /\ n.current = o.current
    BY <2>3 DEF ObsStates
  <2>8. e.type = Turns /\ e.name = r.name /\ e.value = r.value
    BY <2>4 DEF Turns
  <2> HIDE DEF n, e
  <2>9. Distinct(n.inputs)
    BY <2>5, <2>6, <2>7, SameNamesDistinct
  <2>10. Tells(o, e, n)
    BY <2>3, <2>8, InputChange DEF InputEvents, Turns
  <2>11. \A i \in DOMAIN o.inputs : InputAlike(o.inputs[i], inputs[i], e)
    BY <2>5, <2>8 DEF InputAlike, Mutes, Turns
  <2>12. /\ \A y \in ToSet(inputs) : \E x \in ToSet(o.inputs) : InputAlike(x, y, e)
         /\ \A x \in ToSet(o.inputs) : \E y \in ToSet(inputs) : InputAlike(x, y, e)
    BY <2>6, <2>11 DEF ToSet
  <2>13. InputsTell(o.inputs, e, n.inputs)
    BY <2>2, <2>7, <2>8, <2>12 DEF InputsTell, Turns, Creates, Removes
  <2> QED BY <2>7, <2>8, <2>9, <2>10, <2>13 DEF n, e, Turns, Creates, Removes, Renames
<1>4. CASE r.request \in Toggles
  <2>1. \/ n = [o EXCEPT !.streaming = ~o.streaming] /\ e = [type |-> "StreamStateChanged", value |-> ~o.streaming]
        \/ n = [o EXCEPT !.recording = ~o.recording] /\ e = [type |-> "RecordStateChanged", value |-> ~o.recording]
    BY <1>4 DEF Effect, Announced, Toggles, Selections
  <2>2. /\ n.inputs = o.inputs /\ n.scenes = o.scenes /\ n.current = o.current /\ n.selection = o.selection
        /\ \/ n.streaming = ~o.streaming /\ n.recording = o.recording /\ e.type = "StreamStateChanged" /\ e.value = ~o.streaming
           \/ n.recording = ~o.recording /\ n.streaming = o.streaming /\ e.type = "RecordStateChanged" /\ e.value = ~o.recording
    BY <2>1 DEF ObsStates
  <2> HIDE DEF n, e
  <2>3. Tells(o, e, n)
    BY <2>2 DEF Tells, SceneEvents, Switched, SceneListEvents, SelectionEvent, Selections
  <2>4. InputsTell(o.inputs, e, n.inputs)
    BY <2>2, OtherChange DEF Mutes, Turns, Creates, Removes
  <2> QED BY <2>2, <2>3, <2>4 DEF n, e, Creates, Removes, Renames
<1>5. CASE r.request \in Selections
  <2>1. r.request \notin SceneRequests \cup InputRequests \cup Toggles
    BY <1>5 DEF Selections, SceneRequests, InputRequests, Toggles
  <2>2. n = [o EXCEPT !.selection[r.request].current = r.name]
    BY <1>5, <2>1 DEF Effect, SceneRequests, InputRequests, Toggles
  <2>3. e = [type |-> SelectionEvent[r.request], name |-> r.name]
    BY <1>5, <2>1 DEF Announced, SceneRequests, InputRequests, Toggles
  <2>4. /\ n.inputs = o.inputs /\ n.scenes = o.scenes /\ n.current = o.current
        /\ n.streaming = o.streaming /\ n.recording = o.recording
        /\ n.selection = [o.selection EXCEPT ![r.request].current = r.name]
    BY <2>2 DEF ObsStates
  <2>5. \A kind \in Selections : /\ n.selection[kind].names = o.selection[kind].names
                                 /\ n.selection[kind].current = IF kind = r.request THEN r.name
                                                                ELSE o.selection[kind].current
    BY <2>4 DEF ObsStates, Listing
  <2>6. e.type = SelectionEvent[r.request] /\ e.name = r.name
    BY <2>3
  <2> HIDE DEF n, e
  <2>7. e.type \in {"CurrentProfileChanged", "CurrentSceneCollectionChanged"}
    BY <1>5, <2>6 DEF SelectionEvent, Selections
  <2>8. \A kind \in Selections : e.type = SelectionEvent[kind] <=> kind = r.request
    BY <1>5, <2>6 DEF SelectionEvent, Selections
  <2>9. Tells(o, e, n)
    BY <2>4, <2>5, <2>6, <2>7, <2>8 DEF Tells, SceneEvents, Switched, SceneListEvents
  <2>10. InputsTell(o.inputs, e, n.inputs)
    BY <2>4, <2>7, OtherChange DEF Mutes, Turns, Creates, Removes
  <2> QED BY <2>4, <2>7, <2>9, <2>10 DEF n, e, Creates, Removes, Renames
<1> QED BY <1>1, <1>2, <1>3, <1>4, <1>5 DEF IsRequest, InputRequests

LEMMA PerformedIsFollowed ==
  ASSUME CatalogueInv, FollowInv, NEW r, IsRequest(r), Accepts(obs, r), Perform(r),
         UNCHANGED <<linked, config, snapshot, nudge, seen>>
  PROVE  FollowInv'
<1> DEFINE e == Announced(obs, r)
<1>1. obs \in ObsStates /\ Distinct(obs.inputs) /\ obs.current \in ToSet(obs.scenes)
  BY DEF CatalogueInv, FollowInv, Tracks
<1>2. e \in Events
  BY <1>1, EffectIsSound
<1>3. obs' = Effect(obs, r) /\ events' = IF linked THEN Append(events, e) ELSE events
  BY DEF Perform
<1>4. /\ Tells(obs, e, obs') /\ InputsTell(obs.inputs, e, obs'.inputs) /\ e.type \notin {Creates, Removes, Renames}
      /\ obs'.current \in ToSet(obs'.scenes) /\ Distinct(obs'.inputs)
  BY <1>1, <1>3, RequestTells
<1> HIDE DEF e
<1> QED BY <1>2, <1>3, <1>4, ChangeKeepsFollowing

LEMMA UserChangesFollowed ==
  ASSUME CatalogueInv, FollowInv, UserChanges
  PROVE  FollowInv'
<1>1. PICK r \in [request : {"SetCurrentProgramScene"}, name : UNION {ToSet(l) : l \in Layouts}]
          \union [request : {"SetInputMute"}, name : Inputs, value : BOOLEAN]
          \union [request : {"SetInputVolume"}, name : Inputs, value : Multipliers]
          \union [request : {"ToggleStream"}]
          \union [request : Selections, name : UNION {ToSet(l) : l \in Listings}] :
        Change /\ Accepts(obs, r) /\ Perform(r) /\ UNCHANGED seen
  BY DEF UserChanges
<1>2. IsRequest(r)
  BY <1>1, UsersRequest
<1> QED BY <1>1, <1>2, PerformedIsFollowed DEF Change

LEMMA AnnouncedIs ==
  ASSUME events \in Seq(Events), NEW e \in Events
  PROVE  /\ Announce(<<e>>) => events' = IF linked THEN Append(events, e) ELSE events
         /\ \A d \in Events : Announce(<<d, e>>) =>
              events' = IF linked THEN Append(Append(events, d), e) ELSE events
<1>1. events \o <<e>> = Append(events, e)
  OBVIOUS
<1>2. \A d \in Events : events \o <<d, e>> = Append(Append(events, d), e)
  OBVIOUS
<1> QED BY <1>1, <1>2 DEF Announce

LEMMA UserEditsScenesFollowed ==
  ASSUME CatalogueInv, FollowInv, UserEditsScenes
  PROVE  FollowInv'
<1>1. PICK layout \in Layouts, kind \in {"SceneNameChanged", "SceneListReindexed"} :
        \E current \in IF obs.current \in ToSet(layout) THEN {obs.current} ELSE ToSet(layout) :
          /\ Change
          /\ obs' = [obs EXCEPT !.scenes = layout, !.current = current]
          /\ Announce(IF current = obs.current \/ kind = "SceneNameChanged" THEN <<[type |-> kind]>>
                      ELSE <<[type |-> "CurrentProgramSceneChanged", name |-> current], [type |-> kind]>>)
          /\ UNCHANGED seen
  BY DEF UserEditsScenes
<1>2. layout \in Seq(Text) /\ ToSet(layout) \subseteq Text
  BY CatalogueAssumption, Elements
<1>3. PICK current \in ToSet(layout) :
          /\ Change
          /\ obs' = [obs EXCEPT !.scenes = layout, !.current = current]
          /\ Announce(IF current = obs.current \/ kind = "SceneNameChanged" THEN <<[type |-> kind]>>
                      ELSE <<[type |-> "CurrentProgramSceneChanged", name |-> current], [type |-> kind]>>)
          /\ UNCHANGED seen
  BY <1>1
<1> DEFINE listed   == [type |-> kind]
           switched == [type |-> "CurrentProgramSceneChanged", name |-> current]
           mid      == [obs EXCEPT !.current = current]
<1>4. listed \in Events /\ switched \in Events /\ current \in Text
  BY <1>2 DEF Events, PlainEvent, NamedEvent
<1>5. /\ listed.type = kind /\ switched.type = "CurrentProgramSceneChanged" /\ switched.name = current
      /\ kind \in SceneListEvents /\ kind \notin {Mutes, Turns, Creates, Removes, Renames}
      /\ switched.type \notin {Mutes, Turns, Creates, Removes, Renames}
  BY DEF SceneListEvents, Mutes, Turns, Creates, Removes, Renames
<1>6. /\ obs'.scenes = layout /\ obs'.current = current /\ obs'.inputs = obs.inputs
      /\ obs'.selection = obs.selection /\ obs'.streaming = obs.streaming /\ obs'.recording = obs.recording
      /\ mid.scenes = obs.scenes /\ mid.current = current /\ mid.inputs = obs.inputs
      /\ mid.selection = obs.selection /\ mid.streaming = obs.streaming /\ mid.recording = obs.recording
  BY <1>3 DEF CatalogueInv, ObsStates
<1>7. UNCHANGED <<linked, config, snapshot, nudge, seen>>
  BY <1>3 DEF Change
<1> HIDE DEF listed, switched, mid
<1>8. /\ Tells(obs, listed, obs') /\ Tells(mid, listed, obs')
  BY <1>5, <1>6 DEF Tells, SceneEvents, Switched, SceneListEvents, SelectionEvent, Selections
<1>9. Tells(obs, switched, mid)
  BY <1>5, <1>6 DEF Tells, SceneEvents, Switched, SceneListEvents, SelectionEvent, Selections
<1>10. /\ InputsTell(obs.inputs, listed, obs'.inputs) /\ InputsTell(mid.inputs, listed, obs'.inputs)
       /\ InputsTell(obs.inputs, switched, mid.inputs)
  BY <1>5, <1>6, OtherChange
<1>11. Distinct(obs'.inputs) /\ obs'.current \in ToSet(obs'.scenes)
  BY <1>6 DEF FollowInv, Tracks
<1>12. CASE current = obs.current \/ kind = "SceneNameChanged"
  <2>1. events' = IF linked THEN Append(events, listed) ELSE events
    BY <1>3, <1>4, <1>12, AnnouncedIs DEF listed, CatalogueInv
  <2> QED BY <1>4, <1>5, <1>7, <1>8, <1>10, <1>11, <2>1, ChangeKeepsFollowing
<1>13. CASE ~(current = obs.current \/ kind = "SceneNameChanged")
  <2>1. events \in Seq(Events) /\ Append(events, switched) \in Seq(Events)
    BY <1>4 DEF CatalogueInv
  <2>2. events' = IF linked THEN Append(Append(events, switched), listed) ELSE events
    BY <1>3, <1>4, <1>13, AnnouncedIs DEF listed, switched, CatalogueInv
  <2>3. Tracks(obs, events)
    BY DEF FollowInv
  <2>4. QueueTells(obs', events') /\ InputsTold(obs'.inputs, events')
    <3>1. CASE linked
      <4>1. QueueTells(mid, Append(events, switched)) /\ InputsTold(mid.inputs, Append(events, switched))
        BY <1>4, <1>9, <1>10, <2>1, <2>3, QueueAppendTells, InputsToldAfterChange DEF Tracks
      <4>2. /\ QueueTells(obs', Append(Append(events, switched), listed))
            /\ InputsTold(obs'.inputs, Append(Append(events, switched), listed))
        BY <1>4, <1>8, <1>10, <2>1, <4>1, QueueAppendTells, InputsToldAfterChange
      <4> QED BY <2>2, <3>1, <4>2
    <3>2. CASE ~linked
      BY <2>2, <3>2, NothingQueued DEF FollowInv
    <3> QED BY <3>1, <3>2
  <2>5. Tracks(obs', events')
    BY <1>11, <2>4 DEF Tracks
  <2>6. ASSUME linked, ~seen.behind PROVE Follows(obs', events', snapshot, config, nudge, seen)
    <3>1. Follows(obs, events, snapshot, config, nudge, seen)
      BY <2>6 DEF FollowInv
    <3> HIDE DEF Follows
    <3>2. Follows(mid, Append(events, switched), snapshot, config, nudge, seen)
      BY <1>4, <1>5, <1>9, <1>10, <2>1, <3>1, FollowsAfterChange
    <3>3. Follows(obs', Append(Append(events, switched), listed), snapshot, config, nudge, seen)
      BY <1>4, <1>5, <1>8, <1>10, <2>1, <3>2, FollowsAfterChange
    <3> QED BY <2>2, <2>6, <3>3
  <2> HIDE DEF Tracks, Follows, RowsFit
  <2> QED BY <1>7, <2>2, <2>5, <2>6 DEF FollowInv
<1> QED BY <1>12, <1>13

LEMMA UserAddsInputFollowed ==
  ASSUME CatalogueInv, FollowInv, UserAddsInput
  PROVE  FollowInv'
<1>1. PICK name \in Inputs :
        /\ Change /\ name \notin ToSet(NamesOf(obs.inputs))
        /\ obs' = [obs EXCEPT !.inputs = Append(obs.inputs, FreshInput(name))]
        /\ Announce(<<[type |-> "InputCreated", name |-> name]>>)
        /\ seen' = [seen EXCEPT !.strange = seen.strange \/ ~Plain(name)]
  BY DEF UserAddsInput
<1> DEFINE e == [type |-> "InputCreated", name |-> name]
           x == FreshInput(name)
           longer == Append(obs.inputs, x)
<1>2. name \in Text
  BY CatalogueAssumption
<1>3. e \in Events /\ e.type = Creates /\ e.name = name /\ x \in Input /\ x.name = name
  BY <1>2 DEF Events, NamedEvent, FreshInput, Input, Creates
<1>4. obs \in ObsStates /\ obs.inputs \in Seq(Input) /\ events \in Seq(Events) /\ Distinct(obs.inputs)
      /\ obs.current \in ToSet(obs.scenes)
  BY DEF CatalogueInv, FollowInv, ObsStates, Tracks
<1>5. events' = IF linked THEN Append(events, e) ELSE events
  BY <1>1, <1>3, <1>4, AnnouncedIs
<1> HIDE DEF e, x
<1>6. \A y \in ToSet(obs.inputs) : y.name # name
  BY <1>1 DEF NamesOf, ToSet
<1>7. ToSet(longer) = ToSet(obs.inputs) \cup {x} /\ Distinct(longer)
  BY <1>3, <1>4, <1>6, AppendAddsOne
<1>8. obs' = [obs EXCEPT !.inputs = longer]
  BY <1>1 DEF x
<1> HIDE DEF longer
<1>9. Tells(obs, e, obs') /\ obs'.inputs = longer /\ obs'.scenes = obs.scenes /\ obs'.current = obs.current
  BY ZenonT(60), <1>3, <1>4, <1>8, InputChange DEF InputEvents, Creates
<1>10. InputsTell(obs.inputs, e, obs'.inputs)
  BY <1>3, <1>6, <1>7, <1>9 DEF InputsTell, Creates, Removes, Mutes, Turns
<1>11. /\ DOMAIN seen' = DOMAIN seen /\ seen'.bare = seen.bare /\ seen'.behind = seen.behind
       /\ ~seen'.strange => ~seen.strange /\ Plain(name)
  BY <1>1 DEF FollowInv
<1>12. UNCHANGED <<linked, config, snapshot, nudge>>
  BY <1>1 DEF Change
<1>13. e.type # Renames /\ e.type # Removes
  BY <1>3 DEF Creates, Renames, Removes
<1> QED BY <1>3, <1>4, <1>5, <1>7, <1>9, <1>10, <1>11, <1>12, <1>13, ChangeKeepsFollowing

LEMMA UserRemovesInputFollowed ==
  ASSUME CatalogueInv, FollowInv, UserRemovesInput
  PROVE  FollowInv'
<1>1. PICK name \in ToSet(NamesOf(obs.inputs)) :
        /\ Change
        /\ obs' = [obs EXCEPT !.inputs = RemoveAt(obs.inputs, ConfigOf(obs.inputs, name))]
        /\ Announce(<<[type |-> "InputRemoved", name |-> name]>>)
        /\ UNCHANGED seen
  BY DEF UserRemovesInput
<1> DEFINE e == [type |-> "InputRemoved", name |-> name]
           k == ConfigOf(obs.inputs, name)
           shorter == RemoveAt(obs.inputs, k)
<1>2. obs \in ObsStates /\ obs.inputs \in Seq(Input) /\ events \in Seq(Events) /\ Distinct(obs.inputs)
      /\ obs.current \in ToSet(obs.scenes)
  BY DEF CatalogueInv, FollowInv, ObsStates, Tracks
<1>3. k \in DOMAIN obs.inputs
  BY <1>2, InputKnown
<1>4. obs.inputs[k].name = name
  <2>1. k # 0
    BY <1>2, <1>3, Elements
  <2> QED BY <1>2, <2>1, ConfigOfIn
<1>5. name \in Text
  BY <1>2, InputNames, Elements
<1>6. e \in Events /\ e.type = Removes /\ e.name = name
  BY <1>5 DEF Events, NamedEvent, Removes
<1>7. events' = IF linked THEN Append(events, e) ELSE events
  BY <1>1, <1>2, <1>6, AnnouncedIs
<1> HIDE DEF e, k
<1>8. Distinct(shorter) /\ ToSet(shorter) = {y \in ToSet(obs.inputs) : y.name # name}
  BY <1>2, <1>3, <1>4, RemovalTakesOne
<1>9. obs' = [obs EXCEPT !.inputs = shorter]
  BY <1>1 DEF k
<1> HIDE DEF shorter
<1>10. Tells(obs, e, obs') /\ obs'.inputs = shorter /\ obs'.scenes = obs.scenes /\ obs'.current = obs.current
  BY ZenonT(60), <1>2, <1>6, <1>9, InputChange DEF InputEvents, Removes
<1>11. InputsTell(obs.inputs, e, obs'.inputs)
  BY <1>6, <1>8, <1>10 DEF InputsTell, Creates, Removes, Mutes, Turns
<1>12. UNCHANGED <<linked, config, snapshot, nudge, seen>>
  BY <1>1 DEF Change
<1>13. e.type # Renames /\ e.type # Creates /\ \E y \in ToSet(obs.inputs) : y.name = e.name
  BY <1>3, <1>4, <1>6 DEF Creates, Renames, Removes, ToSet
<1> QED BY <1>2, <1>6, <1>7, <1>8, <1>10, <1>11, <1>12, <1>13, ChangeKeepsFollowing

LEMMA UserRenamesInputFollowed ==
  ASSUME CatalogueInv, FollowInv, UserRenamesInput
  PROVE  FollowInv'
<1>1. PICK old \in ToSet(NamesOf(obs.inputs)), new \in Inputs \ ToSet(NamesOf(obs.inputs)) :
        /\ Change /\ obs' = ChangeInput(obs, old, "name", new)
        /\ Announce(<<[type |-> "InputNameChanged"]>>)
        /\ seen' = [seen EXCEPT !.strange = TRUE]
  BY DEF UserRenamesInput
<1> DEFINE e == [type |-> "InputNameChanged"]
           inputs == [i \in DOMAIN obs.inputs |->
                        IF obs.inputs[i].name = old THEN [obs.inputs[i] EXCEPT !.name = new] ELSE obs.inputs[i]]
<1>2. obs \in ObsStates /\ obs.inputs \in Seq(Input) /\ events \in Seq(Events) /\ Distinct(obs.inputs)
      /\ obs.current \in ToSet(obs.scenes)
  BY DEF CatalogueInv, FollowInv, ObsStates, Tracks
<1>3. e \in Events /\ e.type = Renames
  BY DEF Events, PlainEvent, Renames
<1>4. events' = IF linked THEN Append(events, e) ELSE events
  BY <1>1, <1>2, <1>3, AnnouncedIs
<1>5. obs' = [obs EXCEPT !.inputs = inputs]
  BY <1>1 DEF ChangeInput
<1> HIDE DEF e
<1>6. \A i \in DOMAIN obs.inputs : /\ inputs[i].name = IF obs.inputs[i].name = old THEN new ELSE obs.inputs[i].name
                                   /\ obs.inputs[i].name # new
  <2>1. \A i \in DOMAIN obs.inputs : obs.inputs[i] \in Input
    BY <1>2, Elements
  <2>2. \A i \in DOMAIN obs.inputs : obs.inputs[i].name \in ToSet(NamesOf(obs.inputs))
    BY DEF NamesOf, ToSet
  <2> QED BY <1>1, <2>1, <2>2 DEF Input
<1>7. DOMAIN inputs = DOMAIN obs.inputs
  OBVIOUS
<1> HIDE DEF inputs
<1>8. Distinct(inputs)
  BY <1>2, <1>6, <1>7 DEF Distinct
<1>9. Tells(obs, e, obs') /\ obs'.inputs = inputs /\ obs'.scenes = obs.scenes /\ obs'.current = obs.current
  BY <1>2, <1>3, <1>5, InputChange
<1>10. InputsTell(obs.inputs, e, obs'.inputs)
  BY <1>3 DEF InputsTell, Creates, Removes, Mutes, Turns, Renames
<1>11. DOMAIN seen' = DOMAIN seen /\ seen'.bare = seen.bare /\ seen'.behind = seen.behind /\ seen'.strange
  BY <1>1 DEF FollowInv
<1>12. UNCHANGED <<linked, config, snapshot, nudge>>
  BY <1>1 DEF Change
<1> QED BY <1>2, <1>3, <1>4, <1>8, <1>9, <1>10, <1>11, <1>12, ChangeKeepsFollowing

LEMMA UserEditsListingFollowed ==
  ASSUME CatalogueInv, FollowInv, UserEditsListing
  PROVE  FollowInv'
<1>1. PICK kind \in Selections, names \in Listings :
        /\ Change /\ obs' = [obs EXCEPT !.selection[kind].names = names]
        /\ Announce(<<[type |-> ListEvent[kind]]>>)
        /\ UNCHANGED seen
  BY DEF UserEditsListing
<1> DEFINE e == [type |-> ListEvent[kind]]
<1>2. obs \in ObsStates /\ events \in Seq(Events) /\ Distinct(obs.inputs) /\ obs.current \in ToSet(obs.scenes)
  BY DEF CatalogueInv, FollowInv, Tracks
<1>3. e \in Events /\ e.type = ListEvent[kind]
  BY DEF Events, PlainEvent, ListEvent, Selections
<1>4. events' = IF linked THEN Append(events, e) ELSE events
  BY <1>1, <1>2, <1>3, AnnouncedIs
<1> HIDE DEF e
<1>5. /\ obs'.inputs = obs.inputs /\ obs'.scenes = obs.scenes /\ obs'.current = obs.current
      /\ obs'.streaming = obs.streaming /\ obs'.recording = obs.recording
      /\ obs'.selection = [obs.selection EXCEPT ![kind].names = names]
  BY <1>1, <1>2 DEF ObsStates
<1>6. \A other \in Selections : /\ obs'.selection[other].current = obs.selection[other].current
                                /\ other # kind => obs'.selection[other].names = obs.selection[other].names
  BY <1>2, <1>5 DEF ObsStates, Listing
<1>7. e.type \in {"ProfileListChanged", "SceneCollectionListChanged"}
  BY <1>3 DEF ListEvent, Selections
<1>8. Tells(obs, e, obs')
  BY <1>3, <1>5, <1>6, <1>7 DEF Tells, SceneEvents, Switched, SceneListEvents, SelectionEvent, Selections
<1>9. InputsTell(obs.inputs, e, obs'.inputs)
  BY <1>5, <1>7, OtherChange DEF Mutes, Turns, Creates, Removes
<1>10. UNCHANGED <<linked, config, snapshot, nudge, seen>>
  BY <1>1 DEF Change
<1>11. e.type \notin {Creates, Removes, Renames}
  BY <1>7 DEF Creates, Removes, Renames
<1> QED BY <1>2, <1>3, <1>4, <1>5, <1>8, <1>9, <1>10, <1>11, ChangeKeepsFollowing

LEMMA ApplyEventFollowed ==
  ASSUME CatalogueInv, FollowInv, ApplyEvent
  PROVE  FollowInv'
<1> DEFINE raw == events[1]
           out == snapshot'.inputs
<1>1. /\ obs \in ObsStates /\ events \in Seq(Events) /\ snapshot \in Snapshots
      /\ linked /\ events # << >> /\ events' = Tail(events) /\ UNCHANGED <<obs, linked, config>>
  BY DEF ApplyEvent, CatalogueInv
<1>2. Head(events) = raw /\ raw \in Events /\ 1 \in DOMAIN events
  BY <1>1, TailOf, Elements
<1>3. snapshot' = Folded(snapshot, raw) /\ nudge' = (nudge \/ Nudges(raw))
  BY <1>2 DEF ApplyEvent, Folded, Nudges
<1>4. seen' = [seen EXCEPT !.bare = BareAfter(seen.bare, snapshot.inputs, out)]
  BY DEF ApplyEvent, BareAfter
<1>5. DOMAIN seen' = DOMAIN seen /\ seen'.bare = BareAfter(seen.bare, snapshot.inputs, out)
      /\ seen'.strange = seen.strange /\ seen'.behind = seen.behind
  BY <1>4 DEF FollowInv
<1>6. out \in Seq(AudioState)
  BY ApplyEventKeeps DEF CatalogueInv, Snapshots
<1> HIDE DEF raw, out
<1>7. /\ Distinct(snapshot.inputs) /\ RowsAre(snapshot, config) /\ AliasesAre(snapshot.inputs, config, seen.bare)
      /\ Distinct(obs.inputs) /\ obs.current \in ToSet(obs.scenes)
      /\ QueueTells(obs, events) /\ InputsTold(obs.inputs, events)
  BY DEF FollowInv, RowsFit, Tracks
<1>8. out = Folded(snapshot, raw).inputs
  BY <1>3 DEF out
<1>9. RowsFit(snapshot', config', seen'.bare)
  <2>1. Distinct(out) /\ RowsAre(snapshot', config) /\ AliasesAre(out, config, seen'.bare)
    BY <1>1, <1>2, <1>3, <1>5, <1>6, <1>7, <1>8, FoldedInputs, RowsAfterFold, AliasesAfterFold
  <2> QED BY <1>1, <2>1 DEF RowsFit, out
<1>10. Tracks(obs', events')
  BY <1>1, <1>7, QueueTailTells, InputsToldInTail DEF Tracks
<1>11. ASSUME ~seen.behind
       PROVE  Follows(obs, Tail(events), snapshot', config, nudge', seen')
  <2>1. Follows(obs, events, snapshot, config, nudge, seen) /\ nudge \in BOOLEAN
    BY <1>1, <1>11 DEF FollowInv
  <2>2. snapshot'.profiles = config.profiles /\ snapshot'.active = Projection(config).active
    BY <1>1, <1>2, <1>3, <2>1, FoldedLists DEF Follows
  <2>3. ListsAgree(obs, Tail(events), snapshot', nudge')
    BY <1>1, <1>3, <1>7, <2>1, ListsAgreeAfterFold DEF Follows, raw
  <2>4. ASSUME ~seen.strange
        PROVE  Ordinary(obs.inputs, Tail(events)) /\ InputsAgree(obs.inputs, Tail(events), out, seen'.bare)
    <3>1. Ordinary(obs.inputs, events) /\ InputsAgree(obs.inputs, events, snapshot.inputs, seen.bare)
      BY <2>1, <2>4 DEF Follows
    <3>2. Without(events, {Renames}) /\ (raw.type \in InputEvents => Plain(raw.name))
      BY <1>2, <3>1 DEF Ordinary, raw
    <3>3. InputsAgree(obs.inputs, Tail(events), out, seen'.bare)
      BY <1>1, <1>5, <1>6, <1>7, <1>8, <3>1, <3>2, InputsAgreeAfterFold DEF raw
    <3>4. Ordinary(obs.inputs, Tail(events))
      <4>1. Without(Tail(events), {Renames})
        BY <1>1, <3>2, LatestInTail
      <4>2. \A i \in DOMAIN Tail(events) : i + 1 \in DOMAIN events /\ Tail(events)[i] = events[i + 1]
        BY <1>1, TailOf
      <4>3. \A i \in DOMAIN Tail(events) : Tail(events)[i].type \in InputEvents => Plain(Tail(events)[i].name)
        BY <3>1, <4>2 DEF Ordinary
      <4> QED BY <3>1, <4>1, <4>3 DEF Ordinary
    <3> QED BY <3>3, <3>4
  <2> QED BY <1>5, <2>2, <2>3, <2>4 DEF Follows, out
<1>12. nudge' \in BOOLEAN
  BY <1>3 DEF Nudges, FollowInv
<1> HIDE DEF RowsFit, Tracks, Follows
<1> QED BY <1>1, <1>5, <1>9, <1>10, <1>11, <1>12 DEF FollowInv

\* A refresh that succeeds agrees with OBS in everything.
LEMMA BuiltFollows ==
  ASSUME CatalogueInv, FollowInv, Readable(obs), snapshot' = BuildSnapshot(obs, Projection(config)), seen' = Fresh
  PROVE  /\ RowsFit(snapshot', config, seen'.bare) /\ DOMAIN seen' = DOMAIN seen
         /\ \A nud : Follows(obs, events, snapshot', config, nud, seen')
<1> DEFINE rows == BuildSnapshot(obs, Projection(config)).inputs
<1>1. obs \in ObsStates /\ Distinct(obs.inputs) /\ Sound(config)
  BY DEF CatalogueInv, FollowInv, Tracks
<1>2. seen'.bare = {} /\ DOMAIN seen' = DOMAIN seen /\ seen'.strange = Strange
  BY DEF Fresh, FollowInv
<1>3. Distinct(rows) /\ AliasesAre(rows, config, {})
      /\ \A q : Distinct(obs.inputs) /\ (\A i \in DOMAIN obs.inputs : Plain(obs.inputs[i].name)) =>
           InputsAgree(obs.inputs, q, rows, {})
  BY <1>1, InputsWhenBuilt
<1>4. RowsAre(snapshot', config)
  BY RowsWhenBuilt
<1>5. snapshot'.profiles = config.profiles /\ snapshot'.active = Projection(config).active
  BY <1>1, ProjectionFields DEF BuildSnapshot
<1>6. ListsAgree(obs, events, snapshot', FALSE)
  BY ListsAgreeWhenBuilt
<1>7. \A nud : ListsAgree(obs, events, snapshot', nud)
  BY <1>6 DEF ListsAgree
<1> HIDE DEF rows
<1>8. snapshot'.inputs = rows
  BY DEF rows
<1>9. ASSUME ~seen'.strange
      PROVE  Ordinary(obs.inputs, events) /\ InputsAgree(obs.inputs, events, snapshot'.inputs, seen'.bare)
  <2>1. Ordinary(obs.inputs, events)
    BY <1>2, <1>9, NotStrange
  <2> QED BY <1>1, <1>2, <1>3, <1>8, <2>1 DEF Ordinary
<1>10. RowsFit(snapshot', config, seen'.bare)
  BY <1>2, <1>3, <1>4, <1>8 DEF RowsFit
<1> QED BY <1>2, <1>5, <1>7, <1>9, <1>10 DEF Follows

LEMMA RefreshFollowed ==
  ASSUME CatalogueInv, FollowInv, Refresh
  PROVE  FollowInv'
<1>1. linked /\ nudge' = FALSE /\ UNCHANGED <<obs, events, linked, config>>
  BY DEF Refresh
<1>2. Tracks(obs', events')
  BY <1>1 DEF FollowInv, Tracks
<1>3. CASE Readable(obs)
  <2>1. snapshot' = BuildSnapshot(obs, Projection(config)) /\ seen' = Fresh
    BY <1>3 DEF Refresh
  <2>2. /\ RowsFit(snapshot', config, seen'.bare) /\ DOMAIN seen' = DOMAIN seen
        /\ Follows(obs, events, snapshot', config, nudge', seen')
    BY <1>3, <2>1, BuiltFollows
  <2> HIDE DEF Tracks, RowsFit, Follows
  <2> QED BY <1>1, <1>2, <2>2 DEF FollowInv
<1>4. CASE ~Readable(obs)
  <2>1. seen' = [seen EXCEPT !.behind = TRUE] /\ snapshot' = snapshot
    BY <1>4 DEF Refresh
  <2>2. DOMAIN seen' = DOMAIN seen /\ seen'.bare = seen.bare /\ seen'.behind
    BY <2>1 DEF FollowInv
  <2> HIDE DEF Tracks, RowsFit, Follows
  <2> QED BY <1>1, <1>2, <2>1, <2>2 DEF FollowInv
<1> QED BY <1>3, <1>4

\* Only whether OBS is connected changes in the snapshot.
LEMMA RowsStay ==
  ASSUME CatalogueInv, FollowInv, NEW connected
  PROVE  RowsFit([snapshot EXCEPT !.connected = connected], config, seen.bare)
<1>1. LET marked == [snapshot EXCEPT !.connected = connected]
      IN marked.scenes = snapshot.scenes /\ marked.inputs = snapshot.inputs /\ marked.current = snapshot.current
  BY DEF CatalogueInv, Snapshots
<1> QED BY <1>1 DEF FollowInv, RowsFit, RowsAre

LEMMA LinkUpFollowed ==
  ASSUME CatalogueInv, FollowInv, LinkUp
  PROVE  FollowInv'
<1>1. linked' = TRUE /\ UNCHANGED <<obs, events, config, nudge>>
  BY DEF LinkUp
<1>2. Tracks(obs', events')
  BY <1>1 DEF FollowInv, Tracks
<1>3. CASE Readable(obs)
  <2>1. snapshot' = BuildSnapshot(obs, Projection(config)) /\ seen' = Fresh
    BY <1>3 DEF LinkUp
  <2>2. /\ RowsFit(snapshot', config, seen'.bare) /\ DOMAIN seen' = DOMAIN seen
        /\ Follows(obs, events, snapshot', config, nudge', seen')
    BY <1>3, <2>1, BuiltFollows
  <2> HIDE DEF Tracks, RowsFit, Follows
  <2> QED BY <1>1, <1>2, <2>2 DEF FollowInv
<1>4. CASE ~Readable(obs)
  <2>1. seen' = [seen EXCEPT !.behind = TRUE] /\ snapshot' = [snapshot EXCEPT !.connected = TRUE]
    BY <1>4 DEF LinkUp
  <2>2. DOMAIN seen' = DOMAIN seen /\ seen'.bare = seen.bare /\ seen'.behind
    BY <2>1 DEF FollowInv
  <2>3. RowsFit(snapshot', config', seen'.bare)
    BY <1>1, <2>1, <2>2, RowsStay
  <2> HIDE DEF Tracks, RowsFit, Follows
  <2> QED BY <1>1, <1>2, <2>2, <2>3 DEF FollowInv
<1> QED BY <1>3, <1>4

LEMMA LinkLostFollowed ==
  ASSUME CatalogueInv, FollowInv, LinkLost
  PROVE  FollowInv'
<1>1. /\ UNCHANGED <<obs, config, seen>> /\ linked' = FALSE /\ events' = << >> /\ nudge' = FALSE
      /\ snapshot' = [snapshot EXCEPT !.connected = FALSE]
  BY DEF LinkLost
<1>2. RowsFit(snapshot', config', seen'.bare)
  BY <1>1, RowsStay
<1>3. Tracks(obs', events')
  BY <1>1, NothingQueued DEF FollowInv, Tracks
<1> HIDE DEF Tracks, RowsFit, Follows
<1> QED BY <1>1, <1>2, <1>3 DEF FollowInv

\* A config the daemon takes up reaches every row of the snapshot.
LEMMA HoldFollowed ==
  ASSUME CatalogueInv, FollowInv, NEW c, Sound(c), Hold(c), UNCHANGED <<obs, events, linked, nudge, seen>>
  PROVE  FollowInv'
<1> DEFINE merged == Merged(snapshot, Projection(c))
           out == merged.inputs
<1>1. config' = c /\ snapshot' = merged /\ snapshot \in Snapshots
  BY DEF Hold, CatalogueInv
<1>2. Distinct(snapshot.inputs) /\ RowsAre(snapshot, config)
  BY DEF FollowInv, RowsFit
<1>3. /\ AliasesAre(out, c, seen.bare) /\ Distinct(out) /\ DOMAIN out = DOMAIN snapshot.inputs
      /\ \A i \in DOMAIN out : /\ out[i].name = snapshot.inputs[i].name /\ out[i].muted = snapshot.inputs[i].muted
                               /\ out[i].percent = snapshot.inputs[i].percent
  BY <1>1, <1>2, AliasesWhenMerged
<1>4. RowsAre(merged, c)
  BY <1>1, <1>2, RowsWhenMerged
<1>5. merged.profiles = c.profiles /\ merged.active = Projection(c).active
  BY <1>1, ProjectionFields DEF Merged, Snapshots
<1> HIDE DEF merged
<1>6. RowsFit(snapshot', config', seen'.bare)
  BY <1>1, <1>3, <1>4 DEF RowsFit
<1>7. ASSUME linked, ~seen.behind
      PROVE  Follows(obs, events, merged, c, nudge, seen)
  <2>1. Follows(obs, events, snapshot, config, nudge, seen)
    BY <1>7 DEF FollowInv
  <2>2. ListsAgree(obs, events, merged, nudge)
    BY <1>1, <2>1, ListsAgreeWhenMerged DEF Follows, merged
  <2>3. \A t \in ToSet(out) : \E s \in ToSet(snapshot.inputs) :
          t.name = s.name /\ t.muted = s.muted /\ t.percent = s.percent
    BY <1>3 DEF ToSet
  <2>4. \A s \in ToSet(snapshot.inputs) : \E t \in ToSet(out) : t.name = s.name
    BY <1>3 DEF ToSet
  <2> HIDE DEF out
  <2>5. ASSUME ~seen.strange
        PROVE  Ordinary(obs.inputs, events) /\ InputsAgree(obs.inputs, events, out, seen.bare)
    <3>1. Ordinary(obs.inputs, events) /\ InputsAgree(obs.inputs, events, snapshot.inputs, seen.bare)
      BY <2>1, <2>5 DEF Follows
    <3>2. \A t \in ToSet(out) : WithoutOf(events, {Removes}, t.name) => \E x \in ToSet(obs.inputs) : x.name = t.name
      BY <2>3, <3>1 DEF InputsAgree
    <3>3. \A x \in ToSet(obs.inputs) : WithoutOf(events, {Creates}, x.name) => \E t \in ToSet(out) : t.name = x.name
      BY <2>4, <3>1 DEF InputsAgree
    <3>4. \A t \in ToSet(out), x \in ToSet(obs.inputs) : t.name = x.name =>
            /\ WithoutOf(events, {Mutes, Removes}, x.name) =>
                 t.muted = {x.muted} \/ (t.muted = {} /\ t.name \in seen.bare)
            /\ WithoutOf(events, {Turns, Removes}, x.name) =>
                 t.percent = SetLevel(x.mul) \/ (t.percent = {} /\ t.name \in seen.bare)
      <4> TAKE t \in ToSet(out), x \in ToSet(obs.inputs)
      <4> HAVE t.name = x.name
      <4>1. PICK s \in ToSet(snapshot.inputs) : t.name = s.name /\ t.muted = s.muted /\ t.percent = s.percent
        BY <2>3
      <4>2. /\ WithoutOf(events, {Mutes, Removes}, x.name) =>
                 s.muted = {x.muted} \/ (s.muted = {} /\ s.name \in seen.bare)
            /\ WithoutOf(events, {Turns, Removes}, x.name) =>
                 s.percent = SetLevel(x.mul) \/ (s.percent = {} /\ s.name \in seen.bare)
        BY <3>1, <4>1 DEF InputsAgree
      <4> QED BY <4>1, <4>2
    <3> QED BY <3>1, <3>2, <3>3, <3>4 DEF InputsAgree
  <2> QED BY <1>5, <2>2, <2>5 DEF Follows, out
<1>8. Tracks(obs', events')
  BY DEF FollowInv, Tracks
<1> HIDE DEF Tracks, RowsFit, Follows
<1> QED BY <1>1, <1>6, <1>7, <1>8 DEF FollowInv

LEMMA FollowingStarts ==
  ASSUME CatalogueInit
  PROVE  FollowInv
<1>1. PICK start \in Starts :
        obs = [scenes |-> start.scenes, current |-> start.scenes[1],
               inputs |-> <<FreshInput(start.input)>>,
               selection |-> [kind \in Selections |-> [names |-> start.names, current |-> start.names[1]]],
               streaming |-> FALSE, recording |-> FALSE]
  BY DEF CatalogueInit
<1>2. start.scenes \in Seq(Text) /\ start.scenes # << >>
  BY CatalogueAssumption
<1>3. obs.current \in ToSet(obs.scenes)
  <2>1. 1 \in DOMAIN start.scenes
    BY <1>2
  <2> QED BY <1>1, <2>1 DEF ToSet
<1>4. Distinct(obs.inputs)
  <2>1. obs.inputs = <<FreshInput(start.input)>>
    BY <1>1
  <2>2. DOMAIN obs.inputs = {1}
    BY <2>1
  <2> QED BY <2>2 DEF Distinct
<1>5. events = << >> /\ linked = FALSE /\ nudge = FALSE /\ seen = Fresh
      /\ snapshot = Merged(EmptySnapshot, Projection(config))
  BY DEF CatalogueInit
<1>6. Tracks(obs, events)
  BY <1>3, <1>4, <1>5, NothingQueued DEF Tracks
<1>7. snapshot.scenes = << >> /\ snapshot.inputs = << >>
  <2>1. EmptySnapshot.scenes = << >> /\ EmptySnapshot.inputs = << >> /\ DOMAIN << >> = {}
    BY DEF EmptySnapshot
  <2>2. /\ snapshot.scenes = [i \in {} |-> ApplySceneConfig(EmptySnapshot.scenes[i], Projection(config))]
        /\ snapshot.inputs = [i \in {} |-> ApplyAudioConfig(EmptySnapshot.inputs[i], Projection(config))]
    BY <1>5, <2>1 DEF Merged, EmptySnapshot
  <2>3. \A f : f = [i \in {} |-> f[i]] => f = << >>
    OBVIOUS
  <2> QED BY <2>2, <2>3
<1>8. Distinct(<< >>) /\ ToSet(<< >>) = {}
  BY DEF Distinct, ToSet
<1>9. RowsFit(snapshot, config, seen.bare)
  BY <1>5, <1>7, <1>8 DEF RowsFit, RowsAre, AliasesAre
<1>10. DOMAIN seen = {"bare", "behind", "strange"}
  BY <1>5 DEF Fresh
<1> HIDE DEF Tracks, RowsFit
<1> QED BY <1>5, <1>6, <1>9, <1>10 DEF FollowInv

LEMMA FollowingStays ==
  ASSUME FollowInv, UNCHANGED <<obs, events, linked, config, snapshot, nudge, seen>>
  PROVE  FollowInv'
  BY DEF FollowInv, Tracks, RowsFit, Follows

-----------------------------------------------------------------------------
(* The invariant, and what follows from it.                                *)

LEMMA Beginning ==
  ASSUME Init
  PROVE  IInv
<1>1. CatalogueInv /\ job = NoJob
  BY CatalogueStarts DEF Init
<1>2. New(NoJob)
  BY NoJobIs, Unlisted DEF New
<1>3. Shaped(job) /\ Flows(job) /\ Told(job) /\ Saves(job)
  BY <1>1, <1>2, NewIsSound
<1>4. job.table = << >> /\ job.edits = {}
  BY <1>1, NoJobIs
<1>5. ActsOnWhatWasNamed
  BY <1>4 DEF ActsOnWhatWasNamed
<1>6. SaveKeepsTheRest
  BY <1>4 DEF SaveKeepsTheRest
<1> QED BY <1>1, <1>3, <1>5, <1>6 DEF IInv, JobInv

LEMMA Stepping ==
  ASSUME IInv, [Next]_vars
  PROVE  IInv'
<1>1. CASE UNCHANGED vars
  <2>1. UNCHANGED <<obs, events, linked, config, snapshot>> /\ job' = job
    BY <1>1 DEF vars, catalogueVars
  <2> QED BY <2>1, CatalogueStays, OfTheJob, OfTheNextJob DEF IInv, JobInv
<1>2. CASE CatalogueNext
  <2>1. job' = job
    BY <1>2 DEF CatalogueNext
  <2>2. CatalogueInv'
    BY <1>2, UserChangesKeeps, UserEditsScenesKeeps, UserAddsInputKeeps, UserRemovesInputKeeps,
       UserRenamesInputKeeps, UserEditsListingKeeps, ApplyEventKeeps, RefreshKeeps, LinkUpKeeps
       DEF CatalogueNext, IInv
  <2> QED BY <2>1, <2>2, OfTheJob, OfTheNextJob DEF IInv, JobInv
<1>3. CASE \/ TypeLine \/ CompleteLine \/ RunSubcommand \/ ConfigUnreadable \/ SaveEdited
           \/ SubscribeSession \/ SendOther
  BY <1>3, ClientGives
<1>4. CASE GiveUp \/ ReadAnswer \/ FollowUp
  BY <1>4, GiveUpKeeps, ReadAnswerKeeps, FollowUpKeeps
<1>5. CASE \/ HandleMalformed \/ HandleQuery \/ HandleReconnect \/ HandleShutdown \/ HandleReload
           \/ SceneProfileFails
  BY <1>5, HandlersAnswer
<1>6. CASE HandleObsCommand \/ HandleSubscribe \/ HandleSceneProfile \/ CountHidden \/ OtherReloads
  BY <1>6, HandleObsCommandKeeps, HandleSubscribeKeeps, HandleSceneProfileKeeps, CountHiddenKeeps,
     OtherReloadsKeeps
<1>7. CASE ObsPerforms \/ ObsConfirms \/ ObsRefuses \/ ObsRefusesLate \/ RequestTimesOut \/ CommandLosesLink
  BY <1>7, ObsPerformsKeeps, ObsConfirmsKeeps, ObsRefusesKeeps, RequestTimesOutKeeps, CommandLosesLinkKeeps
<1> QED BY <1>1, <1>2, <1>3, <1>4, <1>5, <1>6, <1>7 DEF Next

\* What a command does to the catalogue: nothing, unless OBS performs it or the
\* daemon takes up a config.
LEMMA CommandsFollowed ==
  ASSUME IInv, FollowInv, CatalogueInv', Next, ~CatalogueNext
  PROVE  FollowInv'
<1>1. Sound(config')
  BY DEF CatalogueInv
<1>2. CASE \/ TypeLine \/ CompleteLine \/ RunSubcommand \/ ConfigUnreadable \/ SaveEdited
           \/ SubscribeSession \/ SendOther
  <2>1. UNCHANGED <<obs, events, linked, config, snapshot, nudge, seen>>
    BY <1>2 DEF TypeLine, CompleteLine, RunSubcommand, ConfigUnreadable, SaveEdited, SubscribeSession, SendOther, Give
  <2> QED BY <2>1, FollowingStays
<1>3. CASE \/ GiveUp \/ ReadAnswer \/ FollowUp \/ HandleMalformed \/ HandleObsCommand \/ HandleQuery
           \/ HandleSubscribe \/ HandleReconnect \/ HandleShutdown \/ CountHidden
           \/ ObsConfirms \/ ObsRefuses \/ ObsRefusesLate \/ RequestTimesOut
  <2>1. UNCHANGED catalogueVars
    BY <1>3 DEF GiveUp, ReadAnswer, FollowUp, HandleMalformed, HandleObsCommand, HandleQuery, HandleSubscribe,
       HandleReconnect, HandleShutdown, CountHidden, ObsConfirms, ObsRefuses, ObsRefusesLate, RequestTimesOut
  <2> QED BY <2>1, FollowingStays DEF catalogueVars
<1>4. CASE HandleReload \/ HandleSceneProfile \/ SceneProfileFails \/ OtherReloads
  <2>1. /\ UNCHANGED <<obs, events, linked, nudge, seen>>
        /\ UNCHANGED <<config, snapshot>> \/ \E c : Hold(c)
    BY <1>4 DEF HandleReload, HandleSceneProfile, SceneProfileFails, OtherReloads
  <2>2. \A c : Hold(c) => Sound(c)
    BY <1>1 DEF Hold
  <2> QED BY <2>1, <2>2, HoldFollowed, FollowingStays DEF IInv
<1>5. CASE ObsPerforms
  <2>1. linked /\ job.wire /\ Accepts(obs, Asked) /\ Perform(Asked)
        /\ UNCHANGED <<linked, config, snapshot, nudge, seen>>
    BY <1>5 DEF ObsPerforms
  <2>2. IsRequest(Asked)
    BY <2>1 DEF IInv, JobInv, Flows, Asked
  <2> QED BY <2>1, <2>2, PerformedIsFollowed DEF IInv
<1>6. CASE CommandLosesLink
  BY <1>6, LinkLostFollowed DEF CommandLosesLink, IInv
<1> QED BY <1>2, <1>3, <1>4, <1>5, <1>6 DEF Next

LEMMA FollowingKept ==
  ASSUME IInv, FollowInv, [Next]_vars
  PROVE  FollowInv'
<1>1. CatalogueInv /\ CatalogueInv'
  BY Stepping DEF IInv
<1>2. CASE UNCHANGED vars
  BY <1>2, FollowingStays DEF vars, catalogueVars
<1>3. CASE CatalogueNext
  BY <1>1, <1>3, UserChangesFollowed, UserEditsScenesFollowed, UserAddsInputFollowed, UserRemovesInputFollowed,
     UserRenamesInputFollowed, UserEditsListingFollowed, ApplyEventFollowed, RefreshFollowed, LinkUpFollowed
     DEF CatalogueNext
<1>4. CASE Next /\ ~CatalogueNext
  BY <1>1, <1>4, CommandsFollowed
<1> QED BY <1>2, <1>3, <1>4

LEMMA RestFollows ==
  ASSUME CatalogueInv, FollowInv
  PROVE  SnapshotFollows
<1> SUFFICES ASSUME linked, events = << >>, ~nudge, ~seen.behind
             PROVE  ListsFollow /\ (seen.strange \/ InputsFollow)
  BY DEF SnapshotFollows
<1>1. Follows(obs, << >>, snapshot, config, nudge, seen) /\ nudge = FALSE
  BY DEF FollowInv
<1>2. /\ obs \in ObsStates /\ snapshot \in Snapshots /\ Sound(config) /\ snapshot.inputs \in Seq(AudioState)
      /\ Distinct(obs.inputs) /\ Distinct(snapshot.inputs) /\ RowsAre(snapshot, config)
      /\ AliasesAre(snapshot.inputs, config, seen.bare)
  BY DEF CatalogueInv, Snapshots, FollowInv, Tracks, RowsFit
<1> DEFINE built == BuildSnapshot(obs, Projection(config))
<1>3. ListsFollow
  <2>1. ListsAgree(obs, << >>, snapshot, FALSE)
        /\ snapshot.profiles = config.profiles /\ snapshot.active = Projection(config).active
    BY <1>1 DEF Follows
  <2>2. /\ snapshot.scenes = built.scenes /\ snapshot.current = built.current
        /\ snapshot.streaming = built.streaming /\ snapshot.recording = built.recording
        /\ \A kind \in Selections :
             /\ snapshot.selection[kind].names = built.selection[kind].names
             /\ Plain(obs.selection[kind].current) =>
                  snapshot.selection[kind].current = built.selection[kind].current
    BY <1>2, <2>1, ListsAtRest
  <2>3. built.profiles = config.profiles /\ built.active = Projection(config).active
    BY <1>2, ProjectionFields DEF BuildSnapshot
  <2> HIDE DEF built
  <2>4. snapshot.profiles = built.profiles /\ snapshot.active = built.active
    BY <2>1, <2>3
  <2> QED BY <2>2, <2>4 DEF ListsFollow, built
<1>4. ASSUME ~seen.strange PROVE InputsFollow
  <2>1. Ordinary(obs.inputs, << >>) /\ InputsAgree(obs.inputs, << >>, snapshot.inputs, seen.bare)
    BY <1>1, <1>4 DEF Follows
  <2>2. \A i \in DOMAIN obs.inputs : Plain(obs.inputs[i].name)
    BY <2>1 DEF Ordinary
  <2>3. /\ {s \in ToSet(snapshot.inputs) : s.name \notin seen.bare} = {b \in ToSet(built.inputs) : b.name \notin seen.bare}
        /\ \A s \in ToSet(snapshot.inputs) : \E b \in ToSet(built.inputs) :
             /\ b.name = s.name /\ s.muted \subseteq b.muted /\ s.percent \subseteq b.percent
             /\ s.alias \in {None, b.alias}
        /\ Len(snapshot.inputs) = Len(built.inputs)
    BY <1>2, <2>1, <2>2, InputsAtRest
  <2> HIDE DEF built
  <2> QED BY <2>3 DEF InputsFollow, built
<1> QED BY <1>3, <1>4

LEMMA ToldAsItWas ==
  ASSUME IInv
  PROVE  SaveToldAsItWas
<1> DEFINE target == job.payload.args.target
           active == \E r \in job.reply : r.active
<1>1. 0 \in job.told /\ job.payload.name \in ProfileCommands => job.performed
  BY DEF IInv, JobInv, Told, Flows
<1>2. StatusLine \in {"saved", "saved_active"} =>
        \E edit \in job.edits : IsOn(edit.to, target) <=> StatusLine = "saved_active"
  <2> SUFFICES ASSUME StatusLine \in {"saved", "saved_active"}
               PROVE  \E edit \in job.edits : IsOn(edit.to, target) <=> StatusLine = "saved_active"
    OBVIOUS
  <2>1. /\ job.payload.name = "save_scene_profile" /\ 0 \in job.told
        /\ StatusLine = IF active THEN "saved_active" ELSE "saved"
    BY DEF StatusLine
  <2>2. \E edit \in job.edits : IsOn(edit.to, target) <=> active
    BY <1>1, <2>1 DEF IInv, JobInv, Saves, ProfileCommands
  <2> QED BY <2>1, <2>2
<1>3. StatusLine = "saved_and_activated" => \E edit \in job.edits : IsOn(edit.to, target)
  <2> SUFFICES ASSUME StatusLine = "saved_and_activated"
               PROVE  \E edit \in job.edits : IsOn(edit.to, target)
    OBVIOUS
  <2>1. job.saved # {} /\ 0 \in job.told
    BY DEF StatusLine
  <2>2. job.payload.name = "set_scene_profile"
    BY <2>1 DEF IInv, JobInv, Saves
  <2> QED BY <1>1, <2>1, <2>2 DEF IInv, JobInv, Saves, ProfileCommands
<1>4. StatusLine = "activation_failed" => \E edit \in job.edits : SceneProfileAt(edit.to, target) # {}
  <2>1. StatusLine = "activation_failed" => job.saved # {}
    BY DEF StatusLine
  <2> QED BY <2>1 DEF IInv, JobInv, Saves
<1>5. job.payload.name # "subscribe" => \A r \in job.reply : r.gone \subseteq {r.hidden}
  BY DEF IInv, JobInv, Saves
<1> QED BY <1>2, <1>3, <1>4, <1>5 DEF SaveToldAsItWas

LEMMA ExitIsTrue ==
  ASSUME IInv
  PROVE  ExitTellsWhatHappened
<1>1. 0 \in job.told /\ job.payload.name \in ObsCommands \union ProfileCommands => job.performed
  BY DEF IInv, JobInv, Told, Flows
<1>2. job.told \cap {1, 2, 3, 5} # {} => ~job.performed /\ ~job.wire
  BY DEF IInv, JobInv, Told
<1> QED BY <1>1, <1>2, ToldAsItWas DEF ExitTellsWhatHappened, IInv

LEMMA Invariance == Spec => []IInv
<1> QED BY Beginning, Stepping, PTL DEF Spec

\* What the daemon holds is of the shape it should be: usable names in the
\* snapshot, configs whose profiles are told apart by their names, and scenes
\* hidden as the config says (state_store.rs merge_config, validation.rs).
THEOREM SnapshotHidesWhatTheConfigHides == Spec => []CatalogueInv
<1>1. IInv => CatalogueInv
  BY DEF IInv
<1> QED BY <1>1, Invariance, PTL

\* Whatever is in the snapshot and whatever the target, a scene or input command
\* acts on the entry that answers best, on none where two answer equally well but
\* for their case, and is "not found" only where none answers
\* (domain/aliases.rs resolve, server/command_executor.rs cmd_set_scene and the rest).
THEOREM CommandsActOnWhatWasNamed == Spec => []ActsOnWhatWasNamed
<1>1. IInv => ActsOnWhatWasNamed
  BY DEF IInv
<1> QED BY <1>1, Invariance, PTL

\* The exit status and the sentence a save ends with are true, whatever happens
\* at OBS and to the config meanwhile: status 0 only for what was done, 1, 2, 3
\* and 5 only for what was not and never will be, and a save leaves every other
\* profile, and which one is on, as it was (cli/client_commands.rs,
\* tui/daemon.rs, command_executor.rs save_scene_profile).
THEOREM ExitStatusIsTrue == Spec => []ExitTellsWhatHappened
<1>1. IInv => ExitTellsWhatHappened
  BY ExitIsTrue
<1> QED BY <1>1, Invariance, PTL

\* With nothing on its way the daemon's snapshot is what a full refresh would
\* build now, whatever happened at OBS, on the link and to the config before:
\* the scenes, the current one, the outputs, the selections and the profiles,
\* and the inputs but for a rename, which the daemon does not hear of, and for
\* what of a new input only a refresh reads (snapshot_refresh.rs refresh_once,
\* state_store.rs mutate_snapshot and merge_config, obs_event_adapter.rs).
THEOREM SnapshotFollowsObs == Spec => []SnapshotFollows
<1>1. Init => FollowInv
  BY FollowingStarts DEF Init
<1>2. IInv /\ FollowInv /\ [Next]_vars => FollowInv'
  BY FollowingKept
<1>3. IInv /\ FollowInv => SnapshotFollows
  BY RestFollows DEF IInv
<1> QED BY <1>1, <1>2, <1>3, Invariance, PTL DEF Spec
=============================================================================
