----------------------------- MODULE TuiEditor ------------------------------
(***************************************************************************)
(* The scene-profile editor of the TUI (tui/model.rs), as operators on the *)
(* editor and the snapshot behind it, and the daemon it edits: the scene   *)
(* profiles of its config (server/command_executor.rs) and what they hide  *)
(* (domain/scene_profiles.rs).                                             *)
(*                                                                         *)
(* A text is a number.  Trimmed says what it is without the spaces around  *)
(* it, and is 0 when nothing usable is left; Normal says which name it     *)
(* spells.  The order of the numbers is that of the texts.                 *)
(***************************************************************************)
EXTENDS Integers, Sequences, FiniteSets, SequencesExt

CONSTANTS
  Trimmed, \* checked_name
  Normal   \* normalized_name

Text == DOMAIN Normal
Blank == 0

ASSUME TextAssumption ==
  /\ DOMAIN Trimmed = Text /\ Text \subseteq Nat /\ Blank \in Text
  /\ \A t \in Text : /\ Trimmed[t] \in Text /\ Trimmed[Trimmed[t]] = Trimmed[t]
                     /\ Trimmed[t] = Blank <=> Normal[t] = Blank
                     /\ Normal[Trimmed[t]] = Normal[t]
  /\ Trimmed[Blank] = Blank /\ IsFiniteSet(Text)

(* same_scene_profile_name: what is no name matches nothing.               *)
Same(s, t) == Normal[s] # Blank /\ Normal[s] = Normal[t]

(* What can be the name of a scene or a profile.                           *)
Name == {t \in Text : Trimmed[t] # Blank}
Profile == [name : Text, hidden : SUBSET Name]
Position(profiles, name) == SelectInSeq(profiles, LAMBDA p : Same(p.name, name))
Least(a, b) == IF a < b THEN a ELSE b
AtLeast0(n) == IF n < 0 THEN 0 ELSE n

(* A set of texts as a sequence, the least first.                          *)
Below(texts, t) == {u \in texts : u < t}
InOrder(texts) ==
  [i \in 1 .. Cardinality(texts) |-> CHOOSE t \in texts : Cardinality(Below(texts, t)) = i - 1]

---------------------------------------------------------------------------
(* The daemon: the scenes OBS has, those the config marks hidden, the      *)
(* scene profiles and the active one.                                      *)
Daemon == [scenes : Seq(Name), flagged : SUBSET Text, profiles : Seq(Profile), active : Text]
Visible(d) == Position(d.profiles, d.active)
HiddenNames(d) ==
  LET i == Visible(d) IN
  {Normal[t] : t \in IF i = 0 THEN d.flagged ELSE d.profiles[i].hidden} \ {Blank}

(* The snapshot of it: the active profile in the spelling of its entry.    *)
Projected(d) ==
  [scenes |-> [i \in DOMAIN d.scenes |-> [name |-> d.scenes[i], hidden |-> Normal[d.scenes[i]] \in HiddenNames(d)]],
   profiles |-> d.profiles,
   active |-> IF Visible(d) = 0 THEN Blank ELSE d.profiles[Visible(d)].name]

SetProfile(d, name) ==
  LET i == Position(d.profiles, name) IN IF i = 0 THEN d ELSE [d EXCEPT !.active = d.profiles[i].name]
ClearProfile(d) == [d EXCEPT !.active = Blank]

(* cmd_save_scene_profile.  A rename onto another profile is refused.      *)
SaveRefused(d, from, name) ==
  LET old == Position(d.profiles, from)
      new == Position(d.profiles, name) IN old # 0 /\ new # 0 /\ old # new
Creates(d, from, name) == Position(d.profiles, from) = 0 /\ Position(d.profiles, name) = 0
SaveProfile(d, from, name, hidden) ==
  LET profile == [name |-> name, hidden |-> hidden]
      old == Position(d.profiles, from)
      new == Position(d.profiles, name)
  IN CASE SaveRefused(d, from, name) -> d
       [] ~SaveRefused(d, from, name) /\ old # 0 -> [d EXCEPT !.profiles[old] = profile,
            !.active = IF Same(d.active, d.profiles[old].name) THEN name ELSE d.active]
       [] old = 0 /\ new # 0 -> [d EXCEPT !.profiles[new] = profile]
       [] OTHER -> [d EXCEPT !.profiles = Append(d.profiles, profile)]

DeleteProfile(d, name) ==
  LET i == Position(d.profiles, name) IN
  IF i = 0 THEN d
  ELSE [d EXCEPT !.profiles = RemoveAt(d.profiles, i),
                 !.active = IF Same(d.active, d.profiles[i].name) THEN Blank ELSE d.active]

---------------------------------------------------------------------------
(* SceneProfileEditor.  Blank in "editing" is a profile yet to be made, in *)
(* "asked" no delete waiting to be confirmed.                              *)
Closed ==
  [stage |-> "Closed", picker |-> 0, scene |-> 0, name |-> Blank, before |-> Blank,
   hidden |-> {}, editing |-> Blank, asked |-> Blank]
Stage == {"Closed", "Picker", "Scenes", "Naming"}
Editors ==
  [stage : Stage, picker : Nat, scene : Nat, name : Text, before : Text,
   hidden : SUBSET Name, editing : Text, asked : Text]
IsOpen(ed) == ed.stage # "Closed"

Hides(ed, scene) == \E t \in ed.hidden : Same(t, scene)

(* Names no scene answers to have rows of their own, after the scenes.     *)
(* With no scene list there is nothing to judge them by.                   *)
IsScene(snap, t) == \E i \in DOMAIN snap.scenes : Same(snap.scenes[i].name, t)
StaleHidden(ed, snap) ==
  IF snap.scenes = << >> THEN << >>
  ELSE InOrder({t \in ed.hidden : ~IsScene(snap, t)})
SceneRows(ed, snap) == [i \in DOMAIN snap.scenes |-> snap.scenes[i].name] \o StaleHidden(ed, snap)

Rows(ed, snap) ==
  CASE ed.stage = "Picker" -> 1 + Len(snap.profiles)
    [] ed.stage \in {"Scenes", "Naming"} -> Len(SceneRows(ed, snap))
    [] ed.stage = "Closed" -> 0
Cursor(ed) == IF ed.stage = "Picker" THEN ed.picker ELSE IF IsOpen(ed) THEN ed.scene ELSE 0

KeepsAsking(ed, snap, index) == \* mutant
  LET clamped == Least(index, AtLeast0(Rows(ed, snap) - 1)) IN
  CASE ed.stage = "Picker" -> [ed EXCEPT !.picker = clamped]
    [] ed.stage \in {"Scenes", "Naming"} -> [ed EXCEPT !.scene = clamped]
    [] ed.stage = "Closed" -> ed

(* The one place a cursor is set.  It answers a pending delete with no.    *)
CursorTo(ed, snap, index) ==
  LET clamped == Least(index, AtLeast0(Rows(ed, snap) - 1)) IN
  CASE ed.stage = "Picker" -> [ed EXCEPT !.picker = clamped, !.asked = Blank]
    [] ed.stage \in {"Scenes", "Naming"} -> [ed EXCEPT !.scene = clamped, !.asked = Blank]
    [] ed.stage = "Closed" -> ed

Move(ed, snap, rows) == CursorTo(ed, snap, AtLeast0(Cursor(ed) + rows))

(* The picker opens on the active profile, else on the first one there is. *)
Opened(snap) ==
  LET active == Position(snap.profiles, snap.active) IN
  CursorTo([Closed EXCEPT !.stage = "Picker"], snap,
           IF active # 0 THEN active ELSE IF snap.profiles = << >> THEN 0 ELSE 1)

Selected(ed, snap) == ed.picker \in DOMAIN snap.profiles  \* else the row of a new profile

AskDelete(ed, snap) ==
  IF Selected(ed, snap) THEN [ed EXCEPT !.asked = snap.profiles[ed.picker].name] ELSE ed
CancelDelete(ed) == [ed EXCEPT !.asked = Blank]

(* Row 0 starts a profile that hides what is hidden now, and asks for its  *)
(* name; any other row edits the profile in it.                            *)
PickerConfirm(ed, snap) ==
  CASE ed.picker = 0 ->
         CursorTo([ed EXCEPT !.stage = "Naming", !.name = Blank, !.before = Blank, !.editing = Blank,
                             !.hidden = {s.name : s \in {x \in ToSet(snap.scenes) : x.hidden}}], snap, 0)
    [] Selected(ed, snap) ->
         LET p == snap.profiles[ed.picker] IN
         CursorTo([ed EXCEPT !.stage = "Scenes", !.name = p.name, !.before = p.name, !.editing = p.name,
                             !.hidden = p.hidden], snap, 0)
    [] OTHER -> ed

BeginNaming(ed) == [ed EXCEPT !.stage = "Naming", !.before = ed.name]

TakenAsSpelled(ed, snap) == \* mutant
  \E i \in DOMAIN snap.profiles : snap.profiles[i].name = ed.name /\ ed.name # ed.editing

(* A name is taken when a profile other than the one being edited has it.  *)
Taken(ed, snap) ==
  \E i \in DOMAIN snap.profiles :
    Same(snap.profiles[i].name, ed.name) /\ ~Same(snap.profiles[i].name, ed.editing)
Usable(t) == Trimmed[t] # Blank
NameCommit(ed, snap) ==
  IF Usable(ed.name) /\ ~Taken(ed, snap)
  THEN [ed EXCEPT !.stage = "Scenes", !.name = Trimmed[ed.name]]
  ELSE ed
NameCancel(ed) == [ed EXCEPT !.stage = "Scenes", !.name = ed.before]

ToggledAsSpelled(hidden, name) == \* mutant
  IF name \in hidden THEN hidden \ {name} ELSE hidden \cup {name}

(* The row under the cursor, hidden or shown.  A stored spelling is what   *)
(* is taken out, the least of them.                                        *)
Toggled(hidden, name) ==
  LET stored == {t \in hidden : Same(t, name)} IN
  IF stored = {} THEN hidden \cup {name} ELSE hidden \ {CHOOSE t \in stored : \A u \in stored : t <= u}
ToggleHidden(ed, snap) ==
  IF ed.scene + 1 \in DOMAIN SceneRows(ed, snap)
  THEN LET toggled == [ed EXCEPT !.hidden = Toggled(ed.hidden, SceneRows(ed, snap)[ed.scene + 1])]
       IN CursorTo(toggled, snap, toggled.scene)
  ELSE ed

Back(ed, snap) == CursorTo([ed EXCEPT !.stage = "Picker"], snap, ed.picker)

(* Where the cycle key goes: Blank is the baseline.                        *)
NextProfile(snap) ==
  LET i == Position(snap.profiles, snap.active) IN
  IF i = Len(snap.profiles) THEN Blank ELSE snap.profiles[i + 1].name
=============================================================================
