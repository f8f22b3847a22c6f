------------------------------ MODULE TuiModel ------------------------------
(***************************************************************************)
(* The terminal UI between its events: what a key or a click does to the   *)
(* model (tui/input.rs, tui/mouse.rs, tui/actions.rs, tui/model.rs), what  *)
(* it sends to the daemon, and what a snapshot that arrives at any moment  *)
(* does to the cursors, the command line and the editor on the screen.     *)
(*                                                                         *)
(* The loop runs one event to its end, the daemon's answer included, and   *)
(* draws before it takes the next, so that a click is resolved against the *)
(* rows of the model it is applied to.  The daemon is reduced to what the  *)
(* scene-profile editor changes (TuiEditor); other clients change it too,  *)
(* and its snapshots come when they come.  The panels other than Scenes    *)
(* have as many rows as Rows says; levels are left to TuiSession and the   *)
(* meaning of a command line to Palette.                                   *)
(***************************************************************************)
EXTENDS TuiInput, TuiEditor

CONSTANTS
  Daemons,      \* the daemons the UI may find
  Foreign,      \* scene profiles other clients save
  OtherRows,    \* rows of each panel but Scenes
  Themes,       \* how many theme::ALL has
  MaxCount,     \* MAX_COUNT
  LogEntries,   \* MAX_LOG_ENTRIES
  LogRows,      \* log lines the pane shows
  HalfPage,     \* half of the rows a list shows
  Wheel,        \* WHEEL_ROWS
  Complete,     \* completion::compute: the candidates for a line
  Seed,         \* what a menu entry puts behind the prompt
  Lines,        \* bound: the lines that are typed
  MaxOpens,     \* bound: how often the editor is opened
  MaxForeign,   \* bound: how often other clients change the scene profiles
  Tours         \* bound: the keys pressed and the arrivals in one behaviour

Prompt == ":"
Menus == {"none", "scene", "profile", "scene-profile", "collection", "toggle-mute"}

(* A click is a button or a turn of the wheel, where, and on which row.    *)
Button == {"left", "right"}
Click == [what : Button \cup {"up", "down"}, area : Panel \cup {"list", "logs", "palette"}, row : Nat]

ASSUME BoundAssumption ==
  {MaxCount, LogEntries, LogRows, HalfPage, Wheel} \subseteq Nat /\ Themes \in Nat \ {0}
ASSUME RowsAssumption == OtherRows \in [Panel \ {"Scenes"} -> Nat]
ASSUME LinesAssumption ==
  /\ \A l \in Lines : /\ l \in Seq(STRING) /\ l # << >> /\ Head(l) = Prompt
                       /\ \A n \in 1 .. Len(l) : SubSeq(l, 1, n) \in Lines
  /\ Complete \in [Lines -> Seq(Lines)]
  /\ \A w \in Menus : <<Prompt>> \o Seed[w] \in Lines
ASSUME DaemonAssumption == Daemons \subseteq Daemon /\ Foreign \subseteq Profile
(* The themes of theme::ALL by their rows, and the config's own palette.   *)
Custom == Themes
Theme == 0 .. Themes

ASSUME ToursAssumption == \A t \in Tours : t.clicks \subseteq Click /\ t.theme \in Theme

VARIABLES
  tour,    \* which of the Tours this is
  ui,      \* the TuiModel
  work,    \* the DaemonWork of the last event, or none
  daemon,  \* what the daemon holds
  opens, foreign, \* how often the editor was opened, and others wrote
  chosen,  \* history: the theme confirmed last, or configured
  strange  \* history: profile names the UI had not been told of when it accepted a name

env == <<daemon, foreign>>
vars == <<tour, ui, work, env, opens, chosen, strange>>

NoIndex == 0
Shut == [active |-> FALSE, input |-> << >>, completions |-> << >>, idx |-> NoIndex]
NoWork == [kind |-> "none", name |-> Blank, from |-> Blank, hidden |-> {}]
Sends(kind, name) == [NoWork EXCEPT !.kind = kind, !.name = name]
NoSnapshot == [scenes |-> << >>, profiles |-> << >>, active |-> Blank]
View == {"Main", "Settings"}
Pending == {"none", "g", "leader"} \cup Group

Init ==
  /\ tour \in Tours
  /\ daemon \in Daemons
  /\ ui = [snap |-> NoSnapshot, connected |-> FALSE,
           focus |-> "Scenes", cursor |-> [p \in Panel |-> 0],
           pending |-> "none", count |-> 0, palette |-> Shut,
           view |-> "Main", theme |-> tour.theme, themeCursor |-> 0, origin |-> -1,
           logs |-> 0, scroll |-> 0, editor |-> Closed]
  /\ work = NoWork
  /\ opens = 0 /\ foreign = 0
  /\ chosen = ui.theme
  /\ strange = {}

---------------------------------------------------------------------------
(* The dashboard.                                                          *)
Scenes(m) == SelectSeq(m.snap.scenes, LAMBDA s : ~s.hidden)
Known(m) == m.snap # NoSnapshot
RowCount(m, p) == IF p = "Scenes" THEN Len(Scenes(m)) ELSE IF Known(m) THEN OtherRows[p] ELSE 0
LastRow(m, p) == AtLeast0(RowCount(m, p) - 1)

SetCursor(m, p, index) == [m EXCEPT !.cursor[p] = Least(index, LastRow(m, p))]

(* Every change of the snapshot brings all cursors back into their lists.  *)
ClampCursors(m) ==
  [m EXCEPT !.cursor = [p \in Panel |-> Least(m.cursor[p], LastRow(m, p))],
            !.editor = CursorTo(m.editor, m.snap, Cursor(m.editor))]
SetSnapshot(m, snap) == ClampCursors([m EXCEPT !.snap = snap])

Neighbour ==
  [left  |-> [Scenes |-> "Scenes", Audio |-> "Scenes", Profiles |-> "Profiles", Collections |-> "Profiles"],
   right |-> [Scenes |-> "Audio", Audio |-> "Audio", Profiles |-> "Collections", Collections |-> "Collections"],
   up    |-> [Scenes |-> "Scenes", Audio |-> "Audio", Profiles |-> "Scenes", Collections |-> "Audio"],
   down  |-> [Scenes |-> "Profiles", Audio |-> "Collections", Profiles |-> "Profiles", Collections |-> "Collections"],
   next  |-> [Scenes |-> "Audio", Audio |-> "Profiles", Profiles |-> "Collections", Collections |-> "Scenes"],
   prev  |-> [Scenes |-> "Collections", Audio |-> "Scenes", Profiles |-> "Audio", Collections |-> "Profiles"]]

(* The theme picker shows each theme as it goes over it.                   *)
Preview(m, index) ==
  LET at == Least(index, Themes - 1) IN [m EXCEPT !.themeCursor = at, !.theme = at]
ThemeRow(theme) == IF theme = Custom THEN 0 ELSE theme
OpenThemes(m) == [m EXCEPT !.origin = m.theme, !.themeCursor = ThemeRow(m.theme), !.view = "Settings"]
CancelThemes(m) ==
  [m EXCEPT !.theme = IF m.origin = -1 THEN m.theme ELSE m.origin, !.origin = -1, !.view = "Main"]
ApplyThemes(m) == [m EXCEPT !.theme = m.themeCursor, !.origin = -1, !.view = "Main"]

(* One vocabulary of motions: the theme picker's cursor or the panel's.    *)
NavTo(m, index) == IF m.view = "Settings" THEN Preview(m, index) ELSE SetCursor(m, m.focus, index)
NavCursor(m) == IF m.view = "Settings" THEN m.themeCursor ELSE m.cursor[m.focus]
Nav(m, rows) == NavTo(m, AtLeast0(NavCursor(m) + rows))
Bottom(m) == IF m.view = "Settings" THEN Themes - 1 ELSE LastRow(m, m.focus)

Count(m) == IF m.count = 0 THEN 1 ELSE m.count
PushCount(m, digit) == [m EXCEPT !.count = Least(10 * m.count + digit, MaxCount)]
ClearPending(m) == [m EXCEPT !.pending = "none", !.count = 0]
Cancel(m) == [ClearPending(m) EXCEPT !.scroll = 0]

---------------------------------------------------------------------------
(* The command line.  An edit of it recomputes what it could become.       *)
Edit(m, input) ==
  [m EXCEPT !.palette = [active |-> TRUE, input |-> input, completions |-> Complete[input], idx |-> NoIndex]]
ClosePalette(m) == [m EXCEPT !.palette = Shut]

(* Back over the spaces, then over the word, never over the prompt.        *)
WordStart(line) ==
  LET end == Max({1} \cup {i \in DOMAIN line : line[i] # Space})
  IN Max({1} \cup {i \in 1 .. end : line[i] = Space})
DeleteWord(line) == SubSeq(line, 1, WordStart(line))

Cycle(m, step) ==
  LET n == Len(m.palette.completions)
      i == IF m.palette.idx = NoIndex THEN (IF step = 1 THEN 1 ELSE n)
           ELSE 1 + ((m.palette.idx - 1 + step) % n)
  IN IF n = 0 THEN m
     ELSE [m EXCEPT !.palette.idx = i, !.palette.input = m.palette.completions[i]]

---------------------------------------------------------------------------
(* The log pane.  Read back, it stays on the lines being read.             *)
MaxScroll(m) == AtLeast0(m.logs - LogRows)
PushLogFollows(m) == [m EXCEPT !.logs = Least(m.logs + 1, LogEntries)] \* mutant
PushLog(m) ==
  [m EXCEPT !.logs = Least(m.logs + 1, LogEntries),
            !.scroll = IF m.scroll > 0 THEN Least(m.scroll + 1, LogEntries) ELSE 0]
ScrollUp(m, lines) == [m EXCEPT !.scroll = Least(m.scroll + lines, MaxScroll(m))]
ScrollDown(m, lines) == [m EXCEPT !.scroll = AtLeast0(m.scroll - lines)]
ViewStart(m) == MaxScroll(m) - Least(m.scroll, MaxScroll(m))

---------------------------------------------------------------------------
(* What a key or a click means, by what owns the keyboard or was drawn.    *)
KeyAction(m, key) ==
  CASE m.palette.active -> PaletteKey(Len(m.palette.input), key)
    [] ~m.palette.active /\ IsOpen(m.editor) -> EditorKey(m.editor.stage, m.editor.asked # Blank, key)
    [] ~m.palette.active /\ ~IsOpen(m.editor) /\ m.pending # "none" -> PendingKey(m.pending, key)
    [] OTHER -> IF m.view = "Settings" THEN SettingsKey(m.count, Count(m), key)
                ELSE MainKey(m.focus, m.count, Count(m), key)

Drawn(m) ==
  IF m.view = "Settings" THEN "Settings"
  ELSE IF IsOpen(m.editor) THEN "Editor"
  ELSE IF m.connected THEN "Main" ELSE "Disconnected"

SettingsClick(m, c) ==
  CASE c.what = "right" -> Do("CloseSettings")
    [] c.area # "list" /\ c.what # "right" -> Nothing
    [] c.area = "list" /\ c.what = "up" -> Act("NavUp", Wheel)
    [] c.area = "list" /\ c.what = "down" -> Act("NavDown", Wheel)
    [] c.area = "list" /\ c.what = "left" ->
         IF c.row >= Themes THEN Nothing
         ELSE IF c.row = m.themeCursor THEN Do("ApplySettingsTheme") ELSE Act("SettingsSelect", c.row)

(* A click answers a pending delete with no.  A second click on a profile  *)
(* switches it on.                                                         *)
EditorClick(ed, snap, c) ==
  CASE ed.asked # Blank -> IF c.what \in Button THEN Editor("DeleteCancel") ELSE Nothing
    [] ed.asked = Blank /\ c.what = "right" ->
         [Picker |-> Do("CloseSceneProfiles"), Scenes |-> Editor("Back"), Naming |-> Editor("NameCancel")][ed.stage]
    [] ed.asked = Blank /\ c.what = "up" -> IF c.area = "list" THEN Act("EditorNavUp", Wheel) ELSE Nothing
    [] ed.asked = Blank /\ c.what = "down" -> IF c.area = "list" THEN Act("EditorNavDown", Wheel) ELSE Nothing
    [] ed.asked = Blank /\ c.what = "left" ->
         IF c.area # "list" \/ ed.stage = "Naming" \/ c.row >= Rows(ed, snap) THEN Nothing
         ELSE IF ed.stage = "Picker" /\ c.row = ed.picker /\ c.row > 0 THEN Editor("EditorActivate")
         ELSE Act("EditorSelect", c.row)

PanelClick(m, c) ==
  CASE c.what = "up" -> Act("Select", [panel |-> c.area, row |-> AtLeast0(m.cursor[c.area] - Wheel)])
    [] c.what = "down" -> Act("Select", [panel |-> c.area, row |-> m.cursor[c.area] + Wheel])
    [] c.what = "left" ->
         IF c.row >= RowCount(m, c.area) THEN Nothing
         ELSE Act(IF m.focus = c.area /\ m.cursor[c.area] = c.row THEN "ActivateRow" ELSE "Select",
                  [panel |-> c.area, row |-> c.row])

PaletteClick(m, c) ==
  CASE c.what = "left" -> IF m.palette.active THEN Nothing ELSE OpenPalette("none")
    [] c.what = "down" -> IF m.palette.active THEN Do("CompleteNext") ELSE Nothing
    [] c.what = "up" -> IF m.palette.active THEN Do("CompletePrev") ELSE Nothing

LogsClick(c) ==
  CASE c.what = "up" -> Act("LogScrollUp", Wheel)
    [] c.what = "down" -> Act("LogScrollDown", Wheel)
    [] OTHER -> Nothing

MainClick(m, c) ==
  IF c.what = "right" THEN Do(IF m.palette.active THEN "ClosePalette" ELSE "ClearPending")
  ELSE IF m.pending # "none" /\ c.what = "left" THEN Do("ClearPending")
  ELSE CASE c.area = "logs" -> LogsClick(c)
         [] c.area = "palette" -> PaletteClick(m, c)
         [] c.area \in Panel -> PanelClick(m, c)
         [] c.area = "list" -> Nothing

MouseAction(m, c) ==
  CASE Drawn(m) = "Disconnected" -> IF c.what = "left" THEN Do("RetryConnect") ELSE Nothing
    [] Drawn(m) = "Settings" -> SettingsClick(m, c)
    [] Drawn(m) = "Editor" -> EditorClick(m.editor, m.snap, c)
    [] Drawn(m) = "Main" -> MainClick(m, c)

---------------------------------------------------------------------------
(* Every action but a digit and a half-typed sequence ends the sequence.   *)
KeepsPending(a) == a.op \in {"PushCount", "SetPending"}
Ended(a, m) == IF KeepsPending(a) THEN m ELSE ClearPending(m)

Becomes(a, m) ==
  /\ ui' = Ended(a, m) /\ work' = NoWork
  /\ UNCHANGED <<env, opens, chosen, strange>>
Edits(a, ed) == Becomes(a, [ui EXCEPT !.editor = ed])

(* What the daemon makes of it.  The names a profile hides are trimmed and *)
(* listed once.  A profile that is new is switched on by a second command. *)
Cleaned(w) == {Trimmed[t] : t \in {t \in w.hidden : \A u \in w.hidden : Same(u, t) => t <= u}}
Saves(d, w) ==
  LET saved == SaveProfile(d, Trimmed[w.from], Trimmed[w.name], Cleaned(w)) IN
  IF Blank \in Cleaned(w) THEN {d}
  ELSE {saved} \cup IF Creates(d, w.from, w.name) THEN {SetProfile(saved, w.name)} ELSE {}
Runs(d, w) ==
  CASE w.kind = "set_scene_profile" -> {SetProfile(d, w.name)}
    [] w.kind = "clear_scene_profile" -> {ClearProfile(d)}
    [] w.kind = "delete_scene_profile" -> {DeleteProfile(d, w.name)}
    [] w.kind = "save_scene_profile" -> Saves(d, w)
    [] OTHER -> {d}

(* The loop waits for the answer; the command may have failed.             *)
Asks(a, m, w) ==
  /\ ui' = Ended(a, m) /\ work' = w
  /\ daemon' \in {daemon} \cup Runs(daemon, w)
  /\ UNCHANGED <<foreign, opens, chosen, strange>>

Row(m, p) == m.cursor[p] < RowCount(m, p)
ActivateFocused(a, m) ==
  IF ~Row(m, m.focus) THEN Becomes(a, m)
  ELSE Asks(a, m, Sends(m.focus, IF m.focus = "Scenes" THEN Scenes(m)[m.cursor["Scenes"] + 1].name ELSE Blank))

Dashboard(a) ==
  \/ a.op = "Focus" /\ Becomes(a, [ui EXCEPT !.focus = a.arg])
  \/ a.op = "Pane" /\ Becomes(a, [ui EXCEPT !.focus = Neighbour[a.arg][ui.focus]])
  \/ a.op = "NavUp" /\ Becomes(a, Nav(ui, 0 - a.arg))
  \/ a.op = "NavDown" /\ Becomes(a, Nav(ui, a.arg))
  \/ a.op = "NavTop" /\ Becomes(a, NavTo(ui, 0))
  \/ a.op = "NavBottom" /\ Becomes(a, NavTo(ui, Bottom(ui)))
  \/ a.op = "NavHalfPageUp" /\ Becomes(a, Nav(ui, 0 - HalfPage))
  \/ a.op = "NavHalfPageDown" /\ Becomes(a, Nav(ui, HalfPage))
  \/ a.op = "Select" /\ Becomes(a, SetCursor([ui EXCEPT !.focus = a.arg.panel], a.arg.panel, a.arg.row))
  \/ a.op = "ActivateRow"
       /\ ActivateFocused(a, SetCursor([ui EXCEPT !.focus = a.arg.panel], a.arg.panel, a.arg.row))
  \/ a.op = "Activate" /\ ActivateFocused(a, ui)
  \/ a.op = "ToggleMute"
       /\ IF Row(ui, "Audio") THEN Asks(a, ui, Sends("toggle_mute", Blank)) ELSE Becomes(a, ui)
  \/ a.op = "Volume" /\ Becomes(a, ui)
  \/ a.op = "Simple" /\ Asks(a, ui, Sends(a.arg, Blank))
  \/ a.op = "RetryConnect"
       /\ \E found \in BOOLEAN : Becomes(a, [ui EXCEPT !.connected = @ \/ found])
  \/ a.op = "LogScrollUp" /\ Becomes(a, ScrollUp(ui, a.arg))
  \/ a.op = "LogScrollDown" /\ Becomes(a, ScrollDown(ui, a.arg))

HalfTyped(a) ==
  \/ a.op = "SetPending" /\ Becomes(a, [ui EXCEPT !.pending = a.arg])
  \/ a.op = "ClearPending" /\ Becomes(a, Cancel(ui))
  \/ a.op = "PushCount" /\ Becomes(a, PushCount(ui, a.arg))
  \/ a.op \in {"ToggleIcons", "ToggleAdvancedUi"} /\ Becomes(a, ui)

Quit ==
  /\ work' = Sends("quit", Blank)
  /\ UNCHANGED <<ui, env, opens, chosen, strange>>

(* The line is taken and the palette closed before the answer is awaited.  *)
Palette(a) ==
  LET line == ui.palette.input IN
  \/ a.op = "OpenPalette" /\ Becomes(a, Edit(ui, <<Prompt>> \o Seed[a.arg]))
  \/ a.op = "ClosePalette" /\ Becomes(a, ClosePalette(ui))
  \/ a.op = "PaletteChar" /\ Append(line, a.arg) \in Lines /\ Becomes(a, Edit(ui, Append(line, a.arg)))
  \/ a.op = "PaletteBackspace" /\ Becomes(a, Edit(ui, Front(line)))
  \/ a.op = "PaletteClear" /\ Becomes(a, Edit(ui, <<Head(line)>>))
  \/ a.op = "PaletteDeleteWord" /\ Becomes(a, Edit(ui, DeleteWord(line)))
  \/ a.op = "CompleteNext" /\ Becomes(a, Cycle(ui, 1))
  \/ a.op = "CompletePrev" /\ Becomes(a, Cycle(ui, -1))
  \/ a.op = "PaletteSubmit"
       /\ \/ Asks(a, ClosePalette(ui), Sends("palette", Blank))
          \/ Becomes(a, OpenThemes(ClosePalette(ui)))
          \/ Quit

Settings(a) ==
  \/ a.op = "OpenSettings" /\ Becomes(a, OpenThemes(ui))
  \/ a.op = "CloseSettings" /\ Becomes(a, CancelThemes(ui))
  \/ a.op = "SettingsSelect" /\ Becomes(a, Preview(ui, a.arg))
  \/ /\ a.op = "ApplySettingsTheme"
     /\ ui' = Ended(a, ApplyThemes(ui)) /\ work' = Sends("theme", Blank)
     /\ chosen' = ui.themeCursor
     /\ UNCHANGED <<env, opens, strange>>

CycleProfile(a) ==
  /\ a.op = "SceneProfileCycleNext"
  /\ IF ui.snap.profiles = << >> THEN Becomes(a, ui)
     ELSE Asks(a, ui, IF NextProfile(ui.snap) = Blank THEN Sends("clear_scene_profile", Blank)
                      ELSE Sends("set_scene_profile", NextProfile(ui.snap)))

OpenEditor(a) ==
  /\ a.op = "OpenSceneProfiles" /\ opens < MaxOpens
  /\ ui' = Ended(a, [ui EXCEPT !.editor = Opened(ui.snap)])
  /\ work' = NoWork /\ opens' = opens + 1
  /\ UNCHANGED <<env, chosen, strange>>

(* What changes the daemon closes the editor first.                        *)
CloseEditor(m) == [m EXCEPT !.editor = Closed]
EditorSends(a) ==
  LET ed == ui.editor IN
  \/ a.op = "EditorActivate"
       /\ IF Selected(ed, ui.snap)
          THEN Asks(a, CloseEditor(ui), Sends("set_scene_profile", ui.snap.profiles[ed.picker].name))
          ELSE Becomes(a, ui)
  \/ a.op = "ClearActive" /\ Asks(a, CloseEditor(ui), Sends("clear_scene_profile", Blank))
  \/ a.op = "DeleteConfirm" /\ Asks(a, CloseEditor(ui), Sends("delete_scene_profile", ed.asked))
  \/ a.op = "Save"
       /\ IF Trimmed[ed.name] = Blank THEN Edits(a, BeginNaming(ed))
          ELSE Asks(a, CloseEditor(ui),
                    [kind |-> "save_scene_profile", name |-> ed.name, from |-> ed.editing, hidden |-> ed.hidden])

EditorMoves(a) ==
  LET ed == ui.editor IN
  \/ a.op = "CloseSceneProfiles" /\ Becomes(a, CloseEditor(ui))
  \/ a.op = "EditorNavUp" /\ Edits(a, Move(ed, ui.snap, 0 - a.arg))
  \/ a.op = "EditorNavDown" /\ Edits(a, Move(ed, ui.snap, a.arg))
  \/ a.op = "EditorSelect" /\ Edits(a, CursorTo(ed, ui.snap, a.arg))
  \/ a.op = "PickerConfirm" /\ Edits(a, PickerConfirm(ed, ui.snap))
  \/ a.op = "Delete" /\ Edits(a, AskDelete(ed, ui.snap))
  \/ a.op = "DeleteCancel" /\ Edits(a, CancelDelete(ed))
  \/ a.op = "ToggleHidden" /\ Edits(a, ToggleHidden(ed, ui.snap))
  \/ a.op = "BeginNaming" /\ Edits(a, BeginNaming(ed))
  \/ a.op = "NameEdit" /\ \E t \in Text : Edits(a, [ed EXCEPT !.name = t])
  \/ a.op = "NameCancel" /\ Edits(a, NameCancel(ed))
  \/ a.op = "Back" /\ Edits(a, Back(ed, ui.snap))

Names(profiles) == {Normal[p.name] : p \in ToSet(profiles)}
CommitName(a) ==
  /\ a.op = "NameCommit"
  /\ ui' = Ended(a, [ui EXCEPT !.editor = NameCommit(ui.editor, ui.snap)]) /\ work' = NoWork
  /\ strange' = IF ui'.editor.stage = "Scenes" THEN Names(daemon.profiles) \ Names(ui.snap.profiles) ELSE strange
  /\ UNCHANGED <<env, opens, chosen>>

Does(a) ==
  \/ Dashboard(a) \/ HalfTyped(a) \/ Palette(a) \/ Settings(a)
  \/ CycleProfile(a) \/ OpenEditor(a) \/ EditorSends(a) \/ EditorMoves(a) \/ CommitName(a)
  \/ a.op = "Quit" /\ Quit

Running == work.kind # "quit" /\ UNCHANGED tour
Press == Running /\ \E key \in tour.keys : Does(KeyAction(ui, key))
Clicks == Running /\ \E c \in tour.clicks : Does(MouseAction(ui, c))

---------------------------------------------------------------------------
(* What arrives between two events: a snapshot, a log line or a message    *)
(* that cannot be read, the loss of the session; and what others do.       *)
SnapshotArrives ==
  /\ Running /\ "snapshot" \in tour.arrivals
  /\ ui' = [SetSnapshot(ui, Projected(daemon)) EXCEPT !.connected = TRUE]
  /\ work' = NoWork
  /\ UNCHANGED <<env, opens, chosen, strange>>
LogArrives ==
  /\ Running /\ "log" \in tour.arrivals
  /\ ui' = PushLog(ui) /\ work' = NoWork
  /\ UNCHANGED <<env, opens, chosen, strange>>
SessionLost ==
  /\ Running /\ "lost" \in tour.arrivals
  /\ ui' = [ui EXCEPT !.connected = FALSE] /\ work' = NoWork
  /\ UNCHANGED <<env, opens, chosen, strange>>

(* Another client saves or deletes a profile; OBS loses its first scene.   *)
OthersSave(p) ==
  /\ daemon' = SaveProfile(daemon, Blank, p.name, p.hidden)
  /\ strange' = strange \cup {Normal[p.name]}
OthersDelete(p) == daemon' = DeleteProfile(daemon, p.name) /\ UNCHANGED strange
ObsLosesScene ==
  /\ daemon.scenes # << >>
  /\ daemon' = [daemon EXCEPT !.scenes = Tail(daemon.scenes)] /\ UNCHANGED strange
ForeignChange ==
  /\ Running /\ foreign < MaxForeign
  /\ \/ "profile" \in tour.arrivals /\ \E p \in Foreign : OthersSave(p) \/ OthersDelete(p)
     \/ "scene" \in tour.arrivals /\ ObsLosesScene
  /\ foreign' = foreign + 1 /\ work' = NoWork
  /\ UNCHANGED <<ui, opens, chosen>>

Next == Press \/ Clicks \/ SnapshotArrives \/ LogArrives \/ SessionLost \/ ForeignChange

Spec == Init /\ [][Next]_vars

---------------------------------------------------------------------------
TypeOK ==
  /\ ui.focus \in Panel /\ ui.cursor \in [Panel -> Nat]
  /\ ui.pending \in Pending /\ ui.count \in 0 .. MaxCount
  /\ ui.palette.input \in Lines \cup {<< >>}
  /\ ui.view \in View /\ ui.theme \in Theme /\ ui.themeCursor \in 0 .. Themes - 1
  /\ ui.logs \in 0 .. LogEntries /\ ui.scroll \in 0 .. LogEntries
  /\ ui.editor \in Editors /\ chosen \in Theme

(* No cursor is past the end of the list it is drawn in, whatever a        *)
(* snapshot has taken out of that list (clamp_cursors).                    *)
CursorsInList ==
  /\ \A p \in Panel : ui.cursor[p] <= LastRow(ui, p)
  /\ Cursor(ui.editor) <= AtLeast0(Rows(ui.editor, ui.snap) - 1)

(* One thing owns the keyboard: with the command line, the editor or the   *)
(* theme picker up, no other of them is, and no leader sequence or count   *)
(* is left half typed under the first two.                                 *)
OneOwner ==
  /\ ui.palette.active => ~IsOpen(ui.editor) /\ ui.view = "Main"
  /\ IsOpen(ui.editor) => ui.view = "Main"
  /\ ui.palette.active \/ IsOpen(ui.editor) => ui.pending = "none" /\ ui.count = 0
  /\ ui.view = "Settings" => ui.pending \in {"none", "g"}

(* The dashboard is drawn in the theme confirmed last, however many were   *)
(* looked at; the picker knows which one to go back to and shows the one   *)
(* under its cursor: but for the custom palette, which has no row of its   *)
(* own and stays on the screen until the cursor moves.                     *)
ThemeIsChosen ==
  IF ui.view = "Main" THEN ui.theme = chosen /\ ui.origin = -1
  ELSE ui.origin = chosen /\ \/ ui.theme = ui.themeCursor
                             \/ ui.theme = chosen /\ ui.themeCursor = ThemeRow(chosen)

(* The command line keeps its prompt, and the candidates offered are those *)
(* of the line that is typed, or the line is the candidate picked.         *)
PaletteInStep ==
  LET p == ui.palette IN
  IF ~p.active THEN p = Shut
  ELSE /\ p.input # << >> /\ Head(p.input) = Prompt
       /\ IF p.idx = NoIndex THEN p.completions = Complete[p.input] ELSE p.input = p.completions[p.idx]

(* The question whether to delete a profile names the profile in the row   *)
(* under the cursor, as the newest snapshot has it: a snapshot that moves  *)
(* the rows takes the question back.                                       *)
PromptIsTrue ==
  LET ed == ui.editor IN
  ed.asked # Blank => /\ ed.stage = "Picker" /\ Selected(ed, ui.snap)
                      /\ ui.snap.profiles[ed.picker].name = ed.asked

(* What is on the screen is what the keys act on.                          *)
ScreenInv ==
  TypeOK /\ CursorsInList /\ OneOwner /\ ThemeIsChosen /\ PaletteInStep /\ PromptIsTrue

(* No profile is replaced or removed from here but the one that was        *)
(* edited, and the one the user was asked about.  Excepted is a name the   *)
(* UI had not been told of when it accepted it for a new profile.          *)
Survives(p) == \E i \in DOMAIN daemon'.profiles : daemon'.profiles[i] = p
NothingIsOverwritten ==
  [][foreign' = foreign =>
       \A i \in DOMAIN daemon.profiles :
         LET p == daemon.profiles[i] IN
         \/ Survives(p)
         \/ work'.kind = "save_scene_profile" /\ (Same(p.name, work'.from) \/ Normal[p.name] \in strange)
         \/ work'.kind = "delete_scene_profile" /\ Same(p.name, ui.editor.asked)]_vars

(* Toggling a row changes what the profile hides by the scene in that row, *)
(* under whatever spellings the config and OBS know it.  Excepted is a     *)
(* profile that lists the scene twice.                                     *)
TogglesOneScene ==
  [][ui.editor.stage = "Scenes" /\ ui'.editor.stage = "Scenes" /\ ui'.editor.hidden # ui.editor.hidden =>
       LET row == SceneRows(ui.editor, ui.snap)[ui.editor.scene + 1] IN
       /\ \A t \in Text : ~Same(t, row) => (Hides(ui'.editor, t) <=> Hides(ui.editor, t))
       /\ \/ Hides(ui'.editor, row) <=> ~Hides(ui.editor, row)
          \/ \E s, t \in ui.editor.hidden : s # t /\ Same(s, row) /\ Same(t, row)]_vars

(* While the log is read back, a line that arrives does not move the lines *)
(* being read, as long as the first of them is still kept.                 *)
FromTail(m) == m.logs - ViewStart(m)
ReadingHolds ==
  [][LogArrives /\ ui.scroll > 0 /\ (ui.logs < LogEntries \/ ViewStart(ui) > 0)
       => FromTail(ui') = FromTail(ui) + 1]_vars
=============================================================================
