------------------------------ MODULE TuiInput ------------------------------
(***************************************************************************)
(* What a key means (tui/input.rs, tui/keymap.rs): tables from keys to the *)
(* TuiAction they produce, one for each thing that can own the keyboard.   *)
(*                                                                         *)
(* A key is written as the user would: "C-u" with Ctrl, the arrows stand   *)
(* for themselves and their vim letter.  The letters that are bound to     *)
(* nothing are one key, "z".  An action is its TuiAction variant and the   *)
(* one argument it may have.                                               *)
(***************************************************************************)
EXTENDS Integers

(* A table of bindings; no key is bound twice in one.                      *)
key := action == <<key, action>>
Table(bindings) == [k \in {b[1] : b \in bindings} |-> (CHOOSE b \in bindings : b[1] = k)[2]]

Act(op, arg) == [op |-> op, arg |-> arg]
Do(op) == Act(op, 0)
Editor(op) == Do(op)  \* a SceneProfileAction
Nothing == Do("Nothing")

Space == " "

Panel == {"Scenes", "Audio", "Profiles", "Collections"}
Digit == Table({"0" := 0, "1" := 1, "2" := 2})

Letter == {"a", "c", "d", "f", "g", "h", "j", "k", "l", "m", "n", "o", "p", "q", "r", "s", "t", "u", "v", "y", "z",
           "D", "G", "N", "P", "R", ":", "/", Space} \cup DOMAIN Digit
Control == {"C-c", "C-d", "C-h", "C-j", "C-k", "C-l", "C-n", "C-p", "C-t", "C-u", "C-w", "C-z"}
Named == {"Esc", "Enter", "Backspace", "Tab", "BackTab", "Up", "Down", "Left", "Right",
          "PageUp", "PageDown", "Home", "End", "F2"}
Key == Letter \cup Control \cup Named

(* A key the table does not know does nothing.                             *)
Bound(table, key) == IF key \in DOMAIN table THEN table[key] ELSE Nothing
Keys(keys, action) == {k := action : k \in keys}

---------------------------------------------------------------------------
(* The which-key menus.  The root opens the submenus, and "P", "N", ":"    *)
(* and "q" are leaves of it.                                               *)
OpenPalette(seed) == Act("OpenPalette", seed)
Group == {"f", "p", "s", "c", "o", "u"}

LeaderRoot ==
  Table({k := Act("SetPending", k) : k \in Group}
        \cup {"P" := Do("OpenSceneProfiles"), "N" := Do("SceneProfileCycleNext"),
              ":" := OpenPalette("none"), "q" := Do("Quit")})

LeaderFind ==
  Table({"s" := OpenPalette("scene"), "p" := OpenPalette("profile"), "P" := OpenPalette("scene-profile"),
         "c" := OpenPalette("collection"), "a" := OpenPalette("toggle-mute")})

LeaderPanel ==
  Table({"s" := Act("Focus", "Scenes"), "a" := Act("Focus", "Audio"),
         "p" := Act("Focus", "Profiles"), "c" := Act("Focus", "Collections")})

LeaderStream == Table({"s" := Act("Simple", "toggle_stream"), "r" := Act("Simple", "toggle_record")})

LeaderConfig ==
  Table({"r" := Act("Simple", "reload_config"), "d" := Act("Simple", "dump_config"),
         "v" := Act("Simple", "validate_config")})

LeaderObs ==
  Table({"r" := Act("Simple", "reconnect_obs"), "s" := Act("Simple", "get_obs_status"),
         "d" := Act("Simple", "get_server_status"), "c" := Do("RetryConnect")})

LeaderUi == Table({"t" := Do("OpenSettings"), "i" := Do("ToggleIcons"), "a" := Do("ToggleAdvancedUi")})

Menu(pending) ==
  CASE pending = "g"      -> Table({"g" := Do("NavTop")})
    [] pending = "leader" -> LeaderRoot
    [] pending = "f" -> LeaderFind
    [] pending = "p" -> LeaderPanel
    [] pending = "s" -> LeaderStream
    [] pending = "c" -> LeaderConfig
    [] pending = "o" -> LeaderObs
    [] pending = "u" -> LeaderUi

(* The next key of a sequence.  One that is not in the menu dismisses it.  *)
PendingKey(pending, key) ==
  IF key \in DOMAIN Menu(pending) THEN Menu(pending)[key] ELSE Do("ClearPending")

---------------------------------------------------------------------------
(* Motions, the same on every screen; count is the prefix typed before.    *)
MotionKeys(count) ==
  Table({"C-d" := Do("NavHalfPageDown"), "C-u" := Do("NavHalfPageUp"),
         "PageDown" := Do("NavHalfPageDown"), "PageUp" := Do("NavHalfPageUp"),
         "g" := Act("SetPending", "g"), "Home" := Do("NavTop")}
        \cup Keys({"G", "End"}, Do("NavBottom"))
        \cup Keys({"Up", "k"}, Act("NavUp", count)) \cup Keys({"Down", "j"}, Act("NavDown", count)))
MotionKey(key, count) == Bound(MotionKeys(count), key)

(* 0 only extends a count.                                                 *)
CountDigit(typed, key) ==
  IF key = "0" /\ typed = 0 THEN Nothing ELSE Act("PushCount", Digit[key])

SettingsKey(typed, count, key) ==
  CASE key = "C-c" -> Do("Quit")
    [] key \in {"Esc", "F2", "q"} -> Do("CloseSettings")
    [] key \in DOMAIN Digit -> CountDigit(typed, key)
    [] key = "Enter" -> Do("ApplySettingsTheme")
    [] OTHER -> MotionKey(key, count)

(* On the audio panel sideways moves between the inputs, up and down rides *)
(* the fader.                                                              *)
AudioKeys(count) ==
  Table({"m" := Do("ToggleMute")}
        \cup Keys({"Left", "h"}, Act("NavUp", count)) \cup Keys({"Right", "l"}, Act("NavDown", count))
        \cup Keys({"Up", "k"}, Act("Volume", count)) \cup Keys({"Down", "j"}, Act("Volume", 0 - count)))

DashboardKeys ==
  Table({"C-c" := Do("Quit"), "C-t" := Do("OpenSettings"),
         "C-h" := Act("Pane", "left"), "C-l" := Act("Pane", "right"),
         "C-k" := Act("Pane", "up"), "C-j" := Act("Pane", "down"),
         "F2" := Do("OpenSettings"), "Esc" := Do("ClearPending"),
         "Tab" := Act("Pane", "next"), "BackTab" := Act("Pane", "prev"),
         ":" := OpenPalette("none"), "/" := OpenPalette("none"), Space := Act("SetPending", "leader"),
         "q" := Do("Quit"),
         "r" := Act("Simple", "reload_config"), "D" := Act("Simple", "dump_config"),
         "R" := Do("RetryConnect"),
         "s" := Act("Focus", "Scenes"), "a" := Act("Focus", "Audio"),
         "p" := Act("Focus", "Profiles"), "c" := Act("Focus", "Collections"),
         "P" := Do("SceneProfileCycleNext"), "C-p" := Act("Focus", "Profiles")})

MainKey(focus, typed, count, key) ==
  CASE key \in DOMAIN DashboardKeys -> DashboardKeys[key]
    [] key \in DOMAIN Digit -> CountDigit(typed, key)
    [] focus = "Audio" /\ key \in DOMAIN AudioKeys(count) -> AudioKeys(count)[key]
    [] key = "Enter" -> Do("Activate")
    [] OTHER -> MotionKey(key, count)

---------------------------------------------------------------------------
(* The command line.  Backspacing over its prompt leaves it.               *)
PaletteKey(length, key) ==
  CASE key \in {"Esc", "C-c"} -> Do("ClosePalette")
    [] key = "C-u" -> Do("PaletteClear")
    [] key = "C-w" -> Do("PaletteDeleteWord")
    [] key = "Enter" -> Do("PaletteSubmit")
    [] key = "Backspace" -> IF length <= 1 THEN Do("ClosePalette") ELSE Do("PaletteBackspace")
    [] key \in {"Tab", "Down", "C-n"} -> Do("CompleteNext")
    [] key \in {"BackTab", "Up", "C-p"} -> Do("CompletePrev")
    [] key \in Letter -> Act("PaletteChar", key)
    [] key \in {"C-d", "C-h", "C-j", "C-k", "C-l", "C-t", "C-z"} -> Act("PaletteChar", key)
    [] OTHER -> Nothing

(* The scene-profile editor answers every key itself.                      *)
DeleteKeys ==
  Table(Keys({"y", "Enter"}, Editor("DeleteConfirm")) \cup Keys({"n", "q", "Esc"}, Editor("DeleteCancel")))

EditorMotion ==
  Keys({"Down", "j"}, Act("EditorNavDown", 1)) \cup Keys({"Up", "k"}, Act("EditorNavUp", 1))

PickerKeys ==
  Table(EditorMotion \cup Keys({"Esc", "q"}, Do("CloseSceneProfiles"))
        \cup {"Enter" := Editor("PickerConfirm"), "a" := Editor("EditorActivate"),
              "c" := Editor("ClearActive"), "d" := Editor("Delete")})

ScenesKeys ==
  Table(EditorMotion
        \cup {"t" := Editor("ToggleHidden"), "n" := Editor("BeginNaming"),
              "Enter" := Editor("Save"), "Esc" := Editor("Back")})

NamingKeys ==
  Table(Keys(Letter \cup {"Backspace", "C-u", "C-w"}, Editor("NameEdit"))
        \cup {"Enter" := Editor("NameCommit"), "Esc" := Editor("NameCancel")})

EditorKey(stage, asked, key) ==
  IF key = "C-c" THEN Do("Quit")
  ELSE IF asked THEN Bound(DeleteKeys, key)
  ELSE CASE stage = "Picker" -> Bound(PickerKeys, key)
         [] stage = "Scenes" -> Bound(ScenesKeys, key)
         [] stage = "Naming" -> Bound(NamingKeys, key)
=============================================================================
