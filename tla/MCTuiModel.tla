----------------------------- MODULE MCTuiModel -----------------------------
(* A finite instance of TuiModel for TLC.                                  *)
EXTENDS TuiModel

(* blank, " desk", "Cam", "cam", "desk"                                    *)
TrimmedIs == [t \in 0 .. 4 |-> IF t = 1 THEN 4 ELSE t]
NormalIs == [t \in 0 .. 4 |-> CASE t \in {1, 4} -> 4 [] t \in {2, 3} -> 3 [] OTHER -> t]

(* A config that hides "desk", with two profiles, one of them active in    *)
(* another spelling, the other with a scene listed twice; and one without  *)
(* profiles or a scene list.                                               *)
Cam == [name |-> 3, hidden |-> {2}]
Twice == [name |-> 4, hidden |-> {2, 3}]
Full == [scenes |-> <<3, 4>>, flagged |-> {4}, profiles |-> <<Cam, Twice>>, active |-> 2]
DaemonsAre == {Full, [Full EXCEPT !.scenes = << >>, !.profiles = << >>]}
ForeignIs == {[name |-> 2, hidden |-> {}]}

RowsAre == [Audio |-> 2, Profiles |-> 1, Collections |-> 0]

(* Lines are the prompt and at most three of "s" and a space; a line whose *)
(* last character is "s" has two candidates.                               *)
LinesAre == {<<":">> \o w : w \in UNION {[1 .. n -> {"s", " "}] : n \in 0 .. 3}}
CompleteIs ==
  [l \in LinesAre |-> IF Len(l) = 4 \/ l[Len(l)] # "s" THEN << >>
                      ELSE <<Append(l, " "), Append(l, "s")>>]
SeedIs == [w \in {"none", "scene", "profile", "scene-profile", "collection", "toggle-mute"} |->
             IF w = "none" THEN << >> ELSE <<"s", " ">>]

(* Moving around; the command line, the themes and the log, in a custom    *)
(* palette; the editor.                                                    *)
On(areas, rows) ==
  [what : {"left"}, area : areas, row : rows] \cup [what : {"right", "up", "down"}, area : areas, row : {0}]
Moving ==
  [keys |-> {"a", "s", "c", "p", "h", "j", "k", "l", "m", "g", "G", "1", "2", "0", "u", "i", "o", "r", "f", "n", "D",
             "R", " ", "Home", "C-d", "C-u", "C-h", "C-j", "C-k", "C-l", "Tab", "BackTab", "Enter", "Esc", "q", "C-c"}, theme |-> 0,
   clicks |-> On(Panel, 0 .. 1), arrivals |-> {"snapshot", "lost", "scene"}]
Typing ==
  [keys |-> {":", "s", " ", "f", "Backspace", "C-u", "C-w", "Tab", "Up", "Enter", "Esc", "F2", "j", "k", "g", "G",
             "t", "1", "q"}, theme |-> Custom,
   clicks |-> On({"logs", "palette"}, {0}) \cup On({"list"}, 0 .. 2), arrivals |-> {"snapshot", "log"}]
Editing ==
  [keys |-> {" ", "P", "N", "j", "k", "Enter", "a", "c", "d", "n", "t", "Esc", "C-c"}, theme |-> 1,
   clicks |-> On({"list"}, 0 .. 2), arrivals |-> {"snapshot", "profile", "scene"}]
ToursAre == {Moving, Typing, Editing}
=============================================================================
