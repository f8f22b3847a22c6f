------------------------------- MODULE Names -------------------------------
(***************************************************************************)
(* What counts as a usable name, how a target picks one of several entries *)
(* and which scenes are hidden (domain/names.rs, domain/aliases.rs,        *)
(* domain/scene_profiles.rs, domain/volume.rs).                            *)
(*                                                                         *)
(* A text is a sequence of atoms: characters, and pieces of command words  *)
(* that no rule of the code looks into.  `Small` folds the case of an      *)
(* atom, Spaces, Quotes and Control are the classes the rules ask about.   *)
(***************************************************************************)
EXTENDS Integers, SequencesExt, FiniteSetsExt

CONSTANTS
  Small,     \* the small form of every atom that has another: a function
  MaxName    \* MAX_TARGET_TOKEN_LENGTH

Spaces  == {" "}
Quotes  == {"\"", "'"}
Control == {"ctl"}
Digits  == "0" :> 0 @@ "1" :> 1 @@ "2" :> 2 @@ "5" :> 5

Text == Seq(STRING)
None == << >>   \* Option::None, for texts that are never blank

-----------------------------------------------------------------------------
(* names.rs, validation.rs *)

Lower(text) == [i \in DOMAIN text |->
                  IF text[i] \in DOMAIN Small THEN Small[text[i]] ELSE text[i]]

Trim(text) ==
  LET kept == {i \in DOMAIN text : text[i] \notin Spaces}
  IN IF kept = {} THEN << >> ELSE SubSeq(text, Min(kept), Max(kept))

TrimStart(text) ==
  LET kept == {i \in DOMAIN text : text[i] \notin Spaces}
  IN IF kept = {} THEN << >> ELSE SubSeq(text, Min(kept), Len(text))

\* trim_and_validate_token_with_max_len accepts `text`.
Usable(text) ==
  /\ ToSet(text) \cap Control = {}
  /\ Trim(text) # << >>
  /\ Len(Trim(text)) <= MaxName

CheckedName(text)    == Trim(text)          \* of a usable text
NormalizedName(text) == Lower(Trim(text))   \* of a usable text

Number(text) ==
  FoldLeft(LAMBDA sum, digit : 10 * sum + Digits[digit], 0, text)
IsNumber(text) == text # << >> /\ ToSet(text) \subseteq DOMAIN Digits

-----------------------------------------------------------------------------
(* aliases.rs.  An entry is [name, alias, shortcut], the last two perhaps None. *)

Found(i)      == [entry |-> i]
Failure(kind) == [error |-> kind]
Failed(result) == "error" \in DOMAIN result

NotFound(kind) == Failure(IF kind = "scene" THEN "SceneNotFound" ELSE "AudioInputNotFound")

\* No two entries of a list answer to one alias, or to one shortcut.
UniqueNormalized(entries, field) ==
  \A i, j \in DOMAIN entries :
    i # j /\ entries[i][field] # None /\ entries[j][field] # None
      => NormalizedName(entries[i][field]) # NormalizedName(entries[j][field])
UniqueAliasesAndShortcuts(entries) ==
  UniqueNormalized(entries, "alias") /\ UniqueNormalized(entries, "shortcut")

\* mutant: the first entry that matches but for its case is taken.
FirstInsensitive(target, entries, field) ==
  LET matching == {i \in DOMAIN entries :
        entries[i][field] # None /\ NormalizedName(entries[i][field]) = NormalizedName(target)}
  IN IF matching = {} THEN {} ELSE {Min(matching)}

\* The entries whose `field` is the target, in whatever case.
CaseInsensitive(target, entries, field) ==
  {i \in DOMAIN entries :
     entries[i][field] # None /\ NormalizedName(entries[i][field]) = NormalizedName(target)}

\* A stored spelling that is not usable would fail every resolution; config
\* validation and the snapshot's own reading of OBS keep those out.
ResolveWith(target, entries, kind) ==
  LET Exact(field) == SelectInSeq(entries, LAMBDA e : e[field] = Trim(target))
      Loose(field) == CaseInsensitive(target, entries, field)
      TheOne(set)  == CHOOSE i \in set : TRUE
      row          == Number(Trim(target))
  IN IF ~Usable(target) THEN Failure("ConfigInvalid")
     ELSE IF Exact("shortcut") # 0 THEN Found(Exact("shortcut"))
     ELSE IF Exact("alias")    # 0 THEN Found(Exact("alias"))
     ELSE IF Exact("name")     # 0 THEN Found(Exact("name"))
     ELSE IF Loose("alias") # {} THEN
       IF Cardinality(Loose("alias")) = 1 THEN Found(TheOne(Loose("alias"))) ELSE Failure("AliasAmbiguous")
     ELSE IF Loose("name") # {} THEN
       IF Cardinality(Loose("name")) = 1 THEN Found(TheOne(Loose("name"))) ELSE Failure("AliasAmbiguous")
     ELSE IF kind = "scene" /\ IsNumber(Trim(target)) /\ row \in DOMAIN entries THEN Found(row)
     ELSE NotFound(kind)

-----------------------------------------------------------------------------
(* scene_profiles.rs *)

\* The normalized names of the hidden scenes: the active profile's list, or,
\* with none active, the scenes whose own flag says so.
Visibility(baseline, profiles, active) ==
  LET hidden == IF active = {} THEN {b[1] : b \in {b \in baseline : b[2]}}
                ELSE UNION {profiles[i].hidden : i \in active}
  IN {NormalizedName(n) : n \in {n \in hidden : Usable(n)}}

IsHidden(visibility, name) == Usable(name) /\ NormalizedName(name) \in visibility

-----------------------------------------------------------------------------
(* volume.rs: a multiplier is counted in ten-thousandths, so that the square *)
(* of a percentage is a whole number of them.                                *)

PercentToMul(percent) == percent * percent
\* Rounded to the nearest percentage and clamped; 100 or more is shown as 100.
MulToPercent(mul) ==
  CHOOSE p \in 0 .. 100 :
    /\ p = 0   \/ (2 * p - 1) * (2 * p - 1) <= 4 * mul
    /\ p = 100 \/ 4 * mul < (2 * p + 1) * (2 * p + 1)
=============================================================================
