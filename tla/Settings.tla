------------------------------ MODULE Settings ------------------------------
(***************************************************************************)
(* What a config document says, which documents are accepted, what is      *)
(* warned of, and what of it takes effect (config/model.rs, schema.rs,     *)
(* paths.rs, support/validation.rs, localization.rs, reconnect_policy.rs). *)
(*                                                                         *)
(* A document is a function of the fields it gives; sections are left out, *)
(* a field has its YAML name.  Texts are those of Names.  Delays are       *)
(* counted in quarters of a second, a multiplier is a fraction: <<1, 0>>   *)
(* is YAML's .inf and <<0, 0>> its .nan.                                   *)
(***************************************************************************)
EXTENDS Names

CONSTANTS
  Null,         \* YAML's null, and an option that is not set
  Fault,        \* the answer of a check that fails
  NotUnicode,   \* the value of a variable that is not text
  Links,        \* the paths that lead over a symbolic link
  Exposed,      \* the paths whose directory is not private
  DefaultPath,  \* the platform's place for the config
  MaxHost, MaxToken, MaxPassword, \* the limits of the code, in atoms
  PowerLimit    \* exponents from here on overflow a multiplier above 1

ASSUME LimitAssumption == {MaxHost, MaxToken, MaxPassword, PowerLimit} \subseteq Nat

-----------------------------------------------------------------------------
(* Documents *)

DefaultReconnect ==
  [enabled |-> TRUE, endless |-> TRUE, initial |-> 2, max |-> 40, multiplier |-> <<9, 5>>]

Defaults ==
  [version |-> 1, socket_path |-> Null,
   host |-> <<"local">>, port |-> 4455, connect_timeout_ms |-> 3000, request_timeout_ms |-> 2500,
   password_env |-> <<"OBS", "PW">>, password |-> Null,
   reconnect |-> DefaultReconnect,
   refresh_interval_ms |-> 250, prefix |-> <<"/">>, locale |-> Null,
   scenes |-> << >>, inputs |-> << >>, scene_profiles |-> << >>, active |-> Null]

ASSUME DefaultsAssumption == Defaults.prefix \in Text \* literals are texts

(* A record with the fields that are given, and defaults for the others.   *)
Filled(given, defaults) ==
  [field \in DOMAIN defaults |-> IF field \in DOMAIN given THEN given[field] ELSE defaults[field]]

Given(document, field) == field \in DOMAIN document /\ document[field] # Null

MaxPort == 65535
ReconnectConfig ==
  [enabled : BOOLEAN, endless : BOOLEAN, initial : Nat, max : Nat, multiplier : Int \X Nat]

(* Unknown fields are refused, a port wider than 16 bits, and what is not  *)
(* of its field's type, as far as a rule below depends on it.              *)
Parses(document) ==
  /\ DOMAIN document \subseteq DOMAIN Defaults \cup {"legacy_reconnect"}
  /\ "port" \in DOMAIN document => document.port \in 0 .. MaxPort
  /\ "prefix" \in DOMAIN document => document.prefix \in Text
  /\ \A section \in {"reconnect", "legacy_reconnect"} :
       Given(document, section) => Filled(document[section], DefaultReconnect) \in ReconnectConfig

(* A section that is there wins over its legacy place, whatever it leaves  *)
(* out; a password_env of null means none, a missing one the default.      *)
ReconnectOf(document) ==
  CASE Given(document, "reconnect") -> Filled(document.reconnect, DefaultReconnect)
    [] ~Given(document, "reconnect") /\ Given(document, "legacy_reconnect") ->
         Filled(document.legacy_reconnect, DefaultReconnect)
    [] OTHER -> DefaultReconnect

PasswordEnvOf(document) ==
  IF "password_env" \in DOMAIN document /\ ~Given(document, "password_env") THEN << >>
  ELSE Filled(document, Defaults).password_env

ConfigOf(document) ==
  [field \in DOMAIN Defaults |->
     CASE field = "reconnect"    -> ReconnectOf(document)
       [] field = "password_env" -> PasswordEnvOf(document)
       [] OTHER                  -> Filled(document, Defaults)[field]]

(* What is written of a config: every field, the empty ones too.           *)
Written(config) == [field \in DOMAIN Defaults |-> config[field]]

-----------------------------------------------------------------------------
(* Texts from outside: tokens, variables, paths *)

IsToken(text, longest) ==
  ToSet(text) \cap Control = {} /\ Trim(text) # << >> /\ Len(Trim(text)) <= longest

Absolute(path)  == path # << >> /\ Head(path) = "/"
Traverses(path) == ToSet(path) \cap {".", ".."} # {}

(* A variable that is not set, not text or no token counts for nothing.    *)
EnvToken(env, name) ==
  IF name \in DOMAIN env /\ env[name] # NotUnicode /\ IsToken(env[name], MaxToken)
  THEN Trim(env[name]) ELSE Null
EnvPath(env, name) ==
  LET value == EnvToken(env, name)
  IN IF value # Null /\ ~Traverses(value) THEN value ELSE Null

(* config_path, after an explicit --config.                                *)
ConfigPath(explicit, env) ==
  LET given == EnvPath(env, <<"OBSCTL", "CONFIG">>)
  IN CASE explicit # Null -> explicit
       [] explicit = Null /\ given # Null /\ Absolute(given) /\ given \notin Links -> given
       [] OTHER -> DefaultPath

(* validate_env_var_name, of a name made of letters, digits and the rest.  *)
IsVariable(name) ==
  /\ IsToken(name, MaxToken)
  /\ Head(Trim(name)) \notin DOMAIN Digits
  /\ ToSet(Trim(name)) \cap (Spaces \cup {"/", "."}) = {}

(* read_password_env_value: the name is checked without the blanks around  *)
(* it and looked up with them.                                             *)
EnvPassword(name, env) ==
  CASE ~IsVariable(name) -> Fault
    [] IsVariable(name) /\ name \notin DOMAIN env -> Null
    [] OTHER ->
         IF env[name] = NotUnicode \/ Len(env[name]) > MaxPassword \/ ToSet(env[name]) \cap Control # {}
         THEN Fault ELSE env[name]

PlainFault(password) ==
  password # Null /\ (Len(password) > MaxPassword \/ ToSet(password) \cap Control # {})

(* A variable that holds something wins over a password in the file.       *)
Password(config, env) ==
  LET found == IF config.password_env = << >> THEN Null ELSE EnvPassword(config.password_env, env)
  IN IF PlainFault(config.password) THEN Fault
     ELSE IF found \notin {Null, << >>} THEN found ELSE config.password

(* parse_server_socket_path                                                *)
SafeSocketPath(path) ==
  /\ IsToken(path, MaxToken) /\ Trim(path) = path
  /\ Absolute(path) /\ ~Traverses(path) /\ Len(path) > 1
  /\ path \notin Links \cup Exposed

-----------------------------------------------------------------------------
(* schema.rs *)

HostIsSound(host) ==
  /\ ToSet(host) \cap (Control \cup Spaces) = {}
  /\ ToSet(host) \cap {"/", "\\", ":", "@"} = {}
  /\ host # << >> /\ Len(host) <= MaxHost

ConnectionIsSound(config) ==
  /\ HostIsSound(config.host)
  /\ 0 \notin {config.port, config.connect_timeout_ms, config.request_timeout_ms}

NamesAreSound(config) ==
  /\ \A list \in {config.scenes, config.inputs, config.scene_profiles} :
       \A i \in DOMAIN list : Usable(list[i].name)
  /\ \A i \in DOMAIN config.scene_profiles : \A s \in config.scene_profiles[i].hidden : Usable(s)

(* Blank aliases fail, too.                                                *)
AliasesAreSound(entries) ==
  /\ \A i \in DOMAIN entries : \A field \in {"alias", "shortcut"} :
       entries[i][field] # None => Usable(entries[i][field])
  /\ UniqueAliasesAndShortcuts(entries)

(* Validation asks whether the multiplier is below 1: .nan is not.         *)
ReconnectIsSound(r) == r.max >= r.initial /\ r.multiplier[1] >= r.multiplier[2]

ProfilesAreDistinct(profiles) ==
  \A i, j \in DOMAIN profiles :
    i # j => NormalizedName(profiles[i].name) # NormalizedName(profiles[j].name)

(* validate                                                                *)
Accepts(config, env) ==
  /\ config.version = 1
  /\ ConnectionIsSound(config)
  /\ NamesAreSound(config)
  /\ config.refresh_interval_ms # 0
  /\ ReconnectIsSound(config.reconnect)
  /\ config.socket_path # Null => SafeSocketPath(config.socket_path)
  /\ Password(config, env) # Fault
  /\ AliasesAreSound(config.scenes) /\ AliasesAreSound(config.inputs)
  /\ ProfilesAreDistinct(config.scene_profiles)

PalettePrefixes == {<<"/">>, <<":">>}
Locales  == {<<"en">>, <<"uk">>}

(* The profile that `active` names, if it does.                            *)
ActiveOf(config) ==
  {i \in DOMAIN config.scene_profiles :
     config.active # Null /\ Usable(config.active)
       /\ NormalizedName(config.scene_profiles[i].name) = NormalizedName(config.active)}

(* Hidden scenes that the list of scenes lacks, with an empty list none.   *)
Listed(config, scene) ==
  \E i \in DOMAIN config.scenes : NormalizedName(config.scenes[i].name) = NormalizedName(scene)

UnknownHidden(config) ==
  IF config.scenes = << >> THEN {}
  ELSE {hiding \in UNION {{i} \X config.scene_profiles[i].hidden : i \in DOMAIN config.scene_profiles} :
          ~Listed(config, hiding[2])}

(* The others, by what they are about.                                     *)
Warnings(config, env) ==
  {w \in {"prefix", "locale", "plaintext", "no password", "no profile"} :
     CASE w = "prefix"      -> config.prefix \notin PalettePrefixes
       [] w = "locale"      -> config.locale # Null /\ Lower(config.locale) \notin Locales
       [] w = "plaintext"   -> config.password # Null
       [] w = "no password" -> /\ config.password_env # << >> /\ config.password = Null
                               /\ Password(config, env) = Null
       [] w = "no profile"  -> config.active # Null /\ ActiveOf(config) = {}}

-----------------------------------------------------------------------------
(* What takes effect *)

(* palette_prefix_or_default looks at the first character only.            *)
PalettePrefix(config) ==
  IF config.prefix # << >> /\ <<Head(config.prefix)>> \in PalettePrefixes
  THEN <<Head(config.prefix)>> ELSE Defaults.prefix

(* resolve_locale                                                          *)
Locale(env, configured) ==
  LET override == EnvToken(env, <<"OBSCTL", "LOCALE">>)
      wanted == Lower(CASE override # Null -> override
                        [] override = Null /\ configured # Null -> configured
                        [] OTHER -> <<"en">>)
  IN IF wanted \in Locales THEN wanted ELSE <<"en">>

Power(base, n) == LET power[i \in 0 .. n] == IF i = 0 THEN 1 ELSE base * power[i - 1] IN power[n]

NothingStaysNothing(r, n) == \* mutant
  LET over == Power(r.multiplier[1], n)  under == Power(r.multiplier[2], n)
  IN IF r.initial * over >= r.max * under THEN r.max ELSE (r.initial * over) \div under

(* The power is no finite number.                                          *)
Overflows(r, n) ==
  \/ n >= PowerLimit /\ r.multiplier[1] > r.multiplier[2]
  \/ n > 0 /\ r.multiplier[2] = 0

(* next_delay without its jitter, at the n-th attempt: nothing times       *)
(* anything is nothing, but nothing times infinity no number at all, of    *)
(* which min makes the ceiling.                                            *)
Delay(r, n) ==
  LET over == Power(r.multiplier[1], n)  under == Power(r.multiplier[2], n)
  IN IF r.initial = 0 THEN IF Overflows(r, n) THEN r.max ELSE 0
     ELSE IF r.initial * over >= r.max * under THEN r.max ELSE (r.initial * over) \div under

(* What is no number is not at most 1.                                     *)
AtMostOne(multiplier) == multiplier # <<0, 0>> /\ multiplier[1] <= multiplier[2]

ToppedOut(r, n) == Delay(r, n) = r.max \/ AtMostOne(r.multiplier)
=============================================================================
