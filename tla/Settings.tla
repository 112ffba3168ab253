------------------------------ MODULE Settings ------------------------------
(***************************************************************************)
(* The configuration file (settings.rs) and the process-wide Layer          *)
(* (shim/mod.rs) that holds what was read from it: the process starts,      *)
(* loads, picks its profile and takes a stamp of the file; from then on it  *)
(* compares stamps and reads the file again when they differ, while the     *)
(* user or a tool saves, empties, completes and removes the file.           *)
(*                                                                          *)
(* A file is a list of lines, <<key, type of value, value>>; its size is    *)
(* the number of its lines.  The keys of a profile that are read and        *)
(* written alike are left out but for one of each type.                     *)
(***************************************************************************)
EXTENDS Integers, Sequences, FiniteSets, SequencesExt

CONSTANTS
  Configs,       \* what is saved in the file, each a whole configuration
  Cuts,          \* lengths at which a save in place may be seen unfinished
  Envs,          \* environments the process may be started in
  MaxSaves       \* bound on the saves

ASSUME SettingsAssumption ==
  MaxSaves \in Nat /\ \A e \in Envs : e.own.multiplier \in Nat

VARIABLES
  file,          \* its lines, or none when there is no file
  time,          \* its modification time
  unsaved,       \* the rest of a file that is being written in place
  saves,
  env,           \* the environment of the process
  step,          \* how far the start of the process is
  layer,         \* Layer: configuration, index of the profile and revision
  watcher,       \* Watcher: the stamps it knows; or none
  seen,          \* the stamp check_and_reload took
  overtaken      \* the file changed between load() and Watcher::new

fileVars == <<file, time, unsaved, saves>>
layerVars == <<env, step, layer, watcher, overtaken>>
settingsVars == <<fileVars, layerVars, seen>>

-----------------------------------------------------------------------------
(* The text of a configuration.                                             *)

DefaultProfile ==
  [name |-> "", active_in |-> <<>>, multiplier |-> 2, flow_auto |-> FALSE,
   flow_scale |-> 100, performance_mode |-> FALSE, scaler |-> "off"]

Config(profiles) == [allow_fp16 |-> TRUE, profiles |-> profiles]

Builtin == Config(<<[DefaultProfile EXCEPT !.name = "Default 2x", !.active_in = <<"000000">>]>>)

(* What a file can say of a profile: a flow scale, or that it is automatic. *)
Profiles ==
  {p \in [name : STRING, active_in : Seq(STRING), multiplier : Nat, flow_auto : BOOLEAN,
          flow_scale : Int, performance_mode : BOOLEAN, scaler : STRING] :
     p.flow_auto => p.flow_scale = DefaultProfile.flow_scale}

ASSUME ConfigsAssumption == Configs \subseteq [allow_fp16 : BOOLEAN, profiles : Seq(Profiles)]

FlowValid(p) == p.flow_auto \/ p.flow_scale \in 25..100

(* A multiplier of 1 only upscales, so it needs a scaler.                   *)
Active(p) == p.multiplier > 1 \/ p.scaler # "off"

ProfileLines(p) ==
  <<<<"[[profile]]">>, <<"name", "str", p.name>>>>
  \o (IF p.active_in = <<>> THEN <<>> ELSE <<<<"active_in", "arr", p.active_in>>>>)
  \o <<<<"multiplier", "int", p.multiplier>>,
       IF p.flow_auto THEN <<"flow_scale", "auto">> ELSE <<"flow_scale", "num", p.flow_scale>>,
       <<"performance_mode", "bool", p.performance_mode>>>>
  \o (IF p.scaler = "off" THEN <<>> ELSE <<<<"scaler", "scaler", p.scaler>>>>)

ToToml(cfg) ==
  <<<<"version", "int", 2>>, <<"[global]">>, <<"allow_fp16", "bool", cfg.allow_fp16>>>>
  \o FlattenSeq([i \in DOMAIN cfg.profiles |-> ProfileLines(cfg.profiles[i])])

(* What each key of a profile takes; a multiplier is clamped to a u32.      *)
KeyTypes ==
  [name |-> "str", active_in |-> "arr", multiplier |-> "int", performance_mode |-> "bool",
   scaler |-> "scaler"]

ProfileKey(p, line) ==
  CASE line[1] # "flow_scale" -> [p EXCEPT ![line[1]] = line[3]]
    [] line[1] = "flow_scale" /\ line[2] = "auto" -> [p EXCEPT !.flow_auto = TRUE]
    [] OTHER -> [p EXCEPT !.flow_auto = FALSE, !.flow_scale = line[3]]

Takes(section, line) ==
  CASE section = "top" -> line[1] = "version"
    [] section = "global" -> line[1] = "allow_fp16" /\ line[2] = "bool"
    [] OTHER -> \/ line[1] \in DOMAIN KeyTypes /\ line[2] = KeyTypes[line[1]]
                \/ line[1] = "flow_scale" /\ line[2] \in {"auto", "num"}

SetKey(s, line) ==
  CASE s.section = "top" -> [s EXCEPT !.version_ok = (line[3] = 2)]
    [] s.section = "global" -> [s EXCEPT !.cfg.allow_fp16 = line[3]]
    [] OTHER -> [s EXCEPT !.cfg.profiles[Len(s.cfg.profiles)] = ProfileKey(@, line)]

ParseLine(s, line) ==
  CASE ~s.ok -> s
    [] s.ok /\ line[1] = "[global]" -> [s EXCEPT !.section = "global", !.saw_global = TRUE]
    [] s.ok /\ line[1] = "[[profile]]" ->
         [s EXCEPT !.section = "profile", !.cfg.profiles = Append(@, DefaultProfile)]
    [] OTHER -> IF Takes(s.section, line) THEN SetKey(s, line) ELSE [s EXCEPT !.ok = FALSE]

(* parse: the configuration, and whether the text is one.                   *)
Parse(text) ==
  LET s == FoldLeft(ParseLine,
                    [section |-> "top", version_ok |-> FALSE, saw_global |-> FALSE, ok |-> TRUE,
                     cfg |-> Config(<<>>)], text)
  IN [cfg |-> s.cfg,
      ok |-> /\ s.ok /\ s.version_ok /\ s.saw_global
             /\ \A i \in 1..Len(s.cfg.profiles) :
                  s.cfg.profiles[i].multiplier \in 1..4 /\ FlowValid(s.cfg.profiles[i])]

-----------------------------------------------------------------------------
(* The environment and the choice of a profile.  An environment has the     *)
(* variables that matter, and the names of the process.                     *)

ApplyEnv(cfg) ==
  [allow_fp16 |-> cfg.allow_fp16 /\ ~env.no_fp16, profiles |-> cfg.profiles]

(* env_profile: the profile of LSFGM_ENV, if it is one.                     *)
EnvProfileOK == env.own.multiplier <= 4 /\ Active(env.own) /\ FlowValid(env.own)

Named(cfg, name) == SelectInSeq(cfg.profiles, LAMBDA p : p.name = name)
Listing(cfg, names) == SelectInSeq(cfg.profiles, LAMBDA p : Range(p.active_in) \cap names # {})

(* identify_with: by LSFGM_PROFILE, the executable, the Steam id, the       *)
(* catch-all, in this order; 0 when none matches.                           *)
Identify(cfg) ==
  LET ways == <<IF env.profile = {} THEN 0 ELSE Named(cfg, CHOOSE n \in env.profile : TRUE),
                Listing(cfg, env.names), Listing(cfg, env.app), Listing(cfg, {"*"})>>
      first == SelectInSeq(ways, LAMBDA i : i # 0)
  IN CASE env.disabled -> 0
       [] ~env.disabled /\ env.env -> IF cfg.profiles = <<>> THEN 0 ELSE 1
       [] OTHER -> IF first = 0 THEN 0 ELSE ways[first]

-----------------------------------------------------------------------------
(* The file.                                                                *)

None == <<>>

(* No file: the code's (-1, -1, 0).                                         *)
Nowhere == <<-1, 0>>
Stamp == IF file = None THEN Nowhere ELSE <<time, Len(file)>>

(* A tool renames a whole file into place, or an editor truncates it and    *)
(* writes it; an empty file is one line, never parsed.                      *)
Save ==
  /\ saves < MaxSaves /\ unsaved = <<>>
  /\ \E c \in Configs : \E n \in Cuts \cup {Len(ToToml(c))} :
       /\ n \in 1..Len(ToToml(c))
       /\ file' = SubSeq(ToToml(c), 1, n)
       /\ unsaved' = SubSeq(ToToml(c), n + 1, Len(ToToml(c)))
  /\ time' = time + 1
  /\ saves' = saves + 1

(* The rest of the file, within the same tick of the clock or later.        *)
FinishSave ==
  /\ unsaved # <<>> /\ file # None
  /\ file' = file \o unsaved
  /\ unsaved' = <<>>
  /\ time' \in {time, time + 1}
  /\ saves' = saves

RemoveFile ==
  /\ saves < MaxSaves /\ file # None /\ unsaved = <<>>
  /\ file' = None
  /\ saves' = saves + 1
  /\ UNCHANGED <<time, unsaved>>

Edit ==
  /\ Save \/ FinishSave \/ RemoveFile
  /\ overtaken' = (overtaken \/ step = "watch")
  /\ UNCHANGED <<env, step, layer, watcher, seen>>

-----------------------------------------------------------------------------
(* The start of the process: Layer::new.                                    *)

SettingsInit ==
  /\ file \in {None} \cup {ToToml(c) : c \in Configs}
  /\ time = 0 /\ unsaved = <<>> /\ saves = 0
  /\ env \in Envs
  /\ step = "load"
  /\ layer = [config |-> Config(<<>>), profile |-> 0, revision |-> 0]
  /\ watcher = [mtime |-> Nowhere, failed |-> Nowhere]
  /\ seen = Nowhere
  /\ overtaken = FALSE

(* Layer::new with what load() returned: off when no profile is for this    *)
(* process.                                                                 *)
Loaded(cfg) ==
  LET i == Identify(cfg)
  IN /\ layer' = IF i = 0 THEN layer ELSE [layer EXCEPT !.config = cfg, !.profile = i]
     /\ step' = IF i = 0 THEN "off" ELSE IF env.env THEN "on" ELSE "watch"

Off == step' = "off" /\ layer' = layer

(* load_with looks for the file before it reads or writes it.               *)
Load ==
  /\ step = "load"
  /\ CASE env.disabled -> Off
       [] ~env.disabled /\ env.env ->
            IF EnvProfileOK THEN Loaded(ApplyEnv(Config(<<env.own>>))) ELSE Off
       [] ~env.disabled /\ ~env.env /\ file # None -> step' = "read" /\ layer' = layer
       [] OTHER -> IF env.config THEN Off ELSE step' = "write" /\ layer' = layer
  /\ UNCHANGED <<fileVars, env, watcher, seen, overtaken>>

ReadFile ==
  /\ step = "read"
  /\ IF file # None /\ Parse(file).ok THEN Loaded(ApplyEnv(Parse(file).cfg)) ELSE Off
  /\ UNCHANGED <<fileVars, env, watcher, seen, overtaken>>

(* The default is renamed over whatever may be there by now.                *)
WriteDefault ==
  /\ step = "write"
  /\ file' = ToToml(Builtin) /\ time' = time + 1 /\ unsaved' = <<>>
  /\ Loaded(ApplyEnv(Builtin))
  /\ UNCHANGED <<saves, env, watcher, seen, overtaken>>

(* Watcher::new.                                                            *)
Watch ==
  /\ step = "watch"
  /\ watcher' = [mtime |-> Stamp, failed |-> Nowhere]
  /\ step' = "on"
  /\ UNCHANGED <<fileVars, env, layer, seen, overtaken>>

Starting == Load \/ ReadFile \/ WriteDefault \/ Watch

-----------------------------------------------------------------------------
(* Layer::update, under the layer's mutex: a stamp, then the file.          *)

ActiveProfile == layer.config.profiles[layer.profile]

TakeStamp == seen' = Stamp

Unchanged == env.env \/ seen \in {Nowhere, watcher.mtime, watcher.failed}

(* Mutant: a file that fails counts as loaded.                              *)
GivenUp == [mtime |-> seen, failed |-> seen]

(* A file that fails is left alone until its stamp changes.                 *)
Failed == [watcher EXCEPT !.failed = seen]

(* Mutant: the profile is found by its old place.                           *)
SamePlace(cfg) == IF layer.profile <= Len(cfg.profiles) THEN layer.profile ELSE 0

(* The profile is found again by its name.                                  *)
SameName(cfg) == Named(cfg, ActiveProfile.name)

Reload ==
  LET p == Parse(file)
      i == SameName(p.cfg)
  IN IF file = None \/ ~p.ok
     THEN watcher' = Failed /\ layer' = layer
     ELSE /\ watcher' = [mtime |-> seen, failed |-> Nowhere]
          /\ layer' = IF i = 0 THEN layer
                      ELSE [config |-> ApplyEnv(p.cfg), profile |-> i,
                            revision |-> layer.revision + 1]

Update ==
  /\ IF Unchanged THEN UNCHANGED <<watcher, layer>> ELSE Reload
  /\ seen' = Nowhere
  /\ UNCHANGED <<fileVars, env, step, overtaken>>

-----------------------------------------------------------------------------
(* What is saved are sequences of lines, and a configuration that can be    *)
(* used is read back as it was written: what ToToml and Parse owe each      *)
(* other.                                                                   *)
Saved == Configs \cup {Builtin}

Files == {ToToml(c) : c \in Saved}

Lines == UNION {Range(f) : f \in Files}

ReadsBack ==
  \A c \in Saved : /\ ToToml(c) \in Seq(Lines)
                   /\ Parse(ToToml(c)).ok => Parse(ToToml(c)).cfg = c

(* When the watcher holds the file's stamp for known, the layer has the     *)
(* configuration that was saved in it, as it was before it was written and  *)
(* read back, or the file has no profile of its name; when it holds the     *)
(* stamp of a failure, the file is unusable or unfinished, or is not the    *)
(* one that failed only until the next check.  Excepted is a process whose  *)
(* file was saved between load() and Watcher::new.                          *)
StampMeansRead ==
  step = "on" /\ ~env.env /\ ~overtaken /\ seen = Nowhere /\ file # None =>
    /\ watcher.mtime = Stamp =>
         \/ unsaved = <<>> /\ \E c \in Configs \cup {Builtin} :
              file = ToToml(c) /\ (layer.config = ApplyEnv(c) \/ SameName(c) = 0)
         \/ unsaved # <<>> /\ Parse(file).ok
    /\ watcher.failed = Stamp => ~Parse(file).ok

(* From its start to its end a process keeps to the profile it picked, by   *)
(* name, wherever in the file it is and whatever else is saved: "keeping    *)
(* its previous settings" when it is gone.                                  *)
ProfileKept ==
  [][step = "on" => step' = "on" /\ ActiveProfile'.name = ActiveProfile.name]_settingsVars
=============================================================================
