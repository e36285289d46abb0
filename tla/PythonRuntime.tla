--------------------------- MODULE PythonRuntime ---------------------------
(***************************************************************************)
(* The Python runtime, runtime/python/ewts/src/ewts, for one EWTS id.       *)
(*                                                                         *)
(* Three layers have to agree.  An EwtsLogger knows a threshold and a       *)
(* destination, both fixed when it is built.  The logger "ewts.<ID>" of the *)
(* standard library, one per process, filters a second time and reaches     *)
(* EwtsLoggers through handlers; so does the application's logger "<ID>"    *)
(* once configure_existing_logger has adopted it.  The environment has two  *)
(* copies, os.environ and libc's, and ngen's C++ code writes only the       *)
(* latter.                                                                  *)
(*                                                                         *)
(* Every call is one step: Python code of any number of threads, whose      *)
(* calls do not overlap.  Loggers of other ids share nothing but the        *)
(* environment.  A handler is the number of the EwtsLogger it serves, 0 the *)
(* handler of the application.  An optional value is a set of at most one.  *)
(***************************************************************************)
EXTENDS EwtsLevels, Sequences, FiniteSets

CONSTANTS
  Texts,         \* texts a variable may hold, Absent and Empty apart
  Numeral,       \* [texts of digits -> Nat]
  LevelName,     \* LEVELS: [level names -> Nat]
  LogDirs,       \* directories
  Worlds,        \* what the process may find when it starts
  NgenExports,   \* what ngen may do to its variables: [NgenVars -> text]
  ProgramExports, \* assignments <<variable, text>> to os.environ by the program
  Setups,        \* arguments of setup_logger
  SetLevels,     \* arguments of setLevel
  LogLevels,     \* levels of messages
  Tinkered,      \* loggers to which the application adds handlers
  MaxLoggers     \* bound: EwtsLoggers built

Absent == "absent"
Empty  == ""
EnvVars  == {"bridge", "enabled", "level", "default", "dir"}
NgenVars == {"bridge", "enabled", "level"}  \* what the ngen logger exports
Value == Texts \cup {Absent, Empty}
Environment == [EnvVars -> Value]

Disabled  == 999
RootLevel == WARNING
Destination == LogDirs \cup {"ngen", "stdout"}
PyLoggers == {"ewts", "app"}

Opt(S) == {o \in SUBSET S : \A x, y \in o : x = y}

(* EwtsRuntimeOverride                                                      *)
Override ==
  [enabled : Opt(BOOLEAN), level : Opt(Nat), dir : Opt(LogDirs), ngen : Opt(BOOLEAN)]

(* What setup_logger is called with: the level is a number, a text or missing. *)
Setup ==
  [enabled : Opt(BOOLEAN), level : Opt(Nat), name : Opt(Texts), dir : Opt(LogDirs),
   ngen : Opt(BOOLEAN)]

World == [environ : Environment, bridgeLib : BOOLEAN, missing : SUBSET LogDirs]

ASSUME ConstantsAssumption ==
  /\ Absent \notin Texts /\ Empty \notin Texts
  /\ DOMAIN Numeral \subseteq Texts /\ \A t \in DOMAIN Numeral : Numeral[t] \in Nat
  /\ DOMAIN LevelName \subseteq Texts
  /\ \A t \in DOMAIN LevelName : LevelName[t] \in Nat
  /\ Worlds \subseteq World
  /\ NgenExports \subseteq [NgenVars -> Value]
  /\ ProgramExports \subseteq EnvVars \X Texts
  /\ Setups \subseteq Setup
  /\ SetLevels \subseteq Nat /\ LogLevels \subseteq Nat /\ Tinkered \subseteq PyLoggers
  /\ LogDirs \cap {"ngen", "stdout"} = {}
  /\ MaxLoggers \in Nat

VARIABLES
  environ,    \* os.environ
  libc,       \* the environment of the process
  ngenDone,   \* whether the ngen logger has initialised
  bridgeLib,  \* whether libewts_ngen_bridge.so can be loaded
  missing,    \* directories that do not exist; nothing creates them
  override,   \* the entry of _RUNTIME_OVERRIDES, an optional Override
  cache,      \* the entry of _LOGGER_CACHE, 0 when there is none
  loggers,    \* the EwtsLoggers built, in order
  py,         \* the loggers of the standard library
  last,       \* the record just logged, and who wrote it where
  asked,      \* history: the override the last setup_logger asked for
  retired,    \* history: the EwtsLoggers built before the last reset
  tampered    \* history: loggers whose level was last set behind the back of
              \* the EwtsLogger that serves them

world == <<bridgeLib, missing>>
envs  == <<environ, libc, ngenDone>>
state == <<override, cache, loggers, py>>
history == <<asked, retired, tampered>>
vars == <<world, envs, state, last, history>>

EwtsLogger == [min : Nat, dest : Destination, returned : BOOLEAN]
PyLogger ==
  [handlers : SUBSET Nat, level : Nat, propagate : BOOLEAN]
Write == [by : Nat, to : Destination \cup {"root", "application"}, payload : BOOLEAN]
Record == [via : {"none", "method", "log", "app"}, by : Nat, level : Nat, writes : SUBSET Write]

Quiet == [via |-> "none", by |-> 0, level |-> NOTSET, writes |-> {}]
-----------------------------------------------------------------------------
(* The configuration                                                        *)

(* getenv_any: os.environ where it has the variable, even an empty one; else  *)
(* libc, whose value then stays in os.environ.                               *)
Getenv(v) ==
  IF environ[v] # Absent THEN environ[v]
  ELSE IF libc[v] = Absent THEN Empty ELSE libc[v]

(* Only what ngen exports can be in libc alone.                              *)
Synced == [v \in EnvVars |-> IF v \in NgenVars /\ Getenv(v) # Empty THEN Getenv(v) ELSE environ[v]]

ParseLevelValue(t) ==
  IF t \in DOMAIN Numeral THEN {Numeral[t]}
  ELSE IF t \in DOMAIN LevelName THEN {LevelName[t]} ELSE {}

The(S) == CHOOSE x \in S : TRUE
Or(option, other) == IF option = {} THEN other ELSE The(option)

DefaultLevel == Or(ParseLevelValue(Getenv("default")), INFO)
(* Mutant: a module level that is set but cannot be read is used as it is.    *)
LevelOrNothing ==
  IF Getenv("level") = Empty THEN DefaultLevel ELSE Or(ParseLevelValue(Getenv("level")), -1)

LevelForEwtsId == Or(ParseLevelValue(Getenv("level")), DefaultLevel)

LogDir == IF Getenv("dir") \in LogDirs THEN {Getenv("dir")} ELSE {}
IsNgenActive == Getenv("bridge") # Empty
EnvEnabled == Getenv("enabled") \notin {"0", "false", "off", "no"}

(* Mutant: the variable of the module, where there is one, beats the override. *)
EnvironmentWins(o) ==
  LET own == ParseLevelValue(Getenv("level")) IN
  [ngen |-> Or(o.ngen, IsNgenActive), enabled |-> Or(o.enabled, EnvEnabled),
   dir |-> IF o.dir # {} THEN o.dir ELSE LogDir,
   level |-> IF own # {} THEN The(own) ELSE Or(o.level, LevelForEwtsId)]

NoOverride == [enabled |-> {}, level |-> {}, dir |-> {}, ngen |-> {}]

LoadConfig(o) ==
  [ngen |-> Or(o.ngen, IsNgenActive), enabled |-> Or(o.enabled, EnvEnabled),
   dir |-> IF o.dir # {} THEN o.dir ELSE LogDir, level |-> Or(o.level, LevelForEwtsId)]

(* parse_log_level: a number as it is, INFO for a text it does not know.       *)
ParseLogLevel(s) ==
  IF s.name = {} THEN s.level
  ELSE IF The(s.name) \in DOMAIN LevelName THEN {LevelName[The(s.name)]} ELSE {INFO}

OverrideOf(s) ==
  [enabled |-> s.enabled, level |-> ParseLogLevel(s), dir |-> s.dir, ngen |-> s.ngen]
-----------------------------------------------------------------------------
(* Building and wiring loggers                                               *)

(* EwtsLogger._init                                                          *)
InitLogger(o, returned) ==
  LET cfg == LoadConfig(o) IN
  [min |-> IF cfg.enabled THEN cfg.level ELSE Disabled,
   dest |-> IF ~cfg.enabled THEN "stdout"
            ELSE IF cfg.ngen /\ bridgeLib THEN "ngen"
            ELSE Or(cfg.dir, "stdout"),
   returned |-> returned]

New == Len(loggers) + 1

(* Mutant: handlers of earlier EwtsLoggers stay.                              *)
KeepHandlers(pys, min) ==
  [pys EXCEPT !["ewts"] = [handlers |-> @.handlers \cup {New}, level |-> min,
                           propagate |-> FALSE]]

(* EwtsLogger.__init__: its handler replaces the others EWTS put there.        *)
Attach(pys, min) ==
  [pys EXCEPT !["ewts"] = [handlers |-> (@.handlers \cap {0}) \cup {New}, level |-> min,
                           propagate |-> FALSE]]

(* _reset_python_logger                                                      *)
Unconfigured == [handlers |-> {}, level |-> NOTSET, propagate |-> TRUE]

(* Mutant: reset_logger forgets the application's logger.                     *)
ResetInternal == [py EXCEPT !["ewts"] = Unconfigured]

ResetBoth == [p \in PyLoggers |-> Unconfigured]

(* An EwtsLogger is built with an override and wired to the loggers as pys     *)
(* has them.                                                                 *)
Build(o, pys, returned) ==
  /\ Len(loggers) < MaxLoggers
  /\ loggers' = Append(loggers, InitLogger(o, returned))
  /\ py' = Attach(pys, loggers'[New].min)
  /\ environ' = Synced
  /\ last' = Quiet
  /\ UNCHANGED <<world, libc, ngenDone>>

(* get_logger; when the cache has the logger nothing changes.                 *)
GetLogger ==
  /\ cache = 0
  /\ Build(Or(override, NoOverride), py, TRUE)
  /\ cache' = New
  /\ tampered' = tampered \ {"ewts"}
  /\ UNCHANGED <<override, asked, retired>>

(* setup_logger: reset, override, get_logger                                  *)
SetupLogger(s) ==
  /\ Build(OverrideOf(s), ResetBoth, TRUE)
  /\ override' = {OverrideOf(s)}
  /\ asked' = {OverrideOf(s)}
  /\ cache' = New
  /\ retired' = Len(loggers)
  /\ tampered' = {}

ResetLogger ==
  /\ cache' = 0
  /\ py' = ResetBoth
  /\ retired' = Len(loggers)
  /\ tampered' = {}
  /\ last' = Quiet
  /\ UNCHANGED <<world, envs, override, loggers, asked>>

(* configure_existing_logger(getLogger("<ID>")): the new EwtsLogger takes over *)
(* "ewts.<ID>" too, but not the cache.                                        *)
ConfigureExistingLogger ==
  LET adopted(min) == [py EXCEPT !["app"] = [handlers |-> {New}, level |-> min,
                                             propagate |-> FALSE]]
  IN /\ Build(Or(override, NoOverride),
              adopted(InitLogger(Or(override, NoOverride), FALSE).min), FALSE)
     /\ tampered' = {}
     /\ UNCHANGED <<override, cache, asked, retired>>

ClearRuntimeOverride ==
  /\ override # {}
  /\ override' = {} /\ asked' = {}
  /\ last' = Quiet
  /\ UNCHANGED <<world, envs, cache, loggers, py, retired, tampered>>
-----------------------------------------------------------------------------
(* Levels, handlers and the environment                                      *)
Handles == {h \in 1..Len(loggers) : loggers[h].returned}
Serves(h, p) == h \in py[p].handlers

SetBoth(h, level) ==
  /\ loggers' = [loggers EXCEPT ![h].min = level]
  /\ py' = [py EXCEPT !["ewts"].level = level]
  /\ tampered' = (IF Serves(h, "ewts") THEN tampered \ {"ewts"} ELSE tampered \cup {"ewts"})
                  \cup (IF Serves(h, "app") THEN {"app"} ELSE {})
  /\ last' = Quiet

(* Mutant: setLevel does not pass the level on.                               *)
SetOwnLevel(h, level) ==
  /\ loggers' = [loggers EXCEPT ![h].min = level]
  /\ last' = Quiet
  /\ UNCHANGED <<world, envs, override, cache, py, history>>

SetLevel(h, level) ==
  /\ SetBoth(h, level)
  /\ UNCHANGED <<world, envs, override, cache, asked, retired>>

SetLevelFromEnv(h) ==
  /\ SetBoth(h, LevelForEwtsId)
  /\ environ' = [environ EXCEPT !["level"] = Synced["level"]]
  /\ UNCHANGED <<world, libc, ngenDone, override, cache, asked, retired>>

(* setLevel of the application's own logger                                   *)
AppSetLevel(level) ==
  /\ py' = [py EXCEPT !["app"].level = level]
  /\ tampered' = tampered \cup {"app"}
  /\ last' = Quiet
  /\ UNCHANGED <<world, envs, override, cache, loggers, asked, retired>>

(* addHandler and removeHandler with a handler of the application             *)
SetAppHandler(p, present) ==
  /\ py' = [py EXCEPT ![p].handlers = IF present THEN @ \cup {0} ELSE @ \ {0}]
  /\ last' = Quiet
  /\ UNCHANGED <<world, envs, override, cache, loggers, history>>

SetPropagate(p, value) ==
  /\ py' = [py EXCEPT ![p].propagate = value]
  /\ last' = Quiet
  /\ UNCHANGED <<world, envs, override, cache, loggers, history>>

(* os.environ[v] = t, which calls putenv                                      *)
ProgramExport(v, t) ==
  /\ environ' = [environ EXCEPT ![v] = t]
  /\ libc' = [libc EXCEPT ![v] = t]
  /\ last' = Quiet
  /\ UNCHANGED <<world, ngenDone, state, history>>

(* The ngen logger initialises, once, with setenv and unsetenv.               *)
NgenInitialises(e) ==
  /\ ~ngenDone
  /\ ngenDone' = TRUE
  /\ libc' = [v \in EnvVars |-> IF v \in NgenVars THEN e[v] ELSE libc[v]]
  /\ last' = Quiet
  /\ UNCHANGED <<world, environ, state, history>>
-----------------------------------------------------------------------------
(* Logging                                                                  *)

(* Mutant: PERFORM is a level of EWTS only, as for a plain Python logger.      *)
MapStandardLevel(level) ==
  IF level >= STATUS THEN STATUS ELSE IF level >= FATAL THEN FATAL
  ELSE IF level >= SEVERE THEN SEVERE ELSE IF level >= WARNING THEN WARNING
  ELSE IF level >= INFO THEN INFO ELSE DEBUG

(* _map_python_level_to_ewts                                                 *)
MapLevel(level) ==
  IF level >= STATUS THEN STATUS
  ELSE IF level >= FATAL THEN FATAL
  ELSE IF level >= SEVERE THEN SEVERE
  ELSE IF level >= WARNING THEN WARNING
  ELSE IF level >= INFO THEN INFO
  ELSE IF level >= PERFORM THEN PERFORM
  ELSE DEBUG

(* _write: a file in a directory that does not exist cannot be opened.         *)
WriteBy(h, level) ==
  LET to == loggers[h].dest IN
  IF (level # STATUS /\ level < loggers[h].min) \/ to \in missing THEN {}
  ELSE {[by |-> h, to |-> to, payload |-> to \in LogDirs /\ level = STATUS]}

EffectiveLevel(p) == IF py[p].level = NOTSET THEN RootLevel ELSE py[p].level

(* logging.Logger.log: every handler, then those of the root logger.           *)
Handle(p, level) ==
  IF level < EffectiveLevel(p) THEN {}
  ELSE (UNION {WriteBy(h, MapLevel(level)) : h \in py[p].handlers \ {0}})
       \cup {[by |-> 0, to |-> "application", payload |-> FALSE] : h \in py[p].handlers \cap {0}}
       \cup (IF py[p].propagate THEN {[by |-> 0, to |-> "root", payload |-> FALSE]} ELSE {})

Logged(via, h, level, writes) ==
  /\ last' = [via |-> via, by |-> h, level |-> level, writes |-> writes]
  /\ UNCHANGED <<world, envs, state, history>>

(* debug, perform, info, warning, severe, fatal, status and their aliases      *)
LogMethod(h, level) == Logged("method", h, level, Handle("ewts", level))

(* EwtsLogger.log, which goes past the Python logger                          *)
LogDirect(h, level) == Logged("log", h, level, WriteBy(h, level))

AppLog(level) == Logged("app", 0, level, Handle("app", level))
-----------------------------------------------------------------------------
Init ==
  /\ \E w \in Worlds : environ = w.environ /\ bridgeLib = w.bridgeLib /\ missing = w.missing
  /\ libc = environ /\ ngenDone = FALSE
  /\ override = {} /\ cache = 0 /\ loggers = <<>>
  /\ py = [p \in PyLoggers |-> Unconfigured]
  /\ last = Quiet
  /\ asked = {} /\ retired = 0 /\ tampered = {}

Manage ==
  \/ GetLogger \/ ResetLogger \/ ConfigureExistingLogger \/ ClearRuntimeOverride
  \/ \E s \in Setups : SetupLogger(s)

Adjust ==
  \/ \E h \in Handles : SetLevelFromEnv(h) \/ \E l \in SetLevels : SetLevel(h, l)
  \/ \E l \in SetLevels : AppSetLevel(l)
  \/ \E p \in Tinkered, b \in BOOLEAN : SetAppHandler(p, b) \/ SetPropagate(p, b)

Surroundings ==
  \/ \E e \in ProgramExports : ProgramExport(e[1], e[2])
  \/ \E e \in NgenExports : NgenInitialises(e)

Emit ==
  \E l \in LogLevels : AppLog(l) \/ \E h \in Handles : LogMethod(h, l) \/ LogDirect(h, l)

Next == Manage \/ Adjust \/ Surroundings \/ Emit

Spec == Init /\ [][Next]_vars
-----------------------------------------------------------------------------
(* Properties                                                               *)

(* Every variable stays in its domain; handlers and the cache name EwtsLoggers *)
(* that exist, and a threshold is a number whatever the variables say.         *)
TypeOK ==
  /\ environ \in Environment /\ libc \in Environment /\ ngenDone \in BOOLEAN
  /\ bridgeLib \in BOOLEAN /\ missing \subseteq LogDirs
  /\ override \in Opt(Override) /\ asked \in Opt(Override)
  /\ loggers \in Seq(EwtsLogger) /\ Len(loggers) <= MaxLoggers
  /\ cache \in 0..Len(loggers) /\ retired \in 0..Len(loggers)
  /\ py \in [PyLoggers -> PyLogger]
  /\ \A p \in PyLoggers : py[p].handlers \subseteq 0..Len(loggers)
  /\ last \in Record /\ tampered \subseteq PyLoggers

(* However often a logger is built, set up, reset or adopted, no record is     *)
(* written by two EwtsLoggers: loggers of the standard library live as long    *)
(* as the process, and each construction adds a handler to one.               *)
WrittenOnce ==
  \A v, w \in last.writes : v.by # 0 /\ w.by # 0 => v = w

(* After a reset or a setup nothing reaches an EwtsLogger built before it, not *)
(* through the cache and not through the loggers that earlier calls, or an     *)
(* adoption, wired to it.  The logger in the cache can always write: someone   *)
(* serves "ewts.<ID>", and it is the EwtsLogger built last.                    *)
ServedByCurrent ==
  /\ \A p \in PyLoggers : \A h \in py[p].handlers \ {0} : h > retired
  /\ cache # 0 => cache > retired
  /\ Len(loggers) > retired => py["ewts"].handlers \ {0} = {Len(loggers)}

(* What an EwtsLogger built with an override owes to it.  The level 999 is beyond  *)
(* it: it marks the loggers that are disabled.                                 *)
Obeys(lg, a) ==
  /\ a.enabled # {} /\ Or(a.level, LevelForEwtsId) # Disabled
       => (The(a.enabled) <=> lg.min # Disabled)
  /\ a.level # {} => lg.min \in a.level \cup {Disabled}
  /\ a.ngen = {FALSE} => lg.dest # "ngen"
  /\ a.dir # {} /\ lg.min # Disabled => lg.dest \in a.dir \cup {"ngen"}

(* What setup_logger was told holds for every EwtsLogger built until the next  *)
(* setup, by whatever call, whatever program or ngen put in the environment.   *)
OverridesPrevail ==
  [][\A a \in asked' :
       Len(loggers') > Len(loggers) => Obeys(loggers'[Len(loggers')], a)]_vars

(* The threshold of an EwtsLogger and the level of a logger it serves agree,   *)
(* unless the application set the latter itself or through a handle that no    *)
(* longer serves it.                                                         *)
LevelsAligned ==
  \A p \in PyLoggers \ tampered : \A h \in py[p].handlers \ {0} : py[p].level = loggers[h].min

(* A record logged with a method of a handle, or with the adopted logger, is   *)
(* written exactly when its level reaches the threshold of the EwtsLogger that *)
(* serves the logger, in the payload file if it is a STATUS: two filters, two  *)
(* scales of levels and several handles lose and add nothing.  Not so for      *)
(* levels between the canonical ones, for NOTSET, where the root logger's       *)
(* level applies, in a missing directory, or with tampered levels.             *)
ThresholdDecides ==
  \A p \in PyLoggers \ tampered : \A h \in py[p].handlers \ {0} :
    /\ last.via = (IF p = "ewts" THEN "method" ELSE "app")
    /\ last.level \in CanonicalLevels \ {NOTSET}
    /\ loggers[h].min # NOTSET
    /\ loggers[h].dest \notin missing
    => {w \in last.writes : w.by # 0}
       = IF last.level < loggers[h].min THEN {}
         ELSE {[by |-> h, to |-> loggers[h].dest,
                payload |-> loggers[h].dest \in LogDirs /\ last.level = STATUS]}

(* A logger built after ngen has initialised, with no level of its own in an   *)
(* override, has the level that ngen exported.                                *)
AdoptsNgenLevel ==
  [][/\ ngenDone /\ libc["level"] \in DOMAIN Numeral
     /\ Len(loggers') > Len(loggers)
     /\ \A o \in override' : o.level = {}
     => loggers'[Len(loggers')].min \in {Numeral[libc["level"]], Disabled}]_vars
=============================================================================
