------------------------ MODULE PythonRuntimeProofs ------------------------
(* Theorems about the Python runtime, for every environment and every order of *)
(* calls.                                                                   *)
EXTENDS PythonRuntime, TLAPS

(* A logger of the standard library serves one EwtsLogger at most.              *)
OneHandler == \A p \in PyLoggers : \A h, k \in py[p].handlers \ {0} : h = k

(* The inductive invariant                                                   *)
Inv == TypeOK /\ OneHandler /\ ServedByCurrent /\ LevelsAligned /\ WrittenOnce

(* An optional value that is there is one of the values.                       *)
LEMMA OptionalValue ==
  ASSUME NEW S, NEW o \in Opt(S)
  PROVE  o # {} => The(o) \in S /\ o = {The(o)}
BY DEF Opt, The

(* An optional value with a default is a value.                                *)
LEMMA OptionalOr ==
  ASSUME NEW S, NEW o \in Opt(S), NEW x \in S
  PROVE  Or(o, x) \in S
BY OptionalValue DEF Or

(* The canonical levels are numbers.                                           *)
LEMMA LevelTypes ==
  /\ \A l \in CanonicalLevels : l \in Nat
  /\ INFO \in Nat /\ WARNING \in Nat /\ STATUS \in Nat /\ NOTSET \in Nat
  /\ CanonicalLevels \subseteq Nat
BY DEF CanonicalLevels, NOTSET, DEBUG, PERFORM, INFO, WARNING, SEVERE, FATAL, STATUS

(* What the environment says                                                 *)
LEMMA ParsedLevel ==
  ASSUME NEW t PROVE ParseLevelValue(t) \in Opt(Nat)
BY ConstantsAssumption DEF ParseLevelValue, Opt

(* Whatever the variables hold, the configuration gets values of its types.    *)
LEMMA EnvironmentTypes ==
  ASSUME environ \in Environment, libc \in Environment
  PROVE  /\ Synced \in Environment
         /\ LevelForEwtsId \in Nat
         /\ LogDir \in Opt(LogDirs)
         /\ IsNgenActive \in BOOLEAN /\ EnvEnabled \in BOOLEAN
<1>1. \A v \in EnvVars : environ[v] \in Value /\ libc[v] \in Value /\ Empty \in Value
  BY DEF Environment, Value
<1>2. \A v \in EnvVars : Getenv(v) \in Value
  BY <1>1 DEF Getenv
<1>3. Synced \in Environment
  BY <1>1, <1>2 DEF Synced, Environment
<1>4. DefaultLevel \in Nat
  BY ParsedLevel, OptionalOr, LevelTypes DEF DefaultLevel
<1>5. LevelForEwtsId \in Nat
  BY <1>4, ParsedLevel, OptionalOr DEF LevelForEwtsId
<1>6. LogDir \in Opt(LogDirs)
  BY DEF LogDir, Opt
<1>7. IsNgenActive \in BOOLEAN /\ EnvEnabled \in BOOLEAN
  BY DEF IsNgenActive, EnvEnabled
<1> QED BY <1>3, <1>5, <1>6, <1>7

(* Overriding nothing is an override.                                          *)
LEMMA NoOverrideType == NoOverride \in Override
BY DEF NoOverride, Override, Opt

(* load_config returns a configuration, whatever the override.                 *)
LEMMA ConfigType ==
  ASSUME environ \in Environment, libc \in Environment, NEW o \in Override
  PROVE  LoadConfig(o) \in [ngen : BOOLEAN, enabled : BOOLEAN, dir : Opt(LogDirs), level : Nat]
<1>1. /\ o.enabled \in Opt(BOOLEAN) /\ o.level \in Opt(Nat) /\ o.dir \in Opt(LogDirs)
      /\ o.ngen \in Opt(BOOLEAN)
  BY DEF Override
<1>2. Or(o.ngen, IsNgenActive) \in BOOLEAN
  BY <1>1, EnvironmentTypes, OptionalOr
<1>3. Or(o.enabled, EnvEnabled) \in BOOLEAN
  BY <1>1, EnvironmentTypes, OptionalOr
<1>4. Or(o.level, LevelForEwtsId) \in Nat
  BY <1>1, EnvironmentTypes, OptionalOr
<1>5. (IF o.dir # {} THEN o.dir ELSE LogDir) \in Opt(LogDirs)
  BY <1>1, EnvironmentTypes
<1> QED BY <1>2, <1>3, <1>4, <1>5 DEF LoadConfig

(* _init gives an EwtsLogger a threshold and a destination.                    *)
LEMMA InitLoggerType ==
  ASSUME environ \in Environment, libc \in Environment, NEW o \in Override, NEW returned \in BOOLEAN
  PROVE  InitLogger(o, returned) \in EwtsLogger
<1> DEFINE cfg == LoadConfig(o)
<1>1. cfg.level \in Nat /\ cfg.dir \in Opt(LogDirs)
  BY ConfigType
<1>2. Or(cfg.dir, "stdout") \in Destination
  BY <1>1, OptionalValue DEF Or, Destination
<1>3. Disabled \in Nat
  BY DEF Disabled
<1> HIDE DEF cfg
<1>4. (IF cfg.enabled THEN cfg.level ELSE Disabled) \in Nat
  BY <1>1, <1>3
<1>5. (IF ~cfg.enabled THEN "stdout"
       ELSE IF cfg.ngen /\ bridgeLib THEN "ngen" ELSE Or(cfg.dir, "stdout")) \in Destination
  BY <1>2 DEF Destination
<1> QED BY <1>4, <1>5 DEF InitLogger, EwtsLogger, cfg

(* What building an EwtsLogger does, whatever the loggers pys are before it      *)
LEMMA Built ==
  ASSUME TypeOK, NEW o \in Override, NEW pys \in [PyLoggers -> PyLogger],
         NEW returned \in BOOLEAN, Build(o, pys, returned)
  PROVE  /\ loggers' \in Seq(EwtsLogger) /\ Len(loggers') = New /\ Len(loggers') <= MaxLoggers
         /\ New \in Nat \ {0} /\ New = Len(loggers) + 1
         /\ \A h \in 1..Len(loggers) : loggers'[h] = loggers[h]
         /\ loggers'[New] = InitLogger(o, returned) /\ loggers'[New] \in EwtsLogger
         /\ py' \in [PyLoggers -> [handlers : SUBSET Nat, level : Nat, propagate : BOOLEAN]]
         /\ py'["ewts"].handlers = (pys["ewts"].handlers \cap {0}) \cup {New}
         /\ py'["ewts"].level = loggers'[New].min
         /\ py'["app"] = pys["app"]
         /\ environ' \in Environment
<1>1. InitLogger(o, returned) \in EwtsLogger
  BY InitLoggerType DEF TypeOK
<1>2. loggers \in Seq(EwtsLogger) /\ Len(loggers) \in Nat /\ MaxLoggers \in Nat
  BY ConstantsAssumption DEF TypeOK
<1>3. /\ loggers' = Append(loggers, InitLogger(o, returned)) /\ Len(loggers) < MaxLoggers
      /\ py' = Attach(pys, loggers'[New].min) /\ environ' = Synced
  BY DEF Build
<1>4. /\ loggers' \in Seq(EwtsLogger) /\ Len(loggers') = New /\ Len(loggers') <= MaxLoggers
      /\ New \in Nat \ {0} /\ New = Len(loggers) + 1
      /\ \A h \in 1..Len(loggers) : loggers'[h] = loggers[h]
      /\ loggers'[New] = InitLogger(o, returned)
  BY <1>1, <1>2, <1>3 DEF New
<1>5. loggers'[New] \in EwtsLogger /\ loggers'[New].min \in Nat
  BY <1>1, <1>4 DEF EwtsLogger
<1>6. environ' \in Environment
  BY <1>3, EnvironmentTypes DEF TypeOK
<1>7. /\ py' \in [PyLoggers -> [handlers : SUBSET Nat, level : Nat, propagate : BOOLEAN]]
      /\ py'["ewts"].handlers = (pys["ewts"].handlers \cap {0}) \cup {New}
      /\ py'["ewts"].level = loggers'[New].min
      /\ py'["app"] = pys["app"]
  BY <1>3, <1>4, <1>5 DEF Attach, PyLoggers, PyLogger
<1> QED BY <1>4, <1>5, <1>6, <1>7

(* What get_logger and setup_logger build with is an override.                 *)
LEMMA OverrideTypes ==
  /\ TypeOK => Or(override, NoOverride) \in Override
  /\ \A s \in Setups : OverrideOf(s) \in Override
<1>1. TypeOK => Or(override, NoOverride) \in Override
  BY NoOverrideType, OptionalOr DEF TypeOK
<1>2. ASSUME NEW s \in Setups PROVE OverrideOf(s) \in Override
  <2>1. s \in Setup
    BY ConstantsAssumption
  <2>2. ParseLogLevel(s) \in Opt(Nat)
    <3>1. s.level \in Opt(Nat) /\ {INFO} \in Opt(Nat)
      BY <2>1, LevelTypes DEF Setup, Opt
    <3>2. The(s.name) \in DOMAIN LevelName => {LevelName[The(s.name)]} \in Opt(Nat)
      BY ConstantsAssumption DEF Opt
    <3> QED BY <3>1, <3>2 DEF ParseLogLevel
  <2> QED BY <2>1, <2>2 DEF OverrideOf, Override, Setup
<1> QED BY <1>1, <1>2

(* A step that logs nothing writes nothing.                                    *)
LEMMA QuietType == Quiet \in Record /\ Quiet.writes = {}
BY LevelTypes DEF Quiet, Record

(* A reset leaves no handler.                                                  *)
LEMMA ResetTypes ==
  /\ ResetBoth \in [PyLoggers -> PyLogger]
  /\ \A p \in PyLoggers : ResetBoth[p].handlers = {}
BY LevelTypes DEF ResetBoth, Unconfigured, PyLogger

(* Building an EwtsLogger keeps the invariant if the application's logger is left  *)
(* alone, reset, or adopted by the new one.                                    *)
LEMMA BuildKeeps ==
  ASSUME Inv, NEW o \in Override, NEW pys \in [PyLoggers -> PyLogger],
         NEW returned \in BOOLEAN, Build(o, pys, returned),
         cache' \in {cache, New}, retired' \in {retired, Len(loggers)},
         cache' = cache => retired' = retired,
         override' \in Opt(Override), asked' \in Opt(Override), tampered' \subseteq PyLoggers,
         \/ /\ pys["app"] = py["app"] /\ retired' = retired
            /\ "app" \in tampered => "app" \in tampered'
         \/ pys["app"].handlers = {}
         \/ /\ pys["app"].handlers = {New} /\ pys["app"].level = loggers'[New].min
            /\ retired' = retired
  PROVE  Inv'
<1>0. /\ TypeOK /\ OneHandler /\ ServedByCurrent /\ LevelsAligned
  BY DEF Inv
<1>1. /\ loggers' \in Seq(EwtsLogger) /\ Len(loggers') = New /\ Len(loggers') <= MaxLoggers
      /\ New \in Nat \ {0} /\ New = Len(loggers) + 1
      /\ \A h \in 1..Len(loggers) : loggers'[h] = loggers[h]
      /\ py' \in [PyLoggers -> PyLogger]
      /\ py'["ewts"].handlers = (pys["ewts"].handlers \cap {0}) \cup {New}
      /\ py'["ewts"].level = loggers'[New].min
      /\ py'["app"] = pys["app"]
      /\ environ' \in Environment
  BY <1>0, Built DEF PyLogger
<1>2. /\ cache \in 0..Len(loggers) /\ retired \in 0..Len(loggers) /\ Len(loggers) \in Nat
      /\ \A p \in PyLoggers : py[p].handlers \subseteq 0..Len(loggers)
      /\ py \in [PyLoggers -> PyLogger]
  BY <1>0 DEF TypeOK
<1>3. /\ last' = Quiet
      /\ UNCHANGED <<bridgeLib, missing, libc, ngenDone>>
  BY DEF Build, world
<1>4. "ewts" \in PyLoggers /\ "app" \in PyLoggers /\ PyLoggers = {"ewts", "app"}
  BY DEF PyLoggers
<1>5. TypeOK'
  <2>1. \A p \in PyLoggers : py'[p].handlers \subseteq 0..Len(loggers')
    BY <1>1, <1>2, <1>4
  <2>2. cache' \in 0..Len(loggers') /\ retired' \in 0..Len(loggers')
    BY <1>1, <1>2
  <2>3. last' \in Record
    BY <1>3, QuietType
  <2> QED BY <1>0, <1>1, <1>3, <2>1, <2>2, <2>3 DEF TypeOK
<1>6. OneHandler'
  BY <1>0, <1>1, <1>4 DEF OneHandler
<1>7. ServedByCurrent'
  <2>1. \A h \in py'["ewts"].handlers \ {0} : h > retired'
    BY <1>1, <1>2
  <2>2. \A h \in py'["app"].handlers \ {0} : h > retired'
    BY <1>0, <1>1, <1>2, <1>4 DEF ServedByCurrent
  <2>3. cache' # 0 => cache' > retired'
    BY <1>0, <1>1, <1>2 DEF ServedByCurrent
  <2>4. py'["ewts"].handlers \ {0} = {Len(loggers')}
    BY <1>1
  <2> QED BY <1>4, <2>1, <2>2, <2>3, <2>4 DEF ServedByCurrent
<1>8. LevelsAligned'
  <2>1. \A h \in py'["ewts"].handlers \ {0} : py'["ewts"].level = loggers'[h].min
    BY <1>1
  <2>2. "app" \notin tampered' =>
          \A h \in py'["app"].handlers \ {0} : py'["app"].level = loggers'[h].min
    <3>1. \A h \in py["app"].handlers \ {0} : h \in 1..Len(loggers) /\ loggers'[h] = loggers[h]
      BY <1>1, <1>2, <1>4
    <3> QED BY <1>0, <1>1, <1>4, <3>1 DEF LevelsAligned
  <2> QED BY <1>4, <2>1, <2>2 DEF LevelsAligned
<1>9. WrittenOnce'
  BY <1>3, QuietType DEF WrittenOnce
<1> QED BY <1>5, <1>6, <1>7, <1>8, <1>9 DEF Inv

(* get_logger keeps the invariant.                                             *)
LEMMA GetLoggerKeeps == Inv /\ GetLogger => Inv'
<1> SUFFICES ASSUME Inv, GetLogger PROVE Inv'
  OBVIOUS
<1>1. TypeOK
  BY DEF Inv
<1>2. /\ Build(Or(override, NoOverride), py, TRUE) /\ cache' = New
      /\ tampered' = tampered \ {"ewts"} /\ UNCHANGED <<override, asked, retired>>
      /\ cache = 0
  BY DEF GetLogger
<1>3. Or(override, NoOverride) \in Override /\ py \in [PyLoggers -> PyLogger]
      /\ override \in Opt(Override) /\ asked \in Opt(Override) /\ tampered \subseteq PyLoggers
  BY <1>1, OverrideTypes DEF TypeOK
<1> QED BY <1>2, <1>3, BuildKeeps

(* setup_logger keeps the invariant: the reset precedes the construction.      *)
LEMMA SetupLoggerKeeps == ASSUME NEW s \in Setups PROVE Inv /\ SetupLogger(s) => Inv'
<1> SUFFICES ASSUME Inv, SetupLogger(s) PROVE Inv'
  OBVIOUS
<1>1. /\ Build(OverrideOf(s), ResetBoth, TRUE) /\ cache' = New /\ tampered' = {}
      /\ override' = {OverrideOf(s)} /\ asked' = {OverrideOf(s)} /\ retired' = Len(loggers)
  BY DEF SetupLogger
<1>2. OverrideOf(s) \in Override
  BY OverrideTypes
<1>3. override' \in Opt(Override) /\ asked' \in Opt(Override)
  BY <1>1, <1>2 DEF Opt
<1>4. cache' # cache
  BY <1>1 DEF Inv, TypeOK, New
<1>5. ResetBoth["app"].handlers = {}
  BY ResetTypes DEF PyLoggers
<1> QED BY <1>1, <1>2, <1>3, <1>4, <1>5, ResetTypes, BuildKeeps

(* configure_existing_logger keeps it: the new EwtsLogger serves both loggers. *)
LEMMA ConfigureExistingLoggerKeeps == Inv /\ ConfigureExistingLogger => Inv'
<1> SUFFICES ASSUME Inv, ConfigureExistingLogger PROVE Inv'
  OBVIOUS
<1> DEFINE o == Or(override, NoOverride)
           adopted == [handlers |-> {New}, level |-> InitLogger(o, FALSE).min, propagate |-> FALSE]
           pys == [py EXCEPT !["app"] = adopted]
<1>1. TypeOK
  BY DEF Inv
<1>2. /\ Build(o, pys, FALSE) /\ tampered' = {}
      /\ UNCHANGED <<override, cache, asked, retired>>
  BY DEF ConfigureExistingLogger
<1>3. /\ o \in Override /\ py \in [PyLoggers -> PyLogger] /\ Len(loggers) \in Nat
      /\ override \in Opt(Override) /\ asked \in Opt(Override)
  BY <1>1, OverrideTypes DEF TypeOK
<1>4. InitLogger(o, FALSE).min \in Nat
  BY <1>1, <1>3, InitLoggerType DEF TypeOK, EwtsLogger
<1> HIDE DEF o
<1>5. adopted \in PyLogger /\ adopted.handlers = {New} /\ adopted.level = InitLogger(o, FALSE).min
  <2> DEFINE min == InitLogger(o, FALSE).min
  <2>0. New \in Nat
    BY <1>3 DEF New
  <2>1. min \in Nat /\ {New} \in SUBSET Nat
    BY <1>4, <2>0
  <2> HIDE DEF min
  <2>2. [handlers |-> {New}, level |-> min, propagate |-> FALSE] \in PyLogger
    BY <2>1 DEF PyLogger
  <2> QED BY <2>2 DEF min
<1> HIDE DEF adopted
<1>6. pys \in [PyLoggers -> PyLogger] /\ pys["app"] = adopted
  BY <1>3, <1>5 DEF PyLoggers
<1>7. loggers'[New] = InitLogger(o, FALSE)
  BY <1>1, <1>2, <1>3, <1>6, Built
<1> HIDE DEF pys
<1> QED BY <1>2, <1>3, <1>5, <1>6, <1>7, BuildKeeps

(* reset_logger keeps the invariant.                                           *)
LEMMA ResetLoggerKeeps == Inv /\ ResetLogger => Inv'
<1> SUFFICES ASSUME Inv, ResetLogger PROVE Inv'
  OBVIOUS
<1>1. /\ TypeOK /\ Len(loggers) \in Nat
  BY DEF Inv, TypeOK
<1>2. /\ cache' = 0 /\ py' = ResetBoth /\ retired' = Len(loggers) /\ tampered' = {}
      /\ last' = Quiet /\ UNCHANGED <<bridgeLib, missing, environ, libc, ngenDone, override, loggers, asked>>
  BY DEF ResetLogger, world, envs
<1>3. TypeOK'
  BY <1>1, <1>2, ResetTypes, QuietType DEF TypeOK
<1>4. OneHandler' /\ ServedByCurrent' /\ LevelsAligned'
  BY <1>1, <1>2, ResetTypes DEF OneHandler, ServedByCurrent, LevelsAligned
<1>5. WrittenOnce'
  BY <1>2, QuietType DEF WrittenOnce
<1> QED BY <1>3, <1>4, <1>5 DEF Inv

(* clear_runtime_override keeps the invariant.                                 *)
LEMMA ClearRuntimeOverrideKeeps == Inv /\ ClearRuntimeOverride => Inv'
<1> SUFFICES ASSUME Inv, ClearRuntimeOverride PROVE Inv'
  OBVIOUS
<1>1. /\ override' = {} /\ asked' = {} /\ last' = Quiet
      /\ UNCHANGED <<bridgeLib, missing, environ, libc, ngenDone, cache, loggers, py, retired, tampered>>
  BY DEF ClearRuntimeOverride, world, envs
<1>2. {} \in Opt(Override)
  BY DEF Opt
<1>3. TypeOK'
  BY <1>1, <1>2, QuietType DEF Inv, TypeOK
<1>4. OneHandler' /\ ServedByCurrent' /\ LevelsAligned'
  BY <1>1 DEF Inv, OneHandler, ServedByCurrent, LevelsAligned
<1>5. WrittenOnce'
  BY <1>1, QuietType DEF WrittenOnce
<1> QED BY <1>3, <1>4, <1>5 DEF Inv

(* A level set through a handle, whichever logger it still serves               *)
LEMMA SetBothKeeps ==
  ASSUME Inv, NEW h \in Handles, NEW level \in Nat, SetBoth(h, level), environ' \in Environment,
         UNCHANGED <<world, libc, ngenDone, override, cache, asked, retired>>
  PROVE  Inv'
<1>0. /\ TypeOK /\ OneHandler /\ ServedByCurrent /\ LevelsAligned
  BY DEF Inv
<1>1. /\ loggers \in Seq(EwtsLogger) /\ Len(loggers) \in Nat /\ h \in 1..Len(loggers)
      /\ py \in [PyLoggers -> PyLogger] /\ tampered \subseteq PyLoggers
      /\ "ewts" \in PyLoggers /\ "app" \in PyLoggers /\ PyLoggers = {"ewts", "app"}
  BY <1>0 DEF Handles, TypeOK, PyLoggers
<1>2. /\ loggers' = [loggers EXCEPT ![h].min = level]
      /\ py' = [py EXCEPT !["ewts"].level = level] /\ last' = Quiet
      /\ tampered' = (IF Serves(h, "ewts") THEN tampered \ {"ewts"} ELSE tampered \cup {"ewts"})
                     \cup (IF Serves(h, "app") THEN {"app"} ELSE {})
  BY DEF SetBoth
<1>3. /\ loggers' \in Seq(EwtsLogger) /\ Len(loggers') = Len(loggers)
      /\ loggers'[h].min = level
      /\ \A k \in 1..Len(loggers) : k # h => loggers'[k] = loggers[k]
  <2> DEFINE n == Len(loggers)
             lg == [loggers[h] EXCEPT !.min = level]
  <2>1. loggers \in [1..n -> EwtsLogger] /\ DOMAIN loggers = 1..n
    BY <1>1
  <2>2. lg \in EwtsLogger /\ lg.min = level
    BY <1>1, <2>1 DEF EwtsLogger
  <2>3. loggers' = [k \in 1..n |-> IF k = h THEN lg ELSE loggers[k]]
    BY <1>1, <1>2, <2>1
  <2> HIDE DEF lg
  <2>4. loggers' \in [1..n -> EwtsLogger]
    BY <2>1, <2>2, <2>3
  <2>5. loggers' \in Seq(EwtsLogger) /\ Len(loggers') = n
    BY <1>1, <2>3, <2>4
  <2> QED BY <1>1, <2>2, <2>3, <2>5
<1>4. /\ py' \in [PyLoggers -> PyLogger]
      /\ \A p \in PyLoggers : py'[p].handlers = py[p].handlers
      /\ py'["ewts"].level = level /\ py'["app"].level = py["app"].level
  BY <1>1, <1>2 DEF PyLogger
<1>5. TypeOK'
  BY <1>0, <1>1, <1>2, <1>3, <1>4, QuietType DEF TypeOK, world
<1>6. OneHandler' /\ ServedByCurrent'
  BY <1>0, <1>1, <1>3, <1>4 DEF OneHandler, ServedByCurrent
<1>7. LevelsAligned'
  <2>1. "ewts" \notin tampered' =>
          \A k \in py'["ewts"].handlers \ {0} : py'["ewts"].level = loggers'[k].min
    <3>1. "ewts" \notin tampered' => Serves(h, "ewts")
      BY <1>2
    <3>2. Serves(h, "ewts") => \A k \in py["ewts"].handlers \ {0} : k = h
      BY <1>0, <1>1 DEF OneHandler, Serves
    <3> QED BY <1>3, <1>4, <1>1, <3>1, <3>2
  <2>2. "app" \notin tampered' =>
          \A k \in py'["app"].handlers \ {0} : py'["app"].level = loggers'[k].min
    <3>1. "app" \notin tampered' => "app" \notin tampered /\ ~Serves(h, "app")
      BY <1>2
    <3>2. \A k \in py["app"].handlers \ {0} : k \in 1..Len(loggers)
      BY <1>0, <1>1 DEF TypeOK
    <3>3. SUFFICES ASSUME "app" \notin tampered', NEW k \in py'["app"].handlers \ {0}
                   PROVE  py'["app"].level = loggers'[k].min
      OBVIOUS
    <3>4. k \in py["app"].handlers \ {0} /\ k # h /\ k \in 1..Len(loggers)
      BY <1>1, <1>4, <3>1, <3>2, <3>3 DEF Serves
    <3>5. py["app"].level = loggers[k].min
      BY <1>0, <1>1, <3>1, <3>3, <3>4 DEF LevelsAligned
    <3> QED BY <1>3, <1>4, <3>4, <3>5
  <2> QED BY <1>1, <2>1, <2>2 DEF LevelsAligned
<1>8. WrittenOnce'
  BY <1>2, QuietType DEF WrittenOnce
<1> QED BY <1>5, <1>6, <1>7, <1>8 DEF Inv

(* setLevel of an EwtsLogger keeps the invariant.                              *)
LEMMA SetLevelKeeps ==
  ASSUME NEW h \in Handles, NEW l \in SetLevels PROVE Inv /\ SetLevel(h, l) => Inv'
<1> SUFFICES ASSUME Inv, SetLevel(h, l) PROVE Inv'
  OBVIOUS
<1>1. l \in Nat
  BY ConstantsAssumption
<1>2. environ' \in Environment /\ UNCHANGED <<world, libc, ngenDone, override, cache, asked, retired>>
  BY DEF SetLevel, envs, Inv, TypeOK
<1>3. SetBoth(h, l)
  BY DEF SetLevel
<1> QED BY <1>1, <1>2, <1>3, SetBothKeeps

(* set_level_from_env keeps the invariant.                                     *)
LEMMA SetLevelFromEnvKeeps ==
  ASSUME NEW h \in Handles PROVE Inv /\ SetLevelFromEnv(h) => Inv'
<1> SUFFICES ASSUME Inv, SetLevelFromEnv(h) PROVE Inv'
  OBVIOUS
<1>1. LevelForEwtsId \in Nat /\ Synced \in Environment /\ environ \in Environment
  BY EnvironmentTypes DEF Inv, TypeOK
<1>2. environ' \in Environment
  BY <1>1 DEF SetLevelFromEnv, Environment, EnvVars
<1>3. SetBoth(h, LevelForEwtsId)
      /\ UNCHANGED <<world, libc, ngenDone, override, cache, asked, retired>>
  BY DEF SetLevelFromEnv
<1> QED BY <1>1, <1>2, <1>3, SetBothKeeps

(* setLevel of the application's logger keeps the invariant.                   *)
LEMMA AppSetLevelKeeps ==
  ASSUME NEW l \in SetLevels PROVE Inv /\ AppSetLevel(l) => Inv'
<1> SUFFICES ASSUME Inv, AppSetLevel(l) PROVE Inv'
  OBVIOUS
<1>1. /\ py' = [py EXCEPT !["app"].level = l] /\ tampered' = tampered \cup {"app"} /\ last' = Quiet
      /\ UNCHANGED <<bridgeLib, missing, environ, libc, ngenDone, override, cache, loggers, asked, retired>>
  BY DEF AppSetLevel, world, envs
<1>2. l \in Nat /\ PyLoggers = {"ewts", "app"} /\ py \in [PyLoggers -> PyLogger]
  BY ConstantsAssumption DEF PyLoggers, Inv, TypeOK
<1>3. /\ py' \in [PyLoggers -> PyLogger] /\ py'["ewts"] = py["ewts"]
      /\ \A p \in PyLoggers : py'[p].handlers = py[p].handlers
  BY <1>1, <1>2 DEF PyLogger
<1>4. TypeOK'
  BY <1>1, <1>2, <1>3, QuietType DEF Inv, TypeOK
<1>5. OneHandler' /\ ServedByCurrent'
  BY <1>1, <1>2, <1>3 DEF Inv, OneHandler, ServedByCurrent
<1>6. LevelsAligned'
  BY <1>1, <1>2, <1>3 DEF Inv, LevelsAligned
<1>7. WrittenOnce'
  BY <1>1, QuietType DEF WrittenOnce
<1> QED BY <1>4, <1>5, <1>6, <1>7 DEF Inv

(* A step that leaves the levels alone, and of the handlers changes only that of *)
(* the application                                                            *)
LEMMA HandlersKept ==
  ASSUME Inv, py' \in [PyLoggers -> PyLogger],
         \A p \in PyLoggers : /\ py'[p].level = py[p].level
                              /\ py'[p].handlers \subseteq py[p].handlers \cup {0}
                              /\ py'[p].handlers \ {0} = py[p].handlers \ {0},
         last' = Quiet, environ' \in Environment, libc' \in Environment, ngenDone' \in BOOLEAN,
         UNCHANGED <<bridgeLib, missing, override, cache, loggers, asked, retired, tampered>>
  PROVE  Inv'
<1>1. TypeOK'
  BY QuietType DEF Inv, TypeOK
<1>2. OneHandler' /\ ServedByCurrent' /\ LevelsAligned'
  BY DEF Inv, OneHandler, ServedByCurrent, LevelsAligned, PyLoggers
<1>3. WrittenOnce'
  BY QuietType DEF WrittenOnce
<1> QED BY <1>1, <1>2, <1>3 DEF Inv

(* A handler of the application comes or goes.                                 *)
LEMMA SetAppHandlerKeeps ==
  ASSUME NEW p \in Tinkered, NEW b \in BOOLEAN PROVE Inv /\ SetAppHandler(p, b) => Inv'
<1> SUFFICES ASSUME Inv, SetAppHandler(p, b) PROVE Inv'
  OBVIOUS
<1>1. p \in PyLoggers /\ py \in [PyLoggers -> PyLogger]
  BY ConstantsAssumption DEF Inv, TypeOK
<1>2. DEFINE hs == IF b THEN py[p].handlers \cup {0} ELSE py[p].handlers \ {0}
<1>3. py' = [py EXCEPT ![p].handlers = hs] /\ last' = Quiet
      /\ UNCHANGED <<bridgeLib, missing, environ, libc, ngenDone, override, cache, loggers, asked,
                     retired, tampered>>
  BY DEF SetAppHandler, world, envs, history
<1>4. hs \in SUBSET Nat /\ hs \subseteq py[p].handlers \cup {0} /\ hs \ {0} = py[p].handlers \ {0}
  BY <1>1 DEF PyLogger
<1> HIDE DEF hs
<1>5. py' \in [PyLoggers -> PyLogger]
  BY <1>1, <1>3, <1>4 DEF PyLogger
<1>6. \A q \in PyLoggers : /\ py'[q].level = py[q].level
                           /\ py'[q].handlers = (IF q = p THEN hs ELSE py[q].handlers)
  BY <1>1, <1>3 DEF PyLogger
<1>7. environ' \in Environment /\ libc' \in Environment /\ ngenDone' \in BOOLEAN
  BY <1>3 DEF Inv, TypeOK
<1> QED BY <1>3, <1>4, <1>5, <1>6, <1>7, HandlersKept

(* The application switches propagation on or off.                             *)
LEMMA SetPropagateKeeps ==
  ASSUME NEW p \in Tinkered, NEW b \in BOOLEAN PROVE Inv /\ SetPropagate(p, b) => Inv'
<1> SUFFICES ASSUME Inv, SetPropagate(p, b) PROVE Inv'
  OBVIOUS
<1>1. p \in PyLoggers /\ py \in [PyLoggers -> PyLogger]
  BY ConstantsAssumption DEF Inv, TypeOK
<1>2. py' = [py EXCEPT ![p].propagate = b] /\ last' = Quiet
      /\ UNCHANGED <<bridgeLib, missing, environ, libc, ngenDone, override, cache, loggers, asked,
                     retired, tampered>>
  BY DEF SetPropagate, world, envs, history
<1>3. /\ py' \in [PyLoggers -> PyLogger]
      /\ \A q \in PyLoggers : py'[q].level = py[q].level /\ py'[q].handlers = py[q].handlers
  BY <1>1, <1>2 DEF PyLogger
<1>4. environ' \in Environment /\ libc' \in Environment /\ ngenDone' \in BOOLEAN
  BY <1>2 DEF Inv, TypeOK
<1> QED BY <1>2, <1>3, <1>4, HandlersKept

(* The environment changes under the program.                                  *)
LEMMA SurroundingsKeep == Inv /\ Surroundings => Inv'
<1> SUFFICES ASSUME Inv, Surroundings PROVE Inv'
  OBVIOUS
<1>0. environ \in Environment /\ libc \in Environment /\ py \in [PyLoggers -> PyLogger]
  BY DEF Inv, TypeOK
<1>1. ASSUME NEW e \in ProgramExports, ProgramExport(e[1], e[2]) PROVE Inv'
  <2>1. e[1] \in EnvVars /\ e[2] \in Value
    BY ConstantsAssumption DEF Value
  <2>2. /\ environ' = [environ EXCEPT ![e[1]] = e[2]] /\ libc' = [libc EXCEPT ![e[1]] = e[2]]
        /\ last' = Quiet
        /\ UNCHANGED <<bridgeLib, missing, ngenDone, override, cache, loggers, py, asked, retired, tampered>>
    BY <1>1 DEF ProgramExport, world, state, history
  <2>3. environ' \in Environment /\ libc' \in Environment /\ ngenDone' \in BOOLEAN
    BY <1>0, <2>1, <2>2 DEF Environment, Inv, TypeOK
  <2> QED BY <1>0, <2>2, <2>3, HandlersKept
<1>2. ASSUME NEW e \in NgenExports, NgenInitialises(e) PROVE Inv'
  <2>1. \A v \in NgenVars : e[v] \in Value
    BY ConstantsAssumption
  <2>2. /\ libc' = [v \in EnvVars |-> IF v \in NgenVars THEN e[v] ELSE libc[v]]
        /\ ngenDone' = TRUE /\ last' = Quiet
        /\ UNCHANGED <<bridgeLib, missing, environ, override, cache, loggers, py, asked, retired, tampered>>
    BY <1>2 DEF NgenInitialises, world, state, history
  <2>3. environ' \in Environment /\ libc' \in Environment /\ ngenDone' \in BOOLEAN
    BY <1>0, <2>1, <2>2 DEF Environment
  <2> QED BY <1>0, <2>2, <2>3, HandlersKept
<1> QED BY <1>1, <1>2 DEF Surroundings

(* An EwtsLogger writes a record at most once, and signs it.                    *)
LEMMA WriteByType ==
  ASSUME TypeOK, NEW h \in 1..Len(loggers), NEW level
  PROVE  /\ WriteBy(h, level) \subseteq Write
         /\ \A v, w \in WriteBy(h, level) : v = w
<1>1. loggers[h] \in EwtsLogger /\ h \in Nat
  BY DEF TypeOK
<1> DEFINE to == loggers[h].dest
           w == [by |-> h, to |-> to, payload |-> to \in LogDirs /\ level = STATUS]
<1>2. to \in Destination
  BY <1>1 DEF EwtsLogger
<1>3. w \in Write
  BY <1>1, <1>2 DEF Write
<1>4. WriteBy(h, level) \subseteq {w}
  BY DEF WriteBy
<1> QED BY <1>3, <1>4

(* A logger of the standard library reaches one EwtsLogger at most.            *)
LEMMA HandleType ==
  ASSUME TypeOK, OneHandler, NEW p \in PyLoggers, NEW level
  PROVE  /\ Handle(p, level) \subseteq Write
         /\ \A v, w \in Handle(p, level) : v.by # 0 /\ w.by # 0 => v = w
<1> DEFINE hs == py[p].handlers \ {0}
           mine == UNION {WriteBy(h, MapLevel(level)) : h \in hs}
           app == [by |-> 0, to |-> "application", payload |-> FALSE]
           root == [by |-> 0, to |-> "root", payload |-> FALSE]
<1>1. \A h \in hs : h \in 1..Len(loggers)
  BY DEF TypeOK
<1>2. app \in Write /\ root \in Write /\ app.by = 0 /\ root.by = 0
  BY DEF Write
<1>3. \A h \in hs : /\ WriteBy(h, MapLevel(level)) \subseteq Write
                    /\ \A v, w \in WriteBy(h, MapLevel(level)) : v = w
  BY <1>1, WriteByType
<1>4. \A h, k \in hs : h = k
  BY DEF OneHandler
<1>5. mine \subseteq Write
  BY <1>3
<1>6. \A v, w \in mine : v = w
  BY <1>3, <1>4
<1>7. Handle(p, level) \subseteq mine \cup {app, root}
  BY DEF Handle
<1> HIDE DEF mine, app, root
<1> QED BY <1>2, <1>5, <1>6, <1>7

(* Logging changes nothing but the record.                                     *)
LEMMA LoggedKeeps ==
  ASSUME Inv, NEW via \in {"none", "method", "log", "app"}, NEW h \in Nat, NEW level \in Nat,
         NEW writes \in SUBSET Write, Logged(via, h, level, writes),
         \A v, w \in writes : v.by # 0 /\ w.by # 0 => v = w
  PROVE  Inv'
<1>1. /\ last' = [via |-> via, by |-> h, level |-> level, writes |-> writes]
      /\ UNCHANGED <<bridgeLib, missing, environ, libc, ngenDone, override, cache, loggers, py,
                     asked, retired, tampered>>
  BY DEF Logged, world, envs, state, history
<1>2. last' \in Record /\ last'.writes = writes
  BY <1>1 DEF Record
<1>3. TypeOK'
  BY <1>1, <1>2 DEF Inv, TypeOK
<1>4. OneHandler' /\ ServedByCurrent' /\ LevelsAligned'
  BY <1>1 DEF Inv, OneHandler, ServedByCurrent, LevelsAligned
<1>5. WrittenOnce'
  BY <1>2 DEF WrittenOnce
<1> QED BY <1>3, <1>4, <1>5 DEF Inv

(* A message keeps the invariant, by whichever logger it comes.                *)
LEMMA EmitKeeps == Inv /\ Emit => Inv'
<1> SUFFICES ASSUME Inv, NEW l \in LogLevels,
                    AppLog(l) \/ \E h \in Handles : LogMethod(h, l) \/ LogDirect(h, l)
             PROVE  Inv'
  BY DEF Emit
<1>1. l \in Nat /\ TypeOK /\ OneHandler /\ "ewts" \in PyLoggers /\ "app" \in PyLoggers
  BY ConstantsAssumption DEF Inv, PyLoggers
<1>2. \A h \in Handles : h \in 1..Len(loggers) /\ h \in Nat
  BY <1>1 DEF Handles, TypeOK
<1>3. CASE AppLog(l)
  BY <1>1, <1>3, HandleType, LoggedKeeps DEF AppLog
<1>4. ASSUME NEW h \in Handles, LogMethod(h, l) PROVE Inv'
  BY <1>1, <1>2, <1>4, HandleType, LoggedKeeps DEF LogMethod
<1>5. ASSUME NEW h \in Handles, LogDirect(h, l) PROVE Inv'
  <2>1. WriteBy(h, l) \in SUBSET Write /\ \A v, w \in WriteBy(h, l) : v = w
    BY <1>1, <1>2, WriteByType
  <2> QED BY <1>1, <1>2, <1>5, <2>1, LoggedKeeps DEF LogDirect
<1> QED BY <1>3, <1>4, <1>5

(* The process starts with nothing wired.                                      *)
LEMMA InitInv == Init => Inv
<1> SUFFICES ASSUME Init PROVE Inv
  OBVIOUS
<1>1. /\ environ \in Environment /\ bridgeLib \in BOOLEAN /\ missing \subseteq LogDirs
  <2> PICK w \in Worlds : environ = w.environ /\ bridgeLib = w.bridgeLib /\ missing = w.missing
    BY DEF Init
  <2>1. w \in World
    BY ConstantsAssumption
  <2> QED BY <2>1 DEF World
<1>2. /\ libc = environ /\ ngenDone = FALSE /\ override = {} /\ cache = 0 /\ loggers = <<>>
      /\ py = ResetBoth /\ last = Quiet /\ asked = {} /\ retired = 0 /\ tampered = {}
  BY DEF Init, ResetBoth
<1>3. {} \in Opt(Override) /\ loggers \in Seq(EwtsLogger) /\ Len(loggers) = 0 /\ MaxLoggers \in Nat
  BY <1>2, ConstantsAssumption DEF Opt
<1>4. TypeOK
  <2>1. /\ environ \in Environment /\ libc \in Environment /\ ngenDone \in BOOLEAN
        /\ bridgeLib \in BOOLEAN /\ missing \subseteq LogDirs
    BY <1>1, <1>2
  <2>2. override \in Opt(Override) /\ asked \in Opt(Override)
    BY <1>2, <1>3
  <2>3. /\ loggers \in Seq(EwtsLogger) /\ Len(loggers) <= MaxLoggers
        /\ cache \in 0..Len(loggers) /\ retired \in 0..Len(loggers)
    BY <1>2, <1>3
  <2>4. /\ py \in [PyLoggers -> PyLogger]
        /\ \A p \in PyLoggers : py[p].handlers \subseteq 0..Len(loggers)
    BY <1>2, ResetTypes
  <2>5. last \in Record /\ tampered \subseteq PyLoggers
    BY <1>2, QuietType
  <2> QED BY <2>1, <2>2, <2>3, <2>4, <2>5 DEF TypeOK
<1>5. OneHandler /\ ServedByCurrent /\ LevelsAligned
  BY <1>2, <1>3, ResetTypes DEF OneHandler, ServedByCurrent, LevelsAligned
<1>6. WrittenOnce
  BY <1>2, QuietType DEF WrittenOnce
<1> QED BY <1>4, <1>5, <1>6 DEF Inv

(* Every step keeps the invariant.                                             *)
LEMMA StepInv == Inv /\ [Next]_vars => Inv'
<1> SUFFICES ASSUME Inv, [Next]_vars PROVE Inv'
  OBVIOUS
<1>1. CASE Manage
  BY <1>1, GetLoggerKeeps, ResetLoggerKeeps, ConfigureExistingLoggerKeeps,
     ClearRuntimeOverrideKeeps, SetupLoggerKeeps DEF Manage
<1>2. CASE Adjust
  BY <1>2, SetLevelFromEnvKeeps, SetLevelKeeps, AppSetLevelKeeps, SetAppHandlerKeeps,
     SetPropagateKeeps DEF Adjust
<1>3. CASE Surroundings
  BY <1>3, SurroundingsKeep
<1>4. CASE Emit
  BY <1>4, EmitKeeps
<1>5. CASE UNCHANGED vars
  BY <1>5 DEF vars, world, envs, state, history, Inv, TypeOK, OneHandler, ServedByCurrent,
     LevelsAligned, WrittenOnce
<1> QED BY <1>1, <1>2, <1>3, <1>4, <1>5 DEF Next

(* The invariant holds throughout.                                             *)
LEMMA Invariance == Spec => []Inv
BY InitInv, StepInv, PTL DEF Spec

(* Types: handlers and the cache name EwtsLoggers that exist, and thresholds are   *)
(* numbers, whatever the environment says and in whatever order calls come.     *)
THEOREM TypeCorrect == Spec => []TypeOK
<1>1. Inv => TypeOK
  BY DEF Inv
<1> QED BY <1>1, Invariance, PTL

(* However often loggers are built, set up, reset and adopted, no record is       *)
(* written by two EwtsLoggers (EwtsLogger.__init__, _reset_python_logger).       *)
THEOREM RecordsWrittenOnce == Spec => []WrittenOnce
<1>1. Inv => WrittenOnce
  BY DEF Inv
<1> QED BY <1>1, Invariance, PTL

(* After reset_logger or setup_logger nothing reaches an EwtsLogger built before,  *)
(* and the one built last serves "ewts.<ID>".                                   *)
THEOREM CurrentServes == Spec => []ServedByCurrent
<1>1. Inv => ServedByCurrent
  BY DEF Inv
<1> QED BY <1>1, Invariance, PTL

(* The threshold of an EwtsLogger and the level of a logger it serves agree        *)
(* unless the application set the latter behind its back (setLevel, __init__,    *)
(* configure_existing_logger).                                                *)
THEOREM LevelsStayAligned == Spec => []LevelsAligned
<1>1. Inv => LevelsAligned
  BY DEF Inv
<1> QED BY <1>1, Invariance, PTL
-----------------------------------------------------------------------------
(* What is written                                                          *)

(* Logging changes nothing but the last record, and nothing else sets it.       *)
LEMMA LastRecord ==
  ASSUME Inv, [Next]_vars
  PROVE  \/ last' = Quiet
         \/ last' = last /\ UNCHANGED <<missing, loggers, py, tampered>>
         \/ /\ UNCHANGED <<missing, loggers, py, tampered>>
            /\ \E l \in LogLevels, h \in Nat :
                 \/ last' = [via |-> "app", by |-> 0, level |-> l, writes |-> Handle("app", l)]
                 \/ last' = [via |-> "method", by |-> h, level |-> l, writes |-> Handle("ewts", l)]
                 \/ last' = [via |-> "log", by |-> h, level |-> l, writes |-> WriteBy(h, l)]
<1>1. CASE Manage
  BY <1>1 DEF Manage, GetLogger, ResetLogger, ConfigureExistingLogger, ClearRuntimeOverride,
     SetupLogger, Build
<1>2. CASE Adjust
  BY <1>2 DEF Adjust, SetLevelFromEnv, SetLevel, SetBoth, AppSetLevel, SetAppHandler, SetPropagate
<1>3. CASE Surroundings
  BY <1>3 DEF Surroundings, ProgramExport, NgenInitialises
<1>4. CASE Emit
  <2>1. \A h \in Handles : h \in Nat
    BY DEF Inv, TypeOK, Handles
  <2> QED BY <1>4, <2>1 DEF Emit, AppLog, LogMethod, LogDirect, Logged, world, state, history
<1>5. CASE UNCHANGED vars
  BY <1>5 DEF vars, world, state, history
<1> QED BY <1>1, <1>2, <1>3, <1>4, <1>5 DEF Next

(* A canonical level is itself on the scale of EWTS.                            *)
LEMMA CanonicalMapped == \A l \in CanonicalLevels \ {NOTSET} : MapLevel(l) = l
BY DEF MapLevel, CanonicalLevels, NOTSET, DEBUG, PERFORM, INFO, WARNING, SEVERE, FATAL, STATUS

(* What the EwtsLogger that serves a logger makes of a record                   *)
LEMMA HandleDecides ==
  ASSUME Inv, NEW p \in PyLoggers \ tampered, NEW h \in py[p].handlers \ {0},
         NEW level \in CanonicalLevels \ {NOTSET},
         loggers[h].min # NOTSET, loggers[h].dest \notin missing
  PROVE  {w \in Handle(p, level) : w.by # 0}
         = IF level < loggers[h].min THEN {}
           ELSE {[by |-> h, to |-> loggers[h].dest,
                  payload |-> loggers[h].dest \in LogDirs /\ level = STATUS]}
<1> DEFINE w == [by |-> h, to |-> loggers[h].dest,
                 payload |-> loggers[h].dest \in LogDirs /\ level = STATUS]
           app == [by |-> 0, to |-> "application", payload |-> FALSE]
           root == [by |-> 0, to |-> "root", payload |-> FALSE]
<1>1. py[p].handlers \ {0} = {h}
  BY DEF Inv, OneHandler
<1>2. EffectiveLevel(p) = loggers[h].min
  BY DEF EffectiveLevel, Inv, LevelsAligned
<1>3. h # 0 /\ loggers[h].min \in Nat /\ level \in Nat
  <2>1. h # 0 /\ h \in 1..Len(loggers)
    BY DEF Inv, TypeOK
  <2>2. loggers[h] \in EwtsLogger
    BY <2>1 DEF Inv, TypeOK
  <2> QED BY <2>1, <2>2, LevelTypes DEF EwtsLogger
<1>4. MapLevel(level) = level
  BY CanonicalMapped
<1>5. CASE level < loggers[h].min
  BY <1>2, <1>5 DEF Handle
<1>6. CASE ~(level < loggers[h].min)
  <2>1. WriteBy(h, level) = {w}
    BY <1>6 DEF WriteBy
  <2>2. UNION {WriteBy(k, MapLevel(level)) : k \in py[p].handlers \ {0}} = {w}
    BY <1>1, <1>4, <2>1
  <2>3. w.by = h /\ app.by = 0 /\ root.by = 0
    OBVIOUS
  <2>4. Handle(p, level) \subseteq {w, app, root} /\ w \in Handle(p, level)
    BY <1>2, <1>6, <2>2 DEF Handle
  <2> HIDE DEF w, app, root
  <2>5. {v \in Handle(p, level) : v.by # 0} = {w}
    BY <1>3, <2>3, <2>4
  <2> QED BY <1>6, <2>5 DEF w
<1> QED BY <1>5, <1>6

(* A record logged with a method of a handle, or with an adopted logger, is       *)
(* written exactly when it reaches the threshold of the EwtsLogger that serves it, *)
(* though two filters and two scales of levels see it (EwtsHandler.emit, _write). *)
THEOREM ThresholdAlwaysDecides == Spec => []ThresholdDecides
<1>1. Init => ThresholdDecides
  BY DEF Init, ThresholdDecides, Quiet
<1>2. Inv /\ ThresholdDecides /\ [Next]_vars => ThresholdDecides'
  <2> SUFFICES ASSUME Inv, ThresholdDecides, [Next]_vars,
                      NEW p \in PyLoggers \ tampered', NEW h \in py'[p].handlers \ {0},
                      last'.via = (IF p = "ewts" THEN "method" ELSE "app"),
                      last'.level \in CanonicalLevels \ {NOTSET},
                      loggers'[h].min # NOTSET, loggers'[h].dest \notin missing'
               PROVE  {w \in last'.writes : w.by # 0}
                      = IF last'.level < loggers'[h].min THEN {}
                        ELSE {[by |-> h, to |-> loggers'[h].dest,
                               payload |-> loggers'[h].dest \in LogDirs /\ last'.level = STATUS]}
    BY DEF ThresholdDecides
  <2>1. last' # Quiet
    BY DEF Quiet
  <2>2. CASE last' = last /\ UNCHANGED <<missing, loggers, py, tampered>>
    BY <2>2 DEF ThresholdDecides
  <2>3. ASSUME UNCHANGED <<missing, loggers, py, tampered>>, NEW l \in LogLevels, NEW k \in Nat,
               \/ last' = [via |-> "app", by |-> 0, level |-> l, writes |-> Handle("app", l)]
               \/ last' = [via |-> "method", by |-> k, level |-> l, writes |-> Handle("ewts", l)]
               \/ last' = [via |-> "log", by |-> k, level |-> l, writes |-> WriteBy(k, l)]
        PROVE  last'.level = l /\ last'.writes = Handle(p, l)
    BY <2>3 DEF PyLoggers
  <2>4. ASSUME UNCHANGED <<missing, loggers, py, tampered>>, NEW l \in LogLevels,
               last'.level = l, last'.writes = Handle(p, l)
        PROVE  {w \in last'.writes : w.by # 0}
               = IF last'.level < loggers'[h].min THEN {}
                 ELSE {[by |-> h, to |-> loggers'[h].dest,
                        payload |-> loggers'[h].dest \in LogDirs /\ last'.level = STATUS]}
    BY <2>4, HandleDecides
  <2> QED BY <2>1, <2>2, <2>3, <2>4, LastRecord
<1> QED BY <1>1, <1>2, Invariance, PTL DEF Spec
-----------------------------------------------------------------------------
(* Overrides                                                                *)

(* The override in force is the one that the last setup asked for.              *)
OverrideAsked == asked = override

(* load_config, and what __init__ makes of it, obey the override.               *)
LEMMA OverrideObeyed ==
  ASSUME NEW a \in Override, NEW returned
  PROVE  Obeys(InitLogger(a, returned), a)
<1> DEFINE cfg == LoadConfig(a)
           lg  == InitLogger(a, returned)
<1>1. /\ cfg.ngen = Or(a.ngen, IsNgenActive) /\ cfg.enabled = Or(a.enabled, EnvEnabled)
      /\ cfg.dir = IF a.dir # {} THEN a.dir ELSE LogDir
      /\ cfg.level = Or(a.level, LevelForEwtsId)
  BY DEF LoadConfig
<1>2. /\ a.level # {} => cfg.level \in a.level
      /\ a.enabled # {} => (cfg.enabled <=> The(a.enabled))
      /\ a.ngen = {FALSE} => cfg.ngen = FALSE
      /\ cfg.dir \in Opt(LogDirs) /\ (a.dir # {} => cfg.dir = a.dir)
  <2>1. LogDir \in Opt(LogDirs)
    BY DEF LogDir, Opt
  <2>2. a.level # {} => The(a.level) \in a.level
    BY OptionalValue DEF Override
  <2>3. The({FALSE}) = FALSE
    BY DEF The
  <2> QED BY <1>1, <2>1, <2>2, <2>3 DEF Or, Override
<1>3. Or(cfg.dir, "stdout") \in cfg.dir \cup {"stdout"} /\ (cfg.dir # {} => Or(cfg.dir, "stdout") \in cfg.dir)
  BY <1>2, OptionalValue DEF Or
<1>4. Or(cfg.dir, "stdout") # "ngen"
  <2>1. cfg.dir \subseteq LogDirs
    BY <1>2 DEF Opt
  <2> QED BY <1>3, <2>1, ConstantsAssumption
<1>5. /\ lg.min = IF cfg.enabled THEN cfg.level ELSE Disabled
      /\ lg.dest = IF ~cfg.enabled THEN "stdout"
                   ELSE IF cfg.ngen /\ bridgeLib THEN "ngen" ELSE Or(cfg.dir, "stdout")
  BY DEF InitLogger
<1> HIDE DEF cfg, lg
<1>6. /\ a.enabled # {} /\ Or(a.level, LevelForEwtsId) # Disabled
           => (The(a.enabled) <=> lg.min # Disabled)
      /\ a.level # {} => lg.min \in a.level \cup {Disabled}
  BY <1>1, <1>2, <1>5
<1>7. a.ngen = {FALSE} => lg.dest # "ngen"
  BY <1>2, <1>4, <1>5
<1>8. a.dir # {} /\ lg.min # Disabled => lg.dest \in a.dir \cup {"ngen"}
  BY <1>2, <1>3, <1>5
<1> QED BY <1>6, <1>7, <1>8 DEF Obeys, lg

(* Setting up and clearing are all that changes either.                        *)
LEMMA OverrideKept == OverrideAsked /\ [Next]_vars => OverrideAsked'
BY DEF OverrideAsked, Next, Manage, GetLogger, ResetLogger, ConfigureExistingLogger, ClearRuntimeOverride,
   SetupLogger, Adjust, SetLevelFromEnv, SetLevel, AppSetLevel, SetAppHandler, SetPropagate,
   Surroundings, ProgramExport, NgenInitialises, Emit, AppLog, LogMethod, LogDirect, Logged,
   vars, state, history

(* Only three calls build an EwtsLogger, with the override then in force.        *)
LEMMA BuiltWith ==
  ASSUME Inv, OverrideAsked, [Next]_vars, NEW a \in asked', Len(loggers') > Len(loggers)
  PROVE  a \in Override /\ \E returned \in BOOLEAN : loggers'[Len(loggers')] = InitLogger(a, returned)
<1>1. a \in Override
  BY StepInv DEF Inv, TypeOK, Opt
<1>2. asked' = {a} /\ Or({a}, NoOverride) = a
  <2>1. asked' \in Opt(Override)
    BY StepInv DEF Inv, TypeOK
  <2> QED BY <2>1 DEF Opt, Or, The
<1>3. TypeOK /\ py \in [PyLoggers -> PyLogger] /\ Len(loggers) \in Nat
  BY DEF Inv, TypeOK
<1>4. ASSUME NEW o \in Override, NEW pys \in [PyLoggers -> PyLogger], NEW returned \in BOOLEAN,
             Build(o, pys, returned)
      PROVE  loggers'[Len(loggers')] = InitLogger(o, returned)
  BY <1>3, <1>4, Built
<1>5. CASE GetLogger
  BY <1>1, <1>2, <1>3, <1>4, <1>5 DEF GetLogger, OverrideAsked
<1>6. ASSUME NEW s \in Setups, SetupLogger(s)
      PROVE  \E returned \in BOOLEAN : loggers'[Len(loggers')] = InitLogger(a, returned)
  <2>1. OverrideOf(s) = a
    BY <1>2, <1>6 DEF SetupLogger
  <2> QED BY <1>1, <1>4, <1>6, <2>1, ResetTypes DEF SetupLogger
<1>7. CASE ConfigureExistingLogger
  <2>1. Or(override, NoOverride) = a
    BY <1>2, <1>7 DEF ConfigureExistingLogger, OverrideAsked
  <2> DEFINE lg  == InitLogger(a, FALSE)
             min == lg.min
             pys == [py EXCEPT !["app"] = [handlers |-> {New}, level |-> min, propagate |-> FALSE]]
  <2>2. Build(a, pys, FALSE)
    BY <1>7, <2>1 DEF ConfigureExistingLogger
  <2>3. min \in Nat /\ New \in Nat
    <3>1. environ \in Environment /\ libc \in Environment
      BY <1>3 DEF TypeOK
    <3>2. lg \in EwtsLogger
      BY <1>1, <3>1, InitLoggerType
    <3> HIDE DEF lg
    <3> QED BY <1>3, <3>2 DEF EwtsLogger, New
  <2> HIDE DEF min
  <2>4. pys \in [PyLoggers -> PyLogger]
    BY <1>3, <2>3 DEF PyLogger
  <2> QED BY <1>1, <1>4, <2>2, <2>4
<1>8. CASE ~(GetLogger \/ ConfigureExistingLogger \/ \E s \in Setups : SetupLogger(s))
  <2>1. loggers' = loggers \/ \E h \in Nat, l \in Nat : loggers' = [loggers EXCEPT ![h].min = l]
    <3>1. \A h \in Handles : h \in Nat
      BY <1>3 DEF Handles
    <3>2. LevelForEwtsId \in Nat /\ SetLevels \subseteq Nat
      BY <1>3, ConstantsAssumption, EnvironmentTypes DEF TypeOK
    <3> QED BY <1>8, <3>1, <3>2 DEF Next, Manage, ResetLogger, ClearRuntimeOverride, Adjust,
         SetLevelFromEnv, SetLevel, SetBoth, AppSetLevel, SetAppHandler, SetPropagate,
         Surroundings, ProgramExport, NgenInitialises, Emit, AppLog, LogMethod, LogDirect,
         Logged, vars, state
  <2>2. \A h \in Nat, l \in Nat : Len([loggers EXCEPT ![h].min = l]) = Len(loggers)
    BY <1>3 DEF TypeOK
  <2> QED BY <1>3, <2>1, <2>2
<1> QED BY <1>1, <1>5, <1>6, <1>7, <1>8

(* What setup_logger was told holds for every EwtsLogger built until the next     *)
(* setup, by whatever call and in whatever environment (load_config, get_logger,  *)
(* configure_existing_logger).                                                *)
THEOREM OverridesAlwaysPrevail == Spec => OverridesPrevail
<1>1. Init => OverrideAsked
  BY DEF Init, OverrideAsked
<1>2. Inv /\ OverrideAsked /\ [Next]_vars =>
        [\A a \in asked' :
           Len(loggers') > Len(loggers) => Obeys(loggers'[Len(loggers')], a)]_vars
  BY BuiltWith, OverrideObeyed
<1> QED BY <1>1, <1>2, OverrideKept, Invariance, PTL DEF Spec, OverridesPrevail
=============================================================================
