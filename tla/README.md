# Verification of the EWTS logging system

EWTS gives the modules of the ngen hydrological framework, written in C, C++, Fortran and
Python, one way to log. This directory holds TLA+ models of it, the TLC configurations that
check them and TLAPS proofs about them. All paths below are relative to the repository's root
(`src/`); `logger.cpp` alone means `integrations/ngen/src/ewts_ngen/logger.cpp`.

## The system

| component | code | state | operations |
| --- | --- | --- | --- |
| ngen logger | `integrations/ngen/src/ewts_ngen/logger.cpp`, `logger.hpp` | one singleton: settings, level per module key, unified stream, payload stream, a map of split streams; a once flag and two mutexes; the process environment | `Log` (five overloads), `LogPayload` (two), `InitIfNeeded` |
| ngen C bridge | `ewts_ngen_bridge.cpp` | none | `ewts_ngen_log`, `ewts_ngen_payload_status`, called by the runtimes |
| module registry | `ngen_module_keys.hpp` and a table per language | constant | key to EWTS id; several keys may share an id |
| C runtime | `runtime/c/src/ewts/logger.c` | a table of logger states filled on demand under a mutex; standalone file | `EwtsInit`, `EwtsLogModule`, `EwtsPayloadStatus` |
| C++ runtime | `runtime/cpp/src/ewts/logger.cpp` | loggers by id, each with a once flag, file and mutex; a current logger; the cached address of the bridge | `EwtsInit`, `GetLogger`, `Log`, `PayloadStatus` |
| Fortran runtime | `runtime/fortran/src/ewts/logger.f90` | a growing array of loggers, each with a unit | `write_log_module`, `payload_status`, UTC date arithmetic |
| Python runtime | `runtime/python/ewts/src/ewts/` | loggers by id on top of `logging`, overrides, handlers, two copies of the environment | `get_logger`, `setup_logger`, `configure_existing_logger`, `setLevel`, `log` |
| payload parser | `runtime/python/ewts/src/ewts/data_payloads.py` | none | validation of payloads, parsing of the lines ngen wrote |
| generator | `tools/generate_language_constants.py`, `spec/` | none | validates the registry, writes the tables of every language |

**How they interact.** A module calls the runtime of its language. Inside ngen
(`NGEN_RESULTS_DIR`, or the exported bridge variable, depending on the runtime) the runtime
hands the message to the C bridge and so to the singleton, which alone decides on level and
destination; outside it, the runtime filters with `<ID>_LOGLEVEL` and writes a file of its own or
standard output. The ngen logger tells the runtimes its settings through environment variables,
which it exports during its initialisation: a runtime that initialises earlier reads older values.
Ordinary messages and STATUS payloads are two streams that never share a file.

**What is hard.** The singleton is called by any thread at any time. Its four destinations are
protected in four different ways (one mutex, no lock, one insertion per line, a lock for the write
but not for the open). Initialisation happens inside the first call, in whatever thread makes it.
Streams may fail and stay failed. The configuration is keyed by module key, calls by EWTS id.

**What correctness means**, per component:

- ngen logger: the configuration decides what is filtered, for every way in; settings are published
  once; a message is written once, whole, in order, in the right place, or not at all; calls return;
- runtimes: the same, standalone or bridged; the level is the one ngen exported; one file per id;
- date arithmetic: the timestamp is the UTC time of the local one, for every date;
- Python: every record is emitted once however often loggers are set up;
- payloads: what the parser reads is what the writer was given;
- generator: a completed run leaves nothing of earlier ones behind; the tables of all languages give
  the same answers.

`PROJECT.json` lists the hazards of the code one by one, each with the properties that cover it.

## Modules

| module | what it is |
| --- | --- |
| `EwtsLevels` | the levels, `ParseLevel` and `ClampCanonicalLevel` |
| `NgenLogger` | the ngen logger and its bridge, with any number of threads |
| `MessageLog` | what EWTS promises a caller: a call appends all its lines to one log at one moment, or leaves nothing |
| `NgenMessageLog` | the refinement mapping from `NgenLogger` to `MessageLog` |
| `MCNgenLogger` | instances for TLC: registry excerpts, worlds, messages |
| `NgenLoggerProofs` | theorems about `NgenLogger` |
| `CRuntime` | the C runtime: loggers on demand, levels from the environment, bridge, standalone output |
| `CMessageLog` | the refinement mapping from `CRuntime` to `MessageLog` |
| `MCCRuntime` | instances for TLC |
| `CppRuntime`, `CppMessageLog`, `MCCppRuntime` | the C++ runtime, its refinement mapping to `MessageLog`, instances |
| `PythonRuntime`, `MCPythonRuntime` | the Python runtime for one EWTS id, on top of the standard library's loggers; instances |
| `Calendar` | the Fortran runtime's calendar, and the Gregorian one to compare it with |
| `Records`, `MCRecords` | the lines of log and payload files: what each runtime writes, what ngen makes of a payload, what the Python parser makes of a line; instances |
| `Generator`, `MCGenerator` | the generator of the language tables, its runs, and the lookups in the generated code; instances |
| `SortedLines` | a finite set of line numbers as a sequence: what the mappings and proofs use of it |
| `CRuntimeProofs`, `CMessageLogProofs`, `CppRuntimeProofs`, `PythonRuntimeProofs`, `CalendarProofs`, `RecordsProofs`, `GeneratorProofs` | theorems about the modules of these names |

### NgenLogger and the code

One action is what a thread does between two points where another thread's steps can matter.

| code | actions |
| --- | --- |
| entering `Log`, `LogPayload`, the bridge | `Call` |
| `std::call_once` in `InitIfNeeded` (244-327) | `InitIfNeeded` |
| `ConfigureEnvVars(false)` | `ClearEnvVars` |
| `ReadConfigFromResultsDir` and the defaults (300-320) | `LoadSettings` |
| `ConfigureEnvVars(true)` | `ExportEnvVars` |
| `SetupLogFile` (495-567) | `SetupLogFile` |
| enabled, STATUS and level tests (668-699), with the tests the varargs overloads make first (583-608, 638-639) | `Discard`, `DivertStatus`, `Accept` |
| split mode (710-759) | `LockSplit`, `WriteSplitLine`, `UnlockSplit` |
| unified file (761-769) | `InsertUnified`, `ReturnPlain` |
| standard output (770-783) | `PrintLine`, `ReturnPlain` |
| `OpenPayloadFileIfNeeded` (898-943) | `CheckPayloadFile`, `BeginOpenPayload`, `EndOpenPayload`, `ConfirmPayloadFile` |
| record under `payloadLogMutex` (1073-1079) | `WritePayload` |

The state is that of the class (`logger`, `logFile`, `payloadFile`), of its function-local statics
(`once`, `splitFiles`, `splitOwner`), of the process (`env`, and `world`, what it found when it
started) and of each thread (`pc`, `call`, `todo`, `part`). `out` is what each destination holds and
`returned` a history of the calls that returned and how.

Abstractions, each chosen so that the properties can still tell the difference:

- A message is its id, its level, the set of its non-blank line numbers, how it came in and whether
  its payload can be parsed. The text is left out.
- A stream is closed, good, bad (open with an error flag) or failed (did not open), after the rules
  of `std::basic_ofstream`: opening an open stream only sets failbit, opening a closed one truncates
  and clears the flags, a failed write sets badbit, and nothing in the code clears it.
- `fs` is the file system as a whole; while it is bad every open and write fails. It may change
  between any two steps. A failed write leaves nothing in the file.
- A data race is a choice over its outcomes. Two threads inserting into the unified stream may
  alternate and may overwrite each other. Two threads opening the payload file may both truncate it,
  or one may find it open. Results beyond these (a crash) are not modelled.
- `splitLogMutex` is held from the first line of a message to the last. Opening the file and, when
  that fails, falling back happens in one step under the mutex. `payloadLogMutex` covers a single
  insertion, so that it needs no variable.
- Each thread makes at most `MaxCalls` calls. `Finished` is the only stuttering at the end.

### CRuntime and the code

| code in `runtime/c/src/ewts/logger.c` | actions |
| --- | --- |
| the entry points (426-488) | `Call`, `ReturnLogger` |
| `get_logger_state` (333-371): found; not found; the new entry | `FindLogger`; `MissLogger`; `CreateLogger` |
| `init_logger_state` (282-331), still under `g_registry_mutex` | `ReadEnabled`, `ReadLevel` |
| filter and choice of destination in `v_log_with_state` (379-402) | `Discard`, `Accept` |
| the bridge (393-397), `EwtsPayloadStatus` (478-488) | `CallBridge`, `SendPayload` |
| `open_standalone_file` and the lines, under `g_write_mutex` (402-420) | `LockWrite`, `WriteLine`, `UnlockWrite` |
| the ngen logger's initialisation in the same process | `NgenInitialises`, and `Exports` at the first bridge call |

An id stands for its upper-cased form. What ngen exports is a constant of the world and appears in
one step (`NgenLogger` has the steps of that), at any moment, so that a logger that is just being
created may read one variable before and one after; a logger that read the first one later than
that is called `fresh`. `ewts_ngen_log` takes a message at one moment: what becomes of it is
`NgenLogger`'s business. The file may fail to open, an open file is written without errors, and
memory does not run out. What `init_logger_state` prints to standard output (303-330) is left out: it is no
message, and it is printed under `g_registry_mutex` alone, so that it may fall between two lines of
a message that another thread writes there. `CallsAreAtomic` is a claim about messages. `use_ngen` is read with
no lock, by the thread that logs, while another
thread's `EwtsInit` may set it: both outcomes are reached, since the steps are separate.

### CppRuntime and the code

| code in `runtime/cpp/src/ewts/logger.cpp` | actions |
| --- | --- |
| the entry points and `GetLogger`, `CurrentLogger` (310-368) | `Call`, `ReturnLogger` |
| `init_once` (187-244): nothing to do; up to the level; the level | `SkipInit`; `ReadEnabled`; `ReadLevel` |
| filter, `dlsym` and choice of destination in `Logger::Log` (256-270) | `Discard`, `Accept` |
| the bridge (263-267), `PayloadStatus` (350-368) | `CallBridge`, `SendPayload` |
| `open_standalone_file` and the insertions under `log_mtx_` (272-277) | `LockLog` or `Raise`, `WritePart`, `UnlockLog` |
| ngen in the same process | `NgenInitialises`, `LoadBridge` |

A message has two parts, its prefix and its text, because the insertions are separate. `found` caches
the two lookups of the process. Two Loggers may write standard output at once, each under a mutex of
its own, which is why `CppMessageLog` leaves it out. `have_ngen_bridge` keeps a lookup of its own, only
to print which way a Logger goes; it is left out.

### PythonRuntime and the code

Every call is one step: the model has the histories of calls, from any number of threads whose calls
do not overlap, and not what two threads do inside `get_logger`, which tests the cache and fills it
later without a lock (`logger.py:421`).

| code in `runtime/python/ewts/src/ewts/` | definitions |
| --- | --- |
| `config.py`, `helper.py`, `parse_log_level` | `Getenv`, `Synced`, `LevelForEwtsId`, `LoadConfig`, `ParseLogLevel`, ... |
| `EwtsLogger.__init__`, `_init` (135-251) | `InitLogger`, `Attach`, `Build` |
| `get_logger`, `setup_logger`, `reset_logger` (418-468) | `GetLogger`, `SetupLogger`, `ResetLogger` |
| `configure_existing_logger` (470-502), `clear_runtime_override` | `ConfigureExistingLogger`, `ClearRuntimeOverride` |
| `setLevel`, `set_level_from_env`, `addHandler`, `propagate` | `SetLevel`, `SetLevelFromEnv`, `SetAppHandler`, `SetPropagate` |
| `debug` ... `status` through the standard logger and `EwtsHandler.emit`; `log` | `LogMethod`, `AppLog`; `LogDirect` |
| `_write` (292-321), `_map_python_level_to_ewts` | `WriteBy`, `MapLevel` |
| ngen's `setenv`, `os.environ[...] = ...` | `NgenInitialises`, `ProgramExport` |

The loggers of the standard library, named `ewts.<ID>` and, when a program adopts its own, `<ID>`, are
`py`; they outlive every `EwtsLogger`. A handle that a program keeps stays usable after a reset, as in
the code: `Handles` are all the `EwtsLogger`s ever returned. Formatting, the rank (a suffix of the file
name) and what is printed at initialisation are left out.

### Records, Calendar and the code

A line is a sequence of words: a time, a name, a level, sentinels, JSON objects, plain words. A JSON
object is one word per end, between which a sentinel in its text appears, so that searching for
sentinels finds what it would find in the text.

| code | definitions |
| --- | --- |
| `Payload`, `payload_of_log_msg`, `parts_of_log_line` (`data_payloads.py`) | `ValidProg`, `Parses`, `PayloadOfLogMsg`, `PartsOfLogLine` |
| `EwtsLogger.status` and the standalone file | `LogPayload`, `LogMessage`, `StandaloneLine`, `Write` |
| `ExtractJsonPayload`, both `LogPayload` of `logger.cpp` | `Missing`, `Extracted`, `ReadFields`, `Record` |
| `EwtsPayloadStatus`, `PayloadStatus`, `payload_status` of the native runtimes | `NativeStatus` |
| `adjust_utc`, `inc_day`, `dec_day`, `days_in_month` (`logger.f90`) | `DayBack`, `DayOn`, `IncDay`, `DecDay`, `DaysInMonth` |
| `write_log_module` of the Fortran runtime | `StartLine`, `WriteLine` |
| a crash inside a write | `Crash`: Python appends to the same file after a restart, ngen truncates |

Progress is a number of ten-millionths, so that the six digits that `std::defaultfloat` keeps make a
difference.

### Generator and the code

`Start` and `Reject` are `main` up to the first file (1241-1288), with everything that
`_load_registry`, `_validate_registry`, `_load_log_levels` and `_load_payload_statuses` refuse;
`WriteFile` writes the next file of the plan, `Fail` is the exception that an empty list of Fortran
modules raises half-way, `Interrupt` a run that is killed or meets a full disk, perhaps after
`write_text` truncated the file, `Finish` the end. A table is a function from positions in the
specification to entries, since the lookups in the generated code take the first match and the Python
tables are built by insertion. The text around the tables and the descriptions are left out.

## Runs

Each group of runs has its MC module: `ngen_`, `c_`, `cpp_`, `py_`, `generator`, `record`. "fs fails"
says that the file system may fail in the run (`FsMayFail`).

| run | bounds | checks | outcome |
| --- | --- | --- | --- |
| `ngen_delivery` | 2 threads, 3 calls | `DeliveredOnce`, `InOrder`, `PayloadRecorded`, `CallsAreAtomic`: implements `MessageLog` (payloads from one thread) | holds |
| `ngen_policy` | 2 threads, 1 call | `DeliveredOnce`, `FollowsConfiguration`, `ExportedLevelsAgree`, `StreamsSeparate`, `SettingsFixed` under 34 worlds | holds |
| `ngen_liveness` | 3 threads, 1 call, fs fails | `TypeOK`, `SplitMessagesWhole`, `CallsReturn` | holds |
| `ngen_unified_interleaved` | 2 threads, 1 call | `UnifiedLinesWhole` | violated |
| `ngen_payload_race` | 2 threads, 1 call | `PayloadRecorded`, payloads from two threads | violated |
| `c_runtime` | 2 threads, 2 calls | `TypeOK`, `OneLoggerPerId`, `OneDestination`, `BridgeKept`, `AdoptsNgenLevels`, `CallsAreAtomic`, under 5 worlds | holds |
| `cpp_runtime` | 2 threads, 2 calls | `TypeOK`, `SettingsDecide`, `OwnLogger`, `OneWay`, `AdoptsNgenLevels`, `CallsAreAtomic`, under 5 worlds | holds |
| `py_runtime` | 2 loggers built | `TypeOK`, `WrittenOnce`, `ServedByCurrent`, `LevelsAligned`, `ThresholdDecides`, `OverridesPrevail` | holds |
| `py_stale_level` | 2 loggers built | `AdoptsNgenLevel` | violated |
| `generator` | 3 runs | `TypeOK`, `DoneMeansCurrent`, `TablesAgree`, `LevelNamesAgree` | holds |
| `records` | 2 lines, one cut off | `TypeOK`, `RoundTrip`, `FieldsArrive`, `Genuine`, `MalformedReported`, `TimesTrue` | holds |
| `record_unread` | 2 lines | `ReadBack` | violated |

**Why the bounds are enough.** Two threads are what every race in the ngen logger needs: one that
initialises, opens or writes and one that arrives meanwhile. The liveness run has a third, so that two
can wait for one, and so that a thread meets a stream that each of two others left good, bad or failed.
Three calls in `ngen_delivery` let a payload thread go through open, write and reuse. Two lines per message
separate "first", "middle of the message" and "last". The registry excerpt has the logger's own id,
one configured, one not configured, one that has two keys and one that is not registered. The worlds cover a configuration
file that is missing, malformed or usable, that lists some of the modules, every combination of
`ewts_enabled` with `logging_enabled` off, split or not, levels as words, unknown words and numbers
between and beyond the canonical ones, and inherited variables,
of an id that the file configures and of one that it leaves out. The file lists the first key of the
id that has two, or the other one, or both. One message begins with a blank line. `DeliveredOnce` is
checked in split mode and on standard output in `ngen_delivery`, with the unified file in `ngen_policy`,
where one thread may be its only user or two may write it at once: of what each inserts nothing is
written twice or elsewhere in either case, and nothing is lost in the first.

For the C and C++ runtimes, two threads race for a logger that neither has seen; the second call of a
thread meets one that exists, that its own `EwtsInit` or the other thread's may have joined to ngen.
The worlds have a general level that is unset or a number, a level of the module that is unset, a
known or an unknown word, no bridge library or one that is loaded later, logging switched off by ngen,
and no ngen at all with a directory for files; one module has a lower and one a higher level in ngen
than the runtime's default. `CallsAreAtomic` says nothing about the ngen logger's unified file and
standard output, nor about the C++ runtime's standard output: there it does not hold.

In Python, two `EwtsLogger`s are what it takes to have an old and a new one, or one that the program
got and one that serves an adopted logger; three add nothing that two do not show, since each
construction replaces the handlers of all earlier ones. For the generator, three runs are an old one, one that
breaks off, and one that must repair what both left; one specification has a level name that is too long
for Fortran and statuses that differ in case only. For records, two lines are what a crash can join, and
what a parser could mix; the sentinels occur in messages, in names of modules, and in both.

**Fairness.** `FairSpec` has weak fairness of each thread's `Work`, the steps inside a call: the
operating system runs every thread. Making another call is not fair, and neither is the file system,
which may fail for ever. Strong fairness is not assumed for the mutex; with a bounded number of
calls a waiting thread cannot be overtaken for ever, which bounds what the run shows: a fair mutex
is needed when calls are unbounded, and `std::mutex` does not promise one.

**The violated properties** state what a document or a comment says; `PROJECT.json` quotes it.

- The unified file has no lock, and a line takes several insertions.
- The payload file is opened with no lock: of two first payloads one may be lost.
- Python looks at its own copy of a variable first: a level that the process had when Python started
  hides the one that ngen exports later.
- A payload with a progress beyond 1, which the READMEs of the native runtimes allow, is recorded by
  ngen and refused by the parser.

`PayloadRecorded` is checked twice: it holds where the cause of the violation is absent (payloads from
one thread) and fails where it is present. `AdoptsNgenLevels` holds for levels other than NOTSET.

**Other disagreements**, found while modelling and not kept as runs:

- ngen logger: the level of an id is looked up under the first of its keys only, so that a level
  configured for `cfe-x` alone does not apply to `CFE`; the level variables are cleared by walking a map
  that is still empty, so that an inherited one survives for a module that the configuration omits; the
  report of a missing closing sentinel contains that sentinel and cannot be parsed (`logger.cpp:167`).
- Runtimes: an exported level 0, NOTSET, means "unset" to C and C++, and INFO applies. Neither reads
  `EWTS_USE_NGEN_BRIDGE`, although their READMEs say so: C code that logs through the macros alone is
  not forwarded without `EwtsInit(id, true)`. In C++, `EwtsInit(id, true)` after
  `GetLogger(id, false)` does not join ngen; a file that did not open is tried at every message, so
  that an id may be spread over standard output and a file; `create_directories` throws out of `Log`;
  the header declares a variadic `Log` that is not defined.
- Python: `setLevel` and `set_level_from_env` switch a disabled logger on again, and `log()` writes a
  STATUS of a disabled logger to standard output; the handle of a logger that was replaced still writes
  to its old destination; the threshold NOTSET gives way to the root logger's WARNING; messages for a
  directory that does not exist are lost.
- Payloads through ngen: `None` comes back as the text "null", an empty text as `None`, and
  `Status.NULL` cannot be read; control characters stay as they are in the JSON and break it; a closing
  sentinel in a message or in the name of a module breaks both paths; a line that is appended to one cut off is lost with it.
- Generator: keys such as `t-route` and `t route` yield one identifier; levels with equal values do not
  compile in C and Fortran; a registry without Fortran modules fails half-way; level names are not
  upper-cased although `parse_log_level` looks for upper case, and Fortran cuts them to 16 characters;
  statuses are upper-cased, so that two that differ in case become one, with the value of the later;
  no Python Status enum is generated.

## Proofs

`NgenLoggerProofs` proves, for all threads, registries, messages, configurations and bounds that
satisfy `ConstantsAssumption`:

- `TypeCorrect`: `Spec => []TypeOK`. The inductive invariant is `TypeInv`, which adds that a thread
  in a call has made at least one (`InCall`), without which the call number of a written piece could
  be 0. There is a lemma per action; `PutType` and `ReturnType` are shared.
- `SettingsNeverChange`: `Spec => SettingsFixed`. The invariant is `OnceInv`: whoever is inside the
  initialisation is there alone, and the flag is "running". So no step of the initialisation is
  possible once the flag is "done", and no other step writes the settings.
- `SplitFilesWhole`: `Spec => []SplitMessagesWhole`. The property is not inductive; `SplitInv` adds
  who holds the mutex (`SplitLock`) and, for a stream that still accepts lines, that its file either
  ends with the last line of a message (`AtBoundary`) or with a line of the message the holder is
  writing, with exactly the later lines left (`Midway`). A stream that failed needs no such clause,
  since nothing reopens it. `AppendWhole` is the fact about sequences behind it.
- `ClampKeepsFilter`: for every number `v`, a message of a canonical level other than STATUS passes
  a filter at `ClampCanonicalLevel(v)` exactly when it passes one at `v`.
- `StreamsSeparateAlways`: `Spec => []StreamsSeparate`. `RouteInv` says what each thread's place in the
  code already decided: who is past the level test is past the initialisation, who reports a payload
  carries a STATUS, who writes is on the way that `Plain` names, and a stream that is not closed has
  the settings that open it (`FilesRight`).
- `InOrderAlways`: `Spec => []InOrder`. What a destination holds of a thread is sorted by call and line
  (`NotAfter`); `OrderInv` adds that no line of the call under way comes after one that is left (`Reached`).
- `ExportedLevelsAgreeAlways`: `Spec => []ExportedLevelsAgree`. `PublishInv` follows settings and
  environment through the four steps of the initialisation; at the end they are related as `Exported` says.
- `FollowsConfigurationAlways`: `Spec => []FollowsConfiguration`. `FollowInv` says of every return that the
  configuration *file* decided it, and of every thread that writes that its message passes the filter. The step
  from the settings to the file goes through clamping and the lookup by id, with `ClampKeepsFilter`.
- `DeliveredOnceAlways`, if the file system does not fail (`~FsMayFail`). What a call inserts is complete in a
  split file, on standard output, and in the unified file while no other thread has used it (`OnlyUser`);
  two threads in the unified file may overwrite each other, and of the payload file `PayloadRecordedAlways`
  speaks. In all modes nothing is written twice or elsewhere. `DeliveryInv` says of a message in
  work that its destination holds of what is gone from `todo` (`Gone`) each insertion at most once, and all of
  them where that is promised (`Inserted`, `Halfway`), of a finished one what its path promises, and that
  every stream that the settings ask for works (`FilesWork`).
- `PayloadRecordedAlways`, if the file system does not fail and one thread reports payloads
  (`OneReporter`). `PayloadInv` says that while the payload stream is closed the file is empty, so that
  opening it, which truncates, destroys nothing. With two threads that is false, as `ngen_payload_race`
  shows.

The assumptions are those of `ConstantsAssumption` and `RegistryAssumption`, which TLC evaluates in every run
of their module: registry entries, messages and worlds have the right shape, the names of the destinations
are not EWTS ids, and ngen's own key is the first of its id, as in `ngen_module_keys.hpp`.

Two conditions in the properties came from the proofs, and the registry excerpt was extended until TLC
needed them too. An id with several keys (`CFE`) is looked up under the first while the export walks an
unordered map, so that the settings decide only where they configure no other key of the id
(`Unambiguous`). A level variable that was there before ngen started survives if the id is
configured nowhere (`LeftOver`).

`CRuntimeProofs` proves, for all threads, calls, worlds and bounds, `TypeCorrect`, `OneLoggerPerIdAlways`,
`OneDestinationAlways`, `BridgeKeptAlways` and `AdoptsNgenLevelsAlways`, each `Spec => []` the property of the
run. They share the invariant `Inv`: what each thread has found or created (`ThreadInv`), what each return
says of the logger it used (`ReturnInv`), and that ids are distinct and levels come from what ngen
exported (`LoggersInv`). Under `g_registry_mutex` the owner alone may append a logger or set its level; the
proof has that as a rely-guarantee argument: `Keeps(t)` is what a step does to the other threads' loggers, `OthersKept`
that a step which keeps them keeps what is known of the others, and each action is shown to be such
a step.

`CMessageLogProofs` proves the refinement, `Spec => CallsAreAtomic`: initial states map to initial states, and
every step to a step of `MessageLog` or a stutter. A call takes effect with its last line, or in the
one step that hands it to the bridge, and no other step changes what is `Visible`. `LogInv` says where the pieces
of a log come from (`PieceInv`) and, of the thread that holds `g_write_mutex`, that the log ends with the
lines of its message that are gone from `todo`, in order (`Progress`). That these are the sorted lines of the
message when none is left is `WholeText`, by the lemmas on `SortedLines`.

`CppRuntimeProofs` does both for the C++ runtime: `TypeCorrect`, `SettingsDecideAlways`, `OwnLoggerAlways`,
`OneWayAlways`, `AdoptsNgenLevelsAlways` and `CallsAreAtomicAlways`. Its `Inv` says that a Logger that is `Settled`
keeps its settings, that who logs has a settled Logger, and that the answer of `dlsym` is kept. As in the run,
the refinement leaves standard output out, where it does not hold.

`PythonRuntimeProofs` proves, for every environment, every set of arguments and every order of calls:

- `TypeCorrect`: `Spec => []TypeOK`.
- `RecordsWrittenOnce`: `Spec => []WrittenOnce`. What makes it inductive is `OneHandler`: a logger of the
  standard library serves one EwtsLogger at most, since a construction puts its handler in the place
  of the others and an adoption removes those that were there. `HandleType` draws the conclusion for a record.
- `CurrentServes`: `Spec => []ServedByCurrent`, and `LevelsStayAligned`: `Spec => []LevelsAligned`, which
  needs `OneHandler` too: a level set through a handle is right for a logger only if nobody else
  serves it. `BuildKeeps` covers the three calls that build an EwtsLogger, `SetBothKeeps` the two
  that set a level.
- `ThresholdAlwaysDecides`: `Spec => []ThresholdDecides`. Only the calls that log a record change what was
  written last; for those, `OneHandler` says which handler sees the record, and `LevelsAligned` that the
  logger's own level test answers as the handler's threshold does, on the other scale.
- `OverridesAlwaysPrevail`: `Spec => OverridesPrevail`. The invariant, `OverrideAsked`, is that what the last
  setup was told is what construction consults; the rest is the order in which `LoadConfig` asks its sources.
  The code marks a disabled logger by the level 999, which an enabled one may have been asked for; that case
  the property excepts (`Obeys`), and no other.

`CalendarProofs` proves for every date of the Gregorian calendar that `IncDay` yields the date of the
next day (`NextDay`) and `DecDay` that of the day
before (`DayBefore`). The years are cases on the remainders that leap years depend on (`YearLengths`),
the months on a table.

`RecordsProofs` proves, for every set of payloads, calls, messages, texts and readings of the clock:

- `FortranTimesTrue`: the time on every line of the Fortran runtime is, to the
  minute, the UTC time at which it was written, for every local date after year 1, zone and number of
  lines. The invariant says of the conversion under way that its date and minutes, as a number of minutes, are
  those of the local time less the zone, which `DayBack` and `DayOn` keep by the theorems about the calendar,
  and of every line in the Fortran runtime's file that it has the shape of one.
- `TypeCorrect`: `Spec => []TypeOK`. `FileInv` says that every word of the file, whole or cut off, is in the
  `Vocabulary`: times that are dates, ids and texts, sentinels, and the ends of objects that are genuine
  (`GenuineObject`). Where a crash joins two lines, words are lost and junk is put in, but no word is made.
- `GenuineAlways`: `Spec => []Genuine`, from the same: whatever pair of sentinels the parser finds, what it accepts
  between them is one JSON object, and a word that opens an object is genuine. `PayloadOutcome` and
  `MessageOutcome` say that ngen makes genuine objects, also of messages whose texts hold sentinels.
- `PayloadsRoundTrip`, `FieldsAlwaysArrive` and `MalformedAlwaysReported`: `FileInv` says too which operation
  each line that was not cut off comes from (`Written`). `Wraps` describes a line with one payload at its end;
  on such a line the search of `ExtractJsonPayload` and that of the parser find the same words
  (`WrappedFound`, by the least-number principle), and `LineParsed` is what the parser makes of them. From
  a payload to the object that ngen writes (`Stands`, `CallArrives`) a text stays, or is empty or the text null, and
  a progress keeps six digits and its range (`SixDigitsKeep`). The first two except a closing sentinel in the
  message or in the name of the module, with which the code does not read the payload back.

What this assumes of the constants is in `ConstantsAssumption`, evaluated in every run of `Records`: that "null"
and the two reports "missing begin" and "malformed JSON" are texts without closing sentinel and control
character, which they are in the code, and that the messages in `Messages` hold no JSON object; those with one
are `Payloads`.

`GeneratorProofs` proves, for every set of specification files and any number of runs:

- `TypeCorrect`: `Spec => []TypeOK`, where the part to think about is that a run that is writing or done
  accepted its specification.
- `DoneRunsCurrent`: a completed run leaves every file it was asked for whole and made from what it read. The
  invariant says so of the first `written` files of the plan.
- `LookupsAgree`: the tables that one accepted specification made give the same id for a key and the
  same keys for an id in every language and in ngen. `SearchFinds` and `DictFinds` say that a search for
  the first match and a dictionary filled in order find the one entry that a key has.
- `NamesAgree`: the tables of level names agree, Fortran's in the first sixteen characters of a name, although
  three are sorted and one is not. The first of the
  places among equal values is the same, which takes the least-number principle.

Only model-checked:

- `CallsAreAtomic` of the ngen logger. The proof would follow `CMessageLogProofs`, from `DeliveryInv` and
  `SplitInv`, with a mutex per process in the place of the C runtime's.
- Liveness, which TLAPS cannot do. That no call of the C and C++ runtimes waits for ever follows from the
  check for deadlock: their steps have no cycle.

## Not modelled

- The rank: `EWTS_RANK`, the rank label in file names (planned, below).
- Timestamps, padding, directory creation, the search for the configuration file in the parent
  directories: formatting and file-system reads without state. A directory that cannot be created
  shows as a file that does not open; a search that finds nothing as a missing file.
- `IsLoggingEnabled()` and `GetLogLevel()` before the first call, which read the defaults.
- In the C runtime: `EWTS_RANK`, which is only printed there, and ids that are cut at 63 bytes. In the C and
  C++ runtimes: the lines that a logger prints to standard output when it is initialised.
- What a payload is worth without a log directory: the code drops it (909-912) although ordinary
  messages then go to standard output; `PayloadRecorded` speaks of the other case.
- The Fortran runtime's loggers: its array grows and is never shortened, one thread uses it, and its
  bridge and file are those of the C runtime without the threads.
- Two Python threads inside one call of the runtime; the handlers of the root logger.
- In the generator, the text of the files, descriptions, banners, and specification files that are
  missing or are not what their format requires, which stop a run like those that `Reject` refuses.

## Plan

What is left, in the order of importance:

| module | models | composed with | properties, theorems |
| --- | --- | --- | --- |
| `NgenRankFiles` | several ranks initialising before or after `MPI_Init`, file names with and without rank and timestamp | - | each rank has its own files |
| `RuntimeEnvironment` | a runtime that starts before, during or after ngen's initialisation | the steps of `NgenLogger`'s export | cached levels agree with ngen |
| `FortranRuntime` | growing array of loggers, bridge, file | `Calendar` | indices stay valid, one entry per id; proved |

Theorems still worth proving: the step simulation behind `CallsAreAtomic` of `NgenMessageLog`, where the file
system does not fail and one thread reports payloads.
