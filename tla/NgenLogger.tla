----------------------------- MODULE NgenLogger -----------------------------
(***************************************************************************)
(* The logger inside the ngen process: integrations/ngen, class Logger and *)
(* the C bridge in front of it.  One singleton serves every thread of the  *)
(* process.  The first call initialises it under std::call_once: the       *)
(* process environment is cleared, ngen_logging.json is read, the settings *)
(* are exported to the language runtimes as environment variables and the  *)
(* log file is opened.  A call then goes through the filter and is written *)
(* to one of four destinations, each with a protection of its own:         *)
(*                                                                         *)
(*   a file per EWTS id   under one mutex for all of them (split mode)      *)
(*   the unified file     with no lock at all                              *)
(*   standard output      one insertion per line                           *)
(*   the payload file     opened with no lock, written under a mutex        *)
(*                                                                         *)
(* A message is abstracted to its EWTS id, its level, the numbers of its   *)
(* non-blank lines (blank ones are never written), the entry point it came *)
(* through and, for a payload, whether its JSON can be extracted.          *)
(***************************************************************************)
EXTENDS EwtsLevels, Sequences, FiniteSetsExt

CONSTANTS
  Threads,      \* threads of the ngen process that log
  Keys,         \* module keys: those of the registry and those of a config file
  Ids,          \* EWTS ids that callers pass
  Registry,     \* kModules: a sequence of [key, id], in the generated order
  LowerCase,    \* [Keys -> Keys], std::tolower on a key
  NgenKey,      \* moduleKey, "ngen"
  NgenId,       \* ewtsId, "NGEN"
  Worlds,       \* what the process may find when it starts
  Sends,        \* [Threads -> SUBSET Message], what each thread may log
  MaxCalls,     \* bound: calls per thread
  FsMayFail     \* whether the file system may stop accepting writes

Absent == -1    \* a key that is not in moduleLogLevels, a variable not set
Nobody == "nobody"

Opt == {"absent", "true", "false"}      \* boost::optional<bool>

Message ==
  [api : {"Log", "LogF", "LogNgenF", "Bridge", "Payload", "Json"},
   id : Ids, level : Int, lines : SUBSET Nat, ok : BOOLEAN]

Level == CanonicalLevels \cup {Absent}

Environment ==
  [bridge : {"unset", "1"}, enabled : {"unset", "0", "1"}, level : [Ids -> Level]]

World ==
  [resultsDir : BOOLEAN, logDir : BOOLEAN, defaultLevel : RawLevel,
   file : {"missing", "malformed", "ok"},
   ewtsEnabled : Opt, loggingEnabled : Opt, split : Opt,
   listed : SUBSET Keys, modules : [Keys -> RawLevel], env : Environment]

LoggerSettings ==
  [enabled : BOOLEAN, split : BOOLEAN, level : CanonicalLevels, levels : [Keys -> Level],
   dir : {"none", "results", "standalone"}]

ASSUME ConstantsAssumption ==
  /\ Registry \in Seq([key : Keys, id : Ids])
  /\ LowerCase \in [Keys -> Keys]
  /\ NgenKey \in Keys /\ NgenId \in Ids
  /\ Nobody \notin Threads
  /\ Ids \cap {"unified", "stdout", "payload"} = {}
  /\ Worlds \subseteq World
  /\ \A t \in Threads : Sends[t] # {} /\ Sends[t] \subseteq Message
  /\ \A t \in Threads : \A m \in Sends[t] : m.api = "LogNgenF" => m.id = NgenId
  /\ MaxCalls \in Nat /\ FsMayFail \in BOOLEAN

VARIABLES
  world,        \* environment and file system found at start, never changed
  fs,           \* "ok", or "bad" while opens and writes fail
  once,         \* the std::once_flag: "new", "running" or "done"
  env,          \* the environment variables ngen controls
  logger,       \* the settings of the singleton
  logFile,      \* the unified std::fstream
  payloadFile,  \* the payload std::ofstream
  splitFiles,   \* splitLogFiles: the std::ofstream of each EWTS id
  splitOwner,   \* the thread that holds splitLogMutex
  pc,           \* where each thread is
  call,         \* the message of its current or last call
  calls,        \* how many calls it has made
  todo,         \* the lines of it that are still to be written
  part,         \* the insertion of the current line that comes next
  out,          \* what each destination holds
  returned      \* history: the calls that returned, and by which path

settings == <<env, logger>>
streams  == <<logFile, payloadFile, splitFiles, splitOwner>>
vars == <<world, fs, once, settings, streams, pc, call, calls, todo, part, out, returned>>
-----------------------------------------------------------------------------
(* The registry.                                                           *)

Entries(id) == {i \in DOMAIN Registry : Registry[i].id = id}
RegistryKeys == {Registry[i].key : i \in DOMAIN Registry}
FirstKey(id) == Registry[Min(Entries(id))].key
EwtsIdsFromKey(key) == {Registry[i].id : i \in {j \in DOMAIN Registry : Registry[j].key = key}}

(* The id that names the key's environment variable, none if unknown: the  *)
(* key is looked up as it is, then in lower case.                          *)
EnvVarIdents(key) ==
  IF key \in RegistryKeys THEN EwtsIdsFromKey(key) ELSE EwtsIdsFromKey(LowerCase[key])

(* Mutant: every id is compared with the singleton's own level.             *)
OwnLevel(id) == logger.level

(* The key of ngen itself is one, and the first of its id.                   *)
ASSUME RegistryAssumption == Entries(NgenId) # {} /\ FirstKey(NgenId) = NgenKey

(* The level a call for id is compared with.  Only the first entry of the  *)
(* registry with that id is consulted.                                     *)
EffectiveLevel(id) ==
  IF Entries(id) # {} /\ logger.levels[FirstKey(id)] # Absent THEN logger.levels[FirstKey(id)]
  ELSE IF id = NgenId THEN logger.level
  ELSE INFO

(* The varargs overloads filter before they format; the one without an id  *)
(* compares with the logger's own level.                                   *)
PassesPrefilter(m) ==
  /\ m.api = "LogF"     => m.level >= EffectiveLevel(m.id)
  /\ m.api = "LogNgenF" => m.level >= logger.level

PassesFilter(m) == PassesPrefilter(m) /\ m.level >= EffectiveLevel(m.id)

(* Mutant: only the payload entry points are diverted.                      *)
DivertedByApi(m) == m.api \in {"Payload", "Json"}

(* A STATUS message is a payload.                                           *)
Diverted(m) == m.level = STATUS

IsStatus(m) == m.level = STATUS \/ m.api \in {"Payload", "Json"}
-----------------------------------------------------------------------------
(* Streams.  "good" is is_open() && good(); "bad" is open with an error     *)
(* flag; "failed" is closed after an open() that failed.  open() on a       *)
(* stream that is open only sets failbit; a successful one clears flags.    *)

StreamStates == {"closed", "good", "bad", "failed"}

Opened(stream) ==
  IF stream \in {"good", "bad"} THEN "bad" ELSE IF fs = "ok" THEN "good" ELSE "failed"

AfterWrite(stream) == IF stream = "good" /\ fs = "bad" THEN "bad" ELSE stream

Accepts(stream) == stream = "good" /\ fs = "ok"

Piece(t, line, what) ==
  [by |-> t, n |-> calls[t], msg |-> call[t], line |-> line, part |-> what]

Put(sink, piece) == out' = [out EXCEPT ![sink] = Append(@, piece)]

Goto(t, where) == pc' = [pc EXCEPT ![t] = where]

Return(t, path) ==
  /\ Goto(t, "idle")
  /\ returned' = returned \cup {[by |-> t, n |-> calls[t], msg |-> call[t], path |-> path]}

(* Mutant: the lines are written in no particular order.                    *)
AnyLine(t, line) == line \in todo[t]

NextLine(t, line) == line \in todo[t] /\ \A other \in todo[t] : line <= other

Sinks == Ids \cup {"unified", "stdout", "payload"}
Locations ==
  {"idle", "init", "clear", "load", "export", "setup", "decide", "lock", "split",
   "unified", "stdout", "pready", "pinit", "pcheck", "popen", "pconfirm", "pwrite"}
InsideOnce == {"clear", "load", "export", "setup"}
Paths == {"disabled", "filtered", "dropped", "payload", "split", "unified", "stdout"}
Parts == {"head", "text", "end", "line", "record", "error"}

Pieces  == [by : Threads, n : 1..MaxCalls, msg : Message, line : Nat, part : Parts]
Returns == [by : Threads, n : 1..MaxCalls, msg : Message, path : Paths]

Init ==
  /\ world \in Worlds
  /\ fs = "ok"
  /\ once = "new"
  /\ env = world.env
  /\ logger = [enabled |-> TRUE, split |-> FALSE, level |-> INFO,
               levels |-> [k \in Keys |-> Absent], dir |-> "none"]
  /\ logFile = "closed" /\ payloadFile = "closed"
  /\ splitFiles = [id \in Ids |-> "none"]
  /\ splitOwner = Nobody
  /\ pc = [t \in Threads |-> "idle"]
  /\ call = [t \in Threads |-> CHOOSE m \in Sends[t] : TRUE]
  /\ calls = [t \in Threads |-> 0]
  /\ todo = [t \in Threads |-> {}]
  /\ part = [t \in Threads |-> "head"]
  /\ out = [s \in Sinks |-> <<>>]
  /\ returned = {}
-----------------------------------------------------------------------------
(* Entering the logger.                                                    *)

(* Logger::Log and the bridge's ewts_ngen_log initialise first; the payload *)
(* entry points first look whether the payload file is already open.        *)
EntryPoint(m) ==
  IF m.api \in {"Payload", "Json"} \/ (m.api = "Bridge" /\ m.level = STATUS)
  THEN "pready" ELSE "init"

Call(t) ==
  /\ pc[t] = "idle" /\ calls[t] < MaxCalls
  /\ \E m \in Sends[t] : call' = [call EXCEPT ![t] = m] /\ Goto(t, EntryPoint(m))
  /\ calls' = [calls EXCEPT ![t] = @ + 1]
  /\ UNCHANGED <<world, fs, once, settings, streams, todo, part, out, returned>>

(* Where a thread continues after InitIfNeeded.                             *)
AfterOnce(where) == IF where = "init" THEN "decide" ELSE "pcheck"

(* Mutant: a flag that is set before the initialisation instead of after it. *)
InitFlagFirst(t) ==
  /\ pc[t] \in {"init", "pinit"}
  /\ once' = "done"
  /\ Goto(t, IF once = "new" THEN "clear" ELSE AfterOnce(pc[t]))
  /\ UNCHANGED <<world, fs, settings, streams, call, calls, todo, part, out, returned>>

(* std::call_once: the first thread runs the initialisation, the others      *)
(* wait until it is done.                                                    *)
InitIfNeeded(t) ==
  /\ pc[t] \in {"init", "pinit"}
  /\ \/ once = "new" /\ once' = "running" /\ Goto(t, "clear")
     \/ once = "done" /\ Goto(t, AfterOnce(pc[t])) /\ UNCHANGED once
  /\ UNCHANGED <<world, fs, settings, streams, call, calls, todo, part, out, returned>>

(* ConfigureEnvVars(false): the level variables it removes are those of the *)
(* keys of moduleLogLevels.                                                *)
VariablesOf(levels) == UNION {EnvVarIdents(k) : k \in {j \in Keys : levels[j] # Absent}}

ClearEnvVars(t) ==
  /\ pc[t] = "clear"
  /\ env' = [bridge |-> "unset", enabled |-> "unset",
             level |-> [id \in Ids |-> IF id \in VariablesOf(logger.levels)
                                       THEN Absent ELSE env.level[id]]]
  /\ Goto(t, "load")
  /\ UNCHANGED <<world, fs, once, logger, streams, call, calls, todo, part, out, returned>>

(* ReadConfigFromResultsDir, and the defaults when there is no results      *)
(* directory or no usable file.                                             *)
IsTrue(opt, default) == IF opt = "absent" THEN default ELSE opt = "true"

ConfigLoaded == world.resultsDir /\ world.file = "ok"

ConfiguredLevels ==
  [k \in Keys |-> IF k \in world.listed THEN ParseLevel(world.modules[k])
                  ELSE IF k = NgenKey THEN INFO ELSE Absent]

DefaultLevels ==
  [k \in Keys |-> IF k \in RegistryKeys \cup {NgenKey}
                  THEN ParseLevel(world.defaultLevel) ELSE Absent]

LoadSettings(t) ==
  /\ pc[t] = "load"
  /\ logger' = IF ConfigLoaded
               THEN [logger EXCEPT
                       !.enabled = IsTrue(world.ewtsEnabled, IsTrue(world.loggingEnabled, TRUE)),
                       !.split   = IsTrue(world.split, FALSE),
                       !.levels  = ConfiguredLevels,
                       !.level   = ConfiguredLevels[NgenKey]]
               ELSE [logger EXCEPT
                       !.enabled = TRUE, !.split = FALSE,
                       !.levels  = DefaultLevels,
                       !.level   = ParseLevel(world.defaultLevel)]
  /\ Goto(t, "export")
  /\ UNCHANGED <<world, fs, once, env, streams, call, calls, todo, part, out, returned>>

(* Mutant: setenv() without overwrite.                                      *)
KeysNotYetSet(id) ==
  {k \in Keys : logger.levels[k] # Absent /\ id \in EnvVarIdents(k) /\ env.level[id] = Absent}

(* ConfigureEnvVars(true).  moduleLogLevels is an unordered map: when two    *)
(* keys share an id, the variable keeps the level of either.                *)
ExportedKeys(id) == {k \in Keys : logger.levels[k] # Absent /\ id \in EnvVarIdents(k)}

LevelsOf(id) ==
  IF ExportedKeys(id) = {} THEN {env.level[id]} ELSE {logger.levels[k] : k \in ExportedKeys(id)}

ExportEnvVars(t) ==
  /\ pc[t] = "export"
  /\ \E level \in [Ids -> UNION {LevelsOf(id) : id \in Ids}] :
       /\ \A id \in Ids : level[id] \in LevelsOf(id)
       /\ env' = [bridge |-> "1", enabled |-> IF logger.enabled THEN "1" ELSE "0",
                  level |-> level]
  /\ Goto(t, "setup")
  /\ UNCHANGED <<world, fs, once, logger, streams, call, calls, todo, part, out, returned>>

(* SetupLogFile: choose the directory and, unless the logs are split, open   *)
(* the unified file.  It ends the initialisation.                           *)
SetupLogFile(t) ==
  LET dir == IF world.resultsDir THEN "results"
             ELSE IF world.logDir THEN "standalone" ELSE "none" IN
  /\ pc[t] = "setup"
  /\ logger' = [logger EXCEPT !.dir = dir]
  /\ logFile' = IF dir = "none" \/ logger.split THEN logFile ELSE Opened(logFile)
  /\ once' = "done"
  /\ Goto(t, AfterOnce(EntryPoint(call[t])))
  /\ UNCHANGED <<world, fs, env, payloadFile, splitFiles, splitOwner,
                 call, calls, todo, part, out, returned>>
-----------------------------------------------------------------------------
(* Filtering and routing.                                                  *)

(* The settings are read without a lock.                                   *)
Discard(t) ==
  /\ pc[t] = "decide"
  /\ \/ ~logger.enabled /\ Return(t, "disabled")
     \/ /\ logger.enabled
        /\ ~PassesPrefilter(call[t]) \/ (~Diverted(call[t]) /\ ~PassesFilter(call[t]))
        /\ Return(t, "filtered")
  /\ UNCHANGED <<world, fs, once, settings, streams, call, calls, todo, part, out>>

(* A payload never reaches the filter of the string overload.                *)
DivertStatus(t) ==
  /\ pc[t] = "decide" /\ logger.enabled
  /\ PassesPrefilter(call[t]) /\ Diverted(call[t])
  /\ Goto(t, "pready")
  /\ UNCHANGED <<world, fs, once, settings, streams, call, calls, todo, part, out, returned>>

(* Mutant: the loop stops at a blank line instead of skipping it.            *)
LinesBeforeBlank(m) == {line \in m.lines : 1..line \subseteq m.lines}

(* The loop over the lines skips the blank ones.                            *)
LinesToWrite(m) == m.lines

Plain == IF logFile = "good" THEN "unified" ELSE "stdout"

Accept(t) ==
  /\ pc[t] = "decide" /\ logger.enabled
  /\ ~Diverted(call[t]) /\ PassesFilter(call[t])
  /\ Goto(t, IF logger.split THEN "lock" ELSE Plain)
  /\ todo' = [todo EXCEPT ![t] = LinesToWrite(call[t])]
  /\ UNCHANGED <<world, fs, once, settings, streams, call, calls, part, out, returned>>
-----------------------------------------------------------------------------
(* Split files, under splitLogMutex.                                       *)

(* Mutant: the mutex is an automatic variable instead of a static one.       *)
OwnLockFree(t) == t \in Threads

SplitLockFree(t) == splitOwner = Nobody

(* The first call for an id creates the map entry and opens the file; an     *)
(* entry whose stream is not good is left as it is, the lock is released    *)
(* and the message goes where an unsplit one would.                         *)
LockSplit(t) ==
  LET id == call[t].id
      file == IF splitFiles[id] = "none" THEN Opened("closed") ELSE splitFiles[id] IN
  /\ pc[t] = "lock" /\ SplitLockFree(t)
  /\ splitFiles' = [splitFiles EXCEPT ![id] = file]
  /\ IF file = "good" THEN splitOwner' = t /\ Goto(t, "split")
                      ELSE UNCHANGED splitOwner /\ Goto(t, Plain)
  /\ UNCHANGED <<world, fs, once, settings, logFile, payloadFile, call, calls, todo, part,
                 out, returned>>

WriteSplitLine(t) ==
  LET id == call[t].id IN
  /\ pc[t] = "split"
  /\ \E line \in todo[t] :
       /\ NextLine(t, line)
       /\ todo' = [todo EXCEPT ![t] = @ \ {line}]
       /\ IF Accepts(splitFiles[id]) THEN Put(id, Piece(t, line, "line")) ELSE UNCHANGED out
  /\ splitFiles' = [splitFiles EXCEPT ![id] = AfterWrite(@)]
  /\ UNCHANGED <<world, fs, once, settings, logFile, payloadFile, splitOwner, pc, call, calls,
                 part, returned>>

UnlockSplit(t) ==
  /\ pc[t] = "split" /\ todo[t] = {}
  /\ splitOwner' = Nobody
  /\ Return(t, "split")
  /\ UNCHANGED <<world, fs, once, settings, logFile, payloadFile, splitFiles, call, calls,
                 todo, part, out>>
-----------------------------------------------------------------------------
(* The unified file and standard output.                                   *)

(* Each line takes several insertions into one std::fstream: the prefix with  *)
(* a blank (one step here), the text and std::endl.  No lock protects it;    *)
(* while another thread is inserting as well, the stream buffer is raced on  *)
(* and an insertion may be overwritten.                                     *)
NextPart == [head |-> "text", text |-> "end", end |-> "head"]

OthersInserting(t) == \E u \in Threads \ {t} : pc[u] = "unified" /\ todo[u] # {}

InsertUnified(t) ==
  /\ pc[t] = "unified"
  /\ \E line \in todo[t] :
       /\ NextLine(t, line)
       /\ todo' = [todo EXCEPT ![t] = IF part[t] = "end" THEN @ \ {line} ELSE @]
       /\ \/ Accepts(logFile) /\ Put("unified", Piece(t, line, part[t]))
          \/ (~Accepts(logFile) \/ OthersInserting(t)) /\ UNCHANGED out
  /\ part' = [part EXCEPT ![t] = NextPart[@]]
  /\ logFile' = AfterWrite(logFile)
  /\ UNCHANGED <<world, fs, once, settings, payloadFile, splitFiles, splitOwner, pc, call,
                 calls, returned>>

(* The line is built first and inserted into std::cout in one piece.        *)
PrintLine(t) ==
  /\ pc[t] = "stdout"
  /\ \E line \in todo[t] :
       /\ NextLine(t, line)
       /\ todo' = [todo EXCEPT ![t] = @ \ {line}]
       /\ Put("stdout", Piece(t, line, "line"))
  /\ UNCHANGED <<world, fs, once, settings, streams, pc, call, calls, part, returned>>

ReturnPlain(t) ==
  /\ pc[t] \in {"unified", "stdout"} /\ todo[t] = {}
  /\ Return(t, pc[t])
  /\ UNCHANGED <<world, fs, once, settings, streams, call, calls, todo, part, out>>
-----------------------------------------------------------------------------
(* Payloads.  OpenPayloadFileIfNeeded runs with no lock.                    *)

PayloadFileReady == payloadFile = "good"

(* Mutant: the shortcut for a file that is open already is missing.          *)
AlwaysOpenPayload(t) ==
  /\ pc[t] = "pready"
  /\ Goto(t, "pinit")
  /\ UNCHANGED <<world, fs, once, settings, streams, call, calls, todo, part, out, returned>>

CheckPayloadFile(t) ==
  /\ pc[t] = "pready"
  /\ Goto(t, IF PayloadFileReady THEN "pwrite" ELSE "pinit")
  /\ UNCHANGED <<world, fs, once, settings, streams, call, calls, todo, part, out, returned>>

(* open() looks at is_open() first: an open stream only gets its failbit.    *)
BeginOpenPayload(t) ==
  /\ pc[t] = "pcheck"
  /\ \/ ~logger.enabled /\ Return(t, "disabled") /\ UNCHANGED payloadFile
     \/ logger.enabled /\ logger.dir = "none" /\ Return(t, "dropped") /\ UNCHANGED payloadFile
     \/ /\ logger.enabled /\ logger.dir # "none" /\ UNCHANGED returned
        /\ \/ payloadFile \in {"good", "bad"} /\ payloadFile' = "bad" /\ Goto(t, "pconfirm")
           \/ payloadFile \in {"closed", "failed"} /\ Goto(t, "popen") /\ UNCHANGED payloadFile
  /\ UNCHANGED <<world, fs, once, settings, logFile, splitFiles, splitOwner, call, calls, todo,
                 part, out>>

(* The rest of open(): fopen() truncates.  A thread that saw the stream       *)
(* closed while another was opening it either truncates the file again or    *)
(* finds the inner file open; both end by clearing the flags.                *)
EndOpenPayload(t) ==
  /\ pc[t] = "popen"
  /\ payloadFile' = IF fs = "ok" THEN "good" ELSE "failed"
  /\ \/ fs = "ok" /\ out' = [out EXCEPT !["payload"] = <<>>]
     \/ (fs = "bad" \/ payloadFile \in {"good", "bad"}) /\ UNCHANGED out
  /\ Goto(t, "pconfirm")
  /\ UNCHANGED <<world, fs, once, settings, logFile, splitFiles, splitOwner, call, calls, todo,
                 part, returned>>

(* Mutant: an open that failed is tried again at once.                      *)
RetryOpenPayload(t) ==
  /\ pc[t] = "pconfirm"
  /\ Goto(t, IF PayloadFileReady THEN "pwrite" ELSE "pcheck")
  /\ UNCHANGED <<world, fs, once, settings, streams, call, calls, todo, part, out, returned>>

ConfirmPayloadFile(t) ==
  /\ pc[t] = "pconfirm"
  /\ IF PayloadFileReady THEN Goto(t, "pwrite") /\ UNCHANGED returned ELSE Return(t, "dropped")
  /\ UNCHANGED <<world, fs, once, settings, streams, call, calls, todo, part, out>>

(* A JSON payload that cannot be extracted or parsed is logged as an ERROR   *)
(* record.  The record is inserted and flushed under payloadLogMutex.        *)
RecordKind(m) == IF m.api # "Payload" /\ ~m.ok THEN "error" ELSE "record"

WritePayload(t) ==
  /\ pc[t] = "pwrite"
  /\ IF Accepts(payloadFile) THEN Put("payload", Piece(t, 0, RecordKind(call[t])))
                             ELSE UNCHANGED out
  /\ payloadFile' = AfterWrite(payloadFile)
  /\ Return(t, "payload")
  /\ UNCHANGED <<world, fs, once, settings, logFile, splitFiles, splitOwner, call, calls, todo,
                 part>>
-----------------------------------------------------------------------------
(* The file system stops or resumes accepting opens and writes.             *)
FsChange ==
  /\ FsMayFail
  /\ fs' = IF fs = "ok" THEN "bad" ELSE "ok"
  /\ UNCHANGED <<world, once, settings, streams, pc, call, calls, todo, part, out, returned>>

(* Every thread has made its calls.                                         *)
Finished ==
  /\ \A t \in Threads : pc[t] = "idle" /\ calls[t] = MaxCalls
  /\ UNCHANGED vars

Initialise(t) == ClearEnvVars(t) \/ LoadSettings(t) \/ ExportEnvVars(t) \/ SetupLogFile(t)
Route(t) == Discard(t) \/ DivertStatus(t) \/ Accept(t)
Write(t) == LockSplit(t) \/ WriteSplitLine(t) \/ UnlockSplit(t)
              \/ InsertUnified(t) \/ PrintLine(t) \/ ReturnPlain(t)
Payload(t) == CheckPayloadFile(t) \/ BeginOpenPayload(t) \/ EndOpenPayload(t)
                \/ ConfirmPayloadFile(t) \/ WritePayload(t)

(* What a thread does once it has entered a call.                           *)
Work(t) == InitIfNeeded(t) \/ Initialise(t) \/ Route(t) \/ Write(t) \/ Payload(t)

Next == (\E t \in Threads : Call(t) \/ Work(t)) \/ FsChange \/ Finished

Spec == Init /\ [][Next]_vars

(* The operating system runs every thread, and nothing a call waits for      *)
(* depends on a caller making another call.                                 *)
FairSpec == Spec /\ \A t \in Threads : WF_vars(Work(t))
-----------------------------------------------------------------------------
(* What must hold.                                                         *)

(* Every variable of the process and of each thread stays in its domain.     *)
TypeOK ==
  /\ world \in Worlds
  /\ fs \in {"ok", "bad"}
  /\ once \in {"new", "running", "done"}
  /\ env \in Environment
  /\ logger \in LoggerSettings
  /\ logFile \in StreamStates /\ payloadFile \in StreamStates
  /\ splitFiles \in [Ids -> StreamStates \cup {"none"}]
  /\ splitOwner \in Threads \cup {Nobody}
  /\ pc \in [Threads -> Locations]
  /\ call \in [Threads -> Message]
  /\ calls \in [Threads -> 0..MaxCalls]
  /\ todo \in [Threads -> SUBSET Nat]
  /\ part \in [Threads -> {"head", "text", "end"}]
  /\ out \in [Sinks -> Seq(Pieces)]
  /\ returned \subseteq Returns

(* Once std::call_once has completed nothing changes the settings or the     *)
(* exported environment again, so that the filter, the routing and the       *)
(* runtimes, which all read them without a lock, read the same values.       *)
SettingsFixed == [][once = "done" => UNCHANGED settings]_vars

(* What ngen_logging.json, or EWTS_LOG_LEVEL without it, says of an id.      *)
ConfiguredFor(id) ==
  IF ConfigLoaded THEN {world.modules[k] : k \in {j \in world.listed : id \in EnvVarIdents(j)}}
  ELSE IF Entries(id) # {} THEN {world.defaultLevel} ELSE {}

Reaches(level, raw) ==
  level >= IF raw.digits THEN raw.value ELSE NamedLevel(raw.name)

Wanted(m) ==
  IF ConfiguredFor(m.id) = {} THEN m.level >= INFO
  ELSE \E raw \in ConfiguredFor(m.id) : Reaches(m.level, raw)

LoggingWanted ==
  ConfigLoaded => IsTrue(world.ewtsEnabled, IsTrue(world.loggingEnabled, TRUE))

(* The configuration lists no key of id but the first, the one looked up.     *)
Unambiguous(id) ==
  ConfigLoaded => \A k \in world.listed \cup {NgenKey} : id \in EnvVarIdents(k) => k = FirstKey(id)

(* The variable of id was set before ngen started, and nothing is configured  *)
(* for id.                                                                  *)
LeftOver(id) ==
  /\ world.env.level[id] # Absent
  /\ \A k \in Keys : id \in EnvVarIdents(k) => logger.levels[k] = Absent

(* Whatever thread initialised the logger and whichever way a call came in,  *)
(* it is filtered exactly when the configuration file (read by another       *)
(* thread, clamped, stored by key) says so of its EWTS id, and a STATUS       *)
(* message is never filtered.                                               *)
FollowsConfiguration ==
  \A r \in returned :
    /\ r.path = "disabled" <=> ~LoggingWanted
    /\ LoggingWanted /\ ~IsStatus(r.msg) /\ r.msg.level \in CanonicalLevels
         /\ Unambiguous(r.msg.id) => (r.path = "filtered" <=> ~Wanted(r.msg))
    /\ LoggingWanted /\ IsStatus(r.msg) => r.path \in {"payload", "dropped"}

(* A runtime that reads <ID>_LOGLEVEL after the initialisation gets the level *)
(* the ngen logger itself applies to that id.                               *)
ExportedLevelsAgree ==
  once = "done" =>
    \A id \in Ids :
      Entries(id) # {} /\ Unambiguous(id) /\ ~LeftOver(id) /\ env.level[id] # Absent
        => env.level[id] = EffectiveLevel(id)

(* The two output streams are not mixed, and the destination of a line is the *)
(* one the settings prescribe: payload records only in the payload file,     *)
(* lines in the file of their own id when logs are split, in the unified     *)
(* file only when they are not.                                             *)
StreamsSeparate ==
  \A s \in Sinks : \A i \in DOMAIN out[s] :
    LET p == out[s][i] IN
    /\ logger.enabled
    /\ s = "payload" <=> IsStatus(p.msg)
    /\ s \in Ids => logger.split /\ s = p.msg.id
    /\ s = "unified" => ~logger.split
    /\ s # "stdout" => logger.dir # "none"

IsFirstLine(p) == \A line \in p.msg.lines : p.line <= line
IsLastLine(p)  == \A line \in p.msg.lines : line <= p.line
Continues(p, q) ==
  /\ p.by = q.by /\ p.n = q.n /\ p.line < q.line
  /\ \A line \in p.msg.lines : line <= p.line \/ q.line <= line

FollowsOn(p, q) == Continues(p, q) \/ (IsLastLine(p) /\ IsFirstLine(q))

MessagesWhole(log) ==
  /\ log # <<>> => IsFirstLine(log[1])
  /\ \A i \in 1 .. Len(log) - 1 : FollowsOn(log[i], log[i + 1])

(* In a split file the lines of a message follow each other, complete and in  *)
(* order, whatever the threads do and even if the file system fails for a    *)
(* while.  Only the last message of a file can be cut short.                *)
SplitMessagesWhole == \A id \in Ids : MessagesWhole(out[id])

PiecesOf(r, s) == {i \in DOMAIN out[s] : out[s][i].by = r.by /\ out[s][i].n = r.n}
SinkOf(r) == IF r.path = "split" THEN r.msg.id ELSE r.path

(* What a call on this path inserts: <<line, part>> of every insertion.       *)
InsertionsOf(r) ==
  CASE r.path \in {"split", "stdout"} -> r.msg.lines \X {"line"}
    [] r.path = "unified" -> r.msg.lines \X {"head", "text", "end"}
    [] r.path = "payload" -> {<<0, RecordKind(r.msg)>>}
    [] OTHER -> {}

UsedUnified(t) == pc[t] = "unified" \/ \E r \in returned : r.by = t /\ r.path = "unified"

(* No other thread has written to the unified file so far.                  *)
OnlyUser(t) == \A u \in Threads \ {t} : ~UsedUnified(u)

(* What a call leaves in one destination: outside of its own nothing, there     *)
(* only insertions of its own, each once.  None is missing in a split file and  *)
(* on standard output, nor in the unified file while one thread alone uses it.  *)
LeftIn(r, s) ==
  LET pieces == PiecesOf(r, s)
      found == {<<out[s][i].line, out[s][i].part>> : i \in pieces} IN
  IF s # SinkOf(r) THEN pieces = {}
  ELSE /\ found \subseteq InsertionsOf(r)
       /\ \A i, j \in pieces :
            out[s][i].line = out[s][j].line /\ out[s][i].part = out[s][j].part => i = j
       /\ r.path \in {"split", "stdout"} \/ (r.path = "unified" /\ OnlyUser(r.by))
            => found = InsertionsOf(r)

(* With a working file system, a call that returned has left in its split file, *)
(* on standard output, or in the unified file that no other thread has used,   *)
(* each of its insertions once, and whatever its path nothing anywhere else     *)
(* and nothing twice.  Of the unified file that several threads write, and of  *)
(* the payload file, it says no more; see PayloadRecorded.                   *)
DeliveredOnce == \A r \in returned : \A s \in Sinks : LeftIn(r, s)

(* Each destination keeps the program order of every thread, across calls     *)
(* and within a message.                                                    *)
InOrder ==
  \A s \in Sinks : \A i, j \in DOMAIN out[s] :
    LET p == out[s][i] q == out[s][j] IN
    i < j /\ p.by = q.by => p.n < q.n \/ (p.n = q.n /\ p.line <= q.line)

(* A STATUS call that returned left exactly one record in the payload file,   *)
(* an ERROR one if its JSON was malformed, when there is a directory for it. *)
PayloadRecorded ==
  \A r \in returned :
    IsStatus(r.msg) /\ logger.enabled /\ logger.dir # "none" =>
      \E i \in DOMAIN out["payload"] :
        /\ PiecesOf(r, "payload") = {i}
        /\ out["payload"][i].part =
             IF r.msg.api = "Payload" \/ r.msg.ok THEN "record" ELSE "error"

(* In the unified file a line is never broken into by another one.            *)
UnifiedLinesWhole ==
  \A i \in 1 .. Len(out["unified"]) - 1 :
    LET p == out["unified"][i] q == out["unified"][i + 1] IN
    p.part # "end" => q.by = p.by /\ q.n = p.n /\ q.line = p.line /\ q.part = NextPart[p.part]

(* Every call returns: no thread waits for ever on the once flag or on a      *)
(* mutex, whatever fails.                                                   *)
CallsReturn == \A t \in Threads : []<>(pc[t] = "idle")
=============================================================================
