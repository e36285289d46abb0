----------------------------- MODULE CppRuntime -----------------------------
(***************************************************************************)
(* The C++ runtime, runtime/cpp.  GetLogger keeps one Logger per EWTS id,    *)
(* created by whoever names the id first, who also decides for good whether  *)
(* it may use ngen.  A Logger reads its settings at its first use, under a    *)
(* mutex of its own, and writes under a second one.  EwtsInit makes a Logger  *)
(* the current one of the calling thread, for Log().                         *)
(*                                                                         *)
(* The functions of the bridge are looked up once per process.  The library  *)
(* that has them may be loaded at any time, and the ngen logger initialised.  *)
(* An id stands for its upper-cased form.  A message is written to a stream  *)
(* in several insertions: two parts here, its prefix and the rest.           *)
(***************************************************************************)
EXTENDS EwtsLevels, Sequences

CONSTANTS
  Threads,
  Ids,          \* EWTS ids
  Worlds,       \* what the process may find when it starts
  Sends,        \* [Threads -> SUBSET Request], what each thread may call
  MaxCalls      \* bound: calls per thread

Nobody == "nobody"
Fallback == "EWTS"    \* the Logger of threads that never called EwtsInit

(* "init" is EwtsInit, "log" the function Log(), "logOn" the method of the     *)
(* Logger that GetLogger returns, "payload" PayloadStatus; "query" is         *)
(* IsLoggingEnabled and GetLogLevel.                                        *)
Request ==
  [op : {"init", "log", "logOn", "query", "payload"}, id : Ids, bridge : BOOLEAN, level : Int]

Environment == [enabled : BOOLEAN, default : RawLevel, level : [Ids -> RawLevel]]

(* logDir: EWTS_LOG_DIR is not set, or a directory where files may fail to     *)
(* open, or one that cannot be created.                                     *)
World ==
  [resultsDir : BOOLEAN, linked : BOOLEAN, logDir : {"unset", "set", "forbidden"},
   env : Environment, ngenEnabled : BOOLEAN, ngenLevel : [Ids -> CanonicalLevels]]

ASSUME ConstantsAssumption ==
  /\ Nobody \notin Threads /\ Fallback \in Ids
  /\ Ids \cap {"stdout", "ngen", "none", "done", "disabled", "filtered", "dropped", "raised"} = {}
  /\ Worlds \subseteq World
  /\ \A t \in Threads : Sends[t] # {} /\ Sends[t] \subseteq Request
  /\ MaxCalls \in Nat

VARIABLES
  world,          \* found at start, never changed
  env, exported,  \* the variables that ngen may export, and whether it has
  loaded,         \* whether the functions of the bridge are in the process
  found,          \* the cached results of the two lookups
  loggers,        \* g_loggers
  initOwner, logOwner, \* who holds init_mtx_ and log_mtx_ of a Logger
  current,        \* g_current_logger of each thread
  pc, call, calls, \* where each thread is, its call, how many it has made
  logger,         \* the id of the Logger its call works with
  parts,          \* the parts of the message it has still to write
  out,            \* what each destination holds
  returned        \* history: the calls that returned, and by which path

process == <<world, env, exported, loaded, found>>
threadVars == <<current, call, calls, logger, parts>>
vars == <<process, loggers, initOwner, logOwner, pc, threadVars, out, returned>>

Sinks == Ids \cup {"stdout", "ngen"}
Paths == {"done", "disabled", "filtered", "dropped", "raised"} \cup Sinks
Locations == {"idle", "init", "level", "ready", "bridge", "wait", "write", "payload"}
Lookups == {"log", "payload"}
Logger ==
  [useNgen : BOOLEAN, initialized : BOOLEAN, enabled : BOOLEAN, level : Nat, open : BOOLEAN,
   fresh : BOOLEAN]      \* history: whether it read its settings after ngen's export
Parts == {1, 2}
Piece(t, p) == [by |-> t, n |-> calls[t], line |-> p]
Pieces == [by : Threads, n : 1..MaxCalls, line : Parts]

Init ==
  /\ world \in Worlds
  /\ env = world.env /\ exported = FALSE
  /\ loaded = world.linked /\ found = [f \in Lookups |-> "unknown"]
  /\ loggers = [id \in {} |-> 0]
  /\ initOwner = [id \in Ids |-> Nobody] /\ logOwner = [id \in Ids |-> Nobody]
  /\ current = [t \in Threads |-> "none"]
  /\ pc = [t \in Threads |-> "idle"]
  /\ call = [t \in Threads |-> CHOOSE m \in Sends[t] : TRUE]
  /\ calls = [t \in Threads |-> 0]
  /\ logger = [t \in Threads |-> Fallback]
  /\ parts = [t \in Threads |-> {}]
  /\ out = [s \in Sinks |-> <<>>]
  /\ returned = {}

Goto(t, where) == pc' = [pc EXCEPT ![t] = where]
Return(t, path) ==
  /\ Goto(t, "idle")
  /\ returned' = returned \cup {[by |-> t, n |-> calls[t], req |-> call[t], path |-> path,
                                 logger |-> logger[t]]}
-----------------------------------------------------------------------------
(* Around the runtime: the ngen logger initialises, at a call of its own or     *)
(* when the bridge is first called, and the bridge library is loaded.          *)
ExportedEnv ==
  [env EXCEPT !.enabled = world.ngenEnabled,
              !.level = [id \in Ids |-> [digits |-> TRUE, value |-> world.ngenLevel[id],
                                         name |-> ""]]]
Exports == exported' = TRUE /\ env' = IF exported THEN env ELSE ExportedEnv

NgenInitialises ==
  /\ world.resultsDir /\ ~exported
  /\ Exports
  /\ UNCHANGED <<world, loaded, found, loggers, initOwner, logOwner, pc, threadVars, out,
                 returned>>

LoadBridge ==
  /\ world.resultsDir /\ ~loaded
  /\ loaded' = TRUE
  /\ UNCHANGED <<world, env, exported, found, loggers, initOwner, logOwner, pc, threadVars, out,
                 returned>>
-----------------------------------------------------------------------------
(* GetLogger and CurrentLogger                                               *)

(* Mutant: the current Logger is one for the whole process.                   *)
CurrentOfAll(t, id) == [u \in Threads |-> id]

CurrentOf(t, id) == [current EXCEPT ![t] = id]

(* Created with what the first caller says about ngen, which later ones cannot  *)
(* change.                                                                  *)
GetLogger(id, bridge) ==
  IF id \in DOMAIN loggers THEN loggers
  ELSE [i \in DOMAIN loggers \cup {id} |->
          IF i = id THEN [useNgen |-> bridge, initialized |-> FALSE, enabled |-> TRUE,
                          level |-> INFO, open |-> FALSE, fresh |-> FALSE]
          ELSE loggers[i]]

Wanted(t, m) ==
  IF m.op \in {"init", "logOn"} THEN m.id
  ELSE IF current[t] # "none" THEN current[t] ELSE Fallback

(* The call starts and finds its Logger, under g_registry_mtx.                 *)
Call(t) ==
  /\ pc[t] = "idle" /\ calls[t] < MaxCalls
  /\ \E m \in Sends[t] :
       /\ call' = [call EXCEPT ![t] = m]
       /\ logger' = [logger EXCEPT ![t] = Wanted(t, m)]
       /\ IF m.op = "payload" THEN UNCHANGED loggers
          ELSE loggers' = GetLogger(Wanted(t, m), m.bridge \/ m.op \in {"log", "query"})
       /\ IF m.op = "init" THEN current' = CurrentOf(t, m.id) ELSE UNCHANGED current
       /\ Goto(t, IF m.op = "payload" THEN "payload" ELSE IF m.op = "init" THEN "ready" ELSE "init")
  /\ calls' = [calls EXCEPT ![t] = @ + 1]
  /\ UNCHANGED <<process, initOwner, logOwner, parts, out, returned>>

(* EwtsInit and the queries end here.                                        *)
ReturnLogger(t) ==
  /\ pc[t] = "ready" /\ call[t].op \in {"init", "query"}
  /\ Return(t, "done")
  /\ UNCHANGED <<process, loggers, initOwner, logOwner, threadVars, out>>
-----------------------------------------------------------------------------
(* init_once                                                               *)

(* Mutant: initialized_ is tested before the mutex is taken.                  *)
TestedUnlocked(t) == logger[t] \in DOMAIN loggers

InitFree(t) == initOwner[logger[t]] = Nobody

SkipInit(t) ==
  /\ pc[t] = "init" /\ InitFree(t) /\ loggers[logger[t]].initialized
  /\ Goto(t, "ready")
  /\ UNCHANGED <<process, loggers, initOwner, logOwner, threadVars, out, returned>>

ReadEnabled(t) ==
  /\ pc[t] = "init" /\ InitFree(t) /\ ~loggers[logger[t]].initialized
  /\ initOwner' = [initOwner EXCEPT ![logger[t]] = t]
  /\ loggers' = [loggers EXCEPT ![logger[t]].initialized = TRUE,
                                ![logger[t]].enabled = env.enabled,
                                ![logger[t]].fresh = exported]
  /\ Goto(t, "level")
  /\ UNCHANGED <<process, logOwner, threadVars, out, returned>>

(* Mutant: the general variable wins over the one of the module.               *)
DefaultFirst(id) ==
  IF EnvLevel(env.default) # NOTSET THEN EnvLevel(env.default)
  ELSE IF EnvLevel(env.level[id]) # NOTSET THEN EnvLevel(env.level[id]) ELSE INFO

InitialLevel(id) ==
  IF EnvLevel(env.level[id]) # NOTSET THEN EnvLevel(env.level[id])
  ELSE IF EnvLevel(env.default) # NOTSET THEN EnvLevel(env.default) ELSE INFO

ReadLevel(t) ==
  /\ pc[t] = "level"
  /\ loggers' = [loggers EXCEPT ![logger[t]].level = InitialLevel(logger[t])]
  /\ initOwner' = [initOwner EXCEPT ![logger[t]] = Nobody]
  /\ Goto(t, "ready")
  /\ UNCHANGED <<process, logOwner, threadVars, out, returned>>
-----------------------------------------------------------------------------
(* Logger::Log                                                             *)
IsMessage(m) == m.op \in {"log", "logOn"}

Discard(t) ==
  LET lg == loggers[logger[t]] IN
  /\ pc[t] = "ready" /\ IsMessage(call[t])
  /\ \/ ~lg.enabled /\ Return(t, "disabled")
     \/ lg.enabled /\ call[t].level < lg.level /\ Return(t, "filtered")
  /\ UNCHANGED <<process, loggers, initOwner, logOwner, threadVars, out>>

(* Mutant: the function is looked up for each message.                        *)
LookupEachTime(f) == [found EXCEPT ![f] = IF loaded THEN "there" ELSE "missing"]

(* dlsym, at the first message that passes a filter; at the first payload.      *)
Lookup(f) ==
  IF found[f] # "unknown" THEN found
  ELSE [found EXCEPT ![f] = IF loaded THEN "there" ELSE "missing"]

Bridged(f) == world.resultsDir /\ found'[f] = "there"

Accept(t) ==
  LET lg == loggers[logger[t]] IN
  /\ pc[t] = "ready" /\ IsMessage(call[t])
  /\ lg.enabled /\ call[t].level >= lg.level
  /\ found' = Lookup("log")
  /\ Goto(t, IF lg.useNgen /\ Bridged("log") THEN "bridge" ELSE "wait")
  /\ parts' = [parts EXCEPT ![t] = Parts]
  /\ UNCHANGED <<world, env, exported, loaded, loggers, initOwner, logOwner, current, call, calls,
                 logger, out, returned>>

(* ewts_ngen_log takes the message whole.                                     *)
CallBridge(t) ==
  /\ pc[t] = "bridge"
  /\ out' = [out EXCEPT !["ngen"] = @ \o <<Piece(t, 1), Piece(t, 2)>>]
  /\ Exports
  /\ Return(t, "ngen")
  /\ UNCHANGED <<world, loaded, found, loggers, initOwner, logOwner, threadVars>>

(* PayloadStatus looks at no Logger.                                          *)
SendPayload(t) ==
  /\ pc[t] = "payload"
  /\ found' = Lookup("payload")
  /\ \/ /\ Bridged("payload")
        /\ out' = [out EXCEPT !["ngen"] = @ \o <<Piece(t, 1), Piece(t, 2)>>]
        /\ Exports
        /\ Return(t, "ngen")
     \/ ~Bridged("payload") /\ Return(t, "dropped") /\ UNCHANGED <<env, exported, out>>
  /\ UNCHANGED <<world, loaded, loggers, initOwner, logOwner, threadVars>>
-----------------------------------------------------------------------------
(* Standalone output                                                        *)

(* Mutant: log_mtx_ protects only the opening of the file.                     *)
WriteUnlocked(t) == logger[t] \in DOMAIN loggers

LogFree(t) == logOwner[logger[t]] = Nobody

(* open_standalone_file: a file that is not open is tried at every message.      *)
LockLog(t) ==
  /\ pc[t] = "wait" /\ LogFree(t) /\ world.logDir # "forbidden"
  /\ \E open \in (IF loggers[logger[t]].open THEN {TRUE}
                  ELSE IF world.logDir = "set" THEN BOOLEAN ELSE {FALSE}) :
       loggers' = [loggers EXCEPT ![logger[t]].open = open]
  /\ logOwner' = [logOwner EXCEPT ![logger[t]] = t]
  /\ Goto(t, "write")
  /\ UNCHANGED <<process, initOwner, threadVars, out, returned>>

(* create_directories throws, out of Log; the lock is released.                *)
Raise(t) ==
  /\ pc[t] = "wait" /\ LogFree(t) /\ world.logDir = "forbidden"
  /\ Return(t, "raised")
  /\ UNCHANGED <<process, loggers, initOwner, logOwner, threadVars, out>>

SinkOf(t) == IF loggers[logger[t]].open THEN logger[t] ELSE "stdout"

WritePart(t) ==
  /\ pc[t] = "write"
  /\ \E p \in parts[t] :
       /\ \A q \in parts[t] : p <= q
       /\ out' = [out EXCEPT ![SinkOf(t)] = Append(@, Piece(t, p))]
       /\ parts' = [parts EXCEPT ![t] = @ \ {p}]
  /\ UNCHANGED <<process, loggers, initOwner, logOwner, pc, current, call, calls, logger, returned>>

UnlockLog(t) ==
  /\ pc[t] = "write" /\ parts[t] = {}
  /\ logOwner' = [logOwner EXCEPT ![logger[t]] = Nobody]
  /\ Return(t, SinkOf(t))
  /\ UNCHANGED <<process, loggers, initOwner, threadVars, out>>
-----------------------------------------------------------------------------
Finished ==
  /\ \A t \in Threads : pc[t] = "idle" /\ calls[t] = MaxCalls
  /\ UNCHANGED vars

InitOnce(t) == SkipInit(t) \/ ReadEnabled(t) \/ ReadLevel(t) \/ ReturnLogger(t)
Output(t) == Discard(t) \/ Accept(t) \/ CallBridge(t) \/ SendPayload(t) \/ LockLog(t) \/ Raise(t)
               \/ WritePart(t) \/ UnlockLog(t)

Next ==
  \/ \E t \in Threads : Call(t) \/ InitOnce(t) \/ Output(t)
  \/ NgenInitialises \/ LoadBridge \/ Finished

Spec == Init /\ [][Next]_vars
-----------------------------------------------------------------------------
(* Properties                                                               *)
Standalone(r) == r.path \in Ids \cup {"stdout"}

(* Every variable stays in its domain; only the owner of a Logger's mutex is in   *)
(* the code it protects, and nobody is past init_once of a Logger that still     *)
(* reads its settings.                                                       *)
TypeOK ==
  /\ world \in Worlds /\ env \in Environment /\ exported \in BOOLEAN /\ loaded \in BOOLEAN
  /\ found \in [Lookups -> {"unknown", "there", "missing"}]
  /\ DOMAIN loggers \subseteq Ids /\ loggers \in [DOMAIN loggers -> Logger]
  /\ initOwner \in [Ids -> Threads \cup {Nobody}] /\ logOwner \in [Ids -> Threads \cup {Nobody}]
  /\ current \in [Threads -> DOMAIN loggers \cup {"none"}]
  /\ pc \in [Threads -> Locations] /\ call \in [Threads -> Request]
  /\ calls \in [Threads -> 0..MaxCalls] /\ logger \in [Threads -> Ids]
  /\ parts \in [Threads -> SUBSET Parts]
  /\ out \in [Sinks -> Seq(Pieces)]
  /\ \A t \in Threads, id \in Ids :
       /\ initOwner[id] = t <=> pc[t] = "level" /\ logger[t] = id
       /\ logOwner[id] = t <=> pc[t] = "write" /\ logger[t] = id

(* Every message is filtered with the settings its Logger has for good: nobody   *)
(* gets past a first use that is still reading them.                           *)
SettingsDecide ==
  \A r \in {r \in returned : IsMessage(r.req)} :
    LET lg == loggers[r.logger] IN
    /\ r.path = "disabled" <=> ~lg.enabled
    /\ r.path = "filtered" <=> lg.enabled /\ r.req.level < lg.level

(* Log() writes under the id that the same thread last gave to EwtsInit, or the   *)
(* fallback, whatever other threads call EwtsInit with.                        *)
OwnLogger ==
  \A r \in returned : r.req.op = "log" =>
    LET inits == {i \in returned : i.by = r.by /\ i.n < r.n /\ i.req.op = "init"}
    IN \/ inits = {} /\ r.logger = Fallback
       \/ \E i \in inits : i.req.id = r.logger /\ \A j \in inits : j.n <= i.n

(* The messages of an id never end up partly in ngen and partly standalone, even   *)
(* if the bridge is loaded after the first of them.                            *)
OneWay ==
  \A r, s \in returned :
    IsMessage(r.req) /\ IsMessage(s.req) /\ r.logger = s.logger => ~(r.path = "ngen" /\ Standalone(s))

(* A message that the runtime keeps from ngen is one that ngen would filter too,  *)
(* if the Logger read its settings after ngen had exported them.  An exported     *)
(* NOTSET is no level to the runtime, which then looks further.                *)
AdoptsNgenLevels ==
  \A r \in returned :
    /\ r.path = "filtered" /\ loggers[r.logger].fresh
    /\ world.ngenLevel[r.logger] # NOTSET
    => r.req.level < world.ngenLevel[r.logger]
=============================================================================
