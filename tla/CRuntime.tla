------------------------------ MODULE CRuntime ------------------------------
(***************************************************************************)
(* The C runtime, runtime/c: one logger per EWTS id, created by whichever   *)
(* thread names the id first, in a list under g_registry_mutex.  A logger    *)
(* reads its settings from the environment when it is created.  A message    *)
(* that passes its filter is handed to the ngen bridge, or written to a file *)
(* of the id or standard output under g_write_mutex.                        *)
(*                                                                         *)
(* An id stands for its upper-cased form.  A message is its level and the    *)
(* numbers of its non-empty lines; what strtok_r finds in an empty one is    *)
(* nothing, and a line with no text, number 0 here, is written for it.       *)
(***************************************************************************)
EXTENDS EwtsLevels, SortedLines

CONSTANTS
  Threads,
  Ids,          \* EWTS ids
  Worlds,       \* what the process may find when it starts
  Sends,        \* [Threads -> SUBSET Request], what each thread may call
  MaxCalls      \* bound: calls per thread

Nobody == "nobody"

(* "init" is EwtsInit, and with bridge FALSE also EwtsGetLogLevelModule and    *)
(* EwtsIsLoggingEnabledModule; "log" is EwtsLogModule, "payload"             *)
(* EwtsPayloadStatus.                                                       *)
Request ==
  [op : {"init", "log", "payload"}, id : Ids, bridge : BOOLEAN, level : Int,
   lines : SUBSET (Nat \ {0})]

Environment == [enabled : BOOLEAN, default : RawLevel, level : [Ids -> RawLevel]]

(* ngen says what the ngen logger exports when it initialises.               *)
World ==
  [resultsDir : BOOLEAN, logDir : BOOLEAN, linked : BOOLEAN, env : Environment,
   ngenEnabled : BOOLEAN, ngenLevel : [Ids -> CanonicalLevels]]

ASSUME ConstantsAssumption ==
  /\ Nobody \notin Threads
  /\ Ids \cap {"stdout", "ngen", "done", "disabled", "filtered", "dropped"} = {}
  /\ Worlds \subseteq World
  /\ \A t \in Threads : Sends[t] # {} /\ Sends[t] \subseteq Request
  /\ \A t \in Threads : \A m \in Sends[t] : IsFiniteSet(m.lines)
  /\ MaxCalls \in Nat

VARIABLES
  world,          \* found at start, never changed
  env,            \* the variables that ngen may export
  exported,       \* whether it has
  loggers,        \* g_loggers, in the order of creation
  registryOwner,  \* the thread that holds g_registry_mutex
  writeOwner,     \* the thread that holds g_write_mutex
  pc, call, calls, \* where each thread is, its call, how many it has made
  state,          \* the logger its call works with, 0 before it has one
  todo,           \* the lines it has still to write
  out,            \* what each destination holds
  returned        \* history: the calls that returned, and by which path

threadVars == <<call, calls, state, todo>>
vars == <<world, env, exported, loggers, registryOwner, writeOwner, pc, threadVars, out,
          returned>>
-----------------------------------------------------------------------------
(* Mutant: the general variable wins over the one of the module.             *)
DefaultFirst(id) ==
  IF EnvLevel(env.default) # NOTSET THEN EnvLevel(env.default)
  ELSE IF EnvLevel(env.level[id]) # NOTSET THEN EnvLevel(env.level[id]) ELSE INFO

InitialLevel(id) ==
  IF EnvLevel(env.level[id]) # NOTSET THEN EnvLevel(env.level[id])
  ELSE IF EnvLevel(env.default) # NOTSET THEN EnvLevel(env.default) ELSE INFO

BridgeActive == world.resultsDir /\ world.linked

LinesOf(m) == IF m.op = "log" /\ m.lines # {} THEN m.lines ELSE {0}

Piece(t, line) == [by |-> t, n |-> calls[t], id |-> call[t].id, line |-> line]

Goto(t, where) == pc' = [pc EXCEPT ![t] = where]

Return(t, path) ==
  /\ Goto(t, "idle")
  /\ returned' = returned \cup {[by |-> t, n |-> calls[t], req |-> call[t], path |-> path,
                                 logger |-> state[t]]}

Sinks == Ids \cup {"stdout", "ngen"}
Locations == {"idle", "registry", "create", "enabled", "level", "entered", "bridge", "wait",
              "write", "payload"}
Paths == {"done", "disabled", "filtered", "dropped"} \cup Sinks
Files == {"none", "file", "stdout"}

LoggerState ==
  [id : Ids, useNgen : BOOLEAN, enabled : BOOLEAN, level : Nat, file : Files,
   fresh : BOOLEAN]      \* history: whether its level was read after ngen's export

Init ==
  /\ world \in Worlds
  /\ env = world.env
  /\ exported = FALSE
  /\ loggers = <<>>
  /\ registryOwner = Nobody /\ writeOwner = Nobody
  /\ pc = [t \in Threads |-> "idle"]
  /\ call = [t \in Threads |-> CHOOSE m \in Sends[t] : TRUE]
  /\ calls = [t \in Threads |-> 0]
  /\ state = [t \in Threads |-> 0]
  /\ todo = [t \in Threads |-> {}]
  /\ out = [s \in Sinks |-> <<>>]
  /\ returned = {}
-----------------------------------------------------------------------------
(* The ngen logger initialises in the same process: at a call of its own, or  *)
(* when the bridge is first called.                                         *)
ExportedEnv ==
  [env EXCEPT !.enabled = world.ngenEnabled,
              !.level = [id \in Ids |-> [digits |-> TRUE, value |-> world.ngenLevel[id],
                                         name |-> ""]]]

Exports == exported' = TRUE /\ env' = IF exported THEN env ELSE ExportedEnv

NgenInitialises ==
  /\ world.resultsDir /\ ~exported
  /\ Exports
  /\ UNCHANGED <<world, loggers, registryOwner, writeOwner, pc, threadVars, out, returned>>

Call(t) ==
  /\ pc[t] = "idle" /\ calls[t] < MaxCalls
  /\ \E m \in Sends[t] :
       /\ call' = [call EXCEPT ![t] = m]
       /\ Goto(t, IF m.op = "payload" THEN "payload" ELSE "registry")
  /\ calls' = [calls EXCEPT ![t] = @ + 1]
  /\ state' = [state EXCEPT ![t] = 0]
  /\ UNCHANGED <<world, env, exported, loggers, registryOwner, writeOwner, todo, out, returned>>
-----------------------------------------------------------------------------
(* get_logger_state                                                        *)

(* Mutant: the list is searched without the mutex.                           *)
RegistryUnlocked(t) == t \in Threads

RegistryFree(t) == registryOwner = Nobody

(* Mutant: every call says anew whether its logger uses the bridge.           *)
LastCallerSays(logger, m) == m.bridge

(* Only EwtsInit asks for the bridge, and nothing takes it back.             *)
UsesNgen(logger, m) == logger.useNgen \/ (m.op = "init" /\ m.bridge)

Named(id) == {i \in DOMAIN loggers : loggers[i].id = id}

(* Locks, finds the logger and unlocks.                                     *)
FindLogger(t) ==
  /\ pc[t] = "registry" /\ RegistryFree(t) /\ Named(call[t].id) # {}
  /\ \E i \in Named(call[t].id) :
       /\ loggers' = [loggers EXCEPT ![i].useNgen = UsesNgen(loggers[i], call[t])]
       /\ state' = [state EXCEPT ![t] = i]
  /\ Goto(t, "entered")
  /\ UNCHANGED <<world, env, exported, registryOwner, writeOwner, call, calls, todo, out,
                 returned>>

(* Locks and finds none; the mutex is held until the new one is initialised.  *)
MissLogger(t) ==
  /\ pc[t] = "registry" /\ RegistryFree(t) /\ Named(call[t].id) = {}
  /\ registryOwner' = t
  /\ Goto(t, "create")
  /\ UNCHANGED <<world, env, exported, loggers, writeOwner, threadVars, out, returned>>

CreateLogger(t) ==
  /\ pc[t] = "create"
  /\ loggers' = Append(loggers,
       [id |-> call[t].id, useNgen |-> call[t].op = "init" /\ call[t].bridge,
        enabled |-> TRUE, level |-> INFO, file |-> "none", fresh |-> FALSE])
  /\ state' = [state EXCEPT ![t] = Len(loggers) + 1]
  /\ Goto(t, "enabled")
  /\ UNCHANGED <<world, env, exported, registryOwner, writeOwner, call, calls, todo, out,
                 returned>>

(* init_logger_state reads EWTS_ENABLED and then the levels.  The lines that   *)
(* it prints to standard output (303-330) are left out: they are not part of *)
(* any message, and only g_registry_mutex is held, so that they may fall     *)
(* between two lines of a message that another thread writes there.          *)
ReadEnabled(t) ==
  /\ pc[t] = "enabled"
  /\ loggers' = [loggers EXCEPT ![state[t]].enabled = env.enabled,
                                ![state[t]].fresh = exported]
  /\ Goto(t, "level")
  /\ UNCHANGED <<world, env, exported, registryOwner, writeOwner, threadVars, out, returned>>

ReadLevel(t) ==
  /\ pc[t] = "level"
  /\ loggers' = [loggers EXCEPT ![state[t]].level = InitialLevel(call[t].id)]
  /\ registryOwner' = Nobody
  /\ Goto(t, "entered")
  /\ UNCHANGED <<world, env, exported, writeOwner, threadVars, out, returned>>

(* EwtsInit and the queries end here.                                       *)
ReturnLogger(t) ==
  /\ pc[t] = "entered" /\ call[t].op # "log"
  /\ Return(t, "done")
  /\ UNCHANGED <<world, env, exported, loggers, registryOwner, writeOwner, threadVars, out>>
-----------------------------------------------------------------------------
(* v_log_with_state                                                        *)

Discard(t) ==
  LET st == loggers[state[t]] IN
  /\ pc[t] = "entered" /\ call[t].op = "log"
  /\ \/ ~st.enabled /\ Return(t, "disabled")
     \/ st.enabled /\ call[t].level < st.level /\ Return(t, "filtered")
  /\ UNCHANGED <<world, env, exported, loggers, registryOwner, writeOwner, threadVars, out>>

(* useNgen is read with no lock: another thread's EwtsInit may just set it.   *)
Accept(t) ==
  LET st == loggers[state[t]] IN
  /\ pc[t] = "entered" /\ call[t].op = "log"
  /\ st.enabled /\ call[t].level >= st.level
  /\ Goto(t, IF st.useNgen /\ BridgeActive THEN "bridge" ELSE "wait")
  /\ todo' = [todo EXCEPT ![t] = LinesOf(call[t])]
  /\ UNCHANGED <<world, env, exported, loggers, registryOwner, writeOwner, call, calls, state,
                 out, returned>>

(* ewts_ngen_log takes the message whole.  The ngen logger initialises at     *)
(* its first message.                                                       *)
Whole(t, lines) ==
  LET sorted == Sorted(lines) IN [i \in DOMAIN sorted |-> Piece(t, sorted[i])]

CallBridge(t) ==
  /\ pc[t] = "bridge"
  /\ out' = [out EXCEPT !["ngen"] = @ \o Whole(t, todo[t])]
  /\ Exports
  /\ Return(t, "ngen")
  /\ UNCHANGED <<world, loggers, registryOwner, writeOwner, threadVars>>

(* EwtsPayloadStatus does not look at any logger.                            *)
SendPayload(t) ==
  /\ pc[t] = "payload"
  /\ \/ /\ BridgeActive
        /\ out' = [out EXCEPT !["ngen"] = Append(@, Piece(t, 0))]
        /\ Exports
        /\ Return(t, "ngen")
     \/ ~BridgeActive /\ Return(t, "dropped") /\ UNCHANGED <<env, exported, out>>
  /\ UNCHANGED <<world, loggers, registryOwner, writeOwner, threadVars>>
-----------------------------------------------------------------------------
(* Standalone output.                                                      *)

(* Mutant: the mutex protects only the opening of the file.                  *)
WriteUnlocked(t) == t \in Threads

WriteFree(t) == writeOwner = Nobody

(* Mutant: standard output is used for one message, then the file is tried    *)
(* again.                                                                   *)
ReopenFile(file) ==
  IF file = "file" THEN {"file"} ELSE IF world.logDir THEN {"file", "stdout"} ELSE {"stdout"}

(* open_standalone_file: fopen() may fail, or the path be too long; standard  *)
(* output then stays the destination.                                       *)
StandaloneFiles(file) ==
  IF file # "none" THEN {file} ELSE IF world.logDir THEN {"file", "stdout"} ELSE {"stdout"}

LockWrite(t) ==
  /\ pc[t] = "wait" /\ WriteFree(t)
  /\ \E file \in StandaloneFiles(loggers[state[t]].file) :
       loggers' = [loggers EXCEPT ![state[t]].file = file]
  /\ writeOwner' = t
  /\ Goto(t, "write")
  /\ UNCHANGED <<world, env, exported, registryOwner, threadVars, out, returned>>

SinkOf(t) == IF loggers[state[t]].file = "file" THEN call[t].id ELSE "stdout"

WriteLine(t) ==
  /\ pc[t] = "write"
  /\ \E line \in todo[t] :
       /\ \A other \in todo[t] : line <= other
       /\ out' = [out EXCEPT ![SinkOf(t)] = Append(@, Piece(t, line))]
       /\ todo' = [todo EXCEPT ![t] = @ \ {line}]
  /\ UNCHANGED <<world, env, exported, loggers, registryOwner, writeOwner, pc, call, calls,
                 state, returned>>

UnlockWrite(t) ==
  /\ pc[t] = "write" /\ todo[t] = {}
  /\ writeOwner' = Nobody
  /\ Return(t, SinkOf(t))
  /\ UNCHANGED <<world, env, exported, loggers, registryOwner, threadVars, out>>
-----------------------------------------------------------------------------
Finished ==
  /\ \A t \in Threads : pc[t] = "idle" /\ calls[t] = MaxCalls
  /\ UNCHANGED vars

Registry(t) == FindLogger(t) \/ MissLogger(t) \/ CreateLogger(t) \/ ReadEnabled(t)
                 \/ ReadLevel(t) \/ ReturnLogger(t)
Output(t) == Discard(t) \/ Accept(t) \/ CallBridge(t) \/ SendPayload(t)
               \/ LockWrite(t) \/ WriteLine(t) \/ UnlockWrite(t)
Work(t) == Registry(t) \/ Output(t)

Next == (\E t \in Threads : Call(t) \/ Work(t)) \/ NgenInitialises \/ Finished

Spec == Init /\ [][Next]_vars
-----------------------------------------------------------------------------
(* What must hold.                                                         *)

Pieces == [by : Threads, n : 1..MaxCalls, id : Ids, line : Nat]

(* Every variable stays in its domain, a thread that works with a logger has   *)
(* one that exists, and only the owner of a mutex is in the code it protects.  *)
TypeOK ==
  /\ world \in Worlds /\ env \in Environment /\ exported \in BOOLEAN
  /\ loggers \in Seq(LoggerState)
  /\ registryOwner \in Threads \cup {Nobody} /\ writeOwner \in Threads \cup {Nobody}
  /\ pc \in [Threads -> Locations] /\ call \in [Threads -> Request]
  /\ calls \in [Threads -> 0..MaxCalls]
  /\ state \in [Threads -> 0..Len(loggers)]
  /\ todo \in [Threads -> SUBSET Nat]
  /\ out \in [Sinks -> Seq(Pieces)]
  /\ \A t \in Threads : pc[t] \in {"create", "enabled", "level"} <=> registryOwner = t
  /\ \A t \in Threads : pc[t] = "write" <=> writeOwner = t

(* However many threads name an id for the first time at once, one logger is   *)
(* created for it, and every call works with the logger of the id it names.   *)
OneLoggerPerId ==
  /\ \A i, j \in DOMAIN loggers : loggers[i].id = loggers[j].id => i = j
  /\ \A t \in Threads : state[t] # 0 => loggers[state[t]].id = call[t].id

Standalone(r) == r.path \in Ids \cup {"stdout"}

(* The standalone output of an id is never spread over its file and standard   *)
(* output, even if opening the file succeeds later.                          *)
OneDestination ==
  \A r1, r2 \in {r \in returned : Standalone(r)} : r1.req.id = r2.req.id => r1.path = r2.path

(* When EwtsInit(id, true) has returned to a thread of a process with ngen,     *)
(* that thread's messages for the id never end up standalone, whatever other  *)
(* threads and other entry points do with the logger in between.             *)
BridgeKept ==
  \A r1, r2 \in returned :
    /\ r1.req.op = "init" /\ r1.req.bridge /\ BridgeActive
    /\ r1.by = r2.by /\ r1.n < r2.n /\ r1.req.id = r2.req.id
    => ~Standalone(r2)

(* A message that the runtime keeps from ngen is one that ngen would filter     *)
(* too, if the logger read its settings after ngen had exported them.  An     *)
(* exported NOTSET is no level to the runtime, which then looks further.      *)
AdoptsNgenLevels ==
  \A r \in returned :
    /\ r.path = "filtered" /\ loggers[r.logger].fresh
    /\ world.ngenLevel[r.req.id] # NOTSET
    => r.req.level < world.ngenLevel[r.req.id]
=============================================================================
