---------------------------- MODULE CppRuntimeProofs ----------------------------
(***************************************************************************)
(* Theorems about the C++ runtime, for any number of threads, ids, requests  *)
(* and worlds.                                                               *)
(***************************************************************************)
EXTENDS CppMessageLog, SortedLines, FiniteSetTheorems, TLAPS

(* The inductive invariant                                                   *)

(* A Logger whose settings are complete: nothing changes them any more.      *)
Settled(id) == id \in DOMAIN loggers /\ loggers[id].initialized /\ initOwner[id] = Nobody

(* The filter of Logger::Log                                                 *)
Passes(m, id) == loggers[id].enabled /\ m.level >= loggers[id].level

(* Which side of the bridge the messages of a Logger go to                   *)
UsesBridge(id) == loggers[id].useNgen /\ world.resultsDir /\ found["log"] = "there"

(* Where a message is that has passed the filter                             *)
Accepted == {"bridge", "wait", "write"}

(* The calls of EwtsInit by which t has returned                             *)
OwnInits(t) == {i \in returned : i.by = t /\ i.req.op = "init"}

(* What is remembered of a call                                              *)
Returns == [by : Threads, n : 1..MaxCalls, req : Request, path : Paths, logger : Ids]

(* The current Logger of a thread is the one of its last EwtsInit.           *)
CurrentInv(t) ==
  /\ pc[t] # "idle" /\ call[t].op = "init" => current[t] = call[t].id
  /\ pc[t] = "idle" \/ call[t].op # "init" =>
       \/ OwnInits(t) = {} /\ current[t] = "none"
       \/ \E i \in OwnInits(t) : i.req.id = current[t] /\ \A j \in OwnInits(t) : j.n <= i.n
  /\ pc[t] # "idle" /\ call[t].op = "log" =>
       logger[t] = IF current[t] # "none" THEN current[t] ELSE Fallback

(* What a thread knows where it is: nobody gets past init_once before the    *)
(* settings are complete, nor past the filter with a message that it drops,  *)
(* nor past the lookup to the other side of the bridge.                      *)
ThreadInv(t) ==
  /\ pc[t] # "idle" => calls[t] \in 1..MaxCalls
  /\ pc[t] = "payload" => call[t].op = "payload"
  /\ pc[t] \in {"init", "level"} => call[t].op \in {"log", "logOn", "query"}
  /\ pc[t] = "ready" => call[t].op # "payload"
  /\ pc[t] \notin {"idle", "payload"} => logger[t] \in DOMAIN loggers
  /\ pc[t] = "level" =>
       loggers[logger[t]].initialized /\ (loggers[logger[t]].fresh => exported)
  /\ pc[t] \in {"ready"} \cup Accepted /\ call[t].op # "init" => Settled(logger[t])
  /\ pc[t] \in Accepted =>
       /\ IsMessage(call[t]) /\ Passes(call[t], logger[t]) /\ found["log"] # "unknown"
       /\ pc[t] = "bridge" <=> UsesBridge(logger[t])

(* What a call that returned has seen is still so.                           *)
ReturnInv(r) ==
  /\ r \in Returns
  /\ r.n <= calls[r.by] /\ (pc[r.by] # "idle" => r.n < calls[r.by])
  /\ r.path = "filtered" => IsMessage(r.req)
  /\ IsMessage(r.req) =>
       /\ Settled(r.logger)
       /\ r.path = "disabled" <=> ~loggers[r.logger].enabled
       /\ r.path = "filtered" <=>
            loggers[r.logger].enabled /\ r.req.level < loggers[r.logger].level
       /\ r.path = "ngen" => UsesBridge(r.logger)
       /\ Standalone(r) => ~UsesBridge(r.logger) /\ found["log"] # "unknown"

(* After the export the levels of the environment are those of ngen.         *)
ExportedByNgen ==
  exported => \A id \in Ids : env.level[id] = [digits |-> TRUE, value |-> world.ngenLevel[id],
                                               name |-> ""]

(* A Logger that read its settings after the export has ngen's level.        *)
FreshLevels ==
  \A id \in DOMAIN loggers :
    loggers[id].fresh /\ Settled(id) /\ world.ngenLevel[id] # NOTSET
      => loggers[id].level = world.ngenLevel[id]

(* The inductive invariant: what holds of threads, Loggers and past calls    *)
Inv ==
  /\ TypeOK /\ ExportedByNgen /\ FreshLevels /\ OwnLogger
  /\ \A t \in Threads : ThreadInv(t) /\ CurrentInv(t)
  /\ \A r \in returned : ReturnInv(r)
-----------------------------------------------------------------------------
(* A step of t keeps what the Loggers are to other threads: whether one uses *)
(* ngen is never changed, and complete settings neither; the lookup is done  *)
(* once, and the file of a Logger is opened under its mutex.                 *)
Keeps(t) ==
  /\ DOMAIN loggers \subseteq DOMAIN loggers'
  /\ \A id \in DOMAIN loggers :
       /\ loggers'[id].useNgen = loggers[id].useNgen
       /\ loggers[id].initialized => loggers'[id].initialized
       /\ Settled(id) =>
            /\ initOwner'[id] = Nobody /\ loggers'[id].fresh = loggers[id].fresh
            /\ loggers'[id].enabled = loggers[id].enabled /\ loggers'[id].level = loggers[id].level
       /\ initOwner[id] \notin {Nobody, t} => loggers'[id].fresh = loggers[id].fresh
       /\ logOwner[id] # Nobody => loggers'[id].open = loggers[id].open
  /\ found["log"] # "unknown" => found'["log"] = found["log"]
  /\ world' = world /\ (exported => exported')

(* It moves no other thread, and returns to none but t.                      *)
Alone(t) ==
  /\ \A u \in Threads \ {t} :
       /\ pc'[u] = pc[u] /\ call'[u] = call[u] /\ calls'[u] = calls[u]
       /\ logger'[u] = logger[u] /\ current'[u] = current[u] /\ parts'[u] = parts[u]
  /\ \/ calls'[t] = calls[t] /\ pc[t] # "idle"
     \/ calls'[t] = calls[t] + 1
  /\ returned \subseteq returned'
  /\ \A r \in returned' \ returned :
       r.by = t /\ r.n = calls[t] /\ r.req = call[t] /\ r.logger = logger[t] /\ pc[t] # "idle"

(* What is kept of a Logger with complete settings                           *)
LEMMA SettledKept ==
  ASSUME NEW t \in Threads, Keeps(t), NEW id, Settled(id)
  PROVE  /\ Settled(id)' /\ loggers'[id].enabled = loggers[id].enabled
         /\ loggers'[id].level = loggers[id].level /\ loggers'[id].fresh = loggers[id].fresh
         /\ (found["log"] # "unknown" => UsesBridge(id)' = UsesBridge(id))
         /\ (UsesBridge(id) => UsesBridge(id)')
<1>1. id \in DOMAIN loggers /\ loggers[id].initialized
  BY DEF Settled
<1>2. /\ id \in DOMAIN loggers' /\ loggers'[id].initialized /\ initOwner'[id] = Nobody
      /\ loggers'[id].enabled = loggers[id].enabled /\ loggers'[id].level = loggers[id].level
      /\ loggers'[id].fresh = loggers[id].fresh /\ loggers'[id].useNgen = loggers[id].useNgen
  BY <1>1 DEF Keeps
<1>3. Settled(id)'
  BY <1>2 DEF Settled
<1>4. /\ found["log"] # "unknown" => UsesBridge(id)' = UsesBridge(id)
      /\ UsesBridge(id) => UsesBridge(id)'
  BY <1>2 DEF Keeps, UsesBridge
<1> QED BY <1>2, <1>3, <1>4

(* Any such step keeps what the other threads know, and the earlier returns. *)
LEMMA OthersKept ==
  ASSUME Inv, NEW t \in Threads, Keeps(t), Alone(t)
  PROVE  /\ \A u \in Threads \ {t} : ThreadInv(u)' /\ CurrentInv(u)'
         /\ \A r \in returned : ReturnInv(r)'
<1>1. TypeOK /\ calls \in [Threads -> 0..MaxCalls] /\ MaxCalls \in Nat /\ Nobody \notin Threads
  BY ConstantsAssumption DEF Inv, TypeOK
<1>2. ASSUME NEW u \in Threads \ {t} PROVE ThreadInv(u)' /\ CurrentInv(u)'
  <2>1. ThreadInv(u) /\ CurrentInv(u)
    BY DEF Inv
  <2>2. /\ pc'[u] = pc[u] /\ call'[u] = call[u] /\ calls'[u] = calls[u]
        /\ logger'[u] = logger[u] /\ current'[u] = current[u]
    BY DEF Alone
  <2>3. OwnInits(u)' = OwnInits(u)
    BY DEF Alone, OwnInits
  <2>4. CurrentInv(u)'
    BY <2>1, <2>2, <2>3 DEF CurrentInv
  <2>5. logger[u] \in DOMAIN loggers => logger[u] \in DOMAIN loggers'
    BY DEF Keeps
  <2>6. pc[u] = "level" =>
          loggers'[logger[u]].initialized /\ (loggers'[logger[u]].fresh => exported')
    <3> SUFFICES ASSUME pc[u] = "level"
                 PROVE  loggers'[logger[u]].initialized /\ (loggers'[logger[u]].fresh => exported')
      OBVIOUS
    <3>1. logger[u] \in DOMAIN loggers /\ logger[u] \in Ids
      BY <1>1, <2>1 DEF ThreadInv, TypeOK
    <3>2. initOwner[logger[u]] = u
      BY <1>1, <3>1 DEF TypeOK
    <3>3. loggers'[logger[u]].fresh = loggers[logger[u]].fresh
      BY <1>1, <3>1, <3>2 DEF Keeps
    <3> QED BY <2>1, <3>1, <3>3 DEF Keeps, ThreadInv
  <2>7. pc[u] \in {"ready"} \cup Accepted /\ call[u].op # "init" => Settled(logger[u])'
    <3> SUFFICES ASSUME pc[u] \in {"ready"} \cup Accepted, call[u].op # "init"
                 PROVE  Settled(logger[u])'
      OBVIOUS
    <3>1. Settled(logger[u])
      BY <2>1 DEF ThreadInv
    <3>2. PICK id : id = logger[u]
      OBVIOUS
    <3>3. Settled(id)'
      BY <3>1, <3>2, SettledKept
    <3> QED BY <2>2, <3>2, <3>3 DEF Settled
  <2>8. pc[u] \in Accepted =>
          /\ IsMessage(call[u]) /\ Passes(call[u], logger[u])' /\ found'["log"] # "unknown"
          /\ pc[u] = "bridge" <=> UsesBridge(logger[u])'
    <3> SUFFICES ASSUME pc[u] \in Accepted
                 PROVE  /\ IsMessage(call[u]) /\ Passes(call[u], logger[u])'
                        /\ found'["log"] # "unknown"
                        /\ pc[u] = "bridge" <=> UsesBridge(logger[u])'
      OBVIOUS
    <3>1. /\ IsMessage(call[u]) /\ Passes(call[u], logger[u]) /\ found["log"] # "unknown"
          /\ pc[u] = "bridge" <=> UsesBridge(logger[u])
      BY <2>1 DEF ThreadInv
    <3>2. PICK id : id = logger[u]
      OBVIOUS
    <3>3. Settled(id)
      BY <2>1, <3>1, <3>2 DEF ThreadInv, IsMessage
    <3>4. /\ loggers'[id].enabled = loggers[id].enabled /\ loggers'[id].level = loggers[id].level
          /\ UsesBridge(id)' = UsesBridge(id)
      BY <3>1, <3>3, SettledKept
    <3>5. found'["log"] # "unknown"
      BY <3>1 DEF Keeps
    <3>6. Passes(call[u], logger[u])'
      BY <2>2, <3>1, <3>2, <3>4 DEF Passes
    <3>7. UsesBridge(logger[u])' <=> UsesBridge(logger[u])
      BY <2>2, <3>2, <3>4 DEF UsesBridge
    <3> QED BY <3>1, <3>5, <3>6, <3>7
  <2>9. ThreadInv(u)'
    BY <2>1, <2>2, <2>5, <2>6, <2>7, <2>8 DEF ThreadInv, Passes, UsesBridge, Settled
  <2> QED BY <2>4, <2>9
<1>3. ASSUME NEW r \in returned PROVE ReturnInv(r)'
  <2>1. ReturnInv(r) /\ r.by \in Threads /\ r.n \in 1..MaxCalls /\ r \in Returns
    BY DEF Inv, ReturnInv, Returns
  <2>2. r.n <= calls'[r.by] /\ (pc'[r.by] # "idle" => r.n < calls'[r.by])
    <3>1. r.n <= calls[r.by] /\ (pc[r.by] # "idle" => r.n < calls[r.by])
      BY <2>1 DEF ReturnInv
    <3>2. calls[r.by] \in Nat /\ r.n \in Nat /\ calls[t] \in Nat
      BY <1>1, <2>1
    <3>3. CASE r.by = t
      BY <3>1, <3>2, <3>3 DEF Alone
    <3>4. CASE r.by # t
      BY <2>1, <3>1, <3>4 DEF Alone
    <3> QED BY <3>3, <3>4
  <2>3. ASSUME IsMessage(r.req)
        PROVE  /\ Settled(r.logger)'
               /\ r.path = "disabled" <=> ~loggers'[r.logger].enabled
               /\ r.path = "filtered" <=>
                    loggers'[r.logger].enabled /\ r.req.level < loggers'[r.logger].level
               /\ r.path = "ngen" => UsesBridge(r.logger)'
               /\ Standalone(r) => ~UsesBridge(r.logger)' /\ found'["log"] # "unknown"
    <3>1. Settled(r.logger)
      BY <2>1, <2>3 DEF ReturnInv
    <3>2. /\ Settled(r.logger)' /\ loggers'[r.logger].enabled = loggers[r.logger].enabled
          /\ loggers'[r.logger].level = loggers[r.logger].level
          /\ (found["log"] # "unknown" => UsesBridge(r.logger)' = UsesBridge(r.logger))
          /\ (UsesBridge(r.logger) => UsesBridge(r.logger)')
      BY <3>1, SettledKept
    <3>3. Standalone(r) => ~UsesBridge(r.logger)' /\ found'["log"] # "unknown"
      BY <2>1, <2>3, <3>2 DEF ReturnInv, Keeps
    <3> QED BY <2>1, <2>3, <3>2, <3>3 DEF ReturnInv
  <2>4. r.path = "filtered" => IsMessage(r.req)
    BY <2>1 DEF ReturnInv
  <2> QED BY <2>1, <2>2, <2>3, <2>4 DEF ReturnInv, Returns, Standalone
<1> QED BY <1>2, <1>3

(* Nor does it matter to the messages of the function Log() that have        *)
(* returned what returns now: their thread has moved on.                     *)
LEMMA OwnLoggerKept ==
  ASSUME Inv, NEW t \in Threads, Keeps(t), Alone(t)
  PROVE  OwnLogger'
<1>1. TypeOK /\ calls \in [Threads -> 0..MaxCalls] /\ MaxCalls \in Nat
  BY ConstantsAssumption DEF Inv, TypeOK
<1> DEFINE Before(r, set) == {i \in set : i.by = r.by /\ i.n < r.n /\ i.req.op = "init"}
           Own(r, set) ==
             \/ Before(r, set) = {} /\ r.logger = Fallback
             \/ \E i \in Before(r, set) :
                  i.req.id = r.logger /\ \A j \in Before(r, set) : j.n <= i.n
<1>2. OwnLogger = \A r \in returned : r.req.op = "log" => Own(r, returned)
  BY DEF OwnLogger
<1>3. OwnLogger' = \A r \in returned' : r.req.op = "log" => Own(r, returned')
  BY DEF OwnLogger
<1>4. ASSUME NEW r \in returned, r.req.op = "log" PROVE Own(r, returned')
  <2>1. Before(r, returned') = Before(r, returned)
    <3>1. returned \subseteq returned'
      BY DEF Alone
    <3>2. ASSUME NEW i \in returned' \ returned, i.by = r.by, i.n < r.n PROVE FALSE
      <4>1. i.by = t /\ i.n = calls[t] /\ pc[t] # "idle"
        BY DEF Alone
      <4>2. r.n < calls[t] /\ r.n \in Nat /\ calls[t] \in Nat
        <5>1. ReturnInv(r) /\ r.by = t
          BY <3>2, <4>1 DEF Inv
        <5> QED BY <1>1, <4>1, <5>1 DEF ReturnInv, Returns
      <4> QED BY <3>2, <4>1, <4>2
    <3> QED BY <3>1, <3>2
  <2>2. Own(r, returned)
    BY <1>2, <1>4 DEF Inv
  <2> HIDE DEF Before
  <2> QED BY <2>1, <2>2
<1>5. ASSUME NEW r \in returned' \ returned, r.req.op = "log" PROVE Own(r, returned')
  <2>1. /\ r.by = t /\ r.n = calls[t] /\ r.req = call[t] /\ r.logger = logger[t] /\ pc[t] # "idle"
        /\ returned \subseteq returned'
    BY DEF Alone
  <2>2. Before(r, returned') = OwnInits(t)
    <3>1. ASSUME NEW i \in returned' \ returned PROVE i.req.op # "init"
      BY <1>5, <2>1 DEF Alone
    <3>2. ASSUME NEW i \in returned, i.by = t PROVE i.n < calls[t]
      <4>1. ReturnInv(i)
        BY DEF Inv
      <4> QED BY <2>1, <3>2, <4>1 DEF ReturnInv
    <3> QED BY <2>1, <3>1, <3>2 DEF OwnInits
  <2>3. CurrentInv(t)
    BY DEF Inv
  <2>4. /\ \/ OwnInits(t) = {} /\ current[t] = "none"
           \/ \E i \in OwnInits(t) : i.req.id = current[t] /\ \A j \in OwnInits(t) : j.n <= i.n
        /\ logger[t] = IF current[t] # "none" THEN current[t] ELSE Fallback
    BY <1>5, <2>1, <2>3 DEF CurrentInv
  <2>5. "none" \notin Ids /\ \A i \in OwnInits(t) : i.req.id \in Ids
    <3>1. \A i \in OwnInits(t) : ReturnInv(i)
      BY DEF Inv, OwnInits
    <3> QED BY <3>1, ConstantsAssumption DEF ReturnInv, Returns, Request
  <2> HIDE DEF Before
  <2>6. CASE OwnInits(t) = {} /\ current[t] = "none"
    BY <2>1, <2>2, <2>4, <2>6
  <2>7. CASE \E i \in OwnInits(t) : i.req.id = current[t] /\ \A j \in OwnInits(t) : j.n <= i.n
    <3>1. PICK i \in OwnInits(t) : i.req.id = current[t] /\ \A j \in OwnInits(t) : j.n <= i.n
      BY <2>7
    <3>2. r.logger = i.req.id
      BY <2>1, <2>4, <2>5, <3>1
    <3> QED BY <2>2, <3>1, <3>2
  <2> QED BY <2>4, <2>6, <2>7
<1> QED BY <1>3, <1>4, <1>5

(* What t does is then all there is to check of a step.                      *)
LEMMA StepKeeps ==
  ASSUME Inv, NEW t \in Threads, Keeps(t), Alone(t), TypeOK', ExportedByNgen', FreshLevels',
         ThreadInv(t)', CurrentInv(t)', \A r \in returned' \ returned : ReturnInv(r)'
  PROVE  Inv' /\ Keeps(t) /\ Alone(t)
<1>1. /\ \A u \in Threads : ThreadInv(u)' /\ CurrentInv(u)'
      /\ \A r \in returned' : ReturnInv(r)'
  BY OthersKept
<1> QED BY <1>1, OwnLoggerKept DEF Inv

(* A step within a call: it moves t, and the current Logger stays.           *)
LEMMA MoveKeeps ==
  ASSUME Inv, NEW t \in Threads, NEW where \in Locations \ {"idle"},
         pc' = [pc EXCEPT ![t] = where], pc[t] # "idle",
         UNCHANGED <<call, calls, logger, current, returned>>,
         \A u \in Threads \ {t} : parts'[u] = parts[u]
  PROVE  /\ Alone(t) /\ CurrentInv(t)'
         /\ pc' \in [Threads -> Locations] /\ pc'[t] = where
         /\ \A u \in Threads \ {t} : pc'[u] = pc[u]
<1>1. pc \in [Threads -> Locations] /\ CurrentInv(t)
  BY DEF Inv, TypeOK
<1>2. /\ pc' \in [Threads -> Locations] /\ pc'[t] = where
      /\ \A u \in Threads \ {t} : pc'[u] = pc[u]
  BY <1>1
<1>3. Alone(t)
  BY <1>2 DEF Alone
<1>4. OwnInits(t)' = OwnInits(t)
  BY DEF OwnInits
<1>5. CurrentInv(t)'
  BY <1>1, <1>2, <1>4 DEF CurrentInv
<1> QED BY <1>2, <1>3, <1>5

(* Which owner holds which mutex, after a step that moves t between code     *)
(* that no mutex protects                                                    *)
LEMMA OwnersSame ==
  ASSUME Inv, NEW t \in Threads, UNCHANGED <<initOwner, logOwner>>,
         pc[t] \notin {"level", "write"}, pc'[t] \notin {"level", "write"},
         \A u \in Threads \ {t} : pc'[u] = pc[u] /\ logger'[u] = logger[u]
  PROVE  \A u \in Threads, id \in Ids :
           /\ initOwner'[id] = u <=> pc'[u] = "level" /\ logger'[u] = id
           /\ logOwner'[id] = u <=> pc'[u] = "write" /\ logger'[u] = id
<1>1. \A u \in Threads, id \in Ids :
        /\ initOwner[id] = u <=> pc[u] = "level" /\ logger[u] = id
        /\ logOwner[id] = u <=> pc[u] = "write" /\ logger[u] = id
  BY DEF Inv, TypeOK
<1>2. \A id \in Ids : initOwner[id] # t /\ logOwner[id] # t
  BY <1>1
<1> QED BY <1>1, <1>2

(* The levels that are read from the environment are numbers.                *)
LEMMA LevelTypes ==
  /\ \A raw \in RawLevel : EnvLevel(raw) \in Nat
  /\ env \in Environment => \A id \in Ids : InitialLevel(id) \in Nat
<1>1. ASSUME NEW raw \in RawLevel PROVE EnvLevel(raw) \in Nat
  BY DEF RawLevel, EnvLevel, EnvLevelName, NOTSET, DEBUG, PERFORM, INFO, WARNING, SEVERE, FATAL,
         STATUS
<1>2. ASSUME env \in Environment, NEW id \in Ids PROVE InitialLevel(id) \in Nat
  <2>1. EnvLevel(env.level[id]) \in Nat /\ EnvLevel(env.default) \in Nat
    BY <1>1, <1>2 DEF Environment
  <2> QED BY <2>1 DEF InitialLevel, INFO
<1> QED BY <1>1, <1>2

(* What ngen exports are settings, a number for the level of every id.       *)
LEMMA ExportTypes ==
  ASSUME TypeOK, Exports
  PROVE  /\ env' \in Environment /\ exported' = TRUE
         /\ ~exported => \A id \in Ids :
              env'.level[id] = [digits |-> TRUE, value |-> world.ngenLevel[id], name |-> ""]
<1>1. world \in World /\ env \in Environment
  BY ConstantsAssumption DEF TypeOK
<1>2. world.ngenEnabled \in BOOLEAN /\ world.ngenLevel \in [Ids -> CanonicalLevels]
  BY <1>1 DEF World
<1> DEFINE levels == [id \in Ids |-> [digits |-> TRUE, value |-> world.ngenLevel[id], name |-> ""]]
<1>3. \A id \in Ids : [digits |-> TRUE, value |-> world.ngenLevel[id], name |-> ""] \in RawLevel
  <2>1. CanonicalLevels \subseteq Nat
    BY DEF CanonicalLevels, NOTSET, DEBUG, PERFORM, INFO, WARNING, SEVERE, FATAL, STATUS
  <2>2. ASSUME NEW v \in Nat PROVE [digits |-> TRUE, value |-> v, name |-> ""] \in RawLevel
    BY DEF RawLevel, LevelWords
  <2>3. \A id \in Ids : world.ngenLevel[id] \in Nat
    BY <1>2, <2>1
  <2> QED BY <2>2, <2>3
<1>4. levels \in [Ids -> RawLevel] /\ \A id \in Ids :
        levels[id] = [digits |-> TRUE, value |-> world.ngenLevel[id], name |-> ""]
  BY <1>3
<1> HIDE DEF levels
<1>5. ExportedEnv = [env EXCEPT !.enabled = world.ngenEnabled, !.level = levels]
  BY DEF ExportedEnv, levels
<1>6. ExportedEnv \in Environment /\ ExportedEnv.level = levels
  BY <1>1, <1>2, <1>4, <1>5 DEF Environment
<1> QED BY <1>1, <1>4, <1>6 DEF Exports

(* The environment keeps its type, and stays as ngen exported it.            *)
LEMMA EnvKept ==
  ASSUME Inv, world' = world, UNCHANGED <<env, exported>> \/ Exports
  PROVE  /\ env' \in Environment /\ exported' \in BOOLEAN /\ (exported => exported')
         /\ ExportedByNgen'
<1>1. TypeOK /\ ExportedByNgen
  BY DEF Inv
<1>2. CASE UNCHANGED <<env, exported>>
  BY <1>1, <1>2 DEF TypeOK, ExportedByNgen
<1>3. CASE Exports
  <2>1. /\ env' \in Environment /\ exported' = TRUE
        /\ ~exported => \A id \in Ids :
             env'.level[id] = [digits |-> TRUE, value |-> world.ngenLevel[id], name |-> ""]
    BY <1>1, <1>3, ExportTypes
  <2>2. exported => env' = env
    BY <1>3 DEF Exports
  <2>3. ExportedByNgen'
    BY <1>1, <2>1, <2>2 DEF ExportedByNgen
  <2> QED BY <2>1, <2>3
<1> QED BY <1>2, <1>3

(* A step that completes no settings keeps what holds of the complete ones.  *)
LEMMA CalmLoggers ==
  ASSUME Inv, world' = world,
         \A id \in DOMAIN loggers' : loggers'[id].fresh /\ Settled(id)' =>
           Settled(id) /\ loggers[id].fresh /\ loggers'[id].level = loggers[id].level
  PROVE  FreshLevels'
<1> SUFFICES ASSUME NEW id \in DOMAIN loggers', loggers'[id].fresh, Settled(id)',
                    world.ngenLevel[id] # NOTSET
             PROVE  loggers'[id].level = world.ngenLevel[id]
  BY DEF FreshLevels
<1>1. Settled(id) /\ loggers[id].fresh /\ loggers'[id].level = loggers[id].level
  OBVIOUS
<1> QED BY <1>1 DEF Inv, FreshLevels, Settled

(* A step that leaves the Loggers and the lookup alone keeps them.           *)
LEMMA SameLoggers ==
  ASSUME Inv, NEW t \in Threads, UNCHANGED <<world, loggers, initOwner>>,
         found["log"] # "unknown" => found'["log"] = found["log"],
         exported => exported'
  PROVE  Keeps(t) /\ FreshLevels'
<1>1. Keeps(t)
  BY DEF Keeps, Settled
<1>2. FreshLevels'
  BY CalmLoggers DEF Settled
<1> QED BY <1>1, <1>2
-----------------------------------------------------------------------------
(* The initial states                                                        *)
LEMMA InitInv == Init => Inv
<1> SUFFICES ASSUME Init PROVE Inv
  OBVIOUS
<1>1. /\ world \in Worlds /\ env = world.env /\ exported = FALSE
      /\ loaded = world.linked /\ found = [f \in Lookups |-> "unknown"]
      /\ loggers = [id \in {} |-> 0]
      /\ initOwner = [id \in Ids |-> Nobody] /\ logOwner = [id \in Ids |-> Nobody]
      /\ current = [t \in Threads |-> "none"] /\ pc = [t \in Threads |-> "idle"]
      /\ call = [t \in Threads |-> CHOOSE m \in Sends[t] : TRUE]
      /\ calls = [t \in Threads |-> 0] /\ logger = [t \in Threads |-> Fallback]
      /\ parts = [t \in Threads |-> {}] /\ out = [s \in Sinks |-> <<>>] /\ returned = {}
  BY DEF Init
<1>2. \A t \in Threads : call[t] \in Request
  <2> TAKE t \in Threads
  <2>1. \E m \in Sends[t] : TRUE
    BY ConstantsAssumption
  <2>2. call[t] \in Sends[t]
    BY <1>1, <2>1
  <2> QED BY <2>2, ConstantsAssumption
<1>3. DOMAIN loggers = {}
  BY <1>1
<1>4. TypeOK
  <2>1. world \in World /\ env \in Environment /\ loaded \in BOOLEAN
    BY <1>1, ConstantsAssumption DEF World
  <2>2. call \in [Threads -> Request]
    BY <1>1, <1>2
  <2>3. /\ pc \in [Threads -> Locations] /\ found \in [Lookups -> {"unknown", "there", "missing"}]
        /\ calls \in [Threads -> 0..MaxCalls] /\ logger \in [Threads -> Ids]
        /\ current \in [Threads -> DOMAIN loggers \cup {"none"}]
        /\ parts \in [Threads -> SUBSET Parts] /\ out \in [Sinks -> Seq(Pieces)]
    BY <1>1, ConstantsAssumption DEF Locations
  <2>4. /\ initOwner \in [Ids -> Threads \cup {Nobody}]
        /\ logOwner \in [Ids -> Threads \cup {Nobody}]
    BY <1>1
  <2>5. loggers \in [DOMAIN loggers -> Logger]
    BY <1>1, <1>3
  <2>6. \A t \in Threads, id \in Ids :
          /\ initOwner[id] = t <=> pc[t] = "level" /\ logger[t] = id
          /\ logOwner[id] = t <=> pc[t] = "write" /\ logger[t] = id
    BY <1>1, ConstantsAssumption
  <2> QED BY <1>1, <1>3, <2>1, <2>2, <2>3, <2>4, <2>5, <2>6 DEF TypeOK
<1>5. ExportedByNgen /\ FreshLevels /\ OwnLogger
  BY <1>1, <1>3 DEF ExportedByNgen, FreshLevels, OwnLogger
<1>6. ASSUME NEW t \in Threads PROVE ThreadInv(t) /\ CurrentInv(t)
  <2>1. pc[t] = "idle" /\ current[t] = "none" /\ OwnInits(t) = {}
    BY <1>1 DEF OwnInits
  <2> QED BY <2>1 DEF ThreadInv, CurrentInv, Accepted
<1> QED BY <1>1, <1>4, <1>5, <1>6 DEF Inv

(* Each action keeps the invariant.                                          *)

(* Steps around the runtime: the ngen logger exports its settings, the       *)
(* bridge is loaded.                                                         *)
LEMMA AroundKeeps == Inv /\ (NgenInitialises \/ LoadBridge) => Inv'
<1> SUFFICES ASSUME Inv, NgenInitialises \/ LoadBridge PROVE Inv'
  OBVIOUS
<1>1. /\ UNCHANGED <<world, found, loggers, initOwner, logOwner, pc, current, call, calls>>
      /\ UNCHANGED <<logger, parts, out, returned>>
      /\ UNCHANGED <<env, exported>> \/ Exports
      /\ loaded' \in BOOLEAN
  BY DEF NgenInitialises, LoadBridge, threadVars, Inv, TypeOK
<1>2. /\ env' \in Environment /\ exported' \in BOOLEAN /\ (exported => exported')
      /\ ExportedByNgen'
  BY <1>1, EnvKept
<1>3. TypeOK'
  BY <1>1, <1>2 DEF Inv, TypeOK
<1>4. FreshLevels'
  BY <1>1, CalmLoggers DEF Settled
<1>5. OwnLogger'
  BY <1>1 DEF Inv, OwnLogger
<1>6. ASSUME NEW t \in Threads PROVE ThreadInv(t)' /\ CurrentInv(t)'
  <2>1. ThreadInv(t) /\ CurrentInv(t)
    BY DEF Inv
  <2>2. ThreadInv(t)'
    BY <1>1, <1>2, <2>1 DEF ThreadInv, Settled, Passes, UsesBridge
  <2>3. OwnInits(t)' = OwnInits(t)
    BY <1>1 DEF OwnInits
  <2> QED BY <1>1, <2>1, <2>2, <2>3 DEF CurrentInv
<1>7. ASSUME NEW r \in returned PROVE ReturnInv(r)'
  BY <1>1 DEF Inv, ReturnInv, Settled, UsesBridge
<1> QED BY <1>1, <1>2, <1>3, <1>4, <1>5, <1>6, <1>7 DEF Inv

(* GetLogger leaves the Loggers as they are, and adds one that is not        *)
(* initialised.                                                              *)
LEMMA GetLoggerType ==
  ASSUME TypeOK, NEW id \in Ids, NEW bridge \in BOOLEAN, NEW new, new = GetLogger(id, bridge)
  PROVE  /\ DOMAIN new = DOMAIN loggers \cup {id} /\ new \in [DOMAIN new -> Logger]
         /\ \A i \in DOMAIN loggers : new[i] = loggers[i]
         /\ \A i \in DOMAIN new \ DOMAIN loggers : ~new[i].fresh
<1> DEFINE r == [useNgen |-> bridge, initialized |-> FALSE, enabled |-> TRUE,
                 level |-> INFO, open |-> FALSE, fresh |-> FALSE]
<1>1. r \in Logger /\ ~r.fresh
  BY DEF Logger, INFO
<1>2. loggers \in [DOMAIN loggers -> Logger]
  BY DEF TypeOK
<1>3. CASE id \in DOMAIN loggers
  BY <1>2, <1>3 DEF GetLogger
<1>4. CASE id \notin DOMAIN loggers
  <2>1. new = [i \in DOMAIN loggers \cup {id} |-> IF i = id THEN r ELSE loggers[i]]
    BY <1>4 DEF GetLogger
  <2> HIDE DEF r
  <2> QED BY <1>1, <1>2, <1>4, <2>1
<1> QED BY <1>3, <1>4

(* The Logger that a call works with is one of an id.                        *)
LEMMA WantedType == ASSUME TypeOK, NEW t \in Threads, NEW m \in Request PROVE Wanted(t, m) \in Ids
<1>1. m.id \in Ids /\ current[t] \in DOMAIN loggers \cup {"none"} /\ DOMAIN loggers \subseteq Ids
  BY DEF TypeOK, Request
<1> QED BY <1>1, ConstantsAssumption DEF Wanted

(* A call finds its Logger or adds it: the current one of the thread for     *)
(* Log().                                                                    *)
LEMMA CallKeeps ==
  ASSUME NEW t \in Threads
  PROVE  Inv /\ Call(t) => Inv' /\ Keeps(t) /\ Alone(t)
<1> SUFFICES ASSUME Inv, Call(t) PROVE Inv' /\ Keeps(t) /\ Alone(t)
  OBVIOUS
<1>1. /\ pc[t] = "idle" /\ calls[t] < MaxCalls /\ calls' = [calls EXCEPT ![t] = @ + 1]
      /\ UNCHANGED <<world, env, exported, loaded, found, initOwner, logOwner, parts>>
      /\ UNCHANGED <<out, returned>>
  BY DEF Call, process
<1>2. PICK m \in Sends[t] :
        /\ call' = [call EXCEPT ![t] = m]
        /\ logger' = [logger EXCEPT ![t] = Wanted(t, m)]
        /\ IF m.op = "payload" THEN UNCHANGED loggers
           ELSE loggers' = GetLogger(Wanted(t, m), m.bridge \/ m.op \in {"log", "query"})
        /\ IF m.op = "init" THEN current' = CurrentOf(t, m.id) ELSE UNCHANGED current
        /\ pc' = [pc EXCEPT ![t] = IF m.op = "payload" THEN "payload"
                                   ELSE IF m.op = "init" THEN "ready" ELSE "init"]
  BY DEF Call, Goto
<1>3. /\ TypeOK /\ m \in Request /\ m.id \in Ids /\ MaxCalls \in Nat
      /\ m.op \in {"init", "log", "logOn", "query", "payload"} /\ m.bridge \in BOOLEAN
  BY ConstantsAssumption DEF Inv, Request
<1>4. PICK id \in Ids : id = Wanted(t, m)
  BY <1>3, WantedType
<1>5. PICK where \in {"payload", "ready", "init"} :
        /\ pc' = [pc EXCEPT ![t] = where]
        /\ where = IF m.op = "payload" THEN "payload" ELSE IF m.op = "init" THEN "ready" ELSE "init"
  BY <1>2
<1>6. /\ pc' \in [Threads -> Locations] /\ pc'[t] = where /\ call'[t] = m /\ logger'[t] = id
      /\ calls'[t] = calls[t] + 1 /\ calls'[t] \in 1..MaxCalls
      /\ \A u \in Threads \ {t} : pc'[u] = pc[u] /\ logger'[u] = logger[u]
  BY <1>1, <1>2, <1>3, <1>4, <1>5 DEF TypeOK, Locations
<1>7. /\ DOMAIN loggers \subseteq DOMAIN loggers' /\ DOMAIN loggers' \subseteq Ids
      /\ loggers' \in [DOMAIN loggers' -> Logger]
      /\ \A i \in DOMAIN loggers : loggers'[i] = loggers[i]
      /\ \A i \in DOMAIN loggers' \ DOMAIN loggers : ~loggers'[i].fresh
      /\ m.op # "payload" => id \in DOMAIN loggers'
  <2>1. CASE m.op = "payload"
    BY <1>2, <1>3, <2>1 DEF TypeOK
  <2>2. CASE m.op # "payload"
    <3>1. PICK bridge \in BOOLEAN : bridge = (m.bridge \/ m.op \in {"log", "query"})
      BY <1>3
    <3>2. loggers' = GetLogger(id, bridge)
      BY <1>2, <1>4, <2>2, <3>1
    <3>3. /\ DOMAIN loggers' = DOMAIN loggers \cup {id} /\ loggers' \in [DOMAIN loggers' -> Logger]
          /\ \A i \in DOMAIN loggers : loggers'[i] = loggers[i]
          /\ \A i \in DOMAIN loggers' \ DOMAIN loggers : ~loggers'[i].fresh
      BY <1>3, <3>2, GetLoggerType
    <3> QED BY <1>3, <3>3 DEF TypeOK
  <2> QED BY <2>1, <2>2
<1>8. /\ current' \in [Threads -> DOMAIN loggers' \cup {"none"}]
      /\ m.op = "init" => current'[t] = m.id
      /\ m.op # "init" => current' = current
      /\ \A u \in Threads \ {t} : current'[u] = current[u]
  <2>1. CASE m.op = "init"
    <3>1. id = m.id /\ current' = [current EXCEPT ![t] = m.id]
      BY <1>2, <1>4, <2>1 DEF Wanted, CurrentOf
    <3> QED BY <1>3, <1>7, <2>1, <3>1 DEF TypeOK
  <2>2. CASE m.op # "init"
    BY <1>2, <1>3, <1>7, <2>2 DEF TypeOK
  <2> QED BY <2>1, <2>2
<1>9. TypeOK'
  <2>1. \A u \in Threads, i \in Ids :
          /\ initOwner'[i] = u <=> pc'[u] = "level" /\ logger'[u] = i
          /\ logOwner'[i] = u <=> pc'[u] = "write" /\ logger'[u] = i
    BY <1>1, <1>6, OwnersSame
  <2>2. call' \in [Threads -> Request] /\ calls' \in [Threads -> 0..MaxCalls]
        /\ logger' \in [Threads -> Ids]
    BY <1>1, <1>2, <1>3, <1>4 DEF TypeOK
  <2> QED BY <1>1, <1>3, <1>6, <1>7, <1>8, <2>1, <2>2 DEF TypeOK
<1>10. Alone(t)
  <2>1. \A u \in Threads \ {t} : call'[u] = call[u] /\ calls'[u] = calls[u]
    BY <1>1, <1>2, <1>3 DEF TypeOK
  <2>2. \A u \in Threads \ {t} : parts'[u] = parts[u]
    BY <1>1
  <2>3. \A u \in Threads \ {t} :
          pc'[u] = pc[u] /\ logger'[u] = logger[u] /\ current'[u] = current[u]
    BY <1>6, <1>8
  <2>4. returned' = returned /\ calls'[t] = calls[t] + 1
    BY <1>1, <1>6
  <2>5. /\ \A u \in Threads \ {t} :
             /\ pc'[u] = pc[u] /\ call'[u] = call[u] /\ calls'[u] = calls[u]
             /\ logger'[u] = logger[u] /\ current'[u] = current[u] /\ parts'[u] = parts[u]
        /\ returned \subseteq returned' /\ returned' \ returned = {}
    BY <2>1, <2>2, <2>3, <2>4
  <2> QED BY <2>4, <2>5 DEF Alone
<1>11. Keeps(t)
  BY <1>1, <1>7 DEF Keeps, Settled
<1>12. ExportedByNgen' /\ FreshLevels'
  <2>1. ExportedByNgen'
    BY <1>1 DEF Inv, ExportedByNgen
  <2>2. \A i \in DOMAIN loggers' : loggers'[i].fresh /\ Settled(i)' =>
          Settled(i) /\ loggers[i].fresh /\ loggers'[i].level = loggers[i].level
    BY <1>1, <1>7 DEF Settled
  <2> QED BY <1>1, <2>1, <2>2, CalmLoggers
<1>13. ThreadInv(t)'
  BY <1>3, <1>5, <1>6, <1>7 DEF ThreadInv, Accepted
<1>14. CurrentInv(t)'
  <2>1. OwnInits(t)' = OwnInits(t)
    BY <1>1 DEF OwnInits
  <2>2. \/ OwnInits(t) = {} /\ current[t] = "none"
        \/ \E i \in OwnInits(t) : i.req.id = current[t] /\ \A j \in OwnInits(t) : j.n <= i.n
    BY <1>1 DEF Inv, CurrentInv
  <2>3. m.op = "log" => id = IF current[t] # "none" THEN current[t] ELSE Fallback
    BY <1>4 DEF Wanted
  <2>4. pc'[t] # "idle"
    BY <1>6
  <2>5. CASE m.op = "init"
    BY <1>6, <1>8, <2>4, <2>5 DEF CurrentInv
  <2>6. CASE m.op # "init"
    BY <1>6, <1>8, <2>1, <2>2, <2>3, <2>4, <2>6 DEF CurrentInv
  <2> QED BY <2>5, <2>6
<1> QED BY <1>1, <1>9, <1>10, <1>11, <1>12, <1>13, <1>14, StepKeeps

(* Who finds the Logger initialised, with its mutex free, finds its settings *)
(* complete.                                                                 *)
LEMMA SkipInitKeeps ==
  ASSUME NEW t \in Threads
  PROVE  Inv /\ SkipInit(t) => Inv' /\ Keeps(t) /\ Alone(t)
<1> SUFFICES ASSUME Inv, SkipInit(t) PROVE Inv' /\ Keeps(t) /\ Alone(t)
  OBVIOUS
<1>1. /\ pc[t] = "init" /\ initOwner[logger[t]] = Nobody /\ loggers[logger[t]].initialized
      /\ pc' = [pc EXCEPT ![t] = "ready"]
      /\ UNCHANGED <<world, env, exported, loaded, found, loggers, initOwner, logOwner, current>>
      /\ UNCHANGED <<call, calls, logger, parts, out, returned>>
  BY DEF SkipInit, InitFree, Goto, process, threadVars
<1>2. TypeOK /\ ThreadInv(t)
  BY DEF Inv
<1>3. /\ Alone(t) /\ CurrentInv(t)' /\ pc' \in [Threads -> Locations] /\ pc'[t] = "ready"
      /\ \A u \in Threads \ {t} : pc'[u] = pc[u]
  BY <1>1, MoveKeeps DEF Locations
<1>4. TypeOK'
  <2>1. \A u \in Threads, i \in Ids :
          /\ initOwner'[i] = u <=> pc'[u] = "level" /\ logger'[u] = i
          /\ logOwner'[i] = u <=> pc'[u] = "write" /\ logger'[u] = i
    BY <1>1, <1>3, OwnersSame
  <2> QED BY <1>1, <1>2, <1>3, <2>1 DEF TypeOK
<1>5. Keeps(t) /\ FreshLevels'
  BY <1>1, SameLoggers
<1>6. ExportedByNgen'
  BY <1>1, EnvKept
<1>7. ThreadInv(t)'
  BY <1>1, <1>2, <1>3 DEF ThreadInv, Settled, Accepted
<1> QED BY <1>1, <1>3, <1>4, <1>5, <1>6, <1>7, StepKeeps

(* Who finds it not initialised reads its settings, of which the first half: *)
(* fresh says whether they are those of ngen.                                *)
LEMMA ReadEnabledKeeps ==
  ASSUME NEW t \in Threads
  PROVE  Inv /\ ReadEnabled(t) => Inv' /\ Keeps(t) /\ Alone(t)
<1> SUFFICES ASSUME Inv, ReadEnabled(t) PROVE Inv' /\ Keeps(t) /\ Alone(t)
  OBVIOUS
<1>0. PICK l \in Ids : l = logger[t]
  BY DEF Inv, TypeOK
<1> DEFINE new == [loggers[l] EXCEPT !.initialized = TRUE, !.enabled = env.enabled,
                                     !.fresh = exported]
<1>1. /\ pc[t] = "init" /\ initOwner[l] = Nobody /\ ~loggers[l].initialized
      /\ initOwner' = [initOwner EXCEPT ![l] = t] /\ loggers' = [loggers EXCEPT ![l] = new]
      /\ pc' = [pc EXCEPT ![t] = "level"]
      /\ UNCHANGED <<world, env, exported, loaded, found, logOwner, current, call, calls>>
      /\ UNCHANGED <<logger, parts, out, returned>>
  BY <1>0 DEF ReadEnabled, InitFree, Goto, process, threadVars
<1>2. TypeOK /\ ThreadInv(t)
  BY DEF Inv
<1>3. l \in DOMAIN loggers /\ loggers[l] \in Logger
  BY <1>0, <1>1, <1>2 DEF ThreadInv, TypeOK
<1>4. /\ new \in Logger /\ new.initialized /\ new.fresh = exported
      /\ new.useNgen = loggers[l].useNgen /\ new.open = loggers[l].open
  BY <1>2, <1>3 DEF Logger, TypeOK, Environment
<1> HIDE DEF new
<1>5. /\ DOMAIN loggers' = DOMAIN loggers /\ loggers' \in [DOMAIN loggers' -> Logger]
      /\ loggers'[l] = new /\ \A i \in DOMAIN loggers \ {l} : loggers'[i] = loggers[i]
  BY <1>1, <1>2, <1>3, <1>4 DEF TypeOK
<1>6. /\ initOwner' \in [Ids -> Threads \cup {Nobody}] /\ initOwner'[l] = t
      /\ \A i \in Ids \ {l} : initOwner'[i] = initOwner[i]
  BY <1>1, <1>2 DEF TypeOK
<1>7. /\ Alone(t) /\ CurrentInv(t)' /\ pc' \in [Threads -> Locations] /\ pc'[t] = "level"
      /\ \A u \in Threads \ {t} : pc'[u] = pc[u]
  BY <1>1, MoveKeeps DEF Locations
<1>8. TypeOK'
  <2>1. \A u \in Threads, i \in Ids :
          /\ initOwner[i] = u <=> pc[u] = "level" /\ logger[u] = i
          /\ logOwner[i] = u <=> pc[u] = "write" /\ logger[u] = i
    BY <1>2 DEF TypeOK
  <2>2. ASSUME NEW u \in Threads, NEW i \in Ids
        PROVE  /\ initOwner'[i] = u <=> pc'[u] = "level" /\ logger'[u] = i
               /\ logOwner'[i] = u <=> pc'[u] = "write" /\ logger'[u] = i
    <3>1. CASE u = t
      BY <1>0, <1>1, <1>6, <1>7, <2>1, <3>1, ConstantsAssumption
    <3>2. CASE u # t
      BY <1>0, <1>1, <1>6, <1>7, <2>1, <3>2, ConstantsAssumption
    <3> QED BY <3>1, <3>2
  <2> QED BY <1>1, <1>2, <1>5, <1>6, <1>7, <2>2 DEF TypeOK
<1>9. t # Nobody /\ DOMAIN loggers \subseteq Ids
  BY <1>2, ConstantsAssumption DEF TypeOK
<1>10. Keeps(t)
  <2>1. ASSUME NEW i \in DOMAIN loggers
        PROVE  /\ loggers'[i].useNgen = loggers[i].useNgen
               /\ loggers[i].initialized => loggers'[i].initialized
               /\ Settled(i) =>
                    /\ initOwner'[i] = Nobody /\ loggers'[i].fresh = loggers[i].fresh
                    /\ loggers'[i].enabled = loggers[i].enabled
                    /\ loggers'[i].level = loggers[i].level
               /\ initOwner[i] \notin {Nobody, t} => loggers'[i].fresh = loggers[i].fresh
               /\ logOwner[i] # Nobody => loggers'[i].open = loggers[i].open
    <3>1. CASE i = l
      BY <1>1, <1>4, <1>5, <3>1 DEF Settled
    <3>2. CASE i # l
      BY <1>5, <1>6, <1>9, <3>2 DEF Settled
    <3> QED BY <3>1, <3>2
  <2> QED BY <1>1, <1>5, <2>1 DEF Keeps
<1>11. FreshLevels'
  <2>1. ASSUME NEW i \in DOMAIN loggers', Settled(i)' PROVE Settled(i) /\ loggers'[i] = loggers[i]
    <3>1. i # l
      BY <1>6, <1>9, <2>1 DEF Settled
    <3> QED BY <1>5, <1>6, <1>9, <2>1, <3>1 DEF Settled
  <2> QED BY <1>1, <2>1, CalmLoggers
<1>12. ExportedByNgen'
  BY <1>1, EnvKept
<1>13. ThreadInv(t)'
  BY <1>0, <1>1, <1>2, <1>3, <1>4, <1>5, <1>7 DEF ThreadInv, Accepted
<1> QED BY <1>1, <1>7, <1>8, <1>10, <1>11, <1>12, <1>13, StepKeeps

(* The second half: a fresh Logger gets the level of ngen, unless it is      *)
(* NOTSET.                                                                   *)
LEMMA ReadLevelKeeps ==
  ASSUME NEW t \in Threads
  PROVE  Inv /\ ReadLevel(t) => Inv' /\ Keeps(t) /\ Alone(t)
<1> SUFFICES ASSUME Inv, ReadLevel(t) PROVE Inv' /\ Keeps(t) /\ Alone(t)
  OBVIOUS
<1>0. PICK l \in Ids : l = logger[t]
  BY DEF Inv, TypeOK
<1> DEFINE new == [loggers[l] EXCEPT !.level = InitialLevel(l)]
<1>1. /\ pc[t] = "level" /\ initOwner' = [initOwner EXCEPT ![l] = Nobody]
      /\ loggers' = [loggers EXCEPT ![l] = new] /\ pc' = [pc EXCEPT ![t] = "ready"]
      /\ UNCHANGED <<world, env, exported, loaded, found, logOwner, current, call, calls>>
      /\ UNCHANGED <<logger, parts, out, returned>>
  BY <1>0 DEF ReadLevel, Goto, process, threadVars
<1>2. TypeOK /\ ThreadInv(t)
  BY DEF Inv
<1>3. /\ l \in DOMAIN loggers /\ loggers[l] \in Logger /\ loggers[l].initialized
      /\ initOwner[l] = t /\ (loggers[l].fresh => exported)
  BY <1>0, <1>1, <1>2 DEF ThreadInv, TypeOK
<1>4. InitialLevel(l) \in Nat
  BY <1>2, LevelTypes DEF TypeOK
<1>5. /\ new \in Logger /\ new.initialized /\ new.fresh = loggers[l].fresh
      /\ new.useNgen = loggers[l].useNgen /\ new.open = loggers[l].open
      /\ new.level = InitialLevel(l)
  BY <1>3, <1>4 DEF Logger
<1> HIDE DEF new
<1>6. /\ DOMAIN loggers' = DOMAIN loggers /\ loggers' \in [DOMAIN loggers' -> Logger]
      /\ loggers'[l] = new /\ \A i \in DOMAIN loggers \ {l} : loggers'[i] = loggers[i]
  BY <1>1, <1>2, <1>3, <1>5 DEF TypeOK
<1>7. /\ initOwner' \in [Ids -> Threads \cup {Nobody}] /\ initOwner'[l] = Nobody
      /\ \A i \in Ids \ {l} : initOwner'[i] = initOwner[i]
  BY <1>1, <1>2 DEF TypeOK
<1>8. /\ Alone(t) /\ CurrentInv(t)' /\ pc' \in [Threads -> Locations] /\ pc'[t] = "ready"
      /\ \A u \in Threads \ {t} : pc'[u] = pc[u]
  BY <1>1, MoveKeeps DEF Locations
<1>9. t # Nobody /\ DOMAIN loggers \subseteq Ids
  BY <1>2, ConstantsAssumption DEF TypeOK
<1>10. TypeOK'
  <2>1. \A u \in Threads, i \in Ids :
          /\ initOwner[i] = u <=> pc[u] = "level" /\ logger[u] = i
          /\ logOwner[i] = u <=> pc[u] = "write" /\ logger[u] = i
    BY <1>2 DEF TypeOK
  <2>2. ASSUME NEW u \in Threads, NEW i \in Ids
        PROVE  /\ initOwner'[i] = u <=> pc'[u] = "level" /\ logger'[u] = i
               /\ logOwner'[i] = u <=> pc'[u] = "write" /\ logger'[u] = i
    <3>1. CASE u = t
      BY <1>0, <1>1, <1>7, <1>8, <2>1, <3>1, ConstantsAssumption
    <3>2. CASE u # t
      BY <1>0, <1>1, <1>3, <1>7, <1>8, <2>1, <3>2, ConstantsAssumption
    <3> QED BY <3>1, <3>2
  <2> QED BY <1>1, <1>2, <1>6, <1>7, <1>8, <2>2 DEF TypeOK
<1>11. Keeps(t)
  <2>1. ASSUME NEW i \in DOMAIN loggers
        PROVE  /\ loggers'[i].useNgen = loggers[i].useNgen
               /\ loggers[i].initialized => loggers'[i].initialized
               /\ Settled(i) =>
                    /\ initOwner'[i] = Nobody /\ loggers'[i].fresh = loggers[i].fresh
                    /\ loggers'[i].enabled = loggers[i].enabled
                    /\ loggers'[i].level = loggers[i].level
               /\ initOwner[i] \notin {Nobody, t} => loggers'[i].fresh = loggers[i].fresh
               /\ logOwner[i] # Nobody => loggers'[i].open = loggers[i].open
    <3>1. CASE i = l
      BY <1>3, <1>5, <1>6, <1>9, <3>1 DEF Settled
    <3>2. CASE i # l
      BY <1>6, <1>7, <1>9, <3>2 DEF Settled
    <3> QED BY <3>1, <3>2
  <2> QED BY <1>1, <1>6, <2>1 DEF Keeps
<1>12. ExportedByNgen /\ ExportedByNgen'
  BY <1>1, EnvKept DEF Inv
<1>13. FreshLevels'
  <2> SUFFICES ASSUME NEW i \in DOMAIN loggers', loggers'[i].fresh, Settled(i)',
                      world.ngenLevel[i] # NOTSET
               PROVE  loggers'[i].level = world.ngenLevel[i]
    BY <1>1 DEF FreshLevels
  <2>1. CASE i # l
    <3>1. Settled(i) /\ loggers'[i] = loggers[i]
      BY <1>6, <1>7, <1>9, <2>1 DEF Settled
    <3> QED BY <1>6, <3>1 DEF Inv, FreshLevels
  <2>2. CASE i = l
    <3>1. exported
      BY <1>3, <1>5, <1>6, <2>2
    <3> DEFINE raw == env.level[l]
    <3>2. raw = [digits |-> TRUE, value |-> world.ngenLevel[l], name |-> ""]
      BY <1>12, <3>1 DEF ExportedByNgen
    <3> HIDE DEF raw
    <3>3. raw.digits = TRUE /\ raw.value = world.ngenLevel[l]
      BY <3>2
    <3>4. EnvLevel(raw) = world.ngenLevel[l]
      BY <3>3 DEF EnvLevel
    <3>5. InitialLevel(l) = world.ngenLevel[l]
      BY <2>2, <3>4 DEF InitialLevel, raw
    <3> QED BY <1>5, <1>6, <2>2, <3>5
  <2> QED BY <2>1, <2>2
<1>14. ThreadInv(t)'
  <2>1. Settled(l)'
    BY <1>3, <1>5, <1>6, <1>7 DEF Settled
  <2> QED BY <1>0, <1>1, <1>2, <1>3, <1>6, <1>8, <2>1 DEF ThreadInv, Accepted, Settled
<1> QED BY <1>1, <1>8, <1>10, <1>11, <1>12, <1>13, <1>14, StepKeeps

(* A call that returns leaves what ReturnInv says of it: its path is the one *)
(* that the settings of its Logger, and the lookup of the bridge, demand.    *)
LEMMA ReturnKeeps ==
  ASSUME Inv, NEW t \in Threads, NEW path \in Paths, Return(t, path),
         pc[t] \notin {"idle", "init", "level"},
         UNCHANGED <<world, loaded, loggers, initOwner, threadVars>>,
         UNCHANGED <<env, exported>> \/ Exports,
         found' \in [Lookups -> {"unknown", "there", "missing"}], found'["log"] = found["log"],
         out' \in [Sinks -> Seq(Pieces)],
         logOwner' = IF pc[t] = "write" THEN [logOwner EXCEPT ![logger[t]] = Nobody] ELSE logOwner,
         path = "filtered" => IsMessage(call[t]),
         IsMessage(call[t]) =>
           /\ path = "disabled" <=> ~loggers[logger[t]].enabled
           /\ path = "filtered" <=>
                loggers[logger[t]].enabled /\ call[t].level < loggers[logger[t]].level
           /\ path = "ngen" => UsesBridge(logger[t])
           /\ path \in Ids \cup {"stdout"} =>
                ~UsesBridge(logger[t]) /\ found["log"] # "unknown"
  PROVE  Inv' /\ Keeps(t) /\ Alone(t)
<1> DEFINE new == [by |-> t, n |-> calls[t], req |-> call[t], path |-> path, logger |-> logger[t]]
<1>1. /\ pc' = [pc EXCEPT ![t] = "idle"] /\ returned' = returned \cup {new}
      /\ UNCHANGED <<world, loaded, loggers, initOwner, current, call, calls, logger, parts>>
  BY DEF Return, Goto, threadVars
<1>2. TypeOK /\ ThreadInv(t) /\ CurrentInv(t)
  BY DEF Inv
<1>3. /\ new.by = t /\ new.n = calls[t] /\ new.req = call[t] /\ new.path = path
      /\ new.logger = logger[t]
  OBVIOUS
<1>4. new \in Returns
  BY <1>2 DEF ThreadInv, TypeOK, Returns
<1> HIDE DEF new
<1>5. /\ pc' \in [Threads -> Locations] /\ pc'[t] = "idle"
      /\ \A u \in Threads \ {t} : pc'[u] = pc[u]
  BY <1>1, <1>2 DEF TypeOK, Locations
<1>6. /\ env' \in Environment /\ exported' \in BOOLEAN /\ (exported => exported')
      /\ ExportedByNgen'
  BY EnvKept
<1>7. TypeOK'
  <2>1. \A u \in Threads, i \in Ids :
          /\ initOwner[i] = u <=> pc[u] = "level" /\ logger[u] = i
          /\ logOwner[i] = u <=> pc[u] = "write" /\ logger[u] = i
    BY <1>2 DEF TypeOK
  <2>2. /\ logOwner' \in [Ids -> Threads \cup {Nobody}]
        /\ \A u \in Threads, i \in Ids : logOwner'[i] = u <=> pc'[u] = "write" /\ logger[u] = i
    <3>1. logger[t] \in Ids /\ logOwner \in [Ids -> Threads \cup {Nobody}] /\ Nobody \notin Threads
      BY <1>2, ConstantsAssumption DEF TypeOK
    <3>2. CASE pc[t] = "write"
      <4>1. logOwner' = [logOwner EXCEPT ![logger[t]] = Nobody] /\ logOwner[logger[t]] = t
        BY <2>1, <3>1, <3>2
      <4> QED BY <1>5, <2>1, <3>1, <3>2, <4>1
    <3>3. CASE pc[t] # "write"
      BY <1>5, <2>1, <3>1, <3>3
    <3> QED BY <3>2, <3>3
  <2>3. \A u \in Threads, i \in Ids : initOwner'[i] = u <=> pc'[u] = "level" /\ logger[u] = i
    BY <1>1, <1>5, <2>1
  <2> QED BY <1>1, <1>2, <1>5, <1>6, <2>2, <2>3 DEF TypeOK
<1>8. Keeps(t) /\ FreshLevels'
  BY <1>1, <1>6, SameLoggers
<1>9. Alone(t)
  BY <1>1, <1>3, <1>5 DEF Alone
<1>10. ThreadInv(t)'
  BY <1>5 DEF ThreadInv, Accepted
<1>11. CurrentInv(t)'
  <2>1. CASE call[t].op = "init"
    <3>1. OwnInits(t)' = OwnInits(t) \cup {new} /\ new.req.id = current[t]
      BY <1>1, <1>2, <1>3, <2>1 DEF OwnInits, CurrentInv
    <3>2. \A j \in OwnInits(t) : j.n <= new.n
      <4> TAKE j \in OwnInits(t)
      <4>1. ReturnInv(j) /\ j.by = t
        BY DEF OwnInits, Inv
      <4>2. j.n \in Nat /\ j.n < calls[t] /\ calls[t] \in Nat
        BY <1>2, <4>1, ConstantsAssumption DEF ReturnInv, Returns, TypeOK
      <4> QED BY <1>3, <4>2
    <3>3. new.n <= new.n
      BY <1>2, <1>3, ConstantsAssumption DEF TypeOK
    <3>4. new \in OwnInits(t)' /\ \A j \in OwnInits(t)' : j.n <= new.n
      BY <3>1, <3>2, <3>3
    <3>5. \E i \in OwnInits(t)' : i.req.id = current[t] /\ \A j \in OwnInits(t)' : j.n <= i.n
      BY <3>1, <3>4
    <3> QED BY <1>1, <1>5, <3>5 DEF CurrentInv
  <2>2. CASE call[t].op # "init"
    <3>1. OwnInits(t)' = OwnInits(t)
      BY <1>1, <1>3, <2>2 DEF OwnInits
    <3> QED BY <1>1, <1>2, <1>5, <2>2, <3>1 DEF CurrentInv
  <2> QED BY <2>1, <2>2
<1>12. ASSUME NEW r \in returned' \ returned PROVE ReturnInv(r)'
  <2>0. r = new
    BY <1>1
  <2>1. r.n <= calls'[r.by] /\ (pc'[r.by] # "idle" => r.n < calls'[r.by])
    BY <1>1, <1>2, <1>3, <1>5, <2>0, ConstantsAssumption DEF TypeOK
  <2>2. IsMessage(r.req) => Settled(r.logger)'
    <3> SUFFICES ASSUME IsMessage(call[t]) PROVE Settled(logger[t])'
      BY <1>1, <1>3, <2>0 DEF Settled
    <3>1. call[t].op \notin {"init", "payload"}
      BY DEF IsMessage
    <3>2. pc[t] \in {"ready"} \cup Accepted
      BY <1>2, <3>1 DEF TypeOK, Locations, Accepted, ThreadInv
    <3>3. Settled(logger[t])
      BY <1>2, <3>1, <3>2 DEF ThreadInv
    <3> QED BY <1>1, <3>3 DEF Settled
  <2>3. IsMessage(r.req) =>
          /\ r.path = "disabled" <=> ~loggers'[r.logger].enabled
          /\ r.path = "filtered" <=>
               loggers'[r.logger].enabled /\ r.req.level < loggers'[r.logger].level
          /\ r.path = "ngen" => UsesBridge(r.logger)'
          /\ Standalone(r) => ~UsesBridge(r.logger)' /\ found'["log"] # "unknown"
    BY <1>1, <1>3, <2>0 DEF UsesBridge, Standalone
  <2>4. r \in Returns /\ (r.path = "filtered" => IsMessage(r.req))
    BY <1>3, <1>4, <2>0
  <2> QED BY <2>1, <2>2, <2>3, <2>4 DEF ReturnInv, Returns, Standalone
<1> QED BY <1>6, <1>7, <1>8, <1>9, <1>10, <1>11, <1>12, StepKeeps

(* EwtsInit and the queries return.                                          *)
LEMMA ReturnLoggerKeeps ==
  ASSUME NEW t \in Threads
  PROVE  Inv /\ ReturnLogger(t) => Inv' /\ Keeps(t) /\ Alone(t)
<1> SUFFICES ASSUME Inv, ReturnLogger(t) PROVE Inv' /\ Keeps(t) /\ Alone(t)
  OBVIOUS
<1>1. /\ pc[t] = "ready" /\ Return(t, "done") /\ ~IsMessage(call[t])
      /\ UNCHANGED <<world, env, exported, loaded, found, loggers, initOwner, logOwner, out>>
      /\ UNCHANGED threadVars
  BY DEF ReturnLogger, process, IsMessage
<1>2. "done" \in Paths
  BY DEF Paths
<1>3. /\ out \in [Sinks -> Seq(Pieces)]
      /\ found \in [Lookups -> {"unknown", "there", "missing"}]
  BY DEF Inv, TypeOK
<1> QED BY <1>1, <1>2, <1>3, ReturnKeeps

(* A discarded message has met the settings its Logger has for good.         *)
LEMMA DiscardKeeps ==
  ASSUME NEW t \in Threads
  PROVE  Inv /\ Discard(t) => Inv' /\ Keeps(t) /\ Alone(t)
<1> SUFFICES ASSUME Inv, Discard(t) PROVE Inv' /\ Keeps(t) /\ Alone(t)
  OBVIOUS
<1>1. /\ pc[t] = "ready" /\ IsMessage(call[t])
      /\ UNCHANGED <<world, env, exported, loaded, found, loggers, initOwner, logOwner, out>>
      /\ UNCHANGED threadVars
  BY DEF Discard, process
<1>2. PICK path \in {"disabled", "filtered"} :
        /\ Return(t, path)
        /\ path = "disabled" <=> ~loggers[logger[t]].enabled
        /\ path = "filtered" <=>
             loggers[logger[t]].enabled /\ call[t].level < loggers[logger[t]].level
  BY DEF Discard
<1>3. path \in Paths /\ path \notin Ids \cup {"stdout"} /\ path # "ngen"
  BY ConstantsAssumption DEF Paths
<1>4. /\ out \in [Sinks -> Seq(Pieces)]
      /\ found \in [Lookups -> {"unknown", "there", "missing"}]
  BY DEF Inv, TypeOK
<1>5. pc[t] \notin {"idle", "init", "level", "write"}
  BY <1>1
<1> QED BY <1>1, <1>2, <1>3, <1>4, <1>5, ReturnKeeps

(* The lookups keep their type, and what they once found.                    *)
LEMMA LookupType ==
  ASSUME TypeOK, NEW f \in Lookups, found' = Lookup(f)
  PROVE  /\ found' \in [Lookups -> {"unknown", "there", "missing"}] /\ found'[f] # "unknown"
         /\ \A g \in Lookups : g # f \/ found[g] # "unknown" => found'[g] = found[g]
BY DEF TypeOK, Lookup

(* An accepted message goes to the side of the bridge that the lookup says.  *)
LEMMA AcceptKeeps ==
  ASSUME NEW t \in Threads
  PROVE  Inv /\ Accept(t) => Inv' /\ Keeps(t) /\ Alone(t)
<1> SUFFICES ASSUME Inv, Accept(t) PROVE Inv' /\ Keeps(t) /\ Alone(t)
  OBVIOUS
<1>1. /\ pc[t] = "ready" /\ IsMessage(call[t]) /\ Passes(call[t], logger[t])
      /\ found' = Lookup("log") /\ parts' = [parts EXCEPT ![t] = Parts]
      /\ UNCHANGED <<world, env, exported, loaded, loggers, initOwner, logOwner, current>>
      /\ UNCHANGED <<call, calls, logger, out, returned>>
  BY DEF Accept, Passes
<1>2. PICK where \in {"bridge", "wait"} :
        /\ pc' = [pc EXCEPT ![t] = where]
        /\ where = "bridge" <=> UsesBridge(logger[t])'
  <2>1. UsesBridge(logger[t])' <=> loggers[logger[t]].useNgen /\ Bridged("log")
    BY <1>1 DEF UsesBridge, Bridged
  <2> QED BY <2>1 DEF Accept, Goto
<1>3. TypeOK /\ ThreadInv(t) /\ "log" \in Lookups
  BY DEF Inv, Lookups
<1>4. /\ found' \in [Lookups -> {"unknown", "there", "missing"}] /\ found'["log"] # "unknown"
      /\ found["log"] # "unknown" => found'["log"] = found["log"]
  BY <1>1, <1>3, LookupType
<1>5. /\ parts' \in [Threads -> SUBSET Parts]
      /\ \A u \in Threads \ {t} : parts'[u] = parts[u]
  BY <1>1, <1>3 DEF TypeOK
<1>6. /\ Alone(t) /\ CurrentInv(t)' /\ pc' \in [Threads -> Locations] /\ pc'[t] = where
      /\ \A u \in Threads \ {t} : pc'[u] = pc[u]
  BY <1>1, <1>2, <1>5, MoveKeeps DEF Locations
<1>7. TypeOK'
  <2>1. \A u \in Threads, i \in Ids :
          /\ initOwner'[i] = u <=> pc'[u] = "level" /\ logger'[u] = i
          /\ logOwner'[i] = u <=> pc'[u] = "write" /\ logger'[u] = i
    BY <1>1, <1>6, OwnersSame
  <2> QED BY <1>1, <1>3, <1>4, <1>5, <1>6, <2>1 DEF TypeOK
<1>8. Keeps(t) /\ FreshLevels'
  BY <1>1, <1>4, SameLoggers
<1>9. ExportedByNgen'
  BY <1>1, EnvKept
<1>10. ThreadInv(t)'
  <2>1. call[t].op \notin {"init", "payload"}
    BY <1>1 DEF IsMessage
  <2>2. Settled(logger[t]) /\ logger[t] \in DOMAIN loggers /\ calls[t] \in 1..MaxCalls
    BY <1>1, <1>3, <2>1 DEF ThreadInv
  <2>3. Settled(logger[t])' /\ Passes(call[t], logger[t])'
    BY <1>1, <2>2 DEF Settled, Passes
  <2> QED BY <1>1, <1>2, <1>4, <1>6, <2>1, <2>2, <2>3
       DEF ThreadInv, Accepted, Settled, Passes, UsesBridge
<1> QED BY <1>1, <1>6, <1>7, <1>8, <1>9, <1>10, StepKeeps

(* What is written is of the call.                                           *)
LEMMA PieceType ==
  ASSUME Inv, NEW t \in Threads, pc[t] # "idle", NEW p \in Parts
  PROVE  Piece(t, p) \in Pieces
<1>1. calls[t] \in 1..MaxCalls
  BY DEF Inv, ThreadInv
<1>2. PICK n \in 1..MaxCalls : n = calls[t]
  BY <1>1
<1>3. Piece(t, p) = [by |-> t, n |-> n, line |-> p]
  BY <1>2 DEF Piece
<1> QED BY <1>3 DEF Pieces

(* What the bridge is given                                                  *)
LEMMA BridgeText ==
  ASSUME Inv, NEW t \in Threads, pc[t] # "idle",
         out' = [out EXCEPT !["ngen"] = @ \o <<Piece(t, 1), Piece(t, 2)>>]
  PROVE  /\ out' \in [Sinks -> Seq(Pieces)] /\ <<Piece(t, 1), Piece(t, 2)>> \in Seq(Pieces)
         /\ out'["ngen"] = out["ngen"] \o <<Piece(t, 1), Piece(t, 2)>>
         /\ \A log \in Sinks \ {"ngen"} : out'[log] = out[log]
<1>1. out \in [Sinks -> Seq(Pieces)] /\ "ngen" \in Sinks
  BY DEF Inv, TypeOK, Sinks
<1>2. <<Piece(t, 1), Piece(t, 2)>> \in Seq(Pieces)
  <2>1. Piece(t, 1) \in Pieces /\ Piece(t, 2) \in Pieces
    BY PieceType DEF Parts
  <2> QED BY <2>1
<1>3. out["ngen"] \o <<Piece(t, 1), Piece(t, 2)>> \in Seq(Pieces)
  BY <1>1, <1>2
<1> QED BY <1>1, <1>2, <1>3

(* A message that ngen takes is of a Logger on that side of the bridge.      *)
LEMMA CallBridgeKeeps ==
  ASSUME NEW t \in Threads
  PROVE  Inv /\ CallBridge(t) => Inv' /\ Keeps(t) /\ Alone(t)
<1> SUFFICES ASSUME Inv, CallBridge(t) PROVE Inv' /\ Keeps(t) /\ Alone(t)
  OBVIOUS
<1>1. /\ pc[t] = "bridge" /\ out' = [out EXCEPT !["ngen"] = @ \o <<Piece(t, 1), Piece(t, 2)>>]
      /\ Exports /\ Return(t, "ngen")
      /\ UNCHANGED <<world, loaded, found, loggers, initOwner, logOwner, threadVars>>
  BY DEF CallBridge
<1>2. Passes(call[t], logger[t]) /\ UsesBridge(logger[t]) /\ IsMessage(call[t])
  BY <1>1 DEF Inv, ThreadInv, Accepted
<1>3. /\ loggers[logger[t]].enabled /\ ~(call[t].level < loggers[logger[t]].level)
  <2>1. logger[t] \in DOMAIN loggers
    BY <1>1 DEF Inv, ThreadInv
  <2>2. call[t].level \in Int /\ loggers[logger[t]].level \in Int
    BY <2>1 DEF Inv, TypeOK, Request, Logger
  <2> QED BY <1>2, <2>2 DEF Passes
<1>4. out' \in [Sinks -> Seq(Pieces)]
  BY <1>1, BridgeText
<1>5. "ngen" \in Paths /\ "ngen" \notin Ids \cup {"stdout"}
  BY ConstantsAssumption DEF Paths, Sinks
<1>6. found \in [Lookups -> {"unknown", "there", "missing"}]
  BY DEF Inv, TypeOK
<1>7. pc[t] \notin {"idle", "init", "level", "write"}
  BY <1>1
<1> QED BY <1>1, <1>2, <1>3, <1>4, <1>5, <1>6, <1>7, ReturnKeeps

(* A payload is of no Logger.                                                *)
LEMMA SendPayloadKeeps ==
  ASSUME NEW t \in Threads
  PROVE  Inv /\ SendPayload(t) => Inv' /\ Keeps(t) /\ Alone(t)
<1> SUFFICES ASSUME Inv, SendPayload(t) PROVE Inv' /\ Keeps(t) /\ Alone(t)
  OBVIOUS
<1>1. /\ pc[t] = "payload" /\ found' = Lookup("payload")
      /\ UNCHANGED <<world, loaded, loggers, initOwner, logOwner, threadVars>>
      /\ \/ /\ out' = [out EXCEPT !["ngen"] = @ \o <<Piece(t, 1), Piece(t, 2)>>]
            /\ Exports /\ Return(t, "ngen")
         \/ Return(t, "dropped") /\ UNCHANGED <<env, exported, out>>
  BY DEF SendPayload
<1>2. ~IsMessage(call[t])
  <2>1. call[t].op = "payload"
    BY <1>1 DEF Inv, ThreadInv
  <2> QED BY <2>1 DEF IsMessage
<1>3. {"log", "payload"} \subseteq Lookups /\ {"ngen", "dropped"} \subseteq Paths
  BY DEF Lookups, Paths, Sinks
<1>4. /\ found' \in [Lookups -> {"unknown", "there", "missing"}]
      /\ found'["log"] = found["log"]
  BY <1>1, <1>3, LookupType DEF Inv
<1>5. pc[t] \notin {"idle", "init", "level", "write"}
  BY <1>1
<1>6. CASE /\ out' = [out EXCEPT !["ngen"] = @ \o <<Piece(t, 1), Piece(t, 2)>>]
           /\ Exports /\ Return(t, "ngen")
  <2>1. out' \in [Sinks -> Seq(Pieces)]
    BY <1>5, <1>6, BridgeText
  <2> QED BY <1>1, <1>2, <1>3, <1>4, <1>5, <1>6, <2>1, ReturnKeeps
<1>7. CASE Return(t, "dropped") /\ UNCHANGED <<env, exported, out>>
  <2>1. out' \in [Sinks -> Seq(Pieces)]
    BY <1>7 DEF Inv, TypeOK
  <2> QED BY <1>1, <1>2, <1>3, <1>4, <1>5, <1>7, <2>1, ReturnKeeps
<1> QED BY <1>1, <1>6, <1>7

(* The Logger's second mutex is taken, and its file is open or not; the      *)
(* settings stay.                                                            *)
LEMMA LockLogKeeps ==
  ASSUME NEW t \in Threads
  PROVE  Inv /\ LockLog(t) => Inv' /\ Keeps(t) /\ Alone(t)
<1> SUFFICES ASSUME Inv, LockLog(t) PROVE Inv' /\ Keeps(t) /\ Alone(t)
  OBVIOUS
<1>1. /\ pc[t] = "wait" /\ logOwner[logger[t]] = Nobody
      /\ logOwner' = [logOwner EXCEPT ![logger[t]] = t]
      /\ pc' = [pc EXCEPT ![t] = "write"]
      /\ UNCHANGED <<world, env, exported, loaded, found, initOwner, current, call, calls>>
      /\ UNCHANGED <<logger, parts, out, returned>>
  BY DEF LockLog, LogFree, Goto, process, threadVars
<1>2. PICK open \in BOOLEAN : loggers' = [loggers EXCEPT ![logger[t]].open = open]
  BY DEF LockLog
<1>3. TypeOK /\ ThreadInv(t)
  BY DEF Inv
<1>4. PICK l \in Ids : l = logger[t]
  BY <1>3 DEF TypeOK
<1>5. l \in DOMAIN loggers /\ loggers[l] \in Logger
  BY <1>1, <1>3, <1>4 DEF ThreadInv, TypeOK
<1>6. /\ DOMAIN loggers' = DOMAIN loggers /\ loggers' \in [DOMAIN loggers' -> Logger]
      /\ \A i \in DOMAIN loggers :
           /\ loggers'[i].useNgen = loggers[i].useNgen /\ loggers'[i].fresh = loggers[i].fresh
           /\ loggers'[i].initialized = loggers[i].initialized
           /\ loggers'[i].enabled = loggers[i].enabled /\ loggers'[i].level = loggers[i].level
      /\ \A i \in DOMAIN loggers : logOwner[i] # Nobody => loggers'[i].open = loggers[i].open
  <2>1. PICK new \in Logger : new = [loggers[l] EXCEPT !.open = open]
    BY <1>5 DEF Logger
  <2>2. /\ new.useNgen = loggers[l].useNgen /\ new.fresh = loggers[l].fresh
        /\ new.initialized = loggers[l].initialized
        /\ new.enabled = loggers[l].enabled /\ new.level = loggers[l].level
    BY <1>5, <2>1 DEF Logger
  <2>3. loggers' = [loggers EXCEPT ![l] = new]
    BY <1>2, <1>4, <2>1
  <2> QED BY <1>1, <1>3, <1>4, <1>5, <2>2, <2>3 DEF TypeOK
<1>7. /\ Alone(t) /\ CurrentInv(t)' /\ pc' \in [Threads -> Locations] /\ pc'[t] = "write"
      /\ \A u \in Threads \ {t} : pc'[u] = pc[u]
  BY <1>1, MoveKeeps DEF Locations
<1>8. TypeOK'
  <2>1. \A u \in Threads, i \in Ids :
          /\ initOwner[i] = u <=> pc[u] = "level" /\ logger[u] = i
          /\ logOwner[i] = u <=> pc[u] = "write" /\ logger[u] = i
    BY <1>3 DEF TypeOK
  <2>2. /\ logOwner' \in [Ids -> Threads \cup {Nobody}] /\ logOwner'[l] = t
        /\ \A i \in Ids \ {l} : logOwner'[i] = logOwner[i]
    BY <1>1, <1>3, <1>4 DEF TypeOK
  <2>3. \A u \in Threads, i \in Ids : logOwner'[i] = u <=> pc'[u] = "write" /\ logger[u] = i
    BY <1>1, <1>4, <1>7, <2>1, <2>2, ConstantsAssumption
  <2>4. \A u \in Threads, i \in Ids : initOwner'[i] = u <=> pc'[u] = "level" /\ logger[u] = i
    BY <1>1, <1>7, <2>1
  <2> QED BY <1>1, <1>3, <1>6, <1>7, <2>2, <2>3, <2>4 DEF TypeOK
<1>9. Keeps(t)
  BY <1>1, <1>6 DEF Keeps, Settled
<1>10. ExportedByNgen' /\ FreshLevels'
  <2>1. ExportedByNgen'
    BY <1>1, EnvKept
  <2>2. \A i \in DOMAIN loggers' : loggers'[i].fresh /\ Settled(i)' =>
          Settled(i) /\ loggers[i].fresh /\ loggers'[i].level = loggers[i].level
    BY <1>1, <1>6 DEF Settled
  <2> QED BY <1>1, <2>1, <2>2, CalmLoggers
<1>11. ThreadInv(t)'
  <2>1. /\ IsMessage(call[t]) /\ Passes(call[t], l) /\ found["log"] # "unknown"
        /\ ~UsesBridge(l) /\ calls[t] \in 1..MaxCalls
    BY <1>1, <1>3, <1>4 DEF ThreadInv, Accepted
  <2>2. call[t].op \notin {"init", "payload"}
    BY <2>1 DEF IsMessage
  <2>3. Settled(l)
    BY <1>1, <1>3, <1>4, <2>2 DEF ThreadInv, Accepted
  <2>4. Settled(logger[t])' /\ Passes(call[t], logger[t])' /\ ~UsesBridge(logger[t])'
    BY <1>1, <1>4, <1>5, <1>6, <2>1, <2>3 DEF Settled, Passes, UsesBridge
  <2> QED BY <1>1, <1>4, <1>5, <1>6, <1>7, <2>1, <2>2, <2>4
       DEF ThreadInv, Accepted, Settled, Passes, UsesBridge
<1> QED BY <1>1, <1>7, <1>8, <1>9, <1>10, <1>11, StepKeeps

(* A message that is let out by an exception, or written, has passed the     *)
(* filter and the bridge is not for it.                                      *)
LEMMA StandaloneMessage ==
  ASSUME Inv, NEW t \in Threads, pc[t] \in {"wait", "write"}
  PROVE  /\ IsMessage(call[t]) /\ ~UsesBridge(logger[t]) /\ found["log"] # "unknown"
         /\ loggers[logger[t]].enabled /\ ~(call[t].level < loggers[logger[t]].level)
<1>1. /\ IsMessage(call[t]) /\ ~UsesBridge(logger[t]) /\ found["log"] # "unknown"
      /\ Passes(call[t], logger[t]) /\ logger[t] \in DOMAIN loggers
  BY DEF Inv, ThreadInv, Accepted
<1>2. call[t].level \in Int /\ loggers[logger[t]].level \in Int
  BY <1>1 DEF Inv, TypeOK, Request, Logger
<1> QED BY <1>1, <1>2 DEF Passes

(* The exception of create_directories                                       *)
LEMMA RaiseKeeps ==
  ASSUME NEW t \in Threads
  PROVE  Inv /\ Raise(t) => Inv' /\ Keeps(t) /\ Alone(t)
<1> SUFFICES ASSUME Inv, Raise(t) PROVE Inv' /\ Keeps(t) /\ Alone(t)
  OBVIOUS
<1>1. /\ pc[t] = "wait" /\ Return(t, "raised")
      /\ UNCHANGED <<world, env, exported, loaded, found, loggers, initOwner, logOwner, out>>
      /\ UNCHANGED threadVars
  BY DEF Raise, process
<1>2. /\ IsMessage(call[t]) /\ loggers[logger[t]].enabled
      /\ ~(call[t].level < loggers[logger[t]].level)
  BY <1>1, StandaloneMessage
<1>3. "raised" \in Paths /\ "raised" \notin Ids \cup {"stdout"}
  BY ConstantsAssumption DEF Paths
<1>4. /\ out \in [Sinks -> Seq(Pieces)]
      /\ found \in [Lookups -> {"unknown", "there", "missing"}]
  BY DEF Inv, TypeOK
<1>5. pc[t] \notin {"idle", "init", "level", "write"}
  BY <1>1
<1> QED BY <1>1, <1>2, <1>3, <1>4, <1>5, ReturnKeeps

(* One part of the message                                                   *)
LEMMA WritePartKeeps ==
  ASSUME NEW t \in Threads
  PROVE  Inv /\ WritePart(t) => Inv' /\ Keeps(t) /\ Alone(t)
<1> SUFFICES ASSUME Inv, WritePart(t) PROVE Inv' /\ Keeps(t) /\ Alone(t)
  OBVIOUS
<1>1. TypeOK /\ ThreadInv(t)
  BY DEF Inv
<1>2. /\ pc[t] = "write"
      /\ UNCHANGED <<world, env, exported, loaded, found, loggers, initOwner, logOwner, pc>>
      /\ UNCHANGED <<current, call, calls, logger, returned>>
  BY DEF WritePart, process
<1>3. PICK p \in parts[t] : /\ out' = [out EXCEPT ![SinkOf(t)] = Append(@, Piece(t, p))]
                            /\ parts' = [parts EXCEPT ![t] = @ \ {p}]
  BY DEF WritePart
<1>4. p \in Parts
  BY <1>1, <1>3 DEF TypeOK
<1>5. PICK piece \in Pieces : piece = Piece(t, p)
  BY <1>2, <1>4, PieceType
<1>6. PICK sink \in Sinks : sink = SinkOf(t)
  BY <1>1 DEF SinkOf, Sinks, TypeOK
<1>7. out' = [out EXCEPT ![sink] = Append(out[sink], piece)]
  BY <1>3, <1>5, <1>6
<1>8. out' \in [Sinks -> Seq(Pieces)]
  <2>1. out \in [Sinks -> Seq(Pieces)]
    BY <1>1 DEF TypeOK
  <2>2. Append(out[sink], piece) \in Seq(Pieces)
    BY <2>1
  <2> QED BY <1>7, <2>1, <2>2
<1>9. parts' \in [Threads -> SUBSET Parts] /\ \A u \in Threads \ {t} : parts'[u] = parts[u]
  BY <1>1, <1>3 DEF TypeOK
<1>10. TypeOK'
  BY <1>1, <1>2, <1>8, <1>9 DEF TypeOK
<1>11. Alone(t) /\ CurrentInv(t)'
  <2>1. pc' = [pc EXCEPT ![t] = "write"]
    BY <1>1, <1>2 DEF TypeOK
  <2> QED BY <1>2, <1>9, <2>1, MoveKeeps DEF Locations
<1>12. Keeps(t) /\ FreshLevels'
  BY <1>2, SameLoggers
<1>13. ExportedByNgen'
  BY <1>2, EnvKept
<1>14. ThreadInv(t)'
  BY <1>1, <1>2 DEF ThreadInv, Settled, Passes, UsesBridge
<1> QED BY <1>2, <1>10, <1>11, <1>12, <1>13, <1>14, StepKeeps

(* The message is out, in the file of its Logger or on stdout.               *)
LEMMA UnlockLogKeeps ==
  ASSUME NEW t \in Threads
  PROVE  Inv /\ UnlockLog(t) => Inv' /\ Keeps(t) /\ Alone(t)
<1> SUFFICES ASSUME Inv, UnlockLog(t) PROVE Inv' /\ Keeps(t) /\ Alone(t)
  OBVIOUS
<1>1. /\ pc[t] = "write" /\ Return(t, SinkOf(t))
      /\ logOwner' = [logOwner EXCEPT ![logger[t]] = Nobody]
      /\ UNCHANGED <<world, env, exported, loaded, found, loggers, initOwner, out>>
      /\ UNCHANGED threadVars
  BY DEF UnlockLog, process
<1>2. /\ IsMessage(call[t]) /\ ~UsesBridge(logger[t]) /\ found["log"] # "unknown"
      /\ loggers[logger[t]].enabled /\ ~(call[t].level < loggers[logger[t]].level)
  BY <1>1, StandaloneMessage
<1>3. PICK sink \in Ids \cup {"stdout"} : sink = SinkOf(t)
  BY DEF SinkOf, Inv, TypeOK
<1>4. sink \in Paths /\ sink \notin {"disabled", "filtered", "ngen"}
  BY ConstantsAssumption DEF Paths, Sinks
<1>5. /\ out \in [Sinks -> Seq(Pieces)]
      /\ found \in [Lookups -> {"unknown", "there", "missing"}]
  BY DEF Inv, TypeOK
<1>6. Return(t, sink)
  BY <1>1, <1>3
<1>7. pc[t] \notin {"idle", "init", "level"}
  BY <1>1
<1> QED BY <1>1, <1>2, <1>4, <1>5, <1>6, <1>7, ReturnKeeps
-----------------------------------------------------------------------------
(* Every step of a thread                                                    *)
LEMMA ThreadKeeps ==
  ASSUME NEW t \in Threads
  PROVE  Inv /\ (Call(t) \/ InitOnce(t) \/ Output(t)) => Inv' /\ Keeps(t) /\ Alone(t)
BY CallKeeps, SkipInitKeeps, ReadEnabledKeeps, ReadLevelKeeps, ReturnLoggerKeeps, DiscardKeeps,
   AcceptKeeps, CallBridgeKeeps, SendPayloadKeeps, LockLogKeeps, RaiseKeeps, WritePartKeeps,
   UnlockLogKeeps DEF InitOnce, Output

(* The invariant is inductive.                                               *)
LEMMA StepInv == Inv /\ [Next]_vars => Inv'
<1> SUFFICES ASSUME Inv, [Next]_vars PROVE Inv'
  OBVIOUS
<1>1. CASE UNCHANGED vars
  <2>1. /\ UNCHANGED <<world, env, exported, loaded, found, loggers, initOwner, logOwner, pc>>
        /\ UNCHANGED <<current, call, calls, logger, parts, out, returned>>
    BY <1>1 DEF vars, process, threadVars
  <2>2. TypeOK' /\ ExportedByNgen' /\ FreshLevels' /\ OwnLogger'
    <3>1. TypeOK' /\ ExportedByNgen'
      BY <2>1 DEF Inv, TypeOK, ExportedByNgen
    <3>2. FreshLevels'
      BY <2>1 DEF Inv, FreshLevels, Settled
    <3>3. OwnLogger'
      BY <2>1 DEF Inv, OwnLogger
    <3> QED BY <3>1, <3>2, <3>3
  <2>3. ASSUME NEW t \in Threads PROVE ThreadInv(t)' /\ CurrentInv(t)'
    <3>1. ThreadInv(t) /\ CurrentInv(t)
      BY DEF Inv
    <3>2. OwnInits(t)' = OwnInits(t)
      BY <2>1 DEF OwnInits
    <3>3. ThreadInv(t)'
      BY <2>1, <3>1 DEF ThreadInv, Settled, Passes, UsesBridge
    <3> QED BY <2>1, <3>1, <3>2, <3>3 DEF CurrentInv
  <2>4. \A r \in returned' : ReturnInv(r)'
    BY <2>1 DEF Inv, ReturnInv, Settled, UsesBridge
  <2> QED BY <2>2, <2>3, <2>4 DEF Inv
<1>2. CASE NgenInitialises \/ LoadBridge
  BY <1>2, AroundKeeps
<1>3. ASSUME NEW t \in Threads, Call(t) \/ InitOnce(t) \/ Output(t) PROVE Inv'
  BY <1>3, ThreadKeeps
<1> QED BY <1>1, <1>2, <1>3 DEF Next, Finished

(* It holds of every behaviour.                                              *)
LEMMA Invariance == Spec => []Inv
BY InitInv, StepInv, PTL DEF Spec

(* The properties follow from it.                                            *)

(* Every variable of the runtime stays in its domain, and only the owner of  *)
(* a mutex of a Logger is in the code that it protects.                      *)
THEOREM TypeCorrect == Spec => []TypeOK
<1>1. Inv => TypeOK
  BY DEF Inv
<1> QED BY <1>1, Invariance, PTL

(* Logger::Log filters every message with the settings that its Logger keeps *)
(* for good, whichever thread reads them at the first use.                   *)
THEOREM SettingsDecideAlways == Spec => []SettingsDecide
<1>1. Inv => SettingsDecide
  BY DEF Inv, ReturnInv, SettingsDecide
<1> QED BY <1>1, Invariance, PTL

(* Log() writes under the id that the same thread last gave to EwtsInit.     *)
THEOREM OwnLoggerAlways == Spec => []OwnLogger
<1>1. Inv => OwnLogger
  BY DEF Inv
<1> QED BY <1>1, Invariance, PTL

(* The messages of an id all go through the bridge or all go to standalone   *)
(* output, since dlsym's answer is kept and Loggers never change their mind  *)
(* about ngen.                                                               *)
THEOREM OneWayAlways == Spec => []OneWay
<1>1. Inv => OneWay
  BY DEF Inv, ReturnInv, OneWay
<1> QED BY <1>1, Invariance, PTL

(* A message that the runtime keeps from ngen is one that ngen would filter, *)
(* if the Logger read its settings after the export.                         *)
THEOREM AdoptsNgenLevelsAlways == Spec => []AdoptsNgenLevels
<1>1. Inv => AdoptsNgenLevels
  <2> SUFFICES ASSUME Inv, NEW r \in returned, r.path = "filtered", loggers[r.logger].fresh,
                      world.ngenLevel[r.logger] # NOTSET
               PROVE  r.req.level < world.ngenLevel[r.logger]
    BY DEF AdoptsNgenLevels
  <2>1. IsMessage(r.req) /\ Settled(r.logger) /\ r.req.level < loggers[r.logger].level
    BY DEF Inv, ReturnInv
  <2>2. loggers[r.logger].level = world.ngenLevel[r.logger]
    BY <2>1 DEF Inv, FreshLevels, Settled
  <2> QED BY <2>1, <2>2
<1> QED BY <1>1, Invariance, PTL
-----------------------------------------------------------------------------
(* What the files and the bridge hold of the calls that are under way        *)

(* A part of the current call of a thread                                    *)
Mine(t, p) == p.by = t /\ p.n = calls[t]

(* No part is from the future, and one of a call that is under way stands    *)
(* where that call writes.                                                   *)
PartInv(log, p) ==
  /\ p.n <= calls[p.by]
  /\ p.n = calls[p.by] /\ pc[p.by] # "idle" => pc[p.by] = "write" /\ log = SinkOf(p.by)

(* Thread t has written the first k parts of its message, to the end of its  *)
(* file, and nothing of this message before them.                            *)
Progress(t, k) ==
  LET log   == out[SinkOf(t)]
      start == Len(log) - k
  IN /\ start \in Nat
     /\ \A i \in 1..k : log[start + i] = Piece(t, i)
     /\ \A i \in 1..start : ~Mine(t, log[i])

(* What a thread has still to write, and to its file has written             *)
WriterInv(t) ==
  /\ pc[t] \in {"bridge", "wait"} => parts[t] = Parts
  /\ pc[t] = "write" =>
       \E k \in 0..2 : parts[t] = (k + 1)..2 /\ (SinkOf(t) # "stdout" => Progress(t, k))

(* Together with Inv it is inductive.                                        *)
LogInv ==
  /\ \A log \in Shared : \A i \in 1..Len(out[log]) : PartInv(log, out[log][i])
  /\ \A t \in Threads : WriterInv(t)
-----------------------------------------------------------------------------
(* Where a message goes that is not for ngen                                 *)
LEMMA SinkType ==
  ASSUME Inv, NEW t \in Threads
  PROVE  /\ SinkOf(t) \in Sinks /\ SinkOf(t) # "ngen"
         /\ SinkOf(t) # "stdout" => SinkOf(t) = logger[t] /\ SinkOf(t) \in Shared
<1>1. logger[t] \in Ids
  BY DEF Inv, TypeOK
<1> QED BY <1>1, ConstantsAssumption DEF SinkOf, Sinks, Shared

(* The shared destinations                                                   *)
LEMMA SharedType ==
  ASSUME Inv, NEW log \in Shared
  PROVE  /\ log \in Sinks /\ log # "stdout" /\ out[log] \in Seq(Pieces) /\ Len(out[log]) \in Nat
         /\ DOMAIN out[log] = 1..Len(out[log])
         /\ \A i \in 1..Len(out[log]) : out[log][i] \in Pieces
<1>1. log \in Sinks /\ log # "stdout" /\ out[log] \in Seq(Pieces)
  BY DEF Inv, TypeOK, Shared
<1> QED BY <1>1

(* Nobody else writes to the file that a thread writes to: its Logger's      *)
(* mutex is its.                                                             *)
LEMMA OwnFile ==
  ASSUME Inv, NEW t \in Threads, NEW u \in Threads, pc[t] = "write", pc[u] = "write",
         SinkOf(t) = SinkOf(u), SinkOf(t) # "stdout"
  PROVE  t = u
<1>1. PICK l \in Ids : l = logger[t] /\ l = logger[u]
  <2>1. logger[t] = logger[u] /\ logger[t] \in Ids
    BY SinkType DEF Inv, TypeOK
  <2> QED BY <2>1
<1>2. logOwner[l] = t /\ logOwner[l] = u
  BY <1>1 DEF Inv, TypeOK
<1> QED BY <1>2

(* While a thread writes, a step of another leaves it the destination.       *)
LEMMA SinkKept ==
  ASSUME Inv, NEW t \in Threads, Keeps(t), NEW u \in Threads, pc[u] = "write",
         logger'[u] = logger[u]
  PROVE  SinkOf(u)' = SinkOf(u)
<1>1. PICK l \in Ids : l = logger[u]
  BY DEF Inv, TypeOK
<1>2. l \in DOMAIN loggers /\ logOwner[l] = u /\ u # Nobody
  <2>1. logger[u] \in DOMAIN loggers
    BY DEF Inv, ThreadInv
  <2>2. logOwner[l] = u
    BY <1>1 DEF Inv, TypeOK
  <2> QED BY <1>1, <2>1, <2>2, ConstantsAssumption
<1>3. loggers'[l].open = loggers[l].open
  BY <1>2 DEF Keeps
<1> QED BY <1>1, <1>3 DEF SinkOf

(* A step of t leaves what the other threads have written to their files as  *)
(* it is.                                                                    *)
LEMMA OtherWriters ==
  ASSUME Inv, LogInv, NEW t \in Threads, Keeps(t), Alone(t),
         \A log \in Ids : out'[log] = out[log] \/ (pc[t] = "write" /\ log = SinkOf(t)),
         NEW u \in Threads \ {t}
  PROVE  WriterInv(u)'
<1>1. /\ pc'[u] = pc[u] /\ calls'[u] = calls[u] /\ logger'[u] = logger[u] /\ parts'[u] = parts[u]
      /\ WriterInv(u)
  BY DEF Alone, LogInv
<1>2. CASE pc[u] = "write"
  <2>1. PICK sink \in Sinks : sink = SinkOf(u)
    BY SinkType
  <2>2. sink' = SinkOf(u)' /\ SinkOf(u)' = sink
    BY <1>1, <1>2, <2>1, SinkKept
  <2>3. sink # "stdout" => out'[sink] = out[sink]
    <3> SUFFICES ASSUME sink # "stdout" PROVE out'[sink] = out[sink]
      OBVIOUS
    <3>1. sink \in Ids
      BY <2>1, SinkType DEF Inv, TypeOK
    <3>2. ~(pc[t] = "write" /\ sink = SinkOf(t))
      BY <1>2, <2>1, OwnFile
    <3> QED BY <3>1, <3>2
  <2>4. PICK k \in 0..2 : parts[u] = (k + 1)..2 /\ (sink # "stdout" => Progress(u, k))
    BY <1>1, <1>2, <2>1 DEF WriterInv
  <2>5. sink # "stdout" => Progress(u, k)'
    BY <1>1, <2>1, <2>2, <2>3, <2>4 DEF Progress, Mine, Piece
  <2> QED BY <1>1, <1>2, <2>2, <2>4, <2>5 DEF WriterInv
<1>3. CASE pc[u] # "write"
  BY <1>1, <1>3 DEF WriterInv
<1> QED BY <1>2, <1>3

(* Nor does it make an earlier part one of a call that is under way.         *)
LEMMA OldParts ==
  ASSUME Inv, NEW t \in Threads, Keeps(t), Alone(t), NEW log \in Shared, NEW p \in Pieces,
         pc[t] = "write" => pc'[t] \in {"write", "idle"} /\ SinkOf(t)' = SinkOf(t),
         PartInv(log, p)
  PROVE  PartInv(log, p)'
<1>1. p.by \in Threads /\ p.n \in Nat
  BY ConstantsAssumption DEF Pieces
<1>2. CASE p.by = t
  <2>1. calls[t] \in Nat
    BY ConstantsAssumption DEF Inv, TypeOK
  <2>2. CASE calls'[t] = calls[t] /\ pc[t] # "idle"
    BY <1>2, <2>2 DEF PartInv
  <2>3. CASE calls'[t] = calls[t] + 1
    BY <1>1, <1>2, <2>1, <2>3 DEF PartInv
  <2> QED BY <2>2, <2>3 DEF Alone
<1>3. CASE p.by # t
  <2>1. /\ pc'[p.by] = pc[p.by] /\ calls'[p.by] = calls[p.by]
        /\ logger'[p.by] = logger[p.by]
    BY <1>1, <1>3 DEF Alone
  <2>2. pc[p.by] = "write" => SinkOf(p.by)' = SinkOf(p.by)
    BY <1>1, <2>1, SinkKept
  <2> QED BY <2>1, <2>2 DEF PartInv
<1> QED BY <1>2, <1>3

(* A step that writes nothing keeps the logs as said.                        *)
LEMMA SilentKeeps ==
  ASSUME Inv, LogInv, NEW t \in Threads, Keeps(t), Alone(t), out' = out,
         pc[t] = "write" => pc'[t] = "idle" /\ SinkOf(t)' = SinkOf(t),
         WriterInv(t)'
  PROVE  LogInv'
<1>1. \A u \in Threads : WriterInv(u)'
  BY OtherWriters
<1>2. ASSUME NEW log \in Shared, NEW i \in 1..Len(out[log]) PROVE PartInv(log, out[log][i])'
  <2>1. PICK p \in Pieces : p = out[log][i]
    BY SharedType
  <2>2. PartInv(log, p)'
    BY <2>1, OldParts DEF LogInv
  <2> QED BY <2>1, <2>2
<1> QED BY <1>1, <1>2 DEF LogInv
-----------------------------------------------------------------------------
(* Each action keeps the logs as said.                                       *)

(* A step that writes nothing and leaves t with nothing to write             *)
LEMMA AwayKeeps ==
  ASSUME Inv, LogInv, NEW t \in Threads, Keeps(t), Alone(t), out' = out,
         NEW where \in Locations \ {"bridge", "wait", "write"}, pc' = [pc EXCEPT ![t] = where],
         pc[t] = "write" => where = "idle" /\ UNCHANGED <<loggers, logger>>
  PROVE  LogInv'
<1>1. pc'[t] = where
  BY DEF Inv, TypeOK
<1>2. pc[t] = "write" => pc'[t] = "idle" /\ SinkOf(t)' = SinkOf(t)
  BY <1>1 DEF SinkOf
<1>3. WriterInv(t)'
  BY <1>1 DEF WriterInv
<1> QED BY <1>2, <1>3, SilentKeeps

(* Calls, the settings, messages that are discarded, and returns             *)
LEMMA AwayActions ==
  ASSUME Inv, LogInv, NEW t \in Threads, Keeps(t), Alone(t),
         Call(t) \/ InitOnce(t) \/ Discard(t) \/ Raise(t) \/ UnlockLog(t)
  PROVE  LogInv'
<1>1. CASE Call(t)
  <2>1. PICK where \in {"payload", "ready", "init"} : pc' = [pc EXCEPT ![t] = where]
    BY <1>1 DEF Call, Goto
  <2> QED BY <1>1, <2>1, AwayKeeps DEF Call, Locations
<1>2. CASE InitOnce(t) \/ Discard(t) \/ Raise(t)
  <2>1. PICK where \in {"ready", "level", "idle"} : pc' = [pc EXCEPT ![t] = where]
    BY <1>2 DEF InitOnce, SkipInit, ReadEnabled, ReadLevel, ReturnLogger, Discard, Raise, Return,
                Goto
  <2>2. out' = out /\ pc[t] # "write"
    BY <1>2 DEF InitOnce, SkipInit, ReadEnabled, ReadLevel, ReturnLogger, Discard, Raise
  <2> QED BY <2>1, <2>2, AwayKeeps DEF Locations
<1>3. CASE UnlockLog(t)
  <2>1. pc' = [pc EXCEPT ![t] = "idle"] /\ out' = out /\ UNCHANGED <<loggers, logger>>
    BY <1>3 DEF UnlockLog, Return, Goto, threadVars
  <2> QED BY <2>1, AwayKeeps DEF Locations
<1> QED BY <1>1, <1>2, <1>3

(* An accepted message has all its parts to write.                           *)
LEMMA AcceptLog ==
  ASSUME Inv, LogInv, NEW t \in Threads, Keeps(t), Alone(t), Accept(t)
  PROVE  LogInv'
<1>1. /\ pc[t] = "ready" /\ out' = out /\ parts' = [parts EXCEPT ![t] = Parts]
      /\ \E where \in {"bridge", "wait"} : pc' = [pc EXCEPT ![t] = where]
  BY DEF Accept, Goto
<1>2. parts'[t] = Parts /\ pc'[t] # "write"
  BY <1>1 DEF Inv, TypeOK
<1>3. WriterInv(t)'
  BY <1>2 DEF WriterInv
<1> QED BY <1>1, <1>3, SilentKeeps

(* The owner of the mutex has written none of them yet.                      *)
LEMMA LockLogLog ==
  ASSUME Inv, LogInv, NEW t \in Threads, Keeps(t), Alone(t), LockLog(t)
  PROVE  LogInv'
<1>1. /\ pc[t] = "wait" /\ out' = out /\ UNCHANGED <<calls, logger, parts>>
      /\ pc' = [pc EXCEPT ![t] = "write"]
  BY DEF LockLog, Goto, threadVars
<1>2. pc'[t] = "write" /\ parts[t] = Parts /\ logger[t] \in Ids
  BY <1>1 DEF Inv, TypeOK, LogInv, WriterInv
<1>3. PICK sink \in Ids \cup {"stdout"} : sink = SinkOf(t)'
  BY <1>1, <1>2 DEF SinkOf
<1>4. sink # "stdout" => Progress(t, 0)'
  <2> SUFFICES ASSUME sink # "stdout" PROVE Progress(t, 0)'
    OBVIOUS
  <2>1. sink \in Shared
    BY ConstantsAssumption DEF Shared, Sinks
  <2>2. \A i \in 1..Len(out[sink]) : ~Mine(t, out[sink][i])
    BY <1>1, <2>1 DEF LogInv, PartInv, Mine
  <2>3. Len(out[sink]) \in Nat /\ Len(out[sink]) - 0 = Len(out[sink])
    BY <2>1, SharedType
  <2> QED BY <1>1, <1>3, <2>2, <2>3 DEF Progress, Mine
<1>5. parts'[t] = (0 + 1)..2
  BY <1>1, <1>2 DEF Parts
<1>6. WriterInv(t)'
  BY <1>2, <1>3, <1>4, <1>5 DEF WriterInv
<1> QED BY <1>1, <1>6, SilentKeeps

(* The bridge is not given to the log of anybody who writes.                 *)
LEMMA HandOverLog ==
  ASSUME Inv, LogInv, NEW t \in Threads, Keeps(t), Alone(t),
         pc[t] \in {"bridge", "payload"}, pc' = [pc EXCEPT ![t] = "idle"], calls' = calls,
         out' = [out EXCEPT !["ngen"] = @ \o <<Piece(t, 1), Piece(t, 2)>>]
  PROVE  LogInv'
<1>1. pc'[t] = "idle" /\ "ngen" \in Shared /\ "ngen" \notin Ids /\ Ids \subseteq Sinks
  BY ConstantsAssumption DEF Inv, TypeOK, Shared, Sinks
<1>2. /\ out'["ngen"] = out["ngen"] \o <<Piece(t, 1), Piece(t, 2)>>
      /\ \A log \in Sinks \ {"ngen"} : out'[log] = out[log]
  BY BridgeText
<1>3. ASSUME NEW u \in Threads PROVE WriterInv(u)'
  <2>1. CASE u = t
    BY <1>1, <2>1 DEF WriterInv
  <2>2. CASE u # t
    BY <1>1, <1>2, <2>2, OtherWriters
  <2> QED BY <2>1, <2>2
<1>4. ASSUME NEW log \in Shared, NEW i \in 1..Len(out[log]) PROVE PartInv(log, out[log][i])'
  <2>1. PICK p \in Pieces : p = out[log][i] /\ PartInv(log, p)
    BY SharedType DEF LogInv
  <2>2. PartInv(log, p)'
    BY <2>1, OldParts
  <2> QED BY <2>1, <2>2 DEF PartInv
<1>5. ASSUME NEW log \in Shared, NEW i \in 1..Len(out'[log]) PROVE PartInv(log, out[log][i])'
  <2>1. CASE log # "ngen"
    <3>1. out'[log] = out[log]
      BY <1>2, <2>1, SharedType
    <3>2. PICK p : p = out[log][i] /\ p = out'[log][i]
      BY <3>1
    <3>3. PartInv(log, out[log][i])'
      BY <1>4, <3>1
    <3> QED BY <3>3
  <2>2. CASE log = "ngen"
    <3> DEFINE text == <<Piece(t, 1), Piece(t, 2)>>
    <3>1. /\ out[log] \in Seq(Pieces) /\ Len(out[log]) \in Nat /\ Len(text) = 2
          /\ text[1] = Piece(t, 1) /\ text[2] = Piece(t, 2) /\ out'[log] = out[log] \o text
          /\ text \in Seq(Pieces)
      BY <1>1, <1>2, <2>2, SharedType, BridgeText
    <3> HIDE DEF text
    <3>2. CASE i \in 1..Len(out[log])
      <4>1. out'[log][i] = out[log][i]
        BY <3>1, <3>2
      <4>2. PartInv(log, out[log][i])'
        BY <1>4, <3>2
      <4> QED BY <4>2
    <3>3. CASE i \notin 1..Len(out[log])
      <4>1. i - Len(out[log]) \in 1..2 /\ out'[log][i] = text[i - Len(out[log])]
        BY <3>1, <3>3
      <4>2. PICK j \in {1, 2} : out'[log][i] = text[j]
        BY <4>1
      <4>3. PICK p : p = out'[log][i] /\ (p = Piece(t, 1) \/ p = Piece(t, 2))
        BY <3>1, <4>2
      <4>4. p.by = t /\ p.n = calls[t]
        BY <4>3 DEF Piece
      <4>5. calls[t] \in Nat
        BY ConstantsAssumption DEF Inv, TypeOK
      <4> QED BY <1>1, <4>3, <4>4, <4>5 DEF PartInv
    <3> QED BY <3>2, <3>3
  <2> QED BY <2>1, <2>2
<1> QED BY <1>3, <1>5 DEF LogInv

(* What is handed to ngen, or dropped                                        *)
LEMMA BridgeLog ==
  ASSUME Inv, LogInv, NEW t \in Threads, Keeps(t), Alone(t), CallBridge(t) \/ SendPayload(t)
  PROVE  LogInv'
<1>1. /\ pc[t] \in {"bridge", "payload"} /\ pc' = [pc EXCEPT ![t] = "idle"] /\ calls' = calls
      /\ \/ out' = [out EXCEPT !["ngen"] = @ \o <<Piece(t, 1), Piece(t, 2)>>]
         \/ out' = out
  BY DEF CallBridge, SendPayload, Return, Goto, threadVars
<1>2. CASE out' = out
  BY <1>1, <1>2, AwayKeeps DEF Locations
<1>3. CASE out' = [out EXCEPT !["ngen"] = @ \o <<Piece(t, 1), Piece(t, 2)>>]
  BY <1>1, <1>3, HandOverLog
<1> QED BY <1>1, <1>2, <1>3

(* A part goes to the end of the file, or to stdout.                         *)
LEMMA WritePartStep ==
  ASSUME Inv, NEW t \in Threads, WritePart(t), NEW k \in 0..2, parts[t] = (k + 1)..2
  PROVE  /\ k \in 0..1 /\ parts'[t] = ((k + 1) + 1)..2 /\ Piece(t, k + 1) \in Pieces
         /\ SinkOf(t)' = SinkOf(t)
         /\ \A log \in Sinks \ {SinkOf(t)} : out'[log] = out[log]
         /\ out'[SinkOf(t)] = Append(out[SinkOf(t)], Piece(t, k + 1))
         /\ SinkOf(t) # "stdout" /\ Progress(t, k) => Progress(t, k + 1)'
<1>1. PICK sink \in Sinks : sink = SinkOf(t)
  BY SinkType
<1>2. /\ pc[t] = "write" /\ UNCHANGED <<loggers, calls, logger, pc>>
  BY DEF WritePart
<1>3. PICK p \in parts[t] :
        /\ \A q \in parts[t] : p <= q
        /\ out' = [out EXCEPT ![sink] = Append(@, Piece(t, p))]
        /\ parts' = [parts EXCEPT ![t] = @ \ {p}]
  BY <1>1 DEF WritePart
<1>4. k \in 0..1 /\ p = k + 1
  <2>1. k \in 0..1
    BY <1>3
  <2>2. k + 1 \in (k + 1)..2 /\ p \in (k + 1)..2
    BY <1>3, <2>1
  <2> QED BY <1>3, <2>1, <2>2
<1>5. /\ out[sink] \in Seq(Pieces) /\ out \in [Sinks -> Seq(Pieces)]
      /\ parts \in [Threads -> SUBSET Parts]
  BY DEF Inv, TypeOK
<1>6. parts'[t] = ((k + 1) + 1)..2
  BY <1>3, <1>4, <1>5
<1>7. PICK new \in Pieces : new = Piece(t, k + 1)
  <2>1. k + 1 \in Parts
    BY <1>4 DEF Parts
  <2> QED BY <1>2, <2>1, PieceType
<1>8. /\ out'[sink] = Append(out[sink], new)
      /\ \A log \in Sinks \ {sink} : out'[log] = out[log]
  BY <1>3, <1>4, <1>5, <1>7
<1>9. SinkOf(t)' = sink
  BY <1>1, <1>2 DEF SinkOf
<1>10. ASSUME Progress(t, k) PROVE Progress(t, k + 1)'
  <2>1. PICK start \in Nat : start = Len(out[sink]) - k
    BY <1>1, <1>10 DEF Progress
  <2>2. /\ \A i \in 1..k : out[sink][start + i] = Piece(t, i)
        /\ \A i \in 1..start : ~Mine(t, out[sink][i])
    BY <1>1, <1>10, <2>1 DEF Progress
  <2>3. /\ Len(out[sink]) \in Nat /\ Len(out[sink]) = start + k
        /\ Len(out'[sink]) = Len(out[sink]) + 1
        /\ \A i \in 1..Len(out[sink]) : out'[sink][i] = out[sink][i]
        /\ out'[sink][Len(out[sink]) + 1] = new
    BY <1>4, <1>5, <1>8, <2>1
  <2>4. start = Len(out'[sink]) - (k + 1)
    BY <1>4, <2>3
  <2>5. ASSUME NEW i \in 1..(k + 1) PROVE out'[sink][start + i] = Piece(t, i)
    <3>1. CASE i = k + 1
      BY <1>4, <1>7, <2>3, <3>1
    <3>2. CASE i # k + 1
      <4>1. i \in 1..k /\ start + i \in 1..Len(out[sink])
        BY <1>4, <2>3, <3>2
      <4> QED BY <2>2, <2>3, <4>1
    <3> QED BY <3>1, <3>2
  <2>6. ASSUME NEW i \in 1..start PROVE ~Mine(t, out'[sink][i])
    <3>1. i \in 1..Len(out[sink])
      BY <1>4, <2>3
    <3> QED BY <2>2, <2>3, <3>1
  <2>7. \A i \in 1..(k + 1) : Piece(t, i)' = Piece(t, i)
    BY <1>2 DEF Piece
  <2> QED BY <1>2, <1>9, <2>4, <2>5, <2>6, <2>7 DEF Progress, Mine
<1> QED BY <1>1, <1>4, <1>6, <1>7, <1>8, <1>9, <1>10

(* A part more is written.                                                   *)
LEMMA WritePartLog ==
  ASSUME Inv, LogInv, NEW t \in Threads, Keeps(t), Alone(t), WritePart(t)
  PROVE  LogInv'
<1>1. PICK sink \in Sinks : sink = SinkOf(t)
  BY SinkType
<1>2. /\ pc[t] = "write" /\ pc'[t] = "write" /\ calls' = calls
  BY DEF WritePart
<1>3. PICK k \in 0..2 : parts[t] = (k + 1)..2 /\ (sink # "stdout" => Progress(t, k))
  BY <1>1, <1>2 DEF LogInv, WriterInv
<1>4. /\ k \in 0..1 /\ parts'[t] = ((k + 1) + 1)..2 /\ Piece(t, k + 1) \in Pieces
      /\ SinkOf(t)' = sink
      /\ \A log \in Sinks \ {sink} : out'[log] = out[log]
      /\ out'[sink] = Append(out[sink], Piece(t, k + 1))
      /\ sink # "stdout" => Progress(t, k + 1)'
  BY <1>1, <1>3, WritePartStep
<1>5. WriterInv(t)'
  <2>1. k + 1 \in 0..2
    BY <1>4
  <2> QED BY <1>2, <1>4, <2>1 DEF WriterInv
<1>6. \A u \in Threads : WriterInv(u)'
  <2>1. \A log \in Ids : out'[log] = out[log] \/ (pc[t] = "write" /\ log = SinkOf(t))
    BY <1>1, <1>2, <1>4 DEF Sinks
  <2> QED BY <1>5, <2>1, OtherWriters
<1>7. PICK new \in Pieces : new = Piece(t, k + 1) /\ new.by = t /\ new.n = calls[t]
  BY <1>4 DEF Piece
<1>8. ASSUME NEW log \in Shared, NEW i \in 1..Len(out'[log]) PROVE PartInv(log, out[log][i])'
  <2>1. log \in Sinks /\ out[log] \in Seq(Pieces) /\ Len(out[log]) \in Nat /\ calls[t] \in Nat
    BY SharedType, ConstantsAssumption DEF Inv, TypeOK
  <2>2. CASE i \in 1..Len(out[log])
    <3>1. PICK p \in Pieces : p = out[log][i] /\ PartInv(log, p)
      BY <2>2, SharedType DEF LogInv
    <3>2. out'[log][i] = p
      <4>1. PICK old \in Seq(Pieces) : old = out[log]
        BY <2>1
      <4>2. \A j \in 1..Len(old) : Append(old, new)[j] = old[j]
        OBVIOUS
      <4> QED BY <1>4, <1>7, <2>1, <2>2, <3>1, <4>1, <4>2
    <3>3. PartInv(log, p)'
      BY <1>1, <1>2, <1>4, <3>1, OldParts
    <3> QED BY <3>2, <3>3 DEF PartInv
  <2>3. CASE i \notin 1..Len(out[log])
    <3>1. log = sink
      BY <1>4, <2>1, <2>3
    <3>2. out'[log][i] = new
      BY <1>4, <1>7, <2>1, <2>3, <3>1
    <3> QED BY <1>2, <1>4, <1>7, <2>1, <3>1, <3>2 DEF PartInv
  <2> QED BY <2>2, <2>3
<1> QED BY <1>6, <1>8 DEF LogInv

(* The logs start empty.                                                     *)
LEMMA InitLog == Init => LogInv
<1> SUFFICES ASSUME Init PROVE LogInv
  OBVIOUS
<1>1. pc = [t \in Threads |-> "idle"] /\ out = [s \in Sinks |-> <<>>]
  BY DEF Init
<1>2. \A log \in Shared : Len(out[log]) = 0
  BY <1>1 DEF Shared
<1> QED BY <1>1, <1>2 DEF LogInv, WriterInv

(* Every step keeps what is said of the logs.                                *)
LEMMA LogStep == Inv /\ LogInv /\ [Next]_vars => LogInv'
<1> SUFFICES ASSUME Inv, LogInv, [Next]_vars PROVE LogInv'
  OBVIOUS
<1>1. ASSUME UNCHANGED <<loggers, pc, calls, logger, parts, out>> PROVE LogInv'
  <2>1. \A u \in Threads : SinkOf(u)' = SinkOf(u)
    BY <1>1 DEF SinkOf
  <2>2. ASSUME NEW log \in Shared, NEW i \in 1..Len(out[log]) PROVE PartInv(log, out[log][i])'
    <3>1. out[log][i] \in Pieces /\ PartInv(log, out[log][i])
      BY SharedType DEF LogInv
    <3>2. PICK p \in Pieces : p = out[log][i] /\ PartInv(log, p)
      BY <3>1
    <3>3. PartInv(log, p)'
      BY <1>1, <2>1, <3>2 DEF PartInv, Pieces
    <3> QED BY <1>1, <3>2, <3>3 DEF PartInv
  <2>3. ASSUME NEW u \in Threads PROVE WriterInv(u)'
    <3>1. ASSUME NEW k \in 0..2, Progress(u, k) PROVE Progress(u, k)'
      BY <1>1, <2>1, <3>1 DEF Progress, Mine, Piece
    <3>2. WriterInv(u)
      BY DEF LogInv
    <3> QED BY <1>1, <2>1, <3>1, <3>2 DEF WriterInv
  <2> QED BY <1>1, <2>2, <2>3 DEF LogInv
<1>2. CASE UNCHANGED vars \/ NgenInitialises \/ LoadBridge \/ Finished
  BY <1>1, <1>2 DEF vars, threadVars, NgenInitialises, LoadBridge, Finished
<1>3. ASSUME NEW t \in Threads, Call(t) \/ InitOnce(t) \/ Output(t) PROVE LogInv'
  <2>1. Keeps(t) /\ Alone(t)
    BY <1>3, ThreadKeeps
  <2> QED BY <1>3, <2>1, AwayActions, AcceptLog, BridgeLog, LockLogLog, WritePartLog DEF Output
<1> QED BY <1>2, <1>3 DEF Next
-----------------------------------------------------------------------------
(* What a log shows                                                          *)

(* Shown is determined by where the unfinished message at the end begins.    *)
LEMMA ShownIs ==
  ASSUME Inv, NEW log \in Shared, NEW n \in 0..Len(out[log]),
         n = 0 \/ ~Unfinished(out[log][n]),
         \A i \in (n + 1)..Len(out[log]) : Unfinished(out[log][i])
  PROVE  Shown(log) = n
<1>1. Len(out[log]) \in Nat /\ DOMAIN out[log] = 1..Len(out[log])
  BY SharedType
<1> DEFINE finished == {i \in DOMAIN out[log] : ~Unfinished(out[log][i])}
<1>2. n \in finished \cup {0} /\ \A i \in finished : i <= n
  BY <1>1
<1>3. \A m \in finished \cup {0} : (\A i \in finished : i <= m) => m = n
  <2>1. finished \subseteq Nat
    BY <1>1
  <2> HIDE DEF finished
  <2> QED BY <1>1, <1>2, <2>1
<1>4. Shown(log) = CHOOSE m \in finished \cup {0} : \A i \in finished : i <= m
  BY DEF Shown
<1> HIDE DEF finished
<1> QED BY <1>2, <1>3, <1>4

(* An unfinished part belongs to the one thread that writes to its log.      *)
LEMMA UnfinishedPart ==
  ASSUME Inv, LogInv, NEW log \in Shared, NEW i \in 1..Len(out[log]), Unfinished(out[log][i])
  PROVE  LET u == out[log][i].by IN
         /\ u \in Threads /\ pc[u] = "write" /\ parts[u] # {} /\ log = SinkOf(u)
         /\ Mine(u, out[log][i])
<1>1. PICK p \in Pieces : p = out[log][i] /\ PartInv(log, p)
  BY SharedType DEF LogInv
<1> QED BY <1>1 DEF Unfinished, Pieces, PartInv, Mine

(* Whether a thread is in the middle of a message to a log                   *)
Writes(u, log) == pc[u] = "write" /\ parts[u] # {} /\ log = SinkOf(u)

(* A log shows everything when nobody is in the middle of a message to it.   *)
LEMMA ShowsAll ==
  ASSUME Inv, LogInv, NEW log \in Shared, \A u \in Threads : ~Writes(u, log)
  PROVE  Shown(log) = Len(out[log])
<1>1. Len(out[log]) \in Nat
  BY SharedType
<1>2. \A i \in 1..Len(out[log]) : ~Unfinished(out[log][i])
  BY UnfinishedPart DEF Writes
<1> QED BY <1>1, <1>2, ShownIs

(* It hides the parts of the message that is being written to it.            *)
LEMMA HidesRest ==
  ASSUME Inv, LogInv, NEW log \in Shared, NEW t \in Threads, Writes(t, log),
         NEW k \in 0..2, Progress(t, k)
  PROVE  Shown(log) = Len(out[log]) - k
<1>1. PICK start \in Nat : start = Len(out[log]) - k
  BY DEF Progress, Writes
<1>2. /\ \A i \in 1..k : out[log][start + i] = Piece(t, i)
      /\ \A i \in 1..start : ~Mine(t, out[log][i])
  BY <1>1 DEF Progress, Writes
<1>3. Len(out[log]) \in Nat /\ Len(out[log]) = start + k /\ start \in 0..Len(out[log])
  BY <1>1, SharedType
<1>4. start = 0 \/ ~Unfinished(out[log][start])
  <2> SUFFICES ASSUME start # 0, Unfinished(out[log][start]) PROVE FALSE
    OBVIOUS
  <2>1. start \in 1..start /\ start \in 1..Len(out[log])
    BY <1>3
  <2>2. PICK u \in Threads : /\ pc[u] = "write" /\ log = SinkOf(u)
                             /\ Mine(u, out[log][start])
    BY <2>1, UnfinishedPart
  <2>3. u = t
    BY <2>2, OwnFile, SharedType DEF Writes
  <2> QED BY <1>2, <2>1, <2>2, <2>3
<1>5. ASSUME NEW i \in (start + 1)..Len(out[log]) PROVE Unfinished(out[log][i])
  <2>1. i - start \in 1..k /\ start + (i - start) = i
    BY <1>3
  <2>2. out[log][i] = Piece(t, i - start)
    BY <1>2, <2>1
  <2> QED BY <2>2 DEF Unfinished, Piece, Writes
<1> QED BY <1>1, <1>3, <1>4, <1>5, ShownIs

(* What a log shows is a beginning of it.                                    *)
LEMMA ShownType ==
  ASSUME Inv, LogInv, NEW log \in Shared
  PROVE  Shown(log) \in 0..Len(out[log]) /\ Len(out[log]) \in Nat
<1>1. Len(out[log]) \in Nat
  BY SharedType
<1>2. CASE \A u \in Threads : ~Writes(u, log)
  BY <1>1, <1>2, ShowsAll
<1>3. ASSUME NEW u \in Threads, Writes(u, log) PROVE Shown(log) \in 0..Len(out[log])
  <2>1. PICK k \in 0..2 : Progress(u, k)
    BY <1>3, SharedType DEF LogInv, WriterInv, Writes
  <2>2. Shown(log) = Len(out[log]) - k /\ Len(out[log]) - k \in Nat
    BY <1>3, <2>1, HidesRest DEF Progress, Writes
  <2> QED BY <1>1, <2>2
<1> QED BY <1>1, <1>2, <1>3

(* A message to a file has taken effect exactly when its last part is out.   *)
Done(t) == pc[t] = "write" /\ parts[t] = {} /\ SinkOf(t) # "stdout"

(* A call is recorded in MessageLog as soon as its last part is in its file. *)
RecordedIsDone == \A t \in Threads : (pc[t] # "idle" /\ TookEffect(t)) <=> Done(t)

(* This is so because no part of a call is in a log before it writes.        *)
LEMMA RecordedDone == Inv /\ LogInv => RecordedIsDone
<1> SUFFICES ASSUME Inv, LogInv, NEW t \in Threads
             PROVE  (pc[t] # "idle" /\ TookEffect(t)) <=> Done(t)
  BY DEF RecordedIsDone
<1>1. ASSUME pc[t] # "idle", TookEffect(t) PROVE Done(t)
  <2>1. PICK log \in Shared : \E i \in DOMAIN Visible(log) :
          Visible(log)[i].by = t /\ Visible(log)[i].n = calls[t]
    BY <1>1 DEF TookEffect
  <2>2. Shown(log) \in 0..Len(out[log]) /\ Len(out[log]) \in Nat
    BY ShownType
  <2>3. PICK i \in 1..Shown(log) : Mine(t, out[log][i])
    BY <2>1 DEF Mine, Visible
  <2>4. i \in 1..Len(out[log])
    BY <2>2
  <2>5. PICK p : p = out[log][i] /\ PartInv(log, p) /\ Mine(t, p)
    BY <2>3, <2>4 DEF LogInv
  <2>6. pc[t] = "write" /\ log = SinkOf(t)
    BY <1>1, <2>5 DEF PartInv, Mine
  <2>7. ASSUME parts[t] # {} PROVE FALSE
    <3>1. PICK k \in 0..2 : Progress(t, k)
      BY <2>6, SharedType DEF LogInv, WriterInv
    <3>2. Shown(log) = Len(out[log]) - k
      BY <2>6, <2>7, <3>1, HidesRest DEF Writes
    <3> QED BY <2>3, <2>6, <3>1, <3>2 DEF Progress
  <2> QED BY <2>6, <2>7, SharedType DEF Done
<1>2. ASSUME Done(t) PROVE pc[t] # "idle" /\ TookEffect(t)
  <2>1. PICK sink \in Shared : sink = SinkOf(t)
    BY <1>2, SinkType DEF Done
  <2>2. PICK k \in 0..2 : parts[t] = (k + 1)..2 /\ Progress(t, k)
    BY <1>2 DEF Done, LogInv, WriterInv
  <2>3. k = 2
    BY <1>2, <2>2 DEF Done
  <2>4. /\ Len(out[sink]) \in Nat /\ Len(out[sink]) - 2 \in Nat
        /\ out[sink][(Len(out[sink]) - 2) + 2] = Piece(t, 2)
    BY <2>1, <2>2, <2>3, SharedType DEF Progress
  <2>5. Shown(sink) = Len(out[sink])
    <3>1. \A u \in Threads : ~Writes(u, sink)
      BY <1>2, <2>1, OwnFile DEF Done, Writes
    <3> QED BY <3>1, ShowsAll
  <2>6. Len(out[sink]) \in 1..Len(out[sink]) /\ out[sink][Len(out[sink])] = Piece(t, 2)
    BY <2>4
  <2>7. /\ Len(out[sink]) \in DOMAIN Visible(sink)
        /\ Visible(sink)[Len(out[sink])] = Piece(t, 2)
    BY <2>5, <2>6 DEF Visible
  <2> QED BY <1>2, <2>7 DEF TookEffect, Piece, Done
<1> QED BY <1>1, <1>2

(* The same after a step                                                     *)
LEMMA RecordedDoneNext == (Inv /\ LogInv)' => RecordedIsDone'
BY RecordedDone, PTL

(* What the logs show, in a form that also holds in the next state           *)
ShownRight ==
  \A log \in Shared :
    /\ out[log] \in Seq(Pieces) /\ Shown(log) \in 0..Len(out[log])
    /\ (\A u \in Threads : ~Writes(u, log)) => Shown(log) = Len(out[log])
    /\ \A u \in Threads : Writes(u, log) =>
         \A k \in 0..2 : Progress(u, k) => Shown(log) = Len(out[log]) - k

(* What is shown of a log is all of it, or all but the message being         *)
(* written.                                                                  *)
LEMMA ShownIsRight == Inv /\ LogInv => ShownRight
BY ShownType, ShowsAll, HidesRest, SharedType DEF ShownRight

(* The same after a step                                                     *)
LEMMA ShownIsRightNext == (Inv /\ LogInv)' => ShownRight'
BY ShownIsRight, PTL
-----------------------------------------------------------------------------
(* The refinement                                                            *)

(* The variables of MessageLog, as the C++ runtime implements them           *)
Submitted == [t \in Threads |-> IF pc[t] = "idle" THEN {-1} ELSE Parts]
Recorded  == [t \in Threads |-> pc[t] # "idle" /\ TookEffect(t)]
Logs      == [log \in Shared |-> Visible(log)]

(* What a step of t has to do with them                                      *)
LEMMA OnlyOwn ==
  ASSUME Inv, LogInv, Inv', LogInv', NEW t \in Threads, Keeps(t), Alone(t)
  PROVE  /\ \A u \in Threads : Recorded[u] = Done(u) /\ Recorded'[u] = Done(u)'
         /\ \A u \in Threads \ {t} : Submitted'[u] = Submitted[u] /\ Recorded'[u] = Recorded[u]
<1>1. RecordedIsDone /\ RecordedIsDone'
  BY RecordedDone, RecordedDoneNext
<1>2. \A u \in Threads : Recorded[u] = Done(u) /\ Recorded'[u] = Done(u)'
  BY <1>1 DEF RecordedIsDone, Recorded, Done
<1>3. ASSUME NEW u \in Threads \ {t}
      PROVE  Submitted'[u] = Submitted[u] /\ Recorded'[u] = Recorded[u]
  <2>1. pc'[u] = pc[u] /\ parts'[u] = parts[u] /\ logger'[u] = logger[u]
    BY DEF Alone
  <2>2. pc[u] = "write" => SinkOf(u)' = SinkOf(u)
    BY <2>1, SinkKept
  <2>3. Done(u)' = Done(u)
    BY <2>1, <2>2 DEF Done
  <2> QED BY <1>2, <2>1, <2>3 DEF Submitted
<1> QED BY <1>2, <1>3

(* A log to which nothing is added shows the same, unless a message to it    *)
(* was half written.                                                         *)
LEMMA VisibleSame ==
  ASSUME Inv, LogInv, NEW t \in Threads, Keeps(t), Alone(t),
         NEW log \in Shared, out'[log] = out[log], ~Writes(t, log),
         pc'[t] = "write" =>
           /\ calls'[t] = calls[t]
           /\ pc[t] = "wait" \/ (pc[t] = "write" /\ log # SinkOf(t))
  PROVE  Visible(log)' = Visible(log)
<1>1. DOMAIN out[log] = 1..Len(out[log]) /\ \A i \in 1..Len(out[log]) : out[log][i] \in Pieces
  BY SharedType
<1>2. ASSUME NEW p \in Pieces, PartInv(log, p) PROVE Unfinished(p)' <=> Unfinished(p)
  <2>1. CASE p.by # t
    BY <2>1 DEF Unfinished, Alone, Pieces
  <2>2. CASE p.by = t
    <3>1. ~Unfinished(p)
      BY <1>2, <2>2 DEF Unfinished, PartInv, Writes
    <3>2. ~Unfinished(p)'
      BY <1>2, <2>2 DEF Unfinished, PartInv
    <3> QED BY <3>1, <3>2
  <2> QED BY <2>1, <2>2
<1>3. ASSUME NEW i \in 1..Len(out[log])
      PROVE  Unfinished(out[log][i])' <=> Unfinished(out[log][i])
  <2>1. PICK p \in Pieces : p = out[log][i] /\ p = out'[log][i]
    BY <1>1
  <2>2. PartInv(log, p)
    BY <2>1 DEF LogInv
  <2>3. Unfinished(p)' <=> Unfinished(p)
    BY <1>2, <2>2
  <2> QED BY <2>1, <2>3 DEF Unfinished
<1>4. {i \in DOMAIN out'[log] : ~Unfinished(out[log][i])'}
        = {i \in DOMAIN out[log] : ~Unfinished(out[log][i])}
  BY <1>1, <1>3
<1>5. Shown(log)' = Shown(log)
  BY <1>4 DEF Shown
<1> QED BY <1>5 DEF Visible

(* The steps that a caller does not see                                      *)
LEMMA QuietStep ==
  ASSUME Inv, LogInv, Inv', LogInv', NEW t \in Threads, Keeps(t), Alone(t),
         SkipInit(t) \/ ReadEnabled(t) \/ ReadLevel(t) \/ Accept(t) \/ LockLog(t)
  PROVE  UNCHANGED <<calls, Submitted, Recorded, Logs>>
<1>1. UNCHANGED <<calls, out>>
  BY DEF SkipInit, ReadEnabled, ReadLevel, Accept, LockLog, threadVars
<1>2. /\ pc[t] \in {"init", "level", "ready", "wait"}
      /\ pc'[t] \in {"level", "ready", "bridge", "wait", "write"}
      /\ pc'[t] = "write" => pc[t] = "wait" /\ parts'[t] = parts[t]
  <2>1. pc \in [Threads -> Locations]
    BY DEF Inv, TypeOK
  <2> QED BY <2>1 DEF SkipInit, ReadEnabled, ReadLevel, Accept, LockLog, Goto, threadVars
<1>3. Submitted' = Submitted
  <2>1. \A u \in Threads : Submitted'[u] = Submitted[u]
    BY <1>2, OnlyOwn DEF Submitted
  <2> QED BY <2>1 DEF Submitted
<1>4. Recorded' = Recorded
  <2>1. pc[t] = "wait" => parts[t] # {}
    BY DEF LogInv, WriterInv, Parts
  <2>2. ~Done(t) /\ ~Done(t)'
    BY <1>2, <2>1 DEF Done
  <2>3. \A u \in Threads : Recorded'[u] = Recorded[u]
    BY <2>2, OnlyOwn DEF Done
  <2> QED BY <2>3 DEF Recorded
<1>5. Logs' = Logs
  <2>1. \A log \in Shared : Visible(log)' = Visible(log)
    BY <1>1, <1>2, VisibleSame DEF Writes
  <2> QED BY <2>1 DEF Logs
<1> QED BY <1>1, <1>3, <1>4, <1>5

(* A call starts.                                                            *)
LEMMA CallStep ==
  ASSUME Inv, LogInv, Inv', LogInv', NEW t \in Threads, Keeps(t), Alone(t), Call(t)
  PROVE  Abstract!Submit(t)
<1>1. /\ pc[t] = "idle" /\ calls' = [calls EXCEPT ![t] = @ + 1] /\ out' = out
      /\ pc'[t] \in {"payload", "ready", "init"}
  <2>1. pc \in [Threads -> Locations]
    BY DEF Inv, TypeOK
  <2> QED BY <2>1 DEF Call, Goto
<1>2. Submitted[t] = {-1} /\ Submitted' = [Submitted EXCEPT ![t] = Parts]
  <2>1. Submitted[t] = {-1} /\ Submitted'[t] = Parts
    BY <1>1 DEF Submitted
  <2>2. \A u \in Threads : Submitted'[u] = IF u = t THEN Parts ELSE Submitted[u]
    BY <2>1, OnlyOwn
  <2> QED BY <2>1, <2>2 DEF Submitted
<1>3. Recorded' = Recorded
  <2>1. ~Done(t) /\ ~Done(t)'
    BY <1>1 DEF Done
  <2>2. \A u \in Threads : Recorded'[u] = Recorded[u]
    BY <2>1, OnlyOwn DEF Done
  <2> QED BY <2>2 DEF Recorded
<1>4. Logs' = Logs
  <2>1. \A log \in Shared : Visible(log)' = Visible(log)
    BY <1>1, VisibleSame DEF Writes
  <2> QED BY <2>1 DEF Logs
<1> QED BY <1>1, <1>2, <1>3, <1>4
     DEF Abstract!Submit, Abstract!Idle, Submitted, Recorded, Logs

(* A call that leaves nothing returns, and so does one that has written      *)
(* everything.                                                               *)
LEMMA ReturnStep ==
  ASSUME Inv, LogInv, Inv', LogInv', NEW t \in Threads, Keeps(t), Alone(t),
         \/ ReturnLogger(t) \/ Discard(t) \/ Raise(t) \/ UnlockLog(t)
         \/ SendPayload(t) /\ out' = out
  PROVE  Abstract!Return(t)
<1>1. /\ pc[t] # "idle" /\ pc' = [pc EXCEPT ![t] = "idle"] /\ UNCHANGED <<calls, out>>
      /\ pc[t] = "write" => parts[t] = {}
  BY DEF ReturnLogger, Discard, Raise, UnlockLog, SendPayload, Return, Goto, threadVars
<1>2. pc'[t] = "idle"
  BY <1>1 DEF Inv, TypeOK
<1>3. Submitted[t] # {-1} /\ Submitted' = [Submitted EXCEPT ![t] = {-1}]
  <2>1. Submitted[t] # {-1} /\ Submitted'[t] = {-1}
    BY <1>1, <1>2 DEF Submitted, Parts
  <2>2. \A u \in Threads : Submitted'[u] = IF u = t THEN {-1} ELSE Submitted[u]
    BY <2>1, OnlyOwn
  <2> QED BY <2>1, <2>2 DEF Submitted
<1>4. Recorded' = [Recorded EXCEPT ![t] = FALSE]
  <2>1. Recorded'[t] = FALSE
    BY <1>2 DEF Recorded
  <2>2. \A u \in Threads : Recorded'[u] = IF u = t THEN FALSE ELSE Recorded[u]
    BY <2>1, OnlyOwn
  <2> QED BY <2>2 DEF Recorded
<1>5. Logs' = Logs
  <2>1. \A log \in Shared : Visible(log)' = Visible(log)
    BY <1>1, <1>2, VisibleSame DEF Writes
  <2> QED BY <2>1 DEF Logs
<1> QED BY <1>1, <1>3, <1>4, <1>5
     DEF Abstract!Return, Abstract!Idle, Submitted, Recorded, Logs

(* The parts of a message, in the order in which they are written            *)
LEMMA SortedParts == Sorted(Parts) = <<1, 2>>
<1>1. Cardinality(Parts) = 2
  <2>1. IsFiniteSet({1}) /\ Cardinality({1}) = 1 /\ 2 \notin {1}
    BY FS_Singleton
  <2>2. Cardinality({1} \cup {2}) = Cardinality({1}) + 1
    BY <2>1, FS_AddElement
  <2>3. Parts = {1} \cup {2}
    BY DEF Parts
  <2> QED BY <2>1, <2>2, <2>3
<1> DEFINE Good(s) == s \in [1..2 -> Parts] /\ \A i, j \in DOMAIN s : i < j => s[i] < s[j]
<1>2. Good(<<1, 2>>)
  BY DEF Parts
<1>3. ASSUME NEW s, Good(s) PROVE s = <<1, 2>>
  <2>1. s[1] \in {1, 2} /\ s[2] \in {1, 2} /\ s[1] < s[2]
    BY <1>3 DEF Parts
  <2>2. s[1] = 1 /\ s[2] = 2
    BY <2>1
  <2>3. s = [i \in 1..2 |-> IF i = 1 THEN 1 ELSE 2]
    BY <1>3, <2>2
  <2> QED BY <2>3
<1>4. Sorted(Parts)
        = CHOOSE s \in [1..2 -> Parts] : \A i, j \in DOMAIN s : i < j => s[i] < s[j]
  BY <1>1 DEF Sorted
<1> QED BY <1>2, <1>3, <1>4

(* What MessageLog says a call appends                                       *)
LEMMA TextIs ==
  ASSUME NEW t \in Threads, pc[t] # "idle"
  PROVE  Abstract!Text(t) = <<Piece(t, 1), Piece(t, 2)>>
<1>1. \A S : Abstract!Sorted(S) = Sorted(S)
  BY DEF Abstract!Sorted, Sorted, Abstract!Cardinality, Cardinality
<1>2. Submitted[t] = Parts
  BY DEF Submitted
<1>3. Abstract!Text(t) = LET lines == <<1, 2>> IN
        [i \in 1..Len(lines) |-> [by |-> t, n |-> calls[t], line |-> lines[i]]]
  BY <1>1, <1>2, SortedParts DEF Abstract!Text, Submitted
<1>4. Abstract!Text(t) = [i \in 1..2 |-> [by |-> t, n |-> calls[t], line |-> i]]
  BY <1>3
<1>5. Abstract!Text(t) = [i \in 1..2 |-> Piece(t, i)]
  BY <1>4 DEF Piece
<1> QED BY <1>5

(* A log whose shown part grows by the text of t                             *)
LEMMA Grows ==
  ASSUME Inv, LogInv, Inv', LogInv', NEW t \in Threads, NEW log \in Shared, pc[t] # "idle",
         Shown(log)' = Shown(log) + 2,
         \A i \in 1..Shown(log) : out'[log][i] = out[log][i],
         out'[log][Shown(log) + 1] = Piece(t, 1), out'[log][Shown(log) + 2] = Piece(t, 2)
  PROVE  Visible(log)' = Visible(log) \o Abstract!Text(t)
<1>1. PICK n \in Nat : n = Shown(log) /\ n \in 0..Len(out[log])
  BY ShownType
<1>2. PICK old \in Seq(Pieces) : old = out[log]
  BY SharedType
<1>3. n + 2 \in 0..Len(out'[log]) /\ out'[log] \in Seq(Pieces)
  BY <1>1, ShownIsRightNext DEF ShownRight
<1>4. PICK now \in Seq(Pieces) : now = out'[log]
  BY <1>3
<1> DEFINE a == [i \in 1..n |-> old[i]]
           c == [i \in 1..(n + 2) |-> now[i]]
<1>5. PICK first \in Pieces : first = Piece(t, 1)
  BY PieceType DEF Parts
<1>6. PICK second \in Pieces : second = Piece(t, 2)
  BY PieceType DEF Parts
<1>7. a \in Seq(Pieces) /\ Len(a) = n /\ \A i \in 1..n : a[i] = old[i]
  BY <1>1, <1>2
<1>8. /\ c \in Seq(Pieces) /\ Len(c) = n + 2 /\ \A i \in 1..(n + 2) : c[i] = now[i]
  <2>1. n + 2 \in Nat /\ \A i \in 1..(n + 2) : now[i] \in Pieces
    BY <1>1, <1>3, <1>4
  <2> QED BY <2>1
<1> HIDE DEF a, c
<1>9. c = a \o <<first, second>>
  <2>1. /\ a \o <<first, second>> \in Seq(Pieces) /\ Len(a \o <<first, second>>) = n + 2
        /\ \A i \in 1..n : (a \o <<first, second>>)[i] = a[i]
        /\ (a \o <<first, second>>)[n + 1] = first /\ (a \o <<first, second>>)[n + 2] = second
    BY <1>7
  <2>2. ASSUME NEW i \in 1..n PROVE c[i] = a[i]
    <3>1. i \in 1..(n + 2) /\ i \in 1..Shown(log)
      BY <1>1
    <3>2. now[i] = old[i]
      BY <1>2, <1>4, <3>1
    <3> QED BY <1>7, <1>8, <3>1, <3>2
  <2>3. c[n + 1] = first /\ c[n + 2] = second
    BY <1>1, <1>4, <1>5, <1>6, <1>8
  <2>4. ASSUME NEW i \in 1..(n + 2) PROVE c[i] = (a \o <<first, second>>)[i]
    <3>1. i \in 1..n \/ i = n + 1 \/ i = n + 2
      BY <1>1
    <3> QED BY <2>1, <2>2, <2>3, <3>1
  <2> QED BY <1>8, <2>1, <2>4
<1>10. Visible(log) = a /\ Visible(log)' = c
  BY <1>1, <1>2, <1>4 DEF Visible, a, c
<1> QED BY <1>5, <1>6, <1>9, <1>10, TextIs

(* A call that is handed to ngen takes effect and returns.                   *)
LEMMA HandStep ==
  ASSUME Inv, LogInv, Inv', LogInv', NEW t \in Threads, Keeps(t), Alone(t),
         CallBridge(t) \/ (SendPayload(t) /\ out' # out)
  PROVE  Abstract!Record(t)
<1>1. /\ pc[t] \in {"bridge", "payload"} /\ pc' = [pc EXCEPT ![t] = "idle"]
      /\ UNCHANGED <<loggers, calls, logger>>
      /\ out' = [out EXCEPT !["ngen"] = @ \o <<Piece(t, 1), Piece(t, 2)>>]
  BY DEF CallBridge, SendPayload, Return, Goto, threadVars
<1>2. pc'[t] = "idle" /\ "ngen" \in Shared
  BY <1>1 DEF Inv, TypeOK, Sinks, Shared
<1>3. /\ out'["ngen"] = out["ngen"] \o <<Piece(t, 1), Piece(t, 2)>>
      /\ \A log \in Sinks \ {"ngen"} : out'[log] = out[log]
  BY <1>1, BridgeText
<1>4. PICK old \in Seq(Pieces) : old = out["ngen"]
  BY <1>2, SharedType
<1>5. PICK first \in Pieces : first = Piece(t, 1)
  BY <1>1, PieceType DEF Parts
<1>6. PICK second \in Pieces : second = Piece(t, 2)
  BY <1>1, PieceType DEF Parts
<1>7. /\ Len(old) \in Nat /\ Len(out'["ngen"]) = Len(old) + 2
      /\ \A i \in 1..Len(old) : out'["ngen"][i] = old[i]
      /\ out'["ngen"][Len(old) + 1] = first /\ out'["ngen"][Len(old) + 2] = second
  BY <1>3, <1>4, <1>5, <1>6
<1>8. Shown("ngen") = Len(old) /\ Shown("ngen")' = Len(old) + 2
  <2>1. \A u \in Threads : ~Writes(u, "ngen")
    BY SinkType DEF Writes
  <2>2. ASSUME NEW u \in Threads PROVE ~Writes(u, "ngen")'
    <3>1. SinkOf(u)' = SinkOf(u) \/ u # t
      BY <1>1 DEF SinkOf
    <3>2. SinkOf(u)' # "ngen"
      <4>1. logger[u] \in Ids /\ logger' = logger
        BY <1>1 DEF Inv, TypeOK
      <4> QED BY <4>1, ConstantsAssumption DEF SinkOf
    <3> QED BY <3>2 DEF Writes
  <2>3. ShownRight /\ ShownRight'
    BY ShownIsRight, ShownIsRightNext
  <2> QED BY <1>2, <1>4, <1>7, <2>1, <2>2, <2>3 DEF ShownRight
<1>9. Visible("ngen")' = Visible("ngen") \o Abstract!Text(t)
  BY <1>1, <1>2, <1>4, <1>5, <1>6, <1>7, <1>8, Grows
<1>10. Logs' = [Logs EXCEPT !["ngen"] = @ \o Abstract!Text(t)]
  <2>1. \A log \in Shared \ {"ngen"} : Visible(log)' = Visible(log)
    BY <1>1, <1>2, <1>3, SharedType, VisibleSame DEF Writes
  <2> QED BY <1>2, <1>9, <2>1 DEF Logs
<1>11. /\ Submitted[t] = Parts /\ Submitted[t] # {-1} /\ Submitted[t] # {}
       /\ Submitted' = [Submitted EXCEPT ![t] = {-1}]
  <2>1. Submitted[t] = Parts /\ Submitted'[t] = {-1}
    BY <1>1, <1>2 DEF Submitted
  <2>2. \A u \in Threads : Submitted'[u] = IF u = t THEN {-1} ELSE Submitted[u]
    BY <2>1, OnlyOwn
  <2>3. Parts # {-1} /\ Parts # {}
    BY DEF Parts
  <2> QED BY <2>1, <2>2, <2>3 DEF Submitted
<1>12. Recorded' = Recorded /\ ~Recorded[t]
  <2>1. ~Done(t) /\ ~Done(t)'
    BY <1>1, <1>2 DEF Done
  <2>2. \A u \in Threads : Recorded'[u] = Recorded[u]
    BY <2>1, OnlyOwn DEF Done
  <2> QED BY <2>1, <2>2, OnlyOwn DEF Recorded
<1> QED BY <1>1, <1>2, <1>10, <1>11, <1>12
     DEF Abstract!Record, Abstract!Idle, Submitted, Recorded, Logs

(* A part of a message to stdout is nobody's business; one of a message to a *)
(* file is hidden, until the last shows them all.                            *)
LEMMA PartStep ==
  ASSUME Inv, LogInv, Inv', LogInv', NEW t \in Threads, Keeps(t), Alone(t), WritePart(t)
  PROVE  UNCHANGED <<calls, Submitted, Recorded, Logs>> \/ Abstract!Record(t)
<1>1. PICK sink \in Sinks : sink = SinkOf(t)
  BY SinkType
<1>2. pc[t] = "write" /\ pc' = pc /\ UNCHANGED <<loggers, calls, logger>> /\ parts[t] # {}
  BY DEF WritePart
<1>3. PICK k \in 0..2 : parts[t] = (k + 1)..2 /\ (sink # "stdout" => Progress(t, k))
  BY <1>1, <1>2 DEF LogInv, WriterInv
<1>4. /\ k \in 0..1 /\ parts'[t] = ((k + 1) + 1)..2
      /\ SinkOf(t)' = sink
      /\ \A log \in Sinks \ {sink} : out'[log] = out[log]
      /\ out'[sink] = Append(out[sink], Piece(t, k + 1))
      /\ sink # "stdout" => Progress(t, k + 1)'
  BY <1>1, <1>3, WritePartStep
<1>5. Submitted' = Submitted
  BY <1>2 DEF Submitted
<1>6. \A log \in Shared \ {sink} : Visible(log)' = Visible(log)
  BY <1>1, <1>2, <1>4, SharedType, VisibleSame DEF Writes
<1>7. ~Done(t)
  BY <1>2 DEF Done
<1>8. CASE sink = "stdout"
  <2>1. Logs' = Logs
    BY <1>6, <1>8, SharedType DEF Logs
  <2>2. ~Done(t)'
    BY <1>4, <1>8 DEF Done
  <2>3. \A u \in Threads : Recorded'[u] = Recorded[u]
    BY <1>7, <2>2, OnlyOwn DEF Done
  <2> QED BY <1>2, <1>5, <2>1, <2>3 DEF Recorded
<1>9. CASE sink # "stdout"
  <2>1. sink \in Shared
    BY <1>9 DEF Shared
  <2>2. PICK old \in Seq(Pieces) : old = out[sink]
    BY <2>1, SharedType
  <2>3. PICK new \in Pieces : new = Piece(t, k + 1)
    <3>1. k + 1 \in Parts
      BY <1>4 DEF Parts
    <3> QED BY <1>2, <3>1, PieceType
  <2>4. /\ Len(old) \in Nat /\ Len(out'[sink]) = Len(old) + 1
        /\ \A i \in 1..Len(old) : out'[sink][i] = old[i]
        /\ out'[sink][Len(old) + 1] = new
    BY <1>4, <2>2, <2>3
  <2>5. Shown(sink) = Len(old) - k /\ Len(old) - k \in Nat
    <3>1. Writes(t, sink)
      BY <1>1, <1>2 DEF Writes
    <3> QED BY <1>1, <1>3, <1>9, <2>1, <2>2, <3>1, HidesRest DEF Progress
  <2>6. ShownRight'
    BY ShownIsRightNext
  <2>7. CASE k = 0
    <3>1. parts'[t] # {}
      BY <1>4, <2>7
    <3>2. Shown(sink)' = Len(out'[sink]) - (k + 1)
      <4>1. Writes(t, sink)'
        BY <1>2, <1>4, <3>1 DEF Writes
      <4>2. k + 1 \in 0..2
        BY <1>4
      <4> QED BY <1>4, <1>9, <2>1, <2>6, <4>1, <4>2 DEF ShownRight
    <3>3. Shown(sink)' = Shown(sink) /\ Shown(sink) = Len(old)
      BY <2>4, <2>5, <2>7, <3>2
    <3>4. Visible(sink)' = Visible(sink)
      BY <2>2, <2>4, <3>3 DEF Visible
    <3>5. Logs' = Logs
      BY <1>6, <2>1, <3>4 DEF Logs
    <3>6. ~Done(t)'
      BY <3>1 DEF Done
    <3>7. \A u \in Threads : Recorded'[u] = Recorded[u]
      BY <1>7, <3>6, OnlyOwn DEF Done
    <3> QED BY <1>2, <1>5, <3>5, <3>7 DEF Recorded
  <2>8. CASE k = 1
    <3>1. parts'[t] = {}
      BY <1>4, <2>8
    <3>2. Shown(sink)' = Len(old) + 1
      <4>1. \A u \in Threads : pc'[u] = "write" /\ SinkOf(u)' = sink => u = t
        <5>1. \A u \in Threads : SinkOf(u)' = SinkOf(u)
          BY <1>2 DEF SinkOf
        <5> QED BY <1>1, <1>2, <1>9, <5>1, OwnFile
      <4>2. \A u \in Threads : ~Writes(u, sink)'
        BY <3>1, <4>1 DEF Writes
      <4> QED BY <2>1, <2>4, <2>6, <4>2 DEF ShownRight
    <3>3. Shown(sink) = Len(old) - 1 /\ Shown(sink) \in Nat /\ Shown(sink)' = Shown(sink) + 2
      BY <2>4, <2>5, <2>8, <3>2
    <3>4. out'[sink][Shown(sink) + 1] = Piece(t, 1)
      <4>1. old[(Len(old) - 1) + 1] = Piece(t, 1)
        BY <1>1, <1>3, <1>9, <2>2, <2>8 DEF Progress
      <4>2. (Len(old) - 1) + 1 \in 1..Len(old)
        BY <2>4, <3>3
      <4> QED BY <2>4, <3>3, <4>1, <4>2
    <3>5. out'[sink][Shown(sink) + 2] = Piece(t, 2)
      <4>1. Shown(sink) + 2 = Len(old) + 1
        BY <2>4, <3>3
      <4> QED BY <2>3, <2>4, <2>8, <4>1
    <3>6. \A i \in 1..Shown(sink) : out'[sink][i] = out[sink][i]
      BY <2>2, <2>4, <3>3
    <3>7. Visible(sink)' = Visible(sink) \o Abstract!Text(t)
      BY <1>2, <2>1, <3>3, <3>4, <3>5, <3>6, Grows
    <3>8. Logs' = [Logs EXCEPT ![sink] = @ \o Abstract!Text(t)]
      <4>1. \A log \in Shared : Visible(log)' =
              IF log = sink THEN Visible(log) \o Abstract!Text(t) ELSE Visible(log)
        BY <1>6, <3>7
      <4> QED BY <4>1 DEF Logs
    <3>9. Recorded' = [Recorded EXCEPT ![t] = TRUE] /\ ~Recorded[t]
      <4>1. Recorded'[t] = TRUE
        BY <1>2, <1>4, <1>9, <3>1, OnlyOwn DEF Done
      <4>2. \A u \in Threads : Recorded'[u] = IF u = t THEN TRUE ELSE Recorded[u]
        BY <4>1, OnlyOwn
      <4>3. ~Recorded[t]
        BY <1>7, OnlyOwn
      <4> QED BY <4>2, <4>3 DEF Recorded
    <3>10. Submitted[t] # {-1} /\ Submitted[t] # {}
      <4>1. Submitted[t] = Parts
        BY <1>2 DEF Submitted
      <4>2. Parts # {-1} /\ Parts # {}
        BY DEF Parts
      <4> QED BY <4>1, <4>2
    <3> QED BY <1>2, <1>5, <2>1, <3>8, <3>9, <3>10
         DEF Abstract!Record, Abstract!Idle, Submitted, Recorded, Logs
  <2> QED BY <1>4, <2>7, <2>8
<1> QED BY <1>8, <1>9

(* The initial states are initial states of MessageLog.                      *)
LEMMA AbstractInit == Init => Abstract!Init
<1> SUFFICES ASSUME Init PROVE Abstract!Init
  OBVIOUS
<1>1. /\ pc = [t \in Threads |-> "idle"] /\ calls = [t \in Threads |-> 0]
      /\ out = [s \in Sinks |-> <<>>]
  BY DEF Init
<1>2. \A log \in Shared : Visible(log) = <<>>
  <2> TAKE log \in Shared
  <2>1. Inv /\ LogInv /\ Len(out[log]) = 0
    BY <1>1, InitInv, InitLog DEF Shared
  <2>2. Shown(log) = 0
    BY <2>1, ShownType
  <2> QED BY <2>2 DEF Visible
<1> QED BY <1>1, <1>2 DEF Abstract!Init, Abstract!Idle

(* Every step is one of MessageLog, or none.                                 *)
LEMMA AbstractStep ==
  Inv /\ LogInv /\ (Inv /\ LogInv)' /\ [Next]_vars => [Abstract!Next]_(Abstract!vars)
<1> SUFFICES ASSUME Inv, LogInv, Inv', LogInv', [Next]_vars
             PROVE  [Abstract!Next]_(Abstract!vars)
  OBVIOUS
<1>1. ASSUME UNCHANGED <<calls, Submitted, Recorded, Logs>> PROVE UNCHANGED Abstract!vars
  BY <1>1 DEF Abstract!vars, Submitted, Recorded, Logs
<1>2. ASSUME UNCHANGED <<pc, calls, parts, out>> PROVE UNCHANGED Abstract!vars
  <2>1. \A log \in Shared : Visible(log)' = Visible(log)
    BY <1>2 DEF Visible, Shown, Unfinished
  <2>2. \A t \in Threads : TookEffect(t)' = TookEffect(t)
    BY <1>2, <2>1 DEF TookEffect
  <2> QED BY <1>1, <1>2, <2>1, <2>2 DEF Submitted, Recorded, Logs
<1>3. CASE UNCHANGED vars \/ NgenInitialises \/ LoadBridge \/ Finished
  BY <1>2, <1>3 DEF vars, threadVars, NgenInitialises, LoadBridge, Finished
<1>4. ASSUME NEW t \in Threads, Call(t) \/ InitOnce(t) \/ Output(t)
      PROVE  Abstract!Next \/ UNCHANGED Abstract!vars
  <2>1. Keeps(t) /\ Alone(t)
    BY <1>4, ThreadKeeps
  <2>2. CASE Call(t)
    BY <2>1, <2>2, CallStep DEF Abstract!Next
  <2>3. CASE \/ ReturnLogger(t) \/ Discard(t) \/ Raise(t) \/ UnlockLog(t)
             \/ SendPayload(t) /\ out' = out
    BY <2>1, <2>3, ReturnStep DEF Abstract!Next
  <2>4. CASE CallBridge(t) \/ (SendPayload(t) /\ out' # out)
    BY <2>1, <2>4, HandStep DEF Abstract!Next
  <2>5. CASE WritePart(t)
    BY <1>1, <2>1, <2>5, PartStep DEF Abstract!Next
  <2>6. CASE SkipInit(t) \/ ReadEnabled(t) \/ ReadLevel(t) \/ Accept(t) \/ LockLog(t)
    BY <1>1, <2>1, <2>6, QuietStep
  <2> QED BY <1>4, <2>2, <2>3, <2>4, <2>5, <2>6 DEF InitOnce, Output
<1> QED BY <1>3, <1>4 DEF Next

(* However many threads share an id, each message that its file or the       *)
(* bridge gets takes effect at one point between its call and its return,    *)
(* whole and once (Logger::Log).                                             *)
THEOREM CallsAreAtomicAlways == Spec => CallsAreAtomic
<1>1. Init => Inv /\ LogInv
  BY InitInv, InitLog
<1>2. (Inv /\ LogInv) /\ [Next]_vars => (Inv /\ LogInv)'
  BY StepInv, LogStep
<1> QED BY <1>1, <1>2, AbstractInit, AbstractStep, PTL DEF Spec, CallsAreAtomic, Abstract!Spec
=============================================================================
