-------------------------- MODULE NgenLoggerProofs --------------------------
(***************************************************************************)
(* Proofs about NgenLogger, for any number of threads, any registry, any    *)
(* messages and any configuration: types, the settings published once,      *)
(* whole messages in split files, and then, each with its inductive         *)
(* invariant, the streams kept apart, the program order, the filter and the *)
(* exported variables as configured, every line once, one record a payload. *)
(***************************************************************************)
EXTENDS NgenLogger, WellFoundedInduction, TLAPS

(* Reading a level of the configuration yields a canonical level.            *)
LEMMA ParseLevelCanonical ==
  ASSUME NEW raw \in RawLevel
  PROVE  ParseLevel(raw) \in CanonicalLevels
<1>1. raw.digits => ClampCanonicalLevel(raw.value) \in CanonicalLevels
  BY DEF RawLevel, ClampCanonicalLevel, CanonicalLevels, NOTSET, DEBUG, PERFORM, INFO,
         WARNING, SEVERE, FATAL, STATUS
<1>2. NamedLevel(raw.name) \in CanonicalLevels
  BY DEF NamedLevel, CanonicalLevels
<1>3. QED  BY <1>1, <1>2 DEF ParseLevel

(* Rounding a number up to a canonical level does not change which ordinary  *)
(* messages pass a filter set to it (ClampCanonicalLevel): the configuration *)
(* may use any number.                                                      *)
THEOREM ClampKeepsFilter ==
  ASSUME NEW v \in Nat, NEW level \in CanonicalLevels \ {STATUS}
  PROVE  level >= ClampCanonicalLevel(v) <=> level >= v
BY DEF ClampCanonicalLevel, CanonicalLevels, NOTSET, DEBUG, PERFORM, INFO, WARNING, SEVERE,
       FATAL, STATUS
-----------------------------------------------------------------------------
(* Type correctness.                                                       *)

LEMMA WorldType ==
  ASSUME TypeOK
  PROVE  world \in World
BY ConstantsAssumption DEF TypeOK

LEMMA ConfiguredLevelsType ==
  ASSUME TypeOK
  PROVE  /\ ConfiguredLevels \in [Keys -> Level]
         /\ ConfiguredLevels[NgenKey] \in CanonicalLevels
         /\ DefaultLevels \in [Keys -> Level]
         /\ ParseLevel(world.defaultLevel) \in CanonicalLevels
<1>1. world \in World  BY WorldType
<1>2. /\ \A k \in Keys : ParseLevel(world.modules[k]) \in CanonicalLevels
      /\ ParseLevel(world.defaultLevel) \in CanonicalLevels
  BY <1>1, ParseLevelCanonical DEF World
<1>3. INFO \in CanonicalLevels  BY DEF CanonicalLevels
<1>4. NgenKey \in Keys  BY ConstantsAssumption
<1>5. QED  BY <1>2, <1>3, <1>4 DEF ConfiguredLevels, DefaultLevels, Level

LEMMA InitType == Init => TypeOK
<1> SUFFICES ASSUME Init PROVE TypeOK  OBVIOUS
<1>1. /\ world \in Worlds /\ fs \in {"ok", "bad"} /\ once \in {"new", "running", "done"}
      /\ logFile \in StreamStates /\ payloadFile \in StreamStates
      /\ splitFiles \in [Ids -> StreamStates \cup {"none"}]
      /\ splitOwner \in Threads \cup {Nobody}
  BY DEF Init, StreamStates
<1>2. env \in Environment
  BY ConstantsAssumption DEF Init, World
<1>3. logger \in LoggerSettings
  BY DEF Init, LoggerSettings, Level, CanonicalLevels
<1>4. pc \in [Threads -> Locations]
  BY DEF Init, Locations
<1>5. call \in [Threads -> Message]
  BY ConstantsAssumption DEF Init
<1>6. /\ calls \in [Threads -> 0..MaxCalls] /\ todo \in [Threads -> SUBSET Nat]
      /\ part \in [Threads -> {"head", "text", "end"}]
  BY ConstantsAssumption DEF Init
<1>7. out \in [Sinks -> Seq(Pieces)]
  BY DEF Init
<1>8. returned \subseteq Returns
  BY DEF Init
<1>9. QED  BY <1>1, <1>2, <1>3, <1>4, <1>5, <1>6, <1>7, <1>8 DEF TypeOK

(* A thread that is in a call has made at least one.                         *)
InCall == \A t \in Threads : pc[t] # "idle" => calls[t] \in 1..MaxCalls

TypeInv == TypeOK /\ InCall

(* Inserting a piece into a destination leaves sequences of pieces.          *)
LEMMA PutType ==
  ASSUME TypeInv, NEW t \in Threads, pc[t] # "idle", NEW line \in Nat, NEW what \in Parts,
         NEW sink \in Sinks, Put(sink, Piece(t, line, what))
  PROVE  out' \in [Sinks -> Seq(Pieces)]
<1>1. Piece(t, line, what) \in Pieces
  BY DEF Piece, Pieces, TypeInv, TypeOK, InCall
<1>2. Append(out[sink], Piece(t, line, what)) \in Seq(Pieces)
  BY <1>1 DEF TypeInv, TypeOK
<1>3. QED  BY <1>2 DEF Put, TypeInv, TypeOK

(* So does recording a return.                                              *)
LEMMA ReturnType ==
  ASSUME TypeInv, NEW t \in Threads, pc[t] # "idle", NEW path \in Paths, Return(t, path)
  PROVE  returned' \subseteq Returns /\ pc' \in [Threads -> Locations]
BY DEF Return, Goto, Returns, Locations, TypeInv, TypeOK, InCall
-----------------------------------------------------------------------------
LEMMA CallType ==
  ASSUME TypeInv, NEW t \in Threads, Call(t)
  PROVE  TypeInv'
<1> USE DEF TypeInv
<1>1. PICK m \in Sends[t] : call' = [call EXCEPT ![t] = m] /\ Goto(t, EntryPoint(m))
  BY DEF Call
<1>2. m \in Message  BY ConstantsAssumption
<1>3. EntryPoint(m) \in Locations  BY DEF EntryPoint, Locations
<1>4. calls[t] + 1 \in 1..MaxCalls  BY ConstantsAssumption DEF Call, TypeOK
<1>5. /\ pc' \in [Threads -> Locations] /\ call' \in [Threads -> Message]
      /\ calls' \in [Threads -> 0..MaxCalls]
  BY <1>1, <1>2, <1>3, <1>4 DEF Call, Goto, TypeOK
<1>6. InCall'
  BY <1>1, <1>4 DEF Call, Goto, TypeOK, InCall
<1>7. QED  BY <1>5, <1>6 DEF Call, TypeOK, settings, streams

LEMMA InitIfNeededType ==
  ASSUME TypeInv, NEW t \in Threads, InitIfNeeded(t)
  PROVE  TypeInv'
BY DEF TypeInv, InitIfNeeded, AfterOnce, Goto, TypeOK, InCall, Locations, settings, streams

LEMMA ClearEnvVarsType ==
  ASSUME TypeInv, NEW t \in Threads, ClearEnvVars(t)
  PROVE  TypeInv'
BY DEF TypeInv, ClearEnvVars, Environment, Level, Goto, TypeOK, InCall, Locations, streams

LEMMA LoadSettingsType ==
  ASSUME TypeInv, NEW t \in Threads, LoadSettings(t)
  PROVE  TypeInv'
<1>1. \A opt : \A default \in BOOLEAN : IsTrue(opt, default) \in BOOLEAN
  BY DEF IsTrue
<1>2. logger' \in LoggerSettings
  BY <1>1, ConfiguredLevelsType DEF LoadSettings, LoggerSettings, TypeInv, TypeOK
<1>3. QED  BY <1>2 DEF TypeInv, LoadSettings, Goto, TypeOK, InCall, Locations, streams

LEMMA ExportEnvVarsType ==
  ASSUME TypeInv, NEW t \in Threads, ExportEnvVars(t)
  PROVE  TypeInv'
<1>1. \A id \in Ids : LevelsOf(id) \subseteq Level
  BY DEF LevelsOf, ExportedKeys, Environment, LoggerSettings, TypeInv, TypeOK
<1>2. env' \in Environment
  <2>1. PICK level \in [Ids -> UNION {LevelsOf(id) : id \in Ids}] :
          /\ \A id \in Ids : level[id] \in LevelsOf(id)
          /\ env' = [bridge |-> "1", enabled |-> IF logger.enabled THEN "1" ELSE "0",
                     level |-> level]
    BY DEF ExportEnvVars
  <2>2. level \in [Ids -> Level]  BY <1>1, <2>1
  <2>3. QED  BY <2>1, <2>2 DEF Environment
<1>3. QED  BY <1>2 DEF TypeInv, ExportEnvVars, Goto, TypeOK, InCall, Locations, streams

LEMMA SetupLogFileType ==
  ASSUME TypeInv, NEW t \in Threads, SetupLogFile(t)
  PROVE  TypeInv'
BY DEF TypeInv, LoggerSettings, SetupLogFile, AfterOnce, Opened, StreamStates, Goto, TypeOK,
       InCall, Locations

LEMMA DiscardType ==
  ASSUME TypeInv, NEW t \in Threads, Discard(t)
  PROVE  TypeInv'
<1>1. PICK path \in Paths : Return(t, path)
  BY DEF Discard, Paths
<1>2. returned' \subseteq Returns /\ pc' \in [Threads -> Locations]
  BY <1>1, ReturnType DEF Discard
<1>3. QED
  BY <1>1, <1>2 DEF Discard, Return, Goto, TypeInv, TypeOK, InCall, settings, streams

LEMMA DivertStatusType ==
  ASSUME TypeInv, NEW t \in Threads, DivertStatus(t)
  PROVE  TypeInv'
BY DEF TypeInv, DivertStatus, Goto, TypeOK, InCall, Locations, settings, streams

LEMMA AcceptType ==
  ASSUME TypeInv, NEW t \in Threads, Accept(t)
  PROVE  TypeInv'
<1>1. LinesToWrite(call[t]) \in SUBSET Nat
  BY DEF LinesToWrite, Message, TypeInv, TypeOK
<1>2. QED
  BY <1>1 DEF TypeInv, Accept, Plain, Goto, TypeOK, InCall, Locations, settings, streams

LEMMA LockSplitType ==
  ASSUME TypeInv, NEW t \in Threads, LockSplit(t)
  PROVE  TypeInv'
<1> DEFINE id == call[t].id
           file == IF splitFiles[id] = "none" THEN Opened("closed") ELSE splitFiles[id]
<1>1. id \in Ids  BY DEF Message, TypeInv, TypeOK
<1>2. file \in StreamStates
  BY <1>1 DEF Opened, StreamStates, TypeInv, TypeOK
<1>3. splitFiles' \in [Ids -> StreamStates \cup {"none"}]
  BY <1>1, <1>2 DEF LockSplit, TypeInv, TypeOK
<1>4. splitOwner' \in Threads \cup {Nobody} /\ pc' \in [Threads -> Locations]
  BY DEF LockSplit, Plain, Goto, Locations, TypeInv, TypeOK
<1>5. InCall'
  BY DEF LockSplit, Plain, Goto, InCall, TypeInv, TypeOK
<1>6. QED  BY <1>3, <1>4, <1>5 DEF LockSplit, TypeInv, TypeOK, settings

LEMMA WriteSplitLineType ==
  ASSUME TypeInv, NEW t \in Threads, WriteSplitLine(t)
  PROVE  TypeInv'
<1> DEFINE id == call[t].id
<1>1. id \in Ids /\ id \in Sinks  BY DEF Message, Sinks, TypeInv, TypeOK
<1>2. PICK line \in todo[t] :
        /\ todo' = [todo EXCEPT ![t] = @ \ {line}]
        /\ Put(id, Piece(t, line, "line")) \/ out' = out
  BY DEF WriteSplitLine
<1>3. line \in Nat /\ pc[t] # "idle" /\ "line" \in Parts
  BY DEF WriteSplitLine, Parts, TypeInv, TypeOK
<1>4. out' \in [Sinks -> Seq(Pieces)]
  <2>1. CASE Put(id, Piece(t, line, "line"))  BY <1>1, <1>3, <2>1, PutType
  <2>2. CASE out' = out  BY <2>2 DEF TypeInv, TypeOK
  <2>3. QED  BY <1>2, <2>1, <2>2
<1>5. splitFiles' \in [Ids -> StreamStates \cup {"none"}] /\ todo' \in [Threads -> SUBSET Nat]
  BY <1>1, <1>2 DEF WriteSplitLine, AfterWrite, StreamStates, TypeInv, TypeOK
<1>6. QED  BY <1>4, <1>5 DEF WriteSplitLine, TypeInv, TypeOK, InCall, settings

LEMMA UnlockSplitType ==
  ASSUME TypeInv, NEW t \in Threads, UnlockSplit(t)
  PROVE  TypeInv'
<1>1. returned' \subseteq Returns /\ pc' \in [Threads -> Locations]
  BY ReturnType DEF UnlockSplit, Paths
<1>2. QED
  BY <1>1 DEF UnlockSplit, Return, Goto, TypeInv, TypeOK, InCall, settings

LEMMA InsertUnifiedType ==
  ASSUME TypeInv, NEW t \in Threads, InsertUnified(t)
  PROVE  TypeInv'
<1>1. PICK line \in todo[t] :
        /\ todo' = [todo EXCEPT ![t] = IF part[t] = "end" THEN @ \ {line} ELSE @]
        /\ Put("unified", Piece(t, line, part[t])) \/ out' = out
  BY DEF InsertUnified
<1>2. line \in Nat /\ pc[t] # "idle" /\ part[t] \in Parts /\ "unified" \in Sinks
  BY DEF InsertUnified, Parts, Sinks, TypeInv, TypeOK
<1>3. out' \in [Sinks -> Seq(Pieces)]
  <2>1. CASE Put("unified", Piece(t, line, part[t]))  BY <1>2, <2>1, PutType
  <2>2. CASE out' = out  BY <2>2 DEF TypeInv, TypeOK
  <2>3. QED  BY <1>1, <2>1, <2>2
<1>4. todo' \in [Threads -> SUBSET Nat]
  BY <1>1 DEF TypeInv, TypeOK
<1>5. part' \in [Threads -> {"head", "text", "end"}] /\ logFile' \in StreamStates
  BY DEF InsertUnified, NextPart, AfterWrite, StreamStates, TypeInv, TypeOK
<1>6. QED  BY <1>3, <1>4, <1>5 DEF InsertUnified, TypeInv, TypeOK, InCall, settings

LEMMA PrintLineType ==
  ASSUME TypeInv, NEW t \in Threads, PrintLine(t)
  PROVE  TypeInv'
<1>1. PICK line \in todo[t] :
        /\ todo' = [todo EXCEPT ![t] = @ \ {line}]
        /\ Put("stdout", Piece(t, line, "line"))
  BY DEF PrintLine
<1>2. line \in Nat /\ pc[t] # "idle" /\ "line" \in Parts /\ "stdout" \in Sinks
  BY DEF PrintLine, Parts, Sinks, TypeInv, TypeOK
<1>3. out' \in [Sinks -> Seq(Pieces)]  BY <1>1, <1>2, PutType
<1>4. todo' \in [Threads -> SUBSET Nat]  BY <1>1 DEF TypeInv, TypeOK
<1>5. QED  BY <1>3, <1>4 DEF PrintLine, TypeInv, TypeOK, InCall, settings, streams

LEMMA ReturnPlainType ==
  ASSUME TypeInv, NEW t \in Threads, ReturnPlain(t)
  PROVE  TypeInv'
<1>1. pc[t] # "idle" /\ pc[t] \in Paths  BY DEF ReturnPlain, Paths
<1>2. returned' \subseteq Returns /\ pc' \in [Threads -> Locations]
  BY <1>1, ReturnType DEF ReturnPlain
<1>3. QED
  BY <1>2 DEF ReturnPlain, Return, Goto, TypeInv, TypeOK, InCall, settings, streams

LEMMA CheckPayloadFileType ==
  ASSUME TypeInv, NEW t \in Threads, CheckPayloadFile(t)
  PROVE  TypeInv'
BY DEF TypeInv, CheckPayloadFile, Goto, TypeOK, InCall, Locations, settings, streams

LEMMA BeginOpenPayloadType ==
  ASSUME TypeInv, NEW t \in Threads, BeginOpenPayload(t)
  PROVE  TypeInv'
<1>1. CASE \E path \in {"disabled", "dropped"} : Return(t, path) /\ UNCHANGED payloadFile
  <2>1. returned' \subseteq Returns /\ pc' \in [Threads -> Locations]
    BY <1>1, ReturnType DEF BeginOpenPayload, Paths
  <2>2. QED
    BY <1>1, <2>1 DEF BeginOpenPayload, Return, Goto, TypeInv, TypeOK, InCall, settings
<1>2. CASE /\ UNCHANGED returned
           /\ \/ payloadFile' = "bad" /\ Goto(t, "pconfirm")
              \/ Goto(t, "popen") /\ UNCHANGED payloadFile
  BY ZenonT(30), <1>2 DEF BeginOpenPayload, Goto, StreamStates, Locations, TypeInv, TypeOK, InCall,
              settings
<1>3. QED  BY <1>1, <1>2 DEF BeginOpenPayload

LEMMA EndOpenPayloadType ==
  ASSUME TypeInv, NEW t \in Threads, EndOpenPayload(t)
  PROVE  TypeInv'
<1>1. payloadFile' \in StreamStates  BY DEF EndOpenPayload, StreamStates
<1>2. out' \in [Sinks -> Seq(Pieces)]
  <2>1. out' = [out EXCEPT !["payload"] = <<>>] \/ out' = out  BY DEF EndOpenPayload
  <2>2. <<>> \in Seq(Pieces)  OBVIOUS
  <2>3. QED  BY <2>1, <2>2 DEF TypeInv, TypeOK
<1>3. QED
  BY <1>1, <1>2 DEF EndOpenPayload, Goto, Locations, TypeInv, TypeOK, InCall, settings

LEMMA ConfirmPayloadFileType ==
  ASSUME TypeInv, NEW t \in Threads, ConfirmPayloadFile(t)
  PROVE  TypeInv'
<1>1. CASE PayloadFileReady
  BY <1>1 DEF ConfirmPayloadFile, Goto, Locations, TypeInv, TypeOK, InCall, settings, streams
<1>2. CASE ~PayloadFileReady
  <2>1. returned' \subseteq Returns /\ pc' \in [Threads -> Locations]
    BY <1>2, ReturnType DEF ConfirmPayloadFile, Paths
  <2>2. QED
    BY <1>2, <2>1 DEF ConfirmPayloadFile, Return, Goto, TypeInv, TypeOK, InCall, settings,
                      streams
<1>3. QED  BY <1>1, <1>2

LEMMA WritePayloadType ==
  ASSUME TypeInv, NEW t \in Threads, WritePayload(t)
  PROVE  TypeInv'
<1>1. RecordKind(call[t]) \in Parts /\ "payload" \in Sinks /\ 0 \in Nat
  BY DEF RecordKind, Parts, Sinks
<1>2. pc[t] # "idle"  BY DEF WritePayload
<1>3. out' \in [Sinks -> Seq(Pieces)]
  <2>1. CASE Put("payload", Piece(t, 0, RecordKind(call[t])))
    BY <1>1, <1>2, <2>1, PutType
  <2>2. CASE out' = out  BY <2>2 DEF TypeInv, TypeOK
  <2>3. QED  BY <2>1, <2>2 DEF WritePayload
<1>4. returned' \subseteq Returns /\ pc' \in [Threads -> Locations]
  BY <1>2, ReturnType DEF WritePayload, Paths
<1>5. payloadFile' \in StreamStates
  BY DEF WritePayload, AfterWrite, StreamStates, TypeInv, TypeOK
<1>6. QED
  BY <1>3, <1>4, <1>5 DEF WritePayload, Return, Goto, TypeInv, TypeOK, InCall, settings

(* No step leaves the domains.                                              *)
LEMMA StepType == TypeInv /\ [Next]_vars => TypeInv'
<1> SUFFICES ASSUME TypeInv, [Next]_vars PROVE TypeInv'  OBVIOUS
<1>1. ASSUME NEW t \in Threads, Call(t) PROVE TypeInv'  BY <1>1, CallType
<1>2. ASSUME NEW t \in Threads, InitIfNeeded(t) \/ Initialise(t) PROVE TypeInv'
  BY <1>2, InitIfNeededType, ClearEnvVarsType, LoadSettingsType, ExportEnvVarsType,
     SetupLogFileType DEF Initialise
<1>3. ASSUME NEW t \in Threads, Route(t) PROVE TypeInv'
  BY <1>3, DiscardType, DivertStatusType, AcceptType DEF Route
<1>4. ASSUME NEW t \in Threads, Write(t) PROVE TypeInv'
  BY <1>4, LockSplitType, WriteSplitLineType, UnlockSplitType, InsertUnifiedType,
     PrintLineType, ReturnPlainType DEF Write
<1>5. ASSUME NEW t \in Threads, Payload(t) PROVE TypeInv'
  BY <1>5, CheckPayloadFileType, BeginOpenPayloadType, EndOpenPayloadType,
     ConfirmPayloadFileType, WritePayloadType DEF Payload
<1>6. CASE FsChange
  BY <1>6 DEF FsChange, TypeInv, TypeOK, InCall, settings, streams
<1>7. CASE UNCHANGED vars
  BY <1>7 DEF vars, TypeInv, TypeOK, InCall, settings, streams
<1>8. QED
  BY <1>1, <1>2, <1>3, <1>4, <1>5, <1>6, <1>7 DEF Next, Work, Finished

(* TypeOK holds in every state: the settings, the streams and what every      *)
(* destination holds stay in their domains for any number of threads and any *)
(* configuration (logger.cpp).                                              *)
THEOREM TypeCorrect == Spec => []TypeOK
<1>1. Init => TypeInv
  BY InitType DEF TypeInv, InCall, Init
<1>2. TypeInv => TypeOK  BY DEF TypeInv
<1>3. QED  BY <1>1, <1>2, StepType, PTL DEF Spec
-----------------------------------------------------------------------------
(* The settings are published once.                                         *)

(* One thread at a time initialises the logger, and only while the flag is   *)
(* "running".                                                               *)
OnceInv ==
  \A t \in Threads : pc[t] \in InsideOnce =>
    /\ once = "running"
    /\ \A u \in Threads : pc[u] \in InsideOnce => u = t

(* A step of a thread that is outside the initialisation before and after    *)
(* it, and leaves the flag, disturbs neither.                               *)
LEMMA OutsideOnce ==
  ASSUME TypeInv, OnceInv, NEW t \in Threads, NEW where \in Locations \ InsideOnce,
         Goto(t, where), UNCHANGED once
  PROVE  OnceInv'
BY DEF OnceInv, Goto, TypeInv, TypeOK

LEMMA InitIfNeededOnce ==
  ASSUME TypeInv, OnceInv, NEW t \in Threads, InitIfNeeded(t)
  PROVE  OnceInv'
<1>1. CASE once = "new" /\ once' = "running" /\ Goto(t, "clear")
  BY <1>1 DEF OnceInv, Goto, InsideOnce, TypeInv, TypeOK
<1>2. CASE once = "done" /\ Goto(t, AfterOnce(pc[t])) /\ UNCHANGED once
  BY <1>2 DEF OnceInv, Goto, AfterOnce, InsideOnce, TypeInv, TypeOK
<1>3. QED  BY <1>1, <1>2 DEF InitIfNeeded

LEMMA InitialiseOnce ==
  ASSUME TypeInv, OnceInv, NEW t \in Threads, Initialise(t)
  PROVE  OnceInv'
<1>1. CASE ClearEnvVars(t)
  BY <1>1 DEF ClearEnvVars, OnceInv, Goto, InsideOnce, TypeInv, TypeOK
<1>2. CASE LoadSettings(t)
  BY <1>2 DEF LoadSettings, OnceInv, Goto, InsideOnce, TypeInv, TypeOK
<1>3. CASE ExportEnvVars(t)
  BY <1>3 DEF ExportEnvVars, OnceInv, Goto, InsideOnce, TypeInv, TypeOK
<1>4. CASE SetupLogFile(t)
  BY <1>4 DEF SetupLogFile, OnceInv, Goto, AfterOnce, InsideOnce, TypeInv, TypeOK
<1>5. QED  BY <1>1, <1>2, <1>3, <1>4 DEF Initialise

LEMMA StepOnce == TypeInv /\ OnceInv /\ [Next]_vars => OnceInv'
<1> SUFFICES ASSUME TypeInv, OnceInv, [Next]_vars PROVE OnceInv'  OBVIOUS
<1> DEFINE Moves(t) == \E where \in Locations \ InsideOnce : Goto(t, where)
<1>1. ASSUME NEW t \in Threads, Moves(t) \/ UNCHANGED pc, UNCHANGED once PROVE OnceInv'
  BY <1>1, OutsideOnce DEF OnceInv
<1>2. ASSUME NEW t \in Threads, Call(t) PROVE OnceInv'
  <2>1. Moves(t)  BY <1>2 DEF Call, EntryPoint, Locations, InsideOnce
  <2>2. QED  BY <1>1, <1>2, <2>1 DEF Call
<1>3. ASSUME NEW t \in Threads, InitIfNeeded(t) \/ Initialise(t) PROVE OnceInv'
  BY <1>3, InitIfNeededOnce, InitialiseOnce
<1>4. ASSUME NEW t \in Threads, Route(t) PROVE OnceInv'
  <2>1. Moves(t)
    BY <1>4 DEF Route, Discard, DivertStatus, Accept, Return, Plain, Goto, Locations,
                InsideOnce
  <2>2. QED  BY <1>1, <1>4, <2>1 DEF Route, Discard, DivertStatus, Accept
<1>5. ASSUME NEW t \in Threads, Write(t) PROVE OnceInv'
  <2>1. Moves(t) \/ UNCHANGED pc
    BY <1>5 DEF Write, LockSplit, WriteSplitLine, UnlockSplit, InsertUnified, PrintLine,
                ReturnPlain, Return, Plain, Goto, Locations, InsideOnce
  <2>2. QED
    BY <1>1, <1>5, <2>1 DEF Write, LockSplit, WriteSplitLine, UnlockSplit, InsertUnified,
                            PrintLine, ReturnPlain
<1>6. ASSUME NEW t \in Threads, Payload(t) PROVE OnceInv'
  <2>1. Moves(t)
    BY <1>6 DEF Payload, CheckPayloadFile, BeginOpenPayload, EndOpenPayload,
                ConfirmPayloadFile, WritePayload, Return, Goto, Locations, InsideOnce
  <2>2. QED
    BY <1>1, <1>6, <2>1 DEF Payload, CheckPayloadFile, BeginOpenPayload, EndOpenPayload,
                            ConfirmPayloadFile, WritePayload
<1>7. CASE FsChange \/ UNCHANGED vars
  BY <1>7 DEF FsChange, vars, OnceInv
<1>8. QED
  BY <1>2, <1>3, <1>4, <1>5, <1>6, <1>7 DEF Next, Work, Finished

(* Only the four steps of the initialisation change the settings or the       *)
(* exported variables.                                                      *)
LEMMA SettingsChange ==
  ASSUME OnceInv, [Next]_vars, once = "done"
  PROVE  UNCHANGED settings
<1>1. ASSUME NEW t \in Threads, Initialise(t) PROVE FALSE
  BY <1>1 DEF OnceInv, InsideOnce, Initialise, ClearEnvVars, LoadSettings, ExportEnvVars,
              SetupLogFile
<1>2. ASSUME NEW t \in Threads, Call(t) \/ InitIfNeeded(t) \/ Route(t) PROVE UNCHANGED settings
  BY <1>2 DEF Call, InitIfNeeded, Route, Discard, DivertStatus, Accept
<1>3. ASSUME NEW t \in Threads, Write(t) PROVE UNCHANGED settings
  BY <1>3 DEF Write, LockSplit, WriteSplitLine, UnlockSplit, InsertUnified, PrintLine,
              ReturnPlain
<1>4. ASSUME NEW t \in Threads, Payload(t) PROVE UNCHANGED settings
  BY <1>4 DEF Payload, CheckPayloadFile, BeginOpenPayload, EndOpenPayload,
              ConfirmPayloadFile, WritePayload
<1>5. CASE FsChange \/ UNCHANGED vars
  BY <1>5 DEF FsChange, vars
<1>6. QED
  BY <1>1, <1>2, <1>3, <1>4, <1>5 DEF Next, Work, Finished

(* Once std::call_once has completed no step of any thread changes the         *)
(* settings or the environment variables that ngen exported (SettingsFixed).  *)
THEOREM SettingsNeverChange == Spec => SettingsFixed
<1>1. Init => TypeInv /\ OnceInv
  BY InitType DEF TypeInv, InCall, OnceInv, InsideOnce, Init
<1>2. TypeInv /\ OnceInv /\ [Next]_vars => (TypeInv /\ OnceInv)'
  BY StepType, StepOnce
<1>3. OnceInv /\ [Next]_vars => [once = "done" => UNCHANGED settings]_vars
  BY SettingsChange
<1>4. QED  BY <1>1, <1>2, <1>3, PTL DEF Spec, SettingsFixed
-----------------------------------------------------------------------------
(* The messages of a split file are whole.                                  *)

(* The owner of splitLogMutex is the thread in the critical section, and a   *)
(* thread that waits for it has its whole message left to write.             *)
SplitLock ==
  \A t \in Threads :
    /\ pc[t] = "split" <=> splitOwner = t
    /\ pc[t] = "lock" => todo[t] = call[t].lines

Last(id) == out[id][Len(out[id])]

InFile(t, id) == pc[t] = "split" /\ call[t].id = id

(* Nobody has begun a message in the file of id and left it open ...         *)
AtBoundary(id) ==
  /\ out[id] # <<>> => IsLastLine(Last(id))
  /\ \A t \in Threads : InFile(t, id) => todo[t] = call[t].lines

(* ... or the last line there is one of the message that t is writing, and   *)
(* what t still has to write are the lines behind it.                        *)
Midway(t, id) ==
  /\ InFile(t, id) /\ out[id] # <<>>
  /\ Last(id).by = t /\ Last(id).n = calls[t] /\ Last(id).msg = call[t]
  /\ todo[t] = {line \in call[t].lines : line > Last(id).line}

(* A file that still accepts lines is at a boundary or has one writer; one   *)
(* that was never opened is empty.                                          *)
SplitFileInv(id) ==
  /\ splitFiles[id] = "none" => out[id] = <<>>
  /\ splitFiles[id] = "good" => AtBoundary(id) \/ \E t \in Threads : Midway(t, id)

SplitInv ==
  /\ SplitLock
  /\ \A id \in Ids : SplitFileInv(id)
  /\ SplitMessagesWhole

(* A piece that begins a message after a complete one, or continues the last  *)
(* one, keeps the messages of a file whole.                                  *)
LEMMA AppendWhole ==
  ASSUME NEW log \in Seq(Pieces), NEW p \in Pieces, MessagesWhole(log),
         IF log = <<>> THEN IsFirstLine(p) ELSE FollowsOn(log[Len(log)], p)
  PROVE  MessagesWhole(Append(log, p))
<1> DEFINE new == Append(log, p)
<1>1. /\ Len(new) = Len(log) + 1 /\ new[Len(log) + 1] = p /\ Len(log) \in Nat
      /\ \A i \in 1..Len(log) : new[i] = log[i]
  OBVIOUS
<1>2. CASE log = <<>>
  <2>1. Len(new) = 1 /\ new[1] = p  BY <1>1, <1>2
  <2>2. QED  BY <1>2, <2>1 DEF MessagesWhole
<1>3. CASE log # <<>>
  <2>1. Len(log) >= 1  BY <1>3
  <2>2. IsFirstLine(new[1])  BY <1>1, <1>3, <2>1 DEF MessagesWhole
  <2>3. ASSUME NEW i \in 1 .. Len(new) - 1 PROVE FollowsOn(new[i], new[i + 1])
    <3>1. CASE i < Len(log)
      <4>1. i \in 1 .. Len(log) - 1 /\ i + 1 \in 1..Len(log)  BY <1>1, <3>1
      <4>2. FollowsOn(log[i], log[i + 1])  BY <4>1 DEF MessagesWhole
      <4>3. QED  BY <1>1, <4>1, <4>2
    <3>2. CASE i = Len(log)
      BY <1>1, <1>3, <2>1, <3>2
    <3>3. QED  BY <1>1, <3>1, <3>2
  <2>4. QED  BY <2>2, <2>3 DEF MessagesWhole
<1>4. QED  BY <1>2, <1>3

LEMMA LastType ==
  ASSUME TypeInv, NEW id \in Ids, out[id] # <<>>
  PROVE  /\ Last(id) \in Pieces /\ Last(id).line \in Nat /\ Last(id).msg \in Message
         /\ Last(id).msg.lines \in SUBSET Nat
<1>1. out[id] \in Seq(Pieces)  BY DEF Sinks, TypeInv, TypeOK
<1>2. Last(id) \in Pieces  BY <1>1 DEF Last
<1>3. QED  BY <1>2 DEF Pieces, Message

(* A step of a thread outside the critical section, one that leaves the split *)
(* files alone.                                                             *)
LEMMA SplitElsewhere ==
  ASSUME TypeInv, SplitInv, NEW t \in Threads, pc[t] # "split", pc'[t] # "split",
         pc'[t] = "lock" => todo'[t] = call'[t].lines,
         \A u \in Threads \ {t} :
           pc'[u] = pc[u] /\ call'[u] = call[u] /\ calls'[u] = calls[u] /\ todo'[u] = todo[u],
         UNCHANGED <<splitFiles, splitOwner>>, \A id \in Ids : out'[id] = out[id]
  PROVE  SplitInv'
<1>1. SplitLock'
  <2>1. ASSUME NEW u \in Threads
        PROVE  /\ pc'[u] = "split" <=> splitOwner' = u
               /\ pc'[u] = "lock" => todo'[u] = call'[u].lines
    BY DEF SplitInv, SplitLock
  <2>2. QED  BY <2>1 DEF SplitLock
<1>2. ASSUME NEW id \in Ids PROVE SplitFileInv(id)'
  <2>1. \A u \in Threads : InFile(u, id)' <=> InFile(u, id)  BY DEF InFile
  <2>2. AtBoundary(id) => AtBoundary(id)'
    BY <2>1 DEF AtBoundary, Last, InFile
  <2>3. ASSUME NEW u \in Threads, Midway(u, id) PROVE Midway(u, id)'
    BY <2>1, <2>3 DEF Midway, Last, InFile
  <2>4. SplitFileInv(id)  BY DEF SplitInv
  <2>5. QED  BY <2>2, <2>3, <2>4 DEF SplitFileInv
<1>3. SplitMessagesWhole'  BY DEF SplitInv, SplitMessagesWhole
<1>4. QED  BY <1>1, <1>2, <1>3 DEF SplitInv

(* The mutex is free: no message is open, and none can be begun but by t.     *)
LEMMA LockSplitInv ==
  ASSUME TypeInv, SplitInv, NEW t \in Threads, LockSplit(t)
  PROVE  SplitInv'
<1> DEFINE mine == call[t].id
           file == IF splitFiles[mine] = "none" THEN Opened("closed") ELSE splitFiles[mine]
<1>1. mine \in Ids /\ t # Nobody
  BY ConstantsAssumption DEF Message, TypeInv, TypeOK
<1>2. /\ splitOwner = Nobody /\ pc[t] = "lock" /\ todo[t] = call[t].lines
      /\ \A u \in Threads : pc[u] # "split"
  BY ConstantsAssumption DEF LockSplit, SplitLockFree, SplitInv, SplitLock
<1>3. /\ IF file = "good" THEN splitOwner' = t /\ Goto(t, "split")
                          ELSE splitOwner' = splitOwner /\ Goto(t, Plain)
      /\ splitFiles' = [splitFiles EXCEPT ![mine] = file]
      /\ UNCHANGED <<call, calls, todo, out>>
  BY DEF LockSplit
<1>4. SplitLock'
  <2>1. \A u \in Threads \ {t} : pc'[u] = pc[u]
    BY <1>3 DEF Goto, TypeInv, TypeOK
  <2>2. pc'[t] = IF file = "good" THEN "split" ELSE Plain
    BY <1>3 DEF Goto, TypeInv, TypeOK
  <2>3. Plain # "split" /\ Plain # "lock"  BY DEF Plain
  <2>4. QED
    BY <1>1, <1>2, <1>3, <2>1, <2>2, <2>3 DEF SplitInv, SplitLock
<1>5. ASSUME NEW id \in Ids PROVE SplitFileInv(id)'
  <2>1. SplitFileInv(id)  BY DEF SplitInv
  <2>2. splitFiles'[id] = IF id = mine THEN file ELSE splitFiles[id]
    BY <1>1, <1>3 DEF TypeInv, TypeOK
  <2>3. splitFiles'[id] = "none" => out'[id] = <<>>
    BY <1>3, <2>1, <2>2 DEF SplitFileInv, Opened
  <2>4. ASSUME splitFiles'[id] = "good" PROVE AtBoundary(id)'
    <3>1. splitFiles[id] \in {"none", "good"}
      BY <2>2, <2>4
    <3>2. out[id] # <<>> => IsLastLine(Last(id))
      BY <1>2, <2>1, <3>1 DEF SplitFileInv, AtBoundary, Midway, InFile
    <3>3. \A u \in Threads : InFile(u, id)' => u = t
      BY <1>2, <1>3 DEF InFile, Goto, Plain, TypeInv, TypeOK
    <3>4. QED  BY <1>2, <1>3, <3>2, <3>3 DEF AtBoundary, Last
  <2>5. QED  BY <2>3, <2>4 DEF SplitFileInv
<1>6. SplitMessagesWhole'  BY <1>3 DEF SplitInv, SplitMessagesWhole
<1>7. QED  BY <1>4, <1>5, <1>6 DEF SplitInv

(* The owner writes its first line at a boundary, and later ones behind the   *)
(* one before; either way it is the smallest it still has to write.          *)
LEMMA WriteSplitLineInv ==
  ASSUME TypeInv, SplitInv, NEW t \in Threads, WriteSplitLine(t)
  PROVE  SplitInv'
<1> DEFINE mine == call[t].id
<1>1. /\ mine \in Ids /\ mine \in Sinks /\ call[t].lines \in SUBSET Nat
      /\ todo[t] \in SUBSET Nat /\ call[t] \in Message
  BY DEF Message, Sinks, TypeInv, TypeOK
<1>2. PICK line \in todo[t] :
        /\ NextLine(t, line)
        /\ todo' = [todo EXCEPT ![t] = @ \ {line}]
        /\ IF Accepts(splitFiles[mine]) THEN Put(mine, Piece(t, line, "line"))
                                        ELSE UNCHANGED out
  BY DEF WriteSplitLine
<1>3. /\ pc[t] = "split" /\ splitFiles' = [splitFiles EXCEPT ![mine] = AfterWrite(@)]
      /\ UNCHANGED <<fs, splitOwner, pc, call, calls>>
  BY DEF WriteSplitLine
<1>4. /\ \A u \in Threads : pc[u] = "split" => u = t
      /\ todo'[t] = todo[t] \ {line} /\ \A u \in Threads \ {t} : todo'[u] = todo[u]
  BY <1>2, <1>3 DEF SplitInv, SplitLock, TypeInv, TypeOK
<1>5. SplitLock'
  <2>1. ASSUME NEW u \in Threads
        PROVE  /\ pc'[u] = "split" <=> splitOwner' = u
               /\ pc'[u] = "lock" => todo'[u] = call'[u].lines
    BY <1>3, <1>4 DEF SplitInv, SplitLock
  <2>2. QED  BY <2>1 DEF SplitLock
<1>6. \A id \in Ids \ {mine} : out'[id] = out[id] /\ splitFiles'[id] = splitFiles[id]
  BY <1>1, <1>2, <1>3 DEF Put, Sinks, TypeInv, TypeOK
<1>7. ASSUME NEW id \in Ids \ {mine} PROVE SplitFileInv(id)'
  <2>1. SplitFileInv(id)  BY DEF SplitInv
  <2>2. \A u \in Threads : ~InFile(u, id) /\ ~InFile(u, id)'
    BY <1>3, <1>4 DEF InFile
  <2>3. AtBoundary(id) => AtBoundary(id)'
    BY <1>6, <2>2 DEF AtBoundary, Last
  <2>4. QED  BY <1>6, <2>1, <2>2, <2>3 DEF SplitFileInv, Midway
<1>8. SplitFileInv(mine) /\ MessagesWhole(out[mine]) /\ InFile(t, mine)
  BY <1>1, <1>3 DEF SplitInv, SplitMessagesWhole, InFile
<1>9. CASE ~Accepts(splitFiles[mine])
  <2>1. splitFiles'[mine] # "good" /\ (splitFiles'[mine] = "none" => splitFiles[mine] = "none")
    BY <1>1, <1>3, <1>9 DEF AfterWrite, Accepts, TypeInv, TypeOK
  <2>2. out' = out  BY <1>2, <1>9
  <2>3. SplitFileInv(mine)'  BY <1>8, <2>1, <2>2, <1>3 DEF SplitFileInv
  <2>4. SplitMessagesWhole'  BY <2>2 DEF SplitInv, SplitMessagesWhole
  <2>5. QED  BY <1>3, <1>5, <1>7, <2>3, <2>4 DEF SplitInv
<1>10. CASE Accepts(splitFiles[mine])
  <2> DEFINE piece == Piece(t, line, "line")
             log == out[mine]
  <2>1. splitFiles[mine] = "good" /\ splitFiles'[mine] = "good"
    BY <1>1, <1>3, <1>10 DEF AfterWrite, Accepts, TypeInv, TypeOK
  <2>2. out'[mine] = Append(log, piece)
    BY <1>1, <1>2, <1>10 DEF Put, TypeInv, TypeOK
  <2>3. log \in Seq(Pieces) /\ piece \in Pieces
    BY <1>1, <1>2, <1>3 DEF Piece, Pieces, Parts, TypeInv, TypeOK, InCall
  <2>4. /\ piece.by = t /\ piece.n = calls[t] /\ piece.msg = call[t] /\ piece.line = line
    BY DEF Piece
  <2>5. Last(mine)' = piece /\ out'[mine] # <<>>
    <3>1. mine' = mine  BY <1>3
    <3>2. ASSUME NEW a \in Seq(Pieces), NEW p \in Pieces
          PROVE  Append(a, p)[Len(Append(a, p))] = p /\ Append(a, p) # <<>>
      OBVIOUS
    <3>3. out'[mine][Len(out'[mine])] = piece /\ out'[mine] # <<>>
      <4> HIDE DEF piece, log
      <4>1. QED  BY <2>2, <2>3, <3>2
    <3>4. QED  BY <3>1, <3>3 DEF Last
  <2>6. /\ line \in Nat /\ \A other \in todo[t] : line <= other
    BY <1>1, <1>2 DEF NextLine
  <2>7. \/ todo[t] = call[t].lines /\ (log # <<>> => IsLastLine(log[Len(log)]))
        \/ Midway(t, mine)
    BY <1>4, <1>8, <2>1 DEF SplitFileInv, AtBoundary, Midway, InFile, Last
  <2>8. /\ IF log = <<>> THEN IsFirstLine(piece) ELSE FollowsOn(log[Len(log)], piece)
        /\ todo[t] \ {line} = {other \in call[t].lines : other > line}
    <3>1. CASE todo[t] = call[t].lines /\ (log # <<>> => IsLastLine(log[Len(log)]))
      <4>1. IsFirstLine(piece)  BY <2>4, <2>6, <3>1 DEF IsFirstLine
      <4>2. todo[t] \ {line} = {other \in call[t].lines : other > line}
        BY <1>1, <2>6, <3>1
      <4>3. QED  BY <3>1, <4>1, <4>2 DEF FollowsOn
    <3>2. CASE Midway(t, mine)
      <4> DEFINE q == log[Len(log)]
      <4>1. /\ q.by = t /\ q.n = calls[t] /\ q.msg = call[t] /\ log # <<>>
            /\ todo[t] = {other \in call[t].lines : other > q.line}
        BY <3>2 DEF Midway, Last
      <4>2. q.line \in Nat  BY <1>1, <4>1, LastType DEF Last
      <4>3. line > q.line  BY <4>1, <1>2
      <4>4. \A other \in call[t].lines : other <= q.line \/ line <= other
        BY <1>1, <2>6, <4>1, <4>2
      <4>5. Continues(q, piece)  BY <2>4, <2>6, <4>1, <4>2, <4>3, <4>4 DEF Continues
      <4>6. todo[t] \ {line} = {other \in call[t].lines : other > line}
        BY SMTT(30), <1>1, <2>6, <4>1, <4>2, <4>3
      <4>7. QED  BY <4>1, <4>5, <4>6 DEF FollowsOn
    <3>3. QED  BY <2>7, <3>1, <3>2
  <2>9. Midway(t, mine)'
    BY <1>3, <1>4, <1>8, <2>4, <2>5, <2>8 DEF Midway, InFile
  <2>10. SplitFileInv(mine)'
    BY <2>1, <2>9, <1>3 DEF SplitFileInv
  <2>11. MessagesWhole(out'[mine])
    BY <1>8, <2>2, <2>3, <2>8, AppendWhole
  <2>12. SplitMessagesWhole'
    BY <1>6, <2>11 DEF SplitInv, SplitMessagesWhole
  <2>13. QED  BY <1>3, <1>5, <1>7, <2>10, <2>12 DEF SplitInv
<1>11. QED  BY <1>9, <1>10

(* When the owner leaves, the last line of its file is the last of its        *)
(* message.                                                                 *)
LEMMA UnlockSplitInv ==
  ASSUME TypeInv, SplitInv, NEW t \in Threads, UnlockSplit(t)
  PROVE  SplitInv'
<1>1. /\ pc[t] = "split" /\ todo[t] = {} /\ splitOwner' = Nobody /\ Goto(t, "idle")
      /\ UNCHANGED <<splitFiles, call, calls, todo, out>>
  BY DEF UnlockSplit, Return
<1>2. splitOwner = t /\ \A u \in Threads : pc[u] = "split" => u = t
  BY <1>1 DEF SplitInv, SplitLock
<1>3. pc'[t] = "idle" /\ \A u \in Threads \ {t} : pc'[u] = pc[u]
  BY <1>1 DEF Goto, TypeInv, TypeOK
<1>4. SplitLock'
  <2>1. ASSUME NEW u \in Threads
        PROVE  /\ pc'[u] = "split" <=> splitOwner' = u
               /\ pc'[u] = "lock" => todo'[u] = call'[u].lines
    BY <1>1, <1>2, <1>3, ConstantsAssumption DEF SplitInv, SplitLock
  <2>2. QED  BY <2>1 DEF SplitLock
<1>5. ASSUME NEW id \in Ids PROVE SplitFileInv(id)'
  <2>1. SplitFileInv(id)  BY DEF SplitInv
  <2>2. \A u \in Threads : ~InFile(u, id)'
    BY <1>2, <1>3 DEF InFile
  <2>3. ASSUME splitFiles[id] = "good", out[id] # <<>> PROVE IsLastLine(Last(id))
    <3>1. CASE AtBoundary(id)  BY <2>3, <3>1 DEF AtBoundary
    <3>2. ASSUME NEW u \in Threads, Midway(u, id) PROVE IsLastLine(Last(id))
      <4>1. u = t  BY <1>2, <3>2 DEF Midway, InFile
      <4>2. \A line \in Last(id).msg.lines : ~(line > Last(id).line)
        BY <1>1, <3>2, <4>1 DEF Midway
      <4>3. Last(id).line \in Nat /\ Last(id).msg.lines \in SUBSET Nat
        BY <2>3, LastType
      <4>4. QED  BY <4>2, <4>3 DEF IsLastLine
    <3>3. QED  BY <2>1, <2>3, <3>1, <3>2 DEF SplitFileInv
  <2>4. splitFiles[id] = "good" => AtBoundary(id)'
    BY <1>1, <2>2, <2>3 DEF AtBoundary, Last
  <2>5. QED  BY <1>1, <2>1, <2>4 DEF SplitFileInv
<1>6. SplitMessagesWhole'  BY <1>1 DEF SplitInv, SplitMessagesWhole
<1>7. QED  BY <1>4, <1>5, <1>6 DEF SplitInv

LEMMA StepSplit == TypeInv /\ SplitInv /\ [Next]_vars => SplitInv'
<1> SUFFICES ASSUME TypeInv, SplitInv, [Next]_vars PROVE SplitInv'  OBVIOUS
<1> DEFINE Aside(t) ==
      /\ UNCHANGED <<splitFiles, splitOwner>>
      /\ \A id \in Ids : out'[id] = out[id]
      /\ \A u \in Threads \ {t} :
           pc'[u] = pc[u] /\ call'[u] = call[u] /\ calls'[u] = calls[u] /\ todo'[u] = todo[u]
      /\ pc[t] # "split" /\ pc'[t] # "split"
<1>1. ASSUME NEW t \in Threads, Aside(t), pc'[t] = "lock" => todo'[t] = call'[t].lines
      PROVE  SplitInv'
  BY <1>1, SplitElsewhere
<1>2. /\ \A sink \in {"unified", "stdout", "payload"} : \A piece :
           Put(sink, piece) => \A id \in Ids : out'[id] = out[id]
      /\ out' = [out EXCEPT !["payload"] = <<>>] => \A id \in Ids : out'[id] = out[id]
  BY ConstantsAssumption DEF Put, Sinks, TypeInv, TypeOK
<1>3. ASSUME NEW t \in Threads, Call(t) PROVE SplitInv'
  <2>1. Aside(t) /\ pc'[t] # "lock"
    BY <1>3 DEF Call, EntryPoint, Goto, TypeInv, TypeOK, streams
  <2>2. QED  BY <1>1, <2>1
<1>4. ASSUME NEW t \in Threads, InitIfNeeded(t) \/ Initialise(t) PROVE SplitInv'
  <2>1. CASE InitIfNeeded(t)
    BY <1>1, <2>1 DEF InitIfNeeded, AfterOnce, Goto, TypeInv, TypeOK, streams
  <2>2. CASE ClearEnvVars(t)
    BY <1>1, <2>2 DEF ClearEnvVars, Goto, TypeInv, TypeOK, streams
  <2>3. CASE LoadSettings(t)
    BY <1>1, <2>3 DEF LoadSettings, Goto, TypeInv, TypeOK, streams
  <2>4. CASE ExportEnvVars(t)
    BY <1>1, <2>4 DEF ExportEnvVars, Goto, TypeInv, TypeOK, streams
  <2>5. CASE SetupLogFile(t)
    BY <1>1, <2>5 DEF SetupLogFile, AfterOnce, Goto, TypeInv, TypeOK, streams
  <2>6. QED  BY <1>4, <2>1, <2>2, <2>3, <2>4, <2>5 DEF Initialise
<1>5. ASSUME NEW t \in Threads, Route(t) PROVE SplitInv'
  <2>1. CASE Discard(t)
    BY <1>1, <2>1 DEF Discard, Return, Goto, TypeInv, TypeOK, streams
  <2>2. CASE DivertStatus(t)
    BY <1>1, <2>2 DEF DivertStatus, Goto, TypeInv, TypeOK, streams
  <2>3. CASE Accept(t)
    BY <1>1, <2>3 DEF Accept, LinesToWrite, Plain, Goto, TypeInv, TypeOK, streams
  <2>4. QED  BY <1>5, <2>1, <2>2, <2>3 DEF Route
<1>6. ASSUME NEW t \in Threads, Write(t) PROVE SplitInv'
  <2>1. CASE LockSplit(t) \/ WriteSplitLine(t) \/ UnlockSplit(t)
    BY <2>1, LockSplitInv, WriteSplitLineInv, UnlockSplitInv
  <2>2. CASE InsertUnified(t)
    <3>1. \A id \in Ids : out'[id] = out[id]  BY <1>2, <2>2 DEF InsertUnified
    <3>2. QED  BY <1>1, <2>2, <3>1 DEF InsertUnified, TypeInv, TypeOK
  <2>3. CASE PrintLine(t)
    <3>1. \A id \in Ids : out'[id] = out[id]  BY <1>2, <2>3 DEF PrintLine
    <3>2. QED  BY <1>1, <2>3, <3>1 DEF PrintLine, TypeInv, TypeOK, streams
  <2>4. CASE ReturnPlain(t)
    BY <1>1, <2>4 DEF ReturnPlain, Return, Goto, TypeInv, TypeOK, streams
  <2>5. QED  BY <1>6, <2>1, <2>2, <2>3, <2>4 DEF Write
<1>7. ASSUME NEW t \in Threads, Payload(t) PROVE SplitInv'
  <2>1. CASE CheckPayloadFile(t)
    BY <1>1, <2>1 DEF CheckPayloadFile, Goto, TypeInv, TypeOK, streams
  <2>2. CASE BeginOpenPayload(t)
    BY <1>1, <2>2 DEF BeginOpenPayload, Return, Goto, TypeInv, TypeOK
  <2>3. CASE EndOpenPayload(t)
    <3>1. \A id \in Ids : out'[id] = out[id]  BY <1>2, <2>3 DEF EndOpenPayload
    <3>2. QED  BY <1>1, <2>3, <3>1 DEF EndOpenPayload, Goto, TypeInv, TypeOK
  <2>4. CASE ConfirmPayloadFile(t)
    BY <1>1, <2>4 DEF ConfirmPayloadFile, Return, Goto, TypeInv, TypeOK, streams
  <2>5. CASE WritePayload(t)
    <3>1. \A id \in Ids : out'[id] = out[id]  BY <1>2, <2>5 DEF WritePayload
    <3>2. QED  BY <1>1, <2>5, <3>1 DEF WritePayload, Return, Goto, TypeInv, TypeOK
  <2>6. QED  BY <1>7, <2>1, <2>2, <2>3, <2>4, <2>5 DEF Payload
<1>8. CASE FsChange \/ UNCHANGED vars
  BY <1>8 DEF FsChange, vars, streams, SplitInv, SplitLock, SplitFileInv, AtBoundary, Midway,
              InFile, Last, SplitMessagesWhole
<1>9. QED
  BY <1>3, <1>4, <1>5, <1>6, <1>7, <1>8 DEF Next, Work, Finished

(* In every split file the lines of each message are complete, in order and   *)
(* next to each other, for any number of threads, ids and lines and even if  *)
(* the file system fails for a while (SplitMessagesWhole).  The invariant is  *)
(* not inductive by itself: SplitInv adds who holds the mutex, what the       *)
(* holder has left to write and that a stream that failed is never reused.    *)
THEOREM SplitFilesWhole == Spec => []SplitMessagesWhole
<1>1. Init => TypeInv /\ SplitInv
  <2> SUFFICES ASSUME Init PROVE TypeInv /\ SplitInv  OBVIOUS
  <2>1. TypeInv  BY InitType DEF TypeInv, InCall, Init
  <2>2. SplitLock  BY ConstantsAssumption DEF SplitLock, Init
  <2>3. \A id \in Ids : out[id] = <<>>  BY DEF Init, Sinks
  <2>4. \A id \in Ids : SplitFileInv(id)
    BY <2>3 DEF SplitFileInv, Init
  <2>5. SplitMessagesWhole
    BY <2>3 DEF SplitMessagesWhole, MessagesWhole
  <2>6. QED  BY <2>1, <2>2, <2>4, <2>5 DEF SplitInv
<1>2. TypeInv /\ SplitInv /\ [Next]_vars => (TypeInv /\ SplitInv)'
  BY StepType, StepSplit
<1>3. SplitInv => SplitMessagesWhole  BY DEF SplitInv
<1>4. QED  BY <1>1, <1>2, <1>3, PTL DEF Spec
-----------------------------------------------------------------------------
(* The settings that are published follow the configuration.                  *)

(* What LoadSettings leaves: the settings the configuration asks for.         *)
Loaded ==
  /\ logger.enabled = LoggingWanted
  /\ logger.levels = (IF ConfigLoaded THEN ConfiguredLevels ELSE DefaultLevels)
  /\ logger.level = logger.levels[NgenKey]

(* What the first initialising thread finds.                                *)
Untouched == env = world.env /\ logger.levels = [k \in Keys |-> Absent]

(* A variable holds a level of a key of its id, or what was inherited.        *)
Exported ==
  \A id \in Ids :
    IF ExportedKeys(id) = {} THEN env.level[id] = world.env.level[id]
    ELSE \E k \in ExportedKeys(id) : env.level[id] = logger.levels[k]

(* What each stage of the initialisation has established.                     *)
PublishInv ==
  /\ once = "new" => Untouched
  /\ once = "done" => Loaded /\ Exported
  /\ \A t \in Threads :
       /\ pc[t] = "clear" => Untouched
       /\ pc[t] = "load" => env.level = world.env.level
       /\ pc[t] = "export" => Loaded /\ env.level = world.env.level
       /\ pc[t] = "setup" => Loaded /\ Exported

(* A step that neither enters the initialisation nor belongs to it.           *)
LEMMA PublishAside ==
  ASSUME TypeInv, PublishInv, UNCHANGED <<world, once, settings>>,
         \A u \in Threads : pc'[u] \in InsideOnce => pc'[u] = pc[u]
  PROVE  PublishInv'
<1>1. /\ Untouched' <=> Untouched
      /\ Loaded' <=> Loaded
      /\ Exported' <=> Exported
      /\ env' = env /\ world' = world /\ once' = once
  BY DEF settings, Untouched, Loaded, Exported, ExportedKeys, LoggingWanted, ConfigLoaded,
         ConfiguredLevels, DefaultLevels
<1>2. ASSUME NEW u \in Threads
      PROVE  /\ pc'[u] = "clear" => pc[u] = "clear"
             /\ pc'[u] = "load" => pc[u] = "load"
             /\ pc'[u] = "export" => pc[u] = "export"
             /\ pc'[u] = "setup" => pc[u] = "setup"
  BY DEF InsideOnce
<1>3. QED  BY <1>1, <1>2 DEF PublishInv

(* The threads other than one that is in the initialisation are outside it.    *)
LEMMA AloneInside ==
  ASSUME TypeInv, OnceInv, NEW t \in Threads, pc[t] \in InsideOnce, NEW where, Goto(t, where)
  PROVE  /\ once = "running" /\ pc'[t] = where
         /\ \A u \in Threads \ {t} : pc'[u] = pc[u] /\ pc[u] \notin InsideOnce
BY DEF OnceInv, Goto, TypeInv, TypeOK

(* Each of its four steps establishes what the next one relies on.           *)
LEMMA InitialisePublish ==
  ASSUME TypeInv, OnceInv, PublishInv, NEW t \in Threads, Initialise(t)
  PROVE  PublishInv'
<1>1. CASE ClearEnvVars(t)
  <2>1. pc[t] = "clear" /\ Goto(t, "load") /\ UNCHANGED <<world, once, logger>>
    BY <1>1 DEF ClearEnvVars
  <2>2. Untouched  BY <2>1 DEF PublishInv
  <2>3. VariablesOf(logger.levels) = {}
    BY <2>2 DEF Untouched, VariablesOf
  <2>4. env'.level = world'.env.level
    <3>1. env' = [bridge |-> "unset", enabled |-> "unset",
                  level |-> [id \in Ids |-> env.level[id]]]
      BY <1>1, <2>3 DEF ClearEnvVars
    <3>2. env.level \in [Ids -> Level]  BY DEF TypeInv, TypeOK, Environment
    <3>3. QED  BY <2>1, <2>2, <3>1, <3>2 DEF Untouched
  <2>5. /\ once = "running" /\ pc'[t] = "load"
        /\ \A u \in Threads \ {t} : pc'[u] = pc[u] /\ pc[u] \notin InsideOnce
    BY <2>1, AloneInside DEF InsideOnce
  <2>6. QED  BY <2>1, <2>4, <2>5 DEF PublishInv, InsideOnce
<1>2. CASE LoadSettings(t)
  <2>1. pc[t] = "load" /\ Goto(t, "export") /\ UNCHANGED <<world, once, env>>
    BY <1>2 DEF LoadSettings
  <2>2. env.level = world.env.level  BY <2>1 DEF PublishInv
  <2>3. Loaded'
    <3>1. /\ ConfiguredLevels' = ConfiguredLevels /\ DefaultLevels' = DefaultLevels
          /\ ConfigLoaded' = ConfigLoaded /\ LoggingWanted' = LoggingWanted
      BY <2>1 DEF ConfiguredLevels, DefaultLevels, ConfigLoaded, LoggingWanted
    <3>2. DefaultLevels[NgenKey] = ParseLevel(world.defaultLevel)
      BY ConstantsAssumption DEF DefaultLevels
    <3>3. logger \in LoggerSettings  BY DEF TypeInv, TypeOK
    <3>4. CASE ConfigLoaded
      <4>1. LoggingWanted = IsTrue(world.ewtsEnabled, IsTrue(world.loggingEnabled, TRUE))
        BY <3>4 DEF LoggingWanted, IsTrue
      <4>2. logger' = [logger EXCEPT
              !.enabled = LoggingWanted, !.split = IsTrue(world.split, FALSE),
              !.levels = ConfiguredLevels, !.level = ConfiguredLevels[NgenKey]]
        BY <1>2, <3>4, <4>1 DEF LoadSettings
      <4>3. QED  BY <3>1, <3>3, <3>4, <4>2 DEF Loaded, LoggerSettings
    <3>5. CASE ~ConfigLoaded
      <4>1. LoggingWanted = TRUE  BY <3>5 DEF LoggingWanted
      <4>2. logger' = [logger EXCEPT
              !.enabled = TRUE, !.split = FALSE, !.levels = DefaultLevels,
              !.level = DefaultLevels[NgenKey]]
        BY <1>2, <3>2, <3>5 DEF LoadSettings
      <4>3. QED  BY <3>1, <3>3, <3>5, <4>1, <4>2 DEF Loaded, LoggerSettings
    <3>6. QED  BY <3>4, <3>5
  <2>4. /\ once = "running" /\ pc'[t] = "export"
        /\ \A u \in Threads \ {t} : pc'[u] = pc[u] /\ pc[u] \notin InsideOnce
    BY <2>1, AloneInside DEF InsideOnce
  <2>5. QED  BY <2>1, <2>2, <2>3, <2>4 DEF PublishInv, InsideOnce
<1>3. CASE ExportEnvVars(t)
  <2>1. /\ pc[t] = "export" /\ Goto(t, "setup") /\ UNCHANGED <<world, once, logger>>
        /\ Loaded /\ env.level = world.env.level
    BY <1>3 DEF ExportEnvVars, PublishInv
  <2>2. Loaded'
    BY <2>1 DEF Loaded, LoggingWanted, ConfigLoaded, ConfiguredLevels, DefaultLevels
  <2>3. Exported'
    <3>1. \A id \in Ids : env'.level[id] \in LevelsOf(id)
      BY <1>3 DEF ExportEnvVars
    <3>2. \A id \in Ids : ExportedKeys(id)' = ExportedKeys(id)
      BY <2>1 DEF ExportedKeys
    <3>3. QED  BY <2>1, <3>1, <3>2 DEF Exported, LevelsOf
  <2>4. /\ once = "running" /\ pc'[t] = "setup"
        /\ \A u \in Threads \ {t} : pc'[u] = pc[u] /\ pc[u] \notin InsideOnce
    BY <2>1, AloneInside DEF InsideOnce
  <2>5. QED  BY <2>1, <2>2, <2>3, <2>4 DEF PublishInv, InsideOnce
<1>4. CASE SetupLogFile(t)
  <2>1. /\ pc[t] = "setup" /\ Goto(t, AfterOnce(EntryPoint(call[t]))) /\ once' = "done"
        /\ UNCHANGED <<world, env>> /\ Loaded /\ Exported
    BY <1>4 DEF SetupLogFile, PublishInv
  <2>2. /\ logger'.enabled = logger.enabled /\ logger'.levels = logger.levels
        /\ logger'.level = logger.level
    BY <1>4 DEF SetupLogFile, TypeInv, TypeOK, LoggerSettings
  <2>3. Loaded' /\ Exported'
    <3>1. /\ ConfiguredLevels' = ConfiguredLevels /\ DefaultLevels' = DefaultLevels
          /\ ConfigLoaded' = ConfigLoaded /\ LoggingWanted' = LoggingWanted
      BY <2>1 DEF ConfiguredLevels, DefaultLevels, ConfigLoaded, LoggingWanted
    <3>2. \A id \in Ids : ExportedKeys(id)' = ExportedKeys(id)
      BY <2>2 DEF ExportedKeys
    <3>3. QED  BY <2>1, <2>2, <3>1, <3>2 DEF Loaded, Exported
  <2>4. /\ pc'[t] \notin InsideOnce
        /\ \A u \in Threads \ {t} : pc'[u] = pc[u] /\ pc[u] \notin InsideOnce
    BY <2>1, AloneInside DEF InsideOnce, AfterOnce
  <2>5. QED  BY <2>1, <2>3, <2>4 DEF PublishInv, InsideOnce
<1>5. QED  BY <1>1, <1>2, <1>3, <1>4 DEF Initialise

(* So does the step that starts it, and the one that finds it done.          *)
LEMMA InitIfNeededPublish ==
  ASSUME TypeInv, OnceInv, PublishInv, NEW t \in Threads, InitIfNeeded(t)
  PROVE  PublishInv'
<1>1. CASE once = "new" /\ once' = "running" /\ Goto(t, "clear")
  <2>1. Untouched /\ UNCHANGED <<world, settings>>
    BY <1>1 DEF PublishInv, InitIfNeeded
  <2>2. Untouched'  BY <2>1 DEF Untouched, settings
  <2>3. /\ pc'[t] = "clear"
        /\ \A u \in Threads \ {t} : pc'[u] = pc[u] /\ pc[u] \notin InsideOnce
    BY <1>1 DEF OnceInv, Goto, TypeInv, TypeOK
  <2>4. QED  BY <1>1, <2>2, <2>3 DEF PublishInv, InsideOnce
<1>2. CASE once = "done" /\ Goto(t, AfterOnce(pc[t])) /\ UNCHANGED once
  <2>1. \A u \in Threads : pc'[u] \in InsideOnce => pc'[u] = pc[u]
    BY <1>2 DEF Goto, AfterOnce, InsideOnce, TypeInv, TypeOK
  <2>2. QED  BY <1>2, <2>1, PublishAside DEF InitIfNeeded
<1>3. QED  BY <1>1, <1>2 DEF InitIfNeeded

(* PublishInv is inductive.                                                  *)
LEMMA StepPublish == TypeInv /\ OnceInv /\ PublishInv /\ [Next]_vars => PublishInv'
<1> SUFFICES ASSUME TypeInv, OnceInv, PublishInv, [Next]_vars PROVE PublishInv'  OBVIOUS
<1> DEFINE Outside == \A u \in Threads : pc'[u] \in InsideOnce => pc'[u] = pc[u]
<1>1. ASSUME NEW t \in Threads, Call(t) PROVE PublishInv'
  <2>1. Outside  BY <1>1 DEF Call, EntryPoint, Goto, InsideOnce, TypeInv, TypeOK
  <2>2. QED  BY <1>1, <2>1, PublishAside DEF Call
<1>2. ASSUME NEW t \in Threads, InitIfNeeded(t) \/ Initialise(t) PROVE PublishInv'
  BY <1>2, InitIfNeededPublish, InitialisePublish
<1>3. ASSUME NEW t \in Threads, Route(t) PROVE PublishInv'
  <2>1. Outside
    BY <1>3 DEF Route, Discard, DivertStatus, Accept, Return, Plain, Goto, InsideOnce, TypeInv,
                TypeOK
  <2>2. QED  BY <1>3, <2>1, PublishAside DEF Route, Discard, DivertStatus, Accept
<1>4. ASSUME NEW t \in Threads, Write(t) PROVE PublishInv'
  <2>1. Outside
    BY <1>4 DEF Write, LockSplit, WriteSplitLine, UnlockSplit, InsertUnified, PrintLine,
                ReturnPlain, Return, Plain, Goto, InsideOnce, TypeInv, TypeOK
  <2>2. QED
    BY <1>4, <2>1, PublishAside DEF Write, LockSplit, WriteSplitLine, UnlockSplit,
                                    InsertUnified, PrintLine, ReturnPlain
<1>5. ASSUME NEW t \in Threads, Payload(t) PROVE PublishInv'
  <2>1. Outside
    BY <1>5 DEF Payload, CheckPayloadFile, BeginOpenPayload, EndOpenPayload,
                ConfirmPayloadFile, WritePayload, Return, Goto, InsideOnce, TypeInv, TypeOK
  <2>2. QED
    BY <1>5, <2>1, PublishAside DEF Payload, CheckPayloadFile, BeginOpenPayload,
                                    EndOpenPayload, ConfirmPayloadFile, WritePayload
<1>6. CASE FsChange \/ UNCHANGED vars
  BY <1>6, PublishAside DEF FsChange, vars
<1>7. QED
  BY <1>1, <1>2, <1>3, <1>4, <1>5, <1>6 DEF Next, Work, Finished

(* It holds at the start.                                                    *)
LEMMA InitPublish == Init => OnceInv /\ PublishInv
BY DEF Init, OnceInv, InsideOnce, PublishInv, Untouched

(* What all the proofs below may assume.                                     *)
BaseInv == TypeInv /\ OnceInv /\ PublishInv

(* These three are inductive together.                                       *)
LEMMA StepBase == BaseInv /\ [Next]_vars => BaseInv'
BY StepType, StepOnce, StepPublish DEF BaseInv

LEMMA InitBase == Init => BaseInv
BY InitType, InitPublish DEF BaseInv, TypeInv, InCall, Init
-----------------------------------------------------------------------------
(* Every piece is in the destination the settings prescribe.                  *)

Deciding  == {"init", "decide"}
Writing   == {"lock", "split", "unified", "stdout"}
Reporting == {"pready", "pinit", "pcheck", "popen", "pconfirm", "pwrite"}
AfterOnceOnly == Writing \cup {"decide", "pcheck", "popen", "pconfirm", "pwrite"}

(* What the place a thread has reached says of its message and the settings.  *)
RoutedRight(t) ==
  /\ call[t] \in Sends[t]
  /\ pc[t] \in AfterOnceOnly => once = "done"
  /\ pc[t] \in Deciding => EntryPoint(call[t]) = "init"
  /\ pc[t] \in Writing => logger.enabled /\ ~IsStatus(call[t])
  /\ pc[t] \in {"lock", "split"} => logger.split
  /\ pc[t] = "unified" => logFile # "closed"
  /\ pc[t] \in Reporting => IsStatus(call[t])
  /\ pc[t] \in {"popen", "pconfirm", "pwrite"} => logger.enabled /\ logger.dir # "none"

(* A file is opened only where the settings want one.                         *)
FilesRight ==
  /\ logger.split => world.resultsDir
  /\ once = "done" /\ world.resultsDir => logger.dir # "none"
  /\ logFile # "closed" => once = "done" /\ ~logger.split /\ logger.dir # "none"
  /\ payloadFile # "closed" => once = "done" /\ logger.enabled /\ logger.dir # "none"

(* Where a piece belongs.                                                    *)
Belongs(s, p) ==
  /\ logger.enabled
  /\ s = "payload" <=> IsStatus(p.msg)
  /\ s \in Ids => logger.split /\ s = p.msg.id
  /\ s = "unified" => ~logger.split
  /\ s # "stdout" => logger.dir # "none"

RouteInv ==
  /\ FilesRight
  /\ \A t \in Threads : RoutedRight(t)
  /\ once # "done" => \A s \in Sinks : out[s] = <<>>
  /\ StreamsSeparate

(* What one step may do to a destination: leave it, empty it, or append a      *)
(* piece that belongs there.                                                *)
Grows(s) ==
  \/ out'[s] = out[s]
  \/ out'[s] = <<>>
  \/ once = "done" /\ \E p \in Pieces : Belongs(s, p) /\ out'[s] = Append(out[s], p)

(* A piece that is put where it belongs.                                     *)
LEMMA PutGrows ==
  ASSUME TypeInv, NEW sink \in Sinks, NEW p \in Pieces, Put(sink, p), Belongs(sink, p),
         once = "done"
  PROVE  \A s \in Sinks : Grows(s)
<1>1. out'[sink] = Append(out[sink], p) /\ \A s \in Sinks \ {sink} : out'[s] = out[s]
  BY DEF Put, TypeInv, TypeOK
<1>2. QED  BY <1>1 DEF Grows

(* Growing destinations stay separate.                                       *)
LEMMA GrowsSeparate ==
  ASSUME TypeInv, RouteInv, logger' = logger, once' = once, \A s \in Sinks : Grows(s)
  PROVE  /\ StreamsSeparate'
         /\ once' # "done" => \A s \in Sinks : out'[s] = <<>>
<1>1. ASSUME NEW s \in Sinks, NEW i \in DOMAIN out'[s] PROVE Belongs(s, out'[s][i])
  <2>1. \A j \in DOMAIN out[s] : Belongs(s, out[s][j])
    BY DEF RouteInv, StreamsSeparate, Belongs
  <2>2. out[s] \in Seq(Pieces)  BY DEF TypeInv, TypeOK
  <2>3. ASSUME NEW p \in Pieces, Belongs(s, p), out'[s] = Append(out[s], p)
        PROVE  Belongs(s, out'[s][i])
    <3>1. (i \in DOMAIN out[s] /\ out'[s][i] = out[s][i]) \/ out'[s][i] = p
      BY <1>1, <2>2, <2>3
    <3>2. QED  BY <2>1, <2>3, <3>1
  <2>4. QED  BY <1>1, <2>1, <2>3 DEF Grows
<1>2. StreamsSeparate'  BY <1>1 DEF StreamsSeparate, Belongs
<1>3. QED  BY <1>2 DEF RouteInv, Grows

(* A thread that a step leaves where it is stays right.                       *)
LEMMA OthersRouted ==
  ASSUME TypeInv, RouteInv, NEW u \in Threads, pc'[u] = pc[u], call'[u] = call[u],
         once = "done" => once' = "done" /\ logger' = logger,
         logFile # "closed" => logFile' # "closed"
  PROVE  RoutedRight(u)'
<1>1. RoutedRight(u)  BY DEF RouteInv
<1>2. CASE once = "done"
  BY <1>1, <1>2 DEF RoutedRight
<1>3. CASE once # "done"
  BY <1>1, <1>3 DEF RoutedRight, AfterOnceOnly, Writing
<1>4. QED  BY <1>2, <1>3

(* A step that is not one of the initialisation.                              *)
LEMMA RouteKept ==
  ASSUME TypeInv, RouteInv, NEW t \in Threads, UNCHANGED <<world, once, logger>>,
         logFile' # "closed" <=> logFile # "closed",
         payloadFile' # "closed" =>
           payloadFile # "closed" \/ (once = "done" /\ logger.enabled /\ logger.dir # "none"),
         \A u \in Threads \ {t} : pc'[u] = pc[u] /\ call'[u] = call[u],
         RoutedRight(t)', \A s \in Sinks : Grows(s)
  PROVE  RouteInv'
<1>1. FilesRight'  BY DEF RouteInv, FilesRight
<1>2. \A u \in Threads : RoutedRight(u)'  BY OthersRouted
<1>3. QED  BY <1>1, <1>2, GrowsSeparate DEF RouteInv

(* A call enters at the place its message asks for.                          *)
LEMMA CallRoute ==
  ASSUME TypeInv, RouteInv, NEW t \in Threads, Call(t)
  PROVE  RouteInv'
<1>1. PICK m \in Sends[t] : call' = [call EXCEPT ![t] = m] /\ Goto(t, EntryPoint(m))
  BY DEF Call
<1>2. /\ call'[t] = m /\ pc'[t] = EntryPoint(m)
      /\ \A u \in Threads \ {t} : pc'[u] = pc[u] /\ call'[u] = call[u]
  BY <1>1 DEF Goto, TypeInv, TypeOK
<1>3. m \in Message  BY ConstantsAssumption
<1>4. RoutedRight(t)'
  <2>1. EntryPoint(m) = "init" \/ (EntryPoint(m) = "pready" /\ IsStatus(m))
    BY DEF EntryPoint, IsStatus
  <2>2. QED
    BY <1>2, <2>1 DEF RoutedRight, Deciding, Writing, Reporting, AfterOnceOnly
<1>5. \A s \in Sinks : Grows(s)  BY DEF Call, Grows
<1>6. QED  BY <1>2, <1>4, <1>5, RouteKept DEF Call, settings, streams

(* Whoever passes the once flag finds the settings there.                    *)
LEMMA InitIfNeededRoute ==
  ASSUME TypeInv, OnceInv, RouteInv, NEW t \in Threads, InitIfNeeded(t)
  PROVE  RouteInv'
<1>1. RoutedRight(t) /\ UNCHANGED <<world, logger, logFile, payloadFile, call, out>>
  BY DEF RouteInv, InitIfNeeded, settings, streams
<1>2. CASE once = "new" /\ once' = "running" /\ Goto(t, "clear")
  <2>1. pc'[t] = "clear" /\ \A u \in Threads \ {t} : pc'[u] = pc[u]
    BY <1>2 DEF Goto, TypeInv, TypeOK
  <2>2. RoutedRight(t)'
    BY <1>1, <2>1 DEF RoutedRight, Deciding, Writing, Reporting, AfterOnceOnly
  <2>3. \A u \in Threads : RoutedRight(u)'  BY <1>1, <1>2, <2>1, <2>2, OthersRouted
  <2>4. QED
    BY <1>1, <1>2, <2>3 DEF RouteInv, FilesRight, StreamsSeparate
<1>3. CASE once = "done" /\ Goto(t, AfterOnce(pc[t])) /\ UNCHANGED once
  <2>1. pc'[t] = AfterOnce(pc[t]) /\ \A u \in Threads \ {t} : pc'[u] = pc[u]
    BY <1>3 DEF Goto, TypeInv, TypeOK
  <2>2. RoutedRight(t)'
    BY <1>1, <1>3, <2>1 DEF InitIfNeeded, AfterOnce, RoutedRight, Deciding, Writing, Reporting,
                            AfterOnceOnly
  <2>3. \A s \in Sinks : Grows(s)  BY <1>1 DEF Grows
  <2>4. QED  BY <1>1, <1>3, <2>1, <2>2, <2>3, RouteKept
<1>4. QED  BY <1>2, <1>3 DEF InitIfNeeded

(* During the initialisation nothing is open and nothing is written.         *)
LEMMA InitialiseRoute ==
  ASSUME TypeInv, OnceInv, RouteInv, NEW t \in Threads, Initialise(t)
  PROVE  RouteInv'
<1>1. /\ RoutedRight(t) /\ once = "running" /\ UNCHANGED <<world, call, out, payloadFile>>
      /\ \A u \in Threads \ {t} : pc'[u] = pc[u]
  BY DEF OnceInv, InsideOnce, RouteInv, Initialise, ClearEnvVars, LoadSettings, ExportEnvVars,
         SetupLogFile, Goto, TypeInv, TypeOK, streams
<1>2. logFile = "closed" /\ payloadFile = "closed" /\ \A s \in Sinks : out[s] = <<>>
  BY <1>1 DEF RouteInv, FilesRight
<1>3. \A u \in Threads \ {t} : RoutedRight(u)'
  BY <1>1, <1>2, OthersRouted
<1>4. StreamsSeparate'  BY <1>1, <1>2 DEF StreamsSeparate
<1>5. CASE ClearEnvVars(t) \/ ExportEnvVars(t)
  <2>1. UNCHANGED <<once, logger, logFile>> /\ pc'[t] \in {"load", "setup"}
    BY <1>5 DEF ClearEnvVars, ExportEnvVars, Goto, TypeInv, TypeOK, streams
  <2>2. RoutedRight(t)'
    BY <1>1, <2>1 DEF RoutedRight, Deciding, Writing, Reporting, AfterOnceOnly
  <2>3. QED  BY <1>1, <1>2, <1>3, <1>4, <2>1, <2>2 DEF RouteInv, FilesRight
<1>6. CASE LoadSettings(t)
  <2>1. UNCHANGED <<once, logFile>> /\ pc'[t] = "export"
    BY <1>6 DEF LoadSettings, Goto, TypeInv, TypeOK, streams
  <2>2. RoutedRight(t)'
    BY <1>1, <2>1 DEF RoutedRight, Deciding, Writing, Reporting, AfterOnceOnly
  <2>3. logger'.split => world.resultsDir
    BY <1>6 DEF LoadSettings, ConfigLoaded, TypeInv, TypeOK, LoggerSettings
  <2>4. QED  BY <1>1, <1>2, <1>3, <1>4, <2>1, <2>2, <2>3 DEF RouteInv, FilesRight
<1>7. CASE SetupLogFile(t)
  <2>1. /\ once' = "done" /\ pc'[t] = AfterOnce(EntryPoint(call[t]))
        /\ logger'.split = logger.split
        /\ logger'.dir = (IF world.resultsDir THEN "results"
                         ELSE IF world.logDir THEN "standalone" ELSE "none")
        /\ logFile' # "closed" => logger'.dir # "none" /\ ~logger.split
    BY <1>2, <1>7 DEF SetupLogFile, Goto, TypeInv, TypeOK, LoggerSettings
  <2>2. RoutedRight(t)'
    <3>1. CASE EntryPoint(call[t]) = "init"
      BY <1>1, <2>1, <3>1 DEF RoutedRight, AfterOnce, Deciding, Writing, Reporting,
                              AfterOnceOnly
    <3>2. CASE EntryPoint(call[t]) = "pready"
      <4>1. IsStatus(call[t])  BY <3>2 DEF EntryPoint, IsStatus
      <4>2. QED
        BY <1>1, <2>1, <3>2, <4>1 DEF RoutedRight, AfterOnce, Deciding, Writing, Reporting,
                                      AfterOnceOnly
    <3>3. QED  BY <3>1, <3>2 DEF EntryPoint
  <2>3. FilesRight'
    BY <1>1, <1>2, <2>1 DEF RouteInv, FilesRight
  <2>4. QED  BY <1>1, <1>2, <1>3, <1>4, <2>1, <2>2, <2>3 DEF RouteInv
<1>8. QED  BY <1>5, <1>6, <1>7 DEF Initialise

(* The filter sends a message where the settings say.                        *)
LEMMA RouteRoute ==
  ASSUME TypeInv, RouteInv, NEW t \in Threads, Route(t)
  PROVE  RouteInv'
<1>1. /\ RoutedRight(t) /\ pc[t] = "decide" /\ once = "done"
      /\ UNCHANGED <<world, once, logger, logFile, payloadFile, splitFiles, call, out>>
  BY DEF RouteInv, RoutedRight, AfterOnceOnly, Route, Discard, DivertStatus, Accept, settings,
         streams
<1>2. \A u \in Threads \ {t} : pc'[u] = pc[u]
  BY DEF Route, Discard, DivertStatus, Accept, Return, Goto, TypeInv, TypeOK
<1>3. RoutedRight(t)'
  <2>1. CASE Discard(t)
    <3>1. pc'[t] = "idle"  BY <2>1 DEF Discard, Return, Goto, TypeInv, TypeOK
    <3>2. QED  BY <1>1, <3>1 DEF RoutedRight, Deciding, Writing, Reporting, AfterOnceOnly
  <2>2. CASE DivertStatus(t)
    <3>1. pc'[t] = "pready" /\ IsStatus(call[t])
      BY <2>2 DEF DivertStatus, Diverted, IsStatus, Goto, TypeInv, TypeOK
    <3>2. QED  BY <1>1, <3>1 DEF RoutedRight, Deciding, Writing, Reporting, AfterOnceOnly
  <2>3. CASE Accept(t)
    <3>1. /\ logger.enabled /\ pc'[t] = (IF logger.split THEN "lock" ELSE Plain)
          /\ call[t].level # STATUS
      BY <2>3 DEF Accept, Diverted, Goto, TypeInv, TypeOK
    <3>2. ~IsStatus(call[t])
      <4>1. EntryPoint(call[t]) = "init"  BY <1>1 DEF RoutedRight, Deciding
      <4>2. QED  BY <3>1, <4>1 DEF EntryPoint, IsStatus
    <3>3. (Plain = "unified" /\ logFile # "closed") \/ Plain = "stdout"
      BY DEF Plain
    <3>4. QED
      BY <1>1, <3>1, <3>2, <3>3 DEF RoutedRight, Deciding, Writing, Reporting, AfterOnceOnly
  <2>4. QED  BY <2>1, <2>2, <2>3 DEF Route
<1>4. \A s \in Sinks : Grows(s)  BY <1>1 DEF Grows
<1>5. QED  BY <1>1, <1>2, <1>3, <1>4, RouteKept

(* The thread that writes has a place in the settings for its lines.           *)
LEMMA WriterBelongs ==
  ASSUME TypeInv, RouteInv, NEW t \in Threads, NEW line, NEW what, pc[t] \in Writing
  PROVE  /\ once = "done"
         /\ pc[t] = "split" => Belongs(call[t].id, Piece(t, line, what))
         /\ pc[t] = "unified" => Belongs("unified", Piece(t, line, what))
         /\ pc[t] = "stdout" => Belongs("stdout", Piece(t, line, what))
<1>1. /\ once = "done" /\ logger.enabled /\ ~IsStatus(call[t])
      /\ pc[t] = "split" => logger.split /\ logger.dir # "none"
      /\ pc[t] = "unified" => ~logger.split /\ logger.dir # "none"
  BY DEF RouteInv, FilesRight, RoutedRight, AfterOnceOnly, Writing
<1>2. /\ Piece(t, line, what).msg = call[t] /\ call[t].id \in Ids
      /\ \A id \in Ids : id \notin {"unified", "stdout", "payload"}
  BY ConstantsAssumption DEF Piece, Message, TypeInv, TypeOK
<1>3. QED  BY <1>1, <1>2 DEF Belongs

(* Lines go to the destination of their writer.                              *)
LEMMA WriteRoute ==
  ASSUME TypeInv, RouteInv, NEW t \in Threads, Write(t)
  PROVE  RouteInv'
<1>1. /\ RoutedRight(t) /\ pc[t] \in Writing /\ once = "done"
      /\ UNCHANGED <<world, once, logger, payloadFile, call>>
  BY DEF RouteInv, RoutedRight, AfterOnceOnly, Writing, Write, LockSplit, WriteSplitLine,
         UnlockSplit, InsertUnified, PrintLine, ReturnPlain, settings, streams
<1>2. /\ \A u \in Threads \ {t} : pc'[u] = pc[u]
      /\ logFile' # "closed" <=> logFile # "closed"
  BY DEF Write, LockSplit, WriteSplitLine, UnlockSplit, InsertUnified, PrintLine, ReturnPlain,
         Return, Goto, AfterWrite, TypeInv, TypeOK, streams
<1>3. pc'[t] = pc[t] \/ pc'[t] = "idle" \/ (pc[t] = "lock" /\ pc'[t] \in {"split", Plain})
  BY DEF Write, LockSplit, WriteSplitLine, UnlockSplit, InsertUnified, PrintLine, ReturnPlain,
         Return, Goto, TypeInv, TypeOK
<1>4. RoutedRight(t)'
  <2>1. (Plain = "unified" /\ logFile # "closed") \/ Plain = "stdout"  BY DEF Plain
  <2>2. CASE pc'[t] = pc[t]  BY <1>1, <1>2, <2>2 DEF RoutedRight
  <2>3. CASE pc'[t] = "idle"
    BY <1>1, <2>3 DEF RoutedRight, Deciding, Writing, Reporting, AfterOnceOnly
  <2>4. CASE pc[t] = "lock" /\ pc'[t] \in {"split", Plain}
    BY <1>1, <1>2, <2>1, <2>4 DEF RoutedRight, Deciding, Writing, Reporting, AfterOnceOnly
  <2>5. QED  BY <1>3, <2>2, <2>3, <2>4
<1>5. \A s \in Sinks : Grows(s)
  <2>1. CASE out' = out  BY <2>1 DEF Grows
  <2>2. CASE WriteSplitLine(t) /\ out' # out
    <3>1. PICK line \in todo[t] : Put(call[t].id, Piece(t, line, "line"))
      BY <2>2 DEF WriteSplitLine
    <3>2. /\ pc[t] = "split" /\ call[t].id \in Sinks /\ Piece(t, line, "line") \in Pieces
      BY <2>2 DEF WriteSplitLine, Message, Sinks, Piece, Pieces, Parts, TypeInv, TypeOK, InCall
    <3>3. QED  BY <1>1, <3>1, <3>2, WriterBelongs, PutGrows
  <2>3. CASE InsertUnified(t) /\ out' # out
    <3>1. PICK line \in todo[t] : Put("unified", Piece(t, line, part[t]))
      BY <2>3 DEF InsertUnified
    <3>2. /\ pc[t] = "unified" /\ "unified" \in Sinks /\ Piece(t, line, part[t]) \in Pieces
      BY <2>3 DEF InsertUnified, Sinks, Piece, Pieces, Parts, TypeInv, TypeOK, InCall
    <3>3. QED  BY <1>1, <3>1, <3>2, WriterBelongs, PutGrows
  <2>4. CASE PrintLine(t)
    <3>1. PICK line \in todo[t] : Put("stdout", Piece(t, line, "line"))
      BY <2>4 DEF PrintLine
    <3>2. /\ pc[t] = "stdout" /\ "stdout" \in Sinks /\ Piece(t, line, "line") \in Pieces
      BY <2>4 DEF PrintLine, Sinks, Piece, Pieces, Parts, TypeInv, TypeOK, InCall
    <3>3. QED  BY <1>1, <3>1, <3>2, WriterBelongs, PutGrows
  <2>5. QED
    BY <2>1, <2>2, <2>3, <2>4 DEF Write, LockSplit, UnlockSplit, ReturnPlain
<1>6. QED  BY <1>1, <1>2, <1>4, <1>5, RouteKept, Zenon

(* Records go to the payload file, which is open where it is wanted.         *)
LEMMA PayloadRoute ==
  ASSUME TypeInv, RouteInv, NEW t \in Threads, Payload(t)
  PROVE  RouteInv'
<1>1. /\ RoutedRight(t) /\ pc[t] \in Reporting /\ IsStatus(call[t])
      /\ UNCHANGED <<world, once, logger, logFile, call>>
  BY DEF RouteInv, RoutedRight, Reporting, Payload, CheckPayloadFile, BeginOpenPayload,
         EndOpenPayload, ConfirmPayloadFile, WritePayload, settings, streams
<1>2. \A u \in Threads \ {t} : pc'[u] = pc[u]
  BY DEF Payload, CheckPayloadFile, BeginOpenPayload, EndOpenPayload, ConfirmPayloadFile,
         WritePayload, Return, Goto, TypeInv, TypeOK
<1>3. payloadFile # "closed" => once = "done" /\ logger.enabled /\ logger.dir # "none"
  BY DEF RouteInv, FilesRight
<1>4. CASE CheckPayloadFile(t)
  <2>1. UNCHANGED <<payloadFile, out>>  BY <1>4 DEF CheckPayloadFile, streams
  <2>2. pc'[t] = "pinit" \/ (pc'[t] = "pwrite" /\ payloadFile = "good")
    BY <1>4 DEF CheckPayloadFile, PayloadFileReady, Goto, TypeInv, TypeOK
  <2>3. RoutedRight(t)'
    BY <1>1, <1>3, <2>2 DEF RoutedRight, Deciding, Writing, Reporting, AfterOnceOnly
  <2>4. QED  BY <1>1, <1>2, <2>1, <2>3, RouteKept DEF Grows
<1>5. CASE BeginOpenPayload(t) \/ ConfirmPayloadFile(t)
  <2>1. /\ out' = out /\ once = "done"
        /\ payloadFile' # "closed" => payloadFile # "closed"
    BY <1>1, <1>5 DEF BeginOpenPayload, ConfirmPayloadFile, RoutedRight, AfterOnceOnly, streams
  <2>2. \/ pc'[t] = "idle"
        \/ pc'[t] \in {"popen", "pconfirm", "pwrite"} /\ logger.enabled /\ logger.dir # "none"
    BY <1>1, <1>5 DEF BeginOpenPayload, ConfirmPayloadFile, Return, RoutedRight, Goto, TypeInv,
                      TypeOK
  <2>3. RoutedRight(t)'
    BY <1>1, <2>1, <2>2 DEF RoutedRight, Deciding, Writing, Reporting, AfterOnceOnly
  <2>4. QED  BY <1>1, <1>2, <2>1, <2>3, RouteKept DEF Grows
<1>6. CASE EndOpenPayload(t)
  <2>1. /\ pc'[t] = "pconfirm" /\ once = "done" /\ logger.enabled /\ logger.dir # "none"
    BY <1>1, <1>6 DEF EndOpenPayload, RoutedRight, AfterOnceOnly, Goto, TypeInv, TypeOK
  <2>2. RoutedRight(t)'
    BY <1>1, <2>1 DEF RoutedRight, Deciding, Writing, Reporting, AfterOnceOnly
  <2>3. \A s \in Sinks : Grows(s)  BY <1>6 DEF EndOpenPayload, Grows, TypeInv, TypeOK
  <2>4. QED  BY <1>1, <1>2, <2>1, <2>2, <2>3, RouteKept
<1>7. CASE WritePayload(t)
  <2>1. /\ pc'[t] = "idle" /\ pc[t] = "pwrite" /\ once = "done"
        /\ logger.enabled /\ logger.dir # "none"
    BY <1>1, <1>7 DEF WritePayload, RoutedRight, AfterOnceOnly, Return, Goto, TypeInv, TypeOK
  <2>2. RoutedRight(t)'
    BY <1>1, <2>1 DEF RoutedRight, Deciding, Writing, Reporting, AfterOnceOnly
  <2>3. payloadFile' # "closed" => payloadFile # "closed"
    BY <1>7 DEF WritePayload, AfterWrite
  <2>4. \A s \in Sinks : Grows(s)
    <3>1. CASE out' = out  BY <3>1 DEF Grows
    <3>2. CASE Put("payload", Piece(t, 0, RecordKind(call[t])))
      <4>1. Piece(t, 0, RecordKind(call[t])) \in Pieces /\ "payload" \in Sinks
        BY <2>1 DEF RecordKind, Parts, Sinks, Piece, Pieces, TypeInv, TypeOK, InCall
      <4>2. Belongs("payload", Piece(t, 0, RecordKind(call[t])))
        BY <1>1, <2>1, ConstantsAssumption DEF Belongs, Piece
      <4>3. QED  BY <2>1, <3>2, <4>1, <4>2, PutGrows
    <3>3. QED  BY <1>7, <3>1, <3>2 DEF WritePayload
  <2>5. QED  BY <1>1, <1>2, <2>2, <2>3, <2>4, RouteKept
<1>8. QED  BY <1>4, <1>5, <1>6, <1>7 DEF Payload

(* RouteInv is inductive.                                                    *)
LEMMA StepRoute == BaseInv /\ RouteInv /\ [Next]_vars => RouteInv'
<1> SUFFICES ASSUME BaseInv, RouteInv, [Next]_vars PROVE RouteInv'  OBVIOUS
<1> USE DEF BaseInv
<1>1. ASSUME NEW t \in Threads, Call(t) PROVE RouteInv'  BY <1>1, CallRoute
<1>2. ASSUME NEW t \in Threads, Work(t) PROVE RouteInv'
  BY <1>2, InitIfNeededRoute, InitialiseRoute, RouteRoute, WriteRoute, PayloadRoute DEF Work
<1>3. CASE FsChange \/ UNCHANGED vars
  BY <1>3 DEF FsChange, vars, settings, streams, RouteInv, FilesRight, RoutedRight,
              StreamsSeparate
<1>4. QED  BY <1>1, <1>2, <1>3 DEF Next, Finished

(* It holds at the start.                                                    *)
LEMMA InitRoute == Init => RouteInv
<1> SUFFICES ASSUME Init PROVE RouteInv  OBVIOUS
<1>1. \A t \in Threads : call[t] \in Sends[t]  BY ConstantsAssumption DEF Init
<1>2. \A t \in Threads : RoutedRight(t)
  BY <1>1 DEF Init, RoutedRight, Deciding, Writing, Reporting, AfterOnceOnly
<1>3. FilesRight  BY DEF Init, FilesRight
<1>4. QED  BY <1>2, <1>3 DEF Init, RouteInv, StreamsSeparate

(* Payload records are in the payload file only and nothing else is there,    *)
(* lines are in the file of their own id when logs are split and in the       *)
(* unified file only when they are not (StreamsSeparate), whichever thread     *)
(* initialised the logger and whatever fails.  RouteInv adds what each place   *)
(* of a call implies for the message and that a file is open only where the   *)
(* settings want one.                                                       *)
THEOREM StreamsSeparateAlways == Spec => []StreamsSeparate
<1>1. Init => BaseInv /\ RouteInv  BY InitBase, InitRoute
<1>2. BaseInv /\ RouteInv /\ [Next]_vars => (BaseInv /\ RouteInv)'  BY StepBase, StepRoute
<1>3. RouteInv => StreamsSeparate  BY DEF RouteInv
<1>4. QED  BY <1>1, <1>2, <1>3, PTL DEF Spec
-----------------------------------------------------------------------------
(* Each destination keeps the program order of every thread.                  *)

(* A piece is of no later call than the last of its thread, and, when it is of  *)
(* the current one, not behind what is left to write.                        *)
Reached(p) ==
  /\ p.n <= calls[p.by]
  /\ p.n = calls[p.by] /\ pc[p.by] # "idle" =>
       pc[p.by] \in Writing /\ \A line \in todo[p.by] : p.line <= line

OrderInv ==
  /\ InOrder
  /\ \A s \in Sinks : \A i \in DOMAIN out[s] : Reached(out[s][i])

NotAfter(p, q) == p.n < q.n \/ (p.n = q.n /\ p.line <= q.line)

(* A step of t: what it appends comes after all that t has written.            *)
LEMMA OrderStep ==
  ASSUME TypeInv, OrderInv, NEW t \in Threads,
         \A u \in Threads \ {t} : pc'[u] = pc[u] /\ calls'[u] = calls[u] /\ todo'[u] = todo[u],
         \A q \in Pieces : q.by = t /\ Reached(q) => Reached(q)',
         \A s \in Sinks :
           \/ out'[s] = out[s] \/ out'[s] = <<>>
           \/ \E p \in Pieces :
                /\ p.by = t /\ Reached(p)' /\ out'[s] = Append(out[s], p)
                /\ \A q \in Pieces : q.by = t /\ Reached(q) => NotAfter(q, p)
  PROVE  OrderInv'
<1>1. \A q \in Pieces : Reached(q) => Reached(q)'
  BY DEF Reached, Pieces
<1>2. ASSUME NEW s \in Sinks
      PROVE  /\ \A i \in DOMAIN out'[s] :
                  out'[s][i] \in Pieces /\ \E q \in Pieces : q = out'[s][i] /\ Reached(q)'
             /\ \A i, j \in DOMAIN out'[s] :
                  i < j /\ out'[s][i].by = out'[s][j].by => NotAfter(out'[s][i], out'[s][j])
  <2>1. out[s] \in Seq(Pieces)  BY DEF TypeInv, TypeOK
  <2>2. /\ \A i \in DOMAIN out[s] : out[s][i] \in Pieces /\ Reached(out[s][i])
        /\ \A i, j \in DOMAIN out[s] :
             i < j /\ out[s][i].by = out[s][j].by => NotAfter(out[s][i], out[s][j])
    BY <2>1 DEF OrderInv, InOrder, NotAfter
  <2>3. \A i \in DOMAIN out[s] :
          out[s][i] \in Pieces /\ \E q \in Pieces : q = out[s][i] /\ Reached(q)'
    BY <1>1, <2>2
  <2>4. CASE out'[s] = out[s]  BY <2>2, <2>3, <2>4
  <2>5. CASE out'[s] = <<>>  BY <2>5
  <2>6. ASSUME NEW p \in Pieces, p.by = t, Reached(p)', out'[s] = Append(out[s], p),
               \A q \in Pieces : q.by = t /\ Reached(q) => NotAfter(q, p)
        PROVE  /\ \A i \in DOMAIN out'[s] :
                    out'[s][i] \in Pieces /\ \E q \in Pieces : q = out'[s][i] /\ Reached(q)'
               /\ \A i, j \in DOMAIN out'[s] :
                    i < j /\ out'[s][i].by = out'[s][j].by => NotAfter(out'[s][i], out'[s][j])
    <3>1. \A i \in DOMAIN out'[s] :
            \/ i \in DOMAIN out[s] /\ out'[s][i] = out[s][i]
            \/ i = Len(out[s]) + 1 /\ out'[s][i] = p
      BY <2>1, <2>6
    <3>2. \A i \in DOMAIN out'[s] :
            out'[s][i] \in Pieces /\ \E q \in Pieces : q = out'[s][i] /\ Reached(q)'
      BY <2>3, <2>6, <3>1
    <3>3. \A i, j \in DOMAIN out'[s] :
            i < j => /\ i \in DOMAIN out[s] /\ out'[s][i] = out[s][i]
                     /\ \/ j \in DOMAIN out[s] /\ out'[s][j] = out[s][j]
                        \/ out'[s][j] = p
      BY <2>1, <2>6, <3>1
    <3>4. ASSUME NEW i \in DOMAIN out'[s], NEW j \in DOMAIN out'[s], i < j,
                 out'[s][i].by = out'[s][j].by
          PROVE  NotAfter(out'[s][i], out'[s][j])
      BY <2>2, <2>6, <3>3, <3>4
    <3>5. QED  BY <3>2, <3>4
  <2>7. QED  BY <2>4, <2>5, <2>6
<1>3. InOrder'  BY <1>2 DEF InOrder, NotAfter
<1>4. \A s \in Sinks : \A i \in DOMAIN out'[s] : Reached(out[s][i])'
  BY <1>2 DEF Reached
<1>5. QED  BY <1>3, <1>4 DEF OrderInv

(* A step that appends nothing.                                             *)
LEMMA OrderQuiet ==
  ASSUME TypeInv, OrderInv, NEW t \in Threads, UNCHANGED calls,
         \A s \in Sinks : out'[s] = out[s] \/ out'[s] = <<>>,
         \A u \in Threads \ {t} : pc'[u] = pc[u] /\ todo'[u] = todo[u],
         \/ pc'[t] = "idle" \/ (pc[t] # "idle" /\ pc[t] \notin Writing)
         \/ pc[t] \in Writing /\ pc'[t] \in Writing /\ todo'[t] \subseteq todo[t]
  PROVE  OrderInv'
<1>1. ASSUME NEW q \in Pieces, q.by = t, Reached(q) PROVE Reached(q)'
  <2>1. q.n <= calls'[q.by]  BY <1>1 DEF Reached
  <2>2. CASE pc'[t] = "idle"  BY <1>1, <2>1, <2>2 DEF Reached
  <2>3. CASE pc[t] # "idle" /\ pc[t] \notin Writing  BY <1>1, <2>1, <2>3 DEF Reached
  <2>4. CASE pc[t] \in Writing /\ pc'[t] \in Writing /\ todo'[t] \subseteq todo[t]
    BY <1>1, <2>1, <2>4 DEF Reached, Writing
  <2>5. QED  BY <2>2, <2>3, <2>4
<1>2. QED  BY <1>1, OrderStep

(* A step that writes the smallest of the lines that are left.                 *)
LEMMA OrderLine ==
  ASSUME TypeInv, OrderInv, NEW t \in Threads, pc[t] \in Writing, NEW line \in todo[t],
         NextLine(t, line), NEW what \in Parts, NEW sink \in Sinks,
         Put(sink, Piece(t, line, what)) \/ out' = out, UNCHANGED <<pc, calls>>,
         todo'[t] \subseteq todo[t], \A u \in Threads \ {t} : todo'[u] = todo[u]
  PROVE  OrderInv'
<1> DEFINE p == Piece(t, line, what)
<1>1. /\ todo[t] \in SUBSET Nat /\ line \in Nat /\ pc[t] # "idle" /\ calls[t] \in Nat
      /\ \A other \in todo[t] : line <= other
  BY DEF NextLine, Writing, TypeInv, TypeOK
<1>2. /\ p \in Pieces /\ p.by = t /\ p.n = calls[t] /\ p.line = line
  BY <1>1 DEF Piece, Pieces, TypeInv, TypeOK, InCall
<1>3. CASE out' = out
  BY <1>3, OrderQuiet
<1>4. CASE Put(sink, p)
  <2>1. \A q \in Pieces : q.by = t /\ Reached(q) => Reached(q)' /\ NotAfter(q, p)
    <3>1. ASSUME NEW q \in Pieces, q.by = t, Reached(q) PROVE Reached(q)' /\ NotAfter(q, p)
      <4>1. q.n \in Nat /\ q.line \in Nat  BY DEF Pieces
      <4>2. Reached(q)'  BY <1>1, <3>1 DEF Reached
      <4>3. NotAfter(q, p)
        BY <1>1, <1>2, <3>1, <4>1 DEF Reached, NotAfter
      <4>4. QED  BY <4>2, <4>3
    <3>2. QED  BY <3>1
  <2>2. \A s \in Sinks : out'[s] = out[s] \/ out'[s] = Append(out[s], p)
    BY <1>4 DEF Put, TypeInv, TypeOK
  <2>3. QED
    <3>1. PICK new \in Pieces : new = p  BY <1>2
    <3>2. /\ \A s \in Sinks : out'[s] = out[s] \/ out'[s] = Append(out[s], new)
          /\ new.by = t
          /\ \A q \in Pieces : q.by = t /\ Reached(q) => Reached(q)' /\ NotAfter(q, new)
      <4> HIDE DEF p
      <4>1. QED  BY <1>2, <2>1, <2>2, <3>1
    <3>3. Reached(new)'
      <4> HIDE DEF p
      <4>1. new.n = calls[t] /\ new.line = line /\ new.by = t  BY <1>2, <3>1
      <4>2. QED  BY <1>1, <4>1 DEF Reached
    <3>4. QED
      <4> HIDE DEF p
      <4>1. QED  BY <3>2, <3>3, OrderStep
<1>5. QED  BY <1>3, <1>4

(* The pieces of a new call come after those of the calls before.            *)
LEMMA CallOrder ==
  ASSUME TypeInv, OrderInv, NEW t \in Threads, Call(t)
  PROVE  OrderInv'
<1>1. /\ calls'[t] = calls[t] + 1 /\ calls[t] \in Nat /\ UNCHANGED <<todo, out>>
      /\ \A u \in Threads \ {t} : pc'[u] = pc[u] /\ calls'[u] = calls[u]
  BY DEF Call, Goto, TypeInv, TypeOK
<1>2. \A q \in Pieces : q.by = t /\ Reached(q) => Reached(q)'
  BY <1>1 DEF Reached, Pieces
<1>3. QED  BY <1>1, <1>2, OrderStep

(* Lines are written from the smallest on.                                   *)
LEMMA WriteOrder ==
  ASSUME TypeInv, OrderInv, NEW t \in Threads, Write(t)
  PROVE  OrderInv'
<1>1. CASE LockSplit(t) \/ UnlockSplit(t) \/ ReturnPlain(t)
  <2>1. /\ UNCHANGED <<calls, todo, out>> /\ pc[t] \in Writing
        /\ \A u \in Threads \ {t} : pc'[u] = pc[u]
        /\ pc'[t] \in Writing \cup {"idle"}
    BY <1>1 DEF LockSplit, UnlockSplit, ReturnPlain, Return, Plain, Goto, Writing, TypeInv,
                TypeOK
  <2>2. QED  BY <2>1, OrderQuiet
<1>2. CASE WriteSplitLine(t)
  <2>1. PICK line \in todo[t] :
          /\ NextLine(t, line) /\ todo' = [todo EXCEPT ![t] = @ \ {line}]
          /\ Put(call[t].id, Piece(t, line, "line")) \/ out' = out
    BY <1>2 DEF WriteSplitLine
  <2>2. /\ UNCHANGED <<pc, calls>> /\ pc[t] \in Writing /\ call[t].id \in Sinks
        /\ "line" \in Parts
        /\ todo'[t] \subseteq todo[t] /\ \A u \in Threads \ {t} : todo'[u] = todo[u]
    BY <1>2, <2>1 DEF WriteSplitLine, Writing, Parts, Message, Sinks, TypeInv, TypeOK
  <2>3. QED  BY <2>1, <2>2, OrderLine
<1>3. CASE InsertUnified(t)
  <2>1. PICK line \in todo[t] :
          /\ NextLine(t, line)
          /\ todo' = [todo EXCEPT ![t] = IF part[t] = "end" THEN @ \ {line} ELSE @]
          /\ Put("unified", Piece(t, line, part[t])) \/ out' = out
    BY <1>3 DEF InsertUnified
  <2>2. /\ UNCHANGED <<pc, calls>> /\ pc[t] \in Writing /\ "unified" \in Sinks
        /\ part[t] \in Parts
        /\ todo'[t] \subseteq todo[t] /\ \A u \in Threads \ {t} : todo'[u] = todo[u]
    BY <1>3, <2>1 DEF InsertUnified, Writing, Parts, Sinks, TypeInv, TypeOK
  <2>3. QED  BY <2>1, <2>2, OrderLine
<1>4. CASE PrintLine(t)
  <2>1. PICK line \in todo[t] :
          /\ NextLine(t, line) /\ todo' = [todo EXCEPT ![t] = @ \ {line}]
          /\ Put("stdout", Piece(t, line, "line"))
    BY <1>4 DEF PrintLine
  <2>2. /\ UNCHANGED <<pc, calls>> /\ pc[t] \in Writing /\ "stdout" \in Sinks
        /\ "line" \in Parts
        /\ todo'[t] \subseteq todo[t] /\ \A u \in Threads \ {t} : todo'[u] = todo[u]
    BY <1>4, <2>1 DEF PrintLine, Writing, Parts, Sinks, TypeInv, TypeOK
  <2>3. QED  BY <2>1, <2>2, OrderLine
<1>5. QED  BY <1>1, <1>2, <1>3, <1>4 DEF Write

(* A record is the only piece of its call.                                   *)
LEMMA PayloadOrder ==
  ASSUME TypeInv, OrderInv, NEW t \in Threads, Payload(t)
  PROVE  OrderInv'
<1>1. /\ pc[t] # "idle" /\ pc[t] \notin Writing /\ UNCHANGED <<calls, todo>>
      /\ \A u \in Threads \ {t} : pc'[u] = pc[u]
  BY DEF Payload, CheckPayloadFile, BeginOpenPayload, EndOpenPayload, ConfirmPayloadFile,
         WritePayload, Return, Goto, Writing, TypeInv, TypeOK
<1>2. CASE \A s \in Sinks : out'[s] = out[s] \/ out'[s] = <<>>
  BY <1>1, <1>2, OrderQuiet
<1>3. CASE WritePayload(t) /\ Put("payload", Piece(t, 0, RecordKind(call[t])))
  <2> DEFINE p == Piece(t, 0, RecordKind(call[t]))
  <2>1. /\ p \in Pieces /\ p.by = t /\ p.n = calls[t]
    BY <1>1 DEF Piece, Pieces, RecordKind, Parts, TypeInv, TypeOK, InCall
  <2>2. pc'[t] = "idle"
    BY <1>3 DEF WritePayload, Return, Goto, TypeInv, TypeOK
  <2>3. \A s \in Sinks : out'[s] = out[s] \/ out'[s] = Append(out[s], p)
    BY <1>3 DEF Put, TypeInv, TypeOK
  <2>4. calls[t] \in Nat  BY DEF TypeInv, TypeOK
  <2>5. PICK new \in Pieces : new = p  BY <2>1
  <2>6. /\ Reached(new)'
        /\ \A q \in Pieces : q.by = t /\ Reached(q) => Reached(q)' /\ NotAfter(q, new)
    <3> HIDE DEF p
    <3>1. new.by = t /\ new.n = calls[t]  BY <2>1, <2>5
    <3>2. QED  BY <1>1, <2>2, <2>4, <3>1 DEF Reached, NotAfter, Pieces
  <2>7. QED
    <3> HIDE DEF p
    <3>1. \A s \in Sinks : out'[s] = out[s] \/ out'[s] = Append(out[s], new)  BY <2>3, <2>5
    <3>2. new.by = t  BY <2>1, <2>5
    <3>3. QED  BY <1>1, <2>6, <3>1, <3>2, OrderStep
<1>4. QED
  BY <1>2, <1>3 DEF Payload, CheckPayloadFile, BeginOpenPayload, EndOpenPayload,
                    ConfirmPayloadFile, WritePayload, TypeInv, TypeOK

(* OrderInv is inductive.                                                    *)
LEMMA StepOrder == TypeInv /\ OrderInv /\ [Next]_vars => OrderInv'
<1> SUFFICES ASSUME TypeInv, OrderInv, [Next]_vars PROVE OrderInv'  OBVIOUS
<1>1. ASSUME NEW t \in Threads, InitIfNeeded(t) \/ Initialise(t) \/ Route(t) PROVE OrderInv'
  <2>1. /\ pc[t] # "idle" /\ pc[t] \notin Writing /\ UNCHANGED <<calls, out>>
        /\ \A u \in Threads \ {t} : pc'[u] = pc[u] /\ todo'[u] = todo[u]
    BY <1>1 DEF InitIfNeeded, Initialise, ClearEnvVars, LoadSettings, ExportEnvVars,
                SetupLogFile, Route, Discard, DivertStatus, Accept, Return, Goto, Writing,
                TypeInv, TypeOK
  <2>2. QED  BY <2>1, OrderQuiet
<1>2. CASE FsChange \/ UNCHANGED vars
  BY <1>2 DEF FsChange, vars, OrderInv, InOrder, Reached
<1>3. QED
  BY <1>1, <1>2, CallOrder, WriteOrder, PayloadOrder DEF Next, Work, Finished

(* Every destination keeps the order in which each thread made its calls and  *)
(* the order of the lines of a message (InOrder), also where writes fail or    *)
(* insertions are lost: OrderInv adds that what is written of the current call *)
(* is not behind what is left of it.                                        *)
THEOREM InOrderAlways == Spec => []InOrder
<1>1. Init => TypeInv /\ OrderInv
  <2> SUFFICES ASSUME Init PROVE TypeInv /\ OrderInv  OBVIOUS
  <2>1. \A s \in Sinks : out[s] = <<>>  BY DEF Init
  <2>2. QED  BY <2>1, InitBase DEF BaseInv, OrderInv, InOrder
<1>2. TypeInv /\ OrderInv /\ [Next]_vars => (TypeInv /\ OrderInv)'  BY StepType, StepOrder
<1>3. OrderInv => InOrder  BY DEF OrderInv
<1>4. QED  BY <1>1, <1>2, <1>3, PTL DEF Spec
-----------------------------------------------------------------------------
(* The registry.                                                           *)

(* A set of natural numbers has a smallest one.                               *)
LEMMA SmallestIndex ==
  ASSUME NEW S \in SUBSET Nat, S # {}
  PROVE  Min(S) \in S
<1>1. IsWellFoundedOn(OpToRel(<, Nat), Nat)  BY NatLessThanWellFounded
<1>2. PICK x \in S : \A y \in S : ~ (<<y, x>> \in OpToRel(<, Nat))
  BY <1>1, WFMin
<1>3. \A y, z \in Nat : y < z => <<y, z>> \in OpToRel(<, Nat)
  <2>1. ASSUME NEW y \in Nat, NEW z \in Nat, y < z
        PROVE  <<y, z>> \in {ss \in Nat \X Nat : ss[1] < ss[2]}
    BY <2>1
  <2>2. QED  BY Zenon, <2>1 DEF OpToRel
<1>4. \A y \in S : ~(y < x)
  BY Zenon, <1>2, <1>3
<1>5. \A y \in S : x <= y
  BY <1>4
<1>6. QED  BY <1>5 DEF Min

(* The key under which the level of an id is looked up is a key of that id.     *)
LEMMA FirstKeyType ==
  ASSUME NEW id \in Ids, Entries(id) # {}
  PROVE  FirstKey(id) \in Keys /\ FirstKey(id) \in RegistryKeys /\ id \in EnvVarIdents(FirstKey(id))
<1>1. Registry \in Seq([key : Keys, id : Ids])  BY ConstantsAssumption
<1>2. Entries(id) \in SUBSET Nat  BY <1>1 DEF Entries
<1>3. PICK i \in Entries(id) : FirstKey(id) = Registry[i].key
  BY <1>2, SmallestIndex DEF FirstKey
<1>4. i \in DOMAIN Registry /\ Registry[i].id = id  BY DEF Entries
<1>5. FirstKey(id) \in Keys
  <2>1. ASSUME NEW S, NEW seq \in Seq(S), NEW j \in DOMAIN seq PROVE seq[j] \in S
    OBVIOUS
  <2>2. Registry[i] \in [key : Keys, id : Ids]  BY <1>1, <1>4, <2>1, Zenon
  <2>3. QED  BY <1>3, <2>2
<1>6. FirstKey(id) \in RegistryKeys  BY <1>3, <1>4 DEF RegistryKeys
<1>7. id \in EwtsIdsFromKey(FirstKey(id))  BY <1>3, <1>4 DEF EwtsIdsFromKey
<1>8. QED  BY <1>5, <1>6, <1>7 DEF EnvVarIdents

(* Only an id of the registry has a key.                                      *)
LEMMA KeyHasEntry ==
  ASSUME NEW id, NEW k, id \in EnvVarIdents(k)
  PROVE  Entries(id) # {}
<1>1. PICK key : id \in EwtsIdsFromKey(key)  BY DEF EnvVarIdents
<1>2. QED  BY <1>1 DEF EwtsIdsFromKey, Entries

(* The levels of the settings, as the configuration gives them.               *)
LEMMA LoadedLevels ==
  ASSUME TypeInv, Loaded, NEW k \in Keys
  PROVE  /\ ConfigLoaded =>
              logger.levels[k] = (IF k \in world.listed THEN ParseLevel(world.modules[k])
                                  ELSE IF k = NgenKey THEN INFO ELSE Absent)
         /\ ~ConfigLoaded =>
              logger.levels[k] = (IF k \in RegistryKeys \cup {NgenKey}
                                  THEN ParseLevel(world.defaultLevel) ELSE Absent)
         /\ ParseLevel(world.modules[k]) \in CanonicalLevels
         /\ ParseLevel(world.defaultLevel) \in CanonicalLevels
<1>1. world \in World  BY WorldType DEF TypeInv
<1>2. /\ world.modules[k] \in RawLevel /\ world.defaultLevel \in RawLevel
  BY <1>1 DEF World
<1>3. QED  BY <1>2, ParseLevelCanonical DEF Loaded, ConfiguredLevels, DefaultLevels

(* A canonical level is a number that says it is there.                      *)
LEMMA CanonicalPresent == \A l \in CanonicalLevels : l \in Nat /\ l # Absent /\ l <= STATUS
BY DEF CanonicalLevels, NOTSET, DEBUG, PERFORM, INFO, WARNING, SEVERE, FATAL, STATUS, Absent

(* The exported variable of an id holds the level the logger itself compares   *)
(* with, if the configuration lists no second key of it.                      *)
LEMMA ExportedAgrees ==
  ASSUME TypeInv, Loaded, Exported, NEW id \in Ids, Entries(id) # {}, Unambiguous(id),
         ~LeftOver(id), env.level[id] # Absent
  PROVE  env.level[id] = EffectiveLevel(id)
<1> DEFINE key == FirstKey(id)
<1>1. key \in Keys /\ key \in RegistryKeys /\ id \in EnvVarIdents(key)
  BY FirstKeyType
<1>2. ExportedKeys(id) # {}
  <2>1. CASE ExportedKeys(id) = {}
    <3>1. env.level[id] = world.env.level[id]  BY <2>1 DEF Exported
    <3>2. \A k \in Keys : id \in EnvVarIdents(k) => logger.levels[k] = Absent
      BY <2>1 DEF ExportedKeys
    <3>3. QED  BY <3>1, <3>2 DEF LeftOver
  <2>2. QED  BY <2>1
<1>3. PICK k \in ExportedKeys(id) : env.level[id] = logger.levels[k]
  BY <1>2 DEF Exported
<1>4. k \in Keys /\ id \in EnvVarIdents(k) /\ logger.levels[k] # Absent
  BY DEF ExportedKeys
<1>5. CASE ConfigLoaded
  <2>1. k \in world.listed \cup {NgenKey}  BY <1>4, <1>5, LoadedLevels
  <2>2. k = key  BY <1>4, <1>5, <2>1 DEF Unambiguous
  <2>3. QED  BY <1>3, <1>4, <2>2 DEF EffectiveLevel
<1>6. CASE ~ConfigLoaded
  <2>1. k \in RegistryKeys \cup {NgenKey}  BY <1>4, <1>6, LoadedLevels
  <2>2. logger.levels[k] = logger.levels[key]
    BY <1>1, <1>4, <1>6, <2>1, LoadedLevels
  <2>3. QED  BY <1>3, <1>4, <2>2 DEF EffectiveLevel
<1>7. QED  BY <1>5, <1>6

(* After the initialisation a runtime that reads <ID>_LOGLEVEL gets the level  *)
(* ngen applies to that id (ExportedLevelsAgree), whatever the registry: three *)
(* keys of it share CFE.                                                    *)
THEOREM ExportedLevelsAgreeAlways == Spec => []ExportedLevelsAgree
<1>1. BaseInv => ExportedLevelsAgree
  BY ExportedAgrees DEF BaseInv, PublishInv, ExportedLevelsAgree
<1>2. QED  BY <1>1, InitBase, StepBase, PTL DEF Spec
-----------------------------------------------------------------------------
(* The filter follows the configuration.                                      *)

(* Reaching a raw level is reaching the level it is parsed to.               *)
LEMMA ReachesLevel ==
  ASSUME NEW raw \in RawLevel, NEW level \in CanonicalLevels \ {STATUS}
  PROVE  Reaches(level, raw) <=> level >= ParseLevel(raw)
<1>1. raw.digits \in BOOLEAN /\ raw.value \in Nat  BY DEF RawLevel
<1>2. level >= ClampCanonicalLevel(raw.value) <=> level >= raw.value
  BY <1>1, ClampKeepsFilter
<1>3. QED  BY <1>2 DEF Reaches, ParseLevel

(* The level a message is compared with is the one its id is to have.          *)
LEMMA EffectiveIsWanted ==
  ASSUME TypeInv, Loaded, NEW m \in Message, m.level \in CanonicalLevels \ {STATUS},
         Unambiguous(m.id)
  PROVE  m.level >= EffectiveLevel(m.id) <=> Wanted(m)
<1> DEFINE id == m.id
           key == FirstKey(id)
<1>1. id \in Ids  BY DEF Message
<1>2. world \in World  BY WorldType DEF TypeInv
<1>3. CASE Entries(id) = {}
  <2>1. \A k : id \notin EnvVarIdents(k)  BY <1>3, KeyHasEntry
  <2>2. ConfiguredFor(id) = {}  BY <1>3, <2>1 DEF ConfiguredFor
  <2>3. id # NgenId  BY <1>3, RegistryAssumption
  <2>4. QED  BY <1>3, <2>2, <2>3 DEF Wanted, EffectiveLevel
<1>4. CASE Entries(id) # {} /\ ~ConfigLoaded
  <2>1. ConfiguredFor(id) = {world.defaultLevel}  BY <1>4 DEF ConfiguredFor
  <2>2. EffectiveLevel(id) = ParseLevel(world.defaultLevel)
    <3>1. key \in Keys /\ key \in RegistryKeys  BY <1>1, <1>4, FirstKeyType
    <3>2. /\ logger.levels[key] = ParseLevel(world.defaultLevel)
          /\ ParseLevel(world.defaultLevel) \in CanonicalLevels
      BY <1>4, <3>1, LoadedLevels
    <3>3. logger.levels[key] # Absent  BY <3>2, CanonicalPresent
    <3>4. QED  BY <1>4, <3>2, <3>3 DEF EffectiveLevel
  <2>3. world.defaultLevel \in RawLevel  BY <1>2 DEF World
  <2>4. QED  BY <2>1, <2>2, <2>3, ReachesLevel DEF Wanted
<1>5. CASE Entries(id) # {} /\ ConfigLoaded
  <2>1. key \in Keys /\ id \in EnvVarIdents(key)  BY <1>1, <1>5, FirstKeyType
  <2>2. world.listed \subseteq Keys  BY <1>2 DEF World
  <2>3. CASE key \in world.listed
    <3>1. {j \in world.listed : id \in EnvVarIdents(j)} = {key}
      BY <1>5, <2>1, <2>3 DEF Unambiguous
    <3>2. ConfiguredFor(id) = {world.modules[key]}
      BY <1>5, <3>1 DEF ConfiguredFor
    <3>3. logger.levels[key] = ParseLevel(world.modules[key]) /\ logger.levels[key] # Absent
      BY <1>5, <2>1, <2>3, LoadedLevels, CanonicalPresent
    <3>4. EffectiveLevel(id) = ParseLevel(world.modules[key])
      BY <1>5, <3>3 DEF EffectiveLevel
    <3>5. world.modules[key] \in RawLevel  BY <1>2, <2>1 DEF World
    <3>6. QED  BY <3>2, <3>4, <3>5, ReachesLevel DEF Wanted
  <2>4. CASE key \notin world.listed
    <3>1. {j \in world.listed : id \in EnvVarIdents(j)} = {}
      BY <1>5, <2>1, <2>4 DEF Unambiguous
    <3>2. ConfiguredFor(id) = {}  BY <1>5, <3>1 DEF ConfiguredFor
    <3>3. logger.levels[key] = (IF key = NgenKey THEN INFO ELSE Absent)
      BY <1>5, <2>1, <2>4, LoadedLevels
    <3>4. id = NgenId => key = NgenKey  BY RegistryAssumption
    <3>5. EffectiveLevel(id) = INFO
      BY <1>5, <3>3, <3>4 DEF EffectiveLevel, INFO, Absent
    <3>6. QED  BY <3>2, <3>5 DEF Wanted
  <2>5. QED  BY <2>3, <2>4
<1>6. QED  BY <1>3, <1>4, <1>5

(* The level of ngen itself is that of its id.                               *)
LEMMA OwnLevelEffective ==
  ASSUME TypeInv, Loaded
  PROVE  logger.level = EffectiveLevel(NgenId)
BY RegistryAssumption DEF Loaded, EffectiveLevel

(* Both filters a call goes through are the same one.                         *)
LEMMA PassesIsReaching ==
  ASSUME TypeInv, Loaded, NEW t \in Threads, NEW m \in Sends[t]
  PROVE  /\ PassesFilter(m) <=> m.level >= EffectiveLevel(m.id)
         /\ PassesFilter(m) => PassesPrefilter(m)
<1>1. m.api = "LogNgenF" => m.id = NgenId  BY ConstantsAssumption
<1>2. QED  BY <1>1, OwnLevelEffective DEF PassesFilter, PassesPrefilter

(* No level is above STATUS, so that a STATUS message passes.                  *)
LEMMA EffectiveBelowStatus ==
  ASSUME TypeInv, NEW id \in Ids
  PROVE  EffectiveLevel(id) \in CanonicalLevels /\ logger.level \in CanonicalLevels
<1>1. logger \in LoggerSettings  BY DEF TypeInv, TypeOK
<1>2. logger.level \in CanonicalLevels  BY <1>1 DEF LoggerSettings
<1>3. Entries(id) # {} => logger.levels[FirstKey(id)] \in Level
  BY <1>1, FirstKeyType DEF LoggerSettings
<1>4. INFO \in CanonicalLevels  BY DEF CanonicalLevels
<1>5. QED  BY <1>2, <1>3, <1>4 DEF EffectiveLevel, Level

(* What FollowsConfiguration says of one return.                              *)
Follows(m, path) ==
  /\ path = "disabled" <=> ~LoggingWanted
  /\ LoggingWanted /\ ~IsStatus(m) /\ m.level \in CanonicalLevels /\ Unambiguous(m.id)
       => (path = "filtered" <=> ~Wanted(m))
  /\ LoggingWanted /\ IsStatus(m) => path \in {"payload", "dropped"}

(* Who writes has passed the filter.                                        *)
FollowInv ==
  /\ FollowsConfiguration
  /\ \A t \in Threads : pc[t] \in Writing => PassesFilter(call[t])

(* What the configuration says does not change.                              *)
LEMMA FollowsStable ==
  ASSUME UNCHANGED world, \A r \in returned' : Follows(r.msg, r.path)
  PROVE  FollowsConfiguration'
<1>1. /\ ConfigLoaded' <=> ConfigLoaded
      /\ LoggingWanted' <=> LoggingWanted
  BY DEF ConfigLoaded, LoggingWanted
<1>2. \A id : ConfiguredFor(id)' = ConfiguredFor(id) /\ (Unambiguous(id)' <=> Unambiguous(id))
  BY <1>1 DEF ConfiguredFor, Unambiguous, ConfigLoaded
<1>3. \A m : Wanted(m)' <=> Wanted(m)
  BY <1>2 DEF Wanted
<1>4. QED  BY <1>1, <1>2, <1>3 DEF FollowsConfiguration, Follows

(* A return that follows it joins those that did.                            *)
LEMMA ReturnFollows ==
  ASSUME BaseInv, RouteInv, NEW t \in Threads, pc[t] # "idle", NEW path, Return(t, path),
         UNCHANGED world, FollowsConfiguration, Follows(call[t], path)
  PROVE  FollowsConfiguration'
<1>1. \A r \in returned' : r \in returned \/ (r.msg = call[t] /\ r.path = path)
  BY DEF Return
<1>2. \A r \in returned' : Follows(r.msg, r.path)
  BY <1>1 DEF FollowsConfiguration, Follows
<1>3. QED  BY <1>2, FollowsStable

(* A call is discarded when logging is off or the level is too low.          *)
LEMMA DiscardFollows ==
  ASSUME BaseInv, RouteInv, FollowsConfiguration, NEW t \in Threads, Discard(t)
  PROVE  FollowsConfiguration'
<1> DEFINE m == call[t]
<1>1. /\ RoutedRight(t) /\ pc[t] = "decide" /\ once = "done" /\ m \in Sends[t] /\ m \in Message
      /\ UNCHANGED world
  BY ConstantsAssumption
  DEF RouteInv, RoutedRight, AfterOnceOnly, Discard, BaseInv, TypeInv, TypeOK
<1>2. Loaded /\ TypeInv  BY <1>1 DEF BaseInv, PublishInv
<1>3. logger.enabled = LoggingWanted  BY <1>2 DEF Loaded
<1>4. CASE ~logger.enabled
  <2>1. Return(t, "disabled")  BY <1>4 DEF Discard
  <2>2. Follows(m, "disabled")  BY <1>3, <1>4 DEF Follows
  <2>3. QED  BY <1>1, <2>1, <2>2, ReturnFollows
<1>5. CASE logger.enabled
  <2>1. /\ Return(t, "filtered")
        /\ ~PassesPrefilter(m) \/ (~Diverted(m) /\ ~PassesFilter(m))
    BY <1>5 DEF Discard
  <2>2. ~PassesFilter(m)  BY <1>1, <1>2, <2>1, PassesIsReaching
  <2>3. m.level # STATUS
    <3>1. SUFFICES ASSUME m.level = STATUS PROVE FALSE  OBVIOUS
    <3>2. /\ EffectiveLevel(m.id) \in CanonicalLevels /\ logger.level \in CanonicalLevels
      BY <1>1, <1>2, EffectiveBelowStatus DEF Message
    <3>3. PassesPrefilter(m)
      BY <3>1, <3>2, CanonicalPresent DEF PassesPrefilter, STATUS
    <3>4. QED  BY <2>1, <3>1, <3>3 DEF Diverted
  <2>4. ~IsStatus(m)
    BY <1>1, <2>3 DEF RoutedRight, Deciding, EntryPoint, IsStatus
  <2>5. m.level \in CanonicalLevels /\ Unambiguous(m.id) => ~Wanted(m)
    BY <1>1, <1>2, <2>2, <2>3, PassesIsReaching, EffectiveIsWanted
  <2>6. Follows(m, "filtered")  BY <1>3, <1>5, <2>4, <2>5 DEF Follows
  <2>7. QED  BY <1>1, <2>1, <2>6, ReturnFollows
<1>6. QED  BY <1>4, <1>5

(* A call that is written was to be written.                                 *)
LEMMA WriteFollows ==
  ASSUME BaseInv, RouteInv, FollowInv, NEW t \in Threads, Write(t)
  PROVE  FollowsConfiguration'
<1> DEFINE m == call[t]
<1>1. /\ RoutedRight(t) /\ pc[t] \in Writing /\ once = "done" /\ m \in Sends[t]
      /\ m \in Message /\ UNCHANGED world /\ PassesFilter(m)
  BY ConstantsAssumption
  DEF RouteInv, RoutedRight, AfterOnceOnly, Writing, Write, LockSplit, WriteSplitLine,
      UnlockSplit, InsertUnified, PrintLine, ReturnPlain, BaseInv, TypeInv, TypeOK, FollowInv
<1>2. Loaded /\ TypeInv  BY <1>1 DEF BaseInv, PublishInv
<1>3. LoggingWanted = TRUE /\ ~IsStatus(m)
  BY <1>1, <1>2 DEF Loaded, RoutedRight
<1>4. m.level # STATUS  BY <1>3 DEF IsStatus
<1>5. m.level \in CanonicalLevels /\ Unambiguous(m.id) => Wanted(m)
  BY <1>1, <1>2, <1>4, PassesIsReaching, EffectiveIsWanted
<1>6. \A path \in {"split", "unified", "stdout"} : Follows(m, path)
  BY <1>3, <1>5 DEF Follows
<1>7. \/ UNCHANGED returned
      \/ \E path \in {"split", "unified", "stdout"} : Return(t, path)
  BY DEF Write, LockSplit, WriteSplitLine, UnlockSplit, InsertUnified, PrintLine, ReturnPlain
<1>8. CASE UNCHANGED returned
  BY <1>1, <1>8, FollowsStable DEF FollowInv, FollowsConfiguration, Follows
<1>9. CASE \E path \in {"split", "unified", "stdout"} : Return(t, path)
  BY <1>1, <1>6, <1>9, ReturnFollows DEF FollowInv, Writing
<1>10. QED  BY <1>7, <1>8, <1>9

(* A payload is recorded or dropped unless logging is off.                   *)
LEMMA PayloadFollows ==
  ASSUME BaseInv, RouteInv, FollowInv, NEW t \in Threads, Payload(t)
  PROVE  FollowsConfiguration'
<1> DEFINE m == call[t]
<1>1. RoutedRight(t) /\ UNCHANGED world /\ pc[t] # "idle"
  BY DEF RouteInv, Payload, CheckPayloadFile, BeginOpenPayload, EndOpenPayload,
         ConfirmPayloadFile, WritePayload
<1>2. IsStatus(m)
  BY <1>1 DEF RoutedRight, Reporting, Payload, CheckPayloadFile, BeginOpenPayload,
              EndOpenPayload, ConfirmPayloadFile, WritePayload
<1>3. \/ UNCHANGED returned
      \/ ~logger.enabled /\ once = "done" /\ Return(t, "disabled")
      \/ logger.enabled /\ once = "done" /\ \E path \in {"payload", "dropped"} : Return(t, path)
  BY <1>1 DEF Payload, CheckPayloadFile, BeginOpenPayload, EndOpenPayload, ConfirmPayloadFile,
              WritePayload, RoutedRight, AfterOnceOnly
<1>4. once = "done" => logger.enabled = LoggingWanted
  BY DEF BaseInv, PublishInv, Loaded
<1>5. CASE UNCHANGED returned
  BY <1>1, <1>5, FollowsStable DEF FollowInv, FollowsConfiguration, Follows
<1>6. CASE ~logger.enabled /\ once = "done" /\ Return(t, "disabled")
  <2>1. Follows(m, "disabled")  BY <1>4, <1>6 DEF Follows
  <2>2. QED  BY <1>1, <1>6, <2>1, ReturnFollows DEF FollowInv
<1>7. CASE /\ logger.enabled /\ once = "done"
           /\ \E path \in {"payload", "dropped"} : Return(t, path)
  <2>1. \A path \in {"payload", "dropped"} : Follows(m, path)
    BY <1>2, <1>4, <1>7 DEF Follows
  <2>2. QED  BY <1>1, <1>7, <2>1, ReturnFollows DEF FollowInv
<1>8. QED  BY <1>3, <1>5, <1>6, <1>7

(* FollowInv is inductive.                                                   *)
LEMMA StepFollow == BaseInv /\ RouteInv /\ FollowInv /\ [Next]_vars => FollowInv'
<1> SUFFICES ASSUME BaseInv, RouteInv, FollowInv, [Next]_vars PROVE FollowInv'  OBVIOUS
<1>1. UNCHANGED returned => FollowsConfiguration'
  <2>1. world' = world
    BY DEF Next, Finished, FsChange, Call, Work, InitIfNeeded, Initialise, ClearEnvVars,
           LoadSettings, ExportEnvVars, SetupLogFile, Route, Discard, DivertStatus, Accept, Write,
           LockSplit, WriteSplitLine, UnlockSplit, InsertUnified, PrintLine, ReturnPlain, Payload,
           CheckPayloadFile, BeginOpenPayload, EndOpenPayload, ConfirmPayloadFile, WritePayload,
           vars
  <2>2. QED  BY <2>1, FollowsStable DEF FollowInv, FollowsConfiguration, Follows
<1>2. FollowsConfiguration'
  <2>1. ASSUME NEW t \in Threads, Call(t) \/ InitIfNeeded(t) \/ Initialise(t) \/ DivertStatus(t)
                                   \/ Accept(t)
        PROVE  UNCHANGED returned
    BY <2>1 DEF Call, InitIfNeeded, Initialise, ClearEnvVars, LoadSettings, ExportEnvVars,
                SetupLogFile, DivertStatus, Accept
  <2>2. CASE FsChange \/ UNCHANGED vars  BY <1>1, <2>2 DEF FsChange, vars
  <2>3. QED
    BY <1>1, <2>1, <2>2, DiscardFollows, WriteFollows, PayloadFollows
    DEF Next, Work, Route, Finished, FollowInv
<1>3. ASSUME NEW u \in Threads, pc'[u] \in Writing PROVE PassesFilter(call[u])'
  <2>1. \/ pc[u] \in Writing /\ call'[u] = call[u]
        \/ PassesFilter(call[u]) /\ pc[u] = "decide" /\ call'[u] = call[u]
    <3>1. ASSUME NEW t \in Threads, Call(t) \/ Work(t)
          PROVE  \/ u # t /\ pc'[u] = pc[u] /\ call'[u] = call[u]
                 \/ u = t /\ pc[u] \in Writing /\ call'[u] = call[u]
                 \/ u = t /\ PassesFilter(call[u]) /\ pc[u] = "decide" /\ call'[u] = call[u]
      <4>1. CASE Call(t)
        BY <1>3, <4>1 DEF Call, EntryPoint, Goto, Writing, BaseInv, TypeInv, TypeOK
      <4>2. CASE InitIfNeeded(t) \/ Initialise(t)
        BY <1>3, <4>2 DEF InitIfNeeded, AfterOnce, Initialise, ClearEnvVars, LoadSettings,
           ExportEnvVars, SetupLogFile, Goto, Writing, BaseInv, TypeInv, TypeOK
      <4>3. CASE Route(t)
        BY <1>3, <4>3 DEF Route, Discard, DivertStatus, Accept, Return, Goto, Writing,
           BaseInv, TypeInv, TypeOK
      <4>4. CASE Write(t)
        BY <1>3, <4>4 DEF Write, LockSplit, WriteSplitLine, UnlockSplit, InsertUnified,
           PrintLine, ReturnPlain, Return, Goto, Writing, BaseInv, TypeInv, TypeOK
      <4>5. CASE Payload(t)
        BY <1>3, <4>5 DEF Payload, CheckPayloadFile, BeginOpenPayload, EndOpenPayload,
           ConfirmPayloadFile, WritePayload, Return, Goto, Writing, BaseInv, TypeInv, TypeOK
      <4>6. QED  BY <3>1, <4>1, <4>2, <4>3, <4>4, <4>5 DEF Work
    <3>2. CASE FsChange \/ UNCHANGED vars  BY <1>3, <3>2 DEF FsChange, vars
    <3>3. QED  BY <1>3, <3>1, <3>2 DEF Next, Finished
  <2>2. once = "done" /\ RoutedRight(u)
    BY <2>1 DEF RouteInv, RoutedRight, AfterOnceOnly
  <2>3. logger' = logger  BY <2>2, SettingsChange DEF BaseInv, settings
  <2>4. PassesFilter(call[u])  BY <2>1 DEF FollowInv
  <2>5. QED
    BY <2>1, <2>3, <2>4 DEF PassesFilter, PassesPrefilter, EffectiveLevel
<1>4. QED  BY <1>2, <1>3 DEF FollowInv

(* Every call that returned was filtered exactly when the configuration says  *)
(* so of its id, and a STATUS message never was (FollowsConfiguration), for    *)
(* every registry, file and number of threads: the keys of the map, the first  *)
(* entry of the registry, the rounding of numbers and the two filters agree.   *)
THEOREM FollowsConfigurationAlways == Spec => []FollowsConfiguration
<1>1. Init => BaseInv /\ RouteInv /\ FollowInv
  BY InitBase, InitRoute DEF Init, FollowInv, FollowsConfiguration, Writing
<1>2. BaseInv /\ RouteInv /\ FollowInv /\ [Next]_vars => (BaseInv /\ RouteInv /\ FollowInv)'
  BY StepBase, StepRoute, StepFollow
<1>3. FollowInv => FollowsConfiguration  BY DEF FollowInv
<1>4. QED  BY <1>1, <1>2, <1>3, PTL DEF Spec
-----------------------------------------------------------------------------
(* Every line once, where the file system works.                              *)

(* The pieces of one call in a log.                                          *)
Indices(log, by, n) == {i \in DOMAIN log : log[i].by = by /\ log[i].n = n}
Place(p) == <<p.line, p.part>>
PlacesAt(log, is) == {Place(log[i]) : i \in is}
NoPlaceTwice(log, is) == \A i, j \in is : Place(log[i]) = Place(log[j]) => i = j

(* What the current call of t has left in s so far.                           *)
Own(t, s) == Indices(out[s], t, calls[t])
Destination(t) == IF pc[t] = "split" THEN call[t].id ELSE pc[t]

(* The insertions of its message that t has gone through.                     *)
PartsBefore(next) ==
  CASE next = "head" -> {} [] next = "text" -> {"head"} [] next = "end" -> {"head", "text"}
GoneParts(t) ==
  {x \in call[t].lines \X {"head", "text", "end"} :
     x[1] \notin todo[t] \/ (NextLine(t, x[1]) /\ x[2] \in PartsBefore(part[t]))}
Gone(t) == IF pc[t] = "unified" THEN GoneParts(t) ELSE (call[t].lines \ todo[t]) \X {"line"}

Inserting == {"split", "unified", "stdout"}

(* Of these nothing is there twice, and nothing is missing unless another     *)
(* thread has been writing to the unified file as well.                     *)
Inserted(t, log) ==
  /\ PlacesAt(log, Indices(log, t, calls[t])) \subseteq Gone(t)
  /\ NoPlaceTwice(log, Indices(log, t, calls[t]))
  /\ pc[t] # "unified" \/ OnlyUser(t) => PlacesAt(log, Indices(log, t, calls[t])) = Gone(t)

Halfway(t) ==
  /\ pc[t] \in Writing => todo[t] \subseteq call[t].lines
  /\ pc[t] = "lock" => todo[t] = call[t].lines
  /\ pc[t] # "unified" \/ todo[t] = {} => part[t] = "head"
  /\ pc[t] \in Inserting => Inserted(t, out[Destination(t)])
  /\ \A s \in Sinks :
       pc[t] # "idle" /\ (s # Destination(t) \/ pc[t] \notin Inserting) => Own(t, s) = {}

(* A call that returned adds nothing any more.                                *)
Settled(r) == r.n < calls[r.by] \/ (r.n = calls[r.by] /\ pc[r.by] = "idle")

DeliveredTo(r, log) ==
  LET is == Indices(log, r.by, r.n) IN
  /\ PlacesAt(log, is) \subseteq InsertionsOf(r)
  /\ NoPlaceTwice(log, is)
  /\ r.path \in {"split", "stdout"} \/ (r.path = "unified" /\ OnlyUser(r.by))
       => PlacesAt(log, is) = InsertionsOf(r)

Delivered(r, s) ==
  IF s # SinkOf(r) THEN Indices(out[s], r.by, r.n) = {} ELSE DeliveredTo(r, out[s])

(* No stream fails.                                                         *)
FilesWork ==
  /\ fs = "ok"
  /\ \A id \in Ids : splitFiles[id] \in {"none", "good"}
  /\ logFile \in {"closed", "good"} /\ (once # "done" => logFile = "closed")
  /\ \A t \in Threads : pc[t] = "split" => splitFiles[call[t].id] = "good"
  /\ \A t \in Threads : pc[t] = "unified" => logFile = "good"

DeliveryInv ==
  /\ FilesWork
  /\ \A t \in Threads : Halfway(t)
  /\ \A r \in returned : Settled(r)
  /\ \A s \in Sinks : \A i \in DOMAIN out[s] : out[s][i].n <= calls[out[s][i].by]
  /\ \A r \in returned : \A s \in Sinks : Delivered(r, s)

(* Delivered and LeftIn are the same.                                         *)
LEMMA AllDelivered == (\A r \in returned : \A s \in Sinks : Delivered(r, s)) <=> DeliveredOnce
<1>1. ASSUME NEW r, NEW s PROVE Delivered(r, s) <=> LeftIn(r, s)
  <2> DEFINE pieces == PiecesOf(r, s)
  <2>1. pieces = Indices(out[s], r.by, r.n)  BY DEF PiecesOf, Indices
  <2>2. {<<out[s][i].line, out[s][i].part>> : i \in pieces} = PlacesAt(out[s], pieces)
    BY DEF PlacesAt, Place
  <2>3. NoPlaceTwice(out[s], pieces) <=>
          \A i, j \in pieces :
            out[s][i].line = out[s][j].line /\ out[s][i].part = out[s][j].part => i = j
    BY DEF NoPlaceTwice, Place
  <2>4. QED  BY <2>1, <2>2, <2>3 DEF Delivered, DeliveredTo, LeftIn
<1>2. QED  BY <1>1 DEF DeliveredOnce

(* Files that work keep working.                                             *)
LEMMA StepFiles ==
  ASSUME ~FsMayFail, TypeInv, OnceInv, FilesWork, [Next]_vars
  PROVE  FilesWork'
<1>1. CASE UNCHANGED vars  BY <1>1 DEF FilesWork, vars, streams
<1>2. ASSUME NEW t \in Threads, Call(t) \/ InitIfNeeded(t) \/ ClearEnvVars(t) \/ LoadSettings(t)
                                \/ ExportEnvVars(t) \/ Discard(t) \/ DivertStatus(t) \/ Payload(t)
      PROVE  FilesWork'
  <2>1. /\ UNCHANGED <<fs, splitFiles, logFile>>
        /\ \A u \in Threads : pc'[u] \in {"split", "unified"} => pc'[u] = pc[u] /\ call'[u] = call[u]
        /\ once = "done" => once' = "done"
    BY <1>2 DEF Call, EntryPoint, InitIfNeeded, AfterOnce, ClearEnvVars, LoadSettings, ExportEnvVars,
                Discard, DivertStatus, Payload, CheckPayloadFile, BeginOpenPayload, EndOpenPayload,
                ConfirmPayloadFile, WritePayload, Return, Goto, streams, TypeInv, TypeOK
  <2>2. once' # "done" => once # "done"  BY <2>1
  <2>3. QED  BY <2>1, <2>2 DEF FilesWork
<1>3. ASSUME NEW t \in Threads, SetupLogFile(t) PROVE FilesWork'
  <2>1. /\ once # "done" /\ once' = "done" /\ UNCHANGED <<fs, splitFiles, call>>
        /\ logFile' \in {logFile, Opened(logFile)} /\ pc'[t] \notin {"split", "unified"}
        /\ \A u \in Threads \ {t} : pc'[u] = pc[u]
    BY <1>3 DEF SetupLogFile, EntryPoint, AfterOnce, Goto, OnceInv, InsideOnce, TypeInv, TypeOK
  <2>2. logFile = "closed" /\ logFile' \in {"closed", "good"}  BY <2>1 DEF FilesWork, Opened
  <2>3. \A u \in Threads : pc[u] # "unified"  BY <2>2 DEF FilesWork
  <2>4. QED  BY <2>1, <2>2, <2>3 DEF FilesWork
<1>4. ASSUME NEW t \in Threads, Accept(t) \/ LockSplit(t) PROVE FilesWork'
  <2>1. call[t].id \in Ids  BY DEF Message, TypeInv, TypeOK
  <2>2. /\ UNCHANGED <<fs, logFile, once, call>> /\ \A u \in Threads \ {t} : pc'[u] = pc[u]
        /\ pc'[t] = "unified" => logFile = "good"
        /\ \/ splitFiles' = splitFiles /\ pc'[t] # "split"
           \/ splitFiles' = [splitFiles EXCEPT ![call[t].id] = "good"]
    BY <1>4, <2>1 DEF Accept, LockSplit, Plain, Opened, Goto, FilesWork, streams, TypeInv, TypeOK
  <2>3. splitFiles \in [Ids -> StreamStates \cup {"none"}]  BY DEF TypeInv, TypeOK
  <2>4. \A u \in Threads : call[u].id \in Ids  BY DEF Message, TypeInv, TypeOK
  <2>5. QED  BY <2>1, <2>2, <2>3, <2>4 DEF FilesWork
<1>5. ASSUME NEW t \in Threads, WriteSplitLine(t) \/ UnlockSplit(t) \/ InsertUnified(t)
                                \/ PrintLine(t) \/ ReturnPlain(t)
      PROVE  FilesWork'
  <2>1. /\ UNCHANGED <<fs, once, call>>
        /\ splitFiles' = splitFiles
        /\ logFile' = logFile
        /\ \A u \in Threads : pc'[u] \in {"split", "unified"} => pc'[u] = pc[u]
    BY <1>5 DEF WriteSplitLine, UnlockSplit, InsertUnified, PrintLine, ReturnPlain, AfterWrite, Return,
                Goto, FilesWork, streams, TypeInv, TypeOK
  <2>2. QED  BY <2>1 DEF FilesWork
<1>6. QED
  BY <1>1, <1>2, <1>3, <1>4, <1>5
  DEF Next, Work, Initialise, Route, Write, FsChange, Finished

(* Who was there alone is told from who else was there before.                 *)
LEMMA AloneBefore ==
  ASSUME NEW t \in Threads, NEW by \in Threads,
         \A u \in Threads \ {t} : pc'[u] = pc[u],
         returned \subseteq returned',
         pc[t] = "unified" => pc'[t] = "unified"
                               \/ \E r \in returned' : r.by = t /\ r.path = "unified"
  PROVE  OnlyUser(by)' => OnlyUser(by)
<1>1. \A u \in Threads : UsedUnified(u) => UsedUnified(u)'  BY DEF UsedUnified
<1>2. QED  BY <1>1 DEF OnlyUser

(* Appending a piece of another call, or emptying a log, leaves the pieces of a *)
(* call as they are, or takes them all.                                      *)
LEMMA IndicesOther ==
  ASSUME NEW log \in Seq(Pieces), NEW p \in Pieces, NEW by \in Threads, NEW n \in Nat,
         ~(p.by = by /\ p.n = n)
  PROVE  /\ Indices(Append(log, p), by, n) = Indices(log, by, n)
         /\ \A i \in Indices(log, by, n) : Append(log, p)[i] = log[i]
<1> DEFINE new == Append(log, p)
<1>1. /\ Len(log) \in Nat /\ DOMAIN log = 1..Len(log) /\ DOMAIN new = 1 .. Len(log) + 1
      /\ new[Len(log) + 1] = p /\ \A i \in 1..Len(log) : new[i] = log[i]
  OBVIOUS
<1>2. QED
  <2> HIDE DEF new
  <2>1. \A i \in DOMAIN new :
          new[i].by = by /\ new[i].n = n <=> i \in DOMAIN log /\ log[i].by = by /\ log[i].n = n
    BY <1>1
  <2>2. DOMAIN log \subseteq DOMAIN new  BY <1>1
  <2>3. Indices(new, by, n) = Indices(log, by, n)  BY <2>1, <2>2 DEF Indices
  <2>4. \A i \in Indices(log, by, n) : new[i] = log[i]  BY <1>1 DEF Indices
  <2>5. QED  BY <2>3, <2>4 DEF new

(* One of its own adds its place.                                           *)
LEMMA IndicesOwn ==
  ASSUME NEW log \in Seq(Pieces), NEW p \in Pieces
  PROVE  /\ PlacesAt(Append(log, p), Indices(Append(log, p), p.by, p.n))
              = PlacesAt(log, Indices(log, p.by, p.n)) \cup {Place(p)}
         /\ (Place(p) \notin PlacesAt(log, Indices(log, p.by, p.n))
             /\ NoPlaceTwice(log, Indices(log, p.by, p.n)))
              => NoPlaceTwice(Append(log, p), Indices(Append(log, p), p.by, p.n))
<1> DEFINE new == Append(log, p)
           old == Indices(log, p.by, p.n)
           last == Len(log) + 1
<1>1. /\ Len(log) \in Nat /\ DOMAIN log = 1..Len(log) /\ DOMAIN new = 1..last
      /\ new[last] = p /\ \A i \in 1..Len(log) : new[i] = log[i]
  OBVIOUS
<1>2. Indices(new, p.by, p.n) = old \cup {last} /\ last \notin old
      /\ \A i \in old : new[i] = log[i]
  <2> HIDE DEF new
  <2>1. DOMAIN new = DOMAIN log \cup {last} /\ last \notin DOMAIN log  BY <1>1
  <2>2. QED  BY <1>1, <2>1 DEF Indices
<1>3. PlacesAt(new, old \cup {last}) = PlacesAt(log, old) \cup {Place(p)}
  <2> HIDE DEF new, old, last
  <2>1. QED  BY <1>1, <1>2 DEF PlacesAt
<1>4. ASSUME Place(p) \notin PlacesAt(log, old), NoPlaceTwice(log, old)
      PROVE  NoPlaceTwice(new, old \cup {last})
  <2> HIDE DEF new, old, last
  <2>1. \A i \in old : Place(new[i]) # Place(p)  BY <1>2, <1>4 DEF PlacesAt
  <2>2. QED  BY <1>1, <1>2, <1>4, <2>1 DEF NoPlaceTwice
<1>5. QED
  <2> HIDE DEF new, old, last
  <2>1. /\ PlacesAt(new, Indices(new, p.by, p.n)) = PlacesAt(log, old) \cup {Place(p)}
        /\ (Place(p) \notin PlacesAt(log, old) /\ NoPlaceTwice(log, old))
             => NoPlaceTwice(new, Indices(new, p.by, p.n))
    BY <1>2, <1>3, <1>4
  <2>2. QED  BY <2>1 DEF new, old

(* What a step of t does to a destination.                                    *)
Touches(t, s) ==
  \/ out'[s] = out[s]
  \/ s = "payload" /\ out'[s] = <<>>
  \/ pc[t] # "idle" /\ \E p \in Pieces : p.by = t /\ p.n = calls[t] /\ out'[s] = Append(out[s], p)

(* Such a step takes all the pieces of another call, or none.                *)
LEMMA TouchedOther ==
  ASSUME TypeInv, NEW t \in Threads, NEW s \in Sinks, Touches(t, s),
         NEW by \in Threads, NEW n \in Nat,
         ~(by = t /\ n = calls[t] /\ pc[t] # "idle")
  PROVE  \/ s = "payload" /\ Indices(out'[s], by, n) = {}
         \/ /\ Indices(out'[s], by, n) = Indices(out[s], by, n)
            /\ \A i \in Indices(out[s], by, n) : out'[s][i] = out[s][i]
<1>1. out[s] \in Seq(Pieces)  BY DEF TypeInv, TypeOK
<1>2. CASE out'[s] = out[s]  BY <1>2
<1>3. CASE s = "payload" /\ out'[s] = <<>>  BY <1>3 DEF Indices
<1>4. ASSUME NEW p \in Pieces, pc[t] # "idle", p.by = t, p.n = calls[t],
             out'[s] = Append(out[s], p)
      PROVE  /\ Indices(out'[s], by, n) = Indices(out[s], by, n)
             /\ \A i \in Indices(out[s], by, n) : out'[s][i] = out[s][i]
  <2>1. ~(p.by = by /\ p.n = n)  BY <1>4
  <2>2. /\ Indices(Append(out[s], p), by, n) = Indices(out[s], by, n)
        /\ \A i \in Indices(out[s], by, n) : Append(out[s], p)[i] = out[s][i]
    BY <1>1, <2>1, IndicesOther
  <2>3. QED  BY <1>4, <2>2
<1>5. QED  BY <1>2, <1>3, <1>4 DEF Touches

(* What is said of the places depends on the pieces only.                      *)
LEMMA SamePlaces ==
  ASSUME NEW log, NEW new, NEW is, \A i \in is : new[i] = log[i]
  PROVE  PlacesAt(new, is) = PlacesAt(log, is) /\ (NoPlaceTwice(new, is) <=> NoPlaceTwice(log, is))
BY DEF PlacesAt, NoPlaceTwice

(* What a step of t leaves to the other threads.                               *)
Others(t) ==
  /\ \A u \in Threads \ {t} : /\ pc'[u] = pc[u] /\ call'[u] = call[u] /\ calls'[u] = calls[u]
                              /\ todo'[u] = todo[u] /\ part'[u] = part[u]
  /\ returned \subseteq returned'
  /\ pc[t] = "unified" =>
       pc'[t] = "unified" \/ \E r \in returned' : r.by = t /\ r.path = "unified"

(* A call that returned stays delivered.                                     *)
LEMMA DeliveredKept ==
  ASSUME TypeInv, NEW t \in Threads, NEW s \in Sinks, Touches(t, s), Others(t), NEW r \in returned,
         Settled(r), Delivered(r, s)
  PROVE  Delivered(r, s)'
<1>1. r \in Returns  BY DEF TypeInv, TypeOK
<1>2. ~(r.by = t /\ r.n = calls[t] /\ pc[t] # "idle")
  BY <1>1 DEF Settled, Returns, TypeInv, TypeOK
<1>3. r.by \in Threads /\ r.n \in Nat  BY <1>1 DEF Returns
<1>4. OnlyUser(r.by)' => OnlyUser(r.by)  BY <1>3, AloneBefore DEF Others
<1>5. CASE s = "payload" /\ Indices(out'[s], r.by, r.n) = {}
  <2>1. "payload" \notin Ids  BY ConstantsAssumption
  <2>2. r.path = "split" => SinkOf(r) \in Ids  BY <1>1 DEF SinkOf, Returns, Message
  <2>3. s = SinkOf(r) => r.path = "payload"  BY <1>5, <2>1, <2>2 DEF SinkOf
  <2>4. s = SinkOf(r) => DeliveredTo(r, out[s])'
    BY <1>5, <2>3 DEF DeliveredTo, PlacesAt, NoPlaceTwice
  <2>5. QED  BY <1>5, <2>4 DEF Delivered, SinkOf
<1>6. CASE /\ Indices(out'[s], r.by, r.n) = Indices(out[s], r.by, r.n)
           /\ \A i \in Indices(out[s], r.by, r.n) : out'[s][i] = out[s][i]
  <2> DEFINE is == Indices(out[s], r.by, r.n)
  <2>1. /\ PlacesAt(out'[s], is) = PlacesAt(out[s], is)
        /\ (NoPlaceTwice(out'[s], is) <=> NoPlaceTwice(out[s], is))
    BY <1>6, SamePlaces
  <2>2. DeliveredTo(r, out[s]) => DeliveredTo(r, out[s])'
    BY <1>4, <1>6, <2>1 DEF DeliveredTo, InsertionsOf, RecordKind
  <2>3. QED  BY <1>6, <2>2 DEF Delivered, SinkOf
<1>7. QED  BY <1>2, <1>3, <1>5, <1>6, TouchedOther

(* A thread in a call keeps what it has written, whatever another one does.     *)
LEMMA PartialKept ==
  ASSUME TypeInv, NEW t \in Threads, \A s \in Sinks : Touches(t, s), Others(t),
         NEW u \in Threads \ {t}, Halfway(u)
  PROVE  Halfway(u)'
<1>1. /\ call[u].id \in Ids /\ Destination(u)' = Destination(u)
      /\ pc[u] \in Inserting => Destination(u) \in Sinks \ {"payload"}
      /\ Gone(u)' = Gone(u)
  BY ConstantsAssumption
  DEF Others, Message, Destination, Sinks, Inserting, Gone, GoneParts, NextLine, TypeInv, TypeOK
<1>2. calls[u] \in Nat /\ calls'[u] = calls[u]
      /\ \A s : Own(u, s)' = Indices(out'[s], u, calls[u])
  BY ConstantsAssumption DEF Others, Own, TypeInv, TypeOK
<1>3. ASSUME NEW s \in Sinks, Own(u, s) = {} PROVE Own(u, s)' = {}
  <2>1. Indices(out'[s], u, calls[u]) = {} \/ Indices(out'[s], u, calls[u]) = Own(u, s)
    BY <1>2, <1>3, TouchedOther DEF Own
  <2>2. QED  BY <1>2, <1>3, <2>1
<1>4. ASSUME NEW s \in Sinks, s # "payload", Inserted(u, out[s]) PROVE Inserted(u, out[s])'
  <2> DEFINE is == Indices(out[s], u, calls[u])
  <2>1. Indices(out'[s], u, calls[u]) = is /\ \A i \in is : out'[s][i] = out[s][i]
    BY <1>2, <1>4, TouchedOther
  <2>2. /\ PlacesAt(out'[s], is) = PlacesAt(out[s], is)
        /\ (NoPlaceTwice(out'[s], is) <=> NoPlaceTwice(out[s], is))
    BY <2>1, SamePlaces
  <2>3. OnlyUser(u)' => OnlyUser(u)  BY AloneBefore DEF Others
  <2>4. pc'[u] = pc[u]  BY DEF Others
  <2>5. QED  BY <1>1, <1>2, <1>4, <2>1, <2>2, <2>3, <2>4 DEF Inserted
<1>5. pc[u] \in Inserting => Inserted(u, out[Destination(u)])'
  BY <1>1, <1>4 DEF Halfway
<1>6. pc'[u] = pc[u] /\ call'[u] = call[u] /\ todo'[u] = todo[u] /\ part'[u] = part[u]
  BY DEF Others
<1>7. QED  BY <1>1, <1>3, <1>5, <1>6 DEF Halfway

(* A step of t.                                                             *)
LEMMA DeliverStep ==
  ASSUME TypeInv, TypeInv', DeliveryInv, FilesWork', NEW t \in Threads, Others(t),
         calls'[t] = calls[t] \/ (pc[t] = "idle" /\ calls'[t] = calls[t] + 1),
         pc[t] = "idle" => calls'[t] = calls[t] + 1,
         \A s \in Sinks : Touches(t, s), Halfway(t)',
         \A r \in Returns :
           r \in returned' =>
             \/ r \in returned
             \/ /\ r.by = t /\ r.n = calls[t] /\ pc[t] # "idle" /\ pc'[t] = "idle"
                /\ \A s \in Sinks : Delivered(r, s)'
  PROVE  DeliveryInv'
<1>1. \A u \in Threads : Halfway(u)'
  BY PartialKept DEF DeliveryInv
<1>2. /\ returned \subseteq Returns /\ returned' \subseteq Returns
      /\ \A u \in Threads : calls[u] \in Nat /\ calls'[u] \in Nat
      /\ \A s \in Sinks : out[s] \in Seq(Pieces)
      /\ \A u \in Threads : calls[u] <= calls'[u]
  <2>1. /\ returned \subseteq Returns /\ returned' \subseteq Returns
        /\ \A s \in Sinks : out[s] \in Seq(Pieces)
    BY DEF TypeInv, TypeOK
  <2>2. \A u \in Threads : calls[u] \in Nat /\ calls'[u] \in Nat
    BY ConstantsAssumption DEF TypeInv, TypeOK
  <2>3. QED  BY <2>1, <2>2 DEF Others
<1>3. ASSUME NEW r \in Returns, r \in returned' PROVE Settled(r)'
  <2>1. r.by \in Threads /\ r.n \in Nat  BY DEF Returns
  <2>2. CASE r \in returned
    <3>1. Settled(r)  BY <2>2 DEF DeliveryInv
    <3>2. QED  BY <1>2, <2>1, <3>1 DEF Settled, Others
  <2>3. CASE r.by = t /\ r.n = calls[t] /\ pc[t] # "idle" /\ pc'[t] = "idle"
    BY <2>3 DEF Settled
  <2>4. QED  BY <1>3, <2>2, <2>3
<1>4. ASSUME NEW s \in Sinks, NEW i \in DOMAIN out'[s]
      PROVE  out'[s][i].n <= calls'[out'[s][i].by]
  <2>1. \A j \in DOMAIN out[s] : out[s][j] \in Pieces /\ out[s][j].n <= calls[out[s][j].by]
    BY <1>2 DEF DeliveryInv
  <2>2. \A j \in DOMAIN out[s] : out[s][j].n <= calls'[out[s][j].by]
    <3>1. \A j \in DOMAIN out[s] : out[s][j].by \in Threads /\ out[s][j].n \in Nat
      BY <2>1 DEF Pieces
    <3>2. QED  BY <1>2, <2>1, <3>1
  <2>3. ASSUME NEW p \in Pieces, p.by = t, p.n = calls[t], out'[s] = Append(out[s], p)
        PROVE  out'[s][i].n <= calls'[out'[s][i].by]
    <3>1. (i \in DOMAIN out[s] /\ out'[s][i] = out[s][i]) \/ out'[s][i] = p
      BY <1>2, <1>4, <2>3
    <3>2. QED  BY <1>2, <2>2, <2>3, <3>1
  <2>4. QED  BY <1>4, <2>2, <2>3 DEF Touches
<1>5. ASSUME NEW r \in Returns, r \in returned', NEW s \in Sinks PROVE Delivered(r, s)'
  <2>1. CASE r \in returned
    <3>1. Settled(r) /\ Delivered(r, s)  BY <2>1 DEF DeliveryInv
    <3>2. QED  BY <2>1, <3>1, DeliveredKept
  <2>2. QED  BY <1>5, <2>1
<1>6. /\ \A r \in returned' : Settled(r)'
      /\ \A r \in returned' : \A s \in Sinks : Delivered(r, s)'
  BY <1>2, <1>3, <1>5
<1>7. QED
  <2>1. FilesWork'  OBVIOUS
  <2>2. \A s \in Sinks : \A i \in DOMAIN out'[s] : out'[s][i].n <= calls'[out'[s][i].by]
    BY <1>4
  <2>3. QED  BY <1>1, <1>6, <2>1, <2>2 DEF DeliveryInv

(* What Return records.                                                     *)
LEMMA ReturnRecords ==
  ASSUME TypeInv, NEW t \in Threads, NEW path, Return(t, path)
  PROVE  /\ pc'[t] = "idle" /\ \A u \in Threads \ {t} : pc'[u] = pc[u]
         /\ returned \subseteq returned' /\ \E r \in returned' : r.by = t /\ r.path = path
         /\ \A r \in Returns :
              r \in returned' =>
                \/ r \in returned
                \/ r.by = t /\ r.n = calls[t] /\ r.msg = call[t] /\ r.path = path
<1> DEFINE new == [by |-> t, n |-> calls[t], msg |-> call[t], path |-> path]
<1>1. /\ new.by = t /\ new.n = calls[t] /\ new.msg = call[t] /\ new.path = path
  OBVIOUS
<1>2. returned' = returned \cup {new}  BY DEF Return
<1>3. /\ \E r \in returned' : r.by = t /\ r.path = path
      /\ \A r \in Returns :
           r \in returned' => \/ r \in returned
                              \/ r.by = t /\ r.n = calls[t] /\ r.msg = call[t] /\ r.path = path
  <2> HIDE DEF new
  <2>1. QED  BY <1>1, <1>2
<1>4. QED  BY <1>2, <1>3 DEF Return, Goto, TypeInv, TypeOK

(* A step of a thread that has written nothing of its call.                   *)
LEMMA QuietDeliver ==
  ASSUME TypeInv, TypeInv', DeliveryInv, FilesWork', NEW t \in Threads,
         pc[t] \notin Writing \cup {"idle"}, UNCHANGED <<call, calls, part>>, pc'[t] # "split",
         \A u \in Threads \ {t} : pc'[u] = pc[u] /\ todo'[u] = todo[u],
         pc'[t] \in Writing => todo'[t] = call[t].lines,
         \A s \in Sinks : out'[s] = out[s] \/ (s = "payload" /\ out'[s] = <<>>),
         returned \subseteq returned',
         \A r \in Returns :
           r \in returned' =>
             \/ r \in returned
             \/ /\ r.by = t /\ r.n = calls[t] /\ pc'[t] = "idle"
                /\ r.path \notin {"split", "unified", "stdout"}
  PROVE  DeliveryInv'
<1>1. \A s \in Sinks : Own(t, s) = {}
  BY DEF DeliveryInv, Halfway, Writing, Inserting
<1>2. \A s \in Sinks : Indices(out'[s], t, calls[t]) = {}
  BY <1>1 DEF Own, Indices
<1>3. part[t] = "head"  BY DEF DeliveryInv, Halfway, Writing
<1>4. Halfway(t)'
  <2>1. \A s \in Sinks : Own(t, s)' = {}  BY <1>2 DEF Own
  <2>2. CASE pc'[t] \in {"stdout", "unified"}
    <3>1. Destination(t)' = pc'[t] /\ pc'[t] \in Sinks
      BY <2>2 DEF Destination, Sinks
    <3>2. Indices(out'[pc'[t]], t, calls'[t]) = {}  BY <1>2, <3>1
    <3>3. Gone(t)' = {}
      BY <1>3, <2>2 DEF Gone, GoneParts, PartsBefore, Writing
    <3>4. Inserted(t, out[Destination(t)])'
      BY <3>1, <3>2, <3>3 DEF Inserted, PlacesAt, NoPlaceTwice
    <3>5. QED  BY <1>3, <2>1, <2>2, <3>4 DEF Halfway, Writing, Inserting
  <2>3. CASE pc'[t] \notin {"stdout", "unified"}
    BY <1>3, <2>1, <2>3 DEF Halfway, Writing, Inserting
  <2>4. QED  BY <2>2, <2>3
<1>5. \A s \in Sinks : Touches(t, s)  BY DEF Touches
<1>6. ASSUME NEW r \in Returns, r.by = t, r.n = calls[t],
             r.path \notin {"split", "unified", "stdout"}, NEW s \in Sinks
      PROVE  Delivered(r, s)'
  <2>1. Indices(out'[s], r.by, r.n) = {}  BY <1>2, <1>6
  <2>2. DeliveredTo(r, out[s])'
    BY <1>6, <2>1 DEF DeliveredTo, PlacesAt, NoPlaceTwice
  <2>3. QED  BY <2>1, <2>2 DEF Delivered
<1>7. Others(t)  BY DEF Others, Writing
<1>8. QED  BY <1>4, <1>5, <1>6, <1>7, DeliverStep

(* A new call has written nothing.                                           *)
LEMMA CallDeliver ==
  ASSUME TypeInv, TypeInv', DeliveryInv, FilesWork', NEW t \in Threads, Call(t)
  PROVE  DeliveryInv'
<1>1. /\ pc[t] = "idle" /\ pc'[t] \in {"init", "pready"} /\ calls'[t] = calls[t] + 1
      /\ calls[t] \in Nat /\ UNCHANGED <<todo, part, out, returned>>
      /\ \A u \in Threads \ {t} : pc'[u] = pc[u] /\ call'[u] = call[u] /\ calls'[u] = calls[u]
  BY ConstantsAssumption DEF Call, EntryPoint, Goto, TypeInv, TypeOK
<1>2. Halfway(t)'
  <2>1. ASSUME NEW s \in Sinks PROVE Own(t, s)' = {}
    <3>1. \A i \in DOMAIN out[s] : out[s][i] \in Pieces /\ out[s][i].n <= calls[out[s][i].by]
      BY DEF DeliveryInv, TypeInv, TypeOK
    <3>2. \A i \in DOMAIN out[s] : out[s][i].by = t => out[s][i].n # calls[t] + 1
      BY <1>1, <3>1 DEF Pieces
    <3>3. QED  BY <1>1, <3>2 DEF Own, Indices
  <2>2. part[t] = "head"  BY <1>1 DEF DeliveryInv, Halfway
  <2>3. QED  BY <1>1, <2>1, <2>2 DEF Halfway, Writing, Inserting
<1>3. Others(t)  BY <1>1 DEF Others
<1>4. \A s \in Sinks : Touches(t, s)  BY <1>1 DEF Touches
<1>5. QED  BY <1>1, <1>2, <1>3, <1>4, DeliverStep

(* Nor has one that gets the mutex of the split files.                       *)
LEMMA LockSplitDeliver ==
  ASSUME TypeInv, TypeInv', DeliveryInv, FilesWork', NEW t \in Threads, LockSplit(t)
  PROVE  DeliveryInv'
<1>1. call[t].id \in Ids /\ splitFiles[call[t].id] \in {"none", "good"} /\ fs = "ok"
  BY DEF DeliveryInv, FilesWork, Message, TypeInv, TypeOK
<1>2. /\ Goto(t, "split") /\ pc[t] = "lock" /\ UNCHANGED <<call, calls, todo, part, out, returned>>
  BY <1>1 DEF LockSplit, Opened
<1>3. pc'[t] = "split" /\ \A u \in Threads \ {t} : pc'[u] = pc[u]
  BY <1>2 DEF Goto, TypeInv, TypeOK
<1>4. \A s \in Sinks : Own(t, s) = {} /\ Own(t, s)' = {}
  BY <1>2 DEF DeliveryInv, Halfway, Own, Inserting
<1>5. Halfway(t)'
  <2>1. todo[t] = call[t].lines /\ part[t] = "head"  BY <1>2 DEF DeliveryInv, Halfway
  <2>2. Destination(t)' \in Sinks  BY <1>1, <1>2, <1>3 DEF Destination, Sinks
  <2>3. Own(t, Destination(t))' = {}  BY <1>4, <2>2
  <2>4. Gone(t)' = {}  BY <1>2, <1>3, <2>1 DEF Gone
  <2>5. Inserted(t, out[Destination(t)])'
    BY <2>3, <2>4 DEF Inserted, Own, PlacesAt, NoPlaceTwice
  <2>6. QED  BY <1>2, <1>3, <1>4, <2>1, <2>5 DEF Halfway, Writing, Inserting
<1>6. \A s \in Sinks : Touches(t, s)  BY <1>2 DEF Touches
<1>7. Others(t)  BY <1>2, <1>3 DEF Others
<1>8. QED  BY <1>2, <1>3, <1>5, <1>6, <1>7, DeliverStep

(* What goes into the destination of t adds its place to those that are gone.   *)
LEMMA InsertedMore ==
  ASSUME TypeInv, NEW t \in Threads, NEW log \in Seq(Pieces), NEW p \in Pieces,
         p.by = t, p.n = calls[t], Inserted(t, log), Place(p) \notin Gone(t),
         UNCHANGED <<pc, calls, returned>>, Gone(t)' = Gone(t) \cup {Place(p)}
  PROVE  /\ PlacesAt(Append(log, p), Indices(Append(log, p), t, calls'[t])) \subseteq Gone(t)'
         /\ NoPlaceTwice(Append(log, p), Indices(Append(log, p), t, calls'[t]))
         /\ pc'[t] # "unified" \/ OnlyUser(t)' =>
              PlacesAt(Append(log, p), Indices(Append(log, p), t, calls'[t])) = Gone(t)'
<1>1. /\ PlacesAt(Append(log, p), Indices(Append(log, p), p.by, p.n))
            = PlacesAt(log, Indices(log, p.by, p.n)) \cup {Place(p)}
      /\ (Place(p) \notin PlacesAt(log, Indices(log, p.by, p.n))
          /\ NoPlaceTwice(log, Indices(log, p.by, p.n)))
           => NoPlaceTwice(Append(log, p), Indices(Append(log, p), p.by, p.n))
  BY IndicesOwn
<1>2. OnlyUser(t)' <=> OnlyUser(t)  BY DEF OnlyUser, UsedUnified
<1>3. QED  BY <1>1, <1>2 DEF Inserted

(* A line goes where the thread writes.                                      *)
LEMMA LineDeliver ==
  ASSUME TypeInv, TypeInv', DeliveryInv, FilesWork', NEW t \in Threads,
         pc[t] \in {"split", "stdout"},
         NEW line \in todo[t], todo' = [todo EXCEPT ![t] = @ \ {line}],
         Put(Destination(t), Piece(t, line, "line")),
         UNCHANGED <<pc, call, calls, part, returned>>
  PROVE  DeliveryInv'
<1> DEFINE p == Piece(t, line, "line")
<1>0. PICK d \in Sinks : d = Destination(t)
  BY DEF Destination, Sinks, Message, TypeInv, TypeOK
<1>1. /\ d # "payload" /\ p \in Pieces
      /\ p.by = t /\ p.n = calls[t] /\ Place(p) = <<line, "line">>
  BY <1>0, ConstantsAssumption
  DEF Destination, Sinks, Message, Piece, Pieces, Parts, Place, TypeInv, TypeOK, InCall
<1>2. out[d] \in Seq(Pieces) /\ out'[d] = Append(out[d], p) /\ Destination(t)' = d
      /\ \A s \in Sinks \ {d} : out'[s] = out[s]
  BY <1>0, <1>1 DEF Put, Destination, TypeInv, TypeOK
<1>3. /\ todo[t] \subseteq call[t].lines /\ Inserted(t, out[d]) /\ part[t] = "head"
      /\ \A s \in Sinks : s # d => Own(t, s) = {}
  BY <1>0 DEF DeliveryInv, Halfway, Writing, Inserting
<1>4. PICK new \in Pieces : new = p  BY <1>1
<1>5. todo'[t] = todo[t] \ {line} /\ \A u \in Threads \ {t} : todo'[u] = todo[u]
  BY DEF TypeInv, TypeOK
<1>6. /\ Gone(t) = (call[t].lines \ todo[t]) \X {"line"}
      /\ Gone(t)' = (call[t].lines \ todo'[t]) \X {"line"}
  BY DEF Gone
<1>7. /\ <<line, "line">> \notin Gone(t)
      /\ Gone(t)' = Gone(t) \cup {<<line, "line">>}
  <2> DEFINE before == call[t].lines \ todo[t]
             after == call[t].lines \ todo'[t]
  <2>1. after = before \cup {line} /\ line \notin before  BY <1>3, <1>5
  <2>2. after \X {"line"} = before \X {"line"} \cup {<<line, "line">>}
    <3> HIDE DEF after, before
    <3>1. QED  BY <2>1
  <2>3. <<line, "line">> \notin before \X {"line"}
    <3> HIDE DEF after, before
    <3>1. QED  BY <2>1
  <2>4. QED  BY <1>6, <2>2, <2>3
<1>8. Inserted(t, out[d])'
  <2> HIDE DEF p
  <2>1. /\ new.by = t /\ new.n = calls[t] /\ Place(new) = <<line, "line">>
        /\ out'[d] = Append(out[d], new)
    BY <1>1, <1>2, <1>4
  <2>2. QED  BY SMTT(30), <1>2, <1>3, <1>7, <2>1, InsertedMore DEF Inserted
<1>9. Halfway(t)'
  <2>1. todo'[t] \subseteq call[t].lines  BY <1>3, <1>5
  <2>2. \A s \in Sinks : s # d => Own(t, s)' = {}
    BY <1>2, <1>3 DEF Own
  <2>3. QED  BY <1>2, <1>3, <1>8, <2>1, <2>2 DEF Halfway, Inserting
<1>10. \A s \in Sinks : Touches(t, s)
  <2> HIDE DEF p
  <2>1. new.by = t /\ new.n = calls[t] /\ out'[d] = Append(out[d], new)
    BY <1>1, <1>2, <1>4
  <2>2. QED  BY <1>2, <2>1 DEF Touches
<1>11. Others(t)  BY <1>5 DEF Others
<1>12. QED  BY <1>9, <1>10, <1>11, DeliverStep

(* A call that has written all its lines returns.                             *)
LEMMA ReturnDeliver ==
  ASSUME TypeInv, TypeInv', DeliveryInv, FilesWork', NEW t \in Threads,
         pc[t] \in {"split", "unified", "stdout"}, todo[t] = {}, Return(t, pc[t]),
         UNCHANGED <<call, calls, todo, part, out>>
  PROVE  DeliveryInv'
<1>1. /\ pc'[t] = "idle" /\ \A u \in Threads \ {t} : pc'[u] = pc[u]
      /\ returned \subseteq returned' /\ \E r \in returned' : r.by = t /\ r.path = pc[t]
      /\ \A r \in Returns :
           r \in returned' =>
             \/ r \in returned
             \/ r.by = t /\ r.n = calls[t] /\ r.msg = call[t] /\ r.path = pc[t]
  BY ReturnRecords
<1>2. Others(t)  BY <1>1 DEF Others
<1>3. Halfway(t)  BY DEF DeliveryInv
<1>4. ASSUME NEW r \in Returns, r.by = t, r.n = calls[t], r.msg = call[t], r.path = pc[t],
             NEW s \in Sinks
      PROVE  Delivered(r, s)'
  <2>1. SinkOf(r) = Destination(t)  BY <1>4 DEF SinkOf, Destination
  <2>2. s # Destination(t) => Indices(out[s], t, calls[t]) = {}
    BY <1>3 DEF Halfway, Own
  <2>3. InsertionsOf(r) = Gone(t)
    BY <1>4 DEF InsertionsOf, Gone, GoneParts
  <2>4. OnlyUser(t)' => OnlyUser(t)  BY <1>2, AloneBefore DEF Others
  <2>5. s = Destination(t) => Inserted(t, out[s])  BY <1>3 DEF Halfway, Inserting
  <2>6. s = Destination(t) => DeliveredTo(r, out[s])'
    BY <1>4, <2>3, <2>4, <2>5 DEF DeliveredTo, Inserted, InsertionsOf
  <2>7. QED  BY <1>4, <2>1, <2>2, <2>6 DEF Delivered, SinkOf
<1>5. Halfway(t)'  BY <1>1, <1>3 DEF Halfway, Writing, Inserting
<1>6. \A s \in Sinks : Touches(t, s)  BY DEF Touches
<1>7. QED  BY <1>1, <1>2, <1>4, <1>5, <1>6, DeliverStep

(* The part of the line that an insertion into the unified file leaves behind.   *)
LEMMA GoneFurther ==
  ASSUME TypeInv, NEW t \in Threads, pc[t] = "unified", UNCHANGED <<pc, call>>,
         todo[t] \subseteq call[t].lines, NEW line \in todo[t], NextLine(t, line),
         todo'[t] = IF part[t] = "end" THEN todo[t] \ {line} ELSE todo[t],
         part'[t] = NextPart[part[t]]
  PROVE  /\ <<line, part[t]>> \notin Gone(t)
         /\ Gone(t)' = Gone(t) \cup {<<line, part[t]>>}
<1>1. /\ part[t] \in {"head", "text", "end"} /\ todo[t] \subseteq Nat /\ call[t].lines \subseteq Nat
      /\ Gone(t) = GoneParts(t) /\ Gone(t)' = GoneParts(t)'
  BY DEF Gone, Message, TypeInv, TypeOK
<1>2. \A l \in call[t].lines : NextLine(t, l) <=> l = line
  <2>1. \A l \in todo[t] : line <= l  BY DEF NextLine
  <2>2. QED  BY <1>1, <2>1 DEF NextLine
<1>3. <<line, part[t]>> \notin Gone(t)
  BY <1>1 DEF GoneParts, PartsBefore
<1>4. ASSUME NEW l \in call[t].lines, NEW q \in {"head", "text", "end"}
      PROVE  <<l, q>> \in GoneParts(t)' <=> <<l, q>> \in GoneParts(t) \/ (l = line /\ q = part[t])
  <2>1. <<l, q>> \in GoneParts(t) <=> l \notin todo[t] \/ (l = line /\ q \in PartsBefore(part[t]))
    BY <1>2 DEF GoneParts
  <2>2. <<l, q>> \in GoneParts(t)' <=>
          l \notin todo'[t] \/ (NextLine(t, l)' /\ q \in PartsBefore(part'[t]))
    BY DEF GoneParts
  <2>3. CASE part[t] = "end"
    <3>1. part'[t] = "head" /\ todo'[t] = todo[t] \ {line}  BY <2>3 DEF NextPart
    <3>2. QED  BY <2>1, <2>2, <2>3, <3>1 DEF PartsBefore
  <2>4. CASE part[t] # "end"
    <3>1. NextLine(t, l)' <=> NextLine(t, l)  BY <2>4 DEF NextLine
    <3>2. CASE part[t] = "head"
      <4>1. part'[t] = "text"  BY <3>2 DEF NextPart
      <4>2. QED  BY <1>2, <2>1, <2>2, <2>4, <3>1, <3>2, <4>1 DEF PartsBefore
    <3>3. CASE part[t] = "text"
      <4>1. part'[t] = "end"  BY <3>3 DEF NextPart
      <4>2. QED  BY <1>2, <2>1, <2>2, <2>4, <3>1, <3>3, <4>1 DEF PartsBefore
    <3>4. QED  BY <1>1, <2>4, <3>2, <3>3
  <2>5. QED  BY <2>3, <2>4
<1>5. /\ GoneParts(t) \subseteq call[t].lines \X {"head", "text", "end"}
      /\ GoneParts(t)' \subseteq call[t].lines \X {"head", "text", "end"}
      /\ <<line, part[t]>> \in call[t].lines \X {"head", "text", "end"}
  BY <1>1 DEF GoneParts
<1>6. \A x \in call[t].lines \X {"head", "text", "end"} :
        x \in GoneParts(t)' <=> x \in GoneParts(t) \cup {<<line, part[t]>>}
  <2> TAKE x \in call[t].lines \X {"head", "text", "end"}
  <2>1. PICK l \in call[t].lines, q \in {"head", "text", "end"} : x = <<l, q>>
    OBVIOUS
  <2>2. x = <<line, part[t]>> <=> l = line /\ q = part[t]  BY <2>1
  <2>3. x \in GoneParts(t)' <=> x \in GoneParts(t) \/ (l = line /\ q = part[t])
    BY <1>4, <2>1
  <2>4. QED  BY <2>2, <2>3
<1>7. GoneParts(t)' = GoneParts(t) \cup {<<line, part[t]>>}  BY <1>5, <1>6
<1>8. QED  BY <1>1, <1>3, <1>7

(* An insertion reaches the unified file only, and is lost only where another   *)
(* thread is inserting.                                                     *)
LEMMA InsertDeliver ==
  ASSUME TypeInv, TypeInv', DeliveryInv, FilesWork', NEW t \in Threads, InsertUnified(t)
  PROVE  DeliveryInv'
<1>1. PICK line \in todo[t] :
        /\ NextLine(t, line)
        /\ todo' = [todo EXCEPT ![t] = IF part[t] = "end" THEN @ \ {line} ELSE @]
        /\ \/ Put("unified", Piece(t, line, part[t]))
           \/ (~Accepts(logFile) \/ OthersInserting(t)) /\ out' = out
  BY DEF InsertUnified
<1>2. /\ pc[t] = "unified" /\ UNCHANGED <<pc, call, calls, returned>>
      /\ todo'[t] = IF part[t] = "end" THEN todo[t] \ {line} ELSE todo[t]
      /\ part'[t] = NextPart[part[t]]
      /\ \A u \in Threads \ {t} : todo'[u] = todo[u] /\ part'[u] = part[u]
  BY ZenonT(30), <1>1 DEF InsertUnified, TypeInv, TypeOK
<1>3. /\ Destination(t) = "unified" /\ Destination(t)' = "unified" /\ "unified" \in Sinks
      /\ out["unified"] \in Seq(Pieces)
  BY <1>2 DEF Destination, Sinks, TypeInv, TypeOK
<1>4. /\ todo[t] \subseteq call[t].lines /\ Inserted(t, out["unified"])
      /\ \A s \in Sinks : s # "unified" => Own(t, s) = {}
  BY <1>2, <1>3 DEF DeliveryInv, Halfway, Writing, Inserting
<1>5. PICK new \in Pieces : new = Piece(t, line, part[t])
  <2>1. Piece(t, line, part[t]) \in Pieces
    BY <1>2 DEF Piece, Pieces, Parts, TypeInv, TypeOK, InCall
  <2>2. QED  BY <2>1
<1>6. new.by = t /\ new.n = calls[t] /\ Place(new) = <<line, part[t]>>
  BY <1>5 DEF Piece, Place
<1>7. <<line, part[t]>> \notin Gone(t) /\ Gone(t)' = Gone(t) \cup {<<line, part[t]>>}
  BY <1>1, <1>2, <1>4, GoneFurther
<1>8. \/ out'["unified"] = Append(out["unified"], new)
      \/ (~Accepts(logFile) \/ OthersInserting(t)) /\ out'["unified"] = out["unified"]
  BY <1>1, <1>3, <1>5 DEF Put, TypeInv, TypeOK
<1>9. \A s \in Sinks : s # "unified" => out'[s] = out[s]
  BY <1>1 DEF Put, TypeInv, TypeOK
<1>10. Inserted(t, out["unified"])'
  <2>1. CASE out'["unified"] = Append(out["unified"], new)
    BY SMTT(30), <1>2, <1>3, <1>4, <1>6, <1>7, <2>1, InsertedMore DEF Inserted
  <2>2. CASE (~Accepts(logFile) \/ OthersInserting(t)) /\ out'["unified"] = out["unified"]
    <3>1. Accepts(logFile)  BY <1>2 DEF Accepts, DeliveryInv, FilesWork
    <3>2. ~OnlyUser(t)  BY <2>2, <3>1 DEF OthersInserting, OnlyUser, UsedUnified
    <3>3. ~OnlyUser(t)'  BY <1>2, <3>2 DEF OnlyUser, UsedUnified
    <3>4. QED  BY <1>2, <1>4, <1>7, <2>2, <3>3 DEF Inserted
  <2>3. QED  BY <1>8, <2>1, <2>2
<1>11. Halfway(t)'
  <2>1. todo'[t] \subseteq call'[t].lines  BY <1>2, <1>4
  <2>2. \A s \in Sinks : s # "unified" => Own(t, s)' = {}
    BY <1>2, <1>4, <1>9 DEF Own
  <2>3. todo'[t] = {} => part'[t] = "head"
    BY <1>2 DEF NextPart
  <2>4. QED  BY <1>2, <1>3, <1>10, <2>1, <2>2, <2>3 DEF Halfway, Inserting
<1>12. \A s \in Sinks : Touches(t, s)
  BY <1>2, <1>6, <1>8, <1>9 DEF Touches
<1>13. Others(t)  BY <1>2 DEF Others
<1>14. QED  BY <1>2, <1>11, <1>12, <1>13, DeliverStep

(* The steps of the writers.                                                 *)
LEMMA WriteDeliver ==
  ASSUME TypeInv, TypeInv', DeliveryInv, FilesWork', NEW t \in Threads, Write(t)
  PROVE  DeliveryInv'
<1>1. CASE WriteSplitLine(t)
  <2>1. /\ pc[t] = "split" /\ fs = "ok" /\ splitFiles[call[t].id] = "good"
        /\ Destination(t) = call[t].id /\ call[t].id \in Ids
    BY <1>1 DEF WriteSplitLine, DeliveryInv, FilesWork, Destination, Message, TypeInv, TypeOK
  <2>2. PICK line \in todo[t] :
          /\ todo' = [todo EXCEPT ![t] = @ \ {line}]
          /\ Put(Destination(t), Piece(t, line, "line"))
    BY <1>1, <2>1 DEF WriteSplitLine, Accepts
  <2>3. UNCHANGED <<pc, call, calls, part, returned>>  BY <1>1 DEF WriteSplitLine
  <2>4. QED  BY <2>1, <2>2, <2>3, LineDeliver
<1>2. CASE PrintLine(t)
  <2>1. pc[t] = "stdout" /\ Destination(t) = "stdout"
    BY <1>2 DEF PrintLine, Destination
  <2>2. PICK line \in todo[t] :
          /\ todo' = [todo EXCEPT ![t] = @ \ {line}]
          /\ Put(Destination(t), Piece(t, line, "line"))
    BY <1>2, <2>1 DEF PrintLine
  <2>3. UNCHANGED <<pc, call, calls, part, returned>>
    BY <1>2 DEF PrintLine
  <2>4. QED  BY <2>1, <2>2, <2>3, LineDeliver
<1>3. CASE UnlockSplit(t) \/ ReturnPlain(t)
  BY <1>3, ReturnDeliver DEF UnlockSplit, ReturnPlain
<1>4. QED
  BY <1>1, <1>2, <1>3, LockSplitDeliver, InsertDeliver DEF Write

(* Initialising and routing leave nothing behind.                            *)
LEMMA AsideDeliver ==
  ASSUME TypeInv, TypeInv', DeliveryInv, FilesWork', NEW t \in Threads,
         InitIfNeeded(t) \/ Initialise(t) \/ Route(t)
  PROVE  DeliveryInv'
<1>1. /\ pc[t] \notin Writing \cup {"idle"} /\ UNCHANGED <<call, calls, part, out>>
      /\ \A u \in Threads \ {t} : pc'[u] = pc[u] /\ todo'[u] = todo[u]
  BY DEF InitIfNeeded, Initialise, ClearEnvVars, LoadSettings, ExportEnvVars, SetupLogFile,
         Route, Discard, DivertStatus, Accept, Return, Goto, Writing, TypeInv, TypeOK
<1>2. CASE Discard(t)
  <2>1. PICK path \in {"disabled", "filtered"} : Return(t, path)
    BY <1>2 DEF Discard
  <2>2. QED  BY <1>1, <2>1, ReturnRecords, QuietDeliver DEF Writing
<1>3. CASE InitIfNeeded(t) \/ Initialise(t) \/ DivertStatus(t)
  <2>1. returned' = returned /\ pc'[t] \notin Writing
    BY <1>3 DEF InitIfNeeded, Initialise, ClearEnvVars, LoadSettings, ExportEnvVars,
                SetupLogFile, DivertStatus, Goto, AfterOnce, Writing, TypeInv, TypeOK
  <2>2. QED  BY <1>1, <2>1, QuietDeliver DEF Writing
<1>4. CASE Accept(t)
  <2>1. /\ returned' = returned /\ pc'[t] # "split" /\ todo'[t] = call[t].lines
    BY <1>4 DEF Accept, LinesToWrite, Plain, Goto, TypeInv, TypeOK
  <2>2. QED  BY <1>1, <2>1, QuietDeliver
<1>5. QED  BY <1>2, <1>3, <1>4 DEF Route

(* Payloads leave nothing but the record.                                    *)
LEMMA PayloadDeliver ==
  ASSUME TypeInv, TypeInv', DeliveryInv, FilesWork', NEW t \in Threads, Payload(t)
  PROVE  DeliveryInv'
<1>1. /\ pc[t] \notin Writing \cup {"idle"} /\ UNCHANGED <<call, calls, todo, part>>
      /\ \A u \in Threads \ {t} : pc'[u] = pc[u]
      /\ pc'[t] \notin Writing
  BY DEF Payload, CheckPayloadFile, BeginOpenPayload, EndOpenPayload, ConfirmPayloadFile,
         WritePayload, Return, Goto, Writing, TypeInv, TypeOK
<1>2. CASE CheckPayloadFile(t) \/ EndOpenPayload(t)
  <2>1. /\ returned' = returned
        /\ \A s \in Sinks : out'[s] = out[s] \/ (s = "payload" /\ out'[s] = <<>>)
    BY <1>2 DEF CheckPayloadFile, EndOpenPayload, TypeInv, TypeOK
  <2>2. QED  BY <1>1, <2>1, QuietDeliver DEF Writing
<1>3. CASE BeginOpenPayload(t) \/ ConfirmPayloadFile(t)
  <2>1. returned' = returned \/ \E path \in {"disabled", "dropped"} : Return(t, path)
    BY <1>3 DEF BeginOpenPayload, ConfirmPayloadFile
  <2>2. out' = out  BY <1>3 DEF BeginOpenPayload, ConfirmPayloadFile
  <2>3. CASE returned' = returned  BY <1>1, <2>2, <2>3, QuietDeliver DEF Writing
  <2>4. ASSUME NEW path \in {"disabled", "dropped"}, Return(t, path) PROVE DeliveryInv'
    BY <1>1, <2>2, <2>4, ReturnRecords, QuietDeliver DEF Writing
  <2>5. QED  BY <2>1, <2>3, <2>4
<1>4. CASE WritePayload(t)
  <2>1. Return(t, "payload")  BY <1>4 DEF WritePayload
  <2>2. /\ pc'[t] = "idle" /\ returned \subseteq returned'
        /\ \A r \in Returns :
             r \in returned' =>
               \/ r \in returned
               \/ r.by = t /\ r.n = calls[t] /\ r.msg = call[t] /\ r.path = "payload"
    BY <2>1, ReturnRecords
  <2>3. PICK new \in Pieces : new = Piece(t, 0, RecordKind(call[t]))
    <3>1. RecordKind(call[t]) \in Parts  BY DEF RecordKind, Parts
    <3>2. call[t] \in Message /\ calls[t] \in 1..MaxCalls
      BY <1>1 DEF TypeInv, TypeOK, InCall
    <3>3. Piece(t, 0, RecordKind(call[t])) \in Pieces  BY <3>1, <3>2 DEF Piece, Pieces
    <3>4. QED  BY <3>3
  <2>4. new.by = t /\ new.n = calls[t] /\ Place(new) = <<0, RecordKind(call[t])>>
    BY <2>3 DEF Piece, Place
  <2>5. /\ \A s \in Sinks : s # "payload" => out'[s] = out[s]
        /\ \A s \in Sinks : out'[s] = out[s] \/ out'[s] = Append(out[s], new)
    BY <1>4, <2>3 DEF WritePayload, Put, TypeInv, TypeOK
  <2>6. \A s \in Sinks : Touches(t, s)  BY <1>1, <2>4, <2>5 DEF Touches
  <2>7. /\ Halfway(t) /\ \A s \in Sinks : Indices(out[s], t, calls[t]) = {}
    BY <1>1 DEF DeliveryInv, Halfway, Own, Writing, Inserting
  <2>8. ASSUME NEW r \in Returns, r.by = t, r.n = calls[t], r.msg = call[t], r.path = "payload",
               NEW s \in Sinks
        PROVE  Delivered(r, s)'
    <3> DEFINE is == Indices(out'[s], r.by, r.n)
    <3>1. SinkOf(r) = "payload"  BY <2>8 DEF SinkOf
    <3>2. s # "payload" => is = {}  BY <2>5, <2>7, <2>8
    <3>3. PlacesAt(out'[s], is) \subseteq {Place(new)} /\ NoPlaceTwice(out'[s], is)
      <4>1. out[s] \in Seq(Pieces)  BY DEF TypeInv, TypeOK
      <4>2. PlacesAt(out[s], {}) = {} /\ NoPlaceTwice(out[s], {})
        BY DEF PlacesAt, NoPlaceTwice
      <4>3. CASE out'[s] = out[s]  BY <2>7, <2>8, <4>2, <4>3
      <4>4. CASE out'[s] = Append(out[s], new)
        <5>1. Indices(out[s], new.by, new.n) = {}  BY <2>4, <2>7
        <5>2. is = Indices(Append(out[s], new), new.by, new.n)  BY <2>4, <2>8, <4>4
        <5>3. Place(new) \notin PlacesAt(out[s], {})  BY <4>2
        <5>4. PlacesAt(Append(out[s], new), is) = PlacesAt(out[s], {}) \cup {Place(new)}
          BY <4>1, <5>1, <5>2, IndicesOwn
        <5>5. NoPlaceTwice(Append(out[s], new), is)
          BY <4>1, <4>2, <5>1, <5>2, <5>3, IndicesOwn
        <5>6. QED  BY <4>2, <4>4, <5>4, <5>5
      <4>5. QED  BY <2>5, <4>3, <4>4
    <3>4. InsertionsOf(r) = {Place(new)}  BY <2>4, <2>8 DEF InsertionsOf
    <3>5. InsertionsOf(r)' = InsertionsOf(r)  BY DEF InsertionsOf, RecordKind
    <3>6. DeliveredTo(r, out[s])'  BY <2>8, <3>3, <3>4, <3>5 DEF DeliveredTo
    <3>7. QED  BY <3>1, <3>2, <3>6 DEF Delivered, SinkOf
  <2>9. Halfway(t)'  BY <1>1, <2>2, <2>7 DEF Halfway, Writing, Inserting
  <2>10. Others(t)  BY <1>1, <2>2 DEF Others, Writing
  <2>11. QED  BY <1>1, <2>2, <2>6, <2>8, <2>9, <2>10, DeliverStep
<1>5. QED  BY <1>2, <1>3, <1>4 DEF Payload

(* DeliveryInv is inductive where the file system works.                     *)
LEMMA StepDeliver ==
  ASSUME ~FsMayFail
  PROVE  BaseInv /\ DeliveryInv /\ [Next]_vars => DeliveryInv'
<1> SUFFICES ASSUME BaseInv, DeliveryInv, [Next]_vars PROVE DeliveryInv'  OBVIOUS
<1>1. TypeInv /\ TypeInv'  BY StepType DEF BaseInv
<1>2. FilesWork'  BY <1>1, StepFiles DEF BaseInv, DeliveryInv
<1>3. CASE UNCHANGED vars
  <2>1. UNCHANGED <<pc, call, calls, todo, part, out, returned>>
    BY <1>3 DEF vars
  <2>2. \A t \in Threads : OnlyUser(t)' <=> OnlyUser(t)  BY <2>1 DEF OnlyUser, UsedUnified
  <2>3. \A t \in Threads : Gone(t)' = Gone(t)  BY <2>1 DEF Gone, GoneParts, NextLine
  <2>4. \A t \in Threads : Halfway(t)'
    BY <2>1, <2>2, <2>3 DEF DeliveryInv, Halfway, Inserted, Destination, Own
  <2>5. \A r \in returned' : Settled(r)'  BY <2>1 DEF DeliveryInv, Settled
  <2>6. ASSUME NEW r \in returned, NEW s \in Sinks PROVE Delivered(r, s)'
    <3>1. r.by \in Threads  BY <1>1 DEF TypeInv, TypeOK, Returns
    <3>2. Delivered(r, s)  BY DEF DeliveryInv
    <3>3. QED
      BY <2>1, <2>2, <3>1, <3>2 DEF Delivered, DeliveredTo, SinkOf, InsertionsOf, RecordKind
  <2>7. QED  BY <1>2, <2>1, <2>4, <2>5, <2>6 DEF DeliveryInv
<1>4. QED
  BY <1>1, <1>2, <1>3, CallDeliver, AsideDeliver, WriteDeliver, PayloadDeliver
  DEF Next, Work, Finished, FsChange

(* It holds at the start.                                                    *)
LEMMA InitDelivery == Init => DeliveryInv
<1> SUFFICES ASSUME Init PROVE DeliveryInv  OBVIOUS
<1>1. \A t \in Threads : Halfway(t)  BY DEF Init, Halfway, Writing, Inserting
<1>2. QED  BY <1>1 DEF Init, DeliveryInv, FilesWork

(* Where the file system works, what a call that returned has left, in all four *)
(* destinations (DeliveredOnce), for any number of threads: nothing outside of   *)
(* its own, nothing twice; in a split file, on standard output, and in the       *)
(* unified file while one thread alone has used it, nothing is missing.          *)
(* DeliveryInv follows the call in progress: what is in its destination are       *)
(* insertions it has gone through, all of them unless the unified file is raced.  *)
THEOREM DeliveredOnceAlways ==
  ASSUME ~FsMayFail
  PROVE  Spec => []DeliveredOnce
<1>1. Init => BaseInv /\ DeliveryInv  BY InitBase, InitDelivery
<1>2. BaseInv /\ DeliveryInv /\ [Next]_vars => (BaseInv /\ DeliveryInv)'
  BY StepBase, StepDeliver
<1>3. DeliveryInv => DeliveredOnce  BY AllDelivered DEF DeliveryInv
<1>4. QED  BY <1>1, <1>2, <1>3, PTL DEF Spec
-----------------------------------------------------------------------------
(* One record for each payload, where one thread reports and files work.      *)

OneReporter ==
  \A t, u \in Threads : \A m \in Sends[t] : \A other \in Sends[u] :
    IsStatus(m) /\ IsStatus(other) => t = u

Recorded(r) ==
  IsStatus(r.msg) /\ logger.enabled /\ logger.dir # "none" =>
    \E i \in DOMAIN out["payload"] :
      /\ PiecesOf(r, "payload") = {i}
      /\ out["payload"][i].part =
           IF r.msg.api = "Payload" \/ r.msg.ok THEN "record" ELSE "error"

(* The payload file as its only user leaves it.                               *)
PayloadPlace(t) ==
  /\ pc[t] \in {"pinit", "pcheck", "popen"} => payloadFile = "closed"
  /\ pc[t] \in {"pconfirm", "pwrite"} => payloadFile = "good"

PayloadInv ==
  /\ payloadFile \in {"closed", "good"}
  /\ payloadFile = "closed" => out["payload"] = <<>>
  /\ \A t \in Threads : PayloadPlace(t)
  /\ once # "done" => returned = {}
  /\ PayloadRecorded

WorkingInv == BaseInv /\ RouteInv /\ FollowInv /\ DeliveryInv

(* All that holds where the file system works.                               *)
LEMMA StepWorking ==
  ASSUME ~FsMayFail
  PROVE  WorkingInv /\ [Next]_vars => WorkingInv'
BY StepBase, StepRoute, StepFollow, StepDeliver DEF WorkingInv, BaseInv

(* A record stays the one of its call.                                       *)
LEMMA RecordKept ==
  ASSUME TypeInv, NEW t \in Threads, Touches(t, "payload"), UNCHANGED logger,
         out'["payload"] = <<>> => out["payload"] = <<>>,
         NEW r \in returned, Settled(r), Recorded(r)
  PROVE  Recorded(r)'
<1>1. /\ r.by \in Threads /\ r.n \in Nat /\ "payload" \in Sinks
      /\ ~(r.by = t /\ r.n = calls[t] /\ pc[t] # "idle")
  BY DEF Settled, Returns, Sinks, TypeInv, TypeOK
<1>2. CASE out'["payload"] = <<>>
  BY <1>2 DEF Recorded, PiecesOf
<1>3. CASE out'["payload"] # <<>>
  <2>1. out["payload"] \in Seq(Pieces) /\ DOMAIN out["payload"] \subseteq DOMAIN out'["payload"]
    BY <1>1, <1>3 DEF Touches, TypeInv, TypeOK
  <2>2. /\ Indices(out'["payload"], r.by, r.n) = Indices(out["payload"], r.by, r.n)
        /\ \A i \in Indices(out["payload"], r.by, r.n) : out'["payload"][i] = out["payload"][i]
    <3>1. CASE out'["payload"] = out["payload"]  BY <3>1
    <3>2. ASSUME NEW p \in Pieces, pc[t] # "idle", p.by = t, p.n = calls[t],
                 out'["payload"] = Append(out["payload"], p)
          PROVE  /\ Indices(out'["payload"], r.by, r.n) = Indices(out["payload"], r.by, r.n)
                 /\ \A i \in Indices(out["payload"], r.by, r.n) :
                      out'["payload"][i] = out["payload"][i]
      <4>1. ~(p.by = r.by /\ p.n = r.n)  BY <1>1, <3>2
      <4>2. /\ Indices(Append(out["payload"], p), r.by, r.n) = Indices(out["payload"], r.by, r.n)
            /\ \A i \in Indices(out["payload"], r.by, r.n) :
                 Append(out["payload"], p)[i] = out["payload"][i]
        BY <1>1, <2>1, <4>1, IndicesOther
      <4>3. QED  BY <3>2, <4>2
    <3>3. QED  BY <1>3, <3>1, <3>2 DEF Touches
  <2>3. PiecesOf(r, "payload") = Indices(out["payload"], r.by, r.n)
        /\ PiecesOf(r, "payload")' = Indices(out'["payload"], r.by, r.n)
    BY DEF PiecesOf, Indices
  <2>4. QED
    <3>1. SUFFICES ASSUME IsStatus(r.msg), logger.enabled, logger.dir # "none"
                   PROVE  \E i \in DOMAIN out'["payload"] :
                            /\ PiecesOf(r, "payload")' = {i}
                            /\ out'["payload"][i].part =
                                 IF r.msg.api = "Payload" \/ r.msg.ok THEN "record" ELSE "error"
      BY DEF Recorded
    <3>2. PICK i \in DOMAIN out["payload"] :
            /\ PiecesOf(r, "payload") = {i}
            /\ out["payload"][i].part =
                 IF r.msg.api = "Payload" \/ r.msg.ok THEN "record" ELSE "error"
      BY <3>1 DEF Recorded
    <3>3. i \in DOMAIN out'["payload"] /\ out'["payload"][i] = out["payload"][i]
      BY <2>1, <2>2, <2>3, <3>2
    <3>4. QED  BY <2>2, <2>3, <3>2, <3>3
<1>4. QED  BY <1>2, <1>3

(* A step of t that ends or goes on with a call.                              *)
LEMMA RecordStep ==
  ASSUME OneReporter, WorkingInv, WorkingInv', PayloadInv, [Next]_vars, NEW t \in Threads,
         payloadFile' \in {"closed", "good"},
         payloadFile' = "closed" => out'["payload"] = <<>>,
         \A u \in Threads \ {t} : pc'[u] = pc[u],
         payloadFile' # payloadFile => IsStatus(call[t]),
         Touches(t, "payload"), out'["payload"] = <<>> => out["payload"] = <<>>,
         PayloadPlace(t)', once' # "done" => returned' = {},
         \A r \in Returns :
           r \in returned' =>
             \/ r \in returned
             \/ once' = "done" /\ (r.path \in {"payload", "dropped"} => Recorded(r)')
  PROVE  PayloadInv'
<1>1. ASSUME NEW u \in Threads PROVE PayloadPlace(u)'
  <2>1. CASE u = t  BY <2>1
  <2>2. CASE u # t /\ payloadFile' = payloadFile
    BY <2>2 DEF PayloadInv, PayloadPlace
  <2>3. CASE u # t /\ payloadFile' # payloadFile
    <3>1. /\ call[t] \in Sends[t] /\ call[u] \in Sends[u]
          /\ pc[u] \in Reporting => IsStatus(call[u])
      BY DEF WorkingInv, RouteInv, RoutedRight
    <3>2. pc[u] \notin Reporting  BY <2>3, <3>1 DEF OneReporter
    <3>3. QED  BY <2>3, <3>2 DEF PayloadPlace, Reporting
  <2>4. QED  BY <2>1, <2>2, <2>3
<1>2. returned' \subseteq Returns /\ TypeInv /\ OnceInv
  BY DEF WorkingInv, BaseInv, TypeInv, TypeOK
<1>3. ASSUME NEW r \in Returns, r \in returned' PROVE Recorded(r)'
  <2>1. CASE r \in returned
    <3>1. once = "done"  BY <2>1 DEF PayloadInv
    <3>2. UNCHANGED logger  BY <1>2, <3>1, SettingsChange DEF settings
    <3>3. Settled(r) /\ Recorded(r)
      BY <2>1 DEF WorkingInv, DeliveryInv, PayloadInv, PayloadRecorded, Recorded
    <3>4. QED  BY <1>2, <2>1, <3>2, <3>3, RecordKept
  <2>2. CASE once' = "done" /\ (r.path \in {"payload", "dropped"} => Recorded(r)')
    <3>1. logger'.enabled = LoggingWanted'
      BY <2>2 DEF WorkingInv, BaseInv, PublishInv, Loaded
    <3>2. LoggingWanted' /\ IsStatus(r.msg) => r.path \in {"payload", "dropped"}
      BY <1>3 DEF WorkingInv, FollowInv, FollowsConfiguration
    <3>3. CASE IsStatus(r.msg) /\ logger'.enabled  BY <2>2, <3>1, <3>2, <3>3
    <3>4. CASE ~(IsStatus(r.msg) /\ logger'.enabled)  BY <3>4 DEF Recorded
    <3>5. QED  BY <3>3, <3>4
  <2>3. QED  BY <1>3, <2>1, <2>2
<1>4. PayloadRecorded'
  <2>1. \A r \in returned' : Recorded(r)'  BY <1>2, <1>3
  <2>2. QED  BY <2>1 DEF PayloadRecorded, Recorded
<1>5. QED  BY <1>1, <1>4 DEF PayloadInv

(* A step that leaves the payload file and its stream alone.                   *)
LEMMA RecordAside ==
  ASSUME OneReporter, WorkingInv, WorkingInv', PayloadInv, [Next]_vars, NEW t \in Threads,
         UNCHANGED payloadFile, out'["payload"] = out["payload"], PayloadPlace(t)',
         \A u \in Threads \ {t} : pc'[u] = pc[u], once = "done" => once' = "done",
         \/ returned' = returned
         \/ /\ once = "done"
            /\ \A r \in Returns :
                 r \in returned' => r \in returned \/ r.path \notin {"payload", "dropped"}
  PROVE  PayloadInv'
<1>1. Touches(t, "payload")  BY DEF Touches
<1>2. /\ payloadFile' \in {"closed", "good"}
      /\ payloadFile' = "closed" => out'["payload"] = <<>>
      /\ once' # "done" => returned' = {}
  BY DEF PayloadInv
<1>3. QED  BY <1>1, <1>2, RecordStep

(* Calls and the initialisation do not touch the payload file.               *)
LEMMA CallRecord ==
  ASSUME OneReporter, WorkingInv, WorkingInv', PayloadInv, [Next]_vars, NEW t \in Threads,
         Call(t) \/ InitIfNeeded(t) \/ Initialise(t)
  PROVE  PayloadInv'
<1>1. /\ TypeInv /\ OnceInv /\ FilesRight  BY DEF WorkingInv, BaseInv, RouteInv
<1>2. /\ UNCHANGED <<payloadFile, out, returned>>
      /\ once = "done" => once' = "done"
      /\ \A u \in Threads \ {t} : pc'[u] = pc[u]
  BY <1>1 DEF Call, InitIfNeeded, Initialise, ClearEnvVars, LoadSettings, ExportEnvVars,
              SetupLogFile, Goto, TypeInv, TypeOK, streams
<1>3. PayloadPlace(t)'
  <2>1. CASE Call(t)
    <3>1. pc'[t] \in {"init", "pready"}
      BY <1>1, <2>1 DEF Call, EntryPoint, Goto, TypeInv, TypeOK
    <3>2. QED  BY <3>1 DEF PayloadPlace
  <2>2. CASE InitIfNeeded(t)
    <3>1. pc'[t] \in {"clear", "decide"} \/ (pc[t] = "pinit" /\ pc'[t] = "pcheck")
      BY <1>1, <2>2 DEF InitIfNeeded, AfterOnce, Goto, TypeInv, TypeOK
    <3>2. QED  BY <1>2, <3>1 DEF PayloadPlace, PayloadInv
  <2>3. CASE Initialise(t)
    <3>1. pc'[t] \in {"load", "export", "setup", "decide", "pcheck"} /\ once # "done"
      BY <1>1, <2>3 DEF Initialise, ClearEnvVars, LoadSettings, ExportEnvVars, SetupLogFile,
                        AfterOnce, Goto, OnceInv, InsideOnce, TypeInv, TypeOK
    <3>2. payloadFile = "closed"  BY <1>1, <3>1 DEF FilesRight
    <3>3. QED  BY <1>2, <3>1, <3>2 DEF PayloadPlace
  <2>4. QED  BY <2>1, <2>2, <2>3
<1>4. QED  BY <1>2, <1>3, RecordAside

(* Nor do the writers of lines.                                              *)
LEMMA WriteRecord ==
  ASSUME OneReporter, WorkingInv, WorkingInv', PayloadInv, [Next]_vars, NEW t \in Threads,
         Route(t) \/ Write(t)
  PROVE  PayloadInv'
<1>1. /\ TypeInv /\ once = "done"
  BY DEF WorkingInv, BaseInv, RouteInv, RoutedRight, AfterOnceOnly, Writing, Route, Discard,
         DivertStatus, Accept, Write, LockSplit, WriteSplitLine, UnlockSplit, InsertUnified,
         PrintLine, ReturnPlain
<1>2. UNCHANGED <<once, payloadFile>>
  BY DEF Route, Discard, DivertStatus, Accept, Write, LockSplit, WriteSplitLine, UnlockSplit,
         InsertUnified, PrintLine, ReturnPlain, streams
<1>3. /\ \A u \in Threads \ {t} : pc'[u] = pc[u]
      /\ pc'[t] \in {"idle", "pready"} \cup Writing
  BY <1>1 DEF Route, Discard, DivertStatus, Accept, Write, LockSplit, WriteSplitLine,
              UnlockSplit, InsertUnified, PrintLine, ReturnPlain, Return, Plain, Writing, Goto,
              TypeInv, TypeOK
<1>4. PayloadPlace(t)'  BY <1>3 DEF PayloadPlace, Writing
<1>5. out'["payload"] = out["payload"]
  <2>1. call[t].id \in Ids /\ call[t].id # "payload" /\ "payload" \in Sinks
    BY <1>1, ConstantsAssumption DEF Message, Sinks, TypeInv, TypeOK
  <2>2. \A sink, piece : sink # "payload" /\ Put(sink, piece) => out'["payload"] = out["payload"]
    BY <1>1, <2>1 DEF Put, TypeInv, TypeOK
  <2>3. \/ out' = out
        \/ \E sink \in {call[t].id, "unified", "stdout"} : \E line : \E what :
             Put(sink, Piece(t, line, what))
    BY DEF Route, Discard, DivertStatus, Accept, Write, LockSplit, WriteSplitLine, UnlockSplit,
           InsertUnified, PrintLine, ReturnPlain
  <2>4. QED  BY <2>1, <2>2, <2>3
<1>6. \/ returned' = returned
      \/ \E path \in {"disabled", "filtered", "split", "unified", "stdout"} : Return(t, path)
  BY DEF Route, Discard, DivertStatus, Accept, Write, LockSplit, WriteSplitLine, UnlockSplit,
         InsertUnified, PrintLine, ReturnPlain
<1>7. \/ returned' = returned
      \/ \A r \in Returns :
           r \in returned' => r \in returned \/ r.path \notin {"payload", "dropped"}
  BY <1>1, <1>6, ReturnRecords
<1>8. QED  BY <1>1, <1>2, <1>3, <1>4, <1>5, <1>7, RecordAside

(* The record is written.                                                   *)
LEMMA WritePayloadRecord ==
  ASSUME OneReporter, WorkingInv, WorkingInv', PayloadInv, [Next]_vars, NEW t \in Threads,
         WritePayload(t)
  PROVE  PayloadInv'
<1>1. /\ TypeInv /\ pc[t] = "pwrite" /\ fs = "ok" /\ payloadFile = "good" /\ once = "done"
      /\ IsStatus(call[t])
  BY DEF WritePayload, WorkingInv, BaseInv, DeliveryInv, FilesWork, PayloadInv,
         PayloadPlace, RouteInv, RoutedRight, AfterOnceOnly, Reporting
<1>2. /\ payloadFile' = "good" /\ once' = "done"
      /\ Return(t, "payload") /\ Put("payload", Piece(t, 0, RecordKind(call[t])))
  BY <1>1 DEF WritePayload, Accepts, AfterWrite
<1>3. PICK new \in Pieces : new = Piece(t, 0, RecordKind(call[t]))
  <2>1. RecordKind(call[t]) \in Parts  BY DEF RecordKind, Parts
  <2>2. call[t] \in Message /\ calls[t] \in 1..MaxCalls
    BY <1>1 DEF TypeInv, TypeOK, InCall
  <2>3. Piece(t, 0, RecordKind(call[t])) \in Pieces  BY <2>1, <2>2 DEF Piece, Pieces
  <2>4. QED  BY <2>3
<1>4. new.by = t /\ new.n = calls[t] /\ new.part = RecordKind(call[t])
  BY <1>3 DEF Piece
<1>5. /\ out["payload"] \in Seq(Pieces) /\ "payload" \in Sinks
      /\ out'["payload"] = Append(out["payload"], new)
  BY <1>1, <1>2, <1>3 DEF Put, Sinks, TypeInv, TypeOK
<1>6. Touches(t, "payload") /\ out'["payload"] # <<>>
  BY <1>1, <1>4, <1>5 DEF Touches
<1>7. /\ pc'[t] = "idle" /\ \A u \in Threads \ {t} : pc'[u] = pc[u]
      /\ \A r \in Returns :
           r \in returned' =>
             \/ r \in returned
             \/ r.by = t /\ r.n = calls[t] /\ r.msg = call[t] /\ r.path = "payload"
  BY <1>1, <1>2, ReturnRecords
<1>8. PayloadPlace(t)'  BY <1>7 DEF PayloadPlace
<1>9. ASSUME NEW r \in Returns, r.by = t, r.n = calls[t], r.msg = call[t]
      PROVE  Recorded(r)'
  <2> DEFINE last == Len(out["payload"]) + 1
  <2>1. Own(t, "payload") = {}
    BY <1>1, <1>5 DEF WorkingInv, DeliveryInv, Halfway, Writing, Inserting
  <2>2. \A i \in DOMAIN out["payload"] :
          ~(out["payload"][i].by = t /\ out["payload"][i].n = calls[t])
    BY <2>1 DEF Own, Indices
  <2>3. PICK index \in Nat : index = last  BY <1>5
  <2>4. /\ DOMAIN out'["payload"] = DOMAIN out["payload"] \cup {index}
        /\ index \notin DOMAIN out["payload"] /\ out'["payload"][index] = new
        /\ \A i \in DOMAIN out["payload"] : out'["payload"][i] = out["payload"][i]
    BY <1>5, <2>3
  <2>5. PiecesOf(r, "payload")' = {index}
    <3>1. \A i \in DOMAIN out'["payload"] :
            out'["payload"][i].by = t /\ out'["payload"][i].n = calls[t] <=> i = index
      BY <1>4, <2>2, <2>4
    <3>2. QED  BY <1>9, <2>4, <3>1 DEF PiecesOf
  <2>6. new.part = (IF r.msg.api = "Payload" \/ r.msg.ok THEN "record" ELSE "error")
    BY <1>4, <1>9 DEF RecordKind
  <2>7. QED  BY <2>4, <2>5, <2>6 DEF Recorded
<1>10. /\ payloadFile' \in {"closed", "good"}
       /\ payloadFile' = "closed" => out'["payload"] = <<>>
       /\ payloadFile' # payloadFile => IsStatus(call[t])
       /\ out'["payload"] = <<>> => out["payload"] = <<>>
       /\ once' # "done" => returned' = {}
  BY <1>1, <1>2, <1>6
<1>11. \A r \in Returns :
         r \in returned' =>
           \/ r \in returned
           \/ once' = "done" /\ (r.path \in {"payload", "dropped"} => Recorded(r)')
  BY <1>2, <1>7, <1>9
<1>12. QED  BY <1>6, <1>7, <1>8, <1>10, <1>11, RecordStep

(* The steps of a payload, from the look at the stream to the record.        *)
LEMMA PayloadRecord ==
  ASSUME OneReporter, WorkingInv, WorkingInv', PayloadInv, [Next]_vars, NEW t \in Threads,
         Payload(t)
  PROVE  PayloadInv'
<1>1. /\ TypeInv /\ fs = "ok" /\ PayloadPlace(t) /\ payloadFile \in {"closed", "good"}
      /\ UNCHANGED <<once, logger>>
      /\ \A u \in Threads \ {t} : pc'[u] = pc[u]
  BY DEF WorkingInv, BaseInv, DeliveryInv, FilesWork, PayloadInv, TypeInv, TypeOK, Payload,
         CheckPayloadFile, BeginOpenPayload, EndOpenPayload, ConfirmPayloadFile, WritePayload,
         Return, Goto, settings
<1>2. RoutedRight(t)  BY DEF WorkingInv, RouteInv
<1>3. CASE CheckPayloadFile(t)
  <2>1. /\ UNCHANGED <<payloadFile, out, returned>>
        /\ pc'[t] = (IF payloadFile = "good" THEN "pwrite" ELSE "pinit")
    BY <1>1, <1>3 DEF CheckPayloadFile, PayloadFileReady, Goto, TypeInv, TypeOK, streams
  <2>2. PayloadPlace(t)'  BY <1>1, <2>1 DEF PayloadPlace
  <2>3. QED  BY <1>1, <2>1, <2>2, RecordAside
<1>4. CASE BeginOpenPayload(t)
  <2>1. /\ pc[t] = "pcheck" /\ payloadFile = "closed" /\ once = "done" /\ out' = out
    BY <1>1, <1>2, <1>4 DEF BeginOpenPayload, PayloadPlace, RoutedRight, AfterOnceOnly
  <2>2. payloadFile' = payloadFile  BY <1>4, <2>1 DEF BeginOpenPayload
  <2>3. \/ ~logger.enabled /\ Return(t, "disabled")
        \/ logger.dir = "none" /\ Return(t, "dropped")
        \/ returned' = returned /\ Goto(t, "popen")
    BY <1>4, <2>1 DEF BeginOpenPayload
  <2>4. pc'[t] \in {"idle", "popen"}
    BY <1>1, <2>3 DEF Return, Goto, TypeInv, TypeOK
  <2>5. PayloadPlace(t)'  BY <2>1, <2>2, <2>4 DEF PayloadPlace
  <2>6. Touches(t, "payload")  BY <2>1 DEF Touches
  <2>7. \A r \in Returns :
          r \in returned' => r \in returned \/ ~logger.enabled \/ logger.dir = "none"
    BY <2>3
  <2>8. \A r \in Returns :
          r \in returned' =>
            \/ r \in returned
            \/ once' = "done" /\ (r.path \in {"payload", "dropped"} => Recorded(r)')
    BY <1>1, <2>1, <2>7 DEF Recorded
  <2>9. /\ payloadFile' \in {"closed", "good"}
        /\ payloadFile' = "closed" => out'["payload"] = <<>>
        /\ once' # "done" => returned' = {}
    BY <1>1, <2>1, <2>2 DEF PayloadInv
  <2>10. QED  BY <1>1, <2>1, <2>2, <2>5, <2>6, <2>8, <2>9, RecordStep
<1>5. CASE EndOpenPayload(t)
  <2>1. /\ pc[t] = "popen" /\ payloadFile = "closed" /\ out["payload"] = <<>>
        /\ once = "done" /\ IsStatus(call[t])
    BY <1>1, <1>2, <1>5 DEF EndOpenPayload, PayloadPlace, PayloadInv, RoutedRight,
                            AfterOnceOnly, Reporting
  <2>2. /\ payloadFile' = "good" /\ returned' = returned /\ pc'[t] = "pconfirm"
        /\ out'["payload"] = out["payload"]
    BY <1>1, <1>5, <2>1 DEF EndOpenPayload, Goto, Sinks, TypeInv, TypeOK
  <2>3. PayloadPlace(t)'  BY <2>2 DEF PayloadPlace
  <2>4. Touches(t, "payload")  BY <2>2 DEF Touches
  <2>5. QED  BY <1>1, <2>1, <2>2, <2>3, <2>4, RecordStep
<1>6. CASE ConfirmPayloadFile(t)
  <2>1. /\ UNCHANGED <<payloadFile, out, returned>> /\ pc'[t] = "pwrite" /\ payloadFile = "good"
    BY <1>1, <1>6 DEF ConfirmPayloadFile, PayloadFileReady, PayloadPlace, Goto, TypeInv, TypeOK,
                      streams
  <2>2. PayloadPlace(t)'  BY <2>1 DEF PayloadPlace
  <2>3. QED  BY <1>1, <2>1, <2>2, RecordAside
<1>7. QED  BY <1>3, <1>4, <1>5, <1>6, WritePayloadRecord DEF Payload

(* PayloadInv is inductive.                                                  *)
LEMMA StepRecord ==
  ASSUME ~FsMayFail, OneReporter
  PROVE  WorkingInv /\ PayloadInv /\ [Next]_vars => PayloadInv'
<1> SUFFICES ASSUME WorkingInv, PayloadInv, [Next]_vars PROVE PayloadInv'  OBVIOUS
<1>1. WorkingInv'  BY StepWorking
<1>2. CASE UNCHANGED vars
  <2>1. UNCHANGED <<once, logger, payloadFile, pc, out, returned>>
    BY <1>2 DEF vars, settings, streams
  <2>2. PayloadRecorded'  BY <2>1 DEF PayloadInv, PayloadRecorded, PiecesOf
  <2>3. QED  BY <2>1, <2>2 DEF PayloadInv, PayloadPlace
<1>3. QED
  BY <1>1, <1>2, CallRecord, WriteRecord, PayloadRecord DEF Next, Work, Finished, FsChange

(* Where the file system works and one thread reports payloads, every STATUS   *)
(* call that returned left exactly one record, an ERROR one if its JSON was    *)
(* malformed, when there is a directory for the file (PayloadRecorded).  The   *)
(* file is found closed only while it is empty, so opening it destroys         *)
(* nothing; with a second reporter that fails, as ngen_payload_race shows.     *)
THEOREM PayloadRecordedAlways ==
  ASSUME ~FsMayFail, OneReporter
  PROVE  Spec => []PayloadRecorded
<1>1. Init => WorkingInv /\ PayloadInv
  <2> SUFFICES ASSUME Init PROVE WorkingInv /\ PayloadInv  OBVIOUS
  <2>1. /\ BaseInv /\ RouteInv  BY InitBase, InitRoute
  <2>2. FollowInv  BY DEF Init, FollowInv, FollowsConfiguration, Writing
  <2>3. DeliveryInv  BY InitDelivery
  <2>4. PayloadInv
    BY DEF Init, PayloadInv, PayloadPlace, PayloadRecorded, Sinks
  <2>5. QED  BY <2>1, <2>2, <2>3, <2>4 DEF WorkingInv
<1>2. WorkingInv /\ PayloadInv /\ [Next]_vars => (WorkingInv /\ PayloadInv)'
  BY StepWorking, StepRecord
<1>3. PayloadInv => PayloadRecorded  BY DEF PayloadInv
<1>4. QED  BY <1>1, <1>2, <1>3, PTL DEF Spec
=============================================================================
