---------------------------- MODULE MCNgenLogger ----------------------------
(* Small instances of NgenLogger: an excerpt of the module registry, the      *)
(* messages the threads send and the worlds the process starts in.           *)
EXTENDS NgenMessageLog, TLC

KeyIds == <<[key |-> "ngen", id |-> "NGEN"], [key |-> "lasam", id |-> "LASAM"],
            [key |-> "pet", id |-> "PET"], [key |-> "cfe-s", id |-> "CFE"],
            [key |-> "cfe", id |-> "CFE"]>>

KeySet == {"ngen", "lasam", "pet", "cfe-s", "cfe"}
IdSet == {"NGEN", "LASAM", "PET", "CFE", "GHOST"}     \* no registry entry has GHOST
Lower == [k \in KeySet |-> k]

Word(name) == [digits |-> FALSE, value |-> 0, name |-> name]
Number(v)  == [digits |-> TRUE, value |-> v, name |-> ""]

CleanEnv == [bridge |-> "unset", enabled |-> "unset", level |-> [id \in IdSet |-> Absent]]

(* No results directory, no EWTS_LOG_DIR, nothing inherited.                  *)
Bare ==
  [resultsDir |-> FALSE, logDir |-> FALSE, defaultLevel |-> Word(""), file |-> "missing",
   ewtsEnabled |-> "absent", loggingEnabled |-> "absent", split |-> "absent",
   listed |-> {}, modules |-> [k \in KeySet |-> Word("")], env |-> CleanEnv]

(* A usable configuration file that lists the given keys.                     *)
Configured(w, modules) ==
  [w EXCEPT !.resultsDir = TRUE, !.file = "ok", !.listed = DOMAIN modules,
                !.modules = modules @@ w.modules]

SplitWorld == [Configured(Bare, "lasam" :> Number(25)) EXCEPT !.split = "true"]
UnifiedWorld == Configured(Bare, "lasam" :> Word("debug"))

Msg(api, id, level, lines) ==
  [api |-> api, id |-> id, level |-> level, lines |-> lines, ok |-> TRUE]
Malformed(m) == [m EXCEPT !.ok = FALSE]
Symmetry == Permutations(Threads)
-----------------------------------------------------------------------------
(* ngen_delivery: split files and standard output, one thread also reports    *)
(* status.                                                                   *)
DeliveryWorlds == {SplitWorld, Bare}
DeliverySends ==
  [t \in Threads |->
     {Msg("Log", "LASAM", 30, {1, 3}), Msg("Bridge", "PET", 10, {1})} \cup
     IF t = CHOOSE u \in Threads : TRUE
     THEN {Msg("Payload", "PET", STATUS, {1}), Malformed(Msg("Bridge", "PET", STATUS, {1}))}
     ELSE {Msg("Log", "LASAM", 40, {})}]
-----------------------------------------------------------------------------
(* ngen_policy: configuration files that list some modules, with names,       *)
(* numbers between two levels and unknown words; files that are missing or   *)
(* malformed; EWTS_LOG_LEVEL set or not; inherited level variables; two keys  *)
(* of one id, listed one alone or both.                                      *)
Inherited ==
  [CleanEnv EXCEPT !.level["LASAM"] = FATAL, !.level["PET"] = DEBUG, !.enabled = "0"]

PolicyWorlds ==
  LET listing == {"lasam" :> Number(25) @@ "ngen" :> Word("perform"),
                  "lasam" :> Word("verbose") @@ "pet" :> Number(70),
                  "cfe-s" :> Word("debug"), "cfe-s" :> Word("debug") @@ "cfe" :> Number(35)}
      files == {Configured([Bare EXCEPT !.split = s, !.env = Inherited], m) :
                  s \in {"absent", "true"}, m \in listing}
      switched == {[w EXCEPT !.ewtsEnabled = e, !.loggingEnabled = "false"] :
                     w \in files, e \in Opt}
      unusable == {[Bare EXCEPT !.resultsDir = r, !.file = "malformed", !.logDir = d,
                                !.split = "true", !.listed = {"pet"}] :
                     r \in BOOLEAN, d \in BOOLEAN}
  IN switched \cup {[w EXCEPT !.defaultLevel = d] : w \in unusable \cup {UnifiedWorld},
                                                   d \in {Word("severe"), Number(12)}}

PolicySends ==
  [t \in Threads |->
     {Msg("Log", "LASAM", 20, {1}), Msg("Log", "LASAM", 30, {2})} \cup
     {Msg("LogNgenF", "NGEN", level, {1}) : level \in {10, 15, 40}} \cup
     {Msg("LogF", "PET", 50, {1}), Msg("LogF", "PET", STATUS, {1}),
      Msg("Log", "CFE", 10, {1}), Msg("Bridge", "GHOST", 15, {1}), Msg("Bridge", "GHOST", STATUS, {1})}]
-----------------------------------------------------------------------------
(* ngen_liveness: messages of two lines for one split file, one line for         *)
(* another, and payload records.                                             *)
LivenessWorlds == {SplitWorld, Bare}
LivenessSends ==
  [t \in Threads |-> {Msg("Log", "LASAM", 30, {1, 2}), Msg("LogF", "PET", 20, {1}),
                      Msg("Payload", "PET", STATUS, {1})}]

(* ngen_unified_interleaved, ngen_payload_race: two threads, the unified file *)
UnifiedWorlds == {UnifiedWorld}
UnifiedSends == [t \in Threads |-> {Msg("Bridge", "LASAM", 30, {1, 2})}]
RaceSends == [t \in Threads |-> {Msg("Payload", "PET", STATUS, {1})}]
=============================================================================
