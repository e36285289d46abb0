----------------------------- MODULE EwtsLevels -----------------------------
(***************************************************************************)
(* The log levels that every EWTS runtime shares, and how the ngen logger  *)
(* turns the text of a configuration value into one of them.               *)
(*                                                                         *)
(* A configuration value (an entry of "modules" in ngen_logging.json, or   *)
(* the EWTS_LOG_LEVEL variable) is abstracted to what the code looks at:   *)
(* whether it consists of digits only, the number it then denotes, and the *)
(* lower-cased word it is otherwise.                                       *)
(***************************************************************************)
EXTENDS Integers

NOTSET  == 0
DEBUG   == 10
PERFORM == 15
INFO    == 20
WARNING == 30
SEVERE  == 40
FATAL   == 50
STATUS  == 60

CanonicalLevels ==
  {NOTSET, DEBUG, PERFORM, INFO, WARNING, SEVERE, FATAL, STATUS}

(* The words that some part of EWTS knows for a level.  The empty one, which is *)
(* also a variable that is not set, and "verbose" stand for all the others.    *)
LevelWords ==
  {"debug", "performance", "perform", "info", "warning", "warn", "error", "severe", "fatal",
   "critical", "status", "notset", "none", "", "verbose"}

RawLevel == [digits : BOOLEAN, value : Nat, name : LevelWords]

(* Mutant: out-of-range numbers are clamped, those between two levels kept. *)
ClampRange(v) == IF v < NOTSET THEN NOTSET ELSE IF v > STATUS THEN STATUS ELSE v

(* The smallest canonical level that is not below v; STATUS when v is       *)
(* beyond FATAL.                                                           *)
ClampCanonicalLevel(v) ==
  IF v <= NOTSET THEN NOTSET
  ELSE IF v <= DEBUG THEN DEBUG
  ELSE IF v <= PERFORM THEN PERFORM
  ELSE IF v <= INFO THEN INFO
  ELSE IF v <= WARNING THEN WARNING
  ELSE IF v <= SEVERE THEN SEVERE
  ELSE IF v <= FATAL THEN FATAL
  ELSE STATUS

NamedLevel(name) ==
  IF name = "debug" THEN DEBUG
  ELSE IF name \in {"performance", "perform"} THEN PERFORM
  ELSE IF name = "info" THEN INFO
  ELSE IF name \in {"warning", "warn"} THEN WARNING
  ELSE IF name \in {"error", "severe"} THEN SEVERE
  ELSE IF name \in {"fatal", "critical"} THEN FATAL
  ELSE IF name = "status" THEN STATUS
  ELSE IF name \in {"notset", "none"} THEN NOTSET
  ELSE INFO

ParseLevel(raw) ==
  IF raw.digits THEN ClampCanonicalLevel(raw.value) ELSE NamedLevel(raw.name)

(* A level variable as the C and C++ runtimes read it (parse_level): numbers  *)
(* as they are, fewer words than ngen knows, NOTSET for anything else.        *)
EnvLevelName(name) ==
  IF name = "debug" THEN DEBUG
  ELSE IF name = "perform" THEN PERFORM
  ELSE IF name = "info" THEN INFO
  ELSE IF name \in {"warn", "warning"} THEN WARNING
  ELSE IF name \in {"error", "severe"} THEN SEVERE
  ELSE IF name \in {"fatal", "critical"} THEN FATAL
  ELSE IF name = "status" THEN STATUS
  ELSE NOTSET

EnvLevel(raw) == IF raw.digits THEN raw.value ELSE EnvLevelName(raw.name)
=============================================================================
