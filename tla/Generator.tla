----------------------------- MODULE Generator -----------------------------
(***************************************************************************)
(* tools/generate_language_constants.py: reads the specification files      *)
(* under spec/, validates them, and writes a table per language, one file    *)
(* after the other, over what earlier runs wrote.  A run may be cut short at *)
(* any point, in the middle of a file too.  The specification files may be   *)
(* edited at any time: a run reads them once, before it writes anything, so  *)
(* each run is given any of the specifications.                             *)
(*                                                                         *)
(* A table is a function from positions in a specification to the entries    *)
(* taken from them: positions keep the order that the searches in the        *)
(* generated code depend on.  Keys, ids and names stand for themselves,      *)
(* stripped; descriptions, banners and the text around the tables are left   *)
(* out.                                                                     *)
(***************************************************************************)
EXTENDS Integers, Sequences

CONSTANTS
  Specifications,  \* what the specification files may hold
  FirstSpecification, \* what the files of the repository were generated from
  UpperCaseIds,    \* texts that are upper case and not longer than 8
  IdentFromKey,    \* [keys -> identifiers], _ident_from_key
  UpperCase,       \* [texts -> texts], str.upper of names and values of statuses
  FirstSixteen,    \* [texts -> texts], what a character(len=16) keeps of them
  MaxRuns          \* bound: runs of the generator

Languages == {"c", "cpp", "fortran", "python"}
Targets == {"all", "modules", "log-levels", "payload-status"}

(* The order in which main writes.  module_keys.c stands for both of C's.      *)
ModuleFiles ==
  <<"module_keys.c", "module_keys.hpp", "module_keys.f90", "module_keys.py",
    "module_constants.h", "module_constants.hpp", "module_constants.f90", "modules.py",
    "ngen_module_constants.hpp", "ngen_module_keys.hpp">>
LevelFiles == <<"log_levels.h", "log_levels.hpp", "log_levels.f90", "log_levels.py">>
StatusFiles == <<"payload_status.h", "payload_status.hpp", "payload_status.f90">>

(* Mutant: the headers of the ngen integration are written by a full run only. *)
PlanPerLanguage(target) ==
  CASE target = "all" -> ModuleFiles \o LevelFiles \o StatusFiles
    [] target = "modules" -> SubSeq(ModuleFiles, 1, 8)
    [] target = "log-levels" -> LevelFiles
    [] target = "payload-status" -> StatusFiles

Plan(target) ==
  CASE target = "all" -> ModuleFiles \o LevelFiles \o StatusFiles
    [] target = "modules" -> ModuleFiles
    [] target = "log-levels" -> LevelFiles
    [] target = "payload-status" -> StatusFiles

Files == {Plan("all")[i] : i \in 1..Len(Plan("all"))}

Module == [key : STRING, ewts_id : STRING, language : STRING]
Pair(S) == [name : STRING, value : S]
Specification ==
  [modules : Seq(Module), levels : Seq(Pair(Int)), statuses : Seq(Pair(STRING))]

ASSUME ConstantsAssumption ==
  /\ Specifications \subseteq Specification
  /\ FirstSpecification \in Specifications
  /\ UpperCaseIds \subseteq STRING
  /\ IdentFromKey \in [DOMAIN IdentFromKey -> STRING]
  /\ UpperCase \in [DOMAIN UpperCase -> STRING]
  /\ FirstSixteen \in [DOMAIN FirstSixteen -> STRING]
  /\ MaxRuns \in Nat

VARIABLES
  tables,         \* the generated files
  target, source, \* of the last run: what it was asked for, what it read
  written,        \* how many files of its plan it has written
  status,         \* "writing", "done", or "stopped"
  runs            \* how many runs have been started

vars == <<tables, target, source, written, status, runs>>
-----------------------------------------------------------------------------
(* Loading and validation                                                   *)

(* _load_registry                                                            *)
WellFormed(m) ==
  /\ m.key # "" /\ m.ewts_id # "" /\ m.language \in Languages
  /\ m.ewts_id \in UpperCaseIds

UniqueKeys(modules) ==
  \A i, j \in DOMAIN modules : modules[i].key = modules[j].key => i = j

(* Mutant: keys need only be unique within a language.                        *)
ValidPerLanguage(modules) ==
  /\ \A i \in DOMAIN modules : WellFormed(modules[i])
  /\ \A i, j \in DOMAIN modules :
       modules[i].key = modules[j].key /\ modules[i].language = modules[j].language => i = j

ValidRegistry(modules) ==
  /\ \A i \in DOMAIN modules : WellFormed(modules[i])
  /\ UniqueKeys(modules)

(* A Python dict keeps the place of a name's first pair and the value of the   *)
(* last.                                                                     *)
Dict(pairs) ==
  LET last(n) == CHOOSE i \in DOMAIN pairs :
                   pairs[i].name = n /\ \A j \in DOMAIN pairs : pairs[j].name = n => j <= i
  IN [i \in {i \in DOMAIN pairs : \A j \in DOMAIN pairs : pairs[j].name = pairs[i].name => i <= j}
        |-> [name |-> pairs[i].name, value |-> pairs[last(pairs[i].name)].value]]

(* _load_log_levels and _load_payload_statuses                                *)
ValidLevels(levels) == levels # <<>> /\ \A i \in DOMAIN levels : levels[i].name # ""
ValidStatuses(statuses) ==
  statuses # <<>> /\ \A i \in DOMAIN statuses : statuses[i].name # "" /\ statuses[i].value # ""

(* Each target loads only the files it needs.                                 *)
Accepted(t, spec) ==
  /\ t \in {"all", "modules"} => ValidRegistry(spec.modules)
  /\ t \in {"all", "log-levels"} => ValidLevels(spec.levels)
  /\ t \in {"all", "payload-status"} => ValidStatuses(spec.statuses)

(* INFO if there is one, else the first name of the lowest value.             *)
DefaultLevelName(levels) ==
  IF \E i \in DOMAIN levels : levels[i].name = "INFO" THEN "INFO"
  ELSE levels[CHOOSE i \in DOMAIN levels : \A j \in DOMAIN levels :
                \/ levels[i].value < levels[j].value
                \/ levels[i].value = levels[j].value /\ i <= j].name
-----------------------------------------------------------------------------
(* The tables                                                               *)
ModulesForLanguage(modules, language) ==
  [i \in {i \in DOMAIN modules : modules[i].language = language} |-> modules[i]]

CModuleKeys(modules) == ModulesForLanguage(modules, "c")
CppModuleKeys(modules) == ModulesForLanguage(modules, "cpp")
FortranModuleKeys(modules) == ModulesForLanguage(modules, "fortran")
NgenModuleKeys(modules) == modules

(* key_to_id keeps the last entry of a key, id_to_keys all of an id.           *)
PythonModuleKeys(modules) ==
  LET table == ModulesForLanguage(modules, "python")
      last(k) == CHOOSE i \in DOMAIN table :
                   table[i].key = k /\ \A j \in DOMAIN table : table[j].key = k => j <= i
  IN [keyToId |-> [k \in {table[i].key : i \in DOMAIN table} |-> table[last(k)].ewts_id],
      idToKeys |-> [id \in {table[i].ewts_id : i \in DOMAIN table} |->
                      [i \in {i \in DOMAIN table : table[i].ewts_id = id} |-> table[i].key]]]

(* EWTS_KEY_<identifier> and EWTS_ID_<identifier>, <identifier>_KEY and _ID    *)
Constants(table) ==
  [i \in DOMAIN table |->
     [ident |-> IdentFromKey[table[i].key], key |-> table[i].key, ewts_id |-> table[i].ewts_id]]
CModuleConstants(modules) == Constants(ModulesForLanguage(modules, "c"))
CppModuleConstants(modules) == Constants(ModulesForLanguage(modules, "cpp"))
FortranModuleConstants(modules) == Constants(ModulesForLanguage(modules, "fortran"))
PythonModuleConstants(modules) == Constants(ModulesForLanguage(modules, "python"))
NgenModuleConstants(modules) == Constants(modules)

(* The generated tests for a level, with their place among them: sorted by     *)
(* value in C, C++ and Fortran, where equal values keep their order, as they    *)
(* are in Python.                                                            *)
Sorted(levels) ==
  [i \in DOMAIN levels |->
     [name |-> levels[i].name, value |-> levels[i].value,
      place |-> {j \in DOMAIN levels :
                   \/ levels[j].value < levels[i].value
                   \/ levels[j].value = levels[i].value /\ j <= i}]]
LevelTable(cases, levels) == [cases |-> cases, default |-> DefaultLevelName(levels)]

(* Mutant: cases with equal values end up in reverse.                         *)
CppLevelsReversed(levels) ==
  LevelTable([i \in DOMAIN levels |->
                [Sorted(levels)[i] EXCEPT !.place =
                   {j \in DOMAIN levels : \/ levels[j].value < levels[i].value
                                          \/ levels[j].value = levels[i].value /\ j >= i}]], levels)

CLogLevels(levels) == LevelTable(Sorted(levels), levels)
CppLogLevels(levels) == LevelTable(Sorted(levels), levels)
FortranLogLevels(levels) == LevelTable(Sorted(levels), levels)
PythonLogLevels(levels) ==
  LevelTable([i \in DOMAIN levels |->
                [name |-> levels[i].name, value |-> levels[i].value,
                 place |-> {j \in DOMAIN levels : j <= i}]], levels)

(* Statuses are written in upper case, so that two names may become one.        *)
UpperCased(statuses) ==
  [i \in DOMAIN statuses |->
     [name |-> UpperCase[statuses[i].name], value |-> UpperCase[statuses[i].value]]]
CPayloadStatus(statuses) == Dict(UpperCased(statuses))
CppPayloadStatus(statuses) == Dict(UpperCased(statuses))
FortranPayloadStatus(statuses) == Dict(UpperCased(statuses))

Generated(f, spec) ==
  LET modules == spec.modules
      levels == Dict(spec.levels)
  IN CASE f = "module_keys.c" -> CModuleKeys(modules)
       [] f = "module_keys.hpp" -> CppModuleKeys(modules)
       [] f = "module_keys.f90" -> FortranModuleKeys(modules)
       [] f = "module_keys.py" -> PythonModuleKeys(modules)
       [] f = "module_constants.h" -> CModuleConstants(modules)
       [] f = "module_constants.hpp" -> CppModuleConstants(modules)
       [] f = "module_constants.f90" -> FortranModuleConstants(modules)
       [] f = "modules.py" -> PythonModuleConstants(modules)
       [] f = "ngen_module_constants.hpp" -> NgenModuleConstants(modules)
       [] f = "ngen_module_keys.hpp" -> NgenModuleKeys(modules)
       [] f = "log_levels.h" -> CLogLevels(levels)
       [] f = "log_levels.hpp" -> CppLogLevels(levels)
       [] f = "log_levels.f90" -> FortranLogLevels(levels)
       [] f = "log_levels.py" -> PythonLogLevels(levels)
       [] f = "payload_status.h" -> CPayloadStatus(spec.statuses)
       [] f = "payload_status.hpp" -> CppPayloadStatus(spec.statuses)
       [] f = "payload_status.f90" -> FortranPayloadStatus(spec.statuses)

(* A file that is cut off, or as it was written                               *)
Torn == [torn |-> TRUE, table |-> <<>>]
Whole(table) == [torn |-> FALSE, table |-> table]

(* max() of an empty list of lengths raises.                                  *)
Raises(f, spec) ==
  f = "module_keys.f90" /\ DOMAIN ModulesForLanguage(spec.modules, "fortran") = {}
-----------------------------------------------------------------------------
(* Runs                                                                     *)
Given(t, spec) ==
  /\ status # "writing" /\ runs < MaxRuns
  /\ target' = t /\ source' = spec /\ written' = 0 /\ runs' = runs + 1
  /\ UNCHANGED tables

(* Mutant: nothing is validated.                                             *)
StartUnchecked(t, spec) == Given(t, spec) /\ status' = "writing"

(* main up to the first file: nothing is written unless all is valid.          *)
Start(t, spec) ==
  /\ Accepted(t, spec)
  /\ Given(t, spec) /\ status' = "writing"

Reject(t, spec) ==
  /\ ~Accepted(t, spec)
  /\ Given(t, spec) /\ status' = "stopped"

NextFile == Plan(target)[written + 1]

(* Mutant: what an earlier run has written stays.                            *)
WriteMissing ==
  /\ status = "writing" /\ written < Len(Plan(target))
  /\ ~Raises(NextFile, source)
  /\ tables' = IF tables[NextFile] # Torn THEN tables
               ELSE [tables EXCEPT ![NextFile] = Whole(Generated(NextFile, source))]
  /\ written' = written + 1
  /\ UNCHANGED <<target, source, status, runs>>

WriteFile ==
  /\ status = "writing" /\ written < Len(Plan(target))
  /\ ~Raises(NextFile, source)
  /\ tables' = [tables EXCEPT ![NextFile] = Whole(Generated(NextFile, source))]
  /\ written' = written + 1
  /\ UNCHANGED <<target, source, status, runs>>

Fail ==
  /\ status = "writing" /\ written < Len(Plan(target))
  /\ Raises(NextFile, source)
  /\ status' = "stopped"
  /\ UNCHANGED <<tables, target, source, written, runs>>

(* The run is interrupted, or the disk is full: write_text truncates first.    *)
Interrupt ==
  /\ status = "writing"
  /\ \/ UNCHANGED tables
     \/ written < Len(Plan(target)) /\ tables' = [tables EXCEPT ![NextFile] = Torn]
  /\ status' = "stopped"
  /\ UNCHANGED <<target, source, written, runs>>

Finish ==
  /\ status = "writing" /\ written = Len(Plan(target))
  /\ status' = "done"
  /\ UNCHANGED <<tables, target, source, written, runs>>

Init ==
  /\ source = FirstSpecification
  /\ tables = [f \in Files |-> Whole(Generated(f, FirstSpecification))]
  /\ target = "all" /\ written = 0 /\ status = "stopped" /\ runs = 0

Next ==
  \/ \E t \in Targets, spec \in Specifications : Start(t, spec) \/ Reject(t, spec)
  \/ WriteFile \/ Fail \/ Interrupt \/ Finish

Spec == Init /\ [][Next]_vars
-----------------------------------------------------------------------------
(* What the generated code finds in a table                                   *)
First(I) == CHOOSE i \in I : \A j \in I : i <= j

(* EwtsIdFromKey and its like: the first entry with the key, if any            *)
IdFromKey(table, k) ==
  LET I == {i \in DOMAIN table : table[i].key = k} IN
  IF I = {} THEN {} ELSE {table[First(I)].ewts_id}

PythonIdFromKey(table, k) ==
  IF k \in DOMAIN table.keyToId THEN {table.keyToId[k]} ELSE {}

(* KeysFromEwtsId and its like, the keys in their order                        *)
KeysFromEwtsId(table, id) ==
  [i \in {i \in DOMAIN table : table[i].ewts_id = id} |-> table[i].key]

(* log_level_name and its like                                               *)
LogLevelName(table, v) ==
  LET I == {i \in DOMAIN table.cases : table.cases[i].value = v} IN
  IF I = {} THEN table.default
  ELSE table.cases[CHOOSE i \in I : \A j \in I :
                     table.cases[i].place \subseteq table.cases[j].place].name

(* The file holds the whole name, but the function returns a character(len=16). *)
FortranLogLevelName(table, v) == FirstSixteen[LogLevelName(table, v)]

KeyFile(language) ==
  CASE language = "c" -> "module_keys.c" [] language = "cpp" -> "module_keys.hpp"
    [] language = "fortran" -> "module_keys.f90" [] language = "python" -> "module_keys.py"

LanguageIdFromKey(tabs, m) ==
  LET table == tabs[KeyFile(m.language)].table IN
  IF m.language = "python" THEN PythonIdFromKey(table, m.key) ELSE IdFromKey(table, m.key)

LanguageKeysFromId(tabs, m) ==
  LET table == tabs[KeyFile(m.language)].table IN
  IF m.language = "python" THEN table.idToKeys[m.ewts_id] ELSE KeysFromEwtsId(table, m.ewts_id)
-----------------------------------------------------------------------------
(* Properties                                                               *)

(* Every variable stays in its domain, and a run that is writing or done was    *)
(* given a valid registry if it writes one's tables.                          *)
TypeOK ==
  /\ source \in Specifications
  /\ DOMAIN tables = Files /\ runs \in 0..MaxRuns
  /\ target \in Targets /\ written \in 0..Len(Plan(target))
  /\ status \in {"writing", "done", "stopped"}
  /\ status # "stopped" => Accepted(target, source)

(* A run that is done leaves every file of its target whole and as the         *)
(* specification it read says, whatever interrupted runs, or runs for other      *)
(* targets, had left there and whatever was edited meanwhile.                  *)
DoneMeansCurrent ==
  status = "done" =>
    \A i \in 1..Len(Plan(target)) :
      tables[Plan(target)[i]] = Whole(Generated(Plan(target)[i], source))

(* After a run that writes the module tables, whoever looks a module up finds   *)
(* the same EWTS id for its key: the runtime of its language, by search or in a *)
(* dict, and the ngen logger.  All keys a runtime knows for the id are keys of   *)
(* the id in ngen's table, in the same order.                                 *)
TablesAgree ==
  status = "done" /\ target \in {"all", "modules"} =>
    \A i \in DOMAIN source.modules :
      LET m == source.modules[i]
          ngen == tables["ngen_module_keys.hpp"].table
          keys == LanguageKeysFromId(tables, m)
      IN /\ LanguageIdFromKey(tables, m) = {m.ewts_id}
         /\ IdFromKey(ngen, m.key) = {m.ewts_id}
         /\ m.key \in {keys[j] : j \in DOMAIN keys}
         /\ \A j \in DOMAIN keys : KeysFromEwtsId(ngen, m.ewts_id)[j] = keys[j]

(* After a run that writes the levels, every language calls every number by the *)
(* same name, aliases with equal values and numbers of no level included, and    *)
(* Fortran by what it can return of that name.  C and Fortran do not compile two  *)
(* cases of one value.                                                       *)
LevelNamesAgree ==
  status = "done" /\ target \in {"all", "log-levels"} =>
    \A v \in 0..60 :
      LET name(f) == LogLevelName(tables[f].table, v) IN
      /\ name("log_levels.hpp") = name("log_levels.py")
      /\ (\A l, m \in DOMAIN Dict(source.levels) :
            Dict(source.levels)[l].value = Dict(source.levels)[m].value => l = m)
         => /\ name("log_levels.h") = name("log_levels.py")
            /\ FortranLogLevelName(tables["log_levels.f90"].table, v)
                 = FirstSixteen[name("log_levels.py")]
=============================================================================
