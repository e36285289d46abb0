-------------------------- MODULE GeneratorProofs --------------------------
(* The generator, for every registry and every sequence of runs: a run that    *)
(* is done leaves current tables, and the tables of the languages agree.      *)
EXTENDS Generator, TLAPS, WellFoundedInduction

Current(i) == tables[Plan(target)[i]] = Whole(Generated(Plan(target)[i], source))

(* The inductive invariant: what a run has written so far is current.           *)
Inv ==
  /\ TypeOK
  /\ status # "stopped" => \A i \in 1..written : Current(i)
  /\ status = "done" => written = Len(Plan(target))

LEMMA PlanLengths ==
  /\ Len(Plan("all")) = 17 /\ Len(Plan("modules")) = 10
  /\ Len(Plan("log-levels")) = 4 /\ Len(Plan("payload-status")) = 3
BY DEF Plan, ModuleFiles, LevelFiles, StatusFiles

LEMMA PlanAllModules == \A i \in 1..10 : Plan("all")[i] = ModuleFiles[i]
BY DEF Plan, ModuleFiles, LevelFiles, StatusFiles

LEMMA PlanAllLevels == \A i \in 1..4 : Plan("all")[i + 10] = LevelFiles[i]
BY DEF Plan, ModuleFiles, LevelFiles, StatusFiles

LEMMA PlanAllStatuses == \A i \in 1..3 : Plan("all")[i + 14] = StatusFiles[i]
BY DEF Plan, ModuleFiles, LevelFiles, StatusFiles

LEMMA PlanEach ==
  /\ Plan("modules") = ModuleFiles
  /\ Plan("log-levels") = LevelFiles
  /\ Plan("payload-status") = StatusFiles
BY DEF Plan

(* Every file of a plan is one of the files.                                   *)
LEMMA PlansOfFiles ==
  ASSUME NEW t \in Targets
  PROVE  /\ Len(Plan(t)) \in Nat
         /\ \A i \in 1..Len(Plan(t)) : Plan(t)[i] \in Files
<1>1. CASE t = "all"
  BY <1>1, PlanLengths DEF Files
<1>2. CASE t = "modules"
  <2>1. ASSUME NEW i \in 1..10 PROVE Plan(t)[i] \in Files
    BY <1>2, PlanLengths, PlanAllModules, PlanEach DEF Files
  <2> QED BY SMTT(30), <1>2, <2>1, PlanLengths
<1>3. CASE t = "log-levels"
  <2>1. ASSUME NEW i \in 1..4 PROVE Plan(t)[i] \in Files
    <3>1. i + 10 \in 1..17 /\ Plan("all")[i + 10] \in Files
      BY PlanLengths DEF Files
    <3> QED BY <1>3, <3>1, PlanAllLevels, PlanEach
  <2> QED BY <1>3, <2>1, PlanLengths
<1>4. CASE t = "payload-status"
  <2>1. ASSUME NEW i \in 1..3 PROVE Plan(t)[i] \in Files
    <3>1. i + 14 \in 1..17 /\ Plan("all")[i + 14] \in Files
      BY PlanLengths DEF Files
    <3> QED BY <1>4, <3>1, PlanAllStatuses, PlanEach
  <2> QED BY <1>4, <2>1, PlanLengths
<1> QED BY <1>1, <1>2, <1>3, <1>4 DEF Targets

(* A run that writes the module tables writes all ten of them.                  *)
LEMMA ModulesPlanned ==
  ASSUME NEW t \in {"all", "modules"}, NEW n \in 1..10
  PROVE  n \in 1..Len(Plan(t)) /\ Plan(t)[n] = ModuleFiles[n]
BY PlanLengths, PlanAllModules, PlanEach
-----------------------------------------------------------------------------
LEMMA InitInv == Init => Inv
<1> SUFFICES ASSUME Init PROVE Inv
  OBVIOUS
<1>1. "all" \in Targets
  BY DEF Targets
<1>2. 0 \in 0..Len(Plan("all"))
  BY <1>1, PlansOfFiles
<1>3. FirstSpecification \in Specifications /\ 0 \in 0..MaxRuns
  BY ConstantsAssumption
<1> QED BY <1>1, <1>2, <1>3 DEF Init, Inv, TypeOK

LEMMA InvStep == Inv /\ [Next]_vars => Inv'
<1> SUFFICES ASSUME Inv, [Next]_vars PROVE Inv'
  OBVIOUS
<1>0. TypeOK /\ target \in Targets /\ Len(Plan(target)) \in Nat
  BY PlansOfFiles DEF Inv, TypeOK
<1>1. ASSUME NEW t \in Targets, NEW spec \in Specifications, Start(t, spec) PROVE Inv'
  <2>1. Len(Plan(t)) \in Nat
    BY PlansOfFiles
  <2>2. runs' \in 0..MaxRuns
    BY <1>0, <1>1, ConstantsAssumption DEF Start, Given, TypeOK
  <2> QED BY <1>0, <1>1, <2>1, <2>2 DEF Start, Given, Inv, TypeOK
<1>2. ASSUME NEW t \in Targets, NEW spec \in Specifications, Reject(t, spec) PROVE Inv'
  <2>1. Len(Plan(t)) \in Nat
    BY PlansOfFiles
  <2>2. runs' \in 0..MaxRuns
    BY <1>0, <1>2, ConstantsAssumption DEF Reject, Given, TypeOK
  <2> QED BY <1>0, <1>2, <2>1, <2>2 DEF Reject, Given, Inv, TypeOK
<1>3. CASE WriteFile
  <2>1. /\ status = "writing" /\ written < Len(Plan(target)) /\ written' = written + 1
        /\ tables' = [tables EXCEPT ![NextFile] = Whole(Generated(NextFile, source))]
        /\ UNCHANGED <<target, source, status, runs>>
    BY <1>3 DEF WriteFile
  <2>2. written \in Nat /\ written + 1 \in 1..Len(Plan(target))
    BY <1>0, <2>1 DEF TypeOK
  <2>3. NextFile \in Files /\ NextFile = Plan(target)[written + 1]
    BY <1>0, <2>2, PlansOfFiles DEF NextFile
  <2>4. TypeOK'
    BY <1>0, <2>1, <2>2 DEF TypeOK
  <2>5. ASSUME NEW i \in 1..written' PROVE Current(i)'
    <3>1. i \in 1..Len(Plan(target))
      BY <2>1, <2>2
    <3>2. Plan(target)[i] \in Files
      BY <1>0, <3>1, PlansOfFiles
    <3>3. CASE Plan(target)[i] = NextFile
      BY <1>0, <2>1, <2>3, <3>2, <3>3 DEF Current, TypeOK
    <3>4. CASE Plan(target)[i] # NextFile
      <4>1. i \in 1..written
        BY <2>1, <2>2, <2>3, <3>4
      <4>2. Current(i)
        BY <2>1, <4>1 DEF Inv
      <4>3. tables'[Plan(target)[i]] = tables[Plan(target)[i]]
        BY <1>0, <2>1, <3>2, <3>4 DEF TypeOK
      <4> QED BY <2>1, <4>2, <4>3 DEF Current
    <3> QED BY <3>3, <3>4
  <2> QED BY <2>1, <2>4, <2>5 DEF Inv
<1>4. CASE Fail
  BY <1>0, <1>4 DEF Fail, Inv, TypeOK
<1>5. CASE Interrupt
  BY <1>0, <1>5 DEF Interrupt, Inv, TypeOK
<1>6. CASE Finish
  BY <1>0, <1>6 DEF Finish, Inv, TypeOK, Current
<1>7. CASE UNCHANGED vars
  BY <1>7 DEF vars, Inv, TypeOK, Current
<1> QED BY <1>1, <1>2, <1>3, <1>4, <1>5, <1>6, <1>7 DEF Next

(* Every variable stays in its domain, and no run writes tables from what was    *)
(* not accepted.                                                            *)
THEOREM TypeCorrect == Spec => []TypeOK
<1>1. Inv => TypeOK
  BY DEF Inv
<1> QED BY InitInv, InvStep, <1>1, PTL DEF Spec

LEMMA InvCurrent == Inv => DoneMeansCurrent
BY DEF Inv, DoneMeansCurrent, Current

(* Whatever earlier runs, whole or interrupted, have left, a run that is done has *)
(* written all its files, each from the specification it read.                  *)
THEOREM DoneRunsCurrent == Spec => []DoneMeansCurrent
BY InitInv, InvStep, InvCurrent, PTL DEF Spec
-----------------------------------------------------------------------------
(* A search of a table for a key that one entry has finds that entry.           *)
LEMMA SearchFinds ==
  ASSUME NEW table, NEW i \in DOMAIN table, i \in Int,
         \A j \in DOMAIN table : table[j].key = table[i].key => j = i
  PROVE  IdFromKey(table, table[i].key) = {table[i].ewts_id}
<1> DEFINE I == {j \in DOMAIN table : table[j].key = table[i].key}
<1>1. I = {i}
  OBVIOUS
<1>2. First(I) = i
  BY <1>1 DEF First
<1> QED BY <1>1, <1>2 DEF IdFromKey

LEMMA DictFinds ==
  ASSUME NEW modules, NEW i \in DOMAIN modules, i \in Int,
         modules[i].language = "python",
         \A j \in DOMAIN modules : modules[j].key = modules[i].key => j = i
  PROVE  /\ PythonIdFromKey(PythonModuleKeys(modules), modules[i].key) = {modules[i].ewts_id}
         /\ PythonModuleKeys(modules).idToKeys[modules[i].ewts_id]
              = KeysFromEwtsId(ModulesForLanguage(modules, "python"), modules[i].ewts_id)
<1> DEFINE table == ModulesForLanguage(modules, "python")
           last(k) == CHOOSE j \in DOMAIN table :
                        table[j].key = k /\ \A l \in DOMAIN table : table[l].key = k => l <= j
           keys == {table[j].key : j \in DOMAIN table}
           ids == {table[j].ewts_id : j \in DOMAIN table}
<1>1. /\ DOMAIN table \subseteq DOMAIN modules
      /\ \A j \in DOMAIN table : table[j] = modules[j]
      /\ i \in DOMAIN table
  BY DEF ModulesForLanguage
<1>2. last(modules[i].key) = i
  BY <1>1
<1>3. modules[i].key \in keys /\ modules[i].ewts_id \in ids
  BY <1>1
<1>4. /\ PythonModuleKeys(modules).keyToId = [k \in keys |-> table[last(k)].ewts_id]
      /\ PythonModuleKeys(modules).idToKeys =
           [id \in ids |-> [j \in {l \in DOMAIN table : table[l].ewts_id = id} |-> table[j].key]]
  BY DEF PythonModuleKeys
<1> HIDE DEF table, last, keys, ids
<1>5. PythonModuleKeys(modules).keyToId[modules[i].key] = modules[i].ewts_id
      /\ modules[i].key \in DOMAIN PythonModuleKeys(modules).keyToId
  BY <1>1, <1>2, <1>3, <1>4
<1>6. PythonModuleKeys(modules).idToKeys[modules[i].ewts_id]
        = [j \in {l \in DOMAIN table : table[l].ewts_id = modules[i].ewts_id} |-> table[j].key]
  BY <1>3, <1>4
<1> QED BY <1>5, <1>6 DEF PythonIdFromKey, KeysFromEwtsId, table

(* The keys a language has for an id are those ngen has for it.                *)
LEMMA KeysAgree ==
  ASSUME NEW modules, NEW i \in DOMAIN modules
  PROVE  LET keys == KeysFromEwtsId(ModulesForLanguage(modules, modules[i].language),
                                    modules[i].ewts_id)
         IN /\ modules[i].key \in {keys[j] : j \in DOMAIN keys}
            /\ \A j \in DOMAIN keys : KeysFromEwtsId(modules, modules[i].ewts_id)[j] = keys[j]
<1> DEFINE table == ModulesForLanguage(modules, modules[i].language)
           keys == KeysFromEwtsId(table, modules[i].ewts_id)
           mine == {j \in DOMAIN table : table[j].ewts_id = modules[i].ewts_id}
           all == {j \in DOMAIN modules : modules[j].ewts_id = modules[i].ewts_id}
<1>1. /\ DOMAIN table \subseteq DOMAIN modules
      /\ \A j \in DOMAIN table : table[j] = modules[j]
      /\ i \in DOMAIN table
  BY DEF ModulesForLanguage
<1>2. keys = [j \in mine |-> table[j].key]
  BY DEF KeysFromEwtsId
<1>3. KeysFromEwtsId(modules, modules[i].ewts_id) = [j \in all |-> modules[j].key]
  BY DEF KeysFromEwtsId
<1>4. i \in mine /\ mine \subseteq all /\ \A j \in mine : table[j] = modules[j]
  BY <1>1
<1> HIDE DEF table, keys, mine, all
<1>5. DOMAIN keys = mine /\ keys[i] = modules[i].key
  BY <1>1, <1>2, <1>4
<1>6. \A j \in mine : KeysFromEwtsId(modules, modules[i].ewts_id)[j] = keys[j]
  BY <1>2, <1>3, <1>4
<1> QED BY <1>4, <1>5, <1>6 DEF table, keys

LEMMA InvAgree == Inv => TablesAgree
<1> SUFFICES ASSUME Inv, status = "done", target \in {"all", "modules"},
                    NEW i \in DOMAIN source.modules
             PROVE  LET m == source.modules[i]
                        ngen == tables["ngen_module_keys.hpp"].table
                        keys == LanguageKeysFromId(tables, m)
                    IN /\ LanguageIdFromKey(tables, m) = {m.ewts_id}
                       /\ IdFromKey(ngen, m.key) = {m.ewts_id}
                       /\ m.key \in {keys[j] : j \in DOMAIN keys}
                       /\ \A j \in DOMAIN keys : KeysFromEwtsId(ngen, m.ewts_id)[j] = keys[j]
  BY DEF TablesAgree
<1> DEFINE ms == source.modules
           m == ms[i]
           tab(n) == tables[ModuleFiles[n]].table
<1>1. ms \in Seq(Module) /\ ValidRegistry(ms)
  <2>1. source \in Specification /\ Accepted(target, source)
    BY ConstantsAssumption DEF Inv, TypeOK
  <2> QED BY <2>1 DEF Accepted, Specification
<1>2. i \in Int /\ DOMAIN ms \subseteq Int
  BY <1>1
<1>3. /\ m.language \in Languages
      /\ \A j \in DOMAIN ms : ms[j].key = m.key => j = i
  BY <1>1 DEF ValidRegistry, UniqueKeys, WellFormed
<1>4. \A n \in 1..10 : tab(n) = Generated(ModuleFiles[n], source)
  <2>1. ASSUME NEW n \in 1..10 PROVE tab(n) = Generated(ModuleFiles[n], source)
    <3>1. n \in 1..Len(Plan(target)) /\ Plan(target)[n] = ModuleFiles[n]
      BY ModulesPlanned
    <3>2. tables[ModuleFiles[n]] = Whole(Generated(ModuleFiles[n], source))
      BY <3>1, InvCurrent DEF DoneMeansCurrent
    <3> QED BY <3>2 DEF Whole
  <2> QED BY <2>1
<1>5. /\ ModuleFiles[1] = "module_keys.c" /\ ModuleFiles[2] = "module_keys.hpp"
      /\ ModuleFiles[3] = "module_keys.f90" /\ ModuleFiles[4] = "module_keys.py"
      /\ ModuleFiles[10] = "ngen_module_keys.hpp"
  BY DEF ModuleFiles
<1>6. /\ tables["module_keys.c"].table = Generated("module_keys.c", source)
      /\ tables["module_keys.hpp"].table = Generated("module_keys.hpp", source)
      /\ tables["module_keys.f90"].table = Generated("module_keys.f90", source)
      /\ tables["module_keys.py"].table = Generated("module_keys.py", source)
      /\ tables["ngen_module_keys.hpp"].table = Generated("ngen_module_keys.hpp", source)
  BY <1>4, <1>5
<1>7. /\ tables["module_keys.c"].table = ModulesForLanguage(ms, "c")
      /\ tables["module_keys.hpp"].table = ModulesForLanguage(ms, "cpp")
      /\ tables["module_keys.f90"].table = ModulesForLanguage(ms, "fortran")
      /\ tables["module_keys.py"].table = PythonModuleKeys(ms)
      /\ tables["ngen_module_keys.hpp"].table = ms
  BY <1>6 DEF Generated, CModuleKeys, CppModuleKeys, FortranModuleKeys, NgenModuleKeys
<1> HIDE DEF ms, tab
<1>8. IdFromKey(ms, m.key) = {m.ewts_id}
  BY <1>2, <1>3, SearchFinds DEF ms
<1> DEFINE table == ModulesForLanguage(ms, m.language)
<1>9. /\ LanguageIdFromKey(tables, m) = {m.ewts_id}
      /\ LanguageKeysFromId(tables, m) = KeysFromEwtsId(table, m.ewts_id)
  <2>1. CASE m.language = "python"
    <3>1. tables[KeyFile(m.language)].table = PythonModuleKeys(ms)
      BY <1>7, <2>1 DEF KeyFile
    <3>2. /\ PythonIdFromKey(PythonModuleKeys(ms), m.key) = {m.ewts_id}
          /\ PythonModuleKeys(ms).idToKeys[m.ewts_id] = KeysFromEwtsId(table, m.ewts_id)
      BY <1>2, <1>3, <2>1, DictFinds DEF ms
    <3> QED BY <2>1, <3>1, <3>2 DEF LanguageIdFromKey, LanguageKeysFromId
  <2>2. CASE m.language # "python"
    <3>1. tables[KeyFile(m.language)].table = table
      BY <1>3, <1>7, <2>2 DEF KeyFile, Languages
    <3>2. /\ i \in DOMAIN table /\ table[i] = m
          /\ \A j \in DOMAIN table : table[j].key = table[i].key => j = i
      BY <1>3 DEF ModulesForLanguage, ms
    <3>3. IdFromKey(table, m.key) = {m.ewts_id}
      BY <1>2, <3>2, SearchFinds
    <3> QED BY <2>2, <3>1, <3>3 DEF LanguageIdFromKey, LanguageKeysFromId
  <2> QED BY <2>1, <2>2
<1>10. LET keys == KeysFromEwtsId(table, m.ewts_id)
       IN /\ m.key \in {keys[j] : j \in DOMAIN keys}
          /\ \A j \in DOMAIN keys : KeysFromEwtsId(ms, m.ewts_id)[j] = keys[j]
  BY KeysAgree DEF ms
<1> QED BY <1>7, <1>8, <1>9, <1>10 DEF ms

(* After a run of the generator that wrote the module tables, for any registry  *)
(* it accepted and after any history of runs, the runtime of a module's language *)
(* and the ngen logger find the same id for its key and the same keys for the id. *)
THEOREM LookupsAgree == Spec => []TablesAgree
<1>1. Inv => TablesAgree
  BY InvAgree
<1> QED BY <1>1, InitInv, InvStep, PTL DEF Spec
-----------------------------------------------------------------------------
(* A set of positions that is not empty has a first.                           *)
LEMMA Least == ASSUME NEW I \in SUBSET Nat, I # {} PROVE \E x \in I : \A y \in I : x <= y
<1>1. PICK x \in I : \A y \in I : ~(<<y, x>> \in OpToRel(<,Nat))
  BY NatLessThanWellFounded, WFMin
<1>2. ASSUME NEW y \in I PROVE x <= y
  <2>1. <<y, x>> \in Nat \X Nat
    OBVIOUS
  <2>2. y < x => <<y, x>> \in {ss \in Nat \X Nat : ss[1] < ss[2]}
    BY <2>1
  <2>3. {ss \in Nat \X Nat : ss[1] < ss[2]} = OpToRel(<,Nat)
    BY Zenon DEF OpToRel
  <2>4. ~ (y < x)
    BY <1>1, <2>2, <2>3, Zenon
  <2> QED BY <2>4
<1> QED BY <1>2

(* A test on sorted cases and one on cases in the order of the file find the    *)
(* same name, equal values or not.                                            *)
LEMMA SameName ==
  ASSUME NEW levels, DOMAIN levels \subseteq Nat, NEW v \in Int
  PROVE  LogLevelName(CppLogLevels(levels), v) = LogLevelName(PythonLogLevels(levels), v)
<1> DEFINE I == {i \in DOMAIN levels : levels[i].value = v}
           sorted(i) == {j \in DOMAIN levels :
                           \/ levels[j].value < levels[i].value
                           \/ levels[j].value = levels[i].value /\ j <= i}
           listed(i) == {j \in DOMAIN levels : j <= i}
           sc == CppLogLevels(levels).cases
           lc == PythonLogLevels(levels).cases
<1>1. /\ DOMAIN sc = DOMAIN levels
      /\ \A i \in DOMAIN levels : /\ sc[i].name = levels[i].name
                                  /\ sc[i].value = levels[i].value
                                  /\ sc[i].place = sorted(i)
      /\ CppLogLevels(levels).default = DefaultLevelName(levels)
  BY DEF CppLogLevels, LevelTable, Sorted
<1>2. /\ DOMAIN lc = DOMAIN levels
      /\ \A i \in DOMAIN levels : /\ lc[i].name = levels[i].name
                                  /\ lc[i].value = levels[i].value
                                  /\ lc[i].place = listed(i)
      /\ PythonLogLevels(levels).default = DefaultLevelName(levels)
  BY DEF PythonLogLevels, LevelTable
<1>3. ASSUME NEW i \in I, NEW j \in I
      PROVE  /\ sorted(i) \subseteq sorted(j) <=> i <= j
             /\ listed(i) \subseteq listed(j) <=> i <= j
  <2>1. i \in Int /\ j \in Int /\ i \in DOMAIN levels
        /\ levels[i].value = v /\ levels[j].value = v
    OBVIOUS
  <2>2. i \in sorted(i) /\ i \in listed(i)
    BY <2>1
  <2>3. i \in sorted(j) => i <= j
    BY <2>1
  <2>4. i \in listed(j) => i <= j
    BY <2>1
  <2>5. i <= j => sorted(i) \subseteq sorted(j) /\ listed(i) \subseteq listed(j)
    BY <2>1
  <2> HIDE DEF sorted, listed
  <2> QED BY <2>2, <2>3, <2>4, <2>5
<1> DEFINE first(c) == CHOOSE i \in I : \A j \in I : c[i].place \subseteq c[j].place
<1>4. first(sc) = first(lc)
  <2>1. \A i \in I : (\A j \in I : sc[i].place \subseteq sc[j].place)
                       <=> (\A j \in I : lc[i].place \subseteq lc[j].place)
    <3> SUFFICES ASSUME NEW i \in I, NEW j \in I
                 PROVE  sc[i].place \subseteq sc[j].place <=> lc[i].place \subseteq lc[j].place
      OBVIOUS
    <3>1. i \in DOMAIN levels /\ j \in DOMAIN levels
      OBVIOUS
    <3> HIDE DEF sorted, listed, sc, lc, I
    <3> QED BY <1>1, <1>2, <1>3, <3>1
  <2> HIDE DEF I, sc, lc
  <2> QED BY <2>1
<1>5. /\ {i \in DOMAIN sc : sc[i].value = v} = I
      /\ {i \in DOMAIN lc : lc[i].value = v} = I
  <2> HIDE DEF sc, lc
  <2> QED BY <1>1, <1>2
<1>6. /\ LogLevelName(CppLogLevels(levels), v) =
           IF I = {} THEN CppLogLevels(levels).default ELSE sc[first(sc)].name
      /\ LogLevelName(PythonLogLevels(levels), v) =
           IF I = {} THEN PythonLogLevels(levels).default ELSE lc[first(lc)].name
  <2> DEFINE found(c) == {i \in DOMAIN c : c[i].value = v}
             least(c) == CHOOSE i \in found(c) : \A j \in found(c) : c[i].place \subseteq c[j].place
  <2>1. LogLevelName(CppLogLevels(levels), v) =
          IF found(sc) = {} THEN CppLogLevels(levels).default ELSE sc[least(sc)].name
    BY Zenon DEF LogLevelName
  <2>2. LogLevelName(PythonLogLevels(levels), v) =
          IF found(lc) = {} THEN PythonLogLevels(levels).default ELSE lc[least(lc)].name
    BY Zenon DEF LogLevelName
  <2>3. found(sc) = I /\ found(lc) = I
    BY <1>5
  <2>4. least(sc) = first(sc) /\ least(lc) = first(lc)
    <3> HIDE DEF found, sc, lc, I
    <3> QED BY <2>3
  <2> HIDE DEF found, least, first, sc, lc, I
  <2> QED BY <2>1, <2>2, <2>3, <2>4
<1>7. ASSUME I # {} PROVE sc[first(lc)].name = lc[first(lc)].name
  <2>1. PICK i \in I : \A j \in I : i <= j
    <3>1. I \in SUBSET Nat
      OBVIOUS
    <3> HIDE DEF I
    <3> QED BY <1>7, <3>1, Least
  <2>2. \A j \in I : lc[i].place \subseteq lc[j].place
    <3>1. i \in DOMAIN levels /\ \A j \in I : j \in DOMAIN levels
      OBVIOUS
    <3> HIDE DEF I, lc, sorted, listed
    <3> QED BY <1>2, <1>3, <2>1, <3>1
  <2>3. first(lc) \in I
    <3> HIDE DEF I, lc
    <3> QED BY <2>1, <2>2
  <2>4. first(lc) \in DOMAIN levels
    BY <2>3
  <2> HIDE DEF first, sc, lc, sorted, listed
  <2> QED BY <1>1, <1>2, <2>4
<1> HIDE DEF I, first, sc, lc
<1> QED BY <1>1, <1>2, <1>4, <1>6, <1>7

LEMMA LevelsPlanned ==
  ASSUME NEW t \in {"all", "log-levels"}, NEW n \in 1..4
  PROVE  \E i \in 1..Len(Plan(t)) : Plan(t)[i] = LevelFiles[n]
<1>1. CASE t = "all"
  <2>1. n + 10 \in 1..Len(Plan(t)) /\ Plan(t)[n + 10] = LevelFiles[n]
    BY <1>1, PlanLengths, PlanAllLevels
  <2> QED BY <2>1
<1>2. CASE t = "log-levels"
  BY <1>2, PlanLengths, PlanEach
<1> QED BY <1>1, <1>2

LEMMA InvNames == Inv => LevelNamesAgree
<1> SUFFICES ASSUME Inv, status = "done", target \in {"all", "log-levels"}, NEW v \in 0..60
             PROVE  /\ LogLevelName(tables["log_levels.hpp"].table, v)
                         = LogLevelName(tables["log_levels.py"].table, v)
                    /\ LogLevelName(tables["log_levels.h"].table, v)
                         = LogLevelName(tables["log_levels.py"].table, v)
                    /\ LogLevelName(tables["log_levels.f90"].table, v)
                         = LogLevelName(tables["log_levels.py"].table, v)
  BY DEF LevelNamesAgree, FortranLogLevelName
<1> DEFINE levels == Dict(source.levels)
<1>1. DOMAIN levels \subseteq Nat
  <2>1. source.levels \in Seq(Pair(Int))
    BY ConstantsAssumption DEF Inv, TypeOK, Specification
  <2>2. DOMAIN source.levels \subseteq Nat
    BY <2>1
  <2>3. DOMAIN levels \subseteq DOMAIN source.levels
    BY DEF Dict
  <2> QED BY <2>2, <2>3
<1>2. \A n \in 1..4 : tables[LevelFiles[n]].table = Generated(LevelFiles[n], source)
  <2>1. ASSUME NEW n \in 1..4 PROVE tables[LevelFiles[n]].table = Generated(LevelFiles[n], source)
    <3>1. PICK i \in 1..Len(Plan(target)) : Plan(target)[i] = LevelFiles[n]
      BY LevelsPlanned
    <3>2. tables[LevelFiles[n]] = Whole(Generated(LevelFiles[n], source))
      BY <3>1, InvCurrent DEF DoneMeansCurrent
    <3> QED BY <3>2 DEF Whole
  <2> QED BY <2>1
<1>3. /\ LevelFiles[1] = "log_levels.h" /\ LevelFiles[2] = "log_levels.hpp"
      /\ LevelFiles[3] = "log_levels.f90" /\ LevelFiles[4] = "log_levels.py"
  BY DEF LevelFiles
<1>4. /\ tables["log_levels.h"].table = Generated("log_levels.h", source)
      /\ tables["log_levels.hpp"].table = Generated("log_levels.hpp", source)
      /\ tables["log_levels.f90"].table = Generated("log_levels.f90", source)
      /\ tables["log_levels.py"].table = Generated("log_levels.py", source)
  BY <1>2, <1>3
<1>5. /\ tables["log_levels.h"].table = CLogLevels(levels)
      /\ tables["log_levels.hpp"].table = CppLogLevels(levels)
      /\ tables["log_levels.f90"].table = FortranLogLevels(levels)
      /\ tables["log_levels.py"].table = PythonLogLevels(levels)
  BY <1>4 DEF Generated
<1>6. CLogLevels(levels) = CppLogLevels(levels) /\ FortranLogLevels(levels) = CppLogLevels(levels)
  BY DEF CLogLevels, CppLogLevels, FortranLogLevels
<1>7. v \in Int
  OBVIOUS
<1>8. LogLevelName(CppLogLevels(levels), v) = LogLevelName(PythonLogLevels(levels), v)
  <2> HIDE DEF levels
  <2> QED BY <1>1, <1>7, SameName
<1> HIDE DEF levels
<1> QED BY <1>5, <1>6, <1>8

(* After a run that wrote the levels, for any level file it accepted, the cases   *)
(* sorted by value and the dict in the order of the file name every number alike, *)
(* except for what Fortran cuts off.                                          *)
THEOREM NamesAgree == Spec => []LevelNamesAgree
BY InitInv, InvStep, InvNames, PTL DEF Spec
=============================================================================
