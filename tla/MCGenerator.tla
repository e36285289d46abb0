---------------------------- MODULE MCGenerator ----------------------------
(* Small instances of Generator: excerpts of the registry.                   *)
EXTENDS Generator, TLC

M(key, id, language) == [key |-> key, ewts_id |-> id, language |-> language]
P(name, value) == [name |-> name, value |-> value]

Idents ==
  "cfe-s" :> "CFE_S" @@ "cfe-x" :> "CFE_X" @@ "ngen" :> "NGEN" @@ "snow-17" :> "SNOW_17" @@
  "t-route" :> "T_ROUTE" @@ "t route" :> "T_ROUTE" @@ "lstm" :> "LSTM" @@ "rte" :> "RTE"
Upper ==
  [n \in {"STARTING", "ERROR", "Error", "FAILED"} |-> IF n = "Error" THEN "ERROR" ELSE n]
Sixteen ==
  [n \in {"NOTSET", "DEBUG", "INFO", "STATUS", "ERROR", "SEVERE", "PERFORMANCE_DETAIL"} |->
     IF n = "PERFORMANCE_DETAIL" THEN "PERFORMANCE_DETA" ELSE n]
UpperIds == {"CFE", "NGEN", "SNOW17", "TROUTE", "LSTM", "RTE"}

Registry ==
  <<M("ngen", "NGEN", "cpp"), M("cfe-s", "CFE", "c"), M("cfe-x", "CFE", "c"),
    M("snow-17", "SNOW17", "fortran"), M("t-route", "TROUTE", "python")>>
Levels == <<P("NOTSET", 0), P("DEBUG", 10), P("INFO", 20), P("STATUS", 60)>>
Statuses == <<P("STARTING", "STARTING"), P("ERROR", "ERROR")>>
Original == [modules |-> Registry, levels |-> Levels, statuses |-> Statuses]
-----------------------------------------------------------------------------
(* generator: a module more with an id that has one already, in another         *)
(* language; aliases among the levels, a level given twice, no INFO; and what   *)
(* must be rejected: a key given twice, in one language and in two, an id in     *)
(* lower case, an empty name.  A registry without Fortran modules; a level name   *)
(* too long for Fortran, and two statuses that differ in case.                  *)
Edited ==
  {[Original EXCEPT !.modules = <<M("rte", "RTE", "python"), M("lstm", "RTE", "python")>> \o Registry,
                 !.levels = <<P("SEVERE", 40), P("ERROR", 40), P("DEBUG", 10), P("DEBUG", 15)>>],
   [Original EXCEPT !.modules = Append(Registry, M("t-route", "RTE", "c")),
                 !.levels = <<P("", 10)>>],
   [Original EXCEPT !.modules = Append(Registry, M("t-route", "RTE", "python"))],
   [Original EXCEPT !.modules = Append(Registry, M("rte", "rte", "python")), !.statuses = <<>>],
   [Original EXCEPT !.modules = SubSeq(Registry, 1, 3)],
   [Original EXCEPT !.levels = Append(Levels, P("PERFORMANCE_DETAIL", 15)),
                 !.statuses = <<P("Error", "ERROR"), P("ERROR", "FAILED")>>]}
AllSpecs == {Original} \cup Edited
=============================================================================
