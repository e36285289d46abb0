-------------------------- MODULE MCPythonRuntime --------------------------
(* Small instances of PythonRuntime.                                         *)
EXTENDS PythonRuntime, TLC

TextSet == {"1", "0", "10", "30", "DEBUG", "ERROR", "runs"}
NumeralTexts == "1" :> 1 @@ "0" :> 0 @@ "10" :> 10 @@ "30" :> 30
Names == "DEBUG" :> DEBUG

Env(bridge, enabled, level, default, dir) ==
  [v \in EnvVars |-> CASE v = "bridge" -> bridge [] v = "enabled" -> enabled
                       [] v = "level" -> level [] v = "default" -> default [] v = "dir" -> dir]
Export(bridge, enabled, level) ==
  "bridge" :> bridge @@ "enabled" :> enabled @@ "level" :> level
Ask(enabled, level, name, dir, ngen) ==
  [enabled |-> enabled, level |-> level, name |-> name, dir |-> dir, ngen |-> ngen]
-----------------------------------------------------------------------------
(* py_runtime: nothing set; or a module level that is no EWTS name, with a     *)
(* general one and a directory that may be missing.  ngen exports WARNING or   *)
(* nothing.                                                                  *)
Bare == Env(Absent, Absent, Absent, Absent, Absent)
Rich == Env(Absent, "1", "ERROR", "DEBUG", "runs")
Start(env, lib, gone) == [environ |-> env, bridgeLib |-> lib, missing |-> gone]
RuntimeWorlds == {Start(Bare, TRUE, {"runs"}), Start(Rich, FALSE, {})}
RuntimeExports == {Export("1", "1", "30"), Export(Absent, Absent, Absent)}
RuntimeProgram == {<<"enabled", "0">>}
RuntimeSetups ==
  {Ask({TRUE}, {PERFORM}, {}, {"runs"}, {}), Ask({FALSE}, {}, {"ERROR"}, {}, {FALSE})}

(* py_stale_level: the parent process exports a level for the module           *)
StaleWorlds == {Start(Env(Absent, Absent, "30", Absent, Absent), TRUE, {})}
StaleExports == {Export("1", "1", "10")}
=============================================================================
