---------------------------- MODULE MCCppRuntime ----------------------------
(* A small instance of CppRuntime.                                           *)
EXTENDS CppMessageLog, TLC

IdSet == {"EWTS", "SFT"}

Word(name) == [digits |-> FALSE, value |-> 0, name |-> name]
Number(v)  == [digits |-> TRUE, value |-> v, name |-> ""]
Unset == Word("")

(* Outside ngen, nothing set.                                                *)
Bare ==
  [resultsDir |-> FALSE, linked |-> FALSE, logDir |-> "unset",
   env |-> [enabled |-> TRUE, default |-> Unset, level |-> [id \in IdSet |-> Unset]],
   ngenEnabled |-> TRUE, ngenLevel |-> [id \in IdSet |-> INFO]]

(* Under ngen, with a bridge that is loaded some time.                        *)
Ngen == [Bare EXCEPT !.resultsDir = TRUE, !.ngenLevel["SFT"] = DEBUG]

RuntimeWorlds ==
  {[Ngen EXCEPT !.env.default = Number(25), !.linked = l, !.logDir = "set"] : l \in BOOLEAN}
  \cup {[Ngen EXCEPT !.ngenEnabled = FALSE, !.linked = TRUE],
        [Bare EXCEPT !.logDir = "set", !.env.level["SFT"] = Word("error")],
        [Bare EXCEPT !.logDir = "forbidden", !.env.level["SFT"] = Word("debug")]}

Req(op, id, bridge, level) == [op |-> op, id |-> id, bridge |-> bridge, level |-> level]

(* One thread may join the id to ngen, both use it, by both ways.              *)
RuntimeSends ==
  [t \in Threads |->
     {Req("init", "SFT", TRUE, INFO), Req("log", "EWTS", TRUE, SEVERE)} \cup
     IF t = CHOOSE u \in Threads : TRUE
     THEN {Req("logOn", "SFT", FALSE, DEBUG), Req("query", "EWTS", TRUE, INFO)}
     ELSE {Req("logOn", "SFT", TRUE, SEVERE), Req("payload", "SFT", TRUE, STATUS)}]
=============================================================================
