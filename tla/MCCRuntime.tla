----------------------------- MODULE MCCRuntime -----------------------------
(* Small instances of CRuntime.                                              *)
EXTENDS CMessageLog, TLC

IdSet == {"LASAM", "PET"}

Word(name) == [digits |-> FALSE, value |-> 0, name |-> name]
Number(v)  == [digits |-> TRUE, value |-> v, name |-> ""]
Unset == Word("")

(* Outside ngen, nothing set.                                                *)
Bare ==
  [resultsDir |-> FALSE, logDir |-> FALSE, linked |-> TRUE,
   env |-> [enabled |-> TRUE, default |-> Unset, level |-> [id \in IdSet |-> Unset]],
   ngenEnabled |-> TRUE, ngenLevel |-> [id \in IdSet |-> INFO]]

(* Under ngen, which wants DEBUG for one module and WARNING for the other.    *)
Ngen == [Bare EXCEPT !.resultsDir = TRUE, !.ngenLevel = "LASAM" :> DEBUG @@ "PET" :> WARNING]

Req(op, id, bridge, level, lines) ==
  [op |-> op, id |-> id, bridge |-> bridge, level |-> level, lines |-> lines]
Join(id) == Req("init", id, TRUE, INFO, {})
Log(id, level, lines) == Req("log", id, FALSE, level, lines)
-----------------------------------------------------------------------------
(* c_runtime: two modules, of which one can join ngen, in any order with      *)
(* ngen's own initialisation, with levels inherited, general or both; the    *)
(* bridge linked or not, logging switched off by ngen; outside ngen, with a  *)
(* directory; messages of no, one and two lines.                             *)
RuntimeWorlds ==
  {[Ngen EXCEPT !.env.default = Number(25), !.env.level["LASAM"] = l, !.logDir = TRUE] :
     l \in {Word("verbose"), Word("error")}}
  \cup {[Ngen EXCEPT !.linked = FALSE], [Ngen EXCEPT !.ngenEnabled = FALSE],
        [Bare EXCEPT !.logDir = TRUE]}
RuntimeSends ==
  [t \in Threads |->
     {Join("LASAM"), Log("LASAM", DEBUG, {1}), Log("LASAM", SEVERE, {1, 2})} \cup
     IF t = CHOOSE u \in Threads : TRUE THEN {Log("PET", SEVERE, {})}
     ELSE {Req("payload", "PET", FALSE, STATUS, {1})}]
=============================================================================
