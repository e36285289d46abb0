--------------------------- MODULE NgenMessageLog ---------------------------
(***************************************************************************)
(* The ngen logger with split files, and one thread that reports payloads,  *)
(* implements MessageLog: every call is atomic although the logger writes   *)
(* line by line, opens files on demand and initialises itself on the way.   *)
(*                                                                         *)
(* The refinement mapping hides the lines of the message that the holder of *)
(* splitLogMutex has not finished: the call takes effect with its last line.*)
(***************************************************************************)
EXTENDS NgenLogger

Unfinished(p) ==
  /\ pc[p.by] = "split" /\ todo[p.by] # {} /\ calls[p.by] = p.n

(* What a log holds up to the last piece of a message that is complete.       *)
Shown(log) ==
  LET finished == {i \in DOMAIN out[log] : ~Unfinished(out[log][i])} IN
  CHOOSE n \in finished \cup {0} : \A i \in finished : i <= n

Visible(log) ==
  [i \in 1..Shown(log) |-> [by |-> out[log][i].by, n |-> out[log][i].n,
                            line |-> out[log][i].line]]

LogsWritten == Ids \cup {"payload"}

(* A payload is a single line, numbered 0.                                  *)
LinesOfCall(t) == IF IsStatus(call[t]) THEN {0} ELSE call[t].lines

TookEffect(t) ==
  \E log \in LogsWritten : \E i \in DOMAIN Visible(log) :
    Visible(log)[i].by = t /\ Visible(log)[i].n = calls[t]

Abstract == INSTANCE MessageLog WITH
  Callers     <- Threads,
  Logs        <- LogsWritten,
  LineNumbers <- {0} \cup UNION {m.lines : m \in UNION {Sends[t] : t \in Threads}},
  issued      <- calls,
  current     <- [t \in Threads |-> IF pc[t] = "idle" THEN {-1} ELSE LinesOfCall(t)],
  recorded    <- [t \in Threads |-> pc[t] # "idle" /\ TookEffect(t)],
  logs        <- [log \in LogsWritten |-> Visible(log)]

(* Every call appends its message to one log as a whole, or leaves nothing,   *)
(* at one moment between its start and its return (logger.cpp, the critical *)
(* section of the split files and the payload record).                     *)
CallsAreAtomic == Abstract!Spec
=============================================================================
