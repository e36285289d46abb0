---------------------------- MODULE CMessageLog ----------------------------
(***************************************************************************)
(* The C runtime implements MessageLog: in the bridge, a file or standard    *)
(* output every call is atomic.  As in the ngen logger, a message that is    *)
(* being written takes effect with its last line.  A log is its messages:    *)
(* what init_logger_state prints to standard output is not in it.            *)
(***************************************************************************)
EXTENDS CRuntime

Unfinished(p) == pc[p.by] = "write" /\ todo[p.by] # {} /\ calls[p.by] = p.n

(* What a log holds up to the last piece of a message that is complete        *)
Shown(log) ==
  LET finished == {i \in DOMAIN out[log] : ~Unfinished(out[log][i])} IN
  CHOOSE n \in finished \cup {0} : \A i \in finished : i <= n

Visible(log) ==
  [i \in 1..Shown(log) |-> [by |-> out[log][i].by, n |-> out[log][i].n,
                            line |-> out[log][i].line]]

TookEffect(t) ==
  \E log \in Sinks : \E i \in DOMAIN Visible(log) :
    Visible(log)[i].by = t /\ Visible(log)[i].n = calls[t]

Abstract == INSTANCE MessageLog WITH
  Callers     <- Threads,
  Logs        <- Sinks,
  LineNumbers <- {0} \cup UNION {m.lines : m \in UNION {Sends[t] : t \in Threads}},
  issued      <- calls,
  current     <- [t \in Threads |-> IF pc[t] = "idle" THEN {-1} ELSE LinesOf(call[t])],
  recorded    <- [t \in Threads |-> pc[t] # "idle" /\ TookEffect(t)],
  logs        <- [log \in Sinks |-> Visible(log)]

(* Every call of the C runtime leaves its whole message in one place, at one   *)
(* moment, or nothing: no other message comes between its lines (logger.c,   *)
(* v_log_with_state).  The lines printed when a logger is initialised may.   *)
CallsAreAtomic == Abstract!Spec
=============================================================================
