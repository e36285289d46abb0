--------------------------- MODULE CppMessageLog ---------------------------
(***************************************************************************)
(* The C++ runtime implements MessageLog in the bridge and in the files of    *)
(* the ids.  Standard output is left out: every Logger has a mutex of its     *)
(* own, and two of them may write there at once.                            *)
(***************************************************************************)
EXTENDS CppRuntime

Unfinished(p) == pc[p.by] = "write" /\ parts[p.by] # {} /\ calls[p.by] = p.n
Shared == Sinks \ {"stdout"}

(* What a log holds up to the last part of a message that is complete          *)
Shown(log) ==
  LET finished == {i \in DOMAIN out[log] : ~Unfinished(out[log][i])} IN
  CHOOSE n \in finished \cup {0} : \A i \in finished : i <= n

Visible(log) == [i \in 1..Shown(log) |-> out[log][i]]

TookEffect(t) ==
  \E log \in Shared : \E i \in DOMAIN Visible(log) :
    Visible(log)[i].by = t /\ Visible(log)[i].n = calls[t]

Abstract == INSTANCE MessageLog WITH
  Callers     <- Threads,
  Logs        <- Shared,
  LineNumbers <- Parts,
  issued      <- calls,
  current     <- [t \in Threads |-> IF pc[t] = "idle" THEN {-1} ELSE Parts],
  recorded    <- [t \in Threads |-> pc[t] # "idle" /\ TookEffect(t)],
  logs        <- [log \in Shared |-> Visible(log)]

(* However many threads share an id, each message that its file or the bridge    *)
(* gets is there once, with its parts next to each other.                       *)
CallsAreAtomic == Abstract!Spec
=============================================================================
