----------------------------- MODULE MessageLog -----------------------------
(***************************************************************************)
(* What EWTS promises a caller of a logging function, whichever runtime it  *)
(* is in and however many threads call: a call takes effect at one point    *)
(* between its start and its return.  It either leaves nothing, or appends  *)
(* all its lines, in order and next to each other, to one log, once.       *)
(***************************************************************************)
EXTENDS SortedLines

CONSTANTS
  Callers,      \* threads
  Logs,         \* destinations
  LineNumbers   \* numbers a line of a message can have

VARIABLES
  issued,       \* how many calls each thread has started
  current,      \* the lines of the call it is in, Idle outside
  recorded,     \* whether that call has taken effect
  logs          \* the lines of each log

vars == <<issued, current, recorded, logs>>

Idle == {-1}

(* The lines the current call of t appends.                                 *)
Text(t) ==
  LET lines == Sorted(current[t]) IN
  [i \in 1..Len(lines) |-> [by |-> t, n |-> issued[t], line |-> lines[i]]]

Init ==
  /\ issued = [t \in Callers |-> 0]
  /\ current = [t \in Callers |-> Idle]
  /\ recorded = [t \in Callers |-> FALSE]
  /\ logs = [l \in Logs |-> <<>>]

Submit(t) ==
  /\ current[t] = Idle
  /\ \E lines \in SUBSET LineNumbers : current' = [current EXCEPT ![t] = lines]
  /\ issued' = [issued EXCEPT ![t] = @ + 1]
  /\ UNCHANGED <<recorded, logs>>

Return(t) ==
  /\ current[t] # Idle
  /\ current' = [current EXCEPT ![t] = Idle]
  /\ recorded' = [recorded EXCEPT ![t] = FALSE]
  /\ UNCHANGED <<issued, logs>>

(* The call takes effect, and may return in the same step.                  *)
Record(t) ==
  /\ current[t] # Idle /\ current[t] # {} /\ ~recorded[t]
  /\ \E l \in Logs : logs' = [logs EXCEPT ![l] = @ \o Text(t)]
  /\ \/ recorded' = [recorded EXCEPT ![t] = TRUE] /\ UNCHANGED current
     \/ current' = [current EXCEPT ![t] = Idle] /\ UNCHANGED recorded
  /\ UNCHANGED issued

Next == \E t \in Callers : Submit(t) \/ Record(t) \/ Return(t)

Spec == Init /\ [][Next]_vars
=============================================================================
