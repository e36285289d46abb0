----------------------------- MODULE MCRecords -----------------------------
(* Small instances of Records.                                               *)
EXTENDS Records

TextsWithSentinels ==
  [x \in {"", "NULL", "null", "text", "CFE", "esc", "has begin", "has end"} \cup Complaints |->
     CASE x \in {"has begin", "missing begin"} -> <<Begin>>
       [] x \in {"has end", "missing end"} -> <<End>>
       [] OTHER -> <<>>]
ControlCharacters == {"esc"}
At(y, mo, d, minute, zone) ==
  [date |-> [y |-> y, mo |-> mo, d |-> d], minute |-> minute, zone |-> zone]
Noon == At(2026, 6, 23, 720, 0)
Id == {"TROUTE"}
-----------------------------------------------------------------------------
(* records: a text None, empty and of each kind, sentinels in the message and in   *)
(* the name of the module; progress none, zero, of more than six digits, just    *)
(* short of one, one, and beyond; messages with no sentinel, one, both, in the   *)
(* wrong order, and nothing at all; the last days of February, of a month and of  *)
(* the year, to the east and to the west.                                     *)
SomePayloads ==
  {[status |-> "IN_PROGRESS", prog |-> {}, msg |-> m, modnm |-> {}] :
     m \in {{}, {"NULL"}, {"esc"}, {"has end"}}}
  \cup {[status |-> "COMPLETE", prog |-> {One}, msg |-> {"has begin"}, modnm |-> m] :
           m \in {{"has begin"}, {"has end"}}}
  \cup {[status |-> "STARTING", prog |-> p, msg |-> {"text"}, modnm |-> {"CFE"}] :
           p \in {{0}, {1234567}, {9999999}, {One}}}
  \cup {[status |-> "ERROR", prog |-> {}, msg |-> m, modnm |-> {"CFE"}] : m \in {{""}, {"has begin"}}}
  \cup {[status |-> "NULL", prog |-> {}, msg |-> {"null"}, modnm |-> {}]}
SomeCalls ==
  {Call("COMPLETE", p, "", "CFE") : p \in {-1, 0, 1234567, One, 15000000}}
  \cup {Call(s, 0, m, "") : s \in {"NULL", "ERROR"}, m \in {"NULL", "text", "has end"}}
  \cup {Call("STARTING", 0, "text", m) : m \in {"has begin", "has end"}}
SomeMessages ==
  {<<>>, <<Word("text")>>, <<Begin, Word("text")>>, <<Word("text"), End>>,
   <<End, Begin>>, <<Begin, Word("text"), End>>}
SomeReadings ==
  {At(2024, 2, 28, 1430, -60), At(2024, 3, 1, 10, 60), At(2100, 2, 28, 1430, -60), At(2100, 3, 1, 10, 60),
   At(2026, 12, 31, 1439, -300), At(2027, 1, 1, 0, 840), At(2000, 2, 29, 1000, -600),
   At(2026, 4, 30, 1435, -345), At(2026, 9, 1, 300, 345), Noon}
-----------------------------------------------------------------------------
(* record_unread                                                             *)
PlainPayload == {[status |-> "STARTING", prog |-> {0}, msg |-> {"text"}, modnm |-> {"CFE"}]}
CallBeyondOne == {Call("IN_PROGRESS", 15000000, "text", "CFE")}
NoMessages == {}
NoReadings == {Noon}
=============================================================================
