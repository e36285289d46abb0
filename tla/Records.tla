------------------------------ MODULE Records ------------------------------
(***************************************************************************)
(* What the runtimes and the ngen logger write on a line, and what the       *)
(* parser of the Python package (data_payloads.py) reads back from it.       *)
(*                                                                         *)
(* A line is a sequence of words: a time, an EWTS id, a level, and those of   *)
(* the message, in which the sentinels <MSG_DATA> and </MSG_DATA> are words   *)
(* of their own.  A JSON object is the word that opens it, the sentinels       *)
(* that stand in its texts, and the word that closes it.  Texts stand for       *)
(* themselves; SentinelsIn and ControlTexts say what matters about them.        *)
(* A progress is a number of 10^-7ths.                                      *)
(*                                                                         *)
(* One log file is followed, written by the Python runtime on its own, by the  *)
(* Fortran runtime on its own, or by the ngen logger for its payload records.   *)
(***************************************************************************)
EXTENDS Calendar, Sequences, SequencesExt

CONSTANTS
  Payloads,     \* the Payload objects that Python programs log
  NativeCalls,  \* the arguments of EwtsPayloadStatus and its like
  Messages,     \* other messages, as sequences of words, without JSON
  Ids,          \* EWTS ids
  Readings,     \* what date_and_time may return
  UtcNow,       \* the time when the Python runtime or the ngen logger writes
  SentinelsIn,  \* [texts -> sequences of the sentinels they contain]
  ControlTexts, \* texts with control characters other than \n, \r and \t
  MaxLines      \* bound: lines written

Begin == [word |-> "<MSG_DATA>"]
End == [word |-> "</MSG_DATA>"]
Word(w) == [word |-> w]
Junk == [word |-> "junk"]     \* a word that was cut off, or two run together
Time(date, minute) == [date |-> date, minute |-> minute]

The(S) == CHOOSE x \in S : TRUE   \* an optional value is a set: {} is None
One == 10000000
Statuses == {"NULL", "INITIALIZING", "INITIALIZED", "STARTING", "IN_PROGRESS", "COMPLETE", "ERROR"}
Texts == DOMAIN SentinelsIn
Optional(S) == {o \in SUBSET S : \A x, y \in o : x = y}
Payload == [status : Statuses, prog : Optional(0..One), msg : Optional(Texts), modnm : Optional(Texts)]
Reading == [date : Date, minute : 0..(MinutesPerDay - 1), zone : Int]

(* What the ngen logger reports in place of a payload it cannot read            *)
Complaints == {"missing begin", "missing end", "malformed JSON"}

ASSUME ConstantsAssumption ==
  /\ {"", "NULL", "null"} \cup Complaints \subseteq Texts
  /\ SentinelsIn \in [Texts -> Seq({Begin, End})] /\ ControlTexts \subseteq Texts
  /\ \A x \in {"null", "missing begin", "malformed JSON"} :
       x \notin ControlTexts /\ End \notin Range(SentinelsIn[x])
  /\ Payloads \subseteq Payload
  /\ NativeCalls \subseteq [status : Statuses, prog : Int, msg : Texts, modnm : Texts]
  /\ Messages \subseteq Seq({Begin, End} \cup {Word(x) : x \in Texts})
  /\ Readings \subseteq Reading
  /\ \A r \in Readings : /\ IsDate(r.date) /\ r.date.y > 1
                        /\ r.zone < MinutesPerDay /\ 0 - r.zone < MinutesPerDay
  /\ UtcNow \in Readings /\ UtcNow.zone = 0
  /\ Begin.word \notin Ids /\ End.word \notin Ids
  /\ MaxLines \in Nat

VARIABLES
  writer,  \* who writes the file: "python", "fortran" or "ngen"
  lines,   \* the lines of the file, each with what it was written for
  torn,    \* words of a last line without its end, <<>> if there is none
  clock    \* {} or the line the Fortran runtime is finding the time for

vars == <<writer, lines, torn, clock>>
-----------------------------------------------------------------------------
(* JSON                                                                    *)
InText(text) == IF text = {} THEN <<>> ELSE SentinelsIn[The(text)]
InTexts(object) == InText(object.msg) \o InText(object.modnm)
Json(object, raw) ==
  <<[open |-> object, raw |-> raw]>> \o InTexts(object) \o <<[close |-> object]>>

(* Payload.json: json.dumps escapes every control character.                   *)
PayloadJson(p) == Json([p EXCEPT !.status = {@}], FALSE)
JsonWrapped(p) == <<Begin>> \o PayloadJson(p) \o <<End>>

IsJson(words) ==
  /\ words # <<>> /\ "open" \in DOMAIN words[1]
  /\ words = Json(words[1].open, words[1].raw)
-----------------------------------------------------------------------------
(* The ngen logger                                                         *)
FirstOf(words, w, from) ==
  CHOOSE i \in from..Len(words) : words[i] = w /\ \A j \in from..(i - 1) : words[j] # w
Occurs(words, w, from) == \E i \in from..Len(words) : words[i] = w

(* ExtractJsonPayload: what is missing, or the text between the sentinels.       *)
Missing(message) ==
  IF Occurs(message, Begin, 1) = Occurs(message, End, 1)
  THEN IF Occurs(message, Begin, 1) /\ ~Occurs(message, End, FirstOf(message, Begin, 1) + 1)
       THEN {"missing end"} ELSE {}
  ELSE IF Occurs(message, Begin, 1) THEN {"missing end"} ELSE {"missing begin"}

Extracted(message) ==
  IF Occurs(message, Begin, 1)
  THEN LET begin == FirstOf(message, Begin, 1) + 1
       IN SubSeq(message, begin, FirstOf(message, End, begin) - 1)
  ELSE message

(* std::defaultfloat keeps six significant digits.                             *)
SixDigits(prog) == IF prog < One \div 10 THEN prog ELSE ((prog + 5) \div 10) * 10

(* Mutant: no progress is no progress yet.                                    *)
PositiveField(prog) == IF prog <= 0 THEN {} ELSE {SixDigits(prog)}

StringField(value) == IF value \in {"", "NULL"} THEN {} ELSE {value}
ProgField(prog) == IF prog < 0 THEN {} ELSE {SixDigits(prog)}

(* LogPayload with fields: EscapeJson leaves some control characters alone.      *)
Record(id, call) ==
  LET object == [status |-> StringField(call.status), prog |-> ProgField(call.prog),
                 msg |-> StringField(call.msg), modnm |-> StringField(call.modnm)]
      raw == \E text \in object.msg \cup object.modnm : text \in ControlTexts
  IN <<Time(UtcNow.date, UtcNow.minute), Word(id), Word("STATUS"), Begin>>
       \o Json(object, raw) \o <<End>>

Call(status, prog, msg, modnm) == [status |-> status, prog |-> prog, msg |-> msg, modnm |-> modnm]

(* The property tree reads null as the text null, and as no number.             *)
OrNull(field) == IF field = {} THEN "null" ELSE The(field)

(* Mutant: the message and the name of the module change places.               *)
ReadSwapped(object) ==
  Call(OrNull(object.status), IF object.prog = {} THEN -1 ELSE The(object.prog),
       OrNull(object.modnm), OrNull(object.msg))

ReadFields(object) ==
  Call(OrNull(object.status), IF object.prog = {} THEN -1 ELSE The(object.prog),
       OrNull(object.msg), OrNull(object.modnm))

(* Mutant: what cannot be read has no status.                                  *)
MalformedUnknown(what) == Call("NULL", -1, what, "")
Malformed(what) == Call("ERROR", -1, what, "")

(* LogPayload with a message                                                 *)
PayloadRecord(id, message) ==
  Record(id, CASE Missing(message) # {} -> Malformed(The(Missing(message)))
               [] OTHER -> IF IsJson(Extracted(message)) THEN ReadFields(Extracted(message)[1].open)
                           ELSE Malformed("malformed JSON"))
-----------------------------------------------------------------------------
(* The parser                                                              *)

(* EXTRACT_PATTERN.findall: the first pair of sentinels, and whether another    *)
(* one follows.                                                            *)
Found(line) == Occurs(line, Begin, 1) /\ Occurs(line, End, FirstOf(line, Begin, 1) + 1)
Begun(line) == FirstOf(line, Begin, 1) + 1
Ended(line) == FirstOf(line, End, Begun(line)) - 1
FoundAgain(line) == Found(line) /\ Found(SubSeq(line, Ended(line) + 2, Len(line)))

(* Payload.__post_init__                                                     *)
(* Mutant: nothing done is no progress.                                      *)
ProgAboveZero(prog) == prog = {} \/ The(prog) \in 1..One
ValidProg(prog) == prog = {} \/ The(prog) \in 0..One

Parses(words) ==
  /\ IsJson(words) /\ ~words[1].raw
  /\ words[1].open.status # {} /\ The(words[1].open.status) \in Statuses
  /\ ValidProg(words[1].open.prog)

(* payload_of_log_msg: an error, or a payload if there is one                   *)
PayloadOfLogMsg(line) ==
  IF ~Found(line) THEN [error |-> FALSE, payload |-> {}]
  ELSE LET words == SubSeq(line, Begun(line), Ended(line)) IN
       IF FoundAgain(line) \/ ~Parses(words) THEN [error |-> TRUE, payload |-> {}]
       ELSE [error |-> FALSE, payload |-> {[words[1].open EXCEPT !.status = The(@)]}]

(* fromisoformat takes nothing but a date of the calendar.                     *)
IsTime(word) == "date" \in DOMAIN word /\ IsDate(word.date)

(* parts_of_log_line                                                        *)
PartsOfLogLine(line, tolerant) ==
  LET result == PayloadOfLogMsg(line)
      timed == Len(line) >= 4 /\ IsTime(line[1])
  IN [error |-> result.error \/ ~(timed \/ tolerant),
      payload |-> IF timed \/ tolerant THEN result.payload ELSE {},
      dt |-> IF timed THEN {line[1]} ELSE {},
      module |-> IF timed THEN {line[2]} ELSE {}]
-----------------------------------------------------------------------------
(* Writing                                                                  *)

(* Two words that meet where a line was cut off become one.                      *)
Joined(words) ==
  IF torn # <<>> /\ Last(torn) = Junk THEN torn \o Tail(words) ELSE torn \o words

(* A whole line, or one that a crash cuts off: between two words, or inside one. *)
Write(words, sent) ==
  /\ Len(lines) < MaxLines
  /\ lines' = Append(lines, [words |-> Joined(words), sent |-> sent, whole |-> torn = <<>>])
  /\ torn' = <<>>

CutOff(words) ==
  \E n \in 0..(Len(words) - 1), rest \in {<<>>, <<Junk>>} :
    torn' = Joined(SubSeq(words, 1, n) \o rest)

(* A restarted program appends to the file of Python's, and truncates ngen's.    *)
(* Bound: one line of a file is cut off.                                       *)
Crash(words) ==
  /\ torn = <<>> /\ \A i \in DOMAIN lines : lines[i].whole
  /\ IF writer = "python" THEN CutOff(words) /\ UNCHANGED lines
     ELSE lines' = <<>> /\ torn' = <<>>

StandaloneLine(id, level, message) ==
  <<Time(UtcNow.date, UtcNow.minute), Word(id), Word(level)>> \o message

Logged(id, message) ==
  IF writer = "ngen" THEN PayloadRecord(id, message)
  ELSE StandaloneLine(id, "STATUS", message)

WriteOrCrash(words, sent) ==
  /\ Write(words, sent) \/ Crash(words)
  /\ UNCHANGED <<writer, clock>>

(* LOG.status(payload), and with text around it                                *)
LogPayload(id, p) ==
  /\ writer \in {"python", "ngen"}
  /\ \E before \in {<<>>, <<Word("update:")>>} :
       WriteOrCrash(Logged(id, before \o JsonWrapped(p)), [call |-> Call(p.status, p.prog, p.msg, p.modnm)])

(* LOG.status(text)                                                         *)
LogMessage(id, message) ==
  /\ writer \in {"python", "ngen"}
  /\ WriteOrCrash(Logged(id, message), [message |-> message])

(* EwtsPayloadStatus, PayloadStatus, payload_status                           *)
NativeStatus(id, call) ==
  /\ writer = "ngen"
  /\ WriteOrCrash(Record(id, call),
       [call |-> Call(call.status, IF call.prog < 0 THEN {} ELSE {call.prog}, {call.msg}, {call.modnm})])

(* write_log_module of the Fortran runtime, with adjust_utc a step per day        *)
StartLine(id, reading) ==
  /\ writer = "fortran" /\ clock = {} /\ Len(lines) < MaxLines
  /\ clock' = {[id |-> id, reading |-> reading, date |-> reading.date,
                minutes |-> reading.minute - reading.zone]}
  /\ UNCHANGED <<writer, lines, torn>>

Turned(c, date, minutes) ==
  [id |-> c.id, reading |-> c.reading, date |-> date, minutes |-> minutes]

DayBack ==
  \E c \in clock :
    /\ c.minutes < 0
    /\ clock' = {Turned(c, DecDay(c.date), c.minutes + MinutesPerDay)}
    /\ UNCHANGED <<writer, lines, torn>>

DayOn ==
  \E c \in clock :
    /\ c.minutes >= MinutesPerDay
    /\ clock' = {Turned(c, IncDay(c.date), c.minutes - MinutesPerDay)}
    /\ UNCHANGED <<writer, lines, torn>>

WriteLine ==
  \E c \in clock :
    /\ c.minutes \in 0..(MinutesPerDay - 1)
    /\ Write(<<Time(c.date, c.minutes), Word(c.id), Word("INFO"), Word("text")>>,
             [reading |-> c.reading])
    /\ clock' = {}
    /\ UNCHANGED writer

Init ==
  /\ writer \in {"python", "fortran", "ngen"}
  /\ lines = <<>> /\ torn = <<>> /\ clock = {}

Next ==
  \/ \E id \in Ids :
       \/ \E p \in Payloads : LogPayload(id, p)
       \/ \E message \in Messages : LogMessage(id, message)
       \/ \E call \in NativeCalls : NativeStatus(id, call)
       \/ \E reading \in Readings : StartLine(id, reading)
  \/ DayBack \/ DayOn \/ WriteLine

Spec == Init /\ [][Next]_vars
-----------------------------------------------------------------------------
(* Properties                                                               *)
Words ==
  Range(torn) \cup UNION {Range(lines[i].words) : i \in DOMAIN lines}

(* Times on lines, and the one being found, are dates; a line is cut off only in  *)
(* Python's file.                                                          *)
TypeOK ==
  /\ writer \in {"python", "fortran", "ngen"} /\ Len(lines) <= MaxLines
  /\ torn # <<>> => writer = "python"
  /\ clock # {} => writer = "fortran"
  /\ \A c \in clock : IsDate(c.date)
  /\ \A w \in Words : "date" \in DOMAIN w => IsDate(w.date) /\ w.minute \in 0..(MinutesPerDay - 1)

StatusLines == {l \in Range(lines) : "call" \in DOMAIN l.sent /\ l.whole}
HasEnd(text) == \E x \in text : End \in Range(SentinelsIn[x])
Close(read, prog) ==
  \/ read = prog
  \/ \E p \in read, q \in prog : p - q \in -5..5

(* A payload that the Python runtime writes itself, with or without text around  *)
(* it, is read back as it was, unless its message or the name of its module     *)
(* holds the closing sentinel.                                              *)
RoundTrip ==
  writer = "python" => \A l \in StatusLines :
    ~HasEnd(l.sent.call.msg \cup l.sent.call.modnm) =>
      PartsOfLogLine(l.words, FALSE) =
        [error |-> FALSE, payload |-> {l.sent.call}, dt |-> {l.words[1]}, module |-> {l.words[2]}]

(* Of a payload that goes through ngen every field that says something arrives:  *)
(* the texts as they were, the progress to six digits and within its range; an   *)
(* empty text arrives as None.  Not so where a text holds the closing sentinel   *)
(* or control characters, or the progress is beyond 1: ReadBack is about those.   *)
FieldsArrive ==
  writer = "ngen" => \A l \in StatusLines :
    LET call == l.sent.call
        texts == call.msg \cup call.modnm
        read == PartsOfLogLine(l.words, FALSE)
        arrives(from, to) == from # {} => to = {t \in from : t \notin {"", "NULL"}}
    IN call.status # "NULL" /\ texts \cap ControlTexts = {} /\ ~HasEnd(texts)
         /\ (\A p \in call.prog : p <= One) =>
       /\ ~read.error
       /\ \E q \in read.payload :
            /\ q.status = call.status /\ Close(q.prog, call.prog)
            /\ arrives(call.msg, q.msg) /\ arrives(call.modnm, q.modnm)

(* Whatever the parser is given, a line that a crash cut off or two of them run  *)
(* together included, it returns no payload that no program logged and that is   *)
(* no report of the ngen logger: fields of two payloads are never mixed.        *)
SameText(read, text) == read = text \/ (text \subseteq {"", "NULL"} /\ read \subseteq {"null"})
Genuine ==
  \A words \in {torn} \cup {lines[i].words : i \in DOMAIN lines}, tolerant \in BOOLEAN :
    \A q \in PartsOfLogLine(words, tolerant).payload :
      \/ q.status = "ERROR" /\ q.msg \subseteq Complaints /\ q.modnm = {}
      \/ \E p \in Payloads : /\ q.status = p.status /\ Close(q.prog, p.prog)
                            /\ SameText(q.msg, p.msg) /\ SameText(q.modnm, p.modnm)
      \/ \E c \in NativeCalls :
           /\ q.status = c.status /\ Close(q.prog, {p \in {c.prog} : p >= 0})
           /\ SameText(q.msg, {c.msg}) /\ SameText(q.modnm, {c.modnm})

(* A status message that ngen cannot read is reported in its place, as an error  *)
(* that the parser can read, unless the closing sentinel is what is missing.    *)
MalformedReported ==
  writer = "ngen" => \A l \in Range(lines) :
    "message" \in DOMAIN l.sent /\ Missing(l.sent.message) # {"missing end"} =>
      \E q \in PartsOfLogLine(l.words, FALSE).payload :
        q.status = "ERROR" /\ q.msg # {} /\ q.msg \subseteq Complaints

(* The time that the parser reads from a line of the Fortran runtime is the      *)
(* time at which it was written, in every zone and over every end of a month.   *)
Minutes(date, minute) == DayNumber(date) * MinutesPerDay + minute
TimesTrue ==
  writer = "fortran" => \A l \in Range(lines) :
    LET reading == l.sent.reading
        read == PartsOfLogLine(l.words, FALSE)
    IN /\ ~read.error
       /\ \A t \in read.dt :
            Minutes(t.date, t.minute) = Minutes(reading.date, reading.minute) - reading.zone

(* runtime/python/README.md:283: a payload "can be found and parsed later from a *)
(* log line".                                                               *)
ReadBack ==
  \A l \in StatusLines : ~PartsOfLogLine(l.words, FALSE).error
=============================================================================
