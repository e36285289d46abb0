--------------------------- MODULE RecordsProofs ---------------------------
(* The times on the lines of the Fortran runtime are true, for every reading  *)
(* of the clock in every time zone.  And what programs log is read back: by an  *)
(* invariant that every word of a file is genuine and every line that was not    *)
(* cut off is the one its operation writes, and by what the parser makes of      *)
(* each such line.                                                         *)
EXTENDS Records, CalendarProofs, SequenceTheorems, WellFoundedInduction

(* A line as the Fortran runtime writes it, for any time and reading            *)
FortranLine(date, minute, id, reading) ==
  [words |-> <<Time(date, minute), Word(id), Word("INFO"), Word("text")>>,
   sent |-> [reading |-> reading], whole |-> TRUE]

True(date, minute, reading) ==
  /\ IsDate(date)
  /\ Minutes(date, minute) = Minutes(reading.date, reading.minute) - reading.zone

FortranLines ==
  {FortranLine(date, minute, id, reading) :
     date \in Date, minute \in 0..(MinutesPerDay - 1), id \in Ids, reading \in Readings}

TrueLines ==
  {l \in FortranLines : True(l.words[1].date, l.words[1].minute, l.sent.reading)}

Clocks ==
  {c \in [id : Ids, reading : Readings, date : Date, minutes : Int] :
     /\ True(c.date, c.minutes, c.reading)
     /\ c.minutes < 0 => c.date = c.reading.date}

(* The inductive invariant: the loop that adjusts the date keeps the moment it   *)
(* stands for, and has not left the day of the reading when it steps back.      *)
Inv ==
  writer = "fortran" => torn = <<>> /\ clock \subseteq Clocks /\ lines \in Seq(TrueLines)

LEMMA MinutesType ==
  ASSUME NEW date \in Date, NEW minute \in Int, IsDate(date)
  PROVE  DayNumber(date) \in Int /\ Minutes(date, minute) \in Int
<1>1. date.y \in Nat \ {0} /\ date.mo \in 1..12 /\ date.d \in 1..31
  BY DEF Date
<1>2. DaysBeforeYear(date.y) \in Int
  BY <1>1, YearLengths
<1>3. DaysBeforeMonth(date.y, date.mo) \in Nat
  BY <1>1, MonthSums
<1> QED BY <1>1, <1>2, <1>3 DEF DayNumber, Minutes, MinutesPerDay

LEMMA ReadingType ==
  ASSUME NEW r \in Readings
  PROVE  /\ r.date \in Date /\ IsDate(r.date) /\ r.date.y > 1
         /\ r.minute \in Int /\ 0 <= r.minute
         /\ r.zone \in Int /\ r.zone < MinutesPerDay
         /\ Minutes(r.date, r.minute) \in Int
<1>1. /\ r \in Reading /\ IsDate(r.date) /\ r.date.y > 1
      /\ r.zone < MinutesPerDay
  BY ConstantsAssumption
<1>2. r.date \in Date /\ r.minute \in 0..(MinutesPerDay - 1) /\ r.zone \in Int
  BY <1>1 DEF Reading
<1>3. r.minute \in Int /\ 0 <= r.minute
  BY SMTT(30), <1>2 DEF MinutesPerDay
<1>4. Minutes(r.date, r.minute) \in Int
  BY <1>1, <1>2, <1>3, MinutesType
<1> QED BY <1>1, <1>2, <1>3, <1>4

(* The words of such a line, and the time and the reading on it                  *)
LEMMA FortranLineFields ==
  ASSUME NEW date, NEW minute, NEW id, NEW r
  PROVE  LET l == FortranLine(date, minute, id, r)
         IN /\ l.words = <<Time(date, minute), Word(id), Word("INFO"), Word("text")>>
            /\ l.words[1].date = date /\ l.words[1].minute = minute /\ l.sent.reading = r
<1> DEFINE l == FortranLine(date, minute, id, r)
<1>1. l.words = <<Time(date, minute), Word(id), Word("INFO"), Word("text")>>
      /\ l.sent.reading = r
  BY DEF FortranLine
<1>2. l.words[1] = Time(date, minute)
  BY <1>1
<1>3. Time(date, minute).date = date /\ Time(date, minute).minute = minute
  BY DEF Time
<1> QED BY <1>1, <1>2, <1>3

(* The parser takes such a line apart and finds its time.                      *)
LEMMA FortranLineParsed ==
  ASSUME NEW date \in Date, IsDate(date), NEW minute, NEW id \in Ids
  PROVE  LET words == <<Time(date, minute), Word(id), Word("INFO"), Word("text")>>
         IN /\ PartsOfLogLine(words, FALSE).error = FALSE
            /\ PartsOfLogLine(words, FALSE).dt = {Time(date, minute)}
<1> DEFINE words == <<Time(date, minute), Word(id), Word("INFO"), Word("text")>>
<1>1. Len(words) = 4 /\ words[1] = Time(date, minute) /\ words[2] = Word(id)
      /\ words[3] = Word("INFO") /\ words[4] = Word("text")
  OBVIOUS
<1>2. Time(date, minute) # Begin
  <2>1. DOMAIN Time(date, minute) = {"date", "minute"}
    BY DEF Time
  <2>2. DOMAIN Begin = {"word"}
    BY DEF Begin
  <2>3. "date" # "word"
    OBVIOUS
  <2> QED BY <2>1, <2>2, <2>3
<1>3. \A w : Word(w) = Begin => w = "<MSG_DATA>"
  BY DEF Word, Begin
<1>4. id # "<MSG_DATA>"
  BY ConstantsAssumption DEF Begin
<1>5. \A i \in 1..4 : words[i] # Begin
  <2>1. words[2] # Begin
    BY <1>1, <1>3, <1>4
  <2>2. words[3] # Begin /\ words[4] # Begin
    BY <1>1, <1>3
  <2>3. \A i \in 1..4 : i = 1 \/ i = 2 \/ i = 3 \/ i = 4
    OBVIOUS
  <2> HIDE DEF words
  <2> QED BY <1>1, <1>2, <2>1, <2>2, <2>3
<1>6. IsTime(words[1])
  BY <1>1 DEF IsTime, Time
<1> HIDE DEF words
<1>7. ~Found(words)
  BY <1>1, <1>5 DEF Found, Occurs
<1>8. PayloadOfLogMsg(words) = [error |-> FALSE, payload |-> {}]
  BY <1>7 DEF PayloadOfLogMsg
<1>9. PartsOfLogLine(words, FALSE).error = FALSE
      /\ PartsOfLogLine(words, FALSE).dt = {words[1]}
  <2>1. (Len(words) >= 4 /\ IsTime(words[1])) = TRUE
    BY <1>1, <1>6
  <2>2. PayloadOfLogMsg(words).error = FALSE
    BY <1>8
  <2>3. /\ PartsOfLogLine(words, FALSE).error
             = (PayloadOfLogMsg(words).error \/ ~((Len(words) >= 4 /\ IsTime(words[1])) \/ FALSE))
        /\ PartsOfLogLine(words, FALSE).dt
             = IF Len(words) >= 4 /\ IsTime(words[1]) THEN {words[1]} ELSE {}
    BY Zenon DEF PartsOfLogLine
  <2> QED BY <2>1, <2>2, <2>3
<1> QED BY <1>1, <1>9 DEF words

LEMMA InvImplies == Inv => TimesTrue
<1> SUFFICES ASSUME Inv, writer = "fortran", NEW l \in Range(lines)
             PROVE  LET reading == l.sent.reading
                        read == PartsOfLogLine(l.words, FALSE)
                    IN /\ ~read.error
                       /\ \A t \in read.dt : Minutes(t.date, t.minute)
                            = Minutes(reading.date, reading.minute) - reading.zone
  BY DEF TimesTrue
<1>1. l \in TrueLines
  <2>1. lines \in Seq(TrueLines)
    BY DEF Inv
  <2> QED BY <2>1, RangeOfSeq
<1>2. PICK date \in Date, minute \in 0..(MinutesPerDay - 1), id \in Ids, r \in Readings :
        /\ l = FortranLine(date, minute, id, r) /\ True(date, minute, r)
  <2>1. l \in FortranLines /\ True(l.words[1].date, l.words[1].minute, l.sent.reading)
    BY <1>1 DEF TrueLines
  <2>2. PICK date \in Date, minute \in 0..(MinutesPerDay - 1), id \in Ids, r \in Readings :
          l = FortranLine(date, minute, id, r)
    BY <2>1 DEF FortranLines
  <2>3. True(date, minute, r)
    BY <2>1, <2>2, FortranLineFields
  <2> QED BY <2>2, <2>3
<1>3. /\ l.words = <<Time(date, minute), Word(id), Word("INFO"), Word("text")>>
      /\ l.sent.reading = r
  BY <1>2, FortranLineFields
<1>4. /\ PartsOfLogLine(l.words, FALSE).error = FALSE
      /\ PartsOfLogLine(l.words, FALSE).dt = {Time(date, minute)}
  <2>1. IsDate(date)
    BY <1>2 DEF True
  <2> QED BY ZenonT(30), <1>3, <2>1, FortranLineParsed
<1>5. Time(date, minute).date = date /\ Time(date, minute).minute = minute
  BY DEF Time
<1> QED BY <1>2, <1>3, <1>4, <1>5 DEF True

(* A step back or forth of a day does not change the moment.                     *)
LEMMA DayBackKeeps ==
  ASSUME NEW c \in Clocks, c.minutes < 0
  PROVE  Turned(c, DecDay(c.date), c.minutes + MinutesPerDay) \in Clocks
<1> DEFINE n == Turned(c, DecDay(c.date), c.minutes + MinutesPerDay)
<1>1. /\ c \in [id : Ids, reading : Readings, date : Date, minutes : Int]
      /\ True(c.date, c.minutes, c.reading) /\ c.date = c.reading.date
  BY DEF Clocks
<1>2. c.reading \in Readings /\ c.date \in Date /\ c.minutes \in Int /\ c.id \in Ids
  BY <1>1
<1>3. IsDate(c.date) /\ c.date.y > 1
  BY <1>1, <1>2, ReadingType
<1>4. IsDate(DecDay(c.date)) /\ DayNumber(DecDay(c.date)) = DayNumber(c.date) - 1
  BY <1>3, DayBefore
<1>5. DecDay(c.date) \in Date /\ DayNumber(c.date) \in Int
  BY <1>2, <1>3, <1>4, MinutesType DEF IsDate
<1>6. n = [id |-> c.id, reading |-> c.reading, date |-> DecDay(c.date),
           minutes |-> c.minutes + MinutesPerDay]
  BY DEF Turned
<1>7. Minutes(c.date, c.minutes) = Minutes(DecDay(c.date), c.minutes + MinutesPerDay)
  BY <1>2, <1>4, <1>5 DEF Minutes, MinutesPerDay
<1>8. c.minutes + MinutesPerDay >= 0
  <2>1. Minutes(c.date, c.minutes) = Minutes(c.date, c.reading.minute) - c.reading.zone
    BY <1>1 DEF True
  <2>2. /\ c.reading.minute \in Int /\ 0 <= c.reading.minute
        /\ c.reading.zone \in Int /\ c.reading.zone < MinutesPerDay
    BY <1>2, ReadingType
  <2> QED BY <1>2, <1>5, <2>1, <2>2 DEF Minutes, MinutesPerDay
<1>9. c.minutes + MinutesPerDay \in Int
  BY <1>2 DEF MinutesPerDay
<1>10. /\ n.id = c.id /\ n.reading = c.reading /\ n.date = DecDay(c.date)
       /\ n.minutes = c.minutes + MinutesPerDay
       /\ n \in [id : Ids, reading : Readings, date : Date, minutes : Int]
  BY <1>2, <1>5, <1>6, <1>9
<1>11. True(n.date, n.minutes, n.reading)
  BY <1>1, <1>4, <1>7, <1>10 DEF True
<1>12. ~(n.minutes < 0)
  BY <1>8, <1>9, <1>10
<1> QED BY <1>10, <1>11, <1>12 DEF Clocks

LEMMA DayOnKeeps ==
  ASSUME NEW c \in Clocks, c.minutes >= MinutesPerDay
  PROVE  Turned(c, IncDay(c.date), c.minutes - MinutesPerDay) \in Clocks
<1> DEFINE n == Turned(c, IncDay(c.date), c.minutes - MinutesPerDay)
<1>1. /\ c \in [id : Ids, reading : Readings, date : Date, minutes : Int]
      /\ True(c.date, c.minutes, c.reading)
  BY DEF Clocks
<1>2. c.reading \in Readings /\ c.date \in Date /\ c.minutes \in Int /\ c.id \in Ids
  BY <1>1
<1>3. IsDate(c.date)
  BY <1>1 DEF True
<1>4. IsDate(IncDay(c.date)) /\ DayNumber(IncDay(c.date)) = DayNumber(c.date) + 1
  BY <1>3, NextDay
<1>5. IncDay(c.date) \in Date /\ DayNumber(c.date) \in Int
  BY <1>2, <1>3, <1>4, MinutesType DEF IsDate
<1>6. n = [id |-> c.id, reading |-> c.reading, date |-> IncDay(c.date),
           minutes |-> c.minutes - MinutesPerDay]
  BY DEF Turned
<1>7. Minutes(c.date, c.minutes) = Minutes(IncDay(c.date), c.minutes - MinutesPerDay)
  BY <1>2, <1>4, <1>5 DEF Minutes, MinutesPerDay
<1>8. c.minutes - MinutesPerDay \in Int /\ ~(c.minutes - MinutesPerDay < 0)
  BY <1>2 DEF MinutesPerDay
<1>9. /\ n.id = c.id /\ n.reading = c.reading /\ n.date = IncDay(c.date)
      /\ n.minutes = c.minutes - MinutesPerDay
      /\ n \in [id : Ids, reading : Readings, date : Date, minutes : Int]
  BY <1>2, <1>5, <1>6, <1>8
<1>10. True(n.date, n.minutes, n.reading)
  BY <1>1, <1>4, <1>7, <1>9 DEF True
<1> QED BY <1>8, <1>9, <1>10 DEF Clocks

(* The clock starts at the moment of the reading.                              *)
LEMMA StartTrue ==
  ASSUME NEW id \in Ids, NEW r \in Readings
  PROVE  [id |-> id, reading |-> r, date |-> r.date, minutes |-> r.minute - r.zone] \in Clocks
<1> DEFINE n == [id |-> id, reading |-> r, date |-> r.date, minutes |-> r.minute - r.zone]
<1>1. /\ r.date \in Date /\ IsDate(r.date) /\ r.minute \in Int /\ r.zone \in Int
  BY ReadingType
<1>2. DayNumber(r.date) \in Int
  BY <1>1, MinutesType
<1>3. Minutes(r.date, r.minute - r.zone) = Minutes(r.date, r.minute) - r.zone
  BY <1>1, <1>2 DEF Minutes, MinutesPerDay
<1>4. /\ n.id = id /\ n.reading = r /\ n.date = r.date /\ n.minutes = r.minute - r.zone
      /\ n \in [id : Ids, reading : Readings, date : Date, minutes : Int]
  BY <1>1
<1> QED BY <1>1, <1>3, <1>4 DEF Clocks, True

LEMMA WriteLineTrue ==
  ASSUME Inv, writer = "fortran", WriteLine
  PROVE  lines' \in Seq(TrueLines) /\ torn' = <<>> /\ clock' = {}
<1>1. PICK c \in clock :
        /\ c.minutes \in 0..(MinutesPerDay - 1)
        /\ Write(<<Time(c.date, c.minutes), Word(c.id), Word("INFO"), Word("text")>>,
                 [reading |-> c.reading])
        /\ clock' = {}
  BY DEF WriteLine
<1>2. torn = <<>> /\ c \in Clocks /\ lines \in Seq(TrueLines)
  BY DEF Inv
<1> DEFINE words == <<Time(c.date, c.minutes), Word(c.id), Word("INFO"), Word("text")>>
           l == FortranLine(c.date, c.minutes, c.id, c.reading)
<1>3. <<>> \o words = words
  <2>1. words \in Seq({Time(c.date, c.minutes), Word(c.id), Word("INFO"), Word("text")})
    OBVIOUS
  <2> HIDE DEF words
  <2> QED BY <2>1, ConcatEmptySeq
<1>4. Joined(words) = words
  BY <1>2, <1>3 DEF Joined
<1>5. lines' = Append(lines, [words |-> words, sent |-> [reading |-> c.reading], whole |-> TRUE])
  BY <1>1, <1>2, <1>4 DEF Write
<1>6. c.date \in Date /\ c.id \in Ids /\ c.reading \in Readings /\ True(c.date, c.minutes, c.reading)
  BY <1>2 DEF Clocks
<1>7. l \in TrueLines
  <2>1. l \in FortranLines
    BY <1>1, <1>6 DEF FortranLines
  <2>2. True(l.words[1].date, l.words[1].minute, l.sent.reading)
    BY <1>6, FortranLineFields
  <2> QED BY <2>1, <2>2 DEF TrueLines
<1>8. lines' = Append(lines, l)
  BY <1>5 DEF FortranLine
<1>9. lines' \in Seq(TrueLines)
  BY <1>2, <1>7, <1>8, AppendProperties
<1> QED BY <1>1, <1>9 DEF Write

LEMMA InvStep == Inv /\ [Next]_vars => Inv'
<1> SUFFICES ASSUME Inv, [Next]_vars, writer' = "fortran"
             PROVE  torn' = <<>> /\ clock' \subseteq Clocks /\ lines' \in Seq(TrueLines)
  BY DEF Inv, True, TrueLines, Clocks, Minutes
<1>1. ASSUME NEW id \in Ids, NEW p \in Payloads, LogPayload(id, p) PROVE FALSE
  BY <1>1 DEF LogPayload, WriteOrCrash
<1>2. ASSUME NEW id \in Ids, NEW m \in Messages, LogMessage(id, m) PROVE FALSE
  BY <1>2 DEF LogMessage, WriteOrCrash
<1>3. ASSUME NEW id \in Ids, NEW call \in NativeCalls, NativeStatus(id, call) PROVE FALSE
  BY <1>3 DEF NativeStatus, WriteOrCrash
<1>4. ASSUME NEW id \in Ids, NEW r \in Readings, StartLine(id, r)
      PROVE  torn' = <<>> /\ clock' \subseteq Clocks /\ lines' \in Seq(TrueLines)
  <2>1. clock' \subseteq Clocks
    BY <1>4, StartTrue DEF StartLine
  <2> QED BY <1>4, <2>1 DEF StartLine, Inv
<1>5. CASE DayBack
  <2>1. PICK c \in clock : c.minutes < 0
          /\ clock' = {Turned(c, DecDay(c.date), c.minutes + MinutesPerDay)}
          /\ UNCHANGED <<writer, lines, torn>>
    BY <1>5 DEF DayBack
  <2>2. c \in Clocks /\ torn = <<>> /\ lines \in Seq(TrueLines)
    BY <2>1 DEF Inv
  <2>3. clock' \subseteq Clocks
    BY <2>1, <2>2, DayBackKeeps
  <2> QED BY <2>1, <2>2, <2>3
<1>6. CASE DayOn
  <2>1. PICK c \in clock : c.minutes >= MinutesPerDay
          /\ clock' = {Turned(c, IncDay(c.date), c.minutes - MinutesPerDay)}
          /\ UNCHANGED <<writer, lines, torn>>
    BY <1>6 DEF DayOn
  <2>2. c \in Clocks /\ torn = <<>> /\ lines \in Seq(TrueLines)
    BY <2>1 DEF Inv
  <2>3. clock' \subseteq Clocks
    BY <2>1, <2>2, DayOnKeeps
  <2> QED BY <2>1, <2>2, <2>3
<1>7. CASE WriteLine
  <2>1. writer = "fortran"
    BY <1>7 DEF WriteLine
  <2> QED BY <1>7, <2>1, WriteLineTrue
<1>8. CASE UNCHANGED vars
  BY <1>8 DEF vars, Inv
<1> QED BY <1>1, <1>2, <1>3, <1>4, <1>5, <1>6, <1>7, <1>8 DEF Next

(* Whatever date_and_time returns, in whatever zone, the time that the parser    *)
(* reads from a line of the Fortran runtime is the moment it was written.       *)
THEOREM FortranTimesTrue == Spec => []TimesTrue
<1>1. Init => Inv
  <2>1. <<>> \in Seq(TrueLines)
    BY EmptySeq
  <2> QED BY <2>1 DEF Init, Inv
<1>2. Inv /\ [Next]_vars => Inv'
  BY InvStep
<1>3. Inv => TimesTrue
  BY InvImplies
<1> QED BY <1>1, <1>2, <1>3, PTL DEF Spec
-----------------------------------------------------------------------------
(* Searching for words                                                      *)

(* What is at one place and nowhere before is found there.                     *)
LEMMA FirstIs ==
  ASSUME NEW S, NEW words \in Seq(S), NEW w, NEW from \in Nat, NEW i \in from..Len(words),
         words[i] = w, \A j \in from..(i - 1) : words[j] # w
  PROVE  FirstOf(words, w, from) = i /\ Occurs(words, w, from)
<1>1. \A k \in from..Len(words) :
        words[k] = w /\ (\A j \in from..(k - 1) : words[j] # w) => k = i
  <2> SUFFICES ASSUME NEW k \in from..Len(words), words[k] = w,
                      \A j \in from..(k - 1) : words[j] # w
               PROVE  k = i
    OBVIOUS
  <2>1. Len(words) \in Nat /\ k \in Nat /\ i \in Nat
    OBVIOUS
  <2>2. ~(k < i)
    BY <2>1
  <2>3. ~(i < k)
    BY <2>1
  <2> QED BY <2>1, <2>2, <2>3
<1>2. FirstOf(words, w, from) = i
  BY <1>1 DEF FirstOf
<1> QED BY <1>2 DEF Occurs

(* What occurs has a first place.                                              *)
LEMMA FirstExists ==
  ASSUME NEW S, NEW words \in Seq(S), NEW w, NEW from \in Nat, Occurs(words, w, from)
  PROVE  FirstOf(words, w, from) \in from..Len(words) /\ words[FirstOf(words, w, from)] = w
<1> DEFINE places == {i \in from..Len(words) : words[i] = w}
<1>1. places \subseteq Nat /\ places # {} /\ Len(words) \in Nat
  BY DEF Occurs
<1>2. IsWellFoundedOn(OpToRel(<, Nat), Nat)
  BY NatLessThanWellFounded
<1>3. PICK i \in places : \A j \in places : ~ (<<j, i>> \in OpToRel(<, Nat))
  BY <1>1, <1>2, WFMin
<1>4. \A j, k \in Nat : j < k => <<j, k>> \in OpToRel(<, Nat)
  <2>1. ASSUME NEW j \in Nat, NEW k \in Nat, j < k
        PROVE  <<j, k>> \in {ss \in Nat \X Nat : ss[1] < ss[2]}
    BY <2>1
  <2> QED BY Zenon, <2>1 DEF OpToRel
<1>5. \A j \in places : ~(j < i)
  BY Zenon, <1>1, <1>3, <1>4
<1>6. \A j \in from..(i - 1) : words[j] # w
  BY <1>1, <1>5
<1>7. i \in from..Len(words) /\ words[i] = w
  OBVIOUS
<1> HIDE DEF places
<1> QED BY <1>6, <1>7, FirstIs
-----------------------------------------------------------------------------
(* Payloads on lines                                                        *)

(* A line ends with a pair of sentinels around mid, with head before them, in      *)
(* which no other pair begins.                                               *)
Wraps(line, head, mid) ==
  /\ Len(line) = Len(head) + Len(mid) + 2
  /\ \A i \in 1..Len(head) : line[i] = head[i] /\ head[i] # Begin
  /\ line[Len(head) + 1] = Begin
  /\ \A i \in 1..Len(mid) : line[Len(head) + 1 + i] = mid[i] /\ mid[i] # End
  /\ line[Len(line)] = End

(* ExtractJsonPayload and EXTRACT_PATTERN agree on such a line.                  *)
LEMMA WrappedFound ==
  ASSUME NEW S, NEW line \in Seq(S), NEW head \in Seq(S), NEW mid \in Seq(S),
         Wraps(line, head, mid)
  PROVE  /\ Found(line) /\ Begun(line) = Len(head) + 2 /\ Ended(line) = Len(line) - 1
         /\ SubSeq(line, Begun(line), Ended(line)) = mid
         /\ ~FoundAgain(line)
         /\ Missing(line) = {} /\ Extracted(line) = mid
<1> DEFINE b == Len(head) + 1
           e == Len(line)
<1>1. b \in Nat \ {0} /\ e \in Nat /\ e = b + Len(mid) + 1 /\ Len(mid) \in Nat
  BY DEF Wraps
<1>2. FirstOf(line, Begin, 1) = b /\ Occurs(line, Begin, 1)
  <2>1. \A j \in 1..(b - 1) : line[j] # Begin
    <3>1. b - 1 = Len(head)
      BY <1>1
    <3>2. \A j \in 1..Len(head) : line[j] # Begin
      BY DEF Wraps
    <3> HIDE DEF b
    <3> QED BY <3>1, <3>2
  <2>2. line[b] = Begin /\ b \in 1..Len(line)
    BY <1>1 DEF Wraps
  <2> HIDE DEF b
  <2> QED BY <2>1, <2>2, FirstIs
<1>3. FirstOf(line, End, b + 1) = e /\ Occurs(line, End, b + 1)
  <2>1. \A j \in (b + 1)..(e - 1) : line[j] # End
    <3> SUFFICES ASSUME NEW j \in (b + 1)..(e - 1) PROVE line[j] # End
      OBVIOUS
    <3> DEFINE i == j - b
    <3>1. i \in 1..Len(mid) /\ Len(head) + 1 + i = j
      BY <1>1
    <3> HIDE DEF i
    <3>2. line[Len(head) + 1 + i] = mid[i] /\ mid[i] # End
      BY <3>1 DEF Wraps
    <3> QED BY <3>1, <3>2
  <2>2. line[e] = End /\ e \in (b + 1)..Len(line)
    BY <1>1 DEF Wraps
  <2>3. b + 1 \in Nat
    BY <1>1
  <2> HIDE DEF b, e
  <2> QED BY <2>1, <2>2, <2>3, FirstIs
<1>4. Found(line) /\ Begun(line) = b + 1 /\ Ended(line) = e - 1
  BY <1>2, <1>3 DEF Found, Begun, Ended
<1>5. SubSeq(line, b + 1, e - 1) = mid
  <2>1. \A i \in (b + 1)..(e - 1) : line[i] \in S
    BY <1>1
  <2>2. /\ SubSeq(line, b + 1, e - 1) \in Seq(S)
        /\ Len(SubSeq(line, b + 1, e - 1)) = IF b + 1 <= e - 1 THEN e - 1 - (b + 1) + 1 ELSE 0
        /\ \A i \in 1..(e - 1 - (b + 1) + 1) : SubSeq(line, b + 1, e - 1)[i] = line[b + 1 + i - 1]
    <3>1. b + 1 \in Int /\ e - 1 \in Int
      BY <1>1
    <3> HIDE DEF b, e
    <3> QED BY <2>1, <3>1, SubSeqProperties
  <2>3. Len(SubSeq(line, b + 1, e - 1)) = Len(mid)
    BY <1>1, <2>2
  <2>4. \A i \in 1..Len(mid) : SubSeq(line, b + 1, e - 1)[i] = mid[i]
    <3> SUFFICES ASSUME NEW i \in 1..Len(mid) PROVE SubSeq(line, b + 1, e - 1)[i] = mid[i]
      OBVIOUS
    <3>1. i \in 1..(e - 1 - (b + 1) + 1) /\ b + 1 + i - 1 = Len(head) + 1 + i
      BY <1>1
    <3>2. SubSeq(line, b + 1, e - 1)[i] = line[b + 1 + i - 1]
      BY <2>2, <3>1
    <3>3. line[Len(head) + 1 + i] = mid[i]
      BY DEF Wraps
    <3> HIDE DEF b, e
    <3> QED BY <3>1, <3>2, <3>3
  <2> HIDE DEF b, e
  <2> QED BY <2>2, <2>3, <2>4, SeqEqual
<1>6. ~FoundAgain(line)
  <2>1. SubSeq(line, Ended(line) + 2, Len(line)) = <<>>
    BY <1>1, <1>4, SubSeqEmpty
  <2>2. ~Occurs(<<>>, Begin, 1)
    BY DEF Occurs
  <2> QED BY <2>1, <2>2 DEF FoundAgain, Found
<1>7. Occurs(line, End, 1)
  BY <1>1, <1>3 DEF Occurs
<1>8. Missing(line) = {}
  BY <1>2, <1>3, <1>7 DEF Missing
<1>9. Extracted(line) = mid
  BY <1>2, <1>3, <1>5 DEF Extracted
<1> QED BY <1>4, <1>5, <1>6, <1>8, <1>9

(* A JSON object as an ngen record or a Python payload holds it                 *)
Object ==
  [status : Optional(Texts \cup Statuses), prog : Optional(Nat),
   msg : Optional(Texts), modnm : Optional(Texts)]

LEMMA OptionalThe ==
  ASSUME NEW S, NEW o \in Optional(S)
  PROVE  o # {} => The(o) \in S /\ o = {The(o)}
BY DEF Optional, The

LEMMA TextType ==
  ASSUME NEW text \in Optional(Texts)
  PROVE  /\ InText(text) \in Seq({Begin, End})
         /\ End \in Range(InText(text)) => HasEnd(text)
<1>1. text # {} => The(text) \in Texts /\ The(text) \in text
  BY OptionalThe
<1>2. SentinelsIn \in [Texts -> Seq({Begin, End})]
  BY ConstantsAssumption
<1>3. CASE text = {}
  <2>1. InText(text) = <<>>
    BY <1>3 DEF InText
  <2>2. Range(<<>>) = {}
    BY DEF Range
  <2> QED BY <2>1, <2>2
<1>4. CASE text # {}
  <2>1. InText(text) = SentinelsIn[The(text)]
    BY <1>4 DEF InText
  <2> QED BY <1>1, <1>2, <1>4, <2>1 DEF HasEnd
<1> QED BY <1>3, <1>4

(* The sentinels in an object are those of its message and of its module's name.  *)
LEMMA TextsType ==
  ASSUME NEW o \in Object
  PROVE  /\ InTexts(o) \in Seq({Begin, End})
         /\ ~HasEnd(o.msg \cup o.modnm) =>
              \A i \in 1..Len(InTexts(o)) : InTexts(o)[i] # End
<1> DEFINE a == InText(o.msg)
           b == InText(o.modnm)
<1>1. o.msg \in Optional(Texts) /\ o.modnm \in Optional(Texts)
  BY DEF Object
<1>2. /\ a \in Seq({Begin, End}) /\ b \in Seq({Begin, End})
      /\ End \in Range(a) => HasEnd(o.msg)
      /\ End \in Range(b) => HasEnd(o.modnm)
  BY <1>1, TextType
<1>3. HasEnd(o.msg) \/ HasEnd(o.modnm) => HasEnd(o.msg \cup o.modnm)
  BY DEF HasEnd
<1>4. InTexts(o) = a \o b
  BY DEF InTexts
<1> HIDE DEF a, b
<1>5. /\ a \o b \in Seq({Begin, End}) /\ Len(a \o b) = Len(a) + Len(b)
      /\ \A i \in 1 .. Len(a) + Len(b) :
           (a \o b)[i] = IF i <= Len(a) THEN a[i] ELSE b[i - Len(a)]
  BY <1>2, ConcatProperties
<1>6. ASSUME ~HasEnd(o.msg \cup o.modnm), NEW i \in 1..Len(a \o b)
      PROVE  (a \o b)[i] # End
  <2>1. End \notin Range(a) /\ End \notin Range(b)
    BY <1>2, <1>3, <1>6
  <2>2. (\A j \in 1..Len(a) : a[j] # End) /\ (\A j \in 1..Len(b) : b[j] # End)
    BY <1>2, <2>1 DEF Range
  <2>3. Len(a) \in Nat /\ Len(b) \in Nat
    BY <1>2
  <2>4. i <= Len(a) \/ i - Len(a) \in 1..Len(b)
    BY <1>5, <2>3
  <2> QED BY <1>5, <2>2, <2>3, <2>4
<1> QED BY <1>4, <1>5, <1>6

(* The words of an object                                                     *)
LEMMA JsonShape ==
  ASSUME NEW o \in Object, NEW raw \in BOOLEAN
  PROVE  LET text == InTexts(o)
             json == Json(o, raw)
             open == [open |-> o, raw |-> raw]
             close == [close |-> o]
         IN /\ json \in Seq({open, close, Begin, End})
            /\ Len(json) = Len(text) + 2 /\ Len(text) \in Nat
            /\ json[1] = open /\ json[Len(json)] = close
            /\ \A i \in 1..Len(text) : json[i + 1] = text[i]
<1> DEFINE text == InTexts(o)
           json == Json(o, raw)
           open == [open |-> o, raw |-> raw]
           close == [close |-> o]
           S == {open, close, Begin, End}
<1>1. text \in Seq({Begin, End})
  BY TextsType
<1>2. json = <<open>> \o text \o <<close>>
  BY DEF Json
<1> HIDE DEF text, json, open, close
<1>3. text \in Seq(S) /\ <<open>> \in Seq(S) /\ <<close>> \in Seq(S)
  BY <1>1, SeqMonotonic
<1>4. /\ <<open>> \o text \in Seq(S) /\ Len(<<open>> \o text) = 1 + Len(text)
      /\ \A i \in 1..(1 + Len(text)) :
           (<<open>> \o text)[i] = IF i <= 1 THEN open ELSE text[i - 1]
  BY <1>3, ConcatProperties
<1>5. /\ json \in Seq(S) /\ Len(json) = Len(text) + 2
      /\ \A i \in 1..(Len(text) + 2) :
           json[i] = IF i <= 1 + Len(text) THEN (<<open>> \o text)[i] ELSE close
  BY <1>2, <1>3, <1>4, ConcatProperties
<1>6. Len(text) \in Nat
  BY <1>1
<1>7. json[1] = open /\ json[Len(json)] = close
  BY <1>4, <1>5, <1>6
<1>8. \A i \in 1..Len(text) : json[i + 1] = text[i]
  <2> SUFFICES ASSUME NEW i \in 1..Len(text) PROVE json[i + 1] = text[i]
    OBVIOUS
  <2>1. i + 1 \in 1..(1 + Len(text)) /\ i + 1 \in 1..(Len(text) + 2) /\ ~(i + 1 <= 1) /\ i + 1 - 1 = i
    BY <1>6
  <2> QED BY <1>4, <1>5, <2>1
<1> QED BY <1>5, <1>6, <1>7, <1>8 DEF text, json, open, close

(* Only a message or a module's name puts a closing sentinel into an object.     *)
LEMMA JsonNoEnd ==
  ASSUME NEW o \in Object, NEW raw \in BOOLEAN, ~HasEnd(o.msg \cup o.modnm)
  PROVE  \A i \in 1..Len(Json(o, raw)) : Json(o, raw)[i] # End
<1> DEFINE text == InTexts(o)
           json == Json(o, raw)
           open == [open |-> o, raw |-> raw]
           close == [close |-> o]
<1>1. /\ Len(json) = Len(text) + 2 /\ Len(text) \in Nat
      /\ json[1] = open /\ json[Len(json)] = close
      /\ \A i \in 1..Len(text) : json[i + 1] = text[i]
  BY JsonShape
<1>2. open # End /\ close # End
  <2>1. "word" \in DOMAIN End /\ "word" \notin DOMAIN open /\ "word" \notin DOMAIN close
    BY DEF End
  <2> QED BY <2>1
<1>3. \A i \in 1..Len(text) : text[i] # End
  BY TextsType
<1> SUFFICES ASSUME NEW i \in 1..Len(json) PROVE json[i] # End
  OBVIOUS
<1>4. i = 1 \/ i = Len(json) \/ (i - 1 \in 1..Len(text) /\ (i - 1) + 1 = i)
  BY <1>1
<1> HIDE DEF text, json, open, close
<1> QED BY <1>1, <1>2, <1>3, <1>4

(* A pair of sentinels around words without a closing one, after words without an  *)
(* opening one                                                              *)
LEMMA WrapConcat ==
  ASSUME NEW S, Begin \in S, End \in S, NEW head \in Seq(S), NEW mid \in Seq(S),
         \A i \in 1..Len(head) : head[i] # Begin, \A i \in 1..Len(mid) : mid[i] # End
  PROVE  /\ head \o (<<Begin>> \o mid \o <<End>>) \in Seq(S)
         /\ Wraps(head \o (<<Begin>> \o mid \o <<End>>), head, mid)
<1> DEFINE inner == <<Begin>> \o mid \o <<End>>
           line == head \o inner
           h == Len(head)
           n == Len(mid)
<1>1. h \in Nat /\ n \in Nat /\ <<Begin>> \in Seq(S) /\ <<End>> \in Seq(S)
  OBVIOUS
<1>2. /\ <<Begin>> \o mid \in Seq(S) /\ Len(<<Begin>> \o mid) = 1 + n
      /\ \A i \in 1..(1 + n) : (<<Begin>> \o mid)[i] = IF i <= 1 THEN Begin ELSE mid[i - 1]
  BY <1>1, ConcatProperties
<1>3. /\ inner \in Seq(S) /\ Len(inner) = n + 2
      /\ \A i \in 1..(n + 2) : inner[i] = IF i <= 1 + n THEN (<<Begin>> \o mid)[i] ELSE End
  BY <1>1, <1>2, ConcatProperties
<1> HIDE DEF inner
<1>4. /\ line \in Seq(S) /\ Len(line) = h + n + 2
      /\ \A i \in 1..(h + n + 2) : line[i] = IF i <= h THEN head[i] ELSE inner[i - h]
  <2>1. /\ line \in Seq(S) /\ Len(line) = Len(head) + Len(inner)
        /\ \A i \in 1..(Len(head) + Len(inner)) :
             line[i] = IF i <= Len(head) THEN head[i] ELSE inner[i - Len(head)]
    BY <1>3, ConcatProperties
  <2>2. Len(head) + Len(inner) = h + n + 2
    BY <1>1, <1>3
  <2> HIDE DEF line, n
  <2> QED BY <2>1, <2>2
<1> HIDE DEF line, h, n
<1>5. \A i \in 1..h : line[i] = head[i] /\ head[i] # Begin
  BY <1>1, <1>4 DEF h
<1>6. line[h + 1] = Begin
  <2>1. h + 1 \in 1..(h + n + 2) /\ ~(h + 1 <= h) /\ h + 1 - h = 1 
        /\ 1 \in 1..(n + 2) /\ 1 \in 1..(1 + n) /\ 1 <= 1 + n /\ 1 <= 1
    BY <1>1
  <2>2. (<<Begin>> \o mid)[1] = Begin
    BY <1>2, <2>1
  <2>3. inner[1] = Begin
    BY <1>3, <2>1, <2>2
  <2>4. ASSUME NEW i \in 1..(h + n + 2), ~(i <= h), NEW j \in Nat, j = i - h PROVE line[i] = inner[j]
    BY <1>4, <2>4
  <2> HIDE DEF line
  <2> QED BY <1>1, <2>1, <2>3, <2>4
<1>7. \A i \in 1..n : line[h + 1 + i] = mid[i] /\ mid[i] # End
  <2> SUFFICES ASSUME NEW i \in 1..n PROVE line[h + 1 + i] = mid[i]
    BY DEF n
  <2>1. /\ h + 1 + i \in 1..(h + n + 2) /\ ~(h + 1 + i <= h) /\ (h + 1 + i) - h = i + 1
        /\ i + 1 \in 1..(n + 2) /\ i + 1 <= 1 + n /\ i + 1 \in 1..(1 + n) /\ ~(i + 1 <= 1) /\ i + 1 - 1 = i
    BY <1>1
  <2> QED BY <1>2, <1>3, <1>4, <2>1
<1>8. line[Len(line)] = End
  <2>1. /\ h + n + 2 \in 1..(h + n + 2) /\ ~(h + n + 2 <= h) /\ (h + n + 2) - h = n + 2
        /\ n + 2 \in 1..(n + 2) /\ ~(n + 2 <= 1 + n)
    BY <1>1
  <2> QED BY <1>3, <1>4, <2>1
<1> QED BY <1>4, <1>5, <1>6, <1>7, <1>8 DEF Wraps, line, inner, h, n

(* The payload that the parser makes of an object with status s                  *)
ReadObject(o, s) == [status |-> s, prog |-> o.prog, msg |-> o.msg, modnm |-> o.modnm]

LEMMA ReadObjectIs ==
  ASSUME NEW o \in Object, NEW s
  PROVE  [o EXCEPT !.status = s] = ReadObject(o, s)
<1>1. PICK st, pr, ms, mo : o = [status |-> st, prog |-> pr, msg |-> ms, modnm |-> mo]
  BY DEF Object
<1>2. [o EXCEPT !.status = s] = [status |-> s, prog |-> pr, msg |-> ms, modnm |-> mo]
  BY SMT, <1>1
<1>3. o.prog = pr /\ o.msg = ms /\ o.modnm = mo
  BY SMT, <1>1
<1> QED BY <1>2, <1>3 DEF ReadObject

(* An object with status s that the parser accepts                              *)
Readable(o, s) ==
  o \in Object /\ s \in Statuses /\ o.status = {s} /\ ValidProg(o.prog) /\ ~HasEnd(o.msg \cup o.modnm)

(* The words of such an object at the end of a line, after at least a heading      *)
Holds(line, head, o) ==
  Wraps(line, head, Json(o, FALSE)) /\ Len(head) >= 3 /\ IsTime(line[1])

(* What the parser makes of a line with an object that says something            *)
LEMMA ParsedPayload ==
  ASSUME NEW S, NEW line \in Seq(S), NEW head \in Seq(S), NEW o, NEW s,
         Json(o, FALSE) \in Seq(S), Holds(line, head, o), Readable(o, s)
  PROVE  PartsOfLogLine(line, FALSE) =
           [error |-> FALSE, payload |-> {ReadObject(o, s)},
            dt |-> {line[1]}, module |-> {line[2]}]
<1> DEFINE json == Json(o, FALSE)
<1> USE DEF Readable, Holds
<1>1. /\ Found(line) /\ SubSeq(line, Begun(line), Ended(line)) = json /\ ~FoundAgain(line)
  BY WrappedFound
<1>2. json[1] = [open |-> o, raw |-> FALSE] /\ json # <<>>
  <2>1. json[1] = [open |-> o, raw |-> FALSE] /\ Len(json) = Len(InTexts(o)) + 2
        /\ Len(InTexts(o)) \in Nat
    BY JsonShape
  <2>2. Len(<<>>) = 0
    OBVIOUS
  <2> HIDE DEF json
  <2> QED BY <2>1, <2>2
<1> HIDE DEF json
<1>3. "open" \in DOMAIN json[1] /\ json[1].open = o /\ json[1].raw = FALSE
  BY <1>2
<1>4. IsJson(json)
  BY <1>2, <1>3 DEF IsJson, json
<1>5. The(o.status) = s
  BY DEF The
<1>6. Parses(json)
  BY <1>3, <1>4, <1>5 DEF Parses
<1>7. PayloadOfLogMsg(line) = [error |-> FALSE, payload |-> {ReadObject(o, s)}]
  <2>1. [json[1].open EXCEPT !.status = The(@)] = [o EXCEPT !.status = s]
    BY <1>3, <1>5
  <2>2. [o EXCEPT !.status = s] = ReadObject(o, s)
    BY ReadObjectIs
  <2> QED BY <1>1, <1>6, <2>1, <2>2 DEF PayloadOfLogMsg
<1>8. Len(line) >= 4
  <2>1. Len(json) \in Nat /\ Len(head) \in Nat
    <3>1. json \in Seq(S)
      BY DEF json
    <3> HIDE DEF json
    <3> QED BY <3>1, LenProperties
  <2> HIDE DEF json
  <2>2. Len(line) = Len(head) + Len(json) + 2
    BY DEF Wraps, json
  <2> QED BY <2>1, <2>2
<1> DEFINE result == [error |-> FALSE, payload |-> {ReadObject(o, s)}]
<1>9. result.error = FALSE /\ result.payload = {ReadObject(o, s)}
  OBVIOUS
<1>10. PayloadOfLogMsg(line) = result
  BY <1>7
<1> HIDE DEF result
<1>11. /\ (Len(line) >= 4 /\ IsTime(line[1])) = TRUE
       /\ (result.error \/ ~((Len(line) >= 4 /\ IsTime(line[1])) \/ FALSE)) = FALSE
  BY <1>8, <1>9
<1> QED BY <1>8, <1>9, <1>10, <1>11 DEF PartsOfLogLine

(* The words in front of a message, with the text that a program puts there       *)
Heading(id) == <<Time(UtcNow.date, UtcNow.minute), Word(id), Word("STATUS")>>
Befores == {<<>>, <<Word("update:")>>}

(* The words that a line with an object o may consist of                       *)
LineWords(id, o, raw) ==
  {Time(UtcNow.date, UtcNow.minute), Word(id), Word("STATUS"), Word("update:"),
   Begin, End, [open |-> o, raw |-> raw], [close |-> o]}

LEMMA NowIsTime ==
  LET now == Time(UtcNow.date, UtcNow.minute) IN
  /\ IsTime(now) /\ now # Begin
  /\ UtcNow.date \in Date /\ IsDate(UtcNow.date) /\ UtcNow.minute \in 0..(MinutesPerDay - 1)
<1> DEFINE now == Time(UtcNow.date, UtcNow.minute)
<1>1. /\ UtcNow.date \in Date /\ IsDate(UtcNow.date) /\ UtcNow.minute \in 0..(MinutesPerDay - 1)
  BY ConstantsAssumption DEF Reading
<1>2. DOMAIN now = {"date", "minute"} /\ now.date = UtcNow.date
  BY DEF Time
<1>3. now # Begin
  <2>1. "word" \in DOMAIN Begin
    BY DEF Begin
  <2> QED BY <1>2, <2>1
<1>4. IsTime(now)
  BY <1>1, <1>2 DEF IsTime
<1> QED BY <1>1, <1>3, <1>4

(* No pair of sentinels begins before the one of the payload.                   *)
LEMMA HeadType ==
  ASSUME NEW id \in Ids, NEW before \in Befores, NEW o, NEW raw
  PROVE  /\ Heading(id) \in Seq(LineWords(id, o, raw)) /\ before \in Seq(LineWords(id, o, raw))
         /\ Heading(id) \o before \in Seq(LineWords(id, o, raw))
         /\ Len(Heading(id) \o before) \in {3, 4} /\ Len(Heading(id) \o before) >= 3
         /\ (Heading(id) \o before)[1] = Time(UtcNow.date, UtcNow.minute)
         /\ (Heading(id) \o before)[2] = Word(id)
         /\ \A i \in 1..Len(Heading(id) \o before) : (Heading(id) \o before)[i] # Begin
         /\ \A i \in 1..Len(before) : before[i] # Begin
<1> DEFINE now == Time(UtcNow.date, UtcNow.minute)
           S == LineWords(id, o, raw)
           head == Heading(id)
<1>1. now \in S /\ Word(id) \in S /\ Word("STATUS") \in S /\ Word("update:") \in S
  BY DEF LineWords
<1>2. now # Begin /\ Word(id) # Begin /\ Word("STATUS") # Begin /\ Word("update:") # Begin
  <2>1. now # Begin
    BY NowIsTime
  <2>2. \A w : Word(w) = Begin => w = "<MSG_DATA>"
    BY DEF Word, Begin
  <2>3. id # "<MSG_DATA>"
    BY ConstantsAssumption DEF Begin
  <2> QED BY <2>1, <2>2, <2>3
<1> HIDE DEF S, now
<1>3. head = <<now, Word(id), Word("STATUS")>>
  BY DEF Heading, now
<1>4. /\ head \in Seq(S) /\ Len(head) = 3
      /\ head[1] = now /\ head[2] = Word(id) /\ head[3] = Word("STATUS")
  BY <1>1, <1>3
<1>5. /\ before \in Seq(S) /\ Len(before) \in {0, 1} /\ \A i \in 1..Len(before) : before[i] # Begin
  <2>1. CASE before = <<>>
    BY <2>1
  <2>2. CASE before = <<Word("update:")>>
    BY <1>1, <1>2, <2>2
  <2> QED BY <2>1, <2>2 DEF Befores
<1> HIDE DEF head
<1>6. /\ head \o before \in Seq(S) /\ Len(head \o before) = Len(head) + Len(before)
      /\ \A i \in 1..(Len(head) + Len(before)) :
           (head \o before)[i] = IF i <= Len(head) THEN head[i] ELSE before[i - Len(head)]
  BY <1>4, <1>5, ConcatProperties
<1>7. Len(head \o before) \in {3, 4} /\ Len(head \o before) >= 3
  BY <1>4, <1>5, <1>6
<1>8. (head \o before)[1] = now /\ (head \o before)[2] = Word(id)
  BY <1>4, <1>5, <1>6
<1>9. ASSUME NEW i \in 1..Len(head \o before) PROVE (head \o before)[i] # Begin
  <2>1. CASE i <= 3
    <3>1. i = 1 \/ i = 2 \/ i = 3
      BY <1>7, <2>1
    <3> QED BY <1>2, <1>4, <1>6, <2>1, <3>1
  <2>2. CASE ~(i <= 3)
    <3>1. i - Len(head) \in 1..Len(before) /\ ~(i <= Len(head)) /\ i \in 1..(Len(head) + Len(before))
      BY <1>4, <1>5, <1>6, <2>2
    <3>2. (head \o before)[i] = before[i - Len(head)]
      BY <1>6, <3>1
    <3> QED BY <1>5, <3>1, <3>2
  <2> QED BY <2>1, <2>2
<1> QED BY <1>4, <1>5, <1>6, <1>7, <1>8, <1>9 DEF S, now, head

(* The line that the Python runtime or the ngen logger write about an object       *)
StatusLine(id, before, o, raw) ==
  (Heading(id) \o before) \o (<<Begin>> \o Json(o, raw) \o <<End>>)

(* What the parser makes of a line that the Python runtime or the ngen logger     *)
(* wrote about an object that it can read                                     *)
LEMMA LineParsed ==
  ASSUME NEW id \in Ids, NEW before \in Befores, NEW o, NEW s, Readable(o, s)
  PROVE  LET line == StatusLine(id, before, o, FALSE) IN
         /\ line[1] = Time(UtcNow.date, UtcNow.minute) /\ line[2] = Word(id)
         /\ PartsOfLogLine(line, FALSE) =
              [error |-> FALSE, payload |-> {ReadObject(o, s)},
               dt |-> {line[1]}, module |-> {line[2]}]
<1> DEFINE line == StatusLine(id, before, o, FALSE)
           S == LineWords(id, o, FALSE)
           head == Heading(id) \o before
           json == Json(o, FALSE)
           now == Time(UtcNow.date, UtcNow.minute)
<1>0. o \in Object /\ ~HasEnd(o.msg \cup o.modnm)
  BY DEF Readable
<1>1. /\ head \in Seq(S) /\ Len(head) \in {3, 4} /\ Len(head) >= 3
      /\ head[1] = now /\ head[2] = Word(id)
      /\ \A i \in 1..Len(head) : head[i] # Begin
  BY HeadType
<1>2. json \in Seq(S)
  <2>1. json \in Seq({[open |-> o, raw |-> FALSE], [close |-> o], Begin, End})
    BY <1>0, JsonShape
  <2>2. {[open |-> o, raw |-> FALSE], [close |-> o], Begin, End} \subseteq S
    BY DEF LineWords
  <2> HIDE DEF S, json
  <2> QED BY <2>1, <2>2, SeqMonotonic
<1>3. \A i \in 1..Len(json) : json[i] # End
  BY <1>0, JsonNoEnd
<1>4. Begin \in S /\ End \in S
  BY DEF LineWords
<1>5. line = head \o (<<Begin>> \o json \o <<End>>)
  BY DEF StatusLine
<1> HIDE DEF S, head, line
<1>6. line \in Seq(S) /\ Wraps(line, head, json)
  <2> HIDE DEF json
  <2>1. /\ head \o (<<Begin>> \o json \o <<End>>) \in Seq(S)
        /\ Wraps(head \o (<<Begin>> \o json \o <<End>>), head, json)
    BY <1>1, <1>2, <1>3, <1>4, WrapConcat
  <2> QED BY Zenon, <1>5, <2>1
<1>7. line[1] = now /\ line[2] = Word(id)
  <2>1. 1 \in 1..Len(head) /\ 2 \in 1..Len(head)
    BY <1>1
  <2> HIDE DEF json, now
  <2> QED BY <1>1, <1>6, <2>1 DEF Wraps
<1>8. Holds(line, head, o)
  <2>1. IsTime(now)
    BY NowIsTime
  <2> HIDE DEF now
  <2>2. IsTime(line[1])
    BY Zenon, <1>7, <2>1
  <2> QED BY Zenon, <1>1, <1>6, <2>2 DEF Holds
<1>9. PartsOfLogLine(line, FALSE) =
        [error |-> FALSE, payload |-> {ReadObject(o, s)},
         dt |-> {line[1]}, module |-> {line[2]}]
  <2>1. head \in Seq(S) /\ json \in Seq(S) /\ line \in Seq(S)
    BY Zenon, <1>1, <1>2, <1>6
  <2> QED BY ZenonT(30), <1>8, <2>1, ParsedPayload
<1> QED BY <1>7, <1>9 DEF line

(* The object of a payload that a Python program logs                           *)
StatusObject(p) == [p EXCEPT !.status = {p.status}]

LEMMA StatusObjectType ==
  ASSUME NEW p \in Payloads
  PROVE  /\ p \in Payload /\ StatusObject(p) \in Object
         /\ StatusObject(p).status = {p.status} /\ StatusObject(p).prog = p.prog
         /\ StatusObject(p).msg = p.msg /\ StatusObject(p).modnm = p.modnm
         /\ ReadObject(StatusObject(p), p.status) = p
         /\ p.status \in Statuses /\ ValidProg(p.prog) /\ p.prog \in Optional(0..One)
         /\ p.msg \in Optional(Texts) /\ p.modnm \in Optional(Texts)
         /\ PayloadJson(p) = Json(StatusObject(p), FALSE)
<1>1. p \in Payload
  BY ConstantsAssumption
<1>2. /\ p.status \in Statuses /\ p.prog \in Optional(0..One)
      /\ p.msg \in Optional(Texts) /\ p.modnm \in Optional(Texts)
  BY <1>1 DEF Payload
<1>3. p.prog \in Optional(Nat) /\ {p.status} \in Optional(Texts \cup Statuses)
  <2>1. 0..One \subseteq Nat
    <3>1. One \in Nat
      BY SMT DEF One
    <3> QED BY <3>1
  <2> QED BY <1>2, <2>1 DEF Optional
<1>4. /\ StatusObject(p) =
           [status |-> {p.status}, prog |-> p.prog, msg |-> p.msg, modnm |-> p.modnm]
      /\ ReadObject(StatusObject(p), p.status) = p
  <2>1. p = [status |-> p.status, prog |-> p.prog, msg |-> p.msg, modnm |-> p.modnm]
    BY <1>1 DEF Payload
  <2>2. StatusObject(p) =
          [status |-> {p.status}, prog |-> p.prog, msg |-> p.msg, modnm |-> p.modnm]
    BY SMT, <2>1 DEF StatusObject
  <2>3. ReadObject(StatusObject(p), p.status)
          = [status |-> p.status, prog |-> p.prog, msg |-> p.msg, modnm |-> p.modnm]
    BY SMT, <2>2 DEF ReadObject
  <2> QED BY <2>1, <2>2, <2>3
<1>5. StatusObject(p) \in Object
  BY <1>2, <1>3, <1>4 DEF Object
<1>6. ValidProg(p.prog)
  BY <1>2, OptionalThe DEF ValidProg
<1>7. PayloadJson(p) = Json(StatusObject(p), FALSE)
  BY SMT DEF PayloadJson, StatusObject
<1> QED BY <1>1, <1>2, <1>4, <1>5, <1>6, <1>7

(* The line that the Python runtime writes about a payload                       *)
LEMMA StandaloneIs ==
  ASSUME NEW id \in Ids, NEW before \in Befores, NEW p \in Payloads
  PROVE  StandaloneLine(id, "STATUS", before \o JsonWrapped(p))
           = StatusLine(id, before, StatusObject(p), FALSE)
<1> DEFINE o == StatusObject(p)
           S == LineWords(id, o, FALSE)
           json == Json(o, FALSE)
           inner == <<Begin>> \o json \o <<End>>
           line == StandaloneLine(id, "STATUS", before \o JsonWrapped(p))
<1>1. line = Heading(id) \o (before \o inner)
  BY StatusObjectType DEF StandaloneLine, Heading, JsonWrapped
<1>2. o \in Object
  BY StatusObjectType
<1>3. inner \in Seq(S)
  <2>1. json \in Seq({[open |-> o, raw |-> FALSE], [close |-> o], Begin, End})
    BY <1>2, JsonShape
  <2>2. {[open |-> o, raw |-> FALSE], [close |-> o], Begin, End} \subseteq S /\ Begin \in S /\ End \in S
    BY DEF LineWords
  <2> HIDE DEF S, json
  <2>3. json \in Seq(S)
    BY <2>1, <2>2, SeqMonotonic
  <2> QED BY <2>2, <2>3
<1>4. Heading(id) \in Seq(S) /\ before \in Seq(S)
  BY HeadType
<1>5. line = (Heading(id) \o before) \o inner
  <2> HIDE DEF inner, S, line
  <2>1. (Heading(id) \o before) \o inner = Heading(id) \o (before \o inner)
    BY SMTT(30), <1>3, <1>4, ConcatAssociative
  <2> QED BY <1>1, <2>1
<1> QED BY <1>5 DEF StatusLine

(* A payload in a standalone file is read back as it was.                        *)
LEMMA StandaloneRoundTrip ==
  ASSUME NEW id \in Ids, NEW before \in Befores, NEW p \in Payloads, ~HasEnd(p.msg \cup p.modnm)
  PROVE  LET line == StandaloneLine(id, "STATUS", before \o JsonWrapped(p)) IN
         PartsOfLogLine(line, FALSE) =
           [error |-> FALSE, payload |-> {p}, dt |-> {line[1]}, module |-> {line[2]}]
<1> DEFINE o == StatusObject(p)
           line == StandaloneLine(id, "STATUS", before \o JsonWrapped(p))
           status == StatusLine(id, before, o, FALSE)
<1>1. line = status
  BY Zenon, StandaloneIs
<1>2. Readable(o, p.status)
  BY StatusObjectType DEF Readable
<1>3. ReadObject(o, p.status) = p
  BY StatusObjectType
<1> HIDE DEF line, o
<1>4. PartsOfLogLine(status, FALSE) =
        [error |-> FALSE, payload |-> {ReadObject(o, p.status)},
         dt |-> {status[1]}, module |-> {status[2]}]
  BY Zenon, <1>2, LineParsed
<1> HIDE DEF status
<1>5. PartsOfLogLine(line, FALSE) =
        [error |-> FALSE, payload |-> {p}, dt |-> {line[1]}, module |-> {line[2]}]
  BY Zenon, <1>1, <1>3, <1>4
<1> QED BY Zenon, <1>5 DEF line
-----------------------------------------------------------------------------
(* The records of the ngen logger                                            *)

(* The object that the ngen logger writes for a call, and whether a text in it     *)
(* keeps a control character                                                 *)
Fields(call) ==
  [status |-> StringField(call.status), prog |-> ProgField(call.prog),
   msg |-> StringField(call.msg), modnm |-> StringField(call.modnm)]
Raw(call) == \E text \in Fields(call).msg \cup Fields(call).modnm : text \in ControlTexts

Calls == [status : Texts \cup Statuses, prog : Int, msg : Texts, modnm : Texts]

(* Six digits keep a progress within its range, and near to itself.               *)
LEMMA SixDigitsKeep ==
  ASSUME NEW x \in Nat
  PROVE  /\ SixDigits(x) \in Nat /\ SixDigits(x) - x \in -5..5
         /\ x <= One => SixDigits(x) \in 0..One
<1> DEFINE d == (x + 5) \div 10
           m == One \div 10
<1>1. d \in Nat /\ 10 * d <= x + 5 /\ x + 5 < 10 * d + 10
  BY SMT
<1>2. One \in Nat /\ m \in Nat /\ One = 10 * m
  BY SMT DEF One
<1>3. SixDigits(x) = x \/ SixDigits(x) = d * 10
  BY Zenon DEF SixDigits
<1> HIDE DEF d, m
<1>4. d * 10 \in Nat /\ d * 10 - x \in -5..5
  BY SMT, <1>1
<1>5. x <= One => d * 10 \in 0..One
  <2> HAVE x <= One
  <2>1. 10 * d < 10 * m + 6
    BY <1>1, <1>2
  <2>2. d <= m
    BY <1>1, <1>2, <2>1
  <2>3. d * 10 <= 10 * m
    BY <1>1, <1>2, <2>2
  <2> QED BY <1>2, <1>4, <2>3
<1>6. x - x \in -5..5
  BY SMT
<1>7. x <= One => x \in 0..One
  BY <1>2
<1> QED BY Zenon, <1>3, <1>4, <1>5, <1>6, <1>7

LEMMA FieldTypes ==
  /\ \A x \in Texts \cup Statuses : StringField(x) \in Optional(Texts \cup Statuses)
  /\ \A x \in Texts : StringField(x) \in Optional(Texts)
  /\ \A x \in Int : ProgField(x) \in Optional(Nat)
<1>1. \A x : StringField(x) = {} \/ StringField(x) = {x}
  BY DEF StringField
<1>2. \A S : {} \in Optional(S) /\ \A x \in S : {x} \in Optional(S)
  BY DEF Optional
<1>3. ASSUME NEW x \in Int PROVE ProgField(x) \in Optional(Nat)
  <2>1. CASE x < 0
    BY <1>2, <2>1 DEF ProgField
  <2>2. CASE ~(x < 0)
    <3>1. x \in Nat
      BY <2>2
    <3>2. SixDigits(x) \in Nat
      BY <3>1, SixDigitsKeep
    <3>3. ProgField(x) = {SixDigits(x)}
      BY <2>2 DEF ProgField
    <3> QED BY <1>2, <3>2, <3>3
  <2> QED BY <2>1, <2>2
<1>4. ASSUME NEW S, NEW x \in S PROVE StringField(x) \in Optional(S)
  BY <1>1, <1>2
<1> QED BY Zenon, <1>3, <1>4

LEMMA FieldsType ==
  ASSUME NEW call \in Calls
  PROVE  /\ Fields(call) \in Object /\ Raw(call) \in BOOLEAN
         /\ Fields(call).status = StringField(call.status)
         /\ Fields(call).prog = ProgField(call.prog)
         /\ Fields(call).msg = StringField(call.msg)
         /\ Fields(call).modnm = StringField(call.modnm)
<1>1. /\ call.status \in Texts \cup Statuses /\ call.prog \in Int
      /\ call.msg \in Texts /\ call.modnm \in Texts
  BY DEF Calls
<1>2. /\ StringField(call.status) \in Optional(Texts \cup Statuses)
      /\ ProgField(call.prog) \in Optional(Nat)
      /\ StringField(call.msg) \in Optional(Texts) /\ StringField(call.modnm) \in Optional(Texts)
  BY Zenon, <1>1, FieldTypes
<1>3. Fields(call) \in Object
  BY <1>2 DEF Fields, Object
<1>4. Raw(call) \in BOOLEAN
  BY Zenon DEF Raw
<1> QED BY <1>3, <1>4 DEF Fields

(* A record is such a line.                                                    *)
LEMMA RecordIs ==
  ASSUME NEW id \in Ids, NEW call \in Calls
  PROVE  Record(id, call) = StatusLine(id, <<>>, Fields(call), Raw(call))
<1> DEFINE o == Fields(call)
           raw == Raw(call)
           json == Json(o, raw)
           S == LineWords(id, o, raw)
           head == Heading(id)
           four == <<Time(UtcNow.date, UtcNow.minute), Word(id), Word("STATUS"), Begin>>
<1>1. o \in Object /\ raw \in BOOLEAN
  BY FieldsType
<1>2. json \in Seq(S)
  <2> HIDE DEF o, raw
  <2>1. json \in Seq({[open |-> o, raw |-> raw], [close |-> o], Begin, End})
    BY <1>1, JsonShape
  <2>2. {[open |-> o, raw |-> raw], [close |-> o], Begin, End} \subseteq S
    BY DEF LineWords
  <2> HIDE DEF S, json
  <2> QED BY <2>1, <2>2, SeqMonotonic
<1>3. Begin \in S /\ End \in S
  BY DEF LineWords
<1>4. head \in Seq(S)
  <2>1. <<>> \in Befores
    BY DEF Befores
  <2> QED BY Zenon, <2>1, HeadType
<1>5. Record(id, call) = (four \o json) \o <<End>>
  BY DEF Record, Fields, Raw
<1>6. four = head \o <<Begin>>
  BY DEF Heading
<1> HIDE DEF o, raw, json, S, head, four
<1>7. <<Begin>> \in Seq(S) /\ <<End>> \in Seq(S)
  BY <1>3
<1>8. (head \o <<Begin>>) \o json = head \o (<<Begin>> \o json) /\ <<Begin>> \o json \in Seq(S)
  BY <1>2, <1>4, <1>7, ConcatAssociative, ConcatProperties
<1>9. (head \o (<<Begin>> \o json)) \o <<End>> = head \o ((<<Begin>> \o json) \o <<End>>)
  BY <1>4, <1>7, <1>8, ConcatAssociative
<1>10. head \o <<>> = head
  BY <1>4, ConcatEmptySeq
<1>11. Record(id, call) = (head \o <<>>) \o ((<<Begin>> \o json) \o <<End>>)
  BY Zenon, <1>5, <1>6, <1>8, <1>9, <1>10
<1> QED BY Zenon, <1>11 DEF StatusLine, o, raw, json, head

(* What the parser makes of the record of a call it can read                    *)
LEMMA RecordParsed ==
  ASSUME NEW id \in Ids, NEW call \in Calls, NEW s, Readable(Fields(call), s), ~Raw(call)
  PROVE  LET line == Record(id, call) IN
         PartsOfLogLine(line, FALSE) =
           [error |-> FALSE, payload |-> {ReadObject(Fields(call), s)},
            dt |-> {line[1]}, module |-> {line[2]}]
<1>1. Raw(call) = FALSE
  BY FieldsType
<1>2. Record(id, call) = StatusLine(id, <<>>, Fields(call), FALSE)
  BY Zenon, <1>1, RecordIs
<1>3. <<>> \in Befores
  BY DEF Befores
<1>4. PartsOfLogLine(StatusLine(id, <<>>, Fields(call), FALSE), FALSE) =
        [error |-> FALSE, payload |-> {ReadObject(Fields(call), s)},
         dt |-> {StatusLine(id, <<>>, Fields(call), FALSE)[1]},
         module |-> {StatusLine(id, <<>>, Fields(call), FALSE)[2]}]
  BY Zenon, <1>3, LineParsed
<1> QED BY Zenon, <1>2, <1>4

(* What ngen reads from a message with a payload in it                          *)
LEMMA PayloadRead ==
  ASSUME NEW id \in Ids, NEW before \in Befores, NEW p \in Payloads, ~HasEnd(p.msg \cup p.modnm)
  PROVE  PayloadRecord(id, before \o JsonWrapped(p)) = Record(id, ReadFields(StatusObject(p)))
<1> DEFINE o == StatusObject(p)
           S == LineWords(id, o, FALSE)
           json == Json(o, FALSE)
           message == before \o (<<Begin>> \o json \o <<End>>)
<1>1. o \in Object /\ ~HasEnd(o.msg \cup o.modnm) /\ before \o JsonWrapped(p) = message
  BY StatusObjectType DEF JsonWrapped
<1>2. json \in Seq(S)
  <2>1. json \in Seq({[open |-> o, raw |-> FALSE], [close |-> o], Begin, End})
    BY <1>1, JsonShape
  <2>2. {[open |-> o, raw |-> FALSE], [close |-> o], Begin, End} \subseteq S
    BY DEF LineWords
  <2> HIDE DEF S, json
  <2> QED BY <2>1, <2>2, SeqMonotonic
<1>3. before \in Seq(S) /\ \A i \in 1..Len(before) : before[i] # Begin
  BY HeadType
<1>4. \A i \in 1..Len(json) : json[i] # End
  BY <1>1, JsonNoEnd
<1>5. Begin \in S /\ End \in S
  BY DEF LineWords
<1>6. json[1] = [open |-> o, raw |-> FALSE] /\ json # <<>>
  <2>1. json[1] = [open |-> o, raw |-> FALSE] /\ Len(json) = Len(InTexts(o)) + 2
        /\ Len(InTexts(o)) \in Nat
    BY <1>1, JsonShape
  <2> HIDE DEF json
  <2> QED BY <2>1
<1>7. "open" \in DOMAIN json[1] /\ json[1].open = o /\ json[1].raw = FALSE
  <2> HIDE DEF json, o
  <2> QED BY <1>6
<1>8. IsJson(json)
  BY Zenon, <1>6, <1>7 DEF IsJson
<1> HIDE DEF S, json, o
<1>9. message \in Seq(S) /\ Wraps(message, before, json)
  BY <1>2, <1>3, <1>4, <1>5, WrapConcat
<1> HIDE DEF message
<1>10. Missing(message) = {} /\ Extracted(message) = json
  BY Zenon, <1>2, <1>3, <1>9, WrappedFound
<1>11. ReadFields(Extracted(message)[1].open) = ReadFields(o) /\ IsJson(Extracted(message))
  BY Zenon, <1>7, <1>8, <1>10
<1>12. PayloadRecord(id, message) = Record(id, ReadFields(Extracted(message)[1].open))
  BY <1>10, <1>11 DEF PayloadRecord
<1> QED BY Zenon, <1>1, <1>11, <1>12 DEF o

(* A call with the fields of a payload or of a call that a program logged         *)
Stands(c, logged) ==
  /\ c \in Calls /\ logged.status \in Statuses /\ c.status = logged.status
  /\ logged.msg \in Optional(Texts) /\ c.msg = OrNull(logged.msg)
  /\ logged.modnm \in Optional(Texts) /\ c.modnm = OrNull(logged.modnm)
  /\ \/ c.prog < 0 /\ logged.prog = {}
     \/ c.prog \in Nat /\ logged.prog = {c.prog}

(* What becomes of a text on its way                                          *)
LEMMA TextArrives ==
  ASSUME NEW text \in Optional(Texts)
  PROVE  LET read == StringField(OrNull(text)) IN
         /\ OrNull(text) \in Texts
         /\ SameText(read, text)
         /\ text # {} => read = {t \in text : t \notin {"", "NULL"}}
         /\ ~HasEnd(text) => ~HasEnd(read)
         /\ text \cap ControlTexts = {} => read \cap ControlTexts = {}
<1> DEFINE read == StringField(OrNull(text))
<1>1. /\ "null" \in Texts /\ "null" \notin ControlTexts /\ End \notin Range(SentinelsIn["null"])
  BY ConstantsAssumption
<1>2. CASE text = {}
  <2>1. OrNull(text) = "null"
    BY <1>2 DEF OrNull
  <2>2. "null" \notin {"", "NULL"}
    OBVIOUS
  <2>3. read = {"null"}
    BY Zenon, <2>1, <2>2 DEF StringField
  <2>4. SameText(read, text)
    BY <1>2, <2>3 DEF SameText
  <2>5. ~HasEnd(read)
    BY Zenon, <1>1, <2>3 DEF HasEnd
  <2>6. read \cap ControlTexts = {}
    BY <1>1, <2>3
  <2> QED BY Zenon, <1>1, <1>2, <2>1, <2>4, <2>5, <2>6
<1>3. CASE text # {}
  <2>1. PICK t : t = The(text)
    OBVIOUS
  <2>2. t \in Texts /\ text = {t} /\ OrNull(text) = t
    BY <1>3, <2>1, OptionalThe DEF OrNull
  <2>3. read = StringField(t)
    BY <2>2
  <2> HIDE DEF read
  <2>4. CASE t \in {"", "NULL"}
    <3>1. read = {}
      BY <2>3, <2>4 DEF StringField
    <3>2. SameText(read, text)
      BY <2>2, <2>4, <3>1 DEF SameText
    <3>3. ~HasEnd(read)
      BY <3>1 DEF HasEnd
    <3>4. read = {x \in text : x \notin {"", "NULL"}}
      BY <2>2, <2>4, <3>1
    <3> QED BY <2>2, <3>1, <3>2, <3>3, <3>4 DEF read
  <2>5. CASE t \notin {"", "NULL"}
    <3>1. read = {t}
      BY Zenon, <2>3, <2>5 DEF StringField
    <3>2. read = text
      BY <2>2, <3>1
    <3>3. read = {x \in text : x \notin {"", "NULL"}}
      BY <2>2, <2>5, <3>1
    <3> QED BY <2>2, <3>2, <3>3 DEF read, SameText
  <2> QED BY <2>4, <2>5
<1> QED BY <1>2, <1>3

(* The progress that the ngen logger writes, for that of the payload or call        *)
LEMMA ProgArrives ==
  ASSUME NEW c, NEW logged, Stands(c, logged)
  PROVE  /\ Close(ProgField(c.prog), logged.prog)
         /\ (\A p \in logged.prog : p <= One) => ValidProg(ProgField(c.prog))
<1>1. c.prog \in Int
  BY DEF Stands, Calls
<1>2. CASE c.prog < 0 /\ logged.prog = {}
  <2>1. ProgField(c.prog) = {}
    BY <1>2 DEF ProgField
  <2> QED BY <1>2, <2>1 DEF Close, ValidProg
<1>3. CASE c.prog \in Nat /\ logged.prog = {c.prog}
  <2>1. ProgField(c.prog) = {SixDigits(c.prog)}
    BY <1>3 DEF ProgField
  <2>2. SixDigits(c.prog) - c.prog \in -5..5
        /\ (c.prog <= One => SixDigits(c.prog) \in 0..One)
    BY Zenon, <1>3, SixDigitsKeep
  <2>3. Close(ProgField(c.prog), logged.prog)
    BY Zenon, <1>3, <2>1, <2>2 DEF Close
  <2>4. The(ProgField(c.prog)) = SixDigits(c.prog)
    BY <2>1 DEF The
  <2>5. (\A p \in logged.prog : p <= One) => ValidProg(ProgField(c.prog))
    BY Zenon, <1>3, <2>2, <2>4 DEF ValidProg
  <2> QED BY <2>3, <2>5
<1> QED BY <1>2, <1>3 DEF Stands

(* Of what a record stands for, every field arrives.                            *)
LEMMA CallArrives ==
  ASSUME NEW id \in Ids, NEW c, NEW logged, Stands(c, logged),
         logged.status # "NULL", (logged.msg \cup logged.modnm) \cap ControlTexts = {},
         ~HasEnd(logged.msg \cup logged.modnm), \A p \in logged.prog : p <= One
  PROVE  LET read == PartsOfLogLine(Record(id, c), FALSE)
             arrives(from, to) == from # {} => to = {t \in from : t \notin {"", "NULL"}}
         IN /\ ~read.error
            /\ \E q \in read.payload :
                 /\ q.status = logged.status /\ Close(q.prog, logged.prog)
                 /\ arrives(logged.msg, q.msg) /\ arrives(logged.modnm, q.modnm)
<1> DEFINE o == Fields(c)
           s == logged.status
           q == ReadObject(o, s)
           read == PartsOfLogLine(Record(id, c), FALSE)
<1>1. /\ c \in Calls /\ s \in Statuses /\ c.status = s
      /\ logged.msg \in Optional(Texts) /\ c.msg = OrNull(logged.msg)
      /\ logged.modnm \in Optional(Texts) /\ c.modnm = OrNull(logged.modnm)
  BY DEF Stands
<1>2. /\ o \in Object /\ o.status = StringField(s) /\ o.prog = ProgField(c.prog)
      /\ o.msg = StringField(OrNull(logged.msg)) /\ o.modnm = StringField(OrNull(logged.modnm))
  BY <1>1, FieldsType
<1>3. o.status = {s}
  <2>1. s \notin {"", "NULL"}
    BY <1>1 DEF Statuses
  <2> HIDE DEF s, o
  <2> QED BY Zenon, <1>2, <2>1 DEF StringField
<1>4. Close(o.prog, logged.prog) /\ ValidProg(o.prog)
  BY <1>2, ProgArrives
<1>5. /\ ~HasEnd(o.msg) /\ o.msg \cap ControlTexts = {}
      /\ logged.msg # {} => o.msg = {t \in logged.msg : t \notin {"", "NULL"}}
  <2> HIDE DEF o
  <2>1. logged.msg \cap ControlTexts = {} /\ ~HasEnd(logged.msg)
    BY DEF HasEnd
  <2>2. /\ logged.msg # {} =>
             StringField(OrNull(logged.msg)) = {t \in logged.msg : t \notin {"", "NULL"}}
        /\ ~HasEnd(StringField(OrNull(logged.msg)))
        /\ StringField(OrNull(logged.msg)) \cap ControlTexts = {}
    BY Zenon, <1>1, <2>1, TextArrives
  <2> QED BY <1>2, <2>2
<1>6. /\ ~HasEnd(o.modnm) /\ o.modnm \cap ControlTexts = {}
      /\ logged.modnm # {} => o.modnm = {t \in logged.modnm : t \notin {"", "NULL"}}
  <2> HIDE DEF o
  <2>1. logged.modnm \cap ControlTexts = {} /\ ~HasEnd(logged.modnm)
    BY DEF HasEnd
  <2>2. /\ logged.modnm # {} =>
             StringField(OrNull(logged.modnm)) = {t \in logged.modnm : t \notin {"", "NULL"}}
        /\ ~HasEnd(StringField(OrNull(logged.modnm)))
        /\ StringField(OrNull(logged.modnm)) \cap ControlTexts = {}
    BY Zenon, <1>1, <2>1, TextArrives
  <2> QED BY <1>2, <2>2
<1>7. ~Raw(c)
  BY <1>5, <1>6 DEF Raw
<1>8. Readable(o, s)
  <2>1. ~HasEnd(o.msg \cup o.modnm)
    BY <1>5, <1>6 DEF HasEnd
  <2> QED BY Zenon, <1>1, <1>2, <1>3, <1>4, <2>1 DEF Readable
<1>9. read = [error |-> FALSE, payload |-> {q},
              dt |-> {Record(id, c)[1]}, module |-> {Record(id, c)[2]}]
  BY Zenon, <1>1, <1>7, <1>8, RecordParsed
<1> HIDE DEF read, o, s
<1>10. read.error = FALSE /\ read.payload = {q}
  BY <1>9
<1>11. q.status = s /\ q.prog = o.prog /\ q.msg = o.msg /\ q.modnm = o.modnm
  BY DEF ReadObject
<1> HIDE DEF q
<1> QED BY <1>4, <1>5, <1>6, <1>10, <1>11 DEF read, s
-----------------------------------------------------------------------------
(* Genuine objects                                                          *)

(* An object that a program logged, that stands for one, or that reports a         *)
(* malformed one, but perhaps without its status                                *)
AsLogged(o, logged) ==
  /\ o.status \subseteq {logged.status} /\ Close(o.prog, logged.prog)
  /\ SameText(o.msg, logged.msg) /\ SameText(o.modnm, logged.modnm)
LoggedCall(call) ==
  Call(call.status, IF call.prog < 0 THEN {} ELSE {call.prog}, {call.msg}, {call.modnm})
LoggedPayload(p) == Call(p.status, p.prog, p.msg, p.modnm)
GenuineObject(o) ==
  \/ o.status \subseteq {"ERROR"} /\ o.msg \subseteq Complaints /\ o.modnm = {}
  \/ \E p \in Payloads : AsLogged(o, LoggedPayload(p))
  \/ \E call \in NativeCalls : AsLogged(o, LoggedCall(call))

LEMMA CallFields ==
  ASSUME NEW st, NEW pr, NEW ms, NEW mo
  PROVE  /\ Call(st, pr, ms, mo).status = st /\ Call(st, pr, ms, mo).prog = pr
         /\ Call(st, pr, ms, mo).msg = ms /\ Call(st, pr, ms, mo).modnm = mo
         /\ Call(st, pr, ms, mo) = [status |-> st, prog |-> pr, msg |-> ms, modnm |-> mo]
BY DEF Call

LEMMA StandsGenuine ==
  ASSUME NEW c, NEW logged, Stands(c, logged)
  PROVE  c \in Calls /\ AsLogged(Fields(c), logged)
<1> DEFINE o == Fields(c)
<1>1. /\ c \in Calls /\ c.status = logged.status
      /\ logged.msg \in Optional(Texts) /\ c.msg = OrNull(logged.msg)
      /\ logged.modnm \in Optional(Texts) /\ c.modnm = OrNull(logged.modnm)
  BY DEF Stands
<1>2. /\ o.status = StringField(logged.status) /\ o.prog = ProgField(c.prog)
      /\ o.msg = StringField(OrNull(logged.msg)) /\ o.modnm = StringField(OrNull(logged.modnm))
  BY <1>1, FieldsType
<1> HIDE DEF o
<1>3. o.status \subseteq {logged.status}
  BY <1>2 DEF StringField
<1>4. Close(o.prog, logged.prog)
  BY <1>2, ProgArrives
<1>5. SameText(o.msg, logged.msg) /\ SameText(o.modnm, logged.modnm)
  BY Zenon, <1>1, <1>2, TextArrives
<1> QED BY <1>1, <1>3, <1>4, <1>5 DEF AsLogged, o

(* What ngen reads of a payload                                               *)
LEMMA PayloadStands ==
  ASSUME NEW p \in Payloads
  PROVE  Stands(ReadFields(StatusObject(p)), LoggedPayload(p))
<1> DEFINE o == StatusObject(p)
           c == ReadFields(o)
           g == LoggedPayload(p)
<1>1. /\ p.status \in Statuses /\ p.prog \in Optional(0..One)
      /\ p.msg \in Optional(Texts) /\ p.modnm \in Optional(Texts)
      /\ o.status = {p.status} /\ o.prog = p.prog /\ o.msg = p.msg /\ o.modnm = p.modnm
  BY StatusObjectType
<1>2. g.status = p.status /\ g.prog = p.prog /\ g.msg = p.msg /\ g.modnm = p.modnm
  BY CallFields DEF LoggedPayload
<1> HIDE DEF o, g
<1>3. /\ c = [status |-> OrNull(o.status), prog |-> IF o.prog = {} THEN -1 ELSE The(o.prog),
              msg |-> OrNull(o.msg), modnm |-> OrNull(o.modnm)]
  BY DEF ReadFields, Call
<1> HIDE DEF c
<1>4. OrNull(o.status) = p.status
  BY <1>1 DEF OrNull, The
<1>5. /\ c.status = p.status /\ c.msg = OrNull(p.msg) /\ c.modnm = OrNull(p.modnm)
      /\ c.prog = IF p.prog = {} THEN -1 ELSE The(p.prog)
  BY <1>1, <1>3, <1>4
<1>6. /\ c.prog \in Int
      /\ \/ c.prog < 0 /\ p.prog = {}
         \/ c.prog \in Nat /\ p.prog = {c.prog}
  <2>1. CASE p.prog = {}
    <3>1. c.prog = -1
      BY <1>5, <2>1
    <3> QED BY <2>1, <3>1
  <2>2. CASE p.prog # {}
    <3>1. The(p.prog) \in 0..One /\ p.prog = {The(p.prog)} /\ c.prog = The(p.prog)
      BY <1>1, <1>5, <2>2, OptionalThe
    <3>2. One \in Nat
      BY SMT DEF One
    <3>3. c.prog \in Nat
      BY <3>1, <3>2
    <3> QED BY <3>1, <3>3
  <2> QED BY <2>1, <2>2
<1>7. OrNull(p.msg) \in Texts /\ OrNull(p.modnm) \in Texts
  BY Zenon, <1>1, TextArrives
<1>8. c \in Calls
  BY <1>1, <1>3, <1>5, <1>6, <1>7 DEF Calls
<1> QED BY <1>1, <1>2, <1>5, <1>6, <1>8 DEF Stands, c, g, o

LEMMA NativeStands ==
  ASSUME NEW call \in NativeCalls
  PROVE  Stands(call, LoggedCall(call))
<1> DEFINE g == LoggedCall(call)
<1>1. call \in [status : Statuses, prog : Int, msg : Texts, modnm : Texts]
  BY ConstantsAssumption
<1>2. call \in Calls /\ call.status \in Statuses /\ call.prog \in Int
      /\ call.msg \in Texts /\ call.modnm \in Texts
  <2>1. call = [status |-> call.status, prog |-> call.prog, msg |-> call.msg, modnm |-> call.modnm]
    BY <1>1
  <2>2. /\ call.status \in Statuses /\ call.prog \in Int
        /\ call.msg \in Texts /\ call.modnm \in Texts
    BY <1>1
  <2>3. call.status \in Texts \cup Statuses
    BY <2>2
  <2>4. [status |-> call.status, prog |-> call.prog, msg |-> call.msg, modnm |-> call.modnm] \in Calls
    BY <2>2, <2>3 DEF Calls
  <2> QED BY Zenon, <2>1, <2>2, <2>4
<1>3. /\ g.status = call.status /\ g.prog = IF call.prog < 0 THEN {} ELSE {call.prog}
      /\ g.msg = {call.msg} /\ g.modnm = {call.modnm}
  BY CallFields DEF LoggedCall
<1> HIDE DEF g
<1>4. \A x : OrNull({x}) = x
  BY DEF OrNull, The
<1>5. g.msg \in Optional(Texts) /\ g.modnm \in Optional(Texts)
  BY <1>2, <1>3 DEF Optional
<1>6. \/ call.prog < 0 /\ g.prog = {}
      \/ call.prog \in Nat /\ g.prog = {call.prog}
  BY <1>2, <1>3
<1> QED BY <1>2, <1>3, <1>4, <1>5, <1>6 DEF Stands, g

(* The report on a malformed payload                                          *)
LEMMA MalformedFields ==
  ASSUME NEW what \in Complaints
  PROVE  /\ Malformed(what) \in Calls /\ GenuineObject(Fields(Malformed(what)))
         /\ Fields(Malformed(what)) \in Object
         /\ Fields(Malformed(what)).status = {"ERROR"} /\ Fields(Malformed(what)).prog = {}
         /\ Fields(Malformed(what)).msg = {what} /\ Fields(Malformed(what)).modnm = {}
<1> DEFINE c == Malformed(what)
<1>1. c = [status |-> "ERROR", prog |-> -1, msg |-> what, modnm |-> ""]
  BY DEF Malformed, Call
<1>2. what \in Texts /\ "" \in Texts /\ "ERROR" \in Statuses
  BY ConstantsAssumption DEF Statuses
<1> HIDE DEF c
<1>3. c.status = "ERROR" /\ c.prog = -1 /\ c.msg = what /\ c.modnm = ""
  BY <1>1
<1>4. c \in Calls
  <2>1. "ERROR" \in Texts \cup Statuses
    BY Zenon, <1>2
  <2>2. -1 \in Int
    BY SMT
  <2> QED BY <1>1, <1>2, <2>1, <2>2 DEF Calls
<1>5. StringField("ERROR") = {"ERROR"} /\ StringField(what) = {what} /\ StringField("") = {}
  <2>1. "ERROR" \notin {"", "NULL"} /\ what \notin {"", "NULL"} /\ "" \in {"", "NULL"}
    BY DEF Complaints
  <2> QED BY Zenon, <2>1 DEF StringField
<1>6. ProgField(-1) = {}
  BY DEF ProgField
<1>7. /\ Fields(c) \in Object
      /\ Fields(c).status = {"ERROR"} /\ Fields(c).prog = {}
      /\ Fields(c).msg = {what} /\ Fields(c).modnm = {}
  BY Zenon, <1>3, <1>4, <1>5, <1>6, FieldsType
<1>8. GenuineObject(Fields(c))
  BY <1>7 DEF GenuineObject
<1> QED BY <1>4, <1>7, <1>8 DEF c
-----------------------------------------------------------------------------
(* What the ngen logger makes of a message                                     *)
LEMMA MissingWhat ==
  ASSUME NEW message
  PROVE  \/ Missing(message) = {}
         \/ Missing(message) = {"missing begin"} \/ Missing(message) = {"missing end"}
BY DEF Missing

(* Between the sentinels there are words of the message.                         *)
LEMMA ExtractedType ==
  ASSUME NEW S, NEW message \in Seq(S), Missing(message) = {}
  PROVE  Extracted(message) \in Seq(S)
<1>1. CASE ~Occurs(message, Begin, 1)
  BY <1>1 DEF Extracted
<1>2. CASE Occurs(message, Begin, 1)
  <2> DEFINE b == FirstOf(message, Begin, 1)
             e == FirstOf(message, End, b + 1)
  <2>1. Occurs(message, End, b + 1)
    <3>1. \A x : {x} # {}
      OBVIOUS
    <3> QED BY Zenon, <1>2, <3>1 DEF Missing
  <2>2. b \in 1..Len(message)
    BY <1>2, FirstExists
  <2> HIDE DEF b
  <2>3. b \in Nat /\ b + 1 \in Nat /\ 1 <= b
    BY <2>2
  <2>4. e \in (b + 1)..Len(message)
    BY <2>1, <2>3, FirstExists
  <2>5. Extracted(message) = SubSeq(message, b + 1, e - 1)
    BY <1>2 DEF Extracted, b
  <2> HIDE DEF e
  <2>6. b + 1 \in Int /\ e - 1 \in Int /\ \A i \in (b + 1)..(e - 1) : message[i] \in S
    BY <2>3, <2>4
  <2>7. SubSeq(message, b + 1, e - 1) \in Seq(S)
    BY <2>6, SubSeqProperties
  <2> QED BY <2>5, <2>7
<1> QED BY <1>1, <1>2

(* Words in which JSON opens                                                  *)
LEMMA JsonOpens ==
  ASSUME NEW S, NEW words \in Seq(S), IsJson(words)
  PROVE  words[1] \in S /\ "open" \in DOMAIN words[1]
<1>1. words # <<>> /\ "open" \in DOMAIN words[1]
  BY Zenon DEF IsJson
<1>2. 1 \in 1..Len(words)
  BY <1>1
<1> QED BY <1>1, <1>2

(* Of a payload in a message ngen makes a genuine object, whatever it holds.       *)
LEMMA PayloadOutcome ==
  ASSUME NEW id \in Ids, NEW before \in Befores, NEW p \in Payloads
  PROVE  \E c \in Calls : /\ GenuineObject(Fields(c))
                         /\ PayloadRecord(id, before \o JsonWrapped(p)) = Record(id, c)
<1> DEFINE o == StatusObject(p)
           S == LineWords(id, o, FALSE)
           json == Json(o, FALSE)
           message == before \o (<<Begin>> \o json \o <<End>>)
<1>1. o \in Object /\ before \o JsonWrapped(p) = message
  BY StatusObjectType DEF JsonWrapped
<1>2. json \in Seq(S)
  <2>1. json \in Seq({[open |-> o, raw |-> FALSE], [close |-> o], Begin, End})
    BY <1>1, JsonShape
  <2>2. {[open |-> o, raw |-> FALSE], [close |-> o], Begin, End} \subseteq S
    BY DEF LineWords
  <2> HIDE DEF S, json
  <2> QED BY <2>1, <2>2, SeqMonotonic
<1>3. before \in Seq(S)
  BY HeadType
<1>4. Begin \in S /\ End \in S
  BY DEF LineWords
<1>5. \A w \in S : "open" \in DOMAIN w => w.open = o
  <2>1. /\ "open" \notin DOMAIN Time(UtcNow.date, UtcNow.minute)
        /\ \A x : "open" \notin DOMAIN Word(x)
        /\ "open" \notin DOMAIN Begin /\ "open" \notin DOMAIN End
        /\ "open" \notin DOMAIN [close |-> o]
        /\ [open |-> o, raw |-> FALSE].open = o
    BY DEF Time, Word, Begin, End
  <2> QED BY <2>1 DEF LineWords
<1> HIDE DEF S, json, o
<1>6. message \in Seq(S)
  <2>1. <<Begin>> \in Seq(S) /\ <<End>> \in Seq(S)
    BY <1>4
  <2>2. <<Begin>> \o json \in Seq(S)
    BY <1>2, <2>1, ConcatProperties
  <2>3. <<Begin>> \o json \o <<End>> \in Seq(S)
    BY <2>1, <2>2, ConcatProperties
  <2> QED BY <1>3, <2>3, ConcatProperties
<1> HIDE DEF message
<1>7. CASE Missing(message) # {}
  <2>1. PICK what \in {"missing begin", "missing end"} : Missing(message) = {what}
    BY <1>7, MissingWhat
  <2>2. The(Missing(message)) = what /\ what \in Complaints
    BY <2>1 DEF The, Complaints
  <2>3. PayloadRecord(id, message) = Record(id, Malformed(what))
    BY <1>7, <2>2 DEF PayloadRecord
  <2> QED BY Zenon, <1>1, <2>2, <2>3, MalformedFields
<1>8. CASE Missing(message) = {} /\ IsJson(Extracted(message))
  <2>1. Extracted(message) \in Seq(S)
    BY <1>6, <1>8, ExtractedType
  <2>2. Extracted(message)[1].open = o
    BY Zenon, <1>5, <1>8, <2>1, JsonOpens
  <2>3. PayloadRecord(id, message) = Record(id, ReadFields(o))
    BY <1>8, <2>2 DEF PayloadRecord
  <2>4. Stands(ReadFields(o), LoggedPayload(p))
    BY PayloadStands DEF o
  <2>5. ReadFields(o) \in Calls /\ GenuineObject(Fields(ReadFields(o)))
    BY Zenon, <2>4, StandsGenuine DEF GenuineObject
  <2> QED BY Zenon, <1>1, <2>3, <2>5
<1>9. CASE Missing(message) = {} /\ ~IsJson(Extracted(message))
  <2>1. PayloadRecord(id, message) = Record(id, Malformed("malformed JSON"))
    BY <1>9 DEF PayloadRecord
  <2>2. "malformed JSON" \in Complaints
    BY DEF Complaints
  <2> QED BY Zenon, <1>1, <2>1, <2>2, MalformedFields
<1> QED BY <1>7, <1>8, <1>9

(* Other messages are reported as malformed.                                    *)
LEMMA MessageOutcome ==
  ASSUME NEW id \in Ids, NEW message \in Messages
  PROVE  \E what \in Complaints :
           /\ PayloadRecord(id, message) = Record(id, Malformed(what))
           /\ Missing(message) # {"missing end"} => what \in {"missing begin", "malformed JSON"}
<1> DEFINE S == {Begin, End} \cup {Word(x) : x \in Texts}
<1>1. message \in Seq(S)
  BY ConstantsAssumption
<1>2. \A w \in S : "open" \notin DOMAIN w
  BY DEF Word, Begin, End
<1> HIDE DEF S
<1>3. CASE Missing(message) # {}
  <2>1. PICK what \in {"missing begin", "missing end"} : Missing(message) = {what}
    BY <1>3, MissingWhat
  <2>2. The(Missing(message)) = what /\ what \in Complaints
    BY <2>1 DEF The, Complaints
  <2>3. PayloadRecord(id, message) = Record(id, Malformed(what))
    BY <1>3, <2>2 DEF PayloadRecord
  <2>4. Missing(message) # {"missing end"} => what \in {"missing begin", "malformed JSON"}
    BY <2>1
  <2> QED BY Zenon, <2>2, <2>3, <2>4
<1>4. CASE Missing(message) = {}
  <2>1. Extracted(message) \in Seq(S)
    BY <1>1, <1>4, ExtractedType
  <2>2. ~IsJson(Extracted(message))
    BY Zenon, <1>2, <2>1, JsonOpens
  <2>3. PayloadRecord(id, message) = Record(id, Malformed("malformed JSON"))
    BY <1>4, <2>2 DEF PayloadRecord
  <2>4. "malformed JSON" \in Complaints /\ "malformed JSON" \in {"missing begin", "malformed JSON"}
    BY DEF Complaints
  <2> QED BY Zenon, <2>3, <2>4
<1> QED BY <1>3, <1>4
-----------------------------------------------------------------------------
(* The words of a file                                                      *)
Times == {Time(date, minute) : date \in {d \in Date : IsDate(d)}, minute \in 0..(MinutesPerDay - 1)}
Plain ==
  {Begin, End, Junk} \cup {Word(x) : x \in Texts \cup Ids \cup {"STATUS", "INFO", "text", "update:"}}
Opens == {[open |-> o, raw |-> raw] : o \in {o \in Object : GenuineObject(o)}, raw \in BOOLEAN}
Closes == {[close |-> o] : o \in Object}
Vocabulary == Times \cup Plain \cup Opens \cup Closes

LEMMA VocabularyDates ==
  ASSUME NEW w \in Vocabulary, "date" \in DOMAIN w
  PROVE  IsDate(w.date) /\ w.minute \in 0..(MinutesPerDay - 1)
<1>1. /\ \A x : "date" \notin DOMAIN Word(x)
      /\ "date" \notin DOMAIN Begin /\ "date" \notin DOMAIN End /\ "date" \notin DOMAIN Junk
      /\ \A o, raw : "date" \notin DOMAIN [open |-> o, raw |-> raw]
      /\ \A o : "date" \notin DOMAIN [close |-> o]
  BY DEF Word, Begin, End, Junk
<1>2. w \in Times
  BY <1>1 DEF Vocabulary, Plain, Opens, Closes
<1>3. PICK date \in Date, minute \in 0..(MinutesPerDay - 1) : IsDate(date) /\ w = Time(date, minute)
  BY <1>2 DEF Times
<1>4. w.date = date /\ w.minute = minute
  BY <1>3 DEF Time
<1> QED BY <1>3, <1>4

LEMMA VocabularyOpens ==
  ASSUME NEW w \in Vocabulary, "open" \in DOMAIN w
  PROVE  w.open \in Object /\ GenuineObject(w.open)
<1>1. /\ \A x : "open" \notin DOMAIN Word(x)
      /\ "open" \notin DOMAIN Begin /\ "open" \notin DOMAIN End /\ "open" \notin DOMAIN Junk
      /\ \A date, minute : "open" \notin DOMAIN Time(date, minute)
      /\ \A o : "open" \notin DOMAIN [close |-> o]
  BY DEF Word, Begin, End, Junk, Time
<1>2. w \in Opens
  BY <1>1 DEF Vocabulary, Plain, Times, Closes
<1>3. PICK o \in Object, raw \in BOOLEAN : GenuineObject(o) /\ w = [open |-> o, raw |-> raw]
  BY <1>2 DEF Opens
<1>4. w.open = o
  BY <1>3
<1> QED BY Zenon, <1>3, <1>4

(* Lines about genuine objects                                                *)
LEMMA StatusLineWords ==
  ASSUME NEW id \in Ids, NEW before \in Befores, NEW o \in Object, GenuineObject(o),
         NEW raw \in BOOLEAN
  PROVE  /\ StatusLine(id, before, o, raw) \in Seq(Vocabulary)
         /\ StatusLine(id, before, o, raw) # <<>>
<1> DEFINE S == LineWords(id, o, raw)
           head == Heading(id) \o before
           json == Json(o, raw)
           inner == <<Begin>> \o json \o <<End>>
<1>1. S \subseteq Vocabulary
  <2>1. Time(UtcNow.date, UtcNow.minute) \in Times
    BY NowIsTime DEF Times
  <2>2. /\ Word(id) \in Plain /\ Word("STATUS") \in Plain /\ Word("update:") \in Plain
        /\ Begin \in Plain /\ End \in Plain
    BY DEF Plain
  <2>3. [open |-> o, raw |-> raw] \in Opens
    <3>1. o \in {x \in Object : GenuineObject(x)}
      OBVIOUS
    <3> QED BY <3>1 DEF Opens
  <2>4. [close |-> o] \in Closes
    BY Zenon DEF Closes
  <2> QED BY <2>1, <2>2, <2>3, <2>4 DEF Vocabulary, LineWords
<1>2. json \in Seq(S)
  <2>1. json \in Seq({[open |-> o, raw |-> raw], [close |-> o], Begin, End})
    BY JsonShape
  <2>2. {[open |-> o, raw |-> raw], [close |-> o], Begin, End} \subseteq S
    BY DEF LineWords
  <2> HIDE DEF S, json
  <2> QED BY <2>1, <2>2, SeqMonotonic
<1>3. head \in Seq(S) /\ Len(head) >= 3 /\ Len(head) \in {3, 4}
  BY HeadType
<1>4. <<Begin>> \in Seq(S) /\ <<End>> \in Seq(S)
  BY DEF LineWords
<1> HIDE DEF S, json, head
<1>5. <<Begin>> \o json \in Seq(S)
  BY <1>2, <1>4, ConcatProperties
<1>6. inner \in Seq(S)
  BY <1>4, <1>5, ConcatProperties
<1> HIDE DEF inner
<1>7. head \o inner \in Seq(S) /\ Len(head \o inner) = Len(head) + Len(inner) /\ Len(inner) \in Nat
  BY <1>3, <1>6, ConcatProperties
<1>8. head \o inner # <<>>
  <2>1. Len(<<>>) = 0
    OBVIOUS
  <2>2. Len(head \o inner) # 0
    BY <1>3, <1>7
  <2> QED BY Zenon, <2>1, <2>2
<1>9. head \o inner \in Seq(Vocabulary)
  BY <1>1, <1>7, SeqMonotonic
<1> QED BY Zenon, <1>8, <1>9 DEF StatusLine, head, inner, json

LEMMA RecordWords ==
  ASSUME NEW id \in Ids, NEW c \in Calls, GenuineObject(Fields(c))
  PROVE  Record(id, c) \in Seq(Vocabulary) /\ Record(id, c) # <<>>
<1>1. Record(id, c) = StatusLine(id, <<>>, Fields(c), Raw(c))
  BY Zenon, RecordIs
<1>2. <<>> \in Befores /\ Fields(c) \in Object /\ Raw(c) \in BOOLEAN
  BY FieldsType DEF Befores
<1>3. /\ StatusLine(id, <<>>, Fields(c), Raw(c)) \in Seq(Vocabulary)
      /\ StatusLine(id, <<>>, Fields(c), Raw(c)) # <<>>
  BY Zenon, <1>2, StatusLineWords
<1> QED BY Zenon, <1>1, <1>3

(* A payload of a Python program is genuine.                                     *)
LEMMA PayloadGenuine ==
  ASSUME NEW p \in Payloads
  PROVE  StatusObject(p) \in Object /\ GenuineObject(StatusObject(p))
<1> DEFINE o == StatusObject(p)
           g == LoggedPayload(p)
<1>1. /\ o \in Object
      /\ o.status = {p.status} /\ o.prog = p.prog /\ o.msg = p.msg /\ o.modnm = p.modnm
  BY StatusObjectType
<1>2. g.status = p.status /\ g.prog = p.prog /\ g.msg = p.msg /\ g.modnm = p.modnm
  BY CallFields DEF LoggedPayload
<1> HIDE DEF o, g
<1>3. AsLogged(o, g)
  BY <1>1, <1>2 DEF AsLogged, Close, SameText
<1>4. GenuineObject(o)
  BY Zenon, <1>3 DEF GenuineObject, g
<1> QED BY <1>1, <1>4 DEF o

LEMMA StandaloneWords ==
  ASSUME NEW id \in Ids, NEW before \in Befores, NEW p \in Payloads
  PROVE  /\ StandaloneLine(id, "STATUS", before \o JsonWrapped(p)) \in Seq(Vocabulary)
         /\ StandaloneLine(id, "STATUS", before \o JsonWrapped(p)) # <<>>
<1>1. StandaloneLine(id, "STATUS", before \o JsonWrapped(p))
        = StatusLine(id, before, StatusObject(p), FALSE)
  BY Zenon, StandaloneIs
<1>2. FALSE \in BOOLEAN
  OBVIOUS
<1>3. /\ StatusLine(id, before, StatusObject(p), FALSE) \in Seq(Vocabulary)
      /\ StatusLine(id, before, StatusObject(p), FALSE) # <<>>
  BY Zenon, <1>2, PayloadGenuine, StatusLineWords
<1> QED BY Zenon, <1>1, <1>3

LEMMA MessageWords ==
  ASSUME NEW id \in Ids, NEW message \in Messages
  PROVE  /\ StandaloneLine(id, "STATUS", message) \in Seq(Vocabulary)
         /\ StandaloneLine(id, "STATUS", message) # <<>>
<1> DEFINE head == Heading(id)
<1>1. message \in Seq(Vocabulary)
  <2>1. message \in Seq({Begin, End} \cup {Word(x) : x \in Texts})
    BY ConstantsAssumption
  <2>2. {Begin, End} \cup {Word(x) : x \in Texts} \subseteq Vocabulary
    BY DEF Vocabulary, Plain
  <2> QED BY <2>1, <2>2, SeqMonotonic
<1>2. head \in Seq(Vocabulary) /\ Len(head) = 3
  <2>1. Time(UtcNow.date, UtcNow.minute) \in Times
    BY NowIsTime DEF Times
  <2>2. Word(id) \in Plain /\ Word("STATUS") \in Plain
    BY DEF Plain
  <2>3. Time(UtcNow.date, UtcNow.minute) \in Vocabulary /\ Word(id) \in Vocabulary
        /\ Word("STATUS") \in Vocabulary
    BY <2>1, <2>2 DEF Vocabulary
  <2> QED BY <2>3 DEF Heading
<1>3. StandaloneLine(id, "STATUS", message) = head \o message
  BY DEF StandaloneLine, Heading
<1> HIDE DEF head
<1>4. head \o message \in Seq(Vocabulary) /\ Len(head \o message) = Len(head) + Len(message)
      /\ Len(message) \in Nat
  <2>1. Len(message) \in Nat
    BY <1>1
  <2> HIDE DEF Vocabulary
  <2>2. head \o message \in Seq(Vocabulary) /\ Len(head \o message) = Len(head) + Len(message)
    BY Zenon, <1>1, <1>2, ConcatProperties
  <2> QED BY <2>1, <2>2
<1>5. head \o message # <<>>
  <2>1. Len(<<>>) = 0
    OBVIOUS
  <2>2. Len(head \o message) # 0
    BY <1>2, <1>4
  <2> QED BY Zenon, <2>1, <2>2
<1> QED BY Zenon, <1>3, <1>4, <1>5
-----------------------------------------------------------------------------
(* The lines of a file                                                      *)
Sents ==
  {[call |-> LoggedPayload(p)] : p \in Payloads} \cup {[call |-> LoggedCall(call)] : call \in NativeCalls}
    \cup {[message |-> message] : message \in Messages} \cup {[reading |-> r] : r \in Readings}

(* What a line of the file of writer w holds, for what it was written for          *)
Written(w, l) ==
  \/ /\ w = "python"
     /\ \E id \in Ids, before \in Befores, p \in Payloads :
          /\ l.sent = [call |-> LoggedPayload(p)]
          /\ l.whole => l.words = StandaloneLine(id, "STATUS", before \o JsonWrapped(p))
  \/ /\ w = "ngen"
     /\ \E id \in Ids, before \in Befores, p \in Payloads :
          /\ l.sent = [call |-> LoggedPayload(p)]
          /\ l.words = PayloadRecord(id, before \o JsonWrapped(p))
  \/ /\ w = "ngen"
     /\ \E id \in Ids, call \in NativeCalls :
          l.sent = [call |-> LoggedCall(call)] /\ l.words = Record(id, call)
  \/ /\ w = "ngen"
     /\ \E id \in Ids, message \in Messages :
          l.sent = [message |-> message] /\ l.words = PayloadRecord(id, message)
  \/ w = "python" /\ \E message \in Messages : l.sent = [message |-> message]
  \/ w = "fortran" /\ \E r \in Readings : l.sent = [reading |-> r]

Lines(w) ==
  {l \in [words : Seq(Vocabulary), sent : Sents, whole : BOOLEAN] : Written(w, l)}

(* The inductive invariant of what is written: only a crash of a Python program     *)
(* leaves part of a line, and every line holds genuine words only.               *)
FileInv ==
  /\ writer \in {"python", "fortran", "ngen"}
  /\ torn \in Seq(Vocabulary) /\ (torn # <<>> => writer = "python")
  /\ lines \in Seq(Lines(writer)) /\ Len(lines) <= MaxLines
  /\ clock # {} => writer = "fortran"

(* A line with these words may be written for this, whatever a crash left before it. *)
Fits(w, words, sent) ==
  /\ words \in Seq(Vocabulary) /\ words # <<>> /\ sent \in Sents
  /\ \A ws \in Seq(Vocabulary), whole \in BOOLEAN :
       (whole \/ w # "python" => ws = words) =>
         Written(w, [words |-> ws, sent |-> sent, whole |-> whole])

LEMMA JoinedType ==
  ASSUME NEW words \in Seq(Vocabulary), words # <<>>, torn \in Seq(Vocabulary)
  PROVE  Joined(words) \in Seq(Vocabulary) /\ (torn = <<>> => Joined(words) = words)
<1>1. torn \o words \in Seq(Vocabulary)
  BY ConcatProperties
<1>2. Tail(words) \in Seq(Vocabulary)
  OBVIOUS
<1>3. torn \o Tail(words) \in Seq(Vocabulary)
  BY <1>2, ConcatProperties
<1>4. Joined(words) \in Seq(Vocabulary)
  BY Zenon, <1>1, <1>3 DEF Joined
<1>5. torn = <<>> => Joined(words) = torn \o words
  BY Zenon DEF Joined
<1>6. <<>> \o words = words
  BY ConcatEmptySeq
<1> QED BY Zenon, <1>4, <1>5, <1>6

LEMMA MaxLinesType == MaxLines \in Nat /\ 0 <= MaxLines
<1>1. MaxLines \in Nat
  BY Zenon, ConstantsAssumption
<1> QED BY <1>1

LEMMA WriteKeeps ==
  ASSUME FileInv, NEW words, NEW sent, Fits(writer, words, sent), Write(words, sent)
  PROVE  lines' \in Seq(Lines(writer)) /\ Len(lines') <= MaxLines /\ torn' = <<>>
<1> DEFINE whole == torn = <<>>
           l == [words |-> Joined(words), sent |-> sent, whole |-> whole]
<1>1. words \in Seq(Vocabulary) /\ words # <<>> /\ sent \in Sents /\ torn \in Seq(Vocabulary)
  BY Zenon DEF Fits, FileInv
<1>2. Joined(words) \in Seq(Vocabulary) /\ (torn = <<>> => Joined(words) = words)
  BY Zenon, <1>1, JoinedType
<1>3. whole \in BOOLEAN
  OBVIOUS
<1>4. whole \/ writer # "python" => Joined(words) = words
  BY Zenon, <1>2 DEF FileInv
<1>5. lines' = Append(lines, l) /\ torn' = <<>> /\ Len(lines) < MaxLines
  BY Zenon DEF Write
<1> HIDE DEF whole
<1>6. Written(writer, l)
  BY Zenon, <1>2, <1>3, <1>4 DEF Fits
<1>7. l \in [words : Seq(Vocabulary), sent : Sents, whole : BOOLEAN]
  <2> HIDE DEF Vocabulary, Sents
  <2> QED BY <1>1, <1>2, <1>3
<1>8. l \in Lines(writer)
  BY Zenon, <1>6, <1>7 DEF Lines
<1> HIDE DEF l
<1>9. lines \in Seq(Lines(writer))
  BY DEF FileInv
<1>10. Append(lines, l) \in Seq(Lines(writer)) /\ Len(Append(lines, l)) = Len(lines) + 1
  BY <1>8, <1>9, AppendProperties
<1>11. Len(lines') <= MaxLines
  <2>1. Len(lines) \in Nat
    BY Zenon, <1>9, LenProperties
  <2>2. MaxLines \in Nat
    BY MaxLinesType
  <2> QED BY <1>5, <1>10, <2>1, <2>2
<1> QED BY <1>5, <1>10, <1>11

LEMMA CrashKeeps ==
  ASSUME FileInv, NEW words \in Seq(Vocabulary), words # <<>>, Crash(words)
  PROVE  /\ lines' \in Seq(Lines(writer)) /\ Len(lines') <= MaxLines
         /\ torn' \in Seq(Vocabulary) /\ (torn' # <<>> => writer = "python")
<1>1. lines \in Seq(Lines(writer)) /\ Len(lines) <= MaxLines /\ torn = <<>>
  BY DEF FileInv, Crash
<1>2. CASE writer = "python"
  <2>1. lines' = lines /\ CutOff(words)
    BY <1>2 DEF Crash
  <2>2. PICK n \in 0..(Len(words) - 1), rest \in {<<>>, <<Junk>>} :
          torn' = Joined(SubSeq(words, 1, n) \o rest)
    BY <2>1 DEF CutOff
  <2>3. SubSeq(words, 1, n) \in Seq(Vocabulary)
    <3>1. n \in Int /\ \A i \in 1..n : words[i] \in Vocabulary
      OBVIOUS
    <3> QED BY <3>1, SubSeqProperties
  <2>4. rest \in Seq(Vocabulary)
    <3>1. Junk \in Vocabulary
      BY DEF Vocabulary, Plain
    <3>2. <<Junk>> \in Seq(Vocabulary) /\ <<>> \in Seq(Vocabulary)
      BY <3>1
    <3> QED BY Zenon, <3>2
  <2>5. SubSeq(words, 1, n) \o rest \in Seq(Vocabulary)
    BY <2>3, <2>4, ConcatProperties
  <2>6. Joined(SubSeq(words, 1, n) \o rest) = torn \o (SubSeq(words, 1, n) \o rest)
    BY Zenon, <1>1 DEF Joined
  <2>7. torn \o (SubSeq(words, 1, n) \o rest) \in Seq(Vocabulary)
    BY <1>1, <2>5, EmptySeq, ConcatProperties
  <2> QED BY Zenon, <1>1, <1>2, <2>1, <2>2, <2>6, <2>7
<1>3. CASE writer # "python"
  <2>1. lines' = <<>> /\ torn' = <<>>
    BY <1>3 DEF Crash
  <2>2. Len(<<>>) <= MaxLines
    BY MaxLinesType
  <2> QED BY <2>1, <2>2, EmptySeq
<1> QED BY <1>2, <1>3

LEMMA WriteOrCrashKeeps ==
  ASSUME FileInv, NEW words, NEW sent, Fits(writer, words, sent), WriteOrCrash(words, sent)
  PROVE  FileInv'
<1>1. writer' = writer /\ clock' = clock
  BY DEF WriteOrCrash
<1>2. words \in Seq(Vocabulary) /\ words # <<>>
  BY Zenon DEF Fits
<1>3. /\ lines' \in Seq(Lines(writer)) /\ Len(lines') <= MaxLines
      /\ torn' \in Seq(Vocabulary) /\ (torn' # <<>> => writer = "python")
  <2>1. CASE Write(words, sent)
    BY Zenon, <2>1, WriteKeeps, EmptySeq
  <2>2. CASE Crash(words)
    BY Zenon, <1>2, <2>2, CrashKeeps
  <2> QED BY <2>1, <2>2 DEF WriteOrCrash
<1>4. Lines(writer)' = Lines(writer)
  BY <1>1 DEF Lines, Written
<1> QED BY <1>1, <1>3, <1>4 DEF FileInv

(* What every operation writes fits                                           *)
LEMMA PayloadFits ==
  ASSUME writer \in {"python", "ngen"}, NEW id \in Ids, NEW before \in Befores, NEW p \in Payloads
  PROVE  Fits(writer, Logged(id, before \o JsonWrapped(p)), [call |-> LoggedPayload(p)])
<1> DEFINE words == Logged(id, before \o JsonWrapped(p))
           sent == [call |-> LoggedPayload(p)]
<1>1. sent \in Sents
  BY DEF Sents
<1> HIDE DEF sent
<1>2. CASE writer = "python"
  <2>1. words = StandaloneLine(id, "STATUS", before \o JsonWrapped(p))
    BY <1>2 DEF Logged
  <2> HIDE DEF words
  <2>2. words \in Seq(Vocabulary) /\ words # <<>>
    BY Zenon, <2>1, StandaloneWords
  <2>3. ASSUME NEW ws \in Seq(Vocabulary), NEW whole \in BOOLEAN, whole \/ writer # "python" => ws = words
        PROVE  Written(writer, [words |-> ws, sent |-> sent, whole |-> whole])
    <3> DEFINE l == [words |-> ws, sent |-> sent, whole |-> whole]
    <3>1. l.words = ws /\ l.sent = sent /\ l.whole = whole
      OBVIOUS
    <3> HIDE DEF l
    <3>2. l.whole => l.words = words
      BY <2>3, <3>1
    <3>3. \E i \in Ids, b \in Befores, pp \in Payloads :
            /\ l.sent = [call |-> LoggedPayload(pp)]
            /\ l.whole => l.words = StandaloneLine(i, "STATUS", b \o JsonWrapped(pp))
      BY Zenon, <2>1, <3>1, <3>2 DEF sent
    <3>4. Written(writer, l)
      BY Zenon, <1>2, <3>3 DEF Written
    <3> QED BY <3>4 DEF l
  <2> QED BY Zenon, <1>1, <2>2, <2>3 DEF Fits, words, sent
<1>3. CASE writer = "ngen"
  <2>1. words = PayloadRecord(id, before \o JsonWrapped(p))
    BY <1>3 DEF Logged
  <2>2. PICK c \in Calls : GenuineObject(Fields(c))
                           /\ PayloadRecord(id, before \o JsonWrapped(p)) = Record(id, c)
    BY Zenon, PayloadOutcome
  <2> HIDE DEF words
  <2>3. words \in Seq(Vocabulary) /\ words # <<>>
    BY Zenon, <2>1, <2>2, RecordWords
  <2>4. ASSUME NEW ws \in Seq(Vocabulary), NEW whole \in BOOLEAN, whole \/ writer # "python" => ws = words
        PROVE  Written(writer, [words |-> ws, sent |-> sent, whole |-> whole])
    <3> DEFINE l == [words |-> ws, sent |-> sent, whole |-> whole]
    <3>1. l.words = words /\ l.sent = sent
      BY <1>3, <2>4
    <3> HIDE DEF l
    <3>2. \E i \in Ids, b \in Befores, pp \in Payloads :
            /\ l.sent = [call |-> LoggedPayload(pp)]
            /\ l.words = PayloadRecord(i, b \o JsonWrapped(pp))
      BY Zenon, <2>1, <3>1 DEF sent
    <3>3. Written(writer, l)
      BY Zenon, <1>3, <3>2 DEF Written
    <3> QED BY <3>3 DEF l
  <2> QED BY Zenon, <1>1, <2>3, <2>4 DEF Fits, words, sent
<1> QED BY <1>2, <1>3

LEMMA MessageFits ==
  ASSUME writer \in {"python", "ngen"}, NEW id \in Ids, NEW message \in Messages
  PROVE  Fits(writer, Logged(id, message), [message |-> message])
<1> DEFINE words == Logged(id, message)
           sent == [message |-> message]
<1>1. sent \in Sents
  BY DEF Sents
<1> HIDE DEF sent
<1>2. CASE writer = "python"
  <2>1. words = StandaloneLine(id, "STATUS", message)
    BY <1>2 DEF Logged
  <2> HIDE DEF words
  <2>2. words \in Seq(Vocabulary) /\ words # <<>>
    BY Zenon, <2>1, MessageWords
  <2>3. ASSUME NEW ws \in Seq(Vocabulary), NEW whole \in BOOLEAN
        PROVE  Written(writer, [words |-> ws, sent |-> sent, whole |-> whole])
    <3> DEFINE l == [words |-> ws, sent |-> sent, whole |-> whole]
    <3>1. l.sent = sent
      OBVIOUS
    <3> HIDE DEF l
    <3>2. Written(writer, l)
      BY Zenon, <1>2, <3>1 DEF Written, sent
    <3> QED BY <3>2 DEF l
  <2> QED BY Zenon, <1>1, <2>2, <2>3 DEF Fits, words, sent
<1>3. CASE writer = "ngen"
  <2>1. words = PayloadRecord(id, message)
    BY <1>3 DEF Logged
  <2>2. PICK what \in Complaints : PayloadRecord(id, message) = Record(id, Malformed(what))
    BY Zenon, MessageOutcome
  <2>3. Malformed(what) \in Calls /\ GenuineObject(Fields(Malformed(what)))
    BY Zenon, MalformedFields
  <2> HIDE DEF words
  <2>4. words \in Seq(Vocabulary) /\ words # <<>>
    BY Zenon, <2>1, <2>2, <2>3, RecordWords
  <2>5. ASSUME NEW ws \in Seq(Vocabulary), NEW whole \in BOOLEAN, whole \/ writer # "python" => ws = words
        PROVE  Written(writer, [words |-> ws, sent |-> sent, whole |-> whole])
    <3> DEFINE l == [words |-> ws, sent |-> sent, whole |-> whole]
    <3>1. l.words = words /\ l.sent = sent
      BY <1>3, <2>5
    <3> HIDE DEF l
    <3>2. Written(writer, l)
      BY Zenon, <1>3, <2>1, <3>1 DEF Written, sent
    <3> QED BY <3>2 DEF l
  <2> QED BY Zenon, <1>1, <2>4, <2>5 DEF Fits, words, sent
<1> QED BY <1>2, <1>3

LEMMA NativeFits ==
  ASSUME writer = "ngen", NEW id \in Ids, NEW call \in NativeCalls
  PROVE  Fits(writer, Record(id, call), [call |-> LoggedCall(call)])
<1> DEFINE words == Record(id, call)
           sent == [call |-> LoggedCall(call)]
<1>1. sent \in Sents
  BY DEF Sents
<1>2. call \in Calls /\ AsLogged(Fields(call), LoggedCall(call))
  BY Zenon, NativeStands, StandsGenuine
<1>3. GenuineObject(Fields(call))
  BY Zenon, <1>2 DEF GenuineObject
<1>4. words \in Seq(Vocabulary) /\ words # <<>>
  BY Zenon, <1>2, <1>3, RecordWords
<1> HIDE DEF words, sent
<1>5. ASSUME NEW ws \in Seq(Vocabulary), NEW whole \in BOOLEAN, whole \/ writer # "python" => ws = words
      PROVE  Written(writer, [words |-> ws, sent |-> sent, whole |-> whole])
  <2> DEFINE l == [words |-> ws, sent |-> sent, whole |-> whole]
  <2>1. l.words = words /\ l.sent = sent
    BY <1>5
  <2> HIDE DEF l
  <2>2. Written(writer, l)
    BY Zenon, <2>1 DEF Written, words, sent
  <2> QED BY <2>2 DEF l
<1> QED BY Zenon, <1>1, <1>4, <1>5 DEF Fits, words, sent

LEMMA FortranFits ==
  ASSUME writer = "fortran", NEW c \in Clocks, c.minutes \in 0..(MinutesPerDay - 1)
  PROVE  Fits(writer, <<Time(c.date, c.minutes), Word(c.id), Word("INFO"), Word("text")>>,
              [reading |-> c.reading])
<1> DEFINE words == <<Time(c.date, c.minutes), Word(c.id), Word("INFO"), Word("text")>>
           sent == [reading |-> c.reading]
<1>1. c.date \in Date /\ c.id \in Ids /\ c.reading \in Readings /\ IsDate(c.date)
  BY DEF Clocks, True
<1>2. sent \in Sents
  BY <1>1 DEF Sents
<1>3. words \in Seq(Vocabulary) /\ words # <<>>
  <2>1. Time(c.date, c.minutes) \in Times
    BY <1>1 DEF Times
  <2>2. Word(c.id) \in Plain /\ Word("INFO") \in Plain /\ Word("text") \in Plain
    BY <1>1 DEF Plain
  <2>3. /\ Time(c.date, c.minutes) \in Vocabulary /\ Word(c.id) \in Vocabulary
        /\ Word("INFO") \in Vocabulary /\ Word("text") \in Vocabulary
    BY <2>1, <2>2 DEF Vocabulary
  <2> QED BY <2>3
<1> HIDE DEF words, sent
<1>4. ASSUME NEW ws \in Seq(Vocabulary), NEW whole \in BOOLEAN
      PROVE  Written(writer, [words |-> ws, sent |-> sent, whole |-> whole])
  <2> DEFINE l == [words |-> ws, sent |-> sent, whole |-> whole]
  <2>1. l.sent = sent
    OBVIOUS
  <2> HIDE DEF l
  <2>2. Written(writer, l)
    BY Zenon, <1>1, <2>1 DEF Written, sent
  <2> QED BY <2>2 DEF l
<1> QED BY Zenon, <1>2, <1>3, <1>4 DEF Fits, words, sent

LEMMA FileInvStep == Inv /\ FileInv /\ [Next]_vars => FileInv'
<1> SUFFICES ASSUME Inv, FileInv, [Next]_vars PROVE FileInv'
  OBVIOUS
<1>1. ASSUME NEW id \in Ids, NEW p \in Payloads, LogPayload(id, p) PROVE FileInv'
  <2>1. PICK before \in Befores :
          WriteOrCrash(Logged(id, before \o JsonWrapped(p)), [call |-> LoggedPayload(p)])
    BY Zenon, <1>1 DEF LogPayload, Befores, LoggedPayload
  <2>2. Fits(writer, Logged(id, before \o JsonWrapped(p)), [call |-> LoggedPayload(p)])
    BY Zenon, <1>1, PayloadFits DEF LogPayload
  <2> QED BY Zenon, <2>1, <2>2, WriteOrCrashKeeps
<1>2. ASSUME NEW id \in Ids, NEW m \in Messages, LogMessage(id, m) PROVE FileInv'
  <2>1. Fits(writer, Logged(id, m), [message |-> m])
    BY Zenon, <1>2, MessageFits DEF LogMessage
  <2> QED BY Zenon, <1>2, <2>1, WriteOrCrashKeeps DEF LogMessage
<1>3. ASSUME NEW id \in Ids, NEW call \in NativeCalls, NativeStatus(id, call) PROVE FileInv'
  <2>1. writer = "ngen" /\ WriteOrCrash(Record(id, call), [call |-> LoggedCall(call)])
    BY Zenon, <1>3 DEF NativeStatus, LoggedCall
  <2>2. Fits(writer, Record(id, call), [call |-> LoggedCall(call)])
    BY Zenon, <2>1, NativeFits
  <2> QED BY Zenon, <2>1, <2>2, WriteOrCrashKeeps
<1>4. ASSUME writer' = writer, lines' = lines, torn' = torn, clock' # {} => writer = "fortran"
      PROVE  FileInv'
  <2>1. Lines(writer)' = Lines(writer)
    BY <1>4 DEF Lines, Written
  <2> QED BY <1>4, <2>1 DEF FileInv
<1>5. ASSUME NEW id \in Ids, NEW r \in Readings, StartLine(id, r) PROVE FileInv'
  BY <1>4, <1>5 DEF StartLine
<1>6. CASE DayBack
  BY <1>4, <1>6 DEF DayBack, FileInv
<1>7. CASE DayOn
  BY <1>4, <1>7 DEF DayOn, FileInv
<1>8. CASE WriteLine
  <2>1. PICK c \in clock :
          /\ c.minutes \in 0..(MinutesPerDay - 1)
          /\ Write(<<Time(c.date, c.minutes), Word(c.id), Word("INFO"), Word("text")>>,
                   [reading |-> c.reading])
          /\ clock' = {} /\ writer' = writer
    BY <1>8 DEF WriteLine
  <2>2. writer = "fortran" /\ c \in Clocks
    BY <2>1 DEF FileInv, Inv
  <2>3. Fits(writer, <<Time(c.date, c.minutes), Word(c.id), Word("INFO"), Word("text")>>,
             [reading |-> c.reading])
    BY Zenon, <2>1, <2>2, FortranFits
  <2>4. lines' \in Seq(Lines(writer)) /\ Len(lines') <= MaxLines /\ torn' = <<>>
    BY Zenon, <2>1, <2>3, WriteKeeps
  <2>5. Lines(writer)' = Lines(writer)
    BY <2>1 DEF Lines, Written
  <2> QED BY <2>1, <2>2, <2>4, <2>5, EmptySeq DEF FileInv
<1>9. CASE UNCHANGED vars
  BY <1>4, <1>9 DEF vars, FileInv
<1> QED BY <1>1, <1>2, <1>3, <1>5, <1>6, <1>7, <1>8, <1>9 DEF Next

IInv == Inv /\ FileInv

LEMMA IInvHolds == Spec => []IInv
<1>1. Init => IInv
  <2>1. <<>> \in Seq(TrueLines) /\ <<>> \in Seq(Vocabulary) /\ <<>> \in Seq(Lines(writer))
    BY EmptySeq
  <2>2. Len(<<>>) <= MaxLines
    BY MaxLinesType
  <2> QED BY <2>1, <2>2 DEF Init, IInv, Inv, FileInv
<1>2. IInv /\ [Next]_vars => IInv'
  BY InvStep, FileInvStep DEF IInv
<1> QED BY <1>1, <1>2, PTL DEF Spec
-----------------------------------------------------------------------------
(* The properties                                                           *)
LEMMA LineWritten ==
  ASSUME FileInv, NEW l \in Range(lines)
  PROVE  Written(writer, l) /\ l.words \in Seq(Vocabulary) /\ l.sent \in Sents
<1>1. l \in Lines(writer)
  <2>1. lines \in Seq(Lines(writer))
    BY DEF FileInv
  <2> QED BY <2>1, RangeOfSeq
<1>2. l \in [words : Seq(Vocabulary), sent : Sents, whole : BOOLEAN] /\ Written(writer, l)
  BY Zenon, <1>1 DEF Lines
<1>3. l.words \in Seq(Vocabulary) /\ l.sent \in Sents
  <2> HIDE DEF Vocabulary, Sents
  <2> QED BY <1>2
<1> QED BY <1>2, <1>3

LEMMA LineIn ==
  ASSUME FileInv, NEW i \in DOMAIN lines
  PROVE  lines[i] \in Range(lines)
BY DEF Range

(* Times on lines are dates, whatever is logged and wherever a crash cuts a line    *)
(* off, and only the file of a Python program holds part of a line.              *)
THEOREM TypeCorrect == Spec => []TypeOK
<1>1. IInv => TypeOK
  <2> SUFFICES ASSUME IInv PROVE TypeOK
    OBVIOUS
  <2>1. Inv /\ FileInv
    BY DEF IInv
  <2>2. \A c \in clock : IsDate(c.date)
    BY <2>1 DEF FileInv, Inv, Clocks, True
  <2>3. ASSUME NEW w \in Words PROVE w \in Vocabulary
    <3>1. CASE w \in Range(torn)
      <4>1. torn \in Seq(Vocabulary)
        BY <2>1 DEF FileInv
      <4> QED BY <3>1, <4>1, RangeOfSeq
    <3>2. CASE \E i \in DOMAIN lines : w \in Range(lines[i].words)
      <4>1. PICK i \in DOMAIN lines : w \in Range(lines[i].words)
        BY <3>2
      <4>2. lines[i].words \in Seq(Vocabulary)
        BY Zenon, <2>1, LineIn, LineWritten
      <4> QED BY <4>1, <4>2, RangeOfSeq
    <3> QED BY <3>1, <3>2 DEF Words
  <2>4. \A w \in Words : "date" \in DOMAIN w => IsDate(w.date) /\ w.minute \in 0..(MinutesPerDay - 1)
    BY Zenon, <2>3, VocabularyDates
  <2> QED BY <2>1, <2>2, <2>4 DEF TypeOK, FileInv
<1> QED BY <1>1, IInvHolds, PTL

(* What a line was written for tells the kinds of lines apart.                    *)
LEMMA SentKinds ==
  /\ \A c : "call" \in DOMAIN [call |-> c] /\ "message" \notin DOMAIN [call |-> c]
            /\ [call |-> c].call = c
  /\ \A m : "call" \notin DOMAIN [message |-> m] /\ "message" \in DOMAIN [message |-> m]
            /\ [message |-> m].message = m
  /\ \A r : "call" \notin DOMAIN [reading |-> r] /\ "message" \notin DOMAIN [reading |-> r]
OBVIOUS

(* A payload that the Python runtime writes itself is read back as it was: every    *)
(* status, progress and text, None or not, unless its message or the name of its    *)
(* module holds the closing sentinel (data_payloads.py:88 writes both).           *)
THEOREM PayloadsRoundTrip == Spec => []RoundTrip
<1>1. IInv => RoundTrip
  <2> SUFFICES ASSUME IInv, writer = "python", NEW l \in StatusLines, ~HasEnd(l.sent.call.msg \cup l.sent.call.modnm)
               PROVE  PartsOfLogLine(l.words, FALSE) =
                        [error |-> FALSE, payload |-> {l.sent.call}, dt |-> {l.words[1]},
                         module |-> {l.words[2]}]
    BY DEF RoundTrip
  <2>1. l \in Range(lines) /\ "call" \in DOMAIN l.sent /\ l.whole
    BY DEF StatusLines
  <2>2. Written(writer, l)
    BY Zenon, <2>1, LineWritten DEF IInv
  <2>3. PICK id \in Ids, before \in Befores, p \in Payloads :
          /\ l.sent = [call |-> LoggedPayload(p)]
          /\ l.words = StandaloneLine(id, "STATUS", before \o JsonWrapped(p))
    <3>1. \A m : l.sent # [message |-> m]
      BY Zenon, <2>1, SentKinds
    <3>2. "python" # "ngen" /\ "python" # "fortran"
      OBVIOUS
    <3> QED BY Zenon, <2>1, <2>2, <3>1, <3>2 DEF Written
  <2>4. l.sent.call = LoggedPayload(p)
    BY Zenon, <2>3, SentKinds
  <2>5. LoggedPayload(p) = p
    <3>1. p = [status |-> p.status, prog |-> p.prog, msg |-> p.msg, modnm |-> p.modnm]
      BY StatusObjectType DEF Payload
    <3> QED BY SMT, <3>1 DEF LoggedPayload, Call
  <2>6. ~HasEnd(p.msg \cup p.modnm)
    BY Zenon, <2>4, <2>5
  <2>7. LET line == StandaloneLine(id, "STATUS", before \o JsonWrapped(p)) IN
        PartsOfLogLine(line, FALSE) =
          [error |-> FALSE, payload |-> {p}, dt |-> {line[1]}, module |-> {line[2]}]
    BY Zenon, <2>6, StandaloneRoundTrip
  <2> QED BY Zenon, <2>3, <2>4, <2>5, <2>7
<1> QED BY <1>1, IInvHolds, PTL

(* Of what goes through ngen, as a payload or from C, C++ and Fortran, every field   *)
(* that says something arrives, for every status but NULL, every progress up to 1     *)
(* and all texts without control characters, unless the message or the name of the    *)
(* module holds the closing sentinel.                                         *)
THEOREM FieldsAlwaysArrive == Spec => []FieldsArrive
<1>1. ASSUME FileInv, writer = "ngen", NEW l \in StatusLines,
             NEW call, call = l.sent.call,
             call.status # "NULL", (call.msg \cup call.modnm) \cap ControlTexts = {},
             ~HasEnd(call.msg \cup call.modnm), \A p \in call.prog : p <= One
      PROVE  LET read == PartsOfLogLine(l.words, FALSE)
                 arrives(from, to) == from # {} => to = {t \in from : t \notin {"", "NULL"}}
             IN /\ ~read.error
                /\ \E q \in read.payload :
                     /\ q.status = call.status /\ Close(q.prog, call.prog)
                     /\ arrives(call.msg, q.msg) /\ arrives(call.modnm, q.modnm)
  <2>1. l \in Range(lines) /\ "call" \in DOMAIN l.sent
    BY DEF StatusLines
  <2>2. Written("ngen", l)
    BY Zenon, <1>1, <2>1, LineWritten
  <2>3. PICK id \in Ids :
          \/ \E before \in Befores, p \in Payloads :
               /\ l.sent = [call |-> LoggedPayload(p)]
               /\ l.words = PayloadRecord(id, before \o JsonWrapped(p))
          \/ \E native \in NativeCalls :
               l.sent = [call |-> LoggedCall(native)] /\ l.words = Record(id, native)
    <3>1. \A m : l.sent # [message |-> m]
      BY Zenon, <2>1, SentKinds
    <3>2. "ngen" # "python" /\ "ngen" # "fortran"
      OBVIOUS
    <3> QED BY Zenon, <2>2, <3>1, <3>2 DEF Written
  <2>4. PICK c : Stands(c, call) /\ l.words = Record(id, c)
    <3>1. ASSUME NEW before \in Befores, NEW p \in Payloads,
                 l.sent = [call |-> LoggedPayload(p)],
                 l.words = PayloadRecord(id, before \o JsonWrapped(p))
          PROVE  \E c : Stands(c, call) /\ l.words = Record(id, c)
      <4>1. call = LoggedPayload(p)
        BY Zenon, <1>1, <3>1, SentKinds
      <4>2. LoggedPayload(p).msg = p.msg /\ LoggedPayload(p).modnm = p.modnm
        BY CallFields DEF LoggedPayload
      <4>3. ~HasEnd(p.msg \cup p.modnm)
        BY Zenon, <1>1, <4>1, <4>2
      <4>4. l.words = Record(id, ReadFields(StatusObject(p)))
        BY Zenon, <3>1, <4>3, PayloadRead
      <4> QED BY Zenon, <4>1, <4>4, PayloadStands
    <3>2. ASSUME NEW native \in NativeCalls,
                 l.sent = [call |-> LoggedCall(native)], l.words = Record(id, native)
          PROVE  \E c : Stands(c, call) /\ l.words = Record(id, c)
      <4>1. call = LoggedCall(native)
        BY Zenon, <1>1, <3>2, SentKinds
      <4> QED BY Zenon, <3>2, <4>1, NativeStands
    <3> QED BY Zenon, <2>3, <3>1, <3>2
  <2>5. LET read == PartsOfLogLine(Record(id, c), FALSE)
            arrives(from, to) == from # {} => to = {t \in from : t \notin {"", "NULL"}}
        IN /\ ~read.error
           /\ \E q \in read.payload :
                /\ q.status = call.status /\ Close(q.prog, call.prog)
                /\ arrives(call.msg, q.msg) /\ arrives(call.modnm, q.modnm)
    <3>1. /\ call.status # "NULL" /\ (call.msg \cup call.modnm) \cap ControlTexts = {}
          /\ ~HasEnd(call.msg \cup call.modnm) /\ \A p \in call.prog : p <= One
      BY Zenon, <1>1
    <3> QED BY ZenonT(30), <2>4, <3>1, CallArrives
  <2> QED BY Zenon, <2>4, <2>5
<1>2. IInv => FieldsArrive
  BY <1>1 DEF IInv, FieldsArrive
<1> QED BY <1>2, IInvHolds, PTL

(* The parser never returns a payload that no program logged and that is no report   *)
(* of the ngen logger, from whatever a crash left or two lines run together.       *)
THEOREM GenuineAlways == Spec => []Genuine
<1>1. ASSUME NEW words \in Seq(Vocabulary), NEW tolerant \in BOOLEAN,
             NEW q \in PartsOfLogLine(words, tolerant).payload
      PROVE  \E o \in Object, s \in Statuses :
               GenuineObject(o) /\ o.status = {s} /\ q = ReadObject(o, s)
  <2>1. q \in PayloadOfLogMsg(words).payload
    BY Zenon DEF PartsOfLogLine
  <2> DEFINE between == SubSeq(words, Begun(words), Ended(words))
  <2>2. /\ Found(words) /\ Parses(between)
        /\ q = [between[1].open EXCEPT !.status = The(@)]
    <3> HIDE DEF between
    <3>1. \/ PayloadOfLogMsg(words) = [error |-> FALSE, payload |-> {}]
          \/ PayloadOfLogMsg(words) = [error |-> TRUE, payload |-> {}]
          \/ /\ Found(words) /\ Parses(between)
             /\ PayloadOfLogMsg(words) =
                  [error |-> FALSE, payload |-> {[between[1].open EXCEPT !.status = The(@)]}]
      BY Zenon DEF PayloadOfLogMsg, between
    <3> DEFINE r == [between[1].open EXCEPT !.status = The(@)]
    <3> HIDE DEF r
    <3>2. CASE /\ Found(words) /\ Parses(between)
               /\ PayloadOfLogMsg(words) = [error |-> FALSE, payload |-> {r}]
      <4>1. q = r
        BY <2>1, <3>2
      <4> QED BY <3>2, <4>1 DEF r
    <3>3. CASE \/ PayloadOfLogMsg(words) = [error |-> FALSE, payload |-> {}]
               \/ PayloadOfLogMsg(words) = [error |-> TRUE, payload |-> {}]
      BY <2>1, <3>3
    <3> QED BY Zenon, <3>1, <3>2, <3>3 DEF r
  <2>3. between \in Seq(Vocabulary)
    <3> DEFINE b == FirstOf(words, Begin, 1)
               e == FirstOf(words, End, b + 1)
    <3>1. Occurs(words, Begin, 1) /\ Occurs(words, End, b + 1)
      BY Zenon, <2>2 DEF Found
    <3>2. b \in 1..Len(words)
      BY <3>1, FirstExists
    <3> HIDE DEF b
    <3>3. b \in Nat /\ b + 1 \in Nat /\ 1 <= b
      BY <3>2
    <3>4. e \in (b + 1)..Len(words)
      BY <3>1, <3>3, FirstExists
    <3>5. between = SubSeq(words, b + 1, e - 1)
      BY Zenon DEF Begun, Ended, b
    <3> HIDE DEF e, between
    <3>6. b + 1 \in Int /\ e - 1 \in Int /\ \A i \in (b + 1)..(e - 1) : words[i] \in Vocabulary
      BY <3>3, <3>4
    <3>7. SubSeq(words, b + 1, e - 1) \in Seq(Vocabulary)
      BY <3>6, SubSeqProperties
    <3> QED BY <3>5, <3>7
  <2> HIDE DEF between
  <2>4. between[1] \in Vocabulary /\ "open" \in DOMAIN between[1]
    BY Zenon, <2>2, <2>3, JsonOpens DEF Parses
  <2> DEFINE o == between[1].open
  <2>5. o \in Object /\ GenuineObject(o)
    BY Zenon, <2>4, VocabularyOpens
  <2>6. o.status # {} /\ The(o.status) \in Statuses
    BY Zenon, <2>2 DEF Parses
  <2>7. q = [o EXCEPT !.status = The(o.status)]
    BY <2>2
  <2> HIDE DEF o
  <2>8. o.status \in Optional(Texts \cup Statuses)
    BY <2>5 DEF Object
  <2>9. o.status = {The(o.status)}
    BY Zenon, <2>6, <2>8, OptionalThe
  <2>10. q = ReadObject(o, The(o.status))
    BY Zenon, <2>5, <2>7, ReadObjectIs
  <2> QED BY Zenon, <2>5, <2>6, <2>9, <2>10
<1>2. ASSUME NEW words \in Seq(Vocabulary), NEW tolerant \in BOOLEAN,
             NEW q \in PartsOfLogLine(words, tolerant).payload
      PROVE  \/ q.status = "ERROR" /\ q.msg \subseteq Complaints /\ q.modnm = {}
             \/ \E p \in Payloads : /\ q.status = p.status /\ Close(q.prog, p.prog)
                                   /\ SameText(q.msg, p.msg) /\ SameText(q.modnm, p.modnm)
             \/ \E c \in NativeCalls :
                  /\ q.status = c.status /\ Close(q.prog, {p \in {c.prog} : p >= 0})
                  /\ SameText(q.msg, {c.msg}) /\ SameText(q.modnm, {c.modnm})
  <2>1. PICK o \in Object, s \in Statuses :
          GenuineObject(o) /\ o.status = {s} /\ q = ReadObject(o, s)
    BY Zenon, <1>1
  <2>2. q.status = s /\ q.prog = o.prog /\ q.msg = o.msg /\ q.modnm = o.modnm
    BY <2>1 DEF ReadObject
  <2>3. \A x : o.status \subseteq {x} => s = x
    BY <2>1
  <2>4. CASE o.status \subseteq {"ERROR"} /\ o.msg \subseteq Complaints /\ o.modnm = {}
    BY Zenon, <2>2, <2>3, <2>4
  <2>5. ASSUME NEW p \in Payloads, AsLogged(o, LoggedPayload(p))
        PROVE  /\ q.status = p.status /\ Close(q.prog, p.prog)
               /\ SameText(q.msg, p.msg) /\ SameText(q.modnm, p.modnm)
    <3>1. /\ LoggedPayload(p).status = p.status /\ LoggedPayload(p).prog = p.prog
          /\ LoggedPayload(p).msg = p.msg /\ LoggedPayload(p).modnm = p.modnm
      BY CallFields DEF LoggedPayload
    <3> QED BY Zenon, <2>2, <2>3, <2>5, <3>1 DEF AsLogged
  <2>6. ASSUME NEW c \in NativeCalls, AsLogged(o, LoggedCall(c))
        PROVE  /\ q.status = c.status /\ Close(q.prog, {p \in {c.prog} : p >= 0})
               /\ SameText(q.msg, {c.msg}) /\ SameText(q.modnm, {c.modnm})
    <3>1. /\ LoggedCall(c).status = c.status
          /\ LoggedCall(c).prog = IF c.prog < 0 THEN {} ELSE {c.prog}
          /\ LoggedCall(c).msg = {c.msg} /\ LoggedCall(c).modnm = {c.modnm}
      BY CallFields DEF LoggedCall
    <3>2. c.prog \in Int
      BY Zenon, NativeStands DEF Stands, Calls
    <3>3. LoggedCall(c).prog = {p \in {c.prog} : p >= 0}
      BY <3>1, <3>2
    <3> QED BY Zenon, <2>2, <2>3, <2>6, <3>1, <3>3 DEF AsLogged
  <2> QED BY Zenon, <2>1, <2>4, <2>5, <2>6 DEF GenuineObject
<1>3. ASSUME IInv, NEW words \in {torn} \cup {lines[i].words : i \in DOMAIN lines}
      PROVE  words \in Seq(Vocabulary)
  <2>1. CASE words = torn
    BY <1>3, <2>1 DEF IInv, FileInv
  <2>2. ASSUME NEW i \in DOMAIN lines, words = lines[i].words PROVE words \in Seq(Vocabulary)
    BY Zenon, <1>3, <2>2, LineIn, LineWritten DEF IInv
  <2> QED BY <2>1, <2>2
<1>4. IInv => Genuine
  BY Zenon, <1>2, <1>3 DEF Genuine
<1> QED BY <1>4, IInvHolds, PTL

(* A status message that ngen cannot read is reported in its place, as an error     *)
(* that the parser can read, unless the closing sentinel is what is missing.       *)
THEOREM MalformedAlwaysReported == Spec => []MalformedReported
<1>1. ASSUME NEW id \in Ids, NEW what \in {"missing begin", "malformed JSON"}
      PROVE  \E q \in PartsOfLogLine(Record(id, Malformed(what)), FALSE).payload :
               q.status = "ERROR" /\ q.msg # {} /\ q.msg \subseteq Complaints
  <2> DEFINE c == Malformed(what)
             o == Fields(c)
             line == Record(id, c)
             read == PartsOfLogLine(line, FALSE)
  <2>1. what \in Complaints
    BY DEF Complaints
  <2>2. /\ c \in Calls /\ o \in Object
        /\ o.status = {"ERROR"} /\ o.prog = {} /\ o.msg = {what} /\ o.modnm = {}
    BY Zenon, <2>1, MalformedFields
  <2>3. what \notin ControlTexts /\ End \notin Range(SentinelsIn[what])
    BY ConstantsAssumption
  <2> HIDE DEF c, o
  <2>4. Readable(o, "ERROR")
    BY <2>2, <2>3 DEF Readable, Statuses, ValidProg, HasEnd
  <2>5. ~Raw(c)
    BY <2>2, <2>3 DEF Raw, o
  <2>6. read =
          [error |-> FALSE, payload |-> {ReadObject(o, "ERROR")},
           dt |-> {line[1]}, module |-> {line[2]}]
    BY Zenon, <2>2, <2>4, <2>5, RecordParsed DEF o
  <2>7. ReadObject(o, "ERROR").status = "ERROR" /\ ReadObject(o, "ERROR").msg = {what}
    BY <2>2 DEF ReadObject
  <2> HIDE DEF line, read
  <2>8. read.payload = {ReadObject(o, "ERROR")}
    BY <2>6
  <2> QED BY <2>1, <2>7, <2>8 DEF read, line, c
<1>2. ASSUME IInv, writer = "ngen", NEW l \in Range(lines), "message" \in DOMAIN l.sent,
             Missing(l.sent.message) # {"missing end"}
      PROVE  \E q \in PartsOfLogLine(l.words, FALSE).payload :
               q.status = "ERROR" /\ q.msg # {} /\ q.msg \subseteq Complaints
  <2>1. Written("ngen", l)
    BY Zenon, <1>2, LineWritten DEF IInv
  <2>2. PICK id \in Ids, message \in Messages :
          l.sent = [message |-> message] /\ l.words = PayloadRecord(id, message)
    <3>1. \A c : l.sent # [call |-> c]
      BY Zenon, <1>2, SentKinds
    <3>2. "ngen" # "python" /\ "ngen" # "fortran"
      OBVIOUS
    <3> QED BY Zenon, <2>1, <3>1, <3>2 DEF Written
  <2>3. l.sent.message = message
    BY Zenon, <2>2, SentKinds
  <2>4. PICK what \in Complaints :
          /\ PayloadRecord(id, message) = Record(id, Malformed(what))
          /\ Missing(message) # {"missing end"} => what \in {"missing begin", "malformed JSON"}
    BY Zenon, MessageOutcome
  <2>5. what \in {"missing begin", "malformed JSON"} /\ l.words = Record(id, Malformed(what))
    BY Zenon, <1>2, <2>2, <2>3, <2>4
  <2> QED BY Zenon, <1>1, <2>5
<1>3. IInv => MalformedReported
  BY Zenon, <1>2 DEF MalformedReported
<1> QED BY <1>3, IInvHolds, PTL
=============================================================================
