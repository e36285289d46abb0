--------------------------- MODULE CMessageLogProofs ---------------------------
(***************************************************************************)
(* The C runtime implements MessageLog, for any number of threads, ids,      *)
(* requests and worlds.                                                     *)
(***************************************************************************)
EXTENDS CMessageLog, CRuntimeProofs

(* What the logs hold of the calls that are under way                          *)

(* A piece of the current call of a thread                                      *)
Mine(t, p) == p.by = t /\ p.n = calls[t]

(* No piece is from the future, and one of a call that is under way stands where  *)
(* that call writes.                                                        *)
PieceInv(log, p) ==
  /\ p.n <= calls[p.by]
  /\ p.n = calls[p.by] /\ pc[p.by] # "idle" => pc[p.by] = "write" /\ log = SinkOf(p.by)

(* Thread t has written the first k lines of its message, to the end of the log   *)
(* that it writes to, and nothing of this message before them.                *)
Progress(t, k) ==
  LET lines == Sorted(LinesOf(call[t]))
      log   == out[SinkOf(t)]
      start == Len(log) - k
  IN /\ start \in Nat
     /\ todo[t] = {lines[i] : i \in (k + 1)..Len(lines)}
     /\ \A i \in 1..k : log[start + i] = Piece(t, lines[i])
     /\ \A i \in 1..start : ~Mine(t, log[i])

(* What a thread has still to write                                             *)
WriterInv(t) ==
  /\ pc[t] \in {"bridge", "wait"} => todo[t] = LinesOf(call[t])
  /\ pc[t] = "write" => \E k \in 0..Cardinality(LinesOf(call[t])) : Progress(t, k)

(* Together with Inv it is inductive.                                           *)
LogInv ==
  /\ \A log \in Sinks : \A i \in 1..Len(out[log]) : PieceInv(log, out[log][i])
  /\ \A t \in Threads : WriterInv(t)
-----------------------------------------------------------------------------
(* The lines of a call, in the order in which it writes them                   *)
LEMMA LinesSorted ==
  ASSUME Inv, NEW t \in Threads
  PROVE  LET lines == Sorted(LinesOf(call[t])) IN
         /\ lines \in Seq(Nat) /\ Len(lines) = Cardinality(LinesOf(call[t]))
         /\ Len(lines) \in Nat /\ Len(lines) # 0
         /\ LinesOf(call[t]) = {lines[i] : i \in 1..Len(lines)}
         /\ \A i, j \in 1..Len(lines) : i < j => lines[i] < lines[j]
<1> DEFINE S == LinesOf(call[t])
           lines == Sorted(S)
<1>1. S \subseteq Nat /\ IsFiniteSet(S) /\ S # {}
  BY LinesFinite
<1> HIDE DEF S
<1>0. lines \in [1..Cardinality(S) -> S] /\ Cardinality(S) \in Nat
  BY <1>1, SortedIsSorted
<1>2. /\ Len(lines) = Cardinality(S) /\ Cardinality(S) \in Nat
      /\ S = {lines[i] : i \in 1..Len(lines)}
      /\ \A i, j \in 1..Len(lines) : i < j => lines[i] < lines[j]
  BY <1>1, SortedIsSorted, SortedOnto
<1> HIDE DEF lines
<1>3. lines \in Seq(Nat)
  <2>1. lines \in [1..Cardinality(S) -> Nat]
    BY <1>0, <1>1
  <2> QED BY <1>0, <2>1
<1>4. Len(lines) # 0
  <2> SUFFICES ASSUME Len(lines) = 0 PROVE FALSE
    OBVIOUS
  <2>1. PICK x \in S : TRUE
    BY <1>1
  <2>2. PICK i \in 1..0 : x = lines[i]
    BY <1>2, <2>1
  <2> QED BY <2>2
<1> QED BY <1>2, <1>3, <1>4 DEF lines, S

(* The log of a standalone message is no other thread's, and is not ngen's.       *)
LEMMA SinkType ==
  ASSUME Inv, NEW t \in Threads
  PROVE  SinkOf(t) \in Sinks /\ SinkOf(t) # "ngen" /\ out[SinkOf(t)] \in Seq(Pieces)
         /\ Len(out[SinkOf(t)]) \in Nat
<1>1. call[t].id \in Ids /\ out \in [Sinks -> Seq(Pieces)]
  BY DEF Inv, TypeOK, Request
<1>2. SinkOf(t) \in Sinks /\ SinkOf(t) # "ngen"
  BY <1>1, ConstantsAssumption DEF SinkOf, Sinks
<1> QED BY <1>1, <1>2

(* While a thread writes, a step of another leaves it the destination.           *)
LEMMA SinkKept ==
  ASSUME Inv, NEW t \in Threads, Keeps(t), NEW u \in Threads, pc[u] = "write",
         call'[u] = call[u], state'[u] = state[u]
  PROVE  SinkOf(u)' = SinkOf(u)
<1>1. state[u] # 0 /\ LoggerOf(u).file # "none" /\ state[u] \in 0..Len(loggers)
      /\ Len(loggers) \in Nat
  BY DEF Inv, TypeOK, ThreadInv, Entered, Writing
<1>2. loggers'[state[u]].file = loggers[state[u]].file
  BY <1>1 DEF Keeps, LoggerOf
<1> QED BY <1>2 DEF SinkOf

(* A step of t leaves what the other threads have written as it is: only the      *)
(* owner of the mutex writes outside ngen's log.                              *)
LEMMA OtherWriters ==
  ASSUME Inv, LogInv, NEW t \in Threads, Keeps(t), Alone(t),
         pc[t] # "write" => \A log \in Sinks \ {"ngen"} : out'[log] = out[log],
         NEW u \in Threads \ {t}
  PROVE  WriterInv(u)'
<1>1. /\ pc'[u] = pc[u] /\ call'[u] = call[u] /\ calls'[u] = calls[u]
      /\ state'[u] = state[u] /\ todo'[u] = todo[u]
      /\ WriterInv(u)
  BY DEF Alone, LogInv
<1>2. LinesOf(call'[u]) = LinesOf(call[u])
  BY <1>1
<1>3. CASE pc[u] = "write"
  <2>1. pc[t] # "write"
    BY <1>3 DEF Inv, TypeOK
  <2>2. SinkOf(u)' = SinkOf(u)
    BY <1>1, <1>3, SinkKept
  <2>3. out'[SinkOf(u)] = out[SinkOf(u)]
    BY <2>1, SinkType
  <2>4. PICK k \in 0..Cardinality(LinesOf(call[u])) : Progress(u, k)
    BY <1>1, <1>3 DEF WriterInv
  <2>5. Progress(u, k)'
    BY <1>1, <1>2, <2>2, <2>3, <2>4 DEF Progress, Mine, Piece
  <2>6. pc'[u] = "write" /\ k \in 0..Cardinality(LinesOf(call'[u]))
    BY <1>1, <1>2, <1>3
  <2> QED BY <2>5, <2>6 DEF WriterInv
<1>4. CASE pc[u] # "write"
  BY <1>1, <1>2, <1>4 DEF WriterInv
<1> QED BY <1>3, <1>4

(* Nor does it make an earlier piece one of a call that is under way.            *)
LEMMA OldPieces ==
  ASSUME Inv, NEW t \in Threads, Keeps(t), Alone(t), NEW log \in Sinks, NEW p \in Pieces,
         pc[t] = "write" => pc'[t] \in {"write", "idle"} /\ SinkOf(t)' = SinkOf(t),
         PieceInv(log, p)
  PROVE  PieceInv(log, p)'
<1>1. p.by \in Threads /\ p.n \in Nat
  BY ConstantsAssumption DEF Pieces
<1>2. CASE p.by = t
  <2>1. calls[t] \in Nat
    BY DEF Inv, TypeOK
  <2>2. CASE calls'[t] = calls[t] /\ pc[t] # "idle"
    BY <1>2, <2>2 DEF PieceInv
  <2>3. CASE calls'[t] = calls[t] + 1
    BY <1>1, <1>2, <2>1, <2>3 DEF PieceInv
  <2> QED BY <2>2, <2>3 DEF Alone
<1>3. CASE p.by # t
  <2>1. /\ pc'[p.by] = pc[p.by] /\ calls'[p.by] = calls[p.by]
        /\ call'[p.by] = call[p.by] /\ state'[p.by] = state[p.by]
    BY <1>1, <1>3 DEF Alone
  <2>2. pc[p.by] = "write" => SinkOf(p.by)' = SinkOf(p.by)
    BY <1>1, <2>1, SinkKept
  <2> QED BY <2>1, <2>2 DEF PieceInv
<1> QED BY <1>2, <1>3

(* A step that writes nothing keeps the logs as said.                          *)
LEMMA SilentKeeps ==
  ASSUME Inv, LogInv, NEW t \in Threads, Keeps(t), Alone(t), out' = out,
         pc[t] = "write" => pc'[t] = "idle" /\ SinkOf(t)' = SinkOf(t),
         WriterInv(t)'
  PROVE  LogInv'
<1>1. \A u \in Threads : WriterInv(u)'
  BY OtherWriters
<1>2. ASSUME NEW log \in Sinks, NEW i \in 1..Len(out[log]) PROVE PieceInv(log, out[log][i])'
  <2>1. out[log][i] \in Pieces
    BY DEF Inv, TypeOK
  <2>2. PICK p \in Pieces : p = out[log][i]
    BY <2>1
  <2>3. PieceInv(log, p)'
    BY <2>2, OldPieces DEF LogInv
  <2> QED BY <2>2, <2>3
<1> QED BY <1>1, <1>2 DEF LogInv
-----------------------------------------------------------------------------
(* Each action keeps the logs as said.                                        *)

(* A step that writes nothing and leaves t with nothing to write               *)
LEMMA AwayKeeps ==
  ASSUME Inv, LogInv, NEW t \in Threads, Keeps(t), Alone(t), out' = out,
         NEW where \in Locations \ {"bridge", "wait", "write"}, pc' = [pc EXCEPT ![t] = where],
         pc[t] = "write" => where = "idle" /\ UNCHANGED <<loggers, state, call>>
  PROVE  LogInv'
<1>1. pc'[t] = where
  BY DEF Inv, TypeOK
<1>2. pc[t] = "write" => pc'[t] = "idle" /\ SinkOf(t)' = SinkOf(t)
  BY <1>1 DEF SinkOf
<1>3. WriterInv(t)'
  BY <1>1 DEF WriterInv
<1> QED BY <1>2, <1>3, SilentKeeps

(* Calls, the registry, messages that are discarded, and returns               *)
LEMMA AwayActions ==
  ASSUME Inv, LogInv, NEW t \in Threads, Keeps(t), Alone(t),
         Call(t) \/ Registry(t) \/ Discard(t) \/ UnlockWrite(t)
  PROVE  LogInv'
<1>1. CASE Call(t)
  <2>1. PICK where \in {"payload", "registry"} : pc' = [pc EXCEPT ![t] = where]
    BY <1>1 DEF Call, Goto
  <2> QED BY <1>1, <2>1, AwayKeeps DEF Call, Locations
<1>2. CASE Registry(t)
  <2>1. PICK where \in {"entered", "create", "enabled", "level", "idle"} :
          pc' = [pc EXCEPT ![t] = where]
    BY <1>2 DEF Registry, FindLogger, MissLogger, CreateLogger, ReadEnabled, ReadLevel,
                ReturnLogger, Return, Goto
  <2>2. out' = out /\ pc[t] # "write"
    BY <1>2 DEF Registry, FindLogger, MissLogger, CreateLogger, ReadEnabled, ReadLevel,
                ReturnLogger
  <2> QED BY <2>1, <2>2, AwayKeeps DEF Locations
<1>3. CASE Discard(t)
  <2>1. pc' = [pc EXCEPT ![t] = "idle"] /\ out' = out /\ pc[t] # "write"
    BY <1>3 DEF Discard, Return, Goto
  <2> QED BY <2>1, AwayKeeps DEF Locations
<1>4. CASE UnlockWrite(t)
  <2>1. pc' = [pc EXCEPT ![t] = "idle"] /\ out' = out /\ UNCHANGED <<loggers, state, call>>
    BY <1>4 DEF UnlockWrite, Return, Goto, threadVars
  <2> QED BY <2>1, AwayKeeps DEF Locations
<1> QED BY <1>1, <1>2, <1>3, <1>4

(* An accepted message has all its lines to write.                              *)
LEMMA AcceptLog ==
  ASSUME Inv, LogInv, NEW t \in Threads, Keeps(t), Alone(t), Accept(t)
  PROVE  LogInv'
<1>1. /\ pc[t] = "entered" /\ out' = out /\ call' = call
      /\ todo' = [todo EXCEPT ![t] = LinesOf(call[t])]
      /\ \E where \in {"bridge", "wait"} : pc' = [pc EXCEPT ![t] = where]
  BY DEF Accept, Goto
<1>2. todo'[t] = LinesOf(call'[t]) /\ pc'[t] # "write"
  BY <1>1 DEF Inv, TypeOK
<1>3. WriterInv(t)'
  BY <1>2 DEF WriterInv
<1> QED BY <1>1, <1>3, SilentKeeps

(* The owner of the mutex has written none of them yet.                         *)
LEMMA LockWriteLog ==
  ASSUME Inv, LogInv, NEW t \in Threads, Keeps(t), Alone(t), LockWrite(t)
  PROVE  LogInv' /\ Progress(t, 0)'
<1>1. /\ pc[t] = "wait" /\ out' = out /\ UNCHANGED <<call, calls, todo>>
      /\ pc' = [pc EXCEPT ![t] = "write"]
  BY DEF LockWrite, Goto, threadVars
<1>2. pc'[t] = "write" /\ todo[t] = LinesOf(call[t])
  BY <1>1 DEF Inv, TypeOK, LogInv, WriterInv
<1> DEFINE lines == Sorted(LinesOf(call[t]))
<1>3. /\ LinesOf(call[t]) = {lines[i] : i \in 1..Len(lines)} /\ Len(lines) \in Nat
      /\ Len(lines) = Cardinality(LinesOf(call[t]))
  BY LinesSorted
<1>4. lines' = lines
  BY <1>1
<1>5. PICK sink \in Sinks : sink = SinkOf(t)'
  <2>1. call[t].id \in Ids
    BY DEF Inv, TypeOK, Request
  <2> QED BY <1>1, <2>1 DEF SinkOf, Sinks
<1>6. Len(out[sink]) \in Nat /\ \A i \in 1..Len(out[sink]) : ~Mine(t, out[sink][i])
  <2>1. out[sink] \in Seq(Pieces)
    BY DEF Inv, TypeOK
  <2>2. \A i \in 1..Len(out[sink]) : PieceInv(sink, out[sink][i])
    BY DEF LogInv
  <2> QED BY <1>1, <2>1, <2>2 DEF PieceInv, Mine
<1>7. Progress(t, 0)'
  <2>1. todo'[t] = {lines'[i] : i \in (0 + 1)..Len(lines')}
    BY <1>1, <1>2, <1>3, <1>4
  <2>2. ASSUME NEW i \in 1..Len(out[sink]) PROVE ~Mine(t, out[sink][i])'
    BY <1>1, <1>6 DEF Mine
  <2> HIDE DEF lines
  <2>3. Len(out[sink]) - 0 = Len(out[sink]) /\ out'[sink] = out[sink]
    BY <1>1, <1>6
  <2> QED BY <1>5, <1>6, <2>1, <2>2, <2>3 DEF Progress, lines
<1>8. WriterInv(t)'
  BY <1>1, <1>2, <1>3, <1>7 DEF WriterInv
<1> QED BY <1>1, <1>7, <1>8, SilentKeeps

(* What a call hands to ngen, or has written in the end, are pieces of its own.   *)
LEMMA WholeText ==
  ASSUME Inv, NEW t \in Threads, pc[t] # "idle"
  PROVE  LET lines == Sorted(LinesOf(call[t]))
             text  == Whole(t, LinesOf(call[t]))
         IN /\ text \in Seq(Pieces) /\ Len(text) = Len(lines)
            /\ \A i \in 1..Len(lines) : text[i] = Piece(t, lines[i]) /\ Mine(t, text[i])
<1> DEFINE lines == Sorted(LinesOf(call[t]))
<1>1. lines \in Seq(Nat) /\ Len(lines) \in Nat
  BY LinesSorted
<1> HIDE DEF lines
<1>2. \A i \in 1..Len(lines) : Piece(t, lines[i]) \in Pieces /\ Mine(t, Piece(t, lines[i]))
  <2> TAKE i \in 1..Len(lines)
  <2>1. Piece(t, lines[i]) \in Pieces
    BY <1>1, PieceType
  <2> QED BY <2>1 DEF Piece, Mine
<1>3. Whole(t, LinesOf(call[t])) = [i \in 1..Len(lines) |-> Piece(t, lines[i])]
  BY <1>1 DEF Whole, lines
<1> DEFINE text == [i \in 1..Len(lines) |-> Piece(t, lines[i])]
<1>4. /\ text \in Seq(Pieces) /\ Len(text) = Len(lines)
      /\ \A i \in 1..Len(lines) : text[i] = Piece(t, lines[i]) /\ Mine(t, text[i])
  BY <1>1, <1>2
<1> HIDE DEF text
<1>5. Whole(t, LinesOf(call[t])) = text
  BY <1>3 DEF text
<1> QED BY <1>4, <1>5 DEF lines

(* A call that is handed to ngen and returns                                   *)
LEMMA HandOver ==
  ASSUME Inv, LogInv, NEW t \in Threads, Keeps(t), Alone(t),
         pc[t] \in {"bridge", "payload"}, pc' = [pc EXCEPT ![t] = "idle"], calls' = calls,
         NEW text \in Seq(Pieces), \A i \in 1..Len(text) : Mine(t, text[i]),
         out' = [out EXCEPT !["ngen"] = @ \o text]
  PROVE  LogInv'
<1>1. pc'[t] = "idle" /\ out \in [Sinks -> Seq(Pieces)] /\ "ngen" \in Sinks
      /\ calls[t] \in Nat
  BY DEF Inv, TypeOK, Sinks
<1>2. \A log \in Sinks \ {"ngen"} : out'[log] = out[log]
  BY <1>1
<1>3. ASSUME NEW u \in Threads PROVE WriterInv(u)'
  <2>1. CASE u = t
    BY <1>1, <2>1 DEF WriterInv
  <2>2. CASE u # t
    BY <1>2, <2>2, OtherWriters
  <2> QED BY <2>1, <2>2
<1>4. ASSUME NEW log \in Sinks, NEW p \in Pieces, PieceInv(log, p) PROVE PieceInv(log, p)'
  BY <1>4, OldPieces
<1>5. ASSUME NEW p \in Pieces, NEW log \in Sinks, Mine(t, p) PROVE PieceInv(log, p)'
  BY <1>1, <1>5 DEF PieceInv, Mine
<1>6. ASSUME NEW log \in Sinks, NEW i \in 1..Len(out'[log])
      PROVE  \E p \in Pieces : p = out'[log][i] /\ (PieceInv(log, p) \/ Mine(t, p))
  <2>1. \A j \in 1..Len(out[log]) : out[log][j] \in Pieces /\ PieceInv(log, out[log][j])
    BY <1>1 DEF LogInv
  <2>2. CASE log # "ngen"
    BY <1>2, <2>1, <2>2
  <2>3. CASE log = "ngen"
    <3>1. out'[log] = out[log] \o text
      BY <1>1, <2>3
    <3>2. CASE i \in 1..Len(out[log])
      <4>1. out'[log][i] = out[log][i]
        BY <1>1, <3>1, <3>2
      <4> QED BY <2>1, <3>2, <4>1
    <3>3. CASE i \notin 1..Len(out[log])
      <4>1. i - Len(out[log]) \in 1..Len(text) /\ out'[log][i] = text[i - Len(out[log])]
        BY <1>1, <3>1, <3>3
      <4>2. text[i - Len(out[log])] \in Pieces
        BY <4>1
      <4> QED BY <4>1, <4>2
    <3> QED BY <3>2, <3>3
  <2> QED BY <2>2, <2>3
<1>7. ASSUME NEW log \in Sinks, NEW i \in 1..Len(out'[log])
      PROVE  PieceInv(log, out[log][i])'
  <2>1. PICK p \in Pieces : p = out'[log][i] /\ (PieceInv(log, p) \/ Mine(t, p))
    BY <1>6
  <2>2. PieceInv(log, p)'
    BY <1>4, <1>5, <2>1
  <2> QED BY <2>1, <2>2 DEF PieceInv
<1> QED BY <1>3, <1>7 DEF LogInv

(* What the bridge is given                                                     *)
LEMMA CallBridgeText ==
  ASSUME Inv, LogInv, NEW t \in Threads, CallBridge(t)
  PROVE  /\ out' = [out EXCEPT !["ngen"] = @ \o Whole(t, LinesOf(call[t]))]
         /\ Whole(t, LinesOf(call[t])) \in Seq(Pieces)
         /\ \A i \in 1..Len(Whole(t, LinesOf(call[t]))) : Mine(t, Whole(t, LinesOf(call[t]))[i])
<1>1. pc[t] = "bridge" /\ out' = [out EXCEPT !["ngen"] = @ \o Whole(t, todo[t])]
  BY DEF CallBridge
<1>2. todo[t] = LinesOf(call[t])
  BY <1>1 DEF LogInv, WriterInv
<1> QED BY <1>1, <1>2, WholeText

(* The log of ngen may grow while another thread writes.                        *)
LEMMA CallBridgeLog ==
  ASSUME Inv, LogInv, NEW t \in Threads, Keeps(t), Alone(t), CallBridge(t)
  PROVE  LogInv'
<1>1. pc[t] \in {"bridge", "payload"} /\ pc' = [pc EXCEPT ![t] = "idle"] /\ calls' = calls
  BY DEF CallBridge, Return, Goto, threadVars
<1> QED BY <1>1, CallBridgeText, HandOver

(* The payload is a message of one line.                                       *)
LEMMA PayloadText ==
  ASSUME Inv, NEW t \in Threads, pc[t] = "payload"
  PROVE  /\ <<Piece(t, 0)>> \in Seq(Pieces) /\ Mine(t, <<Piece(t, 0)>>[1])
         /\ Append(out["ngen"], Piece(t, 0)) = out["ngen"] \o <<Piece(t, 0)>>
<1>1. Piece(t, 0) \in Pieces /\ out["ngen"] \in Seq(Pieces)
  BY PieceType DEF Inv, TypeOK, Sinks
<1>2. Mine(t, Piece(t, 0))
  BY DEF Mine, Piece
<1> QED BY <1>1, <1>2

(* So does a payload, or it leaves everything as it is.                         *)
LEMMA SendPayloadLog ==
  ASSUME Inv, LogInv, NEW t \in Threads, Keeps(t), Alone(t), SendPayload(t)
  PROVE  LogInv'
<1>1. pc[t] = "payload" /\ pc' = [pc EXCEPT ![t] = "idle"] /\ calls' = calls
      /\ (out' = out \/ out' = [out EXCEPT !["ngen"] = Append(@, Piece(t, 0))])
  BY DEF SendPayload, Return, Goto, threadVars
<1>2. CASE out' = out
  BY <1>1, <1>2, AwayKeeps DEF Locations
<1>3. CASE out' = [out EXCEPT !["ngen"] = Append(@, Piece(t, 0))]
  <2>1. out' = [out EXCEPT !["ngen"] = @ \o <<Piece(t, 0)>>]
    BY <1>1, <1>3, PayloadText
  <2>2. /\ <<Piece(t, 0)>> \in Seq(Pieces)
        /\ \A i \in 1..Len(<<Piece(t, 0)>>) : Mine(t, <<Piece(t, 0)>>[i])
    <3>1. \A i \in 1..Len(<<Piece(t, 0)>>) : i = 1
      OBVIOUS
    <3> QED BY <1>1, <3>1, PayloadText
  <2> QED BY <1>1, <2>1, <2>2, HandOver
<1> QED BY <1>1, <1>2, <1>3

(* The next line of a message goes to the end of its log.                       *)
LEMMA WriteLineStep ==
  ASSUME Inv, LogInv, NEW t \in Threads, WriteLine(t),
         NEW k \in 0..Cardinality(LinesOf(call[t])), Progress(t, k)
  PROVE  LET lines == Sorted(LinesOf(call[t])) IN
         /\ k + 1 \in 1..Len(lines) /\ Piece(t, lines[k + 1]) \in Pieces
         /\ out' = [out EXCEPT ![SinkOf(t)] = Append(@, Piece(t, lines[k + 1]))]
         /\ out'[SinkOf(t)] = Append(out[SinkOf(t)], Piece(t, lines[k + 1]))
         /\ \A log \in Sinks \ {SinkOf(t)} : out'[log] = out[log]
         /\ SinkOf(t)' = SinkOf(t)
         /\ Progress(t, k + 1)'
<1> DEFINE lines == Sorted(LinesOf(call[t]))
           sink  == SinkOf(t)
<1>1. /\ lines \in Seq(Nat) /\ Len(lines) \in Nat /\ k \in 0..Len(lines)
      /\ \A i, j \in 1..Len(lines) : i < j => lines[i] < lines[j]
  BY LinesSorted
<1>2. /\ pc[t] = "write" /\ UNCHANGED <<loggers, call, calls, state, pc>>
  BY DEF WriteLine
<1>3. PICK line \in todo[t] :
        /\ \A other \in todo[t] : line <= other
        /\ out' = [out EXCEPT ![sink] = Append(@, Piece(t, line))]
        /\ todo' = [todo EXCEPT ![t] = @ \ {line}]
  BY DEF WriteLine
<1>4. /\ Len(out[sink]) - k \in Nat
      /\ todo[t] = {lines[i] : i \in (k + 1)..Len(lines)}
      /\ \A i \in 1..k : out[sink][(Len(out[sink]) - k) + i] = Piece(t, lines[i])
      /\ \A i \in 1..(Len(out[sink]) - k) : ~Mine(t, out[sink][i])
  BY DEF Progress
<1>5. sink \in Sinks /\ out[sink] \in Seq(Pieces) /\ out \in [Sinks -> Seq(Pieces)]
      /\ Len(out[sink]) \in Nat /\ todo \in [Threads -> SUBSET Nat]
  BY SinkType DEF Inv, TypeOK
<1>6. lines' = lines /\ SinkOf(t)' = SinkOf(t)
  BY <1>2 DEF SinkOf
<1> HIDE DEF lines, sink
<1>7. k + 1 \in 1..Len(lines) /\ line = lines[k + 1]
  <2>1. PICK j \in (k + 1)..Len(lines) : line = lines[j]
    BY <1>4
  <2>2. k + 1 \in 1..Len(lines) /\ j \in 1..Len(lines)
    BY <1>1, <2>1
  <2>3. lines[k + 1] \in todo[t]
    BY <1>4, <2>2
  <2>4. line <= lines[k + 1]
    BY <1>3, <2>3
  <2>5. ~(k + 1 < j)
    BY <1>1, <2>1, <2>2, <2>4
  <2> QED BY <1>1, <2>1, <2>2, <2>5
<1>8. Piece(t, lines[k + 1]) \in Pieces
  <2>1. lines[k + 1] \in Nat
    BY <1>1, <1>7
  <2> QED BY <1>2, <2>1, PieceType
<1>9. /\ out' = [out EXCEPT ![sink] = Append(@, Piece(t, lines[k + 1]))]
      /\ out'[sink] = Append(out[sink], Piece(t, lines[k + 1]))
      /\ \A log \in Sinks \ {sink} : out'[log] = out[log]
  BY <1>3, <1>5, <1>7
<1>10. todo'[t] = {lines[i] : i \in ((k + 1) + 1)..Len(lines)}
  <2>1. todo'[t] = todo[t] \ {lines[k + 1]}
    BY <1>3, <1>5, <1>7
  <2>2. ASSUME NEW i \in (k + 1)..Len(lines), i # k + 1 PROVE lines[i] # lines[k + 1]
    <3>1. i \in 1..Len(lines) /\ k + 1 < i
      BY <1>1, <2>2
    <3>2. lines[k + 1] < lines[i] /\ lines[i] \in Nat /\ lines[k + 1] \in Nat
      BY <1>1, <1>7, <3>1
    <3> QED BY <3>2
  <2>3. \A i \in (k + 1)..Len(lines) : i # k + 1 <=> i \in ((k + 1) + 1)..Len(lines)
    BY <1>1
  <2>4. \A i \in ((k + 1) + 1)..Len(lines) : i \in (k + 1)..Len(lines)
    BY <1>1
  <2> QED BY <1>4, <2>1, <2>2, <2>3, <2>4
<1>11. Progress(t, k + 1)'
  <2> DEFINE start == Len(out[sink]) - k
  <2>1. Len(out'[sink]) = Len(out[sink]) + 1 /\ Len(out'[sink]) - (k + 1) = start /\ start \in Nat
    BY <1>1, <1>4, <1>5, <1>8, <1>9
  <2>2. \A i \in 1..Len(out[sink]) : out'[sink][i] = out[sink][i]
    BY <1>5, <1>8, <1>9
  <2>3. out'[sink][Len(out[sink]) + 1] = Piece(t, lines[k + 1])
    BY <1>5, <1>8, <1>9
  <2>4. ASSUME NEW i \in 1..(k + 1) PROVE out'[sink][start + i] = Piece(t, lines[i])
    <3>1. CASE i = k + 1
      BY <1>1, <1>5, <2>3, <3>1
    <3>2. CASE i # k + 1
      <4>1. i \in 1..k /\ start + i \in 1..Len(out[sink])
        BY <1>1, <1>5, <2>1, <3>2
      <4> QED BY <1>4, <2>2, <4>1
    <3> QED BY <3>1, <3>2
  <2>5. ASSUME NEW i \in 1..start PROVE out'[sink][i].by # t \/ out'[sink][i].n # calls[t]
    <3>1. i \in 1..Len(out[sink])
      BY <1>1, <1>5, <2>1
    <3> QED BY <1>4, <2>2, <3>1 DEF Mine
  <2>7. \A i \in 1..(k + 1) : Piece(t, lines[i])' = Piece(t, lines[i])
    BY <1>2, <1>6 DEF Piece
  <2>8. sink' = sink
    BY <1>6 DEF sink
  <2> HIDE DEF start
  <2> QED BY <1>2, <1>6, <1>10, <2>1, <2>4, <2>5, <2>7, <2>8 DEF Progress, Mine, lines, sink
<1> QED BY <1>6, <1>7, <1>8, <1>9, <1>11 DEF lines, sink

(* A line more is written.                                                      *)
LEMMA WriteLineLog ==
  ASSUME Inv, LogInv, NEW t \in Threads, Keeps(t), Alone(t), WriteLine(t)
  PROVE  LogInv'
<1>1. /\ pc[t] = "write" /\ UNCHANGED <<loggers, call, calls, state, pc>>
  BY DEF WriteLine
<1>2. PICK k \in 0..Cardinality(LinesOf(call[t])) : Progress(t, k)
  BY <1>1 DEF LogInv, WriterInv
<1> DEFINE lines == Sorted(LinesOf(call[t]))
           new   == Piece(t, lines[k + 1])
<1>3. /\ k + 1 \in 1..Len(lines) /\ new \in Pieces
      /\ out'[SinkOf(t)] = Append(out[SinkOf(t)], new)
      /\ \A log \in Sinks \ {SinkOf(t)} : out'[log] = out[log]
      /\ SinkOf(t)' = SinkOf(t)
      /\ Progress(t, k + 1)'
  BY <1>2, WriteLineStep
<1>4. WriterInv(t)'
  <2>1. k + 1 \in 0..Cardinality(LinesOf(call'[t]))
    BY <1>1, <1>3, LinesSorted
  <2> QED BY <1>1, <1>3, <2>1 DEF WriterInv
<1>5. \A u \in Threads : WriterInv(u)'
  BY <1>1, <1>4, OtherWriters
<1>6. new.by = t /\ new.n = calls[t]
  BY DEF Piece
<1> HIDE DEF new
<1>7. ASSUME NEW log \in Sinks, NEW i \in 1..Len(out'[log]) PROVE PieceInv(log, out[log][i])'
  <2>1. out[log] \in Seq(Pieces) /\ Len(out[log]) \in Nat /\ calls[t] \in Nat
    BY DEF Inv, TypeOK
  <2>2. CASE i \in 1..Len(out[log])
    <3>1. out'[log][i] = out[log][i] /\ out[log][i] \in Pieces
      BY <1>3, <2>1, <2>2
    <3>2. PICK p \in Pieces : p = out[log][i]
      BY <3>1
    <3>3. PieceInv(log, p)
      BY <2>2, <3>2 DEF LogInv
    <3>4. PieceInv(log, p)'
      BY <1>1, <1>3, <3>3, OldPieces
    <3> QED BY <3>1, <3>2, <3>4 DEF PieceInv
  <2>3. CASE i \notin 1..Len(out[log])
    <3>1. log = SinkOf(t)
      BY <1>3, <2>3
    <3>2. out'[log][i] = new
      BY <1>3, <2>1, <2>3, <3>1
    <3> QED BY <1>1, <1>3, <1>6, <2>1, <3>1, <3>2 DEF PieceInv
  <2> QED BY <2>2, <2>3
<1> QED BY <1>5, <1>7 DEF LogInv

(* The logs start empty.                                                        *)
LEMMA InitLog == Init => LogInv
<1> SUFFICES ASSUME Init PROVE LogInv
  OBVIOUS
<1>1. pc = [t \in Threads |-> "idle"] /\ out = [s \in Sinks |-> <<>>]
  BY DEF Init
<1>2. \A log \in Sinks : Len(out[log]) = 0
  BY <1>1
<1> QED BY <1>1, <1>2 DEF LogInv, WriterInv

(* Every step keeps what is said of the logs.                                   *)
LEMMA LogStep == Inv /\ LogInv /\ [Next]_vars => LogInv'
<1> SUFFICES ASSUME Inv, LogInv, [Next]_vars PROVE LogInv'
  OBVIOUS
<1>1. ASSUME UNCHANGED <<loggers, pc, call, calls, state, todo, out>> PROVE LogInv'
  <2>1. ASSUME NEW u \in Threads
        PROVE  SinkOf(u)' = SinkOf(u) /\ LinesOf(call'[u]) = LinesOf(call[u])
    BY <1>1 DEF SinkOf
  <2>2. ASSUME NEW log \in Sinks, NEW i \in 1..Len(out[log]) PROVE PieceInv(log, out[log][i])'
    <3>1. out[log][i] \in Pieces /\ PieceInv(log, out[log][i])
      BY DEF Inv, TypeOK, LogInv
    <3> QED BY <1>1, <2>1, <3>1 DEF PieceInv, Pieces
  <2>3. ASSUME NEW u \in Threads PROVE WriterInv(u)'
    <3>1. ASSUME NEW k \in 0..Cardinality(LinesOf(call[u])), Progress(u, k) PROVE Progress(u, k)'
      BY <1>1, <2>1, <3>1 DEF Progress, Mine, Piece
    <3>2. WriterInv(u)
      BY DEF LogInv
    <3> QED BY <1>1, <2>1, <3>1, <3>2 DEF WriterInv
  <2> QED BY <1>1, <2>2, <2>3 DEF LogInv
<1>2. CASE UNCHANGED vars
  BY <1>1, <1>2 DEF vars, threadVars
<1>3. CASE NgenInitialises \/ Finished
  BY <1>1, <1>3 DEF NgenInitialises, Finished, vars, threadVars
<1>4. ASSUME NEW t \in Threads, Call(t) \/ Work(t) PROVE LogInv'
  BY <1>4, ThreadKeeps, AwayActions, AcceptLog, CallBridgeLog, SendPayloadLog, LockWriteLog,
     WriteLineLog DEF Work, Output
<1> QED BY <1>2, <1>3, <1>4 DEF Next
-----------------------------------------------------------------------------
(* What a log shows                                                          *)

(* Shown is determined by where the unfinished message at the end begins.       *)
LEMMA ShownIs ==
  ASSUME Inv, NEW log \in Sinks, NEW n \in 0..Len(out[log]),
         n = 0 \/ ~Unfinished(out[log][n]),
         \A i \in (n + 1)..Len(out[log]) : Unfinished(out[log][i])
  PROVE  Shown(log) = n
<1>1. out[log] \in Seq(Pieces) /\ Len(out[log]) \in Nat /\ DOMAIN out[log] = 1..Len(out[log])
  BY DEF Inv, TypeOK
<1> DEFINE finished == {i \in DOMAIN out[log] : ~Unfinished(out[log][i])}
<1>2. n \in finished \cup {0} /\ \A i \in finished : i <= n
  BY <1>1
<1>3. \A m \in finished \cup {0} : (\A i \in finished : i <= m) => m = n
  <2>1. finished \subseteq Nat
    BY <1>1
  <2> HIDE DEF finished
  <2> QED BY <1>1, <1>2, <2>1
<1>4. Shown(log) = CHOOSE m \in finished \cup {0} : \A i \in finished : i <= m
  BY DEF Shown
<1> HIDE DEF finished
<1> QED BY <1>2, <1>3, <1>4

(* An unfinished piece belongs to the one thread that writes to its log.         *)
LEMMA UnfinishedPiece ==
  ASSUME Inv, LogInv, NEW log \in Sinks, NEW i \in 1..Len(out[log]), Unfinished(out[log][i])
  PROVE  LET u == out[log][i].by IN
         /\ u \in Threads /\ pc[u] = "write" /\ todo[u] # {} /\ log = SinkOf(u)
         /\ Mine(u, out[log][i])
<1>1. out[log][i] \in Pieces /\ PieceInv(log, out[log][i])
  BY DEF Inv, TypeOK, LogInv
<1> QED BY <1>1 DEF Unfinished, Pieces, PieceInv, Mine

(* A log shows everything when nobody is in the middle of a message to it.         *)
LEMMA ShowsAll ==
  ASSUME Inv, LogInv, NEW log \in Sinks,
         \A u \in Threads : ~(pc[u] = "write" /\ todo[u] # {} /\ log = SinkOf(u))
  PROVE  Shown(log) = Len(out[log])
<1>1. Len(out[log]) \in Nat
  BY DEF Inv, TypeOK
<1>2. \A i \in 1..Len(out[log]) : ~Unfinished(out[log][i])
  BY UnfinishedPiece
<1> QED BY <1>1, <1>2, ShownIs

(* It hides the lines of the message that is being written to it.                *)
LEMMA HidesRest ==
  ASSUME Inv, LogInv, NEW t \in Threads, pc[t] = "write", todo[t] # {},
         NEW k \in 0..Cardinality(LinesOf(call[t])), Progress(t, k)
  PROVE  Shown(SinkOf(t)) = Len(out[SinkOf(t)]) - k
<1> DEFINE sink  == SinkOf(t)
           lines == Sorted(LinesOf(call[t]))
           start == Len(out[sink]) - k
<1>1. sink \in Sinks /\ Len(out[sink]) \in Nat /\ k \in Nat /\ start \in Nat
      /\ start \in 0..Len(out[sink])
  BY SinkType, LinesSorted DEF Progress
<1>2. /\ \A i \in 1..k : out[sink][start + i] = Piece(t, lines[i])
      /\ \A i \in 1..start : ~Mine(t, out[sink][i])
  BY DEF Progress
<1> HIDE DEF sink, lines
<1>3. start = 0 \/ ~Unfinished(out[sink][start])
  <2> SUFFICES ASSUME start # 0, Unfinished(out[sink][start]) PROVE FALSE
    OBVIOUS
  <2>1. start \in 1..start /\ start \in 1..Len(out[sink])
    BY <1>1
  <2> DEFINE u == out[sink][start].by
  <2>2. u \in Threads /\ pc[u] = "write" /\ Mine(u, out[sink][start])
    BY <1>1, <2>1, UnfinishedPiece
  <2>3. u = t
    BY <2>2 DEF Inv, TypeOK
  <2> QED BY <1>2, <2>1, <2>2, <2>3
<1>4. ASSUME NEW i \in (start + 1)..Len(out[sink]) PROVE Unfinished(out[sink][i])
  <2>1. i - start \in 1..k /\ start + (i - start) = i
    <3> DEFINE n == Len(out[sink])
    <3>1. n \in Nat /\ k \in Nat /\ n - k \in Nat
      BY <1>1
    <3> HIDE DEF n
    <3>2. i \in ((n - k) + 1)..n
      BY DEF n
    <3>3. i - (n - k) \in 1..k /\ (n - k) + (i - (n - k)) = i
      BY <3>1, <3>2
    <3> QED BY <3>3 DEF n
  <2>2. out[sink][i] = Piece(t, lines[i - start])
    BY <1>2, <2>1
  <2> QED BY <2>2 DEF Unfinished, Piece
<1> HIDE DEF start
<1>5. Shown(sink) = start
  BY <1>1, <1>3, <1>4, ShownIs
<1> QED BY <1>5 DEF sink, start

(* A piece of the log, as the log shows it                                     *)
Strip(p) == [by |-> p.by, n |-> p.n, line |-> p.line]

(* The pieces of a log, what is shown of them, and how                          *)
LEMMA VisibleType ==
  ASSUME Inv, LogInv, NEW log \in Sinks
  PROVE  /\ Shown(log) \in 0..Len(out[log]) /\ Len(out[log]) \in Nat
         /\ Visible(log) = [i \in 1..Shown(log) |-> Strip(out[log][i])]
<1>0. Len(out[log]) \in Nat
  BY DEF Inv, TypeOK
<1>1. Shown(log) \in 0..Len(out[log])
  <2>1. CASE \A u \in Threads : ~(pc[u] = "write" /\ todo[u] # {} /\ log = SinkOf(u))
    BY <1>0, <2>1, ShowsAll
  <2>2. ASSUME NEW u \in Threads, pc[u] = "write", todo[u] # {}, log = SinkOf(u)
        PROVE  Shown(log) \in 0..Len(out[log])
    <3>1. PICK k \in 0..Cardinality(LinesOf(call[u])) : Progress(u, k)
      BY <2>2 DEF LogInv, WriterInv
    <3>2. Shown(log) = Len(out[log]) - k
      BY <2>2, <3>1, HidesRest
    <3>3. Len(out[log]) - k \in Nat /\ k \in Nat
      BY <2>2, <3>1, LinesSorted DEF Progress
    <3> QED BY <1>0, <3>2, <3>3
  <2> QED BY <2>1, <2>2
<1> QED BY <1>0, <1>1 DEF Visible, Strip

(* A message that is written has taken effect exactly when its last line is out.  *)
Settled(t) == pc[t] = "write" /\ todo[t] = {}

(* A call is recorded in MessageLog as soon as it has written its last line.    *)
RecordedIsSettled == \A t \in Threads : (pc[t] # "idle" /\ TookEffect(t)) <=> Settled(t)

(* This is so because no piece of a call is in a log before it writes.          *)
LEMMA RecordedSettled == Inv /\ LogInv => RecordedIsSettled
<1> SUFFICES ASSUME Inv, LogInv, NEW t \in Threads
             PROVE  (pc[t] # "idle" /\ TookEffect(t)) <=> Settled(t)
  BY DEF RecordedIsSettled
<1>1. ASSUME pc[t] # "idle", TookEffect(t) PROVE Settled(t)
  <2>1. PICK log \in Sinks : \E i \in DOMAIN Visible(log) :
          Visible(log)[i].by = t /\ Visible(log)[i].n = calls[t]
    BY <1>1 DEF TookEffect
  <2>2. /\ Shown(log) \in 0..Len(out[log]) /\ Len(out[log]) \in Nat
        /\ Visible(log) = [i \in 1..Shown(log) |-> Strip(out[log][i])]
    BY VisibleType
  <2>3. PICK i \in 1..Shown(log) : Mine(t, out[log][i])
    BY <2>1, <2>2 DEF Mine, Strip
  <2>4. i \in 1..Len(out[log])
    BY <2>2
  <2>5. PieceInv(log, out[log][i])
    BY <2>4 DEF LogInv
  <2>6. pc[t] = "write" /\ log = SinkOf(t)
    BY <1>1, <2>3, <2>5 DEF PieceInv, Mine
  <2>7. ASSUME todo[t] # {} PROVE FALSE
    <3>1. PICK k \in 0..Cardinality(LinesOf(call[t])) : Progress(t, k)
      BY <2>6 DEF LogInv, WriterInv
    <3>2. Shown(log) = Len(out[log]) - k
      BY <2>6, <2>7, <3>1, HidesRest
    <3> QED BY <2>3, <2>6, <3>1, <3>2 DEF Progress
  <2> QED BY <2>6, <2>7 DEF Settled
<1>2. ASSUME Settled(t) PROVE pc[t] # "idle" /\ TookEffect(t)
  <2> DEFINE sink  == SinkOf(t)
             lines == Sorted(LinesOf(call[t]))
  <2>1. pc[t] = "write" /\ todo[t] = {}
    BY <1>2 DEF Settled
  <2>2. PICK k \in 0..Cardinality(LinesOf(call[t])) : Progress(t, k)
    BY <2>1 DEF LogInv, WriterInv
  <2>3. sink \in Sinks /\ Len(out[sink]) \in Nat /\ Len(lines) \in Nat /\ Len(lines) # 0
        /\ k \in 0..Len(lines)
    BY SinkType, LinesSorted
  <2>4. /\ Len(out[sink]) - k \in Nat
        /\ todo[t] = {lines[i] : i \in (k + 1)..Len(lines)}
        /\ \A i \in 1..k : out[sink][(Len(out[sink]) - k) + i] = Piece(t, lines[i])
    BY <2>2 DEF Progress
  <2> HIDE DEF sink, lines
  <2>5. k = Len(lines)
    <3> SUFFICES ASSUME k # Len(lines) PROVE FALSE
      OBVIOUS
    <3>1. k + 1 \in (k + 1)..Len(lines)
      BY <2>3
    <3>2. lines[k + 1] \in todo[t]
      BY <2>4, <3>1
    <3> QED BY <2>1, <3>2
  <2>6. Shown(sink) = Len(out[sink])
    <3>1. \A u \in Threads : pc[u] = "write" => u = t
      BY <2>1 DEF Inv, TypeOK
    <3> QED BY <2>1, <2>3, <3>1, ShowsAll
  <2> DEFINE last == Len(out[sink])
  <2>7. last \in 1..last /\ out[sink][last] = Piece(t, lines[k])
    <3>1. k \in 1..k /\ (Len(out[sink]) - k) + k = last /\ last # 0
      BY <2>3, <2>4, <2>5
    <3> QED BY <2>3, <2>4, <3>1
  <2>8. Visible(sink) = [i \in 1..last |-> Strip(out[sink][i])]
    BY <2>3, <2>6, VisibleType
  <2>9. last \in DOMAIN Visible(sink) /\ Visible(sink)[last].by = t
        /\ Visible(sink)[last].n = calls[t]
    BY <2>7, <2>8 DEF Strip, Piece
  <2> QED BY <2>1, <2>3, <2>9 DEF TookEffect
<1> QED BY <1>1, <1>2

(* The same after a step                                                        *)
LEMMA RecordedSettledNext == (Inv /\ LogInv)' => RecordedIsSettled'
BY RecordedSettled, PTL
-----------------------------------------------------------------------------
(* The refinement                                                            *)

(* The variables of MessageLog, as the C runtime implements them                *)
Current  == [t \in Threads |-> IF pc[t] = "idle" THEN {-1} ELSE LinesOf(call[t])]
Recorded == [t \in Threads |-> pc[t] # "idle" /\ TookEffect(t)]
Logs     == [log \in Sinks |-> Visible(log)]

(* What a step of t has to do with them                                        *)
LEMMA OnlyOwn ==
  ASSUME Inv, LogInv, Inv', LogInv', NEW t \in Threads, Keeps(t), Alone(t)
  PROVE  /\ \A u \in Threads : Recorded[u] = Settled(u) /\ Recorded'[u] = Settled(u)'
         /\ \A u \in Threads \ {t} : Current'[u] = Current[u] /\ Recorded'[u] = Recorded[u]
<1>1. RecordedIsSettled /\ RecordedIsSettled'
  BY RecordedSettled, RecordedSettledNext
<1>2. \A u \in Threads : Recorded[u] = Settled(u) /\ Recorded'[u] = Settled(u)'
  BY <1>1 DEF RecordedIsSettled, Recorded, Settled
<1>3. ASSUME NEW u \in Threads \ {t}
      PROVE  Current'[u] = Current[u] /\ Recorded'[u] = Recorded[u]
  <2>1. pc'[u] = pc[u] /\ call'[u] = call[u] /\ todo'[u] = todo[u]
    BY DEF Alone
  <2>2. LinesOf(call'[u]) = LinesOf(call[u])
    BY <2>1
  <2>3. Settled(u)' = Settled(u)
    BY <2>1 DEF Settled
  <2> QED BY <1>2, <2>1, <2>2, <2>3 DEF Current
<1> QED BY <1>2, <1>3

(* A log to which nothing is added shows the same, unless a message to it was     *)
(* half written.                                                            *)
LEMMA VisibleSame ==
  ASSUME Inv, LogInv, NEW t \in Threads, Keeps(t), Alone(t),
         NEW log \in Sinks, out'[log] = out[log],
         pc[t] # "write" \/ todo[t] = {} \/ log # SinkOf(t),
         pc'[t] = "write" =>
           /\ calls'[t] = calls[t]
           /\ pc[t] = "wait" \/ (pc[t] = "write" /\ log # SinkOf(t))
  PROVE  Visible(log)' = Visible(log)
<1>1. out[log] \in Seq(Pieces) /\ DOMAIN out[log] = 1..Len(out[log])
  BY DEF Inv, TypeOK
<1>2. ASSUME NEW p \in Pieces, PieceInv(log, p) PROVE Unfinished(p)' <=> Unfinished(p)
  <2>1. CASE p.by # t
    BY <2>1 DEF Unfinished, Alone, Pieces
  <2>2. CASE p.by = t
    <3>1. ~Unfinished(p)
      BY <1>2, <2>2 DEF Unfinished, PieceInv
    <3>2. ~Unfinished(p)'
      BY <1>2, <2>2 DEF Unfinished, PieceInv
    <3> QED BY <3>1, <3>2
  <2> QED BY <2>1, <2>2
<1>3. ASSUME NEW i \in 1..Len(out[log])
      PROVE  Unfinished(out[log][i])' <=> Unfinished(out[log][i])
  <2>1. PICK p \in Pieces : p = out[log][i] /\ p = out'[log][i]
    BY <1>1
  <2>2. PieceInv(log, p)
    BY <2>1 DEF LogInv
  <2>3. Unfinished(p)' <=> Unfinished(p)
    BY <1>2, <2>2
  <2> QED BY <2>1, <2>3 DEF Unfinished
<1>4. {i \in DOMAIN out'[log] : ~Unfinished(out[log][i])'}
        = {i \in DOMAIN out[log] : ~Unfinished(out[log][i])}
  BY <1>1, <1>3
<1>5. Shown(log)' = Shown(log)
  BY <1>4 DEF Shown
<1> QED BY <1>5 DEF Visible

(* The steps that a caller does not see                                        *)
LEMMA QuietStep ==
  ASSUME Inv, LogInv, Inv', LogInv', NEW t \in Threads, Keeps(t), Alone(t),
         \/ FindLogger(t) \/ MissLogger(t) \/ CreateLogger(t) \/ ReadEnabled(t) \/ ReadLevel(t)
         \/ Accept(t) \/ LockWrite(t)
  PROVE  UNCHANGED <<calls, Current, Recorded, Logs>>
<1>1. UNCHANGED <<call, calls, out>>
  BY DEF FindLogger, MissLogger, CreateLogger, ReadEnabled, ReadLevel, Accept, LockWrite, threadVars
<1>2. /\ pc[t] \in {"registry", "create", "enabled", "level", "entered", "wait"}
      /\ pc'[t] \in {"create", "enabled", "level", "entered", "bridge", "wait", "write"}
      /\ pc'[t] = "write" => pc[t] = "wait" /\ todo'[t] = todo[t]
  <2>1. pc \in [Threads -> Locations]
    BY DEF Inv, TypeOK
  <2> QED BY <2>1 DEF FindLogger, MissLogger, CreateLogger, ReadEnabled, ReadLevel, Accept,
                      LockWrite, Goto, threadVars
<1>3. Current' = Current
  <2>1. Current'[t] = Current[t]
    BY <1>1, <1>2 DEF Current
  <2>2. \A u \in Threads : Current'[u] = Current[u]
    BY <2>1, OnlyOwn
  <2> QED BY <2>2 DEF Current
<1>4. Recorded' = Recorded
  <2>1. ~Settled(t)
    BY <1>2 DEF Settled
  <2>2. pc[t] = "wait" => todo[t] # {}
    BY LinesFinite DEF LogInv, WriterInv
  <2>3. ~Settled(t)'
    BY <1>2, <2>2 DEF Settled
  <2>4. \A u \in Threads : Recorded'[u] = Recorded[u]
    BY <2>1, <2>3, OnlyOwn DEF Settled
  <2> QED BY <2>4 DEF Recorded
<1>5. Logs' = Logs
  <2>1. \A log \in Sinks : Visible(log)' = Visible(log)
    BY <1>1, <1>2, VisibleSame
  <2> QED BY <2>1 DEF Logs
<1> QED BY <1>1, <1>3, <1>4, <1>5

(* A call starts.                                                             *)
LEMMA CallStep ==
  ASSUME Inv, LogInv, Inv', LogInv', NEW t \in Threads, Keeps(t), Alone(t), Call(t)
  PROVE  Abstract!Submit(t)
<1>1. PICK m \in Sends[t] :
        /\ call' = [call EXCEPT ![t] = m]
        /\ pc' = [pc EXCEPT ![t] = IF m.op = "payload" THEN "payload" ELSE "registry"]
  BY DEF Call, Goto
<1>2. pc[t] = "idle" /\ calls' = [calls EXCEPT ![t] = @ + 1] /\ out' = out
  BY DEF Call
<1>3. pc'[t] \in {"payload", "registry"} /\ call'[t] = m
  BY <1>1 DEF Inv, TypeOK
<1>4. Current[t] = {-1} /\ Current'[t] = LinesOf(m)
  BY <1>2, <1>3 DEF Current
<1>5. Current' = [Current EXCEPT ![t] = LinesOf(m)]
  <2>1. \A u \in Threads : Current'[u] = IF u = t THEN LinesOf(m) ELSE Current[u]
    BY <1>4, OnlyOwn
  <2> QED BY <2>1 DEF Current
<1>6. Recorded' = Recorded
  <2>1. ~Settled(t) /\ ~Settled(t)'
    BY <1>2, <1>3 DEF Settled
  <2>2. \A u \in Threads : Recorded'[u] = Recorded[u]
    BY <2>1, OnlyOwn DEF Settled
  <2> QED BY <2>2 DEF Recorded
<1>7. Logs' = Logs
  <2>1. \A log \in Sinks : Visible(log)' = Visible(log)
    BY <1>2, <1>3, VisibleSame
  <2> QED BY <2>1 DEF Logs
<1>8. LinesOf(m) \in SUBSET ({0} \cup (UNION {n.lines : n \in (UNION {Sends[u] : u \in Threads})}))
  BY DEF LinesOf
<1> QED BY <1>2, <1>4, <1>5, <1>6, <1>7, <1>8
     DEF Abstract!Submit, Abstract!Idle, Current, Recorded, Logs

(* A call that leaves nothing returns, and so does one that has written everything. *)
LEMMA ReturnStep ==
  ASSUME Inv, LogInv, Inv', LogInv', NEW t \in Threads, Keeps(t), Alone(t),
         ReturnLogger(t) \/ Discard(t) \/ UnlockWrite(t) \/ (SendPayload(t) /\ out' = out)
  PROVE  Abstract!Return(t)
<1>1. /\ pc[t] # "idle" /\ pc' = [pc EXCEPT ![t] = "idle"] /\ UNCHANGED <<calls, out>>
      /\ pc[t] = "write" => todo[t] = {}
  BY DEF ReturnLogger, Discard, UnlockWrite, SendPayload, Return, Goto, threadVars
<1>2. pc'[t] = "idle"
  BY <1>1 DEF Inv, TypeOK
<1>3. Current[t] # {-1} /\ Current'[t] = {-1}
  BY <1>1, <1>2, LinesFinite DEF Current
<1>4. Current' = [Current EXCEPT ![t] = {-1}]
  <2>1. \A u \in Threads : Current'[u] = IF u = t THEN {-1} ELSE Current[u]
    BY <1>3, OnlyOwn
  <2> QED BY <2>1 DEF Current
<1>5. Recorded' = [Recorded EXCEPT ![t] = FALSE]
  <2>1. Recorded'[t] = FALSE
    BY <1>2 DEF Recorded
  <2>2. \A u \in Threads : Recorded'[u] = IF u = t THEN FALSE ELSE Recorded[u]
    BY <2>1, OnlyOwn
  <2> QED BY <2>2 DEF Recorded
<1>6. Logs' = Logs
  <2>1. \A log \in Sinks : Visible(log)' = Visible(log)
    BY <1>1, <1>2, VisibleSame
  <2> QED BY <2>1 DEF Logs
<1> QED BY <1>1, <1>3, <1>4, <1>5, <1>6
     DEF Abstract!Return, Abstract!Idle, Current, Recorded, Logs

(* What the logs show, in a form that also holds in the next state              *)
ShownRight ==
  \A log \in Sinks :
    /\ out[log] \in Seq(Pieces) /\ Shown(log) \in 0..Len(out[log])
    /\ Visible(log) = [i \in 1..Shown(log) |-> Strip(out[log][i])]
    /\ (\A u \in Threads : ~(pc[u] = "write" /\ todo[u] # {} /\ log = SinkOf(u)))
         => Shown(log) = Len(out[log])
    /\ \A u \in Threads : pc[u] = "write" /\ todo[u] # {} /\ log = SinkOf(u) =>
         \A k \in 0..Cardinality(LinesOf(call[u])) :
           Progress(u, k) => Shown(log) = Len(out[log]) - k

(* What is shown of a log is all of it, or all but the message being written.   *)
LEMMA ShownIsRight == Inv /\ LogInv => ShownRight
<1> SUFFICES ASSUME Inv, LogInv, NEW log \in Sinks
             PROVE  /\ out[log] \in Seq(Pieces) /\ Shown(log) \in 0..Len(out[log])
                    /\ Visible(log) = [i \in 1..Shown(log) |-> Strip(out[log][i])]
                    /\ (\A u \in Threads : ~(pc[u] = "write" /\ todo[u] # {} /\ log = SinkOf(u)))
                         => Shown(log) = Len(out[log])
                    /\ \A u \in Threads : pc[u] = "write" /\ todo[u] # {} /\ log = SinkOf(u) =>
                         \A k \in 0..Cardinality(LinesOf(call[u])) :
                           Progress(u, k) => Shown(log) = Len(out[log]) - k
  BY DEF ShownRight
<1>1. out[log] \in Seq(Pieces)
  BY DEF Inv, TypeOK
<1> QED BY <1>1, VisibleType, ShowsAll, HidesRest

(* The same after a step                                                        *)
LEMMA ShownIsRightNext == (Inv /\ LogInv)' => ShownRight'
BY ShownIsRight, PTL

(* What MessageLog says a call appends                                        *)
LEMMA TextIs ==
  ASSUME NEW t \in Threads, pc[t] # "idle"
  PROVE  LET lines == Sorted(LinesOf(call[t])) IN
         Abstract!Text(t) = [i \in 1..Len(lines) |-> [by |-> t, n |-> calls[t], line |-> lines[i]]]
<1>1. \A S : Abstract!Sorted(S) = Sorted(S)
  BY DEF Abstract!Sorted, Sorted, Abstract!Cardinality, Cardinality
<1>2. Current[t] = LinesOf(call[t])
  BY DEF Current
<1> QED BY <1>1, <1>2 DEF Abstract!Text, Current

(* A sequence that consists of two, one after the other                         *)
LEMMA Joined ==
  ASSUME NEW S, NEW a \in Seq(S), NEW b \in Seq(S), NEW c \in Seq(S), Len(c) = Len(a) + Len(b),
         \A i \in 1..Len(a) : c[i] = a[i], \A i \in 1..Len(b) : c[Len(a) + i] = b[i]
  PROVE  c = a \o b
<1>1. /\ a \o b \in Seq(S) /\ Len(a \o b) = Len(a) + Len(b)
      /\ Len(a) \in Nat /\ Len(b) \in Nat
      /\ \A i \in 1..Len(a) : (a \o b)[i] = a[i]
  OBVIOUS
<1>2. ASSUME NEW i \in 1..Len(b) PROVE (a \o b)[Len(a) + i] = b[i]
  OBVIOUS
<1>3. ASSUME NEW i \in 1..Len(c) PROVE c[i] = (a \o b)[i]
  <2>1. CASE i \in 1..Len(a)
    BY <1>1, <2>1
  <2>2. CASE i \notin 1..Len(a)
    <3>1. i - Len(a) \in 1..Len(b) /\ i = Len(a) + (i - Len(a))
      BY <1>1, <2>2
    <3> QED BY <1>2, <3>1
  <2> QED BY <2>1, <2>2
<1> QED BY <1>1, <1>3

(* A log whose shown part grows by the text of t                                *)
LEMMA Grows ==
  ASSUME Inv, LogInv, Inv', LogInv', NEW t \in Threads, NEW log \in Sinks, pc[t] # "idle",
         Shown(log)' = Shown(log) + Len(Sorted(LinesOf(call[t]))),
         \A i \in 1..Shown(log) : out'[log][i] = out[log][i],
         \A i \in 1..Len(Sorted(LinesOf(call[t]))) :
           out'[log][Shown(log) + i] = Piece(t, Sorted(LinesOf(call[t]))[i])
  PROVE  Visible(log)' = Visible(log) \o Abstract!Text(t)
<1> DEFINE lines == Sorted(LinesOf(call[t]))
           V == {Strip(p) : p \in Pieces}
           n == Shown(log)
           a == [i \in 1..n |-> Strip(out[log][i])]
           b == [i \in 1..Len(lines) |-> Strip(Piece(t, lines[i]))]
           c == [i \in 1..(n + Len(lines)) |-> Strip(out'[log][i])]
<1>1. /\ out[log] \in Seq(Pieces) /\ n \in 0..Len(out[log]) /\ Len(out[log]) \in Nat
      /\ Visible(log) = a
  BY ShownIsRight DEF ShownRight
<1>2. /\ out'[log] \in Seq(Pieces) /\ Shown(log)' \in 0..Len(out'[log])
      /\ Visible(log)' = c
  BY ShownIsRightNext DEF ShownRight, Strip
<1>3. lines \in Seq(Nat) /\ Len(lines) \in Nat
  BY LinesSorted
<1> HIDE DEF lines
<1>4. b = Abstract!Text(t)
  <2>1. \A i \in 1..Len(lines) :
          Strip(Piece(t, lines[i])) = [by |-> t, n |-> calls[t], line |-> lines[i]]
    BY DEF Strip, Piece
  <2>2. Abstract!Text(t)
          = [i \in 1..Len(lines) |-> [by |-> t, n |-> calls[t], line |-> lines[i]]]
    BY TextIs DEF lines
  <2> QED BY <2>1, <2>2
<1>5. \A i \in 1..Len(lines) : Piece(t, lines[i]) \in Pieces
  BY <1>3, PieceType
<1>6. a \in Seq(V) /\ Len(a) = n
  <2>1. \A i \in 1..n : Strip(out[log][i]) \in V
    BY <1>1
  <2> HIDE DEF V, n
  <2> QED BY <1>1, <2>1
<1>7. b \in Seq(V) /\ Len(b) = Len(lines)
  <2>1. \A i \in 1..Len(lines) : Strip(Piece(t, lines[i])) \in V
    BY <1>5
  <2> HIDE DEF V
  <2> QED BY <1>3, <2>1
<1>8. c \in Seq(V) /\ Len(c) = n + Len(lines)
  <2>1. n + Len(lines) \in 0..Len(out'[log]) /\ Len(out'[log]) \in Nat /\ n + Len(lines) \in Nat
    BY <1>1, <1>2, <1>3 DEF lines
  <2>2. \A i \in 1..(n + Len(lines)) : Strip(out'[log][i]) \in V
    BY <1>2, <2>1
  <2> HIDE DEF V, n
  <2> QED BY <2>1, <2>2
<1>9. \A i \in 1..Len(a) : c[i] = a[i]
  BY <1>1, <1>3, <1>6
<1>10. \A i \in 1..Len(b) : c[Len(a) + i] = b[i]
  <2> SUFFICES ASSUME NEW i \in 1..Len(lines) PROVE c[n + i] = b[i]
    BY <1>6, <1>7
  <2>1. n + i \in 1..(n + Len(lines))
    BY <1>1, <1>3
  <2>2. out'[log][n + i] = Piece(t, lines[i])
    BY DEF lines
  <2> QED BY <2>1, <2>2
<1> HIDE DEF a, b, c, V, n
<1>11. a \in Seq(V) /\ b \in Seq(V) /\ c \in Seq(V) /\ Len(c) = Len(a) + Len(b)
  BY <1>6, <1>7, <1>8
<1>12. c = a \o b
  BY Zenon, <1>9, <1>10, <1>11, Joined
<1> QED BY <1>1, <1>2, <1>4, <1>12

(* A call that is handed to ngen takes effect and returns.                      *)
LEMMA HandStep ==
  ASSUME Inv, LogInv, Inv', LogInv', NEW t \in Threads, Keeps(t), Alone(t),
         CallBridge(t) \/ (SendPayload(t) /\ out' # out)
  PROVE  Abstract!Record(t)
<1> DEFINE lines == Sorted(LinesOf(call[t]))
<1>1. /\ pc[t] \in {"bridge", "payload"} /\ pc' = [pc EXCEPT ![t] = "idle"]
      /\ UNCHANGED <<loggers, call, calls, state, todo>>
  BY DEF CallBridge, SendPayload, Return, Goto, threadVars
<1>2. pc'[t] = "idle" /\ out \in [Sinks -> Seq(Pieces)] /\ "ngen" \in Sinks
  BY <1>1 DEF Inv, TypeOK, Sinks
<1>3. lines \in Seq(Nat) /\ Len(lines) \in Nat
  BY LinesSorted
<1>4. PICK text \in Seq(Pieces) :
        /\ out' = [out EXCEPT !["ngen"] = @ \o text] /\ Len(text) = Len(lines)
        /\ \A i \in 1..Len(lines) : text[i] = Piece(t, lines[i])
  <2>1. CASE CallBridge(t)
    BY <1>1, <2>1, CallBridgeText, WholeText
  <2>2. CASE SendPayload(t) /\ out' # out
    <3>1. pc[t] = "payload" /\ out' = [out EXCEPT !["ngen"] = Append(@, Piece(t, 0))]
      BY <2>2 DEF SendPayload
    <3>2. out' = [out EXCEPT !["ngen"] = @ \o <<Piece(t, 0)>>] /\ <<Piece(t, 0)>> \in Seq(Pieces)
      BY <3>1, PayloadText
    <3>3. LinesOf(call[t]) = {0}
      <4>1. call[t].op = "payload"
        BY <3>1 DEF Inv, ThreadInv
      <4> QED BY <4>1 DEF LinesOf
    <3>4. Len(lines) = 1 /\ lines[1] = 0
      <4>1. Cardinality(LinesOf(call[t])) = 1
        BY <3>3, FS_Singleton
      <4>2. Len(lines) = 1 /\ LinesOf(call[t]) = {lines[i] : i \in 1..Len(lines)}
        BY <4>1, LinesSorted
      <4> QED BY <3>3, <4>2
    <3>5. Len(<<Piece(t, 0)>>) = 1 /\ <<Piece(t, 0)>>[1] = Piece(t, 0)
      OBVIOUS
    <3> HIDE DEF lines
    <3>6. \A i \in 1..Len(lines) : <<Piece(t, 0)>>[i] = Piece(t, lines[i])
      BY <3>4, <3>5
    <3> QED BY <3>2, <3>4, <3>5, <3>6
  <2> QED BY <2>1, <2>2
<1> HIDE DEF lines
<1>5. /\ out'["ngen"] = out["ngen"] \o text /\ Len(out["ngen"]) \in Nat
      /\ Len(out'["ngen"]) = Len(out["ngen"]) + Len(lines)
      /\ \A i \in 1..Len(out["ngen"]) : out'["ngen"][i] = out["ngen"][i]
      /\ \A log \in Sinks \ {"ngen"} : out'[log] = out[log]
  <2>1. PICK old \in Seq(Pieces) : old = out["ngen"]
    BY <1>2
  <2>2. /\ out'["ngen"] = old \o text
        /\ \A log \in Sinks \ {"ngen"} : out'[log] = out[log]
    BY <1>2, <1>4, <2>1
  <2>3. /\ Len(old) \in Nat /\ Len(old \o text) = Len(old) + Len(text)
        /\ \A i \in 1..Len(old) : (old \o text)[i] = old[i]
    OBVIOUS
  <2> QED BY <1>4, <2>1, <2>2, <2>3
<1>6. ASSUME NEW i \in 1..Len(lines)
      PROVE  out'["ngen"][Len(out["ngen"]) + i] = Piece(t, lines[i])
  <2>1. (out["ngen"] \o text)[Len(out["ngen"]) + i] = text[i]
    BY <1>2, <1>3, <1>4
  <2> QED BY <1>4, <1>5, <2>1
<1>7. Shown("ngen") = Len(out["ngen"]) /\ Shown("ngen")' = Len(out'["ngen"])
  <2>1. \A u \in Threads : "ngen" # SinkOf(u)
    BY SinkType
  <2>2. \A u \in Threads : "ngen" # SinkOf(u)'
    BY <1>1, <2>1 DEF SinkOf
  <2>3. ShownRight /\ ShownRight'
    BY ShownIsRight, ShownIsRightNext
  <2> QED BY <1>2, <2>1, <2>2, <2>3 DEF ShownRight
<1>8. Visible("ngen")' = Visible("ngen") \o Abstract!Text(t)
  BY <1>1, <1>2, <1>5, <1>6, <1>7, Grows DEF lines
<1>9. Logs' = [Logs EXCEPT !["ngen"] = @ \o Abstract!Text(t)]
  <2>1. \A log \in Sinks \ {"ngen"} : Visible(log)' = Visible(log)
    BY <1>1, <1>2, <1>5, VisibleSame
  <2> QED BY <1>2, <1>8, <2>1 DEF Logs
<1>10. Current[t] = LinesOf(call[t]) /\ Current[t] # {-1} /\ Current[t] # {} /\ Current'[t] = {-1}
  <2>1. Current[t] = LinesOf(call[t]) /\ Current'[t] = {-1}
    BY <1>1, <1>2 DEF Current
  <2>2. LinesOf(call[t]) \subseteq Nat /\ LinesOf(call[t]) # {}
    BY LinesFinite
  <2>3. -1 \notin LinesOf(call[t])
    BY <2>2
  <2> QED BY <2>1, <2>2, <2>3
<1>11. Current' = [Current EXCEPT ![t] = {-1}]
  <2>1. \A u \in Threads : Current'[u] = IF u = t THEN {-1} ELSE Current[u]
    BY <1>10, OnlyOwn
  <2> QED BY <2>1 DEF Current
<1>12. Recorded' = Recorded /\ ~Recorded[t]
  <2>1. ~Settled(t) /\ ~Settled(t)'
    BY <1>1, <1>2 DEF Settled
  <2>2. \A u \in Threads : Recorded'[u] = Recorded[u]
    BY <2>1, OnlyOwn DEF Settled
  <2> QED BY <2>1, <2>2, OnlyOwn DEF Recorded
<1> QED BY <1>1, <1>2, <1>9, <1>10, <1>11, <1>12
     DEF Abstract!Record, Abstract!Idle, Current, Recorded, Logs

(* A line of a standalone message is hidden, until the last shows them all.       *)
LEMMA LineStep ==
  ASSUME Inv, LogInv, Inv', LogInv', NEW t \in Threads, Keeps(t), Alone(t), WriteLine(t)
  PROVE  UNCHANGED <<calls, Current, Recorded, Logs>> \/ Abstract!Record(t)
<1> DEFINE lines == Sorted(LinesOf(call[t]))
<1>0. PICK sink \in Sinks : sink = SinkOf(t)
  BY SinkType
<1>1. pc[t] = "write" /\ UNCHANGED <<loggers, pc, call, calls, state>> /\ todo[t] # {}
  BY DEF WriteLine
<1>2. PICK k \in 0..Cardinality(LinesOf(call[t])) : Progress(t, k)
  BY <1>1 DEF LogInv, WriterInv
<1>3. /\ k + 1 \in 1..Len(lines) /\ Piece(t, lines[k + 1]) \in Pieces
      /\ out'[sink] = Append(out[sink], Piece(t, lines[k + 1]))
      /\ \A log \in Sinks \ {sink} : out'[log] = out[log]
      /\ SinkOf(t)' = sink
      /\ Progress(t, k + 1)'
  BY <1>0, <1>2, WriteLineStep
<1>4. /\ sink \in Sinks /\ out[sink] \in Seq(Pieces) /\ Len(out[sink]) \in Nat
      /\ lines \in Seq(Nat) /\ Len(lines) \in Nat /\ k \in Nat
      /\ k + 1 \in 0..Cardinality(LinesOf(call[t]))
  BY <1>0, <1>3, SinkType, LinesSorted
<1>5. ShownRight /\ ShownRight'
  BY ShownIsRight, ShownIsRightNext
<1>6. Shown(sink) = Len(out[sink]) - k /\ Len(out[sink]) - k \in Nat
  BY <1>0, <1>1, <1>2, <1>4, <1>5 DEF ShownRight, Progress
<1>7. Current' = Current
  BY <1>1 DEF Current, LinesOf
<1>8. \A log \in Sinks \ {sink} : Visible(log)' = Visible(log)
  BY <1>0, <1>1, <1>3, VisibleSame
<1>9. /\ Len(out'[sink]) = Len(out[sink]) + 1
      /\ \A i \in 1..Len(out[sink]) : out'[sink][i] = out[sink][i]
  BY <1>3, <1>4
<1>10. ~Settled(t)
  BY <1>1 DEF Settled
<1>11. CASE todo'[t] # {}
  <2>1. Shown(sink)' = Len(out'[sink]) - (k + 1)
    BY <1>1, <1>3, <1>4, <1>5, <1>11 DEF ShownRight
  <2>2. Shown(sink)' = Shown(sink)
    BY <1>4, <1>6, <1>9, <2>1
  <2>3. \A i \in 1..Shown(sink) : out'[sink][i] = out[sink][i]
    BY <1>4, <1>6, <1>9
  <2>4. Visible(sink)' = Visible(sink)
    BY <1>3, <2>2, <2>3 DEF Visible
  <2>5. Logs' = Logs
    <3>1. \A log \in Sinks : Visible(log)' = Visible(log)
      BY <1>8, <2>4
    <3> QED BY <3>1 DEF Logs
  <2>6. ~Settled(t)'
    BY <1>11 DEF Settled
  <2>7. \A u \in Threads : Recorded'[u] = Recorded[u]
    BY <1>10, <2>6, OnlyOwn DEF Settled
  <2> QED BY <1>1, <1>7, <2>5, <2>7 DEF Recorded
<1>12. CASE todo'[t] = {}
  <2>1. k + 1 = Len(lines)
    <3> SUFFICES ASSUME k + 1 # Len(lines) PROVE FALSE
      OBVIOUS
    <3>1. todo'[t] = {lines[i] : i \in ((k + 1) + 1)..Len(lines)}
      BY <1>1, <1>3 DEF Progress
    <3> HIDE DEF lines
    <3>2. (k + 1) + 1 \in ((k + 1) + 1)..Len(lines)
      BY <1>3, <1>4
    <3>3. lines[(k + 1) + 1] \in todo'[t]
      BY <3>1, <3>2
    <3> QED BY <1>12, <3>3
  <2>2. \A i \in 1..(k + 1) : out'[sink][(Len(out'[sink]) - (k + 1)) + i] = Piece(t, lines[i])
    BY <1>1, <1>3 DEF Progress, Piece
  <2>3. Shown(sink)' = Len(out'[sink])
    <3>1. \A u \in Threads : pc'[u] = "write" => u = t
      BY <1>1 DEF Inv, TypeOK
    <3>2. \A u \in Threads : ~(pc'[u] = "write" /\ todo'[u] # {} /\ sink = SinkOf(u)')
      BY <1>12, <3>1
    <3> QED BY <1>5, <3>2 DEF ShownRight
  <2> HIDE DEF lines
  <2>4. Shown(sink)' = Shown(sink) + Len(lines)
    BY <1>4, <1>6, <1>9, <2>1, <2>3
  <2>5. \A i \in 1..Shown(sink) : out'[sink][i] = out[sink][i]
    BY <1>4, <1>6, <1>9
  <2>6. ASSUME NEW i \in 1..Len(lines) PROVE out'[sink][Shown(sink) + i] = Piece(t, lines[i])
    <3>1. Len(out'[sink]) - (k + 1) = Shown(sink)
      BY <1>4, <1>6, <1>9
    <3> QED BY <2>1, <2>2, <3>1
  <2>7. Visible(sink)' = Visible(sink) \o Abstract!Text(t)
    BY <1>1, <2>4, <2>5, <2>6, Grows DEF lines
  <2>8. Logs' = [Logs EXCEPT ![sink] = @ \o Abstract!Text(t)]
    <3>1. \A log \in Sinks : Visible(log)' =
            IF log = sink THEN Visible(log) \o Abstract!Text(t) ELSE Visible(log)
      BY <1>8, <2>7
    <3> QED BY <3>1 DEF Logs
  <2>9. Recorded' = [Recorded EXCEPT ![t] = TRUE]
    <3>1. Recorded'[t] = TRUE
      BY <1>1, <1>12, OnlyOwn DEF Settled
    <3>2. \A u \in Threads : Recorded'[u] = IF u = t THEN TRUE ELSE Recorded[u]
      BY <3>1, OnlyOwn
    <3> QED BY <3>2 DEF Recorded
  <2>10. ~Recorded[t]
    BY <1>10, OnlyOwn
  <2>11. Current[t] # {-1} /\ Current[t] # {}
    BY <1>1, LinesFinite DEF Current
  <2> QED BY <1>1, <1>4, <1>7, <2>8, <2>9, <2>10, <2>11
       DEF Abstract!Record, Abstract!Idle, Current, Recorded, Logs
<1> QED BY <1>11, <1>12

(* The initial states are initial states of MessageLog.                         *)
LEMMA AbstractInit == Init => Abstract!Init
<1> SUFFICES ASSUME Init PROVE Abstract!Init
  OBVIOUS
<1>1. /\ pc = [t \in Threads |-> "idle"] /\ calls = [t \in Threads |-> 0]
      /\ out = [s \in Sinks |-> <<>>]
  BY DEF Init
<1>2. \A log \in Sinks : Visible(log) = <<>>
  <2> TAKE log \in Sinks
  <2>1. Inv /\ LogInv /\ Len(out[log]) = 0
    BY <1>1, InitInv, InitLog
  <2>2. Shown(log) = 0 /\ Visible(log) = [i \in 1..Shown(log) |-> Strip(out[log][i])]
    BY <2>1, VisibleType
  <2> QED BY <2>2
<1> QED BY <1>1, <1>2 DEF Abstract!Init, Abstract!Idle

(* Every step is one of MessageLog, or none.                                    *)
LEMMA AbstractStep ==
  Inv /\ LogInv /\ (Inv /\ LogInv)' /\ [Next]_vars => [Abstract!Next]_(Abstract!vars)
<1> SUFFICES ASSUME Inv, LogInv, Inv', LogInv', [Next]_vars
             PROVE  [Abstract!Next]_(Abstract!vars)
  OBVIOUS
<1>1. ASSUME UNCHANGED <<calls, Current, Recorded, Logs>> PROVE UNCHANGED Abstract!vars
  BY <1>1 DEF Abstract!vars, Current, Recorded, Logs
<1>2. ASSUME UNCHANGED <<pc, call, calls, todo, out>> PROVE UNCHANGED Abstract!vars
  <2>1. \A log \in Sinks : Visible(log)' = Visible(log)
    BY <1>2 DEF Visible, Shown, Unfinished
  <2>2. \A t \in Threads : TookEffect(t)' = TookEffect(t)
    BY <1>2, <2>1 DEF TookEffect
  <2> QED BY <1>1, <1>2, <2>1, <2>2 DEF Current, Recorded, Logs, LinesOf
<1>3. CASE UNCHANGED vars \/ NgenInitialises \/ Finished
  BY <1>2, <1>3 DEF vars, threadVars, NgenInitialises, Finished
<1>4. ASSUME NEW t \in Threads, Call(t) \/ Work(t)
      PROVE  Abstract!Next \/ UNCHANGED Abstract!vars
  <2>1. Keeps(t) /\ Alone(t)
    BY <1>4, ThreadKeeps
  <2>2. CASE Call(t)
    BY <2>1, <2>2, CallStep DEF Abstract!Next
  <2>3. CASE ReturnLogger(t) \/ Discard(t) \/ UnlockWrite(t) \/ (SendPayload(t) /\ out' = out)
    BY <2>1, <2>3, ReturnStep DEF Abstract!Next
  <2>4. CASE CallBridge(t) \/ (SendPayload(t) /\ out' # out)
    BY <2>1, <2>4, HandStep DEF Abstract!Next
  <2>5. CASE WriteLine(t)
    BY <1>1, <2>1, <2>5, LineStep DEF Abstract!Next
  <2>6. CASE \/ FindLogger(t) \/ MissLogger(t) \/ CreateLogger(t) \/ ReadEnabled(t)
             \/ ReadLevel(t) \/ Accept(t) \/ LockWrite(t)
    BY <1>1, <2>1, <2>6, QuietStep
  <2> QED BY <1>4, <2>2, <2>3, <2>4, <2>5, <2>6 DEF Work, Registry, Output
<1> QED BY <1>3, <1>4 DEF Next

(* Every call of the C runtime takes effect at one point between its start and its  *)
(* return: it leaves its whole message in one log, or nothing, however the threads *)
(* interleave (logger.c, v_log_with_state and EwtsPayloadStatus).             *)
THEOREM CallsAreAtomicAlways == Spec => CallsAreAtomic
<1>1. Init => Inv /\ LogInv
  BY InitInv, InitLog
<1>2. (Inv /\ LogInv) /\ [Next]_vars => (Inv /\ LogInv)'
  BY StepInv, LogStep
<1> QED BY <1>1, <1>2, AbstractInit, AbstractStep, PTL DEF Spec, CallsAreAtomic, Abstract!Spec
=============================================================================
