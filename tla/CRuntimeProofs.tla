---------------------------- MODULE CRuntimeProofs ----------------------------
(***************************************************************************)
(* Theorems about the C runtime, for any number of threads, ids, requests    *)
(* and worlds.                                                             *)
(***************************************************************************)
EXTENDS CRuntime, FunctionTheorems, FiniteSetTheorems, WellFoundedInduction, TLAPS

(* A finite set of numbers has a greatest member.                            *)
LEMMA Greatest ==
  ASSUME NEW S \in SUBSET Nat, IsFiniteSet(S), S # {}
  PROVE  \E x \in S : \A y \in S : y <= x
<1> DEFINE n == Cardinality(S)
<1>1. n \in Nat /\ ExistsBijection(1..n, S)
  BY FS_CardinalityType
<1>2. PICK f \in [1..n -> S] : \A x \in S : \E i \in 1..n : f[i] = x
  BY <1>1 DEF ExistsBijection, Bijection, Surjection
<1> DEFINE Bounds(k) == \E x \in S : \A i \in 1..k : f[i] <= x
           failing == {k \in 0..n : ~Bounds(k)}
<1>3. failing = {}
  <2> SUFFICES ASSUME failing # {} PROVE FALSE  OBVIOUS
  <2>1. failing \in SUBSET Nat  BY <1>1
  <2>2. PICK k \in failing : \A j \in failing : ~(<<j, k>> \in OpToRel(<, Nat))
    BY <2>1, NatLessThanWellFounded, WFMin
  <2>3. k \in 0..n /\ ~Bounds(k)  OBVIOUS
  <2>4. \A j \in failing : k <= j
    <3> TAKE j \in failing
    <3>1. ~(<<j, k>> \in OpToRel(<, Nat))  BY <2>2
    <3>2. j \in Nat /\ k \in Nat  BY <2>1
    <3> QED  BY <3>1, <3>2 DEF OpToRel
  <2>5. Bounds(0)
    <3>1. PICK x \in S : TRUE  OBVIOUS
    <3>2. \A i \in 1..0 : f[i] <= x  OBVIOUS
    <3> QED  BY <3>2
  <2>6. k # 0  BY <2>3, <2>5
  <2>7. k - 1 \in 0..n /\ k \in 1..n /\ k - 1 \notin failing  BY <1>1, <2>3, <2>4, <2>6
  <2>8. PICK x \in S : \A i \in 1..(k - 1) : f[i] <= x  BY <2>7
  <2>9. f[k] \in S /\ x \in Nat /\ f[k] \in Nat  BY <1>2, <2>7
  <2>10. PICK y \in S : y \in Nat /\ x <= y /\ f[k] <= y  BY <2>9
  <2>11. \A i \in 1..k : f[i] <= y
    <3> TAKE i \in 1..k
    <3>1. i = k \/ i \in 1..(k - 1)  BY <2>7
    <3>2. i \in 1..n  BY <1>1, <2>7
    <3>3. f[i] \in Nat  BY <1>2, <3>2
    <3> QED  BY <2>8, <2>9, <2>10, <3>1, <3>3
  <2> QED  BY <2>3, <2>11
<1>4. Bounds(n)  BY <1>1, <1>3
<1> QED  BY <1>2, <1>4

(* The lines of a message, of which there are finitely many, have an order.     *)
LEMMA SortedExists ==
  ASSUME NEW S \in SUBSET Nat, IsFiniteSet(S)
  PROVE  \E s \in [1..Cardinality(S) -> S] : \A i, j \in DOMAIN s : i < j => s[i] < s[j]
<1> DEFINE Ordered(T) ==
             \E s \in [1..Cardinality(T) -> T] : \A i, j \in DOMAIN s : i < j => s[i] < s[j]
           failing ==
             {k \in Nat : \E T \in SUBSET Nat :
                            IsFiniteSet(T) /\ Cardinality(T) = k /\ ~Ordered(T)}
<1>1. failing = {}
  <2> SUFFICES ASSUME failing # {} PROVE FALSE  OBVIOUS
  <2>1. PICK k \in failing : \A j \in failing : ~(<<j, k>> \in OpToRel(<, Nat))
    BY NatLessThanWellFounded, WFMin
  <2>2. k \in Nat  OBVIOUS
  <2>3. PICK T \in SUBSET Nat : IsFiniteSet(T) /\ Cardinality(T) = k /\ ~Ordered(T)
    OBVIOUS
  <2>4. T # {}
    <3> SUFFICES ASSUME T = {} PROVE Ordered(T)  BY <2>3
    <3>1. Cardinality(T) = 0  BY FS_EmptySet
    <3>2. [i \in 1..0 |-> 0] \in [1..Cardinality(T) -> T]  BY <3>1
    <3> QED  BY <3>1, <3>2
  <2>5. PICK x \in T : \A y \in T : y <= x  BY <2>3, <2>4, Greatest
  <2> DEFINE U == T \ {x}
  <2>6. IsFiniteSet(U) /\ Cardinality(U) = k - 1  BY <2>3, FS_RemoveElement
  <2>7. k - 1 \in Nat  BY <2>6, FS_CardinalityType
  <2>8. k - 1 \notin failing
    <3>1. k - 1 \in failing => ~(<<k - 1, k>> \in OpToRel(<, Nat))  BY <2>1
    <3> QED  BY <3>1, <2>2, <2>7 DEF OpToRel
  <2>9. PICK s \in [1..(k - 1) -> U] : \A i, j \in 1..(k - 1) : i < j => s[i] < s[j]
    <3>1. U \in SUBSET Nat  OBVIOUS
    <3>2. Ordered(U)  BY <2>6, <2>7, <2>8, <3>1
    <3>3. PICK s \in [1..Cardinality(U) -> U] : \A i, j \in DOMAIN s : i < j => s[i] < s[j]
      BY <3>2
    <3>4. DOMAIN s = 1..(k - 1)  BY <2>6, <3>3
    <3> QED  BY <2>6, <3>3, <3>4
  <2> DEFINE r == [i \in 1..k |-> IF i = k THEN x ELSE s[i]]
  <2>10. r \in [1..k -> T]  BY <2>2
  <2>11. \A i \in 1..(k - 1) : s[i] \in Nat /\ s[i] < x
    <3> TAKE i \in 1..(k - 1)
    <3>1. s[i] \in U  BY <2>9
    <3>2. s[i] \in Nat /\ x \in Nat /\ s[i] <= x /\ s[i] # x  BY <2>5, <3>1
    <3> QED  BY <3>2
  <2>12. \A i, j \in 1..k : i < j => r[i] < r[j]
    <3> SUFFICES ASSUME NEW i \in 1..k, NEW j \in 1..k, i < j PROVE r[i] < r[j]  OBVIOUS
    <3>1. i \in 1..(k - 1) /\ r[i] = s[i]  BY <2>2
    <3>2. CASE j = k  BY <2>11, <3>1, <3>2
    <3>3. CASE j # k
      <4>1. j \in 1..(k - 1) /\ r[j] = s[j]  BY <2>2, <3>3
      <4> QED  BY <2>9, <3>1, <4>1
    <3> QED  BY <3>2, <3>3
  <2>13. Ordered(T)
    <3> HIDE DEF r
    <3>1. DOMAIN r = 1..k  BY <2>10
    <3> QED  BY <2>3, <2>10, <2>12, <3>1
  <2> QED  BY <2>3, <2>13
<1>2. Cardinality(S) \in Nat  BY FS_CardinalityType
<1>3. Ordered(S)  BY <1>1, <1>2
<1> QED  BY <1>3

(* Sorted yields the members of a set, each once, in ascending order.           *)
LEMMA SortedIsSorted ==
  ASSUME NEW S \in SUBSET Nat, IsFiniteSet(S)
  PROVE  /\ Sorted(S) \in Seq(S) /\ Sorted(S) \in [1..Cardinality(S) -> S]
         /\ Cardinality(S) \in Nat /\ Len(Sorted(S)) = Cardinality(S)
         /\ \A i, j \in 1..Cardinality(S) : i < j => Sorted(S)[i] < Sorted(S)[j]
<1>1. /\ Sorted(S) \in [1..Cardinality(S) -> S]
      /\ \A i, j \in DOMAIN Sorted(S) : i < j => Sorted(S)[i] < Sorted(S)[j]
  BY SortedExists DEF Sorted
<1>2. Cardinality(S) \in Nat  BY FS_CardinalityType
<1>3. Sorted(S) \in Seq(S)  BY <1>1, <1>2
<1> QED  BY <1>1, <1>2, <1>3

(* It leaves out none of them.                                                *)
LEMMA SortedOnto ==
  ASSUME NEW S \in SUBSET Nat, IsFiniteSet(S)
  PROVE  S = {Sorted(S)[i] : i \in 1..Cardinality(S)}
<1> DEFINE n == Cardinality(S)
           s == Sorted(S)
<1>1. n \in Nat /\ s \in [1..n -> S] /\ \A i, j \in 1..n : i < j => s[i] < s[j]
  BY SortedIsSorted
<1>2. \A i, j \in 1..n : s[i] = s[j] => i = j
  <2> SUFFICES ASSUME NEW i \in 1..n, NEW j \in 1..n, s[i] = s[j], i # j PROVE FALSE
    OBVIOUS
  <2>1. s[i] < s[j] \/ s[j] < s[i]
    BY <1>1
  <2>2. s[i] \in Nat /\ s[j] \in Nat
    BY <1>1
  <2> QED BY <2>1, <2>2
<1>3. s \in Injection(1..n, S)
  BY <1>1, <1>2 DEF Injection, IsInjective
<1>4. Cardinality(1..n) = n
  <2>1. n \in Nat /\ 0 \in Int /\ 1 \in Int
    BY <1>1
  <2> QED BY <2>1, FS_Interval
<1>5. s \in Surjection(1..n, S)
  BY <1>3, <1>4, FS_Injection
<1> QED BY <1>1, <1>5 DEF Surjection
-----------------------------------------------------------------------------
(* The inductive invariant                                                   *)

(* Places and loggers of threads, by what a thread may do there                 *)
Initialising == {"enabled", "level"}
Writing == {"wait", "write"}
Entered == {"entered", "bridge"} \cup Writing
Joins(m) == m.op = "init" /\ m.bridge
LoggerOf(t) == loggers[state[t]]

(* The calls that may have returned                                             *)
Returns ==
  [by : Threads, n : 1..MaxCalls, req : Request, path : Paths, logger : 0..Len(loggers)]

(* What a thread knows where it is: it has the logger of its id, initialised or   *)
(* being initialised by itself alone; a call that was told to use ngen has told  *)
(* the logger; who is about to write has not joined this id to ngen.            *)
ThreadInv(t) ==
  /\ call[t] \in Sends[t]
  /\ pc[t] # "idle" => calls[t] \in 1..MaxCalls
  /\ pc[t] \in {"registry", "create"} => state[t] = 0 /\ call[t].op # "payload"
  /\ pc[t] = "payload" => state[t] = 0 /\ call[t].op = "payload"
  /\ pc[t] \in Initialising \cup Entered => state[t] # 0 /\ call[t].op # "payload"
  /\ pc[t] \in {"bridge"} \cup Writing => call[t].op = "log" /\ todo[t] \subseteq LinesOf(call[t])
  /\ state[t] # 0 => LoggerOf(t).id = call[t].id
  /\ pc[t] = "create" => Named(call[t].id) = {}
  /\ pc[t] \in Initialising =>
       /\ \A u \in Threads \ {t} : state[u] # state[t]
       /\ \A r \in returned : r.logger # state[t]
  /\ pc[t] = "level" /\ LoggerOf(t).fresh => exported
  /\ pc[t] = "write" => LoggerOf(t).file # "none"
  /\ pc[t] \in Initialising \cup {"entered"} /\ Joins(call[t]) => LoggerOf(t).useNgen
  /\ pc[t] \in Writing /\ BridgeActive =>
       \A r \in returned : r.by = t /\ Joins(r.req) => r.req.id # call[t].id

(* What a call that returned has seen is still so.                             *)
ReturnInv(r) ==
  /\ r \in Returns
  /\ r.n <= calls[r.by] /\ (pc[r.by] # "idle" => r.n < calls[r.by])
  /\ r.logger # 0 => loggers[r.logger].id = r.req.id
  /\ Joins(r.req) => r.logger # 0 /\ loggers[r.logger].useNgen
  /\ Standalone(r) =>
       /\ r.logger # 0 /\ loggers[r.logger].file # "none"
       /\ r.path = IF loggers[r.logger].file = "file" THEN r.req.id ELSE "stdout"
  /\ r.path = "filtered" => r.logger # 0 /\ r.req.level < loggers[r.logger].level

(* No two loggers of one id; after the export the variables are those of ngen.  *)
DistinctIds == \A i, j \in DOMAIN loggers : loggers[i].id = loggers[j].id => i = j

ExportedByNgen ==
  exported => \A id \in Ids : env.level[id] = [digits |-> TRUE, value |-> world.ngenLevel[id],
                                               name |-> ""]

(* A logger that read its settings after the export has ngen's level.           *)
FreshLevels ==
  \A i \in DOMAIN loggers :
    /\ loggers[i].fresh /\ world.ngenLevel[loggers[i].id] # NOTSET
    /\ \A t \in Threads : pc[t] \in Initialising => state[t] # i
    => loggers[i].level = world.ngenLevel[loggers[i].id]

(* What holds of the list of loggers                                            *)
LoggersInv == DistinctIds /\ ExportedByNgen /\ FreshLevels

(* All of it: Inv is inductive.                                                 *)
Inv ==
  /\ TypeOK /\ LoggersInv /\ BridgeKept
  /\ \A t \in Threads : ThreadInv(t)
  /\ \A r \in returned : ReturnInv(r)
-----------------------------------------------------------------------------
(* A step of t keeps what the loggers are to other threads: ids never change,   *)
(* the bridge is not taken back, an open destination stays, and a level is only *)
(* settled by the thread that initialises the logger.                        *)
Keeps(t) ==
  /\ loggers' \in Seq(LoggerState) /\ Len(loggers) <= Len(loggers')
  /\ Len(loggers') = Len(loggers) \/ pc[t] = "create"
  /\ \A i \in 1..Len(loggers) :
       /\ loggers'[i].id = loggers[i].id
       /\ loggers[i].useNgen => loggers'[i].useNgen
       /\ loggers[i].file # "none" => loggers'[i].file = loggers[i].file
       /\ \/ loggers'[i].level = loggers[i].level /\ loggers'[i].fresh = loggers[i].fresh
          \/ pc[t] \in Initialising /\ i = state[t]

(* It moves no other thread, and returns to none but t.                       *)
Alone(t) ==
  /\ \A u \in Threads \ {t} :
       /\ pc'[u] = pc[u] /\ call'[u] = call[u] /\ calls'[u] = calls[u]
       /\ state'[u] = state[u] /\ todo'[u] = todo[u]
  /\ \/ state'[t] \in {0, state[t]} \/ registryOwner = Nobody \/ pc[t] = "create"
  /\ \/ calls'[t] = calls[t] /\ pc[t] # "idle"
     \/ calls'[t] = calls[t] + 1
  /\ world' = world /\ (exported => exported')
  /\ returned \subseteq returned'
  /\ \A r \in returned' \ returned :
       /\ r.by = t /\ r.n = calls[t] /\ r.req = call[t] /\ r.logger = state[t]
       /\ pc[t] # "idle" /\ (Standalone(r) => pc[t] = "write")

(* Any such step keeps what the other threads know, and the earlier returns.    *)
LEMMA OthersKept ==
  ASSUME Inv, NEW t \in Threads, Keeps(t), Alone(t)
  PROVE  (\A u \in Threads \ {t} : ThreadInv(u)') /\ (\A r \in returned : ReturnInv(r)')
<1>1. /\ Len(loggers) \in Nat /\ Len(loggers') \in Nat /\ Nobody \notin Threads
      /\ state \in [Threads -> 0..Len(loggers)] /\ calls \in [Threads -> 0..MaxCalls]
      /\ MaxCalls \in Nat /\ loggers \in Seq(LoggerState)
      /\ \A u \in Threads : pc[u] \in {"create", "enabled", "level"} <=> registryOwner = u
  BY ConstantsAssumption DEF Inv, TypeOK, Keeps
<1>2. ASSUME NEW u \in Threads \ {t} PROVE ThreadInv(u)'
  <2>0. ThreadInv(u) /\ u \in Threads
    BY DEF Inv
  <2>1. /\ pc'[u] = pc[u] /\ call'[u] = call[u] /\ calls'[u] = calls[u]
        /\ state'[u] = state[u] /\ todo'[u] = todo[u]
    BY DEF Alone
  <2>2. state[u] # 0 =>
          /\ state[u] \in 1..Len(loggers)
          /\ loggers'[state[u]].id = loggers[state[u]].id
          /\ loggers[state[u]].useNgen => loggers'[state[u]].useNgen
          /\ loggers[state[u]].file # "none" => loggers'[state[u]].file # "none"
    BY <1>1, <2>0 DEF Keeps
  <2>3. pc[u] = "create" => Named(call[u].id)' = {}
    <3> SUFFICES ASSUME pc[u] = "create" PROVE Named(call[u].id)' = {}
      OBVIOUS
    <3>1. pc[t] # "create"
      BY <1>1, <2>0
    <3>2. Len(loggers') = Len(loggers)
      BY <3>1 DEF Keeps
    <3>3. DOMAIN loggers = 1..Len(loggers) /\ DOMAIN loggers' = 1..Len(loggers)
      BY <1>1, <3>2 DEF Keeps
    <3>4. \A i \in 1..Len(loggers) : loggers[i].id # call[u].id
      BY <2>0, <3>3 DEF ThreadInv, Named
    <3>5. \A i \in 1..Len(loggers) : loggers'[i].id # call'[u].id
      BY <2>1, <3>4 DEF Keeps
    <3> QED BY <3>3, <3>5 DEF Named
  <2>4. pc[u] \in Initialising =>
          /\ \A v \in Threads \ {u} : state'[v] # state[u]
          /\ \A r \in returned' : r.logger # state[u]
          /\ loggers'[state[u]].fresh = loggers[state[u]].fresh
    <3> SUFFICES ASSUME pc[u] \in Initialising
                 PROVE  /\ \A v \in Threads \ {u} : state'[v] # state[u]
                        /\ \A r \in returned' : r.logger # state[u]
                        /\ loggers'[state[u]].fresh = loggers[state[u]].fresh
      OBVIOUS
    <3>1. registryOwner = u /\ registryOwner # Nobody /\ pc[t] \notin {"create", "enabled", "level"}
      BY <1>1, <2>0 DEF Initialising
    <3>2. state[u] # 0 /\ (\A v \in Threads \ {u} : state[v] # state[u])
          /\ (\A r \in returned : r.logger # state[u])
      BY <2>0 DEF ThreadInv
    <3>3. state'[t] \in {0, state[t]}
      BY <3>1 DEF Alone
    <3>4. \A v \in Threads \ {u} : state'[v] # state[u]
      BY <3>2, <3>3 DEF Alone
    <3>5. \A r \in returned' : r.logger # state[u]
      BY <3>2 DEF Alone
    <3>6. loggers'[state[u]].fresh = loggers[state[u]].fresh
      BY <2>2, <3>1, <3>2 DEF Keeps, Initialising
    <3> QED BY <3>4, <3>5, <3>6
  <2>5. pc[u] \in Writing /\ BridgeActive =>
          \A r \in returned' : r.by = u /\ Joins(r.req) => r.req.id # call[u].id
    BY <2>0 DEF ThreadInv, Alone
  <2>6. BridgeActive' = BridgeActive /\ (exported => exported')
    BY DEF BridgeActive, Alone
  <2>7. LinesOf(call[u]) = LinesOf(call'[u])
    BY <2>1 DEF LinesOf
  <2>8. /\ call'[u] \in Sends[u]
        /\ pc'[u] # "idle" => calls'[u] \in 1..MaxCalls
        /\ pc'[u] \in {"registry", "create"} => state'[u] = 0 /\ call'[u].op # "payload"
        /\ pc'[u] = "payload" => state'[u] = 0 /\ call'[u].op = "payload"
        /\ pc'[u] \in Initialising \cup Entered => state'[u] # 0 /\ call'[u].op # "payload"
        /\ pc'[u] \in {"bridge"} \cup Writing =>
             call'[u].op = "log" /\ todo'[u] \subseteq LinesOf(call'[u])
    BY <2>0, <2>1, <2>7 DEF ThreadInv
  <2>9. /\ state'[u] # 0 => loggers'[state'[u]].id = call'[u].id
        /\ pc'[u] = "level" /\ loggers'[state'[u]].fresh => exported'
        /\ pc'[u] = "write" => loggers'[state'[u]].file # "none"
        /\ pc'[u] \in Initialising \cup {"entered"} /\ Joins(call'[u])
             => loggers'[state'[u]].useNgen
    BY <2>0, <2>1, <2>2, <2>4, <2>6 DEF ThreadInv, LoggerOf, Initialising, Entered, Writing
  <2>10. pc'[u] = "create" => Named(call[u].id)' = {}
    BY <2>1, <2>3
  <2>11. pc'[u] \in Initialising =>
           /\ \A v \in Threads \ {u} : state'[v] # state'[u]
           /\ \A r \in returned' : r.logger # state'[u]
    BY <2>1, <2>4
  <2>12. pc'[u] \in Writing /\ BridgeActive' =>
           \A r \in returned' : r.by = u /\ Joins(r.req) => r.req.id # call'[u].id
    BY <2>1, <2>5, <2>6
  <2> QED BY <2>8, <2>9, <2>10, <2>11, <2>12 DEF ThreadInv, LoggerOf
<1>3. ASSUME NEW r \in returned PROVE ReturnInv(r)'
  <2>0. ReturnInv(r)
    BY DEF Inv
  <2>1. /\ r.by \in Threads /\ r.n \in 1..MaxCalls /\ r.logger \in 0..Len(loggers)
        /\ r \in Returns
    BY <2>0 DEF ReturnInv, Returns
  <2>2. r \in Returns'
    BY <1>1, <2>1 DEF Returns, Keeps
  <2>3. r.n <= calls'[r.by] /\ (pc'[r.by] # "idle" => r.n < calls'[r.by])
    <3>1. r.n <= calls[r.by] /\ (pc[r.by] # "idle" => r.n < calls[r.by])
      BY <2>0 DEF ReturnInv
    <3>2. calls[r.by] \in Nat /\ r.n \in Nat /\ calls[t] \in Nat
      BY <1>1, <2>1
    <3>3. CASE r.by = t
      BY <3>1, <3>2, <3>3 DEF Alone
    <3>4. CASE r.by # t
      BY <2>1, <3>1, <3>4 DEF Alone
    <3> QED BY <3>3, <3>4
  <2>4. r.logger # 0 =>
          /\ loggers'[r.logger].id = loggers[r.logger].id
          /\ loggers[r.logger].useNgen => loggers'[r.logger].useNgen
          /\ loggers[r.logger].file # "none" => loggers'[r.logger].file = loggers[r.logger].file
          /\ loggers'[r.logger].level = loggers[r.logger].level
    <3>1. pc[t] \in Initialising => r.logger # state[t]
      BY DEF Inv, ThreadInv
    <3> QED BY <1>1, <2>1, <3>1 DEF Keeps
  <2> QED BY <2>0, <2>2, <2>3, <2>4 DEF ReturnInv
<1> QED BY <1>2, <1>3

(* What t does is then all there is to check of a step.                        *)
LEMMA StepKeeps ==
  ASSUME Inv, NEW t \in Threads, Keeps(t), Alone(t), TypeOK', LoggersInv', ThreadInv(t)',
         \A r \in returned' \ returned : ReturnInv(r)'
  PROVE  Inv' /\ Keeps(t) /\ Alone(t)
<1>1. BridgeKept'
  <2> SUFFICES ASSUME NEW r1 \in returned', NEW r2 \in returned',
                      r1.req.op = "init", r1.req.bridge, BridgeActive', r1.by = r2.by,
                      r1.n < r2.n, r1.req.id = r2.req.id, Standalone(r2)
               PROVE  FALSE
    BY DEF BridgeKept
  <2>1. BridgeActive /\ Joins(r1.req)
    BY DEF Alone, BridgeActive, Joins
  <2>2. CASE r1 \in returned /\ r2 \in returned
    BY <2>1, <2>2 DEF Inv, BridgeKept
  <2>3. CASE r2 \notin returned
    <3>1. r2.by = t /\ r2.req = call[t] /\ pc[t] = "write" /\ r2.n = calls[t]
      BY <2>3 DEF Alone
    <3>2. r1 \in returned
      <4>1. calls[t] \in Nat
        BY ConstantsAssumption DEF Inv, TypeOK
      <4> QED BY <3>1, <4>1 DEF Alone
    <3> QED BY <2>1, <3>1, <3>2 DEF Inv, ThreadInv, Writing
  <2>4. CASE r1 \notin returned /\ r2 \in returned
    <3>1. r1.by = t /\ r1.n = calls[t] /\ pc[t] # "idle"
      BY <2>4 DEF Alone
    <3>2. r2.n < calls[t] /\ r2.n \in Nat /\ calls[t] \in Nat
      <4>1. calls[t] \in Nat /\ MaxCalls \in Nat
        BY ConstantsAssumption DEF Inv, TypeOK
      <4>2. ReturnInv(r2) /\ r2.by = t
        BY <2>4, <3>1 DEF Inv
      <4>3. r2.n < calls[t] /\ r2.n \in Nat
        BY <3>1, <4>1, <4>2 DEF ReturnInv, Returns
      <4> QED BY <4>1, <4>3
    <3> QED BY <3>1, <3>2
  <2> QED BY <2>2, <2>3, <2>4
<1> QED BY <1>1, OthersKept DEF Inv

(* The levels that are read from the environment are numbers.                 *)
LEMMA LevelTypes ==
  /\ \A raw \in RawLevel : EnvLevel(raw) \in Nat
  /\ env \in Environment => \A id \in Ids : InitialLevel(id) \in Nat
<1>1. ASSUME NEW raw \in RawLevel PROVE EnvLevel(raw) \in Nat
  BY DEF RawLevel, EnvLevel, EnvLevelName, NOTSET, DEBUG, PERFORM, INFO, WARNING, SEVERE, FATAL,
         STATUS
<1>2. ASSUME env \in Environment, NEW id \in Ids PROVE InitialLevel(id) \in Nat
  <2>1. EnvLevel(env.level[id]) \in Nat /\ EnvLevel(env.default) \in Nat
    BY <1>1, <1>2 DEF Environment
  <2> QED BY <2>1 DEF InitialLevel, INFO
<1> QED BY <1>1, <1>2

(* What ngen exports are settings, a number for the level of every id.          *)
LEMMA ExportTypes ==
  ASSUME TypeOK, Exports
  PROVE  /\ env' \in Environment /\ exported'
         /\ ~exported => \A id \in Ids :
              env'.level[id] = [digits |-> TRUE, value |-> world.ngenLevel[id], name |-> ""]
<1>1. world \in World /\ env \in Environment
  BY ConstantsAssumption DEF TypeOK
<1>2. world.ngenEnabled \in BOOLEAN /\ world.ngenLevel \in [Ids -> CanonicalLevels]
  BY <1>1 DEF World
<1> DEFINE levels == [id \in Ids |-> [digits |-> TRUE, value |-> world.ngenLevel[id], name |-> ""]]
<1>3. \A id \in Ids : [digits |-> TRUE, value |-> world.ngenLevel[id], name |-> ""] \in RawLevel
  <2>1. CanonicalLevels \subseteq Nat
    BY DEF CanonicalLevels, NOTSET, DEBUG, PERFORM, INFO, WARNING, SEVERE, FATAL, STATUS
  <2>2. ASSUME NEW v \in Nat PROVE [digits |-> TRUE, value |-> v, name |-> ""] \in RawLevel
    BY DEF RawLevel, LevelWords
  <2>3. \A id \in Ids : world.ngenLevel[id] \in Nat
    BY <1>2, <2>1
  <2> QED BY <2>2, <2>3
<1>4. levels \in [Ids -> RawLevel] /\ \A id \in Ids :
        levels[id] = [digits |-> TRUE, value |-> world.ngenLevel[id], name |-> ""]
  BY <1>3
<1> HIDE DEF levels
<1>5. ExportedEnv = [env EXCEPT !.enabled = world.ngenEnabled, !.level = levels]
  BY DEF ExportedEnv, levels
<1>6. ExportedEnv \in Environment /\ ExportedEnv.level = levels
  BY <1>1, <1>2, <1>4, <1>5 DEF Environment
<1> QED BY <1>1, <1>4, <1>6 DEF Exports

(* A step that creates no logger and initialises none keeps what holds of all.   *)
LEMMA CalmLoggers ==
  ASSUME Inv, loggers' \in Seq(LoggerState), Len(loggers') = Len(loggers),
         \A i \in 1..Len(loggers) :
           /\ loggers'[i].id = loggers[i].id /\ loggers'[i].level = loggers[i].level
           /\ loggers'[i].fresh = loggers[i].fresh,
         \A u \in Threads : pc[u] \in Initialising =>
           pc'[u] \in Initialising /\ state'[u] = state[u],
         world' = world, UNCHANGED <<env, exported>> \/ Exports
  PROVE  LoggersInv'
<1>1. /\ DOMAIN loggers = 1..Len(loggers) /\ DOMAIN loggers' = 1..Len(loggers)
      /\ LoggersInv /\ TypeOK
  BY DEF Inv, TypeOK
<1>2. DistinctIds'
  BY <1>1 DEF LoggersInv, DistinctIds
<1>3. ExportedByNgen'
  BY <1>1, ExportTypes DEF LoggersInv, ExportedByNgen, Exports
<1>4. FreshLevels'
  <2> SUFFICES ASSUME NEW i \in 1..Len(loggers),
                      loggers'[i].fresh /\ world.ngenLevel[loggers'[i].id] # NOTSET,
                      \A u \in Threads : pc'[u] \in Initialising => state'[u] # i
               PROVE  loggers'[i].level = world.ngenLevel[loggers'[i].id]
    BY <1>1 DEF FreshLevels
  <2>1. \A u \in Threads : pc[u] \in Initialising => state[u] # i
    OBVIOUS
  <2> QED BY <1>1, <2>1 DEF LoggersInv, FreshLevels
<1> QED BY <1>2, <1>3, <1>4 DEF LoggersInv

(* A step that leaves the loggers alone keeps them.                            *)
LEMMA SameLoggers == ASSUME TypeOK, loggers' = loggers, NEW t \in Threads PROVE Keeps(t)
BY DEF TypeOK, Keeps
-----------------------------------------------------------------------------
(* The initial states                                                        *)
LEMMA InitInv == Init => Inv
<1> SUFFICES ASSUME Init PROVE Inv
  OBVIOUS
<1>1. /\ world \in Worlds /\ env = world.env /\ exported = FALSE /\ loggers = <<>>
      /\ registryOwner = Nobody /\ writeOwner = Nobody
      /\ pc = [t \in Threads |-> "idle"]
      /\ call = [t \in Threads |-> CHOOSE m \in Sends[t] : TRUE]
      /\ calls = [t \in Threads |-> 0] /\ state = [t \in Threads |-> 0]
      /\ todo = [t \in Threads |-> {}] /\ out = [s \in Sinks |-> <<>>]
      /\ returned = {}
  BY DEF Init
<1>2. \A t \in Threads : call[t] \in Sends[t] /\ call[t] \in Request
  <2> TAKE t \in Threads
  <2>1. \E m \in Sends[t] : TRUE
    BY ConstantsAssumption
  <2>2. call[t] \in Sends[t]
    BY <1>1, <2>1
  <2> QED BY <2>2, ConstantsAssumption
<1>3. TypeOK
  <2>1. env \in Environment
    BY <1>1, ConstantsAssumption DEF World
  <2>2. call \in [Threads -> Request]
    BY <1>1, <1>2
  <2>3. /\ pc \in [Threads -> Locations] /\ loggers \in Seq(LoggerState)
        /\ calls \in [Threads -> 0..MaxCalls] /\ state \in [Threads -> 0..Len(loggers)]
        /\ todo \in [Threads -> SUBSET Nat] /\ out \in [Sinks -> Seq(Pieces)]
    BY <1>1, ConstantsAssumption DEF Locations
  <2>4. \A t \in Threads : /\ pc[t] \in {"create", "enabled", "level"} <=> registryOwner = t
                           /\ pc[t] = "write" <=> writeOwner = t
    BY <1>1, ConstantsAssumption
  <2>5. registryOwner \in Threads \cup {Nobody} /\ writeOwner \in Threads \cup {Nobody}
    BY <1>1
  <2> QED BY <1>1, <2>1, <2>2, <2>3, <2>4, <2>5 DEF TypeOK
<1>4. LoggersInv
  <2>1. DOMAIN loggers = {}
    BY <1>1
  <2> QED BY <1>1, <2>1 DEF LoggersInv, DistinctIds, ExportedByNgen, FreshLevels
<1>5. ASSUME NEW t \in Threads PROVE ThreadInv(t)
  BY <1>1, <1>2 DEF ThreadInv, Initialising, Entered, Writing
<1>6. BridgeKept
  BY <1>1 DEF BridgeKept
<1> QED BY <1>1, <1>3, <1>4, <1>5, <1>6 DEF Inv

(* Each action keeps the invariant.                                           *)

(* The initialisation of the ngen logger changes the environment only.          *)
LEMMA NgenInitialisesKeeps == Inv /\ NgenInitialises => Inv'
<1> SUFFICES ASSUME Inv, NgenInitialises PROVE Inv'
  OBVIOUS
<1>1. /\ UNCHANGED <<world, loggers, registryOwner, writeOwner, pc, call, calls, state, todo>>
      /\ UNCHANGED <<out, returned>> /\ Exports /\ TypeOK
  BY DEF NgenInitialises, threadVars, Inv
<1>2. TypeOK'
  BY <1>1, ExportTypes DEF TypeOK
<1>3. LoggersInv'
  BY <1>1, CalmLoggers DEF TypeOK
<1>4. ASSUME NEW t \in Threads PROVE ThreadInv(t)'
  <2>1. ThreadInv(t) /\ exported'
    BY <1>1, ExportTypes DEF Inv
  <2>2. BridgeActive' = BridgeActive
    BY <1>1 DEF BridgeActive
  <2> QED BY <1>1, <2>1, <2>2 DEF ThreadInv, LoggerOf, Named, LinesOf, Joins
<1>5. ASSUME NEW r \in returned PROVE ReturnInv(r)'
  BY <1>1 DEF Inv, ReturnInv, Returns
<1>6. BridgeKept'
  BY <1>1 DEF Inv, BridgeKept, BridgeActive
<1> QED BY <1>1, <1>2, <1>3, <1>4, <1>5, <1>6 DEF Inv

(* A call starts without a logger.                                              *)
LEMMA CallKeeps ==
  ASSUME NEW t \in Threads
  PROVE  Inv /\ Call(t) => Inv' /\ Keeps(t) /\ Alone(t)
<1> SUFFICES ASSUME Inv, Call(t) PROVE Inv' /\ Keeps(t) /\ Alone(t)
  OBVIOUS
<1>1. PICK m \in Sends[t] :
        /\ call' = [call EXCEPT ![t] = m]
        /\ pc' = [pc EXCEPT ![t] = IF m.op = "payload" THEN "payload" ELSE "registry"]
  BY DEF Call, Goto
<1>2. /\ pc[t] = "idle" /\ calls[t] < MaxCalls
      /\ calls' = [calls EXCEPT ![t] = @ + 1] /\ state' = [state EXCEPT ![t] = 0]
      /\ UNCHANGED <<world, env, exported, loggers, registryOwner, writeOwner, todo, out, returned>>
  BY DEF Call
<1>3. m \in Request /\ MaxCalls \in Nat
  BY ConstantsAssumption
<1>4. TypeOK
  BY DEF Inv
<1>5. TypeOK'
  <2>1. /\ call' \in [Threads -> Request] /\ calls' \in [Threads -> 0..MaxCalls]
        /\ state' \in [Threads -> 0..Len(loggers')] /\ pc' \in [Threads -> Locations]
    BY <1>1, <1>2, <1>3, <1>4 DEF TypeOK, Locations
  <2>2. \A u \in Threads : /\ pc'[u] \in {"create", "enabled", "level"} <=> registryOwner' = u
                           /\ pc'[u] = "write" <=> writeOwner' = u
    BY <1>1, <1>2, <1>4 DEF TypeOK
  <2> QED BY <1>2, <1>4, <2>1, <2>2 DEF TypeOK
<1>6. Keeps(t)
  BY <1>2, <1>4, SameLoggers
<1>7. Alone(t)
  BY <1>1, <1>2, <1>4 DEF Alone, TypeOK
<1>8. LoggersInv'
  <2>1. \A u \in Threads : pc[u] \in Initialising => pc'[u] \in Initialising /\ state'[u] = state[u]
    BY <1>1, <1>2, <1>4 DEF TypeOK, Initialising
  <2> QED BY <1>2, <1>4, <2>1, CalmLoggers DEF TypeOK
<1>9. ThreadInv(t)'
  <2>1. /\ call'[t] = m /\ pc'[t] = (IF m.op = "payload" THEN "payload" ELSE "registry")
        /\ calls'[t] = calls[t] + 1 /\ state'[t] = 0 /\ calls[t] \in 0..MaxCalls
    BY <1>1, <1>2, <1>4 DEF TypeOK
  <2>2. calls'[t] \in 1..MaxCalls
    BY <1>2, <1>3, <2>1
  <2> QED BY <2>1, <2>2 DEF ThreadInv, Initialising, Entered, Writing
<1> QED BY <1>2, <1>5, <1>6, <1>7, <1>8, <1>9, StepKeeps

(* A call that returns leaves what ReturnInv says of it.  It works with the logger *)
(* of its id, has told it of ngen if it was asked to, and took the path that the *)
(* logger's settings, or its destination, demand.                            *)
LEMMA ReturnKeeps ==
  ASSUME Inv, NEW t \in Threads, NEW path \in Paths, Return(t, path),
         pc[t] \notin {"idle", "registry", "create"} \cup Initialising,
         UNCHANGED <<world, loggers, registryOwner, threadVars>>,
         UNCHANGED <<env, exported>> \/ Exports,
         out' \in [Sinks -> Seq(Pieces)],
         writeOwner' = IF pc[t] = "write" THEN Nobody ELSE writeOwner,
         Joins(call[t]) => pc[t] = "entered",
         path \in Ids \cup {"stdout"} =>
           /\ pc[t] = "write" /\ state[t] # 0 /\ LoggerOf(t).file # "none"
           /\ path = IF LoggerOf(t).file = "file" THEN call[t].id ELSE "stdout",
         path = "filtered" => state[t] # 0 /\ call[t].level < LoggerOf(t).level
  PROVE  Inv' /\ Keeps(t) /\ Alone(t)
<1> DEFINE new == [by |-> t, n |-> calls[t], req |-> call[t], path |-> path, logger |-> state[t]]
<1>1. /\ pc' = [pc EXCEPT ![t] = "idle"] /\ returned' = returned \cup {new}
      /\ UNCHANGED <<world, loggers, registryOwner, call, calls, state, todo>>
  BY DEF Return, Goto, threadVars
<1>2. TypeOK /\ ThreadInv(t)
  BY DEF Inv
<1>3. /\ new.by = t /\ new.n = calls[t] /\ new.req = call[t] /\ new.path = path
      /\ new.logger = state[t]
  OBVIOUS
<1>4. new \in Returns
  BY <1>2 DEF ThreadInv, TypeOK, Returns
<1> HIDE DEF new
<1>5. TypeOK'
  <2>1. env' \in Environment /\ exported' \in BOOLEAN
    <3>1. CASE UNCHANGED <<env, exported>>
      BY <1>2, <3>1 DEF TypeOK
    <3>2. CASE Exports
      <4>1. exported' = TRUE
        BY <3>2 DEF Exports
      <4> QED BY <1>2, <3>2, <4>1, ExportTypes
    <3> QED BY <3>1, <3>2
  <2>2. pc' \in [Threads -> Locations]
    BY <1>1, <1>2 DEF TypeOK, Locations
  <2>3. \A u \in Threads : pc'[u] \in {"create", "enabled", "level"} <=> registryOwner' = u
    BY <1>1, <1>2 DEF TypeOK, Initialising
  <2>4. \A u \in Threads : pc'[u] = "write" <=> writeOwner' = u
    BY <1>1, <1>2, ConstantsAssumption DEF TypeOK
  <2>5. writeOwner' \in Threads \cup {Nobody}
    BY <1>2 DEF TypeOK
  <2> QED BY <1>1, <1>2, <2>1, <2>2, <2>3, <2>4, <2>5 DEF TypeOK
<1>6. Keeps(t)
  BY <1>1, <1>2, SameLoggers
<1>7. Alone(t)
  <2>1. Standalone(new) => pc[t] = "write"
    BY <1>3 DEF Standalone
  <2>2. exported => exported'
    BY DEF Exports
  <2>3. pc[t] # "idle" /\ \A u \in Threads \ {t} : pc'[u] = pc[u]
    BY <1>1, <1>2 DEF TypeOK
  <2> QED BY <1>1, <1>3, <2>1, <2>2, <2>3 DEF Alone
<1>8. LoggersInv'
  <2>1. \A u \in Threads : pc[u] \in Initialising => pc'[u] \in Initialising /\ state'[u] = state[u]
    BY <1>1, <1>2 DEF TypeOK
  <2> QED BY <1>1, <1>2, <2>1, CalmLoggers DEF TypeOK
<1>9. ThreadInv(t)'
  <2>1. pc'[t] = "idle"
    BY <1>1, <1>2 DEF TypeOK
  <2> QED BY <1>1, <1>2, <2>1 DEF ThreadInv, LoggerOf, Initialising, Entered, Writing
<1>10. ASSUME NEW r \in returned' \ returned PROVE ReturnInv(r)'
  <2>0. r = new
    BY <1>1
  <2>1. pc'[t] = "idle" /\ calls[t] \in Nat
    BY <1>1, <1>2 DEF TypeOK
  <2>2. r.n <= calls'[r.by] /\ (pc'[r.by] # "idle" => r.n < calls'[r.by])
    BY <1>1, <1>3, <2>0, <2>1
  <2>3. r.logger # 0 => loggers'[r.logger].id = r.req.id
    BY <1>1, <1>2, <1>3, <2>0 DEF ThreadInv, LoggerOf
  <2>4. Joins(r.req) => r.logger # 0 /\ loggers'[r.logger].useNgen
    BY <1>1, <1>2, <1>3, <2>0 DEF ThreadInv, LoggerOf, Entered
  <2>5. Standalone(r) =>
          /\ r.logger # 0 /\ loggers'[r.logger].file # "none"
          /\ r.path = IF loggers'[r.logger].file = "file" THEN r.req.id ELSE "stdout"
    BY <1>1, <1>3, <2>0 DEF Standalone, LoggerOf
  <2>6. r.path = "filtered" => r.logger # 0 /\ r.req.level < loggers'[r.logger].level
    BY <1>1, <1>3, <2>0 DEF LoggerOf
  <2>7. r \in Returns'
    BY <1>1, <1>4, <2>0 DEF Returns
  <2> QED BY <2>2, <2>3, <2>4, <2>5, <2>6, <2>7 DEF ReturnInv, Standalone
<1> QED BY <1>1, <1>5, <1>6, <1>7, <1>8, <1>9, <1>10, StepKeeps

(* EwtsInit and the queries return: the logger knows of the bridge by then.     *)
LEMMA ReturnLoggerKeeps ==
  ASSUME NEW t \in Threads
  PROVE  Inv /\ ReturnLogger(t) => Inv' /\ Keeps(t) /\ Alone(t)
<1> SUFFICES ASSUME Inv, ReturnLogger(t) PROVE Inv' /\ Keeps(t) /\ Alone(t)
  OBVIOUS
<1>1. /\ pc[t] = "entered" /\ Return(t, "done")
      /\ UNCHANGED <<world, env, exported, loggers, registryOwner, writeOwner, threadVars, out>>
  BY DEF ReturnLogger
<1>2. "done" \in Paths /\ "done" \notin Ids \cup {"stdout"}
  BY ConstantsAssumption DEF Paths
<1>3. out \in [Sinks -> Seq(Pieces)]
  BY DEF Inv, TypeOK
<1> QED BY <1>1, <1>2, <1>3, ReturnKeeps DEF Initialising

(* A discarded message has met the settings its logger has for good.            *)
LEMMA DiscardKeeps ==
  ASSUME NEW t \in Threads
  PROVE  Inv /\ Discard(t) => Inv' /\ Keeps(t) /\ Alone(t)
<1> SUFFICES ASSUME Inv, Discard(t) PROVE Inv' /\ Keeps(t) /\ Alone(t)
  OBVIOUS
<1>1. /\ pc[t] = "entered" /\ call[t].op = "log"
      /\ \/ Return(t, "disabled")
         \/ Return(t, "filtered") /\ call[t].level < LoggerOf(t).level
      /\ UNCHANGED <<world, env, exported, loggers, registryOwner, writeOwner, threadVars, out>>
  BY DEF Discard, LoggerOf
<1>2. /\ {"disabled", "filtered"} \subseteq Paths
      /\ "disabled" \notin Ids \cup {"stdout"} /\ "filtered" \notin Ids \cup {"stdout"}
  BY ConstantsAssumption DEF Paths
<1>3. out \in [Sinks -> Seq(Pieces)]
  BY DEF Inv, TypeOK
<1>4. ~Joins(call[t]) /\ pc[t] \notin {"idle", "registry", "create"} \cup Initialising
  BY <1>1 DEF Joins, Initialising
<1>5. state[t] # 0
  BY <1>1 DEF Inv, ThreadInv, Entered
<1>6. writeOwner' = IF pc[t] = "write" THEN Nobody ELSE writeOwner
  BY <1>1
<1>7. CASE Return(t, "disabled")
  BY <1>1, <1>2, <1>3, <1>4, <1>6, <1>7, ReturnKeeps
<1>8. CASE Return(t, "filtered") /\ call[t].level < LoggerOf(t).level
  BY <1>1, <1>2, <1>3, <1>4, <1>5, <1>6, <1>8, ReturnKeeps
<1> QED BY <1>1, <1>7, <1>8

(* Pieces of a call are pieces.                                                *)
LEMMA PieceType ==
  ASSUME Inv, NEW t \in Threads, pc[t] # "idle", NEW line \in Nat
  PROVE  Piece(t, line) \in Pieces
<1>1. calls[t] \in 1..MaxCalls /\ call[t].id \in Ids
  BY DEF Inv, ThreadInv, TypeOK, Request
<1> QED BY <1>1 DEF Piece, Pieces

(* A call has finitely many lines.                                             *)
LEMMA LinesFinite ==
  ASSUME Inv, NEW t \in Threads
  PROVE  /\ LinesOf(call[t]) \subseteq Nat /\ IsFiniteSet(LinesOf(call[t]))
         /\ LinesOf(call[t]) # {}
<1>1. call[t] \in Sends[t] /\ call[t] \in Request
  BY ConstantsAssumption DEF Inv, ThreadInv, TypeOK
<1>2. IsFiniteSet(call[t].lines) /\ call[t].lines \subseteq Nat /\ IsFiniteSet({0})
  BY <1>1, ConstantsAssumption, FS_Singleton DEF Request
<1> QED BY <1>2 DEF LinesOf

(* A message that ngen takes is not standalone.                                 *)
LEMMA CallBridgeKeeps ==
  ASSUME NEW t \in Threads
  PROVE  Inv /\ CallBridge(t) => Inv' /\ Keeps(t) /\ Alone(t)
<1> SUFFICES ASSUME Inv, CallBridge(t) PROVE Inv' /\ Keeps(t) /\ Alone(t)
  OBVIOUS
<1>1. /\ pc[t] = "bridge" /\ out' = [out EXCEPT !["ngen"] = @ \o Whole(t, todo[t])]
      /\ Exports /\ Return(t, "ngen")
      /\ UNCHANGED <<world, loggers, registryOwner, writeOwner, threadVars>>
  BY DEF CallBridge
<1>2. call[t].op = "log" /\ todo[t] \subseteq LinesOf(call[t])
  BY <1>1 DEF Inv, ThreadInv
<1>3. todo[t] \in SUBSET Nat /\ IsFiniteSet(todo[t])
  BY <1>2, LinesFinite, FS_Subset
<1>4. Sorted(todo[t]) \in Seq(Nat)
  <2>1. Sorted(todo[t]) \in Seq(todo[t])
    BY <1>3, SortedIsSorted
  <2> QED BY <1>3, <2>1
<1>5. Whole(t, todo[t]) \in Seq(Pieces)
  <2> DEFINE s == Sorted(todo[t])
  <2>1. \A i \in 1..Len(s) : Piece(t, s[i]) \in Pieces
    BY <1>1, <1>4, PieceType
  <2>2. Whole(t, todo[t]) = [i \in 1..Len(s) |-> Piece(t, s[i])] /\ Len(s) \in Nat
    BY <1>4 DEF Whole
  <2> HIDE DEF s
  <2> QED BY <2>1, <2>2
<1>6. out' \in [Sinks -> Seq(Pieces)]
  <2>1. out \in [Sinks -> Seq(Pieces)] /\ "ngen" \in Sinks
    BY DEF Inv, TypeOK, Sinks
  <2>2. out["ngen"] \o Whole(t, todo[t]) \in Seq(Pieces)
    BY <1>5, <2>1
  <2> QED BY <1>1, <2>1, <2>2
<1>7. "ngen" \in Paths /\ "ngen" \notin Ids \cup {"stdout"}
  BY ConstantsAssumption DEF Paths, Sinks
<1>8. ~Joins(call[t])
  BY <1>2 DEF Joins
<1> QED BY <1>1, <1>6, <1>7, <1>8, ReturnKeeps DEF Initialising

(* A payload has no logger.                                                     *)
LEMMA SendPayloadKeeps ==
  ASSUME NEW t \in Threads
  PROVE  Inv /\ SendPayload(t) => Inv' /\ Keeps(t) /\ Alone(t)
<1> SUFFICES ASSUME Inv, SendPayload(t) PROVE Inv' /\ Keeps(t) /\ Alone(t)
  OBVIOUS
<1>1. /\ pc[t] = "payload"
      /\ UNCHANGED <<world, loggers, registryOwner, writeOwner, threadVars>>
      /\ \/ /\ out' = [out EXCEPT !["ngen"] = Append(@, Piece(t, 0))]
            /\ Exports /\ Return(t, "ngen")
         \/ Return(t, "dropped") /\ UNCHANGED <<env, exported, out>>
  BY DEF SendPayload
<1>2. call[t].op = "payload"
  BY <1>1 DEF Inv, ThreadInv
<1>3. out \in [Sinks -> Seq(Pieces)] /\ "ngen" \in Sinks
  BY DEF Inv, TypeOK, Sinks
<1>4. /\ {"ngen", "dropped"} \subseteq Paths
      /\ "ngen" \notin Ids \cup {"stdout"} /\ "dropped" \notin Ids \cup {"stdout"}
  BY ConstantsAssumption DEF Paths, Sinks
<1>5. ~Joins(call[t]) /\ pc[t] \notin {"idle", "registry", "create"} \cup Initialising
  BY <1>1, <1>2 DEF Joins, Initialising
<1>6. CASE /\ out' = [out EXCEPT !["ngen"] = Append(@, Piece(t, 0))]
           /\ Exports /\ Return(t, "ngen")
  <2>1. Append(out["ngen"], Piece(t, 0)) \in Seq(Pieces)
    BY <1>1, <1>3, PieceType
  <2>2. out' \in [Sinks -> Seq(Pieces)]
    BY <1>3, <1>6, <2>1
  <2> QED BY <1>1, <1>4, <1>5, <1>6, <2>2, ReturnKeeps
<1>7. CASE Return(t, "dropped") /\ UNCHANGED <<env, exported, out>>
  BY <1>1, <1>3, <1>4, <1>5, <1>7, ReturnKeeps
<1> QED BY <1>1, <1>6, <1>7

(* A standalone message returns with the open destination of its logger.        *)
LEMMA UnlockWriteKeeps ==
  ASSUME NEW t \in Threads
  PROVE  Inv /\ UnlockWrite(t) => Inv' /\ Keeps(t) /\ Alone(t)
<1> SUFFICES ASSUME Inv, UnlockWrite(t) PROVE Inv' /\ Keeps(t) /\ Alone(t)
  OBVIOUS
<1>1. /\ pc[t] = "write" /\ writeOwner' = Nobody /\ Return(t, SinkOf(t))
      /\ UNCHANGED <<world, env, exported, loggers, registryOwner, threadVars, out>>
  BY DEF UnlockWrite
<1>2. /\ state[t] # 0 /\ LoggerOf(t).file # "none" /\ call[t].op = "log"
      /\ call[t].id \in Ids /\ out \in [Sinks -> Seq(Pieces)]
  BY <1>1 DEF Inv, ThreadInv, Entered, Writing, TypeOK, Request
<1>3. /\ SinkOf(t) = IF LoggerOf(t).file = "file" THEN call[t].id ELSE "stdout"
      /\ SinkOf(t) \in Paths /\ SinkOf(t) # "filtered"
  BY <1>2, ConstantsAssumption DEF SinkOf, LoggerOf, Paths, Sinks
<1>4. ~Joins(call[t])
  BY <1>2 DEF Joins
<1> QED BY <1>1, <1>2, <1>3, <1>4, ReturnKeeps DEF Initialising

(* A step that only moves t, and returns to nobody, keeps the rest.              *)
LEMMA MoveAlone ==
  ASSUME TypeOK, NEW t \in Threads, pc[t] # "idle",
         NEW where \in Locations, pc' = [pc EXCEPT ![t] = where],
         UNCHANGED <<world, call, calls, returned>>, exported' = exported,
         \A u \in Threads \ {t} : state'[u] = state[u] /\ todo'[u] = todo[u],
         state'[t] \in {0, state[t]} \/ registryOwner = Nobody \/ pc[t] = "create"
  PROVE  Alone(t)
BY DEF Alone, TypeOK

(* Who finds no logger holds the mutex: none can be added meanwhile.            *)
LEMMA MissLoggerKeeps ==
  ASSUME NEW t \in Threads
  PROVE  Inv /\ MissLogger(t) => Inv' /\ Keeps(t) /\ Alone(t)
<1> SUFFICES ASSUME Inv, MissLogger(t) PROVE Inv' /\ Keeps(t) /\ Alone(t)
  OBVIOUS
<1>1. /\ pc[t] = "registry" /\ registryOwner = Nobody /\ Named(call[t].id) = {}
      /\ registryOwner' = t /\ pc' = [pc EXCEPT ![t] = "create"]
      /\ UNCHANGED <<world, env, exported, loggers, writeOwner, call, calls, state, todo>>
      /\ UNCHANGED <<out, returned>>
  BY DEF MissLogger, RegistryFree, Goto, threadVars
<1>2. TypeOK /\ ThreadInv(t)
  BY DEF Inv
<1>3. TypeOK'
  <2>1. pc' \in [Threads -> Locations]
    BY <1>1, <1>2 DEF TypeOK, Locations
  <2>2. \A u \in Threads : /\ pc'[u] \in {"create", "enabled", "level"} <=> registryOwner' = u
                           /\ pc'[u] = "write" <=> writeOwner' = u
    BY <1>1, <1>2, ConstantsAssumption DEF TypeOK
  <2> QED BY <1>1, <1>2, <2>1, <2>2 DEF TypeOK
<1>4. Keeps(t)
  BY <1>1, <1>2, SameLoggers
<1>5. Alone(t)
  BY <1>1, <1>2, MoveAlone DEF Locations
<1>6. LoggersInv'
  <2>1. \A u \in Threads : pc[u] \in Initialising => pc'[u] \in Initialising /\ state'[u] = state[u]
    BY <1>1, <1>2 DEF TypeOK, Initialising
  <2> QED BY <1>1, <1>2, <2>1, CalmLoggers DEF TypeOK
<1>7. ThreadInv(t)'
  <2>1. pc'[t] = "create"
    BY <1>1, <1>2 DEF TypeOK
  <2>2. Named(call[t].id)' = {}
    BY <1>1 DEF Named
  <2> QED BY <1>1, <1>2, <2>1, <2>2 DEF ThreadInv, LoggerOf, Initialising, Entered, Writing
<1> QED BY <1>1, <1>3, <1>4, <1>5, <1>6, <1>7, StepKeeps

(* The logger that is found is the one of the id, and is told of the bridge.    *)
LEMMA FindLoggerKeeps ==
  ASSUME NEW t \in Threads
  PROVE  Inv /\ FindLogger(t) => Inv' /\ Keeps(t) /\ Alone(t)
<1> SUFFICES ASSUME Inv, FindLogger(t) PROVE Inv' /\ Keeps(t) /\ Alone(t)
  OBVIOUS
<1>1. /\ pc[t] = "registry" /\ registryOwner = Nobody /\ pc' = [pc EXCEPT ![t] = "entered"]
      /\ UNCHANGED <<world, env, exported, registryOwner, writeOwner, call, calls, todo>>
      /\ UNCHANGED <<out, returned>>
  BY DEF FindLogger, RegistryFree, Goto
<1>2. PICK i \in Named(call[t].id) :
        /\ loggers' = [loggers EXCEPT ![i].useNgen = UsesNgen(loggers[i], call[t])]
        /\ state' = [state EXCEPT ![t] = i]
  BY DEF FindLogger
<1>3. TypeOK /\ ThreadInv(t)
  BY DEF Inv
<1>4. /\ loggers \in Seq(LoggerState) /\ Len(loggers) \in Nat /\ DOMAIN loggers = 1..Len(loggers)
      /\ i \in 1..Len(loggers) /\ loggers[i].id = call[t].id /\ loggers[i] \in LoggerState
      /\ call[t] \in Request
  BY <1>3 DEF Named, TypeOK
<1> DEFINE new == [loggers[i] EXCEPT !.useNgen = UsesNgen(loggers[i], call[t])]
<1>5. /\ new \in LoggerState /\ (loggers[i].useNgen \/ Joins(call[t]) => new.useNgen)
      /\ new.id = loggers[i].id /\ new.enabled = loggers[i].enabled /\ new.level = loggers[i].level
      /\ new.file = loggers[i].file /\ new.fresh = loggers[i].fresh
  BY <1>4 DEF LoggerState, UsesNgen, Request, Joins
<1>6. /\ loggers' = [loggers EXCEPT ![i] = new]
      /\ loggers' \in Seq(LoggerState) /\ Len(loggers') = Len(loggers)
      /\ loggers'[i] = new /\ \A j \in 1..Len(loggers) : j # i => loggers'[j] = loggers[j]
  BY <1>2, <1>4, <1>5
<1> HIDE DEF new
<1>7. TypeOK'
  <2>1. pc' \in [Threads -> Locations] /\ state' \in [Threads -> 0..Len(loggers')]
    BY <1>1, <1>2, <1>3, <1>4, <1>6 DEF TypeOK, Locations
  <2>2. \A u \in Threads : /\ pc'[u] \in {"create", "enabled", "level"} <=> registryOwner' = u
                           /\ pc'[u] = "write" <=> writeOwner' = u
    BY <1>1, <1>3, ConstantsAssumption DEF TypeOK
  <2> QED BY <1>1, <1>3, <1>6, <2>1, <2>2 DEF TypeOK
<1>8. Keeps(t)
  BY <1>4, <1>5, <1>6 DEF Keeps
<1>9. Alone(t)
  <2>1. \A u \in Threads \ {t} : state'[u] = state[u] /\ todo'[u] = todo[u]
    BY <1>1, <1>2, <1>3 DEF TypeOK
  <2> QED BY <1>1, <1>3, <2>1, MoveAlone DEF Locations
<1>10. LoggersInv'
  <2>1. \A u \in Threads : pc[u] \in Initialising => pc'[u] \in Initialising /\ state'[u] = state[u]
    BY <1>1, <1>2, <1>3 DEF TypeOK, Initialising
  <2>2. \A j \in 1..Len(loggers) :
          /\ loggers'[j].id = loggers[j].id /\ loggers'[j].level = loggers[j].level
          /\ loggers'[j].fresh = loggers[j].fresh
    BY <1>5, <1>6
  <2> QED BY <1>1, <1>6, <2>1, <2>2, CalmLoggers
<1>11. ThreadInv(t)'
  <2>1. pc'[t] = "entered" /\ state'[t] = i
    BY <1>1, <1>2, <1>3 DEF TypeOK
  <2>2. loggers'[i].id = call[t].id /\ (Joins(call[t]) => loggers'[i].useNgen)
    BY <1>4, <1>5, <1>6
  <2> QED BY <1>1, <1>3, <1>4, <2>1, <2>2 DEF ThreadInv, LoggerOf, Initialising, Entered, Writing
<1> QED BY <1>1, <1>7, <1>8, <1>9, <1>10, <1>11, StepKeeps

(* A new logger is of an id that had none, and no other thread has it yet.      *)
LEMMA CreateLoggerKeeps ==
  ASSUME NEW t \in Threads
  PROVE  Inv /\ CreateLogger(t) => Inv' /\ Keeps(t) /\ Alone(t)
<1> SUFFICES ASSUME Inv, CreateLogger(t) PROVE Inv' /\ Keeps(t) /\ Alone(t)
  OBVIOUS
<1> DEFINE new == [id |-> call[t].id, useNgen |-> call[t].op = "init" /\ call[t].bridge,
                   enabled |-> TRUE, level |-> INFO, file |-> "none", fresh |-> FALSE]
           n == Len(loggers) + 1
<1>1. /\ pc[t] = "create" /\ pc' = [pc EXCEPT ![t] = "enabled"]
      /\ loggers' = Append(loggers, new) /\ state' = [state EXCEPT ![t] = n]
      /\ UNCHANGED <<world, env, exported, registryOwner, writeOwner, call, calls, todo>>
      /\ UNCHANGED <<out, returned>>
  BY DEF CreateLogger, Goto
<1>2. TypeOK /\ ThreadInv(t)
  BY DEF Inv
<1>3. /\ loggers \in Seq(LoggerState) /\ Len(loggers) \in Nat /\ DOMAIN loggers = 1..Len(loggers)
      /\ call[t] \in Request /\ call[t].id \in Ids
  BY <1>2 DEF TypeOK, Request
<1>4. /\ new \in LoggerState /\ new.id = call[t].id /\ new.fresh = FALSE
      /\ (Joins(call[t]) => new.useNgen)
  BY <1>3 DEF LoggerState, Files, INFO, Joins
<1> HIDE DEF new
<1>5. /\ loggers' \in Seq(LoggerState) /\ Len(loggers') = n /\ loggers'[n] = new
      /\ \A i \in 1..Len(loggers) : loggers'[i] = loggers[i]
      /\ n \in Nat \ {0} /\ DOMAIN loggers' = 1..n
  BY <1>1, <1>3, <1>4
<1>6. \A u \in Threads : state[u] \in 0..Len(loggers)
  BY <1>2 DEF TypeOK
<1>7. TypeOK'
  <2>1. pc' \in [Threads -> Locations]
    BY <1>1, <1>2 DEF TypeOK, Locations
  <2>2. state' \in [Threads -> 0..Len(loggers')]
    BY <1>1, <1>2, <1>3, <1>5 DEF TypeOK
  <2>3. \A u \in Threads : /\ pc'[u] \in {"create", "enabled", "level"} <=> registryOwner' = u
                           /\ pc'[u] = "write" <=> writeOwner' = u
    BY <1>1, <1>2 DEF TypeOK
  <2> QED BY <1>1, <1>2, <1>5, <2>1, <2>2, <2>3 DEF TypeOK
<1>8. Keeps(t)
  BY <1>1, <1>3, <1>5 DEF Keeps
<1>9. Alone(t)
  <2>1. \A u \in Threads \ {t} : state'[u] = state[u] /\ todo'[u] = todo[u]
    BY <1>1, <1>2 DEF TypeOK
  <2> QED BY <1>1, <1>2, <2>1, MoveAlone DEF Locations
<1>10. LoggersInv'
  <2>1. DistinctIds'
    <3>1. \A i \in 1..Len(loggers) : loggers[i].id # call[t].id
      BY <1>1, <1>2, <1>3 DEF ThreadInv, Named
    <3>2. DistinctIds
      BY DEF Inv, LoggersInv
    <3>3. \A i \in 1..n : i = n \/ i \in 1..Len(loggers)
      BY <1>3
    <3> QED BY <1>3, <1>4, <1>5, <3>1, <3>2, <3>3 DEF DistinctIds
  <2>2. ExportedByNgen'
    BY <1>1 DEF Inv, LoggersInv, ExportedByNgen
  <2>3. FreshLevels'
    <3> SUFFICES ASSUME NEW i \in 1..n,
                        loggers'[i].fresh, world.ngenLevel[loggers'[i].id] # NOTSET,
                        \A u \in Threads : pc'[u] \in Initialising => state'[u] # i
                 PROVE  loggers'[i].level = world.ngenLevel[loggers'[i].id]
      BY <1>1, <1>5 DEF FreshLevels
    <3>1. i \in 1..Len(loggers) /\ loggers'[i] = loggers[i]
      BY <1>3, <1>4, <1>5
    <3>2. \A u \in Threads : pc[u] \in Initialising => state[u] # i
      BY <1>1, <1>2 DEF TypeOK, Initialising
    <3> QED BY <1>3, <3>1, <3>2 DEF Inv, LoggersInv, FreshLevels
  <2> QED BY <2>1, <2>2, <2>3 DEF LoggersInv
<1>11. ThreadInv(t)'
  <2>1. pc'[t] = "enabled" /\ state'[t] = n
    BY <1>1, <1>2 DEF TypeOK
  <2>2. \A u \in Threads \ {t} : state'[u] # n
    BY <1>1, <1>2, <1>3, <1>6 DEF TypeOK
  <2>3. \A r \in returned' : r.logger # n
    <3>1. \A r \in returned : r.logger \in 0..Len(loggers)
      BY DEF Inv, ReturnInv, Returns
    <3> QED BY <1>1, <1>3, <3>1
  <2>4. loggers'[n].id = call'[t].id /\ (Joins(call'[t]) => loggers'[n].useNgen)
    BY <1>1, <1>4, <1>5
  <2>5. n # 0 /\ call'[t] \in Sends[t] /\ calls'[t] \in 1..MaxCalls /\ call'[t].op # "payload"
    BY <1>1, <1>2, <1>3 DEF ThreadInv
  <2> HIDE DEF n
  <2> QED BY <2>1, <2>2, <2>3, <2>4, <2>5 DEF ThreadInv, LoggerOf, Initialising, Entered, Writing
<1> QED BY <1>1, <1>7, <1>8, <1>9, <1>10, <1>11, StepKeeps

(* The first half of the settings: fresh says whether they are those of ngen.   *)
LEMMA ReadEnabledKeeps ==
  ASSUME NEW t \in Threads
  PROVE  Inv /\ ReadEnabled(t) => Inv' /\ Keeps(t) /\ Alone(t)
<1> SUFFICES ASSUME Inv, ReadEnabled(t) PROVE Inv' /\ Keeps(t) /\ Alone(t)
  OBVIOUS
<1> DEFINE s == state[t]
           new == [loggers[s] EXCEPT !.enabled = env.enabled, !.fresh = exported]
<1>1. /\ pc[t] = "enabled" /\ pc' = [pc EXCEPT ![t] = "level"]
      /\ loggers' = [loggers EXCEPT ![s] = new]
      /\ UNCHANGED <<world, env, exported, registryOwner, writeOwner, call, calls, state, todo>>
      /\ UNCHANGED <<out, returned>>
  BY DEF ReadEnabled, Goto, threadVars
<1>2. TypeOK /\ ThreadInv(t)
  BY DEF Inv
<1>3. /\ loggers \in Seq(LoggerState) /\ Len(loggers) \in Nat /\ DOMAIN loggers = 1..Len(loggers)
      /\ s \in 1..Len(loggers) /\ loggers[s] \in LoggerState
      /\ env.enabled \in BOOLEAN /\ exported \in BOOLEAN
  BY <1>1, <1>2 DEF TypeOK, ThreadInv, Initialising, Environment
<1>4. /\ new \in LoggerState /\ (loggers[s].useNgen => new.useNgen) /\ new.fresh = exported
      /\ new.id = loggers[s].id /\ new.file = loggers[s].file
  BY <1>3 DEF LoggerState
<1> HIDE DEF new
<1>5. /\ loggers' \in Seq(LoggerState) /\ Len(loggers') = Len(loggers)
      /\ loggers'[s] = new /\ \A i \in 1..Len(loggers) : i # s => loggers'[i] = loggers[i]
      /\ DOMAIN loggers' = 1..Len(loggers)
  BY <1>1, <1>3, <1>4
<1>6. \A i \in 1..Len(loggers) :
        loggers'[i].id = loggers[i].id /\ loggers'[i].file = loggers[i].file
  BY <1>4, <1>5
<1>7. pc'[t] = "level" /\ \A u \in Threads \ {t} : pc'[u] = pc[u]
  BY <1>1, <1>2 DEF TypeOK
<1>8. TypeOK'
  <2>1. pc' \in [Threads -> Locations]
    BY <1>1, <1>2 DEF TypeOK, Locations
  <2>2. \A u \in Threads : /\ pc'[u] \in {"create", "enabled", "level"} <=> registryOwner' = u
                           /\ pc'[u] = "write" <=> writeOwner' = u
    BY <1>1, <1>2, <1>7 DEF TypeOK
  <2> QED BY <1>1, <1>2, <1>5, <2>1, <2>2 DEF TypeOK
<1>9. Keeps(t)
  BY <1>1, <1>3, <1>4, <1>5 DEF Keeps, Initialising
<1>10. Alone(t)
  BY <1>1, <1>2, MoveAlone DEF Locations
<1>11. LoggersInv'
  <2>0. DistinctIds'
    BY <1>3, <1>5, <1>6 DEF Inv, LoggersInv, DistinctIds
  <2>1. ExportedByNgen'
    BY <1>1 DEF Inv, LoggersInv, ExportedByNgen
  <2>2. FreshLevels'
    <3> SUFFICES ASSUME NEW i \in 1..Len(loggers),
                        loggers'[i].fresh, world.ngenLevel[loggers'[i].id] # NOTSET,
                        \A u \in Threads : pc'[u] \in Initialising => state[u] # i
                 PROVE  loggers'[i].level = world.ngenLevel[loggers'[i].id]
      BY <1>1, <1>5 DEF FreshLevels
    <3>1. i # s
      BY <1>7 DEF Initialising
    <3>2. \A u \in Threads : pc[u] \in Initialising => state[u] # i
      BY <1>7, <3>1
    <3> QED BY <1>3, <1>5, <3>1, <3>2 DEF Inv, LoggersInv, FreshLevels
  <2> QED BY <2>0, <2>1, <2>2 DEF LoggersInv
<1>12. ThreadInv(t)'
  <2>1. loggers'[s].id = call[t].id /\ (loggers'[s].fresh => exported)
        /\ (Joins(call[t]) => loggers'[s].useNgen)
    BY <1>1, <1>2, <1>3, <1>4, <1>5 DEF ThreadInv, LoggerOf, Initialising
  <2>2. /\ s # 0 /\ call[t].op # "payload" /\ call[t] \in Sends[t] /\ calls[t] \in 1..MaxCalls
        /\ \A u \in Threads \ {t} : state[u] # s
        /\ \A r \in returned : r.logger # s
    BY <1>1, <1>2 DEF ThreadInv, Initialising
  <2> QED BY <1>1, <1>7, <2>1, <2>2 DEF ThreadInv, LoggerOf, Initialising, Entered, Writing
<1> QED BY <1>1, <1>8, <1>9, <1>10, <1>11, <1>12, StepKeeps

(* The second half: a fresh logger gets the level of ngen, unless it is NOTSET. *)
LEMMA ReadLevelKeeps ==
  ASSUME NEW t \in Threads
  PROVE  Inv /\ ReadLevel(t) => Inv' /\ Keeps(t) /\ Alone(t)
<1> SUFFICES ASSUME Inv, ReadLevel(t) PROVE Inv' /\ Keeps(t) /\ Alone(t)
  OBVIOUS
<1> DEFINE s == state[t]
           new == [loggers[s] EXCEPT !.level = InitialLevel(call[t].id)]
<1>1. /\ pc[t] = "level" /\ pc' = [pc EXCEPT ![t] = "entered"] /\ registryOwner' = Nobody
      /\ loggers' = [loggers EXCEPT ![s] = new]
      /\ UNCHANGED <<world, env, exported, writeOwner, call, calls, state, todo>>
      /\ UNCHANGED <<out, returned>>
  BY DEF ReadLevel, Goto, threadVars
<1>2. TypeOK /\ ThreadInv(t)
  BY DEF Inv
<1>3. /\ loggers \in Seq(LoggerState) /\ Len(loggers) \in Nat /\ DOMAIN loggers = 1..Len(loggers)
      /\ s \in 1..Len(loggers) /\ loggers[s] \in LoggerState
      /\ call[t].id \in Ids /\ loggers[s].id = call[t].id
  BY <1>1, <1>2 DEF TypeOK, ThreadInv, Initialising, LoggerOf, Request
<1>4. InitialLevel(call[t].id) \in Nat
  BY <1>2, <1>3, LevelTypes DEF TypeOK
<1>5. /\ new \in LoggerState /\ (loggers[s].useNgen => new.useNgen) /\ new.fresh = loggers[s].fresh
      /\ new.id = loggers[s].id /\ new.file = loggers[s].file
      /\ new.level = InitialLevel(call[t].id)
  BY <1>3, <1>4 DEF LoggerState
<1> HIDE DEF new
<1>6. /\ loggers' \in Seq(LoggerState) /\ Len(loggers') = Len(loggers)
      /\ loggers'[s] = new /\ \A i \in 1..Len(loggers) : i # s => loggers'[i] = loggers[i]
      /\ DOMAIN loggers' = 1..Len(loggers)
  BY <1>1, <1>3, <1>5
<1>7. \A i \in 1..Len(loggers) :
        loggers'[i].id = loggers[i].id /\ loggers'[i].file = loggers[i].file
  BY <1>5, <1>6
<1>8. pc'[t] = "entered" /\ \A u \in Threads \ {t} : pc'[u] = pc[u]
  BY <1>1, <1>2 DEF TypeOK
<1>9. TypeOK'
  <2>1. pc' \in [Threads -> Locations]
    BY <1>1, <1>2 DEF TypeOK, Locations
  <2>2. \A u \in Threads : /\ pc'[u] \in {"create", "enabled", "level"} <=> registryOwner' = u
                           /\ pc'[u] = "write" <=> writeOwner' = u
    BY <1>1, <1>2, <1>8, ConstantsAssumption DEF TypeOK
  <2> QED BY <1>1, <1>2, <1>6, <2>1, <2>2 DEF TypeOK
<1>10. Keeps(t)
  BY <1>1, <1>3, <1>5, <1>6 DEF Keeps, Initialising
<1>11. Alone(t)
  BY <1>1, <1>2, MoveAlone DEF Locations
<1>12. LoggersInv'
  <2>0. DistinctIds'
    BY <1>3, <1>6, <1>7 DEF Inv, LoggersInv, DistinctIds
  <2>1. ExportedByNgen'
    BY <1>1 DEF Inv, LoggersInv, ExportedByNgen
  <2>2. FreshLevels'
    <3> SUFFICES ASSUME NEW i \in 1..Len(loggers),
                        loggers'[i].fresh, world.ngenLevel[loggers'[i].id] # NOTSET,
                        \A u \in Threads : pc'[u] \in Initialising => state[u] # i
                 PROVE  loggers'[i].level = world.ngenLevel[loggers'[i].id]
      BY <1>1, <1>6 DEF FreshLevels
    <3>1. CASE i # s
      <4>1. \A u \in Threads : pc[u] \in Initialising => state[u] # i
        BY <1>8, <3>1
      <4> QED BY <1>3, <1>6, <3>1, <4>1 DEF Inv, LoggersInv, FreshLevels
    <3>2. CASE i = s
      <4>1. exported
        BY <1>1, <1>2, <1>5, <1>6, <3>2 DEF ThreadInv, LoggerOf
      <4>2. EnvLevel(env.level[call[t].id]) = world.ngenLevel[call[t].id]
        <5> DEFINE raw == env.level[call[t].id]
        <5>1. raw = [digits |-> TRUE, value |-> world.ngenLevel[call[t].id], name |-> ""]
          BY <1>3, <4>1 DEF Inv, LoggersInv, ExportedByNgen
        <5> HIDE DEF raw
        <5>2. raw.digits = TRUE /\ raw.value = world.ngenLevel[call[t].id]
          BY <5>1
        <5>3. EnvLevel(raw) = world.ngenLevel[call[t].id]
          BY <5>2 DEF EnvLevel
        <5> QED BY <5>3 DEF raw
      <4>3. world.ngenLevel[call[t].id] # NOTSET
        BY <1>3, <1>5, <1>6, <3>2
      <4>4. InitialLevel(call[t].id) = world.ngenLevel[call[t].id]
        BY <4>2, <4>3 DEF InitialLevel
      <4> QED BY <1>3, <1>5, <1>6, <3>2, <4>4
    <3> QED BY <3>1, <3>2
  <2> QED BY <2>0, <2>1, <2>2 DEF LoggersInv
<1>13. ThreadInv(t)'
  <2>1. loggers'[s].id = call[t].id /\ (Joins(call[t]) => loggers'[s].useNgen)
    BY <1>1, <1>2, <1>3, <1>5, <1>6 DEF ThreadInv, LoggerOf, Initialising
  <2>2. s # 0 /\ call[t].op # "payload" /\ call[t] \in Sends[t] /\ calls[t] \in 1..MaxCalls
    BY <1>1, <1>2 DEF ThreadInv, Initialising
  <2> QED BY <1>1, <1>8, <2>1, <2>2 DEF ThreadInv, LoggerOf, Initialising, Entered, Writing
<1> QED BY <1>1, <1>9, <1>10, <1>11, <1>12, <1>13, StepKeeps

(* A message that stays in the runtime is of an id not joined to ngen by its thread. *)
LEMMA AcceptKeeps ==
  ASSUME NEW t \in Threads
  PROVE  Inv /\ Accept(t) => Inv' /\ Keeps(t) /\ Alone(t)
<1> SUFFICES ASSUME Inv, Accept(t) PROVE Inv' /\ Keeps(t) /\ Alone(t)
  OBVIOUS
<1> DEFINE where == IF LoggerOf(t).useNgen /\ BridgeActive THEN "bridge" ELSE "wait"
<1>1. /\ pc[t] = "entered" /\ call[t].op = "log" /\ pc' = [pc EXCEPT ![t] = where]
      /\ todo' = [todo EXCEPT ![t] = LinesOf(call[t])]
      /\ UNCHANGED <<world, env, exported, loggers, registryOwner, writeOwner, call, calls, state>>
      /\ UNCHANGED <<out, returned>>
  BY DEF Accept, Goto, LoggerOf
<1>2. TypeOK /\ ThreadInv(t)
  BY DEF Inv
<1>3. where \in {"bridge", "wait"} /\ (where = "wait" /\ BridgeActive => ~LoggerOf(t).useNgen)
  OBVIOUS
<1> HIDE DEF where
<1>4. /\ pc'[t] = where /\ todo'[t] = LinesOf(call[t])
      /\ \A u \in Threads \ {t} : pc'[u] = pc[u] /\ todo'[u] = todo[u]
  BY <1>1, <1>2 DEF TypeOK
<1>5. TypeOK'
  <2>1. pc' \in [Threads -> Locations] /\ todo' \in [Threads -> SUBSET Nat]
    BY <1>1, <1>2, <1>3, LinesFinite DEF TypeOK, Locations
  <2>2. \A u \in Threads : /\ pc'[u] \in {"create", "enabled", "level"} <=> registryOwner' = u
                           /\ pc'[u] = "write" <=> writeOwner' = u
    BY <1>1, <1>2, <1>3, <1>4 DEF TypeOK
  <2> QED BY <1>1, <1>2, <2>1, <2>2 DEF TypeOK
<1>6. Keeps(t)
  BY <1>1, <1>2, SameLoggers
<1>7. Alone(t)
  BY <1>1, <1>2, <1>3, <1>4, MoveAlone DEF Locations
<1>8. LoggersInv'
  <2>1. \A u \in Threads : pc[u] \in Initialising => pc'[u] \in Initialising /\ state'[u] = state[u]
    BY <1>1, <1>4 DEF Initialising
  <2> QED BY <1>1, <1>2, <2>1, CalmLoggers DEF TypeOK
<1>9. ThreadInv(t)'
  <2>1. /\ state[t] # 0 /\ call[t] \in Sends[t] /\ calls[t] \in 1..MaxCalls
        /\ LoggerOf(t).id = call[t].id
    BY <1>1, <1>2 DEF ThreadInv, Entered
  <2>2. where = "wait" /\ BridgeActive =>
          \A r \in returned : r.by = t /\ Joins(r.req) => r.req.id # call[t].id
    <3> SUFFICES ASSUME where = "wait", BridgeActive, NEW r \in returned, Joins(r.req)
                 PROVE  r.req.id # call[t].id
      OBVIOUS
    <3>1. r.logger # 0 /\ loggers[r.logger].useNgen /\ loggers[r.logger].id = r.req.id
          /\ r.logger \in 0..Len(loggers)
      BY DEF Inv, ReturnInv, Returns
    <3>2. ~loggers[state[t]].useNgen /\ loggers[state[t]].id = call[t].id
      BY <1>3, <2>1 DEF LoggerOf
    <3>3. /\ r.logger \in DOMAIN loggers /\ state[t] \in DOMAIN loggers
      BY <1>2, <2>1, <3>1 DEF TypeOK
    <3> QED BY <3>1, <3>2, <3>3 DEF Inv, LoggersInv, DistinctIds
  <2>3. BridgeActive' = BridgeActive /\ LinesOf(call'[t]) = LinesOf(call[t])
    BY <1>1 DEF BridgeActive
  <2> QED BY <1>1, <1>3, <1>4, <2>1, <2>2, <2>3
       DEF ThreadInv, LoggerOf, Initialising, Entered, Writing
<1> QED BY <1>1, <1>5, <1>6, <1>7, <1>8, <1>9, StepKeeps

(* The first writer opens the destination, and later ones keep it.              *)
LEMMA LockWriteKeeps ==
  ASSUME NEW t \in Threads
  PROVE  Inv /\ LockWrite(t) => Inv' /\ Keeps(t) /\ Alone(t)
<1> SUFFICES ASSUME Inv, LockWrite(t) PROVE Inv' /\ Keeps(t) /\ Alone(t)
  OBVIOUS
<1> DEFINE s == state[t]
<1>1. /\ pc[t] = "wait" /\ writeOwner = Nobody /\ writeOwner' = t
      /\ pc' = [pc EXCEPT ![t] = "write"]
      /\ UNCHANGED <<world, env, exported, registryOwner, call, calls, state, todo>>
      /\ UNCHANGED <<out, returned>>
  BY DEF LockWrite, WriteFree, Goto, threadVars
<1>2. PICK file \in StandaloneFiles(loggers[s].file) :
        loggers' = [loggers EXCEPT ![s].file = file]
  BY DEF LockWrite
<1>3. TypeOK /\ ThreadInv(t)
  BY DEF Inv
<1>4. /\ loggers \in Seq(LoggerState) /\ Len(loggers) \in Nat /\ DOMAIN loggers = 1..Len(loggers)
      /\ s \in 1..Len(loggers) /\ loggers[s] \in LoggerState
  BY <1>1, <1>3 DEF TypeOK, ThreadInv, Entered, Writing
<1>5. /\ file \in Files /\ file # "none"
      /\ loggers[s].file # "none" => file = loggers[s].file
  BY <1>4 DEF StandaloneFiles, Files, LoggerState
<1> DEFINE new == [loggers[s] EXCEPT !.file = file]
<1>6. /\ new \in LoggerState /\ (loggers[s].useNgen => new.useNgen) /\ new.fresh = loggers[s].fresh
      /\ new.id = loggers[s].id /\ new.file = file /\ new.level = loggers[s].level
  BY <1>4, <1>5 DEF LoggerState
<1>7. /\ loggers' = [loggers EXCEPT ![s] = new]
      /\ loggers' \in Seq(LoggerState) /\ Len(loggers') = Len(loggers)
      /\ loggers'[s] = new /\ \A i \in 1..Len(loggers) : i # s => loggers'[i] = loggers[i]
  BY <1>2, <1>4, <1>6
<1> HIDE DEF new
<1>8. pc'[t] = "write" /\ \A u \in Threads \ {t} : pc'[u] = pc[u]
  BY <1>1, <1>3 DEF TypeOK
<1>9. TypeOK'
  <2>1. pc' \in [Threads -> Locations]
    BY <1>1, <1>3 DEF TypeOK, Locations
  <2>2. \A u \in Threads : /\ pc'[u] \in {"create", "enabled", "level"} <=> registryOwner' = u
                           /\ pc'[u] = "write" <=> writeOwner' = u
    BY <1>1, <1>3, <1>8, ConstantsAssumption DEF TypeOK
  <2> QED BY <1>1, <1>3, <1>7, <2>1, <2>2 DEF TypeOK
<1>10. Keeps(t)
  BY <1>4, <1>5, <1>6, <1>7 DEF Keeps
<1>11. Alone(t)
  BY <1>1, <1>3, MoveAlone DEF Locations
<1>12. LoggersInv'
  <2>1. \A u \in Threads : pc[u] \in Initialising => pc'[u] \in Initialising /\ state'[u] = state[u]
    BY <1>1, <1>8 DEF Initialising
  <2>2. \A j \in 1..Len(loggers) :
          /\ loggers'[j].id = loggers[j].id /\ loggers'[j].level = loggers[j].level
          /\ loggers'[j].fresh = loggers[j].fresh
    BY <1>6, <1>7
  <2> QED BY <1>1, <1>7, <2>1, <2>2, CalmLoggers
<1>13. ThreadInv(t)'
  <2>1. loggers'[s].id = call[t].id /\ loggers'[s].file # "none"
    BY <1>3, <1>4, <1>5, <1>6, <1>7 DEF ThreadInv, LoggerOf
  <2>2. /\ s # 0 /\ call[t].op = "log" /\ call[t] \in Sends[t] /\ calls[t] \in 1..MaxCalls
        /\ todo[t] \subseteq LinesOf(call[t])
        /\ BridgeActive => \A r \in returned : r.by = t /\ Joins(r.req) => r.req.id # call[t].id
    BY <1>1, <1>3, <1>4 DEF ThreadInv, Entered, Writing
  <2>3. BridgeActive' = BridgeActive /\ LinesOf(call'[t]) = LinesOf(call[t])
    BY <1>1 DEF BridgeActive
  <2> QED BY <1>1, <1>8, <2>1, <2>2, <2>3 DEF ThreadInv, LoggerOf, Initialising, Entered, Writing
<1> QED BY <1>1, <1>9, <1>10, <1>11, <1>12, <1>13, StepKeeps

(* A line that is written changes no logger.                                    *)
LEMMA WriteLineKeeps ==
  ASSUME NEW t \in Threads
  PROVE  Inv /\ WriteLine(t) => Inv' /\ Keeps(t) /\ Alone(t)
<1> SUFFICES ASSUME Inv, WriteLine(t) PROVE Inv' /\ Keeps(t) /\ Alone(t)
  OBVIOUS
<1>1. /\ pc[t] = "write"
      /\ UNCHANGED <<world, env, exported, loggers, registryOwner, writeOwner, pc, call, calls>>
      /\ UNCHANGED <<state, returned>>
  BY DEF WriteLine
<1>2. PICK line \in todo[t] :
        /\ out' = [out EXCEPT ![SinkOf(t)] = Append(@, Piece(t, line))]
        /\ todo' = [todo EXCEPT ![t] = @ \ {line}]
  BY DEF WriteLine
<1>3. TypeOK /\ ThreadInv(t)
  BY DEF Inv
<1>4. /\ todo[t] \subseteq Nat /\ todo'[t] = todo[t] \ {line}
      /\ \A u \in Threads \ {t} : todo'[u] = todo[u]
  BY <1>2, <1>3 DEF TypeOK
<1>5. TypeOK'
  <2>1. call[t].id \in Ids
    BY <1>3 DEF TypeOK, Request
  <2>2. SinkOf(t) \in Sinks /\ out \in [Sinks -> Seq(Pieces)]
    BY <1>3, <2>1 DEF SinkOf, Sinks, TypeOK
  <2>3. Append(out[SinkOf(t)], Piece(t, line)) \in Seq(Pieces)
    BY <1>1, <1>4, <2>2, PieceType
  <2>4. out' \in [Sinks -> Seq(Pieces)]
    BY <1>2, <2>2, <2>3
  <2>5. todo' \in [Threads -> SUBSET Nat]
    BY <1>2, <1>3, <1>4 DEF TypeOK
  <2> QED BY <1>1, <1>3, <2>4, <2>5 DEF TypeOK
<1>6. Keeps(t)
  BY <1>1, <1>3, SameLoggers
<1>7. Alone(t)
  BY <1>1, <1>4 DEF Alone
<1>8. LoggersInv'
  BY <1>1, <1>3, CalmLoggers DEF TypeOK
<1>9. ThreadInv(t)'
  <2>1. BridgeActive' = BridgeActive /\ LinesOf(call'[t]) = LinesOf(call[t])
    BY <1>1 DEF BridgeActive
  <2> QED BY <1>1, <1>3, <1>4, <2>1 DEF ThreadInv, LoggerOf, Initialising, Entered, Writing
<1> QED BY <1>1, <1>5, <1>6, <1>7, <1>8, <1>9, StepKeeps

(* What a thread does keeps the invariant, and what other threads rely on.        *)
LEMMA ThreadKeeps ==
  ASSUME NEW t \in Threads
  PROVE  Inv /\ (Call(t) \/ Work(t)) => Inv' /\ Keeps(t) /\ Alone(t)
<1> SUFFICES ASSUME Inv, Call(t) \/ Work(t) PROVE Inv' /\ Keeps(t) /\ Alone(t)
  OBVIOUS
<1>1. CASE Registry(t)
  BY <1>1, FindLoggerKeeps, MissLoggerKeeps, CreateLoggerKeeps, ReadEnabledKeeps,
     ReadLevelKeeps, ReturnLoggerKeeps DEF Registry
<1>2. CASE Output(t)
  BY <1>2, DiscardKeeps, AcceptKeeps, CallBridgeKeeps, SendPayloadKeeps, LockWriteKeeps,
     WriteLineKeeps, UnlockWriteKeeps DEF Output
<1> QED BY <1>1, <1>2, CallKeeps DEF Work

(* So does every step.                                                       *)
LEMMA StepInv == Inv /\ [Next]_vars => Inv'
<1> SUFFICES ASSUME Inv, [Next]_vars PROVE Inv'
  OBVIOUS
<1>1. ASSUME UNCHANGED vars PROVE Inv'
  <2>1. /\ UNCHANGED <<world, env, exported, loggers, registryOwner, writeOwner, pc, call>>
        /\ UNCHANGED <<calls, state, todo, out, returned>>
    BY <1>1 DEF vars, threadVars
  <2>2. TypeOK' /\ LoggersInv' /\ BridgeKept'
    BY <2>1 DEF Inv, TypeOK, LoggersInv, DistinctIds, ExportedByNgen, FreshLevels, BridgeKept,
                BridgeActive
  <2>3. ASSUME NEW t \in Threads PROVE ThreadInv(t)'
    BY <2>1 DEF Inv, ThreadInv, LoggerOf, Named, BridgeActive, LinesOf, Joins
  <2>4. ASSUME NEW r \in returned PROVE ReturnInv(r)'
    BY <2>1 DEF Inv, ReturnInv, Returns
  <2> QED BY <2>1, <2>2, <2>3, <2>4 DEF Inv
<1>2. CASE Finished
  BY <1>1, <1>2 DEF Finished
<1> QED BY <1>1, <1>2, ThreadKeeps, NgenInitialisesKeeps DEF Next
-----------------------------------------------------------------------------
(* What follows                                                              *)
LEMMA Invariance == Spec => []Inv
BY InitInv, StepInv, PTL DEF Spec

(* Every variable of the C runtime keeps its type, and only the thread that owns *)
(* a mutex is in the code that it protects, whatever the threads call.        *)
THEOREM TypeCorrect == Spec => []TypeOK
<1>1. Inv => TypeOK
  BY DEF Inv
<1> QED BY <1>1, Invariance, PTL

(* get_logger_state never creates two loggers for an id, and every call works   *)
(* with the logger of its own.                                              *)
THEOREM OneLoggerPerIdAlways == Spec => []OneLoggerPerId
<1>1. Inv => OneLoggerPerId
  BY DEF Inv, LoggersInv, DistinctIds, ThreadInv, LoggerOf, OneLoggerPerId
<1> QED BY <1>1, Invariance, PTL

(* Where open_standalone_file first sent the messages of an id is where all that *)
(* are written outside ngen go.                                             *)
THEOREM OneDestinationAlways == Spec => []OneDestination
<1>1. Inv => OneDestination
  <2> SUFFICES ASSUME Inv, NEW r1 \in returned, NEW r2 \in returned,
                      Standalone(r1), Standalone(r2), r1.req.id = r2.req.id
               PROVE  r1.path = r2.path
    BY DEF OneDestination
  <2>1. ReturnInv(r1) /\ ReturnInv(r2) /\ DistinctIds /\ DOMAIN loggers = 1..Len(loggers)
    BY DEF Inv, LoggersInv, TypeOK
  <2>2. r1.logger \in DOMAIN loggers /\ r2.logger \in DOMAIN loggers
    BY <2>1 DEF ReturnInv, Returns
  <2>3. r1.logger = r2.logger
    BY <2>1, <2>2 DEF ReturnInv, DistinctIds
  <2> QED BY <2>1, <2>3 DEF ReturnInv
<1> QED BY <1>1, Invariance, PTL

(* After EwtsInit(id, true) has returned in a process with ngen, no message of the *)
(* same thread for the id is written standalone.                             *)
THEOREM BridgeKeptAlways == Spec => []BridgeKept
<1>1. Inv => BridgeKept
  BY DEF Inv
<1> QED BY <1>1, Invariance, PTL

(* A logger that was initialised after ngen exported its levels filters nothing  *)
(* that ngen would let through.                                             *)
THEOREM AdoptsNgenLevelsAlways == Spec => []AdoptsNgenLevels
<1>1. Inv => AdoptsNgenLevels
  <2> SUFFICES ASSUME Inv, NEW r \in returned, r.path = "filtered",
                      loggers[r.logger].fresh, world.ngenLevel[r.req.id] # NOTSET
               PROVE  r.req.level < world.ngenLevel[r.req.id]
    BY DEF AdoptsNgenLevels
  <2>1. /\ r.logger # 0 /\ loggers[r.logger].id = r.req.id /\ r.logger \in 0..Len(loggers)
        /\ r.req.level < loggers[r.logger].level
    BY DEF Inv, ReturnInv, Returns
  <2>2. r.logger \in DOMAIN loggers
    BY <2>1 DEF Inv, TypeOK
  <2>3. \A t \in Threads : pc[t] \in Initialising => state[t] # r.logger
    BY DEF Inv, ThreadInv
  <2>4. loggers[r.logger].level = world.ngenLevel[loggers[r.logger].id]
    BY <2>2, <2>1, <2>3 DEF Inv, LoggersInv, FreshLevels
  <2> QED BY <2>1, <2>4
<1> QED BY <1>1, Invariance, PTL
=============================================================================
