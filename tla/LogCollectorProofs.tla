-------------------------- MODULE LogCollectorProofs --------------------------
(***************************************************************************)
(* Proofs about LogCollector for every set of threads, every array bound   *)
(* and trim size, every window and every clock range.                      *)
(***************************************************************************)
EXTENDS LogCollector, FiniteSetTheorems, SequenceTheorems, TLAPS

\* Trimming a sequence of entries leaves a sequence of entries: the tail of the
\* old one (log:level:, the removal at the front of _logs).
LEMMA TrimmedTail ==
  ASSUME NEW S, NEW s \in Seq(S)
  PROVE  /\ Trimmed(s) \in Seq(S)
         /\ Len(s) <= MaxEntries => Trimmed(s) = s
         /\ Len(s) > MaxEntries => Len(Trimmed(s)) = Len(s) - TrimCount
         /\ \A i \in 1 .. Len(Trimmed(s)) : Trimmed(s)[i] = s[Len(s) - Len(Trimmed(s)) + i]
<1> USE SizeAssumption
<1>0. Len(s) \in Nat
  OBVIOUS
<1>1. CASE Len(s) <= MaxEntries
  <2>1. Trimmed(s) = s
    BY <1>1, <1>0 DEF Trimmed
  <2>2. \A i \in 1 .. Len(s) : Len(s) - Len(s) + i = i
    BY <1>0
  <2> QED
    BY <2>1, <2>2, <1>1, <1>0
<1>2. CASE Len(s) > MaxEntries
  <2>1. Trimmed(s) = SubSeq(s, TrimCount + 1, Len(s))
    BY <1>2 DEF Trimmed
  <2>2. TrimCount + 1 \in 1 .. Len(s) + 1
    BY <1>2, <1>0
  <2>3. /\ SubSeq(s, TrimCount + 1, Len(s)) \in Seq(S)
        /\ Len(SubSeq(s, TrimCount + 1, Len(s))) = Len(s) - TrimCount
    BY <2>2, <1>0, <1>2
  <2>4. \A i \in 1 .. Len(s) - TrimCount :
          SubSeq(s, TrimCount + 1, Len(s))[i] = s[TrimCount + i]
    BY <2>2, <1>0, <1>2
  <2>5. Len(s) - (Len(s) - TrimCount) = TrimCount
    BY <1>0
  <2>6. Len(Trimmed(s)) = Len(s) - TrimCount
    BY <2>1, <2>3
  <2>7. ASSUME NEW i \in 1 .. Len(Trimmed(s))
        PROVE  Trimmed(s)[i] = s[Len(s) - Len(Trimmed(s)) + i]
    BY <2>1, <2>4, <2>5, <2>6
  <2>8. Trimmed(s) \in Seq(S)
    BY <2>1, <2>3
  <2>9. ~(Len(s) <= MaxEntries)
    BY <1>2, <1>0
  <2> QED
    BY <2>6, <2>7, <2>8, <2>9
<1> QED
  BY <1>0, <1>1, <1>2

\* The number of entries of an array newer than a cutoff is a natural number
\* (the count the queries print).
LEMMA NewerInFinite ==
  ASSUME NEW s \in Seq(Entry), NEW k
  PROVE  IsFiniteSet(NewerIn(s, k)) /\ Cardinality(NewerIn(s, k)) \in Nat
<1>1. NewerIn(s, k) \subseteq 1 .. Len(s)
  BY DEF NewerIn
<1>2. IsFiniteSet(1 .. Len(s))
  BY FS_Interval
<1> QED
  BY <1>1, <1>2, FS_Subset, FS_CardinalityType

-----------------------------------------------------------------------------
\* A thread's position agrees with the method it called.  TypeOK needs it: Lock
\* jumps to the body of op[t].
CallInv == \A t \in Threads :
  /\ pc[t] = "idle" <=> op[t] = "none"
  /\ pc[t] \in {"log", "trim"} => op[t] = "log"
  /\ pc[t] \in {"count", "list"} => op[t] \in Queries
  /\ pc[t] = "clearLogs" => op[t] = "clearLogs"

LEMMA InitTyped == Init => TypeOK /\ CallInv
<1> SUFFICES ASSUME Init PROVE TypeOK /\ CallInv
  OBVIOUS
<1> USE SizeAssumption DEF Times, Entry
<1>1. Blank \in Text
  BY DEF Blank, Text, Cutoffs, Forever
<1>2. /\ history \in Seq(Entry) /\ logs \in Seq(Entry)
  BY DEF Init
<1> QED
  BY <1>1, <1>2 DEF Init, TypeOK, CallInv, Queries

LEMMA NextTyped == TypeOK /\ CallInv /\ [Next]_vars => TypeOK' /\ CallInv'
<1> SUFFICES ASSUME TypeOK, CallInv, [Next]_vars PROVE TypeOK' /\ CallInv'
  OBVIOUS
<1> USE SizeAssumption, ThreadAssumption DEF TypeOK, CallInv, Times
<1>b. Blank \in Text
  BY DEF Blank, Text, Cutoffs, Forever
<1>m. Methods = {"log", "clearLogs", "getAllLogsFormatted", "getLogsFromLastDays"}
  BY DEF Methods, Queries
<1>1. ASSUME NEW t \in Threads, NEW m \in Methods, Call(t, m) PROVE TypeOK' /\ CallInv'
  BY <1>1, <1>m DEF Call, Goto
<1>2. ASSUME NEW t \in Threads, Lock(t) PROVE TypeOK' /\ CallInv'
  BY <1>2, <1>m DEF Lock, Goto, Queries
<1>3. ASSUME NEW t \in Threads, AddObject(t) PROVE TypeOK' /\ CallInv'
  <2>1. [id |-> Len(history) + 1, time |-> now] \in Entry
    BY DEF Entry
  <2>2. logs' \in Seq(Entry) /\ history' \in Seq(Entry)
    BY <1>3, <2>1 DEF AddObject
  <2> QED
    BY <1>3, <2>2 DEF AddObject, Goto
<1>4. ASSUME NEW t \in Threads, Trim(t) PROVE TypeOK' /\ CallInv'
  <2>1. logs' \in Seq(Entry)
    BY <1>4, TrimmedTail DEF Trim
  <2> QED
    BY <1>4, <2>1 DEF Trim, Goto
<1>5. ASSUME NEW t \in Threads, CountEntries(t) PROVE TypeOK' /\ CallInv'
  <2> DEFINE k == IF op[t] = "getLogsFromLastDays" THEN now - Window ELSE Forever
  <2>1. k \in Cutoffs
    BY DEF Cutoffs, Forever
  <2>2. [Blank EXCEPT !.cutoff = k, !.header = Cardinality(NewerIn(logs, k))] \in Text
    BY <2>1, <1>b, NewerInFinite DEF Text
  <2>3. text' \in [Threads -> Text]
    BY <1>5, <2>2 DEF CountEntries
  <2> QED
    BY <1>5, <2>3 DEF CountEntries, Goto
<1>6. ASSUME NEW t \in Threads, ListEntry(t) PROVE TypeOK' /\ CallInv'
  <2> DEFINE e == logs[text[t].next]
             L == text[t].listed \cup (IF e.time > text[t].cutoff THEN {e} ELSE {})
  <2>1. text[t] \in Text
    OBVIOUS
  <2>2. text[t].next \in Nat \ {0} /\ text[t].next <= Len(logs) /\ text[t].listed \in SUBSET Entry
    BY <1>6, <2>1 DEF ListEntry, Text
  <2>3. e \in Entry
    BY <2>2
  <2>4. L \in SUBSET Entry
    BY <2>2, <2>3
  <2>5. [text[t] EXCEPT !.next = @ + 1, !.listed = L] \in Text
    <3>1. text[t].next + 1 \in Nat \ {0}
      BY <2>2
    <3> HIDE DEF L
    <3> QED
      BY <2>1, <2>4, <3>1 DEF Text
  <2>6. text' = [text EXCEPT ![t] = [text[t] EXCEPT !.next = @ + 1, !.listed = L]]
    BY <1>6 DEF ListEntry
  <2>7. text' \in [Threads -> Text]
    BY <2>5, <2>6
  <2> QED
    BY <1>6, <2>7 DEF ListEntry
<1>7. ASSUME NEW t \in Threads, EndText(t) PROVE TypeOK' /\ CallInv'
  <2> DEFINE f == IF op[t] = "getLogsFromLastDays" THEN text[t].header ELSE Len(logs)
  <2>1. text[t] \in Text
    OBVIOUS
  <2>2. f \in Int
    BY <2>1 DEF Text
  <2>3. [text[t] EXCEPT !.footer = f] \in Text
    BY <2>1, <2>2 DEF Text
  <2>4. text' \in [Threads -> Text]
    BY <1>7, <2>3 DEF EndText
  <2> QED
    BY <1>7, <2>4 DEF EndText, Goto
<1>8. ASSUME NEW t \in Threads, RemoveAllObjects(t) PROVE TypeOK' /\ CallInv'
  <2>1. logs' \in Seq(Entry)
    BY <1>8 DEF RemoveAllObjects
  <2> QED
    BY <1>8, <2>1 DEF RemoveAllObjects, Goto
<1>9. ASSUME NEW t \in Threads, Unlock(t) PROVE TypeOK' /\ CallInv'
  BY <1>9, <1>b DEF Unlock, Goto, Queries
<1>10. CASE Tick
  BY <1>10 DEF Tick
<1>11. CASE UNCHANGED vars
  BY <1>11 DEF vars
<1> QED
  BY <1>1, <1>2, <1>3, <1>4, <1>5, <1>6, <1>7, <1>8, <1>9, <1>10, <1>11
  DEF Next, Body

\* Every variable keeps its type, whatever the callers do and in whatever order
\* they do it.
THEOREM TypeCorrect == Spec => [](TypeOK /\ CallInv)
<1>1. Init => TypeOK /\ CallInv
  BY InitTyped
<1>2. (TypeOK /\ CallInv) /\ [Next]_vars => (TypeOK /\ CallInv)'
  BY NextTyped
<1> QED
  BY <1>1, <1>2, PTL DEF Spec

-----------------------------------------------------------------------------
\* At most one thread is inside a method, and it is the one that holds the lock:
\* every method takes the lock first and gives it up only on return.
THEOREM Exclusion == Spec => []MutualExclusion
<1>1. Init => MutualExclusion
  BY ThreadAssumption DEF Init, MutualExclusion, Inside
<1>2. TypeOK /\ CallInv /\ MutualExclusion /\ [Next]_vars => MutualExclusion'
  <2> SUFFICES ASSUME TypeOK, CallInv, MutualExclusion, [Next]_vars PROVE MutualExclusion'
    OBVIOUS
  <2> USE ThreadAssumption DEF TypeOK, CallInv, MutualExclusion, Inside, Goto
  <2>1. ASSUME NEW t \in Threads, NEW m \in Methods, Call(t, m) PROVE MutualExclusion'
    BY <2>1 DEF Call
  <2>2. ASSUME NEW t \in Threads, Lock(t) PROVE MutualExclusion'
    BY <2>2 DEF Lock, Methods, Queries
  <2>3. ASSUME NEW t \in Threads, Body(t), ~Unlock(t) PROVE MutualExclusion'
    BY <2>3 DEF Body, AddObject, Trim, CountEntries, ListEntry, EndText, RemoveAllObjects
  <2>4. ASSUME NEW t \in Threads, Unlock(t) PROVE MutualExclusion'
    BY <2>4 DEF Unlock
  <2>5. CASE Tick
    BY <2>5 DEF Tick
  <2>6. CASE UNCHANGED vars
    BY <2>6 DEF vars
  <2> QED
    BY <2>1, <2>2, <2>3, <2>4, <2>5, <2>6 DEF Next
<1> QED
  BY <1>1, <1>2, TypeCorrect, PTL DEF Spec

\* Which steps touch the array and its history: only the three that the lock
\* holder takes.
LEMMA ArrayFrame ==
  ASSUME [Next]_vars,
         \A t \in Threads : ~AddObject(t) /\ ~Trim(t) /\ ~RemoveAllObjects(t)
  PROVE  UNCHANGED <<logs, history>>
BY DEF Next, Body, vars, Call, Lock, CountEntries, ListEntry, EndText, Unlock, Tick

-----------------------------------------------------------------------------
\* The bound with the slack it has while an entry is being added.
SizeInv == /\ Len(logs) <= MaxEntries + 1
           /\ Len(logs) <= MaxEntries \/ Adding

LEMMA SizeStep ==
  TypeOK /\ CallInv /\ MutualExclusion /\ SizeInv /\ [Next]_vars => SizeInv'
<1> SUFFICES ASSUME TypeOK, CallInv, MutualExclusion, SizeInv, [Next]_vars PROVE SizeInv'
  OBVIOUS
<1> USE SizeAssumption, ThreadAssumption DEF TypeOK, SizeInv, Adding, MutualExclusion, Inside
<1>1. ASSUME NEW t \in Threads, AddObject(t) PROVE SizeInv'
  <2>1. ~Adding
    BY <1>1 DEF AddObject
  <2>2. Len(logs') = Len(logs) + 1 /\ Len(logs) \in Nat
    BY <1>1 DEF AddObject
  <2>3. pc'[t] = "trim"
    BY <1>1 DEF AddObject, Goto
  <2> QED
    BY <2>1, <2>2, <2>3
<1>2. ASSUME NEW t \in Threads, Trim(t) PROVE SizeInv'
  <2>1. Len(logs) \in Nat /\ Len(Trimmed(logs)) \in Nat
    BY TrimmedTail
  <2>t. /\ Len(logs) <= MaxEntries => Trimmed(logs) = logs
        /\ Len(logs) > MaxEntries => Len(Trimmed(logs)) = Len(logs) - TrimCount
    BY TrimmedTail
  <2>2. Len(Trimmed(logs)) <= MaxEntries
    BY <2>1, <2>t
  <2> QED
    BY <1>2, <2>1, <2>2 DEF Trim
<1>3. ASSUME NEW t \in Threads, RemoveAllObjects(t) PROVE SizeInv'
  BY <1>3 DEF RemoveAllObjects
<1>4. CASE \A t \in Threads : ~AddObject(t) /\ ~Trim(t) /\ ~RemoveAllObjects(t)
  <2>1. logs' = logs
    BY <1>4, ArrayFrame
  <2>2. Adding => Adding'
    BY <1>4 DEF Next, Body, vars, Call, Lock, CountEntries, ListEntry, EndText, Unlock,
                Tick, Goto
  <2> QED
    BY <2>1, <2>2
<1> QED
  BY <1>1, <1>2, <1>3, <1>4

\* The array never outgrows its bound: it holds at most MaxEntries entries
\* whenever the lock is free, whatever threads log at whatever pace.
THEOREM Bounded == Spec => []BoundedLog
<1>1. Init => SizeInv
  <2> SUFFICES ASSUME Init PROVE SizeInv
    OBVIOUS
  <2>1. Len(logs) = 2
    BY DEF Init
  <2> QED
    BY <2>1, SizeAssumption DEF SizeInv
<1>2. TypeOK /\ MutualExclusion /\ SizeInv => BoundedLog
  BY ThreadAssumption DEF TypeOK, MutualExclusion, SizeInv, Adding, BoundedLog, Inside
<1> QED
  BY <1>1, <1>2, SizeStep, TypeCorrect, Exclusion, PTL DEF Spec

-----------------------------------------------------------------------------
LEMMA SuffixStep ==
  TypeOK /\ NewestSuffix /\ [Next]_vars => NewestSuffix'
<1> SUFFICES ASSUME TypeOK, NewestSuffix, [Next]_vars PROVE NewestSuffix'
  OBVIOUS
<1>0. /\ logs \in Seq(Entry) /\ history \in Seq(Entry)
      /\ Len(logs) \in Nat /\ Len(history) \in Nat
  BY DEF TypeOK
<1>1. ASSUME NEW t \in Threads, AddObject(t) PROVE NewestSuffix'
  <2>1. PICK e : logs' = Append(logs, e) /\ history' = Append(history, e)
    BY <1>1 DEF AddObject
  <2>2. /\ Len(logs') = Len(logs) + 1 /\ Len(history') = Len(history) + 1
        /\ DOMAIN logs' = 1 .. Len(logs) + 1
    BY <1>0, <2>1
  <2>3. ASSUME NEW i \in DOMAIN logs'
        PROVE  logs'[i] = history'[Len(history') - Len(logs') + i]
    <3>1. CASE i = Len(logs) + 1
      BY <3>1, <2>1, <2>2, <1>0
    <3>2. CASE i \in DOMAIN logs
      <4>1. logs[i] = history[Len(history) - Len(logs) + i]
        BY <3>2 DEF NewestSuffix
      <4>2. Len(history) - Len(logs) + i \in 1 .. Len(history)
        BY <3>2, <1>0 DEF NewestSuffix
      <4>3. Len(history') - Len(logs') + i = Len(history) - Len(logs) + i
        BY <2>2, <1>0, <3>2
      <4> QED
        BY <4>1, <4>2, <4>3, <3>2, <2>1, <1>0
    <3> QED
      BY <3>1, <3>2, <2>2, <1>0
  <2> QED
    BY <2>2, <2>3, <1>0 DEF NewestSuffix
<1>2. ASSUME NEW t \in Threads, Trim(t) PROVE NewestSuffix'
  <2>1. logs' = Trimmed(logs) /\ history' = history
    BY <1>2 DEF Trim
  <2>2. /\ logs' \in Seq(Entry)
        /\ \A i \in 1 .. Len(logs') : logs'[i] = logs[Len(logs) - Len(logs') + i]
    BY <2>1, <1>0, TrimmedTail
  <2>3. Len(logs') \in Nat /\ Len(logs') <= Len(logs)
    <3>1. /\ Len(logs) <= MaxEntries => logs' = logs
          /\ Len(logs) > MaxEntries => Len(logs') = Len(logs) - TrimCount
      BY <2>1, <1>0, TrimmedTail
    <3> QED
      BY <3>1, <2>2, <1>0, SizeAssumption
  <2>4. ASSUME NEW i \in 1 .. Len(logs')
        PROVE  logs'[i] = history[Len(history) - Len(logs') + i]
    <3> DEFINE j == Len(logs) - Len(logs') + i
    <3>1. j \in 1 .. Len(logs) /\ Len(history) - Len(logs) + j = Len(history) - Len(logs') + i
      BY <2>3, <1>0
    <3>2. logs[j] = history[Len(history) - Len(logs) + j]
      BY <3>1, <1>0 DEF NewestSuffix
    <3> QED
      BY <3>1, <3>2, <2>2
  <2>5. DOMAIN logs' = 1 .. Len(logs') /\ history' = history
    BY <2>1, <2>2
  <2>6. Len(logs') <= Len(history')
    BY <2>3, <2>5, <1>0 DEF NewestSuffix
  <2> QED
    BY <2>4, <2>5, <2>6 DEF NewestSuffix
<1>3. ASSUME NEW t \in Threads, RemoveAllObjects(t) PROVE NewestSuffix'
  <2>1. Len(logs') = 0 /\ DOMAIN logs' = {} /\ history' = history
    BY <1>3 DEF RemoveAllObjects
  <2> QED
    BY <2>1, <1>0 DEF NewestSuffix
<1>4. CASE \A t \in Threads : ~AddObject(t) /\ ~Trim(t) /\ ~RemoveAllObjects(t)
  <2>1. logs' = logs /\ history' = history
    BY <1>4, ArrayFrame
  <2> QED
    BY <2>1 DEF NewestSuffix
<1> QED
  BY <1>1, <1>2, <1>3, <1>4

\* No interleaving of callers loses an entry from the middle of the log,
\* duplicates one or changes the order: _logs is a run of the newest entries.
THEOREM Suffix == Spec => []NewestSuffix
<1>1. Init => NewestSuffix
  <2> SUFFICES ASSUME Init PROVE NewestSuffix
    OBVIOUS
  <2>1. Len(history) = 2 /\ logs = history
    BY DEF Init
  <2>2. \A i \in DOMAIN history : i \in 1 .. 2 /\ 2 - 2 + i = i
    BY DEF Init
  <2> QED
    BY <2>1, <2>2 DEF NewestSuffix
<1> QED
  BY <1>1, SuffixStep, TypeCorrect, PTL DEF Spec

\* A step that changes the array is never taken while another call enumerates
\* it: the fast enumerations of the two queries are safe.
THEOREM Stable == Spec => EnumerationStable
<1>1. TypeOK /\ MutualExclusion /\ [Next]_vars =>
        [(\E t \in Threads : pc[t] \in {"count", "list"}) => UNCHANGED logs]_vars
  <2> SUFFICES ASSUME TypeOK, MutualExclusion, [Next]_vars,
                      NEW t \in Threads, pc[t] \in {"count", "list"}
               PROVE  UNCHANGED logs
    OBVIOUS
  <2>1. ASSUME NEW u \in Threads PROVE ~AddObject(u) /\ ~Trim(u) /\ ~RemoveAllObjects(u)
    <3>1. pc[u] \in {"log", "trim", "clearLogs"} => u = t
      BY DEF MutualExclusion, Inside
    <3> QED
      BY <3>1 DEF AddObject, Trim, RemoveAllObjects
  <2> QED
    BY <2>1, ArrayFrame
<1> QED
  BY <1>1, TypeCorrect, Exclusion, PTL DEF Spec, EnumerationStable
-----------------------------------------------------------------------------
\* Entries are numbered in the order of logging: no two of the array are equal.
Numbered == \A i \in DOMAIN history : history[i].id = i

LEMMA NumberedStep ==
  TypeOK /\ Numbered /\ [Next]_vars => Numbered'
<1> SUFFICES ASSUME TypeOK, Numbered, [Next]_vars PROVE Numbered'
  OBVIOUS
<1>1. ASSUME NEW t \in Threads, AddObject(t) PROVE Numbered'
  <2>1. history' = Append(history, [id |-> Len(history) + 1, time |-> now]) /\ history \in Seq(Entry)
    BY <1>1 DEF AddObject, TypeOK
  <2>2. \A i \in DOMAIN history' : \/ i \in DOMAIN history /\ history'[i] = history[i]
                                   \/ i = Len(history) + 1 /\ history'[i].id = Len(history) + 1
    BY <2>1
  <2> QED
    BY <2>2 DEF Numbered
<1>2. CASE \A t \in Threads : ~AddObject(t)
  <2>1. history' = history
    BY <1>2 DEF Next, Body, vars, Call, Lock, Trim, CountEntries, ListEntry, EndText, RemoveAllObjects,
                Unlock, Tick
  <2> QED
    BY <2>1 DEF Numbered
<1> QED
  BY <1>1, <1>2

\* As many entries are newer than a cutoff as there are places in the array for them.
LEMMA CountIsOfEntries ==
  ASSUME TypeOK, NewestSuffix, Numbered, NEW k
  PROVE  Cardinality({logs[i] : i \in NewerIn(logs, k)}) = Cardinality(NewerIn(logs, k))
<1> DEFINE S == NewerIn(logs, k)
           T == {logs[i] : i \in S}
           f == [i \in S |-> logs[i]]
<1>1. S \subseteq DOMAIN logs /\ DOMAIN logs \subseteq Nat /\ Len(logs) \in Nat /\ Len(history) \in Nat
  BY DEF NewerIn, TypeOK
<1>2. \A i \in DOMAIN logs : logs[i].id = Len(history) - Len(logs) + i
  <2> SUFFICES ASSUME NEW i \in DOMAIN logs PROVE logs[i].id = Len(history) - Len(logs) + i
    OBVIOUS
  <2>1. i \in 1..Len(logs) /\ DOMAIN history = 1..Len(history)
    BY DEF TypeOK
  <2>2. Len(history) - Len(logs) + i \in DOMAIN history
    BY <1>1, <2>1 DEF NewestSuffix
  <2> QED
    BY <2>2 DEF NewestSuffix, Numbered
<1>3. \A i, j \in S : logs[i] = logs[j] => i = j
  BY <1>1, <1>2
<1>4. IsFiniteSet(S)
  BY NewerInFinite DEF TypeOK
<1> HIDE DEF S
<1>5. f \in [S -> T] /\ \A y \in T : \E x \in S : f[x] = y
  OBVIOUS
<1>6. \A x, y \in S : f[x] = f[y] => x = y
  BY <1>3
<1> HIDE DEF f, T
<1>7. f \in Bijection(S, T)
  BY <1>5, <1>6 DEF Bijection, Injection, Surjection, IsInjective
<1>8. Cardinality(T) = Cardinality(S)
  BY <1>4, <1>7, FS_Bijection DEF ExistsBijection
<1> QED
  BY <1>8 DEF S, T

\* What a query has written so far: the matching entries before the next one.
Matching(n, k) == {logs[i] : i \in {j \in NewerIn(logs, k) : j < n}}
Listing(t) == /\ text[t].next <= Len(logs) + 1
              /\ text[t].listed = Matching(text[t].next, text[t].cutoff)
              /\ text[t].header = Cardinality(NewerIn(logs, text[t].cutoff))
              /\ op[t] = "getAllLogsFormatted" => text[t].cutoff = Forever
Answered(t) == /\ text[t].listed = {logs[i] : i \in NewerIn(logs, text[t].cutoff)}
               /\ text[t].header = Cardinality(NewerIn(logs, text[t].cutoff))
               /\ text[t].footer = text[t].header
Writing == \A t \in Threads : /\ pc[t] = "list" => Listing(t)
                              /\ pc[t] = "unlock" /\ op[t] \in Queries => Answered(t)

\* The array stays as it is while another thread than its holder takes a step.
LEMMA HolderKeepsArray ==
  ASSUME TypeOK, MutualExclusion, [Next]_vars, NEW t \in Threads, Inside(t),
         pc[t] \notin {"log", "trim", "clearLogs"}
  PROVE  UNCHANGED <<logs, history>>
<1>1. ASSUME NEW u \in Threads PROVE ~AddObject(u) /\ ~Trim(u) /\ ~RemoveAllObjects(u)
  <2>1. pc[u] \in {"log", "trim", "clearLogs"} => u = t
    BY DEF MutualExclusion, Inside
  <2> QED
    BY <2>1 DEF AddObject, Trim, RemoveAllObjects
<1> QED
  BY <1>1, ArrayFrame

LEMMA AllAreNewer ==
  ASSUME TypeOK
  PROVE  Cardinality(NewerIn(logs, Forever)) = Len(logs)
<1>1. /\ \A i \in DOMAIN logs : logs[i] \in Entry
      /\ DOMAIN logs = 1..Len(logs) /\ Len(logs) \in Nat
  BY DEF TypeOK
<1>2. \A e \in Entry : e.time > Forever
  BY SizeAssumption DEF Entry, Times, Forever
<1>3. NewerIn(logs, Forever) = 1..Len(logs)
  BY <1>1, <1>2 DEF NewerIn
<1>4. Cardinality(1..Len(logs)) = IF 1 > Len(logs) THEN 0 ELSE Len(logs) - 1 + 1
  BY <1>1, FS_Interval
<1> QED
  BY <1>1, <1>3, <1>4

LEMMA WritingStep ==
  TypeOK /\ CallInv /\ MutualExclusion /\ Writing /\ [Next]_vars => Writing'
<1> SUFFICES ASSUME TypeOK, CallInv, MutualExclusion, Writing, [Next]_vars,
                    NEW t \in Threads, pc'[t] \in {"list", "unlock"},
                    pc'[t] = "unlock" => op'[t] \in Queries
             PROVE  /\ pc'[t] = "list" => Listing(t)'
                    /\ pc'[t] = "unlock" => Answered(t)'
  BY DEF Writing
<1> USE DEF Goto
<1>1. logs \in Seq(Entry) /\ Len(logs) \in Nat /\ text[t] \in Text
  BY DEF TypeOK
<1>2. CASE CountEntries(t)
  <2>1. PICK k : /\ text' = [text EXCEPT ![t] = [Blank EXCEPT !.cutoff = k, !.header = Cardinality(NewerIn(logs, k))]]
                 /\ op[t] = "getLogsFromLastDays" \/ k = Forever
    BY <1>2 DEF CountEntries
  <2>2. /\ text'[t].cutoff = k /\ text'[t].header = Cardinality(NewerIn(logs, k))
        /\ text'[t].next = 1 /\ text'[t].listed = {}
    BY <2>1 DEF TypeOK, Blank
  <2>3. logs' = logs /\ pc'[t] = "list" /\ op' = op
    BY <1>2 DEF CountEntries, TypeOK
  <2>4. \A j \in NewerIn(logs, k) : ~(j < 1)
    BY <1>1 DEF NewerIn
  <2> QED
    BY <1>1, <2>1, <2>2, <2>3, <2>4 DEF Listing, Matching
<1>3. CASE ListEntry(t)
  <2> PICK n : n = text[t].next
    OBVIOUS
  <2> PICK k : k = text[t].cutoff
    OBVIOUS
  <2> PICK add : add = IF logs[n].time > k THEN {logs[n]} ELSE {}
    OBVIOUS
  <2>1. /\ text' = [text EXCEPT ![t].next = n + 1, ![t].listed = text[t].listed \cup add]
        /\ pc[t] = "list" /\ n <= Len(logs) /\ UNCHANGED <<logs, pc, op>> /\ n \in Nat \ {0}
    BY <1>1, <1>3 DEF ListEntry, Text
  <2>2. /\ text'[t].next = n + 1 /\ text'[t].listed = text[t].listed \cup add
        /\ text'[t].cutoff = k /\ text'[t].header = text[t].header
    BY <1>1, <2>1 DEF TypeOK, Text
  <2>3. Listing(t)
    BY <2>1 DEF Writing
  <2>4. {j \in NewerIn(logs, k) : j < n + 1}
          = {j \in NewerIn(logs, k) : j < n} \cup (IF logs[n].time > k THEN {n} ELSE {})
    BY <1>1, <2>1 DEF NewerIn
  <2>5. Matching(n + 1, k) = Matching(n, k) \cup add
    BY <2>4 DEF Matching
  <2>6. /\ text[t].listed = Matching(n, k) /\ text[t].header = Cardinality(NewerIn(logs, k))
        /\ op[t] = "getAllLogsFormatted" => k = Forever
    BY <2>3 DEF Listing
  <2>7. text'[t].listed = Matching(n + 1, k)
    BY <2>2, <2>5, <2>6
  <2>8. n + 1 <= Len(logs) + 1
    BY <1>1, <2>1
  <2>9. pc'[t] = "list"
    BY <2>1
  <2>10. /\ Matching(text[t].next, text[t].cutoff)' = Matching(n + 1, k)
         /\ Cardinality(NewerIn(logs, text[t].cutoff))' = Cardinality(NewerIn(logs, k))
    BY <2>1, <2>2 DEF Matching, NewerIn
  <2> QED
    BY <2>1, <2>2, <2>6, <2>7, <2>8, <2>9, <2>10 DEF Listing
<1>4. CASE EndText(t)
  <2> PICK k : k = text[t].cutoff
    OBVIOUS
  <2> PICK f : f = IF op[t] = "getLogsFromLastDays" THEN text[t].header ELSE Len(logs)
    OBVIOUS
  <2>1. /\ text' = [text EXCEPT ![t].footer = f]
        /\ pc[t] = "list" /\ text[t].next > Len(logs) /\ UNCHANGED <<logs, op>> /\ pc'[t] = "unlock"
    BY <1>4 DEF EndText, TypeOK
  <2>2. /\ text'[t].footer = f /\ text'[t].listed = text[t].listed
        /\ text'[t].cutoff = k /\ text'[t].header = text[t].header
    BY <1>1, <2>1 DEF TypeOK, Text
  <2>3. Listing(t) /\ op[t] \in Queries
    BY <2>1 DEF Writing, CallInv
  <2>4. {j \in NewerIn(logs, k) : j < text[t].next} = NewerIn(logs, k)
    BY <1>1, <2>1 DEF NewerIn, Text
  <2>5. f = text[t].header
    BY <2>3, AllAreNewer DEF Listing, Queries
  <2> QED
    BY <2>1, <2>2, <2>3, <2>4, <2>5 DEF Listing, Matching, Answered
<1>5. CASE Trim(t) \/ RemoveAllObjects(t)
  <2>1. pc[t] \in {"trim", "clearLogs"} /\ pc'[t] = "unlock" /\ op' = op
    BY <1>5 DEF Trim, RemoveAllObjects, TypeOK
  <2> QED
    BY <2>1 DEF CallInv, Queries
<1>6. CASE /\ ~CountEntries(t) /\ ~ListEntry(t) /\ ~EndText(t) /\ ~Trim(t) /\ ~RemoveAllObjects(t)
  <2>1. pc'[t] = pc[t] /\ op'[t] = op[t] /\ text'[t] = text[t]
    <3>1. ASSUME NEW u \in Threads, NEW m \in Methods, Call(u, m)
          PROVE  pc'[t] = pc[t] /\ op'[t] = op[t] /\ text'[t] = text[t]
      BY <3>1 DEF Call, TypeOK
    <3>2. ASSUME NEW u \in Threads, Lock(u) \/ AddObject(u) \/ Unlock(u)
          PROVE  pc'[t] = pc[t] /\ op'[t] = op[t] /\ text'[t] = text[t]
      <4>1. CASE Lock(u)
        BY <4>1 DEF Lock, TypeOK, Methods, Queries, CallInv
      <4>2. CASE AddObject(u)
        BY <4>2 DEF AddObject, TypeOK
      <4>3. CASE Unlock(u)
        BY <4>3 DEF Unlock, TypeOK
      <4> QED
        BY <3>2, <4>1, <4>2, <4>3
    <3>3. ASSUME NEW u \in Threads, u # t,
                 Trim(u) \/ CountEntries(u) \/ ListEntry(u) \/ EndText(u) \/ RemoveAllObjects(u)
          PROVE  pc'[t] = pc[t] /\ op'[t] = op[t] /\ text'[t] = text[t]
      BY <3>3 DEF Trim, CountEntries, ListEntry, EndText, RemoveAllObjects, TypeOK
    <3>4. CASE Tick \/ UNCHANGED vars
      BY <3>4 DEF Tick, vars
    <3> QED
      BY <1>6, <3>1, <3>2, <3>3, <3>4 DEF Next, Body
  <2>2. UNCHANGED logs
    BY <2>1, HolderKeepsArray DEF Inside
  <2> QED
    BY <2>1, <2>2 DEF Writing, Listing, Answered, Matching
<1> QED
  BY <1>2, <1>3, <1>4, <1>5, <1>6

CollectorInv == TypeOK /\ CallInv /\ MutualExclusion /\ NewestSuffix /\ Numbered /\ Writing

LEMMA CollectorInvariant == Spec => []CollectorInv
<1>1. Init => Numbered /\ Writing
  <2> SUFFICES ASSUME Init PROVE Numbered /\ Writing
    OBVIOUS
  <2>1. \A i \in DOMAIN history : i \in {1, 2} /\ history[i].id = i
    BY DEF Init
  <2>2. \A t \in Threads : pc[t] = "idle"
    BY DEF Init
  <2> QED
    BY <2>1, <2>2 DEF Numbered, Writing
<1> QED
  BY <1>1, NumberedStep, WritingStep, TypeCorrect, Exclusion, Suffix, PTL DEF Spec, CollectorInv

\* A text that a query returns is a snapshot of the array: exactly the matching
\* entries, and the two counts printed around them are their number, though they
\* come from different passes.
THEOREM ReportsAreExact == Spec => []ReportExact
<1>1. ASSUME CollectorInv PROVE ReportExact
  BY <1>1, CountIsOfEntries DEF CollectorInv, Writing, Answered, ReportExact
<1> QED
  BY <1>1, CollectorInvariant, PTL

-----------------------------------------------------------------------------
\* The atomic log. Only the thread inside a method can be adding an entry.
LEMMA OneAdds ==
  ASSUME MutualExclusion, NEW t \in Threads, Inside(t)
  PROVE  Adding <=> pc[t] = "trim"
BY DEF MutualExclusion, Inside, Adding

\* The mapped variables of a step that changes neither the array nor who is adding,
\* and gives no answer.
LEMMA Unseen ==
  ASSUME UNCHANGED <<logs, history>>, Adding' <=> Adding, Answer' = Answer
  PROVE  UNCHANGED Log!logVars
BY DEF Log!logVars, Visible, Trimmed

LEMMA StepsMap ==
  ASSUME CollectorInv, CollectorInv', [Next]_vars
  PROVE  [Log!Move]_(Log!logVars)
<1> USE DEF Goto
<1>1. TypeOK /\ CallInv /\ MutualExclusion /\ MutualExclusion' /\ Writing'
  BY DEF CollectorInv
<1>2. ASSUME NEW t \in Threads, AddObject(t) PROVE Log!Move
  <2> PICK e : e = [id |-> Len(history) + 1, time |-> now]
    OBVIOUS
  <2>1. /\ logs' = Append(logs, e) /\ history' = Append(history, e)
        /\ pc' = [pc EXCEPT ![t] = "trim"] /\ pc[t] = "log" /\ UNCHANGED <<op, text>>
    BY <1>2 DEF AddObject
  <2>2. pc'[t] = "trim" /\ Adding' /\ ~Adding
    BY <1>1, <2>1, OneAdds DEF TypeOK, Adding, Inside
  <2>3. Visible = logs /\ Visible' = Trimmed(Append(logs, e))
    BY <2>1, <2>2 DEF Visible, Trimmed
  <2>4. Answer' = Answer
    BY <1>1, <2>1 DEF Answer, TypeOK
  <2>5. Log!Record(now)
    BY <2>1, <2>3, <2>4 DEF Log!Record, Log!Capped, Trimmed
  <2>6. now \in Times
    BY <1>1 DEF TypeOK
  <2> QED
    BY <2>5, <2>6 DEF Log!Move
<1>3. ASSUME NEW t \in Threads, Trim(t) PROVE UNCHANGED Log!logVars
  <2>1. /\ logs' = Trimmed(logs) /\ history' = history
        /\ pc' = [pc EXCEPT ![t] = "unlock"] /\ pc[t] = "trim" /\ UNCHANGED <<op, text>>
    BY <1>3 DEF Trim
  <2>2. Adding /\ \A u \in Threads : u # t => pc[u] \in {"idle", "lock"}
    BY <1>1, <2>1 DEF Adding, MutualExclusion, Inside
  <2>3. ~Adding'
    BY <1>1, <2>1, <2>2 DEF Adding, TypeOK
  <2>4. Visible' = Visible
    BY <2>1, <2>2, <2>3 DEF Visible
  <2>5. Answer' = Answer
    BY <1>1, <2>1 DEF Answer, TypeOK, CallInv, Queries
  <2> QED
    BY <2>1, <2>4, <2>5 DEF Log!logVars
<1>4. ASSUME NEW t \in Threads, EndText(t) PROVE Log!Move
  <2>1. /\ pc' = [pc EXCEPT ![t] = "unlock"] /\ pc[t] = "list" /\ UNCHANGED <<logs, history, op>>
        /\ \A u \in Threads : u # t => text'[u] = text[u]
    BY <1>1, <1>4 DEF EndText, TypeOK
  <2>2. op[t] \in Queries /\ pc'[t] = "unlock" /\ op'[t] = op[t]
    BY <1>1, <2>1 DEF CallInv, TypeOK
  <2>3. ~Adding /\ ~Adding'
    <3>1. \A u \in Threads : u # t => pc[u] \in {"idle", "lock"}
      BY <1>1, <2>1 DEF MutualExclusion, Inside
    <3> QED
      BY <1>1, <2>1, <3>1 DEF Adding, TypeOK
  <2>4. Visible = logs /\ Visible' = logs
    BY <2>1, <2>3 DEF Visible
  <2>5. text'[t].listed = Log!NewerThan(Visible, text'[t].cutoff)
    BY <1>1, <2>1, <2>2, <2>4 DEF Writing, Answered, Log!NewerThan, NewerIn
  <2>6. Answer[t] = {} /\ Answer' = [Answer EXCEPT ![t] = {text'[t].listed}]
    <3>1. \A u \in Threads : u # t => Answer'[u] = Answer[u]
      BY <1>1, <2>1 DEF Answer, TypeOK
    <3>2. Answer[t] = {} /\ Answer'[t] = {text'[t].listed}
      BY <2>1, <2>2 DEF Answer
    <3> QED
      BY <3>1, <3>2 DEF Answer
  <2>7. text'[t].cutoff \in Cutoffs
    BY DEF CollectorInv, TypeOK, Text
  <2>8. Log!Query(t, text'[t].cutoff)
    BY <2>1, <2>4, <2>5, <2>6 DEF Log!Query
  <2> QED
    BY <2>7, <2>8 DEF Log!Move
<1>5. ASSUME NEW t \in Threads, RemoveAllObjects(t) PROVE Log!Move
  <2>1. /\ logs' = <<>> /\ history' = history
        /\ pc' = [pc EXCEPT ![t] = "unlock"] /\ pc[t] = "clearLogs" /\ UNCHANGED <<op, text>>
    BY <1>5 DEF RemoveAllObjects
  <2>2. Visible' = <<>>
    <3>1. Len(logs') <= MaxEntries
      BY <2>1, SizeAssumption
    <3> QED
      BY <2>1, <3>1, SizeAssumption DEF Visible, Trimmed
  <2>3. Answer' = Answer
    BY <1>1, <2>1 DEF Answer, TypeOK, CallInv, Queries
  <2> QED
    BY <2>1, <2>2, <2>3 DEF Log!Move, Log!Empty
<1>6. ASSUME NEW t \in Threads, Unlock(t) PROVE [Log!Move]_(Log!logVars)
  <2>1. /\ pc[t] = "unlock" /\ pc' = [pc EXCEPT ![t] = "idle"] /\ UNCHANGED <<logs, history>>
        /\ \A u \in Threads : u # t => op'[u] = op[u] /\ text'[u] = text[u] /\ pc'[u] = pc[u]
    BY <1>1, <1>6 DEF Unlock, TypeOK
  <2>2. pc'[t] = "idle"
    BY <1>1, <2>1 DEF TypeOK
  <2>3. Adding' <=> Adding
    BY <2>1, <2>2 DEF Adding
  <2>4. Visible' = Visible
    BY <2>1, <2>3 DEF Visible, Trimmed
  <2>5. Answer'[t] = {} /\ \A u \in Threads : u # t => Answer'[u] = Answer[u]
    BY <2>1, <2>2 DEF Answer
  <2>6. Answer' = [Answer EXCEPT ![t] = {}]
    BY <2>5 DEF Answer
  <2>7. CASE Answer[t] = {}
    <3>1. Answer' = Answer
      BY <2>6, <2>7 DEF Answer
    <3> QED
      BY <2>1, <2>4, <3>1 DEF Log!logVars
  <2>8. CASE Answer[t] # {}
    BY <2>1, <2>4, <2>6, <2>8 DEF Log!Return, Log!Move
  <2> QED
    BY <2>7, <2>8
<1>7. ASSUME NEW t \in Threads, \/ \E m \in Methods : Call(t, m)
                                \/ Lock(t) \/ CountEntries(t) \/ ListEntry(t)
      PROVE  UNCHANGED Log!logVars
  <2>1. /\ UNCHANGED <<logs, history>> /\ pc[t] \notin {"trim", "unlock"} /\ pc'[t] \notin {"trim", "unlock"}
        /\ \A u \in Threads : u # t => op'[u] = op[u] /\ text'[u] = text[u] /\ pc'[u] = pc[u]
    <3>1. CASE \E m \in Methods : Call(t, m)
      BY <1>1, <3>1 DEF Call, TypeOK
    <3>2. CASE Lock(t)
      BY <1>1, <3>2 DEF Lock, TypeOK, CallInv, Methods
    <3>3. CASE CountEntries(t)
      BY <1>1, <3>3 DEF CountEntries, TypeOK
    <3>4. CASE ListEntry(t)
      BY <1>1, <3>4 DEF ListEntry, TypeOK
    <3> QED
      BY <1>7, <3>1, <3>2, <3>3, <3>4
  <2>2. Adding' <=> Adding
    BY <2>1 DEF Adding
  <2>3. Answer' = Answer
    BY <2>1 DEF Answer
  <2> QED
    BY <2>1, <2>2, <2>3, Unseen
<1>8. CASE Tick \/ UNCHANGED vars
  <2>1. UNCHANGED <<logs, history, pc, op, text>>
    BY <1>8 DEF Tick, vars
  <2> QED
    BY <2>1, Unseen DEF Adding, Answer
<1> QED
  BY <1>2, <1>3, <1>4, <1>5, <1>6, <1>7, <1>8 DEF Next, Body

\* No interleaving of callers can be told apart from calls that take effect one at a
\* time: the collector implements the atomic log of RecentLog.
THEOREM CollectorIsAtomic == Spec => Atomic
<1>1. Init => Log!Start
  <2> SUFFICES ASSUME Init PROVE Log!Start
    OBVIOUS
  <2>1. ~Adding /\ Answer = [t \in Threads |-> {}]
    BY DEF Init, Adding, Answer
  <2> QED
    BY <2>1 DEF Init, Log!Start, Visible
<1>2. CollectorInv /\ CollectorInv' /\ [Next]_vars => [Log!Move]_(Log!logVars)
  BY StepsMap
<1>3. Spec => Log!Start /\ [][Log!Move]_(Log!logVars)
  BY <1>1, <1>2, CollectorInvariant, PTL DEF Spec
<1> QED
  BY <1>3 DEF Atomic, Log!LogSpec
=============================================================================
