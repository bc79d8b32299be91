----------------------------- MODULE LogCollector -----------------------------
(***************************************************************************)
(* Core/LogCollector.m: the process-wide, in-memory log.  Every method     *)
(* takes one non-recursive NSLock, works on the array _logs and releases   *)
(* the lock.  Threads are the callers: the main thread, the global-queue   *)
(* thread of a bundle build, the network monitor's handler threads.        *)
(*                                                                         *)
(* A call is the steps Call, Lock, the body of the method, Unlock; the     *)
(* body is split where another thread could be seen to interfere if the    *)
(* lock did not protect it.  Timestamps come from the wall clock `now',    *)
(* which the user or NTP may set back.  An entry's text and level are      *)
(* abstracted to its number in the order of logging.                       *)
(***************************************************************************)
EXTENDS Integers, Sequences, FiniteSets

CONSTANTS Threads,      \* callers
          NoThread,     \* the lock is free
          MaxEntries,   \* 10000 in the code
          TrimCount,    \* 1000 in the code
          Window,       \* `days' of getLogsFromLastDays:
          MaxTime,      \* bound: clock readings are 0..MaxTime
          MaxLogged     \* bound: entries ever logged

ASSUME ThreadAssumption == NoThread \notin Threads
ASSUME SizeAssumption ==
  /\ MaxEntries \in Nat /\ MaxEntries >= 2
  /\ TrimCount \in 1 .. MaxEntries
  /\ Window \in Nat /\ MaxTime \in Nat /\ MaxLogged \in Nat

VARIABLES logs,         \* _logs
          lock,         \* _lock: the thread that holds it, or NoThread
          pc,           \* pc[t]: where thread t is in its call
          op,           \* op[t]: the method t executes, or "none"
          text,         \* text[t]: the text t's call is building
          now,          \* the wall clock
          history       \* history variable: every entry ever logged
vars == <<logs, lock, pc, op, text, now, history>>

Queries == {"getAllLogsFormatted", "getLogsFromLastDays"}
Methods == Queries \cup {"log", "clearLogs"}
Times   == 0 .. MaxTime
Entry   == [id : Nat, time : Times]

\* Older than any entry: the cutoff of getAllLogsFormatted, which has none.
Forever == -(Window + 1)
Cutoffs == Forever .. MaxTime

\* The text: the count above the entries, the entries appended so far (in the
\* order of their numbers), the index of the next one, the count below.
Text  == [cutoff : Cutoffs, header : Nat, next : Nat \ {0}, listed : SUBSET Entry, footer : Int]
Blank == [cutoff |-> Forever, header |-> 0, next |-> 1, listed |-> {}, footer |-> -1]

NewerIn(s, k) == {i \in DOMAIN s : s[i].time > k}

-----------------------------------------------------------------------------
\* +shared and -init: the two startup entries are logged before anyone else
\* can reach the object.
Init == /\ now \in Times
        /\ history = <<[id |-> 1, time |-> now], [id |-> 2, time |-> now]>>
        /\ logs = history
        /\ lock = NoThread
        /\ pc   = [t \in Threads |-> "idle"]
        /\ op   = [t \in Threads |-> "none"]
        /\ text = [t \in Threads |-> Blank]

Goto(t, label) == pc' = [pc EXCEPT ![t] = label]

\* Some thread calls a method and waits for the lock.
Call(t, m) ==
  /\ pc[t] = "idle"
  /\ m = "log" => Len(history) + Cardinality({u \in Threads : op[u] = "log"}) < MaxLogged
  /\ op' = [op EXCEPT ![t] = m]
  /\ Goto(t, "lock")
  /\ UNCHANGED <<logs, lock, text, now, history>>

LockUnguarded(t) ==  \* fault: the method forgets [_lock lock]
  /\ pc[t] = "lock"
  /\ Goto(t, IF op[t] \in Queries THEN "count" ELSE op[t])
  /\ UNCHANGED <<logs, lock, op, text, now, history>>

Lock(t) ==
  /\ pc[t] = "lock"
  /\ lock = NoThread
  /\ lock' = t
  /\ Goto(t, IF op[t] \in Queries THEN "count" ELSE op[t])
  /\ UNCHANGED <<logs, op, text, now, history>>

\* log:level: stamps the entry and adds it ...
AddObject(t) ==
  /\ pc[t] = "log"
  /\ LET e == [id |-> Len(history) + 1, time |-> now] IN
       /\ logs' = Append(logs, e)
       /\ history' = Append(history, e)
  /\ Goto(t, "trim")
  /\ UNCHANGED <<lock, op, text, now>>

\* ... writes it to os_log, and keeps the array bounded.
Trimmed(s) == IF Len(s) > MaxEntries THEN SubSeq(s, TrimCount + 1, Len(s)) ELSE s

TrimOneLate(t) ==  \* fault: the bound is off by one
  /\ pc[t] = "trim"
  /\ logs' = IF Len(logs) > MaxEntries + 1 THEN Trimmed(logs) ELSE logs
  /\ Goto(t, "unlock")
  /\ UNCHANGED <<lock, op, text, now, history>>

TrimNewest(t) ==  \* fault: the wrong end of the array goes
  /\ pc[t] = "trim"
  /\ logs' = IF Len(logs) > MaxEntries THEN SubSeq(logs, 1, Len(logs) - TrimCount) ELSE logs
  /\ Goto(t, "unlock")
  /\ UNCHANGED <<lock, op, text, now, history>>

Trim(t) ==
  /\ pc[t] = "trim"
  /\ logs' = Trimmed(logs)
  /\ Goto(t, "unlock")
  /\ UNCHANGED <<lock, op, text, now, history>>

CountFuture(t) ==  \* fault: the sign of the interval is lost
  /\ pc[t] = "count"
  /\ LET k == now + Window IN
       text' = [text EXCEPT ![t] = [Blank EXCEPT !.cutoff = k,
                                                 !.header = Cardinality(NewerIn(logs, k))]]
  /\ Goto(t, "list")
  /\ UNCHANGED <<logs, lock, op, now, history>>

\* The first pass of a query: its cutoff and the count in its header.
CountEntries(t) ==
  /\ pc[t] = "count"
  /\ LET k == IF op[t] = "getLogsFromLastDays" THEN now - Window ELSE Forever IN
       text' = [text EXCEPT ![t] = [Blank EXCEPT !.cutoff = k,
                                                 !.header = Cardinality(NewerIn(logs, k))]]
  /\ Goto(t, "list")
  /\ UNCHANGED <<logs, lock, op, now, history>>

ListSince(t) ==  \* fault: the two passes compare differently
  /\ pc[t] = "list"
  /\ text[t].next <= Len(logs)
  /\ LET e == logs[text[t].next] IN
       text' = [text EXCEPT ![t].next = @ + 1,
                            ![t].listed = @ \cup (IF e.time >= text[t].cutoff THEN {e} ELSE {})]
  /\ UNCHANGED <<logs, lock, pc, op, now, history>>

\* The second pass: one entry is appended, or passed over as too old.
ListEntry(t) ==
  /\ pc[t] = "list"
  /\ text[t].next <= Len(logs)
  /\ LET e == logs[text[t].next] IN
       text' = [text EXCEPT ![t].next = @ + 1,
                            ![t].listed = @ \cup (IF e.time > text[t].cutoff THEN {e} ELSE {})]
  /\ UNCHANGED <<logs, lock, pc, op, now, history>>

EndTextEarly(t) ==  \* fault: the loop stops one entry short
  /\ pc[t] = "list"
  /\ text[t].next >= Len(logs)
  /\ text' = [text EXCEPT ![t].footer =
                IF op[t] = "getLogsFromLastDays" THEN text[t].header ELSE Len(logs)]
  /\ Goto(t, "unlock")
  /\ UNCHANGED <<logs, lock, op, now, history>>

\* The count below: `count' again for the last days, _logs.count afresh for all.
EndText(t) ==
  /\ pc[t] = "list"
  /\ text[t].next > Len(logs)
  /\ text' = [text EXCEPT ![t].footer =
                IF op[t] = "getLogsFromLastDays" THEN text[t].header ELSE Len(logs)]
  /\ Goto(t, "unlock")
  /\ UNCHANGED <<logs, lock, op, now, history>>

RemoveAllObjects(t) ==
  /\ pc[t] = "clearLogs"
  /\ logs' = <<>>
  /\ Goto(t, "unlock")
  /\ UNCHANGED <<lock, op, text, now, history>>

\* Unlock and return; the text, if any, is the caller's from here on.
Unlock(t) ==
  /\ pc[t] = "unlock"
  /\ lock' = NoThread
  /\ Goto(t, "idle")
  /\ op' = [op EXCEPT ![t] = "none"]
  /\ text' = [text EXCEPT ![t] = Blank]
  /\ UNCHANGED <<logs, now, history>>

\* The wall clock: time passes, or is set to any other reading.
Tick == /\ now' \in Times \ {now}
        /\ UNCHANGED <<logs, lock, pc, op, text, history>>

Body(t) == \/ AddObject(t) \/ Trim(t) \/ CountEntries(t) \/ ListEntry(t)
           \/ EndText(t) \/ RemoveAllObjects(t) \/ Unlock(t)

Next == \/ \E t \in Threads : \/ \E m \in Methods : Call(t, m)
                              \/ Lock(t)
                              \/ Body(t)
        \/ Tick

Spec == Init /\ [][Next]_vars
-----------------------------------------------------------------------------
TypeOK ==
  /\ logs \in Seq(Entry) /\ history \in Seq(Entry)
  /\ lock \in Threads \cup {NoThread}
  /\ pc \in [Threads -> {"idle", "lock", "log", "trim", "count", "list", "clearLogs", "unlock"}]
  /\ op \in [Threads -> Methods \cup {"none"}]
  /\ text \in [Threads -> Text]
  /\ now \in Times

Inside(t) == pc[t] \notin {"idle", "lock"}

\* Whoever holds the lock, and only that thread, is inside a method: two threads
\* are never inside at once, and no way out of a method keeps the lock.
MutualExclusion == \A t \in Threads : Inside(t) <=> lock = t

\* Memory stays bounded: whenever no thread is inside a method the array has
\* at most MaxEntries entries (LogCollector.m:80, "to prevent memory bloat").
BoundedLog == lock = NoThread => Len(logs) <= MaxEntries

\* The array is a run of the newest entries ever logged: the trimming, the
\* clearing and the interleaving of callers never lose an entry from the
\* middle, duplicate one or reorder them.
NewestSuffix ==
  /\ Len(logs) <= Len(history)
  /\ \A i \in DOMAIN logs : logs[i] = history[Len(history) - Len(logs) + i]

\* A finished text is a snapshot: it shows exactly the matching entries of the
\* array, and the counts printed above and below it agree with what it shows
\* (the two passes of getLogsFromLastDays: and the two reads of _logs.count).
ReportExact ==
  \A t \in Threads : pc[t] = "unlock" /\ op[t] \in Queries =>
    /\ text[t].listed = {logs[i] : i \in NewerIn(logs, text[t].cutoff)}
    /\ text[t].header = Cardinality(text[t].listed)
    /\ text[t].footer = text[t].header

\* No step changes the array while some thread is between its two passes over
\* it or in the middle of one (fast enumeration raises if it is mutated).
EnumerationStable ==
  [][(\E t \in Threads : pc[t] \in {"count", "list"}) => UNCHANGED logs]_vars

-----------------------------------------------------------------------------
\* The lock makes the object atomic: an entry is recorded, with the trimming
\* that follows it, at AddObject; a query is answered at EndText.
Adding  == \E t \in Threads : pc[t] = "trim"
Visible == IF Adding THEN Trimmed(logs) ELSE logs
Answer  == [t \in Threads |->
             IF pc[t] = "unlock" /\ op[t] \in Queries THEN {text[t].listed} ELSE {}]

Log == INSTANCE RecentLog WITH Callers <- Threads, Limit <- MaxEntries,
         Block <- TrimCount, visible <- Visible, answer <- Answer

\* The collector implements the atomic log: no interleaving of callers can be
\* told apart from calls that take effect one at a time.
Atomic == Log!LogSpec
=============================================================================
